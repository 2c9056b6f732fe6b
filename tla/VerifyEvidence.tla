--------------------------- MODULE VerifyEvidence ---------------------------
(***************************************************************************)
(* conformance/verify_evidence.py: from the hash of an evidence file back  *)
(* to the public anchor record of its day and to an attestation on Base.   *)
(*                                                                         *)
(* Data abstraction: hashes do not collide, so the hash of version v of    *)
(* the file f is <<f, v>>, and the combined hash of a day is its content,  *)
(* the version of each file (Absent: there is no such file).  Of the rows  *)
(* of anchors.jsonl only the last one of a day is kept, the one that       *)
(* find_snapshot_anchor takes; rows[day] is NoRow when there is none.      *)
(***************************************************************************)
EXTENDS Naturals, Sequences

CONSTANTS File, Sellers, Absent, NoRow

HashOf(f, v) == <<f, v>>

\* recompute_combined_sha256 over files_sha256.
Combined(files) == files

\* The hash is that of the expected file or of any other file of the record.
Matches(row, hash) == \E f \in File : row.files[f] # Absent /\ hash = HashOf(f, row.files[f])

\* Attestations of the scanned logs that decode to this day and content; a log
\* whose attestation cannot be read is passed over.
Candidates(txs, scanned, day, sha) ==
    {i \in scanned : txs[i].st \in {"live", "revoked"} /\ txs[i].day = day /\ txs[i].sha = sha}

\* Mutant of Chosen: a revoked attestation does as well.
ChosenAny(txs, found) ==
    IF found # {} THEN "verified" ELSE "no_match"

\* A live attestation wins over revoked ones, wherever it is in the list.
Chosen(txs, found) ==
    IF \E i \in found : txs[i].st = "live" THEN "verified"
    ELSE IF found # {} THEN "revoked"
    ELSE "no_match"

\* verify: the steps in their order, each of which may end it.  With --no-chain
\* the record is all it looks at, and it says so.
Verify(rows, txs, day, hash, checkChain, scanned) ==
    IF rows[day] = NoRow THEN "no_date"
    ELSE IF ~Matches(rows[day], hash) THEN "no_file"
    ELSE IF Combined(rows[day].files) # rows[day].combined THEN "inconsistent"
    ELSE IF ~checkChain THEN "unchecked"
    ELSE Chosen(txs, Candidates(txs, scanned, day, rows[day].combined))
=============================================================================
