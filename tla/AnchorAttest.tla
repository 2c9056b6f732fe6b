---------------------------- MODULE AnchorAttest ----------------------------
(***************************************************************************)
(* attest/anchor_attest.py: every night, attest the newest snapshot days   *)
(* that have no live anchor in the local ledger, one transaction a day.    *)
(* The nightly writer of the day directories, the git anchors, Base and    *)
(* the operator who rewrites a day and revokes its anchor surround it.     *)
(*                                                                         *)
(* deploy/run.sh runs the writer, then anchor.sh, then the attester, so    *)
(* the writer and the attester never run at the same time.                 *)
(***************************************************************************)
EXTENDS VerifyEvidence, FiniteSets

CONSTANTS
    MaxDay,      \* bound: the last snapshot day
    MaxPerRun,   \* ATTEST_MAX_PER_RUN
    MaxTx,       \* bound: transactions ever sent
    MaxVersion,  \* bound: versions of a file
    MaxRevoked,  \* bound: anchors ever revoked
    NoDay        \* no directory, no row, no day in work

Day == 1..MaxDay
Version == 1..MaxVersion
Content == [File -> Version \cup {Absent}]

ASSUME AttestAssumption ==
    /\ Sellers \in File
    /\ IsFiniteSet(File)
    /\ MaxDay \in Nat
    /\ MaxPerRun \in Nat \ {0}
    /\ MaxTx \in Nat
    /\ MaxVersion \in Nat \ {0}
    /\ MaxRevoked \in Nat
    /\ Absent \notin Version
    /\ NoDay \notin Day
    /\ NoDay \notin Content
    /\ NoRow \notin [files : Content, combined : Content]

VARIABLES
    today,     \* the UTC day, 0 before the first
    dir,       \* the content of each day directory, or NoDay
    writing,   \* the day that the nightly run writes, or NoDay
    git,       \* the last row of each day in the public anchors.jsonl
    txs,       \* transactions sent to Base, in order; their index is their uid
    anchored,  \* uids in snapshot_anchor rows of the local ledger
    withdrawn, \* uids in its revocation rows
    pc,        \* what the attester does next
    todo,      \* days it has not come to
    day, sha,  \* the day it attests and the hash it took
    uid,       \* the transaction it waits for
    broken     \* history variable: how often a day's transaction was left alone

worldVars == <<today, dir, writing, git>>
ledgerVars == <<anchored, withdrawn>>
runVars == <<pc, todo, day, sha, uid>>
vars == <<worldVars, txs, ledgerVars, runVars, broken>>

Empty == [f \in File |-> Absent]
Tx == [day : Day, sha : Content, st : {"pending", "live", "failed", "revoked"}]

\* Every variable holds a value of its kind, and the steps of the attester hold
\* a day, a hash and a transaction when they need one.
TypeOK ==
    /\ today \in 0..MaxDay
    /\ dir \in [Day -> Content \cup {NoDay}]
    /\ writing \in Day \cup {NoDay}
    /\ git \in [Day -> [files : Content, combined : Content] \cup {NoRow}]
    /\ txs \in Seq(Tx)
    /\ anchored \subseteq DOMAIN txs
    /\ withdrawn \subseteq anchored
    /\ pc \in {"idle", "next", "send", "wait", "append"}
    /\ todo \subseteq Day
    /\ day \in Day \cup {NoDay}
    /\ sha \in Content
    /\ uid \in Nat
    /\ broken \in [Day -> Nat]
    /\ pc \in {"send", "wait", "append"} => day \in Day
    /\ pc \in {"wait", "append"} => uid \in DOMAIN txs

Init ==
    /\ today = 0
    /\ dir = [d \in Day |-> NoDay]
    /\ writing = NoDay
    /\ git = [d \in Day |-> NoRow]
    /\ txs = <<>>
    /\ anchored = {}
    /\ withdrawn = {}
    /\ pc = "idle"
    /\ todo = {}
    /\ day = NoDay
    /\ sha = Empty
    /\ uid = 0
    /\ broken = [d \in Day |-> 0]

-----------------------------------------------------------------------------
(***************************************************************************)
(* The day directories and the git anchors.                                *)
(***************************************************************************)
\* Only the writer looks at the day, so it may as well begin between two runs of
\* the attester.
NewDay ==
    /\ pc = "idle"
    /\ today < MaxDay
    /\ today' = today + 1
    /\ UNCHANGED <<dir, writing, git, txs, ledgerVars, runVars, broken>>

\* Mutant of StartDay: a day is written again when it lacks a file.
StartDayAgain ==
    /\ pc = "idle" /\ writing = NoDay /\ today # 0
    /\ IF dir[today] = NoDay THEN TRUE ELSE \E f \in File : dir[today][f] = Absent
    /\ dir' = [dir EXCEPT ![today] = IF @ = NoDay THEN Empty ELSE @]
    /\ writing' = today
    /\ UNCHANGED <<today, git, txs, ledgerVars, runVars, broken>>

\* write_seller_snapshot makes the directory, unless the day has its aggregates.
StartDay ==
    /\ pc = "idle" /\ writing = NoDay /\ today # 0
    /\ dir[today] \in {NoDay, Empty}
    /\ dir' = [dir EXCEPT ![today] = Empty]
    /\ writing' = today
    /\ UNCHANGED <<today, git, txs, ledgerVars, runVars, broken>>

\* One more file, the aggregates first; the last one ends the snapshot.
WriteFile(f) ==
    /\ writing # NoDay
    /\ dir[writing][f] = Absent
    /\ f = Sellers \/ dir[writing][Sellers] # Absent
    /\ dir' = [dir EXCEPT ![writing][f] = 1]
    /\ writing' = IF \A g \in File : dir'[writing][g] # Absent THEN NoDay ELSE writing
    /\ UNCHANGED <<today, git, txs, ledgerVars, runVars, broken>>

KillWriter ==
    /\ writing # NoDay
    /\ writing' = NoDay
    /\ UNCHANGED <<today, dir, git, txs, ledgerVars, runVars, broken>>

\* anchor.sh: a new row for every day with files whose content the day's last
\* row does not have.
GitAnchor ==
    /\ pc = "idle" /\ writing = NoDay
    /\ git' = [d \in Day |->
                 IF dir[d] \in {NoDay, Empty} THEN git[d]
                 ELSE [files |-> dir[d], combined |-> Combined(dir[d])]]
    /\ git' # git
    /\ UNCHANGED <<today, dir, writing, txs, ledgerVars, runVars, broken>>

-----------------------------------------------------------------------------
(***************************************************************************)
(* Base.                                                                   *)
(***************************************************************************)
Mine(i, st) ==
    /\ txs[i].st = "pending"
    /\ st \in {"live", "failed"}
    /\ txs' = [txs EXCEPT ![i].st = st]
    /\ UNCHANGED <<worldVars, ledgerVars, runVars, broken>>

-----------------------------------------------------------------------------
(***************************************************************************)
(* The attester.                                                           *)
(***************************************************************************)
\* attested_dates: days with an anchor that is not revoked.
AttestedDates == {txs[i].day : i \in anchored \ withdrawn}

\* Mutant of Pending: only days behind the newest attested one.
PendingNewer == {d \in Day : dir[d] # NoDay /\ \A e \in AttestedDates : e < d}

\* Days that have a directory and no live anchor.
Pending == {d \in Day : dir[d] # NoDay} \ AttestedDates

\* The newest n days of S.
Newest(S, n) == {d \in S : Cardinality({e \in S : e > d}) < n}

\* main up to the loop; --date takes the one day, if it is pending.
StartAttest ==
    /\ pc = "idle" /\ writing = NoDay
    /\ \/ todo' = Newest(Pending, MaxPerRun)
       \/ \E d \in Pending : todo' = {d}
    /\ todo' # {}
    /\ pc' = "next"
    /\ UNCHANGED <<worldVars, txs, ledgerVars, day, sha, uid, broken>>

\* The run ends or dies.
EndRun ==
    /\ pc' = "idle"
    /\ todo' = {}
    /\ day' = NoDay
    /\ sha' = Empty
    /\ uid' = 0

\* The newest day left; combined_sha of an empty directory is None.
NextDay ==
    /\ pc = "next"
    /\ \E d \in todo :
         /\ \A e \in todo : e <= d
         /\ todo' = todo \ {d}
         /\ IF dir[d] = Empty
            THEN UNCHANGED <<pc, day, sha>>
            ELSE /\ day' = d
                 /\ sha' = Combined(dir[d])
                 /\ pc' = "send"
    /\ UNCHANGED <<worldVars, txs, ledgerVars, uid, broken>>

AllDone ==
    /\ pc = "next"
    /\ todo = {}
    /\ EndRun
    /\ UNCHANGED <<worldVars, txs, ledgerVars, broken>>

\* Mutant of Send: the transaction is looked for one place too far.
SendOffByOne ==
    /\ pc = "send"
    /\ Len(txs) < MaxTx
    /\ txs' = Append(txs, [day |-> day, sha |-> sha, st |-> "pending"])
    /\ uid' = Len(txs') + 1
    /\ pc' = "wait"
    /\ UNCHANGED <<worldVars, ledgerVars, todo, day, sha, broken>>

\* send_tx: signed, sent and answered with a hash.
Send ==
    /\ pc = "send"
    /\ Len(txs) < MaxTx
    /\ txs' = Append(txs, [day |-> day, sha |-> sha, st |-> "pending"])
    /\ uid' = Len(txs')
    /\ pc' = "wait"
    /\ UNCHANGED <<worldVars, ledgerVars, todo, day, sha, broken>>

\* send_tx raises or meets the fee cap, or the process dies, before anything is
\* sent.
NotSent ==
    /\ pc = "send"
    /\ EndRun
    /\ UNCHANGED <<worldVars, txs, ledgerVars, broken>>

\* send_tx raises after the node has taken the transaction.
SentUnknown ==
    /\ pc = "send"
    /\ Len(txs) < MaxTx
    /\ txs' = Append(txs, [day |-> day, sha |-> sha, st |-> "pending"])
    /\ broken' = [broken EXCEPT ![day] = @ + 1]
    /\ EndRun
    /\ UNCHANGED <<worldVars, ledgerVars>>

\* Mutant of Receipt: the status of the receipt is not looked at.
ReceiptAny ==
    /\ pc = "wait"
    /\ txs[uid].st \in {"live", "failed"}
    /\ pc' = "append"
    /\ UNCHANGED <<worldVars, txs, ledgerVars, todo, day, sha, uid, broken>>

\* wait_receipt returns a receipt with status 1.
Receipt ==
    /\ pc = "wait"
    /\ txs[uid].st = "live"
    /\ pc' = "append"
    /\ UNCHANGED <<worldVars, txs, ledgerVars, todo, day, sha, uid, broken>>

\* Reverted: not ledgered.
Reverted ==
    /\ pc = "wait"
    /\ txs[uid].st = "failed"
    /\ EndRun
    /\ UNCHANGED <<worldVars, txs, ledgerVars, broken>>

\* 120 seconds have passed, or the process dies before the ledger line.
LeaveAlone ==
    /\ pc \in {"wait", "append"}
    /\ EndRun
    /\ broken' = [broken EXCEPT ![day] = @ + 1]
    /\ UNCHANGED <<worldVars, txs, ledgerVars>>

\* Mutant of AppendLedger: the row is not written.
AppendLedgerSkips ==
    /\ pc = "append"
    /\ pc' = "next"
    /\ day' = NoDay
    /\ sha' = Empty
    /\ uid' = 0
    /\ UNCHANGED <<worldVars, txs, ledgerVars, todo, broken>>

\* The ledger row of an attestation.
AppendLedger ==
    /\ pc = "append"
    /\ anchored' = anchored \cup {uid}
    /\ pc' = "next"
    /\ day' = NoDay
    /\ sha' = Empty
    /\ uid' = 0
    /\ UNCHANGED <<worldVars, txs, withdrawn, todo, broken>>

\* The runbook: an operator has rewritten a day's file and revokes its anchor.
Correct(i, f) ==
    /\ pc = "idle" /\ writing = NoDay
    /\ i \in anchored \ withdrawn
    /\ Cardinality(withdrawn) < MaxRevoked
    /\ dir[txs[i].day][f] \in 1..(MaxVersion - 1)
    /\ dir' = [dir EXCEPT ![txs[i].day][f] = @ + 1]
    /\ txs' = [txs EXCEPT ![i].st = "revoked"]
    /\ withdrawn' = withdrawn \cup {i}
    /\ UNCHANGED <<today, writing, git, anchored, runVars, broken>>

Next ==
    \/ NewDay \/ StartDay \/ KillWriter \/ GitAnchor
    \/ \E f \in File : WriteFile(f)
    \/ \E i \in DOMAIN txs, st \in {"live", "failed"} : Mine(i, st)
    \/ StartAttest \/ NextDay \/ AllDone
    \/ Send \/ NotSent \/ SentUnknown \/ Receipt \/ Reverted
    \/ LeaveAlone \/ AppendLedger
    \/ \E i \in anchored, f \in File : Correct(i, f)

Spec == Init /\ [][Next]_vars

(***************************************************************************)
(* The timer starts a run every night, days and snapshots come and go, and *)
(* a transaction that is sent night after night gets through some time.    *)
(***************************************************************************)
Fairness ==
    /\ SF_vars(StartAttest /\ todo' = Newest(Pending, MaxPerRun))
    /\ WF_vars(NextDay \/ AllDone \/ Reverted) /\ WF_vars(KillWriter)
    /\ SF_vars(NextDay /\ pc' = "send") /\ SF_vars(Send) /\ SF_vars(Receipt) /\ SF_vars(AppendLedger)
    /\ WF_vars(\E i \in DOMAIN txs : Mine(i, "live"))

FairSpec == Spec /\ Fairness

-----------------------------------------------------------------------------
\* The uids that the local ledger holds as live.
LiveAnchors == anchored \ withdrawn

\* The ledger tells the truth: an anchor it holds as live is live on Base, and
\* no other anchor it holds as live is of the same day.
LedgerTrue ==
    \A i \in LiveAnchors :
        /\ txs[i].st = "live"
        /\ \A j \in LiveAnchors : txs[i].day = txs[j].day => i = j

\* "The combinedSha256 is byte-identical to the value in the public
\* anchors.jsonl" (anchor_attest.py:7) can only hold of a directory that does not
\* change behind its attestation.
AttestedIsFinal ==
    \A i \in LiveAnchors : txs[i].sha = Combined(dir[txs[i].day])

\* Only days with files are ever attested.
OnlyFilled ==
    /\ \A i \in DOMAIN txs : dir[txs[i].day] # NoDay
    /\ \A i \in LiveAnchors : txs[i].sha # Empty

\* A day that is being written has no live anchor, and the attester is not at work.
WritesAlone ==
    writing # NoDay =>
        /\ dir[writing] # NoDay
        /\ pc = "idle"
        /\ \A i \in LiveAnchors : txs[i].day # writing

\* The days ahead of the attester exist and have no live anchor.
TodoUnattested ==
    pc # "idle" => \A d \in todo : dir[d] # NoDay /\ \A i \in LiveAnchors : txs[i].day # d

\* Neither has the day in its hands, which is as it was hashed.
DayUnattested ==
    pc \in {"send", "wait", "append"} =>
        /\ day \notin todo
        /\ dir[day] # NoDay /\ sha = dir[day] /\ sha # Empty
        /\ \A i \in LiveAnchors : txs[i].day # day

\* The transaction it waits for is of that day and that hash, and live once its
\* receipt is there.
UidOfDay ==
    /\ pc \in {"wait", "append"} => uid \notin anchored /\ txs[uid].day = day /\ txs[uid].sha = sha
    /\ pc = "append" => txs[uid].st = "live"

\* Why LedgerTrue and AttestedIsFinal hold.
AttestInv ==
    TypeOK /\ LedgerTrue /\ AttestedIsFinal /\ OnlyFilled /\ WritesAlone
    /\ TodoUnattested /\ DayUnattested /\ UidOfDay

\* How far OneAttestationPerDay goes: a live attestation that the ledger does not
\* have stems from a transaction that a run stopped waiting for.
StraysExplained ==
    \A d \in Day :
        Cardinality({i \in DOMAIN txs :
            txs[i].day = d /\ txs[i].st = "live" /\ i \notin anchored /\ i # uid}) <= broken[d]

\* What verify calls verified is contained in a live attestation of that day,
\* whichever logs it got to read and whether it looked at the chain, and the evidence of every day that is attested
\* and has its git row verifies.
VerifierAgrees ==
    \A d \in Day :
        /\ \A f \in File, v \in Version, chain \in BOOLEAN, read \in SUBSET DOMAIN txs :
              Verify(git, txs, d, HashOf(f, v), chain, read) = "verified" =>
                  \E i \in read : /\ txs[i].day = d
                                 /\ txs[i].st = "live"
                                 /\ txs[i].sha[f] = v
        /\ (d \in AttestedDates /\ git[d] # NoRow /\ git[d].files = dir[d]) =>
              Verify(git, txs, d, HashOf(Sellers, dir[d][Sellers]), TRUE, DOMAIN txs) = "verified"

\* Transactions of a day that are live or may get live, that the ledger does not
\* have and nobody waits for.
Strays(d) ==
    {i \in DOMAIN txs : /\ txs[i].day = d /\ txs[i].st \in {"live", "pending"}
                        /\ i \notin anchored /\ i # uid}

\* Every stray was left alone once.
StraysCounted ==
    /\ pc \notin {"wait", "append"} => uid = 0
    /\ \A d \in Day : Cardinality(Strays(d)) <= broken[d]

\* A directory with files has the aggregates, and a git row is of one reading.
EvidenceWhole ==
    /\ \A d \in Day : dir[d] \notin {NoDay, Empty} => dir[d][Sellers] # Absent
    /\ \A d \in Day : git[d] # NoRow => git[d].combined = Combined(git[d].files)

\* "One EAS attestation per snapshot day" (anchor_attest.py:5).
OneAttestationPerDay ==
    \A i, j \in DOMAIN txs :
        txs[i].st = "live" /\ txs[j].st = "live" /\ txs[i].day = txs[j].day => i = j

\* Directories that were made and never filled take a slot of every run.
EmptyDays == {d \in Day : dir[d] = Empty}

\* Every day with files is attested in the end, unless empty directories take
\* every slot of a run or the bound on transactions is met.
EventuallyAttested ==
    \A d \in Day :
        (dir[d] \notin {NoDay, Empty})
            ~> \/ d \in AttestedDates
               \/ Cardinality(EmptyDays) >= MaxPerRun
               \/ Len(txs) = MaxTx
=============================================================================
