----------------------------- MODULE DashboardBlob -----------------------------
(***************************************************************************)
(* The publish step of the nightly run (store_dashboard_metrics of         *)
(* indexer/daily_snapshot.py): a row of queries over one Postgres          *)
(* connection, from which one blob is put together and stored.  A query    *)
(* that fails aborts the transaction; the handlers roll back, carry the    *)
(* last published figures forward, or leave a gap.                         *)
(*                                                                         *)
(* A figure is the night on which it was measured, 0 where it is missing.  *)
(***************************************************************************)
EXTENDS Integers, Sequences, FiniteSets

CONSTANTS
    ChainOrder,  \* the chains in the order of the code
    Scopable,    \* chains with relayers in the registry
    Ladder,      \* _SELLER_INDEX_CHAINS
    Sections,    \* the sections of build_instr_metrics, in order
    NoBlob,      \* nothing has been published yet
    MaxNight,    \* bound: nights
    MaxFault     \* bound: queries that fail, and deaths

ToSet(s) == {s[i] : i \in DOMAIN s}
BlobChain == ToSet(ChainOrder)
Section == ToSet(Sections)
Night == 1..MaxNight

ASSUME BlobAssumption ==
    /\ ChainOrder \in Seq(BlobChain)
    /\ \A i, j \in DOMAIN ChainOrder : ChainOrder[i] = ChainOrder[j] => i = j
    /\ Scopable \subseteq BlobChain
    /\ Ladder \in Seq(Scopable) /\ Ladder # <<>>
    /\ Sections \in Seq(Section)
    /\ MaxNight \in Nat \ {0} /\ MaxFault \in Nat

Each(op, s) == [i \in DOMAIN s |-> <<op, s[i]>>]

\* The queries of a publish step.
Program ==
    <<<<"limit", "">>>> \o Each("scoped", ChainOrder) \o <<<<"prior", "">>>>
    \o Each("merchant", ChainOrder)
    \o <<<<"kinds", "">>, <<"clean", "">>, <<"since", "">>, <<"counts", "">>>>
    \o Each("section", Sections)
    \o <<<<"witnessed", "">>, <<"priorTiers", "">>>> \o Each("tier", Ladder)
    \o <<<<"store", "">>>>
Step == ToSet(Program)
StoreAt == Len(Program)

\* The places of the queries in Program.
PriorAt == Len(ChainOrder) + 2
KindsAt == 2 * Len(ChainOrder) + 3
CountsAt == KindsAt + 3
WitnessedAt == CountsAt + Len(Sections) + 1

VARIABLES
    night,    \* the night of the run
    blob,     \* meta dashboard_metrics
    query,    \* the query in work; 0 between publish steps
    txn,      \* "clean" or "aborted"
    draft,    \* what the step has put together
    failed,   \* history variable: queries of the step that failed by themselves
    ended,    \* how the last step ended
    faults

blobVars == <<night, blob, query, txn, draft, failed, ended, faults>>

\* One chain's part of the blob.  Payer kinds and clean volume are left out.
NoRow == [scoped |-> 0, merchant |-> 0]
Row == [scoped : 0..MaxNight, merchant : 0..MaxNight]

\* A note of "stale_chains": section, chain, whether a figure was carried forward.
Note == {"scoped", "merchant", "tier"} \X BlobChain \X BOOLEAN

NoRows == [c \in BlobChain |-> NoRow]
NoTiers == [c \in ToSet(Ladder) |-> 0]
EmptyDraft ==
    [rows |-> NoRows, priorRows |-> NoRows, tiers |-> NoTiers, priorTiers |-> NoTiers,
     instr |-> [s \in Section |-> 0], index |-> TRUE, stale |-> {}]

Drafts ==
    [rows : [BlobChain -> Row], priorRows : [BlobChain -> Row],
     tiers : [ToSet(Ladder) -> 0..MaxNight], priorTiers : [ToSet(Ladder) -> 0..MaxNight],
     instr : [Section -> 0..MaxNight], index : BOOLEAN, stale : SUBSET Note]

Blobs ==
    [night : Night, rows : [BlobChain -> Row], tiers : [ToSet(Ladder) -> 0..MaxNight],
     instr : [Section -> 0..MaxNight], index : BOOLEAN, stale : SUBSET Note]

BlobInit ==
    /\ night = 1
    /\ blob = NoBlob
    /\ query = 0
    /\ txn = "clean"
    /\ draft = EmptyDraft
    /\ failed = {}
    /\ ended = "never"
    /\ faults = 0

BlobTypeOK ==
    /\ night \in Night
    /\ blob = NoBlob \/ blob \in Blobs
    /\ query \in 0..StoreAt
    /\ txn \in {"clean", "aborted"}
    /\ draft \in Drafts
    /\ failed \subseteq Step
    /\ ended \in {"never", "published", "unpublished", "killed"}
    /\ faults \in 0..MaxFault

-----------------------------------------------------------------------------
NextNight ==
    /\ query = 0
    /\ night < MaxNight
    /\ night' = night + 1
    /\ UNCHANGED <<blob, query, txn, draft, failed, ended, faults>>

\* store_dashboard_metrics, on the connection of the run.
StartPublish ==
    /\ query = 0
    /\ query' = 1
    /\ txn' = "clean"
    /\ failed' = {}
    /\ UNCHANGED <<night, blob, draft, ended, faults>>

At(op) == query # 0 /\ Program[query][1] = op
Subject == Program[query][2]

\* The query in work succeeds, fails by itself, or finds the transaction aborted.
Runs(ok) ==
    \/ ok /\ txn = "clean" /\ UNCHANGED <<failed, faults>>
    \/ ~ok /\ txn = "aborted" /\ UNCHANGED <<failed, faults>>
    \/ /\ ~ok /\ txn = "clean" /\ faults < MaxFault
       /\ faults' = faults + 1
       /\ failed' = failed \cup {Program[query]}

On(d) == query' = query + 1 /\ draft' = d /\ UNCHANGED <<night, blob, ended>>

\* Both outcomes leave a usable transaction: the handler rolls back.
Guarded(ok) == Runs(ok) /\ txn' = "clean"

\* The handler swallows the exception and does not roll back.
Swallowed(ok) == Runs(ok) /\ txn' = IF ok THEN txn ELSE "aborted"

\* The exception reaches store_dashboard_metrics: nothing is stored.
Abandon ==
    /\ query' = 0
    /\ ended' = "unpublished"
    /\ draft' = EmptyDraft
    /\ UNCHANGED <<night, blob>>

Limit == At("limit") /\ \E ok \in BOOLEAN : Guarded(ok) /\ On(draft)

\* Mutant of Scoped: a failed chain spoils the next one.
ScopedSwallowed ==
    /\ At("scoped")
    /\ \E ok \in BOOLEAN :
          /\ Swallowed(ok)
          /\ On([draft EXCEPT !.rows[Subject].scoped = IF ok THEN night ELSE 0])

\* build_x402_scoped, one chain.
Scoped ==
    /\ At("scoped")
    /\ \E ok \in BOOLEAN :
          /\ Guarded(ok)
          /\ On([draft EXCEPT !.rows[Subject].scoped = IF ok THEN night ELSE 0])

\* A chain without a fresh row takes over the last published one, if that is
\* a row at all.
CarriedRows(rows, prior) ==
    [c \in BlobChain |-> IF rows[c].scoped = 0 /\ prior[c].scoped # 0
                     THEN prior[c] ELSE rows[c]]
CarriedNotes(rows, prior) ==
    {<<"scoped", c, prior[c].scoped # 0>> : c \in {d \in BlobChain : rows[d].scoped = 0}}

\* _prior_dashboard_blob and the loop over the scoped figures.
Prior ==
    /\ At("prior")
    /\ \E ok \in BOOLEAN :
          /\ Swallowed(ok)
          /\ LET prior == IF ok /\ blob # NoBlob THEN blob.rows ELSE NoRows
             IN On([draft EXCEPT !.priorRows = prior,
                                 !.rows = CarriedRows(@, prior),
                                 !.stale = CarriedNotes(draft.rows, prior)])

\* The merchant tier of one chain; a carried row is brought up to date too.
Merchant ==
    /\ At("merchant")
    /\ IF Subject \notin Scopable \/ draft.rows[Subject].scoped = 0
       THEN On(draft) /\ UNCHANGED <<txn, failed, faults>>
       ELSE \E ok \in BOOLEAN :
               /\ Guarded(ok)
               /\ LET old == draft.priorRows[Subject].merchant
                  IN On(IF ok THEN [draft EXCEPT !.rows[Subject].merchant = night]
                        ELSE [draft EXCEPT
                                !.rows[Subject].merchant = IF old # 0 THEN old ELSE @,
                                !.stale = @ \cup {<<"merchant", Subject, old # 0>>}])

\* The payer kinds, chain by chain.
PayerKinds == At("kinds") /\ \E ok \in BOOLEAN : Guarded(ok) /\ On(draft)

\* Mutant of Clean: as it was before its handler rolled back.
CleanSwallowed == At("clean") /\ \E ok \in BOOLEAN : Swallowed(ok) /\ On(draft)

\* The newest clean volumes.
Clean == At("clean") /\ \E ok \in BOOLEAN : Guarded(ok) /\ On(draft)

\* _fmt_since: no handler of its own.
Since ==
    /\ At("since")
    /\ \E ok \in BOOLEAN :
          /\ Guarded(ok)
          /\ IF ok THEN On(draft) ELSE Abandon

\* The size of the database, the number of rows.
Counts == At("counts") /\ \E ok \in BOOLEAN : Guarded(ok) /\ On(draft)

\* A section of build_instr_metrics.
InstrSection ==
    /\ At("section")
    /\ \E ok \in BOOLEAN :
          /\ Swallowed(ok)
          /\ On([draft EXCEPT !.instr[Subject] = IF ok THEN night ELSE 0])

\* build_seller_index: _witnessed_filter stands outside its handlers.
Witnessed ==
    /\ At("witnessed")
    /\ \E ok \in BOOLEAN :
          /\ Guarded(ok)
          /\ IF ok THEN On(draft)
             ELSE /\ query' = StoreAt
                  /\ draft' = [draft EXCEPT !.index = FALSE]
                  /\ UNCHANGED <<night, blob, ended>>

PriorTiers ==
    /\ At("priorTiers")
    /\ \E ok \in BOOLEAN :
          /\ Swallowed(ok)
          /\ On([draft EXCEPT !.priorTiers =
                    IF ok /\ blob # NoBlob /\ blob.index THEN blob.tiers ELSE NoTiers])

\* build_seller_index, one chain.
Tier ==
    /\ At("tier")
    /\ \E ok \in BOOLEAN :
          /\ Guarded(ok)
          /\ LET old == draft.priorTiers[Subject]
             IN On(IF ok THEN [draft EXCEPT !.tiers[Subject] = night]
                   ELSE [draft EXCEPT !.tiers[Subject] = old,
                                      !.stale = @ \cup {<<"tier", Subject, old # 0>>}])

\* set_meta: one statement, committed.
Store ==
    /\ At("store")
    /\ \E ok \in BOOLEAN :
          /\ Guarded(ok)
          /\ IF ok
             THEN /\ blob' = [night |-> night, rows |-> draft.rows, tiers |-> draft.tiers,
                              instr |-> draft.instr, index |-> draft.index,
                              stale |-> draft.stale]
                  /\ query' = 0
                  /\ ended' = "published"
                  /\ draft' = EmptyDraft
                  /\ UNCHANGED night
             ELSE Abandon

\* The process is killed, by its time limit for instance.
Killed ==
    /\ query # 0
    /\ faults < MaxFault
    /\ faults' = faults + 1
    /\ query' = 0
    /\ txn' = "clean"
    /\ ended' = "killed"
    /\ draft' = EmptyDraft
    /\ UNCHANGED <<night, blob, failed>>

Querying ==
    \/ Limit \/ Scoped \/ Prior \/ Merchant \/ PayerKinds \/ Clean \/ Since \/ Counts
    \/ InstrSection \/ Witnessed \/ PriorTiers \/ Tier \/ Store

Publishing == NextNight \/ StartPublish \/ Querying \/ Killed
=============================================================================
