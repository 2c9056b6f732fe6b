-------------------------- MODULE SettlementIndex --------------------------
(***************************************************************************)
(* The gap-driven EVM indexer of indexer/index_base.py over the settlement *)
(* ledger of indexer/storage.py, for one chain.                            *)
(*                                                                         *)
(* Several operating-system processes (the nightly timer, an operator's    *)
(* manual backfill) may run the indexer on one database at the same time.  *)
(* Each run reads the start block and the safe tip, plans the uncovered    *)
(* blocks up to it, and then, one subrange after the other, reads the      *)
(* authorisation logs, reads the transfers, and commits rows and range in  *)
(* one transaction.  A run may die between any two of these steps, and the *)
(* chain grows, finalises and reorganises underneath all of them.          *)
(*                                                                         *)
(* Data abstraction: a transaction carries one authorised transfer, so a   *)
(* settlement is a transaction at a placement (block, log index); a log    *)
(* scan reads the chain at one instant; amounts, parties and timestamps    *)
(* are left out (a row without a timestamp makes the run die: Die).        *)
(***************************************************************************)
EXTENDS Integers, FiniteSets

CONSTANTS
    Runner,            \* processes that run the indexer on this database
    Tx,                \* transactions that carry an authorised transfer
    LogIndex,          \* positions a transfer's log can take in its block
    FirstHead,         \* the chain's head when the program is installed
    MaxBlock,          \* bound: the last block the chain produces
    Subrange,          \* chain.subrange
    Confirmations,     \* chain.confirmations
    Lookback,          \* chain.bootstrap_lookback_blocks
    StartBlocks,       \* the values an operator gives --start-block
    TipSources,        \* how finalized_end may derive the tip on a run
    BackfillTip,       \* an operator's --to is at most head + BackfillTip
    MaxReorgDepth,     \* how many of the newest blocks a reorg can rewrite
    UseReceipts,       \* chain.use_receipts
    ReceiptsMayBeNull, \* the RPC may answer null for a mined transaction
    NotMined,          \* placement of a transaction no block carries
    NoBlock            \* absent meta value, unset block variable

Block == 0..MaxBlock
Placement == [block : Block, log : LogIndex]
Row == [tx : Tx, log : LogIndex, block : Block]

ASSUME IndexAssumption ==
    /\ MaxBlock \in Nat
    /\ FirstHead \in 0..MaxBlock
    /\ Subrange \in Nat \ {0}
    /\ Confirmations \in Nat
    /\ Lookback \in Nat
    /\ Confirmations + Lookback <= FirstHead
    /\ StartBlocks \subseteq 0..MaxBlock
    /\ MaxReorgDepth \in Nat
    /\ BackfillTip \in Int
    /\ TipSources \subseteq {"finalized", "confirmations"}
    /\ UseReceipts \in BOOLEAN
    /\ ReceiptsMayBeNull \in BOOLEAN
    /\ NotMined \notin Placement
    /\ NoBlock \notin Int

VARIABLES
    head,        \* newest block of the chain
    finalized,   \* newest block with the finalized tag
    place,       \* where the canonical chain carries each transaction
    rows,        \* table settlements
    ranges,      \* table indexed_ranges: pairs <<from_block, to_block>>
    startMeta,   \* meta: the chain's start block
    pc,          \* what each runner does next
    boot,        \* bootstrap block a runner computed but has not stored yet
    tip,         \* end block a runner read
    todo,        \* blocks of the gaps a runner planned and has not committed
    lo, hi,      \* the subrange a runner works on
    auths,       \* transactions of the authorisation logs a runner read
    batch        \* rows a runner is about to commit

chainVars == <<head, finalized, place>>
dbVars    == <<rows, ranges, startMeta>>
runVars   == <<pc, boot, tip, todo, lo, hi, auths, batch>>
vars      == <<chainVars, dbVars, runVars>>

Steps == {"idle", "boot", "tip", "plan", "auths", "rows", "commit"}

Mined(t) == place[t] # NotMined
RowOf(t) == [tx |-> t, log |-> place[t].log, block |-> place[t].block]

\* The transactions and the settlements that the chain carries in some blocks.
TxIn(S) == {t \in Tx : Mined(t) /\ place[t].block \in S}
SettledIn(S) == {RowOf(t) : t \in TxIn(S)}

Covered == {b \in Block : \E r \in ranges : r[1] <= b /\ b <= r[2]}

\* Mutant of Frontier: resume behind the highest covered block.
FrontierOverHole(start) ==
    CHOOSE f \in {start - 1} \cup Covered :
        \A b \in {start - 1} \cup Covered : b <= f

\* covered_frontier: the resume point never jumps over a hole.
Frontier(start) ==
    CHOOSE f \in (start - 1)..MaxBlock :
        /\ start..f \subseteq Covered
        /\ f + 1 \notin Covered

\* The blocks of find_gaps(start, end).
Uncovered(start, end) == {b \in Block : start <= b /\ b <= end} \ Covered

(***************************************************************************)
(* The subrange run() takes next out of the planned blocks: it starts at   *)
(* the lowest one and stays inside that block's gap.                       *)
(***************************************************************************)
IsNextSubrange(S, l, h) ==
    /\ l \in S
    /\ \A b \in S : l <= b
    /\ h \in l..(l + Subrange - 1)
    /\ l..h \subseteq S
    /\ h = l + Subrange - 1 \/ h + 1 \notin S

\* INSERT OR IGNORE on the primary key (tx_hash, log_index).
InsertOrIgnore(table, new) ==
    table \cup {x \in new : \A y \in table : ~(y.tx = x.tx /\ y.log = x.log)}

\* A run that has chosen a subrange.
Working(r) == pc[r] \in {"auths", "rows", "commit"}

-----------------------------------------------------------------------------
\* Every variable holds a value of its kind, and a run that works on a
\* subrange has one.
TypeOK ==
    /\ head \in FirstHead..MaxBlock
    /\ finalized \in Block
    /\ finalized <= head
    /\ place \in [Tx -> Placement \cup {NotMined}]
    /\ rows \subseteq Row
    /\ ranges \subseteq Block \X Block
    /\ startMeta \in Block \cup {NoBlock}
    /\ pc \in [Runner -> Steps]
    /\ boot \in [Runner -> Block \cup {NoBlock}]
    /\ tip \in [Runner -> Block \cup {NoBlock}]
    /\ todo \in [Runner -> SUBSET Block]
    /\ lo \in [Runner -> Block \cup {NoBlock}]
    /\ hi \in [Runner -> Block \cup {NoBlock}]
    /\ auths \in [Runner -> SUBSET Tx]
    /\ batch \in [Runner -> SUBSET Row]
    /\ \A r \in Runner : Working(r) => lo[r] \in Block /\ hi[r] \in Block

Init ==
    /\ head = FirstHead
    /\ finalized = 0
    /\ place = [t \in Tx |-> NotMined]
    /\ rows = {}
    /\ ranges = {}
    /\ startMeta = NoBlock
    /\ pc = [r \in Runner |-> "idle"]
    /\ boot = [r \in Runner |-> NoBlock]
    /\ tip = [r \in Runner |-> NoBlock]
    /\ todo = [r \in Runner |-> {}]
    /\ lo = [r \in Runner |-> NoBlock]
    /\ hi = [r \in Runner |-> NoBlock]
    /\ auths = [r \in Runner |-> {}]
    /\ batch = [r \in Runner |-> {}]

-----------------------------------------------------------------------------
(***************************************************************************)
(* The chain.                                                              *)
(***************************************************************************)
Mine ==
    /\ head < MaxBlock
    /\ head' = head + 1
    /\ \E new \in SUBSET {t \in Tx : ~Mined(t)} : \E log \in [new -> LogIndex] :
          place' = [t \in Tx |->
                      IF t \in new THEN [block |-> head + 1, log |-> log[t]]
                                   ELSE place[t]]
    /\ UNCHANGED <<finalized, dbVars, runVars>>

Finalize ==
    /\ finalized < head
    /\ finalized' = finalized + 1
    /\ UNCHANGED <<head, place, dbVars, runVars>>

\* Blocks no reorganisation can rewrite any more.
Stable(b) == b <= finalized \/ b <= head - MaxReorgDepth

\* The unstable suffix is rebuilt: its transactions move, drop out or appear.
Reorg ==
    /\ LET loose == {t \in Tx : Mined(t) => ~Stable(place[t].block)}
           fresh == {b \in Block : b <= head /\ ~Stable(b)}
       IN \E moved \in [loose -> [block : fresh, log : LogIndex] \cup {NotMined}] :
             place' = [t \in Tx |-> IF t \in loose THEN moved[t] ELSE place[t]]
    /\ UNCHANGED <<head, finalized, dbVars, runVars>>

-----------------------------------------------------------------------------
(***************************************************************************)
(* One run of the indexer.                                                 *)
(***************************************************************************)
\* Mutant of StartRun: the lookback is subtracted once more for the reorgs.
StartRunTooFarBack(r) ==
    /\ pc[r] = "idle"
    /\ boot' = [boot EXCEPT ![r] = head - 2 * (Confirmations + Lookback)]
    /\ pc' = [pc EXCEPT ![r] = IF startMeta = NoBlock THEN "boot" ELSE "tip"]
    /\ UNCHANGED <<chainVars, dbVars, tip, todo, lo, hi, auths, batch>>

\* main: without a stored start block the run takes the operator's, or
\* computes one from the head.
StartRun(r) ==
    /\ pc[r] = "idle"
    /\ IF startMeta = NoBlock
       THEN /\ \E b \in {head - Confirmations - Lookback} \cup StartBlocks :
                  boot' = [boot EXCEPT ![r] = b]
            /\ pc' = [pc EXCEPT ![r] = "boot"]
       ELSE /\ pc' = [pc EXCEPT ![r] = "tip"]
            /\ UNCHANGED boot
    /\ UNCHANGED <<chainVars, dbVars, tip, todo, lo, hi, auths, batch>>

\* main: set_meta upserts, also over a value stored since it was read.
StoreStart(r) ==
    /\ pc[r] = "boot"
    /\ startMeta' = boot[r]
    /\ boot' = [boot EXCEPT ![r] = NoBlock]
    /\ pc' = [pc EXCEPT ![r] = "tip"]
    /\ UNCHANGED <<chainVars, rows, ranges, tip, todo, lo, hi, auths, batch>>

\* Mutant of ReadTip: the tip is the head.
ReadTipAtHead(r) ==
    /\ pc[r] = "tip"
    /\ tip' = [tip EXCEPT ![r] = head]
    /\ pc' = [pc EXCEPT ![r] = "plan"]
    /\ UNCHANGED <<chainVars, dbVars, boot, todo, lo, hi, auths, batch>>

\* main --to-head with finalized_end: the finalized height, or the fallback.
ReadTip(r) ==
    /\ pc[r] = "tip"
    /\ \E src \in TipSources :
          tip' = [tip EXCEPT ![r] = IF src = "finalized" THEN finalized
                                                         ELSE head - Confirmations]
    /\ pc' = [pc EXCEPT ![r] = "plan"]
    /\ UNCHANGED <<chainVars, dbVars, boot, todo, lo, hi, auths, batch>>

\* Work on the next subrange of S, or end the run when nothing is left.
Proceed(r, S) ==
    /\ todo' = [todo EXCEPT ![r] = S]
    /\ auths' = [auths EXCEPT ![r] = {}]
    /\ batch' = [batch EXCEPT ![r] = {}]
    /\ tip' = [tip EXCEPT ![r] = NoBlock]
    /\ IF S = {}
       THEN /\ pc' = [pc EXCEPT ![r] = "idle"]
            /\ lo' = [lo EXCEPT ![r] = NoBlock]
            /\ hi' = [hi EXCEPT ![r] = NoBlock]
       ELSE /\ pc' = [pc EXCEPT ![r] = "auths"]
            /\ \E l, h \in Block :
                  /\ IsNextSubrange(S, l, h)
                  /\ lo' = [lo EXCEPT ![r] = l]
                  /\ hi' = [hi EXCEPT ![r] = h]

\* main --to-head, run: plan the gaps between the frontier and the tip.
Plan(r) ==
    /\ pc[r] = "plan"
    /\ LET resume == Frontier(startMeta) + 1
       IN Proceed(r, Uncovered(resume, tip[r]))
    /\ UNCHANGED <<chainVars, dbVars, boot>>

\* main --from A --to B, run: plan the gaps of an operator's range.
Backfill(r) ==
    /\ pc[r] = "tip"
    /\ \E from \in Block, to \in Block :
          /\ to <= head + BackfillTip
          /\ Proceed(r, Uncovered(from, to))
    /\ UNCHANGED <<chainVars, dbVars, boot>>

\* Mutant of ReadAuths: the scan treats the subrange's end as exclusive.
ReadAuthsExclusive(r) ==
    /\ pc[r] = "auths"
    /\ auths' = [auths EXCEPT ![r] = TxIn(lo[r]..(hi[r] - 1))]
    /\ pc' = [pc EXCEPT ![r] = "rows"]
    /\ UNCHANGED <<chainVars, dbVars, boot, tip, todo, lo, hi, batch>>

\* index_subrange, first scan: the transactions with an authorisation log.
ReadAuths(r) ==
    /\ pc[r] = "auths"
    /\ auths' = [auths EXCEPT ![r] = TxIn(lo[r]..hi[r])]
    /\ pc' = [pc EXCEPT ![r] = IF TxIn(lo[r]..hi[r]) = {} THEN "commit"
                                                           ELSE "rows"]
    /\ UNCHANGED <<chainVars, dbVars, boot, tip, todo, lo, hi, batch>>

\* index_subrange, second scan: the authorised transfers in the subrange.
ScanTransfers(r) ==
    /\ pc[r] = "rows"
    /\ ~UseReceipts
    /\ batch' = [batch EXCEPT ![r] =
                    {RowOf(t) : t \in auths[r] \cap TxIn(lo[r]..hi[r])}]
    /\ pc' = [pc EXCEPT ![r] = "commit"]
    /\ UNCHANGED <<chainVars, dbVars, boot, tip, todo, lo, hi, auths>>

\* index_subrange with receipts: a transaction whose receipt is null is skipped.
FetchReceipts(r) ==
    /\ pc[r] = "rows"
    /\ UseReceipts
    /\ \E got \in SUBSET {t \in auths[r] : Mined(t)} :
          /\ ReceiptsMayBeNull \/ got = {t \in auths[r] : Mined(t)}
          /\ batch' = [batch EXCEPT ![r] = {RowOf(t) : t \in got}]
    /\ pc' = [pc EXCEPT ![r] = "commit"]
    /\ UNCHANGED <<chainVars, dbVars, boot, tip, todo, lo, hi, auths>>

\* Mutant of CommitRange: the range is committed and the rows are left to a
\* transaction that never comes.
CommitRangeAlone(r) ==
    /\ pc[r] = "commit"
    /\ ranges' = ranges \cup {<<lo[r], hi[r]>>}
    /\ Proceed(r, todo[r] \ (lo[r]..hi[r]))
    /\ UNCHANGED <<chainVars, rows, startMeta, boot>>

\* commit_range: rows and range in one transaction, then on to the next one.
CommitRange(r) ==
    /\ pc[r] = "commit"
    /\ rows' = InsertOrIgnore(rows, batch[r])
    /\ ranges' = ranges \cup {<<lo[r], hi[r]>>}
    /\ Proceed(r, todo[r] \ (lo[r]..hi[r]))
    /\ UNCHANGED <<chainVars, startMeta, boot>>

\* An RPC error, a missing timestamp, a rolled-back commit, a kill: local
\* state is gone, and whatever was committed stays.
Die(r) ==
    /\ pc[r] # "idle"
    /\ pc' = [pc EXCEPT ![r] = "idle"]
    /\ boot' = [boot EXCEPT ![r] = NoBlock]
    /\ tip' = [tip EXCEPT ![r] = NoBlock]
    /\ todo' = [todo EXCEPT ![r] = {}]
    /\ lo' = [lo EXCEPT ![r] = NoBlock]
    /\ hi' = [hi EXCEPT ![r] = NoBlock]
    /\ auths' = [auths EXCEPT ![r] = {}]
    /\ batch' = [batch EXCEPT ![r] = {}]
    /\ UNCHANGED <<chainVars, dbVars>>

-----------------------------------------------------------------------------
RunStep(r) ==
    \/ StartRun(r) \/ StoreStart(r) \/ ReadTip(r) \/ Plan(r)
    \/ ReadAuths(r) \/ ScanTransfers(r) \/ FetchReceipts(r) \/ CommitRange(r)

Next ==
    \/ Mine \/ Finalize \/ Reorg
    \/ \E r \in Runner : RunStep(r) \/ Backfill(r) \/ Die(r)

Spec == Init /\ [][Next]_vars

(***************************************************************************)
(* The chain keeps growing and finalising; the timer starts a run every    *)
(* night, a started process gets to compute and store a start block, and a *)
(* run that dies now and then does not die at the same step every night.   *)
(* Nothing is assumed of operators' backfills, reorganisations or deaths.  *)
(***************************************************************************)
Fairness ==
    /\ WF_vars(Mine) /\ WF_vars(Finalize)
    /\ \A r \in Runner :
          /\ WF_vars(StartRun(r))
          /\ SF_vars(StoreStart(r)) /\ SF_vars(ReadTip(r)) /\ SF_vars(Plan(r))
          /\ SF_vars(ReadAuths(r)) /\ SF_vars(CommitRange(r))
          /\ SF_vars(ScanTransfers(r)) /\ SF_vars(FetchReceipts(r))

FairSpec == Spec /\ Fairness

-----------------------------------------------------------------------------
(***************************************************************************)
(* What a deployment must respect for the ledger to be exact.              *)
(***************************************************************************)
SafeDeployment ==
    /\ "confirmations" \in TipSources => MaxReorgDepth <= Confirmations
    /\ BackfillTip <= -MaxReorgDepth
    /\ ReceiptsMayBeNull = FALSE

\* The ledger holds exactly the canonical chain's settlements of the blocks
\* that indexed_ranges vouches for: whatever runs overlap, die or race a
\* reorganisation, nothing is missing, orphaned or counted twice
\* (storage.py's two properties together).
LedgerExact == rows = SettledIn(Covered)

\* A block that indexed_ranges records as complete is complete: "records only
\* ranges we confirmed complete and committed" (storage.py:10).
NothingSilentlyMissing == SettledIn(Covered) \subseteq rows

\* One transfer is counted once: "re-processing any block range - after a
\* crash, a retry, a reorg re-scan - can never double-count" (storage.py:6).
NoDoubleCount == \A x, y \in rows : x.tx = y.tx => x = y

\* Every block from the start block on that is final and deep enough ends up
\* in the ledger, however many runs die on the way.
EventuallyIndexed ==
    \A b \in Block :
        (startMeta # NoBlock /\ startMeta <= b /\ b <= finalized
                             /\ b <= head - Confirmations)
            ~> (b \in Covered)

\* What a run holds between two of its steps still agrees with the chain: the
\* blocks up to its tip and in its plan are final, its subrange is part of the
\* plan, the authorisations it read are all there are, and so is the batch it
\* is about to commit.
RunExact(r) ==
    /\ pc[r] = "plan" => tip[r] # NoBlock
    /\ tip[r] # NoBlock => \A b \in Block : b <= tip[r] => Stable(b)
    /\ \A b \in todo[r] : Stable(b)
    /\ Working(r) => lo[r]..hi[r] \subseteq todo[r]
    /\ pc[r] = "auths" => batch[r] = {}
    /\ pc[r] = "rows" => auths[r] = TxIn(lo[r]..hi[r])
    /\ pc[r] = "commit" => batch[r] = SettledIn(lo[r]..hi[r])

\* The inductive invariant: the ledger is exact, no reorganisation that the
\* network still allows reaches under a committed range, and no run in flight
\* holds anything its commit would turn into a wrong ledger.
IndexInv ==
    /\ LedgerExact
    /\ \A b \in Covered : Stable(b)
    /\ \A r \in Runner : RunExact(r)

-----------------------------------------------------------------------------
FinalBlock == IF finalized >= head - MaxReorgDepth THEN finalized
                                                   ELSE head - MaxReorgDepth

Ledger == INSTANCE SettlementLedger WITH
    final <- FinalBlock,
    settled <- SettledIn(0..FinalBlock),
    recorded <- Covered,
    ledger <- rows

\* The indexer implements the abstract ledger: every step of every process is
\* a block settling, a set of final blocks recorded in one go, or invisible.
ImplementsLedger == Ledger!LedgerSpec
=============================================================================
