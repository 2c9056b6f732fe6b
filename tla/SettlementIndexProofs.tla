----------------------- MODULE SettlementIndexProofs -----------------------
(***************************************************************************)
(* For any number of runners, transactions, blocks and subranges: the      *)
(* indexer's state is well typed, and in a safe deployment its ledger is   *)
(* exact and implements the abstract ledger.                               *)
(*                                                                         *)
(* The argument: only blocks no reorganisation can reach are ever planned  *)
(* (IndexInv), the chain's own steps leave such blocks *)
(* alone (ChainKeepsStable), so what a run read is still true when it      *)
(* commits, and a commit adds exactly the settlements of its range.        *)
(***************************************************************************)
EXTENDS SettlementIndex, TLAPS

-----------------------------------------------------------------------------
(***************************************************************************)
(* Type correctness.                                                       *)
(***************************************************************************)
\* Going on with the next subrange keeps a run's variables well typed.
LEMMA ProceedType ==
    ASSUME TypeOK, NEW r \in Runner, NEW S \in SUBSET Block, Proceed(r, S)
    PROVE  /\ pc' \in [Runner -> Steps]
           /\ tip' \in [Runner -> Block \cup {NoBlock}]
           /\ todo' \in [Runner -> SUBSET Block]
           /\ lo' \in [Runner -> Block \cup {NoBlock}]
           /\ hi' \in [Runner -> Block \cup {NoBlock}]
           /\ auths' \in [Runner -> SUBSET Tx]
           /\ batch' \in [Runner -> SUBSET Row]
           /\ \A q \in Runner : Working(q)' => lo'[q] \in Block /\ hi'[q] \in Block
<1>1. CASE S = {}
  BY <1>1 DEF TypeOK, Proceed, Steps, Working
<1>2. CASE S # {}
  <2>1. PICK l \in Block, h \in Block :
           /\ lo' = [lo EXCEPT ![r] = l]
           /\ hi' = [hi EXCEPT ![r] = h]
    BY <1>2 DEF Proceed
  <2>2. QED
    BY <1>2, <2>1 DEF TypeOK, Proceed, Steps, Working
<1>3. QED
  BY <1>1, <1>2

\* Every mined transaction is a well-typed settlement row.
LEMMA RowOfType ==
    ASSUME TypeOK, NEW t \in Tx, Mined(t)
    PROVE  /\ place[t].block \in Block
           /\ RowOf(t) \in Row
BY DEF TypeOK, Mined, RowOf, Row, Placement

LEMMA SettledInType ==
    ASSUME TypeOK, NEW S
    PROVE  /\ TxIn(S) \subseteq Tx
           /\ SettledIn(S) \subseteq Row
BY RowOfType DEF TxIn, SettledIn

LEMMA InitType == Init => TypeOK
BY IndexAssumption DEF Init, TypeOK, Block, Steps, Working

LEMMA NextType == TypeOK /\ [Next]_vars => TypeOK'
<1> SUFFICES ASSUME TypeOK, [Next]_vars
             PROVE  TypeOK'
  OBVIOUS
<1> USE IndexAssumption DEF Working
<1>1. CASE Mine
  <2>1. head' \in FirstHead..MaxBlock /\ finalized <= head' /\ head + 1 \in Block
    BY <1>1 DEF Mine, TypeOK, Block
  <2>2. place' \in [Tx -> Placement \cup {NotMined}]
    <3> PICK new \in SUBSET {t \in Tx : ~Mined(t)} :
           \E log \in [new -> LogIndex] :
              place' = [t \in Tx |->
                          IF t \in new THEN [block |-> head + 1, log |-> log[t]]
                                       ELSE place[t]]
      BY <1>1 DEF Mine
    <3>1. PICK log \in [new -> LogIndex] :
             place' = [t \in Tx |->
                         IF t \in new THEN [block |-> head + 1, log |-> log[t]]
                                      ELSE place[t]]
      OBVIOUS
    <3>2. \A t \in new : [block |-> head + 1, log |-> log[t]] \in Placement
      BY <2>1 DEF Placement
    <3>3. QED
      BY <3>1, <3>2 DEF TypeOK
  <2>3. QED
    BY <1>1, <2>1, <2>2 DEF Mine, TypeOK, dbVars, runVars
<1>2. CASE Finalize
  BY <1>2 DEF Finalize, TypeOK, Block, dbVars, runVars
<1>3. CASE Reorg
  <2>1. place' \in [Tx -> Placement \cup {NotMined}]
    BY <1>3 DEF Reorg, TypeOK, Placement, Block
  <2>2. QED
    BY <1>3, <2>1 DEF Reorg, TypeOK, dbVars, runVars
<1>4. ASSUME NEW r \in Runner, RunStep(r) \/ Backfill(r) \/ Die(r)
      PROVE  TypeOK'
  <2>1. CASE StartRun(r)
    <3>1. head - Confirmations - Lookback \in Block
      BY DEF TypeOK, Block
    <3>2. boot' \in [Runner -> Block \cup {NoBlock}]
      BY <2>1, <3>1 DEF StartRun, TypeOK, Block
    <3>3. QED
      BY <2>1, <3>2 DEF StartRun, TypeOK, chainVars, dbVars, Steps
  <2>2. CASE StoreStart(r)
    BY <2>2 DEF StoreStart, TypeOK, chainVars, Steps
  <2>3. CASE ReadTip(r)
    <3>1. finalized \in Block /\ head - Confirmations \in Block
      BY DEF TypeOK, Block
    <3>2. QED
      BY <2>3, <3>1 DEF ReadTip, TypeOK, chainVars, dbVars, Steps
  <2>4. CASE Plan(r)
    <3>1. Uncovered(Frontier(startMeta) + 1, tip[r]) \in SUBSET Block
      BY DEF Uncovered
    <3>2. QED
      BY <2>4, <3>1, ProceedType DEF Plan, TypeOK, chainVars, dbVars
  <2>5. CASE ReadAuths(r)
    BY <2>5, SettledInType DEF ReadAuths, TypeOK, chainVars, dbVars, Steps
  <2>6. CASE ScanTransfers(r)
    <3>1. {RowOf(t) : t \in auths[r] \cap TxIn(lo[r]..hi[r])} \in SUBSET Row
      BY RowOfType DEF TxIn
    <3>2. QED
      BY <2>6, <3>1 DEF ScanTransfers, TypeOK, chainVars, dbVars, Steps
  <2>7. CASE FetchReceipts(r)
    <3>1. PICK got \in SUBSET {t \in auths[r] : Mined(t)} :
             batch' = [batch EXCEPT ![r] = {RowOf(t) : t \in got}]
      BY <2>7 DEF FetchReceipts
    <3>2. {RowOf(t) : t \in got} \in SUBSET Row
      BY RowOfType DEF TypeOK
    <3>3. QED
      BY <2>7, <3>1, <3>2 DEF FetchReceipts, TypeOK, chainVars, dbVars, Steps
  <2>8. CASE CommitRange(r)
    <3>1. PICK S \in SUBSET Block : Proceed(r, S)
      BY <2>8 DEF CommitRange, TypeOK
    <3>2. rows' \subseteq Row
      BY <2>8 DEF CommitRange, TypeOK, InsertOrIgnore
    <3>3. QED
      BY <2>8, <3>1, <3>2, ProceedType DEF CommitRange, TypeOK, chainVars
  <2>9. CASE Backfill(r)
    <3>1. PICK from \in Block, to \in Block : Proceed(r, Uncovered(from, to))
      BY <2>9 DEF Backfill
    <3>2. Uncovered(from, to) \in SUBSET Block
      BY DEF Uncovered
    <3>3. QED
      BY <2>9, <3>1, <3>2, ProceedType DEF Backfill, TypeOK, chainVars, dbVars
  <2>10. CASE Die(r)
    BY <2>10 DEF Die, TypeOK, chainVars, dbVars, Steps
  <2>11. QED
    BY <1>4, <2>1, <2>2, <2>3, <2>4, <2>5, <2>6, <2>7, <2>8, <2>9, <2>10
    DEF RunStep
<1>5. CASE UNCHANGED vars
  BY <1>5 DEF TypeOK, vars, chainVars, dbVars, runVars
<1>6. QED
  BY <1>1, <1>2, <1>3, <1>4, <1>5 DEF Next

\* In every reachable state every variable holds a value of its kind; the
\* committed range in particular is always a pair of existing block numbers.
THEOREM TypeCorrect == Spec => []TypeOK
BY InitType, NextType, PTL DEF Spec

-----------------------------------------------------------------------------
(***************************************************************************)
(* The chain against the ledger.                                           *)
(***************************************************************************)
\* A step of the chain keeps final blocks final and their settlements as
\* they are.
LEMMA ChainKeepsStable ==
    ASSUME TypeOK, Mine \/ Finalize \/ Reorg,
           NEW S \in SUBSET Block, \A b \in S : Stable(b)
    PROVE  /\ \A b \in S : Stable(b)'
           /\ TxIn(S)' = TxIn(S)
           /\ SettledIn(S)' = SettledIn(S)
<1> USE IndexAssumption
<1>1. \A b \in S : Stable(b)' /\ b <= head
  BY DEF TypeOK, Block, Stable, Mine, Finalize, Reorg
<1>2. /\ \A t \in TxIn(S) : place'[t] = place[t]
      /\ \A t \in Tx : Mined(t)' /\ place'[t].block \in S => t \in TxIn(S)
  <2>1. CASE Mine
    <3> PICK new \in SUBSET {t \in Tx : ~Mined(t)} :
           \E log \in [new -> LogIndex] :
              place' = [t \in Tx |->
                          IF t \in new THEN [block |-> head + 1, log |-> log[t]]
                                       ELSE place[t]]
      BY <2>1 DEF Mine
    <3>1. PICK log \in [new -> LogIndex] :
             place' = [t \in Tx |->
                         IF t \in new THEN [block |-> head + 1, log |-> log[t]]
                                      ELSE place[t]]
      OBVIOUS
    <3>2. head + 1 \notin S
      BY <1>1 DEF TypeOK, Block
    <3>3. QED
      BY <3>1, <3>2 DEF TypeOK, TxIn, Mined
  <2>2. CASE Finalize
    BY <2>2 DEF Finalize, TxIn, Mined
  <2>3. CASE Reorg
    <3> DEFINE loose == {t \in Tx : Mined(t) => ~Stable(place[t].block)}
               fresh == {b \in Block : b <= head /\ ~Stable(b)}
    <3>1. PICK moved \in [loose -> [block : fresh, log : LogIndex] \cup {NotMined}] :
             place' = [t \in Tx |-> IF t \in loose THEN moved[t] ELSE place[t]]
      BY <2>3 DEF Reorg
    <3>2. \A t \in TxIn(S) : t \notin loose
      BY DEF TxIn
    <3>3. \A t \in loose : moved[t] # NotMined => moved[t].block \notin S
      BY <3>1
    <3>4. QED
      BY <3>1, <3>2, <3>3 DEF TypeOK, TxIn, Mined
  <2>4. QED
    BY <2>1, <2>2, <2>3
<1>3. TxIn(S)' = TxIn(S)
  BY <1>2 DEF TxIn, Mined
<1>4. SettledIn(S)' = SettledIn(S)
  BY <1>2, <1>3 DEF SettledIn, RowOf, TxIn
<1>5. QED
  BY <1>1, <1>3, <1>4

\* The settlements of two sets of blocks are those of either.
LEMMA SettledInUnion ==
    ASSUME NEW S, NEW T
    PROVE  SettledIn(S \cup T) = SettledIn(S) \cup SettledIn(T)
BY DEF SettledIn, TxIn

\* Inserting true settlements into a table of true settlements adds exactly
\* those: the primary key (tx_hash, log_index) never hides a new one.
LEMMA InsertSettled ==
    ASSUME NEW S, NEW T
    PROVE  InsertOrIgnore(SettledIn(S), SettledIn(T)) = SettledIn(S \cup T)
<1>1. ASSUME NEW x \in SettledIn(T), NEW y \in SettledIn(S), y.tx = x.tx
      PROVE  x \in SettledIn(S)
  BY <1>1 DEF SettledIn, RowOf
<1>2. InsertOrIgnore(SettledIn(S), SettledIn(T)) = SettledIn(S) \cup SettledIn(T)
  BY <1>1 DEF InsertOrIgnore
<1>3. QED
  BY <1>2, SettledInUnion

\* A committed range covers its blocks and no others.
LEMMA CommitCovers ==
    ASSUME TypeOK, NEW l \in Block, NEW h \in Block,
           ranges' = ranges \cup {<<l, h>>}
    PROVE  Covered' = Covered \cup (l..h)
<1>1. \A b \in Block : b \in Covered' <=> b \in Covered \/ b \in l..h
  <2>1. ASSUME NEW b \in Block
        PROVE  (\E r \in ranges' : r[1] <= b /\ b <= r[2])
                  <=> (\E r \in ranges : r[1] <= b /\ b <= r[2]) \/ (l <= b /\ b <= h)
    <3>1. <<l, h>>[1] = l /\ <<l, h>>[2] = h
      OBVIOUS
    <3>2. QED
      BY <3>1, Zenon
  <2>2. \A b \in Block : l <= b /\ b <= h <=> b \in l..h
    BY IndexAssumption DEF Block
  <2>3. QED
    BY <2>1, <2>2 DEF Covered
<1>2. Covered \subseteq Block /\ Covered' \subseteq Block /\ l..h \subseteq Block
  BY IndexAssumption DEF Covered, Block
<1>3. QED
  BY <1>1, <1>2, Zenon

-----------------------------------------------------------------------------
(***************************************************************************)
(* The inductive invariant.                                                *)
(***************************************************************************)
LEMMA InitIndexInv == Init => IndexInv
<1> SUFFICES ASSUME Init PROVE IndexInv
  OBVIOUS
<1>1. Covered = {} /\ rows = {}
  BY DEF Init, Covered
<1>2. LedgerExact
  BY <1>1 DEF LedgerExact, SettledIn, TxIn
<1>3. ASSUME NEW r \in Runner PROVE RunExact(r)
  BY <1>3 DEF Init, RunExact, Working
<1>4. QED
  BY <1>1, <1>2, <1>3 DEF IndexInv

\* The chain's steps disturb neither the ledger nor a run in flight.
LEMMA ChainIndexInv ==
    ASSUME TypeOK, IndexInv, Mine \/ Finalize \/ Reorg
    PROVE  IndexInv'
<1>1. /\ UNCHANGED <<rows, ranges, startMeta, pc, boot, tip, todo>>
      /\ UNCHANGED <<lo, hi, auths, batch>>
  BY DEF Mine, Finalize, Reorg, dbVars, runVars
<1>2. Covered' = Covered /\ Covered \in SUBSET Block
  BY <1>1 DEF Covered
<1>3. LedgerExact' /\ \A b \in Covered' : Stable(b)'
  <2>1. SettledIn(Covered)' = SettledIn(Covered) /\ \A b \in Covered : Stable(b)'
    <3>1. ASSUME NEW S \in SUBSET Block, S = Covered
          PROVE  SettledIn(S)' = SettledIn(S) /\ \A b \in S : Stable(b)'
      BY <3>1, ChainKeepsStable DEF IndexInv
    <3>2. QED
      BY <3>1, <1>2 DEF SettledIn, TxIn
  <2>2. QED
    BY <2>1, <1>1, <1>2 DEF LedgerExact, IndexInv
<1>4. ASSUME NEW r \in Runner PROVE RunExact(r)'
  <2>1. RunExact(r)
    BY DEF IndexInv
  <2>2. ASSUME tip[r] # NoBlock, NEW b \in Block, b <= tip[r] PROVE Stable(b)'
    <3>1. {b} \in SUBSET Block /\ \A c \in {b} : Stable(c)
      BY <2>1, <2>2 DEF RunExact
    <3>2. QED
      BY <3>1, ChainKeepsStable
  <2>3. \A b \in todo[r] : Stable(b)'
    BY <2>1, ChainKeepsStable DEF RunExact, TypeOK
  <2>4. ASSUME Working(r)
        PROVE  /\ TxIn(lo[r]..hi[r])' = TxIn(lo[r]..hi[r])
               /\ SettledIn(lo[r]..hi[r])' = SettledIn(lo[r]..hi[r])
    <3>1. \A b \in lo[r]..hi[r] : b \in Block /\ Stable(b)
      BY <2>1, <2>4 DEF RunExact, TypeOK
    <3>2. ASSUME NEW S \in SUBSET Block, S = lo[r]..hi[r]
          PROVE  TxIn(S)' = TxIn(S) /\ SettledIn(S)' = SettledIn(S)
      BY <3>1, <3>2, ChainKeepsStable
    <3>3. QED
      BY <3>1, <3>2, <1>1 DEF TxIn, SettledIn
  <2>5. QED
    BY <2>1, <2>2, <2>3, <2>4, <1>1 DEF RunExact, Working
<1>5. QED
  BY <1>3, <1>4 DEF IndexInv

\* A runner whose own variables and whose chain did not change keeps its part.
LEMMA OtherRunExact ==
    ASSUME NEW q \in Runner, RunExact(q), UNCHANGED chainVars,
           pc'[q] = pc[q], tip'[q] = tip[q], todo'[q] = todo[q], lo'[q] = lo[q],
           hi'[q] = hi[q], auths'[q] = auths[q], batch'[q] = batch[q]
    PROVE  RunExact(q)'
BY DEF RunExact, Working, chainVars, Stable, TxIn, SettledIn, RowOf, Mined

\* Going on with a set of final blocks leaves every run exact.
LEMMA ProceedExact ==
    ASSUME TypeOK, IndexInv, UNCHANGED chainVars, NEW r \in Runner,
           NEW S \in SUBSET Block, \A b \in S : Stable(b), Proceed(r, S)
    PROVE  \A q \in Runner : RunExact(q)'
<1>1. RunExact(r)'
  <2>1. /\ pc'[r] \in {"idle", "auths"}
        /\ tip'[r] = NoBlock
        /\ todo'[r] = S
        /\ batch'[r] = {}
    BY DEF Proceed, TypeOK
  <2>2. \A b \in todo'[r] : Stable(b)'
    BY <2>1 DEF chainVars, Stable
  <2>3. Working(r)' => lo'[r]..hi'[r] \subseteq todo'[r]
    <3>1. CASE S = {}
      BY <3>1, <2>1 DEF Proceed, TypeOK, Working
    <3>2. CASE S # {}
      <4>1. PICK l \in Block, h \in Block :
               /\ IsNextSubrange(S, l, h)
               /\ lo' = [lo EXCEPT ![r] = l]
               /\ hi' = [hi EXCEPT ![r] = h]
        BY <3>2 DEF Proceed
      <4>2. QED
        BY <4>1, <2>1 DEF IsNextSubrange, TypeOK
    <3>3. QED
      BY <3>1, <3>2
  <2>4. QED
    BY <2>1, <2>2, <2>3 DEF RunExact
<1>2. ASSUME NEW q \in Runner, q # r PROVE RunExact(q)'
  <2>1. /\ pc'[q] = pc[q]
        /\ tip'[q] = tip[q]
        /\ todo'[q] = todo[q]
        /\ auths'[q] = auths[q]
        /\ batch'[q] = batch[q]
    BY <1>2 DEF Proceed, TypeOK
  <2>2. lo'[q] = lo[q] /\ hi'[q] = hi[q]
    <3>1. CASE S = {}
      BY <1>2, <3>1 DEF Proceed, TypeOK
    <3>2. CASE S # {}
      BY <1>2, <3>2 DEF Proceed, TypeOK
    <3>3. QED
      BY <3>1, <3>2
  <2>3. QED
    BY <2>1, <2>2, OtherRunExact DEF IndexInv
<1>3. QED
  BY <1>1, <1>2

\* Steps that leave the chain, the rows and the ranges alone keep the ledger
\* exact and its blocks final.
LEMMA LedgerUntouched ==
    ASSUME IndexInv, UNCHANGED <<chainVars, rows, ranges>>
    PROVE  LedgerExact' /\ \A b \in Covered' : Stable(b)'
BY DEF IndexInv, LedgerExact, Covered, SettledIn, TxIn, RowOf, Mined, Stable,
       chainVars

\* In a safe deployment every step of every run keeps the invariant.
LEMMA RunIndexInv ==
    ASSUME TypeOK, TypeOK', IndexInv, SafeDeployment, NEW r \in Runner,
           RunStep(r) \/ Backfill(r) \/ Die(r)
    PROVE  IndexInv'
<1> USE IndexAssumption
<1> \A q \in Runner : RunExact(q)
  BY DEF IndexInv
<1>1. ASSUME UNCHANGED <<chainVars, rows, ranges>>,
             RunExact(r)',
             \A q \in Runner \ {r} :
                /\ pc'[q] = pc[q]
                /\ tip'[q] = tip[q]
                /\ todo'[q] = todo[q]
                /\ lo'[q] = lo[q]
                /\ hi'[q] = hi[q]
                /\ auths'[q] = auths[q]
                /\ batch'[q] = batch[q]
      PROVE  IndexInv'
  <2>1. \A q \in Runner \ {r} : RunExact(q)'
    BY <1>1, OtherRunExact
  <2>2. QED
    BY <1>1, <2>1, LedgerUntouched DEF IndexInv
<1>2. CASE StartRun(r)
  <2>1. RunExact(r)'
    BY <1>2 DEF StartRun, TypeOK, RunExact, Working, chainVars, dbVars, Stable
  <2>2. QED
    BY <1>1, <1>2, <2>1 DEF StartRun, TypeOK, dbVars
<1>3. CASE StoreStart(r)
  <2>1. RunExact(r)'
    BY <1>3 DEF StoreStart, TypeOK, RunExact, Working, chainVars, Stable
  <2>2. QED
    BY <1>1, <1>3, <2>1 DEF StoreStart, TypeOK
<1>4. CASE ReadTip(r)
  <2>1. PICK src \in TipSources :
           tip' = [tip EXCEPT ![r] = IF src = "finalized" THEN finalized
                                                          ELSE head - Confirmations]
    BY <1>4 DEF ReadTip
  <2>2. \A b \in Block : b <= tip'[r] => Stable(b)'
    BY <1>4, <2>1
    DEF ReadTip, TypeOK, Stable, chainVars, SafeDeployment, Block
  <2>3. tip'[r] # NoBlock
    BY <1>4, <2>1 DEF ReadTip, TypeOK, Block
  <2>4. RunExact(r)'
    BY <1>4, <2>2, <2>3
    DEF ReadTip, TypeOK, RunExact, Working, chainVars, Stable
  <2>5. QED
    BY <1>1, <1>4, <2>1, <2>4 DEF ReadTip, TypeOK, dbVars
<1>5. CASE Plan(r)
  <2>1. PICK S \in SUBSET Block :
           /\ S = Uncovered(Frontier(startMeta) + 1, tip[r])
           /\ Proceed(r, S)
    BY <1>5 DEF Plan, Uncovered
  <2>2. \A b \in S : Stable(b)
    BY <1>5, <2>1 DEF Plan, Uncovered, RunExact
  <2>3. \A q \in Runner : RunExact(q)'
    BY <1>5, <2>1, <2>2, ProceedExact DEF Plan
  <2>4. QED
    BY <1>5, <2>3, LedgerUntouched DEF Plan, IndexInv, dbVars
<1>6. CASE Backfill(r)
  <2>1. PICK from \in Block, to \in Block :
           /\ to <= head + BackfillTip
           /\ Proceed(r, Uncovered(from, to))
    BY <1>6 DEF Backfill
  <2>2. Uncovered(from, to) \in SUBSET Block
    BY DEF Uncovered
  <2>3. \A b \in Uncovered(from, to) : Stable(b)
    BY <2>1 DEF Uncovered, SafeDeployment, Stable, TypeOK, Block
  <2>4. \A q \in Runner : RunExact(q)'
    BY <1>6, <2>1, <2>2, <2>3, ProceedExact DEF Backfill
  <2>5. QED
    BY <1>6, <2>4, LedgerUntouched DEF Backfill, IndexInv, dbVars
<1>7. CASE ReadAuths(r)
  <2>1. RunExact(r)'
    BY <1>7
    DEF ReadAuths, TypeOK, RunExact, Working, chainVars, Stable, TxIn, SettledIn,
        RowOf, Mined
  <2>2. QED
    BY <1>1, <1>7, <2>1 DEF ReadAuths, TypeOK, dbVars
<1>8. CASE ScanTransfers(r)
  <2>1. auths[r] \cap TxIn(lo[r]..hi[r]) = TxIn(lo[r]..hi[r])
    BY <1>8 DEF ScanTransfers, RunExact
  <2>2. batch'[r] = SettledIn(lo[r]..hi[r])
    BY <1>8, <2>1 DEF ScanTransfers, TypeOK, SettledIn
  <2>3. RunExact(r)'
    BY <1>8, <2>2
    DEF ScanTransfers, TypeOK, RunExact, Working, chainVars, Stable, TxIn,
        SettledIn, RowOf, Mined
  <2>4. QED
    BY <1>1, <1>8, <2>3 DEF ScanTransfers, TypeOK, dbVars
<1>9. CASE FetchReceipts(r)
  <2>1. {t \in auths[r] : Mined(t)} = TxIn(lo[r]..hi[r])
    BY <1>9 DEF FetchReceipts, RunExact, TxIn
  <2>2. batch'[r] = SettledIn(lo[r]..hi[r])
    BY <1>9, <2>1 DEF FetchReceipts, TypeOK, SettledIn, SafeDeployment
  <2>3. RunExact(r)'
    BY <1>9, <2>2
    DEF FetchReceipts, TypeOK, RunExact, Working, chainVars, Stable, TxIn,
        SettledIn, RowOf, Mined
  <2>4. \A q \in Runner \ {r} : batch'[q] = batch[q]
    BY <1>9 DEF FetchReceipts, TypeOK
  <2>5. QED
    BY <1>1, <1>9, <2>3, <2>4 DEF FetchReceipts, TypeOK, dbVars
<1>10. CASE CommitRange(r)
  <2>1. Working(r) /\ lo[r] \in Block /\ hi[r] \in Block
    BY <1>10 DEF CommitRange, Working, TypeOK
  <2>2. Covered' = Covered \cup (lo[r]..hi[r])
    BY <1>10, <2>1, CommitCovers DEF CommitRange
  <2>3. rows' = SettledIn(Covered \cup (lo[r]..hi[r]))
    BY <1>10, InsertSettled DEF CommitRange, IndexInv, LedgerExact, RunExact
  <2>4. LedgerExact'
    BY <1>10, <2>2, <2>3
    DEF LedgerExact, CommitRange, chainVars, SettledIn, TxIn, RowOf, Mined
  <2>5. \A b \in Covered' : Stable(b)'
    BY <1>10, <2>1, <2>2 DEF CommitRange, IndexInv, RunExact, chainVars, Stable
  <2>6. \A q \in Runner : RunExact(q)'
    <3>1. PICK S \in SUBSET Block :
             S = todo[r] \ (lo[r]..hi[r]) /\ Proceed(r, S)
      BY <1>10 DEF CommitRange, TypeOK
    <3>2. \A b \in S : Stable(b)
      BY <3>1 DEF RunExact
    <3>3. QED
      BY <1>10, <3>1, <3>2, ProceedExact DEF CommitRange
  <2>7. QED
    BY <2>4, <2>5, <2>6 DEF IndexInv
<1>11. CASE Die(r)
  <2>1. RunExact(r)'
    BY <1>11 DEF Die, TypeOK, RunExact, Working
  <2>2. QED
    BY <1>1, <1>11, <2>1 DEF Die, TypeOK, dbVars
<1>12. QED
  BY <1>2, <1>3, <1>4, <1>5, <1>6, <1>7, <1>8, <1>9, <1>10, <1>11 DEF RunStep

LEMMA NextIndexInv ==
    ASSUME SafeDeployment, TypeOK, TypeOK', IndexInv, [Next]_vars
    PROVE  IndexInv'
<1>1. CASE Next
  BY <1>1, ChainIndexInv, RunIndexInv DEF Next
<1>2. CASE UNCHANGED vars
  <2>1. \A q \in Runner : RunExact(q)'
    BY <1>2, OtherRunExact DEF IndexInv, vars, runVars
  <2>2. QED
    BY <1>2, <2>1, LedgerUntouched DEF IndexInv, vars, dbVars
<1>3. QED
  BY <1>1, <1>2

\* In a safe deployment the invariant holds of every reachable state.
THEOREM IndexInvariant == ASSUME SafeDeployment PROVE Spec => []IndexInv
<1>1. TypeOK /\ IndexInv /\ [Next]_vars => IndexInv'
  BY NextType, NextIndexInv
<1>2. QED
  BY <1>1, InitIndexInv, TypeCorrect, PTL DEF Spec

\* In a safe deployment the ledger never misses, orphans or double-counts a
\* settlement, whatever runs overlap or die and whatever the chain rewrites.
THEOREM LedgerIsExact == ASSUME SafeDeployment PROVE Spec => []LedgerExact
<1>1. IndexInv => LedgerExact
  BY DEF IndexInv
<1>2. QED
  BY <1>1, IndexInvariant, PTL

-----------------------------------------------------------------------------
(***************************************************************************)
(* Refinement of the abstract ledger.                                      *)
(***************************************************************************)
\* Blocks up to FinalBlock are final, and only those.
LEMMA FinalBlockStable ==
    TypeOK => /\ FinalBlock \in Block
              /\ \A b \in Block : Stable(b) <=> b <= FinalBlock
BY IndexAssumption DEF TypeOK, FinalBlock, Stable, Block

LEMMA InitLedger ==
    ASSUME Init
    PROVE  Ledger!LedgerInit
<1>1. TypeOK
  BY InitType
<1>2. SettledIn(0..FinalBlock) \subseteq {x \in Row : x.block <= FinalBlock}
  <2>1. FinalBlock \in Int
    BY <1>1, FinalBlockStable, IndexAssumption DEF Block
  <2>2. \A t \in TxIn(0..FinalBlock) : RowOf(t).block <= FinalBlock
    BY <2>1 DEF TxIn, RowOf
  <2>3. QED
    BY <1>1, <2>2, SettledInType DEF SettledIn
<1>3. Covered = {} /\ rows = {}
  BY DEF Init, Covered
<1>4. QED
  BY <1>1, <1>2, <1>3, FinalBlockStable DEF Ledger!LedgerInit

\* A step of the chain settles the blocks that become final by it.
LEMMA ChainSettles ==
    ASSUME TypeOK, TypeOK', Mine \/ Finalize \/ Reorg
    PROVE  Ledger!Settle
<1>1. PICK F \in Block, G \in Block :
         /\ F = FinalBlock
         /\ G = FinalBlock'
         /\ F <= G
  <2>1. (TypeOK => /\ FinalBlock \in Block
                   /\ \A b \in Block : Stable(b) <=> b <= FinalBlock)'
    BY FinalBlockStable, PTL
  <2>2. FinalBlock \in Block /\ Stable(FinalBlock)
    BY FinalBlockStable, IndexAssumption DEF Block
  <2>3. PICK F \in Block : F = FinalBlock
    BY <2>2
  <2>4. Stable(F)'
    <3>1. {F} \in SUBSET Block /\ \A b \in {F} : Stable(b)
      BY <2>2, <2>3
    <3>2. QED
      BY <3>1, ChainKeepsStable
  <2>5. QED
    BY <2>1, <2>3, <2>4
<1>2. UNCHANGED <<rows, Covered>>
  BY DEF Mine, Finalize, Reorg, dbVars, Covered
<1>4. ASSUME NEW S \in SUBSET Block, S = 0..F
      PROVE  SettledIn(S)' = SettledIn(S)
  <2>1. \A b \in S : Stable(b)
    BY <1>1, <1>4, FinalBlockStable DEF Block
  <2>2. QED
    BY <2>1, ChainKeepsStable
<1>5. PICK low \in SUBSET Block, high \in SUBSET Block :
         /\ low = 0..F
         /\ high = (F + 1)..G
         /\ low \cup high = 0..G
  BY <1>1, IndexAssumption DEF Block
<1>6. SettledIn(0..G)' = SettledIn(0..F) \cup SettledIn(high)'
  <2>1. SettledIn(low \cup high)' = SettledIn(low)' \cup SettledIn(high)'
    BY DEF SettledIn, TxIn
  <2>2. SettledIn(low)' = SettledIn(low)
    BY <1>4, <1>5
  <2>3. QED
    BY <1>5, <2>1, <2>2 DEF SettledIn, TxIn
<1>7. SettledIn(high)' \in SUBSET {x \in Row : F < x.block /\ x.block <= G}
  <2>1. \A t \in TxIn(high)' : RowOf(t)' \in Row /\ RowOf(t)'.block \in high
    BY DEF TypeOK, TxIn, RowOf, Mined, Row, Placement
  <2>2. \A b \in high : F < b /\ b <= G
    BY <1>1, <1>5, IndexAssumption DEF Block
  <2>3. QED
    BY <2>1, <2>2 DEF SettledIn
<1>8. SettledIn(0..FinalBlock)' = SettledIn(0..FinalBlock) \cup SettledIn(high)'
  BY <1>1, <1>6 DEF SettledIn, TxIn
<1>9. QED
  BY <1>1, <1>2, <1>7, <1>8 DEF Ledger!Settle

\* A commit records its range with all of its settlements.
LEMMA CommitRecords ==
    ASSUME TypeOK, IndexInv, NEW r \in Runner, CommitRange(r)
    PROVE  Ledger!Record
<1> DEFINE B == lo[r]..hi[r]
<1>1. lo[r] \in Block /\ hi[r] \in Block /\ Working(r)
  BY DEF CommitRange, Working, TypeOK
<1>2. \A b \in B : b \in Block /\ b <= FinalBlock
  BY <1>1, FinalBlockStable DEF IndexInv, RunExact, TypeOK
<1>3. UNCHANGED <<FinalBlock, SettledIn(0..FinalBlock)>>
  BY DEF CommitRange, chainVars, FinalBlock, SettledIn, TxIn, RowOf, Mined
<1>4. Covered' = Covered \cup B
  BY <1>1, CommitCovers DEF CommitRange
<1>5. rows' = rows \cup SettledIn(B)
  <2>1. rows' = SettledIn(Covered \cup B)
    BY InsertSettled DEF CommitRange, IndexInv, LedgerExact, RunExact
  <2>2. QED
    BY <2>1, SettledInUnion DEF IndexInv, LedgerExact
<1>6. SettledIn(B) = {x \in SettledIn(0..FinalBlock) : x.block \in B}
  <2>1. B \subseteq 0..FinalBlock
    BY <1>2, FinalBlockStable, IndexAssumption DEF Block
  <2>2. QED
    BY <2>1 DEF SettledIn, TxIn, RowOf
<1>7. B \in SUBSET {b \in Block : b <= FinalBlock}
  BY <1>2
<1>8. QED
  BY <1>3, <1>4, <1>5, <1>6, <1>7 DEF Ledger!Record

\* Every other step is invisible to the abstract ledger.
LEMMA OtherStepsStutter ==
    ASSUME UNCHANGED <<chainVars, rows, ranges>>
    PROVE  UNCHANGED Ledger!ledgerVars
BY DEF Ledger!ledgerVars, chainVars, FinalBlock, SettledIn, TxIn, RowOf, Mined,
       Covered

\* In a safe deployment the indexer implements the abstract ledger: every
\* reader of the database sees final blocks recorded whole, or nothing.
THEOREM IndexImplementsLedger ==
    ASSUME SafeDeployment PROVE Spec => ImplementsLedger
<1>1. Init => Ledger!LedgerInit
  BY InitLedger
<1>2. TypeOK /\ TypeOK' /\ IndexInv /\ [Next]_vars
         => [Ledger!LedgerNext]_(Ledger!ledgerVars)
  <2> SUFFICES ASSUME TypeOK, TypeOK', IndexInv, [Next]_vars
               PROVE  Ledger!LedgerNext \/ UNCHANGED Ledger!ledgerVars
    OBVIOUS
  <2>1. CASE Mine \/ Finalize \/ Reorg
    BY <2>1, ChainSettles DEF Ledger!LedgerNext
  <2>2. ASSUME NEW r \in Runner, CommitRange(r)
        PROVE  Ledger!LedgerNext
    BY <2>2, CommitRecords DEF Ledger!LedgerNext
  <2>3. ASSUME NEW r \in Runner,
               \/ StartRun(r) \/ StoreStart(r) \/ ReadTip(r) \/ Plan(r)
               \/ ReadAuths(r) \/ ScanTransfers(r) \/ FetchReceipts(r)
               \/ Backfill(r) \/ Die(r)
        PROVE  UNCHANGED <<chainVars, rows, ranges>>
    BY <2>3
    DEF StartRun, StoreStart, ReadTip, Plan, ReadAuths, ScanTransfers,
        FetchReceipts, Backfill, Die, dbVars
  <2>4. CASE UNCHANGED vars
    BY <2>4, OtherStepsStutter DEF vars, dbVars
  <2>5. QED
    BY <2>1, <2>2, <2>3, <2>4, OtherStepsStutter DEF Next, RunStep
<1>3. QED
  BY <1>1, <1>2, TypeCorrect, IndexInvariant, PTL
  DEF Spec, ImplementsLedger, Ledger!LedgerSpec
=============================================================================
