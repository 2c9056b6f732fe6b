------------------------- MODULE InstrumentNightProofs -------------------------
(***************************************************************************)
(* Proofs about InstrumentNight: a failure costs no more than its block of *)
(* stages, the watch ledger counts what was seen, and the feed says what   *)
(* was listed and answered, for any endpoints, wallets, listings, answers, *)
(* thresholds, days and failures.                                          *)
(***************************************************************************)
EXTENDS InstrumentNight, FiniteSetTheorems, WellFoundedInduction, TLAPS

-----------------------------------------------------------------------------
(***************************************************************************)
(* The row of stages.                                                      *)
(***************************************************************************)
Last == 22

\* No stage stands in the row twice.
LEMMA OrderInjective ==
    /\ Len(Order) = Last /\ DOMAIN Order = 1..Last
    /\ \A i, j \in 1..Last : Order[i] = Order[j] => i = j
<1>1. Len(Order) = Last /\ DOMAIN Order = 1..Last
    BY DEF Order, Last
<1>2. ASSUME NEW i \in 1..Last, NEW j \in 1..Last, Order[i] = Order[j] PROVE i = j
    BY <1>2, SMTT(60) DEF Order, Last
<1> QED
    BY <1>1, <1>2

\* A stage is found at its place.
LEMMA Places ==
    /\ \A i \in 1..Last : Order[i] \in Stage /\ Place[Order[i]] = i
    /\ \A s \in Stage : Place[s] \in 1..Last /\ Order[Place[s]] = s
<1>1. ASSUME NEW s \in Stage PROVE Place[s] \in 1..Last /\ Order[Place[s]] = s
    <2>1. \E i \in DOMAIN Order : Order[i] = s
        BY DEF Stage
    <2>2. Place[s] = CHOOSE i \in DOMAIN Order : Order[i] = s
        BY DEF Place
    <2>3. Place[s] \in DOMAIN Order /\ Order[Place[s]] = s
        BY <2>1, <2>2
    <2> QED
        BY <2>3, OrderInjective
<1>2. ASSUME NEW i \in 1..Last PROVE Order[i] \in Stage
    BY <1>2, OrderInjective DEF Stage
<1>3. ASSUME NEW i \in 1..Last PROVE Place[Order[i]] = i
    <2>1. Order[i] \in Stage
        BY <1>2
    <2>2. Place[Order[i]] \in 1..Last /\ Order[Place[Order[i]]] = Order[i]
        BY <1>1, <2>1
    <2> QED
        BY <2>2, OrderInjective
<1> QED
    BY <1>1, <1>2, <1>3

\* Where the stages stand that the rules name.
LEMMA NamedPlaces ==
    /\ Place["snapshot"] = 5 /\ Place["fingerprint"] = 8 /\ Place["fetch"] = 11
    /\ Place["econ"] = 17 /\ Place["feed"] = 18 /\ Place["vacuum"] = 21 /\ Place["metrics"] = 22
    /\ Place["kinds"] = 7 /\ Place["enrich"] = 6
<1>1. /\ Order[5] = "snapshot" /\ Order[8] = "fingerprint" /\ Order[11] = "fetch"
      /\ Order[17] = "econ" /\ Order[18] = "feed" /\ Order[21] = "vacuum"
      /\ Order[22] = "metrics" /\ Order[7] = "kinds" /\ Order[6] = "enrich"
    BY DEF Order
<1>2. \A i \in 1..Last : Place[Order[i]] = i
    BY Places
<1>3. \A i \in {5, 6, 7, 8, 11, 17, 18, 21, 22} : Place[Order[i]] = i
    BY <1>2 DEF Last
<1> QED
    BY <1>1, <1>3

\* The instruments are the stages of ten places in a row.
LEMMA InstrumentPlaces == \A i \in 1..Last : Order[i] \in Instruments <=> i \in 8..17
    BY Places, NamedPlaces DEF Instruments, Last

\* The block of every place.
LEMMA BlockAt ==
    \A i \in 1..Last :
        /\ i \in 1..3 => Block(Order[i]) = 1
        /\ i = 4 => Block(Order[i]) = 2
        /\ i = 5 => Block(Order[i]) = 3
        /\ i \in 6..7 => Block(Order[i]) = IF kindsOn THEN 4 ELSE 5
        /\ i \in 8..18 => Block(Order[i]) = 5
        /\ i \in 19..22 => Block(Order[i]) = 5 + i
<1> SUFFICES ASSUME NEW i \in 1..Last
             PROVE  /\ i \in 1..3 => Block(Order[i]) = 1
                    /\ i = 4 => Block(Order[i]) = 2
                    /\ i = 5 => Block(Order[i]) = 3
                    /\ i \in 6..7 => Block(Order[i]) = IF kindsOn THEN 4 ELSE 5
                    /\ i \in 8..18 => Block(Order[i]) = 5
                    /\ i \in 19..22 => Block(Order[i]) = 5 + i
    OBVIOUS
<1>1. /\ Order[1] = "additive" /\ Order[2] = "permit2" /\ Order[3] = "canary1"
      /\ Order[4] = "canary2" /\ Order[5] = "snapshot" /\ Order[6] = "enrich"
      /\ Order[7] = "kinds" /\ Order[18] = "feed"
    BY DEF Order
<1>2. \A j \in 1..Last : Order[j] = Order[i] => j = i
    BY OrderInjective
<1>3. Order[i] \in Instruments <=> i \in 8..17
    BY InstrumentPlaces
<1>4. Place[Order[i]] = i
    BY Places
<1>5. /\ Order[i] \in {"additive", "permit2", "canary1"} <=> i \in 1..3
      /\ Order[i] = "canary2" <=> i = 4
      /\ Order[i] = "snapshot" <=> i = 5
      /\ Order[i] = "enrich" \/ Order[i] = "kinds" <=> i \in 6..7
      /\ Order[i] = "feed" <=> i = 18
    BY <1>1, <1>2 DEF Last
<1> QED
    BY <1>3, <1>4, <1>5 DEF Block, Last

\* A stage whose handler does not roll back hands an aborted transaction on to a
\* stage of its own block, which does not clear it before it reads.
LEMMA BlocksHold ==
    ASSUME NEW i \in 1..Last, Order[i] \notin RollsBack \cup {"snapshot", "vacuum"}
    PROVE  i + 1 \in 1..Last /\ Block(Order[i + 1]) = Block(Order[i]) /\ Order[i + 1] \notin ClearsFirst
<1>1. /\ Order[3] = "canary1" /\ Order[4] = "canary2" /\ Order[5] = "snapshot"
      /\ Order[7] = "kinds" /\ Order[8] = "fingerprint" /\ Order[18] = "feed"
      /\ Order[19] = "wash" /\ Order[20] = "scores" /\ Order[21] = "vacuum"
      /\ Order[22] = "metrics"
    BY DEF Order
<1>2. i \in {1, 2, 6} \cup 9..17
    BY <1>1 DEF RollsBack, Last
<1>3. i + 1 \in {2, 3, 7} \cup 10..18 /\ i + 1 \in 1..Last
    BY <1>2 DEF Last
<1>4. Order[i + 1] \notin ClearsFirst
    BY <1>1, <1>3, OrderInjective DEF ClearsFirst, Last
<1>5. Block(Order[i + 1]) = Block(Order[i])
    BY <1>2, <1>3, BlockAt
<1> QED
    BY <1>3, <1>4, <1>5

-----------------------------------------------------------------------------
(***************************************************************************)
(* What a failure costs.                                                   *)
(***************************************************************************)
\* What a stage that fails, or finds the transaction aborted, is lost to.
LostTo(i, lost, got) ==
    \E f \in lost : \/ Block(f) = Block(Order[i]) /\ Place[f] <= i
                    \/ f = "feed" /\ f \in got /\ Order[i] = "wash"

\* What a stage that hands an aborted transaction on owes the stage behind it.
HandsOn(i, lost, got) ==
    /\ Order[i + 1] \notin ClearsFirst
    /\ \E f \in lost : /\ Place[f] <= i
                       /\ \/ Block(f) = Block(Order[i + 1])
                          \/ f = "feed" /\ f \in got /\ Order[i + 1] = "wash"

\* A failure of the block is lost to, and handed on, whatever is done.
LEMMA BlockLoses ==
    ASSUME NEW lost, NEW got, NEW i, NEW f \in lost, Block(f) = Block(Order[i]), Place[f] <= i
    PROVE  /\ LostTo(i, lost, got)
           /\ Order[i + 1] \notin ClearsFirst /\ Block(Order[i + 1]) = Block(Order[i])
                => HandsOn(i, lost, got)
<1>1. LostTo(i, lost, got)
    BY DEF LostTo
<1>2. ASSUME Order[i + 1] \notin ClearsFirst, Block(Order[i + 1]) = Block(Order[i])
      PROVE  HandsOn(i, lost, got)
    <2>1. Place[f] <= i /\ Block(f) = Block(Order[i + 1])
        BY <1>2
    <2> QED
        BY <1>2, <2>1, Zenon DEF HandsOn
<1> QED
    BY <1>1, <1>2

\* The blocks stay as they are while kindsOn does, and a failure costs no less
\* when more is done.
LEMMA BlocksStay ==
    ASSUME kindsOn' = kindsOn
    PROVE  /\ \A s : Block(s)' = Block(s)
           /\ Skipped' = Skipped
           /\ done \subseteq done' => \A f, s : Costs(f, s) => Costs(f, s)'
           /\ done' = done => \A f, s : Costs(f, s)' => Costs(f, s)
<1>1. (\A s : Block(s)' = Block(s)) /\ Skipped' = Skipped
    BY DEF Block, Skipped
<1> QED
    BY <1>1 DEF Costs

\* The stage in work is behind the run, done, left out or lost, and the transaction
\* is clean or was left aborted by what costs the next stage.
LEMMA GoOn ==
    ASSUME TypeOK, SpillInv, pc # 0, Behind(pc), kindsOn' = kindsOn,
           done \subseteq done', broken \subseteq broken', broken' \subseteq Stage,
           Order[pc] \in done' \cup Skipped \/ LostTo(pc, broken', done'), Fetched',
           txn' = "aborted" => (pc + 1 \in 1..Last => HandsOn(pc, broken', done'))
    PROVE  SpillInv'
<1>1. pc \in 1..Last /\ Len(Order) = Last
    BY OrderInjective DEF TypeOK
<1>2. (\A s : Block(s)' = Block(s)) /\ Skipped' = Skipped
      /\ \A f, s : Costs(f, s) => Costs(f, s)'
    BY BlocksStay
<1>3. \A s \in Stage \ (done' \cup Skipped) :
         Place[s] < pc + 1 => \E f \in broken' : Costs(f, s)'
    <2> SUFFICES ASSUME NEW s \in Stage \ (done' \cup Skipped), Place[s] < pc + 1
                 PROVE  \E f \in broken' : Costs(f, s)'
        OBVIOUS
    <2>1. Place[s] \in 1..Last /\ Order[Place[s]] = s
        BY Places
    <2>2. CASE Place[s] = pc
        BY <1>2, <2>1, <2>2 DEF LostTo, Costs
    <2>3. CASE Place[s] < pc
        BY <1>2, <2>3 DEF SpillInv, Explained
    <2> QED
        BY <1>1, <2>1, <2>2, <2>3 DEF Last
<1>4. CASE pc < Last
    <2>1. pc' = pc + 1 /\ pc' # 0 /\ pc' \in 1..Last
        BY <1>1, <1>4 DEF Behind, Last
    <2>2. Explained(pc)'
        BY <1>2, <1>3, <2>1 DEF Explained
    <2>3. \A f \in broken' : Place[f] <= pc => Place[f] < pc + 1 /\ Place[f] <= Place[Order[pc + 1]]
        BY <1>1, <2>1, Places DEF Last
    <2>4. Poisoned'
        BY <1>2, <2>1, <2>3 DEF Poisoned, HandsOn, Costs
    <2> QED
        BY <2>1, <2>2, <2>4 DEF SpillInv
<1>5. CASE pc = Last
    <2>1. pc' = 0 /\ ended' = "finished"
        BY <1>1, <1>5 DEF Behind, Finish
    <2>2. Explained(Len(Order) + 1)'
        BY <1>1, <1>2, <1>3, <1>5 DEF Explained
    <2> QED
        BY <2>1, <2>2 DEF SpillInv, Poisoned
<1> QED
    BY <1>1, <1>4, <1>5 DEF Last

\* The first statement of run_instrumentation fails: every collector is lost to
\* what it was lost to.
LEMMA GoFar ==
    ASSUME TypeOK, SpillInv, At("fingerprint"), Behind(Place["econ"]), kindsOn' = kindsOn,
           done' = done, broken \subseteq broken', broken' \subseteq Stage, txn' = "clean", Fetched',
           LostTo(pc, broken', done)
    PROVE  SpillInv'
<1>1. pc = 8 /\ pc' = 18
    <2>1. pc \in 1..Last /\ Order[pc] = Order[8]
        BY OrderInjective DEF TypeOK, At, Order
    <2> QED
        BY <2>1, OrderInjective, NamedPlaces DEF Behind, Last
<1>2. (\A s : Block(s)' = Block(s)) /\ Skipped' = Skipped
      /\ \A f, s : Costs(f, s) => Costs(f, s)'
    BY BlocksStay
<1>3. \A s \in Stage \ (done \cup Skipped) :
         Place[s] < 18 => \E f \in broken' : Costs(f, s)'
    <2> SUFFICES ASSUME NEW s \in Stage \ (done \cup Skipped), Place[s] < 18
                 PROVE  \E f \in broken' : Costs(f, s)'
        OBVIOUS
    <2>1. Place[s] \in 1..Last /\ Order[Place[s]] = s
        BY Places
    <2>2. CASE Place[s] < 8
        BY <1>1, <1>2, <2>2 DEF SpillInv, Explained
    <2>3. CASE Place[s] \in 8..18
        <3>1. Block(s) = 5 /\ Block(Order[8]) = 5
            BY <2>1, <2>3, BlockAt DEF Last
        <3>2. PICK f \in broken' : Block(f) = Block(Order[8]) /\ Place[f] <= 8
            BY <1>1 DEF LostTo, At
        <3>3. Place[f] <= Place[s]
            BY <2>3, <3>2, Places DEF Last
        <3> QED
            BY <1>2, <3>1, <3>2, <3>3 DEF Costs
    <2> QED
        BY <2>1, <2>2, <2>3 DEF Last
<1>4. Explained(pc)'
    BY <1>1, <1>2, <1>3 DEF Explained
<1> QED
    BY <1>1, <1>4 DEF SpillInv, Poisoned

\* A step that leaves the run and its outcome alone.
LEMMA SpillStays ==
    ASSUME SpillInv, UNCHANGED <<kindsOn, pc, txn, done, broken, ended, resources>>
    PROVE  SpillInv'
<1>1. Skipped' = Skipped /\ \A f, s : Costs(f, s)' <=> Costs(f, s)
    BY BlocksStay
<1>2. Explained(pc)' <=> Explained(pc)
    BY <1>1 DEF Explained
<1>3. Explained(Len(Order) + 1)' <=> Explained(Len(Order) + 1)
    BY <1>1 DEF Explained
<1>4. Poisoned' <=> Poisoned
    BY <1>1 DEF Poisoned
<1> QED
    BY <1>2, <1>3, <1>4 DEF SpillInv, Fetched

\* The stage in work is one of the row.
LEMMA AtPlace ==
    ASSUME TypeOK, pc # 0
    PROVE  /\ pc \in 1..Last /\ Order[pc] \in Stage /\ Place[Order[pc]] = pc
           /\ \A i \in 1..Last : Order[i] = Order[pc] => i = pc
    BY OrderInjective, Places DEF TypeOK

\* Behind a stage that got through, with the transaction clean.
LEMMA SpillThrough ==
    ASSUME TypeOK, SpillInv, pc # 0, Through, txn' = "clean", kindsOn' = kindsOn, Fetched'
    PROVE  SpillInv'
<1>1. done' = done \cup {Order[pc]} /\ Behind(pc) /\ broken' = broken
    BY DEF Through
<1>2. broken' \subseteq Stage
    BY <1>1 DEF TypeOK
<1> QED
    BY <1>1, <1>2, GoOn

\* A stage that gets through leaves the catalog alone.
LEMMA FetchedStays ==
    ASSUME SpillInv, pc # 0, done' \subseteq done \cup {Order[pc]}, Order[pc] # "fetch",
           resources' = resources
    PROVE  Fetched'
    BY DEF SpillInv, Fetched

\* What a step that passes over a stage owes the next while the transaction is aborted.
LEMMA PoisonStays ==
    ASSUME TypeOK, SpillInv, pc # 0, txn = "aborted",
           Order[pc] \notin RollsBack \/ (Order[pc] = "kinds" /\ ~kindsOn)
    PROVE  /\ LostTo(pc, broken, done)
           /\ pc + 1 \in 1..Last => HandsOn(pc, broken, done)
<1>1. pc \in 1..Last /\ Order[pc] \in Stage
    BY AtPlace
<1>2. Order[pc] \notin {"snapshot", "vacuum"}
    BY DEF SpillInv, Poisoned, ClearsFirst
<1>3. PICK f \in broken : Block(f) = Block(Order[pc]) /\ Place[f] <= pc
    <2>1. PICK f \in broken : Costs(f, Order[pc]) /\ Place[f] < pc
        BY DEF SpillInv, Poisoned
    <2>2. Place[f] \in 1..Last
        BY Places DEF TypeOK
    <2>3. Order[pc] # "wash"
        BY DEF RollsBack
    <2> QED
        BY <1>1, <2>1, <2>2, <2>3 DEF Costs, Last
<1>4. CASE Order[pc] \notin RollsBack
    BY <1>1, <1>2, <1>3, <1>4, BlocksHold, BlockLoses
<1>5. CASE Order[pc] = "kinds" /\ ~kindsOn
    <2>1. pc = 7
        BY <1>1, <1>5, OrderInjective DEF Order
    <2>2. Block(Order[7]) = 5 /\ Block(Order[8]) = 5
        BY <1>5, BlockAt DEF Last
    <2>3. Order[8] = "fingerprint"
        BY DEF Order
    <2>4. Order[pc + 1] \notin ClearsFirst /\ Block(Order[pc + 1]) = Block(Order[pc])
        BY <2>1, <2>2, <2>3 DEF ClearsFirst
    <2> QED
        BY <1>3, <2>4, BlockLoses
<1> QED
    BY <1>4, <1>5

\* What an exception comes to: the stage is lost to a failure of its block, and so
\* is every collector where the exception is that of the first statement.
LEMMA SpillHandled ==
    ASSUME TypeOK, SpillInv, pc # 0, Handled(Order[pc]), kindsOn' = kindsOn, Fetched',
           done' = done, broken \subseteq broken', broken' \subseteq Stage,
           LostTo(pc, broken', done), Order[pc] # "vacuum",
           Order[pc] = "snapshot" => "snapshot" \in broken'
    PROVE  SpillInv'
<1>1. pc \in 1..Last /\ Order[pc] \in Stage
    BY AtPlace
<1>2. CASE Order[pc] = "snapshot"
    BY <1>2 DEF Handled, Finish, SpillInv, Poisoned
<1>3. CASE Order[pc] = "fingerprint"
    <2>1. Behind(Place["econ"]) /\ txn' = "clean" /\ At("fingerprint")
        BY <1>3 DEF Handled, RollsBack, At
    <2> QED
        BY <2>1, GoFar
<1>4. CASE Order[pc] \notin {"snapshot", "fingerprint"}
    <2>1. Behind(pc) /\ txn' = IF Order[pc] \in RollsBack THEN "clean" ELSE "aborted"
        BY <1>4 DEF Handled
    <2>2. txn' = "aborted" => Order[pc] \notin RollsBack \cup {"snapshot", "vacuum"}
        BY <1>4, <2>1
    <2>3. txn' = "aborted" => HandsOn(pc, broken', done')
        <3>1. SUFFICES ASSUME txn' = "aborted" PROVE HandsOn(pc, broken', done')
            OBVIOUS
        <3>2. Order[pc + 1] \notin ClearsFirst /\ Block(Order[pc + 1]) = Block(Order[pc])
            BY <1>1, <2>2, <3>1, BlocksHold
        <3>3. Order[pc] # "wash"
            BY <2>2, <3>1 DEF RollsBack
        <3> QED
            BY <3>2, <3>3 DEF LostTo, HandsOn
    <2> QED
        BY <2>1, <2>3, GoOn
<1> QED
    BY <1>2, <1>3, <1>4

\* A swallowed failure: the stage is done, and hands the aborted transaction on to
\* its block or, the feed, to the wash pass.
LEMMA SpillSwallowed ==
    ASSUME TypeOK, SpillInv, pc # 0, Swallows, kindsOn' = kindsOn, Fetched',
           Order[pc] \notin RollsBack \cup {"snapshot", "vacuum"} \/ Order[pc] = "feed"
    PROVE  SpillInv'
<1>1. /\ pc \in 1..Last /\ Order[pc] \in Stage /\ Place[Order[pc]] = pc
      /\ \A i \in 1..Last : Order[i] = Order[pc] => i = pc
    BY AtPlace
<1>2. /\ done' = done \cup {Order[pc]} /\ broken' = broken \cup {Order[pc]}
      /\ Behind(pc) /\ broken' \subseteq Stage
    BY <1>1 DEF Swallows, TypeOK
<1>3. CASE Order[pc] \notin RollsBack \cup {"snapshot", "vacuum"}
    <2>1. Order[pc + 1] \notin ClearsFirst /\ Block(Order[pc + 1]) = Block(Order[pc])
        BY <1>1, <1>3, BlocksHold
    <2>2. Order[pc] \in broken' /\ Place[Order[pc]] <= pc
        BY <1>1, <1>2 DEF Last
    <2>3. HandsOn(pc, broken', done')
        BY <2>1, <2>2, BlockLoses
    <2> QED
        BY <1>2, <2>3, GoOn
<1>4. CASE Order[pc] = "feed"
    <2>1. Order[18] = "feed" /\ Order[19] = "wash"
        BY DEF Order
    <2>2. pc = 18
        BY <1>1, <1>4, <2>1 DEF Last
    <2>3. HandsOn(pc, broken', done')
        BY <1>1, <1>2, <1>4, <2>1, <2>2 DEF HandsOn, ClearsFirst
    <2> QED
        BY <1>2, <2>3, GoOn
<1> QED
    BY <1>3, <1>4

\* Where the named stages stand among the plain ones and the collectors.
LEMMA StageKinds ==
    ASSUME TypeOK, pc # 0
    PROVE  /\ Order[pc] \in Catalogued => Order[pc] \notin RollsBack /\ Block(Order[pc]) = 5 /\ 11 < pc
           /\ Order[pc] = "fetch" => pc = 11
<1>1. pc \in 1..Last /\ \A i \in 1..Last : Order[i] = Order[pc] => i = pc
    BY AtPlace
<1>2. /\ Order[11] = "fetch" /\ Order[12] = "watch" /\ Order[13] = "census"
      /\ Order[14] = "liveness" /\ Order[15] = "domain"
    BY DEF Order
<1>3. Order[pc] = "fetch" => pc = 11
    BY <1>1, <1>2 DEF Last
<1>4. CASE Order[pc] \in Catalogued
    <2>1. pc \in 12..15
        BY <1>1, <1>2, <1>4 DEF Catalogued, Last
    <2>2. Block(Order[pc]) = 5
        BY <2>1, BlockAt DEF Last
    <2> QED
        BY <1>3, <1>4, <2>1, <2>2 DEF Catalogued, RollsBack
<1> QED
    BY <1>3, <1>4

\* Whatever a step does, what is lost is lost to its block.
LEMMA SpillStep == TypeOK /\ NightTyped /\ SpillInv /\ [Next]_vars => SpillInv'
<1> SUFFICES ASSUME TypeOK, NightTyped, SpillInv, [Next]_vars PROVE SpillInv'
    OBVIOUS
<1>1. CASE SellerChanges
    BY <1>1, SpillStays DEF SellerChanges
<1>2. CASE NewDay
    BY <1>2, SpillStays DEF NewDay
<1>3. CASE StartRun
    <2>1. pc' = 1 /\ txn' = "clean" /\ done' = {}
        BY <1>3 DEF StartRun
    <2>2. \A s \in Stage : ~(Place[s] < 1)
        BY Places DEF Last
    <2>3. Explained(pc)'
        BY <2>1, <2>2 DEF Explained
    <2> QED
        BY <2>1, <2>3 DEF SpillInv, Poisoned, Fetched
<1>4. CASE PlainStage
    <2>1. PICK s \in Plain : At(s)
        BY <1>4 DEF PlainStage, Ready
    <2>2. pc # 0 /\ Order[pc] # "fetch" /\ Through /\ txn' = "clean" /\ kindsOn' = kindsOn
          /\ resources' = resources
        BY <1>4, <2>1 DEF PlainStage, At, Plain, world
    <2>3. Fetched'
        BY <2>2, FetchedStays DEF Through
    <2> QED
        BY <2>2, <2>3, SpillThrough
<1>5. CASE SkipKinds
    <2>1. /\ pc # 0 /\ Order[pc] = "kinds" /\ ~kindsOn /\ Behind(pc)
          /\ UNCHANGED <<kindsOn, txn, done, broken, resources>>
        BY <1>5 DEF SkipKinds, At, world
    <2>2. Fetched'
        BY <2>1, FetchedStays
    <2>3. Order[pc] \in Skipped
        BY <2>1 DEF Skipped
    <2>4. broken' \subseteq Stage
        BY <2>1 DEF TypeOK
    <2> QED
        BY <2>1, <2>2, <2>3, <2>4, PoisonStays, GoOn
<1>6. CASE Snapshot
    <2>1. /\ pc # 0 /\ Order[pc] = "snapshot" /\ Through /\ txn' = "clean"
          /\ kindsOn' = kindsOn /\ resources' = resources
        BY <1>6 DEF Snapshot, At, Ready, world
    <2>2. Fetched'
        BY <2>1, FetchedStays DEF Through
    <2> QED
        BY <2>1, <2>2, SpillThrough
<1>7. CASE Fetch
    <2>1. /\ pc # 0 /\ Order[pc] = "fetch" /\ Through /\ UNCHANGED <<txn, kindsOn>>
          /\ resources' = listing
        BY <1>7 DEF Fetch, At, world
    <2>2. listing # <<>>
        BY NightAssumption DEF NightTyped
    <2>3. Fetched'
        BY <2>1, <2>2 DEF Fetched, Unlisted
    <2>4. /\ Order[pc] \in done' /\ Behind(pc) /\ broken' = broken /\ done \subseteq done'
          /\ broken' \subseteq Stage /\ Order[pc] \notin RollsBack
        BY <2>1 DEF Through, TypeOK, RollsBack
    <2>5. txn' = "aborted" => (pc + 1 \in 1..Last => HandsOn(pc, broken', done'))
        <3>1. SUFFICES ASSUME txn = "aborted", pc + 1 \in 1..Last PROVE HandsOn(pc, broken', done')
            BY <2>1
        <3>2. HandsOn(pc, broken, done)
            BY <2>1, <2>4, <3>1, PoisonStays
        <3> QED
            BY <2>4, <3>2 DEF HandsOn
    <2> QED
        BY <2>1, <2>3, <2>4, <2>5, GoOn
<1>8. CASE SkipCatalogued
    <2>1. /\ pc # 0 /\ Order[pc] \in Catalogued /\ resources = Unlisted /\ Behind(pc)
          /\ UNCHANGED <<kindsOn, txn, done, broken, resources>>
        BY <1>8 DEF SkipCatalogued, world
    <2>2. Order[pc] # "fetch" /\ Order[pc] \notin RollsBack /\ Block(Order[pc]) = 5 /\ 11 < pc
          /\ pc \in 1..Last
        BY <2>1, StageKinds, AtPlace DEF Catalogued
    <2>3. Fetched'
        BY <2>1, <2>2, FetchedStays
    <2>4. "fetch" \in Stage \ (done \cup Skipped) /\ Place["fetch"] = 11 /\ Block("fetch") = 5
        <3>1. Order[11] = "fetch"
            BY DEF Order
        <3>2. Block("fetch") = 5 /\ "fetch" \in Stage
            BY <3>1, BlockAt, Places DEF Last
        <3> QED
            BY <2>1, <3>2, NamedPlaces DEF SpillInv, Fetched, Skipped
    <2>5. LostTo(pc, broken, done)
        <3>1. PICK f \in broken : Block(f) = 5 /\ Place[f] <= 11
            BY <2>1, <2>2, <2>4 DEF SpillInv, Explained, Costs
        <3>2. Place[f] \in 1..Last
            BY <3>1, Places DEF TypeOK
        <3>3. Block(f) = Block(Order[pc]) /\ Place[f] <= pc
            BY <2>2, <3>1, <3>2 DEF Last
        <3> QED
            BY <3>1, <3>3, BlockLoses
    <2>6. broken' \subseteq Stage /\ txn \in {"clean", "aborted"}
        BY <2>1 DEF TypeOK
    <2> QED
        BY <2>1, <2>2, <2>3, <2>5, <2>6, PoisonStays, GoOn
<1>9. CASE Watch \/ Census \/ Liveness \/ Domains \/ WriteFeed
    <2>1. PICK s \in {"watch", "census", "liveness", "domain", "feed"} : Ready(s) /\ Order[pc] = s
        BY <1>9 DEF Watch, Census, Liveness, Domains, WriteFeed, Ready, At
    <2>2. pc # 0 /\ Through /\ UNCHANGED <<kindsOn, resources>> /\ txn' = txn
        BY <1>9 DEF Watch, Census, Liveness, Domains, WriteFeed, Ready, At, world
    <2>3. txn' = "clean"
        BY <2>1, <2>2 DEF Ready, ClearsFirst
    <2>4. Fetched'
        BY <2>1, <2>2, FetchedStays DEF Through
    <2> QED
        BY <2>2, <2>3, <2>4, SpillThrough
<1>10. CASE Breaks
    <2>1. /\ pc # 0 /\ Order[pc] \notin {"fetch", "vacuum"} /\ Handled(Order[pc])
          /\ broken' = broken \cup {Order[pc]} /\ UNCHANGED <<kindsOn, resources, done>>
        BY <1>10 DEF Breaks, world
    <2>2. pc \in 1..Last /\ Order[pc] \in Stage /\ Place[Order[pc]] = pc
        BY <2>1, AtPlace
    <2>3. LostTo(pc, broken', done) /\ broken' \subseteq Stage
        <3>1. Order[pc] \in broken' /\ Place[Order[pc]] <= pc /\ broken' \subseteq Stage
            BY <2>1, <2>2 DEF Last, TypeOK
        <3> QED
            BY <3>1, BlockLoses
    <2>4. Fetched'
        BY <2>1, FetchedStays
    <2> QED
        BY <2>1, <2>3, <2>4, SpillHandled
<1>11. CASE Errs
    <2>1. /\ pc # 0 /\ Behind(pc) /\ broken' = broken \cup {Order[pc]}
          /\ UNCHANGED <<kindsOn, resources, done>>
          /\ txn' = IF At("vacuum") THEN "clean" ELSE txn
        BY <1>11 DEF Errs, world
    <2>2. pc \in 1..Last /\ Order[pc] \in Stage /\ Place[Order[pc]] = pc
        BY <2>1, AtPlace
    <2>3. LostTo(pc, broken', done) /\ broken' \subseteq Stage /\ broken \subseteq broken'
        <3>1. /\ Order[pc] \in broken' /\ Place[Order[pc]] <= pc /\ broken' \subseteq Stage
              /\ broken \subseteq broken'
            BY <2>1, <2>2 DEF Last, TypeOK
        <3> QED
            BY <3>1, BlockLoses
    <2>4. Fetched'
        BY <2>1 DEF SpillInv, Fetched, Behind, Finish, TypeOK
    <2>5. txn' = "aborted" => txn = "aborted" /\ Order[pc] \notin RollsBack /\ broken \subseteq broken'
        <3>1. txn' = "aborted" => txn = "aborted" /\ Order[pc] # "vacuum"
            BY <2>1 DEF At
        <3>2. CASE At("fetch")
            BY <2>3, <3>1, <3>2 DEF At, RollsBack
        <3>3. CASE Ready(Order[pc])
            BY <2>1, <3>1, <3>3 DEF Ready, SpillInv, Poisoned
        <3> QED
            BY <1>11, <2>3, <3>2, <3>3 DEF Errs
    <2>6. txn' = "aborted" => (pc + 1 \in 1..Last => HandsOn(pc, broken', done'))
        BY <2>1, <2>5, PoisonStays DEF HandsOn
    <2> QED
        BY <2>1, <2>3, <2>4, <2>6, GoOn
<1>12. CASE Spoiled
    <2>1. /\ pc # 0 /\ txn = "aborted" /\ Order[pc] \notin ClearsFirst \cup {"fetch"}
          /\ Handled(Order[pc]) /\ UNCHANGED <<kindsOn, resources, done, broken>>
        BY <1>12 DEF Spoiled, world
    <2>2. pc \in 1..Last /\ broken \subseteq Stage
        BY <2>1, AtPlace DEF TypeOK
    <2>3. LostTo(pc, broken, done)
        <3>1. PICK f \in broken : Costs(f, Order[pc]) /\ Place[f] < pc
            BY <2>1 DEF SpillInv, Poisoned
        <3>2. Place[f] \in 1..Last
            BY <2>2, Places
        <3>3. \/ Block(f) = Block(Order[pc]) /\ Place[f] <= pc
              \/ f = "feed" /\ f \in done /\ Order[pc] = "wash"
            BY <2>2, <3>1, <3>2 DEF Costs, Last
        <3> QED
            BY <3>1, <3>3 DEF LostTo
    <2>4. Fetched'
        BY <2>1, FetchedStays
    <2> QED
        BY <2>1, <2>2, <2>3, <2>4, SpillHandled DEF ClearsFirst
<1>13. CASE Killed
    BY <1>13 DEF Killed, Finish, SpillInv, Poisoned, Fetched
<1>14. CASE UNCHANGED vars
    BY <1>14, SpillStays DEF vars, world
<1>15. CASE FetchUnnoted
    <2>1. /\ At("fetch") /\ Swallows /\ resources' = listing /\ kindsOn' = kindsOn
        BY <1>15 DEF FetchUnnoted, world
    <2>2. listing # <<>>
        BY NightAssumption DEF NightTyped
    <2>3. Fetched'
        BY <2>1, <2>2 DEF Fetched, Unlisted
    <2>4. Order[pc] \notin RollsBack \cup {"snapshot", "vacuum"}
        BY <2>1 DEF At, RollsBack
    <2> QED
        BY <2>1, <2>3, <2>4, SpillSwallowed DEF At
<1>16. CASE WriteFeedUnseen
    <2>1. /\ At("feed") /\ Swallows /\ resources' = resources /\ kindsOn' = kindsOn
        BY <1>16 DEF WriteFeedUnseen, Ready, world
    <2>2. pc # 0 /\ Order[pc] = "feed"
        BY <2>1 DEF At
    <2>3. Fetched'
        BY <2>1, <2>2, FetchedStays DEF Swallows
    <2> QED
        BY <2>1, <2>2, <2>3, SpillSwallowed
<1> QED
    BY <1>1, <1>2, <1>3, <1>4, <1>5, <1>6, <1>7, <1>8, <1>9, <1>10, <1>11, <1>12, <1>13,
       <1>14, <1>15, <1>16 DEF Next

-----------------------------------------------------------------------------
(***************************************************************************)
(* The watch ledger.                                                       *)
(***************************************************************************)
Entry == [first : Day, last : Day, days : Nat, streak : Nat \ {0}, alerted : Nat]

\* What the ledger should say, given the days on which a network was seen.
Says(e, seen) ==
    /\ e \in Entry
    /\ seen \subseteq 1..day
    /\ e.days = Cardinality(seen)
    /\ e.last \in seen /\ \A d \in seen : e.first <= d /\ d <= e.last
    /\ (e.last - e.streak + 1)..e.last \subseteq seen
    /\ e.last - e.streak \notin seen

\* The ledger in these words.
LEMMA LedgerSays ==
    Sightings /\ WatchTrue <=>
        DOMAIN ledger = DOMAIN sighted /\ \A n \in DOMAIN ledger : Says(ledger[n], sighted[n])
    BY DEF Sightings, WatchTrue, Says, Entry

\* A network that is seen again, or for a second time today.
LEMMA SeenAgain ==
    ASSUME day \in Day, NEW e, NEW seen, Says(e, seen)
    PROVE  Says(Seen(e), {day} \cup seen)
<1>1. day \in Nat /\ MaxDay \in Nat /\ day <= MaxDay
    BY NightAssumption DEF Day
<1>2. /\ e.first \in Day /\ e.last \in Day /\ e.days \in Nat /\ e.streak \in Nat \ {0}
      /\ e.alerted \in Nat /\ e.last \in 1..day /\ e \in Entry
    BY DEF Says, Entry
<1>3. CASE e.last = day
    <2>1. {day} \cup seen = seen
        BY <1>3 DEF Says
    <2> QED
        BY <1>3, <2>1 DEF Seen
<1>4. CASE e.last # day
    <2>1. e.last < day /\ day \notin seen
        BY <1>1, <1>2, <1>4 DEF Says, Day
    <2>2. IsFiniteSet(1..day) /\ seen \in SUBSET (1..day)
        BY <1>1, FS_Interval DEF Says
    <2>3. IsFiniteSet(seen)
        BY <2>2, FS_Subset
    <2>4. Cardinality(seen \cup {day}) = Cardinality(seen) + 1
        BY <2>1, <2>3, FS_AddElement
    <2>5. seen \cup {day} = {day} \cup seen /\ Cardinality(seen) = e.days
        BY DEF Says
    <2>6. Cardinality({day} \cup seen) = e.days + 1
        BY <2>4, <2>5
    <2> DEFINE k == IF e.last = day - 1 THEN e.streak + 1 ELSE 1
    <2> DEFINE e1 == [e EXCEPT !.last = day]
    <2> DEFINE e2 == [e1 EXCEPT !.days = e.days + 1]
    <2> DEFINE f == [e2 EXCEPT !.streak = k]
    <2>7. Seen(e) = f
        BY <1>4 DEF Seen
    <2>8. k \in Nat \ {0}
        BY <1>2
    <2>9. (day - k + 1)..day \subseteq {day} \cup seen /\ day - k \notin {day} \cup seen
        BY <1>1, <1>2, <2>1 DEF Says, Day
    <2> HIDE DEF k, e1, e2
    <2>10. e1 \in Entry /\ e1.first = e.first /\ e1.last = day
        BY <1>1, <1>2 DEF Entry, e1
    <2>11. e2 \in Entry /\ e2.first = e.first /\ e2.last = day /\ e2.days = e.days + 1
        BY <1>2, <2>10 DEF Entry, e2
    <2>12. f \in Entry /\ f.first = e.first /\ f.last = day /\ f.days = e.days + 1 /\ f.streak = k
        BY <2>8, <2>11 DEF Entry
    <2>13. \A d \in {day} \cup seen : f.first <= d /\ d <= f.last
        BY <1>1, <1>2, <2>1, <2>12 DEF Says, Day
    <2>14. {day} \cup seen \subseteq 1..day
        BY <1>1 DEF Says, Day
    <2> QED
        BY <2>6, <2>7, <2>9, <2>12, <2>13, <2>14 DEF Says
<1> QED
    BY <1>3, <1>4

\* A network that is seen for the first time.
LEMMA SeenFirst ==
    ASSUME day \in Day
    PROVE  Says(Seen(NewEntry), {day})
<1>1. day \in Nat /\ day # 0 /\ MaxDay \in Nat /\ day <= MaxDay
    BY NightAssumption DEF Day
<1> DEFINE e == [first |-> day, last |-> 0, days |-> 0, streak |-> 0, alerted |-> 0]
<1> DEFINE k == IF e.last = day - 1 THEN e.streak + 1 ELSE 1
<1>2. k = 1 /\ e.last # day
    BY <1>1
<1> HIDE DEF k
<1> DEFINE e1 == [e EXCEPT !.last = day]
<1> DEFINE e2 == [e1 EXCEPT !.days = e.days + 1]
<1>3. Seen(NewEntry) = [e2 EXCEPT !.streak = k]
    BY <1>2 DEF Seen, NewEntry, k
<1>4. e1 = [first |-> day, last |-> day, days |-> 0, streak |-> 0, alerted |-> 0]
    OBVIOUS
<1>5. e2 = [first |-> day, last |-> day, days |-> 1, streak |-> 0, alerted |-> 0]
    <2> HIDE DEF e1
    <2> QED
        BY <1>4
<1>6. Seen(NewEntry) = [first |-> day, last |-> day, days |-> 1, streak |-> 1, alerted |-> 0]
    <2> HIDE DEF e2
    <2> QED
        BY <1>2, <1>3, <1>5
<1>7. Cardinality({day}) = 1
    BY FS_Singleton
<1> QED
    BY <1>1, <1>6, <1>7 DEF Says, Entry, Day

\* The number of legs is one.
LEMMA CountIsNat ==
    ASSUME resources \in [Url -> Seq(Leg)], NEW n
    PROVE  Count(n) \in Nat
<1> DEFINE legs(u) == {<<u, i>> : i \in {j \in DOMAIN resources[u] :
                                             NormNetwork(resources[u][j].net) = n}}
<1>1. ASSUME NEW u \in Url PROVE IsFiniteSet(legs(u))
    <2>1. resources[u] \in Seq(Leg)
        OBVIOUS
    <2>2. DOMAIN resources[u] = 1..Len(resources[u]) /\ Len(resources[u]) \in Nat
        BY <2>1
    <2>3. IsFiniteSet(DOMAIN resources[u])
        BY <2>2, FS_Interval
    <2> DEFINE I == {j \in DOMAIN resources[u] : NormNetwork(resources[u][j].net) = n}
    <2>4. IsFiniteSet(I)
        BY <2>3, FS_Subset
    <2> DEFINE f == [i \in I |-> <<u, i>>]
    <2>5. legs(u) = {<<u, i>> : i \in I}
        OBVIOUS
    <2> HIDE DEF I
    <2>6. f \in Surjection(I, {<<u, i>> : i \in I})
        BY DEF Surjection
    <2> QED
        BY <2>4, <2>5, <2>6, FS_Surjection
<1> DEFINE all == {legs(u) : u \in Url}
<1> HIDE DEF legs
<1>2. [u \in Url |-> legs(u)] \in Surjection(Url, all)
    BY DEF Surjection
<1>3. IsFiniteSet(all)
    BY <1>2, FeedAssumption, FS_Surjection
<1>4. IsFiniteSet(UNION all)
    BY <1>1, <1>3, FS_UNION
<1> QED
    BY <1>4, FS_CardinalityType DEF Count, legs

\* An alert changes no more than its own number.
LEMMA AlertSays ==
    ASSUME NEW e, NEW seen, NEW c \in Nat, Says(e, seen)
    PROVE  Says([e EXCEPT !.alerted = c], seen)
<1>1. [e EXCEPT !.alerted = c] \in Entry
    BY DEF Says, Entry
<1>2. LET f == [e EXCEPT !.alerted = c]
      IN f.first = e.first /\ f.last = e.last /\ f.days = e.days /\ f.streak = e.streak
    BY DEF Says, Entry
<1> QED
    BY <1>1, <1>2 DEF Says

\* Upserted rows.
LEMMA UpdatedRows ==
    ASSUME NEW f, NEW g
    PROVE  /\ DOMAIN Updated(f, g) = DOMAIN f \cup DOMAIN g
           /\ \A x \in DOMAIN g : Updated(f, g)[x] = g[x]
           /\ \A x \in DOMAIN f \ DOMAIN g : Updated(f, g)[x] = f[x]
    BY DEF Updated

LedgerTrue == DOMAIN ledger = DOMAIN sighted /\ \A n \in DOMAIN ledger : Says(ledger[n], sighted[n])

\* What the run sees today goes into the ledger and its truth alike.
LEMMA WatchSays ==
    ASSUME TypeOK, NightTyped, LedgerTrue, Watch
    PROVE  LedgerTrue'
<1>1. day \in Day /\ day' = day /\ resources \in [Url -> Seq(Leg)]
    BY DEF TypeOK, NightTyped, Watch, world
<1> DEFINE new == [n \in Unindexed |-> Sighting(n)]
<1> DEFINE saw == [n \in Unindexed |-> {day} \cup (IF n \in DOMAIN sighted THEN sighted[n] ELSE {})]
<1>2. ledger' = Updated(ledger, new) /\ sighted' = Updated(sighted, saw)
    BY DEF Watch
<1>3. DOMAIN new = Unindexed /\ DOMAIN saw = Unindexed
    OBVIOUS
<1>4. ASSUME NEW n \in Unindexed PROVE Says(new[n], saw[n])
    <2> DEFINE e == IF n \in DOMAIN ledger THEN ledger[n] ELSE NewEntry
    <2>1. Says(Seen(e), saw[n])
        <3>1. CASE n \in DOMAIN ledger
            <4>1. Says(ledger[n], sighted[n]) /\ saw[n] = {day} \cup sighted[n] /\ e = ledger[n]
                BY <3>1 DEF LedgerTrue
            <4> QED
                BY <1>1, <4>1, SeenAgain
        <3>2. CASE n \notin DOMAIN ledger
            <4>1. saw[n] = {day} /\ e = NewEntry
                BY <3>2 DEF LedgerTrue
            <4> QED
                BY <1>1, <4>1, SeenFirst
        <3> QED
            BY <3>1, <3>2
    <2>2. Count(n) \in Nat
        BY <1>1, CountIsNat
    <2>3. new[n] = Seen(e) \/ new[n] = [Seen(e) EXCEPT !.alerted = Count(n)]
        BY DEF Sighting
    <2> HIDE DEF new, saw, e
    <2> QED
        BY <2>1, <2>2, <2>3, AlertSays
<1> HIDE DEF new, saw
<1>5. DOMAIN ledger' = DOMAIN ledger \cup Unindexed /\ DOMAIN sighted' = DOMAIN sighted \cup Unindexed
    BY <1>2, <1>3, UpdatedRows
<1>6. ASSUME NEW n \in DOMAIN ledger' PROVE Says(ledger'[n], sighted'[n])
    <2>1. CASE n \in Unindexed
        <3>1. Updated(ledger, new)[n] = new[n] /\ Updated(sighted, saw)[n] = saw[n]
            <4>1. n \in DOMAIN new /\ n \in DOMAIN saw
                BY <1>3, <2>1
            <4> QED
                BY <4>1 DEF Updated
        <3> QED
            BY <1>2, <1>4, <2>1, <3>1
    <2>2. CASE n \notin Unindexed
        <3>1. n \in DOMAIN ledger /\ n \in DOMAIN sighted
            BY <1>5, <1>6, <2>2 DEF LedgerTrue
        <3>2. ledger'[n] = ledger[n] /\ sighted'[n] = sighted[n]
            BY <1>2, <1>3, <2>2, <3>1, UpdatedRows
        <3> QED
            BY <3>1, <3>2 DEF LedgerTrue
    <2> QED
        BY <2>1, <2>2
<1>7. \A e, seen : Says(e, seen)' <=> Says(e, seen)
    BY <1>1 DEF Says
<1> QED
    BY <1>5, <1>6, <1>7 DEF LedgerTrue

\* No step makes the ledger forget, or count twice.
LEMMA WatchStep == TypeOK /\ NightTyped /\ LedgerTrue /\ [Next]_vars => LedgerTrue'
<1> SUFFICES ASSUME TypeOK, NightTyped, LedgerTrue, [Next]_vars PROVE LedgerTrue'
    OBVIOUS
<1>1. CASE Watch
    BY <1>1, WatchSays
<1>2. CASE ~Watch
    <2>1. ledger' = ledger /\ sighted' = sighted /\ (day' = day \/ day' = day + 1)
        BY <1>2 DEF Next, vars, world, tables, truth, SellerChanges, NewDay, StartRun, PlainStage,
           SkipKinds, Snapshot, Fetch, SkipCatalogued, Census, Liveness, Domains, WriteFeed,
           FetchUnnoted, WriteFeedUnseen, Swallows, Breaks, Errs, Spoiled, Killed
    <2>2. day \in Nat
        BY DEF TypeOK, Day
    <2>3. \A e, seen : Says(e, seen) => Says(e, seen)'
        BY <2>1, <2>2 DEF Says
    <2> QED
        BY <2>1, <2>3 DEF LedgerTrue
<1> QED
    BY <1>1, <1>2

-----------------------------------------------------------------------------
(***************************************************************************)
(* Types.                                                                  *)
(***************************************************************************)
\* The ledger counts days of the calendar.
LEMMA LedgerDays ==
    ASSUME day \in Day, LedgerTrue, NEW n \in DOMAIN ledger
    PROVE  ledger[n].days \in 1..day /\ ledger[n].streak \in 1..ledger[n].days
<1> DEFINE e == ledger[n]
<1> DEFINE seen == sighted[n]
<1>1. Says(e, seen)
    BY DEF LedgerTrue
<1> HIDE DEF e, seen
<1>2. day \in Nat
    BY DEF Day
<1>3. e.days \in Nat /\ e.streak \in Nat \ {0} /\ e.last \in Int
    BY <1>1 DEF Says, Entry, Day
<1>4. IsFiniteSet(1..day) /\ Cardinality(1..day) = day
    BY <1>2, FS_Interval
<1>5. seen \in SUBSET (1..day)
    BY <1>1 DEF Says
<1>6. IsFiniteSet(seen) /\ Cardinality(seen) <= day
    BY <1>4, <1>5, FS_Subset
<1> DEFINE a == e.last - e.streak + 1
<1>7. a \in Int /\ a <= e.last /\ e.last - a + 1 = e.streak
    BY <1>3
<1>8. a..e.last \in SUBSET seen
    BY <1>1 DEF Says
<1> HIDE DEF a
<1>9. Cardinality(a..e.last) = e.streak
    BY <1>3, <1>7, FS_Interval
<1> DEFINE row == a..e.last
<1>10. Cardinality(row) <= Cardinality(seen)
    <2> HIDE DEF row
    <2>1. row \in SUBSET seen
        BY <1>8 DEF row
    <2> QED
        BY <1>6, <2>1, FS_Subset
<1>11. e.streak <= Cardinality(seen)
    BY <1>9, <1>10
<1>12. e.days = Cardinality(seen)
    BY <1>1 DEF Says
<1> QED
    BY <1>2, <1>3, <1>6, <1>11, <1>12 DEF e

Offer == [net : Label, wallet : Wallet]

\* What is kept of an answer: an offer per address.
LEMMA OffersProper ==
    ASSUME NEW legs \in Seq(Leg)
    PROVE  /\ Offers(legs) \subseteq Offer
           /\ \A o1, o2 \in Offers(legs) : o1.wallet = o2.wallet => o1 = o2
<1>1. DOMAIN legs = 1..Len(legs) /\ Len(legs) \in Nat /\ \A i \in DOMAIN legs : legs[i] \in Leg
    OBVIOUS
<1> DEFINE offer(i) == [net |-> legs[i].net, wallet |-> Spelled[legs[i].wallet]]
<1>2. \A i \in DOMAIN legs : offer(i) \in Offer
    BY <1>1, FeedAssumption DEF Offer, Leg
<1>3. \A o \in Offers(legs) : \E i \in DOMAIN legs :
         o = offer(i) /\ \A k \in 1..(i - 1) : Spelled[legs[k].wallet] # Spelled[legs[i].wallet]
    BY DEF Offers
<1>4. ASSUME NEW o1 \in Offers(legs), NEW o2 \in Offers(legs), o1.wallet = o2.wallet
      PROVE  o1 = o2
    <2>1. PICK i \in DOMAIN legs :
             o1 = offer(i) /\ \A k \in 1..(i - 1) : Spelled[legs[k].wallet] # Spelled[legs[i].wallet]
        BY <1>3
    <2>2. PICK j \in DOMAIN legs :
             o2 = offer(j) /\ \A k \in 1..(j - 1) : Spelled[legs[k].wallet] # Spelled[legs[j].wallet]
        BY <1>3
    <2>3. Spelled[legs[i].wallet] = Spelled[legs[j].wallet]
        BY <1>4, <2>1, <2>2
    <2>4. i \in Nat /\ j \in Nat /\ 1 <= i /\ 1 <= j
        BY <1>1
    <2>5. i = j
        BY <2>1, <2>2, <2>3, <2>4
    <2> QED
        BY <2>1, <2>2, <2>5
<1> QED
    BY <1>2, <1>3, <1>4

\* A valid answer is a sequence of legs.
LEMMA ProbedProper ==
    ASSUME NEW a \in [get : Reply, post : Reply], Probed(a) \notin {Down, Other}
    PROVE  Probed(a) \in Seq(Leg)
    BY DEF Probed, Reply

\* A day's offers stay one per address.
LEMMA UpsertProper ==
    ASSUME NEW old \in SUBSET Offer, NEW new \in SUBSET Offer,
           \A o1, o2 \in old : o1.wallet = o2.wallet => o1 = o2,
           \A o1, o2 \in new : o1.wallet = o2.wallet => o1 = o2
    PROVE  /\ Upserted(old, new) \in SUBSET Offer
           /\ \A o1, o2 \in Upserted(old, new) : o1.wallet = o2.wallet => o1 = o2
    BY DEF Upserted

\* Where the run is and what has become of it.
RunTyped ==
    /\ pc \in 0..Len(Order)
    /\ txn \in {"clean", "aborted"}
    /\ done \subseteq Stage /\ broken \subseteq Stage
    /\ pc # 0 => \A s \in done \cup broken : Place[s] <= pc
    /\ ended \in {"never", "finished", "died", "killed"}

\* On to a later place.
LEMMA BehindTyped ==
    ASSUME RunTyped, pc # 0, NEW p \in pc..Last, Behind(p), txn' \in {"clean", "aborted"},
           done' \subseteq done \cup {Order[pc]}, broken' \subseteq broken \cup {Order[pc]}
    PROVE  RunTyped'
<1>1. pc \in 1..Last /\ p \in 1..Last /\ Len(Order) = Last
    BY OrderInjective DEF RunTyped, Last
<1>2. Order[pc] \in Stage /\ Place[Order[pc]] = pc
    BY <1>1, Places
<1>3. pc' = 0 \/ (pc' = p + 1 /\ pc' \in 1..Last)
    BY <1>1 DEF Behind, Finish, Last
<1>4. \A s \in done' \cup broken' : s \in Stage /\ Place[s] <= pc
    BY <1>2 DEF RunTyped
<1>5. \A s \in Stage : Place[s] \in Nat
    BY Places DEF Last
<1>6. pc' # 0 => \A s \in done' \cup broken' : Place[s] <= pc'
    BY <1>1, <1>3, <1>4, <1>5 DEF Last
<1>7. ended' \in {"never", "finished", "died", "killed"}
    BY DEF RunTyped, Behind, Finish
<1> QED
    BY <1>1, <1>3, <1>4, <1>6, <1>7 DEF RunTyped, Last

\* What an exception comes to keeps the run typed.
LEMMA HandledTyped ==
    ASSUME RunTyped, pc # 0, Handled(Order[pc]), done' = done,
           broken' \subseteq broken \cup {Order[pc]}
    PROVE  RunTyped'
<1>1. pc \in 1..Last /\ Len(Order) = Last
    BY OrderInjective DEF RunTyped
<1>2. Order[pc] \in Stage
    BY <1>1, Places
<1>3. CASE Order[pc] = "snapshot"
    BY <1>1, <1>2, <1>3 DEF Handled, Finish, RunTyped
<1>4. CASE Order[pc] = "fingerprint"
    <2>1. pc = 8
        BY <1>1, <1>4, OrderInjective DEF Order
    <2>2. Place["econ"] \in pc..Last
        BY <2>1, NamedPlaces DEF Last
    <2>3. Behind(Place["econ"]) /\ txn' \in {"clean", "aborted"}
        BY <1>4 DEF Handled
    <2> QED
        BY <2>2, <2>3, BehindTyped
<1>5. CASE Order[pc] \notin {"snapshot", "fingerprint"}
    <2>1. Behind(pc) /\ txn' \in {"clean", "aborted"}
        BY <1>5 DEF Handled
    <2>2. pc \in pc..Last
        BY <1>1 DEF Last
    <2> QED
        BY <2>1, <2>2, BehindTyped
<1> QED
    BY <1>3, <1>4, <1>5

\* Every step keeps the run typed.
LEMMA RunTypedStep == RunTyped /\ [Next]_vars => RunTyped'
<1> SUFFICES ASSUME RunTyped, [Next]_vars PROVE RunTyped'
    OBVIOUS
<1>1. pc # 0 => pc \in pc..Last /\ txn \in {"clean", "aborted"}
    BY OrderInjective DEF RunTyped, Last
<1>2. CASE SellerChanges \/ NewDay \/ UNCHANGED vars
    BY <1>2 DEF SellerChanges, NewDay, vars, RunTyped
<1>3. CASE StartRun
    BY <1>3, OrderInjective DEF StartRun, RunTyped, Last
<1>4. CASE PlainStage \/ Snapshot \/ Fetch \/ Watch \/ Census \/ Liveness \/ Domains \/ WriteFeed
    <2>1. pc # 0 /\ Through /\ txn' \in {"clean", txn}
        BY <1>4 DEF PlainStage, Snapshot, Fetch, Watch, Census, Liveness, Domains, WriteFeed,
                    Ready, At
    <2> QED
        BY <1>1, <2>1, BehindTyped DEF Through
<1>5. CASE SkipKinds \/ SkipCatalogued
    <2>1. pc # 0 /\ Behind(pc) /\ UNCHANGED <<txn, done, broken>>
        BY <1>5 DEF SkipKinds, SkipCatalogued, At
    <2> QED
        BY <1>1, <2>1, BehindTyped
<1>6. CASE Breaks \/ Spoiled
    BY <1>6, HandledTyped DEF Breaks, Spoiled
<1>7. CASE Errs
    <2>1. pc # 0 /\ Behind(pc) /\ txn' \in {"clean", txn} /\ done' = done
          /\ broken' = broken \cup {Order[pc]}
        BY <1>7 DEF Errs
    <2> QED
        BY <1>1, <2>1, BehindTyped
<1>8. CASE Killed
    BY <1>8 DEF Killed, Finish, RunTyped
<1>9. CASE FetchUnnoted \/ WriteFeedUnseen
    <2>1. /\ pc # 0 /\ Behind(pc) /\ txn' = "aborted" /\ done' = done \cup {Order[pc]}
          /\ broken' = broken \cup {Order[pc]}
        BY <1>9 DEF FetchUnnoted, WriteFeedUnseen, Swallows, Ready, At
    <2> QED
        BY <1>1, <2>1, BehindTyped
<1> QED
    BY <1>2, <1>3, <1>4, <1>5, <1>6, <1>7, <1>8, <1>9 DEF Next

\* The world, the tables and the history variables.
TablesTyped ==
    /\ day \in Day
    /\ \A u \in Url : listing[u] \in Listings[u] /\ ask[u] \in Asks[u]
    /\ NightTyped
    /\ \A d \in Day, u \in Url :
          \A o1, o2 \in offers[d][u] : o1.wallet = o2.wallet => o1 = o2

\* A listing or an answer that changes.
LEMMA SellerTyped ==
    ASSUME TablesTyped, SellerChanges
    PROVE  TablesTyped'
<1>1. UNCHANGED <<day, resources, census, offers, listed, answered>>
    BY DEF SellerChanges, tables, truth
<1>2. PICK u \in Url :
        \/ /\ \E l \in Listings[u] \ {listing[u]} : listing' = [listing EXCEPT ![u] = l]
           /\ UNCHANGED ask
        \/ /\ \E a \in Asks[u] \ {ask[u]} : ask' = [ask EXCEPT ![u] = a]
           /\ UNCHANGED listing
    BY DEF SellerChanges
<1>3. /\ listing \in [Url -> Seq(Leg)] /\ ask \in [Url -> [get : Reply, post : Reply]]
      /\ Listings[u] \subseteq Seq(Leg) /\ Asks[u] \subseteq [get : Reply, post : Reply]
    BY NightAssumption DEF TablesTyped, NightTyped
<1>4. CASE \E l \in Listings[u] \ {listing[u]} : listing' = [listing EXCEPT ![u] = l] /\ UNCHANGED ask
    <2>1. PICK l \in Listings[u] : listing' = [listing EXCEPT ![u] = l] /\ ask' = ask
        BY <1>4
    <2>2. listing' \in [Url -> Seq(Leg)] /\ \A v \in Url : listing'[v] \in Listings[v]
        BY <1>3, <2>1 DEF TablesTyped
    <2> QED
        BY <1>1, <2>1, <2>2 DEF TablesTyped, NightTyped
<1>5. CASE \E a \in Asks[u] \ {ask[u]} : ask' = [ask EXCEPT ![u] = a] /\ UNCHANGED listing
    <2>1. PICK a \in Asks[u] : ask' = [ask EXCEPT ![u] = a] /\ listing' = listing
        BY <1>5
    <2>2. ask' \in [Url -> [get : Reply, post : Reply]] /\ \A v \in Url : ask'[v] \in Asks[v]
        BY <1>3, <2>1 DEF TablesTyped
    <2> QED
        BY <1>1, <2>1, <2>2 DEF TablesTyped, NightTyped
<1> QED
    BY <1>2, <1>4, <1>5

\* The rows of the census.
LEMMA CensusTyped ==
    ASSUME TablesTyped, Census
    PROVE  TablesTyped'
<1>1. /\ UNCHANGED <<day, listing, ask, resources, offers, answered>>
      /\ census' = [census EXCEPT ![day] = [u \in Url |-> Updated(@[u], Listed(resources[u]))]]
      /\ listed' = [listed EXCEPT ![day] = [u \in Url |-> @[u] \cup {resources[u]}]]
      /\ resources \in [Url -> Seq(Leg)] /\ day \in Day
    BY DEF Census, world, TablesTyped, NightTyped
<1>2. DOMAIN census' = Day /\ \A d \in Day : DOMAIN census'[d] = Url
    BY <1>1 DEF TablesTyped, NightTyped
<1>3. [u \in Url |-> listed[day][u] \cup {resources[u]}] \in [Url -> SUBSET Seq(Leg)]
    BY <1>1 DEF TablesTyped, NightTyped
<1>4. listed' \in [Day -> [Url -> SUBSET Seq(Leg)]]
    BY <1>1, <1>3 DEF TablesTyped, NightTyped
<1> QED
    BY <1>1, <1>2, <1>4 DEF TablesTyped, NightTyped

\* The offers and answers of a probe.
LEMMA LivenessTyped ==
    ASSUME TablesTyped, Liveness
    PROVE  TablesTyped'
<1>1. /\ UNCHANGED <<day, listing, ask, resources, census, listed>> /\ day \in Day
      /\ ask \in [Url -> [get : Reply, post : Reply]]
      /\ offers \in [Day -> [Url -> SUBSET Offer]] /\ answered \in [Day -> [Url -> SUBSET Seq(Leg)]]
    BY DEF Liveness, world, TablesTyped, NightTyped, Offer
<1> DEFINE valid == {u \in Reached : Probed(ask[u]) \notin {Down, Other}}
<1> DEFINE offered == [u \in Url |-> IF u \in valid THEN Upserted(offers[day][u], Offers(Probed(ask[u])))
                                     ELSE offers[day][u]]
<1> DEFINE said == [u \in Url |-> IF u \in valid THEN answered[day][u] \cup {Probed(ask[u])}
                                  ELSE answered[day][u]]
<1>2. offers' = [offers EXCEPT ![day] = offered] /\ answered' = [answered EXCEPT ![day] = said]
    BY DEF Liveness
<1>3. ASSUME NEW u \in Url
      PROVE  /\ offered[u] \in SUBSET Offer /\ said[u] \in SUBSET Seq(Leg)
             /\ \A o1, o2 \in offered[u] : o1.wallet = o2.wallet => o1 = o2
    <2>1. offers[day][u] \in SUBSET Offer /\ answered[day][u] \in SUBSET Seq(Leg)
          /\ \A o1, o2 \in offers[day][u] : o1.wallet = o2.wallet => o1 = o2
        BY <1>1 DEF TablesTyped
    <2>2. CASE u \in valid
        <3>1. Probed(ask[u]) \in Seq(Leg)
            BY <1>1, <2>2, ProbedProper
        <3> DEFINE new == Offers(Probed(ask[u]))
        <3>2. new \in SUBSET Offer /\ \A o1, o2 \in new : o1.wallet = o2.wallet => o1 = o2
            BY <3>1, OffersProper
        <3>3. /\ Upserted(offers[day][u], new) \in SUBSET Offer
              /\ \A o1, o2 \in Upserted(offers[day][u], new) : o1.wallet = o2.wallet => o1 = o2
            <4> HIDE DEF new
            <4> QED
                BY <2>1, <3>2, UpsertProper
        <3> QED
            BY <2>1, <2>2, <3>1, <3>3
    <2>3. CASE u \notin valid
        BY <2>1, <2>3
    <2> QED
        BY <2>2, <2>3
<1>4. DOMAIN offered = Url /\ DOMAIN said = Url /\ offered = [u \in Url |-> offered[u]]
        /\ said = [u \in Url |-> said[u]]
    OBVIOUS
<1> HIDE DEF offered, said
<1>5. offered \in [Url -> SUBSET Offer] /\ said \in [Url -> SUBSET Seq(Leg)]
    BY <1>3, <1>4
<1>6. offers' \in [Day -> [Url -> SUBSET Offer]] /\ answered' \in [Day -> [Url -> SUBSET Seq(Leg)]]
    BY <1>1, <1>2, <1>5
<1>7. \A d \in Day, u \in Url : \A o1, o2 \in offers'[d][u] : o1.wallet = o2.wallet => o1 = o2
    <2> SUFFICES ASSUME NEW d \in Day, NEW u \in Url
                 PROVE  \A o1, o2 \in offers'[d][u] : o1.wallet = o2.wallet => o1 = o2
        OBVIOUS
    <2>1. CASE d = day
        BY <1>1, <1>2, <1>3, <2>1
    <2>2. CASE d # day
        <3>1. offers'[d] = offers[d]
            BY <1>1, <1>2, <2>2
        <3> QED
            BY <3>1 DEF TablesTyped
    <2> QED
        BY <2>1, <2>2
<1> QED
    BY <1>1, <1>6, <1>7 DEF TablesTyped, NightTyped, Offer

\* Every step keeps the tables typed.
LEMMA TablesTypedStep == TablesTyped /\ [Next]_vars => TablesTyped'
<1> SUFFICES ASSUME TablesTyped, [Next]_vars PROVE TablesTyped'
    OBVIOUS
<1>1. CASE SellerChanges
    BY <1>1, SellerTyped
<1>2. CASE NewDay
    <2>1. day' \in Day
        BY <1>2, NightAssumption DEF NewDay, TablesTyped, Day
    <2>2. UNCHANGED <<listing, ask, resources, census, offers, listed, answered>>
        BY <1>2 DEF NewDay, tables, truth
    <2> QED
        BY <2>1, <2>2 DEF TablesTyped, NightTyped
<1>3. CASE StartRun
    <2>1. UNCHANGED <<day, listing, ask, census, offers, listed, answered>> /\ resources' = Unlisted
        BY <1>3 DEF StartRun, world, tables, truth
    <2> QED
        BY <2>1 DEF TablesTyped, NightTyped
<1>4. CASE Fetch \/ FetchUnnoted
    <2>1. UNCHANGED <<day, listing, ask, census, offers, listed, answered>> /\ resources' = listing
        BY <1>4 DEF Fetch, FetchUnnoted, world, tables, truth
    <2> QED
        BY <2>1 DEF TablesTyped, NightTyped
<1>5. CASE Census
    BY <1>5, CensusTyped
<1>6. CASE Liveness
    BY <1>6, LivenessTyped
<1>7. CASE PlainStage \/ SkipKinds \/ Snapshot \/ SkipCatalogued \/ Watch \/ Domains \/ WriteFeed
           \/ WriteFeedUnseen \/ Breaks \/ Errs \/ Spoiled \/ Killed \/ UNCHANGED vars
    <2>1. UNCHANGED <<day, listing, ask, resources, census, offers, listed, answered>>
        BY <1>7 DEF PlainStage, SkipKinds, Snapshot, SkipCatalogued, Watch, Domains, WriteFeed,
           WriteFeedUnseen, Breaks, Errs, Spoiled, Killed, vars, world, tables, truth
    <2> QED
        BY <2>1 DEF TablesTyped, NightTyped
<1> QED
    BY <1>1, <1>2, <1>3, <1>4, <1>5, <1>6, <1>7 DEF Next

\* TypeOK in these words.
LEMMA TypeSays ==
    ASSUME LedgerTrue
    PROVE  TypeOK /\ NightTyped <=> RunTyped /\ TablesTyped
<1>1. TablesTyped => \A n \in DOMAIN ledger :
          ledger[n].days \in 1..day /\ ledger[n].streak \in 1..ledger[n].days
    BY LedgerDays DEF TablesTyped
<1>2. NightTyped => (resources = Unlisted \/ DOMAIN resources = Url)
    BY DEF NightTyped
<1> QED
    BY <1>1, <1>2 DEF TypeOK, RunTyped, TablesTyped

\* In the beginning.
LEMMA InitNight == Init => RunTyped /\ TablesTyped /\ LedgerTrue /\ SpillInv
<1> SUFFICES ASSUME Init PROVE RunTyped /\ TablesTyped /\ LedgerTrue /\ SpillInv
    OBVIOUS
<1>1. RunTyped
    BY OrderInjective DEF Init, RunTyped, Last
<1>2. TablesTyped
    <2>1. day \in Day
        BY NightAssumption DEF Init, Day
    <2>2. listing \in [Url -> Seq(Leg)] /\ ask \in [Url -> [get : Reply, post : Reply]]
        <3>1. UNION {Listings[u] : u \in Url} \subseteq Seq(Leg)
            BY NightAssumption
        <3>2. UNION {Asks[u] : u \in Url} \subseteq [get : Reply, post : Reply]
            BY NightAssumption
        <3> QED
            BY <3>1, <3>2 DEF Init
    <2>3. /\ DOMAIN census = Day /\ \A d \in Day : DOMAIN census[d] = Url
          /\ offers \in [Day -> [Url -> SUBSET Offer]]
          /\ \A d \in Day, u \in Url : offers[d][u] = {}
          /\ listed \in [Day -> [Url -> SUBSET Seq(Leg)]]
          /\ answered \in [Day -> [Url -> SUBSET Seq(Leg)]]
        BY DEF Init, Nowhere
    <2> QED
        BY <2>1, <2>2, <2>3 DEF Init, TablesTyped, NightTyped, Offer
<1>3. LedgerTrue
    BY DEF Init, LedgerTrue
<1>4. SpillInv
    BY DEF Init, SpillInv, Poisoned, Fetched
<1> QED
    BY <1>1, <1>2, <1>3, <1>4

-----------------------------------------------------------------------------
(***************************************************************************)
(* The first three theorems.                                               *)
(***************************************************************************)
\* The inductive invariant without the feed.
RunInv == RunTyped /\ TablesTyped /\ LedgerTrue /\ SpillInv

\* Whatever fails, in whatever order: types, ledger, and what is lost to what.
THEOREM NightInvariant == Spec => []RunInv
<1>1. Init => RunInv
    BY InitNight DEF RunInv
<1>2. RunInv /\ [Next]_vars => RunInv'
    BY TypeSays, RunTypedStep, TablesTypedStep, WatchStep, SpillStep DEF RunInv
<1> QED
    BY <1>1, <1>2, PTL DEF Spec

\* The variables of the night keep their types.
THEOREM TypeCorrect == Spec => []TypeOK
<1>1. RunInv => TypeOK
    BY TypeSays DEF RunInv
<1> QED
    BY <1>1, NightInvariant, PTL

\* "Without this rollback the poison propagates" (daily_snapshot.py:1271): a run
\* that is not killed loses a stage only to a failure of its block or, the wash
\* pass, to a look-up of the feed that failed without a rollback.
THEOREM SpillIsContained == Spec => []SpillContained
<1>1. RunInv => SpillContained
    <2> SUFFICES ASSUME RunInv, ended = "finished", pc = 0,
                        NEW s \in Stage \ (done \cup Skipped)
                 PROVE  \E f \in broken : Costs(f, s)
        BY DEF RunInv, SpillInv, SpillContained
    <2>1. Place[s] < Len(Order) + 1
        BY Places, OrderInjective DEF Last
    <2> QED
        BY <2>1 DEF RunInv, SpillInv, Explained
<1> QED
    BY <1>1, NightInvariant, PTL

\* "No double-counted days/streaks" (instrumentation.py:931): the ledger's memory is
\* what the runs saw.
THEOREM LedgerRemembers == Spec => []WatchTrue
<1>1. RunInv => WatchTrue
    BY LedgerSays DEF RunInv, LedgerTrue
<1> QED
    BY <1>1, NightInvariant, PTL

-----------------------------------------------------------------------------
(***************************************************************************)
(* What the tables say of what was listed and answered.                    *)
(***************************************************************************)
\* A catalog that is recorded.
LEMMA ListingIsRecorded ==
    ASSUME NEW rows, NEW ls, NEW l, RowsAreListed(rows, ls)
    PROVE  RowsAreListed(Updated(rows, Listed(l)), ls \cup {l})
<1>1. DOMAIN Listed(l) = DOMAIN l
    BY DEF Listed
<1>2. DOMAIN Updated(rows, Listed(l)) = DOMAIN rows \cup DOMAIN l
    BY <1>1, UpdatedRows
<1>3. IsFiniteSet(ls \cup {l})
    BY FS_AddElement DEF RowsAreListed
<1>4. ASSUME NEW i \in DOMAIN rows \cup DOMAIN l
      PROVE  \E k \in ls \cup {l} : i \in DOMAIN k /\ Updated(rows, Listed(l))[i] = Listed(k)[i]
    <2>1. CASE i \in DOMAIN l
        <3>1. Updated(rows, Listed(l))[i] = Listed(l)[i]
            BY <1>1, <2>1 DEF Updated
        <3> QED
            BY <2>1, <3>1
    <2>2. CASE i \notin DOMAIN l
        <3>1. i \in DOMAIN rows \ DOMAIN Listed(l)
            BY <1>1, <2>2
        <3>2. Updated(rows, Listed(l))[i] = rows[i]
            BY <3>1, UpdatedRows
        <3> QED
            BY <3>1, <3>2 DEF RowsAreListed
    <2> QED
        BY <2>1, <2>2
<1>5. \A k \in ls \cup {l} : DOMAIN k \subseteq DOMAIN rows \cup DOMAIN l
    BY DEF RowsAreListed
<1> QED
    BY <1>2, <1>3, <1>4, <1>5 DEF RowsAreListed

\* An answer that is recorded.
LEMMA AnswerIsRecorded ==
    ASSUME NEW os, NEW as, NEW a, OffersAreAnswered(os, as)
    PROVE  OffersAreAnswered(Upserted(os, Offers(a)), as \cup {a})
<1>1. IsFiniteSet(as \cup {a})
    BY FS_AddElement DEF OffersAreAnswered
<1>2. \A o \in Upserted(os, Offers(a)) : \E b \in as \cup {a} : o \in Offers(b)
    BY DEF Upserted, OffersAreAnswered
<1>3. ASSUME NEW b \in as \cup {a}, NEW o \in Offers(b)
      PROVE  \E p \in Upserted(os, Offers(a)) : p.wallet = o.wallet
    <2>1. CASE b = a
        BY <2>1 DEF Upserted
    <2>2. CASE b # a
        <3>1. PICK p \in os : p.wallet = o.wallet
            BY <2>2 DEF OffersAreAnswered
        <3> QED
            BY <3>1 DEF Upserted
    <2> QED
        BY <2>1, <2>2
<1> QED
    BY <1>1, <1>2, <1>3 DEF OffersAreAnswered

\* Every step records what it is told.
LEMMA RecordedStep == TablesTyped /\ Recorded /\ [Next]_vars => Recorded'
<1> SUFFICES ASSUME TablesTyped, Recorded, [Next]_vars PROVE Recorded'
    OBVIOUS
<1>1. /\ day \in Day /\ DOMAIN census = Day /\ \A d \in Day : DOMAIN census[d] = Url
      /\ listed \in [Day -> [Url -> SUBSET Seq(Leg)]] /\ answered \in [Day -> [Url -> SUBSET Seq(Leg)]]
      /\ offers \in [Day -> [Url -> SUBSET Offer]]
    BY DEF TablesTyped, NightTyped, Offer
<1>2. CASE Census
    <2>1. /\ offers' = offers /\ answered' = answered
          /\ census' = [census EXCEPT ![day] = [u \in Url |-> Updated(@[u], Listed(resources[u]))]]
          /\ listed' = [listed EXCEPT ![day] = [u \in Url |-> @[u] \cup {resources[u]}]]
        BY <1>2 DEF Census
    <2>2. ASSUME NEW d \in Day, NEW u \in Url PROVE RowsAreListed(census'[d][u], listed'[d][u])
        <3>1. RowsAreListed(census[d][u], listed[d][u])
            BY DEF Recorded
        <3>2. CASE d = day
            <4>1. /\ census'[d][u] = Updated(census[d][u], Listed(resources[u]))
                  /\ listed'[d][u] = listed[d][u] \cup {resources[u]}
                BY <1>1, <2>1, <3>2
            <4> QED
                BY <3>1, <4>1, ListingIsRecorded
        <3>3. CASE d # day
            BY <1>1, <2>1, <3>1, <3>3
        <3> QED
            BY <3>2, <3>3
    <2> QED
        BY <2>1, <2>2 DEF Recorded
<1>3. CASE Liveness
    <2> DEFINE valid == {u \in Reached : Probed(ask[u]) \notin {Down, Other}}
    <2>1. /\ census' = census /\ listed' = listed
          /\ offers' = [offers EXCEPT ![day] =
                [u \in Url |-> IF u \in valid THEN Upserted(@[u], Offers(Probed(ask[u]))) ELSE @[u]]]
          /\ answered' = [answered EXCEPT ![day] =
                [u \in Url |-> IF u \in valid THEN @[u] \cup {Probed(ask[u])} ELSE @[u]]]
        BY <1>3 DEF Liveness
    <2> HIDE DEF valid
    <2>2. ASSUME NEW d \in Day, NEW u \in Url PROVE OffersAreAnswered(offers'[d][u], answered'[d][u])
        <3>1. OffersAreAnswered(offers[d][u], answered[d][u])
            BY DEF Recorded
        <3>2. CASE d = day /\ u \in valid
            <4>1. /\ offers'[d][u] = Upserted(offers[d][u], Offers(Probed(ask[u])))
                  /\ answered'[d][u] = answered[d][u] \cup {Probed(ask[u])}
                BY <1>1, <2>1, <3>2
            <4> QED
                BY <3>1, <4>1, AnswerIsRecorded
        <3>3. CASE ~(d = day /\ u \in valid)
            <4>1. offers'[d][u] = offers[d][u] /\ answered'[d][u] = answered[d][u]
                BY <1>1, <2>1, <3>3
            <4> QED
                BY <3>1, <4>1
        <3> QED
            BY <3>2, <3>3
    <2> QED
        BY <2>1, <2>2 DEF Recorded
<1>4. CASE ~Census /\ ~Liveness
    <2>1. UNCHANGED <<census, listed, offers, answered>>
        BY <1>4 DEF Next, vars, world, tables, truth, SellerChanges, NewDay, StartRun, PlainStage,
           SkipKinds, Snapshot, Fetch, SkipCatalogued, Watch, Domains, WriteFeed,
           FetchUnnoted, WriteFeedUnseen, Swallows, Breaks, Errs, Spoiled, Killed
    <2> QED
        BY <2>1 DEF Recorded
<1> QED
    BY <1>2, <1>3, <1>4

\* In the beginning nothing is recorded.
LEMMA InitRecorded == Init => Recorded
<1> SUFFICES ASSUME Init, NEW d \in Day, NEW u \in Url
             PROVE  /\ RowsAreListed(census[d][u], listed[d][u])
                    /\ OffersAreAnswered(offers[d][u], answered[d][u])
    BY DEF Recorded
<1>1. census[d][u] = <<>> /\ listed[d][u] = {} /\ offers[d][u] = {} /\ answered[d][u] = {}
    BY DEF Init, Nowhere
<1> QED
    BY <1>1, FS_EmptySet DEF RowsAreListed, OffersAreAnswered

-----------------------------------------------------------------------------
(***************************************************************************)
(* Two days of a set of days.                                              *)
(***************************************************************************)
\* Days have a first one and a last one.
LEMMA FirstAndLast ==
    ASSUME NEW S \in SUBSET Day, S # {}
    PROVE  /\ \E d \in S : \A e \in S : d <= e
           /\ \E d \in S : \A e \in S : e <= d
<1>1. MaxDay \in Nat /\ S \subseteq Nat /\ \A d \in S : d <= MaxDay
    BY NightAssumption DEF Day
<1> DEFINE R == OpToRel(<, Nat)
<1>2. IsWellFoundedOn(R, Nat)
    BY NatLessThanWellFounded, Zenon
<1>3. \A x, y \in Nat : x < y => <<x, y>> \in R
    BY Zenon DEF OpToRel
<1>4. PICK d \in S : \A e \in S : ~(<<e, d>> \in R)
    BY <1>1, <1>2, WFMin, Zenon
<1> DEFINE T == {MaxDay - e : e \in S}
<1>5. T \in SUBSET Nat /\ T # {}
    BY <1>1
<1>6. PICK m \in T : \A k \in T : ~(<<k, m>> \in R)
    BY <1>2, <1>5, WFMin, Zenon
<1> HIDE DEF R
<1>7. \A e \in S : d <= e
    <2> SUFFICES ASSUME NEW e \in S PROVE d <= e
        OBVIOUS
    <2>1. d \in Nat /\ e \in Nat
        BY <1>1
    <2>2. ~(e < d)
        BY <1>3, <1>4, <2>1
    <2> QED
        BY <2>1, <2>2
<1>8. PICK c \in S : m = MaxDay - c
    OBVIOUS
<1>9. \A e \in S : e <= c
    <2> SUFFICES ASSUME NEW e \in S PROVE e <= c
        OBVIOUS
    <2>1. MaxDay - e \in T /\ ~(<<MaxDay - e, m>> \in R)
        BY <1>6
    <2>2. ~(MaxDay - e < MaxDay - c)
        BY <1>3, <1>5, <1>8, <2>1
    <2>3. MaxDay \in Int /\ c \in Int /\ e \in Int
        BY <1>1
    <2> QED
        BY <2>2, <2>3
<1> QED
    BY <1>7, <1>9

\* MAX(measured_date) is a day with a row, unless there is none.
LEMMA NewestIsDay ==
    ASSUME NEW table, DOMAIN table = Day, NEW empty, NewestDay(table, empty) # 0
    PROVE  NewestDay(table, empty) \in Day
<1> DEFINE days == {d \in DOMAIN table : \E u \in Url : table[d][u] # empty}
<1>1. NewestDay(table, empty) = IF days = {} THEN 0 ELSE CHOOSE d \in days : \A e \in days : e <= d
    BY DEF NewestDay
<1>2. days \in SUBSET Day
    OBVIOUS
<1> HIDE DEF days
<1>3. days # {}
    BY <1>1
<1>4. \E d \in days : \A e \in days : e <= d
    BY <1>2, <1>3, FirstAndLast
<1> QED
    BY <1>1, <1>2, <1>3, <1>4

-----------------------------------------------------------------------------
(***************************************************************************)
(* The dialects.                                                           *)
(***************************************************************************)
\* Labels that census and feed bring together.
Paired == {"base", "eip155:8453", "polygon", "solana", "sei"}

\* These are they: canonical names tell them apart as their networks do.
LEMMA PairedLabels ==
    /\ \A x \in Label : CanonNet(NormNetwork(x)) = CanonNet(x) => x \in Paired
    /\ \A x, y \in Paired : CanonNet(x) = CanonNet(y) <=> Means(x) = Means(y)
    /\ \A x \in Label : Means(x) \in Paired /\ Means(Means(x)) = Means(x)
<1>1. ASSUME NEW x \in Label, CanonNet(NormNetwork(x)) = CanonNet(x) PROVE x \in Paired
    BY <1>1 DEF Label, Paired, CanonNet, NormNetwork
<1>2. ASSUME NEW x \in Paired, NEW y \in Paired
      PROVE  CanonNet(x) = CanonNet(y) <=> Means(x) = Means(y)
    BY DEF Paired, CanonNet, Means
<1>3. ASSUME NEW x \in Label PROVE Means(x) \in Paired /\ Means(Means(x)) = Means(x)
    BY DEF Label, Paired, Means
<1> QED
    BY <1>1, <1>2, <1>3

\* The legs of a listing as the feed reads them.
LEMMA ListedLegs ==
    ASSUME NEW l \in Seq(Leg), PairsUp(l)
    PROVE  /\ DOMAIN Listed(l) = DOMAIN l
           /\ \A i \in DOMAIN l :
                 /\ l[i].net \in Paired /\ l[i].wallet \in Wallet /\ Spelled[l[i].wallet] \in Wallet
                 /\ Listed(l)[i].wallet = l[i].wallet
                 /\ CanonNet(Listed(l)[i].net) = CanonNet(l[i].net)
<1>1. \A i \in DOMAIN l : l[i] \in Leg
    OBVIOUS
<1>2. \A i \in DOMAIN l : Listed(l)[i] = [l[i] EXCEPT !.net = NormNetwork(@)]
    BY DEF Listed
<1>3. ASSUME NEW i \in DOMAIN l
      PROVE  Listed(l)[i].wallet = l[i].wallet /\ Listed(l)[i].net = NormNetwork(l[i].net)
    BY <1>1, <1>2 DEF Leg
<1>4. \A i \in DOMAIN l : l[i].net \in Label /\ l[i].wallet \in Wallet /\ Spelled[l[i].wallet] \in Wallet
    BY <1>1, FeedAssumption DEF Leg
<1>5. \A i \in DOMAIN l : CanonNet(NormNetwork(l[i].net)) = CanonNet(l[i].net)
    BY DEF PairsUp
<1> QED
    BY <1>3, <1>4, <1>5, PairedLabels DEF Listed

\* What one side of the comparison says, in the words of what it was told.
Speaks(legs, told) ==
    /\ Nets(legs) = {CanonNet(told[i].net) : i \in DOMAIN told}
    /\ \A x \in Paired : On(legs, CanonNet(x)) = For(told, Means(x))
    /\ Wallets(legs) = Named(told)
    /\ legs # {} <=> told # <<>>

\* Legs that stand for those of a listing or an answer one by one speak for it.
LEMMA LegsSpeak ==
    ASSUME NEW told \in Seq(Leg), NEW leg, NEW legs, legs = {leg[i] : i \in DOMAIN told},
           \A i \in DOMAIN told :
               /\ told[i].net \in Paired /\ CanonNet(leg[i].net) = CanonNet(told[i].net)
               /\ Spelled[leg[i].wallet] = Spelled[told[i].wallet]
    PROVE  Speaks(legs, told)
<1>1. Nets(legs) = {CanonNet(told[i].net) : i \in DOMAIN told}
    BY DEF Nets
<1>2. ASSUME NEW x \in Paired PROVE On(legs, CanonNet(x)) = For(told, Means(x))
    <2>1. \A i \in DOMAIN told : CanonNet(leg[i].net) = CanonNet(x) <=> Means(told[i].net) = Means(x)
        BY PairedLabels
    <2> QED
        BY <2>1 DEF On, For
<1>3. Wallets(legs) = Named(told)
    BY DEF Wallets, Named
<1>4. legs # {} <=> told # <<>>
    OBVIOUS
<1> QED
    BY <1>1, <1>2, <1>3, <1>4 DEF Speaks

\* The catalog's side.
LEMMA CatalogSpeaks ==
    ASSUME NEW rows, NEW l \in Seq(Leg), RowsAreListed(rows, {l}), PairsUp(l)
    PROVE  Speaks(Legs(rows), l)
<1>1. DOMAIN rows = DOMAIN l /\ \A i \in DOMAIN l : rows[i] = Listed(l)[i]
    BY DEF RowsAreListed
<1>2. Legs(rows) = {rows[i] : i \in DOMAIN l}
    BY <1>1 DEF Legs
<1>3. \A i \in DOMAIN l :
        /\ l[i].net \in Paired /\ CanonNet(rows[i].net) = CanonNet(l[i].net)
        /\ Spelled[rows[i].wallet] = Spelled[l[i].wallet]
    BY <1>1, ListedLegs
<1> QED
    BY <1>2, <1>3, LegsSpeak

\* The probe's side: an answer that names no address twice loses no leg.
LEMMA AnswerSpeaks ==
    ASSUME NEW os \in SUBSET Offer, NEW a \in Seq(Leg), OffersAreAnswered(os, {a}),
           \A o1, o2 \in os : o1.wallet = o2.wallet => o1 = o2,
           PairsUp(a), AsksOnce(a)
    PROVE  Speaks(os, a)
<1> DEFINE leg == [i \in DOMAIN a |-> [net |-> a[i].net, wallet |-> Spelled[a[i].wallet]]]
<1>1. \A i \in DOMAIN a : /\ a[i].net \in Paired /\ a[i].wallet \in Wallet
                          /\ Spelled[Spelled[a[i].wallet]] = Spelled[a[i].wallet]
    BY ListedLegs, FeedAssumption
<1>2. Offers(a) = {leg[i] : i \in DOMAIN a}
    <2>1. \A j \in DOMAIN a : \A k \in 1..(j - 1) : Spelled[a[k].wallet] # Spelled[a[j].wallet]
        <3> SUFFICES ASSUME NEW j \in DOMAIN a, NEW k \in 1..(j - 1),
                            Spelled[a[k].wallet] = Spelled[a[j].wallet]
                     PROVE  FALSE
            OBVIOUS
        <3>1. k \in DOMAIN a /\ k # j
            OBVIOUS
        <3> QED
            BY <3>1 DEF AsksOnce
    <2> QED
        BY <2>1 DEF Offers
<1> HIDE DEF leg
<1>3. \A p, q \in Offers(a) : p.wallet = q.wallet => p = q
    BY <1>2 DEF AsksOnce, leg
<1>4. os = Offers(a)
    <2>1. os \subseteq Offers(a)
        BY DEF OffersAreAnswered
    <2>2. \A o \in Offers(a) : \E p \in os : p.wallet = o.wallet
        BY DEF OffersAreAnswered
    <2>3. ASSUME NEW o \in Offers(a) PROVE o \in os
        <3>1. PICK p \in os : p.wallet = o.wallet
            BY <2>2
        <3>2. p \in Offers(a)
            BY <2>1
        <3>3. p = o
            BY <1>3, <3>1, <3>2, Zenon
        <3> QED
            BY <3>3
    <2> QED
        BY <2>1, <2>3
<1>5. \A i \in DOMAIN a :
        /\ a[i].net \in Paired /\ CanonNet(leg[i].net) = CanonNet(a[i].net)
        /\ Spelled[leg[i].wallet] = Spelled[a[i].wallet]
    BY <1>1 DEF leg
<1> QED
    BY <1>2, <1>4, <1>5, LegsSpeak

-----------------------------------------------------------------------------
(***************************************************************************)
(* Catalog against live.                                                   *)
(***************************************************************************)
\* Legs that speak for a listing and an answer differ when these two diverge.
LEMMA MismatchMeans ==
    ASSUME NEW l \in Seq(Leg), NEW a \in Seq(Leg), NEW adv, NEW live, NEW u,
           PairsUp(l), PairsUp(a), Speaks(adv, l), Speaks(live, a)
    PROVE  Mismatches(u, adv, live) # {} <=> Diverges(l, a)
<1> DEFINE both == Nets(adv) \cap Nets(live)
           common == Networks(l) \cap Networks(a)
<1>1. /\ \A i \in DOMAIN l : l[i].net \in Paired
      /\ \A j \in DOMAIN a : a[j].net \in Paired
    BY ListedLegs
<1>2. /\ Nets(adv) = {CanonNet(l[i].net) : i \in DOMAIN l}
      /\ Nets(live) = {CanonNet(a[i].net) : i \in DOMAIN a}
      /\ \A x \in Paired : On(adv, CanonNet(x)) = For(l, Means(x)) /\ On(live, CanonNet(x)) = For(a, Means(x))
      /\ Wallets(adv) = Named(l) /\ Wallets(live) = Named(a)
      /\ (adv # {} <=> l # <<>>) /\ (live # {} <=> a # <<>>)
    BY DEF Speaks
<1>3. ASSUME NEW m \in both
      PROVE  \E x \in Paired : m = CanonNet(x) /\ Means(x) \in common
    <2>1. PICK i \in DOMAIN l : m = CanonNet(l[i].net)
        BY <1>2
    <2>2. PICK j \in DOMAIN a : m = CanonNet(a[j].net)
        BY <1>2
    <2>3. Means(l[i].net) = Means(a[j].net)
        BY <1>1, <2>1, <2>2, PairedLabels, Zenon
    <2> QED
        BY <1>1, <2>1, <2>3 DEF Networks
<1>4. ASSUME NEW n \in common
      PROVE  \E x \in Paired : n = Means(x) /\ CanonNet(x) \in both
    <2>1. PICK i \in DOMAIN l : n = Means(l[i].net)
        BY DEF Networks
    <2>2. PICK j \in DOMAIN a : n = Means(a[j].net)
        BY DEF Networks
    <2>3. CanonNet(l[i].net) = CanonNet(a[j].net)
        BY <1>1, <2>1, <2>2, PairedLabels
    <2> QED
        BY <1>1, <1>2, <2>1, <2>3
<1>5. both # {} <=> common # {}
    BY <1>3, <1>4, Zenon
<1>6. CASE both # {}
    <2>1. Mismatches(u, adv, live) # {} <=> \E m \in both : On(adv, m) \cap On(live, m) = {}
        BY <1>6 DEF Mismatches
    <2>2. Diverges(l, a) <=> \E n \in common : For(l, n) \cap For(a, n) = {}
        BY <1>5, <1>6 DEF Diverges
    <2> HIDE DEF both, common
    <2> QED
        BY <1>2, <1>3, <1>4, <2>1, <2>2
<1>7. CASE both = {}
    <2>1. Mismatches(u, adv, live) # {} <=> adv # {} /\ live # {} /\ Wallets(adv) \cap Wallets(live) = {}
        BY <1>7 DEF Mismatches, MismatchesUnion
    <2>2. Diverges(l, a) <=> l # <<>> /\ a # <<>> /\ Named(l) \cap Named(a) = {}
        BY <1>5, <1>7 DEF Diverges
    <2> QED
        BY <1>2, <2>1, <2>2
<1> QED
    BY <1>6, <1>7

\* What a comparison says is of its endpoint.
LEMMA MismatchOf ==
    ASSUME NEW u, NEW adv, NEW live, NEW e \in Mismatches(u, adv, live)
    PROVE  e.url = u
BY DEF Mismatches, MismatchesUnion

\* One of a set of one.
LEMMA OnlyOne ==
    ASSUME NEW S, IsFiniteSet(S), Cardinality(S) = 1, NEW x \in S
    PROVE  S = {x}
BY FS_Singleton

\* The feed's mismatches are divergences, and all of them.
LEMMA MismatchHolds ==
    ASSUME TablesTyped, Recorded, NEW late \in BOOLEAN, NEW u \in Url
    PROVE  MismatchIsTrue(Feed(census, offers, late), u)
<1> DEFINE f == Feed(census, offers, late)
           c == NewestDay(census, <<>>)
           o == NewestDay(offers, {})
<1>1. f.catalog = c /\ f.probe = o /\ f.mismatch = CatalogVsLive(census, offers, c, o)
    BY DEF Feed
<1> HIDE DEF f
<1> SUFFICES ASSUME NEW p \in Compared(f, u), PairsUp(p[1]), PairsUp(p[2]), AsksOnce(p[2])
             PROVE  InFeed(f, u) <=> Diverges(p[1], p[2])
    BY DEF MismatchIsTrue, f
<1>2. /\ c # 0 /\ o # 0 /\ p \in listed[c][u] \X answered[o][u]
      /\ Cardinality(listed[c][u]) = 1 /\ Cardinality(answered[o][u]) = 1
    BY <1>1, Zenon DEF Compared
<1>3. c \in Day /\ o \in Day
    BY <1>2, NewestIsDay DEF TablesTyped, NightTyped
<1> HIDE DEF c, o
<1> DEFINE l == p[1]
           a == p[2]
<1>4. /\ RowsAreListed(census[c][u], listed[c][u]) /\ OffersAreAnswered(offers[o][u], answered[o][u])
      /\ l \in listed[c][u] /\ a \in answered[o][u]
    BY <1>2, <1>3 DEF Recorded
<1>5. /\ listed \in [Day -> [Url -> SUBSET Seq(Leg)]] /\ answered \in [Day -> [Url -> SUBSET Seq(Leg)]]
      /\ offers \in [Day -> [Url -> SUBSET Offer]]
      /\ \A o1, o2 \in offers[o][u] : o1.wallet = o2.wallet => o1 = o2
    BY <1>3 DEF TablesTyped, NightTyped, Offer
<1>6. l \in Seq(Leg) /\ a \in Seq(Leg) /\ offers[o][u] \in SUBSET Offer
    BY <1>3, <1>4, <1>5
<1>7. IsFiniteSet(listed[c][u]) /\ IsFiniteSet(answered[o][u])
    BY <1>4 DEF RowsAreListed, OffersAreAnswered
<1>8. listed[c][u] = {l} /\ answered[o][u] = {a}
    BY <1>2, <1>4, <1>7, OnlyOne
<1>9. PairsUp(l) /\ PairsUp(a) /\ AsksOnce(a)
    OBVIOUS
<1> HIDE DEF l, a
<1>10. Speaks(Legs(census[c][u]), l) /\ Speaks(offers[o][u], a)
    <2>1. RowsAreListed(census[c][u], {l}) /\ OffersAreAnswered(offers[o][u], {a})
        BY <1>4, <1>8
    <2>2. Speaks(Legs(census[c][u]), l)
        BY <1>6, <1>9, <2>1, CatalogSpeaks
    <2>3. Speaks(offers[o][u], a)
        BY <1>5, <1>6, <1>9, <2>1, AnswerSpeaks
    <2> QED
        BY <2>2, <2>3
<1>11. Mismatches(u, Legs(census[c][u]), offers[o][u]) # {} <=> Diverges(l, a)
    BY <1>6, <1>9, <1>10, MismatchMeans
<1>12. InFeed(f, u) <=> Mismatches(u, Legs(census[c][u]), offers[o][u]) # {}
    <2>1. f.mismatch = UNION {Mismatches(v, Legs(census[c][v]), offers[o][v]) : v \in Url}
        BY <1>1, <1>2 DEF CatalogVsLive
    <2>2. \A v \in Url : \A e \in Mismatches(v, Legs(census[c][v]), offers[o][v]) : e.url = v
        BY MismatchOf
    <2> QED
        BY <2>1, <2>2 DEF InFeed
<1> QED
    BY <1>11, <1>12 DEF l, a

-----------------------------------------------------------------------------
(***************************************************************************)
(* The rotations.                                                          *)
(***************************************************************************)
\* A day's catalog of an endpoint, listed in at most one way.
OneWay(u) == \A d \in Day : Cardinality(listed[d][u]) <= 1 /\ \A l \in listed[d][u] : PairsUp(l)

\* The legs of a day are the addresses listed on that day, network by network.
LEMMA DayLegs ==
    ASSUME TablesTyped, Recorded, NEW u \in Url, OneWay(u), NEW d \in Day
    PROVE  /\ \A x \in Paired : \A a :
                  a \in On(Legs(census[d][u]), CanonNet(x)) <=> d \in ListedOn(u, Means(x), a)
<1> DEFINE ls == listed[d][u]
<1>1. RowsAreListed(census[d][u], ls) /\ Cardinality(ls) <= 1 /\ \A l \in ls : PairsUp(l)
    BY DEF Recorded, OneWay
<1>2. ls \in SUBSET Seq(Leg)
    BY DEF TablesTyped, NightTyped
<1>3. \A n, a : d \in ListedOn(u, n, a) <=> \E l \in ls : a \in For(l, n)
    BY DEF ListedOn
<1> HIDE DEF ls
<1>4. CASE ls = {}
    <2>1. Legs(census[d][u]) = {}
        BY <1>1, <1>4 DEF RowsAreListed, Legs
    <2> QED
        BY <1>3, <1>4, <2>1 DEF On
<1>5. CASE ls # {}
    <2>1. PICK l : l \in ls
        BY <1>5
    <2>2. ls = {l}
        <3>1. IsFiniteSet(ls)
            BY <1>1 DEF RowsAreListed
        <3>2. Cardinality(ls) = 1
            BY <1>1, <1>5, <3>1, FS_EmptySet, FS_CardinalityType
        <3> QED
            BY <2>1, <3>1, <3>2, OnlyOne
    <2>3. l \in Seq(Leg) /\ PairsUp(l) /\ RowsAreListed(census[d][u], {l})
        BY <1>1, <1>2, <2>1, <2>2
    <2>4. Speaks(Legs(census[d][u]), l)
        BY <2>3, CatalogSpeaks
    <2> QED
        BY <1>3, <2>2, <2>4 DEF Speaks
<1> QED
    BY <1>4, <1>5

\* The rows of the rotation query: a leg and two days on which it was a row.
LEMMA GroupRows ==
    ASSUME TablesTyped, NEW u \in Url
    PROVE  /\ \A g \in Groups(census, u) :
                  /\ g.lo \in Day /\ g.leg \in Legs(census[g.lo][u])
                  /\ g.hi \in Day /\ g.leg \in Legs(census[g.hi][u])
           /\ \A d \in Day : \A leg \in Legs(census[d][u]) : \E g \in Groups(census, u) : g.leg = leg
<1> DEFINE legs == UNION {Legs(census[d][u]) : d \in DOMAIN census}
           lo(leg) == CHOOSE d \in LegDays(census, u, leg) : \A e \in LegDays(census, u, leg) : d <= e
           hi(leg) == CHOOSE d \in LegDays(census, u, leg) : \A e \in LegDays(census, u, leg) : e <= d
<1>1. DOMAIN census = Day
    BY DEF TablesTyped, NightTyped
<1>2. Groups(census, u) = {[leg |-> leg, lo |-> lo(leg), hi |-> hi(leg)] : leg \in legs}
    BY DEF Groups
<1>3. ASSUME NEW leg \in legs
      PROVE  lo(leg) \in LegDays(census, u, leg) /\ hi(leg) \in LegDays(census, u, leg)
    <2>1. LegDays(census, u, leg) \in SUBSET Day /\ LegDays(census, u, leg) # {}
        BY <1>1 DEF LegDays
    <2> QED
        BY <2>1, FirstAndLast
<1>4. \A leg : \A d \in LegDays(census, u, leg) : d \in Day /\ leg \in Legs(census[d][u])
    BY <1>1 DEF LegDays
<1> HIDE DEF lo, hi
<1>5. ASSUME NEW g \in Groups(census, u)
      PROVE  g.leg \in legs /\ g.lo = lo(g.leg) /\ g.hi = hi(g.leg)
    BY <1>2
<1>6. ASSUME NEW d \in Day, NEW leg \in Legs(census[d][u])
      PROVE  \E g \in Groups(census, u) : g.leg = leg
    <2>1. leg \in legs
        BY <1>1
    <2>2. [leg |-> leg, lo |-> lo(leg), hi |-> hi(leg)] \in Groups(census, u)
        BY <1>2, <2>1
    <2> QED
        BY <2>2
<1> HIDE DEF legs
<1> QED
    BY <1>3, <1>4, <1>5, <1>6

\* A row that counts is one of those it is chosen from.
LEMMA CountedIsOne ==
    ASSUME NEW groups, groups # {}, \A g \in groups : g.lo \in Day, NEW late \in BOOLEAN
    PROVE  Counted(groups, late) \in groups
<1> DEFINE S == {g.lo : g \in groups}
<1>1. S \in SUBSET Day /\ S # {}
    OBVIOUS
<1>2. /\ \E d \in S : \A e \in S : d <= e
      /\ \E d \in S : \A e \in S : e <= d
    BY <1>1, FirstAndLast
<1>3. \E g \in groups : \A h \in groups : IF late THEN h.lo <= g.lo ELSE g.lo <= h.lo
    BY <1>2
<1> QED
    BY <1>3 DEF Counted

\* The addresses of an endpoint on a network, each with two days.
LEMMA RotationSays ==
    ASSUME TablesTyped, Recorded, NEW u \in Url, OneWay(u), NEW n \in Paired, Means(n) = n,
           NEW late \in BOOLEAN
    PROVE  LET r == Rotation(u, CanonNet(n), Groups(census, u), late)
           IN /\ r.url = u /\ r.net = CanonNet(n)
              /\ DOMAIN r.timeline = Known(u, n)
              /\ \A a \in Known(u, n) :
                    r.timeline[a][1] \in ListedOn(u, n, a) /\ r.timeline[a][2] \in ListedOn(u, n, a)
              /\ Known(u, n) # {} => CanonNet(n) \in {CanonNet(g.leg.net) : g \in Groups(census, u)}
<1> DEFINE G == Groups(census, u)
           r == Rotation(u, CanonNet(n), G, late)
           of == OfNet(G, CanonNet(n))
           named == {Spelled[g.leg.wallet] : g \in of}
<1>1. \A g \in G : /\ g.lo \in Day /\ g.leg \in Legs(census[g.lo][u])
                   /\ g.hi \in Day /\ g.leg \in Legs(census[g.hi][u])
    BY GroupRows
<1>2. \A d \in Day : \A leg \in Legs(census[d][u]) : \E g \in G : g.leg = leg
    BY GroupRows
<1>3. \A d \in Day : \A a : a \in On(Legs(census[d][u]), CanonNet(n)) <=> d \in ListedOn(u, n, a)
    BY DayLegs
<1>4. /\ r.url = u /\ r.net = CanonNet(n)
      /\ r.timeline = [p \in named |-> <<Counted(OfWallet(of, p), late).lo, Counted(OfWallet(of, p), late).hi>>]
    BY DEF Rotation
<1> HIDE DEF G, r
<1>5. ASSUME NEW g \in of
      PROVE  /\ g.lo \in ListedOn(u, n, Spelled[g.leg.wallet])
             /\ g.hi \in ListedOn(u, n, Spelled[g.leg.wallet])
    <2>1. g \in G /\ CanonNet(g.leg.net) = CanonNet(n)
        BY DEF OfNet
    <2>2. /\ Spelled[g.leg.wallet] \in On(Legs(census[g.lo][u]), CanonNet(n))
          /\ Spelled[g.leg.wallet] \in On(Legs(census[g.hi][u]), CanonNet(n))
        BY <1>1, <2>1 DEF On
    <2> QED
        BY <1>1, <1>3, <2>1, <2>2
<1>6. ASSUME NEW a \in Known(u, n)
      PROVE  \E g \in of : Spelled[g.leg.wallet] = a
    <2>1. PICK d \in Day : d \in ListedOn(u, n, a)
        BY DEF Known, ListedOn
    <2>2. a \in On(Legs(census[d][u]), CanonNet(n))
        BY <1>3, <2>1
    <2>3. PICK h \in Legs(census[d][u]) : CanonNet(h.net) = CanonNet(n) /\ Spelled[h.wallet] = a
        BY <2>2 DEF On
    <2>4. PICK g \in G : g.leg = h
        BY <1>2
    <2> QED
        BY <2>3, <2>4 DEF OfNet
<1>7. ASSUME NEW a, NEW d \in ListedOn(u, n, a) PROVE a \in Known(u, n)
    <2>1. PICK l \in listed[d][u] : d \in Day /\ a \in For(l, n)
        BY DEF ListedOn
    <2>2. l \in Seq(Leg)
        BY <2>1 DEF TablesTyped, NightTyped
    <2>3. \A i \in DOMAIN l : Spelled[l[i].wallet] \in Wallet
        <3>1. \A i \in DOMAIN l : l[i] \in Leg
            BY <2>2
        <3> QED
            BY <3>1, FeedAssumption DEF Leg
    <2>4. a \in Wallet
        BY <2>1, <2>3 DEF For
    <2> QED
        BY <2>4 DEF Known
<1>8. named = Known(u, n)
    <2>1. \A g \in of : Spelled[g.leg.wallet] \in Known(u, n)
        BY <1>5, <1>7
    <2> QED
        BY <1>6, <2>1
<1>9. DOMAIN r.timeline = Known(u, n)
    BY <1>4, <1>8
<1>10. ASSUME NEW a \in Known(u, n)
       PROVE  r.timeline[a][1] \in ListedOn(u, n, a) /\ r.timeline[a][2] \in ListedOn(u, n, a)
    <2> DEFINE rows == OfWallet(of, a)
               g == Counted(rows, late)
    <2>1. rows # {} /\ \A h \in rows : h \in of /\ Spelled[h.leg.wallet] = a
        BY <1>6 DEF OfWallet
    <2>2. \A h \in rows : h.lo \in Day
        BY <1>1, <2>1 DEF OfNet
    <2> HIDE DEF rows
    <2>3. g \in rows
        BY <2>1, <2>2, CountedIsOne
    <2>4. r.timeline[a] = <<g.lo, g.hi>>
        BY <1>4, <1>8 DEF rows
    <2> HIDE DEF g
    <2> QED
        BY <1>5, <2>1, <2>3, <2>4
<1>11. Known(u, n) # {} => CanonNet(n) \in {CanonNet(g.leg.net) : g \in G}
    BY <1>6 DEF OfNet
<1> QED
    BY <1>4, <1>9, <1>10, <1>11 DEF r, G

\* Networks rotate that are known with several addresses, and no others.
LEMMA RotationHolds ==
    ASSUME TablesTyped, Recorded, NEW late \in BOOLEAN, NEW u \in Url
    PROVE  RotationIsTrue(Feed(census, offers, late), u)
<1> DEFINE f == Feed(census, offers, late)
<1> SUFFICES ASSUME OneWay(u), NEW x \in Label
             PROVE  LET n == Means(x)
                        of == {r \in f.rotation : r.url = u /\ r.net = CanonNet(n)}
                    IN /\ Cardinality(Known(u, n)) > 1 <=> of # {}
                       /\ \A r \in of :
                             /\ DOMAIN r.timeline = Known(u, n)
                             /\ \A a \in Known(u, n) :
                                   /\ r.timeline[a][1] \in ListedOn(u, n, a)
                                   /\ r.timeline[a][2] \in ListedOn(u, n, a)
    BY DEF RotationIsTrue, OneWay
<1> DEFINE n == Means(x)
           of == {r \in f.rotation : r.url = u /\ r.net = CanonNet(n)}
           rot == Rotation(u, CanonNet(n), Groups(census, u), late)
<1>1. n \in Paired /\ Means(n) = n
    BY PairedLabels
<1>2. f.rotation = {r \in Rotations(census, late) : Cardinality(DOMAIN r.timeline) > 1}
    BY DEF Feed
<1> HIDE DEF n, f
<1>3. /\ rot.url = u /\ rot.net = CanonNet(n)
      /\ DOMAIN rot.timeline = Known(u, n)
      /\ \A a \in Known(u, n) :
            rot.timeline[a][1] \in ListedOn(u, n, a) /\ rot.timeline[a][2] \in ListedOn(u, n, a)
      /\ Known(u, n) # {} => CanonNet(n) \in {CanonNet(g.leg.net) : g \in Groups(census, u)}
    BY <1>1, RotationSays
<1>4. ASSUME NEW r \in Rotations(census, late), r.url = u, r.net = CanonNet(n) PROVE r = rot
    <2>1. PICK v \in Url : r \in {Rotation(v, m, Groups(census, v), late) :
                                     m \in {CanonNet(g.leg.net) : g \in Groups(census, v)}}
        BY DEF Rotations
    <2>2. PICK m : r = Rotation(v, m, Groups(census, v), late)
        BY <2>1
    <2>3. r.url = v /\ r.net = m
        BY <2>2 DEF Rotation
    <2> QED
        BY <1>4, <2>2, <2>3
<1>5. Cardinality(Known(u, n)) > 1 => rot \in Rotations(census, late)
    <2> SUFFICES ASSUME Cardinality(Known(u, n)) > 1 PROVE rot \in Rotations(census, late)
        OBVIOUS
    <2>1. Known(u, n) # {}
        BY FS_EmptySet
    <2>2. CanonNet(n) \in {CanonNet(g.leg.net) : g \in Groups(census, u)}
        BY <1>3, <2>1
    <2> QED
        BY <2>2 DEF Rotations
<1> HIDE DEF rot
<1>6. \A r \in of : r = rot /\ Cardinality(Known(u, n)) > 1
    BY <1>2, <1>3, <1>4
<1>7. Cardinality(Known(u, n)) > 1 => rot \in of
    BY <1>2, <1>3, <1>5
<1> HIDE DEF of
<1>8. /\ Cardinality(Known(u, n)) > 1 <=> of # {}
      /\ \A r \in of :
            /\ DOMAIN r.timeline = Known(u, n)
            /\ \A a \in Known(u, n) :
                  r.timeline[a][1] \in ListedOn(u, n, a) /\ r.timeline[a][2] \in ListedOn(u, n, a)
    BY <1>3, <1>6, <1>7
<1> QED
    BY <1>8 DEF of, n

-----------------------------------------------------------------------------
(***************************************************************************)
(* What is published.                                                      *)
(***************************************************************************)
\* Only the stage of the feed gets the feed done.
LEMMA OnlyWriteFeed ==
    ASSUME [Next]_vars, Published
    PROVE  WriteFeed \/ WriteFeedUnseen
<1>1. CASE SellerChanges \/ NewDay \/ StartRun \/ SkipKinds \/ SkipCatalogued
           \/ Breaks \/ Errs \/ Spoiled \/ Killed \/ UNCHANGED vars
    <2>1. done' = done \/ done' = {}
        BY <1>1 DEF SellerChanges, NewDay, StartRun, SkipKinds, SkipCatalogued,
           Breaks, Errs, Spoiled, Killed, vars
    <2> QED
        BY <2>1 DEF Published
<1>2. CASE PlainStage \/ Snapshot \/ Fetch \/ FetchUnnoted \/ Watch \/ Census \/ Liveness
           \/ Domains
    <2>1. Order[pc] # "feed" /\ done' = done \cup {Order[pc]}
        BY <1>2 DEF PlainStage, Snapshot, Fetch, FetchUnnoted, Swallows, Watch, Census, Liveness, Domains,
           Through, Ready, At, Plain
    <2> QED
        BY <2>1 DEF Published
<1> QED
    BY <1>1, <1>2 DEF Next

\* "every entry is a RECORDED FACT" (payto_watch.py:17): whatever fails before it,
\* a published feed is what listings and answers were, outside the blind spots.
THEOREM FeedIsOfRecord == Spec => FeedTrue
<1> DEFINE Facts == Published => FeedIsTrue(feed')
<1>1. TablesTyped /\ Recorded /\ [Next]_vars => [Facts]_vars
    <2> SUFFICES ASSUME TablesTyped, Recorded, [Next]_vars, Published PROVE FeedIsTrue(feed')
        OBVIOUS
    <2>1. PICK late \in BOOLEAN : feed' = Feed(census, offers, late)
        BY OnlyWriteFeed DEF WriteFeed, WriteFeedUnseen
    <2>2. ASSUME NEW u \in Url
          PROVE  /\ MismatchIsTrue(Feed(census, offers, late), u)
                 /\ RotationIsTrue(Feed(census, offers, late), u)
        BY MismatchHolds, RotationHolds
    <2>3. FeedIsTrue(Feed(census, offers, late))
        BY <2>2 DEF FeedIsTrue
    <2> QED
        BY <2>1, <2>3
<1>2. [Facts]_vars <=> [Published => FeedIsTrue(feed')]_vars
    OBVIOUS
<1>3. RunInv => TablesTyped
    BY DEF RunInv
<1>4. TablesTyped /\ Recorded /\ [Next]_vars => Recorded'
    BY RecordedStep
<1> HIDE DEF Facts
<1>5. Spec => [][Facts]_vars
    BY <1>1, <1>3, <1>4, InitRecorded, NightInvariant, PTL DEF Spec
<1> QED
    BY <1>2, <1>5, PTL DEF FeedTrue
=============================================================================
