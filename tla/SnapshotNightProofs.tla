------------------------ MODULE SnapshotNightProofs -------------------------
(***************************************************************************)
(* Proofs about the nightly run.  First SnapshotNight: the gap check for   *)
(* every instance, and that one mishap loses nothing.  Then the publish    *)
(* step at the end of the night and the server of its blob (StatsServer):  *)
(* that a blob is stored, and that failures stay where they happened.      *)
(***************************************************************************)
EXTENDS SnapshotNight, StatsServer, FiniteSetTheorems, WellFoundedInduction, TLAPS

-----------------------------------------------------------------------------
(***************************************************************************)
(* The newest row.                                                         *)
(***************************************************************************)
\* A set of natural numbers that is not empty has a least element.
LEMMA Least ==
    ASSUME NEW T \in SUBSET Nat, T # {}
    PROVE  \E m \in T : \A n \in T : m <= n
<1> DEFINE R == OpToRel(<, Nat)
<1>1. IsWellFoundedOn(R, Nat)
    BY NatLessThanWellFounded, Zenon
<1>2. PICK m \in T : \A n \in T : ~(<<n, m>> \in R)
    BY <1>1, WFMin, Zenon
<1>3. \A x, y \in Nat : x < y => <<x, y>> \in R
    BY Zenon DEF OpToRel
<1> HIDE DEF R
<1>4. ASSUME NEW n \in T PROVE m <= n
    <2>1. m \in Nat /\ n \in Nat
        OBVIOUS
    <2>2. ~(n < m)
        BY <1>2, <1>3, <2>1
    <2> QED
        BY <2>1, <2>2
<1> QED
    BY <1>4

\* Highest finds the greatest block of a set that is not empty.
LEMMA HighestIsGreatest ==
    ASSUME NEW S \in SUBSET Block, S # {}
    PROVE  Highest(S) \in S /\ \A d \in S : d <= Highest(S)
<1> DEFINE T == {MaxBlock - b : b \in S}
<1>0. MaxBlock \in Nat /\ \A b \in S : b \in 1..MaxBlock
    BY NightAssumption DEF Block
<1>1. T \in SUBSET Nat /\ T # {}
    BY <1>0
<1>2. PICK m \in T : \A n \in T : m <= n
    BY <1>1, Least
<1>3. PICK h \in S : m = MaxBlock - h
    OBVIOUS
<1>4. \A d \in S : d <= h
    <2> TAKE d \in S
    <2>1. m <= MaxBlock - d
        BY <1>2
    <2> QED
        BY <1>0, <1>3, <2>1
<1> QED
    BY <1>4 DEF Highest

-----------------------------------------------------------------------------
(***************************************************************************)
(* Types.                                                                  *)
(***************************************************************************)
\* Blocks are numbers, and NoBlock is none.
LEMMA Blocks ==
    /\ MaxBlock \in Nat /\ FirstFinal \in Nat /\ FirstFinal >= 1 /\ Lookback \in Nat
    /\ \A b \in Block : b \in Nat /\ b >= 1 /\ b <= MaxBlock
    /\ \A b \in Int : b >= 1 /\ b <= MaxBlock => b \in Block
    /\ NoBlock \notin Block
    /\ Primary \in Chain
<1>1. MaxBlock \in Nat /\ FirstFinal \in 1..MaxBlock /\ Lookback \in Nat /\ Primary \in Chain
      /\ NoBlock \notin Int
    BY NightAssumption DEF Block
<1> QED
    BY <1>1 DEF Block

\* The head of a chain that has rows is that of a row.
LEMMA HeadTyped ==
    ASSUME TypeOK, NEW c \in Chain
    PROVE  /\ Rows(c) \in SUBSET Block
           /\ Highest(Rows(c)) \in Block \cup {NoBlock}
           /\ Highest(Rows(c)) = NoBlock <=> Rows(c) = {}
           /\ Rows(c) # {} => /\ Highest(Rows(c)) \in Rows(c)
                              /\ \A r \in Rows(c) : r <= Highest(Rows(c))
<1>1. Rows(c) \in SUBSET Block
    BY DEF TypeOK, Rows
<1>2. CASE Rows(c) = {}
    BY <1>1, <1>2 DEF Highest
<1>3. CASE Rows(c) # {}
    BY <1>1, <1>3, HighestIsGreatest, Blocks
<1> QED
    BY <1>1, <1>2, <1>3

\* What a run that ends, or goes on to the next chain, leaves in its locals.
LocalsTyped ==
    /\ pc \in Steps
    /\ cur \in Chain
    /\ end \in Block \cup {NoBlock}
    /\ max_blk \in Block \cup {NoBlock}
    /\ left \subseteq Chain
    /\ anchors \in [Chain -> Block \cup {NoBlock}]
    /\ pc # "index"

\* What a night keeps in memory is typed when it ends ...
LEMMA EndNightTyped == ASSUME EndNight PROVE LocalsTyped'
    BY Blocks DEF EndNight, LocalsTyped, Steps, NoHeads

\* ... and when it goes on to the next chain.
LEMMA NextChainTyped == ASSUME TypeOK, NextChain PROVE LocalsTyped'
    BY Blocks DEF TypeOK, NextChain, LocalsTyped, Steps

\* A final block less the lookback is a block, and so is the block behind a head.
LEMMA BootBlockTyped ==
    ASSUME TypeOK, NEW c \in Chain
    PROVE  final[c] - Lookback \in Block /\ BootBlock(c) \in Block /\ final[c] \in Block
<1>1. final[c] \in Nat /\ FirstFinal <= final[c] /\ final[c] <= MaxBlock
    BY Blocks DEF TypeOK
<1>2. Lookback < FirstFinal
    BY NightAssumption
<1>3. final[c] - Lookback \in Block /\ final[c] \in Block
    BY <1>1, <1>2, Blocks
<1>4. anchors[c] \in Block \cup {NoBlock}
    BY DEF TypeOK
<1>5. anchors[c] # NoBlock /\ anchors[c] + 1 <= final[c] => anchors[c] + 1 \in Block
    BY <1>1, <1>4, Blocks
<1> QED
    BY <1>3, <1>5 DEF BootBlock

\* Storing a start block gives a chain a start and perhaps a first one.
LEMMA StoreStartTyped ==
    ASSUME TypeOK, NEW c \in Chain, NEW b \in Block, StoreStart(c, b)
    PROVE  /\ start' \in [Chain -> Block \cup {NoBlock}]
           /\ first' \in [Chain -> Block \cup {NoBlock}]
           /\ start'[c] = b
           /\ \A d \in Chain : d # c => start'[d] = start[d] /\ first'[d] = first[d]
           /\ first'[c] = IF recorded[c] = NoBlock THEN b ELSE first[c]
    BY DEF TypeOK, StoreStart

\* A chain's settlements are at blocks.
LEMMA BusyBlocks == ASSUME TypeOK, NEW c \in Chain PROVE busy[c] \in SUBSET Block
<1>1. busy \in Traffic
    BY DEF TypeOK
<1> QED
    BY <1>1, NightAssumption

\* Every step keeps the types.
LEMMA TypeKeeps == ASSUME TypeOK, [Next]_vars PROVE TypeOK'
<1> USE DEF TypeOK, chainVars, dbVars, diskVars, nightVars, auxVars
<1>1. CASE NewDay
    BY <1>1 DEF NewDay
<1>2. CASE Wipe
    BY <1>2, Blocks DEF Wipe, Happens, NoHeads
<1>3. ASSUME NEW c \in Chain, Finalize(c) PROVE TypeOK'
    <2>1. final' \in [Chain -> FirstFinal..MaxBlock]
        BY <1>3, Blocks DEF Finalize
    <2> QED
        BY <1>3, <2>1 DEF Finalize
<1>4. ASSUME NEW c \in Chain, OperatorOpens(c) PROVE TypeOK'
    <2>1. StoreStart(c, final[c] - Lookback) /\ final[c] - Lookback \in Block
        BY <1>4, BootBlockTyped DEF OperatorOpens
    <2>2. /\ start' \in [Chain -> Block \cup {NoBlock}]
          /\ first' \in [Chain -> Block \cup {NoBlock}]
          /\ \A d \in Chain : start'[d] = NoBlock => start[d] = NoBlock
        BY <2>1, StoreStartTyped, Blocks
    <2>3. pc = "index" => start'[cur] # NoBlock
        BY <2>2
    <2> QED
        BY <1>4, <2>2, <2>3 DEF OperatorOpens, Happens
<1>5. ASSUME NEW c \in Chain, Backfill(c) PROVE TypeOK'
    <2>1. PICK a, b \in Block :
              /\ covered' = [covered EXCEPT ![c] = @ \cup (a..b)]
              /\ jumped' = IF c = Primary THEN jumped \cup Passed(b) ELSE jumped
        BY <1>5 DEF Backfill
    <2>2. a..b \subseteq Block
        BY Blocks
    <2>4. Passed(b) \subseteq Block
        BY BusyBlocks, Blocks DEF Passed
    <2>3. /\ covered' \in [Chain -> SUBSET Block]
          /\ \A d \in Chain : d # c => covered'[d] = covered[d]
        BY <2>1, <2>2
    <2>5. jumped' \subseteq Block
        BY <2>1, <2>4
    <2> QED
        BY <1>5, <2>3, <2>5 DEF Backfill
<1>6. CASE StartNight
    BY <1>6, Blocks DEF StartNight, Steps
<1>7. CASE OpenChain
    <2>1. /\ final[cur] \in Block /\ BootBlock(cur) \in Block
        BY BootBlockTyped
    <2>2. /\ start' \in [Chain -> Block \cup {NoBlock}]
          /\ first' \in [Chain -> Block \cup {NoBlock}]
          /\ start'[cur] # NoBlock
          /\ \A d \in Chain : start'[d] = NoBlock => start[d] = NoBlock
        BY <1>7, <2>1, StoreStartTyped, Blocks DEF OpenChain
    <2> QED
        BY <1>7, <2>1, <2>2, Blocks DEF OpenChain, Steps
<1>8. CASE IndexAll
    <2>1. start[cur] \in Block /\ end \in Block
        BY <1>8 DEF IndexAll
    <2>2. start[cur]..end \subseteq Block
        BY <2>1, Blocks
    <2>3. /\ covered' \in [Chain -> SUBSET Block]
          /\ \A d \in Chain : start[d] = NoBlock => covered'[d] = covered[d]
        BY <1>8, <2>1, <2>2, Blocks DEF IndexAll
    <2>4. LocalsTyped'
        BY <1>8, NextChainTyped DEF IndexAll, LocalsTyped, Steps
    <2> QED
        BY <1>8, <2>3, <2>4 DEF IndexAll, LocalsTyped
<1>9. CASE IndexSome
    <2>1. start[cur] \in Block
        BY <1>9 DEF IndexSome
    <2>2. PICK b \in Block : covered' = [covered EXCEPT ![cur] = @ \cup (start[cur]..b)]
        BY <1>9 DEF IndexSome
    <2>3. start[cur]..b \subseteq Block
        BY <2>1, Blocks
    <2>4. /\ covered' \in [Chain -> SUBSET Block]
          /\ \A d \in Chain : start[d] = NoBlock => covered'[d] = covered[d]
        BY <2>1, <2>2, <2>3, Blocks
    <2>5. LocalsTyped'
        BY <1>9, NextChainTyped, EndNightTyped DEF IndexSome
    <2> QED
        BY <1>9, <2>4, <2>5 DEF IndexSome, LocalsTyped
<1>18. CASE ReadMax
    <2>1. Highest(Rows(Primary)) \in Block \cup {NoBlock}
        BY HeadTyped, Blocks
    <2> QED
        BY <1>18, <2>1 DEF ReadMax, Steps
<1>10. CASE CheckGaps
    <2>1. LocalsTyped'
        BY <1>10, NextChainTyped, EndNightTyped DEF CheckGaps
    <2> QED
        BY <1>10, <2>1 DEF CheckGaps, LocalsTyped
<1>11. CASE WriteSellers
    <2>1. LocalsTyped'
        BY <1>11, EndNightTyped DEF WriteSellers, LocalsTyped, Steps
    <2>2. \A c \in Chain : Rows(c) \in SUBSET Block
        BY HeadTyped
    <2>3. archived' \in [Chain -> SUBSET Block] /\ taken' \in BOOLEAN
        <3>1. CASE taken
            BY <1>11, <3>1 DEF WriteSellers
        <3>2. CASE ~taken
            BY <1>11, <2>2, <3>2 DEF WriteSellers
        <3> QED
            BY <3>1, <3>2
    <2> QED
        BY <1>11, <2>1, <2>3 DEF WriteSellers, LocalsTyped
<1>12. CASE WriteMeta
    <2>1. LocalsTyped'
        BY <1>12, EndNightTyped DEF WriteMeta
    <2>2. heads' \in [Chain -> Block \cup {NoBlock}]
        BY <1>12, HeadTyped DEF WriteMeta
    <2>3. \A c \in Chain : heads'[c] # NoBlock =>
             /\ {heads'[c], recorded[c]} \ {NoBlock} \in SUBSET Block
             /\ {heads'[c], recorded[c]} \ {NoBlock} # {}
        BY <2>2
    <2>4. \A c \in Chain : heads'[c] # NoBlock =>
             Highest({heads'[c], recorded[c]} \ {NoBlock}) \in Block
        BY <2>3, HighestIsGreatest
    <2>5. recorded' \in [Chain -> Block \cup {NoBlock}]
        BY <1>12, <2>4 DEF WriteMeta
    <2> QED
        BY <1>12, <2>1, <2>2, <2>5 DEF WriteMeta, LocalsTyped
<1>13. CASE Unreachable
    <2>1. LocalsTyped'
        BY <1>13, NextChainTyped, EndNightTyped DEF Unreachable
    <2> QED
        BY <1>13, <2>1 DEF Unreachable, Happens, LocalsTyped
<1>14. CASE Die
    <2>1. LocalsTyped'
        BY <1>14, EndNightTyped DEF Die
    <2> QED
        BY <1>14, <2>1 DEF Die, LocalsTyped
<1>15. CASE TearSellers
    <2>1. LocalsTyped'
        BY <1>15, EndNightTyped DEF TearSellers
    <2> QED
        BY <1>15, <2>1 DEF TearSellers, LocalsTyped
<1>16. CASE TearMeta
    <2>1. LocalsTyped'
        BY <1>16, EndNightTyped DEF TearMeta
    <2> QED
        BY <1>16, <2>1, Blocks DEF TearMeta, Happens, NoHeads, LocalsTyped
<1>17. CASE UNCHANGED vars
    BY <1>17 DEF vars
<1> QED
    BY <1>1, <1>2, <1>3, <1>4, <1>5, <1>6, <1>7, <1>8, <1>9, <1>10, <1>11, <1>12, <1>13,
       <1>14, <1>15, <1>16, <1>17, <1>18 DEF Next

\* The program is installed with nothing in any table.
LEMMA InitTyped == Init => TypeOK
<1>1. FirstFinal \in FirstFinal..MaxBlock
    BY NightAssumption DEF Block
<1>2. NoHeads \in [Chain -> Block \cup {NoBlock}]
    BY DEF NoHeads
<1>3. ASSUME Init PROVE TypeOK
    <2>1. /\ busy \in Traffic /\ final \in [Chain -> FirstFinal..MaxBlock]
          /\ covered \in [Chain -> SUBSET Block] /\ archived \in [Chain -> SUBSET Block]
          /\ \A c \in Chain : covered[c] = {}
        BY <1>1, <1>3 DEF Init
    <2>2. /\ taken \in BOOLEAN /\ pc \in Steps /\ pc # "index" /\ cur \in Chain
          /\ end \in Block \cup {NoBlock} /\ left \subseteq Chain /\ mishaps \subseteq Kinds
          /\ max_blk \in Block \cup {NoBlock} /\ jumped \subseteq Block
        BY <1>3, Blocks DEF Init, Steps
    <2> QED
        BY <1>2, <1>3, <2>1, <2>2 DEF Init, TypeOK
<1> QED
    BY <1>3

\* The tables, the files and the run's locals keep their types, whatever happens.
THEOREM TypeCorrect == Spec => []TypeOK
    BY InitTyped, TypeKeeps, PTL DEF Spec

-----------------------------------------------------------------------------
(***************************************************************************)
(* The gap check.                                                          *)
(***************************************************************************)
\* Where find_gaps reports nothing the primary chain is whole up to max_blk.
LEMMA NoGapIsWhole == ASSUME TypeOK, start[Primary] # NoBlock, ~Gap PROVE Whole
<1> SUFFICES ASSUME NEW b \in busy[Primary], start[Primary] <= b, ~Unseen(b)
             PROVE  b \in covered[Primary]
    BY DEF Whole
<1>1. max_blk # NoBlock /\ max_blk \in Block /\ start[Primary] \in Block
    BY Blocks DEF Unseen, TypeOK
<1>2. b \in Block /\ ~(max_blk < b)
    BY <1>1, BusyBlocks, Blocks DEF Unseen
<1>3. b \in start[Primary]..max_blk
    BY <1>1, <1>2, Blocks
<1> QED
    BY <1>1, <1>3 DEF Gap

\* When max_blk is read no row is above it.
LEMMA ReadAccounts == ASSUME TypeOK, ReadMax PROVE Accounted'
<1>1. max_blk' = Highest(Rows(Primary)) /\ busy' = busy /\ Rows(Primary)' = Rows(Primary)
    BY DEF ReadMax, Rows, chainVars, dbVars
<1> SUFFICES ASSUME NEW b \in busy[Primary], NEW r \in Rows(Primary), b <= r, Unseen(b)'
             PROVE  FALSE
    BY <1>1 DEF Accounted
<1>2. r <= max_blk' /\ max_blk' \in Block /\ b \in Block /\ r \in Block /\ max_blk' # NoBlock
    BY <1>1, HeadTyped, BusyBlocks, Blocks
<1>3. max_blk' < b
    BY <1>2 DEF Unseen
<1> QED
    BY <1>2, <1>3, Blocks

\* A step that leaves the primary chain and its check alone leaves what was found.
LEMMA FoundStays ==
    ASSUME busy' = busy, covered'[Primary] = covered[Primary],
           start'[Primary] = start[Primary], max_blk' = max_blk, jumped' = jumped
    PROVE  (Accounted => Accounted') /\ (Whole => Whole')
    BY DEF Accounted, Whole, Rows, Unseen

\* A backfill leaves the chain whole up to max_blk, and what it passes is in jumped.
LEMMA BackfillAccounts ==
    ASSUME TypeOK, NEW c \in Chain, Backfill(c), MaxRead
    PROVE  (Accounted => Accounted') /\ (Whole => Whole')
<1>1. PICK a, e \in Block :
          /\ covered' = [covered EXCEPT ![c] = @ \cup (a..e)]
          /\ jumped' = IF c = Primary THEN jumped \cup Passed(e) ELSE jumped
    BY DEF Backfill
<1>2. UNCHANGED <<busy, start, max_blk>>
    BY DEF Backfill, chainVars, nightVars
<1>3. CASE c # Primary
    <2>1. covered'[Primary] = covered[Primary] /\ jumped' = jumped
        BY <1>1, <1>3, Blocks DEF TypeOK
    <2> QED
        BY <1>2, <2>1, FoundStays
<1>4. CASE c = Primary
    <2>1. covered'[Primary] = covered[Primary] \cup (a..e)
          /\ jumped' = jumped \cup Passed(e)
        BY <1>1, <1>4, Blocks DEF TypeOK
    <2>2. Whole => Whole'
        BY <1>2, <2>1 DEF Whole, Unseen
    <2>3. ASSUME Accounted, NEW b \in busy[Primary], Unseen(b),
                 NEW r \in Rows(Primary)', b <= r
          PROVE  b \in jumped'
        <3>1. CASE r \in Rows(Primary)
            BY <2>1, <2>3, <3>1 DEF Accounted
        <3>2. CASE r \in a..e
            <4>1. b \in Block
                BY BusyBlocks, Blocks
            <4>2. b <= e
                BY <2>3, <3>2, <4>1, Blocks
            <4> QED
                BY <2>1, <2>3, <4>2 DEF Passed
        <3>3. r \in Rows(Primary) \/ r \in a..e
            BY <1>2, <2>1 DEF Rows
        <3> QED
            BY <3>1, <3>2, <3>3
    <2> QED
        BY <1>2, <2>2, <2>3 DEF Accounted, Unseen
<1> QED
    BY <1>3, <1>4

\* Between two nights nothing is said of holes.
LEMMA EndNightChecked == ASSUME EndNight PROVE GapChecked'
    BY Blocks DEF EndNight, GapChecked, MaxRead

\* What the gap check has found of the primary chain.
Found == start[Primary] # NoBlock /\ Accounted /\ Whole

\* The next chain is an additive one, or the snapshot is next.
LEMMA NextChainChecked ==
    ASSUME GapChecked, NextChain, pc # "idle", Found' PROVE GapChecked'
    BY DEF NextChain, GapChecked, Found

\* An additive chain is indexed or fails: the primary chain stays as it was found.
LEMMA AdditiveStep ==
    ASSUME GapChecked, NextChain, pc \in {"open", "index"}, cur # Primary, busy' = busy,
           covered'[Primary] = covered[Primary], start' = start, jumped' = jumped
    PROVE  GapChecked'
<1>1. Found /\ pc # "idle"
    BY DEF GapChecked, MaxRead, Found
<1>2. max_blk' = max_blk
    BY DEF NextChain
<1>3. Found'
    BY <1>1, <1>2, FoundStays DEF Found
<1> QED
    BY <1>1, <1>3, NextChainChecked

\* Every step keeps what the gap check has found.
LEMMA GapKeeps == ASSUME TypeOK, GapChecked, [Next]_vars PROVE GapChecked'
<1> USE DEF chainVars, dbVars, diskVars, nightVars, auxVars
<1>0. ASSUME UNCHANGED <<busy, covered, pc, cur, left, max_blk, jumped>>,
             start[Primary] # NoBlock => start'[Primary] = start[Primary]
      PROVE  GapChecked'
    <2>1. CASE start[Primary] # NoBlock
        BY <1>0, <2>1, FoundStays DEF GapChecked, MaxRead
    <2>2. CASE start[Primary] = NoBlock
        BY <1>0, <2>2 DEF GapChecked, MaxRead
    <2> QED
        BY <2>1, <2>2
<1>1. CASE NewDay
    BY <1>0, <1>1 DEF NewDay
<1>2. CASE Wipe
    BY <1>2 DEF Wipe, GapChecked, MaxRead
<1>3. ASSUME NEW c \in Chain, Finalize(c) PROVE GapChecked'
    BY <1>0, <1>3 DEF Finalize
<1>4. ASSUME NEW c \in Chain, OperatorOpens(c) PROVE GapChecked'
    <2>1. start[Primary] # NoBlock => start'[Primary] = start[Primary]
        BY <1>4, BootBlockTyped, StoreStartTyped, Blocks DEF OperatorOpens
    <2> QED
        BY <1>0, <1>4, <2>1 DEF OperatorOpens
<1>5. ASSUME NEW c \in Chain, Backfill(c) PROVE GapChecked'
    BY <1>5, BackfillAccounts DEF Backfill, GapChecked, MaxRead
<1>6. CASE StartNight
    BY <1>6 DEF StartNight, GapChecked, MaxRead
<1>7. CASE OpenChain
    <2>1. CASE cur = Primary
        BY <1>7, <2>1 DEF OpenChain, GapChecked, MaxRead
    <2>2. CASE cur # Primary
        <3>1. start'[Primary] = start[Primary]
            BY <1>7, <2>2, BootBlockTyped, StoreStartTyped, Blocks DEF OpenChain, TypeOK
        <3> QED
            BY <1>7, <2>2, <3>1, FoundStays DEF OpenChain, GapChecked, MaxRead
    <2> QED
        BY <2>1, <2>2
<1>8. ASSUME IndexAll \/ IndexSome PROVE GapChecked'
    <2>1. CASE cur = Primary
        BY <1>8, <2>1, EndNightChecked DEF IndexAll, IndexSome, GapChecked, MaxRead, TypeOK
    <2>2. CASE cur # Primary
        <3>1. covered'[Primary] = covered[Primary] /\ NextChain /\ pc = "index"
              /\ UNCHANGED <<busy, start, jumped>>
            BY <1>8, <2>2, Blocks DEF IndexAll, IndexSome, TypeOK
        <3> QED
            BY <2>2, <3>1, AdditiveStep
    <2> QED
        BY <2>1, <2>2
<1>17. CASE ReadMax
    BY <1>17, ReadAccounts DEF ReadMax, GapChecked, MaxRead
<1>9. CASE CheckGaps
    <2>1. CASE Gap
        BY <1>9, <2>1, EndNightChecked DEF CheckGaps
    <2>2. CASE ~Gap
        <3>1. start[Primary] # NoBlock /\ Accounted
            BY <1>9 DEF CheckGaps, GapChecked, MaxRead
        <3>2. Whole
            BY <2>2, <3>1, NoGapIsWhole
        <3>3. NextChain /\ pc = "gaps"
            BY <1>9, <2>2 DEF CheckGaps
        <3>4. Found'
            BY <1>9, <3>1, <3>2, <3>3, FoundStays DEF CheckGaps, NextChain, Found
        <3> QED
            BY <3>3, <3>4, NextChainChecked
    <2> QED
        BY <2>1, <2>2
<1>10. CASE WriteSellers
    <2>1. CASE taken
        BY <1>10, <2>1, EndNightChecked DEF WriteSellers
    <2>2. CASE ~taken
        BY <1>10, <2>2, FoundStays DEF WriteSellers, GapChecked, MaxRead
    <2> QED
        BY <2>1, <2>2
<1>11. CASE WriteMeta
    BY <1>11, EndNightChecked DEF WriteMeta
<1>12. CASE Unreachable
    <2>1. CASE cur = Primary
        BY <1>12, <2>1, EndNightChecked DEF Unreachable
    <2>2. CASE cur # Primary
        BY <1>12, <2>2, AdditiveStep DEF Unreachable
    <2> QED
        BY <2>1, <2>2
<1>13. CASE Die
    BY <1>13, EndNightChecked DEF Die
<1>14. CASE TearSellers
    BY <1>14, EndNightChecked DEF TearSellers
<1>15. CASE TearMeta
    BY <1>15, EndNightChecked DEF TearMeta
<1>16. CASE UNCHANGED vars
    BY <1>0, <1>16 DEF vars
<1> QED
    BY <1>1, <1>2, <1>3, <1>4, <1>5, <1>6, <1>7, <1>8, <1>9, <1>10, <1>11, <1>12, <1>13,
       <1>14, <1>15, <1>16, <1>17 DEF Next

\* Whatever operators backfill and whenever, and whatever dies or is lost: behind the
\* check the primary chain stays whole up to max_blk to the end of the night, and
\* what is above max_blk a backfill has passed (daily_snapshot.py:1348-1358).
THEOREM CheckedStaysChecked == Spec => [](TypeOK /\ GapChecked)
<1>1. Init => GapChecked
    BY DEF Init, GapChecked, MaxRead
<1> QED
    BY <1>1, InitTyped, TypeKeeps, GapKeeps, PTL DEF Spec

\* A snapshot misses no settlement of the primary chain below its rows
\* (daily_snapshot.py:5) but what is above max_blk and a backfill passed behind the
\* gap check, for any number of chains, blocks, backfills and mishaps.
THEOREM SnapshotsOverNoGap == Spec => NeverOverGap
<1> DEFINE NoneMissing == archived' # archived =>
              \A b \in busy[Primary] :
                  start[Primary] <= b /\ (\E r \in Rows(Primary) : b <= r)
                      => b \in archived'[Primary] \/ (b \in jumped /\ Unseen(b))
<1>1. TypeOK /\ GapChecked /\ [Next]_vars => [NoneMissing]_vars
    <2> SUFFICES ASSUME TypeOK, GapChecked, [Next]_vars, archived' # archived,
                        NEW b \in busy[Primary], start[Primary] <= b,
                        NEW r \in Rows(Primary), b <= r
                 PROVE  b \in archived'[Primary] \/ (b \in jumped /\ Unseen(b))
        OBVIOUS
    <2>1. WriteSellers
        BY DEF Next, chainVars, dbVars, diskVars, nightVars, auxVars, vars,
               NewDay, Wipe, Finalize, OperatorOpens, Backfill, StartNight, OpenChain,
               IndexAll, IndexSome, ReadMax, CheckGaps, WriteMeta, Unreachable, Die,
               TearSellers, TearMeta
    <2>2. Accounted /\ Whole
        BY <2>1 DEF WriteSellers, GapChecked, MaxRead
    <2>3. CASE Unseen(b)
        BY <2>2, <2>3 DEF Accounted
    <2>4. CASE ~Unseen(b)
        <3>1. b \in Rows(Primary)
            BY <2>2, <2>4 DEF Whole, Rows
        <3> QED
            BY <2>1, <3>1, Blocks DEF WriteSellers
    <2> QED
        BY <2>3, <2>4
<1>2. [NoneMissing]_vars <=> [archived' # archived =>
              \A b \in busy[Primary] :
                  start[Primary] <= b /\ (\E r \in Rows(Primary) : b <= r)
                      => b \in archived'[Primary] \/ (b \in jumped /\ Unseen(b))]_vars
    OBVIOUS
<1> HIDE DEF NoneMissing
<1>3. Spec => [][NoneMissing]_vars
    BY <1>1, CheckedStaysChecked, PTL DEF Spec
<1> QED
    BY <1>2, <1>3, PTL DEF NeverOverGap

-----------------------------------------------------------------------------
(***************************************************************************)
(* One mishap.                                                             *)
(***************************************************************************)
\* If anything happens in a deployment with one mishap, nothing had happened.
LEMMA OnlyOne ==
    ASSUME OneMishap, TypeOK, NEW k, Happens(k)
    PROVE  mishaps = {} /\ mishaps' = {k}
<1>1. IsFiniteSet(Mishap)
    <2>1. IsFiniteSet({} \cup {"wipe"})
        BY FS_EmptySet, FS_AddElement
    <2>2. IsFiniteSet(({} \cup {"wipe"}) \cup {"outage"})
        BY <2>1, FS_AddElement
    <2>3. IsFiniteSet((({} \cup {"wipe"}) \cup {"outage"}) \cup {"torn"})
        BY <2>2, FS_AddElement
    <2>4. IsFiniteSet(((({} \cup {"wipe"}) \cup {"outage"}) \cup {"torn"}) \cup {"operator"})
        BY <2>3, FS_AddElement
    <2>5. Mishap = ((({} \cup {"wipe"}) \cup {"outage"}) \cup {"torn"}) \cup {"operator"}
        BY DEF Mishap
    <2> QED
        BY <2>4, <2>5
<1>2. mishaps \subseteq Mishap
    BY NightAssumption DEF TypeOK
<1>3. IsFiniteSet(mishaps)
    BY <1>1, <1>2, FS_Subset
<1>4. Cardinality(mishaps) \in Nat /\ Cardinality(mishaps) < MaxMishaps /\ MaxMishaps <= 1
    BY <1>3, FS_CardinalityType DEF Happens, OneMishap
<1>5. MaxMishaps \in Nat
    BY NightAssumption
<1>6. Cardinality(mishaps) = 0
    BY <1>4, <1>5
<1>7. mishaps = {}
    BY <1>3, <1>6, FS_EmptySet
<1> QED
    BY <1>7 DEF Happens

(***************************************************************************)
(* What a step can be to the tables and the files.                         *)
(***************************************************************************)
\* Nothing changes but that rows may be added.
Still ==
    /\ UNCHANGED <<busy, start, archived, heads, mishaps, first, recorded>>
    /\ \A c \in Chain : covered[c] \subseteq covered'[c]
    /\ jumped \subseteq jumped'

\* Chain c gets a start block; after a wipe the nightly run is who gives it.
Opens(c) ==
    /\ start[c] = NoBlock
    /\ UNCHANGED <<busy, covered, archived, heads, recorded, jumped>>
    /\ \E b \in Block :
          /\ StoreStart(c, b)
          /\ "wipe" \in mishaps => pc = "open" /\ b = BootBlock(c)
    /\ mishaps' = mishaps \/ (mishaps = {} /\ mishaps' = {"operator"})

\* A chain does not answer for a night, or the newest metadata is cut.
Fails ==
    /\ UNCHANGED <<busy, covered, start, archived, first, recorded, jumped>>
    /\ mishaps = {}
    /\ \/ mishaps' = {"outage"} /\ heads' = heads
       \/ mishaps' = {"torn"}

\* There is nothing else a step can be.
LEMMA StepKinds ==
    ASSUME OneMishap, TypeOK, [Next]_vars
    PROVE  Still \/ Wipe \/ (\E c \in Chain : Opens(c)) \/ WriteSellers \/ WriteMeta \/ Fails
<1> USE DEF chainVars, dbVars, diskVars, nightVars, auxVars
<1>1. CASE NewDay \/ StartNight \/ ReadMax \/ CheckGaps \/ Die \/ TearSellers
    BY <1>1 DEF Still, NewDay, StartNight, ReadMax, CheckGaps, Die, TearSellers
<1>2. ASSUME NEW c \in Chain, Finalize(c) PROVE Still
    BY <1>2 DEF Still, Finalize
<1>3. ASSUME NEW c \in Chain, Backfill(c) PROVE Still
    BY <1>3 DEF Still, Backfill, TypeOK
<1>4. CASE IndexAll \/ IndexSome
    BY <1>4 DEF Still, IndexAll, IndexSome, TypeOK
<1>5. ASSUME NEW c \in Chain, OperatorOpens(c) PROVE Opens(c)
    <2>1. mishaps = {} /\ mishaps' = {"operator"}
        BY <1>5, OnlyOne DEF OperatorOpens
    <2>2. final[c] - Lookback \in Block
        BY BootBlockTyped
    <2> QED
        BY <1>5, <2>1, <2>2 DEF OperatorOpens, Opens
<1>6. CASE OpenChain
    <2>1. CASE start[cur] = NoBlock
        <3>1. cur \in Chain /\ BootBlock(cur) \in Block
            BY BootBlockTyped DEF TypeOK
        <3>2. Opens(cur)
            BY <1>6, <2>1, <3>1 DEF OpenChain, Opens
        <3> QED
            BY <3>1, <3>2
    <2>2. CASE start[cur] # NoBlock
        BY <1>6, <2>2 DEF OpenChain, Still
    <2> QED
        BY <2>1, <2>2
<1>7. CASE Unreachable
    <2>1. CASE UNCHANGED mishaps
        BY <1>7, <2>1 DEF Unreachable, Still
    <2>2. CASE Happens("outage")
        BY <1>7, <2>2, OnlyOne DEF Unreachable, Fails
    <2> QED
        BY <1>7, <2>1, <2>2 DEF Unreachable
<1>8. CASE TearMeta
    BY <1>8, OnlyOne DEF TearMeta, Fails
<1>9. CASE UNCHANGED vars
    BY <1>9 DEF vars, Still
<1> QED
    BY <1>1, <1>2, <1>3, <1>4, <1>5, <1>6, <1>7, <1>8, <1>9 DEF Next

\* What the new head of a chain is to its rows and to the highest that was recorded.
LEMMA NewHead ==
    ASSUME TypeOK, WriteMeta, NEW c \in Chain
    PROVE  /\ heads'[c] = Highest(Rows(c))
           /\ heads'[c] = NoBlock => recorded'[c] = recorded[c]
           /\ heads'[c] # NoBlock =>
                 /\ recorded'[c] \in {heads'[c], recorded[c]} \ {NoBlock}
                 /\ heads'[c] <= recorded'[c]
                 /\ recorded[c] # NoBlock => recorded[c] <= recorded'[c]
<1> DEFINE S == {heads'[c], recorded[c]} \ {NoBlock}
<1>1. heads'[c] = Highest(Rows(c)) /\ heads'[c] \in Block \cup {NoBlock}
    BY HeadTyped DEF WriteMeta
<1>2. recorded'[c] = IF heads'[c] = NoBlock THEN recorded[c] ELSE Highest(S)
    BY DEF WriteMeta
<1>3. ASSUME heads'[c] # NoBlock
      PROVE  Highest(S) \in S /\ \A d \in S : d <= Highest(S)
    <2>1. S \in SUBSET Block /\ S # {}
        BY <1>1, <1>3 DEF TypeOK
    <2> HIDE DEF S
    <2> QED
        BY <2>1, HighestIsGreatest
<1> QED
    BY <1>1, <1>2, <1>3

-----------------------------------------------------------------------------
(***************************************************************************)
(* The chains a night has opened.                                          *)
(***************************************************************************)
\* A night that goes on from a chain with a start block has opened one more.
LEMMA NextChainOpened ==
    ASSUME TypeOK, GapChecked, Opened, NextChain, pc \in {"open", "index", "gaps"},
           UNCHANGED start, mishaps' = mishaps,
           start[cur] # NoBlock \/ "outage" \in mishaps
    PROVE  Opened'
<1>1. \A k, l \in mishaps' : k = l
    BY DEF Opened
<1>3. ASSUME "outage" \notin mishaps, NEW c \in Chain \ (left' \cup {cur'})
      PROVE  start[c] # NoBlock
    <2>1. CASE left = {}
        BY <1>3, <2>1 DEF NextChain, Opened
    <2>2. CASE left # {}
        <3>1. c \notin left
            BY <1>3, <2>2 DEF NextChain
        <3> QED
            BY <1>3, <3>1 DEF Opened
    <2> QED
        BY <2>1, <2>2
<1> QED
    BY <1>1, <1>3 DEF Opened

\* The night is over, and no chain has lost its start block.
LEMMA EndNightOpened ==
    ASSUME Opened, EndNight, mishaps' = mishaps \/ (\E k : mishaps' = {k}) PROVE Opened'
    BY DEF EndNight, Opened

\* A chain that is being indexed, or is checked, has a start block.
LEMMA IndexedIsOpen ==
    ASSUME TypeOK, GapChecked, pc \in {"index", "check", "gaps"}
    PROVE  start[cur] # NoBlock
    BY DEF TypeOK, GapChecked, MaxRead

\* Every step keeps the account of what was opened.
LEMMA OpenedKeeps ==
    ASSUME OneMishap, TypeOK, GapChecked, Opened, [Next]_vars PROVE Opened'
<1> USE DEF chainVars, dbVars, diskVars, nightVars, auxVars
<1>1. CASE NewDay
    BY <1>1 DEF NewDay, Opened
<1>2. CASE Wipe
    BY <1>2, OnlyOne DEF Wipe, Opened
<1>3. ASSUME NEW c \in Chain, Finalize(c) PROVE Opened'
    BY <1>3 DEF Finalize, Opened
<1>4. ASSUME NEW c \in Chain, OperatorOpens(c) PROVE Opened'
    <2>1. mishaps = {} /\ mishaps' = {"operator"}
        BY <1>4, OnlyOne DEF OperatorOpens
    <2>2. \A d \in Chain : start[d] # NoBlock => start'[d] # NoBlock
        BY <1>4, BootBlockTyped, StoreStartTyped, Blocks DEF OperatorOpens
    <2> QED
        BY <1>4, <2>1, <2>2 DEF OperatorOpens, Opened
<1>5. ASSUME NEW c \in Chain, Backfill(c) PROVE Opened'
    BY <1>5 DEF Backfill, Opened
<1>6. CASE StartNight
    BY <1>6, Blocks DEF StartNight, Opened
<1>7. CASE OpenChain
    <2>1. \A c \in Chain : start[c] # NoBlock => start'[c] # NoBlock
        BY <1>7, BootBlockTyped, StoreStartTyped, Blocks DEF OpenChain, TypeOK
    <2> QED
        BY <1>7, <2>1, Blocks DEF OpenChain, Opened
<1>8. CASE IndexAll
    <2>1. start[cur] # NoBlock
        BY <1>8 DEF IndexAll, TypeOK
    <2>2. CASE cur = Primary
        BY <1>8, <2>1, <2>2 DEF IndexAll, Opened
    <2>3. CASE cur # Primary
        BY <1>8, <2>1, <2>3, NextChainOpened DEF IndexAll
    <2> QED
        BY <2>2, <2>3
<1>9. CASE IndexSome
    <2>1. start[cur] # NoBlock
        BY <1>9 DEF IndexSome, TypeOK
    <2>2. CASE cur = Primary
        BY <1>9, <2>2, EndNightOpened DEF IndexSome
    <2>3. CASE cur # Primary
        BY <1>9, <2>1, <2>3, NextChainOpened DEF IndexSome
    <2> QED
        BY <2>2, <2>3
<1>18. CASE ReadMax
    BY <1>18 DEF ReadMax, Opened
<1>10. CASE CheckGaps
    <2>1. CASE EndNight
        BY <1>10, <2>1, EndNightOpened DEF CheckGaps
    <2>2. CASE NextChain
        BY <1>10, <2>2, IndexedIsOpen, NextChainOpened DEF CheckGaps
    <2> QED
        BY <1>10, <2>1, <2>2 DEF CheckGaps
<1>11. CASE WriteSellers
    BY <1>11, EndNightOpened DEF WriteSellers, Opened
<1>12. CASE WriteMeta
    BY <1>12, EndNightOpened DEF WriteMeta
<1>13. CASE Unreachable
    <2>1. CASE EndNight /\ UNCHANGED mishaps
        BY <1>13, <2>1, EndNightOpened DEF Unreachable
    <2>2. CASE cur # Primary /\ NextChain /\ Happens("outage")
        <3>1. mishaps' = {"outage"}
            BY <2>2, OnlyOne
        <3> QED
            BY <3>1 DEF Opened
    <2> QED
        BY <1>13, <2>1, <2>2 DEF Unreachable
<1>14. CASE Die
    BY <1>14, EndNightOpened DEF Die
<1>15. CASE TearSellers
    BY <1>15, EndNightOpened DEF TearSellers
<1>16. CASE TearMeta
    BY <1>16, OnlyOne, EndNightOpened DEF TearMeta
<1>17. CASE UNCHANGED vars
    BY <1>17 DEF vars, Opened
<1> QED
    BY <1>1, <1>2, <1>3, <1>4, <1>5, <1>6, <1>7, <1>8, <1>9, <1>10, <1>11, <1>12, <1>13,
       <1>14, <1>15, <1>16, <1>17, <1>18 DEF Next

\* When the metadata is written every chain has a start block, outages aside.
LEMMA AllOpened ==
    ASSUME GapChecked, Opened, pc = "meta", "outage" \notin mishaps, NEW c \in Chain
    PROVE  start[c] # NoBlock
    BY DEF GapChecked, Opened, MaxRead

-----------------------------------------------------------------------------
(***************************************************************************)
(* What is covered, and what the newest snapshot's heads are.              *)
(***************************************************************************)
\* What a backfill adds behind the aggregates it accounts for.
LEMMA BackfillKeeps ==
    ASSUME TypeOK, GapChecked, Contiguous, OneMishap, pc = "meta", NEW d \in Chain, Backfill(d),
           NEW c \in Chain, NEW b \in Rows(c)', start[c] <= b
    PROVE  Kept(c, b)'
<1>1. PICK a, e \in Block :
          /\ covered' = [covered EXCEPT ![d] = @ \cup (a..e)]
          /\ jumped' = IF d = Primary THEN jumped \cup Passed(e) ELSE jumped
    BY DEF Backfill
<1>2. UNCHANGED <<busy, archived>> /\ d = Primary
    BY DEF Backfill, chainVars, diskVars, OneMishap
<1>3. CASE b \in Rows(c)
    BY <1>1, <1>2, <1>3 DEF Contiguous, Kept
<1>4. CASE b \notin Rows(c)
    <2>1. c = Primary /\ b \in busy[Primary] /\ b \in a..e /\ b \notin covered[Primary]
        BY <1>1, <1>2, <1>4 DEF Rows, TypeOK
    <2>2. Unseen(b)
        BY <2>1 DEF GapChecked, MaxRead, Whole
    <2>3. b <= e
        BY <2>1, BusyBlocks, Blocks
    <2>4. b \in Passed(e)
        BY <2>1, <2>2, <2>3 DEF Passed, MaxRead
    <2> QED
        BY <1>1, <1>2, <2>1, <2>4 DEF Kept
<1> QED
    BY <1>3, <1>4

\* Every step keeps the additive chains contiguous and the open snapshot complete.
LEMMA ContiguousKeeps ==
    ASSUME OneMishap, TypeOK, GapChecked, Contiguous, [Next]_vars PROVE Contiguous'
<1> USE DEF chainVars, dbVars, diskVars, nightVars, auxVars
<1> DEFINE Solid(c) == \A a \in covered[c], b \in Block :
                           start[c] <= b /\ b <= a => b \in covered[c]
<1>1. ASSUME NEW c \in Chain \ {Primary} PROVE Solid(c)'
    <2>1. Solid(c) /\ covered[c] \in SUBSET Block
        BY DEF Contiguous, TypeOK
    <2>2. CASE covered'[c] = covered[c] /\ start'[c] = start[c]
        BY <2>1, <2>2
    <2>3. CASE covered'[c] = {}
        BY <2>3
    <2>4. ASSUME NEW e \in Block, c = cur, start' = start, pc = "index",
                 covered' = [covered EXCEPT ![cur] = @ \cup (start[cur]..e)]
          PROVE  Solid(c)'
        <3>1. start[c] \in Block /\ start'[c] = start[c]
              /\ covered'[c] = covered[c] \cup (start[c]..e)
            BY <2>4 DEF TypeOK
        <3>2. ASSUME NEW a \in covered'[c], NEW b \in Block, start[c] <= b, b <= a
              PROVE  b \in covered'[c]
            <4>1. CASE a \in covered[c]
                BY <2>1, <3>1, <3>2, <4>1
            <4>2. CASE a \in start[c]..e
                BY <3>1, <3>2, <4>2, Blocks
            <4> QED
                BY <3>1, <3>2, <4>1, <4>2
        <3> QED
            BY <3>1, <3>2
    <2>5. ASSUME NEW d \in Chain, NEW b \in Block, StoreStart(d, b),
                 start[d] = NoBlock, covered' = covered
          PROVE  Solid(c)'
        <3>1. CASE d = c
            BY <2>3, <2>5, <3>1 DEF TypeOK
        <3>2. CASE d # c
            BY <2>2, <2>5, <3>2, StoreStartTyped
        <3> QED
            BY <3>1, <3>2
    <2>6. ASSUME OperatorOpens(c) \/ (\E d \in Chain : OperatorOpens(d)) PROVE Solid(c)'
        BY <2>5, <2>6, BootBlockTyped DEF OperatorOpens
    <2>7. CASE OpenChain
        <3>1. CASE start[cur] = NoBlock
            BY <2>5, <2>7, <3>1, BootBlockTyped DEF OpenChain, TypeOK
        <3>2. CASE start[cur] # NoBlock
            BY <2>2, <2>7, <3>2 DEF OpenChain
        <3> QED
            BY <3>1, <3>2
    <2>8. CASE IndexAll \/ IndexSome
        <3>1. CASE c = cur
            <4>1. CASE IndexAll
                <5>1. end \in Block /\ pc = "index" /\ start' = start
                      /\ covered' = [covered EXCEPT ![cur] = @ \cup (start[cur]..end)]
                    BY <4>1 DEF IndexAll, TypeOK
                <5> QED
                    BY <2>4, <3>1, <5>1
            <4>2. CASE IndexSome
                <5>1. PICK b \in Block :
                          covered' = [covered EXCEPT ![cur] = @ \cup (start[cur]..b)]
                    BY <4>2 DEF IndexSome
                <5>2. pc = "index" /\ start' = start
                    BY <4>2 DEF IndexSome
                <5> QED
                    BY <2>4, <3>1, <5>1, <5>2
            <4> QED
                BY <2>8, <4>1, <4>2
        <3>2. CASE c # cur
            BY <2>2, <2>8, <3>2 DEF IndexAll, IndexSome, TypeOK
        <3> QED
            BY <3>1, <3>2
    <2>9. ASSUME NEW d \in Chain, Backfill(d) PROVE Solid(c)'
        <3>1. d = Primary
            BY <2>9 DEF Backfill, OneMishap
        <3>2. covered'[c] = covered[c]
            BY <2>9, <3>1 DEF Backfill, TypeOK
        <3>3. start' = start
            BY <2>9 DEF Backfill
        <3> QED
            BY <2>2, <3>2, <3>3
    <2>10. CASE Wipe
        BY <2>3, <2>10 DEF Wipe
    <2>11. CASE UNCHANGED dbVars
        BY <2>2, <2>11
    <2> HIDE DEF Solid
    <2> QED
        BY <2>6, <2>7, <2>8, <2>9, <2>10, <2>11
        DEF Next, vars, NewDay, Finalize, StartNight, ReadMax, CheckGaps, WriteSellers,
            WriteMeta, Unreachable, Die, TearSellers, TearMeta
<1>2. ASSUME pc' = "meta", NEW c \in Chain, NEW b \in Rows(c)', start'[c] <= b
      PROVE  Kept(c, b)'
    <2>1. CASE WriteSellers
        <3>1. ~taken /\ archived'[c] = archived[c] \cup Rows(c) /\ Rows(c)' = Rows(c)
            BY <1>2, <2>1, Blocks DEF WriteSellers, EndNight, Rows
        <3> QED
            BY <1>2, <3>1 DEF Kept
    <2>2. CASE pc = "meta" /\ UNCHANGED <<busy, start, covered, archived, jumped>>
        BY <1>2, <2>2 DEF Contiguous, Rows, Kept
    <2>3. CASE UNCHANGED vars
        BY <1>2, <2>2, <2>3 DEF vars
    <2>4. CASE NewDay \/ \E d \in Chain : Finalize(d)
        BY <1>2, <2>2, <2>4 DEF NewDay, Finalize
    <2>5. ASSUME NEW d \in Chain, Backfill(d) PROVE Kept(c, b)'
        BY <1>2, <2>5, BackfillKeeps DEF Backfill
    <2>6. ASSUME NEW d \in Chain, OperatorOpens(d) PROVE Kept(c, b)'
        <3>1. pc = "meta" /\ b \in Rows(c) /\ UNCHANGED <<archived, jumped>>
            BY <1>2, <2>6 DEF OperatorOpens, Rows
        <3>2. d # c
            BY <2>6, <3>1 DEF OperatorOpens, Rows, TypeOK
        <3>3. start'[c] = start[c]
            BY <2>6, <3>2, BootBlockTyped, StoreStartTyped DEF OperatorOpens
        <3> QED
            BY <1>2, <3>1, <3>3 DEF Contiguous, Kept
    <2> QED
        BY <1>2, <2>1, <2>3, <2>4, <2>5, <2>6
        DEF Next, Wipe, StartNight, OpenChain, IndexAll, IndexSome, ReadMax,
            CheckGaps, WriteMeta, Unreachable, Die, TearSellers, TearMeta, NextChain, EndNight
<1> QED
    BY <1>1, <1>2 DEF Contiguous

\* A night works with the heads of the newest snapshot.
Anchored == pc # "idle" => anchors = heads

\* A step keeps the anchors true.
LEMMA AnchorsStay == ASSUME Anchored, [Next]_vars PROVE Anchored'
    BY DEF chainVars, dbVars, diskVars, nightVars, auxVars, vars, Anchored, Next,
           NewDay, Wipe, Finalize, OperatorOpens, Backfill, StartNight, OpenChain,
           IndexAll, IndexSome, ReadMax, CheckGaps, WriteSellers, WriteMeta, Unreachable,
           Die, TearSellers, TearMeta, NextChain, EndNight

\* As long as no database was lost, the head that is written is the highest one.
LEMMA HeadIsHighest ==
    ASSUME TypeOK, HeadsTrue, WriteMeta, "wipe" \notin mishaps, NEW c \in Chain
    PROVE  /\ heads'[c] = Highest(Rows(c)) /\ recorded'[c] = heads'[c]
           /\ start[c] = NoBlock => recorded'[c] = NoBlock
           /\ recorded'[c] # NoBlock => recorded'[c] \in Rows(c) /\ start[c] = first[c]
<1>1. /\ start[c] = NoBlock => recorded[c] = NoBlock
      /\ start[c] # NoBlock => start[c] = first[c]
      /\ recorded[c] # NoBlock => recorded[c] \in Rows(c)
    BY DEF HeadsTrue
<1>2. start[c] = NoBlock => Rows(c) = {}
    BY DEF TypeOK, Rows
<1>3. CASE Rows(c) = {}
    <2>1. heads'[c] = NoBlock /\ recorded'[c] = recorded[c] /\ recorded[c] = NoBlock
        BY <1>1, <1>3, HeadTyped, NewHead
    <2> QED
        BY <2>1, NewHead
<1>4. CASE Rows(c) # {}
    <2>1. /\ heads'[c] = Highest(Rows(c)) /\ heads'[c] \in Rows(c) /\ heads'[c] \in Block
          /\ heads'[c] # NoBlock /\ \A r \in Rows(c) : r <= heads'[c]
        BY <1>4, HeadTyped, NewHead, Blocks
    <2>2. /\ recorded'[c] \in {heads'[c], recorded[c]} \ {NoBlock}
          /\ heads'[c] <= recorded'[c]
        BY <2>1, NewHead
    <2>3. recorded'[c] = heads'[c]
        <3>1. CASE recorded'[c] = recorded[c]
            <4>1. recorded[c] \in Rows(c) /\ recorded[c] \in Block
                BY <1>1, <2>2, <3>1, HeadTyped
            <4>2. recorded[c] <= heads'[c] /\ heads'[c] <= recorded[c]
                BY <2>1, <2>2, <3>1, <4>1
            <4> QED
                BY <2>1, <3>1, <4>1, <4>2, Blocks
        <3> QED
            BY <2>2, <3>1
    <2> QED
        BY <1>1, <1>2, <1>4, <2>1, <2>3
<1> QED
    BY <1>3, <1>4

\* A chain that gets its first start block before a database was lost has no head.
LEMMA FirstOpening ==
    ASSUME TypeOK, HeadsTrue, NEW c \in Chain, Opens(c)
    PROVE  /\ "wipe" \in mishaps' <=> "wipe" \in mishaps
           /\ "torn" \in mishaps' <=> "torn" \in mishaps
           /\ start'[c] \in Block /\ start'[c] # NoBlock
           /\ recorded[c] = NoBlock => start'[c] = first'[c]
           /\ "wipe" \notin mishaps => recorded[c] = NoBlock
           /\ \A d \in Chain : d # c => start'[d] = start[d] /\ first'[d] = first[d]
           /\ first'[c] = IF recorded[c] = NoBlock THEN start'[c] ELSE first[c]
<1>1. PICK b \in Block : StoreStart(c, b)
    BY DEF Opens
<1>2. b # NoBlock
    BY Blocks
<1>3. mishaps' = mishaps \/ (mishaps = {} /\ mishaps' = {"operator"})
    BY DEF Opens
<1>4. /\ "wipe" \in mishaps' <=> "wipe" \in mishaps
      /\ "torn" \in mishaps' <=> "torn" \in mishaps
    BY <1>3
<1>5. "wipe" \notin mishaps => recorded[c] = NoBlock
    BY DEF Opens, HeadsTrue
<1> QED
    BY <1>1, <1>2, <1>4, <1>5, StoreStartTyped

\* Every step keeps what is known of the heads.
LEMMA HeadsKeep ==
    ASSUME OneMishap, TypeOK, GapChecked, Opened, HeadsTrue, [Next]_vars PROVE HeadsTrue'
<1> DEFINE True(c) == /\ start[c] = NoBlock => recorded[c] = NoBlock
                      /\ start[c] # NoBlock => start[c] = first[c]
                      /\ recorded[c] # NoBlock => recorded[c] \in Rows(c)
                      /\ "torn" \notin mishaps => heads[c] = recorded[c]
           Fresh(c) == start[c] # NoBlock /\ recorded[c] = NoBlock => start[c] = first[c]
           Left(c) == start[c] = NoBlock => heads[c] = recorded[c]
<1>1. Anchored'
    BY AnchorsStay DEF HeadsTrue, Anchored
<1>2. SUFFICES ASSUME NEW c \in Chain
               PROVE  /\ "wipe" \notin mishaps' => True(c)'
                      /\ Fresh(c)'
                      /\ "wipe" \in mishaps' => Left(c)'
    BY <1>1 DEF HeadsTrue, Anchored
<1>3. /\ "wipe" \notin mishaps => True(c)
      /\ Fresh(c)
      /\ "wipe" \in mishaps => Left(c)
    BY DEF HeadsTrue
<1>4. CASE Still
    <2>1. Rows(c) \subseteq Rows(c)'
        BY <1>4 DEF Still, Rows
    <2> QED
        BY <1>3, <1>4, <2>1 DEF Still
<1>5. CASE Wipe
    <2>1. mishaps = {} /\ mishaps' = {"wipe"}
        BY <1>5, OnlyOne DEF Wipe
    <2>2. start'[c] = NoBlock
        BY <1>5 DEF Wipe, NoHeads
    <2>3. heads' = heads /\ recorded' = recorded
        BY <1>5 DEF Wipe, diskVars
    <2> QED
        BY <1>3, <2>1, <2>2, <2>3
<1>6. ASSUME NEW d \in Chain, Opens(d)
      PROVE  /\ "wipe" \notin mishaps' => True(c)'
             /\ Fresh(c)'
             /\ "wipe" \in mishaps' => Left(c)'
    <2>1. Rows(c)' = Rows(c) /\ heads' = heads /\ recorded' = recorded
        BY <1>6 DEF Opens, Rows
    <2>2. CASE d = c
        BY <1>3, <1>6, <2>1, <2>2, FirstOpening
    <2>3. CASE d # c
        BY <1>3, <1>6, <2>1, <2>3, FirstOpening
    <2> QED
        BY <2>2, <2>3
<1>7. CASE WriteSellers
    BY <1>3, <1>7 DEF WriteSellers, Rows, chainVars, dbVars, auxVars
<1>8. CASE WriteMeta
    <2>1. UNCHANGED <<start, first, mishaps>> /\ Rows(c)' = Rows(c) /\ pc = "meta"
        BY <1>8 DEF WriteMeta, Rows, chainVars, dbVars
    <2>2. ASSUME "wipe" \notin mishaps PROVE True(c)'
        <3> HIDE DEF True
        <3>1. recorded'[c] = heads'[c]
              /\ (start[c] = NoBlock => recorded'[c] = NoBlock)
              /\ (recorded'[c] # NoBlock => recorded'[c] \in Rows(c))
            BY <1>8, <2>2, HeadIsHighest
        <3> QED
            BY <1>3, <2>1, <2>2, <3>1 DEF True
    <2>3. Fresh(c)'
        <3>1. recorded'[c] = NoBlock => recorded[c] = NoBlock
            BY <1>8, NewHead
        <3> QED
            BY <1>3, <2>1, <3>1
    <2>4. ASSUME "wipe" \in mishaps PROVE start[c] # NoBlock
        <3>1. "outage" \notin mishaps
            BY <2>4 DEF Opened
        <3> QED
            BY <2>1, <3>1, AllOpened
    <2> QED
        BY <2>1, <2>2, <2>3, <2>4
<1>9. CASE Fails
    <2>1. Rows(c)' = Rows(c)
        BY <1>9 DEF Fails, Rows
    <2> QED
        BY <1>3, <1>9, <2>1 DEF Fails
<1> QED
    BY <1>4, <1>5, <1>6, <1>7, <1>8, <1>9, StepKinds

-----------------------------------------------------------------------------
(***************************************************************************)
(* What the snapshots have.                                                *)
(***************************************************************************)
\* No database is lost before the first mishap, and no other one after it.
LEMMA LossAlone ==
    ASSUME Opened PROVE "wipe" \in mishaps => "outage" \notin mishaps /\ "torn" \notin mishaps
    BY DEF Opened

\* Every step keeps what the snapshots have up to the recorded heads.
LEMMA ArchivedKeeps ==
    ASSUME OneMishap, TypeOK, GapChecked, Opened, Contiguous, HeadsTrue, Archived,
           [Next]_vars
    PROVE  Archived'
<1> DEFINE All(c) == \A b \in busy[c] : first[c] <= b /\ b <= recorded[c] => Kept(c, b)
<1> SUFFICES ASSUME NEW c \in Chain, recorded'[c] # NoBlock,
                    "wipe" \notin mishaps' \/ start'[c] = NoBlock
             PROVE  All(c)'
    BY DEF Archived
<1>1. recorded[c] # NoBlock /\ ("wipe" \notin mishaps \/ start[c] = NoBlock) => All(c)
    BY DEF Archived
<1>2. CASE Still
    BY <1>1, <1>2 DEF Still, Kept
<1>3. CASE Wipe
    <2>1. "wipe" \notin mishaps
        BY <1>3 DEF Wipe, Happens
    <2>2. UNCHANGED <<busy, archived, recorded, first, jumped>>
        BY <1>3 DEF Wipe, chainVars, diskVars
    <2> QED
        BY <1>1, <2>1, <2>2 DEF Kept
<1>4. ASSUME NEW d \in Chain, Opens(d) PROVE All(c)'
    <2>1. d # c
        BY <1>4, FirstOpening DEF Opens
    <2>2. first'[c] = first[c] /\ start'[c] = start[c]
          /\ ("wipe" \in mishaps' <=> "wipe" \in mishaps)
        BY <1>4, <2>1, FirstOpening
    <2>3. UNCHANGED <<busy, archived, recorded, jumped>>
        BY <1>4 DEF Opens
    <2> QED
        BY <1>1, <2>2, <2>3 DEF Kept
<1>5. CASE WriteSellers
    <2>1. archived[c] \subseteq archived'[c]
        BY <1>5 DEF WriteSellers, TypeOK
    <2>2. UNCHANGED <<busy, start, first, recorded, mishaps, jumped>>
        BY <1>5 DEF WriteSellers, chainVars, dbVars, auxVars
    <2> QED
        BY <1>1, <2>1, <2>2 DEF Kept
<1>6. CASE WriteMeta
    <2>1. UNCHANGED <<busy, start, first, archived, mishaps, jumped>> /\ pc = "meta"
        BY <1>6 DEF WriteMeta, chainVars, dbVars
    <2>2. "wipe" \notin mishaps
        BY <2>1, LossAlone, AllOpened
    <2>3. recorded'[c] \in Rows(c) /\ start[c] = first[c]
        BY <1>6, <2>2, HeadIsHighest
    <2>4. ASSUME NEW b \in busy[c], start[c] <= b, b <= recorded'[c] PROVE Kept(c, b)
        <3>1. CASE c = Primary /\ Unseen(b)
            BY <2>1, <2>3, <2>4, <3>1 DEF GapChecked, MaxRead, Accounted, Kept
        <3>2. CASE c = Primary /\ ~Unseen(b)
            <4>1. b \in Rows(c)
                BY <2>1, <2>4, <3>2 DEF GapChecked, MaxRead, Whole, Rows
            <4> QED
                BY <2>1, <2>4, <4>1 DEF Contiguous
        <3>3. CASE c # Primary
            <4>1. recorded'[c] \in covered[c] /\ b \in Block
                BY <2>3, BusyBlocks DEF Rows
            <4>2. b \in Rows(c)
                BY <2>4, <3>3, <4>1 DEF Contiguous, Rows
            <4> QED
                BY <2>1, <2>4, <4>2 DEF Contiguous
        <3> QED
            BY <3>1, <3>2, <3>3
    <2> QED
        BY <2>1, <2>3, <2>4 DEF Kept
<1>7. CASE Fails
    BY <1>1, <1>7 DEF Fails, Kept
<1> QED
    BY <1>2, <1>3, <1>4, <1>5, <1>6, <1>7, StepKinds

\* A chain that is opened behind a lost database starts behind its highest head.
LEMMA Resumes ==
    ASSUME OneMishap, TypeOK, Opened, HeadsTrue, NEW c \in Chain, Opens(c),
           recorded[c] # NoBlock
    PROVE  start'[c] <= recorded[c] + 1 /\ recorded[c] \in Block /\ start[c] = NoBlock
<1>1. "wipe" \in mishaps
    BY FirstOpening
<1>2. pc = "open" /\ StoreStart(c, BootBlock(c)) /\ start[c] = NoBlock
    BY <1>1 DEF Opens
<1>3. anchors[c] = recorded[c] /\ recorded[c] \in Block
    BY <1>1, <1>2 DEF HeadsTrue, TypeOK
<1>4. final[c] \in Block /\ BootBlock(c) \in Block
    BY BootBlockTyped
<1>5. BootBlock(c) <= recorded[c] + 1
    BY <1>3, <1>4, Blocks DEF BootBlock
<1>6. start'[c] = BootBlock(c)
    BY <1>2, <1>4, StoreStartTyped
<1> QED
    BY <1>2, <1>3, <1>5, <1>6

\* Every step keeps the start blocks behind the heads.
LEMMA ResumesKeep ==
    ASSUME OneMishap, TypeOK, Opened, HeadsTrue, ResumesAtHead, [Next]_vars
    PROVE  ResumesAtHead'
<1> DEFINE Behind(c) == start[c] <= recorded[c] + 1 \/ start[c] = first[c]
<1> SUFFICES ASSUME NEW c \in Chain, start'[c] # NoBlock, recorded'[c] # NoBlock
             PROVE  Behind(c)'
    BY DEF ResumesAtHead
<1>1. start[c] # NoBlock /\ recorded[c] # NoBlock => Behind(c)
    BY DEF ResumesAtHead
<1>2. CASE Still \/ Fails
    BY <1>1, <1>2 DEF Still, Fails
<1>3. CASE Wipe
    BY <1>3 DEF Wipe, NoHeads
<1>4. ASSUME NEW d \in Chain, Opens(d) PROVE Behind(c)'
    <2>1. recorded' = recorded
        BY <1>4 DEF Opens
    <2>2. CASE d = c
        BY <1>4, <2>1, <2>2, Resumes
    <2>3. CASE d # c
        BY <1>1, <1>4, <2>1, <2>3, FirstOpening
    <2> QED
        BY <2>2, <2>3
<1>5. CASE WriteSellers
    BY <1>1, <1>5 DEF WriteSellers, dbVars, auxVars
<1>6. CASE WriteMeta
    <2>1. UNCHANGED <<start, first>>
        BY <1>6 DEF WriteMeta, dbVars
    <2>2. CASE recorded[c] = NoBlock
        BY <2>1, <2>2 DEF HeadsTrue
    <2>3. CASE recorded[c] # NoBlock
        <3>1. recorded[c] \in Block /\ start[c] \in Block
            BY <2>1, <2>3 DEF TypeOK
        <3>2. recorded'[c] \in Block /\ recorded[c] <= recorded'[c]
            <4>1. heads'[c] \in Block \cup {NoBlock}
                BY <1>6, NewHead, HeadTyped
            <4>2. CASE heads'[c] = NoBlock
                BY <1>6, <3>1, <4>2, NewHead, Blocks
            <4>3. CASE heads'[c] # NoBlock
                BY <1>6, <2>3, <3>1, <4>1, <4>3, NewHead
            <4> QED
                BY <4>2, <4>3
        <3> QED
            BY <1>1, <2>1, <2>3, <3>1, <3>2, Blocks
    <2> QED
        BY <2>2, <2>3
<1> QED
    BY <1>2, <1>3, <1>4, <1>5, <1>6, StepKinds

\* Every step keeps what the snapshots have below the start blocks.
LEMMA LostKeeps ==
    ASSUME OneMishap, TypeOK, Opened, HeadsTrue, Archived, NothingLost, [Next]_vars
    PROVE  NothingLost'
<1> DEFINE All(c) == \A b \in busy[c] : first[c] <= b /\ b < start[c] => Kept(c, b)
<1> SUFFICES ASSUME NEW c \in Chain, start'[c] # NoBlock, recorded'[c] # NoBlock
             PROVE  All(c)'
    BY DEF NothingLost, Kept
<1>1. start[c] # NoBlock /\ recorded[c] # NoBlock => All(c)
    BY DEF NothingLost, Kept
<1>2. CASE Still \/ Fails
    BY <1>1, <1>2 DEF Still, Fails, Kept
<1>3. CASE Wipe
    BY <1>3 DEF Wipe, NoHeads
<1>4. ASSUME NEW d \in Chain, Opens(d) PROVE All(c)'
    <2>1. UNCHANGED <<busy, archived, recorded, jumped>>
        BY <1>4 DEF Opens
    <2>2. CASE d = c
        <3>1. /\ start'[c] <= recorded[c] + 1 /\ recorded[c] \in Block
              /\ start[c] = NoBlock /\ start'[c] \in Block /\ first'[c] = first[c]
            BY <1>4, <2>1, <2>2, Resumes, FirstOpening
        <3>2. ASSUME NEW b \in busy[c], first[c] <= b, b < start'[c] PROVE Kept(c, b)
            <4>1. b \in Block
                BY BusyBlocks
            <4>2. b <= recorded[c]
                BY <3>1, <3>2, <4>1, Blocks
            <4> QED
                BY <2>1, <3>1, <3>2, <4>2 DEF Archived
        <3> QED
            BY <2>1, <3>1, <3>2 DEF Kept
    <2>3. CASE d # c
        BY <1>1, <1>4, <2>1, <2>3, FirstOpening DEF Kept
    <2> QED
        BY <2>2, <2>3
<1>5. CASE WriteSellers
    <2>1. archived[c] \subseteq archived'[c]
        BY <1>5 DEF WriteSellers, TypeOK
    <2>2. UNCHANGED <<busy, start, first, recorded, jumped>>
        BY <1>5 DEF WriteSellers, chainVars, dbVars, auxVars
    <2> QED
        BY <1>1, <2>1, <2>2 DEF Kept
<1>6. CASE WriteMeta
    <2>1. UNCHANGED <<busy, start, first, archived, jumped>>
        BY <1>6 DEF WriteMeta, chainVars, dbVars
    <2>2. CASE recorded[c] # NoBlock
        BY <1>1, <2>1, <2>2 DEF Kept
    <2>3. CASE recorded[c] = NoBlock
        <3>1. start[c] = first[c] /\ start[c] \in Block
            BY <2>1, <2>3 DEF HeadsTrue, TypeOK
        <3>2. \A b \in busy[c] : ~(first[c] <= b /\ b < start[c])
            BY <3>1, BusyBlocks, Blocks
        <3> QED
            BY <2>1, <3>2
    <2> QED
        BY <2>2, <2>3
<1> QED
    BY <1>2, <1>3, <1>4, <1>5, <1>6, StepKinds

-----------------------------------------------------------------------------
\* In a deployment with one mishap, whatever it is and whenever it happens, the
\* tables, the files and the running night are as NightInv says.
THEOREM NightInvariant == OneMishap => (Spec => []NightInv)
<1> SUFFICES ASSUME OneMishap PROVE Spec => []NightInv
    OBVIOUS
<1>1. Init => NightInv
    <2> SUFFICES ASSUME Init PROVE NightInv
        OBVIOUS
    <2>1. \A c \in Chain : /\ start[c] = NoBlock /\ recorded[c] = NoBlock
                           /\ heads[c] = NoBlock /\ covered[c] = {}
        BY DEF Init, NoHeads
    <2>2. pc = "idle" /\ mishaps = {} /\ left = {} /\ cur = Primary
        BY DEF Init
    <2>3. GapChecked /\ Opened
        BY <2>2 DEF GapChecked, Opened, MaxRead
    <2>4. Contiguous /\ HeadsTrue /\ Archived /\ ResumesAtHead /\ NothingLost
        BY <2>1, <2>2 DEF Contiguous, HeadsTrue, Archived, ResumesAtHead, NothingLost
    <2> QED
        BY <2>3, <2>4, InitTyped DEF NightInv
<1>2. NightInv /\ [Next]_vars => NightInv'
    BY TypeKeeps, GapKeeps, OpenedKeeps, ContiguousKeeps, HeadsKeep, ArchivedKeeps,
       ResumesKeep, LostKeeps DEF NightInv
<1> QED
    BY <1>1, <1>2, PTL DEF Spec

\* However often the database is opened anew, with one mishap no chain starts above
\* the block behind its highest head (tests/test_recovery.py:3).
THEOREM StartsBehindHead == OneMishap => (Spec => []ResumesAtHead)
<1>1. NightInv => ResumesAtHead
    BY DEF NightInv
<1> QED
    BY <1>1, NightInvariant, PTL

\* With one mishap every settlement below a chain's start block is in the snapshots
\* (daily_snapshot.py:301), for any traffic, lookback and number of chains.
THEOREM NoSettlementLost == OneMishap => (Spec => []NothingLost)
<1>1. NightInv => NothingLost
    BY DEF NightInv
<1> QED
    BY <1>1, NightInvariant, PTL

-----------------------------------------------------------------------------
(***************************************************************************)
(* The publish step that ends the night, and the server of its blob.  The  *)
(* step shares no variable with the part of the run above; what it reads   *)
(* there, the settlements, is a figure that a query measures or not.       *)
(***************************************************************************)
\* Two sequences behind one another.
LEMMA Joined ==
    ASSUME NEW S, NEW s \in Seq(S), NEW t \in Seq(S)
    PROVE  /\ s \o t \in Seq(S) /\ Len(s \o t) = Len(s) + Len(t)
           /\ \A i \in 1..Len(s) : (s \o t)[i] = s[i]
           /\ \A i \in 1..Len(t) : (s \o t)[Len(s) + i] = t[i]
    OBVIOUS

\* One, two and four queries in a row.
LEMMA Short ==
    ASSUME NEW S, NEW w \in S, NEW x \in S, NEW y \in S, NEW z \in S
    PROVE  /\ <<w>> \in Seq(S) /\ Len(<<w>>) = 1 /\ <<w>>[1] = w
           /\ <<w, x>> \in Seq(S) /\ Len(<<w, x>>) = 2 /\ <<w, x>>[1] = w /\ <<w, x>>[2] = x
           /\ <<w, x, y, z>> \in Seq(S) /\ Len(<<w, x, y, z>>) = 4
           /\ <<w, x, y, z>>[1] = w /\ <<w, x, y, z>>[2] = x
           /\ <<w, x, y, z>>[3] = y /\ <<w, x, y, z>>[4] = z
    OBVIOUS

\* Each names its queries in the order of the sequence.
LEMMA EachIs ==
    ASSUME NEW op, NEW T, NEW s \in Seq(T), NEW S, \A x \in T : <<op, x>> \in S
    PROVE  /\ Each(op, s) \in Seq(S)
           /\ Len(Each(op, s)) = Len(s)
<1> DEFINE Q(x) == <<op, x>>
<1>1. DOMAIN s = 1..Len(s) /\ Len(s) \in Nat /\ \A i \in 1..Len(s) : s[i] \in T
    OBVIOUS
<1>2. Each(op, s) = [i \in 1..Len(s) |-> Q(s[i])]
    BY <1>1 DEF Each
<1>3. \A x \in T : Q(x) \in S
    OBVIOUS
<1> HIDE DEF Q
<1>4. [i \in 1..Len(s) |-> Q(s[i])] \in Seq(S)
    BY <1>1, <1>3
<1>5. Len([i \in 1..Len(s) |-> Q(s[i])]) = Len(s)
    BY <1>1, <1>3
<1> QED
    BY <1>2, <1>4, <1>5

\* The entries of one row of queries: each names its operation and what it is about.
LEMMA EachAt ==
    ASSUME NEW op, NEW T, NEW s \in Seq(T), NEW i \in 1..Len(s)
    PROVE  Each(op, s)[i] = <<op, s[i]>>
<1>1. DOMAIN s = 1..Len(s)
    OBVIOUS
<1> QED
    BY <1>1, Zenon DEF Each

\* How many chains, sections and tiers there are.
LEMMA Lengths ==
    /\ Len(ChainOrder) \in Nat /\ Len(Sections) \in Nat
    /\ Len(Ladder) \in Nat \ {0}
    /\ DOMAIN ChainOrder = 1..Len(ChainOrder)
    /\ DOMAIN Sections = 1..Len(Sections)
    /\ DOMAIN Ladder = 1..Len(Ladder)
<1>1. ChainOrder \in Seq(BlobChain) /\ Sections \in Seq(Section)
      /\ Ladder \in Seq(Scopable) /\ Ladder # <<>>
    BY BlobAssumption
<1> QED
    BY <1>1

\* Where Program has which query.
LEMMA ProgramIs ==
    /\ DOMAIN Program = 1..StoreAt
    /\ StoreAt = WitnessedAt + Len(Ladder) + 2
    /\ Program[1] = <<"limit", "">>
    /\ \A i \in 1..Len(ChainOrder) : Program[1 + i] = <<"scoped", ChainOrder[i]>>
    /\ Program[PriorAt] = <<"prior", "">>
    /\ \A i \in 1..Len(ChainOrder) :
          Program[PriorAt + i] = <<"merchant", ChainOrder[i]>>
    /\ Program[KindsAt] = <<"kinds", "">>
    /\ Program[KindsAt + 1] = <<"clean", "">>
    /\ Program[KindsAt + 2] = <<"since", "">>
    /\ Program[CountsAt] = <<"counts", "">>
    /\ \A i \in 1..Len(Sections) :
          Program[CountsAt + i] = <<"section", Sections[i]>>
    /\ Program[WitnessedAt] = <<"witnessed", "">>
    /\ Program[WitnessedAt + 1] = <<"priorTiers", "">>
    /\ \A i \in 1..Len(Ladder) :
          Program[WitnessedAt + 1 + i] = <<"tier", Ladder[i]>>
    /\ Program[StoreAt] = <<"store", "">>
<1> DEFINE U == BlobChain \cup Section \cup {""}
           Q == {"limit", "scoped", "prior", "merchant", "kinds", "clean", "since", "counts",
                 "section", "witnessed", "priorTiers", "tier", "store"} \X U
           n == Len(ChainOrder)
           m == Len(Sections)
           a == <<<<"limit", "">>>>
           b == Each("scoped", ChainOrder)
           c == <<<<"prior", "">>>>
           d == Each("merchant", ChainOrder)
           e == <<<<"kinds", "">>, <<"clean", "">>, <<"since", "">>, <<"counts", "">>>>
           f == Each("section", Sections)
           h == <<<<"witnessed", "">>, <<"priorTiers", "">>>>
           k == Each("tier", Ladder)
           l == <<<<"store", "">>>>
           P == Program
<1>1. /\ ChainOrder \in Seq(BlobChain) /\ Sections \in Seq(Section)
      /\ Ladder \in Seq(Scopable) /\ Scopable \subseteq BlobChain
    BY BlobAssumption
<1>2. P = (((((((a \o b) \o c) \o d) \o e) \o f) \o h) \o k) \o l
    BY DEF Program
<1>3. \A x \in U : /\ <<"limit", x>> \in Q /\ <<"scoped", x>> \in Q /\ <<"prior", x>> \in Q
                   /\ <<"merchant", x>> \in Q /\ <<"kinds", x>> \in Q /\ <<"clean", x>> \in Q
                   /\ <<"since", x>> \in Q /\ <<"counts", x>> \in Q
                   /\ <<"section", x>> \in Q /\ <<"witnessed", x>> \in Q
                   /\ <<"priorTiers", x>> \in Q /\ <<"tier", x>> \in Q /\ <<"store", x>> \in Q
    OBVIOUS
<1>4. "" \in U /\ BlobChain \subseteq U /\ Section \subseteq U /\ Scopable \subseteq U
    BY <1>1
<1> HIDE DEF Q, U
<1>5. /\ <<"limit", "">> \in Q /\ <<"prior", "">> \in Q /\ <<"kinds", "">> \in Q
      /\ <<"clean", "">> \in Q /\ <<"since", "">> \in Q /\ <<"counts", "">> \in Q
      /\ <<"witnessed", "">> \in Q /\ <<"priorTiers", "">> \in Q /\ <<"store", "">> \in Q
    BY <1>3, <1>4
<1>6. a \in Seq(Q) /\ Len(a) = 1 /\ a[1] = <<"limit", "">>
    BY <1>5, Short
<1>7. c \in Seq(Q) /\ Len(c) = 1 /\ c[1] = <<"prior", "">>
    BY <1>5, Short
<1>8. l \in Seq(Q) /\ Len(l) = 1 /\ l[1] = <<"store", "">>
    BY <1>5, Short
<1>9. /\ e \in Seq(Q) /\ Len(e) = 4 /\ e[1] = <<"kinds", "">> /\ e[2] = <<"clean", "">>
      /\ e[3] = <<"since", "">> /\ e[4] = <<"counts", "">>
    BY <1>5, Short
<1>10. h \in Seq(Q) /\ Len(h) = 2 /\ h[1] = <<"witnessed", "">> /\ h[2] = <<"priorTiers", "">>
    BY <1>5, Short
<1>11. \A x \in BlobChain : <<"scoped", x>> \in Q /\ <<"merchant", x>> \in Q
    BY <1>3, <1>4
<1>12. \A x \in Section : <<"section", x>> \in Q
    BY <1>3, <1>4
<1>13. \A x \in Scopable : <<"tier", x>> \in Q
    BY <1>3, <1>4
<1>14. b \in Seq(Q) /\ Len(b) = n /\ d \in Seq(Q) /\ Len(d) = n
    BY <1>1, <1>11, EachIs
<1>15. f \in Seq(Q) /\ Len(f) = m
    BY <1>1, <1>12, EachIs
<1>16. k \in Seq(Q) /\ Len(k) = Len(Ladder)
    BY <1>1, <1>13, EachIs
<1>17. /\ \A i \in 1..n : b[i] = <<"scoped", ChainOrder[i]>> /\ d[i] = <<"merchant", ChainOrder[i]>>
       /\ \A i \in 1..m : f[i] = <<"section", Sections[i]>>
       /\ \A i \in 1..Len(Ladder) : k[i] = <<"tier", Ladder[i]>>
    BY <1>1, EachAt, Zenon
<1>18. /\ a \in Seq(Q) /\ b \in Seq(Q) /\ c \in Seq(Q) /\ d \in Seq(Q) /\ e \in Seq(Q)
       /\ f \in Seq(Q) /\ h \in Seq(Q) /\ k \in Seq(Q) /\ l \in Seq(Q)
    BY <1>6, <1>7, <1>8, <1>9, <1>10, <1>14, <1>15, <1>16
<1>19. /\ Len(a) = 1 /\ Len(b) = n /\ Len(c) = 1 /\ Len(d) = n /\ Len(e) = 4
       /\ Len(f) = m /\ Len(h) = 2 /\ Len(k) = Len(Ladder) /\ Len(l) = 1
    BY <1>6, <1>7, <1>8, <1>9, <1>10, <1>14, <1>15, <1>16
<1> HIDE DEF a, b, c, d, e, f, h, k, l, P
<1> DEFINE B == a \o b
           C == B \o c
           D == C \o d
           E == D \o e
           F == E \o f
           H == F \o h
           K == H \o k
<1>20. /\ B \in Seq(Q) /\ Len(B) = Len(a) + Len(b)
       /\ \A i \in 1..Len(a) : B[i] = a[i]
       /\ \A i \in 1..Len(b) : B[Len(a) + i] = b[i]
    BY <1>18, Joined
<1> HIDE DEF B
<1>21. /\ C \in Seq(Q) /\ Len(C) = Len(B) + Len(c)
       /\ \A i \in 1..Len(B) : C[i] = B[i]
       /\ \A i \in 1..Len(c) : C[Len(B) + i] = c[i]
    <2>1. B \in Seq(Q) /\ c \in Seq(Q)
        BY <1>18, <1>20
    <2> QED
        BY <2>1, Joined
<1> HIDE DEF C
<1>22. /\ D \in Seq(Q) /\ Len(D) = Len(C) + Len(d)
       /\ \A i \in 1..Len(C) : D[i] = C[i]
       /\ \A i \in 1..Len(d) : D[Len(C) + i] = d[i]
    <2>1. C \in Seq(Q) /\ d \in Seq(Q)
        BY <1>18, <1>21
    <2> QED
        BY <2>1, Joined
<1> HIDE DEF D
<1>23. /\ E \in Seq(Q) /\ Len(E) = Len(D) + Len(e)
       /\ \A i \in 1..Len(D) : E[i] = D[i]
       /\ \A i \in 1..Len(e) : E[Len(D) + i] = e[i]
    <2>1. D \in Seq(Q) /\ e \in Seq(Q)
        BY <1>18, <1>22
    <2> QED
        BY <2>1, Joined
<1> HIDE DEF E
<1>24. /\ F \in Seq(Q) /\ Len(F) = Len(E) + Len(f)
       /\ \A i \in 1..Len(E) : F[i] = E[i]
       /\ \A i \in 1..Len(f) : F[Len(E) + i] = f[i]
    <2>1. E \in Seq(Q) /\ f \in Seq(Q)
        BY <1>18, <1>23
    <2> QED
        BY <2>1, Joined
<1> HIDE DEF F
<1>25. /\ H \in Seq(Q) /\ Len(H) = Len(F) + Len(h)
       /\ \A i \in 1..Len(F) : H[i] = F[i]
       /\ \A i \in 1..Len(h) : H[Len(F) + i] = h[i]
    <2>1. F \in Seq(Q) /\ h \in Seq(Q)
        BY <1>18, <1>24
    <2> QED
        BY <2>1, Joined
<1> HIDE DEF H
<1>26. /\ K \in Seq(Q) /\ Len(K) = Len(H) + Len(k)
       /\ \A i \in 1..Len(H) : K[i] = H[i]
       /\ \A i \in 1..Len(k) : K[Len(H) + i] = k[i]
    <2>1. H \in Seq(Q) /\ k \in Seq(Q)
        BY <1>18, <1>25
    <2> QED
        BY <2>1, Joined
<1> HIDE DEF K
<1>27. /\ P \in Seq(Q) /\ Len(P) = Len(K) + Len(l)
       /\ \A i \in 1..Len(K) : P[i] = K[i]
       /\ \A i \in 1..Len(l) : P[Len(K) + i] = l[i]
    <2>1. P = K \o l
        BY <1>2, Zenon DEF B, C, D, E, F, H, K
    <2>2. K \in Seq(Q) /\ l \in Seq(Q)
        BY <1>18, <1>26
    <2>3. /\ K \o l \in Seq(Q) /\ Len(K \o l) = Len(K) + Len(l)
          /\ \A i \in 1..Len(K) : (K \o l)[i] = K[i]
          /\ \A i \in 1..Len(l) : (K \o l)[Len(K) + i] = l[i]
        BY <2>2, Joined
    <2> QED
        BY <2>1, <2>3, Zenon
<1>28. n \in Nat /\ m \in Nat /\ Len(Ladder) \in Nat
    BY Lengths
<1> HIDE DEF n, m
<1>29. /\ Len(B) = 1 + n /\ Len(C) = 2 + n /\ Len(D) = 2 + 2 * n /\ Len(E) = 6 + 2 * n
       /\ Len(F) = 6 + 2 * n + m /\ Len(H) = 8 + 2 * n + m
       /\ Len(K) = 8 + 2 * n + m + Len(Ladder) /\ Len(P) = 9 + 2 * n + m + Len(Ladder)
    BY <1>19, <1>20, <1>21, <1>22, <1>23, <1>24, <1>25, <1>26, <1>27, <1>28
<1>30. /\ \A i \in 1..(1 + n) : P[i] = B[i]
       /\ \A i \in 1..(2 + n) : P[i] = C[i]
       /\ \A i \in 1..(2 + 2 * n) : P[i] = D[i]
       /\ \A i \in 1..(6 + 2 * n) : P[i] = E[i]
       /\ \A i \in 1..(6 + 2 * n + m) : P[i] = F[i]
       /\ \A i \in 1..(8 + 2 * n + m) : P[i] = H[i]
       /\ \A i \in 1..(8 + 2 * n + m + Len(Ladder)) : P[i] = K[i]
    <2>1. \A i \in 1..(8 + 2 * n + m + Len(Ladder)) : P[i] = K[i]
        BY <1>27, <1>29
    <2>2. \A i \in 1..(8 + 2 * n + m) : P[i] = H[i]
        BY <1>26, <1>28, <1>29, <2>1
    <2>3. \A i \in 1..(6 + 2 * n + m) : P[i] = F[i]
        BY <1>25, <1>28, <1>29, <2>2
    <2>4. \A i \in 1..(6 + 2 * n) : P[i] = E[i]
        BY <1>24, <1>28, <1>29, <2>3
    <2>5. \A i \in 1..(2 + 2 * n) : P[i] = D[i]
        BY <1>23, <1>28, <1>29, <2>4
    <2>6. \A i \in 1..(2 + n) : P[i] = C[i]
        BY <1>22, <1>28, <1>29, <2>5
    <2>7. \A i \in 1..(1 + n) : P[i] = B[i]
        <3> SUFFICES ASSUME NEW i \in 1..(1 + n) PROVE P[i] = B[i]
            OBVIOUS
        <3>1. C[i] = B[i]
            BY <1>21, <1>28, <1>29
        <3>2. i \in 1..(2 + n)
            BY <1>28
        <3> QED
            BY <2>6, <3>1, <3>2
    <2> QED
        BY <2>1, <2>2, <2>3, <2>4, <2>5, <2>6, <2>7
<1>31. /\ PriorAt = n + 2 /\ KindsAt = 2 * n + 3 /\ CountsAt = 2 * n + 6
       /\ WitnessedAt = 2 * n + m + 7 /\ StoreAt = 2 * n + m + Len(Ladder) + 9
    BY <1>28, <1>29 DEF PriorAt, KindsAt, CountsAt, WitnessedAt,
                        StoreAt, P, n, m
<1>32. P[1] = a[1]
    BY <1>19, <1>20, <1>28, <1>30
<1>33. \A i \in 1..n : P[1 + i] = b[i]
    BY <1>19, <1>20, <1>28, <1>30
<1>34. P[n + 2] = c[1]
    BY <1>19, <1>21, <1>28, <1>29, <1>30
<1>35. \A i \in 1..n : P[n + 2 + i] = d[i]
    BY <1>19, <1>22, <1>28, <1>29, <1>30
<1>36. P[2 * n + 3] = e[1] /\ P[2 * n + 4] = e[2] /\ P[2 * n + 5] = e[3] /\ P[2 * n + 6] = e[4]
    BY <1>19, <1>23, <1>28, <1>29, <1>30
<1>37. \A i \in 1..m : P[2 * n + 6 + i] = f[i]
    <2> SUFFICES ASSUME NEW i \in 1..m PROVE P[2 * n + 6 + i] = f[i]
        OBVIOUS
    <2>1. F[6 + 2 * n + i] = f[i]
        BY <1>19, <1>24, <1>29
    <2>2. 6 + 2 * n + i = 2 * n + 6 + i /\ 2 * n + 6 + i \in 1..(6 + 2 * n + m)
        BY <1>28
    <2> QED
        BY <1>30, <2>1, <2>2
<1>38. P[2 * n + m + 7] = h[1] /\ P[2 * n + m + 8] = h[2]
    BY <1>19, <1>25, <1>28, <1>29, <1>30
<1>39. \A i \in 1..Len(Ladder) : P[2 * n + m + 8 + i] = k[i]
    <2> SUFFICES ASSUME NEW i \in 1..Len(Ladder) PROVE P[2 * n + m + 8 + i] = k[i]
        OBVIOUS
    <2>1. K[8 + 2 * n + m + i] = k[i]
        BY <1>19, <1>26, <1>29
    <2>2. /\ 8 + 2 * n + m + i = 2 * n + m + 8 + i
          /\ 2 * n + m + 8 + i \in 1..(8 + 2 * n + m + Len(Ladder))
        BY <1>28
    <2> QED
        BY <1>30, <2>1, <2>2
<1>40. P[2 * n + m + Len(Ladder) + 9] = l[1]
    BY <1>19, <1>27, <1>28, <1>29
<1>41. DOMAIN P = 1..Len(P) /\ Len(P) = StoreAt
    BY <1>27 DEF StoreAt, P
<1>42. StoreAt = WitnessedAt + Len(Ladder) + 2
    BY <1>28, <1>31
<1>43. /\ P[1] = <<"limit", "">> /\ P[n + 2] = <<"prior", "">>
       /\ P[2 * n + 3] = <<"kinds", "">> /\ P[2 * n + 4] = <<"clean", "">>
       /\ P[2 * n + 5] = <<"since", "">> /\ P[2 * n + 6] = <<"counts", "">>
       /\ P[2 * n + m + 7] = <<"witnessed", "">> /\ P[2 * n + m + 8] = <<"priorTiers", "">>
       /\ P[2 * n + m + Len(Ladder) + 9] = <<"store", "">>
    BY <1>6, <1>7, <1>8, <1>9, <1>10, <1>32, <1>34, <1>36, <1>38, <1>40, Zenon
<1>44. /\ \A i \in 1..n : P[1 + i] = <<"scoped", ChainOrder[i]>>
       /\ \A i \in 1..n : P[n + 2 + i] = <<"merchant", ChainOrder[i]>>
       /\ \A i \in 1..m : P[2 * n + 6 + i] = <<"section", Sections[i]>>
       /\ \A i \in 1..Len(Ladder) : P[2 * n + m + 8 + i] = <<"tier", Ladder[i]>>
    BY <1>17, <1>33, <1>35, <1>37, <1>39, Zenon
<1>45. /\ KindsAt + 1 = 2 * n + 4 /\ KindsAt + 2 = 2 * n + 5
       /\ WitnessedAt + 1 = 2 * n + m + 8
    BY <1>28, <1>31
<1> QED
    BY <1>31, <1>41, <1>42, <1>43, <1>44, <1>45, Zenon DEF P, n, m

\* The query at a place of the program, and what it asks about.
About(p, x) == Program[p][2] = x
Names(p, op) ==
    Program[p][1] = op /\ Program[p] = <<op, Program[p][2]>>

\* An entry of the program names its operation and is about its subject, nothing else.
LEMMA NamesIt ==
    ASSUME NEW p, NEW op, NEW x, Program[p] = <<op, x>>
    PROVE  Names(p, op) /\ About(p, x)
<1>1. ASSUME NEW t, t = <<op, x>> PROVE t[1] = op /\ t[2] = x /\ t = <<op, t[2]>>
    BY <1>1
<1> QED
    BY <1>1, Zenon DEF Names, About

\* Every place of the program belongs to one query.
LEMMA Turns ==
    ASSUME NEW p \in 1..StoreAt
    PROVE  \/ p = 1 /\ Names(p, "limit")
           \/ p - 1 \in DOMAIN ChainOrder /\ Names(p, "scoped") /\ About(p, ChainOrder[p - 1])
           \/ p = PriorAt /\ Names(p, "prior")
           \/ /\ p - PriorAt \in DOMAIN ChainOrder
              /\ Names(p, "merchant") /\ About(p, ChainOrder[p - PriorAt])
           \/ p = KindsAt /\ Names(p, "kinds")
           \/ p = KindsAt + 1 /\ Names(p, "clean")
           \/ p = KindsAt + 2 /\ Names(p, "since")
           \/ p = CountsAt /\ Names(p, "counts")
           \/ /\ p - CountsAt \in DOMAIN Sections
              /\ Names(p, "section") /\ About(p, Sections[p - CountsAt])
           \/ p = WitnessedAt /\ Names(p, "witnessed")
           \/ p = WitnessedAt + 1 /\ Names(p, "priorTiers")
           \/ /\ p - (WitnessedAt + 1) \in DOMAIN Ladder
              /\ Names(p, "tier") /\ About(p, Ladder[p - (WitnessedAt + 1)])
           \/ p = StoreAt /\ Names(p, "store")
<1> DEFINE n == Len(ChainOrder)
           m == Len(Sections)
           k == Len(Ladder)
<1>1. /\ n \in Nat /\ m \in Nat /\ k \in Nat \ {0}
      /\ DOMAIN ChainOrder = 1..n /\ DOMAIN Sections = 1..m /\ DOMAIN Ladder = 1..k
    BY Lengths
<1>2. /\ PriorAt = n + 2 /\ KindsAt = 2 * n + 3 /\ CountsAt = 2 * n + 6
      /\ WitnessedAt = 2 * n + m + 7 /\ StoreAt = 2 * n + m + 9 + k
    <2>1. StoreAt = WitnessedAt + k + 2
        BY ProgramIs, Zenon
    <2> QED
        BY <1>1, <2>1 DEF PriorAt, KindsAt, CountsAt, WitnessedAt
<1> HIDE DEF n, m, k
<1>3. \/ p = 1 \/ p - 1 \in 1..n \/ p = PriorAt \/ p - PriorAt \in 1..n
      \/ p = KindsAt \/ p = KindsAt + 1 \/ p = KindsAt + 2
      \/ p = CountsAt \/ p - CountsAt \in 1..m
      \/ p = WitnessedAt \/ p = WitnessedAt + 1
      \/ p - (WitnessedAt + 1) \in 1..k \/ p = StoreAt
    BY <1>1, <1>2
<1>4. CASE p - 1 \in 1..n
    <2>1. p = 1 + (p - 1)
        OBVIOUS
    <2>2. Program[1 + (p - 1)] = <<"scoped", ChainOrder[p - 1]>>
        BY <1>4, ProgramIs, Zenon DEF n
    <2> QED
        BY <1>1, <1>4, <2>1, <2>2, NamesIt, Zenon
<1>5. CASE p - PriorAt \in 1..n
    <2>1. p = PriorAt + (p - PriorAt)
        BY <1>1, <1>2
    <2>2. Program[PriorAt + (p - PriorAt)]
             = <<"merchant", ChainOrder[p - PriorAt]>>
        BY <1>5, ProgramIs, Zenon DEF n
    <2> QED
        BY <1>1, <1>5, <2>1, <2>2, NamesIt, Zenon
<1>6. CASE p - CountsAt \in 1..m
    <2>1. p = CountsAt + (p - CountsAt)
        BY <1>1, <1>2
    <2>2. Program[CountsAt + (p - CountsAt)]
             = <<"section", Sections[p - CountsAt]>>
        BY <1>6, ProgramIs, Zenon DEF m
    <2> QED
        BY <1>1, <1>6, <2>1, <2>2, NamesIt, Zenon
<1>7. CASE p - (WitnessedAt + 1) \in 1..k
    <2>1. p = WitnessedAt + 1 + (p - (WitnessedAt + 1))
        BY <1>1, <1>2
    <2>2. Program[WitnessedAt + 1 + (p - (WitnessedAt + 1))]
             = <<"tier", Ladder[p - (WitnessedAt + 1)]>>
        BY <1>7, ProgramIs, Zenon DEF k
    <2> QED
        BY <1>1, <1>7, <2>1, <2>2, NamesIt, Zenon
<1>8. /\ p = 1 => Names(p, "limit")
      /\ p = PriorAt => Names(p, "prior")
      /\ p = KindsAt => Names(p, "kinds")
      /\ p = KindsAt + 1 => Names(p, "clean")
      /\ p = KindsAt + 2 => Names(p, "since")
      /\ p = CountsAt => Names(p, "counts")
      /\ p = WitnessedAt => Names(p, "witnessed")
      /\ p = WitnessedAt + 1 => Names(p, "priorTiers")
      /\ p = StoreAt => Names(p, "store")
    <2> SUFFICES ASSUME NEW q, NEW op, Program[q] = <<op, "">>, p = q
                 PROVE  Names(p, op)
        BY ProgramIs, Zenon
    <2> QED
        BY NamesIt, Zenon
<1> QED
    BY <1>3, <1>4, <1>5, <1>6, <1>7, <1>8, Zenon

\* How the places follow one another.
LEMMA Places ==
    /\ PriorAt \in Nat /\ KindsAt \in Nat /\ CountsAt \in Nat
    /\ WitnessedAt \in Nat /\ StoreAt \in Nat
    /\ 2 <= PriorAt /\ PriorAt < KindsAt
    /\ CountsAt = KindsAt + 3 /\ CountsAt < WitnessedAt
    /\ WitnessedAt + 3 <= StoreAt
    /\ \A i \in DOMAIN ChainOrder : /\ i \in Nat /\ 1 <= i
                                    /\ 1 + i < PriorAt
                                    /\ PriorAt + i < KindsAt
    /\ \A i \in DOMAIN Sections : /\ i \in Nat /\ 1 <= i
                                  /\ CountsAt + i < WitnessedAt
    /\ \A i \in DOMAIN Ladder : /\ i \in Nat /\ 1 <= i
                                /\ WitnessedAt + 1 + i < StoreAt
    /\ 1 \in DOMAIN Ladder
<1>1. /\ Len(ChainOrder) \in Nat /\ Len(Sections) \in Nat /\ Len(Ladder) \in Nat \ {0}
      /\ DOMAIN ChainOrder = 1..Len(ChainOrder) /\ DOMAIN Sections = 1..Len(Sections)
      /\ DOMAIN Ladder = 1..Len(Ladder)
    BY Lengths
<1>2. StoreAt = WitnessedAt + Len(Ladder) + 2
    BY ProgramIs
<1> QED
    BY <1>1, <1>2 DEF PriorAt, KindsAt, CountsAt, WitnessedAt

\* Which query is in work tells where the step is.
LEMMA WhereAt ==
    ASSUME query \in 1..StoreAt
    PROVE  /\ \A op : At(op) => Program[query] = <<op, Subject>>
           /\ At("limit") => query = 1
           /\ At("scoped") => /\ query - 1 \in DOMAIN ChainOrder
                              /\ Subject = ChainOrder[query - 1]
           /\ At("prior") => query = PriorAt
           /\ At("merchant") => /\ query - PriorAt \in DOMAIN ChainOrder
                                /\ Subject = ChainOrder[query - PriorAt]
           /\ At("kinds") => query = KindsAt
           /\ At("clean") => query = KindsAt + 1
           /\ At("since") => query = KindsAt + 2
           /\ At("counts") => query = CountsAt
           /\ At("section") => /\ query - CountsAt \in DOMAIN Sections
                               /\ Subject = Sections[query - CountsAt]
           /\ At("witnessed") => query = WitnessedAt
           /\ At("priorTiers") => query = WitnessedAt + 1
           /\ At("tier") => /\ query - (WitnessedAt + 1) \in DOMAIN Ladder
                            /\ Subject = Ladder[query - (WitnessedAt + 1)]
           /\ At("store") => query = StoreAt
<1>1. \A op, o : Names(query, op) /\ At(o) => o = op
    BY Zenon DEF Names, At
<1>2. \A op : Names(query, op) => Program[query] = <<op, Subject>>
    BY Zenon DEF Names, Subject
<1>3. \A x : About(query, x) => Subject = x
    BY Zenon DEF About, Subject
<1>4. \E op : Names(query, op)
    BY Turns, Zenon
<1>5. \A o : At(o) => Program[query] = <<o, Subject>>
    BY <1>1, <1>2, <1>4, Zenon
<1> QED
    BY <1>1, <1>3, <1>5, Turns

\* A query has a part of the blob to fill in.
LEMMA SubjectTyped ==
    ASSUME query \in 1..StoreAt
    PROVE  /\ At("scoped") => Subject \in BlobChain
           /\ At("merchant") => Subject \in BlobChain
           /\ At("section") => Subject \in Section
           /\ At("tier") => /\ Subject \in ToSet(Ladder)
                            /\ Subject \in BlobChain
<1>1. /\ \A i \in DOMAIN ChainOrder : ChainOrder[i] \in BlobChain
      /\ \A i \in DOMAIN Sections : Sections[i] \in Section
      /\ \A i \in DOMAIN Ladder : Ladder[i] \in ToSet(Ladder)
    BY DEF BlobChain, Section, ToSet
<1>2. \A i \in DOMAIN Ladder : Ladder[i] \in BlobChain
    <2>1. Ladder \in Seq(Scopable) /\ Scopable \subseteq BlobChain
        BY BlobAssumption
    <2>2. \A i \in DOMAIN Ladder : Ladder[i] \in Scopable
        BY <2>1
    <2> QED
        BY <2>1, <2>2
<1> QED
    BY <1>1, <1>2, WhereAt, Zenon

\* A query that fails by itself is recorded, and nothing else is.
LEMMA RunsIs ==
    ASSUME NEW ok \in BOOLEAN, Runs(ok)
    PROVE  /\ failed \subseteq failed' /\ failed' \subseteq failed \cup {Program[query]}
           /\ ok => failed' = failed /\ faults' = faults /\ txn = "clean"
           /\ ~ok /\ txn = "clean" => Program[query] \in failed'
           /\ faults' = faults \/ (faults < MaxFault /\ faults' = faults + 1)
<1>1. CASE txn = "clean" /\ ok
    BY <1>1 DEF Runs
<1>2. CASE ~ok /\ failed' = failed /\ faults' = faults /\ txn = "aborted"
    BY <1>2
<1>3. CASE ~ok /\ faults < MaxFault /\ faults' = faults + 1
           /\ failed' = failed \cup {Program[query]}
    BY <1>3
<1> QED
    BY <1>1, <1>2, <1>3 DEF Runs

\* The kinds of the night, of an untouched draft and of a missing row.
LEMMA NightTyped ==
    ASSUME BlobTypeOK
    PROVE  /\ MaxNight \in Nat /\ MaxFault \in Nat
           /\ night \in 0..MaxNight /\ night \in Nat /\ night # 0
           /\ EmptyDraft \in Drafts
           /\ NoRow \in Row
<1>1. MaxNight \in Nat /\ MaxFault \in Nat
    BY BlobAssumption
<1>2. night \in 1..MaxNight
    BY DEF BlobTypeOK, Night
<1>3. NoRow \in Row
    BY <1>1 DEF NoRow, Row
<1>4. EmptyDraft \in Drafts
    BY <1>1, <1>3 DEF EmptyDraft, Drafts, NoRows, NoTiers
<1> QED
    BY <1>1, <1>2, <1>3, <1>4

\* A figure goes into the row of one chain.
LEMMA RowEdits ==
    ASSUME NEW d \in Drafts, NEW c \in BlobChain, NEW v \in 0..MaxNight
    PROVE  /\ [d EXCEPT !.rows[c].scoped = v] \in Drafts
           /\ [d EXCEPT !.rows[c].merchant = v] \in Drafts
<1>1. d.rows \in [BlobChain -> Row] /\ d.rows[c] \in Row
    BY DEF Drafts
<1>2. [d.rows[c] EXCEPT !.scoped = v] \in Row /\ [d.rows[c] EXCEPT !.merchant = v] \in Row
    BY <1>1 DEF Row
<1>3. /\ [d.rows EXCEPT ![c].scoped = v] \in [BlobChain -> Row]
      /\ [d.rows EXCEPT ![c].merchant = v] \in [BlobChain -> Row]
    BY <1>1, <1>2
<1>4. ASSUME NEW r \in [BlobChain -> Row] PROVE [d EXCEPT !.rows = r] \in Drafts
    BY <1>4 DEF Drafts
<1> QED
    BY <1>3, <1>4

\* A query that runs to the next place, with a draft of the right kind.
LEMMA OnTyped ==
    ASSUME BlobTypeOK, query \in 1..(StoreAt - 1),
           NEW ok \in BOOLEAN, Runs(ok), NEW d \in Drafts, On(d),
           txn' \in {"clean", "aborted"}
    PROVE  BlobTypeOK'
<1>1. StoreAt \in Nat /\ DOMAIN Program = 1..StoreAt
    BY Places, ProgramIs, Zenon
<1>2. query + 1 \in 0..StoreAt /\ query \in 1..StoreAt
    BY <1>1
<1>3. Program[query] \in Step
    BY <1>1, <1>2, Zenon DEF Step, ToSet
<1>4. failed' \subseteq Step
    BY <1>3, RunsIs DEF BlobTypeOK
<1>5. faults' \in 0..MaxFault
    BY RunsIs, NightTyped DEF BlobTypeOK
<1> QED
    BY <1>2, <1>4, <1>5 DEF On, BlobTypeOK

\* A step that ends early leaves nothing behind.
LEMMA AbandonTyped ==
    ASSUME BlobTypeOK, query \in 1..StoreAt,
           NEW ok \in BOOLEAN, Guarded(ok), Abandon
    PROVE  BlobTypeOK'
<1>1. StoreAt \in Nat /\ DOMAIN Program = 1..StoreAt
    BY Places, ProgramIs, Zenon
<1>2. Program[query] \in Step
    BY <1>1, Zenon DEF Step, ToSet
<1>3. Runs(ok) /\ txn' = "clean"
    BY DEF Guarded
<1>4. failed' \subseteq Step
    BY <1>2, <1>3, RunsIs DEF BlobTypeOK
<1>5. faults' \in 0..MaxFault
    BY <1>3, RunsIs, NightTyped DEF BlobTypeOK
<1>6. 0 \in 0..StoreAt /\ EmptyDraft \in Drafts
    BY <1>1, NightTyped
<1> QED
    BY <1>3, <1>4, <1>5, <1>6 DEF Abandon, BlobTypeOK

\* The steps that go on to the next query, each with what it does to the draft.
LEMMA BlobTypeKeeps ==
    ASSUME BlobTypeOK, Publishing \/ UNCHANGED blobVars
    PROVE  BlobTypeOK'
<1> USE NightTyped
<1>0. /\ query \in 0..StoreAt /\ StoreAt \in Nat /\ StoreAt >= 1
      /\ draft \in Drafts /\ txn \in {"clean", "aborted"}
      /\ blob = NoBlob \/ blob \in Blobs
    <2>1. StoreAt \in Nat /\ WitnessedAt \in Nat /\ WitnessedAt + 3 <= StoreAt
        BY Places
    <2> QED
        BY <2>1 DEF BlobTypeOK
<1>1. ASSUME NEW op, At(op), op # "store" PROVE query \in 1..(StoreAt - 1)
    <2>1. query \in 1..StoreAt
        BY <1>0, <1>1 DEF At
    <2>2. query # StoreAt
        <3>1. Names(StoreAt, "store")
            BY ProgramIs, NamesIt, Zenon
        <3> QED
            BY <1>1, <3>1, Zenon DEF Names, At
    <2> QED
        BY <1>0, <2>1, <2>2
<1>2. CASE NextNight
    BY <1>2 DEF NextNight, BlobTypeOK, Night
<1>3. CASE StartPublish
    BY <1>0, <1>3 DEF StartPublish, BlobTypeOK
<1>4. CASE Killed
    BY <1>0, <1>4 DEF Killed, BlobTypeOK
<1>5. CASE UNCHANGED blobVars
    BY <1>5 DEF blobVars, BlobTypeOK
<1>6. CASE Limit \/ PayerKinds \/ Clean \/ Counts
    <2>1. PICK op \in {"limit", "kinds", "clean", "counts"}, ok \in BOOLEAN :
              At(op) /\ Guarded(ok) /\ On(draft)
        BY <1>6 DEF Limit, PayerKinds, Clean, Counts
    <2> QED
        BY <1>0, <1>1, <2>1, OnTyped DEF Guarded
<1>7. CASE Since
    <2>1. PICK ok \in BOOLEAN : At("since") /\ Guarded(ok)
                                /\ IF ok THEN On(draft) ELSE Abandon
        BY <1>7 DEF Since
    <2>2. query \in 1..(StoreAt - 1) /\ query \in 1..StoreAt
        BY <1>0, <1>1, <2>1
    <2> QED
        BY <1>0, <2>1, <2>2, OnTyped, AbandonTyped DEF Guarded
<1>8. CASE Scoped
    <2>1. PICK ok \in BOOLEAN :
              /\ At("scoped") /\ Guarded(ok)
              /\ On([draft EXCEPT !.rows[Subject].scoped = IF ok THEN night ELSE 0])
        BY <1>8 DEF Scoped
    <2>2. query \in 1..(StoreAt - 1) /\ Subject \in BlobChain
        BY <1>0, <1>1, <2>1, SubjectTyped
    <2>3. (IF ok THEN night ELSE 0) \in 0..MaxNight
        OBVIOUS
    <2>4. [draft EXCEPT !.rows[Subject].scoped = IF ok THEN night ELSE 0] \in Drafts
        BY <1>0, <2>2, <2>3, RowEdits, Zenon
    <2> QED
        BY <1>0, <2>1, <2>2, <2>4, OnTyped DEF Guarded
<1>9. CASE Prior
    <2> DEFINE Old(ok) == IF ok /\ blob # NoBlob THEN blob.rows ELSE NoRows
               New(ok) == [draft EXCEPT !.priorRows = Old(ok),
                                        !.rows = CarriedRows(@, Old(ok)),
                                        !.stale = CarriedNotes(draft.rows, Old(ok))]
    <2>1. PICK ok \in BOOLEAN : At("prior") /\ Swallowed(ok) /\ On(New(ok))
        BY <1>9 DEF Prior
    <2>2. query \in 1..(StoreAt - 1)
        BY <1>1, <2>1
    <2>3. NoRows \in [BlobChain -> Row]
        BY DEF NoRows
    <2>4. blob # NoBlob => blob.rows \in [BlobChain -> Row]
        BY <1>0 DEF Blobs
    <2>5. Old(ok) \in [BlobChain -> Row] /\ draft.rows \in [BlobChain -> Row]
        BY <1>0, <2>3, <2>4 DEF Drafts
    <2> HIDE DEF Old
    <2>6. CarriedRows(draft.rows, Old(ok)) \in [BlobChain -> Row]
        BY <2>5 DEF CarriedRows
    <2>7. CarriedNotes(draft.rows, Old(ok)) \subseteq Note
        <3>1. ASSUME NEW c \in BlobChain, NEW b \in BOOLEAN
              PROVE  <<"scoped", c, b>> \in Note
            BY DEF Note
        <3>2. \A n \in CarriedNotes(draft.rows, Old(ok)) :
                 \E c \in BlobChain : n = <<"scoped", c, Old(ok)[c].scoped # 0>>
            BY Zenon DEF CarriedNotes
        <3> QED
            BY <3>1, <3>2, Zenon
    <2>8. New(ok) \in Drafts
        BY <1>0, <2>5, <2>6, <2>7 DEF Drafts
    <2> QED
        BY <1>0, <2>1, <2>2, <2>8, OnTyped DEF Swallowed
<1>10. CASE Merchant
    <2> DEFINE old == draft.priorRows[Subject].merchant
               Fresh == [draft EXCEPT !.rows[Subject].merchant = night]
               Carried == [draft EXCEPT
                              !.rows[Subject].merchant = IF old # 0 THEN old ELSE @,
                              !.stale = @ \cup {<<"merchant", Subject, old # 0>>}]
    <2>1. query \in 1..(StoreAt - 1) /\ Subject \in BlobChain
        BY <1>0, <1>1, <1>10, SubjectTyped DEF Merchant
    <2>2. CASE On(draft) /\ UNCHANGED <<txn, failed, faults>>
        BY <1>0, <2>1, <2>2 DEF On, BlobTypeOK
    <2>3. ASSUME NEW ok \in BOOLEAN, Guarded(ok), On(IF ok THEN Fresh ELSE Carried)
          PROVE  BlobTypeOK'
        <3>1. Fresh \in Drafts
            BY <1>0, <2>1, RowEdits
        <3>2. Carried \in Drafts
            <4>1. old \in 0..MaxNight /\ draft.rows[Subject].merchant \in 0..MaxNight
                BY <1>0, <2>1 DEF Drafts, Row
            <4>2. <<"merchant", Subject, old # 0>> \in Note
                BY <2>1 DEF Note
            <4> DEFINE v == IF old # 0 THEN old ELSE draft.rows[Subject].merchant
                       d == [draft EXCEPT !.rows[Subject].merchant = v]
            <4>3. d \in Drafts
                BY <1>0, <2>1, <4>1, RowEdits
            <4>4. Carried = [d EXCEPT !.stale = @ \cup {<<"merchant", Subject, old # 0>>}]
                BY <1>0 DEF Drafts
            <4> HIDE DEF d, Carried, old
            <4> QED
                BY <4>2, <4>3, <4>4 DEF Drafts
        <3> QED
            BY <1>0, <2>1, <2>3, <3>1, <3>2, OnTyped DEF Guarded
    <2> QED
        BY <1>10, <2>2, <2>3 DEF Merchant
<1>11. CASE InstrSection
    <2>1. PICK ok \in BOOLEAN :
              /\ At("section") /\ Swallowed(ok)
              /\ On([draft EXCEPT !.instr[Subject] = IF ok THEN night ELSE 0])
        BY <1>11 DEF InstrSection
    <2>2. query \in 1..(StoreAt - 1) /\ Subject \in Section
        BY <1>0, <1>1, <2>1, SubjectTyped
    <2>3. ASSUME NEW v \in 0..MaxNight
          PROVE  [draft EXCEPT !.instr[Subject] = v] \in Drafts
        BY <1>0, <2>2 DEF Drafts
    <2>4. (IF ok THEN night ELSE 0) \in 0..MaxNight
        OBVIOUS
    <2> QED
        BY <1>0, <2>1, <2>2, <2>3, <2>4, OnTyped DEF Swallowed
<1>12. CASE Witnessed
    <2>1. PICK ok \in BOOLEAN :
              /\ At("witnessed") /\ Guarded(ok)
              /\ IF ok THEN On(draft)
                 ELSE /\ query' = StoreAt
                      /\ draft' = [draft EXCEPT !.index = FALSE]
                      /\ UNCHANGED <<night, blob, ended>>
        BY <1>12 DEF Witnessed
    <2>2. query \in 1..(StoreAt - 1)
        BY <1>1, <2>1
    <2>3. CASE ok
        BY <1>0, <2>1, <2>2, <2>3, OnTyped DEF Guarded
    <2>4. CASE ~ok
        <3>1. [draft EXCEPT !.index = FALSE] \in Drafts
            BY <1>0 DEF Drafts
        <3>2. query \in 1..StoreAt
            BY <1>0, <2>2
        <3>3. Program[query] \in Step
            BY <3>2, ProgramIs, Zenon DEF Step, ToSet
        <3>4. failed' \subseteq Step /\ faults' \in 0..MaxFault
            BY <2>1, <3>3, RunsIs DEF Guarded, BlobTypeOK
        <3>5. /\ query' \in 0..StoreAt /\ draft' = [draft EXCEPT !.index = FALSE]
              /\ txn' = "clean" /\ night' = night /\ blob' = blob /\ ended' = ended
            BY <1>0, <2>1, <2>4 DEF Guarded
        <3> QED
            BY <3>1, <3>4, <3>5 DEF BlobTypeOK
    <2> QED
        BY <2>3, <2>4
<1>13. CASE PriorTiers
    <2> DEFINE Old(ok) == IF ok /\ blob # NoBlob /\ blob.index THEN blob.tiers ELSE NoTiers
    <2>1. PICK ok \in BOOLEAN :
              /\ At("priorTiers") /\ Swallowed(ok)
              /\ On([draft EXCEPT !.priorTiers = Old(ok)])
        BY <1>13 DEF PriorTiers
    <2>2. query \in 1..(StoreAt - 1)
        BY <1>1, <2>1
    <2>3. Old(ok) \in [ToSet(Ladder) -> 0..MaxNight]
        BY <1>0 DEF NoTiers, Blobs
    <2> HIDE DEF Old
    <2>4. [draft EXCEPT !.priorTiers = Old(ok)] \in Drafts
        BY <1>0, <2>3 DEF Drafts
    <2> QED
        BY <1>0, <2>1, <2>2, <2>4, OnTyped DEF Swallowed
<1>14. CASE Tier
    <2> DEFINE old == draft.priorTiers[Subject]
               Fresh == [draft EXCEPT !.tiers[Subject] = night]
               Carried == [draft EXCEPT !.tiers[Subject] = old,
                                        !.stale = @ \cup {<<"tier", Subject, old # 0>>}]
    <2>1. PICK ok \in BOOLEAN :
              At("tier") /\ Guarded(ok) /\ On(IF ok THEN Fresh ELSE Carried)
        BY <1>14 DEF Tier
    <2>2. /\ query \in 1..(StoreAt - 1)
          /\ Subject \in ToSet(Ladder) /\ Subject \in BlobChain
        BY <1>0, <1>1, <2>1, SubjectTyped
    <2>3. old \in 0..MaxNight /\ <<"tier", Subject, old # 0>> \in Note
        BY <1>0, <2>2 DEF Drafts, Note
    <2> HIDE DEF old
    <2>4. Fresh \in Drafts /\ Carried \in Drafts
        BY <1>0, <2>2, <2>3 DEF Drafts
    <2> QED
        BY <1>0, <2>1, <2>2, <2>4, OnTyped DEF Guarded
<1>15. CASE Store
    <2>1. PICK ok \in BOOLEAN :
              /\ At("store") /\ Guarded(ok)
              /\ IF ok
                 THEN /\ blob' = [night |-> night, rows |-> draft.rows, tiers |-> draft.tiers,
                                  instr |-> draft.instr, index |-> draft.index,
                                  stale |-> draft.stale]
                      /\ query' = 0
                      /\ ended' = "published"
                      /\ draft' = EmptyDraft
                      /\ UNCHANGED night
                 ELSE Abandon
        BY <1>15 DEF Store
    <2>2. query \in 1..StoreAt
        BY <1>0, <2>1 DEF At
    <2>3. CASE ok
        <3>1. night \in Night
            BY DEF BlobTypeOK
        <3>2. [night |-> night, rows |-> draft.rows, tiers |-> draft.tiers,
               instr |-> draft.instr, index |-> draft.index, stale |-> draft.stale]
                 \in Blobs
            BY <1>0, <3>1 DEF Drafts, Blobs
        <3>3. failed' = failed /\ faults' = faults /\ txn' = "clean"
            BY <2>1, <2>3, RunsIs DEF Guarded
        <3> QED
            BY <1>0, <2>1, <2>3, <3>1, <3>2, <3>3 DEF BlobTypeOK
    <2> QED
        BY <2>1, <2>2, <2>3, AbandonTyped
<1> QED
    BY <1>2, <1>3, <1>4, <1>5, <1>6, <1>7, <1>8, <1>9, <1>10, <1>11, <1>12, <1>13, <1>14, <1>15
       DEF Publishing, Querying

\* What the steps of a publish step have in common: what may be added to the record of
\* failures, how a step goes on, skips the seller index, or comes to its end.
Recorded == failed \subseteq failed' /\ failed' \subseteq failed \cup {Program[query]}

Goes ==
    /\ query \in 1..(StoreAt - 1) /\ query' = query + 1
    /\ night' = night /\ blob' = blob /\ ended' = ended
    /\ Recorded

Plain ==
    /\ \E op \in {"limit", "kinds", "clean", "since", "counts", "witnessed"} : At(op)
    /\ draft' = draft /\ txn' = "clean"

Skips ==
    /\ At("witnessed") /\ query = WitnessedAt /\ query' = StoreAt
    /\ draft' = [draft EXCEPT !.index = FALSE] /\ txn' = "clean"
    /\ night' = night /\ blob' = blob /\ ended' = ended
    /\ Recorded
    /\ txn = "clean" => Program[query] \in failed'

Ends ==
    /\ query \in 1..StoreAt /\ query' = 0
    /\ draft' = EmptyDraft /\ txn' = "clean"
    /\ ended' = "unpublished" =>
          /\ query = KindsAt + 2 \/ query = StoreAt
          /\ txn = "clean" => Program[query] \in failed'

\* A query other than the last goes on to the next place.
LEMMA GoesOn ==
    ASSUME BlobTypeOK, NEW op, At(op), op # "store"
    PROVE  query \in 1..(StoreAt - 1) /\ query \in 1..StoreAt
<1>0. query \in 0..StoreAt /\ StoreAt \in Nat
    BY Places DEF BlobTypeOK
<1>1. query \in 1..StoreAt
    BY <1>0 DEF At
<1>2. query # StoreAt
    <2>1. Names(StoreAt, "store")
        BY ProgramIs, NamesIt, Zenon
    <2> QED
        BY <2>1, Zenon DEF Names, At
<1> QED
    BY <1>0, <1>1, <1>2

\* Every step of a publish step is one of these.
LEMMA StepIs ==
    ASSUME BlobTypeOK, Publishing
    PROVE  \/ NextNight \/ StartPublish \/ Ends \/ Skips
           \/ Goes /\ Plain
           \/ Goes /\ Scoped
           \/ Goes /\ Prior
           \/ Goes /\ Merchant
           \/ Goes /\ InstrSection
           \/ Goes /\ PriorTiers
           \/ Goes /\ Tier
<1>0. query \in 0..StoreAt /\ StoreAt \in Nat
    BY Places DEF BlobTypeOK
<1>1. ASSUME NEW op, At(op), op # "store",
             NEW ok \in BOOLEAN, Runs(ok), NEW d, On(d)
      PROVE  Goes /\ draft' = d
    BY <1>1, GoesOn, RunsIs DEF Goes, Recorded, On
<1>2. CASE Limit \/ PayerKinds \/ Clean \/ Counts
    <2>1. PICK op \in {"limit", "kinds", "clean", "counts"}, ok \in BOOLEAN :
              At(op) /\ Guarded(ok) /\ On(draft)
        BY <1>2 DEF Limit, PayerKinds, Clean, Counts
    <2> QED
        BY <1>1, <2>1 DEF Guarded, Plain
<1>3. CASE Since
    <2>1. PICK ok \in BOOLEAN : At("since") /\ Guarded(ok)
                                /\ IF ok THEN On(draft) ELSE Abandon
        BY <1>3 DEF Since
    <2>2. CASE ok
        BY <1>1, <2>1, <2>2 DEF Guarded, Plain
    <2>3. CASE ~ok
        <3>1. query \in 1..StoreAt /\ query = KindsAt + 2
            BY <2>1, GoesOn, WhereAt
        <3>2. txn = "clean" => Program[query] \in failed'
            BY <2>1, <2>3, RunsIs DEF Guarded
        <3> QED
            BY <2>1, <2>3, <3>1, <3>2 DEF Guarded, Abandon, Ends
    <2> QED
        BY <2>2, <2>3
<1>4. CASE Scoped
    <2>1. PICK ok \in BOOLEAN : At("scoped") /\ Runs(ok) /\ \E d : On(d)
        BY <1>4, Zenon DEF Scoped, Guarded
    <2> QED
        BY <1>1, <1>4, <2>1
<1>5. CASE Prior
    <2>1. PICK ok \in BOOLEAN : At("prior") /\ Runs(ok) /\ \E d : On(d)
        BY <1>5, Zenon DEF Prior, Swallowed
    <2> QED
        BY <1>1, <1>5, <2>1
<1>6. CASE Merchant
    <2>1. CASE On(draft) /\ UNCHANGED <<txn, failed, faults>>
        BY <1>6, <2>1, GoesOn DEF Goes, Recorded, On, Merchant
    <2>2. CASE \E ok \in BOOLEAN : Runs(ok) /\ \E d : On(d)
        <3>1. PICK ok \in BOOLEAN : Runs(ok) /\ \E d : On(d)
            BY <2>2
        <3> QED
            BY <1>1, <1>6, <3>1 DEF Merchant
    <2> QED
        BY <1>6, <2>1, <2>2, Zenon DEF Merchant, Guarded
<1>7. CASE InstrSection
    <2>1. PICK ok \in BOOLEAN : At("section") /\ Runs(ok) /\ \E d : On(d)
        BY <1>7, Zenon DEF InstrSection, Swallowed
    <2> QED
        BY <1>1, <1>7, <2>1
<1>8. CASE Witnessed
    <2>1. PICK ok \in BOOLEAN :
              /\ At("witnessed") /\ Guarded(ok)
              /\ IF ok THEN On(draft)
                 ELSE /\ query' = StoreAt
                      /\ draft' = [draft EXCEPT !.index = FALSE]
                      /\ UNCHANGED <<night, blob, ended>>
        BY <1>8 DEF Witnessed
    <2>2. CASE ok
        BY <1>1, <2>1, <2>2 DEF Guarded, Plain
    <2>3. CASE ~ok
        <3>1. query \in 1..StoreAt /\ query = WitnessedAt
            BY <2>1, GoesOn, WhereAt
        <3>2. (txn = "clean" => Program[query] \in failed') /\ Recorded /\ txn' = "clean"
            BY <2>1, <2>3, RunsIs DEF Guarded, Recorded
        <3> QED
            BY <2>1, <2>3, <3>1, <3>2 DEF Skips
    <2> QED
        BY <2>2, <2>3
<1>9. CASE PriorTiers
    <2>1. PICK ok \in BOOLEAN : At("priorTiers") /\ Runs(ok) /\ \E d : On(d)
        BY <1>9, Zenon DEF PriorTiers, Swallowed
    <2> QED
        BY <1>1, <1>9, <2>1
<1>10. CASE Tier
    <2>1. PICK ok \in BOOLEAN : At("tier") /\ Runs(ok) /\ \E d : On(d)
        BY <1>10, Zenon DEF Tier, Guarded
    <2> QED
        BY <1>1, <1>10, <2>1
<1>11. CASE Store
    <2>1. PICK ok \in BOOLEAN :
              /\ At("store") /\ Guarded(ok)
              /\ query' = 0 /\ draft' = EmptyDraft
              /\ IF ok THEN ended' = "published" ELSE ended' = "unpublished"
        BY <1>11 DEF Store, Abandon
    <2>2. query \in 1..StoreAt
        BY <1>0, <2>1 DEF At
    <2>3. query = StoreAt
        BY <2>1, <2>2, WhereAt
    <2>4. ~ok /\ txn = "clean" => Program[query] \in failed'
        BY <2>1, RunsIs DEF Guarded
    <2> QED
        BY <2>1, <2>2, <2>3, <2>4 DEF Guarded, Ends
<1>12. CASE Killed
    BY <1>0, <1>12 DEF Killed, Ends
<1> QED
    BY <1>2, <1>3, <1>4, <1>5, <1>6, <1>7, <1>8, <1>9, <1>10, <1>11, <1>12
       DEF Publishing, Querying

\* Where each query stands.
LEMMA PlainAt ==
    ASSUME BlobTypeOK, Plain
    PROVE  /\ query \in 1..StoreAt
           /\ \/ query = 1
              \/ query \in {KindsAt, KindsAt + 1, KindsAt + 2}
              \/ query \in {CountsAt, WitnessedAt}
<1>1. PICK op \in {"limit", "kinds", "clean", "since", "counts", "witnessed"} : At(op)
    BY DEF Plain
<1>2. query \in 1..StoreAt
    BY <1>1, GoesOn
<1> QED
    BY <1>1, <1>2, WhereAt

\* The draft is empty between publish steps.
LEMMA EmptyKept ==
    ASSUME PublishInv, Publishing
    PROVE  query' = 0 => draft' = EmptyDraft
<1>1. BlobTypeOK /\ (query = 0 => draft = EmptyDraft)
    BY DEF PublishInv
<1>2. StoreAt \in Nat /\ StoreAt # 0
    BY Places
<1>3. Goes => query' # 0
    BY <1>2 DEF Goes
<1>4. Skips => query' # 0
    BY <1>2 DEF Skips
<1>5. Ends => draft' = EmptyDraft
    BY DEF Ends
<1> QED
    BY <1>1, <1>3, <1>4, <1>5, StepIs DEF NextNight, StartPublish

\* A query fails at its turn only: whatever is in failed stands earlier in the program.
LEMMA InTurnKept ==
    ASSUME PublishInv, Publishing
    PROVE  FailedInTurn'
<1> SUFFICES ASSUME query' # 0, NEW f \in failed'
             PROVE  \E i \in 1..(query' - 1) : Program[i] = f
    BY DEF FailedInTurn
<1>1. BlobTypeOK /\ FailedInTurn
    BY DEF PublishInv
<1>2. StoreAt \in Nat /\ WitnessedAt \in Nat /\ 1 <= WitnessedAt
      /\ WitnessedAt + 3 <= StoreAt
    BY Places
<1>3. CASE Goes \/ Skips
    <2>1. Recorded /\ query \in 1..(query' - 1) /\ query \in 1..StoreAt
        BY <1>2, <1>3 DEF Goes, Skips
    <2>2. f \in failed \/ f = Program[query]
        BY <2>1 DEF Recorded
    <2>3. ASSUME f \in failed PROVE \E i \in 1..(query' - 1) : Program[i] = f
        <3>1. PICK i : i \in 1..(query - 1) /\ Program[i] = f
            BY <1>1, <2>1, <2>3 DEF FailedInTurn
        <3>2. query' \in Nat /\ query \in Nat /\ query < query'
            BY <1>2, <1>3, <2>1 DEF Goes, Skips
        <3>3. i \in 1..(query' - 1)
            <4>1. ASSUME NEW p \in Nat, NEW q \in Nat, p < q, NEW k \in 1..(p - 1)
                  PROVE  k \in 1..(q - 1)
                BY <4>1
            <4> QED
                BY <3>1, <3>2, <4>1, Zenon
        <3> QED
            BY <3>1, <3>3
    <2> QED
        BY <2>1, <2>2, <2>3
<1> QED
    BY <1>1, <1>3, StepIs DEF NextNight, StartPublish, Ends

\* Where a query can find the transaction aborted.
PriorFailed == <<"prior", "">> \in failed
TiersFailed == <<"priorTiers", "">> \in failed
SectionFailed(j) == <<"section", Sections[j]>> \in failed

\* Where the transaction can be found aborted, and which failure explains it.
LEMMA AbortedIs ==
    ASSUME BlobTypeOK, AbortedWhere
    PROVE  \/ txn = "clean"
           \/ PriorAt < query /\ query <= KindsAt /\ PriorFailed
           \/ /\ CountsAt < query /\ query <= WitnessedAt
              /\ \E j \in DOMAIN Sections : CountsAt + j < query /\ SectionFailed(j)
           \/ query = WitnessedAt + 2 /\ TiersFailed
<1>1. txn = "clean" \/ txn = "aborted"
    BY DEF BlobTypeOK
<1> QED
    BY <1>1, Zenon DEF AbortedWhere, PriorFailed, TiersFailed, SectionFailed

\* An aborted transaction comes from a failure behind it.
LEMMA AbortedKept ==
    ASSUME PublishInv, Publishing
    PROVE  AbortedWhere'
<1>1. BlobTypeOK /\ AbortedWhere
    BY DEF PublishInv
<1>2. SUFFICES ASSUME txn' = "aborted"
               PROVE  AbortedWhere'
    BY DEF AbortedWhere
<1>3. query \in 0..StoreAt
    BY <1>1 DEF BlobTypeOK
<1>4. CASE NextNight
    <2>1. txn = "aborted" /\ query = 0
        BY <1>2, <1>4 DEF NextNight
    <2> QED
        BY <1>1, <2>1, Places, AbortedIs
<1>5. CASE Goes /\ Prior
    <2>1. PICK ok \in BOOLEAN : At("prior") /\ Swallowed(ok)
        BY <1>5 DEF Prior
    <2>2. query \in 1..StoreAt
        BY <1>1, <2>1, GoesOn
    <2>3. query = PriorAt /\ query' = PriorAt + 1
        BY <1>5, <2>1, <2>2, WhereAt DEF Goes
    <2>4. txn = "clean"
        BY <1>1, <2>3, Places, AbortedIs
    <2>5. Program[query] \in failed'
        BY <1>2, <2>1, <2>4, RunsIs DEF Swallowed
    <2>6. <<"prior", "">> \in failed'
        BY <2>3, <2>5, ProgramIs, Zenon
    <2>7. PriorAt < query' /\ query' <= KindsAt
        BY <2>3, Places
    <2> QED
        BY <2>6, <2>7 DEF AbortedWhere
<1>6. CASE Goes /\ Merchant
    <2>1. query \in 1..StoreAt /\ At("merchant")
        BY <1>1, <1>6, GoesOn DEF Merchant
    <2>2. query - PriorAt \in DOMAIN ChainOrder /\ query' = query + 1
        BY <1>6, <2>1, WhereAt DEF Goes
    <2>3. PriorAt < query /\ query < KindsAt
        BY <2>1, <2>2, Places
    <2>4. txn = "aborted" /\ failed' = failed
        BY <1>2, <1>6 DEF Merchant, Guarded
    <2>5. PriorFailed
        BY <1>1, <2>1, <2>3, <2>4, Places, AbortedIs
    <2>6. PriorAt < query' /\ query' <= KindsAt
        BY <2>1, <2>2, <2>3, Places
    <2>7. <<"prior", "">> \in failed'
        BY <2>4, <2>5, Zenon DEF PriorFailed
    <2> QED
        BY <2>6, <2>7, Zenon DEF AbortedWhere
<1>7. CASE Goes /\ InstrSection
    <2>1. PICK ok \in BOOLEAN : At("section") /\ Swallowed(ok)
        BY <1>7 DEF InstrSection
    <2>2. query \in 1..StoreAt
        BY <1>1, <2>1, GoesOn
    <2>3. PICK j \in DOMAIN Sections : query = CountsAt + j /\ query' = query + 1
        <3>1. query - CountsAt \in DOMAIN Sections
            BY <2>1, <2>2, WhereAt
        <3>2. query = CountsAt + (query - CountsAt)
            BY <2>2, Places
        <3> QED
            BY <1>7, <3>1, <3>2 DEF Goes
    <2>4. j \in Nat /\ CountsAt < query' /\ query' <= WitnessedAt
          /\ CountsAt + j < query' /\ ~ok
        BY <1>2, <2>1, <2>3, Places, RunsIs DEF Swallowed
    <2>5. CASE txn = "clean"
        <3>1. Program[query] \in failed'
            BY <2>1, <2>4, <2>5, RunsIs DEF Swallowed
        <3>2. DOMAIN Sections = 1..Len(Sections)
            BY Lengths
        <3>3. <<"section", Sections[j]>> \in failed'
            BY <2>3, <3>1, <3>2, ProgramIs, Zenon
        <3> QED
            BY <2>4, <3>3, Zenon DEF AbortedWhere
    <2>6. CASE txn = "aborted"
        <3>1. PICK i \in DOMAIN Sections : CountsAt + i < query /\ SectionFailed(i)
            BY <1>1, <2>2, <2>3, <2>6, Places, AbortedIs
        <3>2. CountsAt + i < query'
            BY <2>2, <2>3, <3>1, Places
        <3>3. <<"section", Sections[i]>> \in failed'
            BY <1>7, <3>1, Zenon DEF Goes, Recorded, SectionFailed
        <3> QED
            BY <2>4, <3>2, <3>3, Zenon DEF AbortedWhere
    <2> QED
        BY <1>1, <2>5, <2>6 DEF BlobTypeOK
<1>8. CASE Goes /\ PriorTiers
    <2>1. PICK ok \in BOOLEAN : At("priorTiers") /\ Swallowed(ok)
        BY <1>8 DEF PriorTiers
    <2>2. query \in 1..StoreAt
        BY <1>1, <2>1, GoesOn
    <2>3. query = WitnessedAt + 1 /\ query' = query + 1
        BY <1>8, <2>1, <2>2, WhereAt DEF Goes
    <2>4. txn = "clean"
        BY <1>1, <2>3, Places, AbortedIs
    <2>5. Program[query] \in failed'
        BY <1>2, <2>1, <2>4, RunsIs DEF Swallowed
    <2>6. <<"priorTiers", "">> \in failed'
        BY <2>3, <2>5, ProgramIs, Zenon
    <2>7. query' = WitnessedAt + 2
        BY <2>3, Places
    <2> QED
        BY <2>6, <2>7 DEF AbortedWhere
<1>9. ~StartPublish /\ ~Ends /\ ~Skips /\ ~Plain /\ ~Scoped /\ ~Tier
    BY <1>2 DEF StartPublish, Ends, Skips, Plain, Scoped, Tier, Guarded
<1> QED
    BY <1>1, <1>4, <1>5, <1>6, <1>7, <1>8, <1>9, StepIs

\* A step gives up its blob for one of two reasons only.
LEMMA PublishedKept ==
    ASSUME PublishInv, Publishing
    PROVE  AlwaysPublished'
<1>1. BlobTypeOK /\ AbortedWhere /\ AlwaysPublished
    BY DEF PublishInv
<1>2. StoreAt \in Nat /\ StoreAt # 0
    BY Places
<1>3. CASE Ends
    <2> SUFFICES ASSUME ended' = "unpublished"
                 PROVE  failed' \cap {<<"since", "">>, <<"store", "">>} # {}
        BY DEF AlwaysPublished
    <2>1. query = KindsAt + 2 \/ query = StoreAt
        BY <1>3 DEF Ends
    <2>2. txn = "clean"
        BY <1>1, <2>1, Places, AbortedIs
    <2>3. Program[query] \in failed'
        BY <1>3, <2>2 DEF Ends
    <2>4. <<"since", "">> \in failed' \/ <<"store", "">> \in failed'
        BY <2>1, <2>3, ProgramIs, Zenon
    <2> QED
        BY <2>4, Zenon
<1>4. Goes \/ Skips => query' # 0
    BY <1>2 DEF Goes, Skips
<1>5. CASE NextNight
    BY <1>1, <1>5 DEF NextNight, AlwaysPublished
<1>6. CASE StartPublish
    BY <1>6 DEF StartPublish, AlwaysPublished
<1>7. CASE query' # 0
    BY <1>7 DEF AlwaysPublished
<1> QED
    BY <1>1, <1>3, <1>4, <1>5, <1>6, <1>7, StepIs

\* A failure that is recorded is that of the query in work.
LEMMA ByItself ==
    ASSUME Recorded, NEW op, At(op)
    PROVE  \A o, x : o # op => (<<o, x>> \in failed' <=> <<o, x>> \in failed)
<1>1. ASSUME NEW o, NEW x, <<o, x>> = Program[query] PROVE o = op
    <2>1. Names(query, o)
        BY <1>1, NamesIt, Zenon
    <2> QED
        BY <2>1, Zenon DEF Names, At
<1>2. /\ \A f : f \in failed => f \in failed'
      /\ \A f : f \in failed' => f \in failed \/ f = Program[query]
    BY Zenon DEF Recorded
<1> QED
    BY <1>1, <1>2, Zenon

\* Every chain has its place in the order.
LEMMA ChainHasPlace ==
    ASSUME NEW c \in BlobChain
    PROVE  \E i \in DOMAIN ChainOrder : ChainOrder[i] = c
    BY Zenon DEF BlobChain, ToSet

\* A query of a chain that is recorded as failed has had its turn.
LEMMA TurnOf ==
    ASSUME BlobTypeOK, FailedInTurn, query \in 1..StoreAt
    PROVE  /\ \A i \in DOMAIN ChainOrder : <<"scoped", ChainOrder[i]>> \in failed => i + 1 < query
           /\ PriorFailed => PriorAt < query
<1>0. StoreAt \in Nat
    BY Places
<1>1. \A f \in failed : \E i \in 1..(query - 1) : Program[i] = f
    BY <1>0 DEF FailedInTurn
<1>2. ASSUME NEW i \in DOMAIN ChainOrder, <<"scoped", ChainOrder[i]>> \in failed
      PROVE  i + 1 < query
    <2>1. PICK p \in 1..(query - 1) : Program[p] = <<"scoped", ChainOrder[i]>>
        BY <1>1, <1>2, Zenon
    <2>2. p \in 1..StoreAt
        BY <1>0
    <2>3. Names(p, "scoped") /\ About(p, ChainOrder[i])
        BY <2>1, NamesIt, Zenon
    <2>4. \A o : Names(p, o) => o = "scoped"
        BY <2>3, Zenon DEF Names
    <2>5. p - 1 \in DOMAIN ChainOrder /\ About(p, ChainOrder[p - 1])
        BY <2>2, <2>4, Turns
    <2>6. ChainOrder[p - 1] = ChainOrder[i]
        BY <2>3, <2>5, Zenon DEF About
    <2>7. p - 1 = i
        BY <2>5, <2>6, BlobAssumption, Zenon
    <2> QED
        BY <1>0, <2>5, <2>7, Places
<1>3. ASSUME PriorFailed PROVE PriorAt < query
    <2>1. PICK p \in 1..(query - 1) : Program[p] = <<"prior", "">>
        BY <1>1, <1>3, Zenon DEF PriorFailed
    <2>2. p \in 1..StoreAt
        BY <1>0
    <2>3. Names(p, "prior")
        BY <2>1, NamesIt, Zenon
    <2>4. \A o : Names(p, o) => o = "prior"
        BY <2>3, Zenon DEF Names
    <2>5. p = PriorAt
        BY <2>2, <2>4, Turns
    <2> QED
        BY <1>0, <2>5
<1> QED
    BY <1>2, <1>3

\* The draft keeps the rest where one part of it is filled in.
LEMMA ScopedIs ==
    ASSUME BlobTypeOK, Scoped
    PROVE  \E ok \in BOOLEAN :
              /\ Runs(ok) /\ Subject \in BlobChain
              /\ draft'.rows[Subject].scoped = IF ok THEN night ELSE 0
              /\ draft'.rows[Subject].merchant = draft.rows[Subject].merchant
              /\ \A e \in BlobChain : e # Subject => draft'.rows[e] = draft.rows[e]
              /\ draft'.priorRows = draft.priorRows /\ draft'.tiers = draft.tiers
              /\ draft'.instr = draft.instr /\ draft'.index = draft.index
              /\ draft'.stale = draft.stale
<1>1. PICK ok \in BOOLEAN :
          /\ At("scoped") /\ Guarded(ok)
          /\ On([draft EXCEPT !.rows[Subject].scoped = IF ok THEN night ELSE 0])
    BY DEF Scoped
<1>2. Subject \in BlobChain
    BY <1>1, GoesOn, SubjectTyped
<1>3. draft' = [draft EXCEPT !.rows[Subject].scoped = IF ok THEN night ELSE 0]
    BY <1>1 DEF On
<1>4. Runs(ok)
    BY <1>1 DEF Guarded
<1>5. /\ draft'.rows[Subject].scoped = (IF ok THEN night ELSE 0)
      /\ draft'.rows[Subject].merchant = draft.rows[Subject].merchant
      /\ \A e \in BlobChain : e # Subject => draft'.rows[e] = draft.rows[e]
      /\ draft'.priorRows = draft.priorRows /\ draft'.tiers = draft.tiers
      /\ draft'.instr = draft.instr /\ draft'.index = draft.index /\ draft'.stale = draft.stale
    <2>1. PICK c \in BlobChain : c = Subject
        BY <1>2
    <2>2. PICK v : v = IF ok THEN night ELSE 0
        OBVIOUS
    <2>3. draft' = [draft EXCEPT !.rows[c].scoped = v]
        BY <1>3, <2>1, <2>2
    <2>4. /\ draft'.rows[c].scoped = v /\ draft'.rows[c].merchant = draft.rows[c].merchant
          /\ \A e \in BlobChain : e # c => draft'.rows[e] = draft.rows[e]
          /\ draft'.priorRows = draft.priorRows /\ draft'.tiers = draft.tiers
          /\ draft'.instr = draft.instr /\ draft'.index = draft.index
          /\ draft'.stale = draft.stale
        BY <2>3 DEF BlobTypeOK, Drafts, Row
    <2> QED
        BY <2>1, <2>2, <2>4
<1> QED
    BY <1>2, <1>4, <1>5

\* What the merchant query of one chain writes: the row of that chain and a note, no more.
LEMMA MerchantIs ==
    ASSUME BlobTypeOK, Merchant
    PROVE  /\ Subject \in BlobChain
           /\ \A e \in BlobChain : draft'.rows[e].scoped = draft.rows[e].scoped
           /\ \A e \in BlobChain : e # Subject => draft'.rows[e] = draft.rows[e]
           /\ draft'.priorRows = draft.priorRows /\ draft'.tiers = draft.tiers
           /\ draft'.instr = draft.instr /\ draft'.index = draft.index
           /\ draft.stale \subseteq draft'.stale
           /\ \A o, c, b : <<o, c, b>> \in draft'.stale /\ o # "merchant"
                              => <<o, c, b>> \in draft.stale
           /\ \/ Subject \notin Scopable \/ draft.rows[Subject].scoped = 0
              \/ Runs(TRUE) /\ draft'.rows[Subject].merchant = night
              \/ LET old == draft.priorRows[Subject].merchant
                 IN /\ Runs(FALSE)
                    /\ draft'.rows[Subject].merchant
                          = IF old # 0 THEN old ELSE draft.rows[Subject].merchant
                    /\ <<"merchant", Subject, old # 0>> \in draft'.stale
<1> DEFINE c == Subject
           old == draft.priorRows[c].merchant
           n == <<"merchant", c, old # 0>>
           Fresh == [draft EXCEPT !.rows[c].merchant = night]
           Carried == [draft EXCEPT !.rows[c].merchant = IF old # 0 THEN old ELSE @,
                                    !.stale = @ \cup {<<"merchant", c, old # 0>>}]
<1>1. c \in BlobChain /\ draft \in Drafts
    BY GoesOn, SubjectTyped DEF Merchant, BlobTypeOK
<1>2. CASE (Subject \notin Scopable \/ draft.rows[Subject].scoped = 0) /\ On(draft)
    BY <1>1, <1>2 DEF On
<1>3. CASE Runs(TRUE) /\ draft' = Fresh
    <2>1. /\ Fresh.rows[c].merchant = night /\ Fresh.rows[c].scoped = draft.rows[c].scoped
          /\ \A e \in BlobChain : e # c => Fresh.rows[e] = draft.rows[e]
          /\ Fresh.priorRows = draft.priorRows /\ Fresh.tiers = draft.tiers
          /\ Fresh.instr = draft.instr /\ Fresh.index = draft.index /\ Fresh.stale = draft.stale
        BY <1>1 DEF Drafts, Row
    <2> HIDE DEF Fresh
    <2> QED
        BY <1>1, <1>3, <2>1
<1>4. CASE Runs(FALSE) /\ draft' = Carried
    <2>1. /\ Carried.rows[c].merchant = (IF old # 0 THEN old ELSE draft.rows[c].merchant)
          /\ Carried.rows[c].scoped = draft.rows[c].scoped
          /\ \A e \in BlobChain : e # c => Carried.rows[e] = draft.rows[e]
          /\ Carried.priorRows = draft.priorRows /\ Carried.tiers = draft.tiers
          /\ Carried.instr = draft.instr /\ Carried.index = draft.index
        BY <1>1 DEF Drafts, Row
    <2>2. Carried.stale = draft.stale \cup {n}
        BY <1>1 DEF Drafts
    <2>3. \A o, e, b : <<o, e, b>> = n => o = "merchant"
        OBVIOUS
    <2>4. \A o, e, b : <<o, e, b>> \in draft'.stale /\ o # "merchant" => <<o, e, b>> \in draft.stale
        <3> HIDE DEF n, Carried
        <3> QED
            BY <1>4, <2>2, <2>3, Zenon
    <2>5. draft.stale \subseteq draft'.stale /\ n \in draft'.stale
        BY <1>4, <2>2
    <2> HIDE DEF Carried
    <2> QED
        BY <1>1, <1>4, <2>1, <2>4, <2>5
<1> QED
    BY <1>2, <1>3, <1>4 DEF Merchant, Guarded, On

\* What one instrument section writes: its own figure, tonight's or none.
LEMMA SectionIs ==
    ASSUME BlobTypeOK, InstrSection
    PROVE  \E ok \in BOOLEAN :
              /\ Runs(ok) /\ Subject \in Section
              /\ draft'.instr[Subject] = IF ok THEN night ELSE 0
              /\ \A s \in Section : s # Subject => draft'.instr[s] = draft.instr[s]
              /\ draft'.rows = draft.rows /\ draft'.priorRows = draft.priorRows
              /\ draft'.tiers = draft.tiers /\ draft'.index = draft.index
              /\ draft'.stale = draft.stale
<1>1. PICK ok \in BOOLEAN :
          /\ At("section") /\ Swallowed(ok)
          /\ On([draft EXCEPT !.instr[Subject] = IF ok THEN night ELSE 0])
    BY DEF InstrSection
<1>2. Subject \in Section /\ draft \in Drafts
    BY <1>1, GoesOn, SubjectTyped DEF BlobTypeOK
<1> QED
    BY <1>1, <1>2 DEF Swallowed, On, Drafts

\* What the tier query of one address writes: its own figure and a note, no more.
LEMMA TierIs ==
    ASSUME BlobTypeOK, Tier
    PROVE  /\ Subject \in ToSet(Ladder)
           /\ \A e \in ToSet(Ladder) :
                 e # Subject => draft'.tiers[e] = draft.tiers[e]
           /\ draft'.rows = draft.rows /\ draft'.priorRows = draft.priorRows
           /\ draft'.instr = draft.instr /\ draft'.index = draft.index
           /\ draft.stale \subseteq draft'.stale
           /\ \A o, c, b : <<o, c, b>> \in draft'.stale /\ o # "tier" => <<o, c, b>> \in draft.stale
           /\ \/ draft'.tiers[Subject] = night
              \/ /\ Runs(FALSE)
                 /\ <<"tier", Subject, draft'.tiers[Subject] # 0>> \in draft'.stale
<1> DEFINE c == Subject
           old == draft.priorTiers[c]
           n == <<"tier", c, old # 0>>
           Fresh == [draft EXCEPT !.tiers[c] = night]
           Carried == [draft EXCEPT !.tiers[c] = old, !.stale = @ \cup {<<"tier", c, old # 0>>}]
<1>1. PICK ok \in BOOLEAN :
          At("tier") /\ Guarded(ok) /\ On(IF ok THEN Fresh ELSE Carried)
    BY DEF Tier
<1>2. c \in ToSet(Ladder) /\ draft \in Drafts
    BY <1>1, GoesOn, SubjectTyped DEF BlobTypeOK
<1>3. CASE ok
    <2>1. draft' = Fresh
        BY <1>1, <1>3 DEF On
    <2> QED
        BY <1>2, <2>1 DEF Drafts
<1>4. CASE ~ok
    <2>1. draft' = Carried /\ Runs(FALSE)
        BY <1>1, <1>4 DEF On, Guarded
    <2>2. /\ Carried.tiers[c] = old /\ Carried.rows = draft.rows
          /\ \A e \in ToSet(Ladder) : e # c => Carried.tiers[e] = draft.tiers[e]
          /\ Carried.priorRows = draft.priorRows
          /\ Carried.instr = draft.instr /\ Carried.index = draft.index
        BY <1>2 DEF Drafts
    <2>3. Carried.stale = draft.stale \cup {n}
        BY <1>2 DEF Drafts
    <2>4. \A o, e, b : <<o, e, b>> = n => o = "tier"
        OBVIOUS
    <2>5. \A o, e, b : <<o, e, b>> \in draft'.stale /\ o # "tier" => <<o, e, b>> \in draft.stale
        <3> HIDE DEF n, Carried
        <3> QED
            BY <2>1, <2>3, <2>4, Zenon
    <2>6. draft.stale \subseteq draft'.stale /\ n \in draft'.stale
        BY <2>1, <2>3
    <2> HIDE DEF Carried
    <2> QED
        BY <1>2, <2>1, <2>2, <2>5, <2>6
<1> QED
    BY <1>3, <1>4

\* Reading the old tiers leaves every figure of the draft alone.
LEMMA PriorTiersIs ==
    ASSUME BlobTypeOK, PriorTiers
    PROVE  /\ draft'.rows = draft.rows /\ draft'.priorRows = draft.priorRows
           /\ draft'.tiers = draft.tiers /\ draft'.instr = draft.instr
           /\ draft'.index = draft.index /\ draft'.stale = draft.stale
<1>1. PICK d : draft' = [draft EXCEPT !.priorTiers = d]
    BY DEF PriorTiers, On
<1> QED
    BY <1>1 DEF BlobTypeOK, Drafts

\* Skipping the seller index drops the index and leaves every figure of the draft alone.
LEMMA SkipsIs ==
    ASSUME BlobTypeOK, Skips
    PROVE  /\ draft'.rows = draft.rows /\ draft'.priorRows = draft.priorRows
           /\ draft'.tiers = draft.tiers /\ draft'.instr = draft.instr
           /\ draft'.index = FALSE /\ draft'.stale = draft.stale
    BY DEF Skips, BlobTypeOK, Drafts

\* Failures of the chains, and notes of the draft.
ScopedFailed(c) == <<"scoped", c>> \in failed
Noted(o, c, b) == <<o, c, b>> \in draft.stale

\* What a step does behind the query for the last blob, unless it is the end: the scoped
\* figures and the old rows stay, and nothing is taken back.
LEMMA LateStep ==
    ASSUME BlobTypeOK, Publishing,
           PriorAt < query, query' # 0
    PROVE  /\ Goes \/ Skips
           /\ night' = night /\ blob' = blob /\ query < query' /\ query \in 1..StoreAt
           /\ Recorded
           /\ \E op : At(op) /\ op \notin {"scoped", "prior"}
           /\ draft'.priorRows = draft.priorRows
           /\ \A c \in BlobChain : draft'.rows[c].scoped = draft.rows[c].scoped
           /\ Merchant \/ draft'.rows = draft.rows
           /\ InstrSection \/ draft'.instr = draft.instr
           /\ Tier \/ draft'.tiers = draft.tiers
           /\ Skips \/ draft'.index = draft.index
           /\ draft.stale \subseteq draft'.stale
           /\ \A c, b : Noted("scoped", c, b)' => Noted("scoped", c, b)
<1>0. query \in 0..StoreAt /\ StoreAt \in Nat /\ PriorAt \in Nat
      /\ 2 <= PriorAt /\ WitnessedAt + 3 <= StoreAt /\ WitnessedAt \in Nat
      /\ KindsAt \in Nat
      /\ \A i \in DOMAIN ChainOrder : i \in Nat /\ 1 + i < PriorAt
    BY Places DEF BlobTypeOK
<1>1. /\ ~NextNight /\ ~StartPublish /\ ~Ends
    BY <1>0 DEF NextNight, StartPublish, Ends
<1>2. query \in 1..StoreAt
    BY <1>0
<1>3. ~At("scoped") /\ ~At("prior")
    BY <1>0, <1>2, WhereAt
<1>4. ~Scoped /\ ~Prior
    BY <1>3 DEF Scoped, Prior
<1>5. \/ Skips
      \/ Goes /\ Plain
      \/ Goes /\ Merchant
      \/ Goes /\ InstrSection
      \/ Goes /\ PriorTiers
      \/ Goes /\ Tier
    BY <1>1, <1>4, StepIs
<1>6. Goes \/ Skips
    BY <1>5
<1>7. night' = night /\ blob' = blob /\ query < query' /\ Recorded
    BY <1>0, <1>6 DEF Goes, Skips
<1>8. \E op : At(op)
    BY <1>5, Zenon DEF Skips, Plain, Merchant, InstrSection, PriorTiers, Tier
<1>9. \E op : At(op) /\ op \notin {"scoped", "prior"}
    BY <1>3, <1>8
<1>10. CASE Goes /\ Plain
    <2>1. draft' = draft
        BY <1>10 DEF Plain
    <2> QED
        BY <1>2, <1>6, <1>7, <1>9, <2>1 DEF Noted
<1>11. CASE Skips
    <2>1. /\ draft'.rows = draft.rows /\ draft'.priorRows = draft.priorRows
          /\ draft'.tiers = draft.tiers /\ draft'.instr = draft.instr
          /\ draft'.stale = draft.stale
        BY <1>11, SkipsIs
    <2> QED
        BY <1>2, <1>6, <1>7, <1>9, <1>11, <2>1 DEF Noted
<1>12. CASE Merchant
    <2>1. /\ \A e \in BlobChain : draft'.rows[e].scoped = draft.rows[e].scoped
          /\ draft'.priorRows = draft.priorRows /\ draft'.tiers = draft.tiers
          /\ draft'.instr = draft.instr /\ draft'.index = draft.index
          /\ draft.stale \subseteq draft'.stale
          /\ \A o, c, b : <<o, c, b>> \in draft'.stale /\ o # "merchant" => <<o, c, b>> \in draft.stale
        BY <1>12, MerchantIs
    <2>2. \A c, b : Noted("scoped", c, b)' => Noted("scoped", c, b)
        BY <2>1 DEF Noted
    <2> QED
        BY <1>2, <1>6, <1>7, <1>9, <1>12, <2>1, <2>2
<1>13. CASE InstrSection
    <2>1. /\ draft'.rows = draft.rows /\ draft'.priorRows = draft.priorRows
          /\ draft'.tiers = draft.tiers /\ draft'.index = draft.index
          /\ draft'.stale = draft.stale
        BY <1>13, SectionIs
    <2> QED
        BY <1>2, <1>6, <1>7, <1>9, <1>13, <2>1 DEF Noted
<1>14. CASE PriorTiers
    <2>1. /\ draft'.rows = draft.rows /\ draft'.priorRows = draft.priorRows
          /\ draft'.tiers = draft.tiers /\ draft'.instr = draft.instr
          /\ draft'.index = draft.index /\ draft'.stale = draft.stale
        BY <1>14, PriorTiersIs
    <2> QED
        BY <1>2, <1>6, <1>7, <1>9, <2>1 DEF Noted
<1>15. CASE Tier
    <2>1. /\ draft'.rows = draft.rows /\ draft'.priorRows = draft.priorRows
          /\ draft'.instr = draft.instr /\ draft'.index = draft.index
          /\ draft.stale \subseteq draft'.stale
          /\ \A o, c, b : <<o, c, b>> \in draft'.stale /\ o # "tier" => <<o, c, b>> \in draft.stale
        BY <1>15, TierIs
    <2>2. \A c, b : Noted("scoped", c, b)' => Noted("scoped", c, b)
        BY <2>1 DEF Noted
    <2> QED
        BY <1>2, <1>6, <1>7, <1>9, <1>15, <2>1, <2>2
<1> QED
    BY <1>5, <1>10, <1>11, <1>12, <1>13, <1>14, <1>15

\* The scoped figures, chain by chain.
LEMMA ScopedKept ==
    ASSUME PublishInv, Publishing
    PROVE  ScopedDone'
<1>1. BlobTypeOK /\ AbortedWhere /\ FailedInTurn /\ ScopedDone
      /\ (query = 0 => draft = EmptyDraft)
    BY DEF PublishInv
<1> SUFFICES ASSUME 0 < query', query' <= PriorAt
             PROVE  /\ draft'.stale = {}
                    /\ \A i \in DOMAIN ChainOrder :
                          LET row == draft'.rows[ChainOrder[i]]
                          IN /\ row.merchant = 0
                             /\ row.scoped = IF i + 1 < query' /\ ~ScopedFailed(ChainOrder[i])'
                                             THEN night' ELSE 0
    BY DEF ScopedDone, ScopedFailed
<1>2. query \in 0..StoreAt /\ night \in Nat /\ night # 0
    BY <1>1, NightTyped DEF BlobTypeOK
<1>3. \A i \in DOMAIN ChainOrder : ChainOrder[i] \in BlobChain
    BY DEF BlobChain, ToSet
<1>4. 0 < query /\ query <= PriorAt =>
        /\ draft.stale = {}
        /\ \A i \in DOMAIN ChainOrder :
              LET row == draft.rows[ChainOrder[i]]
              IN /\ row.merchant = 0
                 /\ row.scoped = IF i + 1 < query /\ ~ScopedFailed(ChainOrder[i])
                                 THEN night ELSE 0
    BY <1>1 DEF ScopedDone, ScopedFailed
<1>5. CASE StartPublish
    <2>1. draft' = EmptyDraft /\ query' = 1
        BY <1>1, <1>5 DEF StartPublish
    <2>2. /\ EmptyDraft.stale = {}
          /\ \A c \in BlobChain : EmptyDraft.rows[c].merchant = 0
                                    /\ EmptyDraft.rows[c].scoped = 0
        BY DEF EmptyDraft, NoRows, NoRow
    <2> QED
        BY <1>3, <2>1, <2>2, Places
<1>6. CASE Goes /\ Plain
    <2>1. query \in 1..StoreAt /\ query' = query + 1 /\ query < PriorAt
        BY <1>1, <1>6, PlainAt, Places DEF Goes
    <2>2. query = 1
        BY <1>1, <1>6, <2>1, PlainAt, Places
    <2>3. draft' = draft /\ night' = night
        BY <1>6 DEF Plain, Goes
    <2>4. \A i \in DOMAIN ChainOrder : i \in Nat /\ ~(i + 1 < 2)
        BY Places
    <2> QED
        BY <1>4, <2>1, <2>2, <2>3, <2>4, Places
<1>7. CASE Goes /\ Scoped
    <2>0. query \in 1..StoreAt /\ At("scoped")
        BY <1>1, <1>7, GoesOn DEF Scoped
    <2>1. PICK ok \in BOOLEAN :
              /\ Runs(ok) /\ Subject \in BlobChain
              /\ draft'.rows[Subject].scoped = IF ok THEN night ELSE 0
              /\ draft'.rows[Subject].merchant = draft.rows[Subject].merchant
              /\ \A e \in BlobChain : e # Subject => draft'.rows[e] = draft.rows[e]
              /\ draft'.stale = draft.stale
        BY <1>1, <1>7, ScopedIs
    <2>2. PICK k \in DOMAIN ChainOrder :
              /\ query = k + 1 /\ Subject = ChainOrder[k]
              /\ Program[query] = <<"scoped", ChainOrder[k]>>
        <3>1. /\ query - 1 \in DOMAIN ChainOrder /\ Subject = ChainOrder[query - 1]
              /\ Program[query] = <<"scoped", Subject>>
            BY <2>0, WhereAt
        <3>2. query = (query - 1) + 1
            BY <2>0, Places
        <3> QED
            BY <3>1, <3>2, Zenon
    <2>3. /\ 0 < query /\ query < PriorAt /\ query <= PriorAt
          /\ query' = k + 2 /\ night' = night /\ k \in Nat
        BY <1>7, <2>0, <2>2, Places DEF Goes
    <2>4. \A i \in DOMAIN ChainOrder : ChainOrder[i] = ChainOrder[k] => i = k
        BY <2>2, BlobAssumption, Zenon
    <2>5. \A i \in DOMAIN ChainOrder :
             i # k => (ScopedFailed(ChainOrder[i])' <=> ScopedFailed(ChainOrder[i]))
        <3> SUFFICES ASSUME NEW i \in DOMAIN ChainOrder, ChainOrder[i] # ChainOrder[k]
                     PROVE  ScopedFailed(ChainOrder[i])' <=> ScopedFailed(ChainOrder[i])
            BY <2>4
        <3>1. <<"scoped", ChainOrder[i]>> # <<"scoped", ChainOrder[k]>>
            OBVIOUS
        <3> QED
            BY <1>7, <2>2, <3>1, Zenon DEF ScopedFailed, Goes, Recorded
    <2>6. ScopedFailed(ChainOrder[k])' <=> ~ok
        <3>1. ~ScopedFailed(ChainOrder[k])
            <4>1. ~(k + 1 < query)
                BY <2>2, <2>3
            <4> QED
                BY <1>1, <2>0, <4>1, TurnOf, Zenon DEF ScopedFailed
        <3>2. txn = "clean"
            BY <1>1, <2>0, <2>3, AbortedIs, Places
        <3>3. ok => failed' = failed
            BY <2>1, RunsIs
        <3>4. ~ok => Program[query] \in failed'
            BY <2>1, <3>2, RunsIs
        <3>5. ok => ~ScopedFailed(ChainOrder[k])'
            BY <3>1, <3>3, Zenon DEF ScopedFailed
        <3>6. ~ok => ScopedFailed(ChainOrder[k])'
            BY <2>2, <3>4, Zenon DEF ScopedFailed
        <3> QED
            BY <3>5, <3>6
    <2> SUFFICES ASSUME NEW i \in DOMAIN ChainOrder
                 PROVE  /\ draft'.rows[ChainOrder[i]].merchant = 0
                        /\ draft'.rows[ChainOrder[i]].scoped
                             = IF i + 1 < k + 2 /\ ~ScopedFailed(ChainOrder[i])'
                               THEN night ELSE 0
        BY <1>4, <2>1, <2>3
    <2>7. i \in Nat
        BY Places
    <2>8. CASE i = k
        <3>1. draft.rows[ChainOrder[k]].merchant = 0
            BY <1>4, <2>3
        <3>2. i + 1 < k + 2
            BY <2>7, <2>8
        <3>3. /\ draft'.rows[ChainOrder[k]].merchant = 0
              /\ draft'.rows[ChainOrder[k]].scoped = IF ok THEN night ELSE 0
            BY <2>1, <2>2, <3>1
        <3> QED
            BY <2>6, <2>8, <3>2, <3>3
    <2>9. CASE i # k
        <3>1. draft'.rows[ChainOrder[i]] = draft.rows[ChainOrder[i]]
            BY <1>3, <2>1, <2>2, <2>4, <2>9
        <3>2. i + 1 < k + 2 <=> i + 1 < query
            BY <2>2, <2>3, <2>7, <2>9
        <3>3. ScopedFailed(ChainOrder[i])' <=> ScopedFailed(ChainOrder[i])
            BY <2>5, <2>9
        <3> QED
            BY <1>4, <2>3, <3>1, <3>2, <3>3
    <2> QED
        BY <2>8, <2>9
<1>8. CASE Goes /\ Prior
    <2>1. query \in 1..StoreAt /\ At("prior")
        BY <1>1, <1>8, GoesOn DEF Prior
    <2>2. query = PriorAt /\ query' = query + 1
        BY <1>8, <2>1, WhereAt DEF Goes
    <2> QED
        BY <2>2, Places
<1>9. CASE PriorAt < query
    BY <1>1, <1>2, <1>9, LateStep, Places DEF Goes, Skips
<1>10. ~NextNight /\ ~Ends
    BY DEF NextNight, Ends
<1>11. Skips => PriorAt < query
    BY Places DEF Skips
<1>12. Merchant \/ InstrSection \/ PriorTiers \/ Tier => PriorAt < query
    <2>1. ASSUME NEW op \in {"merchant", "section", "priorTiers", "tier"}, At(op)
          PROVE  PriorAt < query
        BY <1>1, <2>1, GoesOn, WhereAt, Places
    <2> QED
        BY <2>1 DEF Merchant, InstrSection, PriorTiers, Tier
<1> QED
    BY <1>1, <1>5, <1>6, <1>7, <1>8, <1>9, <1>10, <1>11, <1>12, StepIs

\* What has been carried forward for a chain, and what its merchant tier has come to.
CarriedOf(c) ==
    /\ draft.priorRows[c] = OldRow(c)
    /\ ScopedFailed(c) => /\ draft.rows[c].scoped = OldRow(c).scoped
                          /\ Noted("scoped", c, OldRow(c).scoped # 0)
    /\ ~ScopedFailed(c) => /\ draft.rows[c].scoped = night
                           /\ \A b \in BOOLEAN : ~Noted("scoped", c, b)

MerchantFailed(c) == <<"merchant", c>> \in failed
MerchantOf(c) ==
    draft.rows[c].scoped # 0 /\ c \in Scopable /\ draft.rows[c].merchant # night =>
        /\ draft.rows[c].merchant = OldRow(c).merchant
        /\ Noted("merchant", c, draft.rows[c].merchant # 0)
        /\ MerchantFailed(c) \/ PriorFailed

\* The loop over the scoped figures, chain by chain.
LEMMA PriorIs ==
    ASSUME PublishInv, Prior
    PROVE  /\ query = PriorAt /\ Program[query] = <<"prior", "">>
           /\ draft'.instr = draft.instr /\ draft'.tiers = draft.tiers
           /\ draft'.index = draft.index
           /\ \A c \in BlobChain :
                 /\ draft'.priorRows[c] = OldRow(c)'
                 /\ ScopedFailed(c)' <=> ScopedFailed(c)
                 /\ LET old == OldRow(c)'
                        row == draft.rows[c]
                    IN /\ draft'.rows[c] = IF row.scoped = 0 /\ old.scoped # 0 THEN old ELSE row
                       /\ \A b : Noted("scoped", c, b)' <=> row.scoped = 0 /\ b = (old.scoped # 0)
<1>1. BlobTypeOK /\ AbortedWhere /\ FailedInTurn
    BY DEF PublishInv
<1> DEFINE Old(ok) == IF ok /\ blob # NoBlob THEN blob.rows ELSE NoRows
<1>2. PICK ok \in BOOLEAN :
          /\ At("prior") /\ Swallowed(ok)
          /\ On([draft EXCEPT !.priorRows = Old(ok),
                                    !.rows = CarriedRows(@, Old(ok)),
                                    !.stale = CarriedNotes(draft.rows, Old(ok))])
    BY DEF Prior
<1>3. query \in 1..StoreAt
    BY <1>1, <1>2, GoesOn
<1>4. query = PriorAt /\ Program[query] = <<"prior", "">>
    <2>1. query = PriorAt
        BY <1>2, <1>3, WhereAt
    <2> QED
        BY <2>1, ProgramIs, Zenon
<1>4a. query = PriorAt
    BY <1>4, Zenon
<1>5. txn = "clean"
    BY <1>1, <1>4a, AbortedIs, Places
<1>6. PriorFailed' <=> ~ok
    <2>1. ~PriorFailed
        BY <1>1, <1>3, <1>4a, TurnOf, Places
    <2>2. ok => failed' = failed
        BY <1>2, RunsIs DEF Swallowed
    <2>3. ~ok => Program[query] \in failed'
        BY <1>2, <1>5, RunsIs DEF Swallowed
    <2>4. ok => ~PriorFailed'
        BY <2>1, <2>2, Zenon DEF PriorFailed
    <2>5. ~ok => PriorFailed'
        BY <1>4, <2>3, Zenon DEF PriorFailed
    <2> QED
        BY <2>4, <2>5
<1>7. Recorded
    BY <1>2, RunsIs DEF Swallowed, Recorded
<1>8. blob' = blob
    BY <1>2 DEF On
<1>9. /\ draft'.priorRows = Old(ok) /\ draft'.rows = CarriedRows(draft.rows, Old(ok))
      /\ draft'.stale = CarriedNotes(draft.rows, Old(ok))
      /\ draft'.instr = draft.instr /\ draft'.tiers = draft.tiers /\ draft'.index = draft.index
    <2> HIDE DEF Old
    <2> QED
        BY <1>1, <1>2 DEF On, BlobTypeOK, Drafts
<1>10. ASSUME NEW c \in BlobChain
       PROVE  /\ draft'.priorRows[c] = OldRow(c)'
              /\ ScopedFailed(c)' <=> ScopedFailed(c)
              /\ LET old == OldRow(c)'
                     row == draft.rows[c]
                 IN /\ draft'.rows[c] = IF row.scoped = 0 /\ old.scoped # 0 THEN old ELSE row
                    /\ \A b : Noted("scoped", c, b)' <=> row.scoped = 0 /\ b = (old.scoped # 0)
    <2>1. OldRow(c)' = IF blob' = NoBlob \/ PriorFailed' THEN NoRow ELSE blob'.rows[c]
        BY Zenon DEF OldRow, PriorFailed
    <2>2. OldRow(c)' = Old(ok)[c]
        BY <1>6, <1>8, <2>1 DEF NoRows
    <2>3. ScopedFailed(c)' <=> ScopedFailed(c)
        <3>1. "scoped" # "prior"
            OBVIOUS
        <3> QED
            BY <1>2, <1>7, <3>1, ByItself, Zenon DEF ScopedFailed
    <2> HIDE DEF Old
    <2>4. draft'.rows[c] = IF draft.rows[c].scoped = 0 /\ Old(ok)[c].scoped # 0
                           THEN Old(ok)[c] ELSE draft.rows[c]
        BY <1>9 DEF CarriedRows
    <2>5. ASSUME NEW b
          PROVE  Noted("scoped", c, b)' <=> draft.rows[c].scoped = 0 /\ b = (Old(ok)[c].scoped # 0)
        <3>1. Noted("scoped", c, b)' <=>
                 \E d \in {e \in BlobChain : draft.rows[e].scoped = 0} :
                    <<"scoped", c, b>> = <<"scoped", d, Old(ok)[d].scoped # 0>>
            BY <1>9, Zenon DEF Noted, CarriedNotes
        <3>2. \A d, x, y : <<"scoped", c, x>> = <<"scoped", d, y>> <=> c = d /\ x = y
            OBVIOUS
        <3> QED
            BY <3>1, <3>2, Zenon
    <2> QED
        BY <1>9, <2>2, <2>3, <2>4, <2>5
<1> QED
    BY <1>4, <1>9, <1>10

\* Only the query for the last blob leads behind its place.
LEMMA PriorPassed ==
    ASSUME BlobTypeOK, Publishing,
           PriorAt < query', ~(PriorAt < query)
    PROVE  Goes /\ Prior
<1>1. /\ PriorAt \in Nat /\ 2 <= PriorAt /\ StoreAt \in Nat
      /\ query \in 0..StoreAt
    BY Places DEF BlobTypeOK
<1>2. ~NextNight /\ ~StartPublish /\ ~Ends /\ ~Skips
    <2>1. ~(PriorAt < 0) /\ ~(PriorAt < 1) /\ PriorAt < WitnessedAt
        BY <1>1, Places
    <2> QED
        BY <2>1 DEF NextNight, StartPublish, Ends, Skips
<1>3. ~At("merchant") /\ ~At("section") /\ ~At("priorTiers") /\ ~At("tier")
    BY GoesOn, WhereAt, Places
<1>4. ~(Goes /\ Plain)
    BY <1>1, PlainAt, Places DEF Goes
<1>5. ~(Goes /\ Scoped)
    BY <1>1, GoesOn, WhereAt, Places DEF Goes, Scoped
<1> QED
    BY <1>2, <1>3, <1>4, <1>5, StepIs
       DEF Merchant, InstrSection, PriorTiers, Tier

\* Old rows and scoped failures do not change behind the query for the last blob.
LEMMA OldRowKept ==
    ASSUME Recorded, NEW op, At(op), op \notin {"scoped", "prior"}, blob' = blob,
           NEW c
    PROVE  /\ OldRow(c)' = OldRow(c)
           /\ ScopedFailed(c)' <=> ScopedFailed(c)
           /\ PriorFailed' <=> PriorFailed
           /\ MerchantFailed(c) => MerchantFailed(c)'
<1>1. op # "scoped" /\ op # "prior"
    OBVIOUS
<1>2. ScopedFailed(c)' <=> ScopedFailed(c)
    BY <1>1, ByItself, Zenon DEF ScopedFailed
<1>3. PriorFailed' <=> PriorFailed
    BY <1>1, ByItself, Zenon DEF PriorFailed
<1>4. MerchantFailed(c) => MerchantFailed(c)'
    BY DEF MerchantFailed, Recorded
<1>5. /\ OldRow(c)' = IF blob' = NoBlob \/ PriorFailed' THEN NoRow ELSE blob'.rows[c]
      /\ OldRow(c) = IF blob = NoBlob \/ PriorFailed THEN NoRow ELSE blob.rows[c]
    BY Zenon DEF OldRow, PriorFailed
<1>6. OldRow(c)' = OldRow(c)
    BY <1>3, <1>5
<1> QED
    BY <1>2, <1>3, <1>4, <1>6

\* A step of the publish keeps that a chain whose query failed carries its old figures.
LEMMA CarriedKept ==
    ASSUME PublishInv, Publishing
    PROVE  CarriedDone'
<1>1. BlobTypeOK /\ ScopedDone /\ CarriedDone
    BY DEF PublishInv
<1> SUFFICES ASSUME PriorAt < query', NEW c \in BlobChain
             PROVE  CarriedOf(c)'
    BY DEF CarriedDone, CarriedOf, ScopedFailed, Noted
<1>2. PriorAt \in Nat /\ 2 <= PriorAt
    BY Places
<1>3. CASE PriorAt < query
    <2>0. query' # 0
        BY <1>2
    <2>1. CarriedOf(c)
        BY <1>1, <1>3 DEF CarriedDone, CarriedOf, ScopedFailed, Noted
    <2>2. /\ night' = night /\ blob' = blob /\ Recorded
          /\ draft'.priorRows = draft.priorRows
          /\ draft'.rows[c].scoped = draft.rows[c].scoped
          /\ draft.stale \subseteq draft'.stale
          /\ \A b : Noted("scoped", c, b)' => Noted("scoped", c, b)
        BY <1>1, <1>3, <2>0, LateStep
    <2>3. PICK op : At(op) /\ op \notin {"scoped", "prior"}
        BY <1>1, <1>3, <2>0, LateStep
    <2>4. /\ OldRow(c)' = OldRow(c)
          /\ ScopedFailed(c)' <=> ScopedFailed(c)
        BY <2>2, <2>3, OldRowKept
    <2>5. \A b : Noted("scoped", c, b) => Noted("scoped", c, b)'
        BY <2>2 DEF Noted
    <2> QED
        BY <2>1, <2>2, <2>4, <2>5 DEF CarriedOf
<1>4. CASE ~(PriorAt < query)
    <2>1. Goes /\ Prior
        BY <1>1, <1>4, PriorPassed
    <2>2. /\ query = PriorAt
          /\ draft'.priorRows[c] = OldRow(c)'
          /\ ScopedFailed(c)' <=> ScopedFailed(c)
          /\ LET old == OldRow(c)'
                 row == draft.rows[c]
             IN /\ draft'.rows[c] = IF row.scoped = 0 /\ old.scoped # 0 THEN old ELSE row
                /\ \A b : Noted("scoped", c, b)' <=> row.scoped = 0 /\ b = (old.scoped # 0)
        BY <2>1, PriorIs
    <2>3. draft.rows[c].scoped = IF ScopedFailed(c) THEN 0 ELSE night
        <3>1. PICK i \in DOMAIN ChainOrder : ChainOrder[i] = c
            BY ChainHasPlace
        <3>2. i \in Nat /\ i + 1 < PriorAt
            BY Places
        <3>3. 0 < query /\ query <= PriorAt /\ i + 1 < query
            BY <1>2, <2>2, <3>2
        <3> QED
            BY <1>1, <3>1, <3>3 DEF ScopedDone, ScopedFailed
    <2>4. night' = night /\ night # 0
        BY <1>1, <2>1, NightTyped DEF Goes
    <2> QED
        BY <2>2, <2>3, <2>4 DEF CarriedOf
<1> QED
    BY <1>3, <1>4

\* At its place in the program a query is the one in work, and its action the step.
LEMMA OwnPlace ==
    ASSUME query \in 1..StoreAt
    PROVE  /\ \A i \in DOMAIN ChainOrder : query = PriorAt + i => At("merchant")
           /\ \A j \in DOMAIN Sections : query = CountsAt + j => At("section")
           /\ \A j \in DOMAIN Ladder : query = WitnessedAt + 1 + j => At("tier")
<1>1. query # 0
    BY Places
<1>2. ASSUME NEW op, NEW x, Program[query] = <<op, x>> PROVE At(op)
    BY <1>1, <1>2, NamesIt, Zenon DEF Names, At
<1>3. /\ DOMAIN ChainOrder = 1..Len(ChainOrder) /\ DOMAIN Sections = 1..Len(Sections)
      /\ DOMAIN Ladder = 1..Len(Ladder)
    BY Lengths
<1>4. /\ \A i \in DOMAIN ChainOrder : Program[PriorAt + i] = <<"merchant", ChainOrder[i]>>
      /\ \A j \in DOMAIN Sections : Program[CountsAt + j] = <<"section", Sections[j]>>
      /\ \A j \in DOMAIN Ladder :
            Program[WitnessedAt + 1 + j] = <<"tier", Ladder[j]>>
    BY <1>3, ProgramIs, Zenon
<1>5. \A i \in DOMAIN ChainOrder : query = PriorAt + i => At("merchant")
    BY <1>2, <1>4, Zenon
<1>6. \A j \in DOMAIN Sections : query = CountsAt + j => At("section")
    BY <1>2, <1>4, Zenon
<1>7. \A j \in DOMAIN Ladder : query = WitnessedAt + 1 + j => At("tier")
    BY <1>2, <1>4, Zenon
<1> QED
    BY <1>5, <1>6, <1>7, Zenon

\* A publish that goes on takes the step of the query it stands at.
LEMMA OwnStep ==
    ASSUME BlobTypeOK, Publishing, Goes
    PROVE  /\ At("merchant") => Merchant
           /\ At("section") => InstrSection
           /\ At("tier") => Tier
<1>1. \A o, op : At(o) /\ At(op) => o = op
    BY Zenon DEF At
<1>2. query' # 0 /\ query # 0
    BY Places DEF Goes
<1>3. ~NextNight /\ ~StartPublish /\ ~Ends
    BY <1>2 DEF NextNight, StartPublish, Ends
<1> QED
    BY <1>1, <1>3, StepIs DEF Skips, Plain, Scoped, Prior, PriorTiers,
                              Merchant, InstrSection, Tier

\* The merchant tiers, chain by chain: still to come, or come to something.
LEMMA MerchantKept ==
    ASSUME PublishInv, Publishing
    PROVE  MerchantDone'
<1>1. /\ BlobTypeOK /\ ScopedDone /\ CarriedDone /\ MerchantDone
      /\ AbortedWhere
    BY DEF PublishInv
<1> SUFFICES ASSUME PriorAt < query', NEW i \in DOMAIN ChainOrder
             PROVE  /\ query' <= PriorAt + i =>
                          draft'.rows[ChainOrder[i]].merchant
                             \in {0, OldRow(ChainOrder[i])'.merchant}
                    /\ ~(query' <= PriorAt + i) => MerchantOf(ChainOrder[i])'
    BY DEF MerchantDone, MerchantOf, MerchantFailed, PriorFailed, Noted
<1> DEFINE c == ChainOrder[i]
<1>2. /\ PriorAt \in Nat /\ 2 <= PriorAt /\ StoreAt \in Nat /\ i \in Nat
      /\ i >= 1 /\ PriorAt + i < KindsAt /\ KindsAt < WitnessedAt
      /\ KindsAt \in Nat /\ WitnessedAt \in Nat /\ WitnessedAt < StoreAt
      /\ query \in 0..StoreAt
    BY <1>1, Places DEF BlobTypeOK
<1>3. c \in BlobChain
    BY DEF BlobChain, ToSet
<1>4. PriorAt < query =>
        /\ query <= PriorAt + i => draft.rows[c].merchant \in {0, OldRow(c).merchant}
        /\ ~(query <= PriorAt + i) => MerchantOf(c)
    BY <1>1 DEF MerchantDone, MerchantOf, MerchantFailed, PriorFailed, Noted
<1>5. CASE ~(PriorAt < query)
    <2>1. Goes /\ Prior
        BY <1>1, <1>5, PriorPassed
    <2>2. /\ query = PriorAt
          /\ LET old == OldRow(c)'
                 row == draft.rows[c]
             IN draft'.rows[c] = IF row.scoped = 0 /\ old.scoped # 0 THEN old ELSE row
        BY <1>3, <2>1, PriorIs
    <2>3. draft.rows[c].merchant = 0
        <3>1. 0 < query /\ query <= PriorAt
            BY <1>2, <2>2
        <3> QED
            BY <1>1, <3>1 DEF ScopedDone
    <2>4. query' = PriorAt + 1 /\ query' <= PriorAt + i
        BY <1>2, <2>1, <2>2 DEF Goes
    <2> QED
        BY <2>2, <2>3, <2>4
<1>6. CASE PriorAt < query
    <2>0. query' # 0
        BY <1>2
    <2>1. /\ Goes \/ Skips
          /\ night' = night /\ blob' = blob /\ Recorded /\ query \in 1..StoreAt
          /\ draft'.rows[c].scoped = draft.rows[c].scoped
          /\ Merchant \/ draft'.rows = draft.rows
          /\ draft.stale \subseteq draft'.stale
        BY <1>1, <1>3, <1>6, <2>0, LateStep
    <2>2. PICK op : At(op) /\ op \notin {"scoped", "prior"}
        BY <1>1, <1>6, <2>0, LateStep
    <2>3. /\ OldRow(c)' = OldRow(c)
          /\ PriorFailed' <=> PriorFailed
          /\ MerchantFailed(c) => MerchantFailed(c)'
        BY <2>1, <2>2, OldRowKept
    <2>4. \A b : Noted("merchant", c, b) => Noted("merchant", c, b)'
        BY <2>1 DEF Noted
    \* Its own query, or another.
    <2>5. CASE ~Merchant \/ query # PriorAt + i
        <3>1. draft'.rows[c] = draft.rows[c]
            <4>1. CASE ~Merchant
                BY <2>1, <4>1
            <4>2. CASE Merchant /\ query # PriorAt + i
                <5>1. /\ query - PriorAt \in DOMAIN ChainOrder
                      /\ Subject = ChainOrder[query - PriorAt]
                    BY <2>1, <4>2, WhereAt DEF Merchant
                <5>2. query - PriorAt # i
                    BY <1>2, <4>2
                <5>3. c # Subject
                    BY <5>1, <5>2, BlobAssumption, Zenon
                <5> QED
                    BY <1>1, <1>3, <4>2, <5>3, MerchantIs
            <4> QED
                BY <2>5, <4>1, <4>2
        <3>2. query # PriorAt + i
            <4>1. Skips => query # PriorAt + i
                BY <1>2 DEF Skips
            <4>2. Goes /\ query = PriorAt + i => Merchant
                BY <1>1, <2>1, OwnPlace, OwnStep
            <4> QED
                BY <2>1, <2>5, <4>1, <4>2
        <3>3. query' <= PriorAt + i <=> query <= PriorAt + i
            BY <1>2, <2>1, <3>2 DEF Goes, Skips
        <3>4. MerchantOf(c) => MerchantOf(c)'
            BY <2>1, <2>3, <2>4, <3>1 DEF MerchantOf
        <3> QED
            BY <1>4, <1>6, <2>3, <3>1, <3>3, <3>4
    <2>6. CASE Merchant /\ query = PriorAt + i
        <3>1. Subject = c /\ Program[query] = <<"merchant", c>>
            <4>1. /\ Subject = ChainOrder[query - PriorAt]
                  /\ Program[query] = <<"merchant", Subject>>
                BY <2>1, <2>6, WhereAt DEF Merchant
            <4>2. query - PriorAt = i
                BY <1>2, <2>6
            <4> QED
                BY <4>1, <4>2
        <3>2. ~(query' <= PriorAt + i)
            BY <1>2, <2>1, <2>6 DEF Goes, Skips
        <3>3. \/ c \notin Scopable \/ draft.rows[c].scoped = 0
              \/ draft'.rows[c].merchant = night
              \/ LET old == draft.priorRows[c].merchant
                 IN /\ Runs(FALSE)
                    /\ draft'.rows[c].merchant
                          = IF old # 0 THEN old ELSE draft.rows[c].merchant
                    /\ <<"merchant", c, old # 0>> \in draft'.stale
            <4> HIDE DEF c
            <4> QED
                BY <1>1, <2>6, <3>1, MerchantIs
        <3>4. CASE c \notin Scopable \/ draft.rows[c].scoped = 0 \/ draft'.rows[c].merchant = night
            BY <2>1, <3>2, <3>4 DEF MerchantOf
        <3>5. CASE LET old == draft.priorRows[c].merchant
                   IN /\ Runs(FALSE)
                      /\ draft'.rows[c].merchant
                            = IF old # 0 THEN old ELSE draft.rows[c].merchant
                      /\ <<"merchant", c, old # 0>> \in draft'.stale
            <4>1. draft.priorRows[c] = OldRow(c)
                BY <1>1, <1>3, <1>6 DEF CarriedDone
            <4>2. draft.rows[c].merchant \in {0, OldRow(c).merchant}
                BY <1>2, <1>4, <1>6, <2>6
            <4>3. draft'.rows[c].merchant = OldRow(c).merchant
                BY <3>5, <4>1, <4>2
            <4>4. <<"merchant", c, draft'.rows[c].merchant # 0>> \in draft'.stale
                BY <3>5, <4>1, <4>3
            <4>5. PriorFailed \/ Program[query] \in failed'
                <5>1. Runs(FALSE)
                    BY <3>5
                <5>2. PriorFailed \/ txn = "clean"
                    BY <1>1, <1>2, <2>6, AbortedIs, Places
                <5>3. txn = "clean" => Program[query] \in failed'
                    BY <5>1, RunsIs
                <5> QED
                    BY <5>2, <5>3
            <4>6. PriorFailed' \/ MerchantFailed(c)'
                BY <2>3, <3>1, <4>5 DEF MerchantFailed
            <4> QED
                BY <2>3, <3>2, <4>3, <4>4, <4>6 DEF MerchantOf, Noted
        <3> QED
            BY <3>3, <3>4, <3>5
    <2> QED
        BY <2>5, <2>6
<1> QED
    BY <1>5, <1>6

\* A section that is missing comes behind one whose own query failed.
LEMMA SectionsKept ==
    ASSUME PublishInv, Publishing
    PROVE  SectionsDone'
<1>1. /\ BlobTypeOK /\ SectionsDone /\ AbortedWhere
      /\ (query = 0 => draft = EmptyDraft)
    BY DEF PublishInv
<1> SUFFICES ASSUME NEW j \in DOMAIN Sections, CountsAt + j < query',
                    draft'.instr[Sections[j]] = 0
             PROVE  \E t \in Section : Before(t, Sections[j]) /\ <<"section", t>> \in failed'
    BY Zenon DEF SectionsDone, Before
<1>2. /\ PriorAt \in Nat /\ 2 <= PriorAt /\ StoreAt \in Nat /\ j \in Nat
      /\ j >= 1 /\ CountsAt \in Nat /\ CountsAt + j < WitnessedAt
      /\ PriorAt + 3 < CountsAt /\ WitnessedAt \in Nat
      /\ WitnessedAt < StoreAt /\ query \in 0..StoreAt
    BY <1>1, Places DEF BlobTypeOK
<1>3. query' # 0
    BY <1>2
<1>4. PriorAt < query
    <2>1. Goes => PriorAt < query
        BY <1>2 DEF Goes
    <2>2. Skips => PriorAt < query
        BY <1>2 DEF Skips
    <2>3. ~NextNight /\ ~StartPublish /\ ~Ends
        <3>1. ~(CountsAt + j < 0) /\ ~(CountsAt + j < 1)
            BY <1>2
        <3> QED
            BY <3>1 DEF NextNight, StartPublish, Ends
    <2> QED
        BY <1>1, <2>1, <2>2, <2>3, StepIs
<1>5. /\ Goes \/ Skips
      /\ Recorded /\ query \in 1..StoreAt
      /\ InstrSection \/ draft'.instr = draft.instr
    BY <1>1, <1>3, <1>4, LateStep
<1>6. ASSUME CountsAt + j < query, draft.instr[Sections[j]] = 0
      PROVE  \E t \in Section : Before(t, Sections[j]) /\ <<"section", t>> \in failed'
    <2>1. PICK t \in Section : Before(t, Sections[j]) /\ <<"section", t>> \in failed
        BY <1>1, <1>6, Zenon DEF SectionsDone
    <2> QED
        BY <1>5, <2>1 DEF Recorded
<1>7. \A i \in DOMAIN Sections : Sections[i] \in Section
    BY DEF Section, ToSet
<1>8. CASE InstrSection
    <2>1. PICK ok \in BOOLEAN :
              /\ Runs(ok)
              /\ draft'.instr[Subject] = IF ok THEN night ELSE 0
              /\ \A s \in Section : s # Subject => draft'.instr[s] = draft.instr[s]
        BY <1>1, <1>8, SectionIs
    <2>2. PICK k \in DOMAIN Sections :
              /\ query = CountsAt + k /\ Subject = Sections[k]
              /\ Program[query] = <<"section", Sections[k]>>
        <3>1. /\ query - CountsAt \in DOMAIN Sections
              /\ Subject = Sections[query - CountsAt]
              /\ Program[query] = <<"section", Subject>>
            BY <1>5, <1>8, WhereAt DEF InstrSection
        <3>2. query = CountsAt + (query - CountsAt)
            BY <1>2
        <3> QED
            BY <3>1, <3>2, Zenon
    <2>3. k \in Nat /\ CountsAt + k < WitnessedAt
        BY Places
    <2>4. j <= k
        <3>1. query' = query + 1
            BY <1>2, <1>5, <2>2, <2>3 DEF Goes, Skips
        <3> QED
            BY <1>2, <2>2, <2>3, <3>1
    <2>5. CASE Sections[j] # Sections[k]
        <3>1. CountsAt + j < query
            <4>1. j # k
                BY <2>5
            <4> QED
                BY <1>2, <2>2, <2>3, <2>4, <4>1
        <3>2. draft.instr[Sections[j]] = 0
            BY <1>7, <2>1, <2>2, <2>5
        <3> QED
            BY <1>6, <3>1, <3>2
    <2>6. CASE Sections[j] = Sections[k]
        <3>1. ~ok
            <4>1. night # 0
                BY <1>1, NightTyped
            <4> QED
                BY <2>1, <2>2, <2>6, <4>1
        <3>2. CASE txn = "clean"
            <4>1. <<"section", Sections[k]>> \in failed'
                BY <2>1, <2>2, <3>1, <3>2, RunsIs
            <4>2. Before(Sections[k], Sections[j])
                <5>1. k <= k
                    BY <2>3
                <5> QED
                    BY <2>6, <5>1, Zenon DEF Before
            <4> QED
                BY <1>7, <4>1, <4>2
        <3>3. CASE txn # "clean"
            <4>1. PICK i \in DOMAIN Sections : CountsAt + i < query /\ SectionFailed(i)
                BY <1>1, <1>2, <2>2, <2>3, <3>3, AbortedIs, Places
            <4>2. i <= k
                BY <1>2, <2>2, <2>3, <4>1, Places
            <4>3. Before(Sections[i], Sections[j])
                BY <2>6, <4>2, Zenon DEF Before
            <4>4. <<"section", Sections[i]>> \in failed'
                BY <1>5, <4>1 DEF Recorded, SectionFailed
            <4> QED
                BY <1>7, <4>3, <4>4
        <3> QED
            BY <3>2, <3>3
    <2> QED
        BY <2>5, <2>6
<1>9. CASE ~InstrSection
    <2>1. draft.instr[Sections[j]] = 0
        BY <1>5, <1>9
    <2>2. Goes => query # CountsAt + j
        BY <1>1, <1>5, <1>9, OwnPlace, OwnStep
    <2>3. CountsAt + j < query
        BY <1>2, <1>5, <2>2 DEF Goes, Skips
    <2> QED
        BY <1>6, <2>1, <2>3
<1> QED
    BY <1>8, <1>9

\* A seller index of another night comes from a failure of its own, or of what stands
\* before it.
TierOf(i) ==
    \/ draft.tiers[Ladder[i]] = night
    \/ /\ Noted("tier", Ladder[i], draft.tiers[Ladder[i]] # 0)
       /\ \/ <<"tier", Ladder[i]>> \in failed
          \/ Ladder[i] = Ladder[1] /\ TiersFailed
IndexLost == <<"witnessed", "">> \in failed \/ SectionsFailed

\* A step of the publish keeps what is known of the tiers already measured.
LEMMA TiersKept ==
    ASSUME PublishInv, Publishing
    PROVE  TiersDone'
<1>1. /\ BlobTypeOK /\ TiersDone /\ AbortedWhere
      /\ (query = 0 => draft = EmptyDraft)
    BY DEF PublishInv
<1> SUFFICES /\ draft'.index => \A j \in DOMAIN Ladder :
                                   WitnessedAt + 1 + j < query' => TierOf(j)'
             /\ ~draft'.index => IndexLost'
    BY DEF TiersDone, TierOf, IndexLost, TiersFailed, Noted
<1>2. /\ draft.index => \A j \in DOMAIN Ladder : WitnessedAt + 1 + j < query => TierOf(j)
      /\ ~draft.index => IndexLost
    BY <1>1 DEF TiersDone, TierOf, IndexLost, TiersFailed, Noted
<1>3. /\ PriorAt \in Nat /\ 2 <= PriorAt /\ StoreAt \in Nat
      /\ PriorAt + 3 < WitnessedAt /\ WitnessedAt \in Nat
      /\ WitnessedAt + 3 <= StoreAt /\ query \in 0..StoreAt
      /\ \A j \in DOMAIN Ladder : j \in Nat /\ j >= 1
      /\ 1 \in DOMAIN Ladder
    BY <1>1, Places DEF BlobTypeOK
<1>4. draft' = EmptyDraft /\ query' \in {0, 1} =>
         draft'.index /\ \A j \in DOMAIN Ladder : ~(WitnessedAt + 1 + j < query')
    BY <1>3 DEF EmptyDraft
<1>5. Recorded => (IndexLost => IndexLost')
    <2>1. Recorded => (<<"witnessed", "">> \in failed => <<"witnessed", "">> \in failed')
        BY Zenon DEF Recorded
    <2>2. Recorded => (SectionsFailed => SectionsFailed')
        BY Zenon DEF Recorded, SectionsFailed
    <2> QED
        BY <2>1, <2>2, Zenon DEF IndexLost
<1>6. CASE NextNight \/ StartPublish \/ Ends
    BY <1>1, <1>4, <1>6 DEF NextNight, StartPublish, Ends
<1>7. CASE Skips
    <2>1. ~draft'.index
        BY <1>1, <1>7, SkipsIs
    <2>2. IndexLost'
        <3>1. CASE txn = "clean"
            <4>1. Program[query] \in failed' /\ query = WitnessedAt
                BY <1>7, <3>1 DEF Skips
            <4> QED
                BY <4>1, ProgramIs, Zenon DEF IndexLost
        <3>2. CASE txn # "clean"
            <4>1. query = WitnessedAt
                BY <1>7 DEF Skips
            <4>2. PICK i \in DOMAIN Sections : SectionFailed(i)
                BY <1>1, <3>2, <4>1, AbortedIs, Places
            <4>3. Sections[i] \in Section
                BY DEF Section, ToSet
            <4>4. IndexLost
                BY <4>2, <4>3, Zenon DEF IndexLost, SectionsFailed, SectionFailed
            <4> QED
                BY <1>5, <1>7, <4>4 DEF Skips
        <3> QED
            BY <3>1, <3>2
    <2> QED
        BY <2>1, <2>2
<1>8. CASE Goes /\ ~(PriorAt < query)
    <2>1. draft'.index = draft.index
        <3>1. CASE Plain
            BY <3>1 DEF Plain
        <3>2. CASE Scoped
            BY <1>1, <3>2, ScopedIs
        <3>3. CASE Prior
            BY <3>3, PriorIs
        <3>4. ~At("merchant") /\ ~At("section") /\ ~At("priorTiers")
              /\ ~At("tier")
            BY <1>1, <1>8, GoesOn, WhereAt, Places
        <3>5. ~NextNight /\ ~StartPublish /\ ~Ends /\ ~Skips
            BY <1>3, <1>8, Places DEF NextNight, StartPublish, Ends, Skips, Goes
        <3> QED
            BY <1>1, <3>1, <3>2, <3>3, <3>4, <3>5, StepIs
               DEF Merchant, InstrSection, PriorTiers, Tier
    <2>2. \A j \in DOMAIN Ladder : ~(WitnessedAt + 1 + j < query')
        BY <1>3, <1>8 DEF Goes
    <2> QED
        BY <1>2, <1>5, <1>8, <2>1, <2>2 DEF Goes
<1>9. CASE Goes /\ PriorAt < query
    <2>0. query' # 0
        BY <1>3, <1>9 DEF Goes
    <2>1. /\ night' = night /\ Recorded /\ query \in 1..StoreAt
          /\ Tier \/ draft'.tiers = draft.tiers
          /\ Skips \/ draft'.index = draft.index
          /\ draft.stale \subseteq draft'.stale
        BY <1>1, <1>9, <2>0, LateStep
    <2>2. ~Skips
        BY <1>3, <1>9 DEF Skips, Goes
    <2>3. ASSUME NEW j \in DOMAIN Ladder, TierOf(j), draft'.tiers[Ladder[j]] = draft.tiers[Ladder[j]]
          PROVE  TierOf(j)'
        <3>1. Noted("tier", Ladder[j], draft.tiers[Ladder[j]] # 0) =>
                 <<"tier", Ladder[j], draft'.tiers[Ladder[j]] # 0>> \in draft'.stale
            BY <2>1, <2>3 DEF Noted
        <3>2. <<"tier", Ladder[j]>> \in failed => <<"tier", Ladder[j]>> \in failed'
            BY <2>1 DEF Recorded
        <3>3. TiersFailed => TiersFailed'
            BY <2>1, Zenon DEF Recorded, TiersFailed
        <3> QED
            BY <2>1, <2>3, <3>1, <3>2, <3>3 DEF TierOf, Noted
    <2> SUFFICES ASSUME draft.index, NEW j \in DOMAIN Ladder, WitnessedAt + 1 + j < query'
                 PROVE  TierOf(j)'
        BY <1>2, <1>5, <2>1, <2>2
    <2>4. CASE ~Tier
        <3>1. query # WitnessedAt + 1 + j
            BY <1>1, <1>9, <2>1, <2>4, OwnPlace, OwnStep
        <3>2. WitnessedAt + 1 + j < query
            BY <1>3, <1>9, <3>1 DEF Goes
        <3> QED
            BY <1>2, <2>1, <2>3, <2>4, <3>2
    <2>5. CASE Tier
        <3>1. /\ \A e \in ToSet(Ladder) : e # Subject => draft'.tiers[e] = draft.tiers[e]
              /\ \/ draft'.tiers[Subject] = night
                 \/ /\ Runs(FALSE)
                    /\ <<"tier", Subject, draft'.tiers[Subject] # 0>> \in draft'.stale
            BY <1>1, <2>5, TierIs
        <3>2. PICK k \in DOMAIN Ladder :
                  /\ query = WitnessedAt + 1 + k /\ Subject = Ladder[k]
                  /\ Program[query] = <<"tier", Ladder[k]>>
            <4>1. /\ query - (WitnessedAt + 1) \in DOMAIN Ladder
                  /\ Subject = Ladder[query - (WitnessedAt + 1)]
                  /\ Program[query] = <<"tier", Subject>>
                BY <2>1, <2>5, WhereAt DEF Tier
            <4>2. query = WitnessedAt + 1 + (query - (WitnessedAt + 1))
                BY <1>3
            <4> QED
                BY <4>1, <4>2, Zenon
        <3>3. Ladder[j] \in ToSet(Ladder)
            BY DEF ToSet
        <3>4. CASE Ladder[j] # Ladder[k]
            <4>1. j # k
                BY <3>4
            <4>2. WitnessedAt + 1 + j < query
                BY <1>3, <1>9, <3>2, <4>1 DEF Goes
            <4> QED
                BY <1>2, <2>3, <3>1, <3>2, <3>3, <3>4, <4>2
        <3>5. CASE Ladder[j] = Ladder[k]
            <4>1. CASE draft'.tiers[Ladder[k]] = night
                BY <2>1, <3>5, <4>1 DEF TierOf
            <4>2. CASE /\ Runs(FALSE)
                       /\ <<"tier", Ladder[k], draft'.tiers[Ladder[k]] # 0>> \in draft'.stale
                <5>1. CASE txn = "clean"
                    <6>1. <<"tier", Ladder[k]>> \in failed'
                        BY <3>2, <4>2, <5>1, RunsIs
                    <6> QED
                        BY <3>5, <4>2, <6>1 DEF TierOf, Noted
                <5>2. CASE txn # "clean"
                    <6>1. TiersFailed /\ query = WitnessedAt + 2
                        BY <1>1, <1>3, <3>2, <5>2, AbortedIs, Places
                    <6>2. k = 1
                        BY <1>3, <3>2, <6>1
                    <6>3. TiersFailed'
                        BY <2>1, <6>1, Zenon DEF Recorded, TiersFailed
                    <6> QED
                        BY <3>5, <4>2, <6>2, <6>3 DEF TierOf, Noted
                <5> QED
                    BY <5>1, <5>2
            <4> QED
                BY <3>1, <3>2, <4>1, <4>2
        <3> QED
            BY <3>4, <3>5
    <2> QED
        BY <2>4, <2>5
<1> QED
    BY <1>1, <1>6, <1>7, <1>8, <1>9, StepIs

-----------------------------------------------------------------------------
\* Before the first night nothing has been put together.
LEMMA PublishStarts ==
    ASSUME StatsInit
    PROVE  PublishInv
<1>1. /\ night = 1 /\ blob = NoBlob /\ query = 0 /\ txn = "clean" /\ draft = EmptyDraft
      /\ failed = {} /\ ended = "never" /\ faults = 0
    BY DEF StatsInit, BlobInit
<1>2. MaxNight \in Nat /\ MaxFault \in Nat /\ MaxNight >= 1
    BY BlobAssumption
<1>3. BlobTypeOK
    <2>1. NoRow \in Row
        BY <1>2 DEF NoRow, Row
    <2>2. EmptyDraft \in Drafts
        BY <1>2, <2>1 DEF EmptyDraft, Drafts, NoRows, NoTiers
    <2>3. StoreAt \in Nat
        BY Places
    <2> QED
        BY <1>1, <1>2, <2>2, <2>3 DEF BlobTypeOK, Night
<1>4. ~(PriorAt < 0) /\ CountsAt \in Nat /\ WitnessedAt \in Nat
      /\ (\A j \in DOMAIN Sections : j \in Nat) /\ \A j \in DOMAIN Ladder : j \in Nat
    BY Places
<1>5. AbortedWhere /\ FailedInTurn /\ ScopedDone /\ AlwaysPublished
    BY <1>1 DEF AbortedWhere, FailedInTurn, ScopedDone, AlwaysPublished
<1>6. CarriedDone /\ MerchantDone
    BY <1>1, <1>4 DEF CarriedDone, MerchantDone
<1>7. SectionsDone
    <2>1. \A j \in DOMAIN Sections : ~(CountsAt + j < query)
        BY <1>1, <1>4
    <2> QED
        BY <2>1 DEF SectionsDone
<1>8. TiersDone
    <2>1. \A j \in DOMAIN Ladder : ~(WitnessedAt + 1 + j < query)
        BY <1>1, <1>4
    <2>2. draft.index
        BY <1>1 DEF EmptyDraft
    <2> QED
        BY <2>1, <2>2 DEF TiersDone
<1> QED
    BY <1>1, <1>3, <1>5, <1>6, <1>7, <1>8 DEF PublishInv

\* Every step of the publish step and of the server keeps the invariant.
LEMMA PublishKeeps ==
    ASSUME PublishInv, Publishing \/ UNCHANGED blobVars
    PROVE  PublishInv'
<1>1. CASE Publishing
    <2>1. BlobTypeOK
        BY DEF PublishInv
    <2>2. BlobTypeOK'
        BY <1>1, <2>1, BlobTypeKeeps
    <2> QED
        BY <1>1, <2>2, EmptyKept, AbortedKept, InTurnKept, ScopedKept, CarriedKept,
           MerchantKept, SectionsKept, TiersKept, PublishedKept DEF PublishInv
<1>2. CASE UNCHANGED blobVars
    <2>1. UNCHANGED <<night, blob, query, txn, draft, failed, ended, faults>>
        BY <1>2 DEF blobVars
    <2>2. /\ BlobTypeOK' /\ AbortedWhere' /\ FailedInTurn'
          /\ ScopedDone' /\ AlwaysPublished'
        BY <2>1 DEF PublishInv, BlobTypeOK, AbortedWhere,
                    FailedInTurn, ScopedDone, AlwaysPublished
    <2>3. \A c : OldRow(c)' = OldRow(c)
        BY <2>1 DEF OldRow
    <2>4. SectionsFailed' = SectionsFailed
        BY <2>1 DEF SectionsFailed
    <2>5. CarriedDone' /\ MerchantDone'
        BY <2>1, <2>3 DEF PublishInv, CarriedDone, MerchantDone
    <2>6. SectionsDone' /\ TiersDone'
        BY <2>1, <2>4 DEF PublishInv, SectionsDone, TiersDone
    <2> QED
        BY <2>1, <2>2, <2>5, <2>6 DEF PublishInv
<1> QED
    BY <1>1, <1>2

\* The server's steps leave the publish step alone.
LEMMA ServingApart ==
    ASSUME [StatsNext]_statsVars
    PROVE  Publishing \/ UNCHANGED blobVars
    BY DEF StatsNext, statsVars, Serving, Seed, Compute,
           ComputeFails, Save, Restart

\* Whatever fails, and wherever the step is, what it has put together so far is as
\* PublishInv says (daily_snapshot.py:882, :1194).
THEOREM PublishInvariant == StatsSpec => []PublishInv
<1>1. StatsInit => PublishInv
    BY PublishStarts
<1>2. PublishInv /\ [StatsNext]_statsVars => PublishInv'
    BY PublishKeeps, ServingApart
<1> QED
    BY <1>1, <1>2, PTL DEF StatsSpec

\* A publish step that lives to its end stores a blob, unless the coverage dates cannot
\* be read or the blob itself cannot be stored (daily_snapshot.py:1088).
THEOREM BlobIsPublished == StatsSpec => []AlwaysPublished
<1>1. PublishInv => AlwaysPublished
    BY DEF PublishInv
<1> QED
    BY <1>1, PublishInvariant, PTL

\* The step that publishes is the last query, and it stores what was put together.
LEMMA PublishedIs ==
    ASSUME BlobTypeOK, Publishing, Published
    PROVE  /\ query = StoreAt /\ PriorAt < query
           /\ blob'.rows = draft.rows /\ blob'.tiers = draft.tiers
           /\ blob'.instr = draft.instr /\ blob'.index = draft.index
           /\ blob'.stale = draft.stale
<1>1. /\ query = StoreAt /\ query' = 0 /\ ended' = "published"
      /\ StoreAt \in Nat /\ PriorAt < StoreAt /\ StoreAt # 0
    BY Places DEF Published
<1>2. Names(query, "store")
    BY <1>1, ProgramIs, NamesIt, Zenon
<1>3. \A op : At(op) => op = "store"
    BY <1>2, Zenon DEF Names, At
<1>4. Store
    BY <1>1, <1>3
       DEF Publishing, Querying, NextNight, StartPublish, Killed,
           Limit, Scoped, Prior, Merchant, PayerKinds, Clean,
           Since, Counts, InstrSection, Witnessed, PriorTiers,
           Tier
<1>5. blob' = [night |-> night, rows |-> draft.rows, tiers |-> draft.tiers,
               instr |-> draft.instr, index |-> draft.index, stale |-> draft.stale]
    BY <1>1, <1>4 DEF Store, Abandon
<1> QED
    BY <1>1, <1>5

\* In every blob that is stored, each figure of tonight is there whose own query did not
\* fail, and every other one is the last published one, or missing, with its note
\* (daily_snapshot.py:882, :1194), for any chains, sections, nights and faults.
THEOREM FailuresStayIsolated == StatsSpec => FailuresIsolated
<1>1. PublishInv /\ [StatsNext]_statsVars => [Published => Isolated]_statsVars
    <2> SUFFICES ASSUME PublishInv, [StatsNext]_statsVars, Published
                 PROVE  Isolated
        OBVIOUS
    <2>1. /\ BlobTypeOK /\ CarriedDone /\ MerchantDone
          /\ SectionsDone /\ TiersDone
        BY DEF PublishInv
    <2>2. Publishing
        <3>1. StoreAt # 0 /\ query = StoreAt /\ query' = 0
            BY Places DEF Published
        <3> QED
            BY <3>1, ServingApart DEF blobVars
    <2>3. /\ query = StoreAt /\ PriorAt < query
          /\ blob'.rows = draft.rows /\ blob'.tiers = draft.tiers
          /\ blob'.instr = draft.instr /\ blob'.index = draft.index
          /\ blob'.stale = draft.stale
        BY <2>1, <2>2, PublishedIs
    <2>4. ASSUME NEW c \in BlobChain
          PROVE  /\ IF <<"scoped", c>> \in failed
                    THEN /\ draft.rows[c].scoped = OldRow(c).scoped
                         /\ <<"scoped", c, OldRow(c).scoped # 0>> \in draft.stale
                    ELSE /\ draft.rows[c].scoped = night
                         /\ \A b \in BOOLEAN : <<"scoped", c, b>> \notin draft.stale
                 /\ draft.rows[c].scoped # 0 /\ c \in Scopable /\ draft.rows[c].merchant # night =>
                       /\ draft.rows[c].merchant = OldRow(c).merchant
                       /\ <<"merchant", c, draft.rows[c].merchant # 0>> \in draft.stale
                       /\ MerchantFailed(c) \/ PriorFailed
        <3>1. PICK i \in DOMAIN ChainOrder : ChainOrder[i] = c
            BY ChainHasPlace
        <3>2. ~(query <= PriorAt + i)
            BY <2>3, Places
        <3>3. MerchantOf(c)
            BY <2>1, <2>3, <3>1, <3>2
               DEF MerchantDone, MerchantOf, MerchantFailed, PriorFailed, Noted
        <3> QED
            BY <2>1, <2>3, <3>3 DEF CarriedDone, MerchantOf, Noted
    <2>5. \A c \in BlobChain : RowIsolated(c)
        BY <2>3, <2>4 DEF RowIsolated, MerchantFailed, PriorFailed
    <2>6. blob'.index \/ <<"witnessed", "">> \in failed \/ SectionsFailed
        BY <2>1, <2>3 DEF TiersDone
    <2>7. blob'.index => \A c \in ToSet(Ladder) : TierIsolated(c)
        <3> SUFFICES ASSUME draft.index, NEW c \in ToSet(Ladder)
                     PROVE  TierIsolated(c)
            BY <2>3
        <3>1. PICK j \in DOMAIN Ladder : Ladder[j] = c
            BY DEF ToSet
        <3>2. WitnessedAt + 1 + j < query
            BY <2>3, Places
        <3> QED
            BY <2>1, <2>3, <3>1, <3>2 DEF TiersDone, TierIsolated
    <2>8. \A s \in Section : SectionIsolated(s)
        <3> SUFFICES ASSUME NEW s \in Section, draft.instr[s] = 0
                     PROVE  \E t \in Section : Before(t, s) /\ <<"section", t>> \in failed
            BY <2>3, Zenon DEF SectionIsolated
        <3>1. PICK j \in DOMAIN Sections : Sections[j] = s
            BY DEF Section, ToSet
        <3>2. CountsAt + j < query
            BY <2>3, Places
        <3> QED
            BY <2>1, <3>1, <3>2, Zenon DEF SectionsDone
    <2> QED
        BY <2>5, <2>6, <2>7, <2>8 DEF Isolated
<1> QED
    BY <1>1, PublishInvariant, PTL DEF StatsSpec, FailuresIsolated

\* What is computed of a blob is something to serve.
LEMMA PayloadTyped ==
    ASSUME NEW b, b.night \in Night, b.rows \in [BlobChain -> Row],
           b.tiers \in [ToSet(Ladder) -> 0..MaxNight], b.index \in BOOLEAN,
           b.stale \subseteq Note
    PROVE  Payload(b) \in Payloads
    BY DEF Payload, Payloads

\* A blob computed live by the server is one of the payloads.
LEMMA LiveTyped ==
    ASSUME BlobTypeOK, NEW ok \in SUBSET BlobChain
    PROVE  Payload(LiveBlob(ok)) \in Payloads
<1>1. /\ night \in 0..MaxNight /\ night \in Night
      /\ NoRow \in Row /\ MaxNight \in Nat
    BY NightTyped DEF BlobTypeOK
<1> DEFINE b == LiveBlob(ok)
<1>2. b.rows \in [BlobChain -> Row]
    BY <1>1 DEF LiveBlob, Row
<1>3. b.tiers \in [ToSet(Ladder) -> 0..MaxNight]
    BY <1>1 DEF LiveBlob
<1>4. b.stale \subseteq Note
    <2>1. ToSet(Ladder) \subseteq BlobChain
        <3>1. Ladder \in Seq(Scopable) /\ Scopable \subseteq BlobChain
            BY BlobAssumption
        <3> QED
            BY <3>1 DEF ToSet
    <2> QED
        BY <2>1 DEF LiveBlob, Note
<1>5. b.night \in Night /\ b.index \in BOOLEAN
    BY <1>1 DEF LiveBlob
<1> HIDE DEF b
<1>6. Payload(b) \in Payloads
    BY <1>2, <1>3, <1>4, <1>5, PayloadTyped
<1> QED
    BY <1>6 DEF b

\* What is served, what the copy on disk holds, and the publish step are of their kinds.
THEOREM StatsTypeCorrect == StatsSpec => []StatsTypeOK
<1>0. MaxOutage \in Nat
    BY ServerAssumption
<1>1. StatsInit => StatsTypeOK
    <2> SUFFICES ASSUME StatsInit PROVE StatsTypeOK
        OBVIOUS
    <2>1. BlobTypeOK
        BY PublishStarts DEF PublishInv
    <2> QED
        BY <1>0, <2>1 DEF StatsInit, StatsTypeOK
<1>2. StatsTypeOK /\ [StatsNext]_statsVars => StatsTypeOK'
    <2> SUFFICES ASSUME StatsTypeOK, [StatsNext]_statsVars PROVE StatsTypeOK'
        OBVIOUS
    <2>1. /\ BlobTypeOK
          /\ served = NoData \/ served \in Payloads
          /\ cache = NoData \/ cache \in Payloads
          /\ refresh \in {"seed", "compute", "save"} /\ outages \in 0..MaxOutage
        BY DEF StatsTypeOK
    <2>2. BlobTypeOK'
        BY <2>1, BlobTypeKeeps, ServingApart
    <2>3. CASE UNCHANGED serverVars
        BY <2>1, <2>2, <2>3 DEF StatsTypeOK, serverVars
    <2>4. CASE Seed
        BY <2>1, <2>2, <2>4 DEF Seed, StatsTypeOK
    <2>5. CASE Compute
        <3>1. served' \in Payloads
            <4>1. CASE blob # NoBlob /\ served' = Payload(blob)
                BY <2>1, <4>1, PayloadTyped DEF BlobTypeOK, Blobs
            <4>2. CASE \E ok \in {BlobChain, BlobChain \ Scopable} :
                          served' = Payload(LiveBlob(ok))
                <5>1. PICK ok \in SUBSET BlobChain :
                          served' = Payload(LiveBlob(ok))
                    BY <4>2
                <5> QED
                    BY <2>1, <5>1, LiveTyped
            <4> QED
                BY <2>5, <4>1, <4>2 DEF Compute
        <3> QED
            BY <2>1, <2>2, <2>5, <3>1 DEF Compute, StatsTypeOK
    <2>6. CASE ComputeFails
        <3>1. served # NoData => [served EXCEPT !.health = "crit"] \in Payloads
            BY <2>1 DEF Payloads
        <3> QED
            BY <1>0, <2>1, <2>2, <2>6, <3>1 DEF ComputeFails, StatsTypeOK
    <2>7. CASE Save
        BY <2>1, <2>2, <2>7 DEF Save, StatsTypeOK
    <2>8. CASE Restart
        BY <1>0, <2>1, <2>2, <2>8 DEF Restart, StatsTypeOK
    <2> QED
        BY <2>3, <2>4, <2>5, <2>6, <2>7, <2>8
           DEF StatsNext, Serving, statsVars, serverVars
<1> QED
    BY <1>1, <1>2, PTL DEF StatsSpec
=============================================================================
