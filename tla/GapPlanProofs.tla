--------------------------- MODULE GapPlanProofs ---------------------------
(***************************************************************************)
(* For every range table, target, subrange and request size: the planning  *)
(* loops compute exactly the missing blocks, and the fetching loops fetch  *)
(* exactly those, each once.                                               *)
(*                                                                         *)
(* The argument is a loop invariant per loop (PlanInv): a loop's exit      *)
(* condition turns its invariant into the entry condition of the next.     *)
(***************************************************************************)
EXTENDS GapPlan, TLAPS

-----------------------------------------------------------------------------
\* The rows of the table: intervals of blocks, sorted by their first block.
LEMMA TableRows ==
    ASSUME TypeOK
    PROVE  /\ Len(table) \in Nat
           /\ DOMAIN table = 1..Len(table)
           /\ \A k \in DOMAIN table :
                 /\ table[k] \in Block \X Block
                 /\ table[k][1] \in Block
                 /\ table[k][2] \in Block
                 /\ table[k][1] <= table[k][2]
           /\ \A j, k \in DOMAIN table : j <= k => table[j][1] <= table[k][1]
<1>1. table \in Seq(Block \X Block)
  BY PlanAssumption DEF TypeOK
<1>2. /\ Len(table) \in Nat
      /\ DOMAIN table = 1..Len(table)
      /\ \A k \in DOMAIN table : table[k] \in Block \X Block
  BY <1>1
<1>3. \A k \in DOMAIN table : table[k][1] \in Block /\ table[k][2] \in Block
  BY <1>2
<1>4. \A j, k \in DOMAIN table :
         /\ table[j][1] <= table[j][2]
         /\ j <= k => table[j][1] <= table[k][1]
  BY PlanAssumption DEF TypeOK
<1>5. QED
  BY <1>2, <1>3, <1>4

\* The gaps found so far: intervals of blocks.
LEMMA GapRows ==
    ASSUME TypeOK
    PROVE  /\ Len(gaps) \in Nat
           /\ DOMAIN gaps = 1..Len(gaps)
           /\ \A k \in DOMAIN gaps : gaps[k][1] \in Block /\ gaps[k][2] \in Block
<1>1. /\ Len(gaps) \in Nat
      /\ DOMAIN gaps = 1..Len(gaps)
      /\ \A k \in DOMAIN gaps : gaps[k] \in Block \X Block
  BY DEF TypeOK
<1>2. QED
  BY <1>1

\* The numbers of the loops are integers, and block numbers are.
LEMMA Numbers ==
    ASSUME TypeOK
    PROVE  /\ \A b \in Block : b \in Nat
           /\ start \in Nat /\ end \in Nat /\ frontier \in Int /\ i \in Nat
           /\ from \in Nat /\ cursor \in Nat /\ g \in Nat /\ lo \in Nat
           /\ hi \in Nat /\ chunk \in Nat /\ maxRange \in Nat \ {0}
           /\ Subrange \in Nat \ {0}
           /\ MaxBlock \in Nat
BY PlanAssumption DEF TypeOK, Block

\* Appending a gap keeps the others and adds its blocks to the plan.
LEMMA AppendGap ==
    ASSUME TypeOK, NEW a \in Block, NEW b \in Block
    PROVE  LET new == Append(gaps, <<a, b>>)
           IN  /\ new \in Seq(Block \X Block)
               /\ Len(new) = Len(gaps) + 1
               /\ DOMAIN new = DOMAIN gaps \cup {Len(gaps) + 1}
               /\ \A k \in DOMAIN gaps : new[k] = gaps[k]
               /\ new[Len(gaps) + 1][1] = a
               /\ new[Len(gaps) + 1][2] = b
<1> DEFINE new == Append(gaps, <<a, b>>)
<1>1. gaps \in Seq(Block \X Block) /\ <<a, b>> \in Block \X Block
  BY DEF TypeOK
<1>2. /\ new \in Seq(Block \X Block)
      /\ Len(new) = Len(gaps) + 1
      /\ \A k \in 1..Len(gaps) : new[k] = gaps[k]
      /\ new[Len(gaps) + 1] = <<a, b>>
  BY <1>1
<1>3. DOMAIN new = 1..(Len(gaps) + 1) /\ DOMAIN gaps = 1..Len(gaps)
  BY <1>1, <1>2
<1>4. QED
  BY <1>1, <1>2, <1>3

LEMMA InitInv == Init => TypeOK /\ PlanInv
<1> SUFFICES ASSUME Init PROVE TypeOK /\ PlanInv
  OBVIOUS
<1> USE PlanAssumption
<1>1. table \in Seq(Block \X Block) /\ Len(table) \in Nat
  BY DEF Init
<1>2. TypeOK
  BY <1>1 DEF Init, TypeOK, Block, Phases
<1>3. WalkInv /\ FrontierExact /\ FromInv
  BY DEF Init, WalkInv, FrontierExact, FromInv, Block
<1>4. GapsOrdered /\ CursorInv /\ PlanExact /\ FetchInv
  BY DEF Init, GapsOrdered, CursorInv, PlanExact, FetchInv, Block, Selected
<1>5. QED
  BY <1>2, <1>3, <1>4 DEF PlanInv, Init

-----------------------------------------------------------------------------
(***************************************************************************)
(* covered_frontier.                                                       *)
(***************************************************************************)
LEMMA WalkRowInv ==
    ASSUME TypeOK, PlanInv, WalkRow
    PROVE  TypeOK' /\ PlanInv'
<1> DEFINE l == table[i][1]
           h == table[i][2]
<1>1. /\ phase = "frontier" /\ phase' = "frontier"
      /\ i \in DOMAIN table /\ i' = i + 1
      /\ l <= frontier + 1
      /\ UNCHANGED <<table, toHead, start, end, from, cursor, gaps, g, seen>>
  BY DEF WalkRow, target, fetch
<1>2. l \in Nat /\ h \in Nat /\ l \in Block /\ h \in Block
  BY <1>1, TableRows, Numbers
<1>3. PICK f \in Int : f = Larger(frontier, h) /\ frontier' = f
  BY <1>2, Numbers DEF WalkRow, Larger
<1>4. frontier <= f /\ h <= f /\ (f = frontier \/ f = h)
  BY <1>2, <1>3, Numbers DEF Larger
<1>5. TypeOK'
  <2>1. f \in Block \cup {-1}
    BY <1>2, <1>4 DEF TypeOK
  <2>2. i + 1 \in 1..(Len(table) + 1)
    BY <1>1, TableRows
  <2>3. QED
    BY <1>1, <1>3, <2>1, <2>2 DEF TypeOK, WalkRow, fetch
<1>6. WalkInv'
  <2>1. WalkInv
    BY DEF PlanInv
  <2>2. start <= f + 1
    BY <1>1, <1>4, <2>1, Numbers DEF WalkInv
  <2>3. ASSUME NEW b \in Block, start <= b, b <= f PROVE Cov(b)
    <3>1. CASE b <= frontier
      BY <1>1, <2>1, <2>3, <3>1 DEF WalkInv
    <3>2. CASE ~(b <= frontier)
      <4>1. l <= b /\ b <= h
        BY <1>1, <1>2, <1>4, <2>3, <3>2, Numbers
      <4>2. QED
        BY <1>1, <4>1 DEF Cov
    <3>3. QED
      BY <3>1, <3>2
  <2>4. ASSUME NEW k \in DOMAIN table, k < i + 1 PROVE table[k][2] <= f
    <3>1. k \in Int /\ table[k][2] \in Nat
      BY TableRows, Numbers
    <3>2. CASE k < i
      BY <1>1, <1>4, <2>1, <3>1, <3>2, Numbers DEF WalkInv
    <3>3. CASE ~(k < i)
      BY <1>4, <2>4, <3>1, <3>3, Numbers
    <3>4. QED
      BY <3>2, <3>3
  <2>5. QED
    BY <1>1, <1>3, <2>1, <2>2, <2>3, <2>4 DEF WalkInv, Cov
<1>7. (FrontierExact /\ FromInv /\ GapsOrdered /\ CursorInv /\ PlanExact /\ FetchInv)'
  BY <1>1
  DEF PlanInv, FrontierExact, FromInv, GapsOrdered, CursorInv, PlanExact, FetchInv
<1>8. QED
  BY <1>1, <1>5, <1>6, <1>7 DEF PlanInv

LEMMA StopWalkInv ==
    ASSUME TypeOK, PlanInv, StopWalk
    PROVE  TypeOK' /\ PlanInv'
<1>1. /\ phase = "frontier" /\ phase' = "gaps"
      /\ i \in DOMAIN table => table[i][1] > frontier + 1
      /\ i' = 1
      /\ UNCHANGED <<table, toHead, start, end, frontier, gaps, g, seen>>
  BY DEF StopWalk, target, fetch
<1>2. WalkInv
  BY DEF PlanInv
<1>3. PICK f \in Nat : f = frontier + 1 /\ start <= f /\ from' = f /\ cursor' = f
  BY <1>1, <1>2, Numbers DEF WalkInv, StopWalk, Larger
<1>4. TypeOK'
  <2>1. f \in 0..(MaxBlock + 1)
    BY <1>3, PlanAssumption DEF TypeOK, Block
  <2>2. 1 \in 1..(Len(table) + 1)
    BY TableRows
  <2>3. QED
    BY <1>1, <1>3, <2>1, <2>2 DEF TypeOK, Phases, StopWalk, fetch
<1>5. ~Cov(f)
  <2>1. ASSUME NEW k \in DOMAIN table, table[k][1] <= f, f <= table[k][2]
        PROVE  FALSE
    <3>1. k \in Int /\ table[k][2] \in Nat /\ table[k][1] \in Nat
      BY TableRows, Numbers
    <3>2. ~(k < i)
      BY <1>1, <1>2, <1>3, <2>1, <3>1, Numbers DEF WalkInv
    <3>3. i \in DOMAIN table
      BY <3>1, <3>2, TableRows DEF TypeOK
    <3>4. table[i][1] <= table[k][1] /\ table[i][1] \in Nat
      <4>1. i <= k
        BY <3>1, <3>2, Numbers
      <4>2. \A m, n \in DOMAIN table : m <= n => table[m][1] <= table[n][1]
        BY TableRows
      <4>3. table[i][1] \in Nat
        BY <3>3, TableRows, Numbers
      <4>4. QED
        BY <2>1, <3>3, <4>1, <4>2, <4>3, Zenon
    <3>5. QED
      BY <1>1, <1>3, <2>1, <3>1, <3>3, <3>4, Numbers
  <2>2. QED
    BY <2>1 DEF Cov
<1>6. \A b \in Block : b <= frontier <=> b < f
  BY <1>3, Numbers
<1>7. \A b \in Block : start <= b /\ b < f => Cov(b)
  BY <1>1, <1>2, <1>6 DEF WalkInv
<1>8. FrontierExact'
  <2>1. frontier' + 1 = f
    BY <1>1, <1>3
  <2>2. QED
    BY <1>1, <1>5, <1>6, <1>7, <2>1 DEF FrontierExact, Cov
<1>9. FromInv'
  BY <1>1, <1>3, <1>7 DEF FromInv, Cov
<1>10. CursorInv'
  <2>1. gaps = <<>>
    BY <1>1 DEF PlanInv
  <2>2. \A k \in DOMAIN table : ~(k < 1)
    BY TableRows
  <2>3. \A b \in Block : ~(f <= b /\ b < f)
    BY Numbers
  <2>4. QED
    BY <1>1, <1>3, <2>1, <2>2, <2>3 DEF CursorInv
<1>11. (WalkInv /\ GapsOrdered /\ PlanExact /\ FetchInv)'
  BY <1>1 DEF PlanInv, WalkInv, GapsOrdered, PlanExact, FetchInv
<1>12. QED
  BY <1>1, <1>4, <1>8, <1>9, <1>10, <1>11 DEF PlanInv

-----------------------------------------------------------------------------
(***************************************************************************)
(* find_gaps.                                                              *)
(***************************************************************************)
\* What the planning steps leave alone.
LEMMA PlanningKeeps ==
    ASSUME PlanInv, phase = "gaps", phase' \in {"gaps", "gap"},
           UNCHANGED <<target, frontier, from, fetch>>
    PROVE  (WalkInv /\ FrontierExact /\ FromInv)'
BY DEF PlanInv, WalkInv, FrontierExact, FromInv, target, Cov

LEMMA SkipRowInv ==
    ASSUME TypeOK, PlanInv, SkipRow
    PROVE  TypeOK' /\ PlanInv'
<1> USE PlanAssumption, TableRows DEF SkipRow, target, fetch
<1>1. TypeOK'
  BY DEF TypeOK
<1>2. CursorInv'
  <2>1. \A k \in DOMAIN table : k < i + 1 /\ Selected(table[k]) => table[k][2] < cursor
    BY DEF PlanInv, CursorInv, TypeOK
  <2>2. QED
    BY <2>1 DEF PlanInv, CursorInv, Selected, Planned, InGap, Cov
<1>3. (GapsOrdered /\ PlanExact /\ FetchInv)'
  BY DEF PlanInv, GapsOrdered, PlanExact, FetchInv
<1>4. QED
  BY <1>1, <1>2, <1>3, PlanningKeeps DEF PlanInv

\* Closing a gap before the cursor's next block keeps the gaps ordered and adds
\* exactly its blocks to the plan.
LEMMA NewGap ==
    ASSUME TypeOK, GapsOrdered, UNCHANGED <<from, end>>,
           from <= cursor, \A k \in DOMAIN gaps : gaps[k][2] < cursor,
           NEW e \in Int, e <= end,
           gaps' = IF cursor <= e THEN Append(gaps, <<cursor, e>>) ELSE gaps
    PROVE  /\ gaps' \in Seq(Block \X Block)
           /\ 0 \in 0..Len(gaps')
           /\ GapsOrdered'
           /\ \A k \in DOMAIN gaps' : gaps'[k][2] < cursor \/ gaps'[k][2] <= e
           /\ \A b \in Block : Planned(b)' <=> Planned(b) \/ (cursor <= b /\ b <= e)
<1>1. CASE ~(cursor <= e)
  <2>1. gaps' = gaps
    BY <1>1
  <2>2. \A b \in Block : ~(cursor <= b /\ b <= e)
    BY <1>1, Numbers
  <2>3. 0 \in 0..Len(gaps)
    BY GapRows
  <2>4. QED
    BY <2>1, <2>2, <2>3 DEF TypeOK, GapsOrdered, Planned, InGap
<1>2. CASE cursor <= e
  <2>1. cursor \in Block /\ e \in Block
    BY <1>2, Numbers, PlanAssumption DEF TypeOK, Block
  <2> DEFINE n == Len(gaps) + 1
  <2>2. /\ gaps' \in Seq(Block \X Block)
        /\ DOMAIN gaps' = DOMAIN gaps \cup {n}
        /\ \A k \in DOMAIN gaps : gaps'[k] = gaps[k]
        /\ gaps'[n][1] = cursor
        /\ gaps'[n][2] = e
    BY <1>2, <2>1, AppendGap
  <2>3. \A k \in DOMAIN gaps : k < n /\ ~(n < k) /\ k # n
    BY GapRows
  <2>4. ~(n < n) /\ 0 \in 0..Len(gaps')
    BY <2>2, GapRows
  <2>5. GapsOrdered'
    <3>1. ASSUME NEW k \in DOMAIN gaps
          PROVE  /\ from <= gaps'[k][1]
                 /\ gaps'[k][1] <= gaps'[k][2]
                 /\ gaps'[k][2] <= end
                 /\ \A j \in DOMAIN gaps : j < k => gaps'[j][2] < gaps'[k][1]
                 /\ gaps'[k][2] < gaps'[n][1]
      BY <2>2 DEF GapsOrdered
    <3>2. QED
      BY <1>2, <2>2, <2>3, <2>4, <3>1 DEF GapsOrdered
  <2>6. \A b \in Block : Planned(b)' <=> Planned(b) \/ (cursor <= b /\ b <= e)
    BY <2>2 DEF Planned, InGap
  <2>7. QED
    BY <2>2, <2>4, <2>5, <2>6
<1>3. QED
  BY <1>1, <1>2

LEMMA TakeRowInv ==
    ASSUME TypeOK, PlanInv, TakeRow
    PROVE  TypeOK' /\ PlanInv'
<1> DEFINE l == table[i][1]
           h == table[i][2]
           e == Smaller(l - 1, end)
<1>1. /\ phase = "gaps" /\ phase' \in {"gaps", "gap"}
      /\ i \in DOMAIN table /\ i' = i + 1
      /\ h >= from /\ l <= end
      /\ UNCHANGED <<table, toHead, start, end, frontier, from, g, seen>>
  BY DEF TakeRow, target, fetch, Selected
<1>2. l \in Nat /\ h \in Nat /\ h \in Block /\ l <= h
  BY <1>1, TableRows, Numbers
<1>3. CursorInv /\ GapsOrdered
  BY DEF PlanInv
<1>4. PICK c \in Nat : c = Larger(cursor, h + 1) /\ cursor' = c
  BY <1>2, Numbers DEF TakeRow, Larger
<1>5. cursor <= c /\ h < c /\ (c = cursor \/ c = h + 1)
  BY <1>2, <1>4, Numbers DEF Larger
<1>6. /\ phase' = "gap" => end < c
      /\ phase' = "gaps" => c <= end
  BY <1>1, <1>4, Numbers DEF TakeRow
<1>7. /\ e \in Int /\ e <= end /\ e < l
      /\ l > cursor <=> cursor <= e
      /\ \A b \in Block : b <= end /\ b < l => b <= e
  BY <1>1, <1>2, Numbers DEF Smaller
<1>8. gaps' = IF cursor <= e THEN Append(gaps, <<cursor, e>>) ELSE gaps
  BY <1>7 DEF TakeRow
<1>9. /\ gaps' \in Seq(Block \X Block)
      /\ 0 \in 0..Len(gaps')
      /\ GapsOrdered'
      /\ \A k \in DOMAIN gaps' : gaps'[k][2] < cursor \/ gaps'[k][2] <= e
      /\ \A b \in Block : Planned(b)' <=> Planned(b) \/ (cursor <= b /\ b <= e)
  BY <1>1, <1>3, <1>7, <1>8, NewGap DEF CursorInv
<1>10. TypeOK'
  <2>1. c \in 0..(MaxBlock + 1)
    <3>1. cursor <= MaxBlock + 1 /\ h <= MaxBlock
      BY <1>2, PlanAssumption DEF TypeOK, Block
    <3>2. QED
      BY <1>2, <1>4, <1>5, <3>1, PlanAssumption
  <2>2. i + 1 \in 1..(Len(table) + 1)
    BY <1>1, TableRows
  <2>3. g = 0
    BY <1>1 DEF PlanInv, FetchInv
  <2>4. QED
    BY <1>1, <1>4, <1>9, <2>1, <2>2, <2>3 DEF TypeOK, Phases, TakeRow, fetch
\* Up to the new cursor, plan and coverage are complements again.
<1>11. ASSUME NEW b \in Block, from <= b, b < c, b <= end
       PROVE  Planned(b)' <=> ~Cov(b)
  <2>1. b \in Nat
    BY Numbers
  <2>2. CASE b < cursor
    BY <1>1, <1>3, <1>9, <1>11, <2>1, <2>2, Numbers DEF CursorInv
  <2>3. CASE cursor <= b /\ b < l
    <3>1. Planned(b)'
      BY <1>7, <1>9, <1>11, <2>3
    <3>2. ASSUME NEW k \in DOMAIN table, table[k][1] <= b, b <= table[k][2]
          PROVE  FALSE
      <4>1. k \in Int /\ table[k][1] \in Nat /\ table[k][2] \in Nat
        BY TableRows, Numbers
      <4>2. CASE k < i
        <5>1. table[k][2] >= from /\ table[k][1] <= end
          BY <1>11, <2>1, <3>2, <4>1, Numbers
        <5>2. table[k][2] < cursor
          BY <1>1, <1>3, <4>2, <5>1 DEF CursorInv, Selected
        <5>3. QED
          BY <2>1, <2>3, <3>2, <4>1, <5>2, Numbers
      <4>3. CASE ~(k < i)
        <5>1. i <= k
          BY <4>1, <4>3, Numbers
        <5>2. \A m, n \in DOMAIN table : m <= n => table[m][1] <= table[n][1]
          BY TableRows
        <5>3. l <= table[k][1]
          BY <1>1, <5>1, <5>2, Zenon
        <5>4. QED
          BY <1>2, <2>1, <2>3, <3>2, <4>1, <5>3
      <4>4. QED
        BY <4>2, <4>3
    <3>3. QED
      BY <3>1, <3>2 DEF Cov
  <2>4. CASE cursor <= b /\ l <= b
    <3>1. b <= h
      BY <1>2, <1>5, <1>11, <2>1, <2>4, Numbers
    <3>2. Cov(b)
      BY <1>1, <2>4, <3>1 DEF Cov
    <3>3. ~Planned(b)
      <4>1. \A k \in DOMAIN gaps : gaps[k][2] < cursor /\ gaps[k][2] \in Nat
        BY <1>1, <1>3, GapRows, Numbers DEF CursorInv
      <4>2. QED
        BY <2>1, <2>4, <4>1, Numbers DEF Planned, InGap
    <3>4. ~(b <= e)
      BY <1>2, <1>7, <2>1, <2>4
    <3>5. QED
      BY <1>9, <3>2, <3>3, <3>4
  <2>5. QED
    BY <1>2, <2>1, <2>2, <2>3, <2>4, Numbers
<1>12. CursorInv'
  <2>1. ASSUME NEW k \in DOMAIN table, k < i + 1, Selected(table[k])
        PROVE  table[k][2] < c
    <3>1. k \in Int /\ table[k][2] \in Nat
      BY TableRows, Numbers
    <3>2. CASE k < i
      BY <1>1, <1>3, <1>5, <2>1, <3>1, <3>2, Numbers DEF CursorInv
    <3>3. CASE k = i
      BY <1>5, <3>3
    <3>4. QED
      BY <2>1, <3>1, <3>2, <3>3, Numbers
  <2>2. from <= c
    BY <1>1, <1>3, <1>5, Numbers DEF CursorInv
  <2>3. ASSUME phase' = "gaps", NEW k \in DOMAIN gaps' PROVE gaps'[k][2] < c
    <3>1. gaps'[k][2] \in Nat
      BY <1>9, Numbers
    <3>2. e < c
      BY <1>2, <1>4, <1>5, <1>7
    <3>3. PICK v \in Nat : v = gaps'[k][2] /\ (v < cursor \/ v <= e)
      BY <1>9, <2>3, <3>1
    <3>4. v < c
      BY <1>4, <1>5, <1>7, <3>2, <3>3, Numbers
    <3>5. QED
      BY <3>3, <3>4
  <2>4. QED
    BY <1>1, <1>4, <1>11, <2>1, <2>2, <2>3 DEF CursorInv, Selected, Cov
<1>13. PlanExact'
  <2>1. ASSUME phase' = "gap", NEW b \in Block
        PROVE  Planned(b)' <=> from <= b /\ b <= end /\ ~Cov(b)
    <3>1. b <= end => b < c
      BY <1>6, <2>1, Numbers
    <3>2. Planned(b)' => from <= b /\ b <= end
      <4>1. \A k \in DOMAIN gaps' :
               /\ gaps'[k][1] \in Nat /\ gaps'[k][2] \in Nat
               /\ from <= gaps'[k][1] /\ gaps'[k][2] <= end
        <5>1. \A k \in DOMAIN gaps' : gaps'[k] \in Block \X Block
          BY <1>9
        <5>2. \A k \in DOMAIN gaps' : gaps'[k][1] \in Nat /\ gaps'[k][2] \in Nat
          BY <5>1, Numbers
        <5>3. \A k \in DOMAIN gaps' : from <= gaps'[k][1] /\ gaps'[k][2] <= end
          BY <1>1, <1>9 DEF GapsOrdered
        <5>4. QED
          BY <5>2, <5>3
      <4>2. b \in Nat /\ from \in Nat /\ end \in Nat
        BY Numbers
      <4>3. QED
        BY <1>1, <4>1, <4>2 DEF Planned, InGap
    <3>3. QED
      BY <1>11, <3>1, <3>2
  <2>2. QED
    BY <1>1, <2>1 DEF PlanExact, Cov
<1>14. FetchInv'
  <2>1. g = 0 /\ seen = {}
    BY <1>1 DEF PlanInv, FetchInv
  <2>2. \A k \in DOMAIN gaps' : ~(k <= 0)
    BY <1>9
  <2>3. QED
    BY <1>1, <2>1, <2>2 DEF FetchInv
<1>15. (WalkInv /\ FrontierExact /\ FromInv)'
  BY <1>1, PlanningKeeps DEF TakeRow
<1>16. QED
  BY <1>1, <1>9, <1>10, <1>12, <1>13, <1>14, <1>15 DEF PlanInv

LEMMA LastGapInv ==
    ASSUME TypeOK, PlanInv, LastGap
    PROVE  TypeOK' /\ PlanInv'
<1>1. /\ phase = "gaps" /\ phase' = "gap"
      /\ i \notin DOMAIN table
      /\ UNCHANGED <<table, toHead, start, end, i, frontier, from, g, seen>>
  BY DEF LastGap, target, fetch
<1>2. CursorInv /\ GapsOrdered
  BY DEF PlanInv
<1>3. end \in Int /\ end <= end
  BY Numbers
<1>4. /\ gaps' \in Seq(Block \X Block)
      /\ 0 \in 0..Len(gaps')
      /\ GapsOrdered'
      /\ \A b \in Block : Planned(b)' <=> Planned(b) \/ (cursor <= b /\ b <= end)
  BY <1>1, <1>2, <1>3, NewGap DEF CursorInv, LastGap
<1>5. g = 0 /\ seen = {}
  BY <1>1 DEF PlanInv, FetchInv
<1>6. TypeOK'
  <2>1. cursor' \in 0..(MaxBlock + 1)
    BY Numbers, PlanAssumption DEF LastGap, Larger, TypeOK, Block
  <2>2. QED
    BY <1>1, <1>4, <1>5, <2>1 DEF TypeOK, Phases, LastGap, fetch
\* No row is left that could cover a block from the cursor on.
<1>7. ASSUME NEW b \in Block, from <= b, b <= end
      PROVE  Planned(b)' <=> ~Cov(b)
  <2>1. b \in Nat
    BY Numbers
  <2>2. CASE b < cursor
    BY <1>1, <1>2, <1>4, <1>7, <2>1, <2>2, Numbers DEF CursorInv
  <2>3. CASE cursor <= b
    <3>1. ASSUME NEW k \in DOMAIN table, table[k][1] <= b, b <= table[k][2]
          PROVE  FALSE
      <4>1. k \in Int /\ table[k][1] \in Nat /\ table[k][2] \in Nat
        BY TableRows, Numbers
      <4>2. k < i
        <5>1. i \in 1..(Len(table) + 1)
          BY DEF TypeOK
        <5>2. k \in 1..Len(table) /\ i \notin 1..Len(table) /\ Len(table) \in Nat
          BY <1>1, TableRows
        <5>3. QED
          BY <5>1, <5>2
      <4>3. table[k][2] >= from /\ table[k][1] <= end
        BY <1>7, <2>1, <3>1, <4>1, Numbers
      <4>4. table[k][2] < cursor
        BY <1>1, <1>2, <4>2, <4>3 DEF CursorInv, Selected
      <4>5. QED
        BY <2>1, <2>3, <3>1, <4>1, <4>4, Numbers
    <3>2. QED
      BY <1>4, <1>7, <2>3, <3>1 DEF Cov
  <2>4. QED
    BY <2>1, <2>2, <2>3, Numbers
<1>8. PlanExact'
  <2>1. ASSUME NEW b \in Block PROVE Planned(b)' => from <= b /\ b <= end
    <3>1. \A k \in DOMAIN gaps' :
             /\ gaps'[k][1] \in Nat /\ gaps'[k][2] \in Nat
             /\ from <= gaps'[k][1] /\ gaps'[k][2] <= end
      BY <1>1, <1>4, Numbers DEF GapsOrdered
    <3>2. b \in Nat /\ from \in Nat /\ end \in Nat
      BY Numbers
    <3>3. QED
      BY <1>1, <3>1, <3>2 DEF Planned, InGap
  <2>2. QED
    BY <1>1, <1>7, <2>1 DEF PlanExact, Cov
<1>9. FetchInv'
  <2>1. \A k \in DOMAIN gaps' : ~(k <= 0)
    BY <1>4
  <2>2. QED
    BY <1>1, <1>5, <2>1 DEF FetchInv
<1>10. (WalkInv /\ FrontierExact /\ FromInv /\ CursorInv)'
  BY <1>1, PlanningKeeps DEF LastGap, CursorInv
<1>11. QED
  BY <1>1, <1>4, <1>6, <1>8, <1>9, <1>10 DEF PlanInv

-----------------------------------------------------------------------------
(***************************************************************************)
(* run and get_logs_chunked.                                               *)
(***************************************************************************)
\* What the fetching steps leave alone.
LEMMA FetchingKeeps ==
    ASSUME PlanInv, UNCHANGED <<target, plan>>,
           phase \in {"gap", "batch", "scan"},
           phase' \in {"gap", "batch", "scan", "done", "failed"}
    PROVE  (WalkInv /\ FrontierExact /\ FromInv /\ GapsOrdered /\ CursorInv /\ PlanExact)'
BY DEF PlanInv, WalkInv, FrontierExact, FromInv, GapsOrdered, CursorInv, PlanExact,
       target, plan, Cov, Planned, InGap

\* Where one gap ends and the next begins: the blocks planned before block x of
\* gap m are those of the gaps before m and those of m before x.
LEMMA PlannedBefore ==
    ASSUME TypeOK, GapsOrdered, NEW m \in DOMAIN gaps, NEW b \in Block
    PROVE  /\ Planned(b) /\ b < gaps[m][1]
                 <=> \E k \in DOMAIN gaps : k <= m - 1 /\ InGap(k, b)
           /\ Planned(b) /\ b <= gaps[m][2]
                 <=> \E k \in DOMAIN gaps : k <= m /\ InGap(k, b)
<1>1. /\ b \in Nat
      /\ \A k \in DOMAIN gaps : k \in Int /\ gaps[k][1] \in Nat /\ gaps[k][2] \in Nat
  <2>1. \A k \in DOMAIN gaps : k \in Int
    BY GapRows
  <2>2. QED
    BY <2>1, Numbers, GapRows
<1>2. ASSUME NEW k \in DOMAIN gaps, InGap(k, b), k <= m - 1
      PROVE  b < gaps[m][1] /\ b <= gaps[m][2]
  BY <1>1, <1>2 DEF GapsOrdered, InGap
<1>3. ASSUME NEW k \in DOMAIN gaps, InGap(k, b), ~(k <= m)
      PROVE  ~(b <= gaps[m][2]) /\ ~(b < gaps[m][1])
  <2>1. gaps[m][2] < gaps[k][1] /\ gaps[m][1] <= gaps[m][2]
    BY <1>1, <1>3 DEF GapsOrdered
  <2>2. QED
    BY <1>1, <1>3, <2>1 DEF InGap
<1>4. InGap(m, b) => b <= gaps[m][2] /\ ~(b < gaps[m][1])
  BY <1>1 DEF InGap
<1>5. \A k \in DOMAIN gaps : k <= m - 1 \/ k = m \/ ~(k <= m)
  BY <1>1
<1>6. \A k \in DOMAIN gaps :
         /\ k <= m - 1 => k <= m /\ k # m
         /\ k = m => k <= m
         /\ k <= m => k <= m - 1 \/ k = m
  BY <1>1
<1>7. Planned(b) /\ b < gaps[m][1]
         <=> \E k \in DOMAIN gaps : k <= m - 1 /\ InGap(k, b)
  <2>1. ASSUME NEW k \in DOMAIN gaps, InGap(k, b), b < gaps[m][1]
        PROVE  k <= m - 1
    BY <1>3, <1>4, <1>5, <2>1
  <2>2. QED
    BY <1>2, <2>1 DEF Planned
<1>8. Planned(b) /\ b <= gaps[m][2]
         <=> \E k \in DOMAIN gaps : k <= m /\ InGap(k, b)
  <2>1. ASSUME NEW k \in DOMAIN gaps, InGap(k, b), b <= gaps[m][2]
        PROVE  k <= m
    BY <1>3, <2>1
  <2>2. ASSUME NEW k \in DOMAIN gaps, InGap(k, b), k <= m
        PROVE  b <= gaps[m][2]
    BY <1>2, <1>4, <1>6, <2>2
  <2>3. QED
    BY <2>1, <2>2 DEF Planned
<1>9. QED
  BY <1>7, <1>8

LEMMA NextGapInv ==
    ASSUME TypeOK, PlanInv, NextGap
    PROVE  TypeOK' /\ PlanInv'
<1>1. /\ phase = "gap"
      /\ UNCHANGED <<target, plan, hi, chunk, maxRange, seen, gaps, end, from>>
  BY DEF NextGap, plan, target
<1>2. seen = {b \in Block : \E k \in DOMAIN gaps : k <= g /\ InGap(k, b)}
  BY <1>1 DEF PlanInv, FetchInv
<1>3. CASE g < Len(gaps)
  <2>1. PICK m \in DOMAIN gaps : m = g + 1 /\ m - 1 = g
    <3>1. g \in Nat /\ Len(gaps) \in Nat /\ DOMAIN gaps = 1..Len(gaps)
      BY GapRows, Numbers
    <3>2. g + 1 \in DOMAIN gaps /\ (g + 1) - 1 = g
      BY <1>3, <3>1
    <3>3. QED
      BY <3>2
  <2>2. /\ g' = m /\ phase' = "batch"
        /\ lo' = gaps[m][1]
    BY <1>1, <1>3, <2>1 DEF NextGap
  <2>3. /\ gaps[m][1] \in Block /\ gaps[m][2] \in Block
        /\ gaps[m][1] <= gaps[m][2]
    BY GapRows DEF PlanInv, GapsOrdered
  <2>4. TypeOK'
    <3>1. m \in 0..Len(gaps) /\ gaps[m][1] \in 0..(MaxBlock + 1)
      BY <2>3, GapRows, PlanAssumption DEF Block
    <3>2. QED
      BY <1>1, <2>2, <3>1 DEF TypeOK, Phases, target, plan
  <2>5. FetchInv'
    <3>1. gaps'[g'][2] + 1 = gaps[m][2] + 1
      BY <1>1, <2>2
    <3>2. gaps[m][1] <= gaps[m][2] + 1 /\ gaps[m][1] <= gaps[m][1]
      BY <2>3, Numbers
    <3>3. seen = {b \in Block : Planned(b) /\ b < gaps[m][1]}
      BY <1>2, <2>1, PlannedBefore DEF PlanInv
    <3>4. m \in DOMAIN gaps'
      BY <1>1
    <3>5. QED
      BY <1>1, <2>2, <3>1, <3>2, <3>3, <3>4 DEF FetchInv, Planned, InGap
  <2>6. QED
    BY <1>1, <2>2, <2>4, <2>5, FetchingKeeps DEF PlanInv
<1>4. CASE ~(g < Len(gaps))
  <2>1. phase' = "done" /\ UNCHANGED <<g, lo>>
    BY <1>4 DEF NextGap
  <2>2. \A k \in DOMAIN gaps : k <= g
    BY <1>4, GapRows, Numbers
  <2>3. seen = {b \in Block : Planned(b)}
    BY <1>2, <2>2 DEF Planned
  <2>4. TypeOK'
    BY <1>1, <2>1 DEF TypeOK, Phases, target, plan
  <2>5. FetchInv'
    BY <1>1, <2>1, <2>3 DEF FetchInv, Planned, InGap
  <2>6. QED
    BY <1>1, <2>1, <2>4, <2>5, FetchingKeeps DEF PlanInv
<1>5. QED
  BY <1>3, <1>4

LEMMA NextBatchInv ==
    ASSUME TypeOK, PlanInv, NextBatch
    PROVE  TypeOK' /\ PlanInv'
<1>1. /\ phase = "batch"
      /\ UNCHANGED <<target, plan, g, lo, maxRange, seen, gaps>>
  BY DEF NextBatch, plan
<1>2. /\ g \in DOMAIN gaps
      /\ gaps[g][1] <= lo
      /\ lo <= gaps[g][2] + 1
      /\ seen = {b \in Block : Planned(b) /\ b < lo}
  BY <1>1 DEF PlanInv, FetchInv
<1>3. /\ gaps[g][1] \in Nat /\ gaps[g][2] \in Nat /\ gaps[g][2] \in Block
      /\ lo \in Nat /\ Subrange \in Nat \ {0}
  BY <1>2, GapRows, Numbers
<1>4. CASE lo <= gaps[g][2]
  <2>1. PICK x \in Int : x = Smaller(lo + Subrange - 1, gaps[g][2]) /\ hi' = x
    BY <1>3, <1>4 DEF NextBatch, Smaller
  <2>2. phase' = "scan" /\ chunk' = lo
    BY <1>4 DEF NextBatch
  <2>3. lo <= x /\ x <= gaps[g][2] /\ x < lo + Subrange /\ lo <= x + 1
    BY <1>3, <1>4, <2>1 DEF Smaller
  <2>4. TypeOK'
    <3>1. x \in Block
      BY <1>3, <2>1, <2>3, PlanAssumption DEF Block
    <3>2. QED
      BY <1>1, <2>1, <2>2, <3>1 DEF TypeOK, Phases, target, plan
  <2>5. FetchInv'
    <3>1. lo' + Subrange = lo + Subrange /\ hi' + 1 = x + 1
      BY <1>1, <2>1
    <3>2. lo <= lo
      BY <1>3
    <3>3. QED
      BY <1>1, <1>2, <2>1, <2>2, <2>3, <3>1, <3>2 DEF FetchInv, Planned, InGap
  <2>6. QED
    BY <1>1, <2>2, <2>4, <2>5, FetchingKeeps DEF PlanInv
<1>5. CASE ~(lo <= gaps[g][2])
  <2>1. phase' = "gap" /\ UNCHANGED <<hi, chunk>>
    BY <1>5 DEF NextBatch
  <2>2. TypeOK'
    BY <1>1, <2>1 DEF TypeOK, Phases, target, plan
  <2>3. \A b \in Block : b < lo <=> b <= gaps[g][2]
    BY <1>2, <1>3, <1>5, Numbers
  <2>4. seen = {b \in Block : \E k \in DOMAIN gaps : k <= g /\ InGap(k, b)}
    BY <1>2, <2>3, PlannedBefore DEF PlanInv
  <2>5. FetchInv'
    BY <1>1, <2>1, <2>4 DEF FetchInv, InGap
  <2>6. QED
    BY <1>1, <2>1, <2>2, <2>5, FetchingKeeps DEF PlanInv
<1>6. QED
  BY <1>4, <1>5

\* While a subrange is scanned.
LEMMA Scanning ==
    ASSUME TypeOK, PlanInv, phase = "scan"
    PROVE  /\ g \in DOMAIN gaps
           /\ gaps[g][1] \in Nat /\ gaps[g][2] \in Nat
           /\ gaps[g][1] <= lo /\ lo <= hi /\ hi <= gaps[g][2]
           /\ lo <= chunk /\ chunk <= hi + 1 /\ hi < lo + Subrange
           /\ seen = {b \in Block : Planned(b) /\ b < chunk}
           /\ lo \in Nat /\ hi \in Nat /\ hi \in Block /\ chunk \in Nat
           /\ maxRange \in Nat \ {0}
           /\ ChunkEnd \in Int
           /\ ChunkEnd <= hi
           /\ chunk <= hi => chunk <= ChunkEnd
<1>1. /\ g \in DOMAIN gaps
      /\ gaps[g][1] <= lo /\ lo <= hi /\ hi <= gaps[g][2]
      /\ lo <= chunk /\ chunk <= hi + 1 /\ hi < lo + Subrange
      /\ seen = {b \in Block : Planned(b) /\ b < chunk}
  BY DEF PlanInv, FetchInv
<1>2. /\ lo \in Nat /\ hi \in Nat /\ hi \in Block /\ chunk \in Nat
      /\ maxRange \in Nat \ {0}
      /\ gaps[g][1] \in Nat /\ gaps[g][2] \in Nat
  BY <1>1, GapRows, Numbers DEF TypeOK
<1>3. ChunkEnd \in Int /\ ChunkEnd <= hi /\ (chunk <= hi => chunk <= ChunkEnd)
  BY <1>2 DEF ChunkEnd, Smaller
<1>4. QED
  BY <1>1, <1>2, <1>3

\* A block of the subrange being scanned is planned, hence missing.
LEMMA ScannedIsMissing ==
    ASSUME TypeOK, PlanInv, phase = "scan", NEW b \in Block, chunk <= b, b <= hi
    PROVE  Planned(b) /\ Missing(b) /\ b \notin seen
<1>1. InGap(g, b)
  BY Scanning, Numbers DEF InGap
<1>2. Planned(b)
  BY <1>1, Scanning DEF Planned
<1>3. from <= b /\ b <= end /\ ~Cov(b)
  BY <1>2 DEF PlanInv, PlanExact
<1>4. start <= b
  BY <1>3, Numbers DEF PlanInv, FromInv
<1>5. b \notin seen
  BY Scanning, Numbers
<1>6. QED
  BY <1>2, <1>3, <1>4, <1>5 DEF Missing

LEMMA FetchStepInv ==
    ASSUME TypeOK, PlanInv, Fetch
    PROVE  TypeOK' /\ PlanInv'
<1>1. /\ phase = "scan" /\ phase' = "scan" /\ chunk <= hi
      /\ seen' = seen \cup (chunk..ChunkEnd)
      /\ UNCHANGED <<target, plan, gaps, g, lo, hi, maxRange>>
  BY DEF Fetch, plan
<1>2. PICK c \in Nat : c = ChunkEnd + 1 /\ chunk' = c
  BY <1>1, Scanning DEF Fetch
<1>3. lo <= c /\ c <= hi + 1 /\ c \in 0..(MaxBlock + 1)
  BY <1>1, <1>2, Scanning, PlanAssumption DEF Block
<1>4. \A b \in Block : b \in chunk..ChunkEnd <=> chunk <= b /\ b < c
  BY <1>1, <1>2, Scanning, Numbers
<1>5. \A b \in chunk..ChunkEnd : b \in Block /\ b <= hi
  BY <1>1, Scanning, PlanAssumption DEF Block
<1>6. seen' = {b \in Block : Planned(b) /\ b < c}
  <2>1. \A b \in Block : b < c <=> b < chunk \/ (chunk <= b /\ b < c)
    BY <1>1, <1>2, Scanning, Numbers
  <2>2. \A b \in Block : chunk <= b /\ b < c => Planned(b)
    BY <1>1, <1>4, <1>5, ScannedIsMissing
  <2>3. QED
    BY <1>1, <1>4, <1>5, <2>1, <2>2, Scanning
<1>7. TypeOK'
  BY <1>1, <1>2, <1>3, <1>6 DEF TypeOK, target, plan
<1>8. FetchInv'
  <2>1. lo' + Subrange = lo + Subrange /\ hi' + 1 = hi + 1
    BY <1>1
  <2>2. QED
    BY <1>1, <1>2, <1>3, <1>6, <2>1, Scanning DEF FetchInv, Planned, InGap
<1>9. QED
  BY <1>1, <1>7, <1>8, FetchingKeeps DEF PlanInv

LEMMA RefuseInv ==
    ASSUME TypeOK, PlanInv, Refuse
    PROVE  TypeOK' /\ PlanInv'
<1>1. /\ phase = "scan" /\ phase' = "scan"
      /\ UNCHANGED <<target, plan, gaps, g, lo, hi, chunk, seen>>
  BY DEF Refuse, plan
<1>2. maxRange' \in Nat \ {0}
  BY <1>1, Scanning DEF Refuse, Larger
<1>3. TypeOK'
  BY <1>1, <1>2 DEF TypeOK, target, plan
<1>4. FetchInv'
  <2>1. lo' + Subrange = lo + Subrange /\ hi' + 1 = hi + 1
    BY <1>1
  <2>2. QED
    BY <1>1, <2>1, Scanning DEF FetchInv, Planned, InGap
<1>5. QED
  BY <1>1, <1>3, <1>4, FetchingKeeps DEF PlanInv

LEMMA FailInv ==
    ASSUME TypeOK, PlanInv, Fail
    PROVE  TypeOK' /\ PlanInv'
<1>1. phase = "scan" /\ phase' = "failed" /\ UNCHANGED <<target, plan, fetch>>
  BY DEF Fail
<1>2. TypeOK'
  BY <1>1 DEF TypeOK, Phases, target, plan, fetch
<1>3. FetchInv'
  BY <1>1 DEF FetchInv
<1>4. QED
  BY <1>1, <1>2, <1>3, FetchingKeeps DEF PlanInv

LEMMA CommitInv ==
    ASSUME TypeOK, PlanInv, Commit
    PROVE  TypeOK' /\ PlanInv'
<1>1. /\ phase = "scan" /\ phase' = "batch" /\ chunk > hi
      /\ UNCHANGED <<target, plan, gaps, g, hi, chunk, maxRange, seen>>
  BY DEF Commit, plan
<1>2. PICK n \in Nat : n = hi + 1 /\ lo' = n /\ chunk = n
  BY <1>1, Scanning DEF Commit
<1>3. n \in 0..(MaxBlock + 1) /\ gaps[g][1] <= n /\ n <= gaps[g][2] + 1
  BY <1>1, <1>2, Scanning, PlanAssumption DEF Block
<1>4. TypeOK'
  BY <1>1, <1>2, <1>3 DEF TypeOK, Phases, target, plan
<1>5. FetchInv'
  <2>1. gaps'[g'][2] + 1 = gaps[g][2] + 1
    BY <1>1
  <2>2. QED
    BY <1>1, <1>2, <1>3, <2>1, Scanning DEF FetchInv, Planned, InGap
<1>6. QED
  BY <1>1, <1>4, <1>5, FetchingKeeps DEF PlanInv

-----------------------------------------------------------------------------
(***************************************************************************)
(* The theorems.                                                           *)
(***************************************************************************)
LEMMA NextInv == TypeOK /\ PlanInv /\ [Next]_vars => TypeOK' /\ PlanInv'
<1> SUFFICES ASSUME TypeOK, PlanInv, [Next]_vars
             PROVE  TypeOK' /\ PlanInv'
  OBVIOUS
<1>1. CASE Next
  BY <1>1, WalkRowInv, StopWalkInv, SkipRowInv, TakeRowInv, LastGapInv, NextGapInv,
     NextBatchInv, FetchStepInv, RefuseInv, FailInv, CommitInv DEF Next
<1>2. CASE UNCHANGED vars
  <2>1. TypeOK'
    BY <1>2 DEF vars, target, plan, fetch, TypeOK
  <2>2. PlanInv'
    BY <1>2
    DEF vars, target, plan, fetch, PlanInv, WalkInv, FrontierExact, FromInv,
        GapsOrdered, CursorInv, PlanExact, FetchInv, Planned, InGap, Cov, Selected
  <2>3. QED
    BY <2>1, <2>2
<1>3. QED
  BY <1>1, <1>2

\* The cursors of the five loops stay inside what they walk, and the loop
\* invariants hold, for every table, target, subrange and request size.
THEOREM PlanInvariant == Spec => [](TypeOK /\ PlanInv)
BY InitInv, NextInv, PTL DEF Spec

\* The walk, the gaps, the plan and the cursor of the requests keep their types.
THEOREM TypeCorrect == Spec => []TypeOK
BY PlanInvariant, PTL

\* covered_frontier returns the end of the covered stretch from the start.
THEOREM FrontierIsExact == Spec => []FrontierExact
<1>1. PlanInv => FrontierExact
  BY DEF PlanInv
<1>2. QED
  BY <1>1, PlanInvariant, PTL

\* A run that ends has fetched exactly what its target lacked.
THEOREM FetchedIsExact == Spec => []FetchedExactly
<1>1. TypeOK /\ PlanInv => FetchedExactly
  <2> SUFFICES ASSUME TypeOK, PlanInv, phase = "done"
               PROVE  seen = {b \in Block : Missing(b)}
    BY DEF FetchedExactly
  <2>1. seen = {b \in Block : Planned(b)}
    BY DEF PlanInv, FetchInv
  <2>2. ASSUME NEW b \in Block PROVE Planned(b) <=> Missing(b)
    <3>1. Planned(b) <=> from <= b /\ b <= end /\ ~Cov(b)
      BY DEF PlanInv, PlanExact
    <3>2. start <= from /\ (start <= b /\ b < from => Cov(b))
      BY DEF PlanInv, FromInv
    <3>3. QED
      BY <3>1, <3>2, Numbers DEF Missing
  <2>3. QED
    BY <2>1, <2>2
<1>2. QED
  BY <1>1, PlanInvariant, PTL

\* No block is fetched twice, and none that was not missing.
THEOREM FetchedOnce == Spec => NeverFetchedTwice
<1> DEFINE Fresh == phase = "scan" /\ phase' = "scan" =>
                       \A b \in Block : chunk <= b /\ b < chunk' =>
                          b \notin seen /\ Missing(b)
<1>1. TypeOK /\ PlanInv /\ [Next]_vars => [Fresh]_vars
  <2> SUFFICES ASSUME TypeOK, PlanInv, [Next]_vars, phase = "scan", phase' = "scan",
                      NEW b \in Block, chunk <= b, b < chunk'
               PROVE  b \notin seen /\ Missing(b)
    OBVIOUS
  <2>1. b \in Nat /\ chunk \in Nat
    BY Numbers
  <2>2. CASE Fetch
    <3>1. b <= hi
      <4>1. PICK c \in Int : c = ChunkEnd + 1 /\ chunk' = c
        BY <2>2, Scanning DEF Fetch
      <4>2. QED
        BY <2>1, <4>1, Scanning
    <3>2. QED
      BY <3>1, ScannedIsMissing
  <2>3. CASE chunk' = chunk
    BY <2>1, <2>3
  <2>4. QED
    BY <2>2, <2>3
    DEF Next, WalkRow, StopWalk, SkipRow, TakeRow, LastGap, NextGap, NextBatch,
        Refuse, Fail, Commit, vars, fetch
<1>2. QED
  BY <1>1, PlanInvariant, PTL DEF Spec, NeverFetchedTwice
=============================================================================
