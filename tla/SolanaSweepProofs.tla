-------------------------- MODULE SolanaSweepProofs -------------------------
(***************************************************************************)
(* What the Solana indexer guarantees for any registry, any history, any   *)
(* page and chunk size, and any number of overlapping sweeps.              *)
(***************************************************************************)
EXTENDS SolanaSweep, FiniteSetTheorems, WellFoundedInduction, TLAPS

-----------------------------------------------------------------------------
(***************************************************************************)
(* Facts about the helpers.                                                *)
(***************************************************************************)
LEMMA NatRelation ==
    \A m \in Nat : \A n \in Nat : m < n => <<m, n>> \in OpToRel(<, Nat)
  BY DEF OpToRel

\* A set of numbers that is not empty has a least element.
LEMMA LeastExists ==
    ASSUME NEW S \in SUBSET Nat, S # {}
    PROVE  \E n \in S : \A m \in S : n <= m
<1> DEFINE R == OpToRel(<, Nat)
<1>1. IsWellFoundedOn(R, Nat)
  BY NatLessThanWellFounded
<1>2. \A m \in Nat : \A n \in Nat : m < n => <<m, n>> \in R
  BY NatRelation
<1> HIDE DEF R
<1>3. \E n \in S : \A m \in S : ~(<<m, n>> \in R)
  BY <1>1, WFMin
<1>4. \E n \in S : \A m \in S : ~(m < n)
  BY <1>2, <1>3
<1> QED
  BY <1>4

LEMMA LeastOf ==
    ASSUME NEW S \in SUBSET Nat, S # {}
    PROVE  /\ Least(S) \in S
           /\ \A m \in S : Least(S) <= m
  BY LeastExists DEF Least

\* The oldest k of a set are a part of it that nothing else of it precedes.
LEMMA OldestIsPrefix ==
    ASSUME NEW S \in SUBSET Nat, IsFiniteSet(S), NEW k \in Nat \ {0}
    PROVE  /\ Oldest(S, k) \subseteq S
           /\ \A n \in Oldest(S, k), m \in S \ Oldest(S, k) : n < m
           /\ S # {} => Oldest(S, k) # {}
<1>0. \A n \in S : n \in Nat
  OBVIOUS
<1> DEFINE Below(n) == {x \in S : x < n}
<1>1. \A n \in S : IsFiniteSet(Below(n)) /\ Cardinality(Below(n)) \in Nat
  BY FS_Subset, FS_CardinalityType
<1>2. ASSUME NEW n \in S, NEW m \in S, m <= n, Cardinality(Below(n)) < k
      PROVE  Cardinality(Below(m)) < k
  <2>1. \A x \in S : x < m => x < n
    BY <1>0, <1>2
  <2>3. Below(m) \in SUBSET Below(n)
    BY <2>1, Zenon
  <2>2. Cardinality(Below(m)) <= Cardinality(Below(n))
    BY <1>1, <2>3, FS_Subset
  <2> QED
    BY <1>1, <1>2, <2>2
<1>3. ASSUME S # {}
      PROVE  Oldest(S, k) # {}
  <2> DEFINE l == Least(S)
  <2>0. l \in S /\ \A m \in S : l <= m
    BY <1>3, LeastOf
  <2> HIDE DEF l
  <2>3. \A x \in S : ~(x < l)
    BY <1>0, <2>0
  <2>1. Below(l) = {}
    BY <2>3, Zenon
  <2>2. Cardinality(Below(l)) = 0
    BY <2>1, FS_EmptySet
  <2> QED
    BY <2>0, <2>2 DEF Oldest
<1> QED
  BY <1>2, <1>3 DEF Oldest

\* The newest k of a set are a part of it that holds all above any of them.
LEMMA NewestIsSuffix ==
    ASSUME NEW S \in SUBSET Nat, IsFiniteSet(S), NEW k \in Nat \ {0}
    PROVE  /\ Newest(S, k) \subseteq S
           /\ \A n \in Newest(S, k), m \in S : n <= m => m \in Newest(S, k)
<1>0. \A n \in S : n \in Nat
  OBVIOUS
<1> DEFINE Above(n) == {x \in S : x > n}
<1>1. \A n \in S : IsFiniteSet(Above(n)) /\ Cardinality(Above(n)) \in Nat
  BY FS_Subset, FS_CardinalityType
<1>2. ASSUME NEW n \in S, NEW m \in S, n <= m, Cardinality(Above(n)) < k
      PROVE  Cardinality(Above(m)) < k
  <2>1. \A x \in S : x > m => x > n
    BY <1>0, <1>2
  <2>3. Above(m) \in SUBSET Above(n)
    BY <2>1, Zenon
  <2>2. Cardinality(Above(m)) <= Cardinality(Above(n))
    BY <1>1, <2>3, FS_Subset
  <2> QED
    BY <1>1, <1>2, <2>2
<1> QED
  BY <1>2 DEF Newest

\* Part of the history is a finite set of numbers.
LEMMA PartOfHistory ==
    ASSUME TypeOK, NEW S \in SUBSET DOMAIN history
    PROVE  /\ S \in SUBSET Nat
           /\ IsFiniteSet(S)
<1>1. DOMAIN history = 1..Len(history) /\ Len(history) \in Nat
  BY DEF TypeOK
<1>2. IsFiniteSet(1..Len(history))
  BY <1>1, FS_Interval
<1> QED
  BY <1>1, <1>2, FS_Subset

LEMMA CurrentIsRelayer ==
    ASSUME TypeOK, NEW s \in Sweep,
           pc[s] \in {"next", "list", "fetch", "rows", "cursor"}
    PROVE  Current(s) \in Relayer
  BY DEF TypeOK, Current


-----------------------------------------------------------------------------
(***************************************************************************)
(* Types.                                                                  *)
(***************************************************************************)
LEMMA RaisedType ==
    ASSUME NEW S, NEW x \in S \cup {NoSlot}, NEW v \in S \cup {NoSlot}
    PROVE  Raised(x, v) \in S \cup {NoSlot}
  BY DEF Raised

LEMMA ListingIsNew ==
    ASSUME TypeOK, NEW s \in Sweep, pc[s] = "list"
    PROVE  /\ Listing(s) \subseteq SigsOf(Current(s))
           /\ Listing(s) \subseteq DOMAIN history
<1>1. SigsOf(Current(s)) \subseteq DOMAIN history
  BY DEF SigsOf
<1> QED
  BY <1>1, Zenon DEF Listing, Newest

LEMMA ForgetType ==
    ASSUME TypeOK, NEW s \in Sweep, Forget(s), history' = history
    PROVE  /\ last' \in [Sweep -> DOMAIN history' \cup {NoSlot}]
           /\ todo' \in [Sweep -> SUBSET DOMAIN history']
           /\ chunk' \in [Sweep -> SUBSET DOMAIN history']
           /\ got' \in [Sweep -> SUBSET DOMAIN history']
           /\ page' \in [Sweep -> DOMAIN history' \cup {NoSlot}]
           /\ \A t \in Sweep \ {s} : todo'[t] = todo[t] /\ chunk'[t] = chunk[t]
  BY DEF TypeOK, Forget

\* Leaving a relayer, or the sweep, keeps what a sweep holds in its types.
LEMMA NextRelayerType ==
    ASSUME TypeOK, NEW s \in Sweep, NextRelayer(s), queue[s] # <<>>,
           history' = history
    PROVE  /\ pc' \in [Sweep -> Steps]
           /\ queue' \in [Sweep -> Seq(Relayer)]
           /\ \A t \in Sweep :
                 /\ pc'[t] \in {"next", "list", "fetch", "rows", "cursor"}
                       => queue'[t] # <<>>
                 /\ pc'[t] \in {"fetch", "rows", "cursor"} => todo'[t] # {}
                 /\ pc'[t] \in {"rows", "cursor"} => chunk'[t] # {}
<1>1. Tail(queue[s]) \in Seq(Relayer)
  BY DEF TypeOK
<1>2. \A t \in Sweep \ {s} : todo'[t] = todo[t] /\ chunk'[t] = chunk[t]
  BY ForgetType DEF NextRelayer
<1> QED
  BY <1>1, <1>2 DEF TypeOK, NextRelayer, Steps

LEMMA EndSweepType ==
    ASSUME TypeOK, NEW s \in Sweep, EndSweep(s), history' = history
    PROVE  /\ pc' \in [Sweep -> Steps]
           /\ queue' \in [Sweep -> Seq(Relayer)]
           /\ \A t \in Sweep :
                 /\ pc'[t] \in {"next", "list", "fetch", "rows", "cursor"}
                       => queue'[t] # <<>>
                 /\ pc'[t] \in {"fetch", "rows", "cursor"} => todo'[t] # {}
                 /\ pc'[t] \in {"rows", "cursor"} => chunk'[t] # {}
<1>1. \A t \in Sweep \ {s} : todo'[t] = todo[t] /\ chunk'[t] = chunk[t]
  BY ForgetType DEF EndSweep
<1>2. <<>> \in Seq(Relayer)
  OBVIOUS
<1>3. queue' \in [Sweep -> Seq(Relayer)]
  BY <1>2 DEF TypeOK, EndSweep
<1>4. /\ pc' = [pc EXCEPT ![s] = "stamp"]
      /\ queue' = [queue EXCEPT ![s] = <<>>]
      /\ "stamp" \in Steps
  BY DEF EndSweep, Steps
<1> QED
  BY <1>1, <1>3, <1>4 DEF TypeOK

LEMMA TypeInit == Init => TypeOK
<1> SUFFICES ASSUME Init
             PROVE  TypeOK
  OBVIOUS
<1>1. history = <<>> /\ history \in Seq([relayer : Relayer, failed : BOOLEAN])
  BY DEF Init
<1>2. Len(history) <= MaxSlot
  BY <1>1, SolanaAssumption
<1>3. queue \in [Sweep -> Seq(Relayer)]
  BY DEF Init
<1>4. /\ rows \subseteq DOMAIN history
      /\ cursor \in [Relayer -> DOMAIN history \cup {NoSlot}]
      /\ behind \subseteq Relayer \X Relayer
      /\ startSlot \in DOMAIN history \cup {NoSlot}
      /\ dated \in BOOLEAN
      /\ base \in [Relayer -> DOMAIN history \cup {NoSlot}]
      /\ listed \in [Relayer -> DOMAIN history \cup {NoSlot}]
  BY DEF Init
<1>5. /\ last \in [Sweep -> DOMAIN history \cup {NoSlot}]
      /\ todo \in [Sweep -> SUBSET DOMAIN history]
      /\ chunk \in [Sweep -> SUBSET DOMAIN history]
      /\ got \in [Sweep -> SUBSET DOMAIN history]
      /\ worked \in [Sweep -> BOOLEAN]
      /\ page \in [Sweep -> DOMAIN history \cup {NoSlot}]
  BY DEF Init
<1>6. pc \in [Sweep -> Steps] /\ \A s \in Sweep : pc[s] = "idle"
  BY DEF Init, Steps
<1> QED
  BY <1>1, <1>2, <1>3, <1>4, <1>5, <1>6 DEF TypeOK

LEMMA TypeHistory ==
    ASSUME TypeOK, NewSignature
    PROVE  TypeOK'
<1>1. PICK r \in Relayer, f \in {FALSE, MayFail} :
          history' = Append(history, [relayer |-> r, failed |-> f])
  BY DEF NewSignature
<1>2. f \in BOOLEAN
  BY SolanaAssumption
<1>3. /\ history' \in Seq([relayer : Relayer, failed : BOOLEAN])
      /\ Len(history') = Len(history) + 1
      /\ DOMAIN history \subseteq DOMAIN history'
  BY <1>1, <1>2 DEF TypeOK
<1>4. Len(history') <= MaxSlot
  BY <1>3, SolanaAssumption DEF TypeOK, NewSignature
<1> DEFINE D == DOMAIN history
           E == DOMAIN history'
<1>5. D \subseteq E
  BY <1>3
<1> HIDE DEF D, E
<1>6. /\ rows' \subseteq E
      /\ cursor' \in [Relayer -> E \cup {NoSlot}]
      /\ startSlot' \in E \cup {NoSlot}
      /\ last' \in [Sweep -> E \cup {NoSlot}]
      /\ todo' \in [Sweep -> SUBSET E]
      /\ chunk' \in [Sweep -> SUBSET E]
      /\ got' \in [Sweep -> SUBSET E]
      /\ page' \in [Sweep -> E \cup {NoSlot}]
      /\ base' \in [Relayer -> E \cup {NoSlot}]
      /\ listed' \in [Relayer -> E \cup {NoSlot}]
  <2>1. /\ rows \subseteq D
        /\ cursor \in [Relayer -> D \cup {NoSlot}]
        /\ startSlot \in D \cup {NoSlot}
        /\ last \in [Sweep -> D \cup {NoSlot}]
        /\ todo \in [Sweep -> SUBSET D]
        /\ chunk \in [Sweep -> SUBSET D]
        /\ got \in [Sweep -> SUBSET D]
        /\ page \in [Sweep -> D \cup {NoSlot}]
        /\ base \in [Relayer -> D \cup {NoSlot}]
        /\ listed \in [Relayer -> D \cup {NoSlot}]
    BY DEF D, TypeOK
  <2> QED
    BY <1>5, <2>1 DEF NewSignature, dbVars, sweepVars, auxVars
<1> QED
  BY <1>3, <1>4, <1>6 DEF E, TypeOK, NewSignature, dbVars, sweepVars, auxVars


LEMMA TypeSweep ==
    ASSUME TypeOK, NEW s \in Sweep, SweepStep(s) \/ Trouble(s)
    PROVE  TypeOK'
<1>1. CASE StartSweep(s)
  <2>1. PICK order \in [DOMAIN Registry -> Relayer] :
            queue' = [queue EXCEPT ![s] = order]
    BY <1>1 DEF StartSweep
  <2>2. order \in Seq(Relayer) /\ order # <<>>
    <3>1. DOMAIN Registry = 1..Len(Registry) /\ Len(Registry) \in Nat
      BY SolanaAssumption
    <3>2. DOMAIN Registry # {}
      BY SolanaAssumption
    <3> QED
      BY <3>1, <3>2
  <2> QED
    BY <1>1, <2>1, <2>2 DEF TypeOK, StartSweep, dbVars, auxVars, Steps
<1>2. CASE ReadCursor(s)
  <2>1. Current(s) \in Relayer
    BY <1>2, CurrentIsRelayer DEF ReadCursor
  <2>2. cursor[Current(s)] \in DOMAIN history \cup {NoSlot}
    BY <2>1 DEF TypeOK
  <2> QED
    BY <1>2, <2>2 DEF TypeOK, ReadCursor, dbVars, auxVars, Steps
<1>3. CASE List(s)
  <2>1. Listing(s) \subseteq DOMAIN history
    BY <1>3, ListingIsNew DEF List
  <2>2. Current(s) \in Relayer
    BY <1>3, CurrentIsRelayer DEF List
  <2>3. CASE Listing(s) = {}
    <3>1. NextRelayer(s) /\ listed' = listed /\ queue[s] # <<>>
      BY <1>3, <2>3 DEF List, TypeOK
    <3> QED
      BY <1>3, <3>1, ForgetType, NextRelayerType
         DEF TypeOK, List, dbVars, NextRelayer
  <2>4. CASE Listing(s) # {}
    <3>1. Least(Listing(s)) \in DOMAIN history
      BY <2>1, <2>4, PartOfHistory, LeastOf
    <3> DEFINE new == Listing(s)
               r == Current(s)
    <3>2. new \in SUBSET DOMAIN history /\ new # {} /\ Least(new) \in DOMAIN history
      BY <2>1, <2>4, <3>1
    <3>3. /\ todo' = [todo EXCEPT ![s] = new]
          /\ page' = [page EXCEPT ![s] = IF last[s] = NoSlot THEN Least(new)
                                                            ELSE NoSlot]
          /\ listed' = [listed EXCEPT ![r] = IF listed[r] = NoSlot THEN Least(new)
                                                                  ELSE listed[r]]
          /\ pc' = [pc EXCEPT ![s] = "fetch"]
          /\ UNCHANGED <<queue, last, chunk, got, history, dbVars, worked, base>>
      BY <1>3, <2>4 DEF List
    <3>4. pc[s] = "list"
      BY <1>3 DEF List
    <3> HIDE DEF new, r
    <3>5. /\ todo' \in [Sweep -> SUBSET DOMAIN history']
          /\ page' \in [Sweep -> DOMAIN history' \cup {NoSlot}]
          /\ listed' \in [Relayer -> DOMAIN history' \cup {NoSlot}]
          /\ pc' \in [Sweep -> Steps]
      BY <3>2, <3>3 DEF TypeOK, Steps
    <3>6. \A t \in Sweep :
              /\ pc'[t] \in {"next", "list", "fetch", "rows", "cursor"}
                    => queue'[t] # <<>>
              /\ pc'[t] \in {"fetch", "rows", "cursor"} => todo'[t] # {}
              /\ pc'[t] \in {"rows", "cursor"} => chunk'[t] # {}
      BY <3>2, <3>3, <3>4 DEF TypeOK
    <3> QED
      BY <3>3, <3>5, <3>6 DEF TypeOK, dbVars
  <2> QED
    BY <2>3, <2>4
<1>4. CASE Fetch(s)
  <2> DEFINE next == Oldest(todo[s], Chunk)
  <2>1. todo[s] \subseteq DOMAIN history /\ todo[s] # {}
    BY <1>4 DEF TypeOK, Fetch
  <2>2. next \subseteq DOMAIN history /\ next # {}
    BY <2>1, PartOfHistory, OldestIsPrefix, SolanaAssumption
  <2> HIDE DEF next
  <2>3. PICK avail \in SUBSET next : got' = [got EXCEPT ![s] = avail]
    BY <1>4 DEF Fetch, next
  <2>4. chunk' = [chunk EXCEPT ![s] = next]
    BY <1>4 DEF Fetch, next
  <2> QED
    BY <1>4, <2>2, <2>3, <2>4 DEF TypeOK, Fetch, dbVars, auxVars, Steps
<1>5. CASE WriteRows(s)
  <2>1. Least(chunk[s]) \in DOMAIN history
    BY <1>5, PartOfHistory, LeastOf DEF TypeOK, WriteRows
  <2> QED
    BY <1>5, <2>1 DEF TypeOK, WriteRows, auxVars, Steps
<1>6. CASE StopAtMissing(s)
  <2>1. queue[s] # <<>>
    BY <1>6 DEF TypeOK, StopAtMissing
  <2> QED
    BY <1>6, <2>1, ForgetType, NextRelayerType
       DEF TypeOK, StopAtMissing, dbVars, auxVars, NextRelayer
<1>7. CASE WriteCursor(s)
  <2> DEFINE r == Current(s)
             n == Least(chunk[s])
  <2>1. /\ pc[s] \in {"rows", "cursor"}
        /\ queue[s] # <<>>
        /\ chunk[s] # {}
        /\ history' = history
    BY <1>7 DEF TypeOK, WriteCursor
  <2>2. r \in Relayer
    BY <2>1, CurrentIsRelayer
  <2>3. n \in DOMAIN history
    <3>1. chunk[s] \in SUBSET DOMAIN history
      BY DEF TypeOK
    <3>2. chunk[s] \in SUBSET Nat
      BY <3>1, PartOfHistory
    <3> QED
      BY <2>1, <3>1, <3>2, LeastOf
  <2> HIDE DEF r, n
  <2>4. Raised(base[r], page[s]) \in DOMAIN history \cup {NoSlot}
    BY <2>2 DEF TypeOK, Raised
  <2>5. /\ cursor' \in [Relayer -> DOMAIN history' \cup {NoSlot}]
        /\ base' \in [Relayer -> DOMAIN history' \cup {NoSlot}]
    BY <1>7, <2>1, <2>2, <2>3, <2>4 DEF TypeOK, WriteCursor, r, n
  <2>6. behind' \subseteq Relayer \X Relayer
    BY <1>7, <2>2 DEF TypeOK, WriteCursor, Touched, r
  <2>7. CASE NextRelayer(s)
    BY <1>7, <2>1, <2>5, <2>6, <2>7, ForgetType, NextRelayerType
       DEF TypeOK, WriteCursor, NextRelayer
  <2>8. CASE ~NextRelayer(s)
    <3>1. /\ todo[s] # {n}
          /\ todo' = [todo EXCEPT ![s] = todo[s] \ {n}]
          /\ chunk' = [chunk EXCEPT ![s] = chunk[s] \ {n}]
          /\ got' = [got EXCEPT ![s] = got[s] \ {n}]
          /\ pc' = [pc EXCEPT ![s] = IF chunk[s] = {n} THEN "fetch" ELSE "rows"]
          /\ UNCHANGED <<queue, last, page>>
      BY <1>7, <2>8 DEF WriteCursor, n
    <3>2. UNCHANGED <<history, rows, startSlot, dated, worked, listed>>
      BY <1>7 DEF WriteCursor
    <3>3. /\ todo' \in [Sweep -> SUBSET DOMAIN history']
          /\ chunk' \in [Sweep -> SUBSET DOMAIN history']
          /\ got' \in [Sweep -> SUBSET DOMAIN history']
          /\ pc' \in [Sweep -> Steps]
      BY <3>1, <3>2 DEF TypeOK, Steps
    <3>4. \A t \in Sweep :
              /\ pc'[t] \in {"next", "list", "fetch", "rows", "cursor"}
                    => queue'[t] # <<>>
              /\ pc'[t] \in {"fetch", "rows", "cursor"} => todo'[t] # {}
              /\ pc'[t] \in {"rows", "cursor"} => chunk'[t] # {}
      <4>1. todo[s] \ {n} # {}
        BY <2>1, <3>1 DEF TypeOK
      <4>2. chunk[s] # {n} => chunk[s] \ {n} # {}
        BY <2>1
      <4> QED
        BY <2>1, <3>1, <4>1, <4>2 DEF TypeOK
    <3> QED
      BY <2>5, <2>6, <3>1, <3>2, <3>3, <3>4 DEF TypeOK
  <2> QED
    BY <2>7, <2>8
<1>8. CASE StampSlot(s)
  <2>1. rows # {} => Least(rows) \in DOMAIN history
    BY PartOfHistory, LeastOf DEF TypeOK
  <2> QED
    BY <1>8, <2>1 DEF TypeOK, StampSlot, auxVars, Steps
<1>9. CASE StampDate(s)
  BY <1>9 DEF TypeOK, StampDate, auxVars, Steps
<1>10. CASE OutOfTime(s) \/ KeyRejected(s)
  <2>1. EndSweep(s) /\ UNCHANGED <<history, dbVars, worked, auxVars>>
    BY <1>10 DEF OutOfTime, KeyRejected
  <2> QED
    BY <2>1, ForgetType, EndSweepType DEF TypeOK, dbVars, auxVars, EndSweep
<1>11. CASE RelayerFailed(s)
  <2>1. queue[s] # <<>>
    BY <1>11 DEF TypeOK, RelayerFailed
  <2> QED
    BY <1>11, <2>1, ForgetType, NextRelayerType
       DEF TypeOK, RelayerFailed, dbVars, auxVars, NextRelayer
<1>12. CASE Die(s)
  <2>1. \A t \in Sweep \ {s} : todo'[t] = todo[t] /\ chunk'[t] = chunk[t]
    BY <1>12, ForgetType DEF Die
  <2>2. queue' \in [Sweep -> Seq(Relayer)]
    BY <1>12 DEF TypeOK, Die
  <2> QED
    BY <1>12, <2>1, <2>2, ForgetType DEF TypeOK, Die, dbVars, auxVars, Steps
<1> QED
  BY <1>1, <1>2, <1>3, <1>4, <1>5, <1>6, <1>7, <1>8, <1>9, <1>10, <1>11, <1>12
     DEF SweepStep, Trouble

LEMMA TypeStep == TypeOK /\ [Next]_vars => TypeOK'
<1> SUFFICES ASSUME TypeOK, [Next]_vars
             PROVE  TypeOK'
  OBVIOUS
<1>1. CASE UNCHANGED vars
  BY <1>1 DEF TypeOK, vars, dbVars, sweepVars, auxVars
<1> QED
  BY <1>1, TypeHistory, TypeSweep DEF Next

\* Every variable of the indexer keeps its type.
THEOREM TypeCorrect == Spec => []TypeOK
  BY TypeInit, TypeStep, PTL DEF Spec


-----------------------------------------------------------------------------
(***************************************************************************)
(* Nothing is skipped.                                                     *)
(***************************************************************************)
Working == {"list", "fetch", "rows", "cursor"}

LEMMA RaisedAbove ==
    ASSUME NEW x \in Int \cup {NoSlot}, NEW v \in Int \cup {NoSlot}
    PROVE  /\ v # NoSlot => Raised(x, v) \in Int /\ v <= Raised(x, v)
           /\ x # NoSlot => Raised(x, v) \in Int /\ x <= Raised(x, v)
           /\ Raised(x, v) # NoSlot => x # NoSlot \/ v # NoSlot
           /\ Raised(x, NoSlot) = x
  BY SolanaAssumption DEF Raised

\* Where the history stands, slots are numbers.
LEMMA SlotsAreNumbers ==
    ASSUME TypeOK
    PROVE  /\ DOMAIN history \subseteq Int
           /\ \A r \in Relayer : /\ cursor[r] \in Int \cup {NoSlot}
                                 /\ base[r] \in Int \cup {NoSlot}
           /\ \A s \in Sweep : /\ last[s] \in Int \cup {NoSlot}
                               /\ page[s] \in Int \cup {NoSlot}
                               /\ todo[s] \subseteq Int
                               /\ chunk[s] \subseteq Int
<1>1. DOMAIN history \subseteq Int
  BY DEF TypeOK
<1> DEFINE D == DOMAIN history
<1>2. /\ cursor \in [Relayer -> D \cup {NoSlot}]
      /\ base \in [Relayer -> D \cup {NoSlot}]
      /\ last \in [Sweep -> D \cup {NoSlot}]
      /\ page \in [Sweep -> D \cup {NoSlot}]
      /\ todo \in [Sweep -> SUBSET D]
      /\ chunk \in [Sweep -> SUBSET D]
  BY DEF TypeOK
<1> HIDE DEF D
<1>3. D \subseteq Int
  BY <1>1 DEF D
<1> QED
  BY <1>1, <1>2, <1>3

\* What one sweep does leaves the others' variables alone; rows only grow.
LEMMA Frame ==
    ASSUME TypeOK, NEW s \in Sweep, SweepStep(s) \/ Trouble(s)
    PROVE  /\ history' = history
           /\ rows \subseteq rows'
           /\ \A t \in Sweep \ {s} :
                 /\ pc'[t] = pc[t]
                 /\ queue'[t] = queue[t]
                 /\ last'[t] = last[t]
                 /\ todo'[t] = todo[t]
                 /\ chunk'[t] = chunk[t]
                 /\ page'[t] = page[t]
<1>1. CASE StartSweep(s) \/ ReadCursor(s) \/ Fetch(s) \/ WriteRows(s)
  BY <1>1 DEF TypeOK, StartSweep, ReadCursor, Fetch, WriteRows, dbVars
<1>2. CASE List(s)
  BY <1>2 DEF TypeOK, List, NextRelayer, Forget, dbVars
<1>3. CASE WriteCursor(s)
  BY <1>3 DEF TypeOK, WriteCursor, NextRelayer, Forget
<1>4. CASE StopAtMissing(s) \/ RelayerFailed(s)
  BY <1>4 DEF TypeOK, StopAtMissing, RelayerFailed, NextRelayer, Forget, dbVars
<1>5. CASE StampSlot(s) \/ StampDate(s)
  BY <1>5 DEF TypeOK, StampSlot, StampDate
<1>6. CASE OutOfTime(s) \/ KeyRejected(s) \/ Die(s)
  BY <1>6 DEF TypeOK, OutOfTime, KeyRejected, Die, EndSweep, Forget, dbVars
<1> QED
  BY <1>1, <1>2, <1>3, <1>4, <1>5, <1>6 DEF SweepStep, Trouble

\* A later start owes less.
LEMMA DueShrinks ==
    ASSUME NEW r, NEW a \in Int, NEW b \in Int, a <= b, NEW m,
           DOMAIN history \subseteq Int
    PROVE  Due(r, b, m) \subseteq Due(r, a, m)
  BY DEF Due, SigsOf

\* A sweep stays exact while another one adds rows or raises a base.
LEMMA OtherSweep ==
    ASSUME TypeOK, NEW t \in Sweep, SweepExact(t),
           history' = history, rows \subseteq rows',
           pc'[t] = pc[t], queue'[t] = queue[t], last'[t] = last[t],
           todo'[t] = todo[t], chunk'[t] = chunk[t], page'[t] = page[t],
           \A r \in Relayer : /\ base'[r] \in Int \cup {NoSlot}
                              /\ base[r] # NoSlot =>
                                    base'[r] # NoSlot /\ base[r] <= base'[r]
    PROVE  SweepExact(t)'
<1> DEFINE r == Current(t)
<1>1. CASE pc[t] \notin Working
  BY <1>1 DEF Working, SweepExact
<1>2. CASE pc[t] \in Working
  <2>1. r \in Relayer /\ r' = r
    BY <1>2, CurrentIsRelayer DEF Working, Current
  <2> HIDE DEF r
  <2>2. \A a, m : Due(r, a, m)' = Due(r, a, m) /\ SigsOf(r)' = SigsOf(r)
    BY <2>1 DEF Due, SigsOf, Failed
  <2>3. ASSUME last[t] # NoSlot
        PROVE  base'[r] # NoSlot /\ Due(r, base'[r], last[t]) \subseteq rows'
    <3>1. base[r] # NoSlot /\ Due(r, base[r], last[t]) \subseteq rows
      BY <1>2, <2>3 DEF SweepExact, Working, r
    <3>2. base[r] \in Int /\ base'[r] \in Int /\ base[r] <= base'[r]
      BY <2>1, <3>1, SlotsAreNumbers
    <3>3. Due(r, base'[r], last[t]) \subseteq Due(r, base[r], last[t])
      BY <3>2, DueShrinks, SlotsAreNumbers
    <3>4. base'[r] # NoSlot
      BY <2>1, <3>1
    <3> QED
      BY <3>1, <3>3, <3>4
  <2>4. ASSUME pc[t] \in {"fetch", "rows", "cursor"}
        PROVE  /\ From(t)' # NoSlot
               /\ \A m \in todo[t] : Due(r, From(t)', m) \subseteq rows' \cup todo[t]
    <3>1. /\ From(t) # NoSlot
          /\ \A m \in todo[t] : Due(r, From(t), m) \subseteq rows \cup todo[t]
      BY <2>4 DEF SweepExact, r
    <3>2. From(t) = Raised(base[r], page[t]) /\ From(t)' = Raised(base'[r], page[t])
      BY <2>1 DEF From, r
    <3>3. /\ base[r] \in Int \cup {NoSlot}
          /\ base'[r] \in Int \cup {NoSlot}
          /\ page[t] \in Int \cup {NoSlot}
          /\ base[r] # NoSlot => base'[r] # NoSlot /\ base[r] <= base'[r]
      BY <2>1, SlotsAreNumbers
    <3>4. From(t) \in Int /\ From(t)' \in Int /\ From(t) <= From(t)'
      BY <3>1, <3>2, <3>3, SolanaAssumption DEF Raised
    <3>5. \A m \in todo[t] : Due(r, From(t)', m) \subseteq Due(r, From(t), m)
      BY <3>4, DueShrinks, SlotsAreNumbers
    <3> QED
      BY <3>1, <3>4, <3>5, SolanaAssumption
  <2>5. SweepExact(t)
    OBVIOUS
  <2> QED
    BY <2>1, <2>2, <2>3, <2>4, <2>5 DEF SweepExact, Working, r, Least
<1> QED
  BY <1>1, <1>2


\* A sweep that works on no relayer holds nothing that could be wrong.
LEMMA RestingSweep ==
    ASSUME NEW s \in Sweep, pc'[s] \notin Working
    PROVE  SweepExact(s)'
  BY DEF SweepExact, Working

\* A step that leaves cursors and bases alone keeps the invariant, provided
\* the sweep that takes it stays exact.
LEMMA QuietStep ==
    ASSUME TypeOK, TypeOK', SweepInv, NEW s \in Sweep,
           SweepStep(s) \/ Trouble(s), UNCHANGED <<cursor, base>>, SweepExact(s)'
    PROVE  SweepInv'
<1>1. /\ history' = history
      /\ rows \subseteq rows'
  BY Frame
<1>2. NoSkip'
  <2>1. \A r : \A a, m : Due(r, a, m)' = Due(r, a, m)
    BY <1>1 DEF Due, SigsOf, Failed
  <2> QED
    BY <1>1, <2>1 DEF SweepInv, NoSkip
<1>3. \A t \in Sweep \ {s} : SweepExact(t)'
  <2>1. \A r \in Relayer : /\ base'[r] \in Int \cup {NoSlot}
                           /\ base[r] # NoSlot => base'[r] # NoSlot /\ base[r] <= base'[r]
    BY SlotsAreNumbers
  <2> QED
    BY <1>1, <2>1, Frame, OtherSweep DEF SweepInv
<1> QED
  BY <1>2, <1>3 DEF SweepInv

LEMMA InvHistory ==
    ASSUME TypeOK, SweepInv, NewSignature
    PROVE  SweepInv'
<1>1. PICK new : history' = Append(history, new)
  BY DEF NewSignature
<1>2. /\ DOMAIN history \subseteq Int
      /\ DOMAIN history \subseteq DOMAIN history'
      /\ \A n \in DOMAIN history : history'[n] = history[n]
      /\ \A n \in DOMAIN history' \ DOMAIN history : \A m \in DOMAIN history : m < n
      /\ DOMAIN history' \subseteq Int
  BY <1>1 DEF TypeOK
<1>3. \A r, a : \A m \in DOMAIN history : Due(r, a, m)' = Due(r, a, m)
  BY <1>2 DEF Due, SigsOf, Failed
<1>4. \A r : SigsOf(r) \subseteq SigsOf(r)'
  BY <1>2 DEF SigsOf
<1>5. UNCHANGED <<rows, cursor, base, pc, queue, last, todo, chunk, page>>
  BY DEF NewSignature, dbVars, sweepVars, auxVars
<1>6. NoSkip'
  BY <1>3, <1>5 DEF SweepInv, NoSkip, TypeOK
<1>7. ASSUME NEW s \in Sweep
      PROVE  SweepExact(s)'
  <2>1. SweepExact(s)
    BY DEF SweepInv
  <2>2. /\ last[s] \in DOMAIN history \cup {NoSlot}
        /\ todo[s] \subseteq DOMAIN history
    BY DEF TypeOK
  <2>3. Current(s)' = Current(s) /\ From(s)' = From(s)
    BY <1>5 DEF Current, From
  <2>4. Least(chunk[s])' = Least(chunk[s])
    BY <1>5
  <2> QED
    BY <1>3, <1>4, <1>5, <2>1, <2>2, <2>3, <2>4 DEF SweepExact
<1> QED
  BY <1>5, <1>6, <1>7 DEF SweepInv

\* index_relayer reads a cursor that has nothing missing behind it.
LEMMA InvReadCursor ==
    ASSUME TypeOK, TypeOK', SweepInv, NEW s \in Sweep, ReadCursor(s)
    PROVE  SweepInv'
<1>1. Current(s) \in Relayer
  BY CurrentIsRelayer DEF ReadCursor
<1>2. /\ pc'[s] = "list"
      /\ last'[s] = cursor[Current(s)]
      /\ UNCHANGED <<history, rows, cursor, base, queue>>
  BY DEF ReadCursor, TypeOK, dbVars, auxVars
<1>3. Current(s)' = Current(s)
  BY <1>2 DEF Current
<1>4. \A a, m : Due(Current(s), a, m)' = Due(Current(s), a, m)
  BY <1>2, <1>3 DEF Due, SigsOf, Failed
<1>5. SweepExact(s)'
  BY <1>1, <1>2, <1>3, <1>4 DEF SweepExact, SweepInv, NoSkip
<1> QED
  BY <1>2, <1>5, QuietStep DEF SweepStep

\* What it lists is all there is between the start it vouches for and the last
\* signature on the list, or indexed already.
LEMMA InvList ==
    ASSUME TypeOK, TypeOK', SweepInv, NEW s \in Sweep, List(s)
    PROVE  SweepInv'
<1> DEFINE new == Listing(s)
           r == Current(s)
<1>1. r \in Relayer /\ pc[s] = "list" /\ SweepExact(s)
  BY CurrentIsRelayer DEF List, SweepInv
<1>2. UNCHANGED <<history, rows, cursor, base>>
  BY DEF List, dbVars
<1>3. CASE new = {}
  <2>1. pc'[s] \in {"next", "stamp"}
    BY <1>3 DEF List, NextRelayer, TypeOK
  <2> QED
    BY <1>2, <2>1, QuietStep, RestingSweep DEF SweepStep, Working
<1>4. CASE new # {}
  <2>1. /\ todo'[s] = new
        /\ page'[s] = IF last[s] = NoSlot THEN Least(new) ELSE NoSlot
        /\ pc'[s] = "fetch"
        /\ UNCHANGED <<queue, last>>
    BY <1>4 DEF List, TypeOK
  <2>2. new \subseteq SigsOf(r) /\ new \in SUBSET DOMAIN history
    BY <1>1, ListingIsNew
  <2>3. new \in SUBSET Nat /\ SigsOf(r) \in SUBSET Nat /\ IsFiniteSet(SigsOf(r))
    <3>1. SigsOf(r) \in SUBSET DOMAIN history
      BY DEF SigsOf
    <3> QED
      BY <2>2, <3>1, PartOfHistory
  <2>4. /\ Current(s)' = r
        /\ r' = r
        /\ SigsOf(r)' = SigsOf(r)
        /\ \A a, m : Due(r, a, m)' = Due(r, a, m)
    BY <1>2, <2>1 DEF Current, Due, SigsOf, Failed
  <2>5. base[r] \in Int \cup {NoSlot} /\ last[s] \in Int \cup {NoSlot}
    BY <1>1, SlotsAreNumbers
  <2>6. From(s)' = Raised(base[r], page'[s])
    BY <1>2, <2>4 DEF From
  <2>7. CASE last[s] = NoSlot
    <3> DEFINE l == Least(new)
    <3>1. l \in new /\ l \in Int
      BY <1>4, <2>3, LeastOf
    <3>2. From(s)' \in Int /\ l <= From(s)'
      <4>1. page'[s] = l
        BY <2>1, <2>7
      <4>2. l \in Int /\ l # NoSlot
        BY <3>1, SolanaAssumption
      <4>3. \A x \in Int \cup {NoSlot}, v \in Int : Raised(x, v) \in Int /\ v <= Raised(x, v)
        BY SolanaAssumption DEF Raised
      <4> HIDE DEF l, r
      <4>4. From(s)' = Raised(base[r], l)
        BY <2>6, <4>1
      <4> QED
        BY <2>5, <4>2, <4>3, <4>4
    <3>3. new = Newest(SigsOf(r), Page)
      BY <2>7 DEF Listing
    <3>4. \A m \in SigsOf(r) : l <= m => m \in new
      BY <2>3, <3>1, <3>3, NewestIsSuffix, SolanaAssumption
    <3> HIDE DEF l
    <3>5. \A m \in new : Due(r, From(s)', m) \subseteq new
      BY <2>3, <3>1, <3>2, <3>4 DEF Due
    <3>6. From(s)' # NoSlot
      BY <3>2, SolanaAssumption
    <3> HIDE DEF new, r
    <3>7. SweepExact(s)'
      BY <2>1, <2>2, <2>4, <2>7, <3>5, <3>6 DEF SweepExact
    <3> QED
      BY <1>2, <3>7, QuietStep DEF SweepStep
  <2>8. CASE last[s] # NoSlot
    <3>1. base[r] # NoSlot /\ Due(r, base[r], last[s]) \subseteq rows
      BY <1>1, <2>8 DEF SweepExact
    <3>2. From(s)' = base[r]
      BY <2>1, <2>6, <2>8 DEF Raised
    <3>3. new = {n \in SigsOf(r) : n > last[s]}
      BY <2>8 DEF Listing
    <3>4. \A m \in new : Due(r, From(s)', m) \subseteq rows \cup new
      BY <2>3, <2>5, <2>8, <3>1, <3>2, <3>3 DEF Due
    <3> HIDE DEF new, r
    <3>5. SweepExact(s)'
      BY <1>2, <2>1, <2>2, <2>4, <3>1, <3>2, <3>4 DEF SweepExact
    <3> QED
      BY <1>2, <3>5, QuietStep DEF SweepStep
  <2> QED
    BY <2>7, <2>8
<1> QED
  BY <1>3, <1>4


\* A chunk is the oldest part of the list.
LEMMA InvFetch ==
    ASSUME TypeOK, TypeOK', SweepInv, NEW s \in Sweep, Fetch(s)
    PROVE  SweepInv'
<1> DEFINE next == Oldest(todo[s], Chunk)
<1>1. /\ pc[s] = "fetch"
      /\ pc'[s] = "rows"
      /\ chunk'[s] = next
      /\ UNCHANGED <<history, rows, cursor, base, queue, last, todo, page>>
  BY DEF Fetch, TypeOK, dbVars, auxVars
<1>2. /\ next \subseteq todo[s]
      /\ \A n \in next, m \in todo[s] \ next : n < m
  <2>1. todo[s] \in SUBSET DOMAIN history
    BY DEF TypeOK
  <2> QED
    BY <2>1, PartOfHistory, OldestIsPrefix, SolanaAssumption
<1> HIDE DEF next
<1>3. /\ Current(s)' = Current(s)
      /\ From(s)' = From(s)
      /\ SigsOf(Current(s))' = SigsOf(Current(s))
      /\ \A a, m : Due(Current(s), a, m)' = Due(Current(s), a, m)
  BY <1>1 DEF Current, From, Due, SigsOf, Failed
<1>4. SweepExact(s)
  BY DEF SweepInv
<1>5. SweepExact(s)'
  BY <1>1, <1>2, <1>3, <1>4 DEF SweepExact
<1> QED
  BY <1>1, <1>5, QuietStep DEF SweepStep

LEMMA InvWriteRows ==
    ASSUME TypeOK, TypeOK', SweepInv, NEW s \in Sweep, WriteRows(s)
    PROVE  SweepInv'
<1>1. /\ pc[s] = "rows"
      /\ pc'[s] = "cursor"
      /\ rows' = rows \cup {Least(chunk[s])}
      /\ UNCHANGED <<history, cursor, base, queue, last, todo, chunk, page>>
  BY DEF WriteRows, TypeOK, auxVars
<1>2. /\ Current(s)' = Current(s)
      /\ From(s)' = From(s)
      /\ Least(chunk[s])' = Least(chunk[s])
      /\ SigsOf(Current(s))' = SigsOf(Current(s))
      /\ \A a, m : Due(Current(s), a, m)' = Due(Current(s), a, m)
  BY <1>1 DEF Current, From, Due, SigsOf, Failed
<1>3. SweepExact(s)
  BY DEF SweepInv
<1>4. SweepExact(s)'
  BY <1>1, <1>2, <1>3 DEF SweepExact
<1> QED
  BY <1>1, <1>4, QuietStep DEF SweepStep

\* The cursor passes one signature: it was the oldest of the list, and its
\* rows are written or it has none.
LEMMA InvWriteCursor ==
    ASSUME TypeOK, TypeOK', SweepInv, NEW s \in Sweep, WriteCursor(s)
    PROVE  SweepInv'
<1>1. PICK r \in Relayer : r = Current(s)
  BY CurrentIsRelayer DEF WriteCursor
<1>2. PICK n : n = Least(chunk[s])
  OBVIOUS
<1>3. /\ pc[s] = "cursor" \/ (pc[s] = "rows" /\ Failed(n))
      /\ cursor' = [cursor EXCEPT ![r] = n]
      /\ base' = [base EXCEPT ![r] = Raised(base[r], page[s])]
      /\ UNCHANGED <<history, rows>>
  BY <1>1, <1>2 DEF WriteCursor
<1>4. PICK f : f = From(s)
  OBVIOUS
<1>5. f = Raised(base[r], page[s]) /\ base'[r] = f
  BY <1>1, <1>3, <1>4 DEF From, TypeOK
<1>6. SweepExact(s)
  BY DEF SweepInv
<1>7. /\ todo[s] \subseteq SigsOf(r)
      /\ f # NoSlot
      /\ \A m \in todo[s] : Due(r, f, m) \subseteq rows \cup todo[s]
      /\ chunk[s] \subseteq todo[s]
      /\ \A k \in chunk[s], m \in todo[s] \ chunk[s] : k < m
      /\ pc[s] = "cursor" => n \in rows
  BY <1>1, <1>2, <1>3, <1>4, <1>6 DEF SweepExact
<1>8. f \in Int
  BY <1>5, <1>7, SlotsAreNumbers DEF Raised
<1>9. n \in chunk[s] /\ n \in Int /\ todo[s] \subseteq Int
                     /\ \A m \in todo[s] : n <= m
  <2>1. chunk[s] \in SUBSET DOMAIN history /\ chunk[s] # {}
    BY <1>3 DEF TypeOK
  <2>2. chunk[s] \in SUBSET Nat
    BY <2>1, PartOfHistory
  <2>3. n \in chunk[s] /\ \A m \in chunk[s] : n <= m
    BY <1>2, <2>1, <2>2, LeastOf
  <2>4. todo[s] \subseteq Int
    BY SlotsAreNumbers
  <2> QED
    BY <1>7, <2>3, <2>4
<1>10. n \in rows \/ Failed(n)
  BY <1>3, <1>7
<1>11. \A m \in todo[s] : Due(r, f, m) \subseteq rows \cup (todo[s] \ {n})
  BY <1>7, <1>10 DEF Due
<1>12. Due(r, f, n) \subseteq rows
  <2>1. Due(r, f, n) \subseteq rows \cup (todo[s] \ {n})
    BY <1>7, <1>9, <1>11
  <2>2. \A k \in Due(r, f, n) : k <= n
    BY DEF Due
  <2>3. \A k \in todo[s] \ {n} : ~(k <= n)
    BY <1>9
  <2> QED
    BY <2>1, <2>2, <2>3
<1>13. \A q \in Relayer : \A a, m : /\ Due(q, a, m)' = Due(q, a, m)
                                    /\ SigsOf(q)' = SigsOf(q)
  BY <1>3 DEF Due, SigsOf, Failed
<1>14. \A q \in Relayer \ {r} : cursor'[q] = cursor[q] /\ base'[q] = base[q]
  BY <1>3 DEF TypeOK
<1>15. cursor'[r] = n
  BY <1>3 DEF TypeOK
<1>16. \A q \in Relayer : cursor'[q] # NoSlot => base'[q] # NoSlot
  BY <1>5, <1>7, <1>14 DEF SweepInv
<1>17. NoSkip'
  <2>1. ASSUME NEW q \in Relayer, cursor'[q] # NoSlot
        PROVE  Due(q, base'[q], cursor'[q]) \subseteq rows
    BY <1>5, <1>12, <1>14, <1>15, <2>1 DEF SweepInv, NoSkip
  <2> QED
    BY <1>3, <1>13, <2>1 DEF NoSkip
<1>18. \A q \in Relayer : /\ base'[q] \in Int \cup {NoSlot}
                          /\ base[q] # NoSlot => base'[q] # NoSlot /\ base[q] <= base'[q]
  <2>1. base[r] \in Int \cup {NoSlot} /\ page[s] \in Int \cup {NoSlot}
    BY SlotsAreNumbers
  <2>2. base[r] # NoSlot => base[r] <= f
    BY <1>5, <2>1, RaisedAbove
  <2>3. \A q \in Relayer \ {r} : base'[q] = base[q] /\ base[q] \in Int \cup {NoSlot}
    BY <1>14, SlotsAreNumbers
  <2>4. \A q \in Relayer \ {r} : base[q] # NoSlot => base[q] <= base'[q]
    BY <2>3
  <2> QED
    BY <1>5, <1>7, <1>8, <2>2, <2>3, <2>4
<1>19. \A t \in Sweep \ {s} : SweepExact(t)'
  BY <1>3, <1>18, Frame, OtherSweep DEF SweepInv, SweepStep
<1>20. SweepExact(s)'
  <2>1. CASE NextRelayer(s)
    <3>1. pc'[s] \in {"next", "stamp"}
      BY <2>1 DEF NextRelayer, TypeOK
    <3> QED
      BY <3>1, RestingSweep DEF Working
  <2>2. CASE ~NextRelayer(s)
    <3>1. /\ todo'[s] = todo[s] \ {n}
          /\ chunk'[s] = chunk[s] \ {n}
          /\ pc'[s] \in {"fetch", "rows"}
          /\ UNCHANGED <<queue, last, page>>
      BY <1>2, <2>2 DEF WriteCursor, TypeOK
    <3>2. Current(s)' = r
      BY <1>1, <3>1 DEF Current
    <3>3. From(s)' = f
      <4>1. From(s)' = Raised(f, page[s])
        BY <1>5, <3>1, <3>2 DEF From
      <4>2. Raised(f, page[s]) = f
        BY <1>5, <1>8, SlotsAreNumbers, SolanaAssumption DEF Raised
      <4> QED
        BY <4>1, <4>2
    <3>4. last[s] # NoSlot => /\ base'[r] # NoSlot
                              /\ Due(r, base'[r], last[s]) \subseteq rows
      <4>1. last[s] # NoSlot => /\ base[r] # NoSlot
                                /\ Due(r, base[r], last[s]) \subseteq rows
        BY <1>1, <1>3, <1>6 DEF SweepExact
      <4>2. base[r] # NoSlot => base[r] \in Int /\ base[r] <= f
        BY <1>5, <1>18, SlotsAreNumbers
      <4>3. base[r] # NoSlot => Due(r, f, last[s]) \subseteq Due(r, base[r], last[s])
        BY <1>8, <4>2, DueShrinks, SlotsAreNumbers
      <4> QED
        BY <1>5, <1>7, <4>1, <4>3
    <3>5. \A m \in todo'[s] : Due(r, f, m) \subseteq rows \cup todo'[s]
      BY <1>11, <3>1
    <3>6. /\ todo'[s] \subseteq SigsOf(r)
          /\ chunk'[s] \subseteq todo'[s]
          /\ \A k \in chunk'[s], m \in todo'[s] \ chunk'[s] : k < m
      BY <1>7, <3>1
    <3> QED
      BY <1>3, <1>7, <1>13, <3>1, <3>2, <3>3, <3>4, <3>5, <3>6 DEF SweepExact
  <2> QED
    BY <2>1, <2>2
<1> QED
  BY <1>16, <1>17, <1>19, <1>20 DEF SweepInv

LEMMA InvSweep ==
    ASSUME TypeOK, TypeOK', SweepInv, NEW s \in Sweep, SweepStep(s) \/ Trouble(s)
    PROVE  SweepInv'
<1>1. CASE StartSweep(s) \/ StopAtMissing(s) \/ StampSlot(s) \/ StampDate(s) \/ Trouble(s)
  <2>1. UNCHANGED <<cursor, base>>
    BY <1>1 DEF StartSweep, StopAtMissing, StampSlot, StampDate, Trouble, OutOfTime,
                KeyRejected, RelayerFailed, Die, dbVars, auxVars
  <2>2. pc'[s] \notin Working
    <3>1. NextRelayer(s) \/ EndSweep(s) => pc'[s] \in {"next", "stamp"}
      BY DEF NextRelayer, EndSweep, TypeOK
    <3>2. StartSweep(s) \/ StampSlot(s) \/ StampDate(s) \/ Die(s)
            => pc'[s] \in {"idle", "next", "date"}
      BY DEF StartSweep, StampSlot, StampDate, Die, TypeOK
    <3> QED
      BY <1>1, <3>1, <3>2 DEF StopAtMissing, Trouble, OutOfTime, KeyRejected,
                              RelayerFailed, Working
  <2> QED
    BY <2>1, <2>2, QuietStep, RestingSweep
<1>2. CASE ReadCursor(s)
  BY <1>2, InvReadCursor
<1>3. CASE List(s)
  BY <1>3, InvList
<1>4. CASE Fetch(s)
  BY <1>4, InvFetch
<1>5. CASE WriteRows(s)
  BY <1>5, InvWriteRows
<1>6. CASE WriteCursor(s)
  BY <1>6, InvWriteCursor
<1> QED
  BY <1>1, <1>2, <1>3, <1>4, <1>5, <1>6 DEF SweepStep

LEMMA InvStep == TypeOK /\ TypeOK' /\ SweepInv /\ [Next]_vars => SweepInv'
<1> SUFFICES ASSUME TypeOK, TypeOK', SweepInv, [Next]_vars
             PROVE  SweepInv'
  OBVIOUS
<1>1. CASE UNCHANGED vars
  BY <1>1 DEF SweepInv, NoSkip, SweepExact, Due, SigsOf, Failed, From, Current,
              Least, vars, dbVars, sweepVars, auxVars
<1> QED
  BY <1>1, InvHistory, InvSweep DEF Next

LEMMA InvInit == Init => SweepInv
  BY DEF Init, SweepInv, NoSkip, SweepExact

\* The invariant of the cursor protocol, with any number of overlapping sweeps.
THEOREM SweepInvariant == Spec => []SweepInv
<1>1. TypeOK /\ SweepInv /\ [Next]_vars => (TypeOK /\ SweepInv)'
  BY TypeStep, InvStep
<1>2. Init => TypeOK /\ SweepInv
  BY TypeInit, InvInit
<1> QED
  BY <1>1, <1>2, PTL DEF Spec

\* Behind every relayer's cursor nothing is missing, back to its newest
\* bootstrap page.
THEOREM NothingSkipped == Spec => []NoSkip
<1>1. SweepInv => NoSkip
  BY DEF SweepInv
<1> QED
  BY <1>1, SweepInvariant, PTL
=============================================================================
