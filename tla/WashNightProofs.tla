--------------------------- MODULE WashNightProofs ---------------------------
(***************************************************************************)
(* Proofs about WashNight and the rules it uses: what a nightly run's      *)
(* letters, signals, answers and clean metrics may say, whichever sections *)
(* fail, for any number of nights, chains, sellers, payers and origins,    *)
(* any traits of theirs and any thresholds.                                *)
(***************************************************************************)
EXTENDS WashNight, FiniteSetTheorems, WellFoundedInduction, TLAPS

-----------------------------------------------------------------------------
(***************************************************************************)
(* The rules of ScoreRules and TrustRules.                                 *)
(***************************************************************************)
\* The caps and clamps give whole numbers.
LEMMA ClampTyped ==
    ASSUME NEW x \in Int, NEW bound \in Int
    PROVE  AtMost(x, bound) \in Int /\ Clamp(x) \in Int
  BY DEF AtMost, Clamp

\* _seller_letter: evidence of conduct gives D or F, and only conduct gives F.
LEMMA ConductDecides ==
    ASSUME NEW score, NEW e, NEW w, w.cycle \in BOOLEAN, w.nightly \in BOOLEAN,
           w.history \in BOOLEAN, w.recip \in BOOLEAN
    PROVE  /\ SellerLetter(score, e, w) \in Letters \cup {NoGrade}
           /\ Flagged(w) \/ w.recip \/ SelfRatio(e) >= SelfPayConduct =>
                  SellerLetter(score, e, w) \in {"D", "F"}
           /\ SellerLetter(score, e, w) = "F" =>
                  w.cycle \/ w.nightly \/ w.recip \/ SelfRatio(e) >= SelfPayConduct
<1>1. NoGrade \notin {"A", "B", "C", "D", "F"}
  BY RulesAssumption DEF Letters
<1>2. CASE w.cycle \/ w.nightly \/ w.recip \/ SelfRatio(e) >= SelfPayConduct
  <2>1. SellerLetter(score, e, w) = "F"
    BY <1>1, <1>2 DEF SellerLetter, Conduct
  <2> QED
    BY <1>2, <2>1 DEF Letters
<1>3. CASE ~(w.cycle \/ w.nightly \/ w.recip \/ SelfRatio(e) >= SelfPayConduct)
  <2>1. CASE w.history
    <3>1. SellerLetter(score, e, w) = "D"
      BY <1>1, <1>3, <2>1 DEF SellerLetter, Conduct
    <3> QED
      BY <3>1 DEF Letters
  <2>2. CASE ~w.history
    <3>1. SellerLetter(score, e, w) \in {NoGrade, "A", "B", "C", "D"}
      BY <1>3, <2>2 DEF SellerLetter, Conduct
    <3> QED
      BY <1>1, <1>3, <2>2, <3>1 DEF Letters, Flagged
  <2> QED
    BY <2>1, <2>2
<1> QED
  BY <1>2, <1>3

\* The score of a seller with settlements lies between 0 and 100.
LEMMA ScoreIsNumber ==
    ASSUME NEW e \in SellerTraits, e.tx > 0, NEW w,
           w.fr \in 0..100 \cup {NoValue}
    PROVE  SellerScore(e, w) \in 0..100
<1>1. /\ e.points \in Int /\ e.tx \in Int /\ e.self \in Int /\ FlagCap \in Nat
  BY RulesAssumption DEF SellerTraits
<1>2. SelfPenalty(e) \in Int
  BY <1>1 DEF SelfPenalty, AtMost
<1>3. WashPenalty(w) \in Int
  <2>1. (IF w.fr = NoValue THEN 0 ELSE AtMost(w.fr \div 2, 25)) \in Int
    BY DEF AtMost
  <2> QED
    BY <2>1 DEF WashPenalty
<1> DEFINE raw == Clamp(e.points - SelfPenalty(e) - WashPenalty(w))
<1>4. raw \in 0..100
  <2>1. e.points - SelfPenalty(e) - WashPenalty(w) \in Int
    BY <1>1, <1>2, <1>3
  <2> QED
    BY <2>1 DEF Clamp, AtMost
<1> HIDE DEF raw
<1>5. AtMost(raw, FlagCap) \in 0..100
  BY <1>1, <1>4 DEF AtMost
<1>6. SellerScore(e, w) = LET capped == IF Flagged(w) THEN AtMost(raw, FlagCap) ELSE raw
                          IN IF capped >= 90 /\ ~e.t2 THEN 89 ELSE capped
  BY DEF SellerScore, raw
<1> QED
  BY <1>4, <1>5, <1>6

\* _evaluate_seller_record over a sound row, or none: PASS, FAIL and UNCERTAIN as
\* the gate promises.
LEMMA SoundGate ==
    ASSUME NEW row, NEW finding \in {NoGrade, "bare", "F"},
           NEW delivery \in {"none", "delivered", "charged"},
           row # NoRow =>
               /\ row.score \in Int /\ row.grade \in Letters \cup {NoGrade}
               /\ row.flags = Flagged(row.wash)
               /\ Flagged(row.wash) \/ row.wash.recip => row.grade \in {"D", "F"}
    PROVE  LET a == Answer(row, finding, delivery)
               e == Evaluate(a)
           IN /\ e.decision = "PASS" =>
                   /\ row # NoRow /\ finding = NoGrade /\ delivery # "charged"
                   /\ ~Flagged(row.wash) /\ ~row.wash.recip
                   /\ SuggestedAction(a) \in {"PROCEED", "CAUTION"}
              /\ e.decision = "FAIL" =>
                   /\ e.basis # {}
                   /\ delivery = "charged" \/ finding # NoGrade \/ row.grade \in {"D", "F"}
              /\ (row = NoRow \/ row.grade = NoGrade) /\ finding = NoGrade /\ delivery # "charged" =>
                   e.decision = "UNCERTAIN" /\ ~e.scored
<1> DEFINE a == Answer(row, finding, delivery)
           e == Evaluate(a)
<1>0. NoGrade \notin {"A", "B", "C", "D", "F", "UNKNOWN"} /\ NoValue \notin Int
  BY RulesAssumption DEF Letters
<1>1. CASE row = NoRow /\ finding = NoGrade
  <2>1. a.delivery = delivery /\ a.status = 404 /\ a.grade = NoGrade
    BY <1>1 DEF Answer
  <2> HIDE DEF a
  <2>2. CASE delivery = "charged"
    <3>1. e = Decision("FAIL", "charged_unserved", FALSE, {"curated"})
      BY <2>1, <2>2 DEF Evaluate
    <3> HIDE DEF e
    <3> QED
      BY <2>2, <3>1 DEF Decision, a, e
  <2>3. CASE delivery # "charged"
    <3>1. e = Nothing
      BY <2>1, <2>3 DEF Evaluate
    <3>2. e.decision = "UNCERTAIN" /\ ~e.scored
      BY <3>1 DEF Nothing, Decision
    <3> HIDE DEF e
    <3> QED
      BY <3>2 DEF a, e
  <2> QED
    BY <2>2, <2>3
<1>2. CASE finding # NoGrade
  <2>1. a.delivery = delivery /\ a.status = 200 /\ a.adverse
    BY <1>2 DEF Answer
  <2> HIDE DEF a
  <2>2. SuggestedAction(a) = "DECLINE"
    BY <2>1 DEF SuggestedAction, Rated
  <2>3. e.decision = "FAIL" /\ e.basis # {}
    BY <2>1, <2>2 DEF Evaluate, Decision
  <2> HIDE DEF e
  <2> QED
    BY <1>2, <2>3 DEF a, e
<1>3. CASE row # NoRow /\ finding = NoGrade
  <2>1. /\ a.delivery = delivery /\ a.status = 200 /\ ~a.adverse /\ a.score # NoValue
        /\ a.grade = row.grade /\ a.flags = Flagged(row.wash)
    BY <1>0, <1>3 DEF Answer
  <2> HIDE DEF a
  <2>2. CASE row.grade = NoGrade
    <3>1. SuggestedAction(a) # "DECLINE"
      BY <2>1, <2>2 DEF SuggestedAction, Rated
    <3>2. delivery # "charged" => e = Nothing
      BY <1>0, <2>1, <2>2, <3>1 DEF Evaluate
    <3>3. delivery = "charged" => e = Decision("FAIL", "charged_unserved", FALSE, {"curated"})
      BY <2>1, <2>2 DEF Evaluate
    <3> HIDE DEF e
    <3> QED
      BY <3>2, <3>3 DEF Decision, Nothing, a, e
  <2>3. CASE row.grade \in {"A", "B", "C"}
    <3>1. ~Flagged(row.wash) /\ ~row.wash.recip
      BY <1>3, <2>3
    <3>2. delivery # "charged" => SuggestedAction(a) \in {"PROCEED", "CAUTION"}
      BY <1>0, <2>1, <2>3, <3>1 DEF SuggestedAction, Rated
    <3>3. CASE delivery = "charged"
      <4>1. e.decision = "FAIL" /\ e.basis # {}
        BY <2>1, <3>3 DEF Evaluate, Decision
      <4> HIDE DEF e
      <4> QED
        BY <1>0, <2>3, <3>3, <4>1 DEF a, e
    <3>4. CASE delivery # "charged"
      <4>1. e.decision # "FAIL"
        BY <1>0, <2>1, <2>3, <3>2, <3>4 DEF Evaluate, Decision, Nothing
      <4> HIDE DEF e
      <4> QED
        BY <1>0, <1>3, <2>3, <3>1, <3>2, <3>4, <4>1 DEF a, e
    <3> QED
      BY <3>3, <3>4
  <2>4. CASE row.grade \in {"D", "F"}
    <3>1. e.decision # "PASS" /\ (e.decision = "FAIL" => e.basis # {})
      BY <1>0, <2>1, <2>4 DEF Evaluate, Decision, Nothing
    <3> HIDE DEF e
    <3> QED
      BY <1>0, <1>3, <2>4, <3>1 DEF a, e
  <2> QED
    BY <1>3, <2>2, <2>3, <2>4 DEF Letters
<1> QED
  BY <1>1, <1>2, <1>3

\* score_payer and agent_lookup: a payer's letter is UNKNOWN without a score, D or
\* F for structure only, and known only of a confident or a penalised payer.
LEMMA PayerLetters ==
    ASSUME NEW p \in PayerTraits
    PROVE  LET a == AgentAnswer(IF p.tx <= 0 THEN NoRow ELSE PayerScore(p))
           IN /\ a.grade \in {"D", "F"} => Penalised(p)
              /\ a.score = NoValue <=> a.grade = "UNKNOWN"
              /\ a.grade # "UNKNOWN" => p.tx >= Confident \/ Penalised(p)
<1> DEFINE row == IF p.tx <= 0 THEN NoRow ELSE PayerScore(p)
           a == AgentAnswer(row)
           letter == Letter(PayerPoints(p))
<1>0. NoValue \notin Int /\ MinScoreable \in Nat /\ MinScoreable > 0 /\ p.tx \in Nat
  BY RulesAssumption DEF PayerTraits
<1>1. CASE row = NoRow \/ p.tx < MinScoreable \/ (p.tx < Confident /\ ~Penalised(p))
  <2>1. a.score = NoValue /\ a.grade = "UNKNOWN"
    BY <1>1 DEF AgentAnswer, PayerScore
  <2> HIDE DEF a
  <2> QED
    BY <2>1 DEF a
<1>2. CASE row # NoRow /\ ~(p.tx < MinScoreable) /\ ~(p.tx < Confident /\ ~Penalised(p))
  <2>1. letter \in Letters
    BY DEF Letter, Letters
  <2>2. PayerPoints(p) \in Int
    <3>1. p.points \in Int /\ p.self \in Nat /\ p.tx \in Nat /\ p.tx > 0 /\ ExclusiveCap \in Int
      BY <1>0, <1>2, RulesAssumption DEF PayerTraits
    <3>2. SelfPenalty(p) \in Int
      BY <3>1 DEF SelfPenalty, AtMost
    <3> DEFINE cut == IF Exclusive(p) THEN 35 ELSE 0
               raw == Clamp(p.points - SelfPenalty(p) - cut)
    <3>3. p.points - SelfPenalty(p) - cut \in Int
      BY <3>1, <3>2
    <3>4. raw \in Int
      BY <3>3, ClampTyped
    <3>5. AtMost(raw, ExclusiveCap) \in Int
      BY <3>1, <3>4, ClampTyped
    <3> HIDE DEF raw
    <3>6. PayerPoints(p) = IF Exclusive(p) THEN AtMost(raw, ExclusiveCap) ELSE raw
      BY DEF PayerPoints, raw
    <3> QED
      BY <3>4, <3>5, <3>6
  <2> HIDE DEF letter
  <2>3. /\ a.score = PayerPoints(p)
        /\ a.grade = IF ~Penalised(p) /\ letter \in {"D", "F"} THEN "C" ELSE letter
    BY <1>2 DEF AgentAnswer, PayerScore, letter
  <2> HIDE DEF a
  <2>4. a.grade # "UNKNOWN" /\ a.score # NoValue
    BY <1>0, <2>1, <2>2, <2>3 DEF Letters
  <2>5. a.grade \in {"D", "F"} => Penalised(p)
    BY <2>3
  <2>6. p.tx >= Confident \/ Penalised(p)
    BY <1>0, <1>2, RulesAssumption
  <2> QED
    BY <2>4, <2>5, <2>6 DEF a
<1> QED
  BY <1>1, <1>2

\* compute_endpoint_scores and endpoint_lookup: no letter before MinLetterDays, and
\* verified only from MatureDays on.
LEMMA OriginTiers ==
    ASSUME NEW o \in OriginTraits
    PROVE  LET a == EndpointAnswer([score |-> EndpointScore(o), grade |-> EndpointLetter(o),
                                    prov |-> o.days < MatureDays])
           IN /\ a.tier # "unrated" => o.days >= MinLetterDays
              /\ a.tier = "verified" => o.days >= MatureDays
<1> DEFINE row == [score |-> EndpointScore(o), grade |-> EndpointLetter(o),
                   prov |-> o.days < MatureDays]
           a == EndpointAnswer(row)
<1>1. row \in OriginRow
  <2>1. EndpointScore(o) \in Int
    BY DEF EndpointScore, OriginTraits
  <2>2. EndpointLetter(o) \in Letters \cup {NoGrade}
    BY DEF EndpointLetter, Letter, Letters
  <2> HIDE DEF a
  <2> QED
    BY <2>1, <2>2 DEF OriginRow
<1>2. row # NoRow
  BY <1>1, WashAssumption
<1>3. a.tier = IF EndpointLetter(o) = NoGrade THEN "unrated"
               ELSE IF o.days < MatureDays THEN "provisional" ELSE "verified"
  BY <1>2 DEF EndpointAnswer
<1>4. EndpointLetter(o) # NoGrade => ~(o.days < MinLetterDays)
  BY DEF EndpointLetter
<1> HIDE DEF a
<1>5. (a.tier # "unrated" => ~(o.days < MinLetterDays)) /\ (a.tier = "verified" => ~(o.days < MatureDays))
  BY <1>3, <1>4
<1>6. o.days \in Int /\ MinLetterDays \in Int /\ MatureDays \in Int
  BY RulesAssumption, WashAssumption DEF OriginTraits
<1> QED
  BY <1>5, <1>6 DEF a

-----------------------------------------------------------------------------
(***************************************************************************)
(* Nights, chains and sellers.                                             *)
(***************************************************************************)
\* A set of natural numbers that is not empty has a least element.
LEMMA Least ==
    ASSUME NEW T \in SUBSET Nat, T # {}
    PROVE  \E m \in T : \A n \in T : m <= n
<1> DEFINE R == OpToRel(<, Nat)
<1>1. IsWellFoundedOn(R, Nat)
  BY NatLessThanWellFounded, Zenon
<1>2. PICK m \in T : \A n \in T : ~(<<n, m>> \in R)
  BY <1>1, WFMin, Zenon
<1>3. \A x, y \in Nat : x < y => <<x, y>> \in R
  BY Zenon DEF OpToRel
<1> HIDE DEF R
<1>4. ASSUME NEW n \in T PROVE m <= n
  <2>1. m \in Nat /\ n \in Nat
    OBVIOUS
  <2>2. ~(n < m)
    BY <1>2, <1>3, <2>1
  <2> QED
    BY <2>1, <2>2
<1> QED
  BY <1>4

\* The newest night of a set of nights is one of them, and none of the others is
\* newer.
LEMMA LastIsNewest ==
    ASSUME NEW N \in Nat, NEW S \in SUBSET (1..N), S # {}
    PROVE  Last(S) \in S /\ \A k \in S : k <= Last(S)
<1> DEFINE U == {u \in Nat : \A k \in S : k <= u}
<1>1. N \in U
  OBVIOUS
<1>2. PICK m \in U : \A u \in U : m <= u
  BY <1>1, Least
<1>3. m \in S
  <2> SUFFICES ASSUME m \notin S PROVE FALSE
    OBVIOUS
  <2>0. m \in Nat /\ \A k \in S : k \in Nat /\ k >= 1 /\ k <= m
    BY <1>2
  <2>1. \A k \in S : k # m /\ k <= m - 1
    BY <2>0
  <2>2. m - 1 \in Nat
    <3>1. PICK k \in S : TRUE
      OBVIOUS
    <3> QED
      BY <2>0, <2>1, <3>1
  <2>3. m - 1 \in U
    BY <2>1, <2>2
  <2>4. m <= m - 1
    BY <1>2, <2>3
  <2> QED
    BY <2>0, <2>4
<1>4. \A k \in S : k <= m
  BY <1>2
<1> QED
  BY <1>3, <1>4 DEF Last

\* The newest night is this one when this one is of the set.
LEMMA LastIsTonight ==
    ASSUME NEW N \in Nat, NEW S \in SUBSET (1..N), N \in S
    PROVE  Last(S) = N
<1>1. Last(S) \in S /\ N <= Last(S)
  BY LastIsNewest
<1>2. Last(S) \in 1..N
  BY <1>1
<1> HIDE DEF Last
<1> QED
  BY <1>1, <1>2

\* The traits of the sellers are of their kinds, and so is a signal that a section
\* writes.
LEMMA Traits ==
    ASSUME pop \in Populations, NEW s \in Seller
    PROVE  pop.sellers[s] \in SellerTraits /\ ChainOf[s] \in Chain
  BY WashAssumption

\* A night in work is one of the nights.
LEMMA InWork ==
    ASSUME NightTyped, stage # "idle"
    PROVE  night \in Night /\ night \in Nat
<1>1. night \in 0..MaxNight /\ night > 0
  BY DEF NightTyped
<1> QED
  BY <1>1, WashAssumption DEF Night

\* Nights are numbers.
LEMMA NightIsNat == ASSUME NightTyped PROVE night \in Nat
<1>1. night \in 0..MaxNight /\ MaxNight \in Nat
  BY WashAssumption DEF NightTyped
<1> QED
  BY <1>1

\* The chain in work and the chains ahead of a section.
LEMMA HeadAndTail ==
    ASSUME NEW C, todo \in Seq(C), todo # <<>>, NEW next, NEW order, Advance(next, order)
    PROVE  /\ Head(todo) \in C /\ Ahead \subseteq C /\ Head(todo) \in Ahead
           /\ \/ /\ stage' = stage /\ todo' \in Seq(C) /\ todo' # <<>>
                 /\ Ahead \subseteq Ahead' \cup {Head(todo)}
              \/ stage' = next /\ todo' = order /\ Ahead = {Head(todo)}
<1>1. Len(todo) \in Nat /\ Len(todo) > 0 /\ DOMAIN todo = 1..Len(todo) /\ Head(todo) = todo[1]
  OBVIOUS
<1>2. Head(todo) \in C /\ Ahead \subseteq C /\ Head(todo) \in Ahead
  BY <1>1 DEF Ahead
<1>3. CASE Len(todo) > 1
  <2>1. todo' = Tail(todo) /\ stage' = stage
    BY <1>3 DEF Advance
  <2>2. /\ Tail(todo) \in Seq(C) /\ Len(Tail(todo)) = Len(todo) - 1
        /\ \A i \in 1..(Len(todo) - 1) : Tail(todo)[i] = todo[i + 1]
    BY <1>3
  <2>3. \A i \in DOMAIN todo : i # 1 => todo[i] \in Ahead'
    <3> SUFFICES ASSUME NEW i \in DOMAIN todo, i # 1 PROVE todo[i] \in Ahead'
      OBVIOUS
    <3>1. i - 1 \in 1..(Len(todo) - 1) /\ (i - 1) + 1 = i
      BY <1>1
    <3>2. i - 1 \in DOMAIN todo' /\ todo'[i - 1] = todo[i]
      BY <2>1, <2>2, <3>1
    <3> QED
      BY <3>2 DEF Ahead
  <2>4. todo' # <<>>
    <3>1. Len(Tail(todo)) # 0
      <4> DEFINE l == Len(todo)
                 t == Len(Tail(todo))
      <4>1. l \in Nat /\ l > 1 /\ t = l - 1
        BY <1>1, <1>3, <2>2
      <4> HIDE DEF l, t
      <4>2. t # 0
        BY <4>1
      <4> QED
        BY <4>2 DEF t
    <3>2. Len(<<>>) = 0
      OBVIOUS
    <3>3. Tail(todo) # <<>>
      BY <3>1, <3>2, Zenon
    <3> QED
      BY <2>1, <3>3, Zenon
  <2> QED
    BY <1>1, <1>2, <2>1, <2>2, <2>3, <2>4 DEF Ahead
<1>4. CASE ~(Len(todo) > 1)
  <2>1. DOMAIN todo = {1}
    BY <1>1, <1>4
  <2> QED
    BY <1>1, <1>2, <1>4, <2>1 DEF Advance, Ahead
<1> QED
  BY <1>3, <1>4

\* The sections start with all their chains ahead.
LEMMA OrdersCover ==
    /\ {CycleOrder[i] : i \in DOMAIN CycleOrder} = Chain
    /\ {WashOrder[i] : i \in DOMAIN WashOrder} = WashChain
  BY DEF Chain, WashChain

-----------------------------------------------------------------------------
(***************************************************************************)
(* The steps of a night.                                                   *)
(***************************************************************************)
\* The sellers, payers and origins stay what they are, and so does what their
\* settlements say of them.
LEMMA SettlementsStand ==
    ASSUME [Next]_vars
    PROVE  /\ pop' = pop /\ failed \subseteq failed'
           /\ \A s \in Seller : (Misconduct(s)' <=> Misconduct(s))
                                /\ (SeenByLookback(s)' <=> SeenByLookback(s))
           /\ \A ch \in Chain : RingOn(ch)' = RingOn(ch) /\ TopSellers(ch)' = TopSellers(ch)
           /\ Others' = Others
<1>1. pop' = pop
  BY DEF Next, vars, StartNight, Reciprocal, Cycles, CyclesFail, Lookback, LookbackEscapes,
         Concentration, ConcentrationFails, Clean, CleanFails, Scores, ScoresFail
<1>2. failed \subseteq failed'
  BY DEF Next, vars, StartNight, Reciprocal, Cycles, CyclesFail, Lookback, LookbackEscapes,
         Concentration, ConcentrationFails, Clean, CleanFails, Scores, ScoresFail, Fails
<1>3. \A s \in Seller : (Misconduct(s)' <=> Misconduct(s)) /\ (SeenByLookback(s)' <=> SeenByLookback(s))
  BY <1>1 DEF Misconduct, SeenByLookback
<1>4. \A ch \in Chain : RingOn(ch)' = RingOn(ch) /\ TopSellers(ch)' = TopSellers(ch)
  BY <1>1 DEF RingOn, TopSellers, Merchants
<1>5. Others' = Others
  BY <1>1 DEF Others
<1> QED
  BY <1>1, <1>2, <1>3, <1>4, <1>5

\* What run_wash writes to the table of signals is a row, for a seller of the chain
\* in work.
LEMMA SignalWritten ==
    ASSUME pop \in Populations, NEW s \in Seller, NEW gaveUp
    PROVE  [fr |-> Funded(s, gaveUp), recip |-> s \in recip, flagged |-> IsFlagged(s, gaveUp)]
              \in SignalRow
<1>1. Funded(s, gaveUp) \in 0..100 \cup {NoValue}
  BY Traits DEF Funded, SellerTraits
<1>2. IsFlagged(s, gaveUp) \in BOOLEAN /\ (s \in recip) \in BOOLEAN
  BY DEF IsFlagged
<1> QED
  BY <1>1, <1>2 DEF SignalRow

\* Lookback in terms of the rows: those of the top sellers are new, and the others
\* stay.
LEMMA LookbackRows ==
    ASSUME NightTyped, Lookback
    PROVE  LET ch == Head(todo)
           IN /\ ch \in WashChain /\ night \in Night
              /\ signals' \in [Night -> [Seller -> SignalRow \cup {NoRow}]]
              /\ \E gaveUp \in SUBSET TopSellers(ch) :
                   /\ failed' = failed \cup {<<night, "gave up", s>> : s \in gaveUp}
                   /\ flagged' = [flagged EXCEPT ![ch] =
                        @ \cup {s \in TopSellers(ch) : IsFlagged(s, gaveUp)}]
                   /\ \A s \in TopSellers(ch) : signals'[night][s] =
                        [fr |-> Funded(s, gaveUp), recip |-> s \in recip,
                         flagged |-> IsFlagged(s, gaveUp)]
              /\ \A s \in Seller \ TopSellers(ch) : signals'[night][s] = signals[night][s]
              /\ \A n \in Night : n # night => signals'[n] = signals[n]
<1> DEFINE ch == Head(todo)
<1>1. stage = "lookback" /\ todo \in Seq(WashChain) /\ todo # <<>>
  BY DEF Lookback, NightTyped
<1>2. ch \in WashChain /\ night \in Night
  BY <1>1, InWork
<1>3. PICK gaveUp \in SUBSET TopSellers(ch) :
        /\ failed' = failed \cup {<<night, "gave up", s>> : s \in gaveUp}
        /\ flagged' = [flagged EXCEPT ![ch] = @ \cup {s \in TopSellers(ch) : IsFlagged(s, gaveUp)}]
        /\ signals' = [signals EXCEPT ![night] = [s \in Seller |->
             IF s \in TopSellers(ch)
             THEN [fr |-> Funded(s, gaveUp), recip |-> s \in recip, flagged |-> IsFlagged(s, gaveUp)]
             ELSE signals[night][s]]]
  BY DEF Lookback
<1>4. TopSellers(ch) \subseteq Seller
  BY DEF TopSellers, Merchants, On
<1> DEFINE row(s) == [fr |-> Funded(s, gaveUp), recip |-> s \in recip,
                      flagged |-> IsFlagged(s, gaveUp)]
<1>5. \A s \in Seller : row(s) \in SignalRow
  BY SignalWritten DEF NightTyped
<1> HIDE DEF row
<1>6. /\ signals \in [Night -> [Seller -> SignalRow \cup {NoRow}]]
      /\ signals' = [signals EXCEPT ![night] = [s \in Seller |->
             IF s \in TopSellers(ch) THEN row(s) ELSE signals[night][s]]]
  BY <1>3 DEF NightTyped, row
<1> HIDE DEF ch
<1>7. signals' \in [Night -> [Seller -> SignalRow \cup {NoRow}]]
  BY <1>2, <1>5, <1>6
<1>8. \A s \in TopSellers(ch) : signals'[night][s] = row(s)
  BY <1>2, <1>4, <1>6
<1>9. /\ \A s \in Seller \ TopSellers(ch) : signals'[night][s] = signals[night][s]
      /\ \A n \in Night : n # night => signals'[n] = signals[n]
  BY <1>2, <1>6
<1> QED
  BY <1>2, <1>3, <1>7, <1>8, <1>9 DEF row, ch

\* Concentration in the same terms.
LEMMA ConcentrationRows ==
    ASSUME NightTyped, Concentration
    PROVE  /\ night \in Night
           /\ signals' \in [Night -> [Seller -> SignalRow \cup {NoRow}]]
           /\ \A s \in Seller :
                IF ChainOf[s] \in WashChain /\ pop.sellers[s].merchant /\ pop.sellers[s].conc
                THEN signals'[night][s] = [fr |-> NoValue, recip |-> FALSE, flagged |-> TRUE]
                ELSE signals'[night][s] = signals[night][s]
           /\ \A n \in Night : n # night => signals'[n] = signals[n]
<1> DEFINE row == [fr |-> NoValue, recip |-> FALSE, flagged |-> TRUE]
<1>1. row \in SignalRow
  BY DEF SignalRow
<1>2. night \in Night /\ signals \in [Night -> [Seller -> SignalRow \cup {NoRow}]]
  BY InWork DEF Concentration, NightTyped
<1>3. conc' = UNION {{s \in Merchants(ch) : pop.sellers[s].conc} : ch \in WashChain}
  BY DEF Concentration
<1>4. signals' = [signals EXCEPT ![night] = [s \in Seller |-> IF s \in conc' THEN row ELSE signals[night][s]]]
  BY DEF Concentration
<1>5. \A s \in Seller : s \in conc' <=>
        ChainOf[s] \in WashChain /\ pop.sellers[s].merchant /\ pop.sellers[s].conc
  BY <1>3 DEF Merchants, On
<1> HIDE DEF row
<1>6. signals' \in [Night -> [Seller -> SignalRow \cup {NoRow}]]
  BY <1>1, <1>2, <1>4
<1>7. /\ \A s \in Seller : signals'[night][s] = IF s \in conc' THEN row ELSE signals[night][s]
      /\ \A n \in Night : n # night => signals'[n] = signals[n]
  BY <1>2, <1>4
<1> QED
  BY <1>2, <1>5, <1>6, <1>7 DEF row

\* Cycles in the same terms.
LEMMA CycleRows ==
    ASSUME NightTyped, Cycles
    PROVE  LET ch == Head(todo)
           IN /\ ch \in Chain /\ night \in Night
              /\ cycles' \in [Night -> [Chain -> (SUBSET Seller) \cup {NoRow}]]
              /\ cycles'[night][ch] = RingOn(ch) /\ RingOn(ch) # NoRow
              /\ \A n \in Night, c \in Chain : n # night \/ c # ch => cycles'[n][c] = cycles[n][c]
              /\ flagged' \in [WashChain -> SUBSET Seller]
              /\ \A c \in WashChain : flagged'[c] = IF c = ch THEN flagged[c] \cup RingOn(ch) ELSE flagged[c]
<1> DEFINE ch == Head(todo)
<1>1. stage = "cycles" /\ todo \in Seq(Chain) /\ todo # <<>>
  BY DEF Cycles, NightTyped
<1>2. ch \in Chain /\ night \in Night
  BY <1>1, InWork
<1>3. RingOn(ch) \in SUBSET Seller
  BY DEF RingOn, On
<1>4. RingOn(ch) # NoRow
  BY <1>3, WashAssumption
<1>5. /\ cycles' = [cycles EXCEPT ![night][ch] = RingOn(ch)]
      /\ flagged' = [c \in WashChain |-> IF c = ch THEN flagged[c] \cup RingOn(ch) ELSE flagged[c]]
  BY DEF Cycles
<1>6. /\ cycles \in [Night -> [Chain -> (SUBSET Seller) \cup {NoRow}]]
      /\ flagged \in [WashChain -> SUBSET Seller]
  BY DEF NightTyped
<1> HIDE DEF ch
<1>7. /\ cycles' \in [Night -> [Chain -> (SUBSET Seller) \cup {NoRow}]]
      /\ cycles'[night][ch] = RingOn(ch)
      /\ \A n \in Night, c \in Chain : n # night \/ c # ch => cycles'[n][c] = cycles[n][c]
  BY <1>2, <1>3, <1>5, <1>6
<1>8. flagged' \in [WashChain -> SUBSET Seller]
  BY <1>3, <1>5, <1>6
<1> QED
  BY <1>2, <1>4, <1>5, <1>7, <1>8 DEF ch

\* The orders of the loops, and the sellers.
LEMMA OrdersTyped ==
    /\ CycleOrder \in Seq(Chain) /\ CycleOrder # <<>>
    /\ WashOrder \in Seq(WashChain) /\ WashOrder # <<>>
    /\ \A i, j \in DOMAIN CycleOrder : CycleOrder[i] = CycleOrder[j] => i = j
    /\ \A i, j \in DOMAIN WashOrder : WashOrder[i] = WashOrder[j] => i = j
    /\ WashChain \subseteq Chain /\ ChainOf \in [Seller -> Chain]
    /\ IsFiniteSet(Seller) /\ MaxNight \in Nat
  BY WashAssumption

\* Every step keeps the kinds.
LEMMA TypedKept == ASSUME NightTyped, [Next]_vars PROVE NightTyped'
<1> USE DEF tables
<1>0. pop' = pop /\ pop \in Populations /\ night \in 0..MaxNight /\ MaxNight \in Nat
  BY SettlementsStand, OrdersTyped DEF NightTyped
<1>1. CASE StartNight
  <2>1. night' \in 0..MaxNight /\ night' > 0
    BY <1>0, <1>1 DEF StartNight
  <2>2. flagged' \in [WashChain -> SUBSET Seller]
    BY <1>1 DEF StartNight
  <2> QED
    BY <1>0, <1>1, <2>1, <2>2 DEF StartNight, NightTyped, Section
<1>2. CASE Reciprocal
  <2>1. flagged' \in [WashChain -> SUBSET Seller] /\ recip' \subseteq Seller
    BY <1>2 DEF Reciprocal, On
  <2> QED
    BY <1>0, <1>2, <2>1, OrdersTyped DEF Reciprocal, NightTyped, Section
<1>3. CASE Cycles
  <2>1. /\ cycles' \in [Night -> [Chain -> (SUBSET Seller) \cup {NoRow}]]
        /\ flagged' \in [WashChain -> SUBSET Seller]
    BY <1>3, CycleRows
  <2>2. \/ stage' = stage /\ todo' \in Seq(Chain) /\ todo' # <<>>
        \/ stage' = "lookback" /\ todo' = WashOrder
    BY <1>3, HeadAndTail DEF Cycles, NightTyped
  <2>3. stage = "cycles" /\ UNCHANGED <<night, recip, signals, scores>>
    BY <1>3 DEF Cycles
  <2> QED
    BY <1>0, <2>1, <2>2, <2>3, OrdersTyped DEF NightTyped, Section
<1>4. CASE CyclesFail
  <2>1. \/ stage' = stage /\ todo' \in Seq(Chain) /\ todo' # <<>>
        \/ stage' = "lookback" /\ todo' = WashOrder
    BY <1>4, HeadAndTail DEF CyclesFail, NightTyped
  <2>2. stage = "cycles" /\ UNCHANGED <<night, recip, flagged, signals, cycles, scores>>
    BY <1>4 DEF CyclesFail
  <2> QED
    BY <1>0, <2>1, <2>2, OrdersTyped DEF NightTyped, Section
<1>5. CASE Lookback
  <2>1. /\ signals' \in [Night -> [Seller -> SignalRow \cup {NoRow}]]
        /\ flagged' \in [WashChain -> SUBSET Seller]
    <3>1. TopSellers(Head(todo)) \subseteq Seller
      BY DEF TopSellers, Merchants, On
    <3> QED
      BY <1>5, <3>1, LookbackRows DEF NightTyped
  <2>2. \/ stage' = stage /\ todo' \in Seq(WashChain) /\ todo' # <<>>
        \/ stage' = "conc" /\ todo' = <<>>
    BY <1>5, HeadAndTail DEF Lookback, NightTyped
  <2>3. stage = "lookback" /\ UNCHANGED <<night, recip, cycles, scores>>
    BY <1>5 DEF Lookback
  <2> QED
    BY <1>0, <2>1, <2>2, <2>3 DEF NightTyped, Section
<1>6. CASE LookbackEscapes
  <2>1. /\ stage = "lookback" /\ stage' = "scores"
        /\ UNCHANGED <<night, recip, flagged, signals, cycles, scores>>
    BY <1>6 DEF LookbackEscapes
  <2> QED
    BY <1>0, <2>1 DEF NightTyped, Section
<1>7. CASE Concentration
  <2>1. /\ stage = "conc" /\ stage' = "clean"
        /\ UNCHANGED <<night, recip, flagged, cycles, scores>>
    BY <1>7 DEF Concentration
  <2>2. signals' \in [Night -> [Seller -> SignalRow \cup {NoRow}]]
    BY <1>7, ConcentrationRows
  <2> QED
    BY <1>0, <2>1, <2>2 DEF NightTyped, Section
<1>8. CASE ConcentrationFails
  BY <1>0, <1>8 DEF ConcentrationFails, NightTyped, Section
<1>9. CASE Clean \/ CleanFails
  <2>1. stage = "clean" /\ stage' \in {"clean", "scores"}
    BY <1>9 DEF Clean, CleanFails, Advance
  <2> QED
    BY <1>0, <1>9, <2>1 DEF Clean, CleanFails, NightTyped, Section
<1>10. CASE Scores
  <2>1. night \in Night
    BY <1>10, InWork DEF Scores
  <2>2. scores' = [n \in Night |-> [s \in Seller |-> scores'[n][s]]]
    BY <1>10, <2>1 DEF Scores, NightTyped
  <2> QED
    BY <1>0, <1>10, <2>2 DEF Scores, NightTyped, Section
<1>11. CASE ScoresFail
  BY <1>0, <1>11 DEF ScoresFail, NightTyped, Section
<1>12. CASE UNCHANGED vars
  BY <1>12 DEF vars, runVars, NightTyped
<1> QED
  BY <1>1, <1>2, <1>3, <1>4, <1>5, <1>6, <1>7, <1>8, <1>9, <1>10, <1>11, <1>12 DEF Next

\* Every step records only what the settlements show.
LEMMA EvidenceKept == ASSUME NightTyped, EvidenceTrue, [Next]_vars PROVE EvidenceTrue'
<1> USE DEF tables, runVars
<1>0. /\ pop' = pop /\ pop \in Populations
      /\ \A s \in Seller : Misconduct(s)' <=> Misconduct(s)
      /\ \A ch \in Chain : RingOn(ch)' = RingOn(ch)
  BY SettlementsStand DEF NightTyped
<1> DEFINE Recips(r) == \A s \in r : ChainOf[s] \in WashChain /\ pop.sellers[s].recip
           Flags(f) == \A ch \in WashChain : \A s \in f[ch] :
                          ChainOf[s] = ch /\ (pop.sellers[s].batch \/ Misconduct(s))
           Rings(t) == \A n \in Night, ch \in Chain : t[n][ch] # NoRow => t[n][ch] = RingOn(ch)
           Signal(s, row) == /\ ChainOf[s] \in WashChain
                             /\ pop.sellers[s].merchant /\ (pop.sellers[s].big \/ pop.sellers[s].conc)
                             /\ row.recip \/ row.flagged => Misconduct(s)
           Signals(t) == \A n \in Night, s \in Seller : t[n][s] # NoRow => Signal(s, t[n][s])
<1>1. EvidenceTrue <=> Recips(recip) /\ Flags(flagged) /\ Rings(cycles) /\ Signals(signals)
  BY DEF EvidenceTrue
<1>2. Recips(recip') /\ Flags(flagged') /\ Rings(cycles') /\ Signals(signals') => EvidenceTrue'
  <2>1. flagged' \in [WashChain -> SUBSET Seller] /\ recip' \subseteq Seller
    BY TypedKept DEF NightTyped
  <2> QED
    BY <1>0, <2>1 DEF EvidenceTrue
<1>3. CASE UNCHANGED <<recip, flagged, cycles, signals>>
  BY <1>1, <1>2, <1>3
<1>4. CASE StartNight
  <2>1. Flags(flagged') /\ UNCHANGED <<recip, cycles, signals>>
    BY <1>4 DEF StartNight
  <2> QED
    BY <1>1, <1>2, <2>1
<1>5. CASE Reciprocal
  <2>1. Recips(recip') /\ Flags(flagged') /\ UNCHANGED <<cycles, signals>>
    BY <1>5 DEF Reciprocal, On
  <2> QED
    BY <1>1, <1>2, <2>1
<1>6. CASE Cycles
  <2> DEFINE ch == Head(todo)
  <2>1. Rings(cycles')
    <3> SUFFICES ASSUME NEW n \in Night, NEW c \in Chain, cycles'[n][c] # NoRow
                 PROVE  cycles'[n][c] = RingOn(c)
      OBVIOUS
    <3>1. CASE n = night /\ c = ch
      BY <1>6, <3>1, CycleRows
    <3>2. CASE n # night \/ c # ch
      <4>1. cycles'[n][c] = cycles[n][c]
        BY <1>6, <3>2, CycleRows
      <4> QED
        BY <1>1, <4>1
    <3> QED
      BY <3>1, <3>2
  <2>2. Flags(flagged')
    <3> SUFFICES ASSUME NEW c \in WashChain, NEW s \in flagged'[c]
                 PROVE  ChainOf[s] = c /\ (pop.sellers[s].batch \/ Misconduct(s))
      OBVIOUS
    <3>1. s \in flagged[c] \/ (c = ch /\ s \in RingOn(c))
      BY <1>6, CycleRows
    <3>2. CASE s \in flagged[c]
      BY <1>1, <3>2
    <3>3. CASE c = ch /\ s \in RingOn(c)
      BY <3>3 DEF RingOn, On, Misconduct
    <3> QED
      BY <3>1, <3>2, <3>3
  <2>3. UNCHANGED <<recip, signals>>
    BY <1>6 DEF Cycles
  <2> QED
    BY <1>1, <1>2, <2>1, <2>2, <2>3
<1>7. CASE Lookback
  <2> DEFINE ch == Head(todo)
  <2>1. /\ ch \in WashChain /\ night \in Night
        /\ \A s \in Seller \ TopSellers(ch) : signals'[night][s] = signals[night][s]
        /\ \A n \in Night : n # night => signals'[n] = signals[n]
    BY <1>7, LookbackRows
  <2>2. PICK gaveUp \in SUBSET TopSellers(ch) :
          /\ flagged' = [flagged EXCEPT ![ch] = @ \cup {s \in TopSellers(ch) : IsFlagged(s, gaveUp)}]
          /\ \A s \in TopSellers(ch) : signals'[night][s] =
                [fr |-> Funded(s, gaveUp), recip |-> s \in recip, flagged |-> IsFlagged(s, gaveUp)]
    BY <1>7, LookbackRows
  <2> HIDE DEF ch
  <2>3. \A s \in TopSellers(ch) : s \in Seller /\ ChainOf[s] = ch /\ pop.sellers[s].merchant
                                   /\ pop.sellers[s].big
    BY DEF TopSellers, Merchants, On
  <2>4. ASSUME NEW s \in TopSellers(ch), s \in recip \/ IsFlagged(s, gaveUp) PROVE Misconduct(s)
    <3>1. /\ ChainOf[s] \in WashChain /\ s \in Seller
          /\ pop.sellers[s].merchant /\ pop.sellers[s].big
      BY <2>1, <2>3
    <3>2. CASE s \in recip
      BY <1>1, <3>1, <3>2 DEF Misconduct
    <3>3. CASE SelfRatio(pop.sellers[s]) > SelfThresh
      BY <3>1, <3>3 DEF Misconduct
    <3>4. CASE Funded(s, gaveUp) # NoValue /\ Funded(s, gaveUp) > FundedThresh
      <4>1. pop.sellers[s].fr > FundedThresh
        BY <3>4 DEF Funded
      <4> QED
        BY <3>1, <4>1 DEF Misconduct
    <3>5. CASE s \in flagged[ChainOf[s]]
      BY <1>1, <3>1, <3>5 DEF Misconduct
    <3> QED
      BY <2>4, <3>2, <3>3, <3>4, <3>5 DEF IsFlagged
  <2>5. Flags(flagged')
    <3> SUFFICES ASSUME NEW c \in WashChain, NEW s \in flagged'[c]
                 PROVE  ChainOf[s] = c /\ (pop.sellers[s].batch \/ Misconduct(s))
      OBVIOUS
    <3>1. s \in flagged[c] \/ (c = ch /\ s \in TopSellers(ch) /\ IsFlagged(s, gaveUp))
      BY <2>1, <2>2 DEF NightTyped
    <3> QED
      BY <1>1, <2>3, <2>4, <3>1
  <2>6. Signals(signals')
    <3> SUFFICES ASSUME NEW n \in Night, NEW s \in Seller, signals'[n][s] # NoRow
                 PROVE  Signal(s, signals'[n][s])
      OBVIOUS
    <3>1. CASE n = night /\ s \in TopSellers(ch)
      <4> DEFINE row == [fr |-> Funded(s, gaveUp), recip |-> s \in recip,
                         flagged |-> IsFlagged(s, gaveUp)]
      <4>1. signals'[n][s] = row
        BY <2>2, <3>1
      <4>2. Signal(s, row)
        BY <2>1, <2>3, <2>4, <3>1
      <4> QED
        BY <4>1, <4>2
    <3>2. CASE n # night \/ s \notin TopSellers(ch)
      <4>1. signals'[n][s] = signals[n][s]
        BY <2>1, <3>2
      <4> QED
        BY <1>1, <4>1
    <3> QED
      BY <3>1, <3>2
  <2>7. UNCHANGED <<recip, cycles>>
    BY <1>7 DEF Lookback
  <2> QED
    BY <1>1, <1>2, <2>5, <2>6, <2>7
<1>8. CASE Concentration
  <2>1. Signals(signals')
    <3> SUFFICES ASSUME NEW n \in Night, NEW s \in Seller, signals'[n][s] # NoRow
                 PROVE  Signal(s, signals'[n][s])
      OBVIOUS
    <3>1. CASE /\ n = night
               /\ ChainOf[s] \in WashChain /\ pop.sellers[s].merchant /\ pop.sellers[s].conc
      BY <1>8, <3>1, ConcentrationRows DEF Misconduct
    <3>2. CASE ~(/\ n = night
                 /\ ChainOf[s] \in WashChain /\ pop.sellers[s].merchant /\ pop.sellers[s].conc)
      <4>1. signals'[n][s] = signals[n][s]
        BY <1>8, <3>2, ConcentrationRows
      <4> QED
        BY <1>1, <4>1
    <3> QED
      BY <3>1, <3>2
  <2>2. UNCHANGED <<recip, flagged, cycles>>
    BY <1>8 DEF Concentration
  <2> QED
    BY <1>1, <1>2, <2>1, <2>2
<1>9. CASE CyclesFail \/ LookbackEscapes \/ ConcentrationFails \/ Clean \/ CleanFails
           \/ Scores \/ ScoresFail \/ UNCHANGED vars
  BY <1>3, <1>9 DEF CyclesFail, LookbackEscapes, ConcentrationFails, Clean, CleanFails, Scores,
                    ScoresFail, vars
<1> QED
  BY <1>4, <1>5, <1>6, <1>7, <1>8, <1>9 DEF Next

\* What the sections do not touch behind a section that has been.
LEMMA BehindThem ==
    ASSUME [Next]_vars
    PROVE  /\ Did("recip") \/ Did("recip")' => night' = night /\ stage # "idle"
           /\ Did("recip")' => Reciprocal \/ (Did("recip") /\ recip' = recip)
           /\ Did("cycles")' => Cycles \/ CyclesFail \/ (Did("cycles") /\ cycles' = cycles)
           /\ Did("lookback")' =>
                Lookback \/ LookbackEscapes \/ Concentration \/ (Did("lookback") /\ signals' = signals)
           /\ Did("conc")' =>
                LookbackEscapes \/ Concentration \/ ConcentrationFails \/ (Did("conc") /\ signals' = signals)
<1> USE DEF tables, runVars, Did
<1>1. CASE StartNight
  BY <1>1 DEF StartNight
<1>2. CASE Reciprocal
  BY <1>2 DEF Reciprocal
<1>3. CASE Cycles \/ CyclesFail
  BY <1>3 DEF Cycles, CyclesFail, Advance
<1>4. CASE Lookback \/ LookbackEscapes
  BY <1>4 DEF Lookback, LookbackEscapes, Advance
<1>5. CASE Concentration \/ ConcentrationFails
  BY <1>5 DEF Concentration, ConcentrationFails
<1>6. CASE Clean \/ CleanFails
  BY <1>6 DEF Clean, CleanFails, Advance
<1>7. CASE Scores \/ ScoresFail
  BY <1>7 DEF Scores, ScoresFail
<1>8. CASE UNCHANGED vars
  BY <1>8 DEF vars
<1> QED
  BY <1>1, <1>2, <1>3, <1>4, <1>5, <1>6, <1>7, <1>8 DEF Next

\* What the sections have flagged on a chain stays flagged for the night.
LEMMA FlagsGrow ==
    ASSUME NightTyped, [Next]_vars, Did("recip")
    PROVE  \A ch \in WashChain : flagged[ch] \subseteq flagged'[ch]
<1> USE DEF tables, runVars
<1>1. CASE StartNight \/ Reciprocal
  BY <1>1 DEF StartNight, Reciprocal, Did
<1>2. CASE Cycles
  BY <1>2, CycleRows
<1>3. CASE Lookback
  BY <1>3, LookbackRows DEF NightTyped
<1>4. CASE flagged' = flagged
  BY <1>4
<1>5. CASE CyclesFail \/ LookbackEscapes \/ Concentration \/ ConcentrationFails \/ Clean \/ CleanFails
           \/ Scores \/ ScoresFail \/ UNCHANGED vars
  BY <1>4, <1>5 DEF CyclesFail, LookbackEscapes, Concentration, ConcentrationFails, Clean,
                    CleanFails, Scores, ScoresFail, vars
<1> QED
  BY <1>1, <1>2, <1>3, <1>5 DEF Next

\* The reciprocal scan and the batch flags.
LEMMA ReciprocalKept ==
    ASSUME NightTyped, ReciprocalDone, [Next]_vars PROVE ReciprocalDone'
<1> SUFFICES ASSUME Did("recip")', NEW s \in Seller, ChainOf[s] \in WashChain
             PROVE  /\ pop.sellers[s].recip => s \in recip' \/ <<night', "recip", NoValue>> \in failed'
                    /\ pop.sellers[s].batch => s \in flagged'[ChainOf[s]]
  BY SettlementsStand DEF ReciprocalDone
<1>0. night' = night /\ failed \subseteq failed'
  BY BehindThem, SettlementsStand
<1>1. CASE Reciprocal
  <2>1. recipOk' \/ <<night, "recip", NoValue>> \in failed'
    BY <1>1 DEF Reciprocal, Fails
  <2>2. recip' = {t \in Seller : recipOk' /\ ChainOf[t] \in WashChain /\ pop.sellers[t].recip}
    BY <1>1 DEF Reciprocal
  <2>3. flagged'[ChainOf[s]] = {t \in On(ChainOf[s]) : pop.sellers[t].batch}
    BY <1>1 DEF Reciprocal
  <2> QED
    BY <1>0, <2>1, <2>2, <2>3 DEF On
<1>2. CASE Did("recip") /\ recip' = recip
  <2>1. flagged[ChainOf[s]] \subseteq flagged'[ChainOf[s]]
    BY <1>2, FlagsGrow
  <2> QED
    BY <1>0, <1>2, <2>1 DEF ReciprocalDone
<1> QED
  BY <1>1, <1>2, BehindThem

\* The chains that the cycle pass has been to.
LEMMA CyclesKept ==
    ASSUME NightTyped, CyclesDone, [Next]_vars PROVE CyclesDone'
<1> SUFFICES ASSUME NEW ch \in Chain, Did("cycles")' \/ (stage' = "cycles" /\ ch \notin Ahead')
             PROVE  cycles'[night'][ch] # NoRow \/ <<night', "cycles", ch>> \in failed'
  BY DEF CyclesDone
<1>0. night' = night /\ failed \subseteq failed'
  <2>1. Did("recip")'
    BY DEF Did
  <2> QED
    BY <2>1, BehindThem, SettlementsStand
<1>1. CASE Reciprocal
  <2>1. stage' = "cycles" /\ todo' = CycleOrder
    BY <1>1 DEF Reciprocal
  <2>2. Ahead' = Chain
    BY <2>1, OrdersCover DEF Ahead
  <2> QED
    BY <2>1, <2>2 DEF Did
<1>2. ASSUME Cycles \/ CyclesFail
      PROVE  ch = Head(todo) \/ cycles[night][ch] # NoRow \/ <<night, "cycles", ch>> \in failed
  <2>1. stage = "cycles" /\ todo \in Seq(Chain) /\ todo # <<>> /\ Advance("lookback", WashOrder)
    BY <1>2 DEF Cycles, CyclesFail, NightTyped
  <2>2. \/ stage' = "cycles" /\ Ahead \subseteq Ahead' \cup {Head(todo)}
        \/ stage' = "lookback" /\ Ahead = {Head(todo)}
    BY <2>1, HeadAndTail
  <2>3. ch = Head(todo) \/ ch \notin Ahead
    BY <2>2 DEF Did
  <2> QED
    BY <2>1, <2>3 DEF CyclesDone
<1>3. CASE Cycles
  <2>1. CASE ch = Head(todo)
    BY <1>0, <1>3, <2>1, CycleRows
  <2>2. CASE ch # Head(todo)
    <3>1. cycles'[night][ch] = cycles[night][ch]
      BY <1>3, <2>2, CycleRows
    <3> QED
      BY <1>0, <1>2, <1>3, <2>2, <3>1
  <2> QED
    BY <2>1, <2>2
<1>4. CASE CyclesFail
  <2>1. cycles' = cycles /\ <<night, "cycles", Head(todo)>> \in failed'
    BY <1>4 DEF CyclesFail, Fails, tables
  <2> QED
    BY <1>0, <1>2, <1>4, <2>1
<1>5. CASE Did("cycles") /\ cycles' = cycles
  BY <1>0, <1>5 DEF CyclesDone
<1>6. CASE stage' = "cycles" /\ ~Did("cycles")'
  <2>1. Reciprocal \/ Cycles \/ CyclesFail \/ UNCHANGED vars
    BY <1>6 DEF Next, StartNight, Lookback, LookbackEscapes, Concentration, ConcentrationFails,
                Clean, CleanFails, Scores, ScoresFail, Advance
  <2>2. CASE UNCHANGED vars
    <3>1. Ahead' = Ahead /\ stage' = stage /\ cycles' = cycles
      BY <2>2 DEF vars, runVars, tables, Ahead
    <3> QED
      BY <1>0, <1>6, <3>1 DEF CyclesDone
  <2> QED
    BY <1>1, <1>3, <1>4, <2>1, <2>2
<1> QED
  BY <1>3, <1>4, <1>5, <1>6, BehindThem DEF Did

\* The chains that the lookback has been to.
LEMMA LookbackKept ==
    ASSUME NightTyped, ReciprocalDone, LookbackDone, [Next]_vars PROVE LookbackDone'
<1> DEFINE Seen(f, s, row) == /\ row # NoRow
                              /\ SeenByLookback(s) =>
                                   \/ row.flagged
                                   \/ <<night, "recip", NoValue>> \in f \/ <<night, "gave up", s>> \in f
           Covered(f, ch, rows) == \/ \E c \in WashChain : <<night, "lookback", c>> \in f
                                   \/ \A s \in TopSellers(ch) : Seen(f, s, rows[s])
<1>1. SUFFICES ASSUME NEW ch \in WashChain, Did("lookback")' \/ (stage' = "lookback" /\ ch \notin Ahead')
               PROVE  night' = night /\ Covered(failed', ch, signals'[night])
  <2>1. \A ch \in WashChain : ch \in Chain /\ TopSellers(ch)' = TopSellers(ch)
    BY SettlementsStand, WashAssumption
  <2>2. \A ch \in WashChain : TopSellers(ch) \subseteq Seller
    BY DEF TopSellers, Merchants, On
  <2>3. \A s \in Seller : SeenByLookback(s)' <=> SeenByLookback(s)
    BY SettlementsStand
  <2> QED
    BY <2>1, <2>2, <2>3 DEF LookbackDone, Escaped
<1>2. /\ Did("recip")' /\ night' = night /\ failed \subseteq failed'
      /\ \A s \in TopSellers(ch) : s \in Seller /\ ChainOf[s] = ch
  <2>1. Did("recip")'
    BY <1>1 DEF Did
  <2>2. \A s \in TopSellers(ch) : s \in Seller /\ ChainOf[s] = ch
    BY DEF TopSellers, Merchants, On
  <2> QED
    BY <2>1, <2>2, BehindThem, SettlementsStand
<1>3. (Did("lookback") \/ (stage = "lookback" /\ ch \notin Ahead)) =>
        \A f : failed \subseteq f => Covered(f, ch, signals[night])
  BY DEF LookbackDone, Escaped
<1>4. CASE Cycles \/ CyclesFail
  <2>1. stage' \in {"cycles", "lookback"} /\ (stage' = "lookback" => todo' = WashOrder)
    BY <1>4 DEF Cycles, CyclesFail, Advance
  <2>2. stage' = "lookback" => Ahead' = WashChain
    BY <2>1, OrdersCover DEF Ahead
  <2> QED
    BY <1>1, <2>1, <2>2 DEF Did
<1>5. CASE Lookback
  <2> DEFINE h == Head(todo)
  <2>1. stage = "lookback" /\ todo \in Seq(WashChain) /\ todo # <<>> /\ Advance("conc", <<>>)
    BY <1>5 DEF Lookback, NightTyped
  <2>2. ch = h \/ ch \notin Ahead
    <3>1. \/ stage' = "lookback" /\ Ahead \subseteq Ahead' \cup {h}
          \/ stage' = "conc" /\ Ahead = {h}
      BY <2>1, HeadAndTail
    <3> QED
      BY <1>1, <3>1 DEF Did
  <2>3. CASE ch = h
    <3>1. PICK gaveUp \in SUBSET TopSellers(ch) :
            /\ failed' = failed \cup {<<night, "gave up", s>> : s \in gaveUp}
            /\ \A s \in TopSellers(ch) : signals'[night][s] =
                 [fr |-> Funded(s, gaveUp), recip |-> s \in recip, flagged |-> IsFlagged(s, gaveUp)]
      BY <1>5, <2>3, LookbackRows
    <3> SUFFICES ASSUME NEW s \in TopSellers(ch) PROVE Seen(failed', s, signals'[night][s])
      BY <1>2
    <3>2. s \in Seller /\ ChainOf[s] \in WashChain /\ pop \in Populations
      BY <1>2 DEF NightTyped
    <3>3. signals'[night][s] # NoRow /\ signals'[night][s].flagged = IsFlagged(s, gaveUp)
      <4> DEFINE row == [fr |-> Funded(s, gaveUp), recip |-> s \in recip,
                         flagged |-> IsFlagged(s, gaveUp)]
      <4>1. row \in SignalRow /\ row.flagged = IsFlagged(s, gaveUp)
        BY <3>2, SignalWritten
      <4>2. row # NoRow
        BY <4>1, WashAssumption
      <4> QED
        BY <3>1, <4>1, <4>2
    <3>4. ASSUME SeenByLookback(s)
          PROVE  \/ IsFlagged(s, gaveUp)
                 \/ <<night, "recip", NoValue>> \in failed' \/ <<night, "gave up", s>> \in failed'
      <4>0. Did("recip")
        BY <2>1 DEF Did
      <4>1. CASE pop.sellers[s].recip
        BY <1>2, <3>2, <4>0, <4>1 DEF ReciprocalDone, IsFlagged
      <4>2. CASE pop.sellers[s].batch
        BY <3>2, <4>0, <4>2 DEF ReciprocalDone, IsFlagged
      <4>3. CASE pop.sellers[s].fr > FundedThresh
        <5>1. CASE s \in gaveUp
          BY <3>1, <5>1
        <5>2. CASE s \notin gaveUp
          <6>1. Funded(s, gaveUp) = pop.sellers[s].fr /\ pop.sellers[s].fr \in Int
            BY <3>2, <5>2, Traits DEF Funded, SellerTraits
          <6> QED
            BY <4>3, <6>1, RulesAssumption DEF IsFlagged
        <5> QED
          BY <5>1, <5>2
      <4>4. CASE SelfRatio(pop.sellers[s]) > SelfThresh
        BY <4>4 DEF IsFlagged
      <4> QED
        BY <3>4, <4>1, <4>2, <4>3, <4>4 DEF SeenByLookback
    <3> QED
      BY <3>3, <3>4
  <2>4. CASE ch # h
    <3>1. \A s \in TopSellers(ch) : signals'[night][s] = signals[night][s]
      <4>1. \A s \in TopSellers(h) : ChainOf[s] = h
        BY DEF TopSellers, Merchants, On
      <4> QED
        BY <1>2, <1>5, <2>4, <4>1, LookbackRows
    <3>2. Covered(failed', ch, signals[night])
      BY <1>2, <1>3, <2>1, <2>2, <2>4
    <3> QED
      BY <1>2, <3>1, <3>2
  <2> QED
    BY <2>3, <2>4
<1>6. CASE LookbackEscapes
  <2>1. Head(todo) \in WashChain /\ <<night, "lookback", Head(todo)>> \in failed'
    BY <1>6 DEF LookbackEscapes, Fails, NightTyped
  <2> QED
    BY <1>2, <2>1
<1>7. CASE Concentration
  <2>1. Covered(failed', ch, signals[night])
    BY <1>2, <1>3, <1>7 DEF Concentration, Did
  <2>2. ASSUME NEW s \in TopSellers(ch)
        PROVE  \/ signals'[night][s] = signals[night][s]
               \/ signals'[night][s] # NoRow /\ signals'[night][s].flagged
    <3> DEFINE row == [fr |-> NoValue, recip |-> FALSE, flagged |-> TRUE]
    <3>1. row \in SignalRow /\ row.flagged
      BY DEF SignalRow
    <3>2. row # NoRow
      BY <3>1, WashAssumption
    <3>3. signals'[night][s] \in {row, signals[night][s]}
      BY <1>2, <1>7, ConcentrationRows
    <3> QED
      BY <3>1, <3>2, <3>3
  <2> QED
    BY <1>2, <2>1, <2>2
<1>8. CASE Did("lookback") /\ signals' = signals
  BY <1>2, <1>3, <1>8
<1>9. CASE stage' = "lookback" /\ UNCHANGED vars
  <2>1. Ahead' = Ahead /\ stage' = stage /\ signals' = signals
    BY <1>9 DEF vars, runVars, tables, Ahead
  <2>2. ch \notin Ahead /\ stage = "lookback"
    BY <1>1, <1>9, <2>1 DEF Did
  <2> QED
    BY <1>2, <1>3, <2>1, <2>2
<1>10. stage' = "lookback" => Cycles \/ CyclesFail \/ Lookback \/ UNCHANGED vars
  BY DEF Next, StartNight, Reciprocal, LookbackEscapes, Concentration, ConcentrationFails,
         Clean, CleanFails, Scores, ScoresFail, Advance
<1> QED
  BY <1>1, <1>4, <1>5, <1>6, <1>7, <1>8, <1>9, <1>10, BehindThem

\* The concentrated sellers.
LEMMA ConcentrationKept ==
    ASSUME NightTyped, ConcentrationDone, [Next]_vars PROVE ConcentrationDone'
<1> SUFFICES ASSUME Did("conc")', NEW s \in Seller, ChainOf[s] \in WashChain,
                    pop.sellers[s].merchant, pop.sellers[s].conc
             PROVE  \/ \E ch \in WashChain : <<night', "lookback", ch>> \in failed'
                    \/ <<night', "conc", NoValue>> \in failed'
                    \/ signals'[night'][s] # NoRow /\ signals'[night'][s].flagged
  BY SettlementsStand DEF ConcentrationDone, Escaped
<1>0. night' = night /\ failed \subseteq failed'
  <2>1. Did("recip")'
    BY DEF Did
  <2> QED
    BY <2>1, BehindThem, SettlementsStand
<1>1. CASE LookbackEscapes
  BY <1>0, <1>1 DEF LookbackEscapes, Fails, NightTyped
<1>2. CASE Concentration
  <2> DEFINE row == [fr |-> NoValue, recip |-> FALSE, flagged |-> TRUE]
  <2>1. row \in SignalRow /\ row.flagged
    BY DEF SignalRow
  <2>2. row # NoRow
    BY <2>1, WashAssumption
  <2>3. signals'[night][s] = row
    BY <1>2, ConcentrationRows
  <2> QED
    BY <1>0, <2>1, <2>2, <2>3
<1>3. CASE ConcentrationFails
  BY <1>0, <1>3 DEF ConcentrationFails, Fails
<1>4. CASE Did("conc") /\ signals' = signals
  BY <1>0, <1>4 DEF ConcentrationDone, Escaped
<1> QED
  BY <1>1, <1>2, <1>3, <1>4, BehindThem

-----------------------------------------------------------------------------
(***************************************************************************)
(* The scores.                                                             *)
(***************************************************************************)
\* The newest scan of a chain is a night with a row on that chain, and so is the
\* newest cycle pass.
LEMMA NewestScans ==
    ASSUME NightTyped, night \in Night
    PROVE  /\ \A ch \in Chain : SignalDate(ch) # 0 =>
                SignalDate(ch) \in Night /\ \E t \in On(ch) : signals[SignalDate(ch)][t] # NoRow
           /\ CycleDate # 0 => CycleDate \in Night
           /\ \A s \in Seller : signals[night][s] # NoRow => SignalDate(ChainOf[s]) = night
           /\ \A ch \in Chain : cycles[night][ch] # NoRow => CycleDate = night
           /\ CycleDate \in 0..night /\ \A ch \in Chain : SignalDate(ch) \in 0..night
<1>0. night \in Nat /\ night \in 1..night /\ 1..night \subseteq Night
  <2>1. MaxNight \in Nat /\ night \in 1..MaxNight
    BY WashAssumption DEF Night
  <2> QED
    BY <2>1 DEF Night
<1> DEFINE S(ch) == {n \in 1..night : \E s \in On(ch) : signals[n][s] # NoRow}
           C == {n \in 1..night : \E ch \in Chain : cycles[n][ch] # NoRow}
<1>1. \A T \in SUBSET (1..night) : (T = {} => Last(T) = 0) /\ (T # {} => Last(T) \in T)
  BY <1>0, LastIsNewest DEF Last
<1>2. \A T \in SUBSET (1..night) : night \in T => Last(T) = night
  BY <1>0, LastIsTonight
<1>3. \A ch \in Chain : SignalDate(ch) = Last(S(ch)) /\ S(ch) \in SUBSET (1..night)
  BY DEF SignalDate
<1>4. CycleDate = Last(C) /\ C \in SUBSET (1..night)
  BY DEF CycleDate
<1> HIDE DEF Last
<1>5. ASSUME NEW ch \in Chain
      PROVE  /\ SignalDate(ch) # 0 =>
                  SignalDate(ch) \in Night /\ \E t \in On(ch) : signals[SignalDate(ch)][t] # NoRow
             /\ SignalDate(ch) \in 0..night
  <2>1. SignalDate(ch) = 0 \/ SignalDate(ch) \in S(ch)
    BY <1>1, <1>3
  <2> QED
    BY <1>0, <2>1
<1>6. (CycleDate # 0 => CycleDate \in Night) /\ CycleDate \in 0..night
  <2>1. CycleDate = 0 \/ CycleDate \in C
    BY <1>1, <1>4
  <2> QED
    BY <1>0, <2>1
<1>7. ASSUME NEW s \in Seller, signals[night][s] # NoRow PROVE SignalDate(ChainOf[s]) = night
  <2>1. ChainOf[s] \in Chain /\ s \in On(ChainOf[s])
    BY WashAssumption DEF On
  <2>2. night \in S(ChainOf[s])
    BY <1>0, <1>7, <2>1
  <2> QED
    BY <1>2, <1>3, <2>1, <2>2
<1>8. ASSUME NEW ch \in Chain, cycles[night][ch] # NoRow PROVE CycleDate = night
  <2>1. night \in C
    BY <1>0, <1>8
  <2> QED
    BY <1>2, <1>4, <2>1
<1> QED
  BY <1>5, <1>6, <1>7, <1>8

\* What the joins of a seller come to.
LEMMA WashJoins ==
    ASSUME NightTyped, EvidenceTrue, night \in Night, NEW s \in Seller
    PROVE  /\ Wash(s).fr \in 0..100 \cup {NoValue}
           /\ Wash(s).recip \in BOOLEAN /\ Wash(s).nightly \in BOOLEAN
           /\ Wash(s).history = pop.sellers[s].history /\ Wash(s).history \in BOOLEAN
           /\ Wash(s).cycle = InCycle(s) /\ Wash(s).cycle \in BOOLEAN
           /\ Wash(s).recip \/ Wash(s).nightly \/ Wash(s).cycle => Misconduct(s)
           /\ signals[night][s] # NoRow => Wash(s).nightly = signals[night][s].flagged
<1> DEFINE d == SignalDate(ChainOf[s])
           row == IF d = 0 THEN NoRow ELSE signals[d][s]
           w == [fr |-> IF row = NoRow THEN NoValue ELSE row.fr,
                 recip |-> IF row = NoRow THEN FALSE ELSE row.recip,
                 nightly |-> IF row = NoRow THEN FALSE ELSE row.flagged,
                 history |-> pop.sellers[s].history,
                 cycle |-> InCycle(s)]
<1>1. ChainOf[s] \in Chain /\ pop.sellers[s] \in SellerTraits
  BY Traits DEF NightTyped
<1>2. d # 0 => d \in Night
  BY <1>1, NewestScans
<1> HIDE DEF d
<1>3. row # NoRow => row \in SignalRow /\ (row.recip \/ row.flagged => Misconduct(s))
  <2> SUFFICES ASSUME row # NoRow
               PROVE  row \in SignalRow /\ (row.recip \/ row.flagged => Misconduct(s))
    OBVIOUS
  <2>1. d \in Night /\ row = signals[d][s] /\ signals[d][s] # NoRow
    BY <1>2
  <2>2. signals[d][s] \in SignalRow
    <3>1. signals[d][s] \in SignalRow \cup {NoRow}
      BY <2>1 DEF NightTyped
    <3> QED
      BY <2>1, <3>1
  <2>3. signals[d][s].recip \/ signals[d][s].flagged => Misconduct(s)
    BY <2>1 DEF EvidenceTrue
  <2> HIDE DEF row
  <2> QED
    BY <2>1, <2>2, <2>3
<1>4. signals[night][s] # NoRow => row = signals[night][s]
  <2>1. night # 0
    <3>1. night \in 1..MaxNight /\ MaxNight \in Nat
      BY WashAssumption DEF Night
    <3> QED
      BY <3>1
  <2> QED
    BY <2>1, NewestScans DEF d
<1>5. Wash(s) = w
  BY DEF Wash, d
<1>6. pop.sellers[s].history \in BOOLEAN
  BY <1>1 DEF SellerTraits
<1>7. InCycle(s) \in BOOLEAN /\ (InCycle(s) => Misconduct(s))
  <2>1. ASSUME InCycle(s) PROVE Misconduct(s)
    <3>1. /\ CycleDate # 0 /\ cycles[CycleDate][ChainOf[s]] # NoRow
          /\ s \in cycles[CycleDate][ChainOf[s]]
      BY <2>1 DEF InCycle
    <3>2. CycleDate \in Night
      BY <3>1, NewestScans
    <3>3. s \in RingOn(ChainOf[s])
      BY <1>1, <3>1, <3>2 DEF EvidenceTrue
    <3> QED
      BY <3>3 DEF RingOn, Misconduct
  <2> QED
    BY <2>1 DEF InCycle
<1> HIDE DEF row
<1>8. /\ w.fr \in 0..100 \cup {NoValue} /\ w.recip \in BOOLEAN /\ w.nightly \in BOOLEAN
      /\ w.history = pop.sellers[s].history /\ w.cycle = InCycle(s)
      /\ w.recip \/ w.nightly => row # NoRow /\ (row.recip \/ row.flagged)
      /\ row # NoRow => w.nightly = row.flagged
  BY <1>3 DEF SignalRow
<1> HIDE DEF w
<1>9. signals[night][s] # NoRow => w.nightly = signals[night][s].flagged
  BY <1>4, <1>8
<1> QED
  BY <1>3, <1>5, <1>6, <1>7, <1>8, <1>9

\* A row that the seller scorer writes says what its evidence says, and nothing
\* that the settlements do not show.
LEMMA ScoredSound ==
    ASSUME NightTyped, EvidenceTrue, night \in Night, NEW s \in Seller, pop.sellers[s].tx > 0
    PROVE  LET row == Scored(s)
           IN /\ row.score \in Int /\ row.grade \in Letters \cup {NoGrade}
              /\ row.flags = Flagged(row.wash)
              /\ Flagged(row.wash) \/ row.wash.recip => row.grade \in {"D", "F"}
              /\ row.wash = Wash(s)
              /\ SelfRatio(pop.sellers[s]) >= SelfPayConduct => row.grade \in {"D", "F"}
              /\ row.grade = "F" => Misconduct(s)
              /\ row.live.signals = SignalDate(ChainOf[s])
<1> DEFINE e == pop.sellers[s]
           w == Wash(s)
           row == Scored(s)
<1>1. e \in SellerTraits
  BY Traits DEF NightTyped
<1>2. /\ w.fr \in 0..100 \cup {NoValue}
      /\ w.recip \in BOOLEAN /\ w.nightly \in BOOLEAN /\ w.history \in BOOLEAN /\ w.cycle \in BOOLEAN
      /\ w.recip \/ w.nightly \/ w.cycle => Misconduct(s)
  BY WashJoins
<1>3. /\ row.score = SellerScore(e, w) /\ row.grade = SellerLetter(SellerScore(e, w), e, w)
      /\ row.flags = Flagged(w) /\ row.wash = w /\ row.live.signals = SignalDate(ChainOf[s])
  BY DEF Scored
<1>4. e.tx > 0
  OBVIOUS
<1>5. SelfRatio(e) >= SelfPayConduct => Misconduct(s)
  BY DEF Misconduct
<1> HIDE DEF e, w, row
<1>6. SellerScore(e, w) \in Int
  BY <1>1, <1>2, <1>4, ScoreIsNumber
<1>7. /\ SellerLetter(SellerScore(e, w), e, w) \in Letters \cup {NoGrade}
      /\ Flagged(w) \/ w.recip \/ SelfRatio(e) >= SelfPayConduct =>
                  SellerLetter(SellerScore(e, w), e, w) \in {"D", "F"}
      /\ SellerLetter(SellerScore(e, w), e, w) = "F" =>
                  w.cycle \/ w.nightly \/ w.recip \/ SelfRatio(e) >= SelfPayConduct
  BY <1>2, ConductDecides
<1>8. /\ row.score \in Int /\ row.grade \in Letters \cup {NoGrade}
      /\ row.flags = Flagged(row.wash)
      /\ Flagged(row.wash) \/ row.wash.recip => row.grade \in {"D", "F"}
      /\ row.wash = w
      /\ SelfRatio(e) >= SelfPayConduct => row.grade \in {"D", "F"}
      /\ row.grade = "F" => Misconduct(s)
      /\ row.live.signals = SignalDate(ChainOf[s])
  BY <1>2, <1>3, <1>5, <1>6, <1>7
<1> QED
  BY <1>8 DEF row, e, w

\* On a night on which nothing that concerns the seller failed, its misconduct is
\* in the evidence.
LEMMA HealthyEvidence ==
    ASSUME NightTyped, EvidenceTrue, ReciprocalDone, CyclesDone, LookbackDone, ConcentrationDone,
           stage = "scores", NEW s \in Seller, ~Failed(night, s), Misconduct(s)
    PROVE  \/ Flagged(Wash(s))
           \/ SelfRatio(pop.sellers[s]) >= SelfPayConduct
<1> DEFINE e == pop.sellers[s]
<1>0. /\ night \in Night /\ ChainOf[s] \in Chain
      /\ Did("recip") /\ Did("cycles") /\ Did("lookback") /\ Did("conc")
  BY InWork, Traits DEF Did, NightTyped
<1>1. /\ <<night, "recip", NoValue>> \notin failed /\ <<night, "conc", NoValue>> \notin failed
      /\ ~Escaped
      /\ <<night, "cycles", ChainOf[s]>> \notin failed /\ <<night, "gave up", s>> \notin failed
  <2>1. \A x : <<night, "recip", x>> \notin failed /\ <<night, "conc", x>> \notin failed
                /\ <<night, "lookback", x>> \notin failed
    <3> SUFFICES ASSUME NEW x, NEW f \in failed,
                        f \in {<<night, "recip", x>>, <<night, "conc", x>>, <<night, "lookback", x>>}
                 PROVE  FALSE
      OBVIOUS
    <3>1. f[1] = night /\ f[2] \in {"recip", "lookback", "conc"}
      OBVIOUS
    <3> QED
      BY <3>1 DEF Failed
  <2> QED
    BY <2>1 DEF Failed, Escaped
<1>2. CASE e.ring
  <2>1. cycles[night][ChainOf[s]] # NoRow
    BY <1>0, <1>1 DEF CyclesDone
  <2>2. CycleDate = night /\ night # 0
    <3>1. night \in 1..MaxNight /\ MaxNight \in Nat
      BY <1>0, WashAssumption DEF Night
    <3> QED
      BY <1>0, <2>1, <3>1, NewestScans
  <2>3. s \in cycles[night][ChainOf[s]]
    BY <1>0, <1>2, <2>1 DEF EvidenceTrue, RingOn, On
  <2>4. InCycle(s)
    BY <2>1, <2>2, <2>3 DEF InCycle
  <2> QED
    BY <1>0, <2>4, WashJoins DEF Flagged
<1>3. CASE e.history
  BY <1>0, <1>3, WashJoins DEF Flagged
<1>4. ASSUME signals[night][s] # NoRow, signals[night][s].flagged PROVE Flagged(Wash(s))
  BY <1>0, <1>4, WashJoins DEF Flagged
<1>5. CASE ChainOf[s] \in WashChain /\ e.merchant /\ e.conc
  BY <1>0, <1>1, <1>4, <1>5 DEF ConcentrationDone
<1>6. CASE /\ ChainOf[s] \in WashChain /\ e.merchant /\ e.big
           /\ (e.recip \/ e.batch \/ e.fr > FundedThresh \/ SelfRatio(e) > SelfThresh)
  <2>1. s \in TopSellers(ChainOf[s]) /\ SeenByLookback(s)
    BY <1>6 DEF TopSellers, Merchants, On, SeenByLookback
  <2> QED
    BY <1>0, <1>1, <1>4, <1>6, <2>1 DEF LookbackDone
<1> QED
  BY <1>2, <1>3, <1>5, <1>6 DEF Misconduct

\* What the seller scorer writes, and what it leaves alone.
LEMMA ScoresWritten ==
    ASSUME NightTyped, [Next]_vars, NEW n \in Night, NEW s \in Seller
    PROVE  \/ scores'[n][s] = scores[n][s]
           \/ /\ Scores /\ stage = "scores" /\ n = night /\ failed' = failed /\ signals' = signals
              /\ pop.sellers[s].tx > 0 /\ scores'[n][s] = Scored(s)
           \/ Scores /\ scores'[n][s] = NoRow
<1>1. CASE Scores
  <2>1. /\ stage = "scores" /\ failed' = failed /\ signals' = signals /\ night \in Night
        /\ scores = [m \in Night |-> [t \in Seller |-> scores[m][t]]]
        /\ scores' = [scores EXCEPT ![night] = [t \in Seller |->
             IF ~pop.sellers[t].relayer /\ pop.sellers[t].tx > 0 THEN Scored(t) ELSE NoRow]]
    BY <1>1, InWork DEF Scores, NightTyped
  <2>2. scores'[n] = IF n = night THEN [t \in Seller |->
             IF ~pop.sellers[t].relayer /\ pop.sellers[t].tx > 0 THEN Scored(t) ELSE NoRow]
             ELSE scores[n]
    BY <2>1
  <2> QED
    BY <1>1, <2>1, <2>2
<1>2. CASE scores' = scores
  BY <1>2
<1>3. Scores \/ scores' = scores
  BY DEF Next, vars, tables, StartNight, Reciprocal, Cycles, CyclesFail, Lookback, LookbackEscapes,
         Concentration, ConcentrationFails, Clean, CleanFails, ScoresFail
<1> QED
  BY <1>1, <1>2, <1>3

\* Rows of the score table stay sound.
LEMMA RowsKept ==
    ASSUME NightTyped, EvidenceTrue, RowsSound, [Next]_vars PROVE RowsSound'
<1> SUFFICES ASSUME NEW n \in Night, NEW s \in Seller, scores'[n][s] # NoRow
             PROVE  LET row == scores'[n][s]
                    IN /\ row.score \in Int /\ row.grade \in Letters \cup {NoGrade}
                       /\ row.flags = Flagged(row.wash)
                       /\ Flagged(row.wash) \/ row.wash.recip => row.grade \in {"D", "F"}
  BY DEF RowsSound, Flagged
<1>1. CASE scores'[n][s] = scores[n][s]
  BY <1>1 DEF RowsSound
<1>2. CASE /\ stage = "scores" /\ pop.sellers[s].tx > 0 /\ scores'[n][s] = Scored(s)
  <2>1. night \in Night
    BY <1>2, InWork
  <2> QED
    BY <1>2, <2>1, ScoredSound
<1> QED
  BY <1>1, <1>2, ScoresWritten

\* The night that is scored is exact unless a section that concerns the seller has
\* failed, and the nights before it stay so.
LEMMA HealthyKept ==
    ASSUME NightTyped, EvidenceTrue, ReciprocalDone, CyclesDone, LookbackDone, ConcentrationDone,
           HealthyNightIsExact, [Next]_vars
    PROVE  HealthyNightIsExact'
<1>1. SUFFICES ASSUME NEW n \in Night, NEW s \in Seller, scores'[n][s] # NoRow, ~Failed(n, s)'
               PROVE  /\ Misconduct(s) => scores'[n][s].grade \in {"D", "F"}
                      /\ scores'[n][s].grade = "F" => Misconduct(s)
  BY SettlementsStand DEF HealthyNightIsExact
<1>2. ~Failed(n, s)
  BY <1>1, SettlementsStand DEF Failed
<1>3. CASE scores'[n][s] = scores[n][s]
  BY <1>1, <1>2, <1>3 DEF HealthyNightIsExact
<1>4. CASE /\ stage = "scores" /\ n = night
           /\ pop.sellers[s].tx > 0 /\ scores'[n][s] = Scored(s)
  <2> DEFINE row == Scored(s)
  <2>1. /\ Flagged(row.wash) \/ row.wash.recip => row.grade \in {"D", "F"}
        /\ row.wash = Wash(s)
        /\ SelfRatio(pop.sellers[s]) >= SelfPayConduct => row.grade \in {"D", "F"}
        /\ row.grade = "F" => Misconduct(s)
    BY <1>4, InWork, ScoredSound
  <2>2. Misconduct(s) => Flagged(Wash(s)) \/ SelfRatio(pop.sellers[s]) >= SelfPayConduct
    BY <1>2, <1>4, HealthyEvidence
  <2> HIDE DEF row
  <2>3. (Misconduct(s) => row.grade \in {"D", "F"}) /\ (row.grade = "F" => Misconduct(s))
    BY <2>1, <2>2
  <2> QED
    BY <1>4, <2>3 DEF row
<1> QED
  BY <1>1, <1>3, <1>4, ScoresWritten

-----------------------------------------------------------------------------
(***************************************************************************)
(* The theorems.                                                           *)
(***************************************************************************)
\* What the payers and origins were scored as is what they are.
LEMMA OthersKept == ASSUME OthersTrue, [Next]_vars PROVE OthersTrue'
<1>1. Others' = Others
  BY SettlementsStand
<1>2. others' \in {others, Others}
  BY DEF Next, vars, tables, StartNight, Reciprocal, Cycles, CyclesFail, Lookback, LookbackEscapes,
         Concentration, ConcentrationFails, Clean, CleanFails, Scores, ScoresFail
<1> QED
  BY <1>1, <1>2 DEF OthersTrue

\* Before the first night nothing is recorded.
LEMMA NightStarts == Init => WashInv
<1> SUFFICES ASSUME Init PROVE WashInv
  OBVIOUS
<1>1. /\ pop \in Populations /\ night = 0 /\ stage = "idle" /\ recip = {}
      /\ flagged = [ch \in WashChain |-> {}]
      /\ signals = [n \in Night |-> [s \in Seller |-> NoRow]]
      /\ cycles = [n \in Night |-> [ch \in Chain |-> NoRow]]
      /\ scores = [n \in Night |-> [s \in Seller |-> NoRow]]
      /\ others = NoRow
  BY DEF Init
<1>2. \A n \in Night, s \in Seller : scores[n][s] = NoRow /\ signals[n][s] = NoRow
  BY <1>1
<1>3. \A n \in Night, ch \in Chain : cycles[n][ch] = NoRow
  BY <1>1
<1>4. NightTyped
  <2>1. night \in 0..MaxNight
    BY <1>1, WashAssumption
  <2>2. scores = [n \in Night |-> [s \in Seller |-> scores[n][s]]]
    BY <1>1
  <2>3. /\ flagged \in [WashChain -> SUBSET Seller] /\ recip \subseteq Seller
        /\ signals \in [Night -> [Seller -> SignalRow \cup {NoRow}]]
        /\ cycles \in [Night -> [Chain -> (SUBSET Seller) \cup {NoRow}]]
    BY <1>1
  <2> QED
    BY <1>1, <2>1, <2>2, <2>3 DEF NightTyped, Section
<1>5. EvidenceTrue
  BY <1>1, <1>2, <1>3 DEF EvidenceTrue
<1>6. RowsSound /\ HealthyNightIsExact /\ OthersTrue
  BY <1>1, <1>2 DEF RowsSound, HealthyNightIsExact, OthersTrue
<1>7. ReciprocalDone /\ CyclesDone /\ LookbackDone /\ ConcentrationDone
  BY <1>1 DEF ReciprocalDone, CyclesDone, LookbackDone, ConcentrationDone, Did
<1> QED
  BY <1>4, <1>5, <1>6, <1>7 DEF WashInv

\* run_wash and run_scores: whatever sections fail, what is recorded is true, what
\* a section had to find tonight is there or its failure is on record, and a score
\* row says what its evidence says.
THEOREM WashInvariant == Spec => []WashInv
<1>1. Init => WashInv
  BY NightStarts
<1>2. WashInv /\ [Next]_vars => WashInv'
  <2> SUFFICES ASSUME WashInv, [Next]_vars PROVE WashInv'
    OBVIOUS
  <2>1. NightTyped' /\ EvidenceTrue'
    BY TypedKept, EvidenceKept DEF WashInv
  <2>2. ReciprocalDone' /\ CyclesDone' /\ LookbackDone' /\ ConcentrationDone'
    BY ReciprocalKept, CyclesKept, LookbackKept, ConcentrationKept DEF WashInv
  <2>3. RowsSound' /\ OthersTrue' /\ HealthyNightIsExact'
    BY RowsKept, OthersKept, HealthyKept DEF WashInv
  <2> QED
    BY <2>1, <2>2, <2>3 DEF WashInv
<1> QED
  BY <1>1, <1>2, PTL DEF Spec

\* A night on which no section that concerns a seller failed gives it a letter of
\* conduct exactly if its settlements show misconduct (wash.py, wash_cycles.py and
\* scores.py together), for any thresholds and orders of chains.
THEOREM HealthyNightsAreExact == Spec => []HealthyNightIsExact
<1>1. WashInv => HealthyNightIsExact
  BY DEF WashInv
<1> QED
  BY <1>1, WashInvariant, PTL

\* POST /v1/trust/evaluate: PASS for no seller whose row shows wash evidence, FAIL
\* for none without a recorded fact, and UNCERTAIN without a number where there is
\* no evidence, whatever finding and probes there are.
THEOREM GateHolds == Spec => []GateIsSound
<1>1. WashInv => GateIsSound
  <2> SUFFICES ASSUME WashInv PROVE GateIsSound
    OBVIOUS
  <2>1. ASSUME NEW s \in Seller, Served(s) # NoRow
        PROVE  /\ Served(s).score \in Int /\ Served(s).grade \in Letters \cup {NoGrade}
               /\ Served(s).flags = Flagged(Served(s).wash)
               /\ Flagged(Served(s).wash) \/ Served(s).wash.recip => Served(s).grade \in {"D", "F"}
    <3> DEFINE S == {n \in 1..night : scores[n][s] # NoRow}
    <3>1. NewestScore(s) # 0 /\ Served(s) = scores[NewestScore(s)][s]
      BY <2>1 DEF Served
    <3>2. night \in Nat /\ night \in 0..MaxNight /\ MaxNight \in Nat
      <4>1. night \in 0..MaxNight /\ MaxNight \in Nat
        BY WashAssumption DEF WashInv, NightTyped
      <4> QED
        BY <4>1
    <3>3. S # {} /\ NewestScore(s) = Last(S)
      BY <3>1 DEF NewestScore, Last
    <3>4. NewestScore(s) \in S
      BY <3>2, <3>3, LastIsNewest
    <3>5. NewestScore(s) \in Night
      BY <3>2, <3>4 DEF Night
    <3> QED
      BY <2>1, <3>1, <3>5 DEF WashInv, RowsSound
  <2> QED
    BY <2>1, SoundGate DEF GateIsSound
<1> QED
  BY <1>1, WashInvariant, PTL

\* score_payer, agent_lookup, compute_endpoint_scores and endpoint_lookup: a payer
\* gets D or F for structure only and a letter only with a score, an origin no tier
\* before enough days.
THEOREM LettersAreEarned == Spec => []NoInventedLetter
<1>1. WashInv => NoInventedLetter
  <2> SUFFICES ASSUME WashInv, others # NoRow PROVE NoInventedLetter
    BY DEF NoInventedLetter
  <2>1. others = Others /\ pop \in Populations
    BY DEF WashInv, OthersTrue, NightTyped
  <2>2. /\ \A p \in Payer : pop.payers[p] \in PayerTraits
        /\ \A o \in Origin : pop.origins[o] \in OriginTraits
    BY <2>1, WashAssumption
  <2>3. /\ \A p \in Payer : others.payers[p] =
             IF pop.payers[p].tx <= 0 THEN NoRow ELSE PayerScore(pop.payers[p])
        /\ \A o \in Origin : others.origins[o] =
             [score |-> EndpointScore(pop.origins[o]), grade |-> EndpointLetter(pop.origins[o]),
              prov |-> pop.origins[o].days < MatureDays]
    BY <2>1 DEF Others
  <2>4. ASSUME NEW p \in Payer
        PROVE  LET a == AgentAnswer(others.payers[p])
               IN /\ a.grade \in {"D", "F"} => Penalised(pop.payers[p])
                  /\ a.score = NoValue <=> a.grade = "UNKNOWN"
                  /\ a.grade # "UNKNOWN" =>
                       pop.payers[p].tx >= Confident \/ Penalised(pop.payers[p])
    BY <2>2, <2>3, PayerLetters
  <2>5. ASSUME NEW o \in Origin
        PROVE  LET a == EndpointAnswer(others.origins[o])
               IN /\ a.tier # "unrated" => pop.origins[o].days >= MinLetterDays
                  /\ a.tier = "verified" => pop.origins[o].days >= MatureDays
    BY <2>2, <2>3, OriginTiers
  <2> QED
    BY <2>4, <2>5 DEF NoInventedLetter
<1> QED
  BY <1>1, WashInvariant, PTL

-----------------------------------------------------------------------------
(***************************************************************************)
(* The turns of the sections.                                              *)
(***************************************************************************)
\* Sequences with the same elements in the same places are the same.
LEMMA SameSequence ==
    ASSUME NEW C, NEW s \in Seq(C), NEW t \in Seq(C), NEW k \in Int, Len(s) = k, Len(t) = k,
           \A m \in 1..k : s[m] = t[m]
    PROVE  s = t
<1>1. DOMAIN s = 1..k /\ DOMAIN t = 1..k
  OBVIOUS
<1>2. s = [m \in DOMAIN s |-> s[m]]
  OBVIOUS
<1>3. t = [m \in DOMAIN t |-> t[m]]
  OBVIOUS
<1> QED
  BY <1>1, <1>2, <1>3

\* What is left of an order holds the order's own chains, from its place on.
LEMMA RestHolds ==
    ASSUME NEW C, NEW order \in Seq(C), NEW k \in 1..Len(order)
    PROVE  {SubSeq(order, k, Len(order))[m] : m \in DOMAIN SubSeq(order, k, Len(order))}
              = {order[m] : m \in k..Len(order)}
<1> DEFINE n == Len(order)
           rest == SubSeq(order, k, n)
           chains == {order[m] : m \in k..n}
<1>1. n \in Nat /\ DOMAIN order = 1..n
  OBVIOUS
<1>2. /\ rest \in Seq(C) /\ Len(rest) = n - k + 1
      /\ \A m \in 1..(n - k + 1) : rest[m] = order[k + m - 1]
  BY <1>1
<1>3. DOMAIN rest = 1..(n - k + 1)
  BY <1>2
<1> HIDE DEF rest
<1>4. ASSUME NEW m \in 1..(n - k + 1) PROVE rest[m] \in chains
  <2>1. k + m - 1 \in k..n
    BY <1>1
  <2> QED
    BY <1>2, <2>1
<1>5. ASSUME NEW c \in chains PROVE \E j \in DOMAIN rest : rest[j] = c
  <2>1. PICK m \in k..n : c = order[m]
    OBVIOUS
  <2>2. m - k + 1 \in 1..(n - k + 1) /\ k + (m - k + 1) - 1 = m
    BY <1>1
  <2> QED
    BY <1>2, <1>3, <2>1, <2>2
<1>6. {rest[m] : m \in DOMAIN rest} = chains
  <2> HIDE DEF chains
  <2> QED
    BY <1>3, <1>4, <1>5
<1> QED
  BY <1>6 DEF rest

\* A section's chain in work has a place in the order, and ahead is what comes from
\* that place on.
LEMMA InPlace ==
    ASSUME NEW C, NEW order \in Seq(C), todo \in Rests(order),
           \A i, j \in DOMAIN order : order[i] = order[j] => i = j
    PROVE  \E i \in DOMAIN order :
             /\ Head(todo) = order[i]
             /\ \A j \in DOMAIN order : order[j] \in Ahead <=> j >= i
<1> DEFINE n == Len(order)
<1>1. n \in Nat /\ DOMAIN order = 1..n
  OBVIOUS
<1>2. PICK i \in 1..n : todo = SubSeq(order, i, n)
  BY <1>1 DEF Rests
<1>3. /\ todo \in Seq(C) /\ Len(todo) = n - i + 1
      /\ \A m \in 1..(n - i + 1) : todo[m] = order[i + m - 1]
      /\ Ahead = {order[m] : m \in i..n}
  <2>1. /\ todo \in Seq(C) /\ Len(todo) = n - i + 1
        /\ \A m \in 1..(n - i + 1) : todo[m] = order[i + m - 1]
    BY <1>1, <1>2
  <2>2. {todo[m] : m \in DOMAIN todo} = {order[m] : m \in i..n}
    <3>1. {SubSeq(order, i, n)[m] : m \in DOMAIN SubSeq(order, i, n)} = {order[m] : m \in i..n}
      BY RestHolds, Zenon
    <3> QED
      BY <1>2, <3>1
  <2> QED
    BY <2>1, <2>2 DEF Ahead
<1>4. Head(todo) = order[i]
  <2>1. 1 \in 1..(n - i + 1) /\ i + 1 - 1 = i
    BY <1>1
  <2>2. Head(todo) = todo[1]
    BY <1>3
  <2> QED
    BY <1>3, <2>1, <2>2
<1>5. ASSUME NEW j \in 1..n PROVE order[j] \in Ahead <=> j >= i
  <2>1. ASSUME j >= i PROVE order[j] \in Ahead
    <3>1. j \in i..n
      BY <2>1
    <3> QED
      BY <1>3, <3>1
  <2>2. ASSUME order[j] \in Ahead PROVE j >= i
    <3>1. PICK m \in i..n : order[j] = order[m]
      BY <1>3, <2>2
    <3>2. m \in 1..n
      BY <1>1, <3>1
    <3>3. j = m
      BY <1>1, <3>1, <3>2
    <3> QED
      BY <3>1, <3>3
  <2> QED
    BY <2>1, <2>2
<1> QED
  BY <1>1, <1>4, <1>5

\* A section that goes on to its next chain, or over to the next section.
LEMMA NextChain ==
    ASSUME NEW C, NEW order \in Seq(C), todo \in Rests(order),
           \A i, j \in DOMAIN order : order[i] = order[j] => i = j,
           NEW next, NEW other, Advance(next, other)
    PROVE  /\ Head(todo) \in C /\ Head(todo) \in Ahead /\ Ahead \subseteq C
           /\ \/ /\ stage' = stage /\ todo' \in Rests(order)
                 /\ Ahead = Ahead' \cup {Head(todo)} /\ Head(todo) \notin Ahead'
              \/ stage' = next /\ todo' = other /\ Ahead = {Head(todo)}
<1> DEFINE n == Len(order)
<1>1. n \in Nat /\ DOMAIN order = 1..n
  OBVIOUS
<1>2. PICK i \in 1..n : todo = SubSeq(order, i, n)
  BY <1>1 DEF Rests
<1>3. ASSUME NEW k \in 1..n
      PROVE  /\ SubSeq(order, k, n) \in Seq(C) /\ Len(SubSeq(order, k, n)) = n - k + 1
             /\ \A m \in 1..(n - k + 1) : SubSeq(order, k, n)[m] = order[k + m - 1]
  BY <1>1
<1> DEFINE chains(k) == {order[m] : m \in k..n}
<1>4. ASSUME NEW k \in 1..n
      PROVE  {SubSeq(order, k, n)[m] : m \in DOMAIN SubSeq(order, k, n)} = chains(k)
  BY RestHolds, Zenon
<1>5. /\ Ahead = chains(i) /\ Len(todo) = n - i + 1 /\ Head(todo) = order[i]
  <2>1. Len(todo) = n - i + 1 /\ todo \in Seq(C) /\ todo[1] = order[i]
    BY <1>1, <1>2, <1>3
  <2>2. Ahead = chains(i)
    BY <1>2, <1>4 DEF Ahead
  <2>3. Head(todo) = todo[1]
    BY <2>1
  <2> QED
    BY <2>1, <2>2, <2>3
<1>6. chains(i) \subseteq C /\ order[i] \in chains(i)
  BY <1>1
<1>7. CASE Len(todo) > 1
  <2>1. i + 1 \in 1..n /\ stage' = stage /\ todo' = Tail(todo)
    BY <1>1, <1>5, <1>7 DEF Advance
  <2>2. Tail(todo) = SubSeq(order, i + 1, n)
    <3>1. /\ todo \in Seq(C) /\ Len(todo) = n - i + 1
          /\ \A m \in 1..(n - i + 1) : todo[m] = order[i + m - 1]
      BY <1>2, <1>3
    <3>2. /\ Tail(todo) \in Seq(C) /\ Len(Tail(todo)) = n - i
          /\ \A m \in 1..(n - i) : Tail(todo)[m] = order[i + m]
      <4>1. /\ Tail(todo) \in Seq(C) /\ Len(Tail(todo)) = Len(todo) - 1
            /\ \A m \in 1..(Len(todo) - 1) : Tail(todo)[m] = todo[m + 1]
        BY <1>7, <3>1
      <4>2. ASSUME NEW m \in 1..(n - i) PROVE Tail(todo)[m] = order[i + m]
        <5>1. m + 1 \in 1..(n - i + 1) /\ i + (m + 1) - 1 = i + m /\ m \in 1..(Len(todo) - 1)
          BY <1>1, <3>1
        <5> QED
          BY <3>1, <4>1, <5>1
      <4>3. Len(todo) - 1 = n - i
        BY <1>1, <3>1
      <4> QED
        BY <4>1, <4>2, <4>3
    <3>3. /\ SubSeq(order, i + 1, n) \in Seq(C) /\ Len(SubSeq(order, i + 1, n)) = n - i
          /\ \A m \in 1..(n - i) : SubSeq(order, i + 1, n)[m] = order[i + m]
      BY <1>1, <1>3, <2>1
    <3>4. n - i \in Int
      BY <1>1
    <3>5. ASSUME NEW s, NEW t, s \in Seq(C), t \in Seq(C), Len(s) = n - i, Len(t) = n - i,
                 \A m \in 1..(n - i) : s[m] = t[m]
          PROVE  s = t
      BY <3>4, <3>5, SameSequence
    <3>6. \A m \in 1..(n - i) : Tail(todo)[m] = SubSeq(order, i + 1, n)[m]
      BY <3>2, <3>3
    <3> HIDE DEF n
    <3> QED
      BY <3>2, <3>3, <3>5, <3>6
  <2>3. todo' \in Rests(order)
    BY <1>1, <2>1, <2>2 DEF Rests
  <2>4. Ahead' = chains(i + 1)
    BY <1>4, <2>1, <2>2 DEF Ahead
  <2>5. chains(i) = chains(i + 1) \cup {order[i]}
    BY <1>1
  <2>6. order[i] \notin chains(i + 1)
    <3> SUFFICES ASSUME NEW m \in (i + 1)..n, order[i] = order[m] PROVE FALSE
      OBVIOUS
    <3>1. i \in DOMAIN order /\ m \in DOMAIN order /\ i # m
      BY <1>1
    <3> QED
      BY <3>1
  <2> QED
    BY <1>5, <1>6, <2>1, <2>3, <2>4, <2>5, <2>6
<1>8. CASE ~(Len(todo) > 1)
  <2>1. i = n
    BY <1>1, <1>5, <1>8
  <2>2. chains(i) = {order[i]}
    BY <1>1, <2>1
  <2> QED
    BY <1>5, <1>6, <1>8, <2>2 DEF Advance
<1> QED
  BY <1>7, <1>8

\* A section starts with an order that has all of it left.
LEMMA WholeOrder ==
    ASSUME NEW C, NEW order \in Seq(C), order # <<>>
    PROVE  order \in Rests(order)
<1>1. 1 \in DOMAIN order /\ SubSeq(order, 1, Len(order)) = order
  OBVIOUS
<1> QED
  BY <1>1 DEF Rests

\* Which section fails in a step, and what goes on record for it.
LEMMA Tags ==
    ASSUME [Next]_vars, NEW f \in failed', f \notin failed
    PROVE  /\ f[1] = night /\ night' = night /\ stage # "idle"
           /\ \/ Reciprocal /\ f[2] = "recip"
              \/ CyclesFail /\ f[2] = "cycles" /\ f[3] = Head(todo)
              \/ Lookback /\ f[2] = "gave up" /\ f[3] \in TopSellers(Head(todo))
              \/ LookbackEscapes /\ f[2] = "lookback"
              \/ ConcentrationFails /\ f[2] = "conc"
              \/ CleanFails /\ f[2] = "clean"
              \/ ScoresFail /\ f[2] = "scores"
<1>1. CASE Reciprocal
  <2>1. f = <<night, "recip", NoValue>> /\ night' = night /\ stage = "recip"
    BY <1>1 DEF Reciprocal, Fails
  <2> QED
    BY <1>1, <2>1
<1>2. CASE CyclesFail
  <2>1. f = <<night, "cycles", Head(todo)>> /\ night' = night /\ stage = "cycles"
    BY <1>2 DEF CyclesFail, Fails
  <2> QED
    BY <1>2, <2>1
<1>3. CASE Lookback
  <2>1. PICK gaveUp \in SUBSET TopSellers(Head(todo)) :
          failed' = failed \cup {<<night, "gave up", s>> : s \in gaveUp}
    BY <1>3 DEF Lookback
  <2>2. PICK s \in gaveUp : f = <<night, "gave up", s>>
    BY <2>1
  <2>3. night' = night /\ stage = "lookback"
    BY <1>3 DEF Lookback
  <2> QED
    BY <1>3, <2>2, <2>3
<1>4. CASE LookbackEscapes
  <2>1. f = <<night, "lookback", Head(todo)>> /\ night' = night /\ stage = "lookback"
    BY <1>4 DEF LookbackEscapes, Fails
  <2> QED
    BY <1>4, <2>1
<1>5. CASE ConcentrationFails
  <2>1. f = <<night, "conc", NoValue>> /\ night' = night /\ stage = "conc"
    BY <1>5 DEF ConcentrationFails, Fails
  <2> QED
    BY <1>5, <2>1
<1>6. CASE CleanFails
  <2>1. f = <<night, "clean", Head(todo)>> /\ night' = night /\ stage = "clean"
    BY <1>6 DEF CleanFails, Fails
  <2> QED
    BY <1>6, <2>1
<1>7. CASE ScoresFail
  <2>1. f = <<night, "scores", NoValue>> /\ night' = night /\ stage = "scores"
    BY <1>7 DEF ScoresFail, Fails
  <2> QED
    BY <1>7, <2>1
<1>8. CASE StartNight \/ Cycles \/ Concentration \/ Clean \/ Scores \/ UNCHANGED vars
  <2>1. failed' = failed
    BY <1>8 DEF StartNight, Cycles, Concentration, Clean, Scores, vars
  <2> QED
    BY <2>1
<1> QED
  BY <1>1, <1>2, <1>3, <1>4, <1>5, <1>6, <1>7, <1>8 DEF Next

-----------------------------------------------------------------------------
(***************************************************************************)
(* The counts of the clean metrics.                                        *)
(***************************************************************************)
\* The settlements of some sellers are finitely many, and those that a seller paid
\* itself are among them.
LEMMA RowsAreFinite ==
    ASSUME pop \in Populations, NEW S \in SUBSET Seller
    PROVE  /\ IsFiniteSet(Settlements(S)) /\ IsFiniteSet(SelfPayments(S))
           /\ SelfPayments(S) \subseteq Settlements(S)
<1>1. \A s \in S : /\ pop.sellers[s].tx \in Nat /\ pop.sellers[s].self \in Nat
                   /\ pop.sellers[s].self <= pop.sellers[s].tx
  BY WashAssumption DEF SellerTraits
<1> DEFINE rows(s) == {<<s, k>> : k \in 1..pop.sellers[s].tx}
           all == {rows(s) : s \in S}
<1>2. ASSUME NEW s \in S PROVE IsFiniteSet(rows(s))
  <2>1. IsFiniteSet(1..pop.sellers[s].tx)
    BY <1>1, FS_Interval
  <2>2. IsFiniteSet({s} \X (1..pop.sellers[s].tx))
    BY <2>1, FS_Singleton, FS_Product
  <2>3. rows(s) = {s} \X (1..pop.sellers[s].tx)
    OBVIOUS
  <2> QED
    BY <2>2, <2>3
<1>3. IsFiniteSet(S)
  BY OrdersTyped, FS_Subset
<1>4. Settlements(S) = UNION all
  BY DEF Settlements
<1>5. SelfPayments(S) \subseteq Settlements(S)
  <2> SUFFICES ASSUME NEW r \in SelfPayments(S) PROVE r \in Settlements(S)
    OBVIOUS
  <2>1. PICK s \in S : \E k \in 1..pop.sellers[s].self : r = <<s, k>>
    BY DEF SelfPayments
  <2>2. PICK k \in 1..pop.sellers[s].self : r = <<s, k>>
    BY <2>1
  <2>3. k \in 1..pop.sellers[s].tx
    BY <1>1
  <2> QED
    BY <2>2, <2>3 DEF Settlements
<1> HIDE DEF rows
<1>6. [s \in S |-> rows(s)] \in Surjection(S, all)
  BY DEF Surjection
<1>7. IsFiniteSet(all)
  BY <1>3, <1>6, FS_Surjection
<1>8. IsFiniteSet(UNION all)
  BY <1>2, <1>7, FS_UNION
<1> QED
  BY <1>4, <1>5, <1>8, FS_Subset

\* Sellers apart have their settlements apart.
LEMMA TotalsAdd ==
    ASSUME pop \in Populations, NEW S \in SUBSET Seller, NEW T \in SUBSET Seller, S \cap T = {}
    PROVE  Total(S \cup T) = Total(S) + Total(T) /\ Total(S) \in Nat /\ Total(T) \in Nat
<1>1. Settlements(S \cup T) = Settlements(S) \cup Settlements(T)
  BY DEF Settlements
<1>2. Settlements(S) \cap Settlements(T) = {}
  BY DEF Settlements
<1>3. IsFiniteSet(Settlements(S)) /\ IsFiniteSet(Settlements(T))
  BY RowsAreFinite
<1>4. Cardinality(Settlements(S)) \in Nat /\ Cardinality(Settlements(T)) \in Nat
  BY <1>3, FS_CardinalityType
<1>5. Cardinality(Settlements(S) \cup Settlements(T)) =
        Cardinality(Settlements(S)) + Cardinality(Settlements(T)) - 0
  BY <1>2, <1>3, FS_Union, FS_EmptySet
<1>6. Total(S \cup T) = Total(S) + Total(T) - 0
  BY <1>1, <1>5, Zenon DEF Total
<1>7. Total(S) \in Nat /\ Total(T) \in Nat
  BY <1>4, Zenon DEF Total
<1> HIDE DEF Total
<1> QED
  BY <1>6, <1>7

\* What a chain's clean row counts: the settlements of the merchants that are not
\* excluded, less the ones they paid themselves.
LEMMA CountIsExact ==
    ASSUME pop \in Populations, NEW ch
    PROVE  LET good == {s \in Merchants(ch) : s \notin flagged[ch] /\ ~(concOk /\ s \in conc)}
           IN /\ CleanCount(ch) = Cardinality(Settlements(good) \ SelfPayments(good))
              /\ CleanCount(ch) \in Nat
<1> DEFINE M == Merchants(ch)
           out == M \cap flagged[ch]
           only == IF concOk THEN (M \cap conc) \ out ELSE {}
           good == {s \in M : s \notin flagged[ch] /\ ~(concOk /\ s \in conc)}
<1>1. M \in SUBSET Seller
  BY DEF Merchants, On
<1>2. CleanCount(ch) = Total(M) - Total(out) - Total(only) - SelfPaid(M \ (out \cup only))
  BY DEF CleanCount
<1> HIDE DEF M
<1>3. /\ out \in SUBSET Seller /\ only \in SUBSET Seller /\ good \in SUBSET Seller
      /\ out \cap only = {} /\ (out \cup only) \cap good = {}
      /\ M = (out \cup only) \cup good /\ M \ (out \cup only) = good
  BY <1>1
<1> HIDE DEF out, only, good
<1>4. Total(out \cup only) = Total(out) + Total(only)
  BY <1>3, TotalsAdd
<1>5. Total(M) = Total(out \cup only) + Total(good)
  BY <1>3, TotalsAdd
<1>6. Total(out) \in Nat /\ Total(only) \in Nat /\ Total(good) \in Nat
  BY <1>3, TotalsAdd
<1>7. CleanCount(ch) = Total(good) - SelfPaid(good)
  <2>1. SelfPaid(good) \in Int
    BY <1>3, RowsAreFinite, FS_CardinalityType DEF SelfPaid
  <2>2. CleanCount(ch) = Total(M) - Total(out) - Total(only) - SelfPaid(good)
    BY <1>2, <1>3
  <2> QED
    BY <1>4, <1>5, <1>6, <2>1, <2>2
<1>8. /\ IsFiniteSet(Settlements(good))
      /\ Settlements(good) \cap SelfPayments(good) = SelfPayments(good)
  BY <1>3, RowsAreFinite
<1>9. /\ Cardinality(Settlements(good) \ SelfPayments(good)) =
           Cardinality(Settlements(good)) - Cardinality(SelfPayments(good))
      /\ Cardinality(Settlements(good) \ SelfPayments(good)) \in Nat
  BY <1>8, FS_Difference, FS_CardinalityType
<1>10. CleanCount(ch) = Cardinality(Settlements(good) \ SelfPayments(good))
  BY <1>7, <1>9 DEF Total, SelfPaid
<1> QED
  BY <1>9, <1>10 DEF good, M

-----------------------------------------------------------------------------
(***************************************************************************)
(* What the sections hold, to the last seller.                             *)
(***************************************************************************)
\* The chains that are ahead when a section starts.
LEMMA AheadOf ==
    /\ todo' = CycleOrder => Ahead' = Chain
    /\ todo' = WashOrder => Ahead' = WashChain
  BY OrdersCover DEF Ahead

\* The cycle pass goes on to its next chain, or over to the lookback.
LEMMA CycleTurn ==
    ASSUME CleanTyped, Cycles \/ CyclesFail
    PROVE  /\ stage = "cycles" /\ night' = night
           /\ Head(todo) \in Chain /\ Head(todo) \in Ahead
           /\ \/ /\ stage' = "cycles" /\ todo' \in Rests(CycleOrder)
                 /\ Ahead = Ahead' \cup {Head(todo)} /\ Head(todo) \notin Ahead'
              \/ /\ stage' = "lookback" /\ todo' = WashOrder
                 /\ Ahead = {Head(todo)} /\ Ahead' = WashChain
<1>1. stage = "cycles" /\ night' = night /\ Advance("lookback", WashOrder)
  BY DEF Cycles, CyclesFail
<1>2. todo \in Rests(CycleOrder)
  BY <1>1 DEF CleanTyped
<1>3. /\ Head(todo) \in Chain /\ Head(todo) \in Ahead
      /\ \/ /\ stage' = stage /\ todo' \in Rests(CycleOrder)
            /\ Ahead = Ahead' \cup {Head(todo)} /\ Head(todo) \notin Ahead'
         \/ stage' = "lookback" /\ todo' = WashOrder /\ Ahead = {Head(todo)}
  BY <1>1, <1>2, OrdersTyped, NextChain
<1> QED
  BY <1>1, <1>3, AheadOf

\* The lookback goes on to its next chain, or over to the concentration scan.
LEMMA LookbackTurn ==
    ASSUME CleanTyped, Lookback
    PROVE  /\ stage = "lookback" /\ night' = night
           /\ Head(todo) \in WashChain /\ Head(todo) \in Ahead
           /\ \/ /\ stage' = "lookback" /\ todo' \in Rests(WashOrder)
                 /\ Ahead = Ahead' \cup {Head(todo)} /\ Head(todo) \notin Ahead'
              \/ stage' = "conc" /\ todo' = <<>> /\ Ahead = {Head(todo)}
<1>1. stage = "lookback" /\ night' = night /\ Advance("conc", <<>>)
  BY DEF Lookback
<1>2. todo \in Rests(WashOrder)
  BY <1>1 DEF CleanTyped
<1> QED
  BY <1>1, <1>2, OrdersTyped, NextChain

\* The clean metrics go on to their next chain, or over to the scores.
LEMMA CleanTurn ==
    ASSUME CleanTyped, Clean \/ CleanFails
    PROVE  /\ stage = "clean" /\ night' = night
           /\ Head(todo) \in WashChain
           /\ \/ stage' = "clean" /\ todo' \in Rests(WashOrder)
              \/ stage' = "scores" /\ todo' = <<>>
<1>1. stage = "clean" /\ night' = night /\ Advance("scores", <<>>)
  BY DEF Clean, CleanFails
<1>2. todo \in Rests(WashOrder)
  BY <1>1 DEF CleanTyped
<1> QED
  BY <1>1, <1>2, OrdersTyped, NextChain

\* What a section has left is of its order.
LEMMA TodoKept ==
    ASSUME CleanTyped, [Next]_vars
    PROVE  todo' \in CASE stage' = "cycles" -> Rests(CycleOrder)
                       [] stage' \in {"lookback", "clean"} -> Rests(WashOrder)
                       [] OTHER -> {<<>>}
<1>0. CycleOrder \in Rests(CycleOrder) /\ WashOrder \in Rests(WashOrder)
  BY OrdersTyped, WholeOrder
<1>1. CASE Reciprocal
  BY <1>0, <1>1 DEF Reciprocal
<1>2. CASE Cycles \/ CyclesFail
  <2>1. \/ stage' = "cycles" /\ todo' \in Rests(CycleOrder)
        \/ stage' = "lookback" /\ todo' = WashOrder
    BY <1>2, CycleTurn
  <2> QED
    BY <1>0, <2>1
<1>3. CASE Lookback
  <2>1. \/ stage' = "lookback" /\ todo' \in Rests(WashOrder)
        \/ stage' = "conc" /\ todo' = <<>>
    BY <1>3, LookbackTurn
  <2> QED
    BY <2>1
<1>4. CASE LookbackEscapes
  BY <1>4 DEF LookbackEscapes
<1>5. CASE Concentration \/ ConcentrationFails
  BY <1>0, <1>5 DEF Concentration, ConcentrationFails
<1>6. CASE Clean \/ CleanFails
  <2>1. \/ stage' = "clean" /\ todo' \in Rests(WashOrder)
        \/ stage' = "scores" /\ todo' = <<>>
    BY <1>6, CleanTurn
  <2> QED
    BY <2>1
<1>7. CASE StartNight \/ Scores \/ ScoresFail
  <2>1. todo' = todo /\ stage' \in {"recip", "idle"} /\ stage \in {"idle", "scores"}
    BY <1>7 DEF StartNight, Scores, ScoresFail
  <2> QED
    BY <2>1 DEF CleanTyped
<1>8. CASE UNCHANGED vars
  BY <1>8 DEF vars, runVars, CleanTyped
<1> QED
  BY <1>1, <1>2, <1>3, <1>4, <1>5, <1>6, <1>7, <1>8 DEF Next

\* No section has failed before its turn.
LEMMA InTurnKept ==
    ASSUME NightTyped, CleanTyped, InTurn, [Next]_vars PROVE InTurn'
<1>1. \A f \in failed' : f[1] \in 1..night'
  <2> SUFFICES ASSUME NEW f \in failed' PROVE f[1] \in 1..night'
    OBVIOUS
  <2>1. night \in Nat /\ (night' = night \/ night' = night + 1)
    <3>1. night \in Nat
      BY NightIsNat
    <3>2. night' = night \/ night' = night + 1
      BY DEF Next, vars, StartNight, Reciprocal, Cycles, CyclesFail, Lookback, LookbackEscapes,
             Concentration, ConcentrationFails, Clean, CleanFails, Scores, ScoresFail
    <3> QED
      BY <3>1, <3>2
  <2>2. CASE f \in failed
    <3>1. f[1] \in 1..night
      BY <2>2 DEF InTurn
    <3> QED
      BY <2>1, <3>1
  <2>3. CASE f \notin failed
    <3>1. f[1] = night /\ night' = night /\ night > 0
      BY <2>3, Tags DEF NightTyped
    <3> QED
      BY <2>1, <3>1
  <2> QED
    BY <2>2, <2>3
<1>2. CASE StartNight
  <2>1. stage' = "recip" /\ failed' = failed /\ night' = night + 1 /\ night \in Nat
    BY <1>2, NightIsNat DEF StartNight
  <2>2. \A f \in failed' : f[1] # night'
    <3>1. \A f \in failed' : f[1] \in 1..night
      BY <2>1 DEF InTurn
    <3> QED
      BY <2>1, <3>1
  <2> QED
    BY <1>1, <2>1, <2>2 DEF InTurn
<1>3. CASE Reciprocal
  <2>1. stage = "recip" /\ stage' = "cycles" /\ night' = night
    BY <1>3 DEF Reciprocal
  <2>2. \A f \in failed' : f[1] = night' => f[2] = "recip"
    <3> SUFFICES ASSUME NEW f \in failed', f[1] = night', f[2] # "recip" PROVE FALSE
      OBVIOUS
    <3>1. f \notin failed
      BY <2>1 DEF InTurn
    <3> QED
      BY <2>1, <3>1, Tags DEF CyclesFail, Lookback, LookbackEscapes, ConcentrationFails,
                             CleanFails, ScoresFail
  <2> QED
    BY <1>1, <2>1, <2>2 DEF InTurn
<1>4. CASE Cycles \/ CyclesFail
  <2>1. /\ stage = "cycles" /\ night' = night
        /\ \/ stage' = "cycles" /\ Ahead' \subseteq Ahead /\ Head(todo) \notin Ahead'
           \/ stage' = "lookback"
    BY <1>4, CycleTurn
  <2>2. \A f \in failed' : f[1] = night' =>
          f[2] = "recip" \/ (f[2] = "cycles" /\ (f[3] \notin Ahead \/ f[3] = Head(todo)))
    <3> SUFFICES ASSUME NEW f \in failed', f[1] = night'
                 PROVE  f[2] = "recip" \/ (f[2] = "cycles" /\ (f[3] \notin Ahead \/ f[3] = Head(todo)))
      OBVIOUS
    <3>1. CASE f \in failed
      BY <2>1, <3>1 DEF InTurn
    <3>2. CASE f \notin failed
      BY <2>1, <3>2, Tags DEF Reciprocal, Lookback, LookbackEscapes, ConcentrationFails,
                             CleanFails, ScoresFail
    <3> QED
      BY <3>1, <3>2
  <2> QED
    BY <1>1, <2>1, <2>2 DEF InTurn
<1>5. CASE Lookback
  <2>1. /\ stage = "lookback" /\ night' = night
        /\ \/ stage' = "lookback" /\ Ahead' \subseteq Ahead /\ Head(todo) \notin Ahead'
           \/ stage' = "conc"
    BY <1>5, LookbackTurn
  <2>2. \A s \in TopSellers(Head(todo)) : ChainOf[s] = Head(todo)
    BY DEF TopSellers, Merchants, On
  <2>3. \A f \in failed' : f[1] = night' =>
          \/ f[2] \in {"recip", "cycles"}
          \/ f[2] = "gave up" /\ (ChainOf[f[3]] \notin Ahead \/ ChainOf[f[3]] = Head(todo))
    <3> SUFFICES ASSUME NEW f \in failed', f[1] = night'
                 PROVE  \/ f[2] \in {"recip", "cycles"}
                        \/ f[2] = "gave up" /\ (ChainOf[f[3]] \notin Ahead \/ ChainOf[f[3]] = Head(todo))
      OBVIOUS
    <3>1. CASE f \in failed
      BY <2>1, <3>1 DEF InTurn
    <3>2. CASE f \notin failed
      <4>1. f[2] = "gave up" /\ f[3] \in TopSellers(Head(todo))
        <5>1. ~LookbackEscapes
          BY <1>5, <2>1 DEF Lookback, LookbackEscapes
        <5> QED
          BY <2>1, <3>2, <5>1, Tags DEF Reciprocal, CyclesFail, ConcentrationFails, CleanFails,
                                        ScoresFail
      <4> QED
        BY <2>2, <4>1
    <3> QED
      BY <3>1, <3>2
  <2> QED
    BY <1>1, <2>1, <2>3 DEF InTurn
<1>6. CASE \/ LookbackEscapes \/ Concentration \/ ConcentrationFails \/ Clean \/ CleanFails
           \/ Scores \/ ScoresFail
  <2>1. stage' \in {"scores", "clean", "idle"}
    BY <1>6, CleanTurn DEF LookbackEscapes, Concentration, ConcentrationFails, Scores, ScoresFail
  <2> QED
    BY <1>1, <2>1 DEF InTurn
<1>7. CASE UNCHANGED vars
  BY <1>7 DEF vars, runVars, InTurn, Ahead
<1> QED
  BY <1>2, <1>3, <1>4, <1>5, <1>6, <1>7 DEF Next

\* What has failed of the sections before stands while the later ones are in work.
LEMMA FailuresStand ==
    ASSUME [Next]_vars
    PROVE  /\ Did("recip") => (<<night, "recip", NoValue>> \in failed' <=> <<night, "recip", NoValue>> \in failed)
           /\ ~CyclesFail => \A ch : <<night, "cycles", ch>> \in failed' <=> <<night, "cycles", ch>> \in failed
           /\ ~Lookback => \A s : <<night, "gave up", s>> \in failed' <=> <<night, "gave up", s>> \in failed
           /\ ~ConcentrationFails => (<<night, "conc", NoValue>> \in failed' <=> <<night, "conc", NoValue>> \in failed)
<1>0. failed \subseteq failed'
  BY SettlementsStand
<1>1. ASSUME Did("recip"), <<night, "recip", NoValue>> \in failed', <<night, "recip", NoValue>> \notin failed
      PROVE  FALSE
  <2>1. ~Reciprocal
    BY <1>1 DEF Did, Reciprocal
  <2> QED
    BY <1>1, <2>1, Tags
<1>2. ASSUME ~CyclesFail, NEW ch, <<night, "cycles", ch>> \in failed', <<night, "cycles", ch>> \notin failed
      PROVE  FALSE
  BY <1>2, Tags
<1>3. ASSUME ~Lookback, NEW s, <<night, "gave up", s>> \in failed', <<night, "gave up", s>> \notin failed
      PROVE  FALSE
  BY <1>3, Tags
<1>4. ASSUME ~ConcentrationFails, <<night, "conc", NoValue>> \in failed', <<night, "conc", NoValue>> \notin failed
      PROVE  FALSE
  BY <1>4, Tags
<1> QED
  BY <1>0, <1>1, <1>2, <1>3, <1>4

\* The reciprocal sellers of the night are the ones that the scan has to find.
LEMMA RecipKept ==
    ASSUME NightTyped, InTurn, RecipExact, [Next]_vars PROVE RecipExact'
<1> SUFFICES ASSUME Did("recip")', NEW s \in Seller
             PROVE  s \in recip' <=> /\ ChainOf[s] \in WashChain /\ pop.sellers[s].recip
                                    /\ <<night', "recip", NoValue>> \notin failed'
  BY SettlementsStand DEF RecipExact
<1>1. CASE Reciprocal
  <2>1. /\ stage = "recip" /\ night' = night
        /\ recip' = {t \in Seller : recipOk' /\ ChainOf[t] \in WashChain /\ pop.sellers[t].recip}
    BY <1>1 DEF Reciprocal
  <2>2. <<night, "recip", NoValue>> \notin failed
    BY <2>1 DEF InTurn
  <2>3. recipOk' <=> <<night, "recip", NoValue>> \notin failed'
    BY <1>1, <2>2 DEF Reciprocal, Fails
  <2> QED
    BY <2>1, <2>3
<1>2. CASE Did("recip") /\ recip' = recip
  <2>1. night' = night
    BY BehindThem
  <2> QED
    BY <1>2, <2>1, FailuresStand DEF RecipExact
<1> QED
  BY <1>1, <1>2, BehindThem

\* The flags of the night are the ones that the sections so far have to find.
LEMMA FlagsKept ==
    ASSUME NightTyped, CleanTyped, InTurn, RecipExact, FlagsExact, [Next]_vars PROVE FlagsExact'
<1> SUFFICES ASSUME stage' \in {"cycles", "lookback", "conc", "clean"},
                    NEW ch \in WashChain, NEW s \in On(ch)
             PROVE  LET e == pop.sellers[s]
                    IN s \in flagged'[ch] <=>
                         \/ e.batch
                         \/ e.ring /\ Been("cycles", ch)' /\ <<night', "cycles", ch>> \notin failed'
                         \/ /\ e.big /\ e.merchant /\ Been("lookback", ch)'
                            /\ \/ SelfRatio(e) > SelfThresh
                               \/ e.fr > FundedThresh /\ <<night', "gave up", s>> \notin failed'
                               \/ s \in recip'
  <2>1. pop' = pop
    BY SettlementsStand
  <2> QED
    BY <2>1 DEF FlagsExact, On
<1> DEFINE e == pop.sellers[s]
<1>0. /\ s \in Seller /\ ChainOf[s] = ch /\ ch \in Chain
  BY OrdersTyped DEF On
<1>1. CASE Reciprocal
  <2>1. stage' = "cycles" /\ todo' = CycleOrder /\ (s \in flagged'[ch] <=> e.batch)
    BY <1>1 DEF Reciprocal
  <2>2. ch \in Ahead'
    BY <1>0, <2>1, AheadOf
  <2> QED
    BY <2>1, <2>2 DEF Been, Did
<1>2. CASE Cycles \/ CyclesFail
  <2>1. /\ stage = "cycles" /\ night' = night /\ recip' = recip
    BY <1>2 DEF Cycles, CyclesFail
  <2>2. /\ Been("cycles", ch)' <=> Been("cycles", ch) \/ ch = Head(todo)
        /\ ~Been("lookback", ch)' /\ ~Been("lookback", ch)
        /\ ch = Head(todo) => ~Been("cycles", ch) /\ <<night, "cycles", ch>> \notin failed
    <3>1. /\ Head(todo) \in Ahead
          /\ \/ stage' = "cycles" /\ Ahead = Ahead' \cup {Head(todo)} /\ Head(todo) \notin Ahead'
             \/ stage' = "lookback" /\ Ahead = {Head(todo)} /\ Ahead' = WashChain
      BY <1>2, CycleTurn
    <3>2. ch = Head(todo) => <<night, "cycles", ch>> \notin failed
      BY <2>1, <3>1 DEF InTurn
    <3> QED
      BY <2>1, <3>1, <3>2 DEF Been, Did
  <2>3. s \in flagged[ch] <=> e.batch \/ (e.ring /\ Been("cycles", ch) /\ <<night, "cycles", ch>> \notin failed)
    BY <2>1, <2>2 DEF FlagsExact
  <2>4. CASE Cycles
    <3>1. s \in flagged'[ch] <=> s \in flagged[ch] \/ (ch = Head(todo) /\ e.ring)
      BY <1>0, <2>4, CycleRows DEF RingOn
    <3>2. failed' = failed
      BY <2>4 DEF Cycles
    <3> QED
      BY <2>1, <2>2, <2>3, <3>1, <3>2
  <2>5. CASE CyclesFail
    <3>1. flagged' = flagged /\ failed' = failed \cup {<<night, "cycles", Head(todo)>>}
      BY <2>5 DEF CyclesFail, Fails
    <3>2. <<night, "cycles", ch>> \in failed' <=> <<night, "cycles", ch>> \in failed \/ ch = Head(todo)
      BY <3>1
    <3> QED
      BY <2>1, <2>2, <2>3, <3>1, <3>2
  <2> QED
    BY <1>2, <2>4, <2>5
<1>3. CASE Lookback
  <2>1. stage = "lookback" /\ night' = night /\ recip' = recip
    BY <1>3 DEF Lookback
  <2>2. /\ Been("lookback", ch)' <=> Been("lookback", ch) \/ ch = Head(todo)
        /\ Been("cycles", ch)' /\ Been("cycles", ch)
        /\ ch = Head(todo) => ~Been("lookback", ch) /\ <<night, "gave up", s>> \notin failed
    <3>1. /\ Head(todo) \in Ahead
          /\ \/ stage' = "lookback" /\ Ahead = Ahead' \cup {Head(todo)} /\ Head(todo) \notin Ahead'
             \/ stage' = "conc" /\ Ahead = {Head(todo)}
      BY <1>3, LookbackTurn
    <3>2. ch = Head(todo) => <<night, "gave up", s>> \notin failed
      BY <1>0, <2>1, <3>1 DEF InTurn
    <3> QED
      BY <2>1, <3>1, <3>2 DEF Been, Did
  <2>3. PICK gaveUp \in SUBSET TopSellers(Head(todo)) :
          /\ failed' = failed \cup {<<night, "gave up", t>> : t \in gaveUp}
          /\ flagged' = [flagged EXCEPT ![Head(todo)] =
               @ \cup {t \in TopSellers(Head(todo)) : IsFlagged(t, gaveUp)}]
    BY <1>3 DEF Lookback
  <2>4. /\ <<night, "gave up", s>> \in failed' <=> <<night, "gave up", s>> \in failed \/ s \in gaveUp
        /\ <<night, "cycles", ch>> \in failed' <=> <<night, "cycles", ch>> \in failed
    BY <2>3
  <2>5. s \in flagged'[ch] <=>
          \/ s \in flagged[ch]
          \/ ch = Head(todo) /\ s \in TopSellers(ch) /\ IsFlagged(s, gaveUp)
    BY <2>3 DEF NightTyped
  <2>6. s \in TopSellers(ch) <=> e.big /\ e.merchant
    BY <1>0 DEF TopSellers, Merchants, On
  <2>7. s \in gaveUp => ch = Head(todo)
    BY <1>0, <2>3 DEF TopSellers, Merchants, On
  <2>8. IsFlagged(s, gaveUp) <=> \/ SelfRatio(e) > SelfThresh
                                 \/ e.fr > FundedThresh /\ s \notin gaveUp
                                 \/ s \in recip \/ s \in flagged[ch]
    <3>1. e.fr # NoValue
      <4>1. e.fr \in 0..100
        BY <1>0, Traits DEF SellerTraits, NightTyped
      <4>2. e.fr \in Int
        BY <4>1
      <4> QED
        BY <4>2, RulesAssumption
    <3> QED
      BY <1>0, <3>1 DEF IsFlagged, Funded
  <2>9. s \in flagged[ch] <=>
          \/ e.batch
          \/ e.ring /\ <<night, "cycles", ch>> \notin failed
          \/ /\ e.big /\ e.merchant /\ Been("lookback", ch)
             /\ \/ SelfRatio(e) > SelfThresh
                \/ e.fr > FundedThresh /\ <<night, "gave up", s>> \notin failed
                \/ s \in recip
    BY <2>1, <2>2 DEF FlagsExact
  <2> HIDE DEF e
  <2>10. CASE ch = Head(todo)
    BY <2>1, <2>2, <2>4, <2>5, <2>6, <2>8, <2>9, <2>10 DEF e
  <2>11. CASE ch # Head(todo)
    BY <2>1, <2>2, <2>4, <2>5, <2>7, <2>9, <2>11 DEF e
  <2> QED
    BY <2>10, <2>11
<1>4. CASE Concentration \/ ConcentrationFails \/ Clean \/ CleanFails
  <2>1. /\ stage \in {"conc", "clean"} /\ stage' = "clean" /\ night' = night
        /\ recip' = recip /\ flagged' = flagged
    BY <1>4 DEF Concentration, ConcentrationFails, Clean, CleanFails, Advance
  <2>2. /\ Been("cycles", ch)' /\ Been("cycles", ch) /\ Been("lookback", ch)' /\ Been("lookback", ch)
    BY <2>1 DEF Been, Did
  <2>3. ~CyclesFail /\ ~Lookback
    BY <2>1 DEF CyclesFail, Lookback
  <2>4. /\ <<night, "cycles", ch>> \in failed' <=> <<night, "cycles", ch>> \in failed
        /\ <<night, "gave up", s>> \in failed' <=> <<night, "gave up", s>> \in failed
    BY <2>3, FailuresStand
  <2> QED
    BY <2>1, <2>2, <2>4 DEF FlagsExact
<1>5. CASE StartNight \/ LookbackEscapes \/ Scores \/ ScoresFail
  BY <1>5 DEF StartNight, LookbackEscapes, Scores, ScoresFail
<1>6. CASE UNCHANGED vars
  <2>1. UNCHANGED <<stage, todo, night, recip, flagged, failed>>
    BY <1>6 DEF vars, runVars
  <2>2. (Been("cycles", ch)' <=> Been("cycles", ch)) /\ (Been("lookback", ch)' <=> Been("lookback", ch))
    BY <2>1 DEF Been, Did, Ahead
  <2> QED
    BY <2>1, <2>2 DEF FlagsExact
<1> QED
  BY <1>1, <1>2, <1>3, <1>4, <1>5, <1>6 DEF Next

\* The concentrated sellers of the night are the ones that the scan has to find.
LEMMA ConcKept ==
    ASSUME InTurn, ConcExact, [Next]_vars PROVE ConcExact'
<1> SUFFICES ASSUME stage' = "clean", NEW s \in Seller
             PROVE  concOk' /\ s \in conc' <=> /\ ChainOf[s] \in WashChain
                                              /\ pop.sellers[s].merchant /\ pop.sellers[s].conc
                                              /\ <<night', "conc", NoValue>> \notin failed'
  BY SettlementsStand DEF ConcExact
<1>1. CASE Concentration
  <2>1. /\ stage = "conc" /\ night' = night /\ failed' = failed /\ concOk' = TRUE
        /\ conc' = UNION {{t \in Merchants(ch) : pop.sellers[t].conc} : ch \in WashChain}
    BY <1>1 DEF Concentration
  <2>2. <<night, "conc", NoValue>> \notin failed
    BY <2>1 DEF InTurn
  <2>3. s \in conc' <=> ChainOf[s] \in WashChain /\ pop.sellers[s].merchant /\ pop.sellers[s].conc
    BY <2>1 DEF Merchants, On
  <2> QED
    BY <2>1, <2>2, <2>3
<1>2. CASE ConcentrationFails
  <2>1. concOk' = FALSE /\ night' = night /\ <<night, "conc", NoValue>> \in failed'
    BY <1>2 DEF ConcentrationFails, Fails
  <2> QED
    BY <2>1
<1>3. CASE Clean \/ CleanFails
  <2>1. stage = "clean" /\ night' = night /\ conc' = conc /\ concOk' = concOk
    BY <1>3 DEF Clean, CleanFails
  <2>2. ~ConcentrationFails
    BY <2>1 DEF ConcentrationFails
  <2> QED
    BY <2>1, <2>2, FailuresStand DEF ConcExact
<1>4. CASE \/ StartNight \/ Reciprocal \/ Cycles \/ CyclesFail \/ Lookback \/ LookbackEscapes
           \/ Scores \/ ScoresFail
  <2>1. stage' # "clean"
    BY <1>4 DEF StartNight, Reciprocal, Cycles, CyclesFail, Lookback, LookbackEscapes, Scores,
                ScoresFail, Advance
  <2> QED
    BY <2>1
<1>5. CASE UNCHANGED vars
  BY <1>5 DEF vars, runVars, ConcExact
<1> QED
  BY <1>1, <1>2, <1>3, <1>4, <1>5 DEF Next

\* The clean row of the chain in work is written, and the others stay.
LEMMA CleanWritten ==
    ASSUME NightTyped, CleanTyped, [Next]_vars
    PROVE  /\ clean' \in [Night -> [WashChain -> Nat \cup {NoRow}]]
           /\ \A n \in Night, ch \in WashChain :
                \/ clean'[n][ch] = clean[n][ch]
                \/ /\ Clean /\ stage = "clean" /\ n = night /\ ch = Head(todo)
                   /\ clean'[n][ch] = CleanCount(ch)
<1>1. CASE Clean
  <2> DEFINE head == Head(todo)
             count == CleanCount(head)
  <2>1. /\ stage = "clean" /\ head \in WashChain /\ night \in Night
        /\ clean' = [clean EXCEPT ![night][head] = count]
    BY <1>1, CleanTurn, InWork DEF Clean
  <2>2. count \in Nat /\ clean \in [Night -> [WashChain -> Nat \cup {NoRow}]]
    BY CountIsExact DEF NightTyped, CleanTyped
  <2> HIDE DEF head, count
  <2>3. clean' \in [Night -> [WashChain -> Nat \cup {NoRow}]]
    BY <2>1, <2>2
  <2>4. \A n \in Night, ch \in WashChain :
          clean'[n][ch] = IF n = night /\ ch = head THEN count ELSE clean[n][ch]
    BY <2>1, <2>2
  <2> QED
    BY <1>1, <2>1, <2>3, <2>4 DEF head, count
<1>2. CASE clean' = clean
  BY <1>2 DEF CleanTyped
<1>3. Clean \/ clean' = clean
  BY DEF Next, vars, tables, StartNight, Reciprocal, Cycles, CyclesFail, Lookback, LookbackEscapes,
         Concentration, ConcentrationFails, CleanFails, Scores, ScoresFail
<1> QED
  BY <1>1, <1>2, <1>3

\* Clean metrics are written behind the sections they rest on.
LEMMA CleanSinceKept ==
    ASSUME NightTyped, CleanTyped, CleanSince, [Next]_vars PROVE CleanSince'
<1> SUFFICES ASSUME NEW n \in Night, NEW ch \in WashChain, clean'[n][ch] # NoRow
             PROVE  n < night' \/ (n = night' /\ stage' \in {"clean", "scores", "idle"})
  BY DEF CleanSince
<1>0. night \in Nat /\ n \in Nat
  BY NightIsNat, OrdersTyped DEF Night
<1>1. n < night \/ (n = night /\ stage \in {"clean", "scores", "idle"})
  BY CleanWritten DEF CleanSince
<1>2. \/ night' = night /\ (stage \in {"clean", "scores", "idle"} => stage' \in {"clean", "scores", "idle"})
      \/ night' = night + 1
  <2>1. CASE StartNight
    BY <2>1 DEF StartNight
  <2>2. CASE Clean \/ CleanFails
    BY <2>2, CleanTurn
  <2>3. CASE Scores \/ ScoresFail
    BY <2>3 DEF Scores, ScoresFail
  <2>4. CASE \/ Reciprocal \/ Cycles \/ CyclesFail \/ Lookback \/ LookbackEscapes
             \/ Concentration \/ ConcentrationFails
    BY <2>4 DEF Reciprocal, Cycles, CyclesFail, Lookback, LookbackEscapes, Concentration,
                ConcentrationFails
  <2>5. CASE UNCHANGED vars
    BY <2>5 DEF vars, runVars
  <2> QED
    BY <2>1, <2>2, <2>3, <2>4, <2>5 DEF Next
<1> QED
  BY <1>0, <1>1, <1>2

\* What excludes a seller on a night stays what it is behind the sections.
LEMMA ExclusionStands ==
    ASSUME NightTyped, [Next]_vars, NEW n \in Night,
           n < night \/ (n = night /\ stage \in {"clean", "scores", "idle"})
    PROVE  \A s \in Seller : Excluded(n, s)' <=> Excluded(n, s)
<1>0. n = night => stage \in {"clean", "scores", "idle"}
  <2>1. night \in Nat
    BY NightIsNat
  <2> QED
    BY <2>1
<1>1. \A sec \in {"recip", "cycles", "gave up", "conc"} : \A x :
        <<n, sec, x>> \in failed' <=> <<n, sec, x>> \in failed
  <2> SUFFICES ASSUME NEW sec \in {"recip", "cycles", "gave up", "conc"}, NEW x,
                      <<n, sec, x>> \in failed', <<n, sec, x>> \notin failed
               PROVE  FALSE
    BY SettlementsStand
  <2>1. n = night
    BY Tags
  <2>2. stage \in {"clean", "scores", "idle"}
    BY <1>0, <2>1
  <2>3. ~Reciprocal /\ ~CyclesFail /\ ~Lookback /\ ~ConcentrationFails
    BY <2>2 DEF Reciprocal, CyclesFail, Lookback, ConcentrationFails
  <2> QED
    BY <2>3, Tags
<1>2. pop' = pop
  BY SettlementsStand
<1> QED
  BY <1>1, <1>2 DEF Excluded, Flaggable

\* The clean row of the night counts the settlements of the sellers that no section
\* has excluded, and the rows of before stay so.
LEMMA CleanExactKept ==
    ASSUME NightTyped, CleanTyped, InTurn, RecipExact, FlagsExact, ConcExact, CleanSince, CleanExact,
           [Next]_vars
    PROVE  CleanExact'
<1> SUFFICES ASSUME NEW n \in Night, NEW ch \in WashChain, clean'[n][ch] # NoRow
             PROVE  LET good == {s \in Merchants(ch) : ~Excluded(n, s)'}
                    IN clean'[n][ch] = Cardinality(Settlements(good) \ SelfPayments(good))
  BY SettlementsStand DEF CleanExact, Merchants, Settlements, SelfPayments
<1> DEFINE good == {s \in Merchants(ch) : ~Excluded(n, s)}
<1>0. Merchants(ch) \subseteq Seller /\ \A s \in Merchants(ch) : s \in On(ch) /\ ChainOf[s] = ch
  BY DEF Merchants, On
<1>1. CASE clean'[n][ch] = clean[n][ch]
  <2>1. clean[n][ch] = Cardinality(Settlements(good) \ SelfPayments(good))
    BY <1>1 DEF CleanExact
  <2>2. n < night \/ (n = night /\ stage \in {"clean", "scores", "idle"})
    BY <1>1 DEF CleanSince
  <2>3. \A s \in Seller : Excluded(n, s)' <=> Excluded(n, s)
    BY <2>2, ExclusionStands
  <2>4. good = {s \in Merchants(ch) : ~Excluded(n, s)'}
    BY <1>0, <2>3
  <2> QED
    BY <1>1, <2>1, <2>4
<1>2. CASE Clean /\ stage = "clean" /\ n = night /\ clean'[n][ch] = CleanCount(ch)
  <2>1. clean'[n][ch] = Cardinality(
          Settlements({s \in Merchants(ch) : s \notin flagged[ch] /\ ~(concOk /\ s \in conc)})
          \ SelfPayments({s \in Merchants(ch) : s \notin flagged[ch] /\ ~(concOk /\ s \in conc)}))
    BY <1>2, CountIsExact DEF NightTyped
  <2>2. ASSUME NEW s \in Merchants(ch)
        PROVE  Excluded(n, s) <=> s \in flagged[ch] \/ (concOk /\ s \in conc)
    <3>1. s \in On(ch) /\ s \in Seller /\ ChainOf[s] = ch /\ pop.sellers[s].merchant
      BY <1>0 DEF Merchants
    <3>2. Been("cycles", ch) /\ Been("lookback", ch) /\ Did("recip")
      BY <1>2 DEF Been, Did
    <3>3. s \in recip <=> pop.sellers[s].recip /\ <<night, "recip", NoValue>> \notin failed
      BY <3>1, <3>2 DEF RecipExact
    <3>4. s \in flagged[ch] <=> Flaggable(night, s)
      BY <1>2, <3>1, <3>2, <3>3 DEF FlagsExact, Flaggable
    <3>5. concOk /\ s \in conc <=> pop.sellers[s].conc /\ <<night, "conc", NoValue>> \notin failed
      BY <1>2, <3>1 DEF ConcExact
    <3> QED
      BY <1>2, <3>4, <3>5 DEF Excluded
  <2>3. failed' = failed /\ pop' = pop
    BY <1>2 DEF Clean
  <2>4. \A s \in Seller : Excluded(n, s)' <=> Excluded(n, s)
    BY <2>3 DEF Excluded, Flaggable
  <2>5. {s \in Merchants(ch) : s \notin flagged[ch] /\ ~(concOk /\ s \in conc)} =
          {s \in Merchants(ch) : ~Excluded(n, s)'}
    BY <1>0, <2>2, <2>4
  <2> QED
    BY <2>1, <2>5
<1> QED
  BY <1>1, <1>2, CleanWritten

\* What the seller scorer writes is a row of the table.
LEMMA ScoredIsRow ==
    ASSUME NightTyped, EvidenceTrue, night \in Night, NEW s \in Seller, pop.sellers[s].tx > 0
    PROVE  Scored(s) \in ScoreRow
<1> DEFINE e == pop.sellers[s]
           w == Wash(s)
<1>1. /\ w.fr \in 0..100 \cup {NoValue} /\ w.recip \in BOOLEAN /\ w.nightly \in BOOLEAN
      /\ w.history \in BOOLEAN /\ w.cycle \in BOOLEAN
  BY WashJoins
<1>2. w = [fr |-> w.fr, recip |-> w.recip, nightly |-> w.nightly, history |-> w.history,
           cycle |-> w.cycle]
  BY DEF Wash
<1>3. e \in SellerTraits /\ ChainOf[s] \in Chain
  BY Traits DEF NightTyped
<1> HIDE DEF e, w
<1>4. SellerScore(e, w) \in 0..100
  BY <1>1, <1>3, ScoreIsNumber DEF e
<1>5. SellerLetter(SellerScore(e, w), e, w) \in Letters \cup {NoGrade}
  BY <1>1, ConductDecides
<1>6. Flagged(w) \in BOOLEAN
  BY DEF Flagged
<1>7. w \in [fr : 0..100 \cup {NoValue}, recip : BOOLEAN, nightly : BOOLEAN,
             history : BOOLEAN, cycle : BOOLEAN]
  BY <1>1, <1>2
<1>8. SignalDate(ChainOf[s]) \in 0..MaxNight /\ CycleDate \in 0..MaxNight
  <2>1. SignalDate(ChainOf[s]) \in 0..night /\ CycleDate \in 0..night
    BY <1>3, NewestScans
  <2>2. night \in Nat /\ night \in 0..MaxNight /\ MaxNight \in Nat
    BY NightIsNat, OrdersTyped DEF NightTyped
  <2> QED
    BY <2>1, <2>2
<1>9. Scored(s) = [score |-> SellerScore(e, w),
                   grade |-> SellerLetter(SellerScore(e, w), e, w),
                   prov |-> night < MatureDays,
                   flags |-> Flagged(w),
                   wash |-> w,
                   live |-> [signals |-> SignalDate(ChainOf[s]), cycles |-> CycleDate]]
  BY DEF Scored, e, w
<1>10. (night < MatureDays) \in BOOLEAN
  OBVIOUS
<1>11. [signals |-> SignalDate(ChainOf[s]), cycles |-> CycleDate]
          \in [signals : 0..MaxNight, cycles : 0..MaxNight]
  BY <1>8
<1> QED
  BY <1>4, <1>5, <1>6, <1>7, <1>9, <1>10, <1>11 DEF ScoreRow

\* The kinds of the other variables stay.
LEMMA CleanTypedKept ==
    ASSUME NightTyped, EvidenceTrue, CleanTyped, [Next]_vars PROVE CleanTyped'
<1>1. recipOk' \in BOOLEAN /\ conc' \subseteq Seller /\ concOk' \in BOOLEAN
  <2>1. CASE Concentration
    BY <2>1 DEF Concentration, Merchants, On, CleanTyped
  <2>2. CASE ~Concentration
    BY <2>2 DEF Next, vars, runVars, CleanTyped, StartNight, Reciprocal, Cycles, CyclesFail, Lookback,
                LookbackEscapes, ConcentrationFails, Clean, CleanFails, Scores, ScoresFail
  <2> QED
    BY <2>1, <2>2
<1>2. \A n \in Night, s \in Seller : scores'[n][s] \in ScoreRow \cup {NoRow}
  <2> SUFFICES ASSUME NEW n \in Night, NEW s \in Seller PROVE scores'[n][s] \in ScoreRow \cup {NoRow}
    OBVIOUS
  <2>1. CASE scores'[n][s] = scores[n][s]
    BY <2>1 DEF CleanTyped
  <2>2. CASE stage = "scores" /\ pop.sellers[s].tx > 0 /\ scores'[n][s] = Scored(s)
    BY <2>2, InWork, ScoredIsRow
  <2> QED
    BY <2>1, <2>2, ScoresWritten
<1> QED
  BY <1>1, <1>2, TodoKept, CleanWritten DEF CleanTyped

\* Before the first night nothing is counted.
LEMMA CleanStarts == Init => CleanInv
<1> SUFFICES ASSUME Init PROVE CleanInv
  OBVIOUS
<1>1. /\ stage = "idle" /\ todo = <<>> /\ recipOk = TRUE /\ conc = {} /\ concOk = TRUE /\ failed = {}
      /\ clean = [n \in Night |-> [ch \in WashChain |-> NoRow]]
      /\ scores = [n \in Night |-> [s \in Seller |-> NoRow]]
  BY DEF Init
<1>2. \A n \in Night, ch \in WashChain : clean[n][ch] = NoRow
  BY <1>1
<1>3. CleanTyped
  BY <1>1 DEF CleanTyped
<1>4. InTurn /\ RecipExact /\ FlagsExact /\ ConcExact
  BY <1>1 DEF InTurn, RecipExact, FlagsExact, ConcExact, Did
<1>5. CleanSince /\ CleanExact
  BY <1>2 DEF CleanSince, CleanExact
<1> QED
  BY <1>3, <1>4, <1>5 DEF CleanInv

\* run_wash: tonight's sections hold exactly what those of them that did not fail
\* have to find, and the clean metrics rest on that.
THEOREM CleanInvariant == Spec => []CleanInv
<1>1. Init => CleanInv
  BY CleanStarts
<1>2. WashInv /\ CleanInv /\ [Next]_vars => CleanInv'
  <2> SUFFICES ASSUME WashInv, CleanInv, [Next]_vars PROVE CleanInv'
    OBVIOUS
  <2>1. NightTyped /\ EvidenceTrue
    BY DEF WashInv
  <2>2. CleanTyped /\ InTurn /\ RecipExact /\ FlagsExact /\ ConcExact /\ CleanSince /\ CleanExact
    BY DEF CleanInv
  <2>3. CleanTyped' /\ InTurn' /\ RecipExact' /\ FlagsExact'
    BY <2>1, <2>2, CleanTypedKept, InTurnKept, RecipKept, FlagsKept
  <2>4. ConcExact' /\ CleanSince' /\ CleanExact'
    BY <2>1, <2>2, ConcKept, CleanSinceKept, CleanExactKept
  <2> QED
    BY <2>3, <2>4 DEF CleanInv
<1> QED
  BY <1>1, <1>2, WashInvariant, PTL DEF Spec

\* Every table of a nightly run holds rows of its kind: scores lie between 0 and 100,
\* and clean metrics are never less than nothing.
THEOREM TypeCorrect == Spec => []TypeOK
<1>1. WashInv /\ CleanInv => TypeOK
  <2> SUFFICES ASSUME WashInv, CleanInv PROVE TypeOK
    OBVIOUS
  <2>1. todo \in {<<>>} \cup Rests(CycleOrder) \cup Rests(WashOrder)
    <3>1. CASE stage = "cycles"
      BY <3>1 DEF CleanInv, CleanTyped
    <3>2. CASE stage \in {"lookback", "clean"}
      BY <3>2 DEF CleanInv, CleanTyped
    <3>3. CASE stage \notin {"cycles", "lookback", "clean"}
      BY <3>3 DEF CleanInv, CleanTyped
    <3> QED
      BY <3>1, <3>2, <3>3
  <2> QED
    BY <2>1 DEF TypeOK, WashInv, NightTyped, CleanInv, CleanTyped
<1> QED
  BY <1>1, WashInvariant, CleanInvariant, PTL

\* _clean_metrics: the settlements of merchants that no section has excluded and that
\* the seller did not pay itself, nothing subtracted twice, whichever sections fail
\* and whatever the sellers are like.
THEOREM CleanMetricsExact == Spec => []CleanExact
<1>1. CleanInv => CleanExact
  BY DEF CleanInv
<1> QED
  BY <1>1, CleanInvariant, PTL

-----------------------------------------------------------------------------
(***************************************************************************)
(* The signals.                                                            *)
(***************************************************************************)
\* What the scans of a night had to find stands once they are done, and they stay
\* done.
LEMMA ScansStand ==
    ASSUME NightTyped, CleanTyped, [Next]_vars, NEW k \in Night, Scanned(k)
    PROVE  Scanned(k)' /\ \A s \in Seller : FoundOn(k, s)' = FoundOn(k, s)
<1>0. night \in Nat /\ k \in Nat
  BY NightIsNat, OrdersTyped DEF Night
<1>1. Scanned(k)'
  <2>1. CASE StartNight
    <3>1. stage' = "recip" /\ night' = night + 1 /\ (k < night \/ k = night)
      BY <2>1 DEF StartNight, Scanned
    <3> QED
      BY <1>0, <3>1 DEF Scanned
  <2>2. CASE Clean \/ CleanFails
    BY <2>2, CleanTurn DEF Scanned
  <2>3. CASE Scores \/ ScoresFail
    BY <2>3 DEF Scores, ScoresFail, Scanned
  <2>4. CASE \/ Reciprocal \/ Cycles \/ CyclesFail \/ Lookback \/ LookbackEscapes
             \/ Concentration \/ ConcentrationFails
    <3>1. night' = night /\ stage \notin {"clean", "scores", "idle"}
      BY <2>4 DEF Reciprocal, Cycles, CyclesFail, Lookback, LookbackEscapes, Concentration,
                  ConcentrationFails
    <3> QED
      BY <3>1 DEF Scanned
  <2>5. CASE UNCHANGED vars
    BY <2>5 DEF vars, runVars, Scanned
  <2> QED
    BY <2>1, <2>2, <2>3, <2>4, <2>5 DEF Next
<1>2. k = night => stage \in {"clean", "scores", "idle"}
  <2>1. k < night \/ (k = night /\ stage \in {"clean", "scores", "idle"})
    BY DEF Scanned
  <2> QED
    BY <1>0, <2>1
<1>3. ASSUME NEW sec \in {"recip", "cycles", "lookback", "gave up", "conc"}, NEW x
      PROVE  <<k, sec, x>> \in failed' <=> <<k, sec, x>> \in failed
  <2> SUFFICES ASSUME <<k, sec, x>> \in failed', <<k, sec, x>> \notin failed PROVE FALSE
    BY SettlementsStand
  <2>1. k = night
    <3> DEFINE f == <<k, sec, x>>
    <3>1. f \in failed' /\ f \notin failed /\ f[1] = k
      OBVIOUS
    <3> HIDE DEF f
    <3> QED
      BY <3>1, Tags
  <2>2. stage \in {"clean", "scores", "idle"}
    BY <1>2, <2>1
  <2>3. ~Reciprocal /\ ~CyclesFail /\ ~Lookback /\ ~LookbackEscapes /\ ~ConcentrationFails
    BY <2>2 DEF Reciprocal, CyclesFail, Lookback, LookbackEscapes, ConcentrationFails
  <2> QED
    BY <2>3, Tags
<1>4. pop' = pop
  BY SettlementsStand
<1>5. ASSUME NEW s \in Seller PROVE FoundOn(k, s)' = FoundOn(k, s)
  <2>1. (Concentrated(k)' <=> Concentrated(k)) /\ (Looked(k, ChainOf[s])' <=> Looked(k, ChainOf[s]))
    BY <1>3 DEF Concentrated, Looked
  <2>2. LookedUp(k, s)' = LookedUp(k, s)
    BY <1>3, <1>4 DEF LookedUp
  <2> QED
    BY <1>4, <2>1, <2>2 DEF FoundOn
<1> QED
  BY <1>1, <1>5

\* What the lookback has to find of a seller stands behind the cycle pass, but for
\* the top sellers of the chain in work.
LEMMA LookedUpStands ==
    ASSUME [Next]_vars, Did("cycles"), NEW s \in Seller,
           Lookback => s \notin TopSellers(Head(todo))
    PROVE  night' = night /\ LookedUp(night, s)' = LookedUp(night, s)
<1>1. night' = night /\ Did("recip")
  BY BehindThem DEF Did
<1>2. pop' = pop
  BY SettlementsStand
<1>3. ~CyclesFail
  BY DEF Did, CyclesFail
<1>4. <<night, "gave up", s>> \in failed' <=> <<night, "gave up", s>> \in failed
  <2>1. ASSUME <<night, "gave up", s>> \in failed', <<night, "gave up", s>> \notin failed PROVE FALSE
    BY <2>1, Tags
  <2> QED
    BY <2>1, SettlementsStand
<1>5. /\ <<night, "recip", NoValue>> \in failed' <=> <<night, "recip", NoValue>> \in failed
      /\ <<night, "cycles", ChainOf[s]>> \in failed' <=> <<night, "cycles", ChainOf[s]>> \in failed
  BY <1>1, <1>3, FailuresStand
<1> QED
  BY <1>1, <1>2, <1>4, <1>5 DEF LookedUp

\* The rows that the lookback writes are what it has to find.
LEMMA LookbackFinds ==
    ASSUME NightTyped, CleanTyped, InTurn, RecipExact, FlagsExact, [Next]_vars, Lookback,
           NEW s \in TopSellers(Head(todo))
    PROVE  signals'[night][s] = LookedUp(night, s)'
<1> DEFINE ch == Head(todo)
           e == pop.sellers[s]
<1>1. PICK gaveUp \in SUBSET TopSellers(ch) :
        /\ failed' = failed \cup {<<night, "gave up", t>> : t \in gaveUp}
        /\ \A t \in TopSellers(ch) : signals'[night][t] =
             [fr |-> Funded(t, gaveUp), recip |-> t \in recip, flagged |-> IsFlagged(t, gaveUp)]
  BY LookbackRows
<1>2. /\ stage = "lookback" /\ night' = night /\ ch \in WashChain /\ ch \in Ahead
      /\ Did("recip") /\ pop' = pop
  BY LookbackTurn, SettlementsStand DEF Did
<1>3. s \in Seller /\ s \in On(ch) /\ ChainOf[s] = ch /\ e \in SellerTraits
  <2>1. s \in Seller /\ s \in On(ch) /\ ChainOf[s] = ch
    BY DEF TopSellers, Merchants, On
  <2> QED
    BY <2>1, Traits DEF NightTyped
<1>4. <<night, "gave up", s>> \in failed' <=> s \in gaveUp
  <2>1. <<night, "gave up", s>> \notin failed
    <3> SUFFICES ASSUME NEW f \in failed, f = <<night, "gave up", s>> PROVE FALSE
      OBVIOUS
    <3>1. f[1] = night /\ f[2] = "gave up" /\ f[3] = s
      OBVIOUS
    <3> QED
      BY <1>2, <1>3, <3>1 DEF InTurn
  <2> QED
    BY <1>1, <2>1
<1>5. /\ <<night, "recip", NoValue>> \in failed' <=> <<night, "recip", NoValue>> \in failed
      /\ <<night, "cycles", ch>> \in failed' <=> <<night, "cycles", ch>> \in failed
  <2>1. ~CyclesFail
    BY <1>2 DEF CyclesFail
  <2> QED
    BY <1>2, <2>1, FailuresStand
<1> DEFINE mutual == e.recip /\ <<night, "recip", NoValue>> \notin failed
           ringed == e.ring /\ <<night, "cycles", ch>> \notin failed
           fr == IF <<night, "gave up", s>> \in failed' THEN NoValue ELSE e.fr
           flag == \/ SelfRatio(e) > SelfThresh
                   \/ fr # NoValue /\ fr > FundedThresh
                   \/ mutual \/ e.batch \/ ringed
<1>6. s \in recip <=> mutual
  BY <1>2, <1>3 DEF RecipExact
<1>7. s \in flagged[ch] <=> e.batch \/ ringed
  <2>1. Been("cycles", ch) /\ ~Been("lookback", ch)
    BY <1>2 DEF Been, Did
  <2> QED
    BY <1>2, <1>3, <2>1 DEF FlagsExact
<1>8. Funded(s, gaveUp) = fr
  BY <1>4 DEF Funded
<1>9. LookedUp(night, s)' = [fr |-> fr, recip |-> mutual, flagged |-> flag]
  BY <1>2, <1>3, <1>5 DEF LookedUp
<1>10. mutual \in BOOLEAN /\ flag \in BOOLEAN /\ IsFlagged(s, gaveUp) \in BOOLEAN
  BY <1>3 DEF SellerTraits, IsFlagged
<1>11. IsFlagged(s, gaveUp) <=> flag
  <2> HIDE DEF mutual, ringed, fr, e
  <2> QED
    BY <1>3, <1>6, <1>7, <1>8 DEF IsFlagged, e
<1> HIDE DEF mutual, flag, fr
<1>12. (s \in recip) = mutual /\ IsFlagged(s, gaveUp) = flag
  BY <1>6, <1>10, <1>11
<1> QED
  BY <1>1, <1>8, <1>9, <1>12

\* A row that the lookback or the concentration scan writes is a row.
LEMMA LookedUpIsRow ==
    ASSUME NightTyped, NEW k, NEW s \in Seller
    PROVE  LookedUp(k, s) # NoRow
<1> DEFINE row == LookedUp(k, s)
<1>1. pop.sellers[s] \in SellerTraits
  BY Traits DEF NightTyped
<1>2. row.fr \in 0..100 \cup {NoValue} /\ row.recip \in BOOLEAN /\ row.flagged \in BOOLEAN
  BY <1>1 DEF LookedUp, SellerTraits
<1>3. row = [fr |-> row.fr, recip |-> row.recip, flagged |-> row.flagged]
  BY DEF LookedUp
<1> HIDE DEF row
<1>4. row \in SignalRow
  BY <1>2, <1>3 DEF SignalRow
<1> QED
  BY <1>4, WashAssumption DEF row

\* Tonight's rows are those of the chains that the lookback has been to.
LEMMA TonightLooked ==
    ASSUME NightTyped, CleanTyped, InTurn, RecipExact, FlagsExact, SignalsExact, [Next]_vars,
           stage' \in {"lookback", "conc"}, NEW s \in Seller
    PROVE  signals'[night'][s] =
             IF ChainOf[s] \in WashChain \ Ahead' /\ pop'.sellers[s].merchant /\ pop'.sellers[s].big
             THEN LookedUp(night, s)' ELSE NoRow
<1>1. pop' = pop
  BY SettlementsStand
<1> DEFINE top == pop.sellers[s].merchant /\ pop.sellers[s].big
<1>2. CASE Cycles \/ CyclesFail
  <2>1. stage = "cycles" /\ night' = night /\ stage' = "lookback" /\ Ahead' = WashChain
    BY <1>2, CycleTurn
  <2>2. signals' = signals /\ night \in Night
    BY <1>2, <2>1, InWork DEF Cycles, CyclesFail, tables
  <2>3. signals[night][s] = NoRow
    BY <2>1, <2>2 DEF SignalsExact
  <2> QED
    BY <2>1, <2>2, <2>3
<1>3. CASE Lookback
  <2> DEFINE ch == Head(todo)
  <2>1. /\ stage = "lookback" /\ night' = night /\ ch \in WashChain /\ ch \in Ahead
        /\ Ahead' = Ahead \ {ch}
    <3>1. \/ Ahead = Ahead' \cup {ch} /\ ch \notin Ahead'
          \/ todo' = <<>> /\ Ahead = {ch}
      BY <1>3, LookbackTurn
    <3>2. todo' = <<>> => Ahead' = {}
      BY DEF Ahead
    <3> QED
      BY <1>3, <3>1, <3>2, LookbackTurn
  <2>2. signals[night][s] =
          IF ChainOf[s] \in WashChain \ Ahead /\ top THEN LookedUp(night, s) ELSE NoRow
    BY <2>1 DEF SignalsExact
  <2>3. s \in TopSellers(ch) <=> ChainOf[s] = ch /\ top
    BY DEF TopSellers, Merchants, On
  <2> HIDE DEF ch
  <2>4. CASE s \in TopSellers(ch)
    <3>1. signals'[night][s] = LookedUp(night, s)'
      BY <1>3, <2>4, LookbackFinds DEF ch
    <3> QED
      BY <1>1, <2>1, <2>3, <2>4, <3>1
  <2>5. CASE s \notin TopSellers(ch)
    <3>1. signals'[night][s] = signals[night][s]
      BY <1>3, <2>5, LookbackRows DEF ch
    <3>2. LookedUp(night, s)' = LookedUp(night, s)
      BY <2>1, <2>5, LookedUpStands DEF Did, ch
    <3>3. top /\ ChainOf[s] \in WashChain \ Ahead' => ChainOf[s] \notin Ahead
      BY <2>1, <2>3, <2>5
    <3> QED
      BY <1>1, <2>1, <2>2, <3>1, <3>2, <3>3
  <2> QED
    BY <2>4, <2>5
<1>4. CASE UNCHANGED vars
  <2>1. UNCHANGED <<pop, stage, todo, night, signals, failed>>
    BY <1>4 DEF vars, runVars, tables
  <2>2. Ahead' = Ahead /\ LookedUp(night, s)' = LookedUp(night, s)
    BY <2>1 DEF Ahead, LookedUp
  <2> QED
    BY <2>1, <2>2 DEF SignalsExact
<1>5. Cycles \/ CyclesFail \/ Lookback \/ UNCHANGED vars
  BY CleanTurn DEF Next, StartNight, Reciprocal, LookbackEscapes, Concentration, ConcentrationFails,
                   Scores, ScoresFail
<1> QED
  BY <1>2, <1>3, <1>4, <1>5

\* What the failures of the night leave of its lookback and concentration scan.
LEMMA ScansTonight ==
    ASSUME NightTyped, CleanTyped, InTurn, [Next]_vars,
           LookbackEscapes \/ Concentration \/ ConcentrationFails
    PROVE  /\ Concentrated(night)' <=> Concentration
           /\ \A ch : Looked(night, ch)' <=> ch \in WashChain \ Ahead
<1>1. /\ night' = night /\ stage \in {"lookback", "conc"}
      /\ DOMAIN WashOrder = 1..Len(WashOrder) /\ Len(WashOrder) \in Nat
      /\ WashChain = {WashOrder[i] : i \in DOMAIN WashOrder}
  BY OrdersTyped, OrdersCover DEF LookbackEscapes, Concentration, ConcentrationFails
<1>2. \A x : <<night, "lookback", x>> \notin failed /\ <<night, "conc", x>> \notin failed
  <2> SUFFICES ASSUME NEW x, NEW f \in failed,
                      f \in {<<night, "lookback", x>>, <<night, "conc", x>>}
               PROVE  FALSE
    OBVIOUS
  <2>1. f[1] = night /\ f[2] \in {"lookback", "conc"}
    OBVIOUS
  <2> QED
    BY <1>1, <2>1 DEF InTurn
<1>3. CASE LookbackEscapes
  <2>1. stage = "lookback" /\ todo \in Rests(WashOrder)
        /\ failed' = failed \cup {<<night, "lookback", Head(todo)>>}
    BY <1>3 DEF LookbackEscapes, Fails, CleanTyped
  <2>2. PICK p \in DOMAIN WashOrder :
          Head(todo) = WashOrder[p] /\ \A j \in DOMAIN WashOrder : WashOrder[j] \in Ahead <=> j >= p
    BY <2>1, OrdersTyped, InPlace
  <2>3. ~Concentrated(night)' /\ ~Concentration
    BY <1>1, <1>3, <2>1, <2>2 DEF Concentrated, LookbackEscapes, Concentration
  <2>4. \A j \in DOMAIN WashOrder : <<night, "lookback", WashOrder[j]>> \in failed' <=> j = p
    BY <1>2, <2>1, <2>2, OrdersTyped
  <2>5. ASSUME NEW ch PROVE Looked(night, ch)' <=> ch \in WashChain \ Ahead
    <3>1. ASSUME Looked(night, ch)' PROVE ch \in WashChain \ Ahead
      <4>1. PICK i \in DOMAIN WashOrder :
              WashOrder[i] = ch /\ \A j \in 1..i : <<night, "lookback", WashOrder[j]>> \notin failed'
        BY <1>1, <3>1 DEF Looked
      <4>2. p \notin 1..i
        BY <2>4, <4>1
      <4>3. ~(i >= p)
        BY <1>1, <4>2
      <4> QED
        BY <1>1, <2>2, <4>1, <4>3
    <3>2. ASSUME ch \in WashChain \ Ahead PROVE Looked(night, ch)'
      <4>1. PICK i \in DOMAIN WashOrder : WashOrder[i] = ch
        BY <1>1, <3>2
      <4>2. ~(i >= p)
        BY <2>2, <3>2, <4>1
      <4>3. \A j \in 1..i : j \in DOMAIN WashOrder /\ j # p
        BY <1>1, <4>2
      <4>4. \A j \in 1..i : <<night', "lookback", WashOrder[j]>> \notin failed'
        BY <1>1, <2>4, <4>3
      <4> QED
        BY <4>1, <4>4 DEF Looked
    <3> QED
      BY <3>1, <3>2
  <2> QED
    BY <2>3, <2>5
<1>4. CASE Concentration \/ ConcentrationFails
  <2>1. /\ stage = "conc" /\ todo = <<>>
        /\ \/ Concentration /\ failed' = failed
           \/ ~Concentration /\ failed' = failed \cup {<<night, "conc", NoValue>>}
    <3>1. ConcentrationFails => concOk' = FALSE /\ failed' = failed \cup {<<night, "conc", NoValue>>}
      BY DEF ConcentrationFails, Fails
    <3>2. Concentration => concOk' = TRUE /\ failed' = failed
      BY DEF Concentration
    <3>3. stage = "conc"
      BY <1>4 DEF Concentration, ConcentrationFails
    <3>4. todo = <<>>
      BY <3>3 DEF CleanTyped
    <3> QED
      BY <1>4, <3>1, <3>2, <3>3, <3>4
  <2>2. Ahead = {}
    BY <2>1 DEF Ahead
  <2>3. \A x : <<night, "lookback", x>> \notin failed'
    <3> SUFFICES ASSUME NEW x, NEW f \in failed', f = <<night, "lookback", x>> PROVE FALSE
      OBVIOUS
    <3>1. f[2] = "lookback" /\ f \notin failed
      BY <1>2
    <3>2. f[2] = "conc"
      BY <2>1, <3>1
    <3> QED
      BY <3>1, <3>2
  <2>4. <<night, "conc", NoValue>> \in failed' <=> ~Concentration
    BY <1>2, <2>1
  <2>5. Concentrated(night)' <=> Concentration
    BY <1>1, <2>3, <2>4 DEF Concentrated
  <2>6. \A ch : Looked(night, ch)' <=> ch \in WashChain
    BY <1>1, <2>3 DEF Looked
  <2> QED
    BY <2>2, <2>5, <2>6
<1> QED
  BY <1>3, <1>4

\* The scans that end tonight leave in the table what they had to find.
LEMMA ScansEnd ==
    ASSUME NightTyped, CleanTyped, InTurn, SignalsExact, [Next]_vars,
           LookbackEscapes \/ Concentration \/ ConcentrationFails, NEW s \in Seller
    PROVE  night' = night /\ signals'[night][s] = FoundOn(night, s)'
<1> DEFINE scoped == ChainOf[s] \in WashChain /\ pop.sellers[s].merchant
           single == [fr |-> NoValue, recip |-> FALSE, flagged |-> TRUE]
<1>1. night' = night /\ pop' = pop /\ stage \in {"lookback", "conc"}
  BY SettlementsStand DEF LookbackEscapes, Concentration, ConcentrationFails
<1>2. (Concentrated(night)' <=> Concentration) /\ (Looked(night, ChainOf[s])' <=> ChainOf[s] \in WashChain \ Ahead)
  BY ScansTonight
<1>3. LookedUp(night, s)' = LookedUp(night, s)
  <2>1. ~Lookback
    <3>1. Lookback => stage = "lookback" /\ stage' \in {"lookback", "conc"}
      BY DEF Lookback, Advance
    <3> QED
      BY <3>1 DEF LookbackEscapes, Concentration, ConcentrationFails
  <2> QED
    BY <1>1, <2>1, LookedUpStands DEF Did
<1>4. FoundOn(night, s)' = IF scoped /\ pop.sellers[s].conc /\ Concentration THEN single
                           ELSE IF scoped /\ pop.sellers[s].big /\ ChainOf[s] \in WashChain \ Ahead
                                THEN LookedUp(night, s) ELSE NoRow
  BY <1>1, <1>2, <1>3 DEF FoundOn
<1>5. signals[night][s] = IF /\ ChainOf[s] \in WashChain \ Ahead
                             /\ pop.sellers[s].merchant /\ pop.sellers[s].big
                          THEN LookedUp(night, s) ELSE NoRow
  BY <1>1 DEF SignalsExact
<1>6. signals'[night][s] = IF scoped /\ pop.sellers[s].conc /\ Concentration THEN single
                           ELSE signals[night][s]
  <2>1. CASE Concentration
    BY <2>1, ConcentrationRows
  <2>2. CASE ~Concentration
    <3>1. signals' = signals
      BY <2>2 DEF LookbackEscapes, ConcentrationFails, tables
    <3> QED
      BY <2>2, <3>1
  <2> QED
    BY <2>1, <2>2
<1> HIDE DEF single
<1> QED
  BY <1>1, <1>4, <1>5, <1>6

\* The rows of a night whose scans are done stay, and no later night has any yet.
LEMMA RowsStand ==
    ASSUME NightTyped, CleanTyped, [Next]_vars, NEW k \in Night
    PROVE  /\ Scanned(k) => signals'[k] = signals[k]
           /\ ~Scanned(k) /\ Scanned(k)' =>
                k = night /\ (LookbackEscapes \/ Concentration \/ ConcentrationFails)
           /\ k > night' \/ (k = night' /\ stage' \in {"recip", "cycles"}) =>
                /\ signals'[k] = signals[k]
                /\ k > night \/ (k = night /\ stage \in {"recip", "cycles"})
<1>0. night \in Nat /\ k \in Nat
  BY NightIsNat, OrdersTyped DEF Night
<1>1. CASE StartNight
  <2>1. stage = "idle" /\ stage' = "recip" /\ night' = night + 1 /\ signals' = signals
    BY <1>1 DEF StartNight, tables
  <2> QED
    BY <1>0, <2>1 DEF Scanned
<1>2. CASE Reciprocal
  <2>1. stage = "recip" /\ stage' = "cycles" /\ night' = night /\ signals' = signals
    BY <1>2 DEF Reciprocal, tables
  <2> QED
    BY <1>0, <2>1 DEF Scanned
<1>3. CASE Cycles \/ CyclesFail
  <2>1. stage = "cycles" /\ stage' \in {"cycles", "lookback"} /\ night' = night
    BY <1>3, CycleTurn
  <2>2. signals' = signals
    BY <1>3 DEF Cycles, CyclesFail, tables
  <2> QED
    BY <1>0, <2>1, <2>2 DEF Scanned
<1>4. CASE Lookback
  <2>1. stage = "lookback" /\ stage' \in {"lookback", "conc"} /\ night' = night
    BY <1>4, LookbackTurn
  <2>2. k # night => signals'[k] = signals[k]
    BY <1>4, LookbackRows
  <2> QED
    BY <1>0, <2>1, <2>2 DEF Scanned
<1>5. CASE LookbackEscapes \/ Concentration \/ ConcentrationFails
  <2>1. stage \in {"lookback", "conc"} /\ stage' \in {"clean", "scores"} /\ night' = night
    BY <1>5 DEF LookbackEscapes, Concentration, ConcentrationFails
  <2>2. k # night => signals'[k] = signals[k]
    <3>1. CASE Concentration
      BY <3>1, ConcentrationRows
    <3>2. CASE LookbackEscapes \/ ConcentrationFails
      BY <3>2 DEF LookbackEscapes, ConcentrationFails, tables
    <3> QED
      BY <1>5, <3>1, <3>2
  <2> QED
    BY <1>0, <1>5, <2>1, <2>2 DEF Scanned
<1>6. CASE Clean \/ CleanFails \/ Scores \/ ScoresFail
  <2>1. /\ stage \in {"clean", "scores"} /\ stage' \in {"clean", "scores", "idle"}
        /\ night' = night /\ signals' = signals
    BY <1>6, CleanTurn DEF Clean, CleanFails, Scores, ScoresFail, tables
  <2> QED
    BY <1>0, <2>1 DEF Scanned
<1>7. CASE UNCHANGED vars
  <2>1. UNCHANGED <<stage, night, signals>>
    BY <1>7 DEF vars, runVars, tables
  <2> QED
    BY <2>1 DEF Scanned
<1> QED
  BY <1>1, <1>2, <1>3, <1>4, <1>5, <1>6, <1>7 DEF Next

\* The table of signals holds what the scans had to find.
LEMMA SignalsKept ==
    ASSUME NightTyped, CleanTyped, InTurn, RecipExact, FlagsExact, SignalsExact, [Next]_vars
    PROVE  SignalsExact'
<1>1. ASSUME NEW k \in Night, NEW s \in Seller,
             k > night' \/ (k = night' /\ stage' \in {"recip", "cycles"})
      PROVE  signals'[k][s] = NoRow
  BY <1>1, RowsStand DEF SignalsExact
<1>2. ASSUME stage' \in {"lookback", "conc"}, NEW s \in Seller
      PROVE  signals'[night'][s] =
               IF ChainOf[s] \in WashChain \ Ahead' /\ pop'.sellers[s].merchant /\ pop'.sellers[s].big
               THEN LookedUp(night, s)' ELSE NoRow
  <2>1. night' = night
    BY <1>2, BehindThem DEF Did
  <2> QED
    BY <1>2, <2>1, TonightLooked
<1>3. ASSUME NEW k \in Night, NEW s \in Seller, Scanned(k)'
      PROVE  signals'[k][s] = FoundOn(k, s)'
  <2>1. CASE Scanned(k)
    BY <2>1, RowsStand, ScansStand DEF SignalsExact
  <2>2. CASE ~Scanned(k)
    <3>1. k = night /\ (LookbackEscapes \/ Concentration \/ ConcentrationFails)
      BY <1>3, <2>2, RowsStand
    <3>2. night' = night /\ signals'[night][s] = FoundOn(night, s)'
      BY <3>1, ScansEnd
    <3> QED
      BY <3>1, <3>2 DEF FoundOn, LookedUp, Looked, Concentrated
  <2> QED
    BY <2>1, <2>2
<1> QED
  BY <1>1, <1>2, <1>3 DEF SignalsExact

\* Behind the scans of a night, those of the nights before it are done too, and
\* their dates stand.
LEMMA DatesStand ==
    ASSUME NightTyped, CleanTyped, [Next]_vars, NEW n \in Night, Scanned(n), NEW ch \in Chain
    PROVE  /\ \A k \in 1..n : k \in Night /\ Scanned(k)
           /\ FoundDate(n, ch) \in 0..n
           /\ FoundDate(n, ch)' = FoundDate(n, ch)
<1>0. night \in Nat /\ n \in Nat /\ MaxNight \in Nat /\ Night = 1..MaxNight
  BY NightIsNat, OrdersTyped DEF Night
<1>1. ASSUME NEW k \in 1..n PROVE k \in Night /\ Scanned(k)
  <2>1. k \in Night /\ k <= n
    BY <1>0
  <2>2. n < night \/ n = night
    BY DEF Scanned
  <2>3. k < night \/ k = n
    BY <1>0, <2>1, <2>2
  <2> QED
    BY <2>1, <2>3 DEF Scanned
<1> DEFINE S == {k \in 1..n : \E t \in On(ch) : FoundOn(k, t) # NoRow}
<1>2. FoundDate(n, ch) = Last(S) /\ S \in SUBSET (1..n)
  BY DEF FoundDate
<1>3. Last(S) \in 0..n
  <2>1. S = {} => Last(S) = 0
    BY DEF Last
  <2>2. S # {} => Last(S) \in S
    BY <1>0, LastIsNewest
  <2>3. S # {} => Last(S) \in 1..n
    BY <1>2, <2>2, Zenon
  <2>4. 0 \in 0..n /\ 1..n \subseteq 0..n
    BY <1>0
  <2> QED
    BY <2>1, <2>3, <2>4, Zenon
<1>4. \A k \in 1..n : \A t \in On(ch) : FoundOn(k, t)' = FoundOn(k, t)
  BY <1>1, ScansStand DEF On
<1>5. FoundDate(n, ch)' = FoundDate(n, ch)
  <2>1. S' = S
    BY <1>4 DEF On
  <2>2. FoundDate(n, ch)' = Last(S')
    BY DEF FoundDate
  <2> HIDE DEF S
  <2> QED
    BY <1>2, <2>1, <2>2 DEF Last
<1> QED
  BY <1>1, <1>2, <1>3, <1>5

\* A score row is written behind the scans of its night.
LEMMA ScoredSinceKept ==
    ASSUME NightTyped, CleanTyped, ScoredSince, [Next]_vars PROVE ScoredSince'
<1> SUFFICES ASSUME NEW n \in Night, NEW s \in Seller, scores'[n][s] # NoRow PROVE Scanned(n)'
  BY DEF ScoredSince
<1>1. CASE scores'[n][s] = scores[n][s]
  BY <1>1, ScansStand DEF ScoredSince
<1>2. CASE stage = "scores" /\ n = night
  <2>1. Scanned(n)
    BY <1>2 DEF Scanned
  <2> QED
    BY <2>1, ScansStand
<1> QED
  BY <1>1, <1>2, ScoresWritten

\* A row rests on the newest scan of its chain, and goes on resting on it.
LEMMA OfRecordKept ==
    ASSUME NightTyped, EvidenceTrue, CleanTyped, SignalsExact, ScoredSince, SignalsOfRecord, [Next]_vars
    PROVE  SignalsOfRecord'
<1> DEFINE RestsOn(row, found) ==
             IF found = NoRow
             THEN row.wash.fr = NoValue /\ ~row.wash.recip /\ ~row.wash.nightly
             ELSE /\ row.wash.fr = found.fr /\ row.wash.recip = found.recip
                  /\ row.wash.nightly = found.flagged
           Found(n, s) == IF FoundDate(n, ChainOf[s]) = 0 THEN NoRow
                          ELSE FoundOn(FoundDate(n, ChainOf[s]), s)
<1>1. SUFFICES ASSUME NEW n \in Night, NEW s \in Seller, scores'[n][s] # NoRow
               PROVE  /\ scores'[n][s].live.signals = FoundDate(n, ChainOf[s])'
                      /\ RestsOn(scores'[n][s], Found(n, s)')
  BY DEF SignalsOfRecord
<1>2. ChainOf[s] \in Chain
  BY OrdersTyped
<1>3. ASSUME Scanned(n)
      PROVE  FoundDate(n, ChainOf[s])' = FoundDate(n, ChainOf[s]) /\ Found(n, s)' = Found(n, s)
  <2>1. /\ FoundDate(n, ChainOf[s])' = FoundDate(n, ChainOf[s])
        /\ FoundDate(n, ChainOf[s]) \in 0..n
        /\ \A k \in 1..n : k \in Night /\ Scanned(k)
    BY <1>2, <1>3, DatesStand
  <2> DEFINE d == FoundDate(n, ChainOf[s])
  <2>2. d # 0 => d \in 1..n
    <3>1. n \in Nat
      BY OrdersTyped DEF Night
    <3> HIDE DEF d
    <3>2. d \in 0..n
      BY <2>1 DEF d
    <3> QED
      BY <3>1, <3>2
  <2>3. d # 0 => FoundOn(d, s)' = FoundOn(d, s)
    BY <2>1, <2>2, ScansStand
  <2>4. d' = d
    BY <2>1
  <2>5. Found(n, s)' = IF d = 0 THEN NoRow ELSE FoundOn(d, s)'
    BY <2>4 DEF FoundOn, LookedUp, Looked, Concentrated
  <2> QED
    BY <2>1, <2>3, <2>5
<1>4. CASE scores'[n][s] = scores[n][s]
  <2>1. Scanned(n)
    BY <1>1, <1>4 DEF ScoredSince
  <2>2. scores[n][s].live.signals = FoundDate(n, ChainOf[s]) /\ RestsOn(scores[n][s], Found(n, s))
    BY <1>1, <1>4 DEF SignalsOfRecord
  <2> HIDE DEF RestsOn, Found
  <2> QED
    BY <1>3, <1>4, <2>1, <2>2
<1>5. CASE /\ stage = "scores" /\ n = night /\ scores'[n][s] = Scored(s)
  <2>1. Scanned(n)
    BY <1>5 DEF Scanned
  <2>2. \A k \in 1..n : k \in Night /\ \A t \in Seller : signals[k][t] = FoundOn(k, t)
    BY <1>2, <2>1, DatesStand DEF SignalsExact
  <2>3. SignalDate(ChainOf[s]) = FoundDate(n, ChainOf[s])
    <3>1. {k \in 1..n : \E t \in On(ChainOf[s]) : signals[k][t] # NoRow} =
            {k \in 1..n : \E t \in On(ChainOf[s]) : FoundOn(k, t) # NoRow}
      BY <2>2 DEF On
    <3> QED
      BY <1>5, <3>1 DEF SignalDate, FoundDate
  <2> DEFINE d == FoundDate(n, ChainOf[s])
             row == IF d = 0 THEN NoRow ELSE signals[d][s]
  <2>4. row = Found(n, s)
    <3>1. d \in 0..n /\ n \in Nat
      BY <1>2, <2>1, DatesStand, OrdersTyped DEF Night
    <3> HIDE DEF d
    <3>2. d # 0 => d \in 1..n
      BY <3>1
    <3> QED
      BY <2>2, <3>2 DEF d
  <2>5. /\ Wash(s).fr = IF row = NoRow THEN NoValue ELSE row.fr
        /\ Wash(s).recip = IF row = NoRow THEN FALSE ELSE row.recip
        /\ Wash(s).nightly = IF row = NoRow THEN FALSE ELSE row.flagged
    BY <2>3 DEF Wash
  <2>6. Scored(s).live.signals = d /\ Scored(s).wash = Wash(s)
    BY <2>3 DEF Scored
  <2> HIDE DEF row
  <2>7. RestsOn(Scored(s), row)
    BY <2>5, <2>6
  <2> HIDE DEF RestsOn, Found, d
  <2> QED
    BY <1>3, <1>5, <2>1, <2>4, <2>6, <2>7 DEF d
<1> QED
  BY <1>1, <1>4, <1>5, ScoresWritten

\* run_wash and _load_wash_signals: the table of signals holds what each night's
\* scans had to find, and score rows rest on the newest of them.
THEOREM SignalsInvariant == Spec => []SignalsInv
<1>1. Init => SignalsInv
  <2> SUFFICES ASSUME Init PROVE SignalsInv
    OBVIOUS
  <2>1. /\ night = 0 /\ stage = "idle"
        /\ signals = [n \in Night |-> [s \in Seller |-> NoRow]]
        /\ scores = [n \in Night |-> [s \in Seller |-> NoRow]]
    BY DEF Init
  <2>2. \A n \in Night, s \in Seller : scores[n][s] = NoRow /\ signals[n][s] = NoRow
    BY <2>1
  <2>3. \A k \in Night : ~Scanned(k)
    BY <2>1, OrdersTyped DEF Scanned, Night
  <2> QED
    BY <2>1, <2>2, <2>3 DEF SignalsInv, SignalsExact, ScoredSince, SignalsOfRecord
<1>2. WashInv /\ CleanInv /\ SignalsInv /\ [Next]_vars => SignalsInv'
  <2> SUFFICES ASSUME WashInv, CleanInv, SignalsInv, [Next]_vars PROVE SignalsInv'
    OBVIOUS
  <2>1. /\ NightTyped /\ EvidenceTrue /\ CleanTyped /\ InTurn /\ RecipExact /\ FlagsExact
        /\ SignalsExact /\ ScoredSince /\ SignalsOfRecord
    BY DEF WashInv, CleanInv, SignalsInv
  <2>2. SignalsExact' /\ ScoredSince' /\ SignalsOfRecord'
    BY <2>1, SignalsKept, ScoredSinceKept, OfRecordKept
  <2> QED
    BY <2>2 DEF SignalsInv
<1> QED
  BY <1>1, <1>2, WashInvariant, CleanInvariant, PTL DEF Spec

\* _load_wash_signals: the evidence of a score row is what the newest night that
\* scanned the seller's chain had to find of it, whichever sections failed on which
\* nights, and the row is marked with that night.
THEOREM SignalsAreOfRecord == Spec => []SignalsOfRecord
<1>1. SignalsInv => SignalsOfRecord
  BY DEF SignalsInv
<1> QED
  BY <1>1, SignalsInvariant, PTL
=============================================================================
