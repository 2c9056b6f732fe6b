----------------------------- MODULE ScoreRules -----------------------------
(***************************************************************************)
(* indexer/scores.py and indexer/payer_scores.py: from the evidence about  *)
(* a seller, an endpoint or a payer to a score and a letter.               *)
(*                                                                         *)
(* Data abstraction: the accumulating components (breadth, loyalty, scale, *)
(* longevity, endpoint, domain; for payers diversity, tenure, volume and   *)
(* count) are logarithms of counts and enter as one number, points, 0-100. *)
(* Ratios are percentages and penalties are cut to whole points.           *)
(***************************************************************************)
EXTENDS Integers

CONSTANTS
    LetterMinTx, LetterMinPayers,  \* SELLER_LETTER_MIN_TX, _MIN_PAYERS
    SelfPayConduct,                \* SELF_PAY_CONDUCT, in percent
    AMin, AMinPayers, AMaxTopShare,\* SELLER_A_MIN, _MIN_PAYERS, _MAX_TOP_SHARE
    BMin, CMin,                    \* SELLER_B_MIN, SELLER_C_MIN
    FlagCap,                       \* WASH_FLAG_CAP
    MinScoreable, Confident,       \* PAYER_MIN_TX, PAYER_CONFIDENT_TX
    ExclusiveMin, ExclusiveCap,    \* EXCL_MIN_REPEAT, EXCLUSIVE_CAP
    MinLetterDays,                 \* SCORE_LETTER_DAYS
    NoGrade,                       \* grade NULL
    NoValue                        \* any other NULL

Letters == {"A", "B", "C", "D", "F"}

ASSUME RulesAssumption ==
    /\ NoGrade \notin Letters \cup {"UNKNOWN"}
    /\ NoValue \notin Int
    /\ MinScoreable \in Nat \ {0}
    /\ SelfPayConduct \in Nat \ {0}
    /\ FlagCap \in Nat /\ ExclusiveCap \in Int
    /\ Confident \in Int /\ MinLetterDays \in Int

AtMost(x, bound) == IF x > bound THEN bound ELSE x
Clamp(x) == IF x < 0 THEN 0 ELSE AtMost(x, 100)

\* _grade: the letter map of endpoints and payers.
Letter(score) ==
    CASE score >= 90 -> "A"
      [] score >= 75 -> "B"
      [] score >= 60 -> "C"
      [] score >= 40 -> "D"
      [] OTHER -> "F"

-----------------------------------------------------------------------------
(***************************************************************************)
(* Sellers.  s is the snapshot row with its joins, [tx, payers, self, top, *)
(* points, t2]; w is what the wash passes say of it, [fr, recip, nightly,  *)
(* history, cycle].                                                        *)
(***************************************************************************)
SelfRatio(s) == (100 * s.self) \div s.tx
TopShare(s) == (100 * s.top) \div s.tx
SelfPenalty(s) == AtMost((80 * s.self) \div s.tx, 40)
Flagged(w) == w.nightly \/ w.history \/ w.cycle

\* The history flag weighs only where no live signal does.
WashPenalty(w) ==
    (IF w.cycle THEN 40 ELSE 0)
    + (IF w.fr = NoValue THEN 0 ELSE AtMost(w.fr \div 2, 25))
    + (IF w.recip THEN 20 ELSE 0)
    + (IF w.history /\ ~(w.recip \/ w.nightly \/ w.cycle) THEN 15 ELSE 0)

\* The score with the cap of flagged sellers and the gate of scores from 90.
SellerScore(s, w) ==
    LET raw == Clamp(s.points - SelfPenalty(s) - WashPenalty(w))
        capped == IF Flagged(w) THEN AtMost(raw, FlagCap) ELSE raw
    IN IF capped >= 90 /\ ~s.t2 THEN 89 ELSE capped

\* Letters that conduct has earned, whatever the size of the seller.
Conduct(s, w) ==
    IF w.cycle \/ w.nightly \/ w.recip \/ SelfRatio(s) >= SelfPayConduct THEN "F"
    ELSE IF w.history THEN "D"
    ELSE NoGrade

\* Mutant of SellerLetter: the letter gate comes before conduct.
SellerLetterGateFirst(score, s, w) ==
    IF s.tx < LetterMinTx \/ s.payers < LetterMinPayers THEN NoGrade
    ELSE IF Conduct(s, w) # NoGrade THEN Conduct(s, w)
    ELSE IF score >= AMin /\ s.t2 /\ s.payers >= AMinPayers
         THEN IF TopShare(s) >= AMaxTopShare THEN "B" ELSE "A"
    ELSE IF score >= BMin THEN "B"
    ELSE IF score >= CMin THEN "C"
    ELSE "D"

\* _seller_letter: conduct, then the letter gate, then the bands.
SellerLetter(score, s, w) ==
    IF Conduct(s, w) # NoGrade THEN Conduct(s, w)
    ELSE IF s.tx < LetterMinTx \/ s.payers < LetterMinPayers THEN NoGrade
    ELSE IF score >= AMin /\ s.t2 /\ s.payers >= AMinPayers
         THEN IF TopShare(s) >= AMaxTopShare THEN "B" ELSE "A"
    ELSE IF score >= BMin THEN "B"
    ELSE IF score >= CMin THEN "C"
    ELSE "D"

-----------------------------------------------------------------------------
\* Origins: rates over observed days give the score, enough days the letter.
EndpointScore(o) == ((50 * o.up + 30 * o.valid402) \div o.days) + o.speed
EndpointLetter(o) == IF o.days < MinLetterDays THEN NoGrade ELSE Letter(EndpointScore(o))

-----------------------------------------------------------------------------
(***************************************************************************)
(* Payers.  p is [tx, sellers, self, points].                              *)
(***************************************************************************)
Exclusive(p) == p.sellers <= 1 /\ p.tx >= ExclusiveMin
Penalised(p) == Exclusive(p) \/ p.self > 0

PayerPoints(p) ==
    LET raw == Clamp(p.points - SelfPenalty(p) - (IF Exclusive(p) THEN 35 ELSE 0))
    IN IF Exclusive(p) THEN AtMost(raw, ExclusiveCap) ELSE raw

\* Mutant of PayerScore: a thin wallet is graded on its size.
PayerScoreThin(p) ==
    IF p.tx < MinScoreable
    THEN [status |-> IF p.tx <= 0 THEN "no_history" ELSE "insufficient_history",
          score |-> NoValue, grade |-> "UNKNOWN"]
    ELSE [status |-> "scored", score |-> PayerPoints(p), grade |-> Letter(PayerPoints(p))]

\* score_payer: the floor, the confidence bar, the letter floor of clean wallets.
PayerScore(p) ==
    IF p.tx < MinScoreable
    THEN [status |-> IF p.tx <= 0 THEN "no_history" ELSE "insufficient_history",
          score |-> NoValue, grade |-> "UNKNOWN"]
    ELSE IF p.tx < Confident /\ ~Penalised(p)
    THEN [status |-> "thin_history", score |-> NoValue, grade |-> "UNKNOWN"]
    ELSE LET letter == Letter(PayerPoints(p))
         IN [status |-> "scored", score |-> PayerPoints(p),
             grade |-> IF ~Penalised(p) /\ letter \in {"D", "F"} THEN "C" ELSE letter]
=============================================================================
