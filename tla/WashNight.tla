----------------------------- MODULE WashNight ------------------------------
(***************************************************************************)
(* The measuring end of a nightly run: indexer/wash.py's sections one by   *)
(* one, each of which may fail, then indexer/scores.py over what they have *)
(* written, and the answers that serving/trust_api.py reads from it.       *)
(*                                                                         *)
(* The settlements stand still over the nights, so that what changes in    *)
(* the answers comes from the sections alone.  Each seller is on one       *)
(* chain; all its settlements are in the registry's scope.                 *)
(***************************************************************************)
EXTENDS TrustRules, FiniteSets

CONSTANTS
    Seller, ChainOf,
    WashOrder,     \* WASH_CHAINS, in the order of the loops
    CycleOrder,    \* the chains of the cycle pass, in order
    Payer, Origin,
    Populations,   \* what the sellers, payers and origins may be like
    SelfThresh, FundedThresh,  \* WASH_SELF_THRESH, WASH_FUNDED_THRESH, in percent
    MatureDays,    \* SCORE_MATURE_DAYS
    MaxNight,      \* bound: nights
    MaxFail        \* bound: failures

Chain == {CycleOrder[i] : i \in DOMAIN CycleOrder}
WashChain == {WashOrder[i] : i \in DOMAIN WashOrder}
Night == 1..MaxNight
Section == {"recip", "cycles", "lookback", "gave up", "conc", "clean", "scores"}

\* What the sections look at in a seller, and the scorers in payers and origins.
\* A merchant is neither a registered relayer nor merona's own payTo; history is
\* a row of the chain's file of batch flags, batch one marked clean_exclude.  An
\* origin that is scored has been observed.
SellerTraits == [tx : Nat, payers : Nat, self : Nat, top : Nat, points : Nat, t2 : BOOLEAN,
                 fr : 0..100, recip : BOOLEAN, conc : BOOLEAN, ring : BOOLEAN,
                 history : BOOLEAN, batch : BOOLEAN, big : BOOLEAN, merchant : BOOLEAN,
                 relayer : BOOLEAN]
PayerTraits == [tx : Nat, sellers : Nat, self : Nat, points : Nat]
OriginTraits == [days : Nat \ {0}, up : Nat, valid402 : Nat, speed : Nat]

SignalRow == [fr : 0..100 \cup {NoValue}, recip : BOOLEAN, flagged : BOOLEAN]
OriginRow == [score : Int, grade : Letters \cup {NoGrade}, prov : BOOLEAN]

ASSUME WashAssumption ==
    /\ ChainOf \in [Seller -> Chain]
    /\ CycleOrder \in Seq(Chain) /\ CycleOrder # <<>>
    /\ WashOrder \in Seq(WashChain) /\ WashOrder # <<>>
    /\ \A i, j \in DOMAIN CycleOrder : CycleOrder[i] = CycleOrder[j] => i = j
    /\ \A i, j \in DOMAIN WashOrder : WashOrder[i] = WashOrder[j] => i = j
    /\ WashChain \subseteq Chain
    /\ IsFiniteSet(Seller)
    /\ MaxNight \in Nat
    /\ MatureDays \in Int
    /\ MaxFail \in Nat
    /\ \A t \in Populations :
         /\ t.sellers \in [Seller -> SellerTraits]
         /\ \A s \in Seller :
              /\ t.sellers[s].self <= t.sellers[s].tx
              /\ t.sellers[s].batch => t.sellers[s].history
              /\ t.sellers[s].relayer => ~t.sellers[s].merchant
         /\ t.payers \in [Payer -> PayerTraits]
         /\ t.origins \in [Origin -> OriginTraits]
    /\ NoRow \notin Nat
    /\ NoRow \notin SignalRow /\ NoRow \notin OriginRow
    /\ \A S \in SUBSET Seller : NoRow # S

VARIABLES
    pop,      \* the sellers, payers and origins
    night,    \* nights begun
    stage,    \* the section in work
    todo,     \* chains it has not come to
    recip, recipOk,  \* run_wash: reciprocal sellers, and whether that scan ran
    flagged,  \* run_wash: flagged sellers of each wash chain
    conc, concOk,    \* run_wash: concentrated sellers, and whether that scan ran
    signals,  \* table wash_signals: per night and seller
    cycles,   \* table wash_cycles: the flagged row per night and chain
    clean,    \* table clean_metrics: settlements per night and wash chain
    scores,   \* table seller_scores: per night and seller
    others,   \* tables payer_scores and endpoint_scores of the last scored night
    failed    \* history variable: <<night, section, seller or chain or NoValue>>

runVars == <<stage, todo, recip, recipOk, flagged, conc, concOk>>
tables == <<signals, cycles, clean, scores, others>>
vars == <<pop, night, runVars, tables, failed>>

On(ch) == {s \in Seller : ChainOf[s] = ch}

\* The sellers in scope: _excluded_sellers takes relayers and the own payTo out.
Merchants(ch) == {s \in On(ch) : pop.sellers[s].merchant}

ScoreRow == [score : 0..100, grade : Letters \cup {NoGrade}, prov : BOOLEAN, flags : BOOLEAN,
             wash : [fr : 0..100 \cup {NoValue}, recip : BOOLEAN, nightly : BOOLEAN,
                     history : BOOLEAN, cycle : BOOLEAN],
             live : [signals : 0..MaxNight, cycles : 0..MaxNight]]

\* What a section has left of the chains it goes through.
Rests(order) == {SubSeq(order, i, Len(order)) : i \in DOMAIN order}

\* Every table holds rows of its kind, scores lie between 0 and 100, and clean
\* metrics never count more than there is, or less than nothing.
TypeOK ==
    /\ pop \in Populations
    /\ night \in 0..MaxNight
    /\ stage \in Section \cup {"idle"}
    /\ todo \in {<<>>} \cup Rests(CycleOrder) \cup Rests(WashOrder)
    /\ recip \subseteq Seller
    /\ recipOk \in BOOLEAN
    /\ flagged \in [WashChain -> SUBSET Seller]
    /\ conc \subseteq Seller
    /\ concOk \in BOOLEAN
    /\ signals \in [Night -> [Seller -> SignalRow \cup {NoRow}]]
    /\ cycles \in [Night -> [Chain -> (SUBSET Seller) \cup {NoRow}]]
    /\ clean \in [Night -> [WashChain -> Nat \cup {NoRow}]]
    /\ \A n \in Night, s \in Seller : scores[n][s] \in ScoreRow \cup {NoRow}

Init ==
    /\ pop \in Populations
    /\ night = 0
    /\ stage = "idle"
    /\ todo = <<>>
    /\ recip = {} /\ recipOk = TRUE
    /\ flagged = [ch \in WashChain |-> {}]
    /\ conc = {} /\ concOk = TRUE
    /\ signals = [n \in Night |-> [s \in Seller |-> NoRow]]
    /\ cycles = [n \in Night |-> [ch \in Chain |-> NoRow]]
    /\ clean = [n \in Night |-> [ch \in WashChain |-> NoRow]]
    /\ scores = [n \in Night |-> [s \in Seller |-> NoRow]]
    /\ others = NoRow
    /\ failed = {}

-----------------------------------------------------------------------------
(***************************************************************************)
(* run_wash.                                                               *)
(***************************************************************************)
MayFail == Cardinality(failed) < MaxFail
Fails(section, what) == failed' = failed \cup {<<night, section, what>>}

\* The next chain of a section, or the next section.
Advance(next, order) ==
    IF Len(todo) > 1 THEN /\ todo' = Tail(todo)
                          /\ UNCHANGED stage
                     ELSE /\ stage' = next
                          /\ todo' = order

StartNight ==
    /\ stage = "idle"
    /\ night < MaxNight
    /\ night' = night + 1
    /\ stage' = "recip"
    /\ flagged' = [ch \in WashChain |-> {}]
    /\ UNCHANGED <<pop, todo, recip, recipOk, conc, concOk, tables, failed>>

\* Reciprocal pairs, then the batch flags with their clean_exclude marker.
Reciprocal ==
    /\ stage = "recip"
    /\ recipOk' \in BOOLEAN
    /\ IF recipOk' THEN UNCHANGED failed ELSE MayFail /\ Fails("recip", NoValue)
    /\ recip' = {s \in Seller : recipOk' /\ ChainOf[s] \in WashChain /\ pop.sellers[s].recip}
    /\ flagged' = [ch \in WashChain |-> {s \in On(ch) : pop.sellers[s].batch}]
    /\ stage' = "cycles"
    /\ todo' = CycleOrder
    /\ UNCHANGED <<pop, night, conc, concOk, tables>>

\* What detect finds on a chain.
RingOn(ch) == {s \in On(ch) : pop.sellers[s].ring}

\* detect and record on one chain; the flagged set is a row even when empty.
Cycles ==
    LET ch == Head(todo)
        ring == RingOn(ch)
    IN /\ stage = "cycles"
       /\ cycles' = [cycles EXCEPT ![night][ch] = ring]
       /\ flagged' = [c \in WashChain |-> IF c = ch THEN flagged[c] \cup ring ELSE flagged[c]]
       /\ Advance("lookback", WashOrder)
       /\ UNCHANGED <<pop, night, recip, recipOk, conc, concOk, signals, clean, scores, others,
                      failed>>

\* Isolated: rolled back, the next chain follows.
CyclesFail ==
    /\ stage = "cycles"
    /\ MayFail /\ Fails("cycles", Head(todo))
    /\ Advance("lookback", WashOrder)
    /\ UNCHANGED <<pop, night, recip, recipOk, flagged, conc, concOk, tables>>

\* The funded ratio as the lookback finds it; None when the RPC gave up.
Funded(s, gaveUp) == IF s \in gaveUp THEN NoValue ELSE pop.sellers[s].fr

IsFlagged(s, gaveUp) ==
    \/ SelfRatio(pop.sellers[s]) > SelfThresh
    \/ Funded(s, gaveUp) # NoValue /\ Funded(s, gaveUp) > FundedThresh
    \/ s \in recip
    \/ s \in flagged[ChainOf[s]]

\* The sellers whose counterparties the lookback fetches.
TopSellers(ch) == {s \in Merchants(ch) : pop.sellers[s].big}

\* One chain's top sellers, committed together; the RPC may give up on any.
Lookback ==
    LET tops == TopSellers(Head(todo))
    IN /\ stage = "lookback"
       /\ \E gaveUp \in SUBSET tops :
            /\ Cardinality(failed) + Cardinality(gaveUp) <= MaxFail
            /\ failed' = failed \cup {<<night, "gave up", s>> : s \in gaveUp}
            /\ flagged' = [flagged EXCEPT ![Head(todo)] = @ \cup {s \in tops : IsFlagged(s, gaveUp)}]
            /\ signals' = [signals EXCEPT ![night] = [s \in Seller |->
                 IF s \in tops
                 THEN [fr |-> Funded(s, gaveUp), recip |-> s \in recip, flagged |-> IsFlagged(s, gaveUp)]
                 ELSE signals[night][s]]]
       /\ Advance("conc", <<>>)
       /\ UNCHANGED <<pop, night, recip, recipOk, conc, concOk, cycles, clean, scores, others>>

\* An error in the lookback ends run_wash.
LookbackEscapes ==
    /\ stage = "lookback"
    /\ MayFail /\ Fails("lookback", Head(todo))
    /\ stage' = "scores"
    /\ todo' = <<>>
    /\ UNCHANGED <<pop, night, recip, recipOk, flagged, conc, concOk, tables>>

\* Every concentrated seller gets a row that replaces the lookback's.
Concentration ==
    /\ stage = "conc"
    /\ conc' = UNION {{s \in Merchants(ch) : pop.sellers[s].conc} : ch \in WashChain}
    /\ concOk' = TRUE
    /\ signals' = [signals EXCEPT ![night] = [s \in Seller |->
         IF s \in conc' THEN [fr |-> NoValue, recip |-> FALSE, flagged |-> TRUE]
         ELSE signals[night][s]]]
    /\ stage' = "clean"
    /\ todo' = WashOrder
    /\ UNCHANGED <<pop, night, recip, recipOk, flagged, cycles, clean, scores, others, failed>>

ConcentrationFails ==
    /\ stage = "conc"
    /\ MayFail /\ Fails("conc", NoValue)
    /\ conc' = {} /\ concOk' = FALSE
    /\ stage' = "clean"
    /\ todo' = WashOrder
    /\ UNCHANGED <<pop, night, recip, recipOk, flagged, tables>>

\* The settlements of sellers S, and those of them that a seller paid itself.
Settlements(S) == UNION {{<<s, k>> : k \in 1..pop.sellers[s].tx} : s \in S}
SelfPayments(S) == UNION {{<<s, k>> : k \in 1..pop.sellers[s].self} : s \in S}

Total(S) == Cardinality(Settlements(S))
SelfPaid(S) == Cardinality(SelfPayments(S))

\* Mutant of CleanCount: self-payments of concentrated sellers go twice.
CleanCountTwice(ch) ==
    LET out == Merchants(ch) \cap flagged[ch]
        only == IF concOk THEN (Merchants(ch) \cap conc) \ out ELSE {}
    IN Total(Merchants(ch)) - Total(out) - Total(only) - SelfPaid(Merchants(ch) \ out)

\* All, less the flagged sellers', less those of sellers that are only
\* concentrated, less the self-payments of the rest.
CleanCount(ch) ==
    LET out == Merchants(ch) \cap flagged[ch]
        only == IF concOk THEN (Merchants(ch) \cap conc) \ out ELSE {}
    IN Total(Merchants(ch)) - Total(out) - Total(only) - SelfPaid(Merchants(ch) \ (out \cup only))

Clean ==
    /\ stage = "clean"
    /\ clean' = [clean EXCEPT ![night][Head(todo)] = CleanCount(Head(todo))]
    /\ Advance("scores", <<>>)
    /\ UNCHANGED <<pop, night, recip, recipOk, flagged, conc, concOk, signals, cycles, scores,
                   others, failed>>

CleanFails ==
    /\ stage = "clean"
    /\ MayFail /\ Fails("clean", Head(todo))
    /\ Advance("scores", <<>>)
    /\ UNCHANGED <<pop, night, recip, recipOk, flagged, conc, concOk, tables>>

-----------------------------------------------------------------------------
(***************************************************************************)
(* run_scores.                                                             *)
(***************************************************************************)
Last(S) == IF S = {} THEN 0 ELSE CHOOSE n \in S : \A k \in S : k <= n

\* Mutant of SignalDate: the newest night of any chain.
SignalDateAny(ch) == Last({n \in 1..night : \E s \in Seller : signals[n][s] # NoRow})

\* _load_wash_signals: the newest night with a row on this chain.
SignalDate(ch) == Last({n \in 1..night : \E s \in On(ch) : signals[n][s] # NoRow})

\* load_flagged: the newest night with a row on any chain.
CycleDate == Last({n \in 1..night : \E ch \in Chain : cycles[n][ch] # NoRow})

InCycle(s) ==
    /\ CycleDate # 0
    /\ cycles[CycleDate][ChainOf[s]] # NoRow
    /\ s \in cycles[CycleDate][ChainOf[s]]

\* The joins of one seller.
Wash(s) ==
    LET d == SignalDate(ChainOf[s])
        row == IF d = 0 THEN NoRow ELSE signals[d][s]
    IN [fr |-> IF row = NoRow THEN NoValue ELSE row.fr,
        recip |-> IF row = NoRow THEN FALSE ELSE row.recip,
        nightly |-> IF row = NoRow THEN FALSE ELSE row.flagged,
        history |-> pop.sellers[s].history,
        cycle |-> InCycle(s)]

Scored(s) ==
    LET e == pop.sellers[s]
        w == Wash(s)
    IN [score |-> SellerScore(e, w),
        grade |-> SellerLetter(SellerScore(e, w), e, w),
        prov |-> night < MatureDays,
        flags |-> Flagged(w),
        wash |-> w,
        live |-> [signals |-> SignalDate(ChainOf[s]), cycles |-> CycleDate]]

\* compute_payer_scores and compute_endpoint_scores.
Others ==
    [payers |-> [p \in Payer |-> IF pop.payers[p].tx <= 0 THEN NoRow ELSE PayerScore(pop.payers[p])],
     origins |-> [o \in Origin |-> [score |-> EndpointScore(pop.origins[o]),
                                    grade |-> EndpointLetter(pop.origins[o]),
                                    prov |-> pop.origins[o].days < MatureDays]]]

\* The scorers of origins, sellers and payers; of the sellers, relayers alone are
\* skipped.
Scores ==
    /\ stage = "scores"
    /\ scores' = [scores EXCEPT ![night] = [s \in Seller |->
         IF ~pop.sellers[s].relayer /\ pop.sellers[s].tx > 0 THEN Scored(s) ELSE NoRow]]
    /\ others' = Others
    /\ stage' = "idle"
    /\ UNCHANGED <<pop, night, todo, recip, recipOk, flagged, conc, concOk, signals, cycles, clean,
                   failed>>

\* The seller scorer fails and is rolled back: its answers stay those of
\* before, and the other two scorers run.
ScoresFail ==
    /\ stage = "scores"
    /\ MayFail /\ Fails("scores", NoValue)
    /\ others' = Others
    /\ stage' = "idle"
    /\ UNCHANGED <<pop, night, todo, recip, recipOk, flagged, conc, concOk, signals, cycles, clean,
                   scores>>

Next ==
    \/ StartNight \/ Reciprocal \/ Cycles \/ CyclesFail
    \/ Lookback \/ LookbackEscapes \/ Concentration \/ ConcentrationFails
    \/ Clean \/ CleanFails \/ Scores \/ ScoresFail

Spec == Init /\ [][Next]_vars

-----------------------------------------------------------------------------
\* trust_lookup: the newest score row of a seller.
NewestScore(s) == Last({n \in 1..night : scores[n][s] # NoRow})
Served(s) == IF NewestScore(s) = 0 THEN NoRow ELSE scores[NewestScore(s)][s]

\* The settlements themselves: what a seller has done, as far as the sections
\* of its chain look.
Misconduct(s) ==
    LET e == pop.sellers[s]
    IN \/ e.ring \/ e.history
       \/ SelfRatio(e) >= SelfPayConduct
       \/ ChainOf[s] \in WashChain /\ e.merchant /\ e.conc
       \/ ChainOf[s] \in WashChain /\ e.merchant /\ e.big
            /\ (e.recip \/ e.batch \/ e.fr > FundedThresh \/ SelfRatio(e) > SelfThresh)

Failed(n, s) ==
    \/ \E f \in failed : f[1] = n /\ f[2] \in {"recip", "lookback", "conc"}
    \/ <<n, "cycles", ChainOf[s]>> \in failed
    \/ <<n, "gave up", s>> \in failed

\* A night on which no section that concerns a seller failed gives it a letter
\* of conduct exactly if its settlements show misconduct, however small it is.
HealthyNightIsExact ==
    \A n \in Night, s \in Seller :
        scores[n][s] # NoRow /\ ~Failed(n, s) =>
            /\ Misconduct(s) => scores[n][s].grade \in {"D", "F"}
            /\ scores[n][s].grade = "F" => Misconduct(s)

\* The lookback of night k came through chain ch, and so did the concentration
\* scan behind it.
Looked(k, ch) ==
    \E i \in DOMAIN WashOrder :
        WashOrder[i] = ch /\ \A j \in 1..i : <<k, "lookback", WashOrder[j]>> \notin failed
Concentrated(k) ==
    /\ <<k, "conc", NoValue>> \notin failed
    /\ \A ch \in WashChain : <<k, "lookback", ch>> \notin failed

\* What the lookback of night k had to find of a seller, whatever failed before it.
LookedUp(k, s) ==
    LET e == pop.sellers[s]
        fr == IF <<k, "gave up", s>> \in failed THEN NoValue ELSE e.fr
        mutual == e.recip /\ <<k, "recip", NoValue>> \notin failed
    IN [fr |-> fr, recip |-> mutual,
        flagged |-> \/ SelfRatio(e) > SelfThresh
                    \/ fr # NoValue /\ fr > FundedThresh
                    \/ mutual \/ e.batch
                    \/ e.ring /\ <<k, "cycles", ChainOf[s]>> \notin failed]

\* What night k's scans had to put on record of a seller.
FoundOn(k, s) ==
    LET e == pop.sellers[s]
        scoped == ChainOf[s] \in WashChain /\ e.merchant
    IN IF scoped /\ e.conc /\ Concentrated(k)
       THEN [fr |-> NoValue, recip |-> FALSE, flagged |-> TRUE]
       ELSE IF scoped /\ e.big /\ Looked(k, ChainOf[s]) THEN LookedUp(k, s) ELSE NoRow

\* The newest night, up to night n, whose scans had something of a chain to find.
FoundDate(n, ch) == Last({k \in 1..n : \E s \in On(ch) : FoundOn(k, s) # NoRow})

\* The signals a score rests on are what the newest night that scanned its chain
\* had to find of the seller, and that night is the one it is marked with: a
\* night that ended before the chain leaves the earlier evidence standing, and
\* neither a scan of another chain (scores.py:286) nor a row that another section
\* replaced can take its place.
SignalsOfRecord ==
    \A n \in Night, s \in Seller : scores[n][s] # NoRow =>
        LET row == scores[n][s]
            d == FoundDate(n, ChainOf[s])
            found == IF d = 0 THEN NoRow ELSE FoundOn(d, s)
        IN /\ row.live.signals = d
           /\ IF found = NoRow
              THEN row.wash.fr = NoValue /\ ~row.wash.recip /\ ~row.wash.nightly
              ELSE /\ row.wash.fr = found.fr /\ row.wash.recip = found.recip
                   /\ row.wash.nightly = found.flagged

\* What a seller's settlements are excluded for on night n: what the sections of
\* its chain that did not fail have found.
Flaggable(n, s) ==
    LET e == pop.sellers[s]
    IN \/ e.batch
       \/ e.ring /\ <<n, "cycles", ChainOf[s]>> \notin failed
       \/ e.big /\ \/ SelfRatio(e) > SelfThresh
                   \/ e.fr > FundedThresh /\ <<n, "gave up", s>> \notin failed
                   \/ e.recip /\ <<n, "recip", NoValue>> \notin failed
Excluded(n, s) ==
    Flaggable(n, s) \/ (pop.sellers[s].conc /\ <<n, "conc", NoValue>> \notin failed)

\* Clean metrics are the settlements of merchants that no section has excluded,
\* and not paid by the seller itself: nothing is subtracted twice.
CleanExact ==
    \A n \in Night, ch \in WashChain :
        clean[n][ch] # NoRow =>
            LET good == {s \in Merchants(ch) : ~Excluded(n, s)}
            IN clean[n][ch] = Cardinality(Settlements(good) \ SelfPayments(good))

\* What evaluate says of any seller with any finding and any probes: it passes
\* only a seller that the row shows no wash evidence of, and then the same
\* answer does not advise against it; it fails nobody without a recorded fact;
\* and with no evidence it is uncertain and gives no number.
GateIsSound ==
    \A s \in Seller, finding \in {NoGrade, "bare", "F"}, delivery \in {"none", "delivered", "charged"} :
        LET row == Served(s)
            a == Answer(row, finding, delivery)
            e == Evaluate(a)
        IN /\ e.decision = "PASS" =>
                /\ row # NoRow /\ finding = NoGrade /\ delivery # "charged"
                /\ ~Flagged(row.wash) /\ ~row.wash.recip
                /\ SuggestedAction(a) \in {"PROCEED", "CAUTION"}
           /\ e.decision = "FAIL" =>
                /\ e.basis # {}
                /\ delivery = "charged" \/ finding # NoGrade \/ row.grade \in {"D", "F"}
           /\ (row = NoRow \/ row.grade = NoGrade) /\ finding = NoGrade /\ delivery # "charged" =>
                e.decision = "UNCERTAIN" /\ ~e.scored

\* A payer gets D or F for structure only, a letter only with a score, and an
\* origin no letter before enough days.
NoInventedLetter ==
    others # NoRow =>
        /\ \A p \in Payer :
             LET a == AgentAnswer(others.payers[p])
             IN /\ a.grade \in {"D", "F"} => Penalised(pop.payers[p])
                /\ a.score = NoValue <=> a.grade = "UNKNOWN"
                /\ a.grade # "UNKNOWN" =>
                     pop.payers[p].tx >= Confident \/ Penalised(pop.payers[p])
        /\ \A o \in Origin :
             LET a == EndpointAnswer(others.origins[o])
             IN /\ a.tier # "unrated" => pop.origins[o].days >= MinLetterDays
                /\ a.tier = "verified" => pop.origins[o].days >= MatureDays

\* "rows now carry the evidence of their own blind spots" (scores.py:36): a
\* clean letter for misconduct that an earlier night had seen says that one of
\* its inputs is not tonight's, or that the reciprocal scan did not run.
BlindSpotsShown ==
    \A n \in Night, s \in Seller :
        LET row == scores[n][s]
        IN row # NoRow =>
             \/ row.grade \in {"D", "F"}
             \/ ~Misconduct(s)
             \/ row.live.cycles # n
             \/ row.live.signals # n
             \/ <<n, "recip", NoValue>> \in failed
-----------------------------------------------------------------------------
(***************************************************************************)
(* Why the signals, the letters and the gate are right, whatever fails.    *)
(***************************************************************************)
\* The kinds of values that the rest speaks of.
NightTyped ==
    /\ pop \in Populations
    /\ night \in 0..MaxNight
    /\ stage \in Section \cup {"idle"} /\ stage # "gave up"
    /\ stage # "idle" => night > 0
    /\ stage = "cycles" => todo \in Seq(Chain) /\ todo # <<>>
    /\ stage = "lookback" => todo \in Seq(WashChain) /\ todo # <<>>
    /\ recip \subseteq Seller
    /\ flagged \in [WashChain -> SUBSET Seller]
    /\ signals \in [Night -> [Seller -> SignalRow \cup {NoRow}]]
    /\ cycles \in [Night -> [Chain -> (SUBSET Seller) \cup {NoRow}]]
    /\ scores = [n \in Night |-> [s \in Seller |-> scores[n][s]]]

\* What a seller's letter comes down to if the lookback saw all of it.
SeenByLookback(s) ==
    \/ pop.sellers[s].recip \/ pop.sellers[s].batch
    \/ pop.sellers[s].fr > FundedThresh \/ SelfRatio(pop.sellers[s]) > SelfThresh

\* Nothing that any night has recorded is invented.
EvidenceTrue ==
    /\ \A s \in recip : ChainOf[s] \in WashChain /\ pop.sellers[s].recip
    /\ \A ch \in WashChain : \A s \in flagged[ch] :
         ChainOf[s] = ch /\ (pop.sellers[s].batch \/ Misconduct(s))
    /\ \A n \in Night, ch \in Chain : cycles[n][ch] # NoRow => cycles[n][ch] = RingOn(ch)
    /\ \A n \in Night, s \in Seller : signals[n][s] # NoRow =>
         /\ ChainOf[s] \in WashChain
         /\ pop.sellers[s].merchant /\ (pop.sellers[s].big \/ pop.sellers[s].conc)
         /\ signals[n][s].recip \/ signals[n][s].flagged => Misconduct(s)

Ahead == {todo[i] : i \in DOMAIN todo}

Did(section) ==
    stage \in CASE section = "recip" -> {"cycles", "lookback", "conc", "clean", "scores"}
                [] section = "cycles" -> {"lookback", "conc", "clean", "scores"}
                [] section = "lookback" -> {"conc", "clean", "scores"}
                [] section = "conc" -> {"clean", "scores"}

\* What tonight's sections had to find is there, or their failure is on record.
ReciprocalDone ==
    Did("recip") => \A s \in Seller : ChainOf[s] \in WashChain =>
        /\ pop.sellers[s].recip => s \in recip \/ <<night, "recip", NoValue>> \in failed
        /\ pop.sellers[s].batch => s \in flagged[ChainOf[s]]

CyclesDone ==
    \A ch \in Chain : Did("cycles") \/ (stage = "cycles" /\ ch \notin Ahead) =>
        cycles[night][ch] # NoRow \/ <<night, "cycles", ch>> \in failed

Escaped == \E ch \in WashChain : <<night, "lookback", ch>> \in failed

LookbackDone ==
    \A ch \in WashChain : Did("lookback") \/ (stage = "lookback" /\ ch \notin Ahead) =>
        \/ Escaped
        \/ \A s \in TopSellers(ch) :
             /\ signals[night][s] # NoRow
             /\ SeenByLookback(s) =>
                  \/ signals[night][s].flagged
                  \/ <<night, "recip", NoValue>> \in failed \/ <<night, "gave up", s>> \in failed

ConcentrationDone ==
    Did("conc") => \A s \in Seller :
        ChainOf[s] \in WashChain /\ pop.sellers[s].merchant /\ pop.sellers[s].conc =>
            \/ Escaped \/ <<night, "conc", NoValue>> \in failed
            \/ signals[night][s] # NoRow /\ signals[night][s].flagged

\* A letter says what the evidence of its row says.
RowsSound ==
    \A n \in Night, s \in Seller : scores[n][s] # NoRow =>
        LET row == scores[n][s]
        IN /\ row.score \in Int /\ row.grade \in Letters \cup {NoGrade}
           /\ row.flags = Flagged(row.wash)
           /\ Flagged(row.wash) \/ row.wash.recip => row.grade \in {"D", "F"}

OthersTrue == others \in {NoRow, Others}

WashInv ==
    /\ NightTyped /\ EvidenceTrue
    /\ ReciprocalDone /\ CyclesDone /\ LookbackDone /\ ConcentrationDone
    /\ RowsSound /\ OthersTrue
    /\ HealthyNightIsExact

-----------------------------------------------------------------------------
(***************************************************************************)
(* Why the clean metrics are exact.                                        *)
(***************************************************************************)
\* The kinds of the other variables, and the chains a section has left.
CleanTyped ==
    /\ recipOk \in BOOLEAN /\ conc \subseteq Seller /\ concOk \in BOOLEAN
    /\ clean \in [Night -> [WashChain -> Nat \cup {NoRow}]]
    /\ \A n \in Night, s \in Seller : scores[n][s] \in ScoreRow \cup {NoRow}
    /\ todo \in CASE stage = "cycles" -> Rests(CycleOrder)
                  [] stage \in {"lookback", "clean"} -> Rests(WashOrder)
                  [] OTHER -> {<<>>}

\* No section has failed before its turn.
InTurn ==
    /\ \A f \in failed : f[1] \in 1..night
    /\ stage = "recip" => \A f \in failed : f[1] # night
    /\ stage = "cycles" => \A f \in failed : f[1] = night =>
          f[2] = "recip" \/ (f[2] = "cycles" /\ f[3] \notin Ahead)
    /\ stage = "lookback" => \A f \in failed : f[1] = night =>
          f[2] \in {"recip", "cycles"} \/ (f[2] = "gave up" /\ ChainOf[f[3]] \notin Ahead)
    /\ stage = "conc" => \A f \in failed : f[1] = night => f[2] \in {"recip", "cycles", "gave up"}

Been(section, ch) == Did(section) \/ (stage = section /\ ch \notin Ahead)

\* What tonight's sections hold, to the last seller.
RecipExact ==
    Did("recip") => \A s \in Seller :
        s \in recip <=> /\ ChainOf[s] \in WashChain /\ pop.sellers[s].recip
                       /\ <<night, "recip", NoValue>> \notin failed

FlagsExact ==
    stage \in {"cycles", "lookback", "conc", "clean"} =>
        \A ch \in WashChain : \A s \in On(ch) :
            LET e == pop.sellers[s]
            IN s \in flagged[ch] <=>
                 \/ e.batch
                 \/ e.ring /\ Been("cycles", ch) /\ <<night, "cycles", ch>> \notin failed
                 \/ /\ e.big /\ e.merchant /\ Been("lookback", ch)
                    /\ \/ SelfRatio(e) > SelfThresh
                       \/ e.fr > FundedThresh /\ <<night, "gave up", s>> \notin failed
                       \/ s \in recip

ConcExact ==
    stage = "clean" => \A s \in Seller :
        concOk /\ s \in conc <=> /\ ChainOf[s] \in WashChain
                                /\ pop.sellers[s].merchant /\ pop.sellers[s].conc
                                /\ <<night, "conc", NoValue>> \notin failed

\* A night's clean metrics come behind the sections they rest on.
CleanSince ==
    \A n \in Night, ch \in WashChain :
        clean[n][ch] # NoRow => n < night \/ (n = night /\ stage \in {"clean", "scores", "idle"})

CleanInv ==
    CleanTyped /\ InTurn /\ RecipExact /\ FlagsExact /\ ConcExact /\ CleanSince /\ CleanExact

-----------------------------------------------------------------------------
(***************************************************************************)
(* Why the signals are of record.                                          *)
(***************************************************************************)
\* The scans that are done for the night.
Scanned(k) == k < night \/ (k = night /\ stage \in {"clean", "scores", "idle"})

\* The table of signals holds what the scans had to find, and tonight's what the
\* lookback has come to.
SignalsExact ==
    /\ \A k \in Night, s \in Seller : k > night \/ (k = night /\ stage \in {"recip", "cycles"}) =>
          signals[k][s] = NoRow
    /\ stage \in {"lookback", "conc"} => \A s \in Seller : signals[night][s] =
          IF ChainOf[s] \in WashChain \ Ahead /\ pop.sellers[s].merchant /\ pop.sellers[s].big
          THEN LookedUp(night, s) ELSE NoRow
    /\ \A k \in Night, s \in Seller : Scanned(k) => signals[k][s] = FoundOn(k, s)

\* A score row comes behind the scans of its night.
ScoredSince == \A n \in Night, s \in Seller : scores[n][s] # NoRow => Scanned(n)

SignalsInv == SignalsExact /\ ScoredSince /\ SignalsOfRecord
=============================================================================
