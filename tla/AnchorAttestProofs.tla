------------------------- MODULE AnchorAttestProofs -------------------------
(***************************************************************************)
(* Proofs about AnchorAttest: the local ledger is true and what it holds   *)
(* as live is the final content of its day, for any number of days, files, *)
(* transactions, corrections and any cap per run.                          *)
(***************************************************************************)
EXTENDS AnchorAttest, FiniteSetTheorems, TLAPS

\* A directory without files is a content.
LEMMA EmptyIsContent == Empty \in Content
    BY DEF Empty, Content

\* Newest picks among the days it is given.
LEMMA NewestWithin ==
    ASSUME NEW S, NEW n PROVE Newest(S, n) \subseteq S
    BY DEF Newest

\* A day that is pending has a directory and no live anchor.
LEMMA PendingDays ==
    ASSUME NEW d \in Pending
    PROVE  d \in Day /\ dir[d] # NoDay /\ \A i \in LiveAnchors : txs[i].day # d
    BY DEF Pending, AttestedDates, LiveAnchors

\* What Seq says of one transaction.
LEMMA TxTyped ==
    ASSUME txs \in Seq(Tx), NEW i \in DOMAIN txs
    PROVE  txs[i] \in Tx /\ txs[i].day \in Day
<1>1. txs[i] \in Tx
    OBVIOUS
<1> QED
    BY <1>1 DEF Tx

\* Nothing is attested and nothing is at work in the beginning.
THEOREM InitHolds == Init => AttestInv
<1> SUFFICES ASSUME Init PROVE AttestInv
    OBVIOUS
<1> USE AttestAssumption DEF Init
<1>1. TypeOK
    BY EmptyIsContent DEF TypeOK
<1>2. LedgerTrue /\ AttestedIsFinal /\ OnlyFilled
    BY DEF LedgerTrue, AttestedIsFinal, OnlyFilled, LiveAnchors
<1>3. WritesAlone /\ TodoUnattested /\ DayUnattested /\ UidOfDay
    BY DEF WritesAlone, TodoUnattested, DayUnattested, UidOfDay
<1> QED
    BY <1>1, <1>2, <1>3 DEF AttestInv

\* Steps that change neither the directories, nor transactions, nor the ledger,
\* nor what the attester has in its hands.
LEMMA QuietKeeps ==
    ASSUME AttestInv, UNCHANGED <<txs, ledgerVars, runVars, dir>>,
           writing' = writing \/ writing' = NoDay
    PROVE  /\ LedgerTrue' /\ AttestedIsFinal' /\ OnlyFilled' /\ WritesAlone'
           /\ TodoUnattested' /\ DayUnattested' /\ UidOfDay'
    BY DEF AttestInv, LedgerTrue, AttestedIsFinal, OnlyFilled, WritesAlone, TodoUnattested,
           DayUnattested, UidOfDay, LiveAnchors, Combined, ledgerVars, runVars

\* Every step of the writer, of Base, of the attester and of the operator keeps the
\* invariant.
LEMMA StepKeeps == ASSUME AttestInv, [Next]_vars PROVE AttestInv'
<1> USE AttestAssumption DEF worldVars, ledgerVars, runVars
<1>0. /\ TypeOK /\ LedgerTrue /\ AttestedIsFinal /\ OnlyFilled /\ WritesAlone
      /\ TodoUnattested /\ DayUnattested /\ UidOfDay
    BY DEF AttestInv
<1>1. CASE NewDay
  <2>1. TypeOK'
    BY <1>0, <1>1 DEF NewDay, TypeOK, Day
  <2> QED
    BY <1>1, <2>1, QuietKeeps DEF NewDay, AttestInv
<1>2. CASE StartDay
  <2>1. today \in Day
    BY <1>0, <1>2 DEF StartDay, TypeOK, Day
  <2>2. TypeOK'
    BY <1>0, <1>2, <2>1, EmptyIsContent DEF StartDay, TypeOK
  <2>3. \A i \in LiveAnchors : txs[i].day # today
    BY <1>0, <1>2, <2>1 DEF StartDay, AttestedIsFinal, OnlyFilled, Combined, LiveAnchors, TypeOK
  <2>4. LedgerTrue' /\ AttestedIsFinal' /\ OnlyFilled'
    BY <1>0, <1>2, <2>1, <2>3, EmptyIsContent
    DEF StartDay, LedgerTrue, AttestedIsFinal, OnlyFilled, Combined, LiveAnchors, TypeOK, Tx
  <2>5. WritesAlone' /\ TodoUnattested' /\ DayUnattested' /\ UidOfDay'
    BY <1>0, <1>2, <2>1, <2>3, EmptyIsContent
    DEF StartDay, WritesAlone, TodoUnattested, DayUnattested, UidOfDay, LiveAnchors, TypeOK
  <2> QED
    BY <2>2, <2>4, <2>5 DEF AttestInv
<1>3. CASE KillWriter
  <2>1. TypeOK'
    BY <1>0, <1>3 DEF KillWriter, TypeOK
  <2> QED
    BY <1>3, <2>1, QuietKeeps DEF KillWriter, AttestInv
<1>4. CASE GitAnchor
  <2>1. \A d \in Day : dir[d] \notin {NoDay, Empty} =>
            [files |-> dir[d], combined |-> Combined(dir[d])] \in [files : Content, combined : Content]
    BY <1>0 DEF TypeOK, Combined
  <2>2. TypeOK'
    BY <1>0, <1>4, <2>1 DEF GitAnchor, TypeOK
  <2> QED
    BY <1>4, <2>2, QuietKeeps DEF GitAnchor, AttestInv
<1>5. ASSUME NEW f \in File, WriteFile(f) PROVE AttestInv'
  <2>1. writing \in Day /\ dir[writing] \in Content /\ dir[writing] # NoDay /\ pc = "idle"
    BY <1>0, <1>5 DEF WriteFile, TypeOK, WritesAlone
  <2>2. [dir[writing] EXCEPT ![f] = 1] \in Content
    BY <2>1 DEF Content, Version
  <2>3. dir' = [dir EXCEPT ![writing] = [dir[writing] EXCEPT ![f] = 1]]
    BY <1>5 DEF WriteFile
  <2>4. writing' \in {writing, NoDay}
    BY <1>5 DEF WriteFile
  <2> HIDE DEF Content
  <2>5. TypeOK'
    BY <1>0, <1>5, <2>1, <2>2, <2>3, <2>4 DEF WriteFile, TypeOK
  <2>6. \A d \in Day : dir[d] # NoDay => dir'[d] # NoDay
    BY <1>0, <2>1, <2>2, <2>3 DEF TypeOK
  <2>7. LedgerTrue' /\ AttestedIsFinal' /\ OnlyFilled'
    BY <1>0, <1>5, <2>1, <2>3, <2>6
    DEF WriteFile, LedgerTrue, AttestedIsFinal, OnlyFilled, WritesAlone, Combined, LiveAnchors, TypeOK, Tx
  <2>8. WritesAlone' /\ TodoUnattested' /\ DayUnattested' /\ UidOfDay'
    BY <1>0, <1>5, <2>1, <2>4, <2>6
    DEF WriteFile, WritesAlone, TodoUnattested, DayUnattested, UidOfDay, LiveAnchors
  <2> QED
    BY <2>5, <2>7, <2>8 DEF AttestInv
<1>6. ASSUME NEW i \in DOMAIN txs, NEW st \in {"live", "failed"}, Mine(i, st) PROVE AttestInv'
  <2>1. /\ txs' \in Seq(Tx) /\ DOMAIN txs' = DOMAIN txs
        /\ \A j \in DOMAIN txs : txs'[j].day = txs[j].day /\ txs'[j].sha = txs[j].sha
        /\ \A j \in DOMAIN txs : txs[j].st = "live" => txs'[j].st = "live"
    <3>1. txs \in Seq(Tx) /\ txs[i] \in Tx /\ txs' = [txs EXCEPT ![i].st = st]
      BY <1>0, <1>6 DEF TypeOK, Mine
    <3>2. [txs[i] EXCEPT !.st = st] \in Tx
      BY <3>1 DEF Tx
    <3>3. txs' = [txs EXCEPT ![i] = [txs[i] EXCEPT !.st = st]]
      BY <3>1
    <3>4. txs' \in Seq(Tx) /\ DOMAIN txs' = DOMAIN txs
      BY <3>1, <3>2, <3>3
    <3>5. txs[i].st # "live"
      BY <1>6 DEF Mine
    <3> QED
      BY <3>1, <3>3, <3>4, <3>5 DEF Tx
  <2>2. TypeOK'
    BY <1>0, <1>6, <2>1 DEF Mine, TypeOK
  <2>3. LiveAnchors' = LiveAnchors /\ LiveAnchors \subseteq DOMAIN txs
    BY <1>0, <1>6 DEF Mine, LiveAnchors, TypeOK
  <2>4. LedgerTrue' /\ AttestedIsFinal' /\ OnlyFilled'
    BY <1>0, <1>6, <2>1, <2>3 DEF Mine, LedgerTrue, AttestedIsFinal, OnlyFilled, Combined
  <2>5. WritesAlone' /\ TodoUnattested' /\ DayUnattested' /\ UidOfDay'
    BY <1>0, <1>6, <2>1, <2>3
    DEF Mine, WritesAlone, TodoUnattested, DayUnattested, UidOfDay, TypeOK
  <2> QED
    BY <2>2, <2>4, <2>5 DEF AttestInv
<1>7. CASE StartAttest
  <2>1. todo' \subseteq Pending
    BY <1>7, NewestWithin DEF StartAttest
  <2>2. \A d \in todo' : d \in Day /\ dir[d] # NoDay /\ \A i \in LiveAnchors : txs[i].day # d
    BY <2>1, PendingDays
  <2>3. TypeOK'
    BY <1>0, <1>7, <2>2 DEF StartAttest, TypeOK
  <2>4. LedgerTrue' /\ AttestedIsFinal' /\ OnlyFilled'
    BY <1>0, <1>7 DEF StartAttest, LedgerTrue, AttestedIsFinal, OnlyFilled, Combined, LiveAnchors
  <2>5. WritesAlone' /\ TodoUnattested' /\ DayUnattested' /\ UidOfDay'
    BY <1>0, <1>7, <2>2
    DEF StartAttest, WritesAlone, TodoUnattested, DayUnattested, UidOfDay, LiveAnchors
  <2> QED
    BY <2>3, <2>4, <2>5 DEF AttestInv
<1>8. CASE NextDay
  <2>1. PICK d \in todo : /\ todo' = todo \ {d}
                          /\ IF dir[d] = Empty
                             THEN UNCHANGED <<pc, day, sha>>
                             ELSE day' = d /\ sha' = Combined(dir[d]) /\ pc' = "send"
    BY <1>8 DEF NextDay
  <2>2. d \in Day /\ dir[d] # NoDay /\ dir[d] \in Content /\ \A i \in LiveAnchors : txs[i].day # d
    BY <1>0, <1>8, <2>1 DEF NextDay, TypeOK, TodoUnattested
  <2>3. TypeOK'
    BY <1>0, <1>8, <2>1, <2>2 DEF NextDay, TypeOK, Combined
  <2>4. LedgerTrue' /\ AttestedIsFinal' /\ OnlyFilled'
    BY <1>0, <1>8 DEF NextDay, LedgerTrue, AttestedIsFinal, OnlyFilled, Combined, LiveAnchors
  <2>5. WritesAlone' /\ TodoUnattested' /\ DayUnattested' /\ UidOfDay'
    BY <1>0, <1>8, <2>1, <2>2
    DEF NextDay, WritesAlone, TodoUnattested, DayUnattested, UidOfDay, LiveAnchors, Combined
  <2> QED
    BY <2>3, <2>4, <2>5 DEF AttestInv
<1>9. CASE AllDone \/ NotSent \/ Reverted \/ LeaveAlone
  <2>1. EndRun /\ UNCHANGED <<worldVars, txs, ledgerVars>> /\ pc # "idle"
    BY <1>9 DEF AllDone, NotSent, Reverted, LeaveAlone
  <2>2. broken' \in [Day -> Nat]
    BY <1>0, <1>9 DEF AllDone, NotSent, Reverted, LeaveAlone, TypeOK
  <2>3. TypeOK'
    BY <1>0, <2>1, <2>2, EmptyIsContent DEF EndRun, TypeOK
  <2>4. LedgerTrue' /\ AttestedIsFinal' /\ OnlyFilled'
    BY <1>0, <2>1 DEF LedgerTrue, AttestedIsFinal, OnlyFilled, Combined, LiveAnchors
  <2>5. WritesAlone' /\ TodoUnattested' /\ DayUnattested' /\ UidOfDay'
    BY <1>0, <2>1
    DEF EndRun, WritesAlone, TodoUnattested, DayUnattested, UidOfDay, LiveAnchors
  <2> QED
    BY <2>3, <2>4, <2>5 DEF AttestInv
<1>10. CASE Send \/ SentUnknown
  <2> DEFINE new == [day |-> day, sha |-> sha, st |-> "pending"]
  <2>1. day \in Day /\ dir[day] # NoDay /\ new \in Tx /\ txs' = Append(txs, new)
    BY <1>0, <1>10 DEF Send, SentUnknown, TypeOK, Tx, DayUnattested
  <2>2. txs \in Seq(Tx) /\ Len(txs) \in Nat
    BY <1>0 DEF TypeOK
  <2>3. /\ txs' \in Seq(Tx) /\ Len(txs') = Len(txs) + 1
        /\ txs'[Len(txs) + 1] = new
        /\ \A i \in DOMAIN txs : i \in DOMAIN txs' /\ txs'[i] = txs[i]
        /\ \A i \in DOMAIN txs' : i \in DOMAIN txs \/ i = Len(txs) + 1
        /\ Len(txs) + 1 \notin DOMAIN txs /\ Len(txs) + 1 \in DOMAIN txs'
    BY <2>1, <2>2
  <2> HIDE DEF new
  <2>4. LiveAnchors' = LiveAnchors /\ LiveAnchors \subseteq DOMAIN txs /\ UNCHANGED <<worldVars, ledgerVars>>
    BY <1>0, <1>10 DEF Send, SentUnknown, LiveAnchors, TypeOK
  <2>5. new.day = day /\ new.sha = sha
    BY DEF new
  <2>6. LedgerTrue' /\ AttestedIsFinal' /\ OnlyFilled'
    BY <1>0, <2>1, <2>3, <2>4, <2>5 DEF LedgerTrue, AttestedIsFinal, OnlyFilled, Combined
  <2>7. CASE Send
    <3>1. TypeOK'
      BY <1>0, <2>1, <2>2, <2>3, <2>7 DEF Send, TypeOK
    <3>2. WritesAlone' /\ TodoUnattested' /\ DayUnattested'
      BY <1>0, <2>1, <2>3, <2>4, <2>7
      DEF Send, WritesAlone, TodoUnattested, DayUnattested
    <3>3. UidOfDay'
      BY <1>0, <2>2, <2>3, <2>4, <2>5, <2>7 DEF Send, UidOfDay, TypeOK
    <3> QED
      BY <2>6, <3>1, <3>2, <3>3 DEF AttestInv
  <2>8. CASE SentUnknown
    <3>1. broken' \in [Day -> Nat]
      BY <1>0, <2>8 DEF SentUnknown, TypeOK
    <3>2. TypeOK'
      BY <1>0, <2>3, <2>4, <2>8, <3>1, EmptyIsContent DEF SentUnknown, EndRun, TypeOK
    <3>3. WritesAlone' /\ TodoUnattested' /\ DayUnattested' /\ UidOfDay'
      BY <1>0, <2>3, <2>4, <2>8
      DEF SentUnknown, EndRun, WritesAlone, TodoUnattested, DayUnattested, UidOfDay
    <3> QED
      BY <2>6, <3>2, <3>3 DEF AttestInv
  <2> QED
    BY <1>10, <2>7, <2>8
<1>11. CASE Receipt
  <2>1. TypeOK'
    BY <1>0, <1>11 DEF Receipt, TypeOK
  <2>2. LedgerTrue' /\ AttestedIsFinal' /\ OnlyFilled'
    BY <1>0, <1>11 DEF Receipt, LedgerTrue, AttestedIsFinal, OnlyFilled, Combined, LiveAnchors
  <2>3. WritesAlone' /\ TodoUnattested' /\ DayUnattested' /\ UidOfDay'
    BY <1>0, <1>11
    DEF Receipt, WritesAlone, TodoUnattested, DayUnattested, UidOfDay, LiveAnchors
  <2> QED
    BY <2>1, <2>2, <2>3 DEF AttestInv
<1>12. CASE AppendLedger
  <2>1. /\ uid \in DOMAIN txs /\ uid \notin anchored /\ txs[uid].st = "live"
        /\ txs[uid].day = day /\ txs[uid].sha = sha /\ sha = dir[day] /\ sha # Empty
        /\ \A i \in LiveAnchors : txs[i].day # day
        /\ day \notin todo
    BY <1>0, <1>12 DEF AppendLedger, TypeOK, UidOfDay, DayUnattested
  <2>2. LiveAnchors' = LiveAnchors \cup {uid}
    BY <1>0, <1>12, <2>1 DEF AppendLedger, LiveAnchors, TypeOK
  <2>3. TypeOK'
    BY <1>0, <1>12, <2>1, EmptyIsContent DEF AppendLedger, TypeOK
  <2>4. LedgerTrue' /\ AttestedIsFinal' /\ OnlyFilled'
    BY <1>0, <1>12, <2>1, <2>2
    DEF AppendLedger, LedgerTrue, AttestedIsFinal, OnlyFilled, Combined
  <2>5. WritesAlone' /\ TodoUnattested' /\ DayUnattested' /\ UidOfDay'
    BY <1>0, <1>12, <2>1, <2>2
    DEF AppendLedger, WritesAlone, TodoUnattested, DayUnattested, UidOfDay
  <2> QED
    BY <2>3, <2>4, <2>5 DEF AttestInv
<1>13. ASSUME NEW i \in anchored, NEW f \in File, Correct(i, f) PROVE AttestInv'
  <2> DEFINE d == txs[i].day
  <2>1. /\ i \in DOMAIN txs /\ i \in LiveAnchors /\ txs[i] \in Tx /\ d \in Day
        /\ dir[d] # NoDay /\ dir[d] \in Content
    <3>1. i \in DOMAIN txs /\ txs \in Seq(Tx) /\ i \in LiveAnchors
      BY <1>0, <1>13 DEF Correct, TypeOK, LiveAnchors
    <3>2. txs[i] \in Tx /\ d \in Day
      BY <3>1, TxTyped
    <3> QED
      BY <1>0, <3>1, <3>2 DEF TypeOK, OnlyFilled
  <2>2. [dir[d] EXCEPT ![f] = @ + 1] \in Content
    BY <1>13, <2>1 DEF Correct, Content, Version
  <2>3. dir' = [dir EXCEPT ![d] = [dir[d] EXCEPT ![f] = @ + 1]]
    BY <1>13 DEF Correct
  <2>4. /\ txs' \in Seq(Tx) /\ DOMAIN txs' = DOMAIN txs
        /\ \A j \in DOMAIN txs : txs'[j].day = txs[j].day /\ txs'[j].sha = txs[j].sha
        /\ \A j \in DOMAIN txs : j # i => txs'[j].st = txs[j].st
    <3>1. txs \in Seq(Tx) /\ txs' = [txs EXCEPT ![i] = [txs[i] EXCEPT !.st = "revoked"]]
      BY <1>0, <1>13 DEF TypeOK, Correct
    <3>2. [txs[i] EXCEPT !.st = "revoked"] \in Tx
      BY <2>1 DEF Tx
    <3>3. txs' \in Seq(Tx) /\ DOMAIN txs' = DOMAIN txs
      BY <2>1, <3>1, <3>2
    <3> QED
      BY <2>1, <3>1, <3>3 DEF Tx
  <2> HIDE DEF Content
  <2>5. LiveAnchors' = LiveAnchors \ {i} /\ LiveAnchors \subseteq DOMAIN txs
    BY <1>0, <1>13, <2>1 DEF Correct, LiveAnchors, TypeOK
  <2>6. \A j \in LiveAnchors' : txs[j].day # d
    BY <1>0, <2>1, <2>5 DEF LedgerTrue
  <2>7. /\ \A e \in Day : dir[e] # NoDay => dir'[e] # NoDay
        /\ \A e \in Day : e # d => dir'[e] = dir[e]
    BY <1>0, <2>1, <2>2, <2>3 DEF TypeOK
  <2>8. \A j \in DOMAIN txs : txs[j].day \in Day
    BY <1>0, TxTyped DEF TypeOK
  <2>9. TypeOK'
    BY <1>0, <1>13, <2>1, <2>2, <2>3, <2>4 DEF Correct, TypeOK
  <2>10. LedgerTrue' /\ AttestedIsFinal' /\ OnlyFilled'
    BY <1>0, <1>13, <2>4, <2>5, <2>6, <2>7, <2>8
    DEF LedgerTrue, AttestedIsFinal, OnlyFilled, Combined
  <2>11. WritesAlone' /\ TodoUnattested' /\ DayUnattested' /\ UidOfDay'
    BY <1>0, <1>13 DEF Correct, WritesAlone, TodoUnattested, DayUnattested, UidOfDay
  <2> QED
    BY <2>9, <2>10, <2>11 DEF AttestInv
<1>14. CASE UNCHANGED vars
  <2>1. TypeOK'
    BY <1>0, <1>14 DEF vars, TypeOK
  <2> QED
    BY <1>14, <2>1, QuietKeeps DEF vars, AttestInv
<1> QED
    BY <1>1, <1>2, <1>3, <1>4, <1>5, <1>6, <1>7, <1>8, <1>9, <1>10, <1>11, <1>12, <1>13, <1>14
    DEF Next

\* What the attester holds between two steps never lets it write a false row:
\* main of anchor_attest.py beside the snapshot writer and the operator.
THEOREM AttestInvariant == Spec => []AttestInv
<1>1. Init => AttestInv
    BY InitHolds
<1>2. AttestInv /\ [Next]_vars => AttestInv'
    BY StepKeeps
<1> QED
    BY <1>1, <1>2, PTL DEF Spec

\* The attester's variables keep their types, whatever it is interrupted by.
THEOREM TypeCorrect == Spec => []TypeOK
<1>1. AttestInv => TypeOK
    BY DEF AttestInv
<1> QED
    BY <1>1, AttestInvariant, PTL

\* An anchor that the ledger holds as live is live on Base, and the only one of
\* its day in the ledger.
THEOREM LedgerIsTrue == Spec => []LedgerTrue
<1>1. AttestInv => LedgerTrue
    BY DEF AttestInv
<1> QED
    BY <1>1, AttestInvariant, PTL

\* The attested hash of a day is that of its directory for good.
THEOREM AttestedStaysFinal == Spec => []AttestedIsFinal
<1>1. AttestInv => AttestedIsFinal
    BY DEF AttestInv
<1> QED
    BY <1>1, AttestInvariant, PTL

-----------------------------------------------------------------------------
(***************************************************************************)
(* Live attestations that the ledger does not have.                        *)
(***************************************************************************)
\* The transactions are finitely many.
LEMMA FiniteTxs == ASSUME TypeOK PROVE IsFiniteSet(DOMAIN txs) /\ Len(txs) \in Nat
<1>1. Len(txs) \in Nat /\ DOMAIN txs = 1..Len(txs)
    BY DEF TypeOK
<1> QED
    BY <1>1, FS_Interval

\* Strays that become no more stay within their count.
LEMMA FewerStrays ==
    ASSUME TypeOK, StraysCounted, NEW d \in Day, Strays(d)' \subseteq Strays(d),
           broken'[d] \in Nat, broken[d] <= broken'[d]
    PROVE  Cardinality(Strays(d)') <= broken'[d]
<1>1. IsFiniteSet(Strays(d))
    BY FiniteTxs, FS_Subset DEF Strays
<1>2. Cardinality(Strays(d)') <= Cardinality(Strays(d))
    BY <1>1, FS_Subset
<1>3. IsFiniteSet(Strays(d)')
    BY <1>1, FS_Subset
<1>4. Cardinality(Strays(d)) \in Nat /\ Cardinality(Strays(d)') \in Nat
    BY <1>1, <1>3, FS_CardinalityType
<1>5. Cardinality(Strays(d)) <= broken[d] /\ broken[d] \in Nat
    BY DEF StraysCounted, TypeOK
<1> QED
    BY <1>2, <1>4, <1>5

\* One more stray is within the count when it is counted.
LEMMA OneMoreStray ==
    ASSUME TypeOK, StraysCounted, NEW d \in Day, NEW i,
           Strays(d)' \subseteq Strays(d) \cup {i}, broken'[d] = broken[d] + 1
    PROVE  Cardinality(Strays(d)') <= broken'[d]
<1>1. IsFiniteSet(Strays(d))
    BY FiniteTxs, FS_Subset DEF Strays
<1>2. /\ IsFiniteSet(Strays(d) \cup {i})
      /\ Cardinality(Strays(d) \cup {i}) \in {Cardinality(Strays(d)), Cardinality(Strays(d)) + 1}
    BY <1>1, FS_AddElement
<1>3. IsFiniteSet(Strays(d)') /\ Cardinality(Strays(d)') <= Cardinality(Strays(d) \cup {i})
    BY <1>2, FS_Subset
<1>4. Cardinality(Strays(d)) \in Nat /\ Cardinality(Strays(d)') \in Nat
    BY <1>1, <1>3, FS_CardinalityType
<1>5. Cardinality(Strays(d)) <= broken[d] /\ broken[d] \in Nat
    BY DEF StraysCounted, TypeOK
<1> QED
    BY <1>2, <1>3, <1>4, <1>5

\* Every step keeps the strays counted.
LEMMA CountKeeps == ASSUME AttestInv, StraysCounted, [Next]_vars PROVE StraysCounted'
<1> USE DEF worldVars, ledgerVars, runVars
<1>0. TypeOK /\ \A d \in Day : broken[d] \in Nat
    BY DEF AttestInv, TypeOK
<1>1. ASSUME UNCHANGED <<broken, anchored, uid, pc>>, \A d \in Day : Strays(d)' \subseteq Strays(d)
      PROVE  StraysCounted'
    <2>1. ASSUME NEW d \in Day PROVE Cardinality(Strays(d)') <= broken'[d]
        BY <1>0, <1>1, <2>1, FewerStrays
    <2> QED
        BY <1>1, <2>1 DEF StraysCounted
<1>2. CASE UNCHANGED <<txs, broken, anchored, uid, pc>>
    BY <1>1, <1>2 DEF Strays
<1>3. ASSUME NEW i \in DOMAIN txs, NEW st \in {"live", "failed"}, Mine(i, st)
      PROVE  StraysCounted'
    <2>1. txs' = [txs EXCEPT ![i].st = st] /\ txs[i].st = "pending"
          /\ UNCHANGED <<broken, anchored, uid, pc>>
        BY <1>3 DEF Mine
    <2>2. /\ DOMAIN txs' = DOMAIN txs
          /\ \A j \in DOMAIN txs : /\ txs'[j].day = txs[j].day
                                   /\ txs'[j].st # txs[j].st => txs[j].st = "pending"
        <3>1. txs \in Seq(Tx) /\ txs[i] \in Tx
            BY <1>0 DEF TypeOK
        <3>2. txs' = [txs EXCEPT ![i] = [txs[i] EXCEPT !.st = st]]
            BY <2>1
        <3>3. [txs[i] EXCEPT !.st = st].day = txs[i].day
            BY <3>1 DEF Tx
        <3> QED
            BY <2>1, <3>1, <3>2, <3>3
    <2>3. \A d \in Day : Strays(d)' \subseteq Strays(d)
        BY <2>1, <2>2 DEF Strays
    <2> QED
        BY <1>1, <2>1, <2>3
<1>4. ASSUME NEW i \in anchored, NEW f \in File, Correct(i, f) PROVE StraysCounted'
    <2>1. txs' = [txs EXCEPT ![i].st = "revoked"] /\ UNCHANGED <<broken, anchored, uid, pc>>
        BY <1>4 DEF Correct
    <2>2. DOMAIN txs' = DOMAIN txs /\ \A j \in DOMAIN txs : j # i => txs'[j] = txs[j]
        BY <1>0, <2>1 DEF TypeOK
    <2>3. \A d \in Day : Strays(d)' \subseteq Strays(d)
        BY <2>1, <2>2 DEF Strays
    <2> QED
        BY <1>1, <2>1, <2>3
<1>5. ASSUME UNCHANGED <<txs, broken, anchored>>, pc' \notin {"wait", "append"}, uid' = 0,
             pc \in {"wait", "append"} => txs[uid].st \notin {"live", "pending"}
      PROVE  StraysCounted'
    <2>1. ASSUME NEW d \in Day PROVE Strays(d)' \subseteq Strays(d)
        BY <1>0, <1>5 DEF Strays, StraysCounted
    <2>2. ASSUME NEW d \in Day PROVE Cardinality(Strays(d)') <= broken'[d]
        BY <1>0, <1>5, <2>1, <2>2, FewerStrays
    <2> QED
        BY <1>5, <2>2 DEF StraysCounted
<1>6. CASE AllDone \/ NotSent \/ Reverted
    BY <1>5, <1>6 DEF AllDone, NotSent, Reverted, EndRun
<1>7. CASE StartAttest
    BY <1>0, <1>5, <1>7 DEF StartAttest, StraysCounted
<1>8. CASE NextDay
    <2>1. pc' \notin {"wait", "append"} /\ pc \notin {"wait", "append"}
          /\ UNCHANGED <<txs, broken, anchored, uid>>
        BY <1>8 DEF NextDay
    <2> QED
        BY <1>5, <2>1 DEF StraysCounted
<1>9. CASE Send \/ SentUnknown
    <2> DEFINE n == Len(txs) + 1
    <2>1. txs \in Seq(Tx) /\ Len(txs) \in Nat /\ day \in Day /\ uid = 0
        BY <1>0, <1>9 DEF Send, SentUnknown, TypeOK, StraysCounted
    <2>2. /\ DOMAIN txs' = DOMAIN txs \cup {n} /\ \A i \in DOMAIN txs : txs'[i] = txs[i]
          /\ txs'[n].day = day /\ Len(txs') = n /\ 0 \notin DOMAIN txs
        <3> DEFINE new == [day |-> day, sha |-> sha, st |-> "pending"]
        <3>1. txs' = Append(txs, new) /\ new.day = day
            BY <1>9 DEF Send, SentUnknown
        <3>2. new \in Tx
            BY <1>9 DEF Send, SentUnknown, AttestInv, TypeOK, Tx
        <3> HIDE DEF new
        <3>3. txs' \in Seq(Tx) /\ Len(txs') = n /\ txs'[n] = new
              /\ \A i \in 1..Len(txs) : txs'[i] = txs[i]
            BY <2>1, <3>1, <3>2
        <3> QED
            BY <2>1, <3>1, <3>3
    <2>3. ASSUME NEW d \in Day
          PROVE  /\ Strays(d)' \subseteq Strays(d) \cup {n}
                 /\ d # day \/ uid' = n => Strays(d)' \subseteq Strays(d)
        <3>1. anchored' = anchored
            BY <1>9 DEF Send, SentUnknown
        <3> HIDE DEF n
        <3> QED
            BY <2>1, <2>2, <3>1 DEF Strays
    <2>4. CASE Send
        <3>1. uid' = n /\ pc' = "wait" /\ broken' = broken
            BY <2>2, <2>4 DEF Send
        <3>2. ASSUME NEW d \in Day PROVE Cardinality(Strays(d)') <= broken'[d]
            <4> HIDE DEF n
            <4> QED
                BY <1>0, <2>3, <3>1, FewerStrays
        <3> QED
            BY <3>1, <3>2 DEF StraysCounted
    <2>5. CASE SentUnknown
        <3>1. uid' = 0 /\ pc' = "idle" /\ broken' = [broken EXCEPT ![day] = @ + 1]
            BY <2>5 DEF SentUnknown, EndRun
        <3>2. broken \in [Day -> Nat]
            BY <1>0 DEF TypeOK
        <3>3. ASSUME NEW d \in Day PROVE Cardinality(Strays(d)') <= broken'[d]
            <4> HIDE DEF n
            <4>1. CASE d = day
                BY <1>0, <2>3, <3>1, <3>2, <4>1, OneMoreStray
            <4>2. CASE d # day
                <5>1. broken'[d] = broken[d]
                    BY <3>1, <3>2, <4>2
                <5> QED
                    BY <1>0, <2>3, <4>2, <5>1, FewerStrays
            <4> QED
                BY <4>1, <4>2
        <3> QED
            BY <3>1, <3>3 DEF StraysCounted
    <2> QED
        BY <1>9, <2>4, <2>5
<1>10. CASE LeaveAlone
    <2>1. /\ txs' = txs /\ anchored' = anchored /\ uid' = 0 /\ pc' = "idle"
          /\ broken' = [broken EXCEPT ![day] = @ + 1]
        BY <1>10 DEF LeaveAlone, EndRun
    <2>2. /\ day \in Day /\ txs[uid].day = day /\ broken \in [Day -> Nat]
        BY <1>10 DEF LeaveAlone, AttestInv, TypeOK, UidOfDay
    <2>3. ASSUME NEW d \in Day
          PROVE  /\ Strays(d)' \subseteq Strays(d) \cup {uid}
                 /\ d # day => Strays(d)' \subseteq Strays(d)
        BY <2>1, <2>2 DEF Strays
    <2>4. ASSUME NEW d \in Day PROVE Cardinality(Strays(d)') <= broken'[d]
        <3>1. CASE d = day
            BY <1>0, <2>1, <2>2, <2>3, <3>1, OneMoreStray
        <3>2. CASE d # day
            <4>1. broken'[d] = broken[d]
                BY <2>1, <2>2, <3>2
            <4> QED
                BY <1>0, <2>3, <3>2, <4>1, FewerStrays
        <3> QED
            BY <3>1, <3>2
    <2> QED
        BY <2>1, <2>4 DEF StraysCounted
<1>11. CASE Receipt
    <2>1. UNCHANGED <<txs, broken, anchored, uid>> /\ pc = "wait"
        BY <1>11 DEF Receipt
    <2>2. ASSUME NEW d \in Day PROVE Cardinality(Strays(d)') <= broken'[d]
        BY <1>0, <2>1, FewerStrays DEF Strays
    <2> QED
        BY <1>11, <2>2 DEF Receipt, StraysCounted
<1>12. CASE AppendLedger
    <2>1. UNCHANGED <<txs, broken>> /\ anchored' = anchored \cup {uid} /\ uid' = 0 /\ pc' = "next"
        BY <1>12 DEF AppendLedger
    <2>2. ASSUME NEW d \in Day PROVE Cardinality(Strays(d)') <= broken'[d]
        <3>1. Strays(d)' \subseteq Strays(d)
            BY <2>1 DEF Strays
        <3> QED
            BY <1>0, <2>1, <3>1, FewerStrays
    <2> QED
        BY <2>1, <2>2 DEF StraysCounted
<1> QED
    BY <1>2, <1>3, <1>4, <1>6, <1>7, <1>8, <1>9, <1>10, <1>11, <1>12
    DEF Next, vars, NewDay, StartDay, KillWriter, GitAnchor, WriteFile

\* In the beginning nothing was left alone.
LEMMA CountStarts == Init => StraysCounted
<1> SUFFICES ASSUME Init, NEW d \in Day PROVE Cardinality(Strays(d)) <= broken[d]
    BY DEF Init, StraysCounted
<1>1. Strays(d) = {}
    BY DEF Init, Strays
<1>2. Cardinality(Strays(d)) = 0
    BY <1>1, FS_EmptySet
<1> QED
    BY <1>2 DEF Init

\* There are never more live attestations of a day outside the ledger than times
\* that a run stopped waiting for one (anchor_attest.py:160).
THEOREM StraysAreExplained == Spec => []StraysExplained
<1>1. TypeOK /\ StraysCounted => StraysExplained
    <2> SUFFICES ASSUME TypeOK, StraysCounted, NEW d \in Day
                 PROVE  Cardinality({i \in DOMAIN txs : txs[i].day = d /\ txs[i].st = "live"
                                        /\ i \notin anchored /\ i # uid}) <= broken[d]
        BY DEF StraysExplained
    <2> DEFINE S == {i \in DOMAIN txs : txs[i].day = d /\ txs[i].st = "live"
                                        /\ i \notin anchored /\ i # uid}
    <2>1. S \subseteq Strays(d)
        BY DEF Strays
    <2>2. IsFiniteSet(Strays(d))
        BY FiniteTxs, FS_Subset DEF Strays
    <2> HIDE DEF S
    <2>3. IsFiniteSet(S) /\ Cardinality(S) <= Cardinality(Strays(d))
        BY <2>1, <2>2, FS_Subset
    <2>4. Cardinality(S) \in Nat /\ Cardinality(Strays(d)) \in Nat
        BY <2>2, <2>3, FS_CardinalityType
    <2>5. Cardinality(Strays(d)) <= broken[d] /\ broken[d] \in Nat
        BY DEF StraysCounted, TypeOK
    <2>6. Cardinality(S) <= broken[d]
        BY <2>3, <2>4, <2>5
    <2> QED
        BY <2>6 DEF S
<1> QED
    BY <1>1, CountStarts, CountKeeps, AttestInvariant, TypeCorrect, PTL DEF Spec

-----------------------------------------------------------------------------
(***************************************************************************)
(* The verifier.                                                           *)
(***************************************************************************)
\* Every step keeps the aggregates in their directories and git rows consistent.
LEMMA WholeKeeps == ASSUME AttestInv, EvidenceWhole, [Next]_vars PROVE EvidenceWhole'
<1> USE DEF worldVars, Combined
<1>0. TypeOK
    BY DEF AttestInv
<1>1. CASE UNCHANGED <<dir, git>>
    BY <1>1 DEF EvidenceWhole
<1>2. CASE StartDay
    BY <1>0, <1>2 DEF StartDay, EvidenceWhole, TypeOK
<1>3. CASE GitAnchor
    <2>1. \A d \in Day : git'[d] = IF dir[d] \in {NoDay, Empty} THEN git[d]
                                  ELSE [files |-> dir[d], combined |-> dir[d]]
        BY <1>3 DEF GitAnchor
    <2>2. dir' = dir
        BY <1>3 DEF GitAnchor
    <2>3. ASSUME NEW d \in Day, git'[d] # NoRow PROVE git'[d].combined = git'[d].files
        <3>1. CASE git'[d] = git[d]
            BY <2>3, <3>1 DEF EvidenceWhole
        <3>2. CASE git'[d] = [files |-> dir[d], combined |-> dir[d]]
            BY <3>2
        <3> QED
            BY <2>1, <3>1, <3>2
    <2> QED
        BY <2>2, <2>3 DEF EvidenceWhole
<1>4. ASSUME NEW f \in File, WriteFile(f) PROVE EvidenceWhole'
    <2>1. /\ writing \in Day /\ dir[writing] \in Content
          /\ dir' = [dir EXCEPT ![writing][f] = 1] /\ git' = git
        BY <1>0, <1>4 DEF WriteFile, AttestInv, WritesAlone, TypeOK
    <2>2. \A d \in Day : d # writing => dir'[d] = dir[d]
        BY <2>1
    <2>3. dir'[writing] = [dir[writing] EXCEPT ![f] = 1]
        BY <1>0, <2>1 DEF TypeOK
    <2>4. dir'[writing][Sellers] # Absent
        <3>1. f = Sellers \/ dir[writing][Sellers] # Absent
            BY <1>4 DEF WriteFile
        <3>2. 1 # Absent
            BY AttestAssumption DEF Version
        <3> QED
            BY <2>1, <2>3, <3>1, <3>2, AttestAssumption DEF Content
    <2> QED
        BY <2>1, <2>2, <2>4 DEF EvidenceWhole
<1>5. ASSUME NEW i \in anchored, NEW f \in File, Correct(i, f) PROVE EvidenceWhole'
    <2> DEFINE d == txs[i].day
    <2>1. d \in Day /\ dir[d] \in Content /\ dir[d] # NoDay
        <3>1. i \in DOMAIN txs /\ txs \in Seq(Tx)
            BY <1>0 DEF TypeOK
        <3> QED
            BY <1>0, <3>1, TxTyped DEF AttestInv, OnlyFilled, TypeOK
    <2>2. dir' = [dir EXCEPT ![d][f] = @ + 1] /\ git' = git /\ dir[d][f] \in 1..(MaxVersion - 1)
        BY <1>5 DEF Correct
    <2>3. dir'[d] = [dir[d] EXCEPT ![f] = @ + 1] /\ \A e \in Day : e # d => dir'[e] = dir[e]
        BY <1>0, <2>1, <2>2 DEF TypeOK
    <2>4. dir[d][f] # Absent /\ dir[d][f] + 1 # Absent
        BY <2>2, AttestAssumption DEF Version
    <2>5. dir[d][Sellers] # Absent
        <3>1. dir[d] # Empty
            BY <2>4 DEF Empty
        <3> QED
            BY <2>1, <3>1 DEF EvidenceWhole
    <2>6. dir'[d][Sellers] # Absent
        BY <2>1, <2>3, <2>4, <2>5, AttestAssumption DEF Content
    <2> QED
        BY <2>2, <2>3, <2>6 DEF EvidenceWhole
<1> QED
    BY <1>1, <1>2, <1>3, <1>4, <1>5
    DEF Next, vars, NewDay, KillWriter, Mine, StartAttest, NextDay, AllDone, Send, NotSent,
        SentUnknown, Receipt, Reverted, LeaveAlone, AppendLedger

\* verify says "verified" only of what a live attestation it has read contains:
\* find_snapshot_anchor and the scan of verify_evidence.py, for any rows and logs.
LEMMA VerifiedIsAttested ==
    ASSUME NEW rows, NEW ts, NEW d, NEW f \in File, NEW v, NEW chain, NEW read,
           Verify(rows, ts, d, HashOf(f, v), chain, read) = "verified"
    PROVE  \E i \in read : ts[i].day = d /\ ts[i].st = "live" /\ ts[i].sha[f] = v
<1>1. /\ rows[d] # NoRow /\ Matches(rows[d], HashOf(f, v))
      /\ Combined(rows[d].files) = rows[d].combined
      /\ Chosen(ts, Candidates(ts, read, d, rows[d].combined)) = "verified"
    BY DEF Verify
<1>2. rows[d].files[f] = v
    BY <1>1 DEF Matches, HashOf
<1>3. PICK i \in Candidates(ts, read, d, rows[d].combined) : ts[i].st = "live"
    BY <1>1 DEF Chosen
<1> QED
    BY <1>1, <1>2, <1>3 DEF Candidates, Combined

\* Verifier and attester agree: what is verified is attested, and the evidence of
\* an attested day with its git row verifies, whatever was killed or corrected.
THEOREM VerifierAgreesAlways == Spec => []VerifierAgrees
<1>1. AttestInv /\ EvidenceWhole => VerifierAgrees
    <2>0. ASSUME NEW d \in Day, NEW f \in File, NEW v \in Version, NEW chain \in BOOLEAN,
                 NEW read \in SUBSET DOMAIN txs,
                 Verify(git, txs, d, HashOf(f, v), chain, read) = "verified"
          PROVE  \E i \in read : txs[i].day = d /\ txs[i].st = "live" /\ txs[i].sha[f] = v
        BY <2>0, VerifiedIsAttested
    <2> SUFFICES ASSUME AttestInv, EvidenceWhole, NEW d \in Day, d \in AttestedDates,
                        git[d] # NoRow, git[d].files = dir[d]
                 PROVE  Verify(git, txs, d, HashOf(Sellers, dir[d][Sellers]), TRUE, DOMAIN txs)
                            = "verified"
        BY <2>0 DEF VerifierAgrees
    <2>1. PICK i \in LiveAnchors : txs[i].day = d
        BY DEF AttestedDates, LiveAnchors
    <2>2. /\ i \in DOMAIN txs /\ txs[i].st = "live" /\ txs[i].sha = dir[d]
          /\ dir[d] # NoDay /\ dir[d] # Empty
        BY <2>1 DEF AttestInv, TypeOK, LiveAnchors, LedgerTrue, AttestedIsFinal, OnlyFilled, Combined
    <2>3. dir[d][Sellers] # Absent /\ git[d].combined = dir[d]
        BY <2>2 DEF EvidenceWhole, Combined
    <2>4. Matches(git[d], HashOf(Sellers, dir[d][Sellers]))
        BY <2>3, AttestAssumption DEF Matches
    <2>5. i \in Candidates(txs, DOMAIN txs, d, git[d].combined)
        BY <2>1, <2>2, <2>3 DEF Candidates
    <2>6. Chosen(txs, Candidates(txs, DOMAIN txs, d, git[d].combined)) = "verified"
        BY <2>2, <2>5 DEF Chosen
    <2> QED
        BY <2>3, <2>4, <2>6 DEF Verify, Combined
<1>2. Init => EvidenceWhole
    BY DEF Init, EvidenceWhole
<1> QED
    BY <1>1, <1>2, WholeKeeps, AttestInvariant, PTL DEF Spec
=============================================================================
