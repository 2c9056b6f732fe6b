-------------------------- MODULE TrustServeProofs --------------------------
(***************************************************************************)
(* Proofs about TrustServe: permits are never lost or doubled, no payment  *)
(* goes without a statement, answers are as new as the receipts file       *)
(* unless two refreshes raced, and nobody is granted more than the rate,   *)
(* for any number of connections, identities, authorisations and versions  *)
(* of the file, every deployment, cost, burst and cap.                     *)
(***************************************************************************)
EXTENDS TrustServe, FiniteSetTheorems, TLAPS

\* The effect of a step of one worker on all the workers.
OnlyMoves(c, r) == conn'[c] = r /\ \A d \in Conn : d # c => conn'[d] = conn[d]

\* A worker that is given a proper record keeps the workers proper.
LEMMA MoveTyped ==
    ASSUME ServeTyped, NEW c \in Conn, NEW r \in Work, conn' = [conn EXCEPT ![c] = r]
    PROVE  conn' \in [Conn -> Work] /\ OnlyMoves(c, r)
    BY DEF ServeTyped, OnlyMoves

\* What Goes does: the worker is somewhere else, and nobody is told anything.
LEMMA GoesEffect ==
    ASSUME ServeTyped, NEW c \in Conn, NEW at \in At, Goes(c, at)
    PROVE  /\ conn' \in [Conn -> Work] /\ told' = told
           /\ OnlyMoves(c, [conn[c] EXCEPT !.at = at])
<1> DEFINE r == [conn[c] EXCEPT !.at = at]
<1>1. r \in Work /\ conn' = [conn EXCEPT ![c] = r] /\ told' = told
    BY DEF ServeTyped, Goes, Work
<1> QED
    BY <1>1, MoveTyped

\* What Answered does: the worker is idle, and whoever paid with its request has
\* got the reply.
LEMMA AnsweredEffect ==
    ASSUME ServeTyped, NEW c \in Conn, NEW reply \in Reply, Answered(c, reply)
    PROVE  /\ conn' \in [Conn -> Work] /\ told' \in [Auth -> SUBSET Reply]
           /\ OnlyMoves(c, [conn[c] EXCEPT !.at = "idle", !.reply = reply])
           /\ \A a \in Auth : told'[a] = IF a = conn[c].pay THEN told[a] \cup {reply} ELSE told[a]
<1> DEFINE r == [conn[c] EXCEPT !.at = "idle", !.reply = reply]
<1>0. conn[c] \in Work
    BY DEF ServeTyped
<1>1. r \in Work /\ conn' = [conn EXCEPT ![c] = r]
  <2>1. r \in Work
    BY <1>0 DEF Work, At
  <2> QED
    BY <2>1 DEF Answered
<1>2. told' \in [Auth -> SUBSET Reply]
    BY DEF ServeTyped, Answered
<1>3. \A a \in Auth : told'[a] = IF a = conn[c].pay THEN told[a] \cup {reply} ELSE told[a]
    BY DEF Answered
<1> HIDE DEF r
<1>4. conn' \in [Conn -> Work] /\ OnlyMoves(c, r)
    BY <1>1, MoveTyped
<1> QED
    BY <1>2, <1>3, <1>4 DEF r

\* What an exception does to a worker with a payment.
LEMMA EscapesEffect ==
    ASSUME ServeTyped, NEW c \in Conn, conn[c].pay \in Auth, Escapes(c)
    PROVE  /\ conn' \in [Conn -> Work] /\ told' \in [Auth -> SUBSET Reply]
           /\ \E at \in {"idle", "closed"} :
                /\ OnlyMoves(c, [conn[c] EXCEPT !.at = at, !.reply = "dropped"])
                /\ permits' = IF at = "idle" THEN permits ELSE permits + 1
           /\ \A a \in Auth : told'[a] = IF a = conn[c].pay THEN told[a] \cup {"dropped"} ELSE told[a]
<1>1. CASE conn[c].kind = "mcp"
  <2>1. Answered(c, "dropped") /\ UNCHANGED permits /\ "dropped" \in Reply
    BY <1>1 DEF Escapes, Reply
  <2> QED
    BY <2>1, AnsweredEffect
<1>2. CASE conn[c].kind # "mcp"
  <2> DEFINE r == [conn[c] EXCEPT !.at = "closed", !.reply = "dropped"]
  <2>0. conn[c] \in Work
    BY DEF ServeTyped
  <2>1. r \in Work /\ conn' = [conn EXCEPT ![c] = r] /\ permits' = permits + 1
    <3>1. r \in Work
      BY <2>0 DEF Work, At, Reply
    <3> QED
      BY <1>2, <3>1 DEF Escapes
  <2>2. told' = [told EXCEPT ![conn[c].pay] = @ \cup {"dropped"}]
    BY <1>2 DEF Escapes
  <2>3. told' \in [Auth -> SUBSET Reply]
    BY <2>2 DEF ServeTyped, Reply
  <2>4. \A a \in Auth : told'[a] = IF a = conn[c].pay THEN told[a] \cup {"dropped"} ELSE told[a]
    BY <2>2 DEF ServeTyped
  <2> HIDE DEF r
  <2>5. conn' \in [Conn -> Work] /\ OnlyMoves(c, r)
    BY <2>1, MoveTyped
  <2> QED
    BY <2>1, <2>3, <2>4, <2>5 DEF r
<1> QED
    BY <1>1, <1>2

\* What Use does.
LEMMA UseEffect ==
    ASSUME ServeTyped, NEW c \in Conn, Use(c)
    PROVE  LET new == IF conn[c].m = 0 THEN 0 ELSE cache.states
               w == [conn[c] EXCEPT !.used = new, !.m = 0, !.lines = 0]
           IN /\ conn' \in [Conn -> Work] /\ told' \in [Auth -> SUBSET Reply]
              /\ \/ /\ conn[c].pay \in Auth
                    /\ OnlyMoves(c, [w EXCEPT !.at = "verify", !.reply = "none"])
                 \/ OnlyMoves(c, [w EXCEPT !.at = "idle", !.reply = "served"])
              /\ \A a \in Auth : told'[a] \in {told[a], told[a] \cup {"served"}}
<1> DEFINE new == IF conn[c].m = 0 THEN 0 ELSE cache.states
           w == [conn[c] EXCEPT !.used = new, !.m = 0, !.lines = 0]
           pays == w.pay # NoAuth /\ config.paid /\ ~Authorised(w)
           r == [w EXCEPT !.at = IF pays THEN "verify" ELSE "idle",
                          !.reply = IF pays THEN "none" ELSE "served"]
<1>1. new \in Nat /\ conn[c] \in Work
    BY DEF ServeTyped
<1>2. w \in Work
    BY <1>1 DEF Work
<1>3. conn' = [conn EXCEPT ![c] = r]
    BY DEF Use
<1>4. told' = [a \in Auth |-> IF a = w.pay /\ ~pays THEN told[a] \cup {"served"} ELSE told[a]]
    BY DEF Use
<1>5. pays => w.pay \in Auth /\ w.pay = conn[c].pay
    BY <1>1, <1>2 DEF Work
<1> HIDE DEF pays, w, new
<1>6. r \in Work
    BY <1>2 DEF Work, At, Reply
<1>7. told' \in [Auth -> SUBSET Reply] /\ \A a \in Auth : told'[a] \in {told[a], told[a] \cup {"served"}}
    BY <1>4 DEF ServeTyped, Reply
<1>8. conn' \in [Conn -> Work] /\ OnlyMoves(c, r)
    BY <1>3, <1>6, MoveTyped
<1>9. CASE pays
    BY <1>5, <1>7, <1>8, <1>9 DEF w, new
<1>10. CASE ~pays
    BY <1>7, <1>8, <1>10 DEF w, new
<1> QED
    BY <1>9, <1>10

\* The lanes that answer a request before its lookup.
LEMMA LaneReplies ==
    ASSUME NEW w PROVE Lane(w) \in {"served", "refused", "pay", "lookup"}
    BY DEF Lane

\* What take does: the request is answered without a receipt, or goes on to its lookup.
LEMMA TakeEffect ==
    ASSUME ServeTyped, NEW c \in Conn, Take(c)
    PROVE  \/ Goes(c, "stat")
           \/ \E reply \in {"limited", "refused", "pay"} : Answered(c, reply)
           \/ conn[c].kind = "static" /\ Answered(c, "served")
<1>1. \/ Answered(c, "limited")
      \/ Lane(conn[c]) = "lookup" /\ Goes(c, "stat")
      \/ Lane(conn[c]) # "lookup" /\ Answered(c, Lane(conn[c]))
    BY DEF Take
<1>2. Lane(conn[c]) = "served" => conn[c].kind = "static"
    BY DEF Lane
<1> QED
    BY <1>1, <1>2, LaneReplies

-----------------------------------------------------------------------------
(***************************************************************************)
(* Permits.                                                                *)
(***************************************************************************)
Working(k) == k.at \notin {"new", "closed"}
Busy == {c \in Conn : Working(conn[c])}

\* There are finitely many workers, since there are finitely many connections.
LEMMA BusyFinite == IsFiniteSet(Busy) /\ Cardinality(Busy) \in Nat
<1>1. IsFiniteSet(Conn) /\ Busy \subseteq Conn
    BY ServeAssumption DEF Busy
<1> QED
    BY <1>1, FS_Subset, FS_CardinalityType

\* A worker that stays at work, or a connection that stays out, changes no count.
LEMMA BusyStays ==
    ASSUME NEW c \in Conn, NEW r, OnlyMoves(c, r), Working(r) <=> Working(conn[c])
    PROVE  Busy' = Busy
    BY DEF OnlyMoves, Busy

\* A connection that is taken up is one more at work.
LEMMA BusyJoins ==
    ASSUME NEW c \in Conn, NEW r, OnlyMoves(c, r), Working(r), ~Working(conn[c])
    PROVE  Cardinality(Busy') = Cardinality(Busy) + 1
<1>1. Busy' = Busy \cup {c} /\ c \notin Busy
    BY DEF OnlyMoves, Busy
<1> QED
    BY <1>1, BusyFinite, FS_AddElement

\* A connection that is let go is one less.
LEMMA BusyLeaves ==
    ASSUME NEW c \in Conn, NEW r, OnlyMoves(c, r), ~Working(r), Working(conn[c])
    PROVE  Cardinality(Busy') = Cardinality(Busy) - 1
<1>1. Busy' = Busy \ {c} /\ c \in Busy
    BY DEF OnlyMoves, Busy
<1> QED
    BY <1>1, BusyFinite, FS_RemoveElement

\* PermitsBalanced in terms of the workers that are busy,
LEMMA PermitsAreBusy ==
    PermitsBalanced <=> permits + leaked + Cardinality(Busy) = config.inflight
    BY DEF PermitsBalanced, Busy, Working

\* and the same of the state behind a step.
LEMMA PermitsAreBusyNext ==
    PermitsBalanced' <=> permits' + leaked' + Cardinality(Busy') = config'.inflight
    BY DEF PermitsBalanced, Busy, Working

\* Whoever comes to work takes a permit and whoever leaves gives it back.
LEMMA PermitsKept ==
    ASSUME ServeTyped, PermitsBalanced, NEW c \in Conn, NEW r, OnlyMoves(c, r),
           config' = config, leaked' = leaked,
           permits' = IF Working(r) <=> Working(conn[c]) THEN permits
                      ELSE IF Working(r) THEN permits - 1 ELSE permits + 1
    PROVE  PermitsBalanced'
<1>1. permits \in Nat /\ leaked \in Nat /\ Cardinality(Busy) \in Nat
    BY BusyFinite DEF ServeTyped
<1>2. permits + leaked + Cardinality(Busy) = config.inflight
    BY PermitsAreBusy
<1>3. CASE Working(r) <=> Working(conn[c])
    BY <1>1, <1>2, <1>3, BusyStays, PermitsAreBusyNext
<1>4. CASE Working(r) /\ ~Working(conn[c])
  <2>1. permits' = permits - 1 /\ Cardinality(Busy') = Cardinality(Busy) + 1
    BY <1>4, BusyJoins
  <2> QED
    BY <1>1, <1>2, <2>1, PermitsAreBusyNext
<1>5. CASE ~Working(r) /\ Working(conn[c])
  <2>1. permits' = permits + 1 /\ Cardinality(Busy') = Cardinality(Busy) - 1
    BY <1>5, BusyLeaves
  <2> QED
    BY <1>1, <1>2, <2>1, PermitsAreBusyNext
<1> QED
    BY <1>3, <1>4, <1>5

\* Without a step of a worker nothing changes.
LEMMA PermitsIdle ==
    ASSUME PermitsBalanced, UNCHANGED <<conn, permits, leaked, config>>
    PROVE  PermitsBalanced'
<1>1. Busy' = Busy
    BY DEF Busy
<1> QED
    BY <1>1, PermitsAreBusy, PermitsAreBusyNext

-----------------------------------------------------------------------------
(***************************************************************************)
(* Payments.                                                               *)
(***************************************************************************)
\* A step that settles nothing hands out no receipt.
LEMMA PaidKept ==
    ASSUME PaymentsAccounted, spent' = spent,
           \A a \in Auth : told[a] \subseteq told'[a] /\ ("receipt" \in told'[a] => "receipt" \in told[a])
    PROVE  PaymentsAccounted'
    BY DEF PaymentsAccounted

\* A step that settles the authorisation of c tells it so, or that it does not
\* know, or nothing.
LEMMA SettleAccounts ==
    ASSUME ServeTyped, PaymentsAccounted, NEW c \in Conn, conn[c].pay \in Auth,
           NEW happens \in BOOLEAN, Settles(c, happens),
           NEW reply \in {"receipt", "failed", "unknown", "dropped"},
           \A a \in Auth : told'[a] = IF a = conn[c].pay THEN told[a] \cup {reply} ELSE told[a],
           reply = "receipt" => happens,
           reply = "failed" => ~happens
    PROVE  PaymentsAccounted' /\ spent' \in [Auth -> Conn \cup {NoAuth}]
<1> DEFINE p == conn[c].pay
<1>1. c # NoAuth /\ spent \in [Auth -> Conn \cup {NoAuth}]
    BY ServeAssumption DEF ServeTyped
<1>2. CASE happens
  <2>1. spent' = [spent EXCEPT ![p] = c]
    BY <1>2 DEF Settles
  <2>2. reply \in {"receipt", "unknown", "dropped"}
    BY <1>2
  <2> QED
    BY <1>1, <2>1, <2>2 DEF PaymentsAccounted
<1>3. CASE ~happens
  <2>1. spent' = spent /\ reply # "receipt"
    BY <1>3 DEF Settles
  <2>2. \A a \in Auth : told[a] \subseteq told'[a] /\ ("receipt" \in told'[a] => "receipt" \in told[a])
    BY <2>1
  <2> QED
    BY <1>1, <2>1, <2>2, PaidKept
<1> QED
    BY <1>2, <1>3

-----------------------------------------------------------------------------
(***************************************************************************)
(* Freshness.                                                              *)
(***************************************************************************)
FreshInv == NotNewer /\ FreshUnlessRaced /\ (~raced => OneRefresh /\ NewEnough)

\* A worker that goes where it needs nothing of the cache, with no answer from it.
LEMMA FreshElsewhere ==
    ASSUME ServeTyped, FreshInv, NEW c \in Conn, NEW r \in Work, OnlyMoves(c, r),
           UNCHANGED <<file, cache, raced>>,
           r.since <= file,
           r.at \notin {"compare", "use", "verify", "settle"} \cup Refreshing,
           r.kind \notin Lookups \/ r.reply \notin {"served", "receipt"} \/ r.excused \/ r.since <= r.used
    PROVE  FreshInv'
<1>1. NotNewer'
    BY DEF FreshInv, NotNewer, OnlyMoves, Refreshing
<1>2. FreshUnlessRaced'
    BY DEF FreshInv, FreshUnlessRaced, OnlyMoves
<1>3. ~raced' => OneRefresh'
    BY DEF FreshInv, OneRefresh, OnlyMoves, Refreshing
<1>4. ~raced' => NewEnough'
    BY DEF FreshInv, NewEnough, OnlyMoves, Refreshing
<1> QED
    BY <1>1, <1>2, <1>3, <1>4 DEF FreshInv

\* The same when the file grows.
LEMMA FreshGrows ==
    ASSUME ServeTyped, FreshInv, UNCHANGED <<conn, cache, raced>>, file' \in {file, file + 1}
    PROVE  FreshInv'
<1>1. NotNewer'
  <2>1. file \in Nat /\ cache.mtime \in Nat
    BY DEF ServeTyped
  <2>2. \A c \in Conn : conn[c].since \in Nat /\ conn[c].m \in Nat
    BY DEF ServeTyped, Work
  <2> QED
    BY <2>1, <2>2 DEF FreshInv, NotNewer
<1> QED
    BY <1>1 DEF FreshInv, FreshUnlessRaced, OneRefresh, NewEnough

-----------------------------------------------------------------------------
(***************************************************************************)
(* Steps.                                                                  *)
(***************************************************************************)
\* A worker that has nothing to do is proper.
LEMMA FreshTyped ==
    Fresh \in Work /\ Fresh.since = 0 /\ Fresh.used = 0 /\ Fresh.reply = "none"
<1>1. (CHOOSE i \in Ident : TRUE) \in Ident
    BY ServeAssumption
<1> QED
    BY <1>1 DEF Fresh, Work, At, Kind, Lookups, Reply

\* What is left of ServeTyped once the workers are known to be proper.
LEMMA TypedKept ==
    ASSUME ServeTyped, NEW c \in Conn, NEW r, OnlyMoves(c, r), conn' \in [Conn -> Work],
           r.at \in {"verify", "settle"} => r.pay \in Auth,
           UNCHANGED <<config, file>>, permits' \in Nat, leaked' \in Nat,
           cache' \in [mtime : Nat, states : Nat, history : Nat],
           spent' \in [Auth -> Conn \cup {NoAuth}], raced' \in BOOLEAN,
           told' \in [Auth -> SUBSET Reply]
    PROVE  ServeTyped'
    BY DEF ServeTyped, OnlyMoves

\* Steps of the accept loop, of clients and of the limiter: none of them looks at
\* the cache or settles.
LEMMA FrontKeeps ==
    ASSUME ServeInv, NEW c \in Conn,
           Accept(c) \/ Shed(c) \/ NoThread(c) \/ HangUp(c) \/ Request(c)
    PROVE  ServeInv'
<1> USE DEF serverVars, bucketVars, cacheVars, payVars, outside
<1>0. ServeTyped /\ PermitsBalanced /\ PaymentsAccounted /\ FreshInv
    BY DEF ServeInv, FreshInv
<1>1. /\ conn[c] \in Work /\ permits \in Nat /\ leaked \in Nat /\ file \in Nat
      /\ spent \in [Auth -> Conn \cup {NoAuth}] /\ raced \in BOOLEAN
      /\ cache \in [mtime : Nat, states : Nat, history : Nat] /\ told \in [Auth -> SUBSET Reply]
    BY <1>0 DEF ServeTyped
<1>2. conn[c].since <= file /\ conn[c].since \in Nat /\ conn[c].used \in Nat
    BY <1>0, <1>1 DEF FreshInv, NotNewer, Work
<1>3. \/ conn[c].kind \notin Lookups \/ conn[c].reply \notin {"served", "receipt"}
      \/ conn[c].excused \/ conn[c].since <= conn[c].used \/ raced
    BY <1>0 DEF FreshInv, FreshUnlessRaced
<1>4. CASE Accept(c) \/ Shed(c) \/ NoThread(c)
  <2> DEFINE at == IF Accept(c) THEN "idle" ELSE "closed"
             r == [conn[c] EXCEPT !.at = at]
  <2>1. Goes(c, at) /\ at \in {"idle", "closed"} /\ at \in At
    BY <1>4 DEF Accept, Shed, NoThread, At
  <2>2. conn' \in [Conn -> Work] /\ told' = told /\ OnlyMoves(c, r)
    BY <1>0, <2>1, GoesEffect
  <2>3. r \in Work
    BY <2>2 DEF OnlyMoves
  <2> HIDE DEF at
  <2>4. /\ r.at = at /\ r.since = conn[c].since /\ r.used = conn[c].used /\ r.kind = conn[c].kind
        /\ r.reply = conn[c].reply /\ r.excused = conn[c].excused
    BY <1>1 DEF Work
  <2>5. /\ UNCHANGED <<config, file, cache, raced, spent>> /\ permits' \in Nat /\ leaked' \in Nat
        /\ conn[c].at = "new"
    BY <1>1, <1>4 DEF Accept, Shed, NoThread
  <2> HIDE DEF r
  <2>6. ServeTyped'
    BY <1>0, <1>1, <2>1, <2>2, <2>4, <2>5, TypedKept
  <2>7. PermitsBalanced'
    <3>1. CASE Accept(c) \/ Shed(c)
      <4>1. leaked' = leaked /\ permits' = IF Working(r) <=> Working(conn[c]) THEN permits
                      ELSE IF Working(r) THEN permits - 1 ELSE permits + 1
        BY <2>1, <2>4, <2>5, <3>1 DEF Accept, Shed, Working, at
      <4> QED
        BY <1>0, <2>2, <2>5, <4>1, PermitsKept
    <3>2. CASE NoThread(c) /\ ~Accept(c)
      <4>1. Busy' = Busy
        BY <2>2, <2>4, <2>5, <3>2, BusyStays DEF Working, at
      <4>2. permits' = permits - 1 /\ leaked' = leaked + 1
        BY <3>2 DEF NoThread
      <4> QED
        BY <1>0, <1>1, <2>5, <4>1, <4>2, BusyFinite, PermitsAreBusy, PermitsAreBusyNext
    <3> QED
      BY <1>4, <3>1, <3>2
  <2>8. PaymentsAccounted'
    BY <1>0, <2>2, <2>5, PaidKept
  <2>9. FreshInv'
    <3>1. CASE raced
      BY <1>0, <2>1, <2>2, <2>4, <2>5, <3>1, <1>2
      DEF FreshInv, FreshUnlessRaced, NotNewer, OnlyMoves, Refreshing
    <3>2. CASE ~raced
      BY <1>0, <1>2, <1>3, <2>1, <2>2, <2>3, <2>4, <2>5, <3>2, FreshElsewhere DEF Refreshing
    <3> QED
      BY <3>1, <3>2
  <2> QED
    BY <2>6, <2>7, <2>8, <2>9 DEF ServeInv, FreshInv
<1>5. CASE HangUp(c)
  <2> DEFINE r == [Fresh EXCEPT !.at = "closed"]
  <2>1. r \in Work /\ r.at = "closed" /\ r.since = 0 /\ r.used = 0
    BY FreshTyped DEF Work, At
  <2>2. conn' = [conn EXCEPT ![c] = r]
    BY <1>5 DEF HangUp
  <2> HIDE DEF r
  <2>3. conn' \in [Conn -> Work] /\ OnlyMoves(c, r)
    BY <1>0, <2>1, <2>2, MoveTyped
  <2>4. /\ UNCHANGED <<config, file, cache, raced, spent, told, leaked>> /\ permits' = permits + 1
        /\ conn[c].at = "idle"
    BY <1>5 DEF HangUp
  <2>5. ServeTyped'
    BY <1>0, <1>1, <2>1, <2>3, <2>4, TypedKept
  <2>6. PermitsBalanced'
    BY <1>0, <2>1, <2>3, <2>4, PermitsKept DEF Working
  <2>7. PaymentsAccounted'
    BY <1>0, <2>4, PaidKept
  <2>8. FreshInv'
    BY <1>0, <1>1, <2>1, <2>3, <2>4, FreshElsewhere DEF Refreshing
  <2> QED
    BY <2>5, <2>6, <2>7, <2>8 DEF ServeInv, FreshInv
<1>6. CASE Request(c)
  <2>1. PICK k \in config.kinds, i \in config.idents, a \in Auth \cup {NoAuth} :
             conn' = [conn EXCEPT ![c] = [Fresh EXCEPT
              !.at = IF k = "health" THEN "idle" ELSE "limit",
              !.kind = k, !.ident = i, !.pay = a, !.since = file,
              !.reply = IF k = "health" THEN "served" ELSE "none"]]
    BY <1>6 DEF Request
  <2> DEFINE r == [Fresh EXCEPT
              !.at = IF k = "health" THEN "idle" ELSE "limit",
              !.kind = k, !.ident = i, !.pay = a, !.since = file,
              !.reply = IF k = "health" THEN "served" ELSE "none"]
  <2>2. k \in Kind /\ i \in Ident
    <3>1. config \in Deployment
      BY <1>0, ServeAssumption DEF ServeTyped
    <3> QED
      BY <3>1 DEF Deployment
  <2>3. r \in Work
    BY <1>1, <2>2, FreshTyped DEF Work, At, Reply
  <2>4. /\ r.at \in {"idle", "limit"} /\ r.since = file
        /\ r.kind \notin Lookups \/ r.reply \notin {"served", "receipt"}
    BY <2>2, FreshTyped DEF Work, Lookups
  <2>5. conn' = [conn EXCEPT ![c] = r]
    BY <2>1
  <2> HIDE DEF r
  <2>6. conn' \in [Conn -> Work] /\ OnlyMoves(c, r)
    BY <1>0, <2>3, <2>5, MoveTyped
  <2>7. /\ UNCHANGED <<config, file, cache, raced, spent, told, leaked, permits>>
        /\ conn[c].at = "idle"
    BY <1>6 DEF Request
  <2>8. ServeTyped'
    BY <1>0, <1>1, <2>4, <2>6, <2>7, TypedKept
  <2>9. PermitsBalanced'
    BY <1>0, <2>4, <2>6, <2>7, PermitsKept DEF Working
  <2>10. PaymentsAccounted'
    BY <1>0, <2>7, PaidKept
  <2>11. FreshInv'
    BY <1>0, <1>1, <2>3, <2>4, <2>6, <2>7, FreshElsewhere DEF Refreshing
  <2> QED
    BY <2>8, <2>9, <2>10, <2>11 DEF ServeInv, FreshInv
<1> QED
    BY <1>4, <1>5, <1>6

\* A worker that answers or goes on without a receipt or anything of the cache.
Quiet(c, r) ==
    /\ conn' \in [Conn -> Work] /\ told' \in [Auth -> SUBSET Reply] /\ OnlyMoves(c, r)
    /\ r.at \in {"idle", "stat"} /\ r.since = conn[c].since
    /\ \/ r.kind \notin Lookups \/ r.reply \notin {"served", "receipt"}
       \/ r.excused \/ r.since <= r.used \/ raced
    /\ \A a \in Auth : told[a] \subseteq told'[a]
                        /\ ("receipt" \in told'[a] => "receipt" \in told[a])

\* The steps of a worker that answer its request without a settlement, or send it
\* on to its lookup.
LEMMA AnswerKeeps ==
    ASSUME ServeInv, NEW c \in Conn, conn[c].at \in {"limit", "stat"},
           \/ Goes(c, "stat")
           \/ \E reply \in {"limited", "refused", "pay", "not found"} : Answered(c, reply)
           \/ conn[c].kind = "static" /\ Answered(c, "served"),
           UNCHANGED <<config, file, cache, raced, spent, permits, leaked>>
    PROVE  ServeInv'
<1>0. ServeTyped /\ PermitsBalanced /\ PaymentsAccounted /\ FreshInv
    BY DEF ServeInv, FreshInv
<1>1. /\ conn[c] \in Work /\ permits \in Nat /\ leaked \in Nat /\ file \in Nat
      /\ spent \in [Auth -> Conn \cup {NoAuth}] /\ raced \in BOOLEAN
      /\ cache \in [mtime : Nat, states : Nat, history : Nat] /\ told \in [Auth -> SUBSET Reply]
    BY <1>0 DEF ServeTyped
<1>2. conn[c].since <= file
    BY <1>0 DEF FreshInv, NotNewer
<1>3. \E r \in Work : Quiet(c, r)
  <2>1. CASE Goes(c, "stat")
    <3> DEFINE r == [conn[c] EXCEPT !.at = "stat"]
    <3>1. conn' \in [Conn -> Work] /\ told' = told /\ OnlyMoves(c, r)
      BY <1>0, <2>1, GoesEffect DEF At
    <3>2. r \in Work
      BY <1>1 DEF Work, At
    <3>3. /\ r.at = "stat" /\ r.since = conn[c].since /\ r.used = conn[c].used
          /\ r.kind = conn[c].kind /\ r.reply = conn[c].reply /\ r.excused = conn[c].excused
      BY <1>1 DEF Work
    <3> HIDE DEF r
    <3>4. \/ r.kind \notin Lookups \/ r.reply \notin {"served", "receipt"}
          \/ r.excused \/ r.since <= r.used \/ raced
      BY <1>0, <3>3 DEF FreshInv, FreshUnlessRaced
    <3> QED
      BY <1>1, <3>1, <3>2, <3>3, <3>4 DEF Quiet
  <2>2. ASSUME NEW reply \in {"limited", "refused", "pay", "not found", "served"},
               Answered(c, reply), reply = "served" => conn[c].kind = "static"
        PROVE  \E r \in Work : Quiet(c, r)
    <3> DEFINE r == [conn[c] EXCEPT !.at = "idle", !.reply = reply]
    <3>0. reply \in Reply
      BY DEF Reply
    <3>1. /\ conn' \in [Conn -> Work] /\ told' \in [Auth -> SUBSET Reply] /\ OnlyMoves(c, r)
          /\ \A a \in Auth : told'[a] = IF a = conn[c].pay THEN told[a] \cup {reply} ELSE told[a]
      BY <1>0, <2>2, <3>0, AnsweredEffect
    <3>2. r \in Work
      BY <1>1, <3>0 DEF Work, At
    <3>3. r.at = "idle" /\ r.since = conn[c].since /\ r.kind = conn[c].kind /\ r.reply = reply
      BY <1>1 DEF Work
    <3> HIDE DEF r
    <3>4. r.kind \notin Lookups \/ r.reply \notin {"served", "receipt"}
      BY <2>2, <3>3 DEF Lookups
    <3>5. \A a \in Auth : told[a] \subseteq told'[a]
                            /\ ("receipt" \in told'[a] => "receipt" \in told[a])
      <4>1. reply # "receipt"
        OBVIOUS
      <4>2. \A a \in Auth : told'[a] = told[a] \/ told'[a] = told[a] \cup {reply}
        BY <3>1
      <4> HIDE DEF r
      <4> QED
        BY <4>1, <4>2
    <3>6. Quiet(c, r)
      BY <3>1, <3>3, <3>4, <3>5 DEF Quiet
    <3> QED
      BY <3>2, <3>6
  <2>3. CASE \E reply \in {"limited", "refused", "pay", "not found"} : Answered(c, reply)
    BY <2>2, <2>3
  <2>4. CASE conn[c].kind = "static" /\ Answered(c, "served")
    BY <2>2, <2>4
  <2> QED
    BY <2>1, <2>3, <2>4
<1>4. PICK r \in Work : Quiet(c, r)
    BY <1>3
<1>5. ServeTyped'
    BY <1>0, <1>1, <1>4, TypedKept DEF Quiet
<1>6. PermitsBalanced'
    BY <1>0, <1>4, PermitsKept DEF Working, Quiet
<1>7. PaymentsAccounted'
    BY <1>0, <1>4, PaidKept DEF Quiet
<1>8. FreshInv'
  <2>1. CASE raced
    BY <1>0, <1>2, <1>4, <2>1
    DEF FreshInv, FreshUnlessRaced, NotNewer, OnlyMoves, Refreshing, Quiet
  <2>2. CASE ~raced
    BY <1>0, <1>2, <1>4, <2>2, FreshElsewhere DEF Refreshing, Quiet
  <2> QED
    BY <2>1, <2>2
<1> QED
    BY <1>5, <1>6, <1>7, <1>8 DEF ServeInv, FreshInv

\* A request that gets its thread, whether a lane answers it or it goes on.
LEMMA TakeKeeps == ASSUME ServeInv, NEW c \in Conn, Take(c) \/ NoAnswer(c) PROVE ServeInv'
<1> USE DEF cacheVars, outside
<1>1. CASE Take(c)
  <2>1. /\ conn[c].at = "limit"
        /\ UNCHANGED <<config, file, cache, raced, spent, permits, leaked>>
    BY <1>1 DEF Take
  <2>2. \/ Goes(c, "stat")
        \/ \E reply \in {"limited", "refused", "pay"} : Answered(c, reply)
        \/ conn[c].kind = "static" /\ Answered(c, "served")
    BY <1>1, TakeEffect DEF ServeInv
  <2> QED
    BY <2>1, <2>2, AnswerKeeps
<1>2. CASE NoAnswer(c)
  <2>1. /\ conn[c].at = "stat" /\ Answered(c, "not found")
        /\ UNCHANGED <<config, file, cache, raced, spent, permits, leaked>>
    BY <1>2 DEF NoAnswer
  <2> QED
    BY <2>1, AnswerKeeps
<1> QED
    BY <1>1, <1>2

-----------------------------------------------------------------------------
\* A step inside the lookup: permits, payments and what clients were told stay.
LEMMA LookupKeeps ==
    ASSUME ServeInv, NEW c \in Conn, NEW r \in Work, conn' = [conn EXCEPT ![c] = r],
           Working(conn[c]), r.at \in {"compare", "use"} \cup Refreshing,
           UNCHANGED <<config, file, spent, told, permits, leaked>>,
           cache' \in [mtime : Nat, states : Nat, history : Nat], raced' \in BOOLEAN, FreshInv'
    PROVE  ServeInv'
<1>0. ServeTyped /\ PermitsBalanced /\ PaymentsAccounted
    BY DEF ServeInv
<1>1. conn' \in [Conn -> Work] /\ OnlyMoves(c, r)
    BY <1>0, MoveTyped
<1>2. /\ permits' \in Nat /\ leaked' \in Nat /\ spent' \in [Auth -> Conn \cup {NoAuth}]
      /\ told' \in [Auth -> SUBSET Reply]
    BY <1>0 DEF ServeTyped
<1>3. ServeTyped'
    BY <1>0, <1>1, <1>2, TypedKept DEF Refreshing
<1>4. PermitsBalanced'
    BY <1>0, <1>1, PermitsKept DEF Working, Refreshing
<1>5. PaymentsAccounted'
    BY <1>0, PaidKept
<1> QED
    BY <1>3, <1>4, <1>5 DEF ServeInv, FreshInv

\* The numbers that the freshness of an answer is about.
LEMMA Numbers ==
    ASSUME ServeTyped
    PROVE  /\ file \in Nat /\ cache.mtime \in Nat /\ cache.states \in Nat
           /\ \A d \in Conn : /\ conn[d].since \in Nat /\ conn[d].m \in Nat
                              /\ conn[d].lines \in Nat /\ conn[d].used \in Nat
    BY DEF ServeTyped, Work

\* A step inside the lookup moves no answer.
LEMMA AnswersStand ==
    ASSUME FreshUnlessRaced, NEW c \in Conn, NEW r, OnlyMoves(c, r), raced => raced',
           r.kind = conn[c].kind, r.reply = conn[c].reply, r.used = conn[c].used,
           r.since = conn[c].since, conn[c].excused => r.excused
    PROVE  FreshUnlessRaced'
    BY DEF FreshUnlessRaced, OnlyMoves

\* The stat that a lookup begins with.
LEMMA StatKeeps == ASSUME ServeInv, NEW c \in Conn, Stat(c) PROVE ServeInv'
<1> USE DEF bucketVars, cacheVars, payVars, outside
<1> DEFINE at == IF file = 0 THEN "use" ELSE "compare"
           r == [conn[c] EXCEPT !.m = file, !.at = at]
<1>0. ServeTyped /\ FreshInv /\ conn[c] \in Work /\ file \in Nat
    BY DEF ServeInv, FreshInv, ServeTyped
<1>1. r \in Work
    BY <1>0 DEF Work, At
<1>2. conn' = [conn EXCEPT ![c] = r] /\ conn[c].at = "stat"
    BY DEF Stat
<1>3. /\ r.at = at /\ r.m = file /\ r.kind = conn[c].kind /\ r.reply = conn[c].reply
      /\ r.since = conn[c].since /\ r.used = conn[c].used /\ r.excused = conn[c].excused
    BY <1>0 DEF Work
<1> HIDE DEF r
<1>4. OnlyMoves(c, r)
    BY <1>0, <1>1, <1>2, MoveTyped
<1>5. UNCHANGED <<config, file, cache, raced, spent, told, permits, leaked>>
    BY DEF Stat
<1>6. NotNewer'
    BY <1>0, <1>3, <1>4, <1>5, Numbers DEF FreshInv, NotNewer, OnlyMoves, Refreshing
<1>7. FreshUnlessRaced'
    BY <1>0, <1>3, <1>4, <1>5, AnswersStand DEF FreshInv
<1>8. ~raced' => OneRefresh'
    BY <1>0, <1>3, <1>4, <1>5 DEF FreshInv, OneRefresh, OnlyMoves, Refreshing
<1>9. ~raced' => NewEnough'
    BY <1>0, <1>3, <1>4, <1>5, Numbers DEF FreshInv, NotNewer, NewEnough, OnlyMoves
<1>10. FreshInv'
    BY <1>6, <1>7, <1>8, <1>9 DEF FreshInv
<1>11. /\ cache' \in [mtime : Nat, states : Nat, history : Nat] /\ raced' \in BOOLEAN
       /\ Working(conn[c]) /\ r.at \in {"compare", "use"} \cup Refreshing
    BY <1>0, <1>2, <1>3, <1>5 DEF ServeTyped, Working
<1> QED
    BY <1>1, <1>2, <1>5, <1>10, <1>11, LookupKeeps

\* The comparison with the cached mtime, which decides on a refresh.
LEMMA CompareKeeps == ASSUME ServeInv, NEW c \in Conn, Compare(c) PROVE ServeInv'
<1> USE DEF bucketVars, outside
<1> DEFINE at == IF cache.mtime = conn[c].m THEN "use" ELSE "read"
           r == [conn[c] EXCEPT !.at = at]
<1>0. ServeTyped /\ FreshInv /\ conn[c] \in Work
    BY DEF ServeInv, FreshInv, ServeTyped
<1>1. r \in Work
    BY <1>0 DEF Work, At
<1>2. conn' = [conn EXCEPT ![c] = r] /\ conn[c].at = "compare" /\ told' = told
    BY DEF Compare, Goes
<1>3. /\ r.at = at /\ r.m = conn[c].m /\ r.kind = conn[c].kind /\ r.reply = conn[c].reply
      /\ r.since = conn[c].since /\ r.used = conn[c].used /\ r.excused = conn[c].excused
    BY <1>0 DEF Work
<1> HIDE DEF r
<1>4. OnlyMoves(c, r)
    BY <1>0, <1>1, <1>2, MoveTyped
<1>5. UNCHANGED <<config, file, cache, spent, permits, leaked>>
    BY DEF Compare
<1>6. /\ raced' \in BOOLEAN /\ (raced => raced')
      /\ ~raced' /\ at = "read" => \A d \in Conn : conn[d].at \notin Refreshing
    BY <1>0 DEF Compare, ServeTyped
<1>7. conn[c].since <= conn[c].m /\ conn[c].m <= file
    BY <1>0, <1>2 DEF FreshInv, NotNewer
<1>8. NotNewer'
    BY <1>0, <1>3, <1>4, <1>5, <1>7, Numbers DEF FreshInv, NotNewer, OnlyMoves, Refreshing
<1>9. FreshUnlessRaced'
    BY <1>0, <1>3, <1>4, <1>6, AnswersStand DEF FreshInv
<1>10. ~raced' => OneRefresh'
    BY <1>0, <1>3, <1>4, <1>5, <1>6 DEF FreshInv, OneRefresh, OnlyMoves, Refreshing
<1>11. ~raced' => NewEnough'
  <2>1. SUFFICES ASSUME ~raced' PROVE NewEnough'
    OBVIOUS
  <2>2. OneRefresh /\ NewEnough
    BY <1>0, <1>6, <2>1 DEF FreshInv
  <2>3. r.at = "use" =>
            /\ conn[c].since <= cache.states
            /\ \A d \in Conn : conn[d].at = "states" => conn[c].since <= conn[d].lines
    BY <1>0, <1>3, <1>7, <2>2, Numbers DEF OneRefresh
  <2>4. conn[c].m = 0 => conn[c].since = 0
    BY <1>0, <1>7, Numbers
  <2> QED
    BY <1>3, <1>4, <1>5, <2>2, <2>3, <2>4 DEF NewEnough, OnlyMoves
<1>12. FreshInv'
    BY <1>8, <1>9, <1>10, <1>11 DEF FreshInv
<1>13. /\ cache' \in [mtime : Nat, states : Nat, history : Nat]
       /\ Working(conn[c]) /\ r.at \in {"compare", "use"} \cup Refreshing
    BY <1>0, <1>2, <1>3, <1>5 DEF ServeTyped, Working, Refreshing
<1> QED
    BY <1>1, <1>2, <1>5, <1>6, <1>12, <1>13, LookupKeeps

\* The file is read as it is now, which may be newer than the stat.
LEMMA ReadKeeps == ASSUME ServeInv, NEW c \in Conn, Read(c) PROVE ServeInv'
<1> USE DEF bucketVars, cacheVars, payVars, outside
<1> DEFINE r == [conn[c] EXCEPT !.lines = file, !.at = "states"]
<1>0. ServeTyped /\ FreshInv /\ conn[c] \in Work /\ file \in Nat
    BY DEF ServeInv, FreshInv, ServeTyped
<1>1. r \in Work
    BY <1>0 DEF Work, At
<1>2. conn' = [conn EXCEPT ![c] = r] /\ conn[c].at = "read"
    BY DEF Read
<1>3. /\ r.at = "states" /\ r.lines = file /\ r.m = conn[c].m
      /\ r.kind = conn[c].kind /\ r.reply = conn[c].reply
      /\ r.since = conn[c].since /\ r.used = conn[c].used /\ r.excused = conn[c].excused
    BY <1>0 DEF Work
<1> HIDE DEF r
<1>4. OnlyMoves(c, r)
    BY <1>0, <1>1, <1>2, MoveTyped
<1>5. UNCHANGED <<config, file, cache, raced, spent, told, permits, leaked>>
    BY DEF Read
<1>6. conn[c].since <= conn[c].m /\ conn[c].m <= file /\ cache.mtime <= file
    BY <1>0, <1>2 DEF FreshInv, NotNewer, Refreshing
<1>7. NotNewer'
    BY <1>0, <1>3, <1>4, <1>5, <1>6 DEF FreshInv, NotNewer, OnlyMoves, Refreshing
<1>8. FreshUnlessRaced'
    BY <1>0, <1>3, <1>4, <1>5, AnswersStand DEF FreshInv
<1>9. ~raced' => OneRefresh'
    BY <1>0, <1>2, <1>3, <1>4, <1>5, <1>6 DEF FreshInv, OneRefresh, OnlyMoves, Refreshing
<1>10. ~raced' => NewEnough'
    BY <1>0, <1>3, <1>4, <1>5 DEF FreshInv, NotNewer, NewEnough, OnlyMoves
<1>11. FreshInv'
    BY <1>7, <1>8, <1>9, <1>10 DEF FreshInv
<1>12. /\ cache' \in [mtime : Nat, states : Nat, history : Nat] /\ raced' \in BOOLEAN
       /\ Working(conn[c]) /\ r.at \in {"compare", "use"} \cup Refreshing
    BY <1>0, <1>2, <1>3, <1>5 DEF ServeTyped, Working, Refreshing
<1> QED
    BY <1>1, <1>2, <1>5, <1>11, <1>12, LookupKeeps

\* A failed read leaves the cache as it is.
LEMMA ReadFailsKeeps == ASSUME ServeInv, NEW c \in Conn, ReadFails(c) PROVE ServeInv'
<1> USE DEF bucketVars, cacheVars, payVars
<1> DEFINE r == [conn[c] EXCEPT !.at = "use", !.excused = TRUE]
<1>0. ServeTyped /\ FreshInv /\ conn[c] \in Work
    BY DEF ServeInv, FreshInv, ServeTyped
<1>1. r \in Work
    BY <1>0 DEF Work, At
<1>2. conn' = [conn EXCEPT ![c] = r] /\ conn[c].at = "read"
    BY DEF ReadFails
<1>3. /\ r.at = "use" /\ r.m = conn[c].m /\ r.kind = conn[c].kind /\ r.reply = conn[c].reply
      /\ r.since = conn[c].since /\ r.used = conn[c].used /\ r.excused
    BY <1>0 DEF Work
<1> HIDE DEF r
<1>4. OnlyMoves(c, r)
    BY <1>0, <1>1, <1>2, MoveTyped
<1>5. UNCHANGED <<config, file, cache, raced, spent, told, permits, leaked>>
    BY DEF ReadFails
<1>6. NotNewer'
    BY <1>0, <1>3, <1>4, <1>5 DEF FreshInv, NotNewer, OnlyMoves, Refreshing
<1>7. FreshUnlessRaced'
    BY <1>0, <1>3, <1>4, <1>5, AnswersStand DEF FreshInv
<1>8. ~raced' => OneRefresh'
    BY <1>0, <1>3, <1>4, <1>5 DEF FreshInv, OneRefresh, OnlyMoves, Refreshing
<1>9. ~raced' => NewEnough'
    BY <1>0, <1>3, <1>4, <1>5 DEF FreshInv, NewEnough, OnlyMoves
<1>10. FreshInv'
    BY <1>6, <1>7, <1>8, <1>9 DEF FreshInv
<1>11. /\ cache' \in [mtime : Nat, states : Nat, history : Nat] /\ raced' \in BOOLEAN
       /\ Working(conn[c]) /\ r.at \in {"compare", "use"} \cup Refreshing
    BY <1>0, <1>2, <1>3, <1>5 DEF ServeTyped, Working
<1> QED
    BY <1>1, <1>2, <1>5, <1>10, <1>11, LookupKeeps

\* The first of the three writes of a refresh,
LEMMA SetStatesKeeps == ASSUME ServeInv, NEW c \in Conn, SetStates(c) PROVE ServeInv'
<1> USE DEF bucketVars, outside
<1> DEFINE r == [conn[c] EXCEPT !.at = "history"]
<1>0. ServeTyped /\ FreshInv /\ conn[c] \in Work
    BY DEF ServeInv, FreshInv, ServeTyped
<1>1. r \in Work
    BY <1>0 DEF Work, At
<1>2. conn' = [conn EXCEPT ![c] = r] /\ conn[c].at = "states" /\ told' = told
    BY DEF SetStates, Goes
<1>3. /\ r.at = "history" /\ r.m = conn[c].m /\ r.lines = conn[c].lines
      /\ r.kind = conn[c].kind /\ r.reply = conn[c].reply
      /\ r.since = conn[c].since /\ r.used = conn[c].used /\ r.excused = conn[c].excused
    BY <1>0 DEF Work
<1> HIDE DEF r
<1>4. OnlyMoves(c, r)
    BY <1>0, <1>1, <1>2, MoveTyped
<1>5. UNCHANGED <<config, file, raced, spent, permits, leaked>>
    BY DEF SetStates
<1>6. /\ cache' \in [mtime : Nat, states : Nat, history : Nat]
      /\ cache'.states = conn[c].lines /\ cache'.mtime = cache.mtime
    BY <1>0, Numbers DEF SetStates, ServeTyped
<1>7. conn[c].since <= conn[c].m /\ conn[c].m <= file
    BY <1>0, <1>2 DEF FreshInv, NotNewer, Refreshing
<1>8. NotNewer'
    BY <1>0, <1>3, <1>4, <1>5, <1>6, <1>7 DEF FreshInv, NotNewer, OnlyMoves, Refreshing
<1>9. FreshUnlessRaced'
    BY <1>0, <1>3, <1>4, <1>5, AnswersStand DEF FreshInv
<1>10. ~raced' => OneRefresh'
    BY <1>0, <1>2, <1>3, <1>4, <1>5, <1>6, Numbers DEF FreshInv, OneRefresh, OnlyMoves, Refreshing
<1>11. ~raced' => NewEnough'
    BY <1>0, <1>2, <1>3, <1>4, <1>5, <1>6 DEF FreshInv, OneRefresh, NewEnough, OnlyMoves, Refreshing
<1>12. FreshInv'
    BY <1>8, <1>9, <1>10, <1>11 DEF FreshInv
<1>13. raced' \in BOOLEAN /\ Working(conn[c]) /\ r.at \in {"compare", "use"} \cup Refreshing
    BY <1>0, <1>2, <1>3, <1>5 DEF ServeTyped, Working, Refreshing
<1> QED
    BY <1>1, <1>2, <1>5, <1>6, <1>12, <1>13, LookupKeeps

\* the second,
LEMMA SetHistoryKeeps == ASSUME ServeInv, NEW c \in Conn, SetHistory(c) PROVE ServeInv'
<1> USE DEF bucketVars, outside
<1> DEFINE r == [conn[c] EXCEPT !.at = "mtime"]
<1>0. ServeTyped /\ FreshInv /\ conn[c] \in Work
    BY DEF ServeInv, FreshInv, ServeTyped
<1>1. r \in Work
    BY <1>0 DEF Work, At
<1>2. conn' = [conn EXCEPT ![c] = r] /\ conn[c].at = "history" /\ told' = told
    BY DEF SetHistory, Goes
<1>3. /\ r.at = "mtime" /\ r.m = conn[c].m /\ r.lines = conn[c].lines
      /\ r.kind = conn[c].kind /\ r.reply = conn[c].reply
      /\ r.since = conn[c].since /\ r.used = conn[c].used /\ r.excused = conn[c].excused
    BY <1>0 DEF Work
<1> HIDE DEF r
<1>4. OnlyMoves(c, r)
    BY <1>0, <1>1, <1>2, MoveTyped
<1>5. UNCHANGED <<config, file, raced, spent, permits, leaked>>
    BY DEF SetHistory
<1>6. /\ cache' \in [mtime : Nat, states : Nat, history : Nat]
      /\ cache'.states = cache.states /\ cache'.mtime = cache.mtime
    BY <1>0, Numbers DEF SetHistory, ServeTyped
<1>7. conn[c].since <= conn[c].m /\ conn[c].m <= file
    BY <1>0, <1>2 DEF FreshInv, NotNewer, Refreshing
<1>8. NotNewer'
    BY <1>0, <1>3, <1>4, <1>5, <1>6, <1>7 DEF FreshInv, NotNewer, OnlyMoves, Refreshing
<1>9. FreshUnlessRaced'
    BY <1>0, <1>3, <1>4, <1>5, AnswersStand DEF FreshInv
<1>10. ~raced' => OneRefresh'
    BY <1>0, <1>2, <1>3, <1>4, <1>5, <1>6, Numbers DEF FreshInv, OneRefresh, OnlyMoves, Refreshing
<1>11. ~raced' => NewEnough'
    BY <1>0, <1>2, <1>3, <1>4, <1>5, <1>6 DEF FreshInv, NewEnough, OnlyMoves
<1>12. FreshInv'
    BY <1>8, <1>9, <1>10, <1>11 DEF FreshInv
<1>13. raced' \in BOOLEAN /\ Working(conn[c]) /\ r.at \in {"compare", "use"} \cup Refreshing
    BY <1>0, <1>2, <1>3, <1>5 DEF ServeTyped, Working, Refreshing
<1> QED
    BY <1>1, <1>2, <1>5, <1>6, <1>12, <1>13, LookupKeeps

\* and the mtime, which makes later requests trust the other two.
LEMMA SetMtimeKeeps == ASSUME ServeInv, NEW c \in Conn, SetMtime(c) PROVE ServeInv'
<1> USE DEF bucketVars, outside
<1> DEFINE r == [conn[c] EXCEPT !.at = "use"]
<1>0. ServeTyped /\ FreshInv /\ conn[c] \in Work
    BY DEF ServeInv, FreshInv, ServeTyped
<1>1. r \in Work
    BY <1>0 DEF Work, At
<1>2. conn' = [conn EXCEPT ![c] = r] /\ conn[c].at = "mtime" /\ told' = told
    BY DEF SetMtime, Goes
<1>3. /\ r.at = "use" /\ r.m = conn[c].m /\ r.lines = conn[c].lines
      /\ r.kind = conn[c].kind /\ r.reply = conn[c].reply
      /\ r.since = conn[c].since /\ r.used = conn[c].used /\ r.excused = conn[c].excused
    BY <1>0 DEF Work
<1> HIDE DEF r
<1>4. OnlyMoves(c, r)
    BY <1>0, <1>1, <1>2, MoveTyped
<1>5. UNCHANGED <<config, file, raced, spent, permits, leaked>>
    BY DEF SetMtime
<1>6. /\ cache' \in [mtime : Nat, states : Nat, history : Nat]
      /\ cache'.states = cache.states /\ cache'.mtime = conn[c].m
    BY <1>0, Numbers DEF SetMtime, ServeTyped
<1>7. conn[c].since <= conn[c].m /\ conn[c].m <= file
    BY <1>0, <1>2 DEF FreshInv, NotNewer, Refreshing
<1>8. NotNewer'
    BY <1>0, <1>3, <1>4, <1>5, <1>6, <1>7 DEF FreshInv, NotNewer, OnlyMoves, Refreshing
<1>9. FreshUnlessRaced'
    BY <1>0, <1>3, <1>4, <1>5, AnswersStand DEF FreshInv
<1>10. ~raced' => OneRefresh'
    BY <1>0, <1>2, <1>3, <1>4, <1>5, <1>6, Numbers DEF FreshInv, OneRefresh, OnlyMoves, Refreshing
<1>11. ~raced' => NewEnough'
  <2>1. SUFFICES ASSUME ~raced' PROVE NewEnough'
    OBVIOUS
  <2>2. OneRefresh /\ NewEnough
    BY <1>0, <1>5, <2>1 DEF FreshInv
  <2>3. conn[c].since <= cache.states /\ (conn[c].m = 0 => conn[c].since = 0)
    BY <1>0, <1>2, <1>7, <2>2, Numbers DEF OneRefresh
  <2>4. \A d \in Conn : conn[d].at # "states"
    BY <1>2, <2>2 DEF OneRefresh, Refreshing
  <2> QED
    BY <1>3, <1>4, <1>6, <2>2, <2>3, <2>4 DEF NewEnough, OnlyMoves
<1>12. FreshInv'
    BY <1>8, <1>9, <1>10, <1>11 DEF FreshInv
<1>13. raced' \in BOOLEAN /\ Working(conn[c]) /\ r.at \in {"compare", "use"} \cup Refreshing
    BY <1>0, <1>2, <1>3, <1>5 DEF ServeTyped, Working, Refreshing
<1> QED
    BY <1>1, <1>2, <1>5, <1>6, <1>12, <1>13, LookupKeeps

\* An answer is made from the cache.
LEMMA UseKeeps == ASSUME ServeInv, NEW c \in Conn, Use(c) PROVE ServeInv'
<1> USE DEF bucketVars, cacheVars, outside
<1> DEFINE new == IF conn[c].m = 0 THEN 0 ELSE cache.states
           w == [conn[c] EXCEPT !.used = new, !.m = 0, !.lines = 0]
<1>0. /\ ServeTyped /\ PermitsBalanced /\ PaymentsAccounted /\ FreshInv /\ conn[c] \in Work
      /\ new \in Nat /\ conn[c].at = "use"
    BY DEF ServeInv, FreshInv, ServeTyped, Use
<1>1. PICK r : /\ conn' \in [Conn -> Work] /\ told' \in [Auth -> SUBSET Reply] /\ OnlyMoves(c, r)
               /\ \/ conn[c].pay \in Auth /\ r = [w EXCEPT !.at = "verify", !.reply = "none"]
                  \/ r = [w EXCEPT !.at = "idle", !.reply = "served"]
               /\ \A a \in Auth : told'[a] \in {told[a], told[a] \cup {"served"}}
    BY <1>0, UseEffect
<1>2. /\ r.since = conn[c].since /\ r.used = new /\ r.excused = conn[c].excused
      /\ (r.at = "verify" /\ r.pay \in Auth) \/ r.at = "idle"
    BY <1>0, <1>1 DEF Work
<1> HIDE DEF w
<1>3. UNCHANGED <<config, file, cache, raced, spent, permits, leaked>>
    BY DEF Use
<1>4. ServeTyped'
  <2>1. /\ permits' \in Nat /\ leaked' \in Nat /\ spent' \in [Auth -> Conn \cup {NoAuth}]
        /\ cache' \in [mtime : Nat, states : Nat, history : Nat] /\ raced' \in BOOLEAN
    BY <1>0, <1>3 DEF ServeTyped
  <2> QED
    BY <1>0, <1>1, <1>2, <1>3, <2>1, TypedKept
<1>5. PermitsBalanced'
    BY <1>0, <1>1, <1>2, <1>3, PermitsKept DEF Working
<1>6. PaymentsAccounted'
    BY <1>0, <1>1, <1>3, PaidKept
<1>7. ~raced /\ ~conn[c].excused => conn[c].since <= new
    BY <1>0, Numbers DEF FreshInv, NewEnough
<1> HIDE DEF new
<1>8. NotNewer'
    BY <1>0, <1>1, <1>2, <1>3 DEF FreshInv, NotNewer, OnlyMoves, Refreshing
<1>9. FreshUnlessRaced'
    BY <1>0, <1>1, <1>2, <1>3, <1>7 DEF FreshInv, FreshUnlessRaced, OnlyMoves
<1>10. ~raced' => OneRefresh' /\ NewEnough'
    BY <1>0, <1>1, <1>2, <1>3, <1>7 DEF FreshInv, OneRefresh, NewEnough, OnlyMoves, Refreshing
<1> QED
    BY <1>4, <1>5, <1>6, <1>8, <1>9, <1>10 DEF ServeInv, FreshInv

-----------------------------------------------------------------------------
\* A step of the paid lane keeps everything but the books, which it has to keep
\* itself.
LEMMA PayKeeps ==
    ASSUME ServeInv, NEW c \in Conn, conn[c].at \in {"verify", "settle"},
           NEW at \in {"idle", "closed", "settle"}, NEW reply,
           conn' \in [Conn -> Work], OnlyMoves(c, [conn[c] EXCEPT !.at = at, !.reply = reply]),
           permits' = (IF at = "closed" THEN permits + 1 ELSE permits),
           UNCHANGED <<config, file, cache, raced, leaked>>,
           spent' \in [Auth -> Conn \cup {NoAuth}], told' \in [Auth -> SUBSET Reply],
           PaymentsAccounted'
    PROVE  ServeInv'
<1> DEFINE r == [conn[c] EXCEPT !.at = at, !.reply = reply]
<1>0. /\ ServeTyped /\ PermitsBalanced /\ FreshInv /\ conn[c] \in Work /\ conn[c].pay \in Auth
    BY DEF ServeInv, FreshInv, ServeTyped
<1>1. /\ r.at = at /\ r.since = conn[c].since /\ r.used = conn[c].used
      /\ r.excused = conn[c].excused /\ r.pay = conn[c].pay
    BY <1>0 DEF Work
<1>2. OnlyMoves(c, r)
    OBVIOUS
<1> HIDE DEF r
<1>3. permits \in Nat /\ permits' \in Nat /\ leaked' \in Nat /\ raced' \in BOOLEAN
      /\ cache' \in [mtime : Nat, states : Nat, history : Nat]
    BY <1>0 DEF ServeTyped
<1>4. ServeTyped'
    BY <1>0, <1>1, <1>2, <1>3, TypedKept
<1>5. PermitsBalanced'
    BY <1>0, <1>1, <1>2, PermitsKept DEF Working
<1>6. NotNewer'
    BY <1>0, <1>1, <1>2 DEF FreshInv, NotNewer, OnlyMoves, Refreshing
<1>7. FreshUnlessRaced'
    BY <1>0, <1>1, <1>2 DEF FreshInv, FreshUnlessRaced, NewEnough, OnlyMoves
<1>8. ~raced' => OneRefresh' /\ NewEnough'
    BY <1>0, <1>1, <1>2 DEF FreshInv, OneRefresh, NewEnough, OnlyMoves, Refreshing
<1> QED
    BY <1>4, <1>5, <1>6, <1>7, <1>8 DEF ServeInv

\* The facilitator's answer about a payment that is not settled yet.
LEMMA VerifyKeeps == ASSUME ServeInv, NEW c \in Conn, Verify(c) PROVE ServeInv'
<1> USE DEF bucketVars, cacheVars, outside
<1>0. /\ ServeTyped /\ PaymentsAccounted /\ conn[c].at = "verify" /\ conn[c].pay \in Auth
      /\ conn[c] \in Work
      /\ UNCHANGED <<config, file, cache, raced, leaked, spent>>
      /\ spent' \in [Auth -> Conn \cup {NoAuth}] /\ told \in [Auth -> SUBSET Reply]
    BY DEF ServeInv, ServeTyped, Verify
<1>1. CASE Goes(c, "settle") /\ UNCHANGED permits
  <2>1. conn' \in [Conn -> Work] /\ told' = told /\ OnlyMoves(c, [conn[c] EXCEPT !.at = "settle"])
    BY <1>0, <1>1, GoesEffect DEF At
  <2>2. [conn[c] EXCEPT !.at = "settle"] = [conn[c] EXCEPT !.at = "settle", !.reply = conn[c].reply]
    BY <1>0 DEF Work
  <2>3. PaymentsAccounted'
    BY <1>0, <2>1, PaidKept
  <2>4. OnlyMoves(c, [conn[c] EXCEPT !.at = "settle", !.reply = conn[c].reply])
    BY <2>1, <2>2
  <2> QED
    BY <1>0, <1>1, <2>1, <2>3, <2>4, PayKeeps
<1>2. CASE Answered(c, "rejected") /\ UNCHANGED permits
  <2>1. /\ conn' \in [Conn -> Work] /\ told' \in [Auth -> SUBSET Reply]
        /\ OnlyMoves(c, [conn[c] EXCEPT !.at = "idle", !.reply = "rejected"])
        /\ \A a \in Auth : told'[a] = IF a = conn[c].pay THEN told[a] \cup {"rejected"} ELSE told[a]
    BY <1>0, <1>2, AnsweredEffect DEF Reply
  <2>2. PaymentsAccounted'
    BY <1>0, <2>1, PaidKept
  <2> QED
    BY <1>0, <1>2, <2>1, <2>2, PayKeeps
<1>3. CASE Escapes(c)
  <2>1. PICK at \in {"idle", "closed"} :
            /\ OnlyMoves(c, [conn[c] EXCEPT !.at = at, !.reply = "dropped"])
            /\ permits' = IF at = "idle" THEN permits ELSE permits + 1
    BY <1>0, <1>3, EscapesEffect
  <2>2. /\ conn' \in [Conn -> Work] /\ told' \in [Auth -> SUBSET Reply]
        /\ \A a \in Auth : told'[a] = IF a = conn[c].pay THEN told[a] \cup {"dropped"} ELSE told[a]
    BY <1>0, <1>3, EscapesEffect
  <2>3. PaymentsAccounted'
    BY <1>0, <2>2, PaidKept
  <2>4. permits' = IF at = "closed" THEN permits + 1 ELSE permits
    BY <2>1
  <2> QED
    BY <1>0, <2>1, <2>2, <2>3, <2>4, PayKeeps
<1> QED
    BY <1>1, <1>2, <1>3 DEF Verify

\* The settlement, with the answers that the client may get to it.
LEMMA SettleKeeps == ASSUME ServeInv, NEW c \in Conn, Settle(c) PROVE ServeInv'
<1> USE DEF bucketVars, cacheVars, outside
<1>0. /\ ServeTyped /\ PaymentsAccounted /\ conn[c].at = "settle" /\ conn[c].pay \in Auth
      /\ UNCHANGED <<config, file, cache, raced, leaked>>
    BY DEF ServeInv, ServeTyped, Settle
<1>1. ASSUME NEW happens \in BOOLEAN, NEW reply \in {"receipt", "failed", "unknown"},
             Settles(c, happens), Answered(c, reply), UNCHANGED permits,
             reply = "receipt" => happens, reply = "failed" => ~happens
      PROVE  ServeInv'
  <2>1. /\ conn' \in [Conn -> Work] /\ told' \in [Auth -> SUBSET Reply]
        /\ OnlyMoves(c, [conn[c] EXCEPT !.at = "idle", !.reply = reply])
        /\ \A a \in Auth : told'[a] = IF a = conn[c].pay THEN told[a] \cup {reply} ELSE told[a]
    <3>1. reply \in Reply
      BY DEF Reply
    <3> QED
      BY <1>0, <1>1, <3>1, AnsweredEffect
  <2>2. PaymentsAccounted' /\ spent' \in [Auth -> Conn \cup {NoAuth}]
    BY <1>0, <1>1, <2>1, SettleAccounts
  <2> QED
    BY <1>0, <1>1, <2>1, <2>2, PayKeeps
<1>2. ASSUME NEW happens \in BOOLEAN, Settles(c, happens), Escapes(c) PROVE ServeInv'
  <2>1. PICK at \in {"idle", "closed"} :
            /\ OnlyMoves(c, [conn[c] EXCEPT !.at = at, !.reply = "dropped"])
            /\ permits' = IF at = "idle" THEN permits ELSE permits + 1
    BY <1>0, <1>2, EscapesEffect
  <2>2. /\ conn' \in [Conn -> Work] /\ told' \in [Auth -> SUBSET Reply]
        /\ \A a \in Auth : told'[a] = IF a = conn[c].pay THEN told[a] \cup {"dropped"} ELSE told[a]
    BY <1>0, <1>2, EscapesEffect
  <2>3. PaymentsAccounted' /\ spent' \in [Auth -> Conn \cup {NoAuth}]
    BY <1>0, <1>2, <2>2, SettleAccounts
  <2>4. permits' = IF at = "closed" THEN permits + 1 ELSE permits
    BY <2>1
  <2> QED
    BY <1>0, <2>1, <2>2, <2>3, <2>4, PayKeeps
<1>3. \/ Settles(c, TRUE) /\ Answered(c, "receipt") /\ UNCHANGED permits
      \/ Settles(c, FALSE) /\ Answered(c, "failed") /\ UNCHANGED permits
      \/ \E happens \in BOOLEAN : Settles(c, happens) /\ Answered(c, "unknown") /\ UNCHANGED permits
      \/ \E happens \in BOOLEAN : Settles(c, happens) /\ Escapes(c)
    BY DEF Settle
<1> QED
    BY <1>1, <1>2, <1>3

-----------------------------------------------------------------------------
\* The clock and paysweep touch no worker.
LEMMA OutsideKeeps == ASSUME ServeInv, Tick \/ Paysweep \/ UNCHANGED vars PROVE ServeInv'
<1> USE DEF serverVars, bucketVars, cacheVars, payVars, outside, vars
<1>0. ServeTyped /\ PermitsBalanced /\ PaymentsAccounted /\ FreshInv
    BY DEF ServeInv, FreshInv
<1>1. /\ UNCHANGED <<conn, permits, leaked, config, cache, raced, spent, told>>
      /\ file' \in {file, file + 1} /\ file' \in Nat
    BY <1>0, Numbers DEF Tick, Paysweep
<1>2. ServeTyped'
    BY <1>0, <1>1 DEF ServeTyped
<1>3. PermitsBalanced'
    BY <1>0, <1>1, PermitsIdle
<1>4. PaymentsAccounted'
    BY <1>0, <1>1, PaidKept
<1>5. FreshInv'
    BY <1>0, <1>1, FreshGrows
<1> QED
    BY <1>2, <1>3, <1>4, <1>5 DEF ServeInv, FreshInv

\* Nobody is connected in the beginning, and the cache is empty.
LEMMA InitHolds == Init => ServeInv
<1> SUFFICES ASSUME Init PROVE ServeInv
    OBVIOUS
<1> USE DEF Init
<1> DEFINE r == [Fresh EXCEPT !.at = "new"]
<1>1. config \in Deployment
    BY ServeAssumption
<1>2. r \in Work /\ r.at = "new" /\ r.since = 0 /\ r.used = 0 /\ r.reply = "none"
    BY FreshTyped DEF Work, At
<1>3. conn = [c \in Conn |-> r]
    OBVIOUS
<1> HIDE DEF r
<1>4. conn \in [Conn -> Work] /\ \A c \in Conn : conn[c] = r
    BY <1>2, <1>3
<1>5. permits \in Nat /\ permits = config.inflight /\ file \in Nat
    BY <1>1 DEF Deployment
<1>6. ServeTyped
    BY <1>2, <1>4, <1>5 DEF ServeTyped
<1>7. PermitsBalanced
  <2>1. Busy = {}
    BY <1>2, <1>4 DEF Busy, Working
  <2>2. Cardinality(Busy) = 0
    BY <2>1, FS_EmptySet
  <2> QED
    BY <1>5, <2>2, PermitsAreBusy
<1>8. PaymentsAccounted
    BY DEF PaymentsAccounted
<1>9. NotNewer /\ FreshUnlessRaced /\ OneRefresh /\ NewEnough
    BY <1>2, <1>4, <1>5 DEF NotNewer, FreshUnlessRaced, OneRefresh, NewEnough, Refreshing
<1> QED
    BY <1>6, <1>7, <1>8, <1>9 DEF ServeInv

\* Whatever connections, requests, answers of the facilitator and versions of the
\* file there are, the invariant behind the properties below holds.
THEOREM ServeInvariant == Spec => []ServeInv
<1>1. Init => ServeInv
    BY InitHolds
<1>2. ServeInv /\ [Next]_vars => ServeInv'
  <2> SUFFICES ASSUME ServeInv, [Next]_vars PROVE ServeInv'
    OBVIOUS
  <2>1. CASE Tick \/ Paysweep \/ UNCHANGED vars
    BY <2>1, OutsideKeeps
  <2>2. ASSUME NEW c \in Conn, Server(c) \/ HangUp(c) \/ Request(c) PROVE ServeInv'
    BY <2>2, FrontKeeps DEF Server
  <2>3. ASSUME NEW c \in Conn, Worker(c) PROVE ServeInv'
    BY <2>3, TakeKeeps, StatKeeps, CompareKeeps, ReadKeeps, ReadFailsKeeps, SetStatesKeeps,
       SetHistoryKeeps, SetMtimeKeeps, UseKeeps, VerifyKeeps, SettleKeeps DEF Worker
  <2> QED
    BY <2>1, <2>2, <2>3 DEF Next
<1> QED
    BY <1>1, <1>2, PTL DEF Spec

\* _BoundedServer: permits that are free, at work or lost with a thread that did
\* not start always add up to TRUST_API_MAX_INFLIGHT.
THEOREM PermitsAddUp == Spec => []PermitsBalanced
<1>1. ServeInv => PermitsBalanced
    BY DEF ServeInv
<1> QED
    BY <1>1, ServeInvariant, PTL

\* x402pay.settle: nobody who was charged is told that there was no charge, and
\* nobody gets a receipt without one.
THEOREM NoSilentCharge == Spec => []PaymentsAccounted
<1>1. ServeInv => PaymentsAccounted
    BY DEF ServeInv
<1> QED
    BY <1>1, ServeInvariant, PTL

\* _delivery_map: as long as no two refreshes raced, an answer is as new as the
\* receipts file was when it was asked for.
THEOREM AnswersAreFresh == Spec => []FreshUnlessRaced
<1>1. ServeInv => FreshUnlessRaced
    BY DEF ServeInv
<1> QED
    BY <1>1, ServeInvariant, PTL

-----------------------------------------------------------------------------
(***************************************************************************)
(* Token buckets.                                                          *)
(***************************************************************************)
\* The limits of a deployment.
LEMMA Limits ==
    ASSUME config \in Config
    PROVE  /\ config.burst \in Nat /\ config.age \in Nat /\ Cost \in Nat /\ Cost > 0
           /\ config.burst >= Cost /\ config.age >= config.burst
           /\ HardCap \in Nat /\ HardCap > 0
           /\ config.ticks \in Nat /\ config.versions \in Nat /\ config.inflight \in Nat
           /\ config.idents \subseteq Ident /\ config.kinds \subseteq Kind
<1>1. config \in Deployment
    BY ServeAssumption
<1> QED
    BY <1>1, ServeAssumption DEF Deployment

\* The newest half of a table that is one over the bound is within it.
LEMMA HalvesWithin ==
    ASSUME NEW b, IsFiniteSet(DOMAIN b), HardCap \in Nat, HardCap > 0,
           Cardinality(DOMAIN b) = HardCap + 1, NEW K \in Halves(b)
    PROVE  K \subseteq DOMAIN b /\ Cardinality(K) <= HardCap
<1>1. Cardinality(K) = Cardinality(DOMAIN b) - (Cardinality(DOMAIN b) \div 2)
      /\ K \subseteq DOMAIN b
    BY DEF Halves
<1>2. (HardCap + 1) \div 2 >= 1
    OBVIOUS
<1> QED
    BY <1>1, <1>2

\* Whatever take keeps of a table is part of it, and leaves room for one identity.
LEMMA KeptWithin ==
    ASSUME BucketsTyped, config \in Config, NEW p \in Pool, NEW K \in Kept(buckets[p])
    PROVE  K \subseteq DOMAIN buckets[p] /\ IsFiniteSet(K) /\ Cardinality(K) <= HardCap
<1> DEFINE b == buckets[p]
           young == {i \in DOMAIN b : b[i].ts > now - config.age}
<1>1. IsFiniteSet(DOMAIN b) /\ Cardinality(DOMAIN b) <= HardCap + 1
    BY DEF BucketsTyped
<1>2. IsFiniteSet(young) /\ Cardinality(young) <= Cardinality(DOMAIN b)
    BY <1>1, FS_Subset
<1>3. Cardinality(young) \in Nat /\ Cardinality(DOMAIN b) \in Nat /\ HardCap \in Nat
      /\ HardCap > 0
    BY <1>1, <1>2, FS_CardinalityType, Limits
<1>4. \/ Cardinality(DOMAIN b) <= HardCap /\ K = DOMAIN b
      \/ Cardinality(young) <= HardCap /\ K = young
      \/ ~(Cardinality(young) <= HardCap) /\ K \in Halves([i \in young |-> b[i]])
    BY DEF Kept
<1>5. K \subseteq young \/ K = DOMAIN b
    BY <1>4 DEF Halves
<1>6. ASSUME ~(Cardinality(young) <= HardCap), K \in Halves([i \in young |-> b[i]])
      PROVE  Cardinality(K) <= HardCap
    <2> DEFINE y == [i \in young |-> b[i]]
    <2>1. DOMAIN y = young
        OBVIOUS
    <2>2. Cardinality(young) = HardCap + 1
        BY <1>1, <1>2, <1>3, <1>6
    <2> HIDE DEF y, young
    <2> QED
        BY <1>2, <1>3, <1>6, <2>1, <2>2, HalvesWithin DEF y
<1>7. Cardinality(K) <= HardCap
    BY <1>4, <1>6
<1>8. K \subseteq DOMAIN b
    BY <1>5
<1>9. IsFiniteSet(K)
    BY <1>1, <1>8, FS_Subset
<1> QED
    BY <1>7, <1>8, <1>9

\* The level of a bucket lies between nothing and its capacity.
LEMMA LevelTyped ==
    ASSUME BucketsTyped, config \in Config, NEW p \in Pool, NEW i
    PROVE  Level(buckets[p], i) \in 0..config.burst
<1>1. CASE i \in DOMAIN buckets[p]
    <2>1. buckets[p][i].tokens \in 0..config.burst /\ buckets[p][i].ts \in 0..now /\ now \in Nat
        BY <1>1 DEF BucketsTyped
    <2> QED
        BY <2>1, Limits DEF Level
<1>2. CASE i \notin DOMAIN buckets[p]
    BY <1>2, Limits DEF Level
<1> QED
    BY <1>1, <1>2

\* What the prune changes of a level: forgetting an old identity nothing, since its
\* bucket is full again, and forgetting a young one at most a burst.
LEMMA PruneLevel ==
    ASSUME BucketsTyped, config \in Config, NEW p \in Pool, NEW K, K \subseteq DOMAIN buckets[p],
           NEW i
    PROVE  LET b == [j \in K |-> buckets[p][j]]
               lost == {j \in DOMAIN buckets[p] \ K : buckets[p][j].ts > now - config.age}
           IN /\ Level(b, i) \in 0..config.burst
              /\ i \notin lost => Level(b, i) = Level(buckets[p], i)
<1> DEFINE b == [j \in K |-> buckets[p][j]]
<1>0. config.burst \in Nat /\ config.age \in Nat /\ config.age >= config.burst /\ now \in Nat
    BY Limits DEF BucketsTyped
<1>1. CASE i \in K
    <2>1. Level(b, i) = Level(buckets[p], i)
        BY <1>1 DEF Level
    <2> QED
        BY <1>1, <2>1, LevelTyped
<1>2. CASE i \notin K
    <2>1. Level(b, i) = config.burst
        BY <1>2 DEF Level
    <2>2. CASE i \notin DOMAIN buckets[p]
        BY <1>0, <2>1, <2>2 DEF Level
    <2>3. CASE i \in DOMAIN buckets[p]
        <3>1. buckets[p][i].tokens \in 0..config.burst /\ buckets[p][i].ts \in 0..now
            BY <2>3 DEF BucketsTyped
        <3> DEFINE has == buckets[p][i].tokens
                   ts == buckets[p][i].ts
        <3>2. Level(buckets[p], i) = IF has + now - ts > config.burst THEN config.burst
                                     ELSE has + now - ts
            BY <2>3 DEF Level
        <3>3. has \in Nat /\ ts \in Nat
            BY <1>0, <3>1
        <3> HIDE DEF has, ts
        <3>4. ~(ts > now - config.age) => has + now - ts >= config.burst
            BY <1>0, <3>3
        <3>5. ~(ts > now - config.age) => Level(buckets[p], i) = config.burst
            BY <1>0, <3>2, <3>3, <3>4
        <3> QED
            BY <1>0, <1>2, <2>1, <2>3, <3>5 DEF ts
    <2> QED
        BY <2>2, <2>3
<1> QED
    BY <1>1, <1>2

\* What take does to the pool of the request, and to nothing else.
Draws(c, p, K) ==
    LET w == conn[c]
        b == [j \in K |-> buckets[p][j]]
        lost == {j \in DOMAIN buckets[p] \ K : buckets[p][j].ts > now - config.age}
    IN /\ K \in Kept(buckets[p])
       /\ buckets' = [buckets EXCEPT ![p] =
              [j \in K \cup {w.ident} |-> IF j = w.ident THEN Drawn(b, j) ELSE b[j]]]
       /\ dropped' = [dropped EXCEPT ![p] = [j \in Ident |-> IF j \in lost THEN @[j] + 1 ELSE @[j]]]
       /\ IF Level(b, w.ident) < Cost
          THEN grants' = grants
          ELSE \E id : grants' = grants \cup {[pool |-> p, ident |-> w.ident, at |-> now, id |-> id]}

\* Taking from a bucket is such a draw.
LEMMA TakeDraws ==
    ASSUME NEW c \in Conn, Take(c)
    PROVE  /\ PoolOf(conn[c]) \in Pool
           /\ \E K \in Kept(buckets[PoolOf(conn[c])]) : Draws(c, PoolOf(conn[c]), K)
           /\ UNCHANGED <<config, now>>
<1>1. PoolOf(conn[c]) \in Pool
    BY DEF PoolOf, Pool
<1>2. UNCHANGED <<config, now>>
    BY DEF Take, outside
<1> QED
    BY <1>1, <1>2 DEF Take, Draws

\* The bucket behind a draw, and the level it has then.
LEMMA DrawnBucket ==
    ASSUME BucketsTyped, config \in Config, NEW b, NEW i, Level(b, i) \in 0..config.burst
    PROVE  /\ Drawn(b, i).tokens \in 0..config.burst /\ Drawn(b, i).ts = now
           /\ Drawn(b, i).tokens = IF Level(b, i) < Cost THEN Level(b, i) ELSE Level(b, i) - Cost
    BY Limits DEF Drawn, BucketsTyped

\* A draw keeps the tables in their kinds.
LEMMA DrawTyped ==
    ASSUME BucketsTyped, config \in Config, NEW c \in Conn, conn[c].ident \in Ident,
           NEW p \in Pool, NEW K, Draws(c, p, K), UNCHANGED <<config, now>>
    PROVE  /\ BucketsTyped'
           /\ \A q \in Pool : q # p => buckets'[q] = buckets[q] /\ dropped'[q] = dropped[q]
<1> DEFINE i0 == conn[c].ident
           b == [j \in K |-> buckets[p][j]]
           new == [j \in K \cup {i0} |-> IF j = i0 THEN Drawn(b, j) ELSE b[j]]
           lost == {j \in DOMAIN buckets[p] \ K : buckets[p][j].ts > now - config.age}
<1>1. K \subseteq DOMAIN buckets[p] /\ IsFiniteSet(K) /\ Cardinality(K) <= HardCap
    BY KeptWithin DEF Draws
<1>2. buckets' = [buckets EXCEPT ![p] = new] /\ buckets = [q \in Pool |-> buckets[q]]
    BY DEF Draws, BucketsTyped
<1>3. /\ buckets' = [q \in Pool |-> buckets'[q]] /\ buckets'[p] = new
      /\ \A q \in Pool : q # p => buckets'[q] = buckets[q]
    <2> HIDE DEF new
    <2> QED
        BY <1>2
<1>4. /\ IsFiniteSet(K \cup {i0}) /\ Cardinality(K \cup {i0}) <= HardCap + 1
    <2>1. /\ IsFiniteSet(K \cup {i0})
          /\ Cardinality(K \cup {i0}) \in {Cardinality(K), Cardinality(K) + 1}
        BY <1>1, FS_AddElement
    <2>2. Cardinality(K) \in Nat /\ HardCap \in Nat
        BY <1>1, FS_CardinalityType, Limits
    <2> QED
        BY <1>1, <2>1, <2>2
<1>5. DOMAIN new = K \cup {i0} /\ K \cup {i0} \subseteq Ident
    BY <1>1 DEF BucketsTyped
<1>6. \A j \in DOMAIN new : new[j].tokens \in 0..config.burst /\ new[j].ts \in 0..now
    <2>1. Level(b, i0) \in 0..config.burst
        BY <1>1, PruneLevel
    <2>2. now \in Nat
        BY DEF BucketsTyped
    <2>3. Drawn(b, i0).tokens \in 0..config.burst /\ Drawn(b, i0).ts \in 0..now
        BY <2>1, <2>2, DrawnBucket
    <2>4. \A j \in K : buckets[p][j].tokens \in 0..config.burst /\ buckets[p][j].ts \in 0..now
        BY <1>1 DEF BucketsTyped
    <2>5. \A j \in DOMAIN new : new[j] = IF j = i0 THEN Drawn(b, i0) ELSE buckets[p][j]
        OBVIOUS
    <2> HIDE DEF new, b
    <2> QED
        BY <1>5, <2>3, <2>4, <2>5
<1>7. /\ dropped' \in [Pool -> [Ident -> Nat]]
      /\ \A q \in Pool : q # p => dropped'[q] = dropped[q]
    <2>1. dropped' = [dropped EXCEPT ![p] = [j \in Ident |-> IF j \in lost THEN @[j] + 1 ELSE @[j]]]
        BY DEF Draws
    <2>2. dropped \in [Pool -> [Ident -> Nat]]
        BY DEF BucketsTyped
    <2> HIDE DEF lost
    <2> QED
        BY <2>1, <2>2
<1>8. IsFiniteSet(grants') /\ \A g \in grants' : g.at \in 0..now
    <2>1. IsFiniteSet(grants) /\ (\A g \in grants : g.at \in 0..now) /\ now \in Nat
        BY DEF BucketsTyped
    <2>2. grants' = grants \/ \E g : grants' = grants \cup {g} /\ g.at = now
        <3>1. ASSUME NEW id,
                     grants' = grants \cup {[pool |-> p, ident |-> i0, at |-> now, id |-> id]}
              PROVE  \E g : grants' = grants \cup {g} /\ g.at = now
            <4>1. [pool |-> p, ident |-> i0, at |-> now, id |-> id].at = now
                OBVIOUS
            <4> QED
                BY <3>1, <4>1, Zenon
        <3> QED
            BY <3>1 DEF Draws
    <2> QED
        BY <2>1, <2>2, FS_AddElement
<1> HIDE DEF new
<1>9. BucketsTyped'
    <2>1. now' = now /\ config' = config /\ now \in Nat
        BY DEF BucketsTyped
    <2>2. ASSUME NEW q \in Pool
          PROVE  /\ DOMAIN buckets'[q] \subseteq Ident
                 /\ IsFiniteSet(DOMAIN buckets'[q]) /\ Cardinality(DOMAIN buckets'[q]) <= HardCap + 1
                 /\ \A j \in DOMAIN buckets'[q] :
                      buckets'[q][j].tokens \in 0..config.burst /\ buckets'[q][j].ts \in 0..now
        <3>1. CASE q = p
            BY <1>3, <1>4, <1>5, <1>6, <3>1
        <3>2. CASE q # p
            BY <1>3, <3>2 DEF BucketsTyped
        <3> QED
            BY <3>1, <3>2
    <2> QED
        BY <1>3, <1>7, <1>8, <2>1, <2>2 DEF BucketsTyped
<1> QED
    BY <1>3, <1>7, <1>9

\* One more of u.
LEMMA OneMore ==
    ASSUME NEW u \in Nat, NEW v \in Nat PROVE u * (1 + (v + 1)) = u * (1 + v) + u
<1> DEFINE w == 1 + v
<1>1. w \in Nat /\ 1 + (v + 1) = w + 1
    OBVIOUS
<1> HIDE DEF w
<1>2. u * (w + 1) = u * w + u
    BY <1>1
<1> QED
    BY <1>1, <1>2 DEF w

\* A draw keeps the pace: a grant costs what the level loses, and what the level
\* gains from being forgotten is counted.
LEMMA DrawPaced ==
    ASSUME BucketsTyped, Paced, config \in Config, NEW c \in Conn, conn[c].ident \in Ident,
           NEW p \in Pool, NEW K, Draws(c, p, K), UNCHANGED <<config, now>>
    PROVE  Paced'
<1> DEFINE i0 == conn[c].ident
           b == [j \in K |-> buckets[p][j]]
           lost == {j \in DOMAIN buckets[p] \ K : buckets[p][j].ts > now - config.age}
<1>0. /\ now \in Nat /\ now' = now /\ config' = config
      /\ config.burst \in Nat /\ Cost \in Nat /\ IsFiniteSet(grants)
    BY Limits DEF BucketsTyped
<1>1. K \subseteq DOMAIN buckets[p]
    BY KeptWithin DEF Draws
<1> SUFFICES ASSUME NEW q \in Pool, NEW i \in Ident, NEW from \in 0..now
             PROVE  Cost * Cardinality(Granted(q, i, from)') + Level(buckets[q], i)'
                      <= config.burst * (1 + dropped'[q][i]) + (now - from)
    BY <1>0 DEF Paced
<1> DEFINE n == Cardinality(Granted(q, i, from))
           m == Cardinality(Granted(q, i, from)')
           d == dropped[q][i]
           old == Level(buckets[q], i)
           new == Level(buckets[q], i)'
<1>2. Cost * n + old <= config.burst * (1 + d) + (now - from)
    BY DEF Paced
<1>3. /\ IsFiniteSet(Granted(q, i, from)) /\ n \in Nat /\ d \in Nat
      /\ old \in 0..config.burst
    <2>1. IsFiniteSet(Granted(q, i, from))
        BY <1>0, FS_Subset DEF Granted
    <2> QED
        BY <2>1, FS_CardinalityType, LevelTyped DEF BucketsTyped
<1>4. CASE q # p \/ i # i0 \/ Level(b, i0) < Cost
    <2>1. Granted(q, i, from)' = Granted(q, i, from)
        <3>1. grants' = grants \/ \E g : grants' = grants \cup {g} /\ ~(g.pool = q /\ g.ident = i)
            <4>1. ASSUME NEW id, q # p \/ i # i0,
                         grants' = grants \cup {[pool |-> p, ident |-> i0, at |-> now, id |-> id]}
                  PROVE  \E g : grants' = grants \cup {g} /\ ~(g.pool = q /\ g.ident = i)
                <5> DEFINE g0 == [pool |-> p, ident |-> i0, at |-> now, id |-> id]
                <5>1. g0.pool = p /\ g0.ident = i0
                    OBVIOUS
                <5> HIDE DEF g0
                <5>2. grants' = grants \cup {g0}
                    BY <4>1 DEF g0
                <5> QED
                    BY <4>1, <5>1, <5>2
            <4> QED
                BY <1>4, <4>1 DEF Draws
        <3> QED
            BY <3>1 DEF Granted
    <2>2. \/ new = old /\ dropped'[q][i] = d
          \/ new \in 0..config.burst /\ dropped'[q][i] = d + 1
        <3>1. CASE q # p
            <4>1. buckets'[q] = buckets[q] /\ dropped'[q] = dropped[q]
                BY <3>1, DrawTyped
            <4> QED
                BY <1>0, <4>1 DEF Level
        <3>2. CASE q = p
            <4>1. new = Level(b, i)
                <5>1. buckets'[p] = [j \in K \cup {i0} |-> IF j = i0 THEN Drawn(b, j) ELSE b[j]]
                    BY DEF Draws, BucketsTyped
                <5>2. CASE i = i0
                    <6>1. Level(b, i) \in 0..config.burst
                        BY <1>1, PruneLevel
                    <6>2. Drawn(b, i).tokens = Level(b, i) /\ Drawn(b, i).ts = now
                        BY <1>4, <3>2, <5>2, <6>1, DrawnBucket
                    <6>3. i \in DOMAIN buckets'[p] /\ buckets'[p][i] = Drawn(b, i)
                        BY <5>1, <5>2
                    <6> QED
                        BY <1>0, <3>2, <6>1, <6>2, <6>3 DEF Level
                <5>3. CASE i # i0
                    <6>1. i \in DOMAIN buckets'[p] <=> i \in DOMAIN b
                        BY <5>1, <5>3
                    <6>2. i \in DOMAIN b => buckets'[p][i] = b[i]
                        BY <5>1, <5>3
                    <6> HIDE DEF b
                    <6> QED
                        BY <1>0, <3>2, <6>1, <6>2 DEF Level
                <5> QED
                    BY <5>2, <5>3
            <4>2. dropped'[p][i] = IF i \in lost THEN d + 1 ELSE d
                BY <3>2 DEF Draws, BucketsTyped
            <4>3. Level(b, i) \in 0..config.burst /\ (i \notin lost => Level(b, i) = old)
                BY <1>1, <3>2, PruneLevel
            <4> HIDE DEF lost, b, new, old, d
            <4> QED
                BY <3>2, <4>1, <4>2, <4>3
        <3> QED
            BY <3>1, <3>2
    <2>3. m = n
        BY <2>1
    <2> HIDE DEF m, n, d, old, new
    <2>4. config.burst * (1 + (d + 1)) = config.burst * (1 + d) + config.burst
        BY <1>0, <1>3, OneMore
    <2>5. Cost * n \in Nat /\ config.burst * (1 + d) \in Nat
        BY <1>0, <1>3
    <2>6. Cost * m + new <= config.burst * (1 + dropped'[q][i]) + (now - from)
        <3>1. CASE new = old /\ dropped'[q][i] = d
            BY <1>2, <2>3, <3>1
        <3>2. CASE new \in 0..config.burst /\ dropped'[q][i] = d + 1
            BY <1>0, <1>2, <1>3, <2>3, <2>4, <2>5, <3>2
        <3> QED
            BY <2>2, <3>1, <3>2
    <2> QED
        BY <2>6 DEF m, new
<1>5. CASE q = p /\ i = i0 /\ ~(Level(b, i0) < Cost)
    <2>1. m \in Nat /\ m <= n + 1
        <3>1. PICK g : grants' = grants \cup {g}
            BY <1>5 DEF Draws
        <3>2. Granted(q, i, from)' \subseteq Granted(q, i, from) \cup {g}
            BY <3>1 DEF Granted
        <3>3. /\ IsFiniteSet(Granted(q, i, from) \cup {g})
              /\ Cardinality(Granted(q, i, from) \cup {g}) \in {n, n + 1}
            BY <1>3, FS_AddElement
        <3>4. IsFiniteSet(Granted(q, i, from)')
              /\ m <= Cardinality(Granted(q, i, from) \cup {g})
            BY <3>2, <3>3, FS_Subset
        <3>5. m \in Nat
            BY <3>4, FS_CardinalityType
        <3> HIDE DEF m, n
        <3> QED
            BY <1>3, <3>3, <3>4, <3>5
    <2>2. /\ Level(b, i) \in 0..config.burst /\ Cost <= Level(b, i)
          /\ new = Level(b, i) - Cost
        <3>1. Level(b, i) \in 0..config.burst
            BY <1>1, <1>5, PruneLevel
        <3>2. Drawn(b, i).tokens = Level(b, i) - Cost /\ Drawn(b, i).ts = now
            BY <1>5, <3>1, DrawnBucket
        <3>3. i \in DOMAIN buckets'[q] /\ buckets'[q][i] = Drawn(b, i)
            BY <1>5 DEF Draws, BucketsTyped
        <3>4. Level(b, i) - Cost \in Nat /\ Level(b, i) - Cost <= config.burst
            BY <1>0, <1>5, <3>1
        <3> HIDE DEF b
        <3> QED
            BY <1>0, <1>5, <3>1, <3>2, <3>3, <3>4 DEF Level
    <2>3. \/ Level(b, i) = old /\ dropped'[q][i] = d
          \/ dropped'[q][i] = d + 1
        <3>1. dropped'[q][i] = IF i \in lost THEN d + 1 ELSE d
            BY <1>5 DEF Draws, BucketsTyped
        <3>2. i \notin lost => Level(b, i) = old
            BY <1>1, <1>5, PruneLevel
        <3> QED
            BY <3>1, <3>2
    <2> DEFINE l == Level(b, i)
    <2> HIDE DEF m, n, d, old, new, l
    <2>4. config.burst * (1 + (d + 1)) = config.burst * (1 + d) + config.burst
        BY <1>0, <1>3, OneMore
    <2>5. Cost * n \in Nat /\ config.burst * (1 + d) \in Nat
        BY <1>0, <1>3
    <2>6. Cost * m <= Cost * n + Cost /\ Cost * m \in Nat
        <3>1. Cost * (n + 1) = Cost * n + Cost
            BY <1>0, <1>3
        <3>2. Cost * m <= Cost * (n + 1)
            BY <1>0, <1>3, <2>1
        <3>3. Cost * m \in Nat
            BY <1>0, <2>1
        <3> QED
            BY <3>1, <3>2, <3>3
    <2>7. l \in 0..config.burst /\ new = l - Cost
          /\ ((l = old /\ dropped'[q][i] = d) \/ dropped'[q][i] = d + 1)
        BY <2>2, <2>3 DEF l
    <2>8. Cost * m + new <= config.burst * (1 + dropped'[q][i]) + (now - from)
        <3>1. CASE l = old /\ dropped'[q][i] = d
            BY <1>0, <1>2, <1>3, <2>5, <2>6, <2>7, <3>1
        <3>2. CASE dropped'[q][i] = d + 1
            BY <1>0, <1>2, <1>3, <2>4, <2>5, <2>6, <2>7, <3>2
        <3> QED
            BY <2>7, <3>1, <3>2
    <2> QED
        BY <2>8 DEF m, new
<1> QED
    BY <1>4, <1>5

\* A tick adds no more to a level than to the time that has passed.
LEMMA TickPaced ==
    ASSUME BucketsTyped, Paced, config \in Config, Tick
    PROVE  BucketsTyped' /\ Paced'
<1>1. /\ now' = now + 1 /\ now \in Nat /\ UNCHANGED <<config, buckets, grants, dropped>>
    BY DEF Tick, BucketsTyped, bucketVars
<1>2. BucketsTyped'
    BY <1>1 DEF BucketsTyped
<1>3. ASSUME NEW p \in Pool, NEW i \in Ident, NEW from \in 0..(now + 1)
      PROVE  Cost * Cardinality(Granted(p, i, from)) + Level(buckets[p], i)'
               <= config.burst * (1 + dropped[p][i]) + (now + 1 - from)
    <2> DEFINE n == Cardinality(Granted(p, i, from))
               d == dropped[p][i]
               old == Level(buckets[p], i)
               new == Level(buckets[p], i)'
    <2>1. /\ config.burst \in Nat /\ Cost \in Nat /\ d \in Nat /\ old \in 0..config.burst
        BY Limits, LevelTyped DEF BucketsTyped
    <2>2. new \in 0..config.burst /\ new <= old + 1
        <3>1. CASE i \in DOMAIN buckets[p]
            <4>1. buckets[p][i].tokens \in 0..config.burst /\ buckets[p][i].ts \in 0..now
                BY <3>1 DEF BucketsTyped
            <4> QED
                BY <1>1, <2>1, <3>1, <4>1 DEF Level
        <3>2. CASE i \notin DOMAIN buckets[p]
            BY <1>1, <2>1, <3>2 DEF Level
        <3> QED
            BY <3>1, <3>2
    <2>3. config.burst * (1 + d) \in Nat /\ config.burst <= config.burst * (1 + d)
        <3>1. config.burst * (1 + d) = config.burst + config.burst * d
            BY <2>1
        <3>2. config.burst * d \in Nat
            BY <2>1
        <3> QED
            BY <2>1, <3>1, <3>2
    <2>4. CASE from = now + 1
        <3>1. Granted(p, i, from) = {}
            BY <1>1, <2>4 DEF Granted, BucketsTyped
        <3>2. n = 0
            BY <3>1, FS_EmptySet
        <3>3. Cost * n = 0
            BY <2>1, <3>2
        <3> HIDE DEF n, d, old, new
        <3>4. Cost * n + new <= config.burst * (1 + d) + (now + 1 - from)
            BY <1>1, <2>1, <2>2, <2>3, <2>4, <3>3
        <3> QED
            BY <3>4 DEF n, d, new
    <2>5. CASE from # now + 1
        <3>1. from \in 0..now
            BY <1>1, <2>5
        <3>2. Cost * n + old <= config.burst * (1 + d) + (now - from)
            BY <3>1 DEF Paced
        <3>3. n \in Nat
            <4>1. IsFiniteSet(Granted(p, i, from))
                BY FS_Subset DEF Granted, BucketsTyped
            <4> QED
                BY <4>1, FS_CardinalityType
        <3> HIDE DEF n, d, old, new
        <3>4. Cost * n \in Nat
            BY <2>1, <3>3
        <3>5. Cost * n + new <= config.burst * (1 + d) + (now + 1 - from)
            BY <1>1, <2>1, <2>2, <2>3, <3>1, <3>2, <3>4
        <3> QED
            BY <3>5 DEF n, d, new
    <2> QED
        BY <2>4, <2>5
<1>4. ASSUME NEW p \in Pool, NEW i \in Ident, NEW from \in 0..now'
      PROVE  Cost * Cardinality(Granted(p, i, from)') + Level(buckets[p], i)'
               <= config'.burst * (1 + dropped'[p][i]) + (now' - from)
    <2>1. Granted(p, i, from)' = Granted(p, i, from)
        BY <1>1 DEF Granted
    <2>2. now' = now + 1 /\ from \in 0..(now + 1) /\ config' = config /\ dropped' = dropped
        BY <1>1
    <2>3. Cost * Cardinality(Granted(p, i, from)) + Level(buckets[p], i)'
             <= config.burst * (1 + dropped[p][i]) + (now + 1 - from)
        BY <1>3, <2>2
    <2>4. now' - from = now + 1 - from
        BY <1>1, <2>2
    <2>5. config'.burst * (1 + dropped'[p][i]) = config.burst * (1 + dropped[p][i])
        BY <2>2, Zenon
    <2> QED
        BY <2>1, <2>3, <2>4, <2>5
<1>5. Paced'
    BY <1>4 DEF Paced
<1> QED
    BY <1>2, <1>5

\* Nobody else touches the tables, the grants or the clock.
LEMMA BucketSteps ==
    ASSUME [Next]_vars
    PROVE  Tick \/ (\E c \in Conn : Take(c)) \/ UNCHANGED <<config, now, bucketVars>>
<1> USE DEF vars, outside, bucketVars
<1>1. CASE Paysweep
    BY <1>1 DEF Paysweep
<1>2. ASSUME NEW c \in Conn, Server(c) \/ HangUp(c) \/ Request(c)
      PROVE  UNCHANGED <<config, now, bucketVars>>
    BY <1>2 DEF Server, Accept, Shed, NoThread, HangUp, Request
<1>3. ASSUME NEW c \in Conn, Worker(c) PROVE Take(c) \/ UNCHANGED <<config, now, bucketVars>>
    BY <1>3 DEF Worker, NoAnswer, Stat, Compare, Read, ReadFails, SetStates, SetHistory,
                SetMtime, Use, Verify, Settle
<1> QED
    BY <1>1, <1>2, <1>3 DEF Next

\* Every step keeps the tables in their kinds and the pace.
LEMMA PaceKeeps ==
    ASSUME ServeInv, BucketsTyped, Paced, [Next]_vars PROVE BucketsTyped' /\ Paced'
<1>0. config \in Config /\ \A c \in Conn : conn[c].ident \in Ident
    BY DEF ServeInv, ServeTyped, Work
<1>1. CASE Tick
    BY <1>0, <1>1, TickPaced
<1>2. ASSUME NEW c \in Conn, Take(c) PROVE BucketsTyped' /\ Paced'
    <2>1. PICK K : Draws(c, PoolOf(conn[c]), K)
        BY <1>2, TakeDraws
    <2>2. PoolOf(conn[c]) \in Pool /\ UNCHANGED <<config, now>>
        BY <1>2, TakeDraws
    <2> QED
        BY <1>0, <2>1, <2>2, DrawTyped, DrawPaced
<1>3. CASE UNCHANGED <<config, now, bucketVars>>
    BY <1>3 DEF bucketVars, BucketsTyped, Paced, Granted, Level
<1> QED
    BY <1>1, <1>2, <1>3, BucketSteps

\* In the beginning everybody has a full bucket.
LEMMA PaceStarts == Init => BucketsTyped /\ Paced
<1> SUFFICES ASSUME Init PROVE BucketsTyped /\ Paced
    OBVIOUS
<1>0. config \in Config /\ now = 0 /\ grants = {} /\ dropped = [p \in Pool |-> [i \in Ident |-> 0]]
    BY DEF Init
<1>1. buckets = [p \in Pool |-> buckets[p]] /\ \A p \in Pool : DOMAIN buckets[p] = {}
    <2>1. DOMAIN <<>> = {}
        OBVIOUS
    <2> QED
        BY <2>1 DEF Init
<1>2. IsFiniteSet({}) /\ Cardinality({}) = 0 /\ HardCap \in Nat /\ config.burst \in Nat /\ Cost \in Nat
    BY <1>0, FS_EmptySet, Limits
<1>3. BucketsTyped
    <2>1. dropped \in [Pool -> [Ident -> Nat]]
        BY <1>0
    <2>2. IsFiniteSet(grants) /\ \A g \in grants : g.at \in 0..now
        BY <1>0, <1>2
    <2>3. ASSUME NEW p \in Pool
          PROVE  /\ DOMAIN buckets[p] \subseteq Ident
                 /\ IsFiniteSet(DOMAIN buckets[p])
                 /\ Cardinality(DOMAIN buckets[p]) <= HardCap + 1
        <3>1. DOMAIN buckets[p] = {}
            BY <1>1
        <3> QED
            BY <1>2, <3>1
    <2>4. \A p \in Pool : \A i \in DOMAIN buckets[p] :
              buckets[p][i].tokens \in 0..config.burst /\ buckets[p][i].ts \in 0..now
        BY <1>1
    <2>5. now \in Nat /\ buckets = [p \in Pool |-> buckets[p]]
        BY <1>0, <1>1
    <2> QED
        BY <2>1, <2>2, <2>3, <2>4, <2>5 DEF BucketsTyped
<1>4. ASSUME NEW p \in Pool, NEW i \in Ident, NEW from \in 0..now
      PROVE  Cost * Cardinality(Granted(p, i, from)) + Level(buckets[p], i)
               <= config.burst * (1 + dropped[p][i]) + (now - from)
    <2>1. Granted(p, i, from) = {} /\ from = 0
        BY <1>0 DEF Granted
    <2>2. Level(buckets[p], i) = config.burst /\ dropped[p][i] = 0
        BY <1>0, <1>1 DEF Level
    <2>3. Cost * 0 = 0 /\ config.burst * (1 + 0) = config.burst
        BY <1>2
    <2> QED
        BY <1>0, <1>2, <2>1, <2>2, <2>3
<1> QED
    BY <1>3, <1>4 DEF Paced

\* _Buckets.take: over any time an identity is granted at most a burst, the refill
\* of that time and a burst for every time the hard cap has forgotten it, for any
\* number of identities, prices, bursts and bounds of the table.
THEOREM RateIsBounded == Spec => []RateBound
<1>1. ServeInv /\ BucketsTyped /\ Paced => RateBound
    <2> SUFFICES ASSUME ServeInv, BucketsTyped, Paced, NEW p \in Pool, NEW i \in Ident,
                        NEW from \in 0..now
                 PROVE  Cost * Cardinality({g \in grants : g.pool = p /\ g.ident = i /\ g.at >= from})
                          <= config.burst * (1 + dropped[p][i]) + (now - from)
        BY DEF RateBound
    <2> DEFINE n == Cardinality(Granted(p, i, from))
               lim == config.burst * (1 + dropped[p][i]) + (now - from)
    <2>0. config \in Config
        BY DEF ServeInv, ServeTyped
    <2>1. Cost * n + Level(buckets[p], i) <= lim
        BY DEF Paced
    <2>2. Level(buckets[p], i) \in Nat /\ Cost \in Nat
        BY <2>0, LevelTyped, Limits
    <2>3. n \in Nat
        <3>1. IsFiniteSet(Granted(p, i, from))
            BY FS_Subset DEF Granted, BucketsTyped
        <3> QED
            BY <3>1, FS_CardinalityType
    <2>4. lim \in Int
        <3>1. config.burst \in Nat /\ dropped[p][i] \in Nat /\ now \in Nat
            BY <2>0, Limits DEF BucketsTyped
        <3>2. config.burst * (1 + dropped[p][i]) \in Nat
            BY <3>1
        <3> QED
            BY <3>1, <3>2
    <2> HIDE DEF n, lim
    <2>5. Cost * n \in Nat
        BY <2>2, <2>3
    <2>6. Cost * n <= lim
        BY <2>1, <2>2, <2>4, <2>5
    <2> QED
        BY <2>6 DEF n, lim, Granted
<1> QED
    BY <1>1, PaceStarts, PaceKeeps, ServeInvariant, PTL DEF Spec

-----------------------------------------------------------------------------
(***************************************************************************)
(* The kinds of the variables.                                             *)
(***************************************************************************)
Versions == 0..config.versions
OfVersions(k) == k.since \in Versions /\ k.m \in Versions /\ k.lines \in Versions /\ k.used \in Versions
SameVersions(k, l) == k.since = l.since /\ k.m = l.m /\ k.lines = l.lines /\ k.used = l.used

\* A worker that ends up with known versions keeps everything in them.
LEMMA VersionsMove ==
    ASSUME InVersions, NEW c \in Conn, NEW r, OnlyMoves(c, r), OfVersions(r),
           UNCHANGED <<config, now, file>>,
           cache' \in [mtime : Versions, states : Versions, history : Versions]
    PROVE  InVersions'
  BY DEF InVersions, OnlyMoves, OfVersions, Versions

\* The cache and the versions a worker holds, one by one.
LEMMA VersionsHeld ==
    ASSUME InVersions, NEW c \in Conn
    PROVE  /\ OfVersions(conn[c]) /\ file \in Versions
           /\ cache \in [mtime : Versions, states : Versions, history : Versions]
           /\ cache.states \in Versions
  BY DEF InVersions, OfVersions, Versions

\* A step that only sends a worker elsewhere or answers leaves its versions alone.
LEMMA VersionsStay ==
    ASSUME ServeTyped, InVersions, NEW c \in Conn,
           \/ \E at \in At : Goes(c, at)
           \/ \E reply \in Reply : Answered(c, reply)
           \/ conn[c].pay \in Auth /\ Escapes(c),
           UNCHANGED <<config, now, file>>,
           cache' \in [mtime : Versions, states : Versions, history : Versions]
    PROVE  InVersions'
<1>0. conn[c] \in Work
  BY DEF ServeTyped
<1>1. \E r : OnlyMoves(c, r) /\ SameVersions(r, conn[c])
  <2>1. ASSUME NEW at \in At, Goes(c, at)
        PROVE  \E r : OnlyMoves(c, r) /\ SameVersions(r, conn[c])
    <3> DEFINE r == [conn[c] EXCEPT !.at = at]
    <3>1. OnlyMoves(c, r)
      BY <2>1, GoesEffect
    <3>2. SameVersions(r, conn[c])
      BY <1>0 DEF Work, SameVersions
    <3> QED
      BY <3>1, <3>2
  <2>2. ASSUME NEW reply \in Reply, Answered(c, reply)
        PROVE  \E r : OnlyMoves(c, r) /\ SameVersions(r, conn[c])
    <3> DEFINE r == [conn[c] EXCEPT !.at = "idle", !.reply = reply]
    <3>1. OnlyMoves(c, r)
      BY <2>2, AnsweredEffect
    <3>2. SameVersions(r, conn[c])
      BY <1>0 DEF Work, SameVersions
    <3> QED
      BY <3>1, <3>2
  <2>3. ASSUME conn[c].pay \in Auth, Escapes(c)
        PROVE  \E r : OnlyMoves(c, r) /\ SameVersions(r, conn[c])
    <3>1. PICK at \in {"idle", "closed"} :
               OnlyMoves(c, [conn[c] EXCEPT !.at = at, !.reply = "dropped"])
      BY <2>3, EscapesEffect
    <3>2. SameVersions([conn[c] EXCEPT !.at = at, !.reply = "dropped"], conn[c])
      BY <1>0 DEF Work, SameVersions
    <3> QED
      BY <3>1, <3>2
  <2> QED
    BY <2>1, <2>2, <2>3
<1>2. PICK r : OnlyMoves(c, r) /\ SameVersions(r, conn[c])
  BY <1>1
<1>3. OfVersions(r)
  BY <1>2, VersionsHeld DEF SameVersions, OfVersions
<1> QED
  BY <1>2, <1>3, VersionsMove

\* Steps of the accept loop and of clients.
LEMMA FrontVersions ==
    ASSUME ServeTyped, InVersions, NEW c \in Conn, Server(c) \/ HangUp(c) \/ Request(c)
    PROVE  InVersions'
<1> USE DEF outside, cacheVars
<1>0. /\ UNCHANGED <<config, now, file, cache>>
      /\ cache' \in [mtime : Versions, states : Versions, history : Versions]
  <2>1. UNCHANGED <<config, now, file, cache>>
    BY DEF Server, Accept, Shed, NoThread, HangUp, Request
  <2> QED
    BY <2>1, VersionsHeld
<1>1. CASE Server(c)
  <2>1. \E at \in At : Goes(c, at)
    BY <1>1 DEF Server, Accept, Shed, NoThread, At
  <2> QED
    BY <1>0, <2>1, VersionsStay
<1>2. ASSUME HangUp(c) \/ Request(c)
      PROVE  \E r \in Work : conn' = [conn EXCEPT ![c] = r] /\ OfVersions(r)
  <2>1. 0 \in Versions /\ file \in Versions /\ file \in Nat
    <3>1. config.versions \in Nat
      BY Limits DEF ServeTyped
    <3> QED
      BY <3>1, VersionsHeld DEF Versions, ServeTyped
  <2>2. CASE HangUp(c)
    <3> DEFINE r == [Fresh EXCEPT !.at = "closed"]
    <3>1. r \in Work
      BY FreshTyped DEF Work, At
    <3>2. r.since = 0 /\ r.m = 0 /\ r.lines = 0 /\ r.used = 0
      BY DEF Fresh
    <3>3. conn' = [conn EXCEPT ![c] = r]
      BY <2>2 DEF HangUp
    <3> HIDE DEF r
    <3> QED
      BY <2>1, <3>1, <3>2, <3>3 DEF OfVersions
  <2>3. CASE Request(c)
    <3>1. PICK k \in config.kinds, i \in config.idents, a \in Auth \cup {NoAuth} :
               conn' = [conn EXCEPT ![c] = [Fresh EXCEPT
                !.at = IF k = "health" THEN "idle" ELSE "limit",
                !.kind = k, !.ident = i, !.pay = a, !.since = file,
                !.reply = IF k = "health" THEN "served" ELSE "none"]]
      BY <2>3 DEF Request
    <3> DEFINE r == [Fresh EXCEPT
                !.at = IF k = "health" THEN "idle" ELSE "limit",
                !.kind = k, !.ident = i, !.pay = a, !.since = file,
                !.reply = IF k = "health" THEN "served" ELSE "none"]
    <3>2. k \in Kind /\ i \in Ident
      BY Limits DEF ServeTyped
    <3>3. r \in Work
      BY <2>1, <3>2, FreshTyped DEF Work, At, Reply
    <3>4. r.since = file /\ r.m = 0 /\ r.lines = 0 /\ r.used = 0
      BY DEF Fresh
    <3>5. conn' = [conn EXCEPT ![c] = r]
      BY <3>1
    <3> HIDE DEF r
    <3> QED
      BY <2>1, <3>3, <3>4, <3>5 DEF OfVersions
  <2> QED
    BY <1>2, <2>2, <2>3
<1>3. CASE HangUp(c) \/ Request(c)
  BY <1>0, <1>2, <1>3, MoveTyped, VersionsMove
<1> QED
  BY <1>1, <1>3

\* Steps of a worker: what it looks up, reads or uses is a version of the file.
LEMMA WorkerVersions ==
    ASSUME ServeTyped, InVersions, NEW c \in Conn, Worker(c)
    PROVE  InVersions'
<1> USE DEF outside, cacheVars
<1>0. conn[c] \in Work /\ UNCHANGED <<config, now, file>> /\ 0 \in Versions
  <2>1. UNCHANGED <<config, now, file>>
    BY DEF Worker, Take, NoAnswer, Stat, Compare, Read, ReadFails, SetStates, SetHistory, SetMtime,
           Use, Verify, Settle
  <2>2. config.versions \in Nat
    BY Limits DEF ServeTyped
  <2> QED
    BY <2>1, <2>2 DEF ServeTyped, Versions
<1>1. /\ OfVersions(conn[c]) /\ file \in Versions /\ cache.states \in Versions
      /\ cache \in [mtime : Versions, states : Versions, history : Versions]
  BY VersionsHeld
<1>2. CASE Take(c) \/ NoAnswer(c)
  <2>1. \/ \E at \in At : Goes(c, at)
        \/ \E reply \in Reply : Answered(c, reply)
    BY <1>2, TakeEffect DEF NoAnswer, At, Reply
  <2>2. cache' = cache
    BY <1>2 DEF Take, NoAnswer
  <2> QED
    BY <1>0, <1>1, <2>1, <2>2, VersionsStay
<1>3. CASE Stat(c) \/ Read(c) \/ ReadFails(c)
  <2>1. ASSUME NEW r, r \in Work, conn' = [conn EXCEPT ![c] = r], OfVersions(r), cache' = cache
        PROVE  InVersions'
    BY <1>0, <1>1, <2>1, MoveTyped, VersionsMove
  <2>2. CASE Stat(c)
    <3> DEFINE r == [conn[c] EXCEPT !.m = file, !.at = IF file = 0 THEN "use" ELSE "compare"]
    <3>1. r \in Work
      BY <1>0 DEF Work, At, ServeTyped
    <3>2. OfVersions(r)
      BY <1>0, <1>1 DEF OfVersions, Work
    <3>3. conn' = [conn EXCEPT ![c] = r] /\ cache' = cache
      BY <2>2 DEF Stat
    <3> QED
      BY <2>1, <3>1, <3>2, <3>3
  <2>3. CASE Read(c)
    <3> DEFINE r == [conn[c] EXCEPT !.lines = file, !.at = "states"]
    <3>1. r \in Work
      BY <1>0 DEF Work, At, ServeTyped
    <3>2. OfVersions(r)
      BY <1>0, <1>1 DEF OfVersions, Work
    <3>3. conn' = [conn EXCEPT ![c] = r] /\ cache' = cache
      BY <2>3 DEF Read
    <3> QED
      BY <2>1, <3>1, <3>2, <3>3
  <2>4. CASE ReadFails(c)
    <3> DEFINE r == [conn[c] EXCEPT !.at = "use", !.excused = TRUE]
    <3>1. r \in Work
      BY <1>0 DEF Work, At
    <3>2. OfVersions(r)
      BY <1>0, <1>1 DEF OfVersions, Work
    <3>3. conn' = [conn EXCEPT ![c] = r] /\ cache' = cache
      BY <2>4 DEF ReadFails
    <3> QED
      BY <2>1, <3>1, <3>2, <3>3
  <2> QED
    BY <1>3, <2>2, <2>3, <2>4
<1>4. CASE Compare(c)
  <2>1. \E at \in At : Goes(c, at)
    BY <1>4 DEF Compare, At
  <2>2. cache' = cache
    BY <1>4 DEF Compare
  <2> QED
    BY <1>0, <1>1, <2>1, <2>2, VersionsStay
<1>5. CASE SetStates(c) \/ SetHistory(c) \/ SetMtime(c)
  <2>1. \E at \in At : Goes(c, at)
    BY <1>5 DEF SetStates, SetHistory, SetMtime, At
  <2>2. cache' \in [mtime : Versions, states : Versions, history : Versions]
    BY <1>1, <1>5 DEF SetStates, SetHistory, SetMtime, OfVersions
  <2> QED
    BY <1>0, <2>1, <2>2, VersionsStay
<1>6. CASE Use(c)
  <2> DEFINE new == IF conn[c].m = 0 THEN 0 ELSE cache.states
             w == [conn[c] EXCEPT !.used = new, !.m = 0, !.lines = 0]
  <2>1. \/ OnlyMoves(c, [w EXCEPT !.at = "verify", !.reply = "none"])
        \/ OnlyMoves(c, [w EXCEPT !.at = "idle", !.reply = "served"])
    BY <1>6, UseEffect
  <2>2. new \in Versions /\ cache' = cache
    BY <1>0, <1>1, <1>6 DEF Use
  <2> HIDE DEF new
  <2>3. /\ OfVersions([w EXCEPT !.at = "verify", !.reply = "none"])
        /\ OfVersions([w EXCEPT !.at = "idle", !.reply = "served"])
    BY <1>0, <1>1, <2>2 DEF OfVersions, Work
  <2> HIDE DEF w
  <2> QED
    BY <1>0, <1>1, <2>1, <2>2, <2>3, VersionsMove
<1>7. CASE Verify(c) \/ Settle(c)
  <2>1. conn[c].pay \in Auth
    BY <1>7 DEF Verify, Settle, ServeTyped
  <2>2. \/ \E at \in At : Goes(c, at)
        \/ \E reply \in Reply : Answered(c, reply)
        \/ Escapes(c)
    BY <1>7 DEF Verify, Settle, At, Reply
  <2>3. cache' = cache
    BY <1>7 DEF Verify, Settle
  <2> QED
    BY <1>0, <1>1, <2>1, <2>2, <2>3, VersionsStay
<1> QED
  BY <1>2, <1>3, <1>4, <1>5, <1>6, <1>7 DEF Worker

\* Every step keeps the clock and the versions within their bounds.
LEMMA VersionsKeep ==
    ASSUME ServeTyped, InVersions, [Next]_vars PROVE InVersions'
<1> USE DEF cacheVars, serverVars
<1>0. config.versions \in Nat /\ config.ticks \in Nat
  BY Limits DEF ServeTyped
<1>1. CASE Tick
  BY <1>0, <1>1 DEF Tick, InVersions
<1>2. CASE Paysweep
  BY <1>0, <1>2 DEF Paysweep, InVersions
<1>3. CASE UNCHANGED vars
  BY <1>3 DEF vars, outside, InVersions
<1> QED
  BY <1>1, <1>2, <1>3, FrontVersions, WorkerVersions DEF Next

\* trust_api.py: every variable keeps its kind; a bucket never holds more than a
\* burst, a table never more than one identity over its hard cap, the semaphore
\* never more than TRUST_API_MAX_INFLIGHT permits.
THEOREM TypeCorrect == Spec => []TypeOK
<1>1. Init => InVersions
  <2> SUFFICES ASSUME Init PROVE InVersions
    OBVIOUS
  <2>1. config \in Config /\ config.versions \in Nat /\ config.ticks \in Nat
    BY Limits DEF Init
  <2>2. /\ file \in 0..config.versions /\ now = 0
        /\ cache = [mtime |-> 0, states |-> 0, history |-> 0]
        /\ conn = [c \in Conn |-> [Fresh EXCEPT !.at = "new"]]
    BY DEF Init
  <2>3. \A c \in Conn : conn[c].since = 0 /\ conn[c].m = 0 /\ conn[c].lines = 0 /\ conn[c].used = 0
    BY <2>2 DEF Fresh
  <2> QED
    BY <2>1, <2>2, <2>3 DEF InVersions
<1>2. ServeInv /\ InVersions /\ [Next]_vars => InVersions'
  BY VersionsKeep DEF ServeInv
<1>3. ServeInv /\ BucketsTyped /\ InVersions => TypeOK
  <2> SUFFICES ASSUME ServeInv, BucketsTyped, InVersions PROVE TypeOK
    OBVIOUS
  <2>1. ServeTyped /\ PermitsBalanced
    BY DEF ServeInv
  <2>2. permits \in 0..config.inflight
    <3>1. permits + leaked + Cardinality(Busy) = config.inflight
      BY <2>1, PermitsAreBusy
    <3> QED
      BY <2>1, <3>1, BusyFinite, Limits DEF ServeTyped
  <2>3. conn \in [Conn -> [at : At, kind : Kind, ident : Ident, pay : Auth \cup {NoAuth},
                           since : Versions, m : Versions, lines : Versions, used : Versions,
                           excused : BOOLEAN, reply : Reply]]
    BY <2>1 DEF ServeTyped, Work, InVersions, Versions
  <2> QED
    BY <2>1, <2>2, <2>3 DEF TypeOK, ServeTyped, InVersions, BucketsTyped, Versions
<1> QED
  BY <1>1, <1>2, <1>3, PaceStarts, PaceKeeps, ServeInvariant, PTL DEF Spec
=============================================================================
