----------------------------- MODULE TrustServe -----------------------------
(***************************************************************************)
(* serving/trust_api.py as a server: connections on a bounded number of    *)
(* worker threads, token buckets, the lanes of a request (free, keyed,     *)
(* pro, paid), the paid lane of serving/x402pay.py against a facilitator,  *)
(* and the cache of paid-probe receipts that the threads share.            *)
(*                                                                         *)
(* Data abstraction: a lookup is one of its status codes; the receipts     *)
(* file is its version, 0 while there is none, and so is whatever was      *)
(* computed from it; time is in ticks, a bucket holds Gain units a tick    *)
(* more, and a request costs Cost units.                                   *)
(***************************************************************************)
EXTENDS Integers, FiniteSets

CONSTANTS
    Conn,          \* connections
    Ident, ProIdent, KeyIdent, \* identities; those of pro keys, of any key
    Auth, NoAuth,  \* signed payment authorisations
    Config,        \* deployments, and the traffic each of them gets
    Cost,          \* price of a request, in the units a bucket gains each tick
    HardCap,       \* the table's bound on identities
    MaxTrouble     \* bound: threads that do not start, reads that fail

Pool == {"free", "pro"}
Lookups == {"trust", "mcp", "evaluate"}
Kind == Lookups \cup {"health", "static", "pro"}

\* KEYS, FREE_MODE, x402pay.enabled(), TRUST_API_MAX_INFLIGHT, the capacity of a
\* bucket and the age at which it may be forgotten; then the bounds: what is
\* asked, by whom and how often, ticks, and versions of the file.
Deployment == [keys : BOOLEAN, free : BOOLEAN, paid : BOOLEAN, inflight : Nat \ {0},
               burst : Nat, age : Nat,
               kinds : SUBSET Kind, idents : SUBSET Ident, requests : Nat, ticks : Nat,
               versions : Nat]

At == {"new", "idle", "limit", "stat", "compare", "read", "states", "history", "mtime", "use",
       "verify", "settle", "closed"}
Refreshing == {"read", "states", "history", "mtime"}
\* "rejected" and "failed" say that there was no charge, "unknown" that there
\* may have been one, and "dropped" says nothing.
Reply == {"none", "served", "receipt", "limited", "refused", "not found", "pay", "rejected",
          "failed", "unknown", "dropped"}

ASSUME ServeAssumption ==
    /\ IsFiniteSet(Conn)
    /\ ProIdent \subseteq KeyIdent /\ KeyIdent \subseteq Ident /\ Ident # {}
    /\ Config \subseteq Deployment
    /\ NoAuth \notin Auth \cup Conn
    /\ Cost \in Nat \ {0}
    /\ \A d \in Config : d.burst >= Cost /\ d.age >= d.burst
    /\ HardCap \in Nat \ {0}

VARIABLES
    config,   \* the deployment and its traffic
    now,      \* the clock
    conn,     \* per connection: where its worker is and what it holds
    permits,  \* _BoundedServer._sem
    buckets,  \* BUCKETS and PRO_BUCKETS: identity -> [tokens, ts], of the seen ones
    file,     \* version of receipts.jsonl
    cache,    \* _delivery_cache: [mtime, states, history]
    spent,    \* the chain: authorisations settled, by the connection that asked
    asked,    \* requests so far
    trouble,  \* threads that did not start, and reads that failed
    leaked,   \* history variable: permits of threads that did not start
    grants,   \* history variable: times of the granted requests of an identity
    dropped,  \* history variable: how often the hard cap dropped an identity
    raced,    \* history variable: two refreshes of the cache were under way
    told      \* history variable: replies to the requests with an authorisation

serverVars == <<conn, permits, leaked>>
bucketVars == <<buckets, grants, dropped>>
cacheVars == <<cache, raced>>
payVars == <<spent, told>>
outside == <<config, now, file, asked, trouble>>
vars == <<serverVars, bucketVars, cacheVars, payVars, outside>>

Fresh == [at |-> "idle", kind |-> "health", ident |-> CHOOSE i \in Ident : TRUE, pay |-> NoAuth,
          since |-> 0, m |-> 0, lines |-> 0, used |-> 0, excused |-> FALSE, reply |-> "none"]

\* A worker holds one permit, a bucket at most its capacity, a table at most one
\* identity more than its bound, and the cache a version of the file.
TypeOK ==
    LET Version == 0..config.versions IN
    /\ config \in Config
    /\ now \in 0..config.ticks
    /\ conn \in [Conn -> [at : At, kind : Kind, ident : Ident, pay : Auth \cup {NoAuth},
                          since : Version, m : Version, lines : Version, used : Version,
                          excused : BOOLEAN, reply : Reply]]
    /\ permits \in 0..config.inflight
    /\ \A p \in Pool :
         /\ DOMAIN buckets[p] \subseteq Ident
         /\ Cardinality(DOMAIN buckets[p]) <= HardCap + 1
         /\ \A i \in DOMAIN buckets[p] :
              buckets[p][i].tokens \in 0..config.burst /\ buckets[p][i].ts \in 0..now
    /\ file \in Version
    /\ cache \in [mtime : Version, states : Version, history : Version]
    /\ spent \in [Auth -> Conn \cup {NoAuth}]
    /\ raced \in BOOLEAN
    /\ told \in [Auth -> SUBSET Reply]

Init ==
    /\ config \in Config
    /\ now = 0
    /\ conn = [c \in Conn |-> [Fresh EXCEPT !.at = "new"]]
    /\ permits = config.inflight
    /\ buckets = [p \in Pool |-> <<>>]
    /\ file \in 0..config.versions /\ file <= 1
    /\ cache = [mtime |-> 0, states |-> 0, history |-> 0]
    /\ spent = [a \in Auth |-> NoAuth]
    /\ asked = 0 /\ trouble = 0 /\ leaked = 0
    /\ grants = {} /\ dropped = [p \in Pool |-> [i \in Ident |-> 0]]
    /\ raced = FALSE
    /\ told = [a \in Auth |-> {}]

-----------------------------------------------------------------------------
(***************************************************************************)
(* Connections and workers.                                                *)
(***************************************************************************)
\* A request is answered, and the connection kept.
Answered(c, reply) ==
    /\ conn' = [conn EXCEPT ![c].at = "idle", ![c].reply = reply]
    /\ told' = [a \in Auth |-> IF a = conn[c].pay THEN told[a] \cup {reply} ELSE told[a]]

Goes(c, at) ==
    /\ conn' = [conn EXCEPT ![c].at = at]
    /\ UNCHANGED told

Tick ==
    /\ now < config.ticks
    /\ now' = now + 1
    /\ UNCHANGED <<config, file, asked, trouble, serverVars, bucketVars, cacheVars, payVars>>

Accept(c) ==
    /\ conn[c].at = "new"
    /\ permits > 0
    /\ permits' = permits - 1
    /\ Goes(c, "idle")
    /\ UNCHANGED <<leaked, bucketVars, cacheVars, spent, outside>>

\* Mutant of Shed: the accept loop waits for a permit.
ShedWaits(c) ==
    /\ conn[c].at = "new"
    /\ permits = 0
    /\ UNCHANGED vars

\* No permit: the connection is closed at once.
Shed(c) ==
    /\ conn[c].at = "new"
    /\ permits = 0
    /\ Goes(c, "closed")
    /\ UNCHANGED <<permits, leaked, bucketVars, cacheVars, spent, outside>>

\* The permit is taken and the thread does not start: nobody gives it back.
NoThread(c) ==
    /\ conn[c].at = "new"
    /\ permits > 0
    /\ trouble < MaxTrouble
    /\ trouble' = trouble + 1
    /\ permits' = permits - 1
    /\ leaked' = leaked + 1
    /\ Goes(c, "closed")
    /\ UNCHANGED <<bucketVars, cacheVars, spent, config, now, file, asked>>

\* A client leaves, or is silent for 30 seconds; the worker's finally.
HangUp(c) ==
    /\ conn[c].at = "idle"
    /\ conn' = [conn EXCEPT ![c] = [Fresh EXCEPT !.at = "closed"]]
    /\ permits' = permits + 1
    /\ UNCHANGED <<leaked, told, bucketVars, cacheVars, spent, outside>>

\* One request on a kept-alive connection, with an identity and perhaps a payment.
Request(c) ==
    /\ conn[c].at = "idle"
    /\ asked < config.requests
    /\ asked' = asked + 1
    /\ \E k \in config.kinds, i \in config.idents, a \in Auth \cup {NoAuth} :
         /\ a # NoAuth => k \in {"trust", "mcp"}
         /\ conn' = [conn EXCEPT ![c] = [Fresh EXCEPT
              !.at = IF k = "health" THEN "idle" ELSE "limit",
              !.kind = k, !.ident = i, !.pay = a, !.since = file,
              !.reply = IF k = "health" THEN "served" ELSE "none"]]
    /\ UNCHANGED <<permits, leaked, bucketVars, cacheVars, payVars, config, now, file, trouble>>

-----------------------------------------------------------------------------
(***************************************************************************)
(* Token buckets.                                                          *)
(***************************************************************************)
\* GET draws a pro identity's requests from its own pool; the POST routes do not.
PoolOf(w) ==
    IF config.keys /\ w.ident \in ProIdent /\ w.kind \notin {"mcp", "evaluate"} THEN "pro" ELSE "free"

\* The newest half of a table that the age prune left too large.
Halves(b) ==
    {K \in SUBSET DOMAIN b :
        /\ Cardinality(K) = Cardinality(DOMAIN b) - (Cardinality(DOMAIN b) \div 2)
        /\ \A i \in K, j \in DOMAIN b \ K : b[j].ts <= b[i].ts}

\* Mutant of Kept: the age prune only.
KeptYoung(b) ==
    LET young == {i \in DOMAIN b : b[i].ts > now - config.age}
    IN IF Cardinality(DOMAIN b) <= HardCap THEN {DOMAIN b} ELSE {young}

\* The identities that take keeps: all, the young ones, or the newest half of them.
Kept(b) ==
    LET young == {i \in DOMAIN b : b[i].ts > now - config.age}
    IN IF Cardinality(DOMAIN b) <= HardCap THEN {DOMAIN b}
       ELSE IF Cardinality(young) <= HardCap THEN {young}
       ELSE Halves([i \in young |-> b[i]])

\* What an identity has now; one that is not in the table has a full bucket.
Level(b, i) ==
    IF i \notin DOMAIN b \/ b[i].tokens + now - b[i].ts > config.burst THEN config.burst
    ELSE b[i].tokens + now - b[i].ts

\* Mutant of Drawn: a refused request keeps the old time stamp.
DrawnOldStamp(b, i) ==
    IF Level(b, i) >= Cost THEN [tokens |-> Level(b, i) - Cost, ts |-> now]
    ELSE [tokens |-> Level(b, i), ts |-> b[i].ts]

\* The bucket behind a request, granted or refused.
Drawn(b, i) ==
    IF Level(b, i) >= Cost THEN [tokens |-> Level(b, i) - Cost, ts |-> now]
    ELSE [tokens |-> Level(b, i), ts |-> now]

Keyed(w) == config.keys /\ w.ident \in KeyIdent

\* No need to pay: a key, or, on the GET routes, a deployment without keys.
Authorised(w) == Keyed(w) \/ (w.kind # "mcp" /\ ~config.keys)

\* The branches of do_GET, do_POST and _mcp_tool_call before the lookup.
Lane(w) ==
    IF w.kind = "static" THEN "served"
    ELSE IF w.kind = "pro" THEN IF Keyed(w) /\ w.ident \in ProIdent THEN "lookup" ELSE "refused"
    ELSE IF w.kind = "evaluate" \/ Authorised(w) THEN "lookup"
    ELSE IF config.free /\ w.pay = NoAuth THEN "lookup"
    ELSE IF ~config.paid THEN "refused"
    ELSE IF w.pay = NoAuth THEN "pay"
    ELSE "lookup"

\* _Buckets.take and the lane of a request that is granted.
Take(c) ==
    LET w == conn[c]
        p == PoolOf(w)
    IN /\ w.at = "limit"
       /\ \E K \in Kept(buckets[p]) :
            LET b == [i \in K |-> buckets[p][i]]
                lost == {i \in DOMAIN buckets[p] \ K : buckets[p][i].ts > now - config.age}
            IN /\ buckets' = [buckets EXCEPT ![p] =
                    [i \in K \cup {w.ident} |-> IF i = w.ident THEN Drawn(b, i) ELSE b[i]]]
               /\ dropped' = [dropped EXCEPT ![p] =
                    [i \in Ident |-> IF i \in lost THEN @[i] + 1 ELSE @[i]]]
               /\ IF Level(b, w.ident) < Cost
                  THEN Answered(c, "limited") /\ UNCHANGED grants
                  ELSE /\ grants' = grants \cup {[pool |-> p, ident |-> w.ident, at |-> now,
                                                 id |-> <<asked, c>>]}
                       /\ IF Lane(w) = "lookup" THEN Goes(c, "stat") ELSE Answered(c, Lane(w))
    /\ UNCHANGED <<permits, leaked, cacheVars, spent, outside>>

-----------------------------------------------------------------------------
(***************************************************************************)
(* Lookups and the cache of the receipts file.                             *)
(***************************************************************************)
\* paysweep appends to the file.
Paysweep ==
    /\ file < config.versions
    /\ file' = file + 1
    /\ UNCHANGED <<config, now, asked, trouble, serverVars, bucketVars, cacheVars, payVars>>

\* A bad address, or a database that fails twice: 400, 404 or 503.
NoAnswer(c) ==
    /\ conn[c].at = "stat"
    /\ Answered(c, "not found")
    /\ UNCHANGED <<permits, leaked, bucketVars, cacheVars, spent, outside>>

\* The row is there; the file's mtime, if there is a file.
Stat(c) ==
    /\ conn[c].at = "stat"
    /\ conn' = [conn EXCEPT ![c].m = file, ![c].at = IF file = 0 THEN "use" ELSE "compare"]
    /\ UNCHANGED <<permits, leaked, bucketVars, cacheVars, payVars, outside>>

Compare(c) ==
    /\ conn[c].at = "compare"
    /\ IF cache.mtime = conn[c].m
       THEN Goes(c, "use") /\ UNCHANGED raced
       ELSE /\ Goes(c, "read")
            /\ raced' = (raced \/ \E d \in Conn : conn[d].at \in Refreshing)
    /\ UNCHANGED <<permits, leaked, bucketVars, cache, spent, outside>>

Read(c) ==
    /\ conn[c].at = "read"
    /\ conn' = [conn EXCEPT ![c].lines = file, ![c].at = "states"]
    /\ UNCHANGED <<permits, leaked, bucketVars, cacheVars, payVars, outside>>

\* The read fails: what the cache holds is used again.
ReadFails(c) ==
    /\ conn[c].at = "read"
    /\ trouble < MaxTrouble
    /\ trouble' = trouble + 1
    /\ conn' = [conn EXCEPT ![c].at = "use", ![c].excused = TRUE]
    /\ UNCHANGED <<permits, leaked, bucketVars, cacheVars, payVars, config, now, file, asked>>

SetStates(c) ==
    /\ conn[c].at = "states"
    /\ cache' = [cache EXCEPT !.states = conn[c].lines]
    /\ Goes(c, "history")
    /\ UNCHANGED <<permits, leaked, bucketVars, raced, spent, outside>>

SetHistory(c) ==
    /\ conn[c].at = "history"
    /\ cache' = [cache EXCEPT !.history = conn[c].lines]
    /\ Goes(c, "mtime")
    /\ UNCHANGED <<permits, leaked, bucketVars, raced, spent, outside>>

\* Mutant of SetMtime: the mtime is looked up behind the read.
SetMtimeAfter(c) ==
    /\ conn[c].at = "mtime"
    /\ cache' = [cache EXCEPT !.mtime = file]
    /\ Goes(c, "use")
    /\ UNCHANGED <<permits, leaked, bucketVars, raced, spent, outside>>

SetMtime(c) ==
    /\ conn[c].at = "mtime"
    /\ cache' = [cache EXCEPT !.mtime = conn[c].m]
    /\ Goes(c, "use")
    /\ UNCHANGED <<permits, leaked, bucketVars, raced, spent, outside>>

\* The answer of the lookup; the paid lane settles only now.
Use(c) ==
    LET w == [conn[c] EXCEPT !.used = IF conn[c].m = 0 THEN 0 ELSE cache.states, !.m = 0, !.lines = 0]
        pays == w.pay # NoAuth /\ config.paid /\ ~Authorised(w)
    IN /\ w.at = "use"
       /\ conn' = [conn EXCEPT ![c] = [w EXCEPT !.at = IF pays THEN "verify" ELSE "idle",
                                                !.reply = IF pays THEN "none" ELSE "served"]]
       /\ told' = [a \in Auth |-> IF a = w.pay /\ ~pays THEN told[a] \cup {"served"} ELSE told[a]]
       /\ UNCHANGED <<permits, leaked, bucketVars, cacheVars, spent, outside>>

-----------------------------------------------------------------------------
(***************************************************************************)
(* x402pay.settle.                                                         *)
(***************************************************************************)
\* Mutant of Escapes: only a worker that ends well gives its permit back.
EscapesKeeping(c) ==
    IF conn[c].kind = "mcp"
    THEN Answered(c, "dropped") /\ UNCHANGED permits
    ELSE /\ conn' = [conn EXCEPT ![c].at = "closed", ![c].reply = "dropped"]
         /\ told' = [told EXCEPT ![conn[c].pay] = @ \cup {"dropped"}]
         /\ UNCHANGED permits

\* An exception: on /mcp the tool answers with an error, on GET it ends the
\* worker and the connection.
Escapes(c) ==
    IF conn[c].kind = "mcp"
    THEN Answered(c, "dropped") /\ UNCHANGED permits
    ELSE /\ conn' = [conn EXCEPT ![c].at = "closed", ![c].reply = "dropped"]
         /\ told' = [told EXCEPT ![conn[c].pay] = @ \cup {"dropped"}]
         /\ permits' = permits + 1

\* The facilitator finds the payment valid, or not, or cannot be asked, or
\* answers with something that is no JSON object.
Verify(c) ==
    /\ conn[c].at = "verify"
    /\ \/ Goes(c, "settle") /\ UNCHANGED permits
       \/ Answered(c, "rejected") /\ UNCHANGED permits
       \/ Escapes(c)
    /\ UNCHANGED <<leaked, bucketVars, cacheVars, spent, outside>>

\* The chain: an authorisation settles at most once.
Settles(c, happens) ==
    IF happens THEN /\ spent[conn[c].pay] = NoAuth
                    /\ spent' = [spent EXCEPT ![conn[c].pay] = c]
               ELSE UNCHANGED spent

\* Mutant of Settle: a settlement whose answer is lost is tried once more.
SettleRetries(c) ==
    /\ conn[c].at = "settle"
    /\ \/ Settles(c, TRUE) /\ Answered(c, "receipt") /\ UNCHANGED permits
       \/ Settles(c, FALSE) /\ Answered(c, "failed") /\ UNCHANGED permits
       \/ Settles(c, TRUE) /\ Answered(c, "failed") /\ UNCHANGED permits
       \/ \E happens \in BOOLEAN : Settles(c, happens) /\ Escapes(c)
    /\ UNCHANGED <<leaked, bucketVars, cacheVars, outside>>

\* One attempt: settled, reported as failed, no answer in time, or an answer
\* that is no JSON object; in the last two cases it may have settled.
Settle(c) ==
    /\ conn[c].at = "settle"
    /\ \/ Settles(c, TRUE) /\ Answered(c, "receipt") /\ UNCHANGED permits
       \/ Settles(c, FALSE) /\ Answered(c, "failed") /\ UNCHANGED permits
       \/ \E happens \in BOOLEAN : Settles(c, happens) /\ Answered(c, "unknown") /\ UNCHANGED permits
       \/ \E happens \in BOOLEAN : Settles(c, happens) /\ Escapes(c)
    /\ UNCHANGED <<leaked, bucketVars, cacheVars, outside>>

-----------------------------------------------------------------------------
Worker(c) ==
    \/ Take(c) \/ NoAnswer(c) \/ Stat(c) \/ Compare(c) \/ Read(c) \/ ReadFails(c)
    \/ SetStates(c) \/ SetHistory(c) \/ SetMtime(c) \/ Use(c) \/ Verify(c) \/ Settle(c)

Server(c) == Accept(c) \/ Shed(c) \/ NoThread(c)

Next ==
    \/ Tick \/ Paysweep
    \/ \E c \in Conn : Server(c) \/ HangUp(c) \/ Request(c) \/ Worker(c)

Spec == Init /\ [][Next]_vars

\* The accept loop and the threads run on; a call of the facilitator ends after
\* 12 seconds and a silent client is hung up on after 30.  No client must ask.
Fairness == \A c \in Conn : WF_vars(Server(c)) /\ WF_vars(Worker(c)) /\ WF_vars(HangUp(c))

FairSpec == Spec /\ Fairness

-----------------------------------------------------------------------------
\* No path loses or doubles a worker's permit but a thread that never started:
\* the semaphore counts the workers that live (trust_api.py:3024).
PermitsBalanced ==
    permits + leaked + Cardinality({c \in Conn : conn[c].at \notin {"new", "closed"}}) = config.inflight

\* Over any time an identity gets no more than a burst and the refill of a pool,
\* and one more burst for every time the hard cap has forgotten it; the age
\* prune and refused requests give nothing away.
RateBound ==
    \A p \in Pool, i \in Ident : \A from \in 0..now :
        Cost * Cardinality({g \in grants : g.pool = p /\ g.ident = i /\ g.at >= from})
            <= config.burst * (1 + dropped[p][i]) + (now - from)

\* "One settle attempt ... Ambiguity fails CLOSED" (x402pay.py:26): once nobody
\* works on an authorisation that was settled, a client has got its receipt, or
\* was told that the outcome is unknown, or got no statement at all; whoever
\* was only told "rejected", "failed" or of a lookup without a row was not charged.
PaymentsAccounted ==
    \A a \in Auth :
        /\ spent[a] # NoAuth => told[a] \cap {"receipt", "unknown", "dropped"} # {}
        /\ "receipt" \in told[a] => spent[a] # NoAuth

\* "Refresh _delivery_cache iff its mtime changed": as long as no two refreshes
\* were under way at once, an answer is as new as the file was at its request.
FreshUnlessRaced ==
    ~raced => \A c \in Conn :
        conn[c].kind \in Lookups /\ conn[c].reply \in {"served", "receipt"} /\ ~conn[c].excused =>
            conn[c].used >= conn[c].since

\* The kinds of values that the three properties above rest on.
Work == [at : At, kind : Kind, ident : Ident, pay : Auth \cup {NoAuth}, since : Nat, m : Nat,
         lines : Nat, used : Nat, excused : BOOLEAN, reply : Reply]

ServeTyped ==
    /\ config \in Config
    /\ conn \in [Conn -> Work]
    /\ permits \in Nat /\ leaked \in Nat
    /\ file \in Nat
    /\ cache \in [mtime : Nat, states : Nat, history : Nat]
    /\ spent \in [Auth -> Conn \cup {NoAuth}]
    /\ raced \in BOOLEAN
    /\ told \in [Auth -> SUBSET Reply]
    /\ \A c \in Conn : conn[c].at \in {"verify", "settle"} => conn[c].pay \in Auth

\* Nothing is newer than the file, and a worker's mtime is no older than its request.
NotNewer ==
    /\ cache.mtime <= file
    /\ \A c \in Conn :
         /\ conn[c].since <= file
         /\ conn[c].at \in {"compare"} \cup Refreshing => conn[c].since <= conn[c].m /\ conn[c].m <= file

\* Without a race there is one refresh at a time; what it has read is no older
\* than any mtime the cache had or gets.
OneRefresh ==
    /\ \A c, d \in Conn : conn[c].at \in Refreshing /\ conn[d].at \in Refreshing => c = d
    /\ cache.mtime <= cache.states
    /\ \A c \in Conn :
         /\ conn[c].at \in {"states", "history", "mtime"} =>
                conn[c].m <= conn[c].lines /\ cache.mtime <= conn[c].lines
         /\ conn[c].at \in {"history", "mtime"} => cache.states = conn[c].lines

\* A worker about to use the cache finds what is new enough in it, and what a
\* refresh under way will put there is new enough too.
NewEnough ==
    \A c \in Conn : ~conn[c].excused =>
        /\ conn[c].at = "use" =>
              IF conn[c].m = 0 THEN conn[c].since = 0
              ELSE /\ conn[c].since <= cache.states
                   /\ \A d \in Conn : conn[d].at = "states" => conn[c].since <= conn[d].lines
        /\ conn[c].at \in {"verify", "settle"} => conn[c].since <= conn[c].used

\* Why the three properties hold.
ServeInv ==
    /\ ServeTyped /\ PermitsBalanced /\ PaymentsAccounted
    /\ NotNewer /\ FreshUnlessRaced
    /\ ~raced => OneRefresh /\ NewEnough

\* The tables, the grants and the counts of dropped identities keep their kinds.
BucketsTyped ==
    /\ now \in Nat
    /\ buckets = [p \in Pool |-> buckets[p]]
    /\ \A p \in Pool :
         /\ DOMAIN buckets[p] \subseteq Ident
         /\ IsFiniteSet(DOMAIN buckets[p]) /\ Cardinality(DOMAIN buckets[p]) <= HardCap + 1
         /\ \A i \in DOMAIN buckets[p] :
              buckets[p][i].tokens \in 0..config.burst /\ buckets[p][i].ts \in 0..now
    /\ dropped \in [Pool -> [Ident -> Nat]]
    /\ IsFiniteSet(grants) /\ \A g \in grants : g.at \in 0..now

Granted(p, i, from) == {g \in grants : g.pool = p /\ g.ident = i /\ g.at >= from}

\* Why RateBound holds: what an identity was granted and what it still has come
\* from a burst, the refill and the bursts that were forgotten.
Paced ==
    \A p \in Pool, i \in Ident : \A from \in 0..now :
        Cost * Cardinality(Granted(p, i, from)) + Level(buckets[p], i)
            <= config.burst * (1 + dropped[p][i]) + (now - from)

\* No version is newer than the last one.
InVersions ==
    LET Version == 0..config.versions IN
    /\ now \in 0..config.ticks
    /\ file \in Version
    /\ cache \in [mtime : Version, states : Version, history : Version]
    /\ \A c \in Conn : /\ conn[c].since \in Version /\ conn[c].m \in Version
                       /\ conn[c].lines \in Version /\ conn[c].used \in Version

\* The same without the condition: a cache under the file's mtime is the file's.
CacheIsTheFile ==
    cache.mtime = file /\ (\A c \in Conn : conn[c].at \notin Refreshing) =>
        cache.states = file /\ cache.history = file

\* Every connection is ended: no worker waits for ever, and with no permit left
\* the accept loop does not wait either.
EveryConnectionEnds == \A c \in Conn : <>(conn[c].at = "closed")
=============================================================================
