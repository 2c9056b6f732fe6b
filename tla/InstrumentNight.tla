--------------------------- MODULE InstrumentNight ---------------------------
(***************************************************************************)
(* A nightly run of indexer/daily_snapshot.py as a row of stages over one  *)
(* Postgres connection.  A statement that fails leaves the transaction     *)
(* aborted: every later statement fails too, until somebody rolls back.    *)
(* The stages of indexer/instrumentation.py and the feed of                *)
(* indexer/payto_watch.py are modelled with what they write; of the others *)
(* only whether they get through.                                          *)
(*                                                                         *)
(* A collector that reads settlements or the network and writes its own    *)
(* table counts as done when all its rows are written; the wash pass when  *)
(* none of its sections is lost.                                           *)
(***************************************************************************)
EXTENDS PaytoFeed

CONSTANTS
    NoFeed,      \* the feed was never written
    UrlOrder,    \* the listed endpoints of the one origin, in catalog order
    Listings,    \* Listings[u]: what the catalog may list for u
    Asks,        \* Asks[u]: how u may answer to GET and to POST
    Indexed,     \* networks that are indexed, or test networks
    AlertCount, AlertStreak, StreakMin,  \* WATCH_ALERT_*, WATCH_STREAK_MIN_COUNT
    MaxDay,      \* bound: days
    MaxFault,    \* bound: stages that fail of their own accord
    MaxChange    \* bound: changes of a listing or an answer

Order == <<"additive", "permit2", "canary1", "canary2", "snapshot",
           "enrich", "kinds", "fingerprint", "hourly", "health", "fetch",
           "watch", "census", "liveness", "domain", "recon", "econ",
           "feed", "wash", "scores", "vacuum", "metrics">>
Stage == {Order[i] : i \in DOMAIN Order}
Place == [s \in Stage |-> CHOOSE i \in DOMAIN Order : Order[i] = s]

\* run_instrumentation, and the part of it that needs the catalog.
Instruments == {s \in Stage : Place["fingerprint"] <= Place[s] /\ Place[s] <= Place["econ"]}
Catalogued == {"watch", "census", "liveness", "domain"}

Day == 1..MaxDay
Reply == Seq(Leg) \cup {Down, Other}

ASSUME NightAssumption ==
    /\ MaxDay \in Nat \ {0} /\ MaxFault \in Nat /\ MaxChange \in Nat
    /\ AlertCount \in Nat /\ AlertStreak \in Nat /\ StreakMin \in Nat
    /\ {UrlOrder[i] : i \in DOMAIN UrlOrder} = Url
    /\ Url # {}
    /\ \A u \in Url : Listings[u] \subseteq Seq(Leg) \ {<<>>}
    /\ \A u \in Url : Asks[u] \subseteq [get : Reply, post : Reply]

VARIABLES
    day,
    listing, ask,  \* the world: what is listed, how the endpoints answer
    kindsOn,       \* X402_PAYER_KINDS
    captured,      \* the day's snapshot exists
    pc,            \* the stage in work; 0 between runs
    txn,           \* the transaction: "clean" or "aborted"
    resources,     \* what the run fetched from the catalog
    census,        \* table bazaar_census
    offers,        \* table live_offers
    ledger,        \* meta network_watch_ledger
    feed,          \* payto_mismatches.json
    done, broken,  \* stages of the run that got through; that failed by themselves
    ended,         \* how the last run ended
    spent,         \* faults and changes so far
    listed,        \* history variable: listings that a day's census recorded
    answered,      \* history variable: answers that a day's probes recorded
    sighted        \* history variable: days on which the ledger saw a network

world  == <<day, listing, ask, kindsOn>>
tables == <<census, offers, ledger>>
truth  == <<listed, answered, sighted>>
vars   == <<world, captured, pc, txn, resources, tables, feed, done, broken,
            ended, spent, truth>>

Nowhere == [u \in Url |-> {}]
Unlisted == <<>>      \* a run without a catalog

Init ==
    /\ day = 1
    /\ listing \in [Url -> UNION {Listings[u] : u \in Url}]
    /\ \A u \in Url : listing[u] \in Listings[u]
    /\ ask \in [Url -> UNION {Asks[u] : u \in Url}]
    /\ \A u \in Url : ask[u] \in Asks[u]
    /\ kindsOn \in BOOLEAN
    /\ captured = FALSE
    /\ pc = 0
    /\ txn = "clean"
    /\ resources = Unlisted
    /\ census = [d \in Day |-> [u \in Url |-> <<>>]]
    /\ offers = [d \in Day |-> [u \in Url |-> {}]]
    /\ ledger = <<>>
    /\ feed = NoFeed
    /\ done = {}
    /\ broken = {}
    /\ ended = "never"
    /\ spent = [faults |-> 0, changes |-> 0]
    /\ listed = [d \in Day |-> Nowhere]
    /\ answered = [d \in Day |-> Nowhere]
    /\ sighted = <<>>

\* Every variable holds a value of its kind, one offer per address and day.
TypeOK ==
    /\ day \in Day
    /\ \A u \in Url : listing[u] \in Listings[u] /\ ask[u] \in Asks[u]
    /\ pc \in 0..Len(Order)
    /\ txn \in {"clean", "aborted"}
    /\ resources = Unlisted \/ DOMAIN resources = Url
    /\ \A d \in Day, u \in Url :
          \A o1, o2 \in offers[d][u] : o1.wallet = o2.wallet => o1 = o2
    /\ \A n \in DOMAIN ledger :
          ledger[n].days \in 1..day /\ ledger[n].streak \in 1..ledger[n].days
    /\ done \subseteq Stage /\ broken \subseteq Stage
    /\ pc # 0 => \A s \in done \cup broken : Place[s] <= pc
    /\ ended \in {"never", "finished", "died", "killed"}

-----------------------------------------------------------------------------
(***************************************************************************)
(* The world.  It moves between runs, and between the fetch of the catalog *)
(* and the probes.                                                         *)
(***************************************************************************)
At(s) == pc # 0 /\ Order[pc] = s

SellerChanges ==
    /\ pc = 0 \/ At("liveness")
    /\ spent.changes < MaxChange
    /\ \E u \in Url :
          \/ /\ \E l \in Listings[u] \ {listing[u]} : listing' = [listing EXCEPT ![u] = l]
             /\ UNCHANGED ask
          \/ /\ \E a \in Asks[u] \ {ask[u]} : ask' = [ask EXCEPT ![u] = a]
             /\ UNCHANGED listing
    /\ spent' = [spent EXCEPT !.changes = @ + 1]
    /\ UNCHANGED <<day, kindsOn, captured, pc, txn, resources, tables, feed,
                   done, broken, ended, truth>>

NewDay ==
    /\ pc = 0
    /\ day < MaxDay
    /\ day' = day + 1
    /\ captured' = FALSE
    /\ UNCHANGED <<listing, ask, kindsOn, pc, txn, resources, tables, feed,
                   done, broken, ended, spent, truth>>

-----------------------------------------------------------------------------
(***************************************************************************)
(* The run.                                                                *)
(***************************************************************************)
\* main: a new connection.
StartRun ==
    /\ pc = 0
    /\ pc' = 1
    /\ txn' = "clean"
    /\ resources' = Unlisted
    /\ done' = {}
    /\ broken' = {}
    /\ UNCHANGED <<world, captured, tables, feed, ended, spent, truth>>

Finish(how) ==
    /\ pc' = 0
    /\ ended' = how

\* On to the stage behind place p, or the end of the run.
Behind(p) ==
    IF p < Len(Order) THEN pc' = p + 1 /\ UNCHANGED ended ELSE Finish("finished")

\* The stage in work is through.
Through ==
    /\ done' = done \cup {Order[pc]}
    /\ Behind(pc)
    /\ UNCHANGED broken

\* store_dashboard_metrics, vacuum_settlements and build_coverage_fingerprint
\* roll back, or commit, before they read.
ClearsFirst == {"snapshot", "vacuum", "metrics"}

\* The stages whose statements can be reached.
Ready(s) == At(s) /\ (txn = "clean" \/ s \in ClearsFirst)

\* Stages of which only the outcome is modelled.
Plain == {"additive", "permit2", "canary1", "canary2", "enrich", "kinds",
          "fingerprint", "hourly", "health", "recon", "econ",
          "wash", "scores", "vacuum", "metrics"}

PlainStage ==
    /\ \E s \in Plain : Ready(s) /\ (s = "kinds" => kindsOn)
    /\ txn' = "clean"
    /\ Through
    /\ UNCHANGED <<world, captured, resources, tables, feed, spent, truth>>

\* X402_PAYER_KINDS=0.
SkipKinds ==
    /\ At("kinds")
    /\ ~kindsOn
    /\ Behind(pc)
    /\ UNCHANGED <<world, captured, txn, resources, tables, feed, done, broken,
                   spent, truth>>

\* build_coverage_fingerprint, and the day's snapshot unless it exists.
Snapshot ==
    /\ At("snapshot")
    /\ txn' = "clean"
    /\ captured' = TRUE
    /\ Through
    /\ UNCHANGED <<world, resources, tables, feed, spent, truth>>

\* A statement fails that the stage swallows without a rollback: the stage goes on
\* to its end, and leaves the transaction aborted.
Swallows ==
    /\ spent.faults < MaxFault
    /\ spent' = [spent EXCEPT !.faults = @ + 1]
    /\ done' = done \cup {Order[pc]}
    /\ broken' = broken \cup {Order[pc]}
    /\ Behind(pc)
    /\ txn' = "aborted"

\* fetch_bazaar_resources.  The one statement is bazaar_last, and in an aborted
\* transaction its failure is swallowed.
Fetch ==
    /\ At("fetch")
    /\ resources' = listing
    /\ Through
    /\ UNCHANGED <<world, captured, txn, tables, feed, spent, truth>>

\* The first failure of the transaction is that of bazaar_last.
FetchUnnoted ==
    /\ At("fetch")
    /\ txn = "clean"
    /\ resources' = listing
    /\ Swallows
    /\ UNCHANGED <<world, captured, tables, feed, truth>>

\* The catalog cannot be had: what needs it is left out.
SkipCatalogued ==
    /\ pc # 0 /\ Order[pc] \in Catalogued
    /\ resources = Unlisted
    /\ Behind(pc)
    /\ UNCHANGED <<world, captured, txn, resources, tables, feed, done, broken,
                   spent, truth>>

\* The number of legs that are listed today on network n.
Count(n) ==
    Cardinality(UNION {{<<u, i>> : i \in {j \in DOMAIN resources[u] :
                                             NormNetwork(resources[u][j].net) = n}} : u \in Url})

Unindexed ==
    {n \in {NormNetwork(l) : l \in Label} : n \notin Indexed /\ Count(n) > 0}

\* The entry of a network that the ledger does not know.
NewEntry == [first |-> day, last |-> 0, days |-> 0, streak |-> 0, alerted |-> 0]

\* Mutant of Seen: a repeated run counts the day again.
SeenTwice(e) ==
    [e EXCEPT !.last = day, !.days = @ + 1,
              !.streak = IF e.last = day - 1 THEN @ + 1 ELSE 1]

\* update_watch_ledger: the day counts once.
Seen(e) ==
    IF e.last = day THEN e
    ELSE [e EXCEPT !.last = day, !.days = @ + 1,
                   !.streak = IF e.last = day - 1 THEN @ + 1 ELSE 1]

\* update_watch_ledger: the entry of network n behind today's count.
Sighting(n) ==
    LET c == Count(n)
        e == Seen(IF n \in DOMAIN ledger THEN ledger[n] ELSE NewEntry)
        fire == c >= AlertCount \/ (e.streak >= AlertStreak /\ c >= StreakMin)
    IN IF fire /\ (e.alerted = 0 \/ c >= 2 * e.alerted)
       THEN [e EXCEPT !.alerted = c]
       ELSE e

\* The network watch: meta network_watch, then the ledger.
Watch ==
    /\ Ready("watch")
    /\ resources # Unlisted
    /\ ledger' = Updated(ledger, [n \in Unindexed |-> Sighting(n)])
    /\ sighted' = Updated(sighted, [n \in Unindexed |->
                      {day} \cup (IF n \in DOMAIN sighted THEN sighted[n] ELSE {})])
    /\ Through
    /\ UNCHANGED <<world, captured, txn, resources, census, offers, feed, spent,
                   listed, answered>>

\* record_bazaar_census: a row per leg, upserted by accept_index.
Census ==
    /\ Ready("census")
    /\ resources # Unlisted
    /\ census' = [census EXCEPT ![day] =
                     [u \in Url |-> Updated(@[u], Listed(resources[u]))]]
    /\ listed' = [listed EXCEPT ![day] = [u \in Url |-> @[u] \cup {resources[u]}]]
    /\ Through
    /\ UNCHANGED <<world, captured, txn, resources, offers, ledger, feed, spent,
                   answered, sighted>>

\* probe_endpoint_liveness: up to three endpoints of the origin, until one
\* gives a valid 402 or none at all.
Picked ==
    LET n == Len(UrlOrder)
    IN {UrlOrder[1], UrlOrder[(n \div 2) + 1], UrlOrder[n]}
Reached ==
    {u \in Picked :
        \A i, j \in DOMAIN UrlOrder :
            UrlOrder[j] = u /\ i < j /\ UrlOrder[i] \in Picked
                => Probed(ask[UrlOrder[i]]) = Other}

Liveness ==
    /\ Ready("liveness")
    /\ resources # Unlisted
    /\ LET valid == {u \in Reached : Probed(ask[u]) \notin {Down, Other}}
       IN /\ offers' = [offers EXCEPT ![day] =
                [u \in Url |-> IF u \in valid THEN Upserted(@[u], Offers(Probed(ask[u])))
                               ELSE @[u]]]
          /\ answered' = [answered EXCEPT ![day] =
                [u \in Url |-> IF u \in valid THEN @[u] \cup {Probed(ask[u])} ELSE @[u]]]
    /\ Through
    /\ UNCHANGED <<world, captured, txn, resources, census, ledger, feed, spent,
                   listed, sighted>>

\* probe_domain_intel.
Domains ==
    /\ Ready("domain")
    /\ resources # Unlisted
    /\ Through
    /\ UNCHANGED <<world, captured, txn, resources, tables, feed, spent, truth>>

\* write_feed: the file is replaced in one step.
WriteFeed ==
    /\ Ready("feed")
    /\ \E late \in BOOLEAN : feed' = Feed(census, offers, late)
    /\ Through
    /\ UNCHANGED <<world, captured, txn, resources, tables, spent, truth>>

\* The same, when a look-up of _seen_onchain fails: the feed has an address to look
\* up, and the file says of it that it does not know.
WriteFeedUnseen ==
    /\ Ready("feed")
    /\ \E late \in BOOLEAN :
          /\ feed' = Feed(census, offers, late)
          /\ feed'.mismatch # {} \/ feed'.rotation # {}
    /\ Swallows
    /\ UNCHANGED <<world, captured, resources, tables, truth>>

-----------------------------------------------------------------------------
(***************************************************************************)
(* Failures.                                                               *)
(***************************************************************************)
\* Mutant of RollsBack: a failed feed is only logged.
RollsBackButFeed ==
    {"canary1", "canary2", "kinds", "fingerprint", "wash", "scores", "metrics"}

\* The handlers that roll back.
RollsBack ==
    {"canary1", "canary2", "kinds", "fingerprint", "feed", "wash", "scores", "metrics"}

\* What an exception in stage s comes to, the transaction being aborted: the
\* snapshot has no handler, the first statement of run_instrumentation only
\* main's, behind the collectors.
Handled(s) ==
    IF s = "snapshot" THEN Finish("died") /\ txn' = "clean"
    ELSE /\ IF s = "fingerprint" THEN Behind(Place["econ"]) ELSE Behind(pc)
         /\ txn' = IF s \in RollsBack THEN "clean" ELSE "aborted"

\* A statement of a stage fails, and the stage with it.  vacuum runs outside a
\* transaction.
Breaks ==
    /\ pc # 0
    /\ Order[pc] \notin {"fetch", "vacuum"}
    /\ Ready(Order[pc])
    /\ Order[pc] \in Catalogued => resources # Unlisted
    /\ Order[pc] = "kinds" => kindsOn
    /\ spent.faults < MaxFault
    /\ spent' = [spent EXCEPT !.faults = @ + 1]
    /\ broken' = broken \cup {Order[pc]}
    /\ Handled(Order[pc])
    /\ UNCHANGED <<world, captured, resources, tables, feed, done, truth>>

\* A stage fails on what is not the database: an RPC, the network, a file.
\* Nothing of the transaction is lost.
Errs ==
    /\ pc # 0
    /\ Order[pc] \in {"additive", "permit2", "canary1", "canary2", "enrich",
                      "fetch", "wash", "scores", "vacuum", "metrics"}
    /\ Ready(Order[pc]) \/ At("fetch")
    /\ spent.faults < MaxFault
    /\ spent' = [spent EXCEPT !.faults = @ + 1]
    /\ broken' = broken \cup {Order[pc]}
    /\ Behind(pc)
    /\ txn' = IF At("vacuum") THEN "clean" ELSE txn
    /\ UNCHANGED <<world, captured, resources, tables, feed, done, truth>>

\* The first statement of a stage finds the transaction aborted.  The wash pass
\* goes on behind its own rollback, without the timeout it set and without the
\* scan for reciprocal pairs.
Spoiled ==
    /\ pc # 0
    /\ txn = "aborted"
    /\ Order[pc] \notin ClearsFirst \cup {"fetch"}
    /\ Order[pc] \in Catalogued => resources # Unlisted
    /\ Order[pc] = "kinds" => kindsOn
    /\ Handled(Order[pc])
    /\ UNCHANGED <<world, captured, resources, tables, feed, done, broken, spent, truth>>

\* The process is killed at any stage.
Killed ==
    /\ pc # 0
    /\ spent.faults < MaxFault
    /\ spent' = [spent EXCEPT !.faults = @ + 1]
    /\ Finish("killed")
    /\ txn' = "clean"
    /\ UNCHANGED <<world, captured, resources, tables, feed, done, broken, truth>>

Next ==
    \/ SellerChanges \/ NewDay
    \/ StartRun \/ PlainStage \/ SkipKinds \/ Snapshot
    \/ Fetch \/ SkipCatalogued \/ Watch \/ Census \/ Liveness \/ Domains \/ WriteFeed
    \/ FetchUnnoted \/ WriteFeedUnseen
    \/ Breaks \/ Errs \/ Spoiled \/ Killed

Spec == Init /\ [][Next]_vars
-----------------------------------------------------------------------------
\* The stages that share a fate: a failed one costs those behind it up to the
\* next rollback.
Block(s) ==
    CASE s \in {"additive", "permit2", "canary1"} -> 1
      [] s = "canary2" -> 2
      [] s = "snapshot" -> 3
      [] s = "enrich" \/ s = "kinds" -> IF kindsOn THEN 4 ELSE 5
      [] s \in Instruments \cup {"feed"} -> 5
      [] OTHER -> 5 + Place[s]

Skipped == (IF kindsOn THEN {} ELSE {"kinds"})

\* Whom a failure of stage f can cost: the stages up to the next rollback.  A feed
\* that was written over a failed look-up is not rolled back, and costs the wash
\* pass.
Costs(f, s) ==
    \/ Block(f) = Block(s) /\ Place[f] <= Place[s]
    \/ f = "feed" /\ f \in done /\ s = "wash"

\* "Without this rollback the poison propagates" (daily_snapshot.py:1271): a run
\* that is not killed loses a stage only to a failure of that stage, of an earlier
\* one of its block, or, the wash pass, of the feed's look-ups; and it ends early
\* only over its own snapshot.
SpillContained ==
    /\ ended = "finished" /\ pc = 0 =>
          \A s \in Stage \ (done \cup Skipped) : \E f \in broken : Costs(f, s)
    /\ ended = "died" /\ pc = 0 => "snapshot" \in broken

\* The ledger's memory is what the runs saw: the days a network was listed, each
\* once however often the day's run is repeated, and the unbroken row of days
\* up to the last; "no double-counted days/streaks" (instrumentation.py:931).
WatchTrue ==
    /\ DOMAIN ledger = DOMAIN sighted
    /\ \A n \in DOMAIN ledger :
          LET e == ledger[n]
          IN /\ e.days = Cardinality(sighted[n])
             /\ e.last \in sighted[n] /\ \A d \in sighted[n] : e.first <= d /\ d <= e.last
             /\ (e.last - e.streak + 1)..e.last \subseteq sighted[n]
             /\ e.last - e.streak \notin sighted[n]

-----------------------------------------------------------------------------
(***************************************************************************)
(* The published feed against what was listed and answered.                *)
(***************************************************************************)
\* The network that a label stands for.
Means(l) ==
    CASE l = "eip155:8453" -> "base"
      [] l = "solana:5eykt" -> "solana"
      [] l = "eip155:1329" -> "sei"
      [] OTHER -> l

\* The addresses of a listing or an answer on network n.
For(legs, n) ==
    {Spelled[legs[i].wallet] : i \in {j \in DOMAIN legs : Means(legs[j].net) = n}}
Networks(legs) == {Means(legs[i].net) : i \in DOMAIN legs}
Named(legs) == {Spelled[legs[i].wallet] : i \in DOMAIN legs}

\* The endpoint asks, on a network where it is listed, for none of the
\* addresses listed there; or the two have no network and no address in common.
Diverges(list, ans) ==
    IF Networks(list) \cap Networks(ans) # {}
    THEN \E n \in Networks(list) \cap Networks(ans) : For(list, n) \cap For(ans, n) = {}
    ELSE list # <<>> /\ ans # <<>> /\ Named(list) \cap Named(ans) = {}

\* The pairs of a listing and an answer that feed f compares for u, when the
\* days of both were recorded once.
Compared(f, u) ==
    IF f.catalog = 0 \/ f.probe = 0 THEN {}
    ELSE LET ls == listed[f.catalog][u]
             as == answered[f.probe][u]
         IN IF Cardinality(ls) = 1 /\ Cardinality(as) = 1 THEN ls \X as ELSE {}

InFeed(f, u) == \E e \in f.mismatch : e.url = u

\* A step that writes the feed.
Published == "feed" \in done' \ done

\* The blind spots: a label that census and feed do not bring together, and an
\* address that an answer names twice.
PairsUp(legs) ==
    \A i \in DOMAIN legs : CanonNet(NormNetwork(legs[i].net)) = CanonNet(legs[i].net)
AsksOnce(ans) ==
    \A i, j \in DOMAIN ans : Spelled[ans[i].wallet] = Spelled[ans[j].wallet] => i = j

\* What the history says of address a, listed for u on network n.
ListedOn(u, n, a) == {d \in Day : \E l \in listed[d][u] : a \in For(l, n)}
Known(u, n) == {a \in Wallet : ListedOn(u, n, a) # {}}

MismatchIsTrue(f, u) ==
    \A p \in Compared(f, u) :
        PairsUp(p[1]) /\ PairsUp(p[2]) /\ AsksOnce(p[2]) =>
            (InFeed(f, u) <=> Diverges(p[1], p[2]))

RotationIsTrue(f, u) ==
    (\A d \in Day : Cardinality(listed[d][u]) <= 1 /\ \A l \in listed[d][u] : PairsUp(l)) =>
        \A n \in {Means(l) : l \in Label} :
            LET of == {r \in f.rotation : r.url = u /\ r.net = CanonNet(n)}
            IN /\ Cardinality(Known(u, n)) > 1 <=> of # {}
               /\ \A r \in of :
                     /\ DOMAIN r.timeline = Known(u, n)
                     /\ \A a \in Known(u, n) :
                           /\ r.timeline[a][1] \in ListedOn(u, n, a)
                           /\ r.timeline[a][2] \in ListedOn(u, n, a)

\* "every entry is a RECORDED FACT" (payto_watch.py:17): outside the blind spots
\* an endpoint is in the feed exactly when what it asks for diverges from what is
\* listed for it, and a network of a listing rotates exactly when the census
\* knows several addresses of it, each with two days on which it was listed.
FeedIsTrue(f) == \A u \in Url : MismatchIsTrue(f, u) /\ RotationIsTrue(f, u)

FeedTrue == [][Published => FeedIsTrue(feed')]_vars

\* "Per-network keying fixes the masking" (payto_watch.py:104): an endpoint whose
\* answer diverges from its listing is in the feed.
MismatchShown ==
    [][Published =>
          \A u \in Url : \A p \in Compared(feed', u) :
              Diverges(p[1], p[2]) => InFeed(feed', u)]_vars

\* "Only a wallet change WITHIN the same network is a rotation"
\* (payto_watch.py:183): an endpoint in the rotation feed has been listed in more
\* than one way.
RotationIsChange ==
    [][Published =>
          \A r \in feed'.rotation :
              Cardinality(UNION {listed[d][r.url] : d \in Day}) > 1]_vars

\* "Pure derivation over the instrumentation tables; isolated, best-effort"
\* (daily_snapshot.py:1463): a run in which only the feed failed loses nothing else.
\* The code does not keep it: payto_watch.py:88 swallows without a rollback.
FeedIsolated ==
    pc = 0 /\ ended = "finished" /\ broken = {"feed"} => Stage \ (done \cup Skipped) \subseteq {"feed"}

\* "A crash is logged and swallowed so it never stops the others"
\* (instrumentation.py:725): a run in which only collectors failed, the catalog at
\* hand, loses no other collector.
CollectorsIndependent ==
    pc = 0 /\ ended = "finished" /\ broken \subseteq Instruments \ {"fingerprint", "fetch"} =>
        Instruments \ done \subseteq broken

-----------------------------------------------------------------------------
(***************************************************************************)
(* Why they hold.                                                          *)
(***************************************************************************)
\* What every variable is, beyond TypeOK.
NightTyped ==
    /\ listing \in [Url -> Seq(Leg)]
    /\ ask \in [Url -> [get : Reply, post : Reply]]
    /\ resources = Unlisted \/ resources \in [Url -> Seq(Leg)]
    /\ DOMAIN census = Day /\ \A d \in Day : DOMAIN census[d] = Url
    /\ offers \in [Day -> [Url -> SUBSET [net : Label, wallet : Wallet]]]
    /\ listed \in [Day -> [Url -> SUBSET Seq(Leg)]]
    /\ answered \in [Day -> [Url -> SUBSET Seq(Leg)]]

\* What a run has before place p it has done, left out or lost to its block.
Explained(p) ==
    \A s \in Stage \ (done \cup Skipped) :
        Place[s] < p => \E f \in broken : Costs(f, s)

\* A run that got the catalog has it.
Fetched == pc # 0 /\ "fetch" \in done => resources # Unlisted

\* An aborted transaction stems from a failure that can cost the stage in work.
Poisoned ==
    pc # 0 /\ txn = "aborted" =>
        /\ Order[pc] \notin ClearsFirst
        /\ \E f \in broken : Costs(f, Order[pc]) /\ Place[f] < pc

SpillInv ==
    /\ pc # 0 => Explained(pc)
    /\ Fetched
    /\ Poisoned
    /\ ended = "finished" /\ pc = 0 => Explained(Len(Order) + 1)
    /\ ended = "died" /\ pc = 0 => "snapshot" \in broken

\* The ledger knows of no day to come.
Sightings ==
    \A n \in DOMAIN ledger :
        /\ ledger[n] \in [first : Day, last : Day, days : Nat, streak : Nat \ {0}, alerted : Nat]
        /\ sighted[n] \subseteq 1..day

\* Rows are of listings ls of their day, offers of answers as; none is missing.
RowsAreListed(rows, ls) ==
    /\ IsFiniteSet(ls)
    /\ \A i \in DOMAIN rows : \E l \in ls : i \in DOMAIN l /\ rows[i] = Listed(l)[i]
    /\ \A l \in ls : DOMAIN l \subseteq DOMAIN rows
OffersAreAnswered(os, as) ==
    /\ IsFiniteSet(as)
    /\ \A o \in os : \E a \in as : o \in Offers(a)
    /\ \A a \in as : \A o \in Offers(a) : \E p \in os : p.wallet = o.wallet

Recorded ==
    \A d \in Day, u \in Url :
        /\ RowsAreListed(census[d][u], listed[d][u])
        /\ OffersAreAnswered(offers[d][u], answered[d][u])

InstrumentInv == TypeOK /\ NightTyped /\ SpillInv /\ Sightings /\ WatchTrue /\ Recorded
=============================================================================
