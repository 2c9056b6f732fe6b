------------------------------ MODULE PaytoFeed ------------------------------
(***************************************************************************)
(* What indexer/instrumentation.py keeps of a Bazaar listing and of the    *)
(* answer to an unpaid probe, and the comparison that                      *)
(* indexer/payto_watch.py publishes of the two.                            *)
(*                                                                         *)
(* A leg is one entry of an x402 "accepts" array: the label of a network   *)
(* and a payout address.  A listing is a sequence of legs; so is the       *)
(* answer to a probe, unless the endpoint is down or answers with          *)
(* something else than a valid 402.  Labels are the dialects met in the    *)
(* wild: chain names and CAIP-2 identifiers.                               *)
(***************************************************************************)
EXTENDS Integers, Sequences, FiniteSets

CONSTANTS
    Url,      \* listed endpoints
    Wallet,   \* payout addresses as they are spelled
    Spelled,  \* the lower-case spelling of an EVM address, a base58 one itself
    Down,     \* no answer at all
    Other     \* an answer that is no valid 402

Label == {"base", "eip155:8453", "polygon", "solana", "solana:5eykt",
          "eip155:1329", "sei"}

Leg == [net : Label, wallet : Wallet]

ASSUME FeedAssumption ==
    /\ IsFiniteSet(Url)
    /\ Spelled \in [Wallet -> Wallet]
    /\ \A w \in Wallet : Spelled[Spelled[w]] = Spelled[w]
    /\ Down # Other
    /\ Down \notin Seq(Leg) /\ Other \notin Seq(Leg)

-----------------------------------------------------------------------------
\* norm_network: the dialects of the census.  The table's key for Solana's
\* genesis is misspelled, so that this one falls through to "devnet".
NormNetwork(l) ==
    CASE l = "eip155:8453" -> "base"
      [] l = "eip155:1329" -> "sei"
      [] l = "solana:5eykt" -> "solana-devnet"
      [] OTHER -> l

\* _canon_net: the dialects of the feed.
CanonNet(l) ==
    CASE l = "base" -> "eip155:8453"
      [] l = "polygon" -> "eip155:137"
      [] l = "solana:5eykt" -> "solana"
      [] OTHER -> l

\* A table by key behind an upsert of rows.
Updated(table, rows) ==
    [k \in DOMAIN table \cup DOMAIN rows |-> IF k \in DOMAIN rows THEN rows[k] ELSE table[k]]

\* fetch_bazaar_resources: the legs of one listing as the census keeps them.
Listed(legs) == [i \in DOMAIN legs |-> [legs[i] EXCEPT !.net = NormNetwork(@)]]

\* _probe_x402: the answer to GET when that is a valid 402, else the one to
\* POST, else what GET got.
Probed(ask) ==
    IF ask.get \notin {Down, Other} THEN ask.get
    ELSE IF ask.post # Down THEN ask.post
    ELSE ask.get

\* _parse_402_offers: the first leg of every payout address.
Offers(legs) ==
    {[net |-> legs[i].net, wallet |-> Spelled[legs[i].wallet]] :
        i \in {j \in DOMAIN legs :
                  \A k \in 1..(j - 1) :
                      Spelled[legs[k].wallet] # Spelled[legs[j].wallet]}}

\* Mutant of Upserted: a row per network as well.
UpsertedBoth(old, new) == new \cup old

\* record_live_offer: one row per day, endpoint and address.
Upserted(old, new) ==
    new \cup {o \in old : \A n \in new : n.wallet # o.wallet}

-----------------------------------------------------------------------------
(***************************************************************************)
(* compute_feed.  A census is a function from days and endpoints to legs   *)
(* by accept_index; live offers are a function from days and endpoints to  *)
(* sets of offers.                                                         *)
(***************************************************************************)

\* MAX(measured_date) of a table; 0 without a row.
NewestDay(table, empty) ==
    LET days == {d \in DOMAIN table : \E u \in Url : table[d][u] # empty}
    IN IF days = {} THEN 0 ELSE CHOOSE d \in days : \A e \in days : e <= d

Legs(rows) == {rows[i] : i \in DOMAIN rows}

\* adv_by_net and live: the addresses of one canonical network.
On(legs, net) == {Spelled[g.wallet] : g \in {h \in legs : CanonNet(h.net) = net}}
Nets(legs) == {CanonNet(g.net) : g \in legs}
Wallets(legs) == {Spelled[g.wallet] : g \in legs}

\* Mutant of Mismatches: the addresses of all networks together.
MismatchesUnion(u, adv, live) ==
    IF adv # {} /\ live # {} /\ Wallets(adv) \cap Wallets(live) = {}
    THEN {[url |-> u, net |-> "any", advertised |-> Wallets(adv), live |-> Wallets(live)]}
    ELSE {}

\* Catalog against live, for one endpoint: per network where both sides name
\* the same one, else over all that either names.
Mismatches(u, adv, live) ==
    LET both == Nets(adv) \cap Nets(live)
    IN IF both # {}
       THEN {[url |-> u, net |-> n, advertised |-> On(adv, n), live |-> On(live, n)] :
                n \in {m \in both : On(adv, m) \cap On(live, m) = {}}}
       ELSE MismatchesUnion(u, adv, live)

CatalogVsLive(census, offers, cday, oday) ==
    IF cday = 0 \/ oday = 0 THEN {}
    ELSE UNION {Mismatches(u, Legs(census[cday][u]), offers[oday][u]) : u \in Url}

\* The rows of the query behind payto_rotation: first and last day of each
\* spelled address under each label of the census.
LegDays(census, u, g) == {d \in DOMAIN census : g \in Legs(census[d][u])}

Groups(census, u) ==
    {[leg |-> g,
      lo |-> CHOOSE d \in LegDays(census, u, g) : \A e \in LegDays(census, u, g) : d <= e,
      hi |-> CHOOSE d \in LegDays(census, u, g) : \A e \in LegDays(census, u, g) : e <= d] :
        g \in UNION {Legs(census[d][u]) : d \in DOMAIN census}}

\* Of several rows of one address and network, the last one read counts; the
\* query has no order, "late" picks which.
Counted(groups, late) ==
    CHOOSE g \in groups :
        \A h \in groups : IF late THEN h.lo <= g.lo ELSE g.lo <= h.lo

OfNet(groups, n) == {g \in groups : CanonNet(g.leg.net) = n}
OfWallet(groups, p) == {g \in groups : Spelled[g.leg.wallet] = p}

\* hist: the addresses of one endpoint on one network, each with two days.
Rotation(u, n, groups, late) ==
    [url |-> u, net |-> n,
     timeline |-> [p \in {Spelled[g.leg.wallet] : g \in OfNet(groups, n)} |->
         LET g == Counted(OfWallet(OfNet(groups, n), p), late) IN <<g.lo, g.hi>>]]

Rotations(census, late) ==
    UNION {{Rotation(u, n, Groups(census, u), late) :
              n \in {CanonNet(g.leg.net) : g \in Groups(census, u)}} : u \in Url}

\* compute_feed: only networks with several addresses rotate.
Feed(census, offers, late) ==
    LET cday == NewestDay(census, <<>>)
        oday == NewestDay(offers, {})
    IN [catalog |-> cday, probe |-> oday,
        mismatch |-> CatalogVsLive(census, offers, cday, oday),
        rotation |-> {r \in Rotations(census, late) :
                         Cardinality(DOMAIN r.timeline) > 1}]
=============================================================================
