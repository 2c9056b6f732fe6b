-------------------------- MODULE MCInstrumentNight --------------------------
(***************************************************************************)
(* Small instances of InstrumentNight.  "A" and "a" are one EVM address.   *)
(***************************************************************************)
EXTENDS InstrumentNight

U == {"u1", "u2"}
Catalog == <<"u1", "u2">>
W == {"A", "a", "B"}
LowerCase == [w \in W |-> IF w = "A" THEN "a" ELSE w]
InIndex == {"base", "polygon", "solana", "solana-devnet"}

L(net, w) == [net |-> net, wallet |-> w]

\* One leg or two, a moved payout, two dialects, a network not indexed.
SomeListings ==
    [u1 |-> {<<L("eip155:8453", "a"), L("polygon", "B")>>,
             <<L("base", "B"), L("base", "A")>>,
             <<L("sei", "B"), L("sei", "A")>>},
     u2 |-> {<<L("sei", "B")>>}]

Get(a) == [get |-> a, post |-> Down]
Post(a) == [get |-> Other, post |-> a]

\* The payouts of the listing, or exchanged; unlisted networks; no valid 402.
SomeAsks ==
    [u1 |-> {Get(<<L("base", "A"), L("polygon", "B")>>),
             Post(<<L("eip155:8453", "B"), L("polygon", "A")>>),
             Get(Other)},
     u2 |-> {Get(<<L("polygon", "a")>>)}]

\* Dialects that the census and the feed name differently.
DialectListings ==
    [u1 |-> {<<L("base", "A"), L("solana:5eykt", "A")>>,
             <<L("base", "A"), L("polygon", "B")>>},
     u2 |-> {<<L("sei", "B")>>}]

\* One payout asked for on two networks.
SameAsks ==
    [u1 |-> {Get(<<L("base", "A"), L("solana:5eykt", "B")>>),
             Get(<<L("base", "A"), L("polygon", "A")>>),
             Get(Down)},
     u2 |-> {Get(<<L("polygon", "a")>>)}]
=============================================================================
