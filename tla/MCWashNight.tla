---------------------------- MODULE MCWashNight -----------------------------
(* Two sellers on Base, one on Polygon and one on Solana; populations of     *)
(* hand-picked sellers, each with the trait that one section looks for.      *)
EXTENDS WashNight, TLC

CONSTANTS b1, b2, p1, s1, base, polygon, solana, small, fair, captive, young, old

MCSeller == {b1, b2, p1, s1}
MCPayer == {small, fair, captive}
MCOrigin == {young, old}
MCChainOf == (b1 :> base) @@ (b2 :> base) @@ (p1 :> polygon) @@ (s1 :> solana)
MCWashOrder == <<base, polygon>>
MCCycleOrder == <<base, polygon, solana>>

Honest == [tx |-> 200, payers |-> 60, self |-> 0, top |-> 20, points |-> 85, t2 |-> TRUE,
           fr |-> 0, recip |-> FALSE, conc |-> FALSE, ring |-> FALSE, history |-> FALSE,
           batch |-> FALSE, big |-> TRUE, merchant |-> TRUE, relayer |-> FALSE]
Small == [Honest EXCEPT !.tx = 8, !.payers = 3, !.top = 4, !.points = 40, !.t2 = FALSE, !.big = FALSE]
SmallSelfPaid == [Small EXCEPT !.self = 4]
Ring == [Honest EXCEPT !.ring = TRUE]
Funded50 == [Honest EXCEPT !.fr = 50]
Funded50Single == [Funded50 EXCEPT !.conc = TRUE, !.top = 195]
Reciprocating == [Honest EXCEPT !.recip = TRUE, !.self = 10]
Monoculture == [Honest EXCEPT !.conc = TRUE, !.top = 195, !.self = 3]
Rehashed == [Small EXCEPT !.history = TRUE]
Batch == [Honest EXCEPT !.batch = TRUE, !.history = TRUE, !.self = 5]
SmallBatch == [Batch EXCEPT !.big = FALSE]
Relayer == [Honest EXCEPT !.merchant = FALSE, !.relayer = TRUE, !.ring = TRUE]
OwnPayTo == [Small EXCEPT !.merchant = FALSE, !.big = TRUE, !.fr = 50, !.conc = TRUE]
TopHeavy == [Honest EXCEPT !.top = 190, !.points = 92]
Middling == [Honest EXCEPT !.points = 40, !.payers = 20]

MCPayers == (small :> [tx |-> 2, sellers |-> 1, self |-> 1, points |-> 90])
         @@ (fair :> [tx |-> 30, sellers |-> 4, self |-> 0, points |-> 30])
         @@ (captive :> [tx |-> 12, sellers |-> 1, self |-> 0, points |-> 90])
MCPayers2 == (small :> [tx |-> 10, sellers |-> 4, self |-> 0, points |-> 10])
         @@ (fair :> [tx |-> 0, sellers |-> 0, self |-> 0, points |-> 0])
         @@ (captive :> [tx |-> 4, sellers |-> 2, self |-> 2, points |-> 60])
MCOrigins == (young :> [days |-> 3, up |-> 3, valid402 |-> 3, speed |-> 20])
          @@ (old :> [days |-> 9, up |-> 6, valid402 |-> 5, speed |-> 10])

Town(a, b, p, s, payers) ==
    [sellers |-> (b1 :> a) @@ (b2 :> b) @@ (p1 :> p) @@ (s1 :> s),
     payers |-> payers, origins |-> MCOrigins]

MCPopulations ==
    {Town(Honest, SmallSelfPaid, Ring, Ring, MCPayers),
     Town(Funded50, Small, Honest, Rehashed, MCPayers2),
     Town(Funded50Single, Reciprocating, Middling, Honest, MCPayers),
     Town(Monoculture, Batch, Relayer, Ring, MCPayers2),
     Town(Ring, SmallBatch, TopHeavy, Small, MCPayers),
     Town(Funded50, OwnPayTo, Monoculture, Honest, MCPayers2)}
=============================================================================
