---------------------------- MODULE MCTrustServe ----------------------------
(* Two connections, and one deployment for each kind of traffic.             *)
EXTENDS TrustServe

CONSTANTS c1, c2, anonymous, keyed, pro, other, auth

TwoConns == {c1, c2}
AllIdents == {anonymous, other, keyed, pro}
Keys == {keyed, pro}
JustPro == {pro}
OneAuth == {auth}

FreeForNow == [keys |-> TRUE, free |-> TRUE, paid |-> TRUE, inflight |-> 2, burst |-> 6, age |-> 6,
               kinds |-> {"trust", "mcp"}, idents |-> {anonymous},
               requests |-> 2, ticks |-> 0, versions |-> 0]
HardGate == [FreeForNow EXCEPT !.free = FALSE, !.idents = {anonymous, keyed}]
Receipts == [FreeForNow EXCEPT !.keys = FALSE, !.paid = FALSE, !.kinds = {"trust"},
                               !.requests = 2, !.versions = 2]
Flood == [HardGate EXCEPT !.kinds = {"static", "health"}, !.idents = {anonymous, other, keyed},
                          !.requests = 4, !.ticks = 2, !.inflight = 1, !.burst = 2, !.age = 2]
ProPool == [Flood EXCEPT !.kinds = {"pro", "evaluate", "static"}, !.idents = {anonymous, pro},
                         !.requests = 3, !.ticks = 1]

AllConfigs == {FreeForNow, HardGate, Receipts, Flood, ProPool}
JustReceipts == {Receipts}
=============================================================================
