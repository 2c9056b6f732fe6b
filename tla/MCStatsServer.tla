----------------------------- MODULE MCStatsServer -----------------------------
(***************************************************************************)
(* A small instance of StatsServer: a chain of the seller index, and one   *)
(* that is only watched.                                                   *)
(***************************************************************************)
EXTENDS StatsServer

Chains == <<"base", "optimism">>
Registered == {"base"}
Indexed == <<"base">>
TwoSections == <<"liveness", "pulse">>
=============================================================================
