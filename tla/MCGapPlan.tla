------------------------------ MODULE MCGapPlan -----------------------------
(***************************************************************************)
(* Every table of up to three ranges over four blocks, in every order that *)
(* ORDER BY from_block allows.                                             *)
(***************************************************************************)
EXTENDS GapPlan

Ranges == {r \in Block \X Block : r[1] <= r[2]}

SmallTables ==
    {t \in UNION {[1..n -> Ranges] : n \in 0..3} :
        \A j \in DOMAIN t : j + 1 \in DOMAIN t => t[j][1] <= t[j + 1][1]}
=============================================================================
