---------------------------- MODULE MCSolanaSweep ---------------------------
(***************************************************************************)
(* Small instances of SolanaSweep.                                         *)
(***************************************************************************)
EXTENDS SolanaSweep, TLC

CONSTANTS r1, r2, s1, s2

OneRelayer == {r1}
TwoRelayers == {r1, r2}
RegistryOfOne == <<r1>>
RegistryOfTwo == <<r1, r2>>
OneSweep == {s1}
TwoSweeps == {s1, s2}

\* Sweeps are interchangeable; relayers are not, the registry orders them.
Symmetry == Permutations(Sweep)
=============================================================================
