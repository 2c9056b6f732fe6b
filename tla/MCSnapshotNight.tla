--------------------------- MODULE MCSnapshotNight --------------------------
(***************************************************************************)
(* Small instances of SnapshotNight.                                       *)
(***************************************************************************)
EXTENDS SnapshotNight

CONSTANTS base, polygon

OneChain == {base}
TwoChains == {base, polygon}
BaseOnly == {base}
SparseAndDense ==
    LET Settled(p, a) == [c \in TwoChains |-> IF c = base THEN p ELSE a]
    IN {Settled({1, 2, 3}, {3}), Settled({2}, {1, 2})}
AllKinds == Mishap
WipeAndOutage == {"wipe", "outage"}
=============================================================================
