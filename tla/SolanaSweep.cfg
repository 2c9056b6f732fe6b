\* Two relayers, two overlapping sweeps, three signatures, pages of two: a
\* relayer's newest page can leave an older signature out.
SPECIFICATION Spec
SYMMETRY Symmetry
CONSTANTS
    r1 = r1
    r2 = r2
    s1 = s1
    s2 = s2
    Relayer <- TwoRelayers
    Registry <- RegistryOfTwo
    Sweep <- TwoSweeps
    MaxSlot = 3
    MayFail = TRUE
    Page = 2
    Chunk = 2
    NoSlot = NoSlot
INVARIANTS
    NoSkip
