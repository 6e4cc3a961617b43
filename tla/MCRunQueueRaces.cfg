\* Three workers on rings of two slots: two thieves race each other and the
\* owner for the same ids, and a full ring overflows while it is robbed.
CONSTANTS
    NumWorkers = 3
    Gids = {g1, g2, g3, g4}
    Null = Null
    Capacity = 2
    IndexMod = 32
    Start = 31
    BatchCap = 1
    MaxYields = 1
SPECIFICATION Spec
SYMMETRY GidSymmetry
INVARIANTS RingNeverOverrun ExactlyOnce
