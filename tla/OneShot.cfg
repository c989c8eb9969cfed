\* Two processes, each control twice over or two that look for each other.
SPECIFICATION Spec
CONSTANTS
    Table <- Controls
    Actors <- Processes
    Assignments <- Pairs
    MaxStarts = 2
    MaxDrift = 1
    a1 = a1
    a2 = a2
INVARIANTS
    StatusTruthful
    RivalsApart
PROPERTY EffectsOnce
SYMMETRY Symmetry
CHECK_DEADLOCK FALSE
