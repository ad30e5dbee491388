SPECIFICATION Spec
CONSTANTS
    a1 = a1
    a2 = a2
    Thread <- BothThreads
    Setting <- OnlyTwo
    MaxClock = 2
INVARIANT NeverStale
VIEW View
SYMMETRY Symmetry
