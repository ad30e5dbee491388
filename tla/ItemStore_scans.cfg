SPECIFICATION Spec
CONSTANTS
    a1 = a1
    a2 = a2
    Thread <- BothThreads
    Setting <- Settings
    MaxClock = 2
INVARIANTS TypeOK FreshEntry MissingOnlyIfFailed HonestRow
CONSTRAINT Calm
VIEW View
SYMMETRY Symmetry
