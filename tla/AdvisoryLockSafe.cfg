\* Three processes on one lock file, two of which may end at any step.
SPECIFICATION Spec
CONSTANTS
    a = a
    b = b
    c = c
    lockA = lockA
    pane = pane
    PaneOf <- MCSamePane
    Procs <- MCThree
    Mortal = {b, c}
    Paths = {lockA}
    PathOf <- MCSamePath
INVARIANTS
    TypeOK
    ExclusiveWhileAllRun
PROPERTIES
    HeldFileStays
    OrphansReclaimed
