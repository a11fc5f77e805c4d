\* The claim of the source, with processes that may end: three on one lock file.
SPECIFICATION Spec
CONSTANTS
    a = a
    b = b
    c = c
    lockA = lockA
    pane = pane
    PaneOf <- MCSamePane
    Procs <- MCThree
    Mortal = {a}
    Paths = {lockA}
    PathOf <- MCSamePath
INVARIANTS
    PaneExclusive
