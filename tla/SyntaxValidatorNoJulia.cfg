\* julia is not on PATH.
SPECIFICATION Spec
CONSTANTS
    Streams = {1, 2}
    StdinSize = 1
    PipeCap = 2
    Installed = FALSE
INVARIANTS
    SkippedWithoutJulia
CHECK_DEADLOCK FALSE
