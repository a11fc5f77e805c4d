\* Input that fits into the pipe, output on both streams.
SPECIFICATION Spec
CONSTANTS
    Streams = {1, 2}
    StdinSize = 2
    PipeCap = 2
    Installed = TRUE
INVARIANTS
    OutputComplete
    ReapedOnReturn
PROPERTIES
    Returns
CHECK_DEADLOCK FALSE
