\* Input longer than the pipe, which a hanging program does not read.
SPECIFICATION Spec
CONSTANTS
    Streams = {1, 2}
    StdinSize = 3
    PipeCap = 2
    Installed = TRUE
PROPERTIES
    Returns
CHECK_DEADLOCK FALSE
