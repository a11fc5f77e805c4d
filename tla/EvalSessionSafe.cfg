\* Two evals, restarts at any step, and REPLs of either kind.
SPECIFICATION Spec
CONSTANTS
    MaxCalls = 2
    MaxGen <- MCMaxGen
    MaxCaptureFailures = 1
INVARIANTS
    TypeOK
    CacheSound
    RunAtMostOnce
    ResultIsOwn
    NotInstalledNotRun
PROPERTIES
    RerunOnlyIfRejected
    RestartNoticed
CHECK_DEADLOCK FALSE
