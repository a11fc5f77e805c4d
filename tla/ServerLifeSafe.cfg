\* Two processes in two projects, three starts, three calls, one mishap.
SPECIFICATION Spec
CONSTANTS
    a = a
    b = b
    projectA = projectA
    projectB = projectB
    Servers = {a, b}
    Dirs = {projectA, projectB}
    CwdOf <- MCCwd
    Roots = {projectA}
    Panes = {pane}
    Files = {log}
    MaxCalls = 3
    MaxStarts = 3
    MaxTrouble = 1
INVARIANTS
    TypeOK
    LockFollowsBinding
    NoSilentLoss
PROPERTIES
    RestoredWasBound
    StartsWithLatest
CHECK_DEADLOCK FALSE
