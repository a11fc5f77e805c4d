\* Two servers with one call each; Julia may die once.
SPECIFICATION Spec
CONSTANTS
    Servers = {s1, s2}
    MaxCalls = 1
    MaxRestarts = 1
INVARIANTS
    TypeOK
    HumanSeesNestedOutput
    NestedStreams
    OwnOutput
    RepeatedOnlyUnread
CHECK_DEADLOCK FALSE
