\* One server, two calls, the first of which may time out.
SPECIFICATION Spec
CONSTANTS
    Servers = {s1}
    MaxCalls = 2
    MaxRestarts = 0
INVARIANTS
    HumanSeesOutput
CHECK_DEADLOCK FALSE
