\* Every kind of line, two of them, with fairness of both threads and of calls.
SPECIFICATION Spec
CONSTANTS
    Messages <- MCEveryLine
    MaxMessages = 2
    MaxProgress = 1
INVARIANTS
    TypeOK
PROPERTIES
    EveryRequestAnswered
    ExitsAfterEof
    ImplementsService
