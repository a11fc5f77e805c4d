\* A screen of two rows with three above it, up to eleven rows, an accumulator of nine.
SPECIFICATION Spec
CONSTANTS
    Height = 2
    Scrollback = 3
    MaxAcc = 9
    TailLines = 1
    MaxRows <- MCMaxRows
INVARIANTS
    TypeOK
    AccumulatorBounded
    VerdictIsRight
    ResultIsOutput
PROPERTIES
    OverlapIsLongest
    EndIsSeen
CHECK_DEADLOCK FALSE
