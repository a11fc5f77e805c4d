\* Three lines of traffic on the two threads, two progress frames per call.
SPECIFICATION Spec
CONSTANTS
    Messages <- MCTraffic
    MaxMessages = 3
    MaxProgress = 2
INVARIANTS
    FramesWhole
    AnsweredOnce
    WorkerAnswersInOrder
    ProgressInsideCall
    DispatcherExclusive
    DrainedAtExit
