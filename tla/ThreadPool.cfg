SPECIFICATION FairPoolSpec
CONSTANTS
    c1 = c1
    c2 = c2
    c3 = c3
    w1 = w1
    w2 = w2
    w3 = w3
    Client <- MCClient3
    Worker <- MCWorker3
INVARIANTS
    TaskInOnePlace
    NoLostWakeup
    AllTasksRun
PROPERTIES
    DestructorReturns
