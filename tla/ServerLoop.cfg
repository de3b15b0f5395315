SPECIFICATION Spec
CONSTANTS
    Jobs <- MCJobs
    N <- MCN
    Gen <- MCGen
    Slots = 3
    SoftAdmit = 3
    MaxQueue = 3
    Preferred <- MCPreferred
    InflightMin = 2
    PackSlack = 1
    HighRate = 2
    ShortGenrec = FALSE
    MayFail = {1, 2}
    AllAged = FALSE
    MaxSteps = 8
    Resend = FALSE
INVARIANTS
    AwaitedOnce
    NoAnswerWasted
    KnownIsServed
    AdmittedWithinBudget
CHECK_DEADLOCK FALSE
