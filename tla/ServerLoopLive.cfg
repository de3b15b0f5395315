SPECIFICATION FairSpec
CONSTANTS
    Jobs <- EvenJobs
    N <- EvenN
    Gen <- EvenGen
    Slots = 2
    SoftAdmit = 3
    MaxQueue = 3
    Preferred <- MCPreferred
    InflightMin = 2
    PackSlack = 1
    HighRate = 2
    ShortGenrec = TRUE
    MayFail = {1}
    AllAged = TRUE
    MaxSteps = 2
    Resend = TRUE
PROPERTIES
    Answered
CHECK_DEADLOCK FALSE
