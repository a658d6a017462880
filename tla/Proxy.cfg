SPECIFICATION Spec
CONSTANTS
    big = big  small = small  tiny = tiny
    d1 = d1  d2 = d2  d3 = d3
    r1 = r1  r2 = r2
    NoModel = NoModel
    Requests = {r1, r2}
    Reused = {}
    Models <- RingModels
    DeploymentsOf <- RingDeployments
    FallbackOf <- RingFallback
    Permitted <- RingPermitted
    Malformed = {r1}
    Strategy <- RingStrategy
    Priority <- Priorities
    RetryLimit <- RingRetryLimit
    MaxDepth = 1
    Answers <- ShakyAnswers
    Failures <- PlainFailures
    HealthReports <- NoReports
    RotationPeriod = 2
    MaxOutages = 0
    Threshold = 1
    HalfOpenMax = 1
INVARIANTS
    TypeOK
    EveryAttemptIsFresh
    AttemptsFollowPolicy
CHECK_DEADLOCK FALSE
