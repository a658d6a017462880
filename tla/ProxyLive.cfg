SPECIFICATION FairSpec
CONSTANTS
    big = big  small = small  tiny = tiny
    d1 = d1  d2 = d2  d3 = d3
    r1 = r1  r2 = r2
    NoModel = NoModel
    Requests = {r1}
    Reused = {r1}
    Models <- PairModels
    DeploymentsOf <- PairDeployments
    FallbackOf <- PairFallback
    Permitted <- PairPermitted
    Malformed = {}
    Strategy <- PairStrategy
    Priority <- Priorities
    RetryLimit <- PairNoLimit
    MaxDepth = 5
    Answers <- StreamAnswers
    Failures <- MixedFailures
    HealthReports <- UpDown
    RotationPeriod = 2
    MaxOutages = 1
    Threshold = 1
    HalfOpenMax = 1
PROPERTIES
    EveryRequestEnds
