SPECIFICATION BusySpec
CONSTANTS
    big = big  small = small  tiny = tiny
    d1 = d1  d2 = d2  d3 = d3
    r1 = r1  r2 = r2
    NoModel = NoModel
    Requests = {r1}
    Reused = {r1}
    Models <- OneModel
    DeploymentsOf <- TwoDeployments
    FallbackOf <- OneFallback
    Permitted <- OnePermitted
    Malformed = {}
    Strategy <- OneRotating
    Priority <- Priorities
    RetryLimit <- OneNoLimit
    MaxDepth = 0
    Answers <- PlainAnswers
    Failures <- PlainFailures
    HealthReports <- NoReports
    RotationPeriod = 2
    MaxOutages = 1
    Threshold = 1
    HalfOpenMax = 1
PROPERTIES
    Recovers
