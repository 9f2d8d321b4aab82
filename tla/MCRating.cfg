CONSTANTS
    MaxTicksWithoutDatagrams = 6
    MaxTicksWithoutSteps = 3
    GiveUpAfter = 2
    DatagramsFrom = 1
    StepsFrom = 1
    DroppedMax = 3
    DroppedFrom = 1
    LatencyMax = 9
    LatencyFrom = 3
    JitterAllowed = 3
    Latencies <- MCLatencies
    NoLatency = NoLatency
    MaxReports = 3
SPECIFICATION FairRatingSpec
INVARIANTS
    RatingTypeOK
    BadVerdictIsRatedZero
PROPERTY
    RatingRecovers
