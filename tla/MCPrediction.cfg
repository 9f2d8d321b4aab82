CONSTANTS
    TickDuration = 4
    LowerBits = 16
    LatencyWindow = 2
    RoundTrips = {0, 3, 8}
    Jitter = 2
    BufferDeltas <- MCBufferDeltas
    UninitLatencies <- MCUninitLatencies
    Gaps = {3, 4}
    MaxNow = 40
    MaxStep = 1
    StepModulus = 64
SPECIFICATION PredictionSpec
INVARIANTS
    PredictionTypeOK
    StepArrivesInTime
