CONSTANTS
    MaxTicksWithoutDatagrams = 2
    MaxTicksWithoutSteps = 1
    GiveUpAfter = 1
    Channels = {1}
    UninitChannels = {0, 1}
    UninitWaits <- MCUninitWaits
    UninitNonces = {0}
    UninitStepIds = {0, 1}
    UninitPhases = {"JoiningParticipant", "JoinedParticipant", "OutOfParticipantSlots"}
    StepIds = {0, 1}
    StepModulus = 3
    StepsCapacity = 2
    PendingWindow = 2
    Chunks = {1, 2}
    TransferIds = {1}
    ConnectionIds = {1}
    MaxLocalUsers = 2
    Participants <- MCParticipants
    Nonces = {0}
    RetryTicks = 1
    MaxAllocations = 2
SPECIFICATION MCSpec
CHECK_DEADLOCK FALSE
INVARIANTS
    ClientTypeOK
    StepsInLockstep
    SyncedFromGameState
    RealizerTracksClient
    GivingUpDisconnects
    WaitsForRetryOnly
    NoDoubleFree
PROPERTIES
    QualitySpec
