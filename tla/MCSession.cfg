CONSTANTS
    MaxTicksWithoutDatagrams = 2
    MaxTicksWithoutSteps = 1
    GiveUpAfter = 1
    Channels = {1, 2}
    UninitChannels = {0}
    UninitWaits = {0}
    UninitNonces = {0}
    UninitStepIds = {0}
    UninitPhases = {"JoiningParticipant"}
    StepIds = {0, 1}
    StepModulus = 4
    StepsCapacity = 2
    PendingWindow = 2
    Chunks = {1, 2}
    TransferIds = {1, 2}
    ConnectionIds = {1, 2}
    MaxLocalUsers = 2
    Participants <- MCParticipants
    Nonces = {0, 1}
    RetryTicks = 1
    ParticipantsFor <- MCParticipantsFor
    ChannelOf <- OwnChannels
    MaxConnections = 2
    MaxJoins = 2
    MaxResets = 0
    MaxFaults = 1
    MaxStep = 1
    MaxPredicted = 1
    QueueCap = 3
SPECIFICATION Spec
CHECK_DEADLOCK FALSE
INVARIANTS
    SessionTypeOK
    SyncedStateMatches
    NoGameStateLeak
    RealizerSyncedIsSynced
    JoinedAsAnswered
    FindsOwnParticipant
PROPERTIES
    StepsAreExchanged
    JoinedLostOnlyToLaterRefusal
    ResponseStartsDownload
