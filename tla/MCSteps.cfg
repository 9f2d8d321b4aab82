CONSTANTS
    MaxTicksWithoutDatagrams = 2
    MaxTicksWithoutSteps = 1
    GiveUpAfter = 1
    Channels = {1}
    UninitChannels = {0}
    UninitWaits = {0}
    UninitNonces = {0}
    UninitStepIds = {0}
    UninitPhases = {"JoinedParticipant"}
    StepIds = {0, 1, 2, 3}
    StepModulus = 5
    StepsCapacity = 2
    PendingWindow = 2
    Chunks = {1}
    TransferIds = {1}
    ConnectionIds = {1}
    MaxLocalUsers = 2
    Participants <- MCParticipants
    Nonces = {0}
    RetryTicks = 1
    ParticipantsFor <- MCParticipantsFor
    ChannelOf <- OwnChannels
    MaxConnections = 1
    MaxJoins = 1
    MaxResets = 1
    MaxFaults = 1
    MaxStep = 3
    MaxPredicted = 2
    QueueCap = 3
SPECIFICATION Spec
CHECK_DEADLOCK FALSE
INVARIANTS
    StepsInLockstep
PROPERTY
    StepsAreExchanged
