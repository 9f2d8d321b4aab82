CONSTANTS
    MaxTicksWithoutDatagrams = 2
    MaxTicksWithoutSteps = 1
    GiveUpAfter = 1
    Channels = {1}
    UninitChannels = {0}
    UninitWaits = {0}
    UninitNonces = {0}
    UninitStepIds = {0}
    UninitPhases = {"JoinedParticipant"}
    StepIds = {0}
    StepModulus = 4
    StepsCapacity = 1
    PendingWindow = 1
    Chunks = {1}
    TransferIds = {1}
    ConnectionIds = {1}
    MaxLocalUsers = 2
    Participants <- MCParticipants
    Nonces = {0, 1}
    RetryTicks = 1
    ParticipantsFor <- MCParticipantsFor
    ChannelOf <- OwnChannels
    MaxConnections = 1
    MaxJoins = 2
    MaxResets = 0
    MaxFaults = 0
    MaxStep = 0
    MaxPredicted = 0
    QueueCap = 2
SPECIFICATION Spec
CHECK_DEADLOCK FALSE
INVARIANT
    JoinSendsRequest
