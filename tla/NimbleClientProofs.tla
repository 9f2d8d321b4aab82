-------------------------- MODULE NimbleClientProofs --------------------------
(***************************************************************************)
(* Proofs about the client against any server: whatever datagrams arrive,  *)
(* in whatever order, for every value of the constants.                    *)
(***************************************************************************)
EXTENDS NimbleClient, ConnectionQualityProofs

USE DEF realizeVars, participantVars, joinVars, stateVars, stepVars, qualityVars

LEMMA StepIdsAreNaturals == StepIds \subseteq Nat
BY ClientAssumption

\* What the fields of a datagram may be, by its type.
LEMMA MessageFields ==
    ASSUME NEW m \in ServerMessages
    PROVE  /\ m.type = "ConnectResponse" => m.connectionId \in Nat
           /\ m.type = "GameStateResponse" => m.stateId \in Nat /\ m.channel \in Nat
           /\ m.type = "BlobPart" =>
                /\ m.channel \in Nat /\ m.transferId \in Nat /\ m.content \in Nat
                /\ m.chunk \in Chunks /\ m.readable \in BOOLEAN
           /\ m.type = "JoinGameResponse" => m.participants \in Participants
           /\ m.type = "GameStepResponse" =>
                m.received \in Nat /\ m.steps \in SUBSET Nat /\ m.readable \in BOOLEAN
  <1>1. CASE m.type = "ConnectResponse"
    <2>1. m \in [type : {"ConnectResponse"}, connectionId : ConnectionIds]
      BY <1>1 DEF ServerMessages
    <2> QED BY <1>1, <2>1, ClientAssumption
  <1>2. CASE m.type = "GameStateResponse"
    <2>1. m \in [type : {"GameStateResponse"}, clientRequestId : {0, 1}, stateId : StepIds,
                 channel : Channels]
      BY <1>2 DEF ServerMessages
    <2> QED BY <1>2, <2>1, ClientAssumption, StepIdsAreNaturals
  <1>3. CASE m.type = "BlobPart"
    <2>1. m \in [type : {"BlobPart"}, channel : Channels, transferId : TransferIds, content : StepIds,
                 chunk : Chunks, readable : BOOLEAN]
      BY <1>3 DEF ServerMessages
    <2> QED BY <1>3, <2>1, ClientAssumption, StepIdsAreNaturals
  <1>4. CASE m.type = "JoinGameResponse"
    <2>1. m \in [type : {"JoinGameResponse"}, participants : Participants]
      BY <1>4 DEF ServerMessages
    <2> QED BY <1>4, <2>1
  <1>5. CASE m.type = "GameStepResponse"
    <2>1. m \in [type : {"GameStepResponse"}, received : 0..(StepModulus - 1), steps : SUBSET StepIds,
                 readable : BOOLEAN]
      BY <1>5 DEF ServerMessages
    <2>2. m.received \in 0..(StepModulus - 1) /\ m.steps \in SUBSET StepIds /\ m.readable \in BOOLEAN
      BY <2>1
    <2>3. m.received \in Nat
      BY <2>2, ClientAssumption
    <2>4. m.steps \in SUBSET Nat
      BY <2>2, StepIdsAreNaturals
    <2> QED BY <1>5, <2>2, <2>3, <2>4
  <1> QED BY <1>1, <1>2, <1>3, <1>4, <1>5

\* A datagram that was fed leaves the quality's invariant and its verdict.
LEMMA DatagramsKeepQuality ==
    ASSUME QualityInv, ReceivedUsableDatagram \/ ReceivedAuthoritativeSteps \/ UNCHANGED qualityVars
    PROVE  QualityInv' /\ reason' = reason
  <1>1. [QualityNext]_qualityVars
    BY DEF QualityNext
  <1> QED
    BY <1>1, QualityInvStep DEF ReceivedUsableDatagram, ReceivedAuthoritativeSteps

\* The invariant holds initially.
LEMMA ClientInvInit == ClientInit => ClientInv
  BY ClientAssumption, QualityInvInit, QualityAssumption
  DEF ClientInit, ClientInv, ClientTypeOK, StepsInLockstep, SyncedFromGameState, RealizerTracksClient,
      GivingUpDisconnects, NoDoubleFree, QualityInit, QualityTypeOK, ShouldDisconnect, Reasons,
      EmptySteps, EmptyPending, EmptyLookup, ParticipantEntries, StepCount, RealizeStates, ClientStates,
      JoiningStates, NoGameState

\* Every step but those of the quality and the steps' handler: enough is
\* known of what it leaves alone once its action is expanded.
LEMMA ConnectResponseKeepsInv ==
    ASSUME ClientInv, NEW m \in ServerMessages, OnConnectResponse(m)
    PROVE  ClientInv'
  <1>1. QualityInv' /\ QualityTypeOK' /\ reason' = reason
    BY DatagramsKeepQuality DEF ClientInv, OnConnectResponse, Fed, QualityInv
  <1> QED
    BY <1>1, MessageFields
    DEF OnConnectResponse, Receiving, Fed, ClientInv, ClientTypeOK, StepsInLockstep, SyncedFromGameState,
        RealizerTracksClient, GivingUpDisconnects, NoDoubleFree, StepCount, ClientStates

LEMMA DownloadResponseKeepsInv ==
    ASSUME ClientInv, NEW m \in ServerMessages, OnDownloadGameStateResponse(m)
    PROVE  ClientInv'
  <1>1. QualityInv' /\ QualityTypeOK' /\ reason' = reason
    BY DatagramsKeepQuality DEF ClientInv, OnDownloadGameStateResponse, DownloadStarts, Fed, QualityInv
  <1>2. m.stateId \in Nat /\ m.channel \in Nat
    BY MessageFields DEF OnDownloadGameStateResponse, DownloadStarts
  <1>3. state # "Disconnected" /\ UNCHANGED <<pc, realizeVars, remoteConnectionId, joinVars, blob,
                                              gameState, allocations, pending, authoritative>>
    BY DEF OnDownloadGameStateResponse, DownloadStarts, Receiving, Fed
  <1>4. CASE /\ joinStateChannel' = m.channel /\ gameStateStepId' = m.stateId /\ joinStateId' = m.stateId
             /\ outSteps' = EmptySteps(m.stateId) /\ state' = "JoiningDownloadingState" /\ waitTime' = 0
    <2>1. ClientTypeOK'
      BY <1>1, <1>2, <1>3, <1>4 DEF ClientInv, ClientTypeOK, ClientStates, EmptySteps
    <2> QED
      BY <1>1, <1>2, <1>3, <1>4, <2>1
      DEF ClientInv, ClientTypeOK, StepsInLockstep, SyncedFromGameState, RealizerTracksClient,
          GivingUpDisconnects, NoDoubleFree, StepCount, EmptySteps
  <1>5. CASE UNCHANGED <<joinStateChannel, gameStateStepId, joinStateId, outSteps, state, waitTime>>
    <2>1. ClientTypeOK'
      BY <1>1, <1>3, <1>5 DEF ClientInv, ClientTypeOK
    <2> QED
      BY <1>1, <1>3, <1>5, <2>1
      DEF ClientInv, StepsInLockstep, SyncedFromGameState, RealizerTracksClient,
          GivingUpDisconnects, NoDoubleFree, StepCount
  <1> QED BY <1>4, <1>5 DEF OnDownloadGameStateResponse, DownloadStarts

\* A completed blob starts the buffers together, at the step of its label.
LEMMA DownloadPartKeepsInv ==
    ASSUME ClientInv, NEW m \in ServerMessages, OnDownloadGameStatePart(m)
    PROVE  ClientInv'
  <1>1. QualityInv' /\ QualityTypeOK' /\ reason' = reason
    BY DatagramsKeepQuality DEF ClientInv, OnDownloadGameStatePart, Fed, FedWithError, QualityInv
  <1>2. /\ m.transferId \in Nat /\ m.content \in Nat /\ m.chunk \in Chunks
    BY MessageFields DEF OnDownloadGameStatePart
  <1>3. BlobReceive(blob, m) \in [transferId : Nat, content : Nat, chunks : SUBSET Chunks]
    BY <1>2 DEF BlobReceive, ClientInv, ClientTypeOK
  <1>4. /\ state # "Disconnected" /\ pc = "receive"
        /\ pc' \in {"receive", "realize"}
        /\ UNCHANGED <<realizeVars, waitTime, remoteConnectionId, joinVars, joinStateChannel, joinStateId>>
    BY DEF OnDownloadGameStatePart, Receiving, Fed, FedWithError
  <1>5. CASE blob' = BlobReceive(blob, m) /\ SetInitialGameState(blob', joinStateId, joinStateId)
    <2>1. blob'.content \in Nat /\ blob' \in [transferId : Nat, content : Nat, chunks : SUBSET Chunks]
      BY <1>3, <1>5
    <2> QED
      BY <1>1, <1>4, <1>5, <2>1, ClientAssumption
      DEF SetInitialGameState, GameStateInit, ClientInv, ClientTypeOK, StepsInLockstep, SyncedFromGameState,
          RealizerTracksClient, GivingUpDisconnects, NoDoubleFree, StepCount, EmptySteps,
          EmptyPending, ClientStates, NoGameState
  <1>6. CASE blob' \in {blob, BlobReceive(blob, m)} /\ KeepGameState
    <2>1. blob' \in [transferId : Nat, content : Nat, chunks : SUBSET Chunks]
      BY <1>3, <1>6 DEF ClientInv, ClientTypeOK
    <2>2. ClientTypeOK'
      BY <1>1, <1>4, <1>6, <2>1 DEF KeepGameState, ClientInv, ClientTypeOK
    <2> QED
      BY <1>1, <1>4, <1>6, <2>2
      DEF KeepGameState, ClientInv, StepsInLockstep, SyncedFromGameState, RealizerTracksClient,
          GivingUpDisconnects, NoDoubleFree, StepCount
  <1> QED BY <1>5, <1>6 DEF OnDownloadGameStatePart, TrySetInitialGameState

LEMMA JoinResponsesKeepInv ==
    ASSUME ClientInv, NEW m \in ServerMessages,
           OnJoinGameResponse(m) \/ OnJoinGameParticipantOutOfSpaceResponse(m)
    PROVE  ClientInv'
  <1>1. QualityInv' /\ QualityTypeOK' /\ reason' = reason
    BY DatagramsKeepQuality
    DEF ClientInv, OnJoinGameResponse, Joined, OnJoinGameParticipantOutOfSpaceResponse, Fed, QualityInv
  <1>2. CASE OnJoinGameResponse(m)
    <2>1. m.participants \in Participants
      BY <1>2, MessageFields DEF OnJoinGameResponse, Joined
    <2>2. m.participants \in Seq(ParticipantEntries) /\ Len(m.participants) \in 0..MaxLocalUsers
      BY <2>1, ClientAssumption
    <2>3. /\ localParticipantLookup' \in [1..MaxLocalUsers -> ParticipantEntries]
          /\ localParticipantCount' \in 0..MaxLocalUsers
      <3>1. \A i \in 1..MaxLocalUsers : i <= Len(m.participants) => m.participants[i] \in ParticipantEntries
        BY <2>2
      <3> QED
        BY <1>2, <2>2, <3>1 DEF OnJoinGameResponse, Joined, ClientInv, ClientTypeOK
    <2> QED
      BY <1>1, <1>2, <2>3
      DEF OnJoinGameResponse, Joined, Receiving, Fed, ClientInv, ClientTypeOK, StepsInLockstep,
          SyncedFromGameState, RealizerTracksClient, GivingUpDisconnects, NoDoubleFree, StepCount,
          JoiningStates
  <1>3. CASE OnJoinGameParticipantOutOfSpaceResponse(m)
    BY <1>1, <1>3
    DEF OnJoinGameParticipantOutOfSpaceResponse, Receiving, Fed, ClientInv, ClientTypeOK,
        StepsInLockstep, SyncedFromGameState, RealizerTracksClient, GivingUpDisconnects, NoDoubleFree,
        StepCount, JoiningStates
  <1> QED BY <1>2, <1>3

\* The acknowledged predicted steps go, the authoritative ones move up by as
\* many as nbsPendingStepsCopy takes.
LEMMA GameStepResponseKeepsInv ==
    ASSUME ClientInv, NEW m \in ServerMessages, OnGameStepResponse(m)
    PROVE  ClientInv'
  <1>1. QualityInv' /\ QualityTypeOK' /\ reason' = reason
    BY DatagramsKeepQuality DEF ClientInv, OnGameStepResponse, FedWithError, QualityInv
  <1>2. m.received \in Nat /\ m.steps \in SUBSET Nat
    BY MessageFields DEF OnGameStepResponse
  <1>3. /\ state # "Disconnected" /\ pc = "receive" /\ pc' \in {"receive", "realize"}
        /\ UNCHANGED <<realizeVars, state, waitTime, remoteConnectionId, joinVars, stateVars>>
    BY DEF OnGameStepResponse, Receiving, FedWithError
  <1>4. /\ outSteps' \in [read : Nat, write : Nat]
        /\ outSteps.read <= outSteps'.read /\ outSteps'.read <= outSteps'.write
    <2>1. FirstNotReceived(m.received) \in Nat
      BY <1>2, ClientAssumption DEF FirstNotReceived
    <2>2. outSteps' = DiscardUpTo(outSteps, FirstNotReceived(m.received))
      BY DEF OnGameStepResponse
    <2> QED
      BY <2>1, <2>2 DEF DiscardUpTo, ClientInv, ClientTypeOK, StepsInLockstep
  <1>5. /\ authoritative' \in [read : Nat, write : Nat] /\ authoritative'.read = authoritative.read
        /\ pending' \in [expected : Nat, have : SUBSET Nat]
        /\ authoritative'.write = pending'.expected
        /\ authoritative'.read <= authoritative'.write
        /\ StepCount(authoritative') <= StepsCapacity
        /\ \A i \in pending'.have : i >= pending'.expected
    <2>1. CASE UNCHANGED <<pending, authoritative>>
      BY <2>1 DEF ClientInv, ClientTypeOK, StepsInLockstep, StepCount
    <2>2. CASE m.readable
      <3> DEFINE p == PendingReceive(pending, m.steps)
      <3>1. p.expected = pending.expected /\ p.have \in SUBSET Nat /\ pending.expected \in Nat
        BY <1>2 DEF PendingReceive, ClientInv, ClientTypeOK
      <3>2. PICK n \in 0..StepsCapacity :
                /\ Copies(p, authoritative, n)
                /\ pending' = PendingWithout(p, n)
                /\ authoritative' = [authoritative EXCEPT !.write = @ + n]
        BY <2>2 DEF OnGameStepResponse
      <3>3. n \in Nat /\ n <= StepsCapacity - StepCount(authoritative)
        BY <3>2, ClientAssumption DEF Copies, StepCount, ClientInv, ClientTypeOK
      <3>4. pending' \in [expected : Nat, have : SUBSET Nat] /\ pending'.expected = pending.expected + n
        BY <3>1, <3>2, <3>3 DEF PendingWithout
      <3>5. \A i \in pending'.have : i >= pending'.expected
        BY <3>1, <3>2, <3>3 DEF PendingWithout
      <3>6. /\ authoritative \in [read : Nat, write : Nat]
            /\ authoritative.write = pending.expected /\ authoritative.read <= authoritative.write
        BY DEF ClientInv, ClientTypeOK, StepsInLockstep
      <3>7. /\ authoritative' \in [read : Nat, write : Nat]
            /\ authoritative'.read = authoritative.read
            /\ authoritative'.write = authoritative.write + n
        BY <3>2, <3>3, <3>6
      <3> QED
        BY <3>3, <3>4, <3>5, <3>6, <3>7, ClientAssumption DEF StepCount
    <2> QED BY <2>1, <2>2 DEF OnGameStepResponse
  <1>6. ClientTypeOK'
    BY <1>1, <1>3, <1>4, <1>5 DEF ClientInv, ClientTypeOK
  <1>7. StepsInLockstep'
    BY <1>4, <1>5 DEF StepsInLockstep, StepCount
  <1>8. SyncedFromGameState'
    BY <1>3, <1>4, <1>5 DEF ClientInv, ClientTypeOK, SyncedFromGameState
  <1> QED
    BY <1>1, <1>3, <1>6, <1>7, <1>8
    DEF ClientInv, RealizerTracksClient, GivingUpDisconnects, NoDoubleFree

\* A datagram that cannot be used ends the update and changes nothing else.
LEMMA ReceiveFailsKeepsInv == ASSUME ClientInv, ReceiveFails PROVE ClientInv'
  <1>1. QualityInv' /\ QualityTypeOK' /\ reason' = reason
    BY DatagramsKeepQuality DEF ClientInv, ReceiveFails, FedWithError, QualityInv
  <1>2. ClientTypeOK'
    BY <1>1 DEF ReceiveFails, FedWithError, ClientInv, ClientTypeOK
  <1> QED
    BY <1>1, <1>2
    DEF ReceiveFails, Receiving, FedWithError, ClientInv, StepsInLockstep, SyncedFromGameState,
        RealizerTracksClient, GivingUpDisconnects, NoDoubleFree, StepCount

\* The quality is updated on a synced client only, which has no reason to
\* disconnect yet; the same update disconnects it when it gets one.
LEMMA UpdateKeepsInv ==
    ASSUME ClientInv, UpdateQualityAndState, waitTime' \in Int
    PROVE  ClientInv'
  <1>1. /\ pc = "receive" /\ pc' = "realize" /\ state # "Disconnected" /\ ~ShouldDisconnect(reason)
        /\ UNCHANGED <<realizeVars, remoteConnectionId, joinVars, stateVars, stepVars>>
    BY DEF UpdateQualityAndState, ClientInv, GivingUpDisconnects
  <1>2. QualityInv'
    <2>1. CASE state = "Synced"
      BY <1>1, <2>1, QualityUpdateKeepsInv DEF UpdateQualityAndState, ClientInv
    <2>2. CASE state # "Synced"
      BY <2>2, DatagramsKeepQuality DEF UpdateQualityAndState, ClientInv
    <2> QED BY <2>1, <2>2
  <1>3. /\ state' \in {state, "Disconnected"}
        /\ ShouldDisconnect(reason') => state' = "Disconnected"
    <2>1. CASE state = "Synced"
      BY <2>1 DEF UpdateQualityAndState, CheckIfDisconnectIsNeeded
    <2>2. CASE state # "Synced"
      BY <1>1, <2>2 DEF UpdateQualityAndState, CheckIfDisconnectIsNeeded, ShouldDisconnect
    <2> QED BY <2>1, <2>2
  <1>4. ClientTypeOK'
    BY <1>1, <1>2, <1>3 DEF ClientInv, ClientTypeOK, ClientStates, QualityInv
  <1> QED
    BY <1>1, <1>2, <1>3, <1>4
    DEF ClientInv, StepsInLockstep, SyncedFromGameState, RealizerTracksClient, GivingUpDisconnects,
        NoDoubleFree, StepCount

\* The three phases of nimbleClientRealizeUpdate.
LEMMA RealizeKeepsInv ==
    ASSUME ClientInv, RealizeFollowsDisconnect \/ RealizeUpdateBegins \/ RealizeTarget
    PROVE  ClientInv'
  <1>1. UNCHANGED <<stateVars, stepVars, qualityVars>> /\ pc' # "destroyed" /\ pc # "destroyed"
    BY DEF RealizeFollowsDisconnect, RealizeUpdateBegins, UpdateUnless, RealizeTarget, RealizeTargetFrom
  <1>2. QualityInv' /\ QualityTypeOK' /\ reason' = reason
    BY <1>1, DatagramsKeepQuality DEF ClientInv, QualityInv
  <1>3. CASE RealizeFollowsDisconnect
    <2>1. ClientTypeOK'
      BY <1>2, <1>3 DEF RealizeFollowsDisconnect, ClientInv, ClientTypeOK, RealizeStates
    <2> QED
      BY <1>1, <1>2, <1>3, <2>1
      DEF RealizeFollowsDisconnect, ClientInv, StepsInLockstep, SyncedFromGameState,
          RealizerTracksClient, GivingUpDisconnects, NoDoubleFree, StepCount
  <1>4. CASE RealizeUpdateBegins
    <2>1. ClientTypeOK'
      BY <1>2, <1>4 DEF RealizeUpdateBegins, UpdateUnless, ClientInv, ClientTypeOK
    <2> QED
      BY <1>1, <1>2, <1>4, <2>1
      DEF RealizeUpdateBegins, UpdateUnless, ClientInv, StepsInLockstep, SyncedFromGameState,
          RealizerTracksClient, GivingUpDisconnects, NoDoubleFree, StepCount
  <1>5. CASE RealizeTarget
    <2>1. ClientTypeOK'
      BY <1>2, <1>5
      DEF RealizeTarget, RealizeTargetFrom, ClientInv, ClientTypeOK, ClientStates, JoiningStates, RealizeStates
    <2> QED
      BY <1>1, <1>2, <1>5, <2>1
      DEF RealizeTarget, RealizeTargetFrom, ClientInv, StepsInLockstep, SyncedFromGameState,
          RealizerTracksClient, GivingUpDisconnects, NoDoubleFree, StepCount
  <1> QED BY <1>3, <1>4, <1>5

\* The client's part of a reset; the realizer's is left to its caller.
LEMMA ResetKeepsInv ==
    ASSUME ClientInv, RealizeReInit \/ RealizeReset
    PROVE  ClientInv'
  <1>1. ResetClient /\ pc = "app" /\ pc' = "app" /\ realizeState' \in {"ReInit", "Cleared"}
        /\ targetState' \in {targetState, "Init"} /\ joinGameRequestNonce' \in {joinGameRequestNonce, 0}
    BY DEF RealizeReInit, RealizeReset, ResetTo
  <1>2. QualityInv' /\ QualityTypeOK' /\ reason' = "KeepConnection"
    BY <1>1, QualityInvStep DEF ResetClient, QualityReset, QualityNext, ClientInv, QualityInv
  <1>3. /\ gameState' = NoGameState /\ allocations' \in Int /\ allocations' >= 0
    BY <1>1 DEF ResetClient, DestroyGameState, ClientInv, ClientTypeOK, NoDoubleFree
  <1>4. ClientTypeOK'
    BY <1>1, <1>2, <1>3, ClientAssumption
    DEF ResetClient, ClientInv, ClientTypeOK, ClientStates, RealizeStates, EmptySteps, EmptyPending,
        EmptyLookup, ParticipantEntries
  <1> QED
    BY <1>1, <1>2, <1>3, <1>4, ClientAssumption
    DEF ResetClient, ClientInv, StepsInLockstep, SyncedFromGameState, RealizerTracksClient,
        GivingUpDisconnects, NoDoubleFree, StepCount, EmptySteps, EmptyPending, ShouldDisconnect

\* The other calls of the application.
LEMMA CallsKeepInv ==
    ASSUME ClientInv, RealizeJoinGame \/ RealizeQuitGame \/ RealizeDestroy
    PROVE  ClientInv'
  <1>1. QualityInv' /\ QualityTypeOK' /\ reason' = reason
    BY DatagramsKeepQuality
    DEF RealizeJoinGame, JoinGameWith, RealizeQuitGame, QuitTo, RealizeDestroy, ClientInv, QualityInv
  <1>2. CASE RealizeJoinGame
    <2>1. ClientTypeOK'
      BY <1>1, <1>2 DEF RealizeJoinGame, JoinGameWith, ClientInv, ClientTypeOK, JoiningStates
    <2> QED
      BY <1>1, <1>2, <2>1
      DEF RealizeJoinGame, JoinGameWith, ClientInv, StepsInLockstep, SyncedFromGameState, RealizerTracksClient,
          GivingUpDisconnects, NoDoubleFree, StepCount
  <1>3. CASE RealizeQuitGame
    <2>1. ClientTypeOK'
      BY <1>1, <1>3 DEF RealizeQuitGame, QuitTo, ClientInv, ClientTypeOK, ClientStates
    <2> QED
      BY <1>1, <1>3, <2>1
      DEF RealizeQuitGame, QuitTo, ClientInv, StepsInLockstep, SyncedFromGameState, RealizerTracksClient,
          GivingUpDisconnects, NoDoubleFree, StepCount
  <1>4. CASE RealizeDestroy
    <2>1. /\ gameState' = NoGameState /\ allocations' \in Int /\ allocations' >= 0
      BY <1>4 DEF RealizeDestroy, DestroyGameState, ClientInv, ClientTypeOK, NoDoubleFree
    <2>2. ClientTypeOK'
      BY <1>1, <1>4, <2>1 DEF RealizeDestroy, ClientInv, ClientTypeOK
    <2> QED
      BY <1>1, <1>4, <2>1, <2>2
      DEF RealizeDestroy, ClientInv, StepsInLockstep, SyncedFromGameState, RealizerTracksClient,
          GivingUpDisconnects, NoDoubleFree, StepCount
  <1> QED BY <1>2, <1>3, <1>4

\* The application's use of the buffers of steps.
LEMMA StepCallsKeepInv ==
    ASSUME ClientInv, AddPredictedStep \/ ReadStep
    PROVE  ClientInv'
  <1>1. QualityInv' /\ QualityTypeOK' /\ reason' = reason
    BY DatagramsKeepQuality DEF AddPredictedStep, ReadStep, ClientInv, QualityInv
  <1>2. /\ outSteps' \in [read : Nat, write : Nat] /\ authoritative' \in [read : Nat, write : Nat]
        /\ outSteps'.read = outSteps.read /\ outSteps'.read <= outSteps'.write
        /\ authoritative'.write = authoritative.write
        /\ authoritative.read <= authoritative'.read /\ authoritative'.read <= authoritative'.write
    <2>1. /\ outSteps \in [read : Nat, write : Nat] /\ authoritative \in [read : Nat, write : Nat]
          /\ outSteps.read <= outSteps.write /\ authoritative.read <= authoritative.write
      BY DEF ClientInv, ClientTypeOK, StepsInLockstep
    <2>2. CASE AddPredictedStep
      BY <2>1, <2>2 DEF AddPredictedStep
    <2>3. CASE ReadStep
      BY <2>1, <2>3 DEF ReadStep, StepCount
    <2> QED BY <2>2, <2>3
  <1>3. /\ pc = "app" /\ UNCHANGED <<pc, realizeVars, state, waitTime, remoteConnectionId, joinVars,
                                     stateVars, pending>>
    BY DEF AddPredictedStep, ReadStep
  <1>4. ClientTypeOK'
    BY <1>1, <1>2, <1>3 DEF ClientInv, ClientTypeOK
  <1>5. StepsInLockstep'
    BY <1>2, <1>3, ClientAssumption DEF ClientInv, ClientTypeOK, StepsInLockstep, StepCount
  <1>6. SyncedFromGameState'
    BY <1>2, <1>3 DEF ClientInv, ClientTypeOK, SyncedFromGameState
  <1> QED
    BY <1>1, <1>3, <1>4, <1>5, <1>6
    DEF ClientInv, RealizerTracksClient, GivingUpDisconnects, NoDoubleFree

\* A step that changes nothing.
LEMMA StutterKeepsInv == ASSUME ClientInv, UNCHANGED clientVars PROVE ClientInv'
  <1>1. QualityInv' /\ QualityTypeOK'
    BY DatagramsKeepQuality DEF clientVars, ClientInv, QualityInv
  <1>2. ClientTypeOK'
    BY <1>1 DEF clientVars, ClientInv, ClientTypeOK
  <1> QED
    BY <1>1, <1>2
    DEF clientVars, ClientInv, StepsInLockstep, SyncedFromGameState, RealizerTracksClient,
        GivingUpDisconnects, NoDoubleFree, StepCount

\* Every way of finishing an update leaves an integer in waitTime.
LEMMA UpdateWaitTime ==
    ASSUME ClientInv,
           \/ UpdateWaits
           \/ UpdateSendStepsFails
           \/ \E out : UpdateSends(out)
    PROVE  UpdateQualityAndState /\ waitTime' \in Int
  BY ClientAssumption
  DEF ClientInv, ClientTypeOK, UpdateWaits, UpdateSendStepsFails, UpdateSends, SendPackets

\* Every step of the client keeps the invariant.
LEMMA ClientInvStep == ClientInv /\ [ClientNext]_clientVars => ClientInv'
  <1> SUFFICES ASSUME ClientInv, [ClientNext]_clientVars PROVE ClientInv'
    OBVIOUS
  <1>1. CASE \E m \in ServerMessages : Feed(m)
    <2> PICK m \in ServerMessages : Feed(m)
      BY <1>1
    <2> QED
      BY ConnectResponseKeepsInv, DownloadResponseKeepsInv, DownloadPartKeepsInv,
         JoinResponsesKeepInv, GameStepResponseKeepsInv DEF Feed
  <1>2. CASE ReceiveFails
    BY <1>2, ReceiveFailsKeepsInv
  <1>3. CASE UpdateWaits \/ UpdateSendStepsFails \/ \E out : UpdateSends(out)
    BY <1>3, UpdateWaitTime, UpdateKeepsInv
  <1>4. CASE RealizeFollowsDisconnect \/ RealizeUpdateBegins \/ RealizeTarget
    BY <1>4, RealizeKeepsInv
  <1>5. CASE RealizeReInit \/ RealizeReset
    BY <1>5, ResetKeepsInv
  <1>6. CASE RealizeJoinGame \/ RealizeQuitGame \/ RealizeDestroy
    BY <1>6, CallsKeepInv
  <1>7. CASE AddPredictedStep \/ ReadStep
    BY <1>7, StepCallsKeepInv
  <1>8. CASE UNCHANGED clientVars
    BY <1>8, StutterKeepsInv
  <1> QED BY <1>1, <1>2, <1>3, <1>4, <1>5, <1>6, <1>7, <1>8 DEF ClientNext

\* The inductive invariant of the client, whatever the server sends.
THEOREM ClientInvariant == ClientSpec => []ClientInv
  BY ClientInvInit, ClientInvStep, PTL DEF ClientSpec

\* The state of the client and of the realizer keeps its types.
THEOREM ClientTypes == ClientSpec => []ClientTypeOK
  <1>1. ClientInv => ClientTypeOK BY DEF ClientInv
  <1> QED BY <1>1, ClientInvariant, PTL

\* game_step_response.c, download_state_part.c and nimbleClientReset keep the
\* buffer the application reads from and the pending window together.
THEOREM Lockstep == ClientSpec => []StepsInLockstep
  <1>1. ClientInv => StepsInLockstep BY DEF ClientInv
  <1> QED BY <1>1, ClientInvariant, PTL

\* A synced client has a game state and no step from before it.
THEOREM SyncedFromState == ClientSpec => []SyncedFromGameState
  <1>1. ClientInv => SyncedFromGameState BY DEF ClientInv
  <1> QED BY <1>1, ClientInvariant, PTL

\* The realizer says Synced only over a client that has been synced.
THEOREM RealizerTracks == ClientSpec => []RealizerTracksClient
  <1>1. ClientInv => RealizerTracksClient BY DEF ClientInv
  <1> QED BY <1>1, ClientInvariant, PTL

\* The update in which the quality gives up disconnects the client.
THEOREM GiveUpDisconnects == ClientSpec => []GivingUpDisconnects
  <1>1. ClientInv => GivingUpDisconnects BY DEF ClientInv
  <1> QED BY <1>1, ClientInvariant, PTL

\* Every step of the client keeps what WaitsForRetryOnly needs.
LEMMA WaitInvStep == ClientInv /\ WaitInv /\ [ClientNext]_clientVars => WaitInv'
  <1> SUFFICES ASSUME ClientInv, WaitInv, [ClientNext]_clientVars PROVE WaitInv'
    OBVIOUS
  <1>1. waitTime \in Int /\ RetryTicks \in Nat
    BY ClientAssumption DEF ClientInv, ClientTypeOK
  <1>2. CASE \E m \in ServerMessages : Feed(m)
    <2> PICK m \in ServerMessages : Feed(m)
      BY <1>2
    <2>1. /\ pc = "receive" /\ state # "Disconnected" /\ pc' \in {"receive", "realize"}
          /\ UNCHANGED realizeVars
          /\ \/ UNCHANGED <<state, waitTime>>
             \/ waitTime' = 0 /\ state' \in {state, "JoiningDownloadingState"}
             \/ state' = "Synced" /\ UNCHANGED waitTime
             \/ state = "RequestingConnect" /\ state' = "Connected" /\ UNCHANGED waitTime
      BY DEF Feed, OnConnectResponse, OnDownloadGameStateResponse, DownloadStarts, OnDownloadGameStatePart,
             TrySetInitialGameState, SetInitialGameState, KeepGameState, OnJoinGameResponse, Joined,
             OnJoinGameParticipantOutOfSpaceResponse, OnGameStepResponse, Receiving, Fed, FedWithError
    <2> QED
      BY <1>1, <2>1 DEF WaitInv, ClientInv, ClientTypeOK, RealizerTracksClient
  <1>3. CASE ReceiveFails
    BY <1>1, <1>3 DEF ReceiveFails, Receiving, FedWithError, WaitInv
  <1>4. CASE UpdateWaits \/ UpdateSendStepsFails \/ \E out : UpdateSends(out)
    <2>1. pc' = "realize" /\ UNCHANGED realizeVars /\ state' \in {state, "Disconnected"}
      BY <1>4
      DEF UpdateWaits, UpdateSendStepsFails, UpdateSends, UpdateQualityAndState, CheckIfDisconnectIsNeeded
    <2>2. waitTime' <= waitTime \/ waitTime' \in {0, RetryTicks}
      BY <1>1, <1>4 DEF UpdateWaits, UpdateSendStepsFails, UpdateSends, SendPackets
    <2>3. waitTime' \in Int
      BY <1>4, UpdateWaitTime
    <2> QED
      BY <1>1, <2>1, <2>2, <2>3 DEF WaitInv
  <1>5. CASE RealizeFollowsDisconnect \/ RealizeUpdateBegins
    BY <1>1, <1>5 DEF RealizeFollowsDisconnect, RealizeUpdateBegins, UpdateUnless, WaitInv
  <1>6. CASE RealizeTarget
    BY <1>1, <1>6 DEF RealizeTarget, RealizeTargetFrom, WaitInv, ClientInv, ClientTypeOK
  <1>7. CASE RealizeReInit \/ RealizeReset
    BY <1>7 DEF RealizeReInit, RealizeReset, ResetTo, ResetClient, WaitInv
  <1>8. CASE \/ RealizeJoinGame \/ RealizeQuitGame \/ RealizeDestroy \/ AddPredictedStep \/ ReadStep
             \/ UNCHANGED clientVars
    BY <1>1, <1>8
    DEF RealizeJoinGame, JoinGameWith, RealizeQuitGame, QuitTo, RealizeDestroy, AddPredictedStep, ReadStep,
        clientVars, WaitInv
  <1> QED BY <1>2, <1>3, <1>4, <1>5, <1>6, <1>7, <1>8 DEF ClientNext

\* Whatever waitTime held when the client was set up, between two updates a
\* client that is connecting or connected waits at most for a retry.
THEOREM WaitsAreRetries == ClientSpec => []WaitsForRetryOnly
  <1>1. ClientInit => WaitInv
    BY DEF ClientInit, WaitInv
  <1>2. WaitInv => WaitsForRetryOnly
    BY DEF WaitInv, WaitsForRetryOnly
  <1> QED BY <1>1, <1>2, WaitInvStep, ClientInvariant, PTL DEF ClientSpec

\* Every step of the client is a step of its connection quality, or leaves
\* it alone.
LEMMA ClientStepIsQualityStep ==
    ASSUME ClientInv, [ClientNext]_clientVars
    PROVE  [QualityNext]_qualityVars
  <1>1. CASE \E m \in ServerMessages : Feed(m)
    BY <1>1
    DEF Feed, OnConnectResponse, OnDownloadGameStateResponse, DownloadStarts, OnDownloadGameStatePart,
        OnJoinGameResponse, Joined, OnJoinGameParticipantOutOfSpaceResponse, OnGameStepResponse, Fed,
        FedWithError, QualityNext
  <1>2. CASE ReceiveFails
    BY <1>2 DEF ReceiveFails, FedWithError
  <1>3. CASE UpdateWaits \/ UpdateSendStepsFails \/ \E out : UpdateSends(out)
    <2>1. UpdateQualityAndState
      BY <1>3 DEF UpdateWaits, UpdateSendStepsFails, UpdateSends
    <2>2. ~ShouldDisconnect(reason)
      BY <2>1 DEF UpdateQualityAndState, ClientInv, GivingUpDisconnects
    <2> QED
      BY <2>1, <2>2 DEF UpdateQualityAndState, QualityNext
  <1>4. CASE RealizeReInit \/ RealizeReset
    BY <1>4 DEF RealizeReInit, RealizeReset, ResetTo, ResetClient, QualityNext
  <1>5. CASE \/ RealizeFollowsDisconnect \/ RealizeUpdateBegins \/ RealizeTarget
             \/ RealizeJoinGame \/ RealizeQuitGame \/ RealizeDestroy \/ AddPredictedStep \/ ReadStep
    BY <1>5
    DEF RealizeFollowsDisconnect, RealizeUpdateBegins, UpdateUnless, RealizeTarget, RealizeTargetFrom,
        RealizeJoinGame, JoinGameWith, RealizeQuitGame, QuitTo, RealizeDestroy, AddPredictedStep, ReadStep
  <1>6. CASE UNCHANGED clientVars
    BY <1>6 DEF clientVars
  <1> QED BY <1>1, <1>2, <1>3, <1>4, <1>5, <1>6 DEF ClientNext

\* The client uses the connection quality the way ConnectionQuality assumes:
\* it implements that specification, so what is proved of it holds here.
THEOREM ClientImplementsQuality == ClientSpec => QualitySpec
  <1>1. ClientInit => QualityInit
    BY DEF ClientInit
  <1> QED BY <1>1, ClientStepIsQualityStep, ClientInvariant, PTL DEF ClientSpec, QualitySpec

\* nimbleClientReset and nimbleClientDestroy never free a game state twice.
THEOREM NeverFreedTwice == ClientSpec => []NoDoubleFree
  <1>1. ClientInv => NoDoubleFree BY DEF ClientInv
  <1> QED BY <1>1, ClientInvariant, PTL
================================================================================
