------------------------------ MODULE NimbleClient ------------------------------
(***************************************************************************)
(* The Nimble client: the realizer's state machine (network_realizer.c),   *)
(* the client it drives (client.c, outgoing.c, send_steps.c) and the       *)
(* handlers of the datagrams from the server (incoming.c and the           *)
(* *_response.c files).                                                    *)
(*                                                                         *)
(* nimbleClientRealizeUpdate is one call of a single-threaded program, but *)
(* datagrams reach the transport while it runs, so it is three phases of   *)
(* pc: "receive" is the loop of receive_transport.c, in which every        *)
(* datagram is one action, "realize" the switch on the target state, and   *)
(* "app" the time between two calls, when the application calls the rest   *)
(* of the API.                                                             *)
(*                                                                         *)
(* What arrives is the parameter m of the handlers and what is handed to   *)
(* the transport the parameter out of UpdateSends: NimbleSession binds     *)
(* them to a network and a server, ClientNext here to any server at all.   *)
(*                                                                         *)
(* The build modelled has CLOG_ASSERT compiled out.                        *)
(***************************************************************************)
EXTENDS ConnectionQuality, Sequences

CONSTANTS
    Channels,           \* blob stream channels a server may use; 0 is none
    UninitChannels,     \* what joinStateChannel may hold before it is first written
    UninitWaits,        \* the same for waitTime
    UninitNonces,       \* the same for joinGameRequestNonce
    UninitStepIds,      \* the same for joinStateId and joinedGameState.stepId
    UninitPhases,       \* the same for joinParticipantPhase
    StepIds,            \* step ids, the values the model tells apart
    StepModulus,        \* StepId is uint32_t: 2^32
    StepsCapacity,      \* slots of an NbsSteps buffer
    PendingWindow,      \* steps NbsPendingSteps holds from the expected one on
    Chunks,             \* chunks of the game state's blob
    TransferIds,        \* transfers of a blob stream; 0 is none
    ConnectionIds,      \* remote connection ids; 0 is none
    MaxLocalUsers,      \* slots of the lookup of local participants: 8
    Participants,       \* answers to a join: sequences of participant entries
    Nonces,             \* nonces of join requests
    RetryTicks          \* waitTime between two requests: 4

JoiningStates == {"JoiningParticipant", "JoinedParticipant", "OutOfParticipantSlots"}
ParticipantEntries == [localIndex : Nat, participantId : Nat]

ASSUME ClientAssumption ==
    /\ Channels \subseteq Nat \ {0}
    /\ UninitChannels \subseteq Nat
    /\ UninitWaits \subseteq Int
    /\ StepModulus \in Nat \ {0}
    /\ UninitStepIds \subseteq StepIds /\ StepIds \subseteq 0..(StepModulus - 1)
    /\ UninitPhases \subseteq JoiningStates
    /\ StepsCapacity \in Nat \ {0}
    /\ PendingWindow \in Nat \ {0}
    /\ TransferIds \subseteq Nat \ {0}
    /\ ConnectionIds \subseteq Nat \ {0}
    /\ MaxLocalUsers \in Nat
    /\ \A who \in Participants : who \in Seq(ParticipantEntries) /\ Len(who) <= MaxLocalUsers
    /\ UninitNonces \subseteq Nonces /\ Nonces \subseteq Nat
    /\ RetryTicks \in Nat

VARIABLES
    pc,                 \* phase of nimbleClientRealizeUpdate
    realizeState, targetState, joinGameRequestNonce,        \* NimbleClientRealize
    state, joinParticipantPhase, waitTime, remoteConnectionId,
    joinGameRequest,                                        \* its nonce
    joinStateChannel, joinStateId,
    localParticipantLookup, localParticipantCount,
    blob,               \* blobStreamIn
    gameStateStepId,    \* joinedGameState.stepId
    gameState,          \* joinedGameState.gameState
    allocations,        \* game states allocated and not freed
    outSteps,           \* predicted steps
    pending,            \* authoritativePendingStepsFromServer
    authoritative       \* authoritativeStepsFromServer

realizeVars == <<realizeState, targetState, joinGameRequestNonce>>
participantVars == <<localParticipantLookup, localParticipantCount>>
joinVars == <<joinParticipantPhase, joinGameRequest, participantVars>>
stateVars == <<joinStateChannel, joinStateId, blob, gameStateStepId, gameState, allocations>>
stepVars == <<outSteps, pending, authoritative>>
clientVars == <<pc, realizeVars, state, waitTime, remoteConnectionId, joinVars,
                stateVars, stepVars, qualityVars>>

ClientStates ==
    {"Idle", "RequestingConnect", "Connected", "JoiningRequestingState",
     "JoiningDownloadingState", "Synced", "Disconnected"}
RealizeStates == {"Init", "ReInit", "Cleared", "Synced", "Disconnected"}

NoGameState == -1
DownloadStateClientRequestId == 1

\* Datagrams from the server.
ConnectResponse(id) == [type |-> "ConnectResponse", connectionId |-> id]
GameStateResponse(id, sid, ch) ==
    [type |-> "GameStateResponse", clientRequestId |-> id, stateId |-> sid, channel |-> ch]
BlobPart(ch, id, sid, chunk, ok) ==
    [type |-> "BlobPart", channel |-> ch, transferId |-> id, content |-> sid, chunk |-> chunk, readable |-> ok]
JoinGameResponse(who) == [type |-> "JoinGameResponse", participants |-> who]
OutOfSlotsResponse(n) == [type |-> "OutOfSlots", nonce |-> n]
GameStepResponse(got, ids, ok) ==
    [type |-> "GameStepResponse", received |-> got, steps |-> ids, readable |-> ok]

ServerMessages ==
    [type : {"ConnectResponse"}, connectionId : ConnectionIds]
    \cup [type : {"GameStateResponse"}, clientRequestId : {0, 1}, stateId : StepIds, channel : Channels]
    \cup [type : {"BlobPart"}, channel : Channels, transferId : TransferIds, content : StepIds,
          chunk : Chunks, readable : BOOLEAN]
    \cup [type : {"JoinGameResponse"}, participants : Participants]
    \cup [type : {"OutOfSlots"}, nonce : Nonces]
    \cup [type : {"GameStepResponse"}, received : 0..(StepModulus - 1), steps : SUBSET StepIds,
          readable : BOOLEAN]

\* Datagrams to the server.
ConnectRequest == [type |-> "ConnectRequest"]
DownloadGameStateRequest ==
    [type |-> "DownloadGameStateRequest", clientRequestId |-> DownloadStateClientRequestId]
BlobStreamCommand == [type |-> "BlobStream", transferId |-> blob.transferId, chunks |-> blob.chunks]
JoinGameRequest == [type |-> "JoinGameRequest", nonce |-> joinGameRequest]
GameStep ==
    [type |-> "GameStep", expected |-> pending.expected, have |-> pending.have,
     first |-> outSteps.read, next |-> outSteps.write]
-----------------------------------------------------------------------------
(* The step buffers, from how src/ uses nimble-steps-c.                    *)

EmptySteps(id) == [read |-> id, write |-> id]
EmptyPending(id) == [expected |-> id, have |-> {}]
StepCount(steps) == steps.write - steps.read
AllowedToAdd(steps) == StepCount(steps) < StepsCapacity

\* nbsStepsDiscardUpTo: drops the steps with ids below id.
DiscardUpTo(steps, id) ==
    [steps EXCEPT !.read = IF id <= steps.read THEN steps.read
                           ELSE IF id <= steps.write THEN id ELSE steps.write]

\* nbsPendingStepsInSerialize: keeps the ids inside the receive window.
PendingReceive(p, ids) ==
    [p EXCEPT !.have = @ \cup {i \in ids : p.expected <= i /\ i < p.expected + PendingWindow}]

\* nbsPendingStepsCopy moves n steps: the run that starts at the expected
\* one, as far as it goes or as there is room for.
Copies(p, steps, n) ==
    /\ n \in 0..(StepsCapacity - StepCount(steps))
    /\ \A i \in p.expected..(p.expected + n - 1) : i \in p.have
    /\ n = StepsCapacity - StepCount(steps) \/ p.expected + n \notin p.have

PendingWithout(p, n) ==
    [expected |-> p.expected + n, have |-> {i \in p.have : i >= p.expected + n}]

\* blobStreamLogicInReceive: a part of another transfer starts a new assembly.
BlobReceive(b, m) ==
    [transferId |-> m.transferId, content |-> m.content,
     chunks |-> IF b.transferId = m.transferId THEN b.chunks \cup {m.chunk} ELSE {m.chunk}]

BlobIsComplete(b) == b.chunks = Chunks
-----------------------------------------------------------------------------
(* nimbleClientFeed: one action per handler.  Fed is a handler that        *)
(* returned without error, FedWithError one that failed: the receive loop, *)
(* the quality update and the sending of this update are skipped.          *)

Receiving == pc = "receive" /\ state # "Disconnected"

Fed == UNCHANGED pc /\ ReceivedUsableDatagram
FedWithError == pc' = "realize" /\ UNCHANGED qualityVars

OnConnectResponse(m) ==
    /\ Receiving /\ m.type = "ConnectResponse" /\ Fed
    /\ \/ /\ state = "RequestingConnect"
          /\ state' = "Connected"
          /\ remoteConnectionId' = m.connectionId
       \/ state # "RequestingConnect" /\ UNCHANGED <<state, remoteConnectionId>>
    /\ UNCHANGED <<realizeVars, waitTime, joinVars, stateVars, stepVars>>

\* The response m where it is new to the client; it labels the game state
\* to come with id.
DownloadStarts(m, id, isNew) ==
    /\ Receiving /\ m.type = "GameStateResponse" /\ Fed
    /\ \/ /\ isNew
          /\ joinStateChannel' = m.channel
          /\ gameStateStepId' = m.stateId
          /\ joinStateId' = id
          /\ outSteps' = EmptySteps(m.stateId)
          /\ state' = "JoiningDownloadingState"
          /\ waitTime' = 0
       \/ ~isNew /\ UNCHANGED <<joinStateChannel, gameStateStepId, joinStateId, outSteps, state, waitTime>>
    /\ UNCHANGED <<realizeVars, remoteConnectionId, joinVars, blob, gameState, allocations,
                   pending, authoritative>>

AnswersDownloadRequest(m) ==
    m.clientRequestId = DownloadStateClientRequestId /\ m.channel # joinStateChannel

\* Mutants: joinStateId is not updated; a state id seen before is not new.
OnDownloadResponseKeepsId(m) == DownloadStarts(m, joinStateId, AnswersDownloadRequest(m))
OnDownloadResponseByStateId(m) ==
    DownloadStarts(m, m.stateId, AnswersDownloadRequest(m) /\ m.stateId # joinStateId)

OnDownloadGameStateResponse(m) == DownloadStarts(m, m.stateId, AnswersDownloadRequest(m))

\* nimbleClientGameStateInit: memory that was held is not freed.
GameStateInit(stepId, content) ==
    /\ gameStateStepId' = stepId
    /\ gameState' = content
    /\ allocations' = allocations + 1

\* The blob b becomes the game state; the buffers of steps start over.
SetInitialGameState(b, first, expected) ==
    /\ state' = "Synced"
    /\ GameStateInit(joinStateId, b.content)
    /\ pending' = EmptyPending(expected)
    /\ authoritative' = EmptySteps(first)
    /\ outSteps' = EmptySteps(first)

KeepGameState == UNCHANGED <<state, gameStateStepId, gameState, allocations, stepVars>>

\* Mutants: the buffers start at 0, at the next step, or not together; the
\* guard is missing.
TrySetStartsAtZero(b) == IF state # "Synced" THEN SetInitialGameState(b, 0, 0) ELSE KeepGameState
TrySetStartsAtNext(b) ==
    IF state # "Synced" THEN SetInitialGameState(b, joinStateId + 1, joinStateId + 1) ELSE KeepGameState
TrySetKeepsExpected(b) ==
    IF state # "Synced" THEN SetInitialGameState(b, joinStateId, pending.expected) ELSE KeepGameState
TrySetAgain(b) == SetInitialGameState(b, joinStateId, joinStateId)

TrySetInitialGameState(b) ==
    IF state # "Synced" THEN SetInitialGameState(b, joinStateId, joinStateId) ELSE KeepGameState

OnDownloadGameStatePart(m) ==
    /\ Receiving /\ m.type = "BlobPart"
    /\ \/ /\ m.channel = joinStateChannel /\ m.readable
          /\ blob' = BlobReceive(blob, m)
          /\ IF BlobIsComplete(blob') THEN TrySetInitialGameState(blob') ELSE KeepGameState
          /\ Fed
       \/ /\ m.channel # joinStateChannel
          /\ Fed
          /\ UNCHANGED blob /\ KeepGameState
       \/ /\ m.channel = joinStateChannel /\ ~m.readable
          /\ FedWithError
          /\ UNCHANGED blob /\ KeepGameState
    /\ UNCHANGED <<realizeVars, waitTime, remoteConnectionId, joinVars, joinStateChannel, joinStateId>>

EmptyLookup == [i \in 1..MaxLocalUsers |-> [localIndex |-> 0, participantId |-> 0]]

\* The entries in use.
LocalParticipants == [i \in 1..localParticipantCount |-> localParticipantLookup[i]]

\* The answer to a join that is still going on: its entries overwrite the
\* first ones of the lookup, and count of them are in use.
Joined(m, count) ==
    /\ Receiving /\ m.type = "JoinGameResponse" /\ Fed
    /\ \/ /\ joinParticipantPhase = "JoiningParticipant"
          /\ localParticipantCount' = count
          /\ localParticipantLookup' = [i \in 1..MaxLocalUsers |->
                IF i <= Len(m.participants) THEN m.participants[i] ELSE localParticipantLookup[i]]
          /\ joinParticipantPhase' = "JoinedParticipant"
          /\ waitTime' = 0
          /\ joinStateChannel' = 0
       \/ /\ joinParticipantPhase # "JoiningParticipant"
          /\ UNCHANGED <<participantVars, joinParticipantPhase, waitTime, joinStateChannel>>
    /\ UNCHANGED <<realizeVars, state, remoteConnectionId, joinGameRequest, joinStateId, blob,
                   gameStateStepId, gameState, allocations, stepVars>>

\* Mutants: the count of participants is not stored, or only if it grows.
OnJoinGameResponseForgetsCount(m) == Joined(m, localParticipantCount)
OnJoinGameResponseKeepsLargerCount(m) ==
    Joined(m, IF Len(m.participants) > localParticipantCount THEN Len(m.participants) ELSE localParticipantCount)

OnJoinGameResponse(m) == Joined(m, Len(m.participants))

OnJoinGameParticipantOutOfSpaceResponse(m) ==
    /\ Receiving /\ m.type = "OutOfSlots" /\ Fed
    /\ joinParticipantPhase' = "OutOfParticipantSlots"
    /\ UNCHANGED <<realizeVars, state, waitTime, remoteConnectionId, joinGameRequest,
                   participantVars, stateVars, stepVars>>

\* Mutant: the step after the next one the server needs is discarded to.
FirstNotReceivedSkips(received) == (received + 2) % StepModulus

\* The step id is unsigned: the server's "none so far" wraps to 0.
FirstNotReceived(received) == (received + 1) % StepModulus

OnGameStepResponse(m) ==
    /\ Receiving /\ m.type = "GameStepResponse"
    /\ outSteps' = DiscardUpTo(outSteps, FirstNotReceived(m.received))
    /\ \/ /\ m.readable
          /\ LET p == PendingReceive(pending, m.steps)
             IN  \E n \in 0..StepsCapacity :
                    /\ Copies(p, authoritative, n)
                    /\ pending' = PendingWithout(p, n)
                    /\ authoritative' = [authoritative EXCEPT !.write = @ + n]
          /\ UNCHANGED pc
          /\ ReceivedAuthoritativeSteps
       \/ /\ ~m.readable
          /\ FedWithError
          /\ UNCHANGED <<pending, authoritative>>
    /\ UNCHANGED <<realizeVars, state, waitTime, remoteConnectionId, joinVars, stateVars>>

Feed(m) ==
    \/ OnConnectResponse(m)
    \/ OnDownloadGameStateResponse(m)
    \/ OnDownloadGameStatePart(m)
    \/ OnJoinGameResponse(m)
    \/ OnJoinGameParticipantOutOfSpaceResponse(m)
    \/ OnGameStepResponse(m)

\* A datagram that is not newer than the last one accepted, that has no
\* known command or cannot be read, or an error of the transport itself.
ReceiveFails ==
    /\ Receiving
    /\ FedWithError
    /\ UNCHANGED <<realizeVars, state, waitTime, remoteConnectionId, joinVars, stateVars, stepVars>>

-----------------------------------------------------------------------------
(* nimbleClientUpdate, once the transport has nothing more to read.        *)

\* Mutant: the check is made before the update of the quality.
CheckIfDisconnectWasNeeded ==
    state' = IF state = "Synced" /\ ShouldDisconnect(reason) THEN "Disconnected" ELSE state

CheckIfDisconnectIsNeeded ==
    state' = IF state = "Synced" /\ ShouldDisconnect(reason') THEN "Disconnected" ELSE state

UpdateQualityAndState ==
    /\ pc = "receive" /\ pc' = "realize"
    /\ IF state = "Synced" THEN QualityUpdate ELSE UNCHANGED qualityVars
    /\ CheckIfDisconnectIsNeeded
    /\ UNCHANGED <<realizeVars, remoteConnectionId, joinVars, stateVars, stepVars>>

UpdateWaits ==
    /\ UpdateQualityAndState
    /\ waitTime > 0
    /\ waitTime' = waitTime - 1

HasSteps == StepCount(outSteps) > 0
StepsDatagrams == IF HasSteps THEN <<GameStep>> ELSE <<>>

\* sendPackets: hands the datagrams out to the transport.
SendPackets(out) ==
    \/ /\ state' \in {"Idle", "Connected", "Disconnected"}
       /\ out = <<>>
       /\ UNCHANGED waitTime
    \/ /\ state' = "RequestingConnect"
       /\ out = <<ConnectRequest>>
       /\ waitTime' = RetryTicks
    \/ /\ state' = "JoiningRequestingState"
       /\ out = <<DownloadGameStateRequest>>
       /\ waitTime' = RetryTicks
    \/ /\ state' = "JoiningDownloadingState"
       /\ out = <<BlobStreamCommand>>
       /\ waitTime' = 0
    \/ /\ state' = "Synced" /\ joinParticipantPhase = "JoiningParticipant"
       /\ out = StepsDatagrams \o <<JoinGameRequest>>
       /\ waitTime' = RetryTicks
    \/ /\ state' = "Synced" /\ joinParticipantPhase # "JoiningParticipant"
       /\ out = StepsDatagrams
       /\ waitTime' = 0

UpdateSends(out) ==
    /\ UpdateQualityAndState
    /\ waitTime <= 0
    /\ SendPackets(out)

\* The transport refuses the datagram with the steps: handleState returns
\* before it writes the join request.  (Refusing any other datagram has the
\* effect of losing it.)
UpdateSendStepsFails ==
    /\ UpdateQualityAndState
    /\ waitTime <= 0
    /\ state' = "Synced" /\ HasSteps
    /\ waitTime' = 0

-----------------------------------------------------------------------------
(* nimbleClientRealizeUpdate.                                              *)

RealizeFollowsDisconnect ==
    /\ pc = "app"
    /\ state = "Disconnected"
    /\ realizeState' = "Disconnected"
    /\ UNCHANGED <<pc, targetState, joinGameRequestNonce, state, waitTime, remoteConnectionId,
                   joinVars, stateVars, stepVars, qualityVars>>

\* nimbleClientUpdate is called, or skipped where the realizer has been reset
\* or has nothing to do.
UpdateUnless(skipped) ==
    /\ pc = "app"
    /\ state # "Disconnected"
    /\ pc' = IF realizeState \notin skipped /\ targetState # "Init" THEN "receive" ELSE "realize"
    /\ UNCHANGED <<realizeVars, state, waitTime, remoteConnectionId, joinVars, stateVars,
                   stepVars, qualityVars>>

\* Mutant: a realizer that was initialised again is taken for a reset one.
RealizeUpdateStuck == UpdateUnless({"Cleared", "ReInit"})

RealizeUpdateBegins == UpdateUnless({"Cleared"})

\* The client is moved on only from the states where nothing is in progress;
\* in those of cleared its wait ends.
RealizeTargetFrom(cleared) ==
    /\ pc = "realize" /\ pc' = "app"
    /\ LET toSynced == targetState # realizeState /\ targetState = "Synced"
       IN  /\ state' = IF toSynced /\ state = "Idle" THEN "RequestingConnect"
                       ELSE IF toSynced /\ state = "Connected" THEN "JoiningRequestingState"
                       ELSE state
           /\ joinParticipantPhase' = IF toSynced /\ state = "Connected" THEN "JoiningParticipant"
                                      ELSE joinParticipantPhase
           /\ waitTime' = IF toSynced /\ state \in cleared THEN 0 ELSE waitTime
           /\ realizeState' = IF targetState = "Cleared" \/ (toSynced /\ state = "Synced")
                              THEN targetState ELSE realizeState
    /\ UNCHANGED <<targetState, joinGameRequestNonce, remoteConnectionId, joinGameRequest,
                   participantVars, stateVars, stepVars, qualityVars>>

\* Mutant: the wait that is left over from before the connection is kept.
RealizeTargetKeepsWait == RealizeTargetFrom({"Connected", "Synced"})

RealizeTarget == RealizeTargetFrom({"Idle", "Connected", "Synced"})

-----------------------------------------------------------------------------
(* The calls of the application, between two updates.                      *)

\* Mutant: the pointer is kept.
DestroyGameStateKeepsPointer ==
    /\ allocations' = IF gameState # NoGameState THEN allocations - 1 ELSE allocations
    /\ UNCHANGED gameState

\* nimbleClientGameStateDestroy where there is a game state.
DestroyGameState ==
    /\ gameState' = NoGameState
    /\ allocations' = IF gameState # NoGameState THEN allocations - 1 ELSE allocations

\* nimbleClientReset: what it does not mention keeps its value.
ResetClient ==
    /\ outSteps' = EmptySteps(0)
    /\ pending' = EmptyPending(0)
    /\ authoritative' = EmptySteps(0)
    /\ localParticipantLookup' = EmptyLookup /\ localParticipantCount' = 0
    /\ state' = "Idle"
    /\ DestroyGameState
    /\ QualityReset
    /\ UNCHANGED <<waitTime, remoteConnectionId, joinParticipantPhase, joinGameRequest,
                   joinStateChannel, joinStateId, blob, gameStateStepId>>

\* The transport of the settings may be a new one: see NimbleSession.
RealizeReInit ==
    /\ pc = "app"
    /\ targetState' = "Init"
    /\ realizeState' = "ReInit"
    /\ ResetClient
    /\ UNCHANGED <<pc, joinGameRequestNonce>>

ResetTo(realizer) ==
    /\ pc = "app"
    /\ ResetClient
    /\ realizeState' = realizer
    /\ joinGameRequestNonce' = 0
    /\ UNCHANGED <<pc, targetState>>

\* Mutant: the realizer's own state is not reset.
RealizeResetClientOnly == ResetTo(realizeState)

RealizeReset == ResetTo("Cleared")

JoinGameWith(nonce) ==
    /\ pc = "app"
    /\ joinGameRequest' = nonce
    /\ joinGameRequestNonce' = joinGameRequestNonce + 1
    /\ targetState' = "Synced"
    /\ joinParticipantPhase' = "JoiningParticipant"
    /\ UNCHANGED <<pc, realizeState, state, waitTime, remoteConnectionId, participantVars,
                   stateVars, stepVars, qualityVars>>

\* Mutant: the nonce is incremented before it is used.
RealizeJoinGamePreIncrements == JoinGameWith(joinGameRequestNonce + 1)

RealizeJoinGame == JoinGameWith(joinGameRequestNonce)

QuitTo(client) ==
    /\ pc = "app"
    /\ state' = client
    /\ targetState' = "Cleared"
    /\ UNCHANGED <<pc, realizeState, joinGameRequestNonce, waitTime, remoteConnectionId, joinVars,
                   stateVars, stepVars, qualityVars>>

\* Mutant: a value of the realizer's enumeration is stored in the client.
RealizeQuitGameMixesEnums == QuitTo("Cleared")

RealizeQuitGame == QuitTo("Disconnected")

\* After nimbleClientRealizeDestroy the client is not used any more.
RealizeDestroy ==
    /\ pc = "app" /\ pc' = "destroyed"
    /\ DestroyGameState
    /\ UNCHANGED <<realizeVars, state, waitTime, remoteConnectionId, joinVars, joinStateChannel,
                   joinStateId, blob, gameStateStepId, stepVars, qualityVars>>

\* The application adds a predicted step (nbsStepsWrite) to a synced client,
\* as the example means to do (the copy of the realizer's state that it tests
\* is never refreshed).
AddPredictedStep ==
    /\ pc = "app"
    /\ realizeState = "Synced"
    /\ AllowedToAdd(outSteps)
    /\ outSteps' = [outSteps EXCEPT !.write = @ + 1]
    /\ UNCHANGED <<pc, realizeVars, state, waitTime, remoteConnectionId, joinVars, stateVars,
                   pending, authoritative, qualityVars>>

\* nimbleClientReadStep.
ReadStep ==
    /\ pc = "app"
    /\ StepCount(authoritative) > 0
    /\ authoritative' = [authoritative EXCEPT !.read = @ + 1]
    /\ UNCHANGED <<pc, realizeVars, state, waitTime, remoteConnectionId, joinVars, stateVars,
                   outSteps, pending, qualityVars>>

\* nimbleClientFindParticipantId, which changes nothing: the participant of
\* the first entry for the device, 0xff without one.
NoParticipantId == 255
FindParticipantId(device) ==
    LET for == {i \in 1..localParticipantCount : localParticipantLookup[i].localIndex = device}
    IN  IF for = {} THEN NoParticipantId
        ELSE localParticipantLookup[CHOOSE i \in for : \A j \in for : i <= j].participantId

-----------------------------------------------------------------------------
(* nimbleClientRealizeInit.  waitTime, joinStateChannel, joinStateId, the  *)
(* label of the game state, joinParticipantPhase and joinGameRequestNonce  *)
(* are not initialised: they hold whatever the caller's memory holds (of   *)
(* joinGameRequest too, but it is written before it is read).  The blob    *)
(* stream is not initialised in this repository either (the TODO at the    *)
(* end of incoming.c); the model takes it to be empty.                     *)
ClientInit ==
    /\ pc = "app"
    /\ realizeState = "Init" /\ targetState = "Init"
    /\ joinGameRequestNonce \in UninitNonces /\ joinGameRequest = 0
    /\ state = "Idle"
    /\ joinParticipantPhase \in UninitPhases
    /\ waitTime \in UninitWaits
    /\ remoteConnectionId = 0
    /\ localParticipantLookup = EmptyLookup /\ localParticipantCount = 0
    /\ joinStateChannel \in UninitChannels
    /\ joinStateId \in UninitStepIds /\ gameStateStepId \in UninitStepIds
    /\ blob = [transferId |-> 0, content |-> 0, chunks |-> {}]
    /\ gameState = NoGameState /\ allocations = 0
    /\ outSteps = EmptySteps(0)
    /\ pending = EmptyPending(0)
    /\ authoritative = EmptySteps(0)
    /\ QualityInit

\* The client against any server: datagrams of any kind in any order.
ClientNext ==
    \/ \E m \in ServerMessages : Feed(m)
    \/ ReceiveFails
    \/ UpdateWaits
    \/ \E out \in {<<>>, <<ConnectRequest>>, <<DownloadGameStateRequest>>, <<BlobStreamCommand>>,
                   <<JoinGameRequest>>, <<GameStep>>, <<GameStep, JoinGameRequest>>} : UpdateSends(out)
    \/ UpdateSendStepsFails
    \/ RealizeFollowsDisconnect
    \/ RealizeUpdateBegins
    \/ RealizeTarget
    \/ RealizeReInit
    \/ RealizeReset
    \/ joinGameRequestNonce \in Nonces /\ RealizeJoinGame
    \/ RealizeQuitGame
    \/ RealizeDestroy
    \/ outSteps.write \in StepIds /\ AddPredictedStep
    \/ ReadStep

ClientSpec == ClientInit /\ [][ClientNext]_clientVars

-----------------------------------------------------------------------------
(* Properties that hold whatever the server sends.                         *)

ClientTypeOK ==
    /\ pc \in {"app", "receive", "realize", "destroyed"}
    /\ realizeState \in RealizeStates
    /\ targetState \in {"Init", "Cleared", "Synced"}
    /\ joinGameRequestNonce \in Nat /\ joinGameRequest \in Nat
    /\ state \in ClientStates
    /\ joinParticipantPhase \in JoiningStates
    /\ waitTime \in Int
    /\ remoteConnectionId \in Nat
    /\ localParticipantLookup \in [1..MaxLocalUsers -> ParticipantEntries]
    /\ localParticipantCount \in 0..MaxLocalUsers
    /\ joinStateChannel \in Nat /\ joinStateId \in Nat /\ gameStateStepId \in Nat
    /\ blob \in [transferId : Nat, content : Nat, chunks : SUBSET Chunks]
    /\ gameState \in Nat \cup {NoGameState}
    /\ allocations \in Int
    /\ outSteps \in [read : Nat, write : Nat]
    /\ pending \in [expected : Nat, have : SUBSET Nat]
    /\ authoritative \in [read : Nat, write : Nat]
    /\ QualityTypeOK

\* The buffer the application reads from ends exactly where the pending
\* window begins, through resets, downloads and responses in any order:
\* nbsPendingStepsCopy never meets a gap or a step it already delivered.
\* No discard or read moves a buffer past its end.
StepsInLockstep ==
    /\ authoritative.write = pending.expected
    /\ authoritative.read <= authoritative.write
    /\ outSteps.read <= outSteps.write
    /\ StepCount(authoritative) <= StepsCapacity
    /\ \A i \in pending.have : i >= pending.expected

\* A synced client has a game state, labelled with the step id of the last
\* accepted response, and no buffer reaches back before that step.
SyncedFromGameState ==
    state = "Synced" /\ pc # "destroyed" =>
        /\ gameState # NoGameState
        /\ gameStateStepId = joinStateId
        /\ gameStateStepId <= authoritative.read
        /\ gameStateStepId <= outSteps.read

\* The realizer reports Synced only over a client that has been synced and
\* has not been reset since.
RealizerTracksClient ==
    realizeState = "Synced" => state \in {"Synced", "JoiningDownloadingState", "Disconnected"}

\* Once the quality has given up the client is disconnected, in the same
\* update, and stays so until it is reset.
GivingUpDisconnects == ShouldDisconnect(reason) => state = "Disconnected"

\* Between two updates, a client that is connecting or connected never
\* waits longer than for the next try of a request: what waitTime held
\* before (uninitialised memory, the wait of an earlier connection) does not
\* keep it silent, though a server may make it skip the states in which the
\* wait is cleared.
WaitsForRetryOnly == pc = "app" /\ state \notin {"Idle", "Disconnected"} => waitTime <= RetryTicks

\* The game state is never freed twice, nor is a freed one in use.
NoDoubleFree == allocations >= (IF gameState = NoGameState THEN 0 ELSE 1)

\* The inductive invariant: its last part keeps the disconnect decision of
\* an update from running on a client that is disconnected already.
ClientInv ==
    /\ ClientTypeOK
    /\ StepsInLockstep
    /\ SyncedFromGameState
    /\ RealizerTracksClient
    /\ GivingUpDisconnects
    /\ NoDoubleFree
    /\ QualityInv
    /\ pc = "receive" => state # "Disconnected"

\* What WaitsForRetryOnly needs in addition: only a client that is to be
\* synced is updated, and a wait left over from before ends with the update
\* that finds the client synced.
WaitInv ==
    /\ pc = "receive" => targetState # "Init" /\ realizeState # "Cleared"
    /\ targetState = "Cleared" => state = "Disconnected" \/ (state = "Idle" /\ realizeState = "Cleared")
    /\ state \notin {"Idle", "Disconnected"} =>
          \/ waitTime <= RetryTicks
          \/ pc # "app" /\ state = "Synced" /\ targetState = "Synced" /\ realizeState # "Synced"
================================================================================
