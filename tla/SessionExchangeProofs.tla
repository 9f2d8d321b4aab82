------------------------- MODULE SessionExchangeProofs -------------------------
(***************************************************************************)
(* Where the server gives every connection a channel of its own, a synced  *)
(* client has the game state of its label, and the steps it exchanges with *)
(* the server are the two streams of StepExchange.                         *)
(***************************************************************************)
EXTENDS NimbleSessionProofs

USE DEF realizeVars, participantVars, joinVars, stateVars, stepVars, qualityVars, serverVars

\* The states before the download.
Early == {"Idle", "RequestingConnect", "Connected", "JoiningRequestingState"}

\* A step that leaves the exchange alone, or ends it.
Quiet ==
    /\ UNCHANGED <<connection, transfer, serverStep, serverReceived, joinStateId>>
    /\ joinStateChannel' \in {joinStateChannel, 0}
    /\ Active' => Active /\ (state' = state \/ (state \in Early /\ state' \in Early))
    /\ state' = "Synced" =>
          /\ state = "Synced" /\ UNCHANGED <<pending, outSteps>> /\ authoritative'.write = authoritative.write
          /\ pc' = "destroyed" \/ (pc # "destroyed" /\ gameState' = gameState)
          /\ DatagramsMeet'

LEMMA ServerNeedsNumber ==
    ASSUME SessionInv
    PROVE  ServerNeeds \in 0..(StepModulus - 1)
<1>1. serverReceived \in Nat /\ StepModulus \in Nat \ {0}
  BY ClientAssumption DEF SessionInv, SessionTypes
<1>2. serverReceived + 1 \in Int
  BY <1>1
<1> QED BY <1>1, <1>2 DEF ServerNeeds, FirstNotReceived

LEMMA QuietKeepsOwn ==
    ASSUME ChannelsAreOwn, SessionInv, OwnChannelInv, Quiet
    PROVE  OwnChannelInv'
<1>1. ChannelOf[connection] # 0
  BY TransferTypes
<1>2. ChannelHasLabel'
  BY <1>1 DEF Quiet, Early, OwnChannelInv, ChannelHasLabel
<1>3. SyncedToTransfer'
  BY DEF Quiet, OwnChannelInv, SyncedToTransfer
<1>4. ServerNeeds' = ServerNeeds
  BY DEF Quiet, ServerNeeds, FirstNotReceived
<1>5. StreamsMeet'
  BY <1>4 DEF Quiet, Early, OwnChannelInv, StreamsMeet
<1> QED BY <1>2, <1>3, <1>5 DEF OwnChannelInv

-----------------------------------------------------------------------------
(* The quiet steps.                                                        *)

LEMMA QueuesShrinkMeet ==
    ASSUME DatagramsMeet, UNCHANGED <<serverReceived, outSteps>>,
           UnderWay(toServer') \subseteq UnderWay(toServer),
           \A m \in UnderWay(toClient') : m \in UnderWay(toClient) \/ m.type # "GameStepResponse"
    PROVE  DatagramsMeet'
BY DEF DatagramsMeet, ServerNeeds, FirstNotReceived

LEMMA RepliedUnderWay ==
    ASSUME NEW d, Reply(<<d>>), SessionInv
    PROVE  \A m \in UnderWay(toClient') : m \in UnderWay(toClient) \/ m = d
<1> DEFINE S == ServerMessages \cup {d}
<1>1. toClient \in Seq(S)
  BY DEF SessionInv, SessionTypes
<1>2. <<d>> \in Seq(S) /\ UnderWay(<<d>>) = {d}
  BY ShortQueue
<1> HIDE DEF S
<1>3. UnderWay(Enqueue(toClient, <<d>>)) \subseteq UnderWay(toClient) \cup UnderWay(<<d>>)
  BY <1>1, <1>2, EnqueueQueue
<1> QED BY <1>2, <1>3 DEF Reply

LEMMA ClientStepsAreQuiet ==
    ASSUME SessionInv, SessionInv', OwnChannelInv,
           \/ DeliveryFails \/ Waits \/ SendFails \/ Read \/ Realize \/ JoinGame \/ Quit \/ Reset \/ Destroy
           \/ UNCHANGED vars
    PROVE  Quiet
<1>1. CASE DeliveryFails \/ Waits \/ SendFails \/ Read
  <2>1. /\ UNCHANGED <<toServer, toClient, connection, serverVars, realizeVars, joinVars, stateVars>>
        /\ UNCHANGED <<outSteps, pending>> /\ pc # "destroyed"
    BY <1>1 DEF DeliveryFails, ReceiveFails, Receiving, Waits, UpdateWaits, SendFails, UpdateSendStepsFails,
                UpdateQualityAndState, Read, ReadStep
  <2>2. state' = state \/ state' = "Disconnected"
    BY <1>1 DEF DeliveryFails, ReceiveFails, Waits, UpdateWaits, SendFails, UpdateSendStepsFails,
                UpdateQualityAndState, CheckIfDisconnectIsNeeded, Read, ReadStep
  <2>3. authoritative'.write = authoritative.write
    BY <1>1 DEF DeliveryFails, ReceiveFails, Waits, UpdateWaits, SendFails, UpdateSendStepsFails,
                UpdateQualityAndState, Read, ReadStep, SessionInv, ClientInv, ClientTypeOK
  <2>4. state' = "Synced" => DatagramsMeet'
    BY <2>1, <2>2, QueuesShrinkMeet DEF OwnChannelInv, StreamsMeet
  <2> QED BY <2>1, <2>2, <2>3, <2>4 DEF Quiet, Active
<1>2. CASE Realize \/ JoinGame
  <2>1. /\ UNCHANGED <<toServer, toClient, connection, serverVars, stateVars, stepVars>> /\ pc # "destroyed"
    BY <1>2
    DEF Realize, RealizeFollowsDisconnect, RealizeUpdateBegins, UpdateUnless, RealizeTarget, RealizeTargetFrom,
        JoinGame, RealizeJoinGame, JoinGameWith
  <2>2. /\ state' = state \/ (state \in Early /\ state' \in Early)
        /\ realizeState' = realizeState \/ realizeState' = "Cleared" \/ state' = "Disconnected" \/ state = "Synced"
    BY <1>2
    DEF Realize, RealizeFollowsDisconnect, RealizeUpdateBegins, UpdateUnless, RealizeTarget, RealizeTargetFrom,
        JoinGame, RealizeJoinGame, JoinGameWith, Early
  <2>3. state' = "Synced" => state = "Synced" /\ DatagramsMeet'
    BY <2>1, <2>2, QueuesShrinkMeet DEF OwnChannelInv, StreamsMeet, Early
  <2>4. Active' => Active
    BY <2>2 DEF Active, SessionInv, RealizerInStep, Early
  <2> QED BY <2>1, <2>2, <2>3, <2>4 DEF Quiet
<1>3. CASE Quit \/ Reset
  <2>1. /\ UNCHANGED <<connection, serverVars, joinStateChannel, joinStateId>>
        /\ state' # "Synced" /\ ~Active'
    BY <1>3 DEF Quit, RealizeQuitGame, QuitTo, Reset, RealizeReset, ResetTo, ResetClient, Active
  <2> QED BY <2>1 DEF Quiet
<1>4. CASE Destroy
  <2>1. /\ UNCHANGED <<connection, serverVars, joinStateChannel, joinStateId, state, realizeState, stepVars>>
        /\ pc' = "destroyed" /\ toServer' = <<>> /\ toClient' = <<>>
    BY <1>4 DEF Destroy, RealizeDestroy
  <2>2. DatagramsMeet'
    BY <2>1, ShortQueue DEF DatagramsMeet
  <2> QED BY <2>1, <2>2 DEF Quiet, Active
<1>5. CASE UNCHANGED vars
  <2>1. /\ UNCHANGED <<toServer, toClient, connection, serverVars, realizeVars, joinVars, stateVars, stepVars>>
        /\ UNCHANGED <<pc, state>>
    BY <1>5 DEF vars, clientVars
  <2>2. state' = "Synced" => DatagramsMeet'
    BY <2>1, QueuesShrinkMeet DEF OwnChannelInv, StreamsMeet
  <2> QED BY <2>1, <2>2 DEF Quiet, Active
<1> QED BY <1>1, <1>2, <1>3, <1>4, <1>5

\* A datagram with steps says what the client has.
LEMMA SendsIsQuiet ==
    ASSUME SessionInv, OwnChannelInv, Sends
    PROVE  Quiet
<1>1. PICK out : UpdateSends(out) /\ toServer' = Enqueue(toServer, out)
  BY DEF Sends
<1>2. UNCHANGED <<toClient, connection, serverVars>>
  BY DEF Sends
<1>3. /\ out \in Seq(ClientMessages)
      /\ \A d \in UnderWay(out) : SentInState(d)
      /\ pc = "receive" /\ Active /\ pc' = "realize"
      /\ state' = state \/ (state = "Synced" /\ state' = "Disconnected")
      /\ UNCHANGED <<realizeVars, remoteConnectionId, joinVars, stateVars, stepVars>>
  BY <1>1, SentDatagrams
<1>4. UnderWay(toServer') \subseteq UnderWay(toServer) \cup UnderWay(out)
  BY <1>1, <1>3, EnqueueQueue DEF SessionInv, SessionTypes
<1>5. outSteps.write <= outSteps.write
  BY DEF SessionInv, SessionTypes
<1>6. state' = "Synced" => DatagramsMeet'
  BY <1>2, <1>3, <1>4, <1>5
  DEF SentInState, OwnChannelInv, StreamsMeet, DatagramsMeet, ServerNeeds, FirstNotReceived
<1> QED BY <1>2, <1>3, <1>6 DEF Quiet, Active

\* What is delivered to the client without a game state or steps.
LEMMA DeliveryIsQuiet ==
    ASSUME SessionInv, OwnChannelInv, NEW k \in DOMAIN toClient, toClient' = After(toClient, k),
           UNCHANGED <<toServer, connection, serverVars, requested>>,
           \/ OnConnectResponse(toClient[k])
           \/ OnJoinGameResponse(toClient[k])
           \/ OnJoinGameParticipantOutOfSpaceResponse(toClient[k])
    PROVE  Quiet
<1>1. /\ pc # "destroyed" /\ UNCHANGED <<realizeVars, joinStateId, gameState, stepVars>>
      /\ state' = state \/ (state = "RequestingConnect" /\ state' = "Connected")
      /\ joinStateChannel' \in {joinStateChannel, 0}
  BY DEF OnConnectResponse, OnJoinGameResponse, Joined, OnJoinGameParticipantOutOfSpaceResponse, Receiving
<1>2. UnderWay(toClient') \subseteq UnderWay(toClient)
  BY AfterQueue DEF SessionInv, SessionTypes
<1>3. state' = "Synced" => DatagramsMeet'
  BY <1>1, <1>2, QueuesShrinkMeet DEF OwnChannelInv, StreamsMeet
<1> QED BY <1>1, <1>2, <1>3 DEF Quiet, Active, Early

\* A request that asks for neither the game state nor steps.
LEMMA HandlingIsQuiet ==
    ASSUME SessionInv, OwnChannelInv, NEW k \in DOMAIN toServer, toServer' = After(toServer, k),
           UNCHANGED <<clientVars, connection, requested>>,
           \/ ServerOnConnectRequest(toServer[k])
           \/ ServerOnDownloadRequest(toServer[k]) /\ transfer # NoTransfer
           \/ ServerOnBlobStream(toServer[k])
           \/ ServerOnJoinGame(toServer[k])
    PROVE  Quiet
<1> USE DEF clientVars
<1>1. UNCHANGED <<transfer, serverStep, serverReceived>>
  BY DEF ServerOnConnectRequest, ServerOnDownloadRequest, ServerOnBlobStream, ServerOnJoinGame
<1>2. \/ UNCHANGED toClient
      \/ \E d : Reply(<<d>>) /\ d.type # "GameStepResponse"
  <2>1. CASE ServerOnConnectRequest(toServer[k])
    BY <2>1 DEF ServerOnConnectRequest, ConnectResponse
  <2>2. CASE ServerOnDownloadRequest(toServer[k])
    BY <2>2 DEF ServerOnDownloadRequest, GameStateResponse
  <2>3. CASE ServerOnBlobStream(toServer[k])
    <3>1. \/ UNCHANGED toClient
          \/ \E chunk : Reply(<<BlobPart(transfer.channel, connection, transfer.stateId, chunk, TRUE)>>)
      BY <2>3 DEF ServerOnBlobStream
    <3>2. \A chunk : BlobPart(transfer.channel, connection, transfer.stateId, chunk, TRUE).type # "GameStepResponse"
      BY DEF BlobPart
    <3> QED BY <3>1, <3>2
  <2>4. CASE ServerOnJoinGame(toServer[k])
    <3>1. PICK answer : Reply(<<IF answer = "Joined" THEN JoinGameResponse(ParticipantsFor[toServer[k].nonce])
                                ELSE OutOfSlotsResponse(toServer[k].nonce)>>)
      BY <2>4 DEF ServerOnJoinGame
    <3> QED BY <3>1 DEF JoinGameResponse, OutOfSlotsResponse
  <2> QED BY <2>1, <2>2, <2>3, <2>4
<1>3. \A m \in UnderWay(toClient') : m \in UnderWay(toClient) \/ m.type # "GameStepResponse"
  BY <1>2, RepliedUnderWay
<1>4. UnderWay(toServer') \subseteq UnderWay(toServer)
  BY HandledQueue
<1>5. state' = "Synced" => DatagramsMeet'
  BY <1>1, <1>3, <1>4, QueuesShrinkMeet DEF OwnChannelInv, StreamsMeet
<1> QED BY <1>1, <1>5 DEF Quiet, Active

LEMMA ChunkIsQuiet ==
    ASSUME SessionInv, OwnChannelInv, ServerSendsChunk
    PROVE  Quiet
<1> USE DEF clientVars
<1>1. UNCHANGED <<clientVars, toServer, connection, serverVars>>
  BY DEF ServerSendsChunk
<1>2. \E d : Reply(<<d>>) /\ d.type # "GameStepResponse"
  BY DEF ServerSendsChunk, BlobPart
<1>3. \A m \in UnderWay(toClient') : m \in UnderWay(toClient) \/ m.type # "GameStepResponse"
  BY <1>2, RepliedUnderWay
<1>4. state' = "Synced" => DatagramsMeet'
  BY <1>1, <1>3, QueuesShrinkMeet DEF OwnChannelInv, StreamsMeet
<1> QED BY <1>1, <1>4 DEF Quiet, Active

\* Damage leaves what a datagram acknowledges, which is read before its payload.
LEMMA DamageIsQuiet ==
    ASSUME SessionInv, OwnChannelInv, Damage
    PROVE  Quiet
<1> USE DEF clientVars
<1>1. PICK k \in DOMAIN toClient :
        /\ toClient[k].type \in {"BlobPart", "GameStepResponse"}
        /\ toClient' = [toClient EXCEPT ![k].readable = FALSE]
  BY DEF Damage
<1>2. UNCHANGED <<clientVars, toServer, connection, serverVars>>
  BY DEF Damage
<1>3. PICK d : d = [toClient[k] EXCEPT !.readable = FALSE]
  OBVIOUS
<1>4. toClient[k] \in ServerMessages /\ toClient[k] \in UnderWay(toClient) /\ toClient \in Seq(ServerMessages)
  BY DEF SessionInv, SessionTypes, UnderWay
<1>5. ASSUME toClient[k].type = "BlobPart" PROVE d.type = "BlobPart"
  <2>1. toClient[k] \in [type : {"BlobPart"}, channel : Channels, transferId : TransferIds, content : StepIds,
                         chunk : Chunks, readable : BOOLEAN]
    BY <1>4, <1>5 DEF ServerMessages
  <2> QED BY <1>3, <2>1
<1>6. ASSUME toClient[k].type = "GameStepResponse" PROVE d.received = toClient[k].received
  <2>1. toClient[k] \in [type : {"GameStepResponse"}, received : 0..(StepModulus - 1), steps : SUBSET StepIds,
                         readable : BOOLEAN]
    BY <1>4, <1>6 DEF ServerMessages
  <2> QED BY <1>3, <2>1
<1>7. \A m \in UnderWay(toClient') : m \in UnderWay(toClient) \/ m = d
  BY <1>1, <1>3, <1>4 DEF UnderWay
<1>8. state' = "Synced" => DatagramsMeet'
  BY <1>1, <1>2, <1>4, <1>5, <1>6, <1>7
  DEF OwnChannelInv, StreamsMeet, DatagramsMeet, ServerNeeds, FirstNotReceived
<1> QED BY <1>2, <1>8 DEF Quiet, Active

-----------------------------------------------------------------------------
(* The steps of the exchange.                                              *)

ExchangeStep == [Exchange!Next]_(Exchange!vars)

\* A client that goes on playing, with the steps it had, and one that stops
\* or does not play.
LEMMA StopsOrStays ==
    ASSUME UNCHANGED serverStep,
           Playing' => /\ Playing /\ UNCHANGED <<outSteps, serverReceived>>
                       /\ authoritative'.write = authoritative.write
    PROVE  ExchangeStep
<1>1. CASE Playing'
  BY <1>1 DEF ExchangeStep, Exchange!vars
<1>2. CASE ~Playing' /\ ~Playing
  <2>1. Playing' = Playing
    BY <1>2 DEF Playing
  <2> QED BY <1>2, <2>1 DEF ExchangeStep, Exchange!vars
<1>3. CASE ~Playing' /\ Playing
  <2>1. Exchange!Stop
    BY <1>3 DEF Exchange!Stop, Playing
  <2> QED BY <2>1 DEF ExchangeStep, Exchange!Next
<1> QED BY <1>1, <1>2, <1>3

LEMMA QuietIsExchange ==
    ASSUME Quiet PROVE ExchangeStep
BY StopsOrStays DEF Quiet, Playing

LEMMA PredictIsExchange ==
    ASSUME SessionInv, OwnChannelInv, Predict
    PROVE  OwnChannelInv' /\ ExchangeStep
<1>1. /\ UNCHANGED <<toServer, toClient, connection, serverVars, realizeVars, stateVars, state, pc, pending,
                     authoritative>>
      /\ outSteps.read \in Nat /\ outSteps.write \in Nat
      /\ outSteps'.read = outSteps.read /\ outSteps'.write = outSteps.write + 1
      /\ pc = "app" /\ realizeState = "Synced"
  BY DEF Predict, AddPredictedStep, SessionInv, ClientInv, ClientTypeOK
<1>2. ServerNeeds' = ServerNeeds /\ ServerNeeds \in Nat
  BY <1>1, ServerNeedsNumber DEF ServerNeeds, FirstNotReceived
<1>3. \A m \in UnderWay(toServer) : m.type = "GameStep" => m.next \in Nat
  <2>1. \A m \in UnderWay(toServer) : m \in ClientMessages
    BY DEF SessionInv, SessionTypes, UnderWay
  <2> QED BY <2>1, RequestFields
<1>4. state = "Synced" => DatagramsMeet'
  BY <1>1, <1>2, <1>3 DEF OwnChannelInv, StreamsMeet, DatagramsMeet
<1>5. StreamsMeet'
  BY <1>1, <1>2, <1>4 DEF OwnChannelInv, StreamsMeet, Active
<1>6. ChannelHasLabel' /\ SyncedToTransfer'
  BY <1>1 DEF OwnChannelInv, ChannelHasLabel, SyncedToTransfer, Active
<1>7. CASE Playing
  <2>1. Exchange!Predict
    BY <1>1, <1>7 DEF Exchange!Predict, Playing
  <2> QED BY <1>5, <1>6, <2>1 DEF OwnChannelInv, ExchangeStep, Exchange!Next
<1>8. CASE ~Playing
  BY <1>1, <1>5, <1>6, <1>8, StopsOrStays DEF OwnChannelInv, Playing
<1> QED BY <1>7, <1>8

LEMMA TickIsExchange ==
    ASSUME SessionInv, OwnChannelInv, ServerTick
    PROVE  OwnChannelInv' /\ ExchangeStep
<1> USE DEF clientVars
<1>1. /\ UNCHANGED <<clientVars, toServer, toClient, connection, transfer, answers, serverReceived>>
      /\ serverStep' = serverStep + 1 /\ serverStep \in Nat
  BY DEF ServerTick, SessionInv, SessionTypes
<1>2. ChannelHasLabel' /\ SyncedToTransfer'
  BY <1>1 DEF OwnChannelInv, ChannelHasLabel, SyncedToTransfer, Active
<1>3. state = "Synced" => DatagramsMeet'
  BY <1>1 DEF OwnChannelInv, StreamsMeet, DatagramsMeet, ServerNeeds
<1>4. pending.expected \in Nat
  BY DEF SessionInv, ClientInv, ClientTypeOK
<1>5. 0..(serverStep - 1) \subseteq 0..(serverStep' - 1)
  BY <1>1
<1>6. StreamsMeet'
  BY <1>1, <1>3, <1>4, <1>5 DEF OwnChannelInv, StreamsMeet, Active, ServerNeeds
<1>7. Exchange!Make
  BY <1>1 DEF Exchange!Make, Playing
<1> QED BY <1>2, <1>6, <1>7 DEF OwnChannelInv, ExchangeStep, Exchange!Next

\* On a new connection the client has none of its channels yet.
LEMMA ReInitIsExchange ==
    ASSUME ChannelsAreOwn, SessionInv, SessionInv', OwnChannelInv, ReInit
    PROVE  OwnChannelInv' /\ ExchangeStep
<1>1. /\ UNCHANGED <<serverStep, serverReceived, joinStateChannel, joinStateId>>
      /\ connection' = connection + 1 /\ transfer' = NoTransfer /\ state' = "Idle"
      /\ connection \in Nat /\ connection \in 1..MaxConnections
  BY DEF ReInit, RealizeReInit, ResetClient, SessionInv, SessionTypes
<1>2. connection' \in 1..MaxConnections /\ ChannelOf[connection'] \in Channels /\ ChannelOf[connection'] # 0
  BY TransferTypes, SessionAssumption, ClientAssumption DEF SessionInv, SessionTypes
<1>3. joinStateChannel # ChannelOf[connection']
  <2>1. ASSUME NEW c \in 1..connection PROVE ChannelOf[c] # ChannelOf[connection']
    BY <1>1, <1>2, SessionAssumption DEF ChannelsAreOwn
  <2> QED BY <1>2, <2>1 DEF OwnChannelInv, ChannelHasLabel, ChannelsAreOwn
<1>4. ChannelHasLabel'
  <2>1. 1..connection \subseteq 1..connection'
    BY <1>1
  <2> QED BY <1>1, <1>3, <2>1 DEF OwnChannelInv, ChannelHasLabel
<1>5. SyncedToTransfer' /\ StreamsMeet'
  BY <1>1 DEF SyncedToTransfer, StreamsMeet
<1> QED BY <1>1, <1>4, <1>5, StopsOrStays DEF OwnChannelInv, Playing

\* The first response on a connection labels the game state to come with the
\* step at which the server has captured it; a repeated one says nothing new.
LEMMA ResponseIsExchange ==
    ASSUME ChannelsAreOwn, SessionInv, SessionInv', OwnChannelInv,
           NEW k \in DOMAIN toClient, toClient' = After(toClient, k),
           UNCHANGED <<toServer, connection, serverVars, requested>>,
           OnDownloadGameStateResponse(toClient[k])
    PROVE  OwnChannelInv' /\ ExchangeStep
<1> DEFINE m == toClient[k]
<1>1. /\ Receiving /\ m.type = "GameStateResponse"
      /\ UNCHANGED <<pc, realizeVars, joinVars, blob, gameState, allocations, pending, authoritative>>
  BY DEF OnDownloadGameStateResponse, DownloadStarts, Fed
<1>2. /\ m \in UnderWay(toClient) /\ FromServer(m) /\ Active
      /\ UnderWay(toClient') \subseteq UnderWay(toClient)
  BY <1>1, DeliveredQueue
<1>3. CASE UNCHANGED <<joinStateChannel, gameStateStepId, joinStateId, outSteps, state, waitTime>>
  <2>1. state' = "Synced" => DatagramsMeet'
    BY <1>2, <1>3, QueuesShrinkMeet DEF OwnChannelInv, StreamsMeet
  <2>2. Quiet
    BY <1>1, <1>3, <2>1 DEF Quiet, Active, Receiving
  <2> QED BY <2>2, QuietKeepsOwn, QuietIsExchange
<1>4. CASE /\ m.channel # joinStateChannel
           /\ joinStateChannel' = m.channel /\ joinStateId' = m.stateId /\ state' = "JoiningDownloadingState"
  <2>1. /\ transfer # NoTransfer /\ m.channel = transfer.channel /\ m.stateId = transfer.stateId
        /\ transfer.channel = ChannelOf[connection]
    BY <1>1, <1>2 DEF FromServer, SessionInv, TransferOfConnection
  <2>2. connection \in 1..connection
    BY DEF SessionInv, SessionTypes
  <2> HIDE DEF m
  <2>3. state # "Synced"
    BY <1>1, <1>2, <1>4, <2>1 DEF SessionInv, SyncedChannel
  <2>4. ChannelHasLabel'
    BY <1>4, <2>1, <2>2 DEF OwnChannelInv, ChannelHasLabel
  <2>5. StreamsMeet'
    BY <1>2, <1>4, <2>1, <2>3 DEF OwnChannelInv, StreamsMeet, ServerNeeds
  <2>6. SyncedToTransfer'
    BY <1>4 DEF SyncedToTransfer
  <2> QED BY <1>4, <2>4, <2>5, <2>6, StopsOrStays DEF OwnChannelInv, Playing
<1> QED BY <1>3, <1>4 DEF OnDownloadGameStateResponse, DownloadStarts, AnswersDownloadRequest

\* The game state that completes is that of the label, and the exchange
\* starts where both sides stand.
LEMMA PartIsExchange ==
    ASSUME ChannelsAreOwn, SessionInv, SessionInv', OwnChannelInv,
           NEW k \in DOMAIN toClient, toClient' = After(toClient, k),
           UNCHANGED <<toServer, connection, serverVars, requested>>, OnDownloadGameStatePart(toClient[k])
    PROVE  OwnChannelInv' /\ ExchangeStep
<1> DEFINE m == toClient[k]
<1>1. /\ Receiving /\ m.type = "BlobPart" /\ pc = "receive" /\ pc' # "destroyed"
      /\ UNCHANGED <<realizeVars, joinVars, joinStateChannel, joinStateId>>
  BY DEF OnDownloadGameStatePart, Receiving, Fed, FedWithError
<1>2. /\ m \in UnderWay(toClient) /\ FromServer(m) /\ Active
      /\ UnderWay(toClient') \subseteq UnderWay(toClient)
  BY <1>1, DeliveredQueue
<1>3. CASE KeepGameState
  <2>1. state' = "Synced" => DatagramsMeet'
    BY <1>2, <1>3, QueuesShrinkMeet DEF OwnChannelInv, StreamsMeet, KeepGameState
  <2>2. Quiet
    BY <1>1, <1>3, <2>1 DEF Quiet, Active, Receiving, KeepGameState
  <2> QED BY <2>2, QuietKeepsOwn, QuietIsExchange
<1>4. CASE /\ m.channel = joinStateChannel /\ state # "Synced"
           /\ blob' = BlobReceive(blob, m) /\ SetInitialGameState(blob', joinStateId, joinStateId)
  <2>1. /\ transfer # NoTransfer /\ m.channel = transfer.channel /\ m.content = transfer.stateId
        /\ transfer.channel = ChannelOf[connection] /\ transfer.stateId \in 0..serverStep
    BY <1>1, <1>2 DEF FromServer, SessionInv, TransferOfConnection
  <2>2. joinStateId = transfer.stateId
    BY <1>4, <2>1 DEF OwnChannelInv, ChannelHasLabel
  <2>3. ServerNeeds = transfer.stateId /\ ServerNeeds' = ServerNeeds
    BY <1>2, <1>4, <2>1 DEF OwnChannelInv, StreamsMeet, ServerNeeds
  <2>4. /\ state' = "Synced" /\ gameState' = transfer.stateId /\ outSteps' = EmptySteps(joinStateId)
        /\ pending' = EmptyPending(joinStateId) /\ authoritative' = EmptySteps(joinStateId)
    BY <1>4, <2>1 DEF SetInitialGameState, GameStateInit, BlobReceive
  <2> DEFINE n == transfer.stateId
  <2>5. /\ outSteps'.read = n /\ outSteps'.write = n /\ authoritative'.write = n
        /\ pending'.expected = n /\ pending'.have = {}
    BY <2>2, <2>4 DEF EmptySteps, EmptyPending
  <2>6. DatagramsMeet'
    <3>1. \A d \in UnderWay(toServer) : d.type # "GameStep"
      BY <1>2, <1>4 DEF SessionInv, Phases
    <3>2. \A d \in UnderWay(toClient) : d.type # "GameStepResponse"
      BY <1>2, <1>4 DEF SessionInv, Phases
    <3> QED BY <1>2, <3>1, <3>2 DEF DatagramsMeet
  <2>7. n \in Nat /\ serverStep \in Nat
    BY <2>1 DEF SessionInv, SessionTypes
  <2>8. StreamsMeet'
    BY <2>1, <2>3, <2>4, <2>5, <2>6, <2>7 DEF StreamsMeet
  <2>9. ChannelHasLabel'
    BY <1>1, <2>1, <2>2, <2>4 DEF OwnChannelInv, ChannelHasLabel, Active
  <2>10. SyncedToTransfer'
    BY <1>1, <2>2, <2>4 DEF SyncedToTransfer
  <2>11. Playing' /\ ~Playing
    BY <1>1, <1>4, <2>4 DEF Playing
  <2>12. (serverReceived' + 1) % StepModulus = n
    BY <2>3 DEF ServerNeeds, FirstNotReceived
  <2> HIDE DEF n
  <2>13. Exchange!Start(n)
    <3>1. Playing' = TRUE
      BY <2>11 DEF Playing
    <3> QED BY <2>5, <2>11, <2>12, <3>1 DEF Exchange!Start
  <2>14. n \in 0..serverStep
    BY <2>1 DEF n
  <2> QED BY <2>8, <2>9, <2>10, <2>13, <2>14 DEF OwnChannelInv, ExchangeStep, Exchange!Next
<1> QED BY <1>3, <1>4 DEF OnDownloadGameStatePart, TrySetInitialGameState

\* A step is delivered only when the server has made it, and one is let go
\* only when the server has it, also by a response whose steps are damaged.
LEMMA StepsDeliveredIsExchange ==
    ASSUME ChannelsAreOwn, SessionInv, SessionInv', OwnChannelInv,
           NEW k \in DOMAIN toClient, toClient' = After(toClient, k),
           UNCHANGED <<toServer, connection, serverVars, requested>>, OnGameStepResponse(toClient[k])
    PROVE  OwnChannelInv' /\ ExchangeStep
<1> DEFINE m == toClient[k]
<1>1. /\ Receiving /\ m.type = "GameStepResponse" /\ pc = "receive" /\ pc' # "destroyed"
      /\ UNCHANGED <<realizeVars, state, joinVars, stateVars>>
      /\ outSteps' = DiscardUpTo(outSteps, FirstNotReceived(m.received))
  BY DEF OnGameStepResponse, Receiving, FedWithError
<1>2. /\ m \in UnderWay(toClient) /\ m \in ServerMessages /\ FromServer(m) /\ Active
      /\ UnderWay(toClient') \subseteq UnderWay(toClient)
  BY <1>1, DeliveredQueue
<1>3. m.steps \subseteq 0..(serverStep - 1) /\ m.received \in Nat /\ serverStep \in Nat
  BY <1>1, <1>2, MessageFields DEF FromServer, SessionInv, SessionTypes
<1>4. state = "Synced"
  BY <1>1, <1>2 DEF SessionInv, Phases
<1>5. /\ outSteps.read <= ServerNeeds /\ ServerNeeds <= outSteps.write
      /\ DatagramsMeet /\ pending.expected <= serverStep /\ pending.have \subseteq 0..(serverStep - 1)
  BY <1>4 DEF OwnChannelInv, StreamsMeet
<1>6. FirstNotReceived(m.received) <= ServerNeeds
  BY <1>1, <1>2, <1>5 DEF DatagramsMeet
<1>7. FirstNotReceived(m.received) \in Nat /\ ServerNeeds \in Nat
  BY <1>3, ServerNeedsNumber, ClientAssumption DEF FirstNotReceived
<1>8. /\ outSteps \in [read : Nat, write : Nat]
      /\ pending \in [expected : Nat, have : SUBSET Nat]
      /\ authoritative \in [read : Nat, write : Nat] /\ authoritative.write = pending.expected
      /\ authoritative'.write = pending'.expected
  BY DEF SessionInv, ClientInv, ClientTypeOK, StepsInLockstep
<1>9. /\ outSteps'.write = outSteps.write /\ outSteps'.read \in Nat
      /\ outSteps.read <= outSteps'.read /\ outSteps'.read <= ServerNeeds
  BY <1>1, <1>5, <1>6, <1>7, <1>8 DEF DiscardUpTo
<1>10. /\ pending'.expected \in Nat /\ pending.expected <= pending'.expected
       /\ pending'.expected <= serverStep /\ pending'.have \subseteq 0..(serverStep - 1)
  <2>1. CASE UNCHANGED <<pending, authoritative>>
    BY <1>5, <1>8, <2>1
  <2>2. CASE m.readable
    <3> DEFINE p == PendingReceive(pending, m.steps)
    <3>1. p.expected = pending.expected /\ p.have \subseteq 0..(serverStep - 1)
      BY <1>3, <1>5, <1>8 DEF PendingReceive
    <3>2. PICK n \in 0..StepsCapacity : Copies(p, authoritative, n) /\ pending' = PendingWithout(p, n)
      BY <2>2 DEF OnGameStepResponse
    <3>3. n \in Nat /\ \A i \in p.expected..(p.expected + n - 1) : i \in p.have
      BY <3>2, ClientAssumption DEF Copies
    <3>4. pending'.expected = p.expected + n /\ pending'.have \subseteq p.have
      BY <3>2 DEF PendingWithout
    <3> HIDE DEF p
    <3>5. CASE n = 0
      BY <1>5, <1>8, <3>1, <3>4, <3>5
    <3>6. CASE n # 0
      <4>1. p.expected + n - 1 \in p.expected..(p.expected + n - 1)
        BY <1>8, <3>1, <3>3, <3>6
      <4>2. p.expected + n - 1 \in 0..(serverStep - 1)
        BY <3>1, <3>3, <4>1
      <4> QED BY <1>3, <1>8, <3>1, <3>3, <3>4, <4>2
    <3> QED BY <3>5, <3>6
  <2> QED BY <2>1, <2>2 DEF OnGameStepResponse
<1> HIDE DEF m
<1>11. ServerNeeds' = ServerNeeds
  BY DEF ServerNeeds, FirstNotReceived
<1>12. DatagramsMeet'
  BY <1>2, <1>5, <1>9, <1>11 DEF DatagramsMeet
<1>13. StreamsMeet'
  BY <1>1, <1>4, <1>5, <1>9, <1>10, <1>11, <1>12 DEF StreamsMeet
<1>14. ChannelHasLabel' /\ SyncedToTransfer'
  BY <1>1, <1>2 DEF OwnChannelInv, ChannelHasLabel, SyncedToTransfer, Active
<1>15. Playing /\ Playing' /\ Playing' = Playing
  BY <1>1, <1>4 DEF Playing
<1>16. authoritative'.write \in authoritative.write..serverStep
  BY <1>3, <1>8, <1>10
<1>17. outSteps'.read \in outSteps.read..ServerNeeds
  BY <1>7, <1>8, <1>9
<1>18. Exchange!Deliver
  BY <1>9, <1>15, <1>16, <1>17 DEF Exchange!Deliver, ServerNeeds, FirstNotReceived
<1> QED BY <1>13, <1>14, <1>18 DEF OwnChannelInv, ExchangeStep, Exchange!Next

\* The server sets the transfer up before the client has anything of it, and
\* needs the predicted steps from there on.
LEMMA DownloadRequestIsExchange ==
    ASSUME ChannelsAreOwn, SessionInv, SessionInv', OwnChannelInv,
           NEW k \in DOMAIN toServer, toServer' = After(toServer, k),
           UNCHANGED <<clientVars, connection, requested>>, ServerOnDownloadRequest(toServer[k])
    PROVE  OwnChannelInv' /\ ExchangeStep
<1> USE DEF clientVars
<1>1. CASE transfer # NoTransfer
  BY <1>1, HandlingIsQuiet, QuietKeepsOwn, QuietIsExchange
<1>2. CASE transfer = NoTransfer
  <2>1. /\ transfer'.stateId = serverStep /\ transfer'.channel = ChannelOf[connection]
        /\ serverReceived' = (serverStep - 1) % StepModulus /\ UNCHANGED serverStep
    BY <1>2 DEF ServerOnDownloadRequest
  <2>2. state # "Synced" /\ joinStateChannel # ChannelOf[connection]
    BY <1>2 DEF SessionInv, Phases, OwnChannelInv, ChannelHasLabel
  <2>3. ServerNeeds' = serverStep
    <3>1. serverStep \in StepIds /\ StepIds \subseteq 0..(StepModulus - 1) /\ StepModulus \in Nat \ {0}
      BY TransferTypes, ClientAssumption
    <3>2. CASE serverStep = 0
      <4>1. (serverStep - 1) % StepModulus = StepModulus - 1
        BY <3>1, <3>2
      <4>2. (serverReceived' + 1) % StepModulus = 0
        BY <2>1, <3>1, <4>1
      <4> QED BY <3>2, <4>2 DEF ServerNeeds, FirstNotReceived
    <3>3. CASE serverStep # 0
      <4>1. (serverStep - 1) % StepModulus = serverStep - 1
        BY <3>1, <3>3
      <4>2. (serverReceived' + 1) % StepModulus = serverStep
        BY <2>1, <3>1, <4>1
      <4> QED BY <4>2 DEF ServerNeeds, FirstNotReceived
    <3> QED BY <3>2, <3>3
  <2>4. ChannelHasLabel' /\ SyncedToTransfer'
    BY <2>2 DEF OwnChannelInv, ChannelHasLabel, SyncedToTransfer, Active
  <2>5. StreamsMeet'
    BY <2>1, <2>2, <2>3 DEF StreamsMeet
  <2> QED BY <2>1, <2>2, <2>4, <2>5, StopsOrStays DEF OwnChannelInv, Playing
<1> QED BY <1>1, <1>2

\* The server takes the predicted steps it lacks, none twice and none that
\* the client has not predicted.
LEMMA GameStepIsExchange ==
    ASSUME ChannelsAreOwn, SessionInv, SessionInv', OwnChannelInv,
           NEW k \in DOMAIN toServer, toServer' = After(toServer, k),
           UNCHANGED <<clientVars, connection, requested>>, ServerOnGameStep(toServer[k])
    PROVE  OwnChannelInv' /\ ExchangeStep
<1> USE DEF clientVars
<1> DEFINE m == toServer[k]
<1>1. /\ m \in UnderWay(toServer) /\ m \in ClientMessages /\ m.type = "GameStep"
      /\ UnderWay(toServer') \subseteq UnderWay(toServer)
      /\ UNCHANGED <<transfer, answers, serverStep>>
  BY HandledQueue DEF ServerOnGameStep
<1>2. m.first \in Nat /\ m.next \in 0..(StepModulus - 1) /\ StepModulus \in Nat \ {0}
  BY <1>1, RequestFields, ClientAssumption
<1>3. serverReceived' = IF ServerNeeds \in m.first..(m.next - 1) THEN m.next - 1 ELSE serverReceived
  BY DEF ServerOnGameStep, ServerNeeds, FirstNotReceived
<1>4. PICK d : Reply(<<d>>) /\ d.received = serverReceived'
  BY DEF ServerOnGameStep, GameStepResponse
<1>5. \A a \in UnderWay(toClient') : a \in UnderWay(toClient) \/ a = d
  BY <1>4, RepliedUnderWay
<1>6. state = "Synced" \/ ~Active
  BY <1>1 DEF SessionInv, Phases
<1> HIDE DEF m
<1>7. ServerNeeds \in Nat
  BY ServerNeedsNumber, <1>2
<1>8. /\ ServerNeeds' \in Nat /\ ServerNeeds <= ServerNeeds'
      /\ ServerNeeds' = ServerNeeds \/ ServerNeeds' = m.next
  <2>1. CASE ServerNeeds \in m.first..(m.next - 1)
    <3>1. ServerNeeds <= m.next - 1 /\ serverReceived' = m.next - 1
      BY <1>2, <1>3, <1>7, <2>1
    <3>2. (serverReceived' + 1) % StepModulus = m.next
      BY <1>2, <3>1
    <3> QED BY <1>2, <1>7, <3>1, <3>2 DEF ServerNeeds, FirstNotReceived
  <2>2. CASE ServerNeeds \notin m.first..(m.next - 1)
    BY <1>3, <1>7, <2>2 DEF ServerNeeds, FirstNotReceived
  <2> QED BY <2>1, <2>2
<1>9. ChannelHasLabel' /\ SyncedToTransfer'
  BY <1>1 DEF OwnChannelInv, ChannelHasLabel, SyncedToTransfer, Active
<1>10. CASE state # "Synced"
  BY <1>1, <1>6, <1>9, <1>10, StopsOrStays DEF OwnChannelInv, StreamsMeet, Active, Playing
<1>11. CASE state = "Synced"
  <2>1. /\ outSteps.read \in Nat /\ outSteps.write \in Nat
        /\ outSteps.read <= ServerNeeds /\ ServerNeeds <= outSteps.write /\ m.next <= outSteps.write
        /\ DatagramsMeet /\ pending.expected <= serverStep /\ pending.have \subseteq 0..(serverStep - 1)
    BY <1>1, <1>11 DEF SessionInv, ClientInv, ClientTypeOK, OwnChannelInv, StreamsMeet, DatagramsMeet
  <2>2. outSteps.read <= ServerNeeds' /\ ServerNeeds' <= outSteps.write
    BY <1>7, <1>8, <2>1
  <2>3. DatagramsMeet'
    <3>1. ASSUME NEW a \in UnderWay(toClient'), a.type = "GameStepResponse"
          PROVE  FirstNotReceived(a.received) <= ServerNeeds'
      <4>1. CASE a = d
        <5>1. FirstNotReceived(a.received) = ServerNeeds'
          BY <1>4, <4>1 DEF ServerNeeds
        <5> QED BY <1>8, <5>1
      <4>2. CASE a \in UnderWay(toClient)
        <5>1. a \in ServerMessages
          BY <4>2 DEF SessionInv, SessionTypes, UnderWay
        <5>2. a.received \in Nat
          BY <3>1, <5>1, MessageFields
        <5>3. FirstNotReceived(a.received) \in Nat
          BY <1>2, <5>2 DEF FirstNotReceived
        <5>4. FirstNotReceived(a.received) <= ServerNeeds
          BY <2>1, <3>1, <4>2 DEF DatagramsMeet
        <5> QED BY <1>7, <1>8, <5>3, <5>4
      <4> QED BY <1>5, <4>1, <4>2
    <3> QED BY <1>1, <2>1, <3>1 DEF DatagramsMeet, FirstNotReceived
  <2>4. StreamsMeet'
    BY <1>1, <1>11, <2>1, <2>2, <2>3 DEF StreamsMeet
  <2>5. CASE Playing
    <3>1. Playing' = Playing
      BY DEF Playing
    <3>2. ServerNeeds' \in ServerNeeds..outSteps.write
      BY <1>7, <1>8, <2>1, <2>2
    <3>3. Exchange!Receive
      BY <1>1, <2>5, <3>1, <3>2 DEF Exchange!Receive, ServerNeeds, FirstNotReceived
    <3> QED BY <1>9, <2>4, <3>3 DEF OwnChannelInv, ExchangeStep, Exchange!Next
  <2>6. CASE ~Playing
    BY <1>1, <1>9, <2>4, <2>6, StopsOrStays DEF OwnChannelInv, Playing
  <2> QED BY <2>5, <2>6
<1> QED BY <1>10, <1>11

-----------------------------------------------------------------------------
(* The session on channels of its own.                                     *)

LEMMA OwnChannelInit == ChannelsAreOwn /\ Init => OwnChannelInv /\ Exchange!Init
<1> SUFFICES ASSUME ChannelsAreOwn, Init PROVE OwnChannelInv /\ Exchange!Init
  OBVIOUS
<1>1. /\ state = "Idle" /\ transfer = NoTransfer /\ joinStateChannel \in UninitChannels
      /\ connection = 1 /\ serverStep = 0
  BY DEF Init, ClientInit
<1>2. ChannelOf[connection] \in Channels
  BY SessionInvInit, TransferTypes
<1>3. joinStateChannel # ChannelOf[connection]
  BY <1>1, <1>2 DEF ChannelsAreOwn
<1>4. OwnChannelInv
  BY <1>1, <1>3 DEF OwnChannelInv, ChannelHasLabel, SyncedToTransfer, StreamsMeet
<1>5. Playing = FALSE
  BY <1>1 DEF Playing
<1> QED BY <1>1, <1>4, <1>5 DEF Exchange!Init

LEMMA OwnChannelStep ==
    ASSUME ChannelsAreOwn, SessionInv, SessionInv', OwnChannelInv, [Next]_vars
    PROVE  OwnChannelInv' /\ ExchangeStep
<1>1. CASE \/ DeliveryFails \/ Waits \/ SendFails \/ Read \/ Realize \/ JoinGame \/ Quit \/ Reset \/ Destroy
           \/ UNCHANGED vars
  BY <1>1, ClientStepsAreQuiet, QuietKeepsOwn, QuietIsExchange
<1>2. CASE Sends \/ ServerSendsChunk \/ Damage
  BY <1>2, SendsIsQuiet, ChunkIsQuiet, DamageIsQuiet, QuietKeepsOwn, QuietIsExchange
<1>3. CASE Predict \/ ServerTick \/ ReInit
  BY <1>3, PredictIsExchange, TickIsExchange, ReInitIsExchange
<1>4. ASSUME NEW kind \in ReplyKinds, Deliver(kind) PROVE OwnChannelInv' /\ ExchangeStep
  <2>1. PICK k \in DOMAIN toClient : Feed(toClient[k]) /\ toClient' = After(toClient, k)
    BY <1>4 DEF Deliver
  <2>2. UNCHANGED <<toServer, connection, serverVars, requested>>
    BY <1>4 DEF Deliver
  <2>3. CASE \/ OnConnectResponse(toClient[k])
             \/ OnJoinGameResponse(toClient[k])
             \/ OnJoinGameParticipantOutOfSpaceResponse(toClient[k])
    BY <2>1, <2>2, <2>3, DeliveryIsQuiet, QuietKeepsOwn, QuietIsExchange
  <2> QED
    BY <2>1, <2>2, <2>3, ResponseIsExchange, PartIsExchange, StepsDeliveredIsExchange DEF Feed
<1>5. ASSUME NEW kind \in RequestKinds, ServerHandles(kind) PROVE OwnChannelInv' /\ ExchangeStep
  <2>1. PICK k \in DOMAIN toServer :
          /\ \/ ServerOnConnectRequest(toServer[k])
             \/ ServerOnDownloadRequest(toServer[k])
             \/ ServerOnBlobStream(toServer[k])
             \/ ServerOnJoinGame(toServer[k])
             \/ ServerOnGameStep(toServer[k])
          /\ toServer' = After(toServer, k)
          /\ UNCHANGED <<clientVars, connection, requested, budgetVars>>
    BY <1>5 DEF ServerHandles
  <2>2. UNCHANGED <<clientVars, connection, requested>>
    BY <2>1
  <2>3. CASE \/ ServerOnConnectRequest(toServer[k])
             \/ ServerOnBlobStream(toServer[k])
             \/ ServerOnJoinGame(toServer[k])
    BY <2>1, <2>2, <2>3, HandlingIsQuiet, QuietKeepsOwn, QuietIsExchange
  <2> QED BY <2>1, <2>2, <2>3, DownloadRequestIsExchange, GameStepIsExchange
<1> QED BY <1>1, <1>2, <1>3, <1>4, <1>5 DEF Next

\* Where no channel is used twice, the channel the client accepted last
\* stands for the label of the game state, and the two streams of steps meet.
THEOREM OwnChannelInvariant == ASSUME ChannelsAreOwn PROVE Spec => []OwnChannelInv
<1>1. Init => OwnChannelInv
  BY OwnChannelInit
<1>2. SessionInv /\ SessionInv' /\ OwnChannelInv /\ [Next]_vars => OwnChannelInv'
  BY OwnChannelStep
<1> QED BY <1>1, <1>2, SessionInvariant, PTL DEF Spec

\* The game state of a synced client is the one the server captured at the
\* step of its label, on this connection.
THEOREM StateIsLabelled == ASSUME ChannelsAreOwn PROVE Spec => []SyncedStateMatches
<1>1. SessionInv /\ OwnChannelInv => SyncedStateMatches
  BY DEF SessionInv, ClientInv, SyncedFromGameState, OwnChannelInv, SyncedToTransfer, SyncedStateMatches
<1> QED BY <1>1, SessionInvariant, OwnChannelInvariant, PTL

\* No response to a request for the game state is taken for an old one while
\* the client still waits for the first.
THEOREM DownloadStartsOnResponse == ASSUME ChannelsAreOwn PROVE Spec => ResponseStartsDownload
<1>1. ASSUME SessionInv, OwnChannelInv, state = "JoiningRequestingState", Deliver("GameStateResponse")
      PROVE  state' = "JoiningDownloadingState"
  <2>1. PICK k \in DOMAIN toClient :
          toClient[k].type = "GameStateResponse" /\ Feed(toClient[k]) /\ toClient' = After(toClient, k)
    BY <1>1 DEF Deliver
  <2>2. UNCHANGED <<toServer, connection, serverVars, requested>>
    BY <1>1 DEF Deliver
  <2>3. OnDownloadGameStateResponse(toClient[k])
    BY <2>1 DEF Feed, OnConnectResponse, OnDownloadGameStatePart, OnJoinGameResponse, Joined,
                OnJoinGameParticipantOutOfSpaceResponse, OnGameStepResponse
  <2>4. Receiving
    BY <2>3 DEF OnDownloadGameStateResponse, DownloadStarts
  <2>5. FromServer(toClient[k]) /\ Active
    BY <1>1, <2>1, <2>2, <2>4, DeliveredQueue
  <2>6. /\ toClient[k].clientRequestId = DownloadStateClientRequestId
        /\ toClient[k].channel = ChannelOf[connection]
    BY <1>1, <2>1, <2>5 DEF FromServer, SessionInv, TransferOfConnection
  <2>7. AnswersDownloadRequest(toClient[k])
    BY <1>1, <2>5, <2>6 DEF AnswersDownloadRequest, OwnChannelInv, ChannelHasLabel
  <2> QED BY <2>3, <2>7 DEF OnDownloadGameStateResponse, DownloadStarts
<1>2. SessionInv /\ OwnChannelInv /\ [Next]_vars =>
        [state = "JoiningRequestingState" /\ Deliver("GameStateResponse")
            => state' = "JoiningDownloadingState"]_vars
  BY <1>1
<1> QED BY <1>2, SessionInvariant, OwnChannelInvariant, PTL DEF Spec, ResponseStartsDownload

\* A client, a lossy network and a server implement the two streams of
\* StepExchange: the application gets every step of the game once and in
\* order, none before it is made, and the server every predicted step, which
\* the client keeps until then.
THEOREM SessionImplementsExchange == ASSUME ChannelsAreOwn PROVE Spec => StepsAreExchanged
<1>1. Init => Exchange!Init
  BY OwnChannelInit
<1>2. SessionInv /\ SessionInv' /\ OwnChannelInv /\ [Next]_vars => [Exchange!Next]_(Exchange!vars)
  BY OwnChannelStep DEF ExchangeStep
<1> QED
  BY <1>1, <1>2, SessionInvariant, OwnChannelInvariant, PTL DEF Spec, StepsAreExchanged, Exchange!Spec
================================================================================
