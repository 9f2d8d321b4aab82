------------------------------ MODULE NimbleSession ------------------------------
(***************************************************************************)
(* The client together with the network and a Nimble server, as far as the *)
(* client's code relies on them.  Neither is in this repository: both are  *)
(* modelled from how src/ uses them.                                       *)
(*                                                                         *)
(* Each direction of the transport is a queue that loses datagrams: the    *)
(* receiver may take any one of them and never gets those sent before it.  *)
(* That is what an unordered, duplicating, lossy network amounts to behind *)
(* the ordered datagram ids: a datagram that is not newer than the last    *)
(* one accepted is refused, which in the client is ReceiveFails.           *)
(*                                                                         *)
(* The server numbers connections and blob transfers alike and does not    *)
(* use a number twice: a blob left over from one connection is never taken *)
(* for a part of the transfer of the next (blobStreamIn is not reset).     *)
(***************************************************************************)
EXTENDS NimbleClient

CONSTANTS
    ParticipantsFor,\* the participants the server seats for each join request
    ChannelOf,      \* channel of the game state transfer of each connection
    MaxConnections, \* transports used one after the other (RealizeReInit)
    MaxJoins,       \* calls of nimbleClientRealizeJoinGame
    MaxResets,      \* calls of nimbleClientRealizeReset
    MaxFaults,      \* stale, damaged or unasked for datagrams, errors of the transport
    MaxStep,        \* authoritative steps of the server's game
    MaxPredicted,   \* predicted steps ids reach at most
    QueueCap        \* datagrams under way in one direction

ASSUME SessionAssumption ==
    /\ MaxConnections \in Nat \ {0}
    /\ ChannelOf \in [1..MaxConnections -> Channels]
    /\ 1..MaxConnections \subseteq ConnectionIds \cap TransferIds
    /\ {MaxJoins, MaxResets, MaxFaults, MaxStep, MaxPredicted} \subseteq Nat
    /\ 0..MaxStep \subseteq StepIds
    /\ MaxPredicted < StepModulus /\ 0..(MaxPredicted - 1) \subseteq StepIds
    /\ QueueCap \in Nat \ {0}

\* No two joins are given the same participants.
ASSUME SeatsAssumption ==
    /\ ParticipantsFor \in [Nonces -> Participants]
    /\ \A m, n \in Nonces : ParticipantsFor[m] = ParticipantsFor[n] => m = n

VARIABLES
    toServer, toClient,     \* datagrams under way, oldest first
    connection,             \* number of the transport in use
    transfer,               \* the server's game state transfer on it
    answers,                \* its answers to join requests, by nonce
    serverStep,             \* next authoritative step of the game
    serverReceived,         \* last predicted step it has received
    requested,              \* nonces of the join requests handed to the transport
    joins, resets, faults   \* used up of MaxJoins, MaxResets, MaxFaults

serverVars == <<transfer, answers, serverStep, serverReceived>>
budgetVars == <<joins, resets, faults>>
vars == <<clientVars, toServer, toClient, connection, serverVars, requested, budgetVars>>

NoTransfer == [channel |-> 0, stateId |-> 0]
NoAnswers == [n \in Nonces |-> "None"]

\* A queue takes more datagrams at its end; the oldest make way for them.
Enqueue(queue, datagrams) ==
    LET all == queue \o datagrams
    IN  SubSeq(all, IF Len(all) > QueueCap THEN Len(all) - QueueCap + 1 ELSE 1, Len(all))

\* Mutant: older datagrams are accepted after newer ones.
AfterInAnyOrder(queue, k) == SubSeq(queue, 1, k - 1) \o SubSeq(queue, k + 1, Len(queue))

\* readAndCheckOrderedDatagram, at either end: the k-th datagram is taken and
\* the ones before it are refused from then on.
After(queue, k) == SubSeq(queue, k + 1, Len(queue))

-----------------------------------------------------------------------------
(* The client's steps                                                      *)

\* A datagram of the given kind reaches the client.
Deliver(kind) ==
    \E k \in DOMAIN toClient :
        /\ toClient[k].type = kind
        /\ Feed(toClient[k])
        /\ toClient' = After(toClient, k)
        /\ UNCHANGED <<toServer, connection, serverVars, requested, budgetVars>>

SpendFault == faults < MaxFaults /\ faults' = faults + 1

DeliveryFails ==
    /\ ReceiveFails
    /\ SpendFault
    /\ UNCHANGED <<toServer, toClient, connection, serverVars, requested, joins, resets>>

Waits == UpdateWaits /\ UNCHANGED <<toServer, toClient, connection, serverVars, requested, budgetVars>>

Sends ==
    /\ \E out \in {<<>>, <<ConnectRequest>>, <<DownloadGameStateRequest>>, <<BlobStreamCommand>>,
                   <<JoinGameRequest>>, <<GameStep>>, <<GameStep, JoinGameRequest>>} :
          /\ UpdateSends(out)
          /\ toServer' = Enqueue(toServer, out)
          /\ requested' = requested \cup {out[i].nonce : i \in {j \in DOMAIN out : out[j].type = "JoinGameRequest"}}
    /\ UNCHANGED <<toClient, connection, serverVars, budgetVars>>

SendFails ==
    /\ UpdateSendStepsFails
    /\ SpendFault
    /\ UNCHANGED <<toServer, toClient, connection, serverVars, requested, joins, resets>>

Realize ==
    /\ RealizeFollowsDisconnect \/ RealizeUpdateBegins \/ RealizeTarget
    /\ UNCHANGED <<toServer, toClient, connection, serverVars, requested, budgetVars>>

JoinGame ==
    /\ joins < MaxJoins /\ joins' = joins + 1
    /\ joinGameRequestNonce \in Nonces
    /\ RealizeJoinGame
    /\ UNCHANGED <<toServer, toClient, connection, serverVars, requested, resets, faults>>

Quit ==
    /\ RealizeQuitGame
    /\ UNCHANGED <<toServer, toClient, connection, serverVars, requested, budgetVars>>

\* The same transport, with what is under way on it.
Reset ==
    /\ resets < MaxResets /\ resets' = resets + 1
    /\ RealizeReset
    /\ requested' = {}
    /\ UNCHANGED <<toServer, toClient, connection, serverVars, joins, faults>>

\* Another transport, on which the server sees a new connection.
ReInit ==
    /\ connection < MaxConnections /\ connection' = connection + 1
    /\ RealizeReInit
    /\ toServer' = <<>> /\ toClient' = <<>>
    /\ transfer' = NoTransfer /\ answers' = NoAnswers
    /\ UNCHANGED <<serverStep, serverReceived, requested, budgetVars>>

\* What is under way then concerns nobody any more.
Destroy ==
    /\ RealizeDestroy
    /\ toServer' = <<>> /\ toClient' = <<>>
    /\ UNCHANGED <<connection, serverVars, requested, budgetVars>>

Predict ==
    /\ outSteps.write < MaxPredicted
    /\ AddPredictedStep
    /\ UNCHANGED <<toServer, toClient, connection, serverVars, requested, budgetVars>>

Read ==
    /\ ReadStep
    /\ UNCHANGED <<toServer, toClient, connection, serverVars, requested, budgetVars>>

-----------------------------------------------------------------------------
(* The server's steps                                                      *)

\* What a handler of the server answers goes to the client.
Reply(datagrams) == toClient' = Enqueue(toClient, datagrams)

ServerOnConnectRequest(m) ==
    /\ m.type = "ConnectRequest"
    /\ Reply(<<ConnectResponse(connection)>>)
    /\ UNCHANGED serverVars

\* The transfer is set up once for a connection and offered again on every
\* further request.
ServerOnDownloadRequest(m) ==
    /\ m.type = "DownloadGameStateRequest"
    /\ \/ transfer = NoTransfer
          /\ transfer' = [channel |-> ChannelOf[connection], stateId |-> serverStep]
          /\ serverReceived' = (serverStep - 1) % StepModulus
       \/ transfer # NoTransfer /\ UNCHANGED <<transfer, serverReceived>>
    /\ Reply(<<GameStateResponse(m.clientRequestId, transfer'.stateId, transfer'.channel)>>)
    /\ UNCHANGED <<answers, serverStep>>

\* The acknowledgement of what the client has is answered with a chunk it lacks.
ServerOnBlobStream(m) ==
    /\ m.type = "BlobStream"
    /\ LET lacks == IF m.transferId = connection THEN Chunks \ m.chunks ELSE Chunks
       IN  \/ \E chunk \in lacks :
                 Reply(<<BlobPart(transfer.channel, connection, transfer.stateId, chunk, TRUE)>>)
           \/ lacks = {} /\ UNCHANGED toClient
    /\ UNCHANGED serverVars

\* A request is answered once and for all: a repeated one gets the same answer.
ServerOnJoinGame(m) ==
    /\ m.type = "JoinGameRequest"
    /\ \E answer \in {"Joined", "Full"} :
          /\ answers[m.nonce] \in {"None", answer}
          /\ answers' = [answers EXCEPT ![m.nonce] = answer]
          /\ Reply(<<IF answer = "Joined" THEN JoinGameResponse(ParticipantsFor[m.nonce])
                     ELSE OutOfSlotsResponse(m.nonce)>>)
    /\ UNCHANGED <<transfer, serverStep, serverReceived>>

\* The authoritative steps sent are some range of those the client lacks.
ServerOnGameStep(m) ==
    /\ m.type = "GameStep"
    /\ serverReceived' = IF (serverReceived + 1) % StepModulus \in m.first..(m.next - 1)
                         THEN m.next - 1 ELSE serverReceived
    /\ \E first \in m.expected..serverStep :
          Reply(<<GameStepResponse(serverReceived', {i \in first..(serverStep - 1) : i \notin m.have}, TRUE)>>)
    /\ UNCHANGED <<transfer, answers, serverStep>>

ServerHandles(kind) ==
    \E k \in DOMAIN toServer :
        LET m == toServer[k]
        IN  /\ m.type = kind
            /\ \/ ServerOnConnectRequest(m)
               \/ ServerOnDownloadRequest(m)
               \/ ServerOnBlobStream(m)
               \/ ServerOnJoinGame(m)
               \/ ServerOnGameStep(m)
            /\ toServer' = After(toServer, k)
            /\ UNCHANGED <<clientVars, connection, requested, budgetVars>>

\* A chunk that nothing asked for, at any time once the transfer is set up.
ServerSendsChunk ==
    /\ SpendFault
    /\ transfer # NoTransfer
    /\ \E chunk \in Chunks : Reply(<<BlobPart(transfer.channel, connection, transfer.stateId, chunk, TRUE)>>)
    /\ UNCHANGED <<clientVars, toServer, connection, serverVars, requested, joins, resets>>

ServerTick ==
    /\ serverStep < MaxStep
    /\ serverStep' = serverStep + 1
    /\ UNCHANGED <<clientVars, toServer, toClient, connection, transfer, answers, serverReceived,
                   requested, budgetVars>>

\* What a datagram with a payload carries arrives damaged.
Damage ==
    /\ SpendFault
    /\ \E k \in DOMAIN toClient :
          /\ toClient[k].type \in {"BlobPart", "GameStepResponse"}
          /\ toClient' = [toClient EXCEPT ![k].readable = FALSE]
    /\ UNCHANGED <<clientVars, toServer, connection, serverVars, requested, joins, resets>>

-----------------------------------------------------------------------------
Init ==
    /\ ClientInit
    /\ toServer = <<>> /\ toClient = <<>>
    /\ connection = 1
    /\ transfer = NoTransfer /\ answers = NoAnswers
    /\ serverStep = 0 /\ serverReceived = StepModulus - 1
    /\ requested = {}
    /\ joins = 0 /\ resets = 0 /\ faults = 0

ReplyKinds == {"ConnectResponse", "GameStateResponse", "BlobPart", "JoinGameResponse", "OutOfSlots", "GameStepResponse"}
RequestKinds == {"ConnectRequest", "DownloadGameStateRequest", "BlobStream", "JoinGameRequest", "GameStep"}

Next ==
    \/ \E kind \in ReplyKinds : Deliver(kind)
    \/ DeliveryFails
    \/ Waits
    \/ Sends
    \/ SendFails
    \/ Realize
    \/ JoinGame
    \/ Quit
    \/ Reset
    \/ ReInit
    \/ Destroy
    \/ Predict
    \/ Read
    \/ \E kind \in RequestKinds : ServerHandles(kind)
    \/ ServerSendsChunk
    \/ ServerTick
    \/ Damage

Spec == Init /\ [][Next]_vars

\* The application keeps calling nimbleClientRealizeUpdate, whose receive
\* loop ends; of the requests and answers that lead up to the game state,
\* which are sent again and again, one of each kind gets through in the end.
\* Nothing is assumed of the application's other calls, of the later
\* datagrams, of ticks of the server, of faults or of which copy arrives.
Fairness ==
    /\ WF_vars(Realize)
    /\ WF_vars(Waits \/ Sends)
    /\ \A kind \in {"ConnectRequest", "DownloadGameStateRequest", "BlobStream"} :
          SF_vars(ServerHandles(kind))
    /\ \A kind \in {"ConnectResponse", "GameStateResponse", "BlobPart"} : SF_vars(Deliver(kind))

FairSpec == Spec /\ Fairness

-----------------------------------------------------------------------------
(* Properties                                                              *)

SessionTypeOK ==
    /\ ClientTypeOK
    /\ \A k \in DOMAIN toClient : toClient[k] \in ServerMessages
    /\ \A k \in DOMAIN toServer : toServer[k].type \in RequestKinds
    /\ Len(toClient) <= QueueCap /\ Len(toServer) <= QueueCap
    /\ connection \in 1..MaxConnections
    /\ transfer \in [channel : Channels \cup {0}, stateId : StepIds]
    /\ answers \in [Nonces -> {"None", "Joined", "Full"}]
    /\ serverStep \in 0..MaxStep /\ serverReceived \in 0..(StepModulus - 1)
    /\ requested \subseteq Nonces

\* The game state of a synced client is the one the server captured at the
\* step it is labelled with, and it is that of the connection in use: no
\* label or chunk of an earlier transfer survives into it.
SyncedStateMatches ==
    state = "Synced" /\ pc # "destroyed" =>
        /\ gameState = gameStateStepId
        /\ gameStateStepId = transfer.stateId

\* No game state is lost without being freed: one is allocated exactly
\* while the client holds one.
NoGameStateLeak == allocations = (IF gameState = NoGameState THEN 0 ELSE 1)

\* The realizer says Synced only while the client is synced, or was and has
\* just disconnected: behind ordered datagrams no late or repeated answer
\* throws a playing client back into the download.
RealizerSyncedIsSynced == realizeState = "Synced" => state \in {"Synced", "Disconnected"}

Playing == state = "Synced" /\ pc # "destroyed"

Exchange == INSTANCE StepExchange
    WITH playing <- Playing,
         made <- serverStep,
         delivered <- IF Playing THEN authoritative.write ELSE 0,
         predicted <- IF Playing THEN outSteps.write ELSE 0,
         received <- IF Playing THEN (serverReceived + 1) % StepModulus ELSE 0,
         kept <- IF Playing THEN outSteps.read ELSE 0

\* Over a lossy network, with windows that fill up and acknowledgements that
\* come late or damaged, the application's steps and the server's are two
\* streams without gaps, copies or inventions, and no predicted step leaves
\* the client's buffer before the server has it.
StepsAreExchanged == Exchange!Spec

\* The client has the participants of a join the server accepted on this
\* connection.
Seated == \E n \in Nonces : answers[n] = "Joined" /\ LocalParticipants = ParticipantsFor[n]

\* A synced client that says it has joined has exactly the participants of
\* one join that the server accepted on this connection.
JoinedAsAnswered == state = "Synced" /\ joinParticipantPhase = "JoinedParticipant" /\ pc # "destroyed" => Seated

\* The participants that the join n seats on a device.
SeatedOn(n, device) ==
    {ParticipantsFor[n][i].participantId :
        i \in {j \in DOMAIN ParticipantsFor[n] : ParticipantsFor[n][j].localIndex = device}}

\* Whenever it asks, the application finds no participants at all, or on
\* every device the one of a single join that the server accepted on this
\* connection, and none where that join seats none: what it finds is never
\* of an earlier connection, nor a mixture of a larger party and the smaller
\* one that joined after it.  Which of the joins of the connection it is
\* depends on whose answer arrives first: an acceptance carries no nonce.
FindsOwnParticipant ==
    \/ \A device \in 0..MaxLocalUsers : FindParticipantId(device) = NoParticipantId
    \/ \E n \in Nonces :
          /\ answers[n] = "Joined"
          /\ \A device \in 0..MaxLocalUsers :
                LET id == FindParticipantId(device)
                IN  id \in SeatedOn(n, device) \/ (SeatedOn(n, device) = {} /\ id = NoParticipantId)

\* A client that has joined falls back to "out of slots" only on the refusal
\* of a request made after the one it has joined with: although that answer
\* is taken in any phase and for any nonce, none from before the join throws
\* it out.
JoinedLostOnlyToLaterRefusal ==
    [][joinParticipantPhase = "JoinedParticipant" /\ joinParticipantPhase' = "OutOfParticipantSlots"
          => \E joined, refused \in Nonces, k \in DOMAIN toClient :
                /\ toClient[k] = OutOfSlotsResponse(refused) /\ toClient' = After(toClient, k)
                /\ joined < refused
                /\ answers[joined] = "Joined" /\ LocalParticipants = ParticipantsFor[joined]
                /\ answers[refused] = "Full"]_vars

\* The answer to a request for the game state starts the download.
ResponseStartsDownload ==
    [][state = "JoiningRequestingState" /\ Deliver("GameStateResponse")
          => state' = "JoiningDownloadingState"]_vars

\* The realizer goes from the current state to the target state: a join
\* gets the application a synced client, unless the client disconnects or
\* the application changes its mind.
JoinReachesSynced ==
    targetState = "Synced" ~>
        realizeState = "Synced" \/ state = "Disconnected" \/ targetState # "Synced" \/ pc = "destroyed"

-----------------------------------------------------------------------------
(* What comments and the README say and the code does not do.              *)

\* nimbleClientRealizeJoinGame sends a join request to the server: the
\* joining is not refused before that request has been sent.
JoinSendsRequest ==
    state = "Synced" /\ joinParticipantPhase = "OutOfParticipantSlots" => joinGameRequest \in requested

\* A client may send an empty array of steps if it is spectating: a client
\* that has become synced, and that the application leaves in the session,
\* sends a datagram with its steps, in which it asks for the authoritative
\* ones, even if it never has a predicted step (MaxPredicted = 0).
SpectatorAsksForSteps ==
    state = "Synced" /\ realizeState # "Synced" ~>
        \/ \E k \in DOMAIN toServer : toServer[k].type = "GameStep"
        \/ targetState # "Synced" \/ realizeState = "Cleared" \/ pc = "destroyed"

-----------------------------------------------------------------------------
(* The inductive invariant, from which the properties are proved.          *)

UnderWay(queue) == {queue[i] : i \in DOMAIN queue}
Precedes(queue, a, b) == \E i, j \in DOMAIN queue : i < j /\ queue[i] = a /\ queue[j] = b

ClientMessages ==
    [type : {"ConnectRequest"}]
    \cup [type : {"DownloadGameStateRequest"}, clientRequestId : {DownloadStateClientRequestId}]
    \cup [type : {"BlobStream"}, transferId : Nat, chunks : SUBSET Chunks]
    \cup [type : {"JoinGameRequest"}, nonce : Nonces]
    \cup [type : {"GameStep"}, expected : Nat, have : SUBSET Nat, first : Nat, next : 0..(StepModulus - 1)]

SessionTypes ==
    /\ toClient \in Seq(ServerMessages) /\ Len(toClient) <= QueueCap
    /\ toServer \in Seq(ClientMessages) /\ Len(toServer) <= QueueCap
    /\ connection \in 1..MaxConnections
    /\ transfer \in [channel : Channels \cup {0}, stateId : StepIds]
    /\ answers \in [Nonces -> {"None", "Joined", "Full"}]
    /\ serverStep \in 0..MaxStep /\ serverReceived \in 0..(StepModulus - 1)
    /\ requested \subseteq Nonces
    /\ joinStateId \in StepIds /\ gameStateStepId \in StepIds
    /\ outSteps.write \in 0..(StepModulus - 1)

\* The client still exchanges datagrams on this connection.  It stops when
\* it disconnects or is reset, until it is given another transport.
Active == state # "Disconnected" /\ realizeState # "Cleared"

RealizerInStep ==
    /\ targetState = "Cleared" => state \in {"Idle", "Disconnected"}
    /\ realizeState = "Cleared" => pc # "receive" /\ state \in {"Idle", "RequestingConnect", "Disconnected"}
    /\ Active /\ state # "Idle" => targetState = "Synced"
    /\ RealizerSyncedIsSynced

\* A join that was begun has a nonce, a smaller one than the next join gets.
JoinHasNonce ==
    /\ targetState = "Synced" \/ state \notin {"Idle", "Disconnected"} => joinGameRequest \in Nonces
    /\ Active /\ targetState = "Synced" => joinGameRequest < joinGameRequestNonce

TransferOfConnection ==
    \/ transfer = NoTransfer
    \/ transfer.channel = ChannelOf[connection] /\ transfer.stateId \in 0..serverStep

\* What is under way to the client is what the server has on this connection.
FromServer(m) ==
    /\ m.type = "GameStateResponse" =>
          /\ transfer # NoTransfer /\ m.clientRequestId = DownloadStateClientRequestId
          /\ m.stateId = transfer.stateId /\ m.channel = transfer.channel
    /\ m.type = "BlobPart" =>
          /\ transfer # NoTransfer
          /\ m.content = transfer.stateId /\ m.channel = transfer.channel
    /\ m.type = "JoinGameResponse" =>
          \E n \in Nonces : answers[n] = "Joined" /\ m.participants = ParticipantsFor[n]
    /\ m.type = "OutOfSlots" => answers[m.nonce] = "Full"
    /\ m.type = "GameStepResponse" => m.steps \subseteq 0..(serverStep - 1)

AnswersAreServers == \A m \in UnderWay(toClient) : FromServer(m)

\* The order of a session: connect, download, play.
Phases ==
    /\ \A m \in UnderWay(toServer) : m.type = "BlobStream" => transfer # NoTransfer
    /\ state \in {"JoiningDownloadingState", "Synced"} => transfer # NoTransfer
    /\ Active /\ state \in {"Idle", "RequestingConnect", "Connected"} =>
          /\ transfer = NoTransfer
          /\ \A m \in UnderWay(toServer) : m.type # "DownloadGameStateRequest"
    /\ Active /\ state # "Synced" =>
          /\ \A m \in UnderWay(toServer) : m.type \notin {"JoinGameRequest", "GameStep"}
          /\ \A m \in UnderWay(toClient) : m.type \notin {"JoinGameResponse", "OutOfSlots", "GameStepResponse"}

\* Nothing of a download comes after a datagram of a join.
JoinAfterDownload ==
    /\ \A a, b \in UnderWay(toServer) :
          Precedes(toServer, a, b) /\ a.type = "JoinGameRequest" => b.type # "DownloadGameStateRequest"
    /\ \A a, b \in UnderWay(toClient) :
          Precedes(toClient, a, b) /\ a.type = "JoinGameResponse" => b.type # "GameStateResponse"
    /\ \A a \in UnderWay(toClient), b \in UnderWay(toServer) :
          a.type = "JoinGameResponse" => b.type # "DownloadGameStateRequest"

\* A synced client takes no further response for a new one.
SyncedChannel ==
    state = "Synced" =>
        \/ joinStateChannel = transfer.channel
        \/ /\ joinStateChannel = 0
           /\ \A m \in UnderWay(toClient) : m.type # "GameStateResponse"
           /\ \A m \in UnderWay(toServer) : m.type # "DownloadGameStateRequest"

\* Only a client that is or was synced holds a game state.
GameStateHeld ==
    /\ NoGameStateLeak
    /\ state \notin {"Synced", "Disconnected"} => gameState = NoGameState

SeatsAreServers ==
    /\ LocalParticipants = <<>> \/ Seated
    /\ joinParticipantPhase = "JoinedParticipant" =>
          /\ state \notin {"JoiningRequestingState", "JoiningDownloadingState"}
          /\ state = "Synced" => Seated

\* The nonce of the join that seats the given participants, and that of an
\* answer to a join.
NonceOf(who) == CHOOSE n \in Nonces : ParticipantsFor[n] = who
AnswerNonce(m) == IF m.type = "OutOfSlots" THEN m.nonce ELSE NonceOf(m.participants)
IsAnswer(m) == m.type \in {"JoinGameResponse", "OutOfSlots"}

\* Requests and answers are under way in the order of their nonces, and
\* those of the join the client has are not older than it.
NoncesInOrder ==
    /\ \A a, b \in UnderWay(toServer) :
          Precedes(toServer, a, b) /\ a.type = "JoinGameRequest" /\ b.type = "JoinGameRequest" =>
              a.nonce <= b.nonce
    /\ \A a, b \in UnderWay(toClient) :
          Precedes(toClient, a, b) /\ IsAnswer(a) /\ IsAnswer(b) => AnswerNonce(a) <= AnswerNonce(b)
    /\ \A a \in UnderWay(toClient), b \in UnderWay(toServer) :
          IsAnswer(a) /\ b.type = "JoinGameRequest" => AnswerNonce(a) <= b.nonce

NoncesAreJoins ==
    Active /\ state = "Synced" =>
        /\ \A b \in UnderWay(toServer) : b.type = "JoinGameRequest" => b.nonce <= joinGameRequest
        /\ \A a \in UnderWay(toClient) : IsAnswer(a) => AnswerNonce(a) <= joinGameRequest
        /\ joinParticipantPhase = "JoinedParticipant" =>
              /\ NonceOf(LocalParticipants) <= joinGameRequest
              /\ \A b \in UnderWay(toServer) :
                    b.type = "JoinGameRequest" => NonceOf(LocalParticipants) <= b.nonce
              /\ \A a \in UnderWay(toClient) : IsAnswer(a) => NonceOf(LocalParticipants) <= AnswerNonce(a)

SessionInv ==
    /\ ClientInv
    /\ SessionTypes
    /\ RealizerInStep
    /\ JoinHasNonce
    /\ TransferOfConnection
    /\ AnswersAreServers
    /\ Phases
    /\ JoinAfterDownload
    /\ SyncedChannel
    /\ GameStateHeld
    /\ SeatsAreServers
    /\ NoncesInOrder
    /\ NoncesAreJoins

\* A server that never uses a channel again, and a joinStateChannel that is
\* not by chance the first one before it is written.
ChannelsAreOwn ==
    /\ \A c, d \in 1..MaxConnections : ChannelOf[c] = ChannelOf[d] => c = d
    /\ UninitChannels \cap Channels = {}

\* What a session has in addition on such channels: the channel accepted
\* last stands for its label, and the streams of steps meet.
ChannelHasLabel ==
    /\ joinStateChannel \in UninitChannels \cup {0} \cup {ChannelOf[c] : c \in 1..connection}
    /\ joinStateChannel = ChannelOf[connection] =>
          transfer # NoTransfer /\ joinStateId = transfer.stateId
    /\ Active /\ state \in {"Idle", "RequestingConnect", "Connected", "JoiningRequestingState"} =>
          joinStateChannel # ChannelOf[connection]

SyncedToTransfer ==
    state = "Synced" =>
        /\ joinStateId = transfer.stateId
        /\ pc # "destroyed" => gameState = transfer.stateId

ServerNeeds == FirstNotReceived(serverReceived)

\* No datagram says more of the steps than the two sides have.
DatagramsMeet ==
    /\ \A m \in UnderWay(toServer) : m.type = "GameStep" => m.next <= outSteps.write
    /\ \A m \in UnderWay(toClient) :
          m.type = "GameStepResponse" => FirstNotReceived(m.received) <= ServerNeeds

StreamsMeet ==
    /\ Active /\ state # "Synced" /\ transfer # NoTransfer => ServerNeeds = transfer.stateId
    /\ state = "Synced" =>
          /\ outSteps.read <= ServerNeeds /\ ServerNeeds <= outSteps.write
          /\ DatagramsMeet
          /\ pending.expected <= serverStep /\ pending.have \subseteq 0..(serverStep - 1)

OwnChannelInv == ChannelHasLabel /\ SyncedToTransfer /\ StreamsMeet
================================================================================
