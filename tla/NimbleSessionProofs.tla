-------------------------- MODULE NimbleSessionProofs --------------------------
(***************************************************************************)
(* The client in a session: what holds behind a lossy network, for every   *)
(* number of connections, joins, resets, steps and datagrams under way.    *)
(***************************************************************************)
EXTENDS NimbleSession, NimbleClientProofs, SequenceTheorems, WellFoundedInduction

USE DEF realizeVars, participantVars, joinVars, stateVars, stepVars, qualityVars, serverVars

-----------------------------------------------------------------------------
(* Queues of datagrams.                                                    *)

\* After takes the k-th datagram and keeps what follows it, in its order.
LEMMA AfterQueue ==
    ASSUME NEW S, NEW q \in Seq(S), NEW k \in DOMAIN q
    PROVE  /\ After(q, k) \in Seq(S) /\ Len(After(q, k)) <= Len(q)
           /\ q[k] \in UnderWay(q) /\ q[k] \in S
           /\ UnderWay(After(q, k)) \subseteq UnderWay(q)
           /\ \A a, b : Precedes(After(q, k), a, b) => Precedes(q, a, b)
           /\ \A b \in UnderWay(After(q, k)) : Precedes(q, q[k], b)
<1> DEFINE r == After(q, k)
<1>1. /\ k \in 1..Len(q) /\ Len(q) \in Nat /\ DOMAIN q = 1..Len(q)
  OBVIOUS
<1>2. r \in Seq(S) /\ Len(r) = Len(q) - k /\ DOMAIN r = 1..(Len(q) - k)
  BY <1>1 DEF After
<1>3. \A i \in DOMAIN r : r[i] = q[i + k] /\ i + k \in DOMAIN q /\ k < i + k
  BY <1>1, <1>2 DEF After
<1>4. UnderWay(r) \subseteq UnderWay(q) /\ q[k] \in UnderWay(q) /\ q[k] \in S
  BY <1>1, <1>3 DEF UnderWay
<1>5. ASSUME NEW a, NEW b, Precedes(r, a, b) PROVE Precedes(q, a, b)
  <2>1. PICK i, j \in DOMAIN r : i < j /\ r[i] = a /\ r[j] = b
    BY <1>5 DEF Precedes
  <2>2. i + k < j + k
    BY <1>1, <1>2, <2>1
  <2> QED BY <1>3, <2>1, <2>2 DEF Precedes
<1>6. ASSUME NEW b \in UnderWay(r) PROVE Precedes(q, q[k], b)
  <2>1. PICK i \in DOMAIN r : r[i] = b
    BY DEF UnderWay
  <2> QED BY <1>1, <1>3, <2>1 DEF Precedes
<1> HIDE DEF r
<1> QED BY <1>1, <1>2, <1>4, <1>5, <1>6 DEF r

\* Enqueue keeps the order of the queue and of what is added behind it.
LEMMA EnqueueQueue ==
    ASSUME NEW S, NEW q \in Seq(S), NEW d \in Seq(S)
    PROVE  /\ Enqueue(q, d) \in Seq(S) /\ Len(Enqueue(q, d)) <= QueueCap
           /\ UnderWay(Enqueue(q, d)) \subseteq UnderWay(q) \cup UnderWay(d)
           /\ \A a, b : Precedes(Enqueue(q, d), a, b) =>
                           \/ Precedes(q, a, b)
                           \/ a \in UnderWay(q) /\ b \in UnderWay(d)
                           \/ Precedes(d, a, b)
<1> DEFINE all == q \o d
           first == IF Len(all) > QueueCap THEN Len(all) - QueueCap + 1 ELSE 1
           r == SubSeq(all, first, Len(all))
<1>1. /\ all \in Seq(S) /\ Len(q) \in Nat /\ Len(d) \in Nat /\ Len(all) = Len(q) + Len(d)
      /\ \A i \in 1..Len(all) : all[i] = IF i <= Len(q) THEN q[i] ELSE d[i - Len(q)]
  OBVIOUS
<1>2. QueueCap \in Nat \ {0}
  BY SessionAssumption
<1> HIDE DEF all
<1>3. first \in 1..(Len(all) + 1) /\ Len(all) - first + 1 <= QueueCap
  BY <1>1, <1>2
<1> HIDE DEF first
<1>4. r \in Seq(S) /\ Len(r) = Len(all) - first + 1
  BY <1>1, <1>3
<1>5. \A i \in DOMAIN r : i \in Nat /\ r[i] = all[i + (first - 1)] /\ i + (first - 1) \in 1..Len(all)
  BY <1>1, <1>3, <1>4
<1> HIDE DEF r
<1>6. ASSUME NEW i \in 1..Len(all)
      PROVE  \/ i \in DOMAIN q /\ all[i] = q[i]
             \/ i - Len(q) \in DOMAIN d /\ i > Len(q) /\ all[i] = d[i - Len(q)]
  BY <1>1
<1>7. UnderWay(r) \subseteq UnderWay(q) \cup UnderWay(d)
  BY <1>5, <1>6 DEF UnderWay
<1>8. ASSUME NEW a, NEW b, Precedes(r, a, b)
      PROVE  Precedes(q, a, b) \/ (a \in UnderWay(q) /\ b \in UnderWay(d)) \/ Precedes(d, a, b)
  <2>1. PICK i0, j0 \in DOMAIN r : i0 < j0 /\ r[i0] = a /\ r[j0] = b
    BY <1>8 DEF Precedes
  <2> DEFINE i == i0 + (first - 1)
             j == j0 + (first - 1)
  <2>2. i \in 1..Len(all) /\ j \in 1..Len(all) /\ i < j /\ all[i] = a /\ all[j] = b
    BY <1>1, <1>3, <1>5, <2>1
  <2> HIDE DEF i, j
  <2>3. CASE j \in DOMAIN q /\ all[j] = q[j]
    <3>1. i \in DOMAIN q /\ all[i] = q[i]
      BY <1>1, <2>2, <2>3
    <3> QED BY <2>2, <2>3, <3>1 DEF Precedes
  <2>4. CASE i \in DOMAIN q /\ all[i] = q[i] /\ j - Len(q) \in DOMAIN d /\ all[j] = d[j - Len(q)]
    BY <2>2, <2>4 DEF UnderWay
  <2>5. CASE /\ i - Len(q) \in DOMAIN d /\ all[i] = d[i - Len(q)]
             /\ j - Len(q) \in DOMAIN d /\ all[j] = d[j - Len(q)]
    <3>1. i - Len(q) < j - Len(q)
      BY <1>1, <2>2
    <3> QED BY <2>2, <2>5, <3>1 DEF Precedes
  <2> QED BY <1>6, <2>2, <2>3, <2>4, <2>5
<1>9. Enqueue(q, d) = r
  BY DEF Enqueue, r, first, all
<1> QED BY <1>3, <1>4, <1>7, <1>8, <1>9

\* What is under way in a queue of at most two datagrams.
LEMMA ShortQueue ==
    /\ UnderWay(<<>>) = {}
    /\ \A a : UnderWay(<<a>>) = {a}
    /\ \A a, b : UnderWay(<<a, b>>) = {a, b}
    /\ \A x, y : ~Precedes(<<>>, x, y)
    /\ \A a, x, y : ~Precedes(<<a>>, x, y)
    /\ \A a, b, x, y : Precedes(<<a, b>>, x, y) => x = a /\ y = b
BY DEF UnderWay, Precedes

LEMMA ShortSequences ==
    ASSUME NEW S, NEW a \in S
    PROVE  <<>> \in Seq(S) /\ <<a>> \in Seq(S) /\ \A b \in S : <<a, b>> \in Seq(S)
OBVIOUS

LEMMA ShortConcatenations ==
    ASSUME NEW a, NEW b
    PROVE  <<>> \o <<a>> = <<a>> /\ <<a>> \o <<b>> = <<a, b>>
<1> DEFINE S == {a, b}
<1>1. <<>> \in Seq(S) /\ <<a>> \in Seq(S) /\ <<b>> \in Seq(S) /\ <<a, b>> \in Seq(S)
  BY ShortSequences
<1>2. <<>> \o <<a>> \in Seq(S) /\ <<a>> \o <<b>> \in Seq(S)
  BY <1>1
<1>3. Len(<<>> \o <<a>>) = 1 /\ (<<>> \o <<a>>)[1] = a
  BY <1>1
<1>4. Len(<<a>> \o <<b>>) = 2 /\ (<<a>> \o <<b>>)[1] = a /\ (<<a>> \o <<b>>)[2] = b
  BY <1>1
<1>5. <<>> \o <<a>> = <<a>>
  BY <1>1, <1>2, <1>3, SeqEqual
<1>6. <<a>> \o <<b>> = <<a, b>>
  <2>1. Len(<<a, b>>) = 2 /\ <<a, b>>[1] = a /\ <<a, b>>[2] = b
    OBVIOUS
  <2>2. \A i \in 1..2 : i = 1 \/ i = 2
    OBVIOUS
  <2>3. \A i \in 1..Len(<<a>> \o <<b>>) : (<<a>> \o <<b>>)[i] = <<a, b>>[i]
    BY <1>4, <2>1, <2>2, Zenon
  <2> QED BY <1>1, <1>2, <1>4, <2>1, <2>3, SeqEqual, Zenon
<1> QED BY <1>5, <1>6

-----------------------------------------------------------------------------
(* Datagrams.                                                              *)

\* What the fields of a request may be, by its type.
LEMMA RequestFields ==
    ASSUME NEW m \in ClientMessages
    PROVE  /\ m.type \in RequestKinds
           /\ m.type = "DownloadGameStateRequest" => m.clientRequestId = DownloadStateClientRequestId
           /\ m.type = "JoinGameRequest" => m.nonce \in Nonces
           /\ m.type = "GameStep" =>
                 m.expected \in Nat /\ m.first \in Nat /\ m.next \in 0..(StepModulus - 1)
BY DEF ClientMessages, RequestKinds

\* The participants of an answer tell the join it is for.
LEMMA SeatsOf ==
    ASSUME NEW n \in Nonces
    PROVE  NonceOf(ParticipantsFor[n]) = n
BY SeatsAssumption DEF NonceOf

\* A lookup that is not written has the same participants in use.
LEMMA SameParticipants == UNCHANGED participantVars => UNCHANGED LocalParticipants
BY DEF LocalParticipants

LEMMA NoncesAreNumbers ==
    ASSUME SessionTypes, AnswersAreServers
    PROVE  /\ \A b \in UnderWay(toServer) : b \in ClientMessages /\ (b.type = "JoinGameRequest" => b.nonce \in Nat)
           /\ \A a \in UnderWay(toClient) : a \in ServerMessages /\ (IsAnswer(a) => AnswerNonce(a) \in Nat)
<1>1. Nonces \subseteq Nat
  BY ClientAssumption
<1>2. ASSUME NEW b \in UnderWay(toServer) PROVE b \in ClientMessages
  BY DEF UnderWay, SessionTypes
<1>3. ASSUME NEW a \in UnderWay(toClient) PROVE a \in ServerMessages
  BY DEF UnderWay, SessionTypes
<1>4. ASSUME NEW a \in UnderWay(toClient), a.type = "OutOfSlots" PROVE a.nonce \in Nat
  BY <1>1, <1>3, <1>4 DEF ServerMessages
<1>5. ASSUME NEW a \in UnderWay(toClient), a.type = "JoinGameResponse" PROVE NonceOf(a.participants) \in Nat
  <2>1. PICK n \in Nonces : a.participants = ParticipantsFor[n]
    BY <1>5 DEF AnswersAreServers, FromServer
  <2> QED BY <1>1, <2>1, SeatsOf
<1> QED BY <1>1, <1>2, <1>3, <1>4, <1>5, RequestFields DEF IsAnswer, AnswerNonce

-----------------------------------------------------------------------------
(* The session's steps are steps of the client.                            *)

LEMMA SessionStepIsClientStep ==
    ASSUME SessionInv, [Next]_vars
    PROVE  [ClientNext]_clientVars
<1>1. ASSUME NEW kind \in ReplyKinds, Deliver(kind) PROVE ClientNext
  <2>1. PICK k \in DOMAIN toClient : Feed(toClient[k])
    BY <1>1 DEF Deliver
  <2>2. toClient[k] \in ServerMessages
    BY AfterQueue DEF SessionInv, SessionTypes
  <2> QED BY <2>1, <2>2 DEF ClientNext
<1>2. CASE DeliveryFails \/ Waits \/ Sends \/ SendFails
  BY <1>2 DEF DeliveryFails, Waits, Sends, SendFails, ClientNext
<1>3. CASE Realize \/ JoinGame \/ Quit \/ Reset \/ ReInit \/ Destroy \/ Read
  BY <1>3 DEF Realize, JoinGame, Quit, Reset, ReInit, Destroy, Read, ClientNext
<1>4. CASE Predict
  <2>1. outSteps.write \in StepIds
    BY <1>4, SessionAssumption DEF Predict, SessionInv, SessionTypes
  <2> QED BY <1>4, <2>1 DEF Predict, ClientNext
<1>5. CASE (\E kind \in RequestKinds : ServerHandles(kind)) \/ ServerSendsChunk \/ ServerTick \/ Damage
  BY <1>5 DEF ServerHandles, ServerSendsChunk, ServerTick, Damage
<1>6. CASE UNCHANGED vars
  BY <1>6 DEF vars
<1> QED BY <1>1, <1>2, <1>3, <1>4, <1>5, <1>6 DEF Next

LEMMA ClientInvInSession == SessionInv /\ [Next]_vars => ClientInv'
BY SessionStepIsClientStep, ClientInvStep DEF SessionInv

LEMMA NoTransferType == NoTransfer \in [channel : Channels \cup {0}, stateId : StepIds]
<1>1. 0 \in 0..MaxStep /\ 0..MaxStep \subseteq StepIds
  BY SessionAssumption
<1> QED BY <1>1 DEF NoTransfer

LEMMA SessionInvInit == Init => SessionInv
<1> SUFFICES ASSUME Init PROVE SessionInv
  OBVIOUS
<1>1. ClientInv
  BY ClientInvInit DEF Init
<1>2. toClient = <<>> /\ toServer = <<>> /\ UnderWay(toClient) = {} /\ UnderWay(toServer) = {}
  BY ShortQueue DEF Init
<1>3. SessionTypes
  BY <1>1, <1>2, NoTransferType, ClientAssumption, SessionAssumption
  DEF Init, ClientInit, SessionTypes, NoAnswers, EmptySteps
<1> QED
  BY <1>1, <1>2, <1>3
  DEF Init, ClientInit, SessionInv, RealizerInStep, RealizerSyncedIsSynced, JoinHasNonce, Active,
      TransferOfConnection, AnswersAreServers, Phases, JoinAfterDownload, SyncedChannel, GameStateHeld,
      NoGameStateLeak, SeatsAreServers, NoncesInOrder, NoncesAreJoins, LocalParticipants

-----------------------------------------------------------------------------
(* Steps of the client alone: nothing is taken from a queue or added.      *)

\* An update without datagrams, and what the application does with steps:
\* the client is as it was, or a synced one has disconnected.
LEMMA QuietStepKeepsInv ==
    ASSUME SessionInv, ClientInv', SessionTypes',
           UNCHANGED <<toServer, toClient, connection, serverVars, requested>>,
           UNCHANGED <<realizeVars, joinVars, stateVars>>,
           pc' = "receive" => pc = "receive",
           state' = state \/ (state' = "Disconnected" /\ state = "Synced")
    PROVE  SessionInv'
<1>1. RealizerInStep' /\ JoinHasNonce'
  BY DEF SessionInv, RealizerInStep, RealizerSyncedIsSynced, JoinHasNonce, Active
<1>2. TransferOfConnection' /\ AnswersAreServers'
  BY DEF SessionInv, TransferOfConnection, AnswersAreServers, FromServer
<1>3. Phases' /\ JoinAfterDownload' /\ SyncedChannel'
  BY DEF SessionInv, Phases, JoinAfterDownload, SyncedChannel, Active
<1>4. GameStateHeld' /\ SeatsAreServers'
  BY SameParticipants DEF SessionInv, GameStateHeld, NoGameStateLeak, SeatsAreServers, Seated
<1>5. NoncesInOrder' /\ NoncesAreJoins'
  BY SameParticipants DEF SessionInv, NoncesInOrder, NoncesAreJoins, Active
<1> QED BY <1>1, <1>2, <1>3, <1>4, <1>5 DEF SessionInv

LEMMA QuietActionsKeepInv ==
    ASSUME SessionInv, ClientInv', DeliveryFails \/ Waits \/ SendFails \/ Predict \/ Read
    PROVE  SessionInv'
<1>1. /\ UNCHANGED <<toServer, toClient, connection, serverVars, requested, realizeVars, joinVars, stateVars>>
      /\ pc' = "receive" => pc = "receive"
  BY DEF DeliveryFails, ReceiveFails, FedWithError, Waits, UpdateWaits, SendFails, UpdateSendStepsFails,
         UpdateQualityAndState, Predict, AddPredictedStep, Read, ReadStep
<1>2. state' = state \/ (state' = "Disconnected" /\ state = "Synced")
  BY DEF DeliveryFails, ReceiveFails, Waits, UpdateWaits, SendFails, UpdateSendStepsFails,
         UpdateQualityAndState, CheckIfDisconnectIsNeeded, Predict, AddPredictedStep,
         Read, ReadStep
<1>3. outSteps'.write \in 0..(StepModulus - 1)
  <2>1. CASE Predict
    <3>1. outSteps'.write = outSteps.write + 1
      BY <2>1 DEF Predict, AddPredictedStep, SessionInv, ClientInv, ClientTypeOK
    <3> QED BY <2>1, <3>1, SessionAssumption, ClientAssumption DEF Predict, SessionInv, SessionTypes
  <2>2. CASE ~Predict
    <3>1. UNCHANGED outSteps
      BY <2>2 DEF DeliveryFails, ReceiveFails, Waits, UpdateWaits, SendFails, UpdateSendStepsFails,
                  UpdateQualityAndState, Read, ReadStep
    <3> QED BY <3>1 DEF SessionInv, SessionTypes
  <2> QED BY <2>1, <2>2
<1>4. SessionTypes'
  BY <1>1, <1>3 DEF SessionInv, SessionTypes
<1> QED BY <1>1, <1>2, <1>4, QuietStepKeepsInv

\* The realizer moves the client on from Idle and from Connected only, and
\* takes the verdict of a disconnected client over.
LEMMA RealizeKeepsSessionInv ==
    ASSUME SessionInv, ClientInv', Realize
    PROVE  SessionInv'
<1>1. /\ UNCHANGED <<toServer, toClient, connection, serverVars, requested, targetState, joinGameRequestNonce,
                     joinGameRequest, LocalParticipants, stateVars, stepVars>>
  BY SameParticipants
  DEF Realize, RealizeFollowsDisconnect, RealizeUpdateBegins, UpdateUnless, RealizeTarget, RealizeTargetFrom
<1>2. SessionTypes' /\ TransferOfConnection' /\ AnswersAreServers' /\ JoinAfterDownload' /\ NoncesInOrder'
  BY <1>1 DEF SessionInv, SessionTypes, TransferOfConnection, AnswersAreServers, FromServer,
              JoinAfterDownload, NoncesInOrder
<1>3. \/ /\ UNCHANGED <<state, joinParticipantPhase>>
         /\ pc' = "receive" => realizeState' # "Cleared"
         /\ \/ realizeState' = realizeState
            \/ state = "Disconnected" /\ realizeState' = "Disconnected"
            \/ targetState = "Cleared" /\ realizeState' = "Cleared" /\ pc' # "receive"
            \/ state = "Synced" /\ realizeState' = "Synced" /\ pc' # "receive"
      \/ /\ targetState = "Synced" /\ state = "Idle" /\ state' = "RequestingConnect"
         /\ UNCHANGED <<realizeState, joinParticipantPhase>> /\ pc' # "receive"
      \/ /\ targetState = "Synced" /\ state = "Connected" /\ state' = "JoiningRequestingState"
         /\ UNCHANGED realizeState /\ joinParticipantPhase' = "JoiningParticipant" /\ pc' # "receive"
  BY DEF Realize, RealizeFollowsDisconnect, RealizeUpdateBegins, UpdateUnless, RealizeTarget,
         RealizeTargetFrom, SessionInv, ClientInv, ClientTypeOK
<1>4. RealizerInStep' /\ JoinHasNonce'
  BY <1>1, <1>3 DEF SessionInv, RealizerInStep, RealizerSyncedIsSynced, JoinHasNonce, Active
<1>5. Phases'
  BY <1>1, <1>3 DEF SessionInv, RealizerInStep, Phases, Active
<1>6. SyncedChannel' /\ GameStateHeld' /\ SeatsAreServers'
  BY <1>1, <1>3 DEF SessionInv, SyncedChannel, GameStateHeld, NoGameStateLeak, SeatsAreServers, Seated
<1>7. NoncesAreJoins'
  BY <1>1, <1>3 DEF SessionInv, RealizerInStep, NoncesAreJoins, Active
<1> QED BY <1>2, <1>4, <1>5, <1>6, <1>7 DEF SessionInv

LEMMA CallsKeepSessionInv ==
    ASSUME SessionInv, ClientInv', JoinGame \/ Quit
    PROVE  SessionInv'
<1>1. UNCHANGED <<pc, realizeState, toServer, toClient, connection, serverVars, requested, LocalParticipants,
                  stateVars, stepVars>>
  BY SameParticipants DEF JoinGame, RealizeJoinGame, JoinGameWith, Quit, RealizeQuitGame, QuitTo
<1>2. SessionTypes' /\ TransferOfConnection' /\ AnswersAreServers' /\ JoinAfterDownload' /\ NoncesInOrder'
  BY <1>1 DEF SessionInv, SessionTypes, TransferOfConnection, AnswersAreServers, FromServer,
              JoinAfterDownload, NoncesInOrder
<1>3. CASE JoinGame
  <2>1. /\ state' = state /\ targetState' = "Synced" /\ joinParticipantPhase' = "JoiningParticipant"
        /\ joinGameRequestNonce \in Nonces /\ joinGameRequest' = joinGameRequestNonce
        /\ joinGameRequestNonce' = joinGameRequestNonce + 1 /\ joinGameRequestNonce \in Nat
    BY <1>3 DEF JoinGame, RealizeJoinGame, JoinGameWith, SessionInv, ClientInv, ClientTypeOK
  <2>2. RealizerInStep' /\ JoinHasNonce'
    BY <1>1, <2>1 DEF SessionInv, RealizerInStep, RealizerSyncedIsSynced, JoinHasNonce, Active
  <2>3. Phases' /\ SyncedChannel' /\ GameStateHeld' /\ SeatsAreServers'
    BY <1>1, <2>1
    DEF SessionInv, Phases, Active, SyncedChannel, GameStateHeld, NoGameStateLeak, SeatsAreServers, Seated
  <2>4. NoncesAreJoins'
    <3>1. SUFFICES ASSUME Active, state = "Synced" PROVE NoncesAreJoins'
      BY <1>1, <2>1 DEF NoncesAreJoins, Active
    <3>2. joinGameRequest \in Nat /\ joinGameRequest < joinGameRequest'
      BY <2>1, <3>1 DEF SessionInv, RealizerInStep, JoinHasNonce, ClientInv, ClientTypeOK
    <3>3. \A b \in UnderWay(toServer) : b.type = "JoinGameRequest" => b.nonce <= joinGameRequest'
      BY <2>1, <3>1, <3>2, NoncesAreNumbers DEF SessionInv, NoncesAreJoins
    <3>4. \A a \in UnderWay(toClient) : IsAnswer(a) => AnswerNonce(a) <= joinGameRequest'
      BY <2>1, <3>1, <3>2, NoncesAreNumbers DEF SessionInv, NoncesAreJoins
    <3> QED BY <1>1, <2>1, <3>3, <3>4 DEF NoncesAreJoins
  <2> QED BY <1>2, <2>2, <2>3, <2>4 DEF SessionInv
<1>4. CASE Quit
  <2>1. /\ state' = "Disconnected" /\ targetState' = "Cleared"
        /\ UNCHANGED <<joinParticipantPhase, joinGameRequest, joinGameRequestNonce>>
    BY <1>4 DEF Quit, RealizeQuitGame, QuitTo
  <2> QED
    BY <1>1, <1>2, <2>1
    DEF SessionInv, RealizerInStep, RealizerSyncedIsSynced, JoinHasNonce, Active, Phases, SyncedChannel,
        GameStateHeld, NoGameStateLeak, SeatsAreServers, Seated, NoncesAreJoins
<1> QED BY <1>3, <1>4

\* A reset client is not active: what is still under way does not reach it.
LEMMA ResetKeepsSessionInv ==
    ASSUME SessionInv, ClientInv', Reset
    PROVE  SessionInv'
<1>1. /\ UNCHANGED <<pc, targetState, toServer, toClient, connection, serverVars, joinGameRequest,
                     joinParticipantPhase, joinStateChannel, joinStateId, gameStateStepId>>
      /\ state' = "Idle" /\ realizeState' = "Cleared" /\ pc = "app" /\ requested' = {}
      /\ LocalParticipants' = <<>> /\ outSteps' = EmptySteps(0) /\ DestroyGameState
  BY DEF Reset, RealizeReset, ResetTo, ResetClient, LocalParticipants
<1>2. SessionTypes' /\ TransferOfConnection' /\ AnswersAreServers' /\ JoinAfterDownload' /\ NoncesInOrder'
  BY <1>1, ClientAssumption
  DEF SessionInv, SessionTypes, TransferOfConnection, AnswersAreServers, FromServer, JoinAfterDownload,
      NoncesInOrder, EmptySteps
<1>3. GameStateHeld'
  BY <1>1 DEF SessionInv, GameStateHeld, NoGameStateLeak, DestroyGameState, ClientInv, ClientTypeOK
<1> QED
  BY <1>1, <1>2, <1>3
  DEF SessionInv, RealizerInStep, RealizerSyncedIsSynced, JoinHasNonce, Active, Phases, SyncedChannel,
      SeatsAreServers, NoncesAreJoins

\* Another transport: everything under way and all the server had are gone,
\* and so are the game state and the participants.
LEMMA ReInitKeepsSessionInv ==
    ASSUME SessionInv, ClientInv', ReInit
    PROVE  SessionInv'
<1>1. /\ UNCHANGED <<pc, serverStep, serverReceived, requested, joinGameRequest, joinParticipantPhase,
                     joinStateChannel, joinStateId, gameStateStepId>>
      /\ connection' = connection + 1 /\ connection < MaxConnections
      /\ toServer' = <<>> /\ toClient' = <<>> /\ transfer' = NoTransfer /\ answers' = NoAnswers
      /\ state' = "Idle" /\ realizeState' = "ReInit" /\ targetState' = "Init" /\ pc = "app"
      /\ LocalParticipants' = <<>> /\ outSteps' = EmptySteps(0) /\ DestroyGameState
  BY DEF ReInit, RealizeReInit, ResetClient, LocalParticipants
<1>2. UnderWay(toServer') = {} /\ UnderWay(toClient') = {}
  BY <1>1, ShortQueue
<1>3. SessionTypes'
  BY <1>1, NoTransferType, ClientAssumption, SessionAssumption
  DEF SessionInv, SessionTypes, EmptySteps, NoAnswers
<1>4. GameStateHeld'
  BY <1>1 DEF SessionInv, GameStateHeld, NoGameStateLeak, DestroyGameState, ClientInv, ClientTypeOK
<1> QED
  BY <1>1, <1>2, <1>3, <1>4
  DEF SessionInv, RealizerInStep, RealizerSyncedIsSynced, JoinHasNonce, Active, TransferOfConnection,
      AnswersAreServers, Phases, JoinAfterDownload, SyncedChannel, SeatsAreServers, NoncesInOrder,
      NoncesAreJoins

LEMMA DestroyKeepsSessionInv ==
    ASSUME SessionInv, ClientInv', Destroy
    PROVE  SessionInv'
<1>1. /\ UNCHANGED <<connection, serverVars, requested, realizeVars, joinVars, state, joinStateChannel,
                     joinStateId, gameStateStepId, stepVars>>
      /\ pc' = "destroyed" /\ toServer' = <<>> /\ toClient' = <<>> /\ DestroyGameState
  BY DEF Destroy, RealizeDestroy
<1>2. UnderWay(toServer') = {} /\ UnderWay(toClient') = {}
  BY <1>1, ShortQueue
<1>3. SessionTypes' /\ TransferOfConnection'
  BY <1>1, ClientAssumption, SessionAssumption DEF SessionInv, SessionTypes, TransferOfConnection
<1>4. GameStateHeld'
  BY <1>1 DEF SessionInv, GameStateHeld, NoGameStateLeak, DestroyGameState, ClientInv, ClientTypeOK
<1>5. RealizerInStep' /\ JoinHasNonce' /\ SeatsAreServers'
  BY SameParticipants, <1>1
  DEF SessionInv, RealizerInStep, RealizerSyncedIsSynced, JoinHasNonce, Active, SeatsAreServers, Seated
<1>6. NoncesAreJoins'
  BY SameParticipants, <1>1, <1>2 DEF SessionInv, NoncesAreJoins, Active
<1> QED
  BY <1>1, <1>2, <1>3, <1>4, <1>5, <1>6
  DEF SessionInv, Active, AnswersAreServers, Phases, JoinAfterDownload, SyncedChannel, NoncesInOrder

-----------------------------------------------------------------------------
(* sendPackets.                                                            *)

\* Of each kind of datagram, when it is sent and what it says.
SentInState(d) ==
    /\ d.type = "DownloadGameStateRequest" => state = "JoiningRequestingState"
    /\ d.type = "BlobStream" => state = "JoiningDownloadingState"
    /\ d.type = "JoinGameRequest" => state = "Synced" /\ d.nonce = joinGameRequest
    /\ d.type = "GameStep" => state = "Synced" /\ d.next = outSteps.write

LEMMA SentDatagrams ==
    ASSUME SessionInv, NEW out, UpdateSends(out)
    PROVE  /\ out \in Seq(ClientMessages)
           /\ \A d \in UnderWay(out) : SentInState(d)
           /\ \A a, b : Precedes(out, a, b) => a.type = "GameStep"
           /\ pc = "receive" /\ Active /\ pc' = "realize"
           /\ state' = state \/ (state = "Synced" /\ state' = "Disconnected")
           /\ UNCHANGED <<realizeVars, remoteConnectionId, joinVars, stateVars, stepVars>>
<1>1. /\ pc = "receive" /\ pc' = "realize"
      /\ state' = state \/ (state = "Synced" /\ state' = "Disconnected")
      /\ UNCHANGED <<realizeVars, remoteConnectionId, joinVars, stateVars, stepVars>>
  BY DEF UpdateSends, UpdateQualityAndState, CheckIfDisconnectIsNeeded
<1>2. Active
  BY <1>1 DEF SessionInv, RealizerInStep, ClientInv, Active
<1>3. \/ out = <<>>
      \/ out = <<ConnectRequest>>
      \/ state = "JoiningRequestingState" /\ out = <<DownloadGameStateRequest>>
      \/ state = "JoiningDownloadingState" /\ out = <<BlobStreamCommand>>
      \/ state = "Synced" /\ out = StepsDatagrams \o <<JoinGameRequest>>
      \/ state = "Synced" /\ out = StepsDatagrams
  BY <1>1 DEF UpdateSends, SendPackets
<1>4. \/ out = <<>>
      \/ out = <<ConnectRequest>>
      \/ state = "JoiningRequestingState" /\ out = <<DownloadGameStateRequest>>
      \/ state = "JoiningDownloadingState" /\ out = <<BlobStreamCommand>>
      \/ state = "Synced" /\ out \in {<<GameStep>>, <<JoinGameRequest>>, <<GameStep, JoinGameRequest>>}
  BY <1>3, ShortConcatenations, Zenon DEF StepsDatagrams
<1>5. /\ ConnectRequest \in ClientMessages /\ DownloadGameStateRequest \in ClientMessages
      /\ BlobStreamCommand \in ClientMessages /\ GameStep \in ClientMessages
  BY DEF ClientMessages, ConnectRequest, DownloadGameStateRequest, BlobStreamCommand, GameStep,
         SessionInv, SessionTypes, ClientInv, ClientTypeOK
<1>6. state = "Synced" => JoinGameRequest \in ClientMessages
  BY DEF ClientMessages, JoinGameRequest, SessionInv, JoinHasNonce
<1>7. out \in Seq(ClientMessages)
  BY <1>4, <1>5, <1>6, ShortSequences, Zenon
<1>8. \A d \in UnderWay(out) : SentInState(d)
  BY <1>4, ShortQueue
  DEF SentInState, ConnectRequest, DownloadGameStateRequest, BlobStreamCommand, JoinGameRequest, GameStep
<1>9. \A a, b : Precedes(out, a, b) => a.type = "GameStep"
  BY <1>4, ShortQueue DEF GameStep
<1> QED BY <1>1, <1>2, <1>7, <1>8, <1>9

\* A request for the game state is sent while nothing of a join is under
\* way, a join request carries the largest nonce so far.
LEMMA SendsKeepsSessionInv ==
    ASSUME SessionInv, ClientInv', Sends
    PROVE  SessionInv'
<1>1. PICK out :
        /\ UpdateSends(out)
        /\ toServer' = Enqueue(toServer, out)
        /\ requested' = requested \cup {out[i].nonce : i \in {j \in DOMAIN out : out[j].type = "JoinGameRequest"}}
  BY DEF Sends
<1>2. UNCHANGED <<toClient, connection, serverVars>>
  BY DEF Sends
<1>3. /\ out \in Seq(ClientMessages)
      /\ \A d \in UnderWay(out) : SentInState(d)
      /\ \A a, b : Precedes(out, a, b) => a.type = "GameStep"
      /\ pc = "receive" /\ Active /\ pc' = "realize"
      /\ state' = state \/ (state = "Synced" /\ state' = "Disconnected")
      /\ UNCHANGED <<realizeVars, remoteConnectionId, joinVars, stateVars, stepVars>>
  BY <1>1, SentDatagrams
<1>4. /\ toServer' \in Seq(ClientMessages) /\ Len(toServer') <= QueueCap
      /\ UnderWay(toServer') \subseteq UnderWay(toServer) \cup UnderWay(out)
      /\ \A a, b : Precedes(toServer', a, b) =>
                      \/ Precedes(toServer, a, b)
                      \/ a \in UnderWay(toServer) /\ b \in UnderWay(out)
                      \/ Precedes(out, a, b)
  BY <1>1, <1>3, EnqueueQueue DEF SessionInv, SessionTypes
<1>5. requested' \subseteq Nonces
  <2>1. \A i \in DOMAIN out : out[i] \in ClientMessages
    BY <1>3
  <2> QED BY <1>1, <2>1, RequestFields DEF SessionInv, SessionTypes
<1>6. SessionTypes' /\ TransferOfConnection' /\ AnswersAreServers' /\ RealizerInStep' /\ JoinHasNonce'
  BY <1>2, <1>3, <1>4, <1>5
  DEF SessionInv, SessionTypes, TransferOfConnection, AnswersAreServers, FromServer, RealizerInStep,
      RealizerSyncedIsSynced, JoinHasNonce, Active
<1>7. Phases'
  BY <1>2, <1>3, <1>4 DEF SessionInv, Phases, Active, SentInState
<1>8. JoinAfterDownload'
  <2>1. ASSUME NEW b \in UnderWay(out), b.type = "DownloadGameStateRequest"
        PROVE  /\ \A a \in UnderWay(toServer) : a.type # "JoinGameRequest"
               /\ \A a \in UnderWay(toClient) : a.type # "JoinGameResponse"
    BY <1>3, <2>1 DEF SentInState, SessionInv, Phases
  <2>2. ASSUME NEW a \in UnderWay(toServer'), NEW b \in UnderWay(toServer'),
               Precedes(toServer', a, b), a.type = "JoinGameRequest"
        PROVE  b.type # "DownloadGameStateRequest"
    <3>1. Precedes(toServer, a, b) => a \in UnderWay(toServer) /\ b \in UnderWay(toServer)
      BY DEF Precedes, UnderWay
    <3> QED BY <1>3, <1>4, <2>1, <2>2, <3>1 DEF SessionInv, JoinAfterDownload
  <2>3. ASSUME NEW a \in UnderWay(toClient'), NEW b \in UnderWay(toServer'), a.type = "JoinGameResponse"
        PROVE  b.type # "DownloadGameStateRequest"
    BY <1>2, <1>4, <2>1, <2>3 DEF SessionInv, JoinAfterDownload
  <2> QED BY <1>2, <2>2, <2>3 DEF SessionInv, JoinAfterDownload
<1>9. SyncedChannel' /\ GameStateHeld' /\ SeatsAreServers'
  BY SameParticipants, <1>2, <1>3, <1>4
  DEF SessionInv, SyncedChannel, SentInState, GameStateHeld, NoGameStateLeak, SeatsAreServers, Seated
<1>10. NoncesInOrder'
  <2>1. ASSUME NEW b \in UnderWay(out), b.type = "JoinGameRequest"
        PROVE  /\ \A a \in UnderWay(toServer) : a.type = "JoinGameRequest" => a.nonce <= b.nonce
               /\ \A a \in UnderWay(toClient) : IsAnswer(a) => AnswerNonce(a) <= b.nonce
    BY <1>3, <2>1 DEF SentInState, SessionInv, NoncesAreJoins
  <2>2. ASSUME NEW a \in UnderWay(toServer'), NEW b \in UnderWay(toServer'),
               Precedes(toServer', a, b), a.type = "JoinGameRequest", b.type = "JoinGameRequest"
        PROVE  a.nonce <= b.nonce
    <3>1. Precedes(toServer, a, b) => a \in UnderWay(toServer) /\ b \in UnderWay(toServer)
      BY DEF Precedes, UnderWay
    <3> QED BY <1>3, <1>4, <2>1, <2>2, <3>1 DEF SessionInv, NoncesInOrder
  <2>3. ASSUME NEW a \in UnderWay(toClient'), NEW b \in UnderWay(toServer'),
               IsAnswer(a), b.type = "JoinGameRequest"
        PROVE  AnswerNonce(a) <= b.nonce
    BY <1>2, <1>4, <2>1, <2>3 DEF SessionInv, NoncesInOrder
  <2> QED BY <1>2, <2>2, <2>3 DEF SessionInv, NoncesInOrder
<1>11. NoncesAreJoins'
  BY SameParticipants, <1>2, <1>3, <1>4
  DEF SessionInv, NoncesAreJoins, SentInState, Active, ClientInv, ClientTypeOK
<1> QED BY <1>6, <1>7, <1>8, <1>9, <1>10, <1>11 DEF SessionInv

-----------------------------------------------------------------------------
(* nimbleClientFeed.                                                       *)

\* What a datagram that is delivered leaves behind it.
LEMMA DeliveredQueue ==
    ASSUME SessionInv, NEW k \in DOMAIN toClient, Receiving, toClient' = After(toClient, k),
           UNCHANGED <<toServer, connection, serverVars, requested>>
    PROVE  /\ toClient[k] \in UnderWay(toClient) /\ toClient[k] \in ServerMessages /\ FromServer(toClient[k])
           /\ UnderWay(toClient') \subseteq UnderWay(toClient)
           /\ \A b \in UnderWay(toClient') : Precedes(toClient, toClient[k], b)
           /\ toClient' \in Seq(ServerMessages) /\ Len(toClient') <= QueueCap
           /\ Active
           /\ TransferOfConnection' /\ AnswersAreServers' /\ JoinAfterDownload' /\ NoncesInOrder'
<1>1. /\ toClient[k] \in UnderWay(toClient) /\ toClient[k] \in ServerMessages
      /\ UnderWay(toClient') \subseteq UnderWay(toClient)
      /\ \A a, b : Precedes(toClient', a, b) => Precedes(toClient, a, b)
      /\ \A b \in UnderWay(toClient') : Precedes(toClient, toClient[k], b)
      /\ toClient' \in Seq(ServerMessages) /\ Len(toClient') <= Len(toClient)
  BY AfterQueue DEF SessionInv, SessionTypes
<1>2. Len(toClient') <= QueueCap
  BY <1>1, SessionAssumption DEF SessionInv, SessionTypes
<1>3. FromServer(toClient[k])
  BY <1>1 DEF SessionInv, AnswersAreServers
<1>4. Active
  BY DEF Receiving, SessionInv, RealizerInStep, Active
<1>5. TransferOfConnection' /\ AnswersAreServers'
  BY <1>1 DEF SessionInv, TransferOfConnection, AnswersAreServers, FromServer
<1>6. JoinAfterDownload'
  BY <1>1 DEF SessionInv, JoinAfterDownload
<1>7. NoncesInOrder'
  BY <1>1 DEF SessionInv, NoncesInOrder
<1> QED BY <1>1, <1>2, <1>3, <1>4, <1>5, <1>6, <1>7

\* A handler that neither moves the client on nor joins.
LEMMA QuietDeliveryKeepsInv ==
    ASSUME SessionInv, ClientInv', NEW k \in DOMAIN toClient, Receiving, toClient' = After(toClient, k),
           UNCHANGED <<toServer, connection, serverVars, requested>>,
           UNCHANGED <<state, realizeVars, joinGameRequest, LocalParticipants, joinStateChannel, joinStateId,
                       gameStateStepId, gameState, allocations>>,
           outSteps'.write = outSteps.write,
           joinParticipantPhase' \in {joinParticipantPhase, "OutOfParticipantSlots"}
    PROVE  SessionInv'
<1>1. /\ UnderWay(toClient') \subseteq UnderWay(toClient)
      /\ toClient' \in Seq(ServerMessages) /\ Len(toClient') <= QueueCap
      /\ Active
      /\ TransferOfConnection' /\ AnswersAreServers' /\ JoinAfterDownload' /\ NoncesInOrder'
  BY DeliveredQueue
<1>2. SessionTypes'
  BY <1>1 DEF SessionInv, SessionTypes
<1>3. RealizerInStep' /\ JoinHasNonce'
  BY <1>1 DEF SessionInv, RealizerInStep, RealizerSyncedIsSynced, JoinHasNonce, Active
<1>4. Phases' /\ SyncedChannel'
  BY <1>1 DEF SessionInv, Phases, SyncedChannel, Active
<1>5. GameStateHeld' /\ SeatsAreServers'
  BY DEF SessionInv, GameStateHeld, NoGameStateLeak, SeatsAreServers, Seated
<1>6. NoncesAreJoins'
  BY <1>1 DEF SessionInv, NoncesAreJoins, Active
<1> QED BY <1>1, <1>2, <1>3, <1>4, <1>5, <1>6 DEF SessionInv

LEMMA ConnectResponseDelivered ==
    ASSUME SessionInv, ClientInv', NEW k \in DOMAIN toClient, toClient' = After(toClient, k),
           UNCHANGED <<toServer, connection, serverVars, requested>>, OnConnectResponse(toClient[k])
    PROVE  SessionInv'
<1>1. /\ Receiving /\ UNCHANGED <<pc, realizeVars, joinVars, stateVars, stepVars>>
      /\ state' = state \/ (state = "RequestingConnect" /\ state' = "Connected")
  BY DEF OnConnectResponse, Fed
<1>2. CASE state' = state
  BY SameParticipants, <1>1, <1>2, QuietDeliveryKeepsInv
<1>3. CASE state = "RequestingConnect" /\ state' = "Connected"
  <2>1. /\ UnderWay(toClient') \subseteq UnderWay(toClient)
        /\ toClient' \in Seq(ServerMessages) /\ Len(toClient') <= QueueCap
        /\ Active
        /\ TransferOfConnection' /\ AnswersAreServers' /\ JoinAfterDownload' /\ NoncesInOrder'
    BY <1>1, DeliveredQueue
  <2>2. SessionTypes'
    BY <1>1, <2>1 DEF SessionInv, SessionTypes
  <2> QED
    BY SameParticipants, <1>1, <1>3, <2>1, <2>2
    DEF SessionInv, RealizerInStep, RealizerSyncedIsSynced, JoinHasNonce, Active, Phases, SyncedChannel,
        GameStateHeld, NoGameStateLeak, SeatsAreServers, Seated, NoncesAreJoins
<1> QED BY <1>1, <1>2, <1>3

\* A synced client has the channel of the transfer, or no response comes any
\* more: the download starts from one of the two states before only.
LEMMA ResponseDelivered ==
    ASSUME SessionInv, ClientInv', NEW k \in DOMAIN toClient, toClient' = After(toClient, k),
           UNCHANGED <<toServer, connection, serverVars, requested>>,
           OnDownloadGameStateResponse(toClient[k])
    PROVE  SessionInv'
<1> DEFINE m == toClient[k]
<1>1. /\ Receiving /\ m.type = "GameStateResponse"
      /\ UNCHANGED <<pc, realizeVars, joinVars, blob, gameState, allocations, pending, authoritative>>
  BY DEF OnDownloadGameStateResponse, DownloadStarts, Fed
<1>2. CASE UNCHANGED <<joinStateChannel, gameStateStepId, joinStateId, outSteps, state, waitTime>>
  BY SameParticipants, <1>1, <1>2, QuietDeliveryKeepsInv
<1>3. CASE /\ m.channel # joinStateChannel
           /\ joinStateChannel' = m.channel /\ gameStateStepId' = m.stateId /\ joinStateId' = m.stateId
           /\ outSteps' = EmptySteps(m.stateId) /\ state' = "JoiningDownloadingState"
  <2>1. /\ m \in UnderWay(toClient) /\ m \in ServerMessages /\ FromServer(m)
        /\ UnderWay(toClient') \subseteq UnderWay(toClient)
        /\ toClient' \in Seq(ServerMessages) /\ Len(toClient') <= QueueCap
        /\ Active
        /\ TransferOfConnection' /\ AnswersAreServers' /\ JoinAfterDownload' /\ NoncesInOrder'
    BY <1>1, DeliveredQueue
  <2>2. transfer # NoTransfer /\ m.channel = transfer.channel /\ m.stateId \in StepIds
    BY <1>1, <2>1 DEF FromServer, ServerMessages
  <2> HIDE DEF m
  <2>3. state \in {"JoiningRequestingState", "JoiningDownloadingState"}
    BY <1>1, <1>3, <2>1, <2>2
    DEF SessionInv, ClientInv, ClientTypeOK, ClientStates, Phases, SyncedChannel, Active
  <2>4. SessionTypes'
    BY <1>1, <1>3, <2>1, <2>2, ClientAssumption DEF SessionInv, SessionTypes, EmptySteps
  <2>5. RealizerInStep' /\ JoinHasNonce'
    BY <1>1, <1>3, <2>1, <2>3 DEF SessionInv, RealizerInStep, RealizerSyncedIsSynced, JoinHasNonce, Active
  <2> QED
    BY SameParticipants, <1>1, <1>3, <2>1, <2>2, <2>3, <2>4, <2>5
    DEF SessionInv, Active, Phases, SyncedChannel, GameStateHeld, NoGameStateLeak, SeatsAreServers, Seated,
        NoncesAreJoins
<1> QED BY <1>2, <1>3 DEF OnDownloadGameStateResponse, DownloadStarts, AnswersDownloadRequest

\* The game state of a client that is not synced yet is the only one it has.
LEMMA PartDelivered ==
    ASSUME SessionInv, ClientInv', NEW k \in DOMAIN toClient, toClient' = After(toClient, k),
           UNCHANGED <<toServer, connection, serverVars, requested>>, OnDownloadGameStatePart(toClient[k])
    PROVE  SessionInv'
<1> DEFINE m == toClient[k]
<1>1. /\ Receiving /\ m.type = "BlobPart"
      /\ UNCHANGED <<realizeVars, joinVars, joinStateChannel, joinStateId>>
  BY DEF OnDownloadGameStatePart
<1>2. CASE KeepGameState
  BY SameParticipants, <1>1, <1>2, QuietDeliveryKeepsInv DEF KeepGameState
<1>3. CASE /\ m.channel = joinStateChannel /\ state # "Synced"
           /\ blob' = BlobReceive(blob, m) /\ SetInitialGameState(blob', joinStateId, joinStateId)
  <2>1. /\ m \in UnderWay(toClient) /\ m \in ServerMessages /\ FromServer(m)
        /\ UnderWay(toClient') \subseteq UnderWay(toClient)
        /\ toClient' \in Seq(ServerMessages) /\ Len(toClient') <= QueueCap
        /\ Active
        /\ TransferOfConnection' /\ AnswersAreServers' /\ JoinAfterDownload' /\ NoncesInOrder'
    BY <1>1, DeliveredQueue
  <2>2. transfer # NoTransfer /\ m.channel = transfer.channel /\ m.content \in Nat
    BY <1>1, <2>1, MessageFields DEF FromServer
  <2>3. blob'.content = m.content
    BY <1>3 DEF BlobReceive
  <2> HIDE DEF m
  <2>4. /\ state \in {"JoiningRequestingState", "JoiningDownloadingState"} /\ state' = "Synced"
        /\ gameStateStepId' = joinStateId /\ gameState' = m.content /\ allocations' = allocations + 1
        /\ outSteps' = EmptySteps(joinStateId)
    BY <1>1, <1>3, <2>1, <2>2, <2>3
    DEF SessionInv, ClientInv, ClientTypeOK, ClientStates, Phases, Active, SetInitialGameState, GameStateInit
  <2>5. SessionTypes'
    BY <1>1, <2>1, <2>4, ClientAssumption DEF SessionInv, SessionTypes, EmptySteps
  <2>6. RealizerInStep' /\ JoinHasNonce'
    BY <1>1, <2>1, <2>4 DEF SessionInv, RealizerInStep, RealizerSyncedIsSynced, JoinHasNonce, Active
  <2>7. GameStateHeld'
    BY <2>2, <2>4 DEF SessionInv, GameStateHeld, NoGameStateLeak, NoGameState
  <2>8. Phases' /\ SyncedChannel' /\ SeatsAreServers'
    BY SameParticipants, <1>1, <1>3, <2>1, <2>2, <2>4
    DEF SessionInv, Active, Phases, SyncedChannel, SeatsAreServers, Seated
  <2>9. NoncesAreJoins'
    BY <1>1, <2>1, <2>4 DEF SessionInv, Active, Phases, SeatsAreServers, NoncesAreJoins, IsAnswer
  <2> QED BY <2>1, <2>5, <2>6, <2>7, <2>8, <2>9 DEF SessionInv
<1> QED BY <1>2, <1>3 DEF OnDownloadGameStatePart, TrySetInitialGameState

\* Nothing of the download follows the answer to a join, and no answer to an
\* older join does.
LEMMA JoinResponseDelivered ==
    ASSUME SessionInv, ClientInv', NEW k \in DOMAIN toClient, toClient' = After(toClient, k),
           UNCHANGED <<toServer, connection, serverVars, requested>>, OnJoinGameResponse(toClient[k])
    PROVE  SessionInv'
<1> DEFINE m == toClient[k]
<1>1. /\ Receiving /\ m.type = "JoinGameResponse"
      /\ UNCHANGED <<pc, realizeVars, state, joinGameRequest, joinStateId, blob, gameStateStepId, gameState,
                     allocations, stepVars>>
  BY DEF OnJoinGameResponse, Joined, Fed
<1>2. CASE UNCHANGED <<LocalParticipants, joinParticipantPhase, waitTime, joinStateChannel>>
  BY <1>1, <1>2, QuietDeliveryKeepsInv
<1>3. CASE /\ LocalParticipants' = m.participants /\ joinParticipantPhase' = "JoinedParticipant"
           /\ joinStateChannel' = 0
  <2>1. /\ m \in UnderWay(toClient) /\ m \in ServerMessages /\ FromServer(m)
        /\ UnderWay(toClient') \subseteq UnderWay(toClient)
        /\ \A b \in UnderWay(toClient') : Precedes(toClient, m, b)
        /\ toClient' \in Seq(ServerMessages) /\ Len(toClient') <= QueueCap
        /\ Active
        /\ TransferOfConnection' /\ AnswersAreServers' /\ JoinAfterDownload' /\ NoncesInOrder'
    BY <1>1, DeliveredQueue
  <2> HIDE DEF m
  <2>2. state = "Synced"
    BY <1>1, <2>1 DEF SessionInv, Phases
  <2>3. Seated'
    BY <1>1, <1>3, <2>1 DEF FromServer, Seated
  <2>4. SessionTypes' /\ RealizerInStep' /\ JoinHasNonce'
    BY <1>1, <2>1
    DEF SessionInv, SessionTypes, RealizerInStep, RealizerSyncedIsSynced, JoinHasNonce, Active
  <2>5. Phases' /\ GameStateHeld' /\ SeatsAreServers'
    BY <1>1, <2>1, <2>2, <2>3
    DEF SessionInv, Phases, Active, GameStateHeld, NoGameStateLeak, SeatsAreServers
  <2>6. SyncedChannel'
    <3>1. \A b \in UnderWay(toClient') : b.type # "GameStateResponse"
      BY <1>1, <2>1 DEF SessionInv, JoinAfterDownload
    <3>2. \A b \in UnderWay(toServer) : b.type # "DownloadGameStateRequest"
      BY <1>1, <2>1 DEF SessionInv, JoinAfterDownload
    <3> QED BY <1>3, <3>1, <3>2 DEF SyncedChannel
  <2>7. NoncesAreJoins'
    <3>1. AnswerNonce(m) = NonceOf(LocalParticipants') /\ IsAnswer(m)
      BY <1>1, <1>3 DEF AnswerNonce, IsAnswer
    <3>2. AnswerNonce(m) <= joinGameRequest
      BY <2>1, <2>2, <3>1 DEF SessionInv, NoncesAreJoins
    <3>3. \A b \in UnderWay(toServer) : b.type = "JoinGameRequest" => AnswerNonce(m) <= b.nonce
      BY <2>1, <3>1 DEF SessionInv, NoncesInOrder
    <3>4. \A b \in UnderWay(toClient') : IsAnswer(b) => AnswerNonce(m) <= AnswerNonce(b)
      BY <2>1, <3>1 DEF SessionInv, NoncesInOrder
    <3>5. NonceOf(LocalParticipants') = AnswerNonce(m)
      BY <3>1
    <3> QED
      BY <1>1, <1>3, <2>1, <2>2, <3>2, <3>3, <3>4, <3>5 DEF SessionInv, NoncesAreJoins
  <2> QED BY <2>1, <2>4, <2>5, <2>6, <2>7 DEF SessionInv
<1>4. CASE joinParticipantPhase = "JoiningParticipant"
  <2>1. m.participants \in Participants
    BY <1>1, AfterQueue DEF SessionInv, SessionTypes, ServerMessages
  <2>2. m.participants \in Seq(ParticipantEntries) /\ Len(m.participants) <= MaxLocalUsers
    BY <2>1, ClientAssumption
  <2> HIDE DEF m
  <2>3. /\ localParticipantCount' = Len(m.participants)
        /\ \A i \in 1..Len(m.participants) : localParticipantLookup'[i] = m.participants[i]
    BY <1>4, <2>2, ClientAssumption DEF OnJoinGameResponse, Joined, m
  <2>4. LocalParticipants' = m.participants
    BY <2>2, <2>3 DEF LocalParticipants
  <2> QED BY <1>3, <1>4, <2>4 DEF OnJoinGameResponse, Joined
<1>5. CASE joinParticipantPhase # "JoiningParticipant"
  BY <1>2, <1>5, SameParticipants DEF OnJoinGameResponse, Joined
<1> QED BY <1>4, <1>5

LEMMA OtherAnswersDelivered ==
    ASSUME SessionInv, ClientInv', NEW k \in DOMAIN toClient, toClient' = After(toClient, k),
           UNCHANGED <<toServer, connection, serverVars, requested>>,
           \/ OnJoinGameParticipantOutOfSpaceResponse(toClient[k])
           \/ OnGameStepResponse(toClient[k])
    PROVE  SessionInv'
<1>1. /\ Receiving
      /\ UNCHANGED <<state, realizeVars, joinGameRequest, LocalParticipants, stateVars>>
      /\ joinParticipantPhase' \in {joinParticipantPhase, "OutOfParticipantSlots"}
  BY SameParticipants DEF OnJoinGameParticipantOutOfSpaceResponse, OnGameStepResponse
<1>2. outSteps'.write = outSteps.write
  <2>1. CASE OnJoinGameParticipantOutOfSpaceResponse(toClient[k])
    BY <2>1 DEF OnJoinGameParticipantOutOfSpaceResponse
  <2>2. CASE OnGameStepResponse(toClient[k])
    BY <2>2 DEF OnGameStepResponse, DiscardUpTo, SessionInv, ClientInv, ClientTypeOK
  <2> QED BY <2>1, <2>2
<1> QED BY <1>1, <1>2, QuietDeliveryKeepsInv

LEMMA DeliverKeepsSessionInv ==
    ASSUME SessionInv, ClientInv', NEW kind \in ReplyKinds, Deliver(kind)
    PROVE  SessionInv'
<1>1. PICK k \in DOMAIN toClient : Feed(toClient[k]) /\ toClient' = After(toClient, k)
  BY DEF Deliver
<1>2. UNCHANGED <<toServer, connection, serverVars, requested>>
  BY DEF Deliver
<1> QED
  BY <1>1, <1>2, ConnectResponseDelivered, ResponseDelivered, PartDelivered, JoinResponseDelivered,
     OtherAnswersDelivered DEF Feed

-----------------------------------------------------------------------------
(* The server.                                                             *)

\* What a request that the server takes leaves behind it.
LEMMA HandledQueue ==
    ASSUME SessionInv, NEW k \in DOMAIN toServer, toServer' = After(toServer, k)
    PROVE  /\ toServer[k] \in UnderWay(toServer) /\ toServer[k] \in ClientMessages
           /\ UnderWay(toServer') \subseteq UnderWay(toServer)
           /\ \A a, b : Precedes(toServer', a, b) => Precedes(toServer, a, b)
           /\ \A b \in UnderWay(toServer') : Precedes(toServer, toServer[k], b)
           /\ toServer' \in Seq(ClientMessages) /\ Len(toServer') <= QueueCap
<1>1. /\ toServer[k] \in UnderWay(toServer) /\ toServer[k] \in ClientMessages
      /\ UnderWay(toServer') \subseteq UnderWay(toServer)
      /\ \A a, b : Precedes(toServer', a, b) => Precedes(toServer, a, b)
      /\ \A b \in UnderWay(toServer') : Precedes(toServer, toServer[k], b)
      /\ toServer' \in Seq(ClientMessages) /\ Len(toServer') <= Len(toServer)
  BY AfterQueue DEF SessionInv, SessionTypes
<1>2. Len(toServer') <= QueueCap
  BY <1>1, SessionAssumption DEF SessionInv, SessionTypes
<1> QED BY <1>1, <1>2

LEMMA ReplyQueue ==
    ASSUME SessionInv, NEW d \in ServerMessages, Reply(<<d>>)
    PROVE  /\ toClient' \in Seq(ServerMessages) /\ Len(toClient') <= QueueCap
           /\ UnderWay(toClient') \subseteq UnderWay(toClient) \cup {d}
           /\ \A a, b : Precedes(toClient', a, b) =>
                           Precedes(toClient, a, b) \/ (a \in UnderWay(toClient) /\ b = d)
<1>1. <<d>> \in Seq(ServerMessages) /\ toClient \in Seq(ServerMessages) /\ toClient' = Enqueue(toClient, <<d>>)
  BY DEF Reply, SessionInv, SessionTypes
<1>2. UnderWay(<<d>>) = {d} /\ \A a, b : ~Precedes(<<d>>, a, b)
  BY ShortQueue
<1>3. /\ Enqueue(toClient, <<d>>) \in Seq(ServerMessages) /\ Len(Enqueue(toClient, <<d>>)) <= QueueCap
      /\ UnderWay(Enqueue(toClient, <<d>>)) \subseteq UnderWay(toClient) \cup UnderWay(<<d>>)
      /\ \A a, b : Precedes(Enqueue(toClient, <<d>>), a, b) =>
                           \/ Precedes(toClient, a, b)
                           \/ a \in UnderWay(toClient) /\ b \in UnderWay(<<d>>)
                           \/ Precedes(<<d>>, a, b)
  BY <1>1, EnqueueQueue, Zenon
<1> QED BY <1>1, <1>2, <1>3

\* A datagram of neither the download nor a join, to a client that may get it.
LEMMA QuietReplyKeepsInv ==
    ASSUME SessionInv, ClientInv', SessionTypes', NEW d,
           UNCHANGED <<clientVars, connection, transfer, answers, serverStep>>,
           UnderWay(toServer') \subseteq UnderWay(toServer),
           \A a, b : Precedes(toServer', a, b) => Precedes(toServer, a, b),
           UnderWay(toClient') \subseteq UnderWay(toClient) \cup {d},
           \A a, b : Precedes(toClient', a, b) =>
                        Precedes(toClient, a, b) \/ (a \in UnderWay(toClient) /\ b = d),
           d.type \in {"ConnectResponse", "BlobPart", "GameStepResponse"}, FromServer(d),
           d.type = "GameStepResponse" => state = "Synced" \/ ~Active
    PROVE  SessionInv'
<1> USE DEF clientVars
<1>1. RealizerInStep' /\ JoinHasNonce' /\ TransferOfConnection' /\ GameStateHeld' /\ SeatsAreServers'
  BY SameParticipants
  DEF SessionInv, RealizerInStep, RealizerSyncedIsSynced, JoinHasNonce, Active, TransferOfConnection,
         GameStateHeld, NoGameStateLeak, SeatsAreServers, Seated
<1>2. AnswersAreServers'
  BY DEF SessionInv, AnswersAreServers, FromServer
<1>3. Phases' /\ SyncedChannel'
  BY DEF SessionInv, Phases, Active, SyncedChannel
<1>4. JoinAfterDownload'
  BY DEF SessionInv, JoinAfterDownload, Precedes, UnderWay
<1>5. NoncesInOrder'
  BY DEF SessionInv, NoncesInOrder, IsAnswer, Precedes, UnderWay
<1>6. NoncesAreJoins'
  BY SameParticipants DEF SessionInv, NoncesAreJoins, Active, IsAnswer
<1> QED BY <1>1, <1>2, <1>3, <1>4, <1>5, <1>6 DEF SessionInv

LEMMA TransferTypes ==
    ASSUME SessionInv
    PROVE  /\ connection \in ConnectionIds /\ connection \in TransferIds
           /\ ChannelOf[connection] \in Channels /\ ChannelOf[connection] # 0
           /\ serverStep \in StepIds
           /\ transfer # NoTransfer => transfer.channel \in Channels /\ transfer.stateId \in StepIds
<1>1. connection \in 1..MaxConnections /\ serverStep \in 0..MaxStep /\ TransferOfConnection
  BY DEF SessionInv, SessionTypes
<1>2. connection \in ConnectionIds /\ connection \in TransferIds /\ serverStep \in StepIds
  BY <1>1, SessionAssumption
<1>3. ChannelOf[connection] \in Channels
  BY <1>1, SessionAssumption
<1>4. ChannelOf[connection] # 0
  BY <1>3, ClientAssumption
<1>5. transfer # NoTransfer => transfer.channel \in Channels /\ transfer.stateId \in StepIds
  <2>1. MaxStep \in Nat /\ 0..MaxStep \subseteq StepIds
    BY SessionAssumption
  <2>2. 0..serverStep \subseteq 0..MaxStep
    BY <1>1, <2>1
  <2> QED BY <1>1, <1>3, <2>1, <2>2 DEF TransferOfConnection
<1> QED BY <1>2, <1>3, <1>4, <1>5

LEMMA ConnectRequestHandled ==
    ASSUME SessionInv, ClientInv', NEW k \in DOMAIN toServer, toServer' = After(toServer, k),
           UNCHANGED <<clientVars, connection, requested>>, ServerOnConnectRequest(toServer[k])
    PROVE  SessionInv'
<1> DEFINE d == ConnectResponse(connection)
<1>1. d \in ServerMessages /\ d.type = "ConnectResponse"
  BY TransferTypes DEF ConnectResponse, ServerMessages
<1>2. FromServer(d) /\ UNCHANGED serverVars /\ Reply(<<d>>)
  BY <1>1 DEF ServerOnConnectRequest, FromServer
<1> HIDE DEF d
<1>3. /\ toClient' \in Seq(ServerMessages) /\ Len(toClient') <= QueueCap
      /\ UnderWay(toClient') \subseteq UnderWay(toClient) \cup {d}
      /\ \A a, b : Precedes(toClient', a, b) => Precedes(toClient, a, b) \/ (a \in UnderWay(toClient) /\ b = d)
  BY <1>1, <1>2, ReplyQueue
<1>4. SessionTypes'
  BY <1>2, <1>3, HandledQueue DEF SessionInv, SessionTypes, clientVars
<1> QED BY <1>1, <1>2, <1>3, <1>4, HandledQueue, QuietReplyKeepsInv

\* A chunk, asked for or not.
LEMMA ChunkSent ==
    ASSUME SessionInv, ClientInv', transfer # NoTransfer,
           NEW chunk \in Chunks, Reply(<<BlobPart(transfer.channel, connection, transfer.stateId, chunk, TRUE)>>),
           UNCHANGED <<clientVars, connection, requested, serverVars>>,
           toServer' \in Seq(ClientMessages), Len(toServer') <= QueueCap,
           UnderWay(toServer') \subseteq UnderWay(toServer),
           \A a, b : Precedes(toServer', a, b) => Precedes(toServer, a, b)
    PROVE  SessionInv'
<1> DEFINE d == BlobPart(transfer.channel, connection, transfer.stateId, chunk, TRUE)
<1>1. d \in ServerMessages /\ d.type = "BlobPart"
  BY TransferTypes DEF BlobPart, ServerMessages
<1>2. FromServer(d) /\ Reply(<<d>>)
  BY DEF FromServer, BlobPart
<1> HIDE DEF d
<1>3. /\ toClient' \in Seq(ServerMessages) /\ Len(toClient') <= QueueCap
      /\ UnderWay(toClient') \subseteq UnderWay(toClient) \cup {d}
      /\ \A a, b : Precedes(toClient', a, b) => Precedes(toClient, a, b) \/ (a \in UnderWay(toClient) /\ b = d)
  BY <1>1, <1>2, ReplyQueue
<1>4. SessionTypes'
  BY <1>2, <1>3 DEF SessionInv, SessionTypes, clientVars
<1> QED BY <1>1, <1>2, <1>3, <1>4, QuietReplyKeepsInv

LEMMA BlobStreamHandled ==
    ASSUME SessionInv, ClientInv', NEW k \in DOMAIN toServer, toServer' = After(toServer, k),
           UNCHANGED <<clientVars, connection, requested>>, ServerOnBlobStream(toServer[k])
    PROVE  SessionInv'
<1>1. UNCHANGED serverVars /\ transfer # NoTransfer
  BY HandledQueue DEF ServerOnBlobStream, SessionInv, Phases
<1>2. CASE \E chunk \in Chunks :
              Reply(<<BlobPart(transfer.channel, connection, transfer.stateId, chunk, TRUE)>>)
  BY <1>1, <1>2, HandledQueue, ChunkSent
<1>3. CASE UNCHANGED toClient
  <2> DEFINE d == ConnectResponse(connection)
  <2>1. d.type = "ConnectResponse" /\ FromServer(d)
    BY DEF ConnectResponse, FromServer
  <2> HIDE DEF d
  <2>2. SessionTypes'
    BY <1>1, <1>3, HandledQueue DEF SessionInv, SessionTypes, clientVars
  <2>3. /\ UnderWay(toClient') \subseteq UnderWay(toClient) \cup {d}
        /\ \A a, b : Precedes(toClient', a, b) => Precedes(toClient, a, b)
    BY <1>3
  <2> QED BY <1>1, <2>1, <2>2, <2>3, HandledQueue, QuietReplyKeepsInv
<1> QED BY <1>2, <1>3 DEF ServerOnBlobStream

\* The transfer is set up at most once on a connection: while there is none
\* nothing of it is under way.
LEMMA DownloadRequestHandled ==
    ASSUME SessionInv, ClientInv', NEW k \in DOMAIN toServer, toServer' = After(toServer, k),
           UNCHANGED <<clientVars, connection, requested>>, ServerOnDownloadRequest(toServer[k])
    PROVE  SessionInv'
<1> USE DEF clientVars
<1> DEFINE m == toServer[k]
<1>0. PICK d : d = GameStateResponse(m.clientRequestId, transfer'.stateId, transfer'.channel)
  OBVIOUS
<1>1. /\ m \in UnderWay(toServer) /\ m \in ClientMessages /\ m.type = "DownloadGameStateRequest"
      /\ UnderWay(toServer') \subseteq UnderWay(toServer)
      /\ \A a, b : Precedes(toServer', a, b) => Precedes(toServer, a, b)
      /\ toServer' \in Seq(ClientMessages) /\ Len(toServer') <= QueueCap
  BY HandledQueue DEF ServerOnDownloadRequest
<1>2. m.clientRequestId = 1
  BY <1>1, RequestFields DEF DownloadStateClientRequestId
<1>3. \/ /\ transfer = NoTransfer /\ transfer' = [channel |-> ChannelOf[connection], stateId |-> serverStep]
         /\ serverReceived' = (serverStep - 1) % StepModulus
      \/ transfer # NoTransfer /\ UNCHANGED <<transfer, serverReceived>>
  BY DEF ServerOnDownloadRequest
<1>4. UNCHANGED <<answers, serverStep>> /\ Reply(<<d>>)
  BY <1>0 DEF ServerOnDownloadRequest
<1>5. /\ transfer' # NoTransfer /\ transfer'.channel \in Channels /\ transfer'.stateId \in StepIds
      /\ transfer'.channel = ChannelOf[connection] /\ transfer'.stateId \in 0..serverStep
      /\ serverReceived' \in 0..(StepModulus - 1)
      /\ transfer' \in [channel : Channels \cup {0}, stateId : StepIds]
  BY <1>3, TransferTypes, ClientAssumption DEF SessionInv, SessionTypes, TransferOfConnection, NoTransfer
<1>6. /\ d.type = "GameStateResponse" /\ d.clientRequestId = 1
      /\ d.stateId = transfer'.stateId /\ d.channel = transfer'.channel
      /\ d \in ServerMessages
  BY <1>0, <1>2, <1>5 DEF GameStateResponse, ServerMessages
<1> HIDE DEF m
<1>7. /\ toClient' \in Seq(ServerMessages) /\ Len(toClient') <= QueueCap
      /\ UnderWay(toClient') \subseteq UnderWay(toClient) \cup {d}
      /\ \A a, b : Precedes(toClient', a, b) => Precedes(toClient, a, b) \/ (a \in UnderWay(toClient) /\ b = d)
  BY <1>4, <1>6, ReplyQueue
<1>8. SessionTypes' /\ TransferOfConnection'
  BY <1>1, <1>4, <1>5, <1>7 DEF SessionInv, SessionTypes, TransferOfConnection
<1>9. RealizerInStep' /\ JoinHasNonce' /\ GameStateHeld' /\ SeatsAreServers'
  BY SameParticipants, <1>4
  DEF SessionInv, RealizerInStep, RealizerSyncedIsSynced, JoinHasNonce, Active, GameStateHeld,
              NoGameStateLeak, SeatsAreServers, Seated
<1>10. AnswersAreServers'
  <2>1. ASSUME NEW a \in UnderWay(toClient) PROVE FromServer(a)'
    BY <1>3, <1>4 DEF SessionInv, AnswersAreServers, FromServer
  <2>2. FromServer(d)'
    BY <1>5, <1>6 DEF FromServer, DownloadStateClientRequestId
  <2> QED BY <1>7, <2>1, <2>2 DEF AnswersAreServers
<1>11. Phases'
  BY <1>1, <1>5, <1>6, <1>7 DEF SessionInv, Phases, Active
<1>12. JoinAfterDownload'
  <2>1. \A a \in UnderWay(toClient) : a.type # "JoinGameResponse"
    BY <1>1 DEF SessionInv, JoinAfterDownload
  <2> QED BY <1>1, <1>6, <1>7, <2>1 DEF SessionInv, JoinAfterDownload
<1>13. SyncedChannel'
  BY <1>1, <1>3 DEF SessionInv, Phases, SyncedChannel
<1>14. NoncesInOrder'
  <2>1. ASSUME NEW a \in UnderWay(toClient'), NEW b \in UnderWay(toClient'),
               Precedes(toClient', a, b), IsAnswer(a), IsAnswer(b)
        PROVE  AnswerNonce(a) <= AnswerNonce(b)
    <3>1. Precedes(toClient, a, b)
      BY <1>6, <1>7, <2>1 DEF IsAnswer
    <3>2. a \in UnderWay(toClient) /\ b \in UnderWay(toClient)
      BY <3>1 DEF Precedes, UnderWay
    <3> QED BY <2>1, <3>1, <3>2 DEF SessionInv, NoncesInOrder
  <2>2. ASSUME NEW a \in UnderWay(toClient'), NEW b \in UnderWay(toServer'),
               IsAnswer(a), b.type = "JoinGameRequest"
        PROVE  AnswerNonce(a) <= b.nonce
    BY <1>1, <1>6, <1>7, <2>2 DEF SessionInv, NoncesInOrder, IsAnswer
  <2> QED BY <1>1, <2>1, <2>2 DEF SessionInv, NoncesInOrder
<1>15. NoncesAreJoins'
  BY SameParticipants, <1>1, <1>6, <1>7 DEF SessionInv, NoncesAreJoins, Active, IsAnswer
<1> QED BY <1>8, <1>9, <1>10, <1>11, <1>12, <1>13, <1>14, <1>15 DEF SessionInv
\* A request is answered behind the answers to the earlier ones, and no
\* answer is taken back.
LEMMA JoinRequestHandled ==
    ASSUME SessionInv, ClientInv', NEW k \in DOMAIN toServer, toServer' = After(toServer, k),
           UNCHANGED <<clientVars, connection, requested>>, ServerOnJoinGame(toServer[k])
    PROVE  SessionInv'
<1> USE DEF clientVars
<1> DEFINE m == toServer[k]
<1>1. /\ m \in UnderWay(toServer) /\ m \in ClientMessages /\ m.type = "JoinGameRequest"
      /\ UnderWay(toServer') \subseteq UnderWay(toServer)
      /\ \A a, b : Precedes(toServer', a, b) => Precedes(toServer, a, b)
      /\ \A b \in UnderWay(toServer') : Precedes(toServer, m, b)
      /\ toServer' \in Seq(ClientMessages) /\ Len(toServer') <= QueueCap
  BY HandledQueue DEF ServerOnJoinGame
<1>2. m.nonce \in Nonces /\ m.nonce \in Nat /\ UNCHANGED <<transfer, serverStep, serverReceived>>
  BY <1>1, RequestFields, ClientAssumption DEF ServerOnJoinGame
<1>3. PICK answer \in {"Joined", "Full"} :
        /\ answers[m.nonce] \in {"None", answer}
        /\ answers' = [answers EXCEPT ![m.nonce] = answer]
        /\ Reply(<<IF answer = "Joined" THEN JoinGameResponse(ParticipantsFor[m.nonce])
                   ELSE OutOfSlotsResponse(m.nonce)>>)
  BY DEF ServerOnJoinGame
<1>4. PICK d : d = IF answer = "Joined" THEN JoinGameResponse(ParticipantsFor[m.nonce])
                   ELSE OutOfSlotsResponse(m.nonce)
  OBVIOUS
<1>5. /\ answers \in [Nonces -> {"None", "Joined", "Full"}] /\ answers'[m.nonce] = answer
      /\ answers' \in [Nonces -> {"None", "Joined", "Full"}]
      /\ \A n \in Nonces : answers[n] # "None" => answers'[n] = answers[n]
  BY <1>2, <1>3 DEF SessionInv, SessionTypes
<1>6. ParticipantsFor[m.nonce] \in Participants /\ NonceOf(ParticipantsFor[m.nonce]) = m.nonce
  <2>1. ParticipantsFor[m.nonce] \in Participants
    BY <1>2, SeatsAssumption
  <2>2. NonceOf(ParticipantsFor[m.nonce]) = m.nonce
    BY <1>2, SeatsOf
  <2> HIDE DEF m
  <2> QED BY <1>2, <2>1, <2>2
<1> HIDE DEF m
<1>7. /\ \/ /\ answer = "Joined" /\ d.type = "JoinGameResponse"
            /\ d.participants = ParticipantsFor[m.nonce] /\ d = JoinGameResponse(d.participants)
         \/ answer = "Full" /\ d.type = "OutOfSlots" /\ d.nonce = m.nonce /\ d = OutOfSlotsResponse(m.nonce)
      /\ IsAnswer(d) /\ AnswerNonce(d) = m.nonce
  BY <1>4, <1>6 DEF JoinGameResponse, OutOfSlotsResponse, IsAnswer, AnswerNonce
<1>8. d \in ServerMessages
  BY <1>2, <1>6, <1>7 DEF ServerMessages, JoinGameResponse, OutOfSlotsResponse
<1>9. /\ toClient' \in Seq(ServerMessages) /\ Len(toClient') <= QueueCap
      /\ UnderWay(toClient') \subseteq UnderWay(toClient) \cup {d}
      /\ \A a, b : Precedes(toClient', a, b) => Precedes(toClient, a, b) \/ (a \in UnderWay(toClient) /\ b = d)
  BY <1>3, <1>4, <1>8, ReplyQueue
<1>10. SessionTypes' /\ TransferOfConnection'
  BY <1>1, <1>2, <1>5, <1>9 DEF SessionInv, SessionTypes, TransferOfConnection
<1>11. RealizerInStep' /\ JoinHasNonce' /\ GameStateHeld'
  BY DEF SessionInv, RealizerInStep, RealizerSyncedIsSynced, JoinHasNonce, Active, GameStateHeld,
         NoGameStateLeak
<1>12. SeatsAreServers'
  <2>1. Seated => Seated'
    BY SameParticipants, <1>5 DEF Seated
  <2> QED BY SameParticipants, <2>1 DEF SessionInv, SeatsAreServers
<1>13. AnswersAreServers'
  <2>1. ASSUME NEW a \in UnderWay(toClient) PROVE FromServer(a)'
    <3>1. FromServer(a) /\ a \in ServerMessages
      BY NoncesAreNumbers DEF SessionInv, AnswersAreServers
    <3>2. a.type = "OutOfSlots" => a.nonce \in Nonces
      BY <3>1 DEF ServerMessages
    <3> QED BY <1>2, <1>5, <3>1, <3>2 DEF FromServer
  <2>2. FromServer(d)'
    BY <1>2, <1>5, <1>7 DEF FromServer
  <2> QED BY <1>9, <2>1, <2>2 DEF AnswersAreServers
<1>14. state = "Synced" \/ ~Active
  BY <1>1 DEF SessionInv, Phases
<1>15. Phases'
  BY <1>1, <1>2, <1>14 DEF SessionInv, Phases, Active
<1>16. JoinAfterDownload'
  <2>1. ASSUME NEW a \in UnderWay(toServer'), NEW b \in UnderWay(toServer'),
               Precedes(toServer', a, b), a.type = "JoinGameRequest"
        PROVE  b.type # "DownloadGameStateRequest"
    BY <1>1, <2>1 DEF SessionInv, JoinAfterDownload
  <2>2. ASSUME NEW a \in UnderWay(toClient'), NEW b \in UnderWay(toClient'),
               Precedes(toClient', a, b), a.type = "JoinGameResponse"
        PROVE  b.type # "GameStateResponse"
    <3>1. Precedes(toClient, a, b) => a \in UnderWay(toClient) /\ b \in UnderWay(toClient)
      BY DEF Precedes, UnderWay
    <3> QED BY <1>7, <1>9, <2>2, <3>1 DEF SessionInv, JoinAfterDownload
  <2>3. ASSUME NEW a \in UnderWay(toClient'), NEW b \in UnderWay(toServer'), a.type = "JoinGameResponse"
        PROVE  b.type # "DownloadGameStateRequest"
    BY <1>1, <1>9, <2>3 DEF SessionInv, JoinAfterDownload
  <2> QED BY <2>1, <2>2, <2>3 DEF JoinAfterDownload
<1>17. SyncedChannel'
  BY <1>1, <1>2, <1>7, <1>9 DEF SessionInv, SyncedChannel
<1>18. NoncesInOrder'
  <2>1. ASSUME NEW a \in UnderWay(toServer'), NEW b \in UnderWay(toServer'),
               Precedes(toServer', a, b), a.type = "JoinGameRequest", b.type = "JoinGameRequest"
        PROVE  a.nonce <= b.nonce
    BY <1>1, <2>1 DEF SessionInv, NoncesInOrder
  <2>2. ASSUME NEW a \in UnderWay(toClient'), NEW b \in UnderWay(toClient'),
               Precedes(toClient', a, b), IsAnswer(a), IsAnswer(b)
        PROVE  AnswerNonce(a) <= AnswerNonce(b)
    <3>1. CASE Precedes(toClient, a, b)
      <4>1. a \in UnderWay(toClient) /\ b \in UnderWay(toClient)
        BY <3>1 DEF Precedes, UnderWay
      <4> QED BY <2>2, <3>1, <4>1 DEF SessionInv, NoncesInOrder
    <3>2. CASE a \in UnderWay(toClient) /\ b = d
      BY <1>1, <1>7, <2>2, <3>2 DEF SessionInv, NoncesInOrder
    <3> QED BY <1>9, <2>2, <3>1, <3>2
  <2>3. ASSUME NEW a \in UnderWay(toClient'), NEW b \in UnderWay(toServer'),
               IsAnswer(a), b.type = "JoinGameRequest"
        PROVE  AnswerNonce(a) <= b.nonce
    BY <1>1, <1>7, <1>9, <2>3 DEF SessionInv, NoncesInOrder
  <2> QED BY <2>1, <2>2, <2>3 DEF NoncesInOrder
<1>19. NoncesAreJoins'
  <2>1. SUFFICES ASSUME Active, state = "Synced" PROVE NoncesAreJoins'
    BY DEF NoncesAreJoins, Active
  <2>2. AnswerNonce(d) <= joinGameRequest
    BY <1>1, <1>7, <2>1 DEF SessionInv, NoncesAreJoins
  <2>3. joinParticipantPhase = "JoinedParticipant" => NonceOf(LocalParticipants) <= AnswerNonce(d)
    BY <1>1, <1>7, <2>1 DEF SessionInv, NoncesAreJoins
  <2> QED BY SameParticipants, <1>1, <1>9, <2>1, <2>2, <2>3 DEF SessionInv, NoncesAreJoins
<1> QED BY <1>10, <1>11, <1>12, <1>13, <1>15, <1>16, <1>17, <1>18, <1>19 DEF SessionInv

\* Only a synced client has sent steps, and it is sent steps of the game.
LEMMA GameStepHandled ==
    ASSUME SessionInv, ClientInv', NEW k \in DOMAIN toServer, toServer' = After(toServer, k),
           UNCHANGED <<clientVars, connection, requested>>, ServerOnGameStep(toServer[k])
    PROVE  SessionInv'
<1> DEFINE m == toServer[k]
<1>1. /\ m \in UnderWay(toServer) /\ m \in ClientMessages /\ m.type = "GameStep"
      /\ UnderWay(toServer') \subseteq UnderWay(toServer)
      /\ \A a, b : Precedes(toServer', a, b) => Precedes(toServer, a, b)
      /\ toServer' \in Seq(ClientMessages) /\ Len(toServer') <= QueueCap
  BY HandledQueue DEF ServerOnGameStep
<1>2. m.expected \in Nat /\ m.first \in Nat /\ m.next \in 0..(StepModulus - 1)
  BY <1>1, RequestFields
<1>3. UNCHANGED <<transfer, answers, serverStep>>
  BY DEF ServerOnGameStep
<1>4. serverReceived' = IF (serverReceived + 1) % StepModulus \in m.first..(m.next - 1)
                        THEN m.next - 1 ELSE serverReceived
  BY DEF ServerOnGameStep
<1>5. PICK first \in m.expected..serverStep :
        Reply(<<GameStepResponse(serverReceived', {i \in first..(serverStep - 1) : i \notin m.have}, TRUE)>>)
  BY DEF ServerOnGameStep
<1>6. PICK d : d = GameStepResponse(serverReceived', {i \in first..(serverStep - 1) : i \notin m.have}, TRUE)
  OBVIOUS
<1> HIDE DEF m
<1>7. serverReceived' \in 0..(StepModulus - 1)
  <2>1. CASE (serverReceived + 1) % StepModulus \in m.first..(m.next - 1)
    <3>1. m.next - 1 \in 0..(StepModulus - 1)
      <4>1. PICK x \in m.first..(m.next - 1) : TRUE
        BY <2>1
      <4>2. StepModulus \in Nat
        BY ClientAssumption
      <4> QED BY <1>2, <4>1, <4>2
    <3> QED BY <1>4, <2>1, <3>1
  <2>2. CASE (serverReceived + 1) % StepModulus \notin m.first..(m.next - 1)
    BY <1>4, <2>2 DEF SessionInv, SessionTypes
  <2> QED BY <2>1, <2>2
<1>8. first \in Nat /\ serverStep \in 0..MaxStep /\ MaxStep \in Nat /\ 0..MaxStep \subseteq StepIds
  BY <1>2, SessionAssumption DEF SessionInv, SessionTypes
<1>9. d.type = "GameStepResponse" /\ d.steps \subseteq 0..(serverStep - 1)
  BY <1>6, <1>8 DEF GameStepResponse
<1>10. d \in ServerMessages
  <2>1. {i \in first..(serverStep - 1) : i \notin m.have} \in SUBSET StepIds
    BY <1>8
  <2> QED BY <1>6, <1>7, <2>1 DEF ServerMessages, GameStepResponse
<1>11. FromServer(d)
  BY <1>9 DEF FromServer
<1>12. /\ toClient' \in Seq(ServerMessages) /\ Len(toClient') <= QueueCap
       /\ UnderWay(toClient') \subseteq UnderWay(toClient) \cup {d}
       /\ \A a, b : Precedes(toClient', a, b) => Precedes(toClient, a, b) \/ (a \in UnderWay(toClient) /\ b = d)
  BY <1>5, <1>6, <1>10, ReplyQueue
<1>13. SessionTypes'
  BY <1>1, <1>3, <1>7, <1>12 DEF SessionInv, SessionTypes, clientVars
<1>14. state = "Synced" \/ ~Active
  BY <1>1 DEF SessionInv, Phases
<1> QED BY <1>1, <1>3, <1>9, <1>11, <1>12, <1>13, <1>14, QuietReplyKeepsInv

LEMMA ServerHandlesKeepsSessionInv ==
    ASSUME SessionInv, ClientInv', NEW kind \in RequestKinds, ServerHandles(kind)
    PROVE  SessionInv'
<1>1. PICK k \in DOMAIN toServer :
        /\ \/ ServerOnConnectRequest(toServer[k])
           \/ ServerOnDownloadRequest(toServer[k])
           \/ ServerOnBlobStream(toServer[k])
           \/ ServerOnJoinGame(toServer[k])
           \/ ServerOnGameStep(toServer[k])
        /\ toServer' = After(toServer, k)
        /\ UNCHANGED <<clientVars, connection, requested, budgetVars>>
  BY DEF ServerHandles
<1>2. UNCHANGED <<clientVars, connection, requested>>
  BY <1>1
<1> QED
  BY <1>1, <1>2, ConnectRequestHandled, DownloadRequestHandled, BlobStreamHandled, JoinRequestHandled,
     GameStepHandled

LEMMA ChunkKeepsSessionInv ==
    ASSUME SessionInv, ClientInv', ServerSendsChunk
    PROVE  SessionInv'
<1>1. /\ transfer # NoTransfer /\ UNCHANGED <<clientVars, connection, requested, serverVars, toServer>>
      /\ \E chunk \in Chunks : Reply(<<BlobPart(transfer.channel, connection, transfer.stateId, chunk, TRUE)>>)
  BY DEF ServerSendsChunk
<1>2. toServer' \in Seq(ClientMessages) /\ Len(toServer') <= QueueCap
  BY <1>1 DEF SessionInv, SessionTypes
<1> QED BY <1>1, <1>2, ChunkSent

\* The game goes on: what was said of it stays true.
LEMMA TickKeepsSessionInv ==
    ASSUME SessionInv, ClientInv', ServerTick
    PROVE  SessionInv'
<1> USE DEF clientVars
<1>1. /\ UNCHANGED <<clientVars, toServer, toClient, connection, transfer, answers, serverReceived, requested>>
      /\ serverStep' = serverStep + 1 /\ serverStep < MaxStep /\ serverStep \in Nat
  BY DEF ServerTick, SessionInv, SessionTypes
<1>2. SessionTypes'
  BY <1>1, SessionAssumption DEF SessionInv, SessionTypes
<1>3. TransferOfConnection'
  BY <1>1 DEF SessionInv, TransferOfConnection
<1>4. AnswersAreServers'
  <2>1. ASSUME NEW a \in UnderWay(toClient) PROVE FromServer(a)'
    <3>1. FromServer(a)
      BY DEF SessionInv, AnswersAreServers
    <3>2. 0..(serverStep - 1) \subseteq 0..(serverStep' - 1)
      BY <1>1
    <3> QED BY <1>1, <3>1, <3>2 DEF FromServer
  <2> QED BY <1>1, <2>1 DEF AnswersAreServers
<1>5. RealizerInStep' /\ JoinHasNonce' /\ GameStateHeld' /\ SeatsAreServers'
  BY SameParticipants, <1>1
  DEF SessionInv, RealizerInStep, RealizerSyncedIsSynced, JoinHasNonce, Active, GameStateHeld,
              NoGameStateLeak, SeatsAreServers, Seated
<1>6. Phases' /\ JoinAfterDownload' /\ SyncedChannel' /\ NoncesInOrder' /\ NoncesAreJoins'
  BY SameParticipants, <1>1
  DEF SessionInv, Phases, Active, JoinAfterDownload, SyncedChannel, NoncesInOrder, NoncesAreJoins
<1> QED BY <1>2, <1>3, <1>4, <1>5, <1>6 DEF SessionInv

\* A damaged datagram is of the same kind and says the same of the server.
LEMMA DamageKeepsSessionInv ==
    ASSUME SessionInv, ClientInv', Damage
    PROVE  SessionInv'
<1> USE DEF clientVars
<1>1. PICK k \in DOMAIN toClient :
        /\ toClient[k].type \in {"BlobPart", "GameStepResponse"}
        /\ toClient' = [toClient EXCEPT ![k].readable = FALSE]
  BY DEF Damage
<1>2. UNCHANGED <<clientVars, toServer, connection, serverVars, requested>>
  BY DEF Damage
<1>3. PICK d : d = [toClient[k] EXCEPT !.readable = FALSE]
  OBVIOUS
<1>4. toClient[k] \in ServerMessages /\ toClient[k] \in UnderWay(toClient) /\ toClient \in Seq(ServerMessages)
  BY DEF SessionInv, SessionTypes, UnderWay
<1>5. FromServer(toClient[k])
  BY <1>4 DEF SessionInv, AnswersAreServers
<1>6. ASSUME toClient[k].type = "BlobPart"
      PROVE  d \in ServerMessages /\ FromServer(d) /\ d.type = "BlobPart"
  <2>1. toClient[k] \in [type : {"BlobPart"}, channel : Channels, transferId : TransferIds, content : StepIds,
                         chunk : Chunks, readable : BOOLEAN]
    BY <1>4, <1>6 DEF ServerMessages
  <2>2. d \in [type : {"BlobPart"}, channel : Channels, transferId : TransferIds, content : StepIds,
               chunk : Chunks, readable : BOOLEAN]
        /\ d.type = "BlobPart" /\ d.content = toClient[k].content /\ d.channel = toClient[k].channel
    BY <1>3, <2>1
  <2> QED BY <1>5, <1>6, <2>2 DEF ServerMessages, FromServer
<1>7. ASSUME toClient[k].type = "GameStepResponse"
      PROVE  d \in ServerMessages /\ FromServer(d) /\ d.type = "GameStepResponse"
  <2>1. toClient[k] \in [type : {"GameStepResponse"}, received : 0..(StepModulus - 1), steps : SUBSET StepIds,
                         readable : BOOLEAN]
    BY <1>4, <1>7 DEF ServerMessages
  <2>2. d \in [type : {"GameStepResponse"}, received : 0..(StepModulus - 1), steps : SUBSET StepIds,
               readable : BOOLEAN]
        /\ d.type = "GameStepResponse" /\ d.steps = toClient[k].steps
    BY <1>3, <2>1
  <2> QED BY <1>5, <1>7, <2>2 DEF ServerMessages, FromServer
<1>8. /\ d \in ServerMessages /\ FromServer(d) /\ d.type = toClient[k].type
      /\ d.type \in {"BlobPart", "GameStepResponse"}
  BY <1>1, <1>6, <1>7
<1>9. toClient' = [toClient EXCEPT ![k] = d]
  BY <1>1, <1>3
<1>10. /\ toClient' \in Seq(ServerMessages) /\ Len(toClient') = Len(toClient) /\ DOMAIN toClient' = DOMAIN toClient
       /\ \A i \in DOMAIN toClient : toClient'[i] = IF i = k THEN d ELSE toClient[i]
  BY <1>4, <1>8, <1>9
<1>11. \A a \in UnderWay(toClient') : a \in UnderWay(toClient) \/ a = d
  BY <1>10 DEF UnderWay
<1>12. ASSUME NEW a, NEW b, Precedes(toClient', a, b), a # d, b # d
       PROVE  Precedes(toClient, a, b) /\ a \in UnderWay(toClient) /\ b \in UnderWay(toClient)
  BY <1>10, <1>12 DEF Precedes, UnderWay
<1>13. SessionTypes' /\ TransferOfConnection'
  BY <1>2, <1>10 DEF SessionInv, SessionTypes, TransferOfConnection
<1>14. RealizerInStep' /\ JoinHasNonce' /\ GameStateHeld' /\ SeatsAreServers'
  BY SameParticipants, <1>2
  DEF SessionInv, RealizerInStep, RealizerSyncedIsSynced, JoinHasNonce, Active, GameStateHeld,
              NoGameStateLeak, SeatsAreServers, Seated
<1>15. AnswersAreServers'
  BY <1>2, <1>8, <1>11 DEF SessionInv, AnswersAreServers, FromServer
<1>16. Phases'
  BY <1>2, <1>4, <1>8, <1>11 DEF SessionInv, Phases, Active
<1>17. JoinAfterDownload'
  <2>1. ASSUME NEW a \in UnderWay(toClient'), NEW b \in UnderWay(toClient'),
               Precedes(toClient', a, b), a.type = "JoinGameResponse"
        PROVE  b.type # "GameStateResponse"
    BY <1>8, <1>12, <2>1 DEF SessionInv, JoinAfterDownload
  <2> QED BY <1>2, <1>8, <1>11, <2>1 DEF SessionInv, JoinAfterDownload
<1>18. SyncedChannel'
  BY <1>2, <1>8, <1>11 DEF SessionInv, SyncedChannel
<1>19. NoncesInOrder'
  <2>1. ASSUME NEW a \in UnderWay(toClient'), NEW b \in UnderWay(toClient'),
               Precedes(toClient', a, b), IsAnswer(a), IsAnswer(b)
        PROVE  AnswerNonce(a) <= AnswerNonce(b)
    <3>1. a # d /\ b # d
      BY <1>8, <2>1 DEF IsAnswer
    <3> QED BY <1>12, <2>1, <3>1 DEF SessionInv, NoncesInOrder
  <2>2. ASSUME NEW a \in UnderWay(toClient'), NEW b \in UnderWay(toServer'),
               IsAnswer(a), b.type = "JoinGameRequest"
        PROVE  AnswerNonce(a) <= b.nonce
    BY <1>2, <1>8, <1>11, <2>2 DEF SessionInv, NoncesInOrder, IsAnswer
  <2> QED BY <1>2, <2>1, <2>2 DEF SessionInv, NoncesInOrder
<1>20. NoncesAreJoins'
  BY SameParticipants, <1>2, <1>8, <1>11 DEF SessionInv, NoncesAreJoins, Active, IsAnswer
<1> QED BY <1>13, <1>14, <1>15, <1>16, <1>17, <1>18, <1>19, <1>20 DEF SessionInv

-----------------------------------------------------------------------------
(* The session.                                                            *)

LEMMA SessionInvStep == SessionInv /\ [Next]_vars => SessionInv'
<1> SUFFICES ASSUME SessionInv, [Next]_vars PROVE SessionInv'
  OBVIOUS
<1>1. ClientInv'
  BY ClientInvInSession
<1>2. CASE UNCHANGED vars
  <2>1. /\ UNCHANGED <<toServer, toClient, connection, serverVars, requested, realizeVars, joinVars, stateVars>>
        /\ UNCHANGED <<pc, state, outSteps>>
    BY <1>2 DEF vars, clientVars
  <2>2. SessionTypes'
    BY <2>1 DEF SessionInv, SessionTypes
  <2> QED BY <1>1, <2>1, <2>2, QuietStepKeepsInv
<1>3. CASE DeliveryFails \/ Waits \/ SendFails \/ Predict \/ Read
  BY <1>1, <1>3, QuietActionsKeepInv
<1>4. CASE \/ \E kind \in ReplyKinds : Deliver(kind)
           \/ \E kind \in RequestKinds : ServerHandles(kind)
  BY <1>1, <1>4, DeliverKeepsSessionInv, ServerHandlesKeepsSessionInv
<1>5. CASE Sends \/ Realize \/ JoinGame \/ Quit \/ Reset \/ ReInit \/ Destroy
  BY <1>1, <1>5, SendsKeepsSessionInv, RealizeKeepsSessionInv, CallsKeepSessionInv, ResetKeepsSessionInv,
     ReInitKeepsSessionInv, DestroyKeepsSessionInv
<1>6. CASE ServerSendsChunk \/ ServerTick \/ Damage
  BY <1>1, <1>6, ChunkKeepsSessionInv, TickKeepsSessionInv, DamageKeepsSessionInv
<1> QED BY <1>2, <1>3, <1>4, <1>5, <1>6 DEF Next

\* The inductive invariant of the session holds for every number of
\* connections, joins, resets, faults, steps and datagrams under way.
THEOREM SessionInvariant == Spec => []SessionInv
<1> QED BY SessionInvInit, SessionInvStep, PTL DEF Spec

\* Every value the session reaches has its type, on both sides.
THEOREM SessionTypesCorrect == Spec => []SessionTypeOK
<1>1. SessionInv => SessionTypeOK
  <2> SUFFICES ASSUME SessionInv PROVE SessionTypeOK
    OBVIOUS
  <2>1. \A k \in DOMAIN toClient : toClient[k] \in ServerMessages
    BY DEF SessionInv, SessionTypes
  <2>2. \A k \in DOMAIN toServer : toServer[k].type \in RequestKinds
    BY RequestFields DEF SessionInv, SessionTypes
  <2> QED BY <2>1, <2>2 DEF SessionInv, SessionTypes, SessionTypeOK, ClientInv
<1> QED BY <1>1, SessionInvariant, PTL

\* A client in a session is a client: all that is proved of it against any
\* server holds here too.
THEOREM SessionIsClient == Spec => ClientSpec
<1>1. Init => ClientInit
  BY DEF Init
<1>2. SessionInv /\ [Next]_vars => [ClientNext]_clientVars
  BY SessionStepIsClientStep
<1> QED BY <1>1, <1>2, SessionInvariant, PTL DEF Spec, ClientSpec

\* Behind ordered datagrams a game state is never allocated over another
\* one: none is lost without being freed.
THEOREM GameStatesAreFreed == Spec => []NoGameStateLeak
<1>1. SessionInv => NoGameStateLeak
  BY DEF SessionInv, GameStateHeld
<1> QED BY <1>1, SessionInvariant, PTL

\* No late answer throws a client that the realizer calls Synced back into
\* the download.
THEOREM RealizerIsRight == Spec => []RealizerSyncedIsSynced
<1>1. SessionInv => RealizerSyncedIsSynced
  BY DEF SessionInv, RealizerInStep
<1> QED BY <1>1, SessionInvariant, PTL

\* A client that says it has joined has the seats of a join the server
\* accepted on this connection.
THEOREM JoinIsServers == Spec => []JoinedAsAnswered
<1>1. SessionInv => JoinedAsAnswered
  BY DEF SessionInv, SeatsAreServers, Seated, JoinedAsAnswered
<1> QED BY <1>1, SessionInvariant, PTL

LEMMA SmallestOf ==
    ASSUME NEW T \in SUBSET Nat, T # {}
    PROVE  \E i \in T : \A j \in T : i <= j
<1>1. PICK i \in T : \A j \in T : <<j, i>> \notin OpToRel(<, Nat)
  BY WFMin, NatLessThanWellFounded, Zenon
<1>2. \A j \in T : ~(j < i)
  BY <1>1, Zenon DEF OpToRel
<1> QED BY <1>2

\* nimbleClientFindParticipantId finds a participant in an entry in use, if
\* there is one for the device.
LEMMA FoundParticipant ==
    ASSUME localParticipantCount \in Nat, NEW device
    PROVE  \/ /\ FindParticipantId(device) = NoParticipantId
              /\ \A i \in 1..localParticipantCount : localParticipantLookup[i].localIndex # device
           \/ \E i \in 1..localParticipantCount :
                 /\ localParticipantLookup[i].localIndex = device
                 /\ FindParticipantId(device) = localParticipantLookup[i].participantId
<1> DEFINE for == {i \in 1..localParticipantCount : localParticipantLookup[i].localIndex = device}
           first == CHOOSE i \in for : \A j \in for : i <= j
<1>1. FindParticipantId(device) = IF for = {} THEN NoParticipantId ELSE localParticipantLookup[first].participantId
  BY DEF FindParticipantId
<1>2. CASE for = {}
  BY <1>1, <1>2
<1>3. CASE for # {}
  <2>1. for \in SUBSET Nat
    OBVIOUS
  <2>2. first \in for
    <3> HIDE DEF for
    <3> QED BY <1>3, <2>1, SmallestOf
  <2> HIDE DEF first
  <2> QED BY <1>1, <1>3, <2>2
<1> QED BY <1>2, <1>3

\* The application finds on every device what a single join accepted on this
\* connection seats there.
THEOREM ParticipantIsServers == Spec => []FindsOwnParticipant
<1>1. SessionInv => FindsOwnParticipant
  <2> SUFFICES ASSUME SessionInv PROVE FindsOwnParticipant
    OBVIOUS
  <2>1. localParticipantCount \in Nat /\ DOMAIN LocalParticipants = 1..localParticipantCount
        /\ \A i \in 1..localParticipantCount : LocalParticipants[i] = localParticipantLookup[i]
    BY ClientAssumption DEF SessionInv, ClientInv, ClientTypeOK, LocalParticipants
  <2>2. CASE LocalParticipants = <<>>
    <3>1. 1..localParticipantCount = {}
      BY <2>1, <2>2
    <3> QED BY <2>1, <3>1, FoundParticipant DEF FindsOwnParticipant
  <2>3. ASSUME NEW n \in Nonces, answers[n] = "Joined", LocalParticipants = ParticipantsFor[n],
               NEW device
        PROVE  LET id == FindParticipantId(device)
               IN  id \in SeatedOn(n, device) \/ (SeatedOn(n, device) = {} /\ id = NoParticipantId)
    <3>1. /\ DOMAIN ParticipantsFor[n] = 1..localParticipantCount
          /\ \A i \in 1..localParticipantCount : ParticipantsFor[n][i] = localParticipantLookup[i]
      BY <2>1, <2>3
    <3> QED BY <2>1, <3>1, FoundParticipant DEF SeatedOn
  <2> QED BY <2>2, <2>3 DEF SessionInv, SeatsAreServers, Seated, FindsOwnParticipant
<1> QED BY <1>1, SessionInvariant, PTL

\* Only a refusal makes a client that has joined one that has no seat.
LEMMA OnlyRefusalsRefuse ==
    ASSUME SessionInv, [Next]_vars, joinParticipantPhase = "JoinedParticipant",
           joinParticipantPhase' = "OutOfParticipantSlots"
    PROVE  \E k \in DOMAIN toClient :
              Receiving /\ toClient[k].type = "OutOfSlots" /\ toClient' = After(toClient, k)
<1>1. \E kind \in ReplyKinds : Deliver(kind)
  <2>1. CASE UNCHANGED vars
    BY <2>1 DEF vars, clientVars
  <2>2. CASE DeliveryFails \/ Waits \/ SendFails \/ Predict \/ Read
    BY <2>2 DEF DeliveryFails, ReceiveFails, Waits, UpdateWaits, SendFails, UpdateSendStepsFails,
                UpdateQualityAndState, Predict, AddPredictedStep, Read, ReadStep
  <2>3. CASE Sends
    BY <2>3 DEF Sends, UpdateSends, UpdateQualityAndState
  <2>4. CASE Realize \/ JoinGame \/ Quit \/ Reset \/ ReInit \/ Destroy
    BY <2>4
    DEF Realize, RealizeFollowsDisconnect, RealizeUpdateBegins, UpdateUnless, RealizeTarget, RealizeTargetFrom,
        JoinGame, RealizeJoinGame, JoinGameWith, Quit, RealizeQuitGame, QuitTo, Reset, RealizeReset, ResetTo,
        ReInit, RealizeReInit, ResetClient, Destroy, RealizeDestroy
  <2>5. CASE (\E kind \in RequestKinds : ServerHandles(kind)) \/ ServerSendsChunk \/ ServerTick \/ Damage
    BY <2>5 DEF ServerHandles, ServerSendsChunk, ServerTick, Damage, clientVars
  <2> QED BY <2>1, <2>2, <2>3, <2>4, <2>5 DEF Next
<1>2. PICK k \in DOMAIN toClient : Feed(toClient[k]) /\ toClient' = After(toClient, k)
  BY <1>1 DEF Deliver
<1> QED
  BY <1>2 DEF Feed, OnConnectResponse, OnDownloadGameStateResponse, DownloadStarts, OnDownloadGameStatePart,
              OnJoinGameResponse, Joined, OnJoinGameParticipantOutOfSpaceResponse, OnGameStepResponse

\* Of the answers under way none is older than the join the client has: a
\* refusal that reaches it is of a later request.
THEOREM RefusalIsLater == Spec => JoinedLostOnlyToLaterRefusal
<1>1. ASSUME SessionInv, [Next]_vars, joinParticipantPhase = "JoinedParticipant",
             joinParticipantPhase' = "OutOfParticipantSlots"
      PROVE  \E joined, refused \in Nonces, k \in DOMAIN toClient :
                /\ toClient[k] = OutOfSlotsResponse(refused) /\ toClient' = After(toClient, k)
                /\ joined < refused
                /\ answers[joined] = "Joined" /\ LocalParticipants = ParticipantsFor[joined]
                /\ answers[refused] = "Full"
  <2>1. PICK k \in DOMAIN toClient :
            Receiving /\ toClient[k].type = "OutOfSlots" /\ toClient' = After(toClient, k)
    BY <1>1, OnlyRefusalsRefuse
  <2> DEFINE m == toClient[k]
  <2>2. m \in UnderWay(toClient) /\ m \in ServerMessages
    BY <1>1 DEF SessionInv, SessionTypes, UnderWay
  <2>2a. m = OutOfSlotsResponse(m.nonce)
    BY <2>1, <2>2 DEF ServerMessages, OutOfSlotsResponse
  <2>3. m.nonce \in Nonces /\ answers[m.nonce] = "Full" /\ IsAnswer(m) /\ AnswerNonce(m) = m.nonce
    BY <1>1, <2>1, <2>2 DEF SessionInv, AnswersAreServers, FromServer, ServerMessages, IsAnswer, AnswerNonce
  <2> HIDE DEF m
  <2>4. Active
    BY <1>1, <2>1 DEF Receiving, SessionInv, RealizerInStep, Active
  <2>5. state = "Synced"
    BY <1>1, <2>1, <2>2, <2>4 DEF SessionInv, Phases, m
  <2>6. PICK joined \in Nonces : answers[joined] = "Joined" /\ LocalParticipants = ParticipantsFor[joined]
    BY <1>1, <2>5 DEF SessionInv, SeatsAreServers, Seated
  <2>7. joined \in Nat /\ m.nonce \in Nat
    BY <2>3, ClientAssumption
  <2>8. NonceOf(LocalParticipants) = joined
    BY <2>6, <2>7, SeatsOf
  <2>9. joined <= m.nonce
    BY <1>1, <2>2, <2>3, <2>4, <2>5, <2>8 DEF SessionInv, NoncesAreJoins
  <2>10. joined < m.nonce
    BY <2>3, <2>6, <2>7, <2>9
  <2> QED BY <2>2a, <2>1, <2>3, <2>6, <2>10 DEF m
<1>2. SessionInv /\ [Next]_vars =>
        [joinParticipantPhase = "JoinedParticipant" /\ joinParticipantPhase' = "OutOfParticipantSlots"
            => \E joined, refused \in Nonces, k \in DOMAIN toClient :
                  /\ toClient[k] = OutOfSlotsResponse(refused) /\ toClient' = After(toClient, k)
                  /\ joined < refused
                  /\ answers[joined] = "Joined" /\ LocalParticipants = ParticipantsFor[joined]
                  /\ answers[refused] = "Full"]_vars
  BY <1>1
<1> QED BY <1>2, SessionInvariant, PTL DEF Spec, JoinedLostOnlyToLaterRefusal
================================================================================
