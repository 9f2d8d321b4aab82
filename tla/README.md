# Nimble Client: a TLA+ verification project

TLA+ models of the client side of the Nimble protocol (`src/src/lib`), checked
with TLC on small instances and proved with TLAPS for every value of the
constants: every safety property of a passing run is a theorem, liveness is left
to TLC. File names below are relative to `src/src/lib`.

## The system

The program is a single-threaded C library. An application owns a
`NimbleClientRealize` (the *realizer*), tells it to join or quit, calls
`nimbleClientRealizeUpdate` about every 16 ms, adds predicted steps (user input)
to a buffer and reads authoritative steps from another. Datagrams go over an
unreliable transport. What makes it hard is not threads but everything that may
happen between two updates, or while one runs its receive loop: loss,
duplication, reordering, late answers to earlier requests, resets and new
connections with state left over from the old one, and a disconnect decided by
counters.

### Inventory

| component | state | operations | interacts with | hard behaviour | what makes it correct |
|---|---|---|---|---|---|
| realizer (`network_realizer.c`) | `state`, `targetState`, `joinGameRequestNonce` | Init, ReInit, Reset, JoinGame, QuitGame, Update, Destroy | writes the client's `state`, `joinParticipantPhase`, `waitTime` directly | calls in any order; the client changes state underneath | it says Synced only over a synced client; a join gets there |
| client (`client.c`) | `state`, `waitTime`, `remoteConnectionId`, local participants, the buffers, quality | Init, Reset, ReInit, Update, Disconnect, Destroy, FindParticipantId | receive loop, quality, outgoing | one bad datagram ends the update; fields that are never initialised or survive a reset | giving up disconnects, at once |
| receive loop, dispatch (`receive_transport.c`, `incoming.c`) | ordered datagram ids | ReceiveAll, Feed | every handler; quality | order, wrap-around, errors half-way | at most once, in order; drops counted right |
| connect (`connect_response.c`) | `remoteConnectionId` | one handler | client state | repeated answers | applied once |
| download (`download_state_response.c`, `download_state_part.c`, `game_state.c`) | `joinStateChannel`, `joinStateId`, `joinedGameState`, blob stream | two handlers, game state Init and Destroy | blob stream, step buffers | label, content and buffers come from different datagrams; memory is allocated | the state is the server's, labelled right, freed once |
| join (`join_game_response.c`, `join_game_participants_full.c`) | `joinParticipantPhase`, participants | two handlers | realizer, outgoing | nonces not compared; late refusals | joined means accepted; the participants found are those of one join |
| steps (`game_step_response.c`, `send_steps.c`, `incoming_api.c`) | `outSteps`, pending window, authoritative buffer | one handler, send, ReadStep | step buffer library, quality | full buffer, gaps, wrap-around, redundancy | no gap, no loss before acknowledgement |
| outgoing (`outgoing.c`, `prepare_header.c`) | `waitTime`, datagram ids | Outgoing | transport | retry times, refusal by the transport, ids used up without a datagram | requests are repeated until answered; ids stay unique |
| quality (`connection_quality.c`) | silence counters, `consideringDisconnectCounter`, `reason`, rating | Reset, Update, five reports, ShouldDisconnect | client | thresholds that interact, floats, a description that evaluates again | neither early nor never; the rating agrees with the decision and recovers |
| latency (`pong.c`), prediction count (`client_utils.c`) | averages, `latencyMs` | ReceivePong, OptimalStepIdToSend | quality rating, application | rounding, 16-bit times that wrap, an uninitialised first sample | predicted steps reach the server in time |
| debug output (`debug.c`), statistics, lagometer | counters | logging | none | none | not modelled |

External, modelled from how `src/` uses them: the step buffers
(nimble-steps-c), the blob stream (blob-stream-c), the ordered datagram ids
(ordered-datagram-c), times from their lower bits (monotonic-time-c), averages
(stats-c), the transport and the Nimble server.

## The modules

    ConnectionQuality  <-- QualityTiming            (adds a history variable)
           ^           <-- QualityRating <-- MCRating   (adds the rating)
    NimbleClient       <-- MCClient                 (any server)
           ^
    NimbleSession      <-- MCSession                (lossy network, Nimble server)
           :  implements StepExchange

    OrderedDatagrams   :  implements InOrderDelivery
    Prediction         <-- MCPrediction

    ConnectionQualityProofs, QualityTimingProofs, QualityRatingProofs,
    NimbleClientProofs  <--  NimbleSessionProofs  <--  SessionExchangeProofs,
    OrderedDatagramsProofs, PredictionProofs

**ConnectionQuality** is the decision of `connection_quality.c`. `Evaluate` is
`evaluate()` without the rating, `QualityUpdate` the update of a synced client,
and the two `Received...` actions what the receive loop reports. A game step
response reports its steps and then itself as a datagram, in one action.
`QualitySpec` is what the component promises under a caller that stops updating
it once it has given up. It is also the abstract specification the client is
shown to implement.

**QualityTiming** counts the updates since the last reset, to state how early the
quality may give up.

**QualityRating** adds the rest of `connection_quality.c`: the rating from 0 to 5
that `evaluate` computes on the way to its verdict, the reports of dropped
datagrams and of latency, and `nimbleClientConnectionQualityDescribe`, which
evaluates again. The code multiplies floats; `Ratings` has the exact product as a
fraction and lets the truncation go one lower where the exact rating is a whole
number strictly between 0 and 5. (Compared in single precision over all silences,
drop counts and latencies within the code's thresholds, with and without jitter:
the float is then the exact value or one less, and exact everywhere else.) A
negative average of latency is both things the code makes of it: cast to `size_t`
it is beyond every limit (`AsSize`), while the jitter is the difference of ints.

**NimbleClient** is the realizer, the client and the handlers: one action per
handler and per call of the API, one variable per field. `pc` splits
`nimbleClientRealizeUpdate` where datagrams can arrive: in `"receive"` every
datagram is one action, any of the `Update...` actions ends the loop with the rest
of `nimbleClientUpdate`, `"realize"` is the switch on the target state, `"app"`
the time between two updates. An error in the loop (`FedWithError`,
`ReceiveFails`) skips the quality update and the sending, as the early return in
`nimbleClientUpdate` does. `ClientInit` leaves `waitTime`, `joinStateChannel`,
`joinStateId`, the game state's label, `joinParticipantPhase` and the nonce to
the `Uninit...` constants, since the code does not initialise them. `ClientSpec`
puts the client against a server that sends any datagram at any time.

Data is abstracted to what the properties tell apart: a step is its id, a buffer
the pair of its first and next id, a game state the id of the step it was captured
at, a blob its set of chunks, an answer to a join its participants. The lookup of
local participants keeps its slots and its count apart, as the code does: a smaller
party leaves the entries of a larger one in the slots after it, and only the count
hides them (`LocalParticipants`). Step ids keep their unsigned arithmetic where the
code depends on it (`FirstNotReceived`).

**NimbleSession** adds the two directions of the network and the server. Behind
the ordered datagram ids a network that loses, duplicates and reorders amounts
to a queue of which the receiver takes any element and thereby gives up the ones
before it (`After`); a refused datagram is `DeliveryFails`. `Reset` keeps the
transport and what is under way, `ReInit` gets a new transport on which the
server sees a new connection: that is the use for which the comment at
`client.c:62` has it. (The example re-inits on the transport it began with, before
anything was sent on it, which comes to the same.) Whom the server seats for each
join is the constant `ParticipantsFor`, with different participants for different
joins; the instances seat a party of two first and one player then, so that
`nimbleClientFindParticipantId` can be asked whose participant it finds.

**StepExchange** is what an application may expect of the exchange of steps,
without datagrams: down, a stream of the steps the server made, from the step of
the game state on; up, a stream of the predicted steps, of which the client
keeps those the server does not have. `NimbleSession` maps its buffers and the
server's acknowledgement to it (`StepsAreExchanged`).

**OrderedDatagrams** is one direction of the transport with its ids: when the
code takes one (`nimbleClientWriteHeader`), when it moves on
(`nimbleClientCommitHeader`, also for a datagram with only a header that is then
not sent), and what the receiver accepts, refuses and reports as dropped. The
network loses, duplicates and reorders. `InOrderDelivery` is what it is for: the
receiver takes any later datagram, and never one again or an earlier one, which
is the queue of `NimbleSession`.

**Prediction** is the latency measured from the echo of a 16-bit time, the
averages of latency and buffer delta, and the step id that
`nimbleClientOptimalStepIdToSend` computes from them. `latencyMs` is neither
initialised nor reset, and stays where the time of sending seems to lie in the
future. Three history variables record of `latencyMs`, of the window of samples
under way and of the average in use whether they were measured on this connection.

Assumptions about code outside the repository, each used by some property:
the server answers a request again when it is repeated, and a join always in the
same way; different joins get different participants, at most
`NIMBLE_CLIENT_MAX_LOCAL_USERS_COUNT` of them (the client does not check the count
of an answer against its 8 slots); a transfer is set up once for a connection, with
a transfer id that no other connection used (the blob stream is not reset with the
client, so parts of a transfer with the same id would go on with the old blob); a
part of another transfer starts the blob over; `nbsPendingStepsCopy` copies as far as there is room; the
`outStream.pos <= 10` test in `outgoing.c` recognises exactly the datagrams that
have nothing but a header; `CLOG_ASSERT` is compiled out. Of the datagram ids: the
first datagram after a (re)start is accepted whatever its id, later ones if they
are less than half the ids ahead, and no datagram arrives after more than half
the ids were used since it was sent (`Lifetime`). Of times: the one rebuilt from
lower bits has these bits and is the last such time before now or the next one
after it (the code reckons with that: "time problems in lower bits"); a round
trip is shorter than the 65 seconds of 16 bits. Of averages: one is set for every
full window of samples.

## The runs

| run | question | bounds |
|---|---|---|
| `quality` | the thresholds: is a dead connection kept, or a live one given up on | the code's own 40, 15 and 60; 90 updates between resets, more than the 76 at stake |
| `client` | consistency whatever the server sends, uninitialised wait times, and the client as a user of the quality | 2 step ids, modulus 3, 2 chunks, buffers of 2, all uninitialised values, 2 allocations alive |
| `session` | game state, joining and memory with a real server | 2 connections on channels of their own, 2 joins (a party of two, then one player), 1 fault, 3 datagrams under way, 2 chunks, an authoritative and a predicted step |
| `steps` | the exchange of steps | 3 authoritative and 2 predicted steps, buffers of 2 (both fill up), 1 reset with steps under way, 1 fault |
| `ordered` | the ids of the datagrams | 8 ids, 12 datagrams (the ids wrap), a life of 4 |
| `rating` | the rating next to the decision | thresholds scaled to 6, 3 and 2, drops to 3, latencies negative, below, within and beyond their range, 3 reports |
| `prediction` | is a predicted step in time | ticks of 4 ms, 16 lower bits (they wrap twice), round trips of 0 to 10 ms, windows of 2, positive and negative buffer deltas and uninitialised latencies |
| `live` | a join reaches Synced | 2 connections, 2 joins, 1 fault, 1 chunk |

What they show:

* `quality`: steps are never silent for more than 76 updates, however the last
  datagrams fall, and no pattern of arrivals makes the quality give up before 76
  updates since the last reset. (Within a connection that has had bad spells
  before, a new silence may be shorter: the counter goes down one by one.) Counted
  are the updates that reach the quality; one that ends in an error of the receive
  loop does not.
* `client`: the authoritative buffer and the pending window never part, a synced
  client always holds a game state with its label, the realizer never reports
  Synced over a client that is idle or connecting, and a `waitTime` that was never
  initialised holds up no connection: the realizer clears it when it starts one. A server that repeats its game
  state response after the join response can throw a synced client back into the
  download (which `RealizerTracksClient` therefore admits); in `session` the
  ordered ids make that impossible (`RealizerSyncedIsSynced`).
* `session`: across a reconnect nothing of the earlier transfer gets into the new
  game state; an allocated game state is always the one held; a
  refusal undoes a join only if it is the answer to a later request, one older
  than the join does not get through; what the lookup of participants finds is
  at any time of one single join accepted on this connection. Which one is left to
  the order of the answers, since an acceptance carries no nonce.
* `steps`, `session`: every behaviour of the session is one of `StepExchange`.
  Predicted steps stay until the server has them, also when the acknowledgement is
  "none so far" and wraps; the application gets the server's steps without a gap,
  from the step of its game state on, on a second connection as on the first.
* `ordered`: two datagrams of an update, ids that are used up without being sent,
  losses, copies and wraps never make the receiver take a datagram twice or out of
  order, or deaf to a newer one while it is less than half the ids behind; the
  drops reported are exactly the ids skipped.
* `rating`: whenever the verdict is to disconnect the rating is 0, though both are
  compared differently; a burst of drops or jitter is forgotten.
* `prediction`: at any phase of the server's ticks and for every trip of the
  connection, a step with the optimal id is late by at most the ticks its trip took
  longer than the shortest one, and early by at most one tick and those it took less
  than the longest one; what the server's buffer lacks (up to 5 steps) is on top of
  that, so jitter within it makes no step late. A tick more than the longest trip is
  the price of the rounding. This is said of averages of samples that were measured
  on the connection; one that is not (uninitialised, or of an earlier connection)
  makes the average worthless until the next window is full.
* `live`: see the fairness below.

Why the bounds are enough: two connections are what is needed for leftovers of one
to meet the other; two joins for an answer to meet another request; three
datagrams for an answer, its repetition and something between them; buffers of two
for one to be full and to have a gap. The quality's thresholds are scaled down to
2, 1 and 1 in the runs with the client; the theorems hold for all thresholds. In
the runs with the network the faults (stale or damaged datagrams, chunks nobody
asked for, send errors) are few, while losses are not bounded.

Deadlock is not checked where the specification has `Destroy` and finite budgets:
the application may stop using the client; nor in `ordered`, where it may stop
sending.

### Fairness

`FairSpec` assumes that the application keeps calling
`nimbleClientRealizeUpdate`, and that the receive loop ends (weak fairness of
`Realize` and of the update that follows the loop): that is the contract of the
library. For the network it assumes that of the datagrams that are sent again
and again (connect request, download request, blob stream acknowledgement and
their answers) one of each kind gets through in the end: strong fairness
of each kind, justified by the client's repetition of the request every few
updates. Nothing is assumed of the application's other calls, of join answers,
steps, ticks or faults.

`FairRatingSpec` assumes that the application keeps updating its client (weak
fairness of `RatedUpdate`), and `RatingRecovers` speaks of a connection that is in
the end alive and not slow.

### Where the code and its documentation disagree

Each of these runs is expected to find its property violated.

| run | the text | the code |
|---|---|---|
| `reset_join` | "so it can be reused for the same transport" (`client.c:13`) | a cleared realizer never updates its client again, a join never completes |
| `reused_channel` | "If response haven't been received before..." (`download_state_response.c:11`) | `joinStateChannel` survives a new connection; a response on the same channel is ignored |
| `stale_refusal` | "Sends join request to the server..." (`network_realizer.c:45`) | the refusal of an earlier request, whose nonce is not compared, ends the new joining before anything is sent |
| `spectator` | "It is allowed to send an empty array of Steps if spectating." (`src/README.md:8`) | without predicted steps nothing is sent, so a spectator gets no steps and gives up on a healthy server; so does the example (`src/src/examples/main.c:91`), which never refreshes the state it tests and never adds a step |

`SpectatorAsksForSteps` is checked under `FairSpec`, with a client that goes on
updating; a quit, a reset or a destroyed client excuse it.

Smaller disagreements, met while modelling and visible in the definitions named:
"must have a valid remote conneciton ID" (`prepare_header.c:13`), an assertion that
the first connect request fails, since the id comes with its answer (`SendPackets`;
the models have a build without assertions); "Join a game with participants and
receive unique participant IDs back" (`src/README.md:9`), but the acceptance of an
earlier join ends a later one that the application has begun meanwhile, and seats
the players of the earlier (`OnJoinGameResponse`); "we can not make an estimation
without valid latency information" (`client_utils.c:17`), but an echo that could not
be measured is a sample of whatever `latencyMs` holds (`ReceivePong`); "Describes
the current disconnect recommendation" (`connection_quality.c:95`), but the rating is computed anew, and after an update
that noticed jitter comes out better (`Describe`); "round trip latency in ticks
rounded up" (`client_utils.c:40`), but one is added to a whole number of ticks too
(`LatencyInTicksRoundedUp`).

The passing runs step around `reused_channel` with channels of their own for each
connection and around `reset_join` with no join after a reset in `live`.

## The proofs

All for any constants that satisfy the `ASSUME`s.

**ConnectionQualityProofs.** `QualityInv` is inductive. `SilenceIsBounded`
is not on its own: an update with a bad verdict adds one to the silence and one
to the counter, so the two must be related (`SilenceIsCounted`), the counter must
be bounded (`GivesUpAtTheLimit`), and the relation survives a good verdict
only because a good verdict means that the steps have not been silent for long
(lemma `BadVerdict`, which needs the steps' threshold to be below the datagrams'
and `StepSilenceDominates`).

**QualityTimingProofs.** `NotGivenUpEarly` from `TimingInv`: whatever is held
against the connection took that many updates on top of the tolerated ones.

**NimbleClientProofs.** `ClientInv`, the conjunction of the properties of the
`client` run with `QualityInv`, is inductive once it says that an update runs only
on a client that is not disconnected: otherwise a client that has given up could
judge again. One lemma per handler or group of calls, each with a step for every
conjunct it can disturb. `StepsInLockstep` rests on the definition of the copy
(`GameStepResponseKeepsInv`), `SyncedFromGameState` on the label
being rewritten with every accepted response and on discards that never move a
buffer back. `WaitsAreRetries` is proved from an invariant of its own, `WaitInv`: the
uninitialised value may be there only until the realizer has started a connection.
`ClientImplementsQuality` proves `ClientSpec => QualitySpec`: every
step of the client is a step of the quality or leaves it alone.

**QualityRatingProofs.** `BadVerdictIsRatedZero` and the types, for all thresholds
with the ones the rating starts from below the ones of the verdict. A product of
five fractions is 0 if one of them is (`DegradeIsFraction` and `TimesIsFraction`
keep every factor a fraction between 0 and 1), and the factor of a silence is 0 where its
verdict is bad; reports only lower a silence, so no step other than an evaluation
can make the verdict bad.

**OrderedDatagramsProofs.** For every number of ids from 4 up and every life of a
datagram up to half of it. Ids alone do not tell the order, since they wrap. The
invariant `OrderedInv` relates them to the unbounded numbers of the datagrams: the
id of a datagram under way, and of the last one accepted, is exactly as far behind
the next id, around the wrap, as its number is behind the next number. Two
arithmetic lemmas carry the rest: taking the next id adds one to every such
distance (`SuccessorIsAhead`), and distances behind a common id subtract
(`AheadSubtracts`). `Refinement` proves `OrderedSpec => Stream!Spec`, step by step.

**PredictionProofs.** `StepArrivesInTime`, for every tick, round trip, jitter, phase
of the server's ticks, window and buffer delta. `PredictionInv` says where each
number comes from: a latency that was measured is that of a trip of this connection
(`LatencyIsOfTrip`), because two times with the same lower bits that are less than
their range apart are equal (`SameRemainder`); the sum of a window of such samples
lies between that many times the shortest and the longest trip (`WindowIsOfTrips`),
so that their average does too (`AverageIsOfTrips`). The rest is arithmetic of
rounded quotients: a phase adds one tick at most and whole ticks add themselves
(`QuotientOfSum`, `QuotientOfSmaller`, `TicksUpCover`). Assumed: the ids of one game do not
wrap, nor does the farthest one predicted (2^32 steps are more than two
years at 16 ms).

**NimbleSessionProofs.** The client with the network and the server, for any number
of connections, joins, resets, faults, steps, chunks and datagrams under way,
whatever channels the server uses. None of the properties is inductive, since each
depends on what is still under way. `SessionInv` says it:

| part | what it says | what needs it |
|---|---|---|
| `SessionTypes` | the queues hold datagrams of the two sides | `SessionIsClient`: a step of the session is a step of the client against any server, so `ClientInv` comes for free |
| `RealizerInStep`, `JoinHasNonce` | a client that is under way is one the realizer wants synced, with a nonce below the next one | every send; a request carries the largest nonce so far |
| `Phases` | before the download no transfer exists and nothing of it is under way; before Synced nothing of a join or of steps is, as long as the client is `Active` (neither disconnected nor reset) | nearly everything: it excludes the answers that would come too early |
| `TransferOfConnection`, `AnswersAreServers` | what is under way is what the server has on this connection | the label, the content, the seats |
| `JoinAfterDownload`, `SyncedChannel` | nothing of a download follows a datagram of a join, in either queue or across them; so once a join response has cleared `joinStateChannel` no game state response comes any more | `RealizerSyncedIsSynced`, and from it `GameStateHeld` |
| `GameStateHeld` | only a client that is or was synced holds a game state | `NoGameStateLeak`: none is overwritten |
| `SeatsAreServers` | the participants are none or those of an accepted join | `JoinedAsAnswered`, `FindsOwnParticipant` |
| `NoncesInOrder`, `NoncesAreJoins` | requests and answers are under way in the order of their nonces, none older than the join the client has | `JoinedLostOnlyToLaterRefusal` |

An acceptance has no nonce in the code; in these two it has that of the join whose
participants it seats (`NonceOf`), which is one since no two joins get the same
(`SeatsAssumption`). `FindsOwnParticipant` also needs that the search of
`nimbleClientFindParticipantId` ends at the first entry of a device: the least such
index is taken from the well-foundedness of the naturals (`SmallestOf`).

The lemmas `AfterQueue` and `EnqueueQueue` say what taking and adding a datagram
does to the set and the order of what is under way (`UnderWay`, `Precedes`); every
other step uses only these. There is one lemma per handler of either side. The
proof of the last property corrected it: it used to say that the server had refused
the request of the latest join, which held only because the run makes two joins.
With three, the answers to the first two may both arrive during the third: the
first seats the client, the second throws it out again before the third is
answered. What is true, and now stated, is that the refused request is later than
the join it undoes.

**SessionExchangeProofs.** `SyncedStateMatches`, `ResponseStartsDownload` and the
refinement of `StepExchange` are false where the server uses a channel again on
another connection (run `reused_channel`), or where the uninitialised
`joinStateChannel` happens to name the first one. They are therefore proved from
the hypothesis `ChannelsAreOwn`, which excludes just these two and which the
instances `session` and `steps` satisfy. `OwnChannelInv` adds to `SessionInv` that
a `joinStateChannel` of this connection stands for the label of its transfer
(`ChannelHasLabel`), that a synced client has that transfer's state
(`SyncedToTransfer`), and that the two streams meet (`StreamsMeet`): the server
needs the predicted steps from the step of the transfer until the client is
synced, and from then on something between the client's first and next one, no
acknowledgement under way says more than the server has and no
request more than the client has. A step of the session is `Quiet` (it
leaves the exchange alone or ends it: a stutter or `Stop`), or one of eight kinds,
each with a lemma that it keeps `OwnChannelInv` and is a step of `StepExchange`.

Assumptions on constants that these proofs use, beyond those of the modules: step
ids lie below `StepModulus` (they are unsigned 32-bit numbers), a game's predicted
steps do not reach it (`MaxPredicted < StepModulus`), and the seats the server gives
are answers the client can parse, different ones for different joins
(`SeatsAssumption`).

Only model-checked: liveness (`JoinReachesSynced`, `RatingRecovers`), which is beyond the prover. `SessionInv` and `OwnChannelInv` were
checked with TLC on the instances of `session`, `steps` and `reused_channel` (there
`SessionInv` only) before they were proved.

## Not modelled, and the plan

Not to be modelled: logging (`debug.c`), statistics, the lagometer and the
tick-interval check, which nothing reads back; the serialisation of fields (a
library's), and with it the octet count by which `outgoing.c` recognises a
datagram that is only a header; the arena the authoritative buffer is allocated
from again at every reset. Reads whose result the code ignores
(`fldInStreamReadUInt8` and the like on a datagram that is too short) are taken to
succeed or to end in an error of the datagram. That a join is answered in the end
is not stated: in a finite model the predicted steps run out, and a client
without any is given up on, which ends every join. Nor is anything stated of a
client whose every update ends in an error of the receive loop: such an update does
not count as silence, so it could go on for ever, and no text says whether it may.

What a server does with the ids of a client that starts them over on the same
transport (`nimbleClientReset`) is not in this repository: the restart is modelled
at the receiving end only.

Done, in this order: the quality; the client and its invariant; the session; the
proofs of the quality and of the client; the datagram ids and their proofs; the
exchange of steps as an abstract specification; the rating and its proofs; the
latency and the prediction; the proof of the prediction, of the session's
invariants and of the refinement of `StepExchange`. To come:

1. `QualityTiming` in the session: how long a client without answers lives, as a
   bound on its updates that can be proved.
2. Where channels are used again: that only the channel left over from the
   connection before makes a response go unnoticed, in place of `ChannelsAreOwn`.
