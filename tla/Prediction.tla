------------------------------- MODULE Prediction -------------------------------
(***************************************************************************)
(* How far ahead the client predicts: the latency measured from the echo   *)
(* of a 16-bit time (pong.c, game_step_response.c for the buffer delta)    *)
(* and the id of the step to send that follows from it (client_utils.c).   *)
(*                                                                         *)
(* The round trip of a connection takes rtt to rtt + Jitter milliseconds.  *)
(* The lower bits of the time are turned back into a time by a library     *)
(* (monotonic-time-c): one with those bits, the latest that has passed or, *)
(* as the code reckons with, the one after it.                             *)
(***************************************************************************)
EXTENDS Integers

CONSTANTS
    TickDuration,       \* expectedTickDurationMs: 16
    LowerBits,          \* number of values of the lower bits: 2^16
    LatencyWindow,      \* samples of an average of the latency: 20
    RoundTrips,         \* values of rtt, in ms
    Jitter,             \* ms
    BufferDeltas,       \* averages of the buffer delta the server reports
    UninitLatencies,    \* what latencyMs may hold before it is first written, as an int
    Gaps,               \* ms between two datagrams
    MaxNow,             \* the time the model ends at
    MaxStep,            \* authoritative steps received
    StepModulus         \* StepId is uint32_t: 2^32

MinimumBufferDelta == 2
MaximumInfluence == 5   \* maximumBufferDeltaInfluenceInTicks

ASSUME PredictionAssumption ==
    /\ TickDuration \in Nat \ {0}
    /\ LatencyWindow \in Nat \ {0}
    /\ RoundTrips \subseteq Nat /\ Jitter \in Nat
    /\ \A r \in RoundTrips : r + Jitter < LowerBits
    /\ LowerBits \in Nat \ {0}
    /\ BufferDeltas \subseteq Int
    /\ UninitLatencies \subseteq Int
    /\ Gaps \subseteq Nat \ {0}
    /\ MaxNow \in Nat /\ MaxStep \in Nat /\ StepModulus \in Nat
    \* The ids of one game do not wrap, nor does the farthest step predicted.
    /\ MaxStep + LowerBits + MaximumInfluence < StepModulus

VARIABLES
    now,                \* monotonicTimeMsNow
    rtt,                \* shortest round trip of this connection
    latencyMs,
    samples,            \* latencyMsStat: count and total, and the average once set
    bufferDelta,        \* the average of authoritativeBufferDeltaStat, 0 if not set
    expectedWriteId,    \* of authoritativeStepsFromServer
    measured,           \* history: latencyMs was measured on this connection
    windowMeasured,     \* history: so was every sample of the window under way
    averageMeasured     \* history: and every sample of the average in use

historyVars == <<measured, windowMeasured, averageMeasured>>
predictionVars == <<now, rtt, latencyMs, samples, bufferDelta, expectedWriteId, historyVars>>

NoSamples == [count |-> 0, total |-> 0, avgIsSet |-> FALSE, avg |-> 0]

PredictionTypeOK ==
    /\ now \in Nat
    /\ rtt \in RoundTrips
    /\ latencyMs \in UninitLatencies \cup 0..(LowerBits - 1)
    /\ samples \in [count : 0..(LatencyWindow - 1), total : Int, avgIsSet : BOOLEAN, avg : Int]
    /\ bufferDelta \in BufferDeltas \cup {0}
    /\ expectedWriteId \in 0..MaxStep
    /\ measured \in BOOLEAN /\ windowMeasured \in BOOLEAN /\ averageMeasured \in BOOLEAN

PredictionInit ==
    /\ now = LowerBits
    /\ rtt \in RoundTrips
    /\ latencyMs \in UninitLatencies
    /\ samples = NoSamples
    /\ bufferDelta = 0
    /\ expectedWriteId = 0
    /\ measured = FALSE /\ windowMeasured = TRUE /\ averageMeasured = FALSE

-----------------------------------------------------------------------------
(* nimbleClientReceivePong                                                 *)

\* monotonicTimeMsFromLowerBits.
FromLowerBits(time, bits) == {t \in (time - LowerBits + 1)..(time + LowerBits) : t % LowerBits = bits}

\* statsIntAdd: an average of every so many samples.
StatsIntAdd(s, v) ==
    IF s.count + 1 < LatencyWindow
    THEN [count |-> s.count + 1, total |-> s.total + v, avgIsSet |-> s.avgIsSet, avg |-> s.avg]
    ELSE [count |-> 0, total |-> 0, avgIsSet |-> TRUE, avg |-> (s.total + v) \div LatencyWindow]

\* Mutant: a time of sending after now is not noticed.
LatencyUnchecked(time, sentAt) == time - sentAt

\* A time of sending after now leaves the latency measured before in place.
Latency(time, sentAt) == IF time < sentAt THEN latencyMs ELSE time - sentAt

\* A datagram arrives after a while, with the time its round trip began.
ReceivePong(gap, trip) ==
    /\ now + gap <= MaxNow /\ now' = now + gap
    /\ \E sentAt \in FromLowerBits(now', (now' - trip) % LowerBits) :
          /\ latencyMs' = Latency(now', sentAt)
          /\ measured' = (measured \/ sentAt <= now')
    /\ samples' = StatsIntAdd(samples, latencyMs')
    /\ IF samples'.count = 0
       THEN windowMeasured' = TRUE /\ averageMeasured' = (windowMeasured /\ measured')
       ELSE windowMeasured' = (windowMeasured /\ measured') /\ UNCHANGED averageMeasured
    /\ UNCHANGED <<rtt, bufferDelta, expectedWriteId>>

\* A game step response that completes an average of the buffer delta.
AverageBufferDelta(delta) ==
    /\ bufferDelta' = delta
    /\ UNCHANGED <<now, rtt, latencyMs, samples, expectedWriteId, historyVars>>

AuthoritativeStep ==
    /\ expectedWriteId < MaxStep /\ expectedWriteId' = expectedWriteId + 1
    /\ UNCHANGED <<now, rtt, latencyMs, samples, bufferDelta, historyVars>>

\* nimbleClientReset, and a connection with another latency: latencyMs stays.
ResetPrediction ==
    /\ rtt' \in RoundTrips
    /\ samples' = NoSamples
    /\ bufferDelta' = 0
    /\ expectedWriteId' = 0
    /\ measured' = FALSE /\ windowMeasured' = TRUE /\ averageMeasured' = FALSE
    /\ UNCHANGED <<now, latencyMs>>

PredictionNext ==
    \/ \E gap \in Gaps, trip \in rtt..(rtt + Jitter) : ReceivePong(gap, trip)
    \/ \E delta \in BufferDeltas : AverageBufferDelta(delta)
    \/ AuthoritativeStep
    \/ ResetPrediction

PredictionSpec == PredictionInit /\ [][PredictionNext]_predictionVars

-----------------------------------------------------------------------------
(* nimbleClientOptimalStepIdToSend                                         *)

CanEstimate == samples.avgIsSet

UnsignedLatency == IF samples.avg < 0 THEN 0 ELSE samples.avg

\* Mutant: the latency in ticks is not rounded up.
LatencyInTicksRoundedDown == UnsignedLatency \div TickDuration
LatencyInTicksRoundedUp == UnsignedLatency \div TickDuration + 1

BufferDeltaAddTickCount ==
    LET lacking == MinimumBufferDelta - bufferDelta
    IN  IF lacking <= 0 THEN 0 ELSE IF lacking > MaximumInfluence THEN MaximumInfluence ELSE lacking

OptimalSendPredictionTickCount == LatencyInTicksRoundedUp + BufferDeltaAddTickCount

OptimalStepIdToSend == (expectedWriteId + OptimalSendPredictionTickCount) % StepModulus

-----------------------------------------------------------------------------
(* Properties                                                              *)

\* The steps the server has made by the time a datagram reaches it, where
\* the client knew of expectedWriteId steps: the trip is the way of the news
\* and of the datagram, and the server's last tick was some ms before.
MadeOnArrival(trip, sinceTick) == expectedWriteId + (sinceTick + trip) \div TickDuration

\* The least number of ticks that takes at least so many ms.
TicksUp(ms) == (ms + TickDuration - 1) \div TickDuration

\* The reserves of steps the client may add for what the server's buffer lacks.
Reserves == {0} \cup {r \in 1..MaximumInfluence : bufferDelta + r <= MinimumBufferDelta}

\* A step sent with the optimal id reaches the server when it is due, with
\* the reserve the server lacks on top, at any phase of the server's ticks
\* and for every round trip of the connection, those of the samples and its
\* own: it is late by at most the ticks its trip took longer than the shortest
\* one (so never after a shortest trip), and early by at most one tick and
\* those it took less than the longest one. This is said of an average whose
\* samples were measured on this connection, over the wrap of the 16 bits and
\* also after a window with samples that were not.
StepArrivesInTime ==
    CanEstimate /\ averageMeasured =>
        \A trip \in rtt..(rtt + Jitter), sinceTick \in 0..(TickDuration - 1) :
            LET ahead == OptimalStepIdToSend - MadeOnArrival(trip, sinceTick)
            IN  /\ \A r \in Reserves : r <= ahead + TicksUp(trip - rtt)
                /\ \E r \in Reserves : ahead <= r + 1 + TicksUp(rtt + Jitter - trip)

\* The inductive invariant: a latency that was measured is one of a round
\* trip, and so are the samples that were, and their average.
LatencyIsOfTrip == measured => rtt <= latencyMs /\ latencyMs <= rtt + Jitter

WindowIsOfTrips ==
    windowMeasured =>
        /\ rtt * samples.count <= samples.total
        /\ samples.total <= (rtt + Jitter) * samples.count

AverageIsOfTrips == averageMeasured => rtt <= samples.avg /\ samples.avg <= rtt + Jitter

PredictionInv == PredictionTypeOK /\ LatencyIsOfTrip /\ WindowIsOfTrips /\ AverageIsOfTrips
================================================================================
