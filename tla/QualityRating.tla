----------------------------- MODULE QualityRating -----------------------------
(***************************************************************************)
(* The rating from 0 to 5 that connection_quality.c keeps for the user,    *)
(* next to the decision to disconnect of ConnectionQuality: it degrades    *)
(* with silence, dropped datagrams, latency and jitter.                    *)
(*                                                                         *)
(* A degradation is a fraction <<n, d>>.  The code multiplies floats, and  *)
(* where the exact rating is a whole number strictly between 0 and 5 their *)
(* rounding may truncate it to the number below; elsewhere they agree      *)
(* (compared for every input within the code's thresholds).                *)
(***************************************************************************)
EXTENDS ConnectionQuality

CONSTANTS
    DatagramsFrom, StepsFrom,   \* silence degrades from there on; 10 and 10
    DroppedMax, DroppedFrom,    \* dropped datagrams: 10 and 1
    LatencyMax, LatencyFrom,    \* milliseconds: 250 and 60
    JitterAllowed,              \* change of the latency between two ratings: 3
    Latencies,                  \* averages of the latency, as ints
    NoLatency,                  \* latencyMsStat.avgIsSet is false
    MaxReports                  \* datagrams reported as dropped, changes of the latency

Best == 5

ASSUME RatingAssumption ==
    /\ DatagramsFrom \in Nat /\ DatagramsFrom < MaxTicksWithoutDatagrams
    /\ StepsFrom \in Nat /\ StepsFrom < MaxTicksWithoutSteps
    /\ DroppedMax \in Nat /\ DroppedFrom \in Nat /\ DroppedFrom < DroppedMax
    /\ LatencyMax \in Nat /\ LatencyFrom \in Nat /\ LatencyFrom < LatencyMax
    /\ JitterAllowed \in Nat
    /\ Latencies \subseteq Int /\ NoLatency \notin Int
    /\ MaxReports \in Nat

VARIABLES
    dropped,        \* droppedDatagramCounter
    latency,        \* the average of latencyMsStat
    lastLatency,    \* lastLatencyMs
    rating,         \* qualityRating
    reports         \* used up of MaxReports

ratingVars == <<qualityVars, dropped, latency, lastLatency, rating, reports>>

RatingTypeOK ==
    /\ QualityTypeOK
    /\ dropped \in Nat
    /\ latency \in Latencies \cup {NoLatency}
    /\ lastLatency \in Latencies \cup {0}
    /\ rating \in 0..Best
    /\ reports \in 0..MaxReports

-----------------------------------------------------------------------------
(* evaluate(): the rating                                                  *)

DegradeLowIsBetter(v, divisor, lowerThreshold) ==
    IF v < lowerThreshold THEN <<1, 1>>
    ELSE IF v > divisor THEN <<0, 1>>
    ELSE <<divisor - v, divisor - lowerThreshold>>

\* Mutant: the threshold of the other kind of silence.
StepsDegradeMixedUp(steps) == DegradeLowIsBetter(steps, MaxTicksWithoutDatagrams, StepsFrom)
StepsDegrade(steps) == DegradeLowIsBetter(steps, MaxTicksWithoutSteps, StepsFrom)

DatagramsDegrade(datagrams) ==
    DegradeLowIsBetter(datagrams, MaxTicksWithoutDatagrams, DatagramsFrom)

\* Cast to size_t a negative average is beyond every limit.
AsSize(average) == IF average < 0 THEN LatencyMax + 1 ELSE average
LatencyDegrade ==
    IF latency = NoLatency THEN <<1, 1>> ELSE DegradeLowIsBetter(AsSize(latency), LatencyMax, LatencyFrom)

\* The jitter is the difference of ints again.
Apart(a, b) == IF a >= b THEN a - b ELSE b - a
JitterDegrade ==
    IF latency # NoLatency /\ Apart(latency, lastLatency) > JitterAllowed THEN <<9, 10>> ELSE <<1, 1>>

Times(a, b) == <<a[1] * b[1], a[2] * b[2]>>

\* What the float product may be truncated to.
Ratings(total) ==
    LET whole == (Best * total[1]) \div total[2]
    IN  IF whole \in 1..(Best - 1) /\ Best * total[1] = whole * total[2]
        THEN {whole - 1, whole} ELSE {whole}

Evaluates(datagrams, steps, drops) ==
    /\ rating' \in Ratings(Times(Times(Times(DatagramsDegrade(datagrams), StepsDegrade(steps)),
                                       Times(LatencyDegrade, JitterDegrade)),
                                 DegradeLowIsBetter(drops, DroppedMax, DroppedFrom)))
    /\ lastLatency' = IF latency # NoLatency THEN latency ELSE lastLatency

-----------------------------------------------------------------------------
(* The operations                                                          *)

\* qualityRating is not initialised, nor does a reset set it.
RatingInit ==
    /\ QualityInit
    /\ dropped = 0 /\ latency = NoLatency /\ lastLatency = 0
    /\ rating \in 0..Best
    /\ reports = 0

\* The update of a synced client that leaves so many drops to remember.
RatedWith(drops) ==
    /\ ~ShouldDisconnect(reason)
    /\ QualityUpdate
    /\ dropped' = drops
    /\ Evaluates(ticksWithoutDatagrams', ticksWithoutSteps', dropped')
    /\ UNCHANGED <<latency, reports>>

\* Mutants: the drops are never forgotten; the counter underflows.
RatedUpdateRemembers == RatedWith(dropped)
RatedUpdateUnderflows == RatedWith(dropped - 1)

RatedUpdate == RatedWith(IF dropped > 0 THEN dropped - 1 ELSE 0)

Received(what) ==
    /\ what
    /\ UNCHANGED <<dropped, latency, lastLatency, rating, reports>>

Report == reports < MaxReports /\ reports' = reports + 1

DroppedDatagrams(delta) ==
    /\ Report
    /\ dropped' = dropped + delta
    /\ UNCHANGED <<qualityVars, latency, lastLatency, rating>>

\* nimbleClientConnectionQualityGameStepLatency, where it completes an average.
GameStepLatency(average) ==
    /\ Report
    /\ latency' = average
    /\ UNCHANGED <<qualityVars, dropped, lastLatency, rating>>

\* nimbleClientConnectionQualityDescribe: the rating it shows is a new one.
Describe ==
    /\ Evaluates(ticksWithoutDatagrams, ticksWithoutSteps, dropped)
    /\ UNCHANGED <<qualityVars, dropped, latency, reports>>

ResetRating ==
    /\ QualityReset
    /\ dropped' = 0 /\ latency' = NoLatency /\ lastLatency' = 0
    /\ UNCHANGED <<rating, reports>>

RatingNext ==
    \/ RatedUpdate
    \/ Received(ReceivedUsableDatagram)
    \/ Received(ReceivedAuthoritativeSteps)
    \/ \E delta \in 1..(DroppedMax + 1) : DroppedDatagrams(delta)
    \/ \E average \in Latencies : GameStepLatency(average)
    \/ Describe
    \/ ResetRating

RatingSpec == RatingInit /\ [][RatingNext]_ratingVars

\* The application keeps updating its client.
FairRatingSpec == RatingSpec /\ WF_ratingVars(RatedUpdate)

-----------------------------------------------------------------------------
(* Properties                                                              *)

\* While the silence recommends to disconnect the user is shown the lowest
\* rating: the thresholds of the rating and of the verdict agree to the tick,
\* though they are compared differently (>= and >), and whatever the rounding.
BadVerdictIsRatedZero ==
    Evaluate(ticksWithoutDatagrams, ticksWithoutSteps) # "KeepConnection" => rating = 0

\* A connection that is alive again is shown as the best again: bursts of
\* dropped datagrams and of jitter are forgotten one update after the other.
RatingRecovers ==
    <>[](/\ reason = "KeepConnection"
         /\ ticksWithoutSteps <= StepsFrom /\ ticksWithoutDatagrams <= DatagramsFrom
         /\ latency = NoLatency \/ latency \in 0..LatencyFrom)
        => <>[](rating = Best)
================================================================================
