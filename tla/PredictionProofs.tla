---------------------------- MODULE PredictionProofs ----------------------------
(***************************************************************************)
(* The prediction is far enough ahead, for every tick, latency and size of *)
(* the sample windows.                                                     *)
(***************************************************************************)
EXTENDS Prediction, TLAPS

\* Two numbers with the same remainder, less than the modulus apart, are equal.
LEMMA SameRemainder ==
    ASSUME NEW a \in Int, NEW b \in Int, NEW n \in Nat \ {0},
           a % n = b % n, a - b < n, b - a < n
    PROVE  a = b
<1> DEFINE d == (a \div n) - (b \div n)
<1>1. /\ a \div n \in Int /\ a = n * (a \div n) + (a % n)
      /\ b \div n \in Int /\ b = n * (b \div n) + (b % n)
      /\ a % n \in Int
  OBVIOUS
<1>2. d \in Int /\ a - b = n * d
  BY <1>1
<1> HIDE DEF d
<1>3. d >= 1 => n * d >= n
  BY <1>2
<1>4. d <= -1 => n * d <= -n
  BY <1>2
<1> QED BY <1>2, <1>3, <1>4

\* A quotient is bounded by the multiples of the divisor around the number.
LEMMA QuotientBounds ==
    ASSUME NEW a \in Int, NEW k \in Int, NEW n \in Nat \ {0}
    PROVE  /\ n * k <= a => k <= a \div n
           /\ a < n * k + n => a \div n <= k
OBVIOUS

\* Less than a divisor more makes the quotient one larger at most, and whole
\* divisors on top are whole ticks on top.
LEMMA QuotientOfSum ==
    ASSUME NEW a \in Int, NEW b \in Int, NEW k \in Int, NEW s \in Int, NEW n \in Nat \ {0},
           a <= b + n * k, s < n
    PROVE  (s + a) \div n <= b \div n + 1 + k
<1>1. b \div n \in Int /\ b = n * (b \div n) + (b % n) /\ b % n < n
  OBVIOUS
<1> DEFINE q == b \div n
<1>2. q \in Int /\ b < n * q + n
  BY <1>1
<1> HIDE DEF q
<1>3. n * (q + 1 + k) + n = n * q + n * k + n + n
  BY <1>2
<1>4. /\ s + a \in Int /\ q + 1 + k \in Int
      /\ s + a < n * (q + 1 + k) + n
  BY <1>2, <1>3
<1>5. (s + a) \div n <= q + 1 + k
  BY <1>4, QuotientBounds, Zenon
<1> QED BY <1>5 DEF q

\* A number within whole divisors of another has a quotient within as many.
LEMMA QuotientOfSmaller ==
    ASSUME NEW a \in Int, NEW b \in Int, NEW k \in Int, NEW n \in Nat \ {0}, a <= b + n * k
    PROVE  a \div n <= b \div n + k
<1>1. b \div n \in Int /\ b = n * (b \div n) + (b % n) /\ b % n < n
  OBVIOUS
<1> DEFINE q == b \div n
<1>2. q \in Int /\ b < n * q + n
  BY <1>1
<1> HIDE DEF q
<1>3. n * (q + k) + n = n * q + n * k + n
  BY <1>2
<1>4. q + k \in Int /\ a < n * (q + k) + n
  BY <1>2, <1>3
<1>5. a \div n <= q + k
  BY <1>4, QuotientBounds, Zenon
<1> QED BY <1>5 DEF q

\* So many ticks take at least so many ms.
LEMMA TicksUpCover ==
    ASSUME NEW ms \in Nat
    PROVE  TicksUp(ms) \in Nat /\ ms <= TickDuration * TicksUp(ms)
<1> DEFINE a == ms + TickDuration - 1
<1>1. TickDuration \in Nat \ {0}
  BY PredictionAssumption
<1>2. a \in Nat /\ a = ms + TickDuration - 1
  BY <1>1
<1> HIDE DEF a
<1>3. /\ a \div TickDuration \in Int /\ a = TickDuration * (a \div TickDuration) + (a % TickDuration)
      /\ a % TickDuration < TickDuration
  BY <1>1, <1>2
<1>4. TickDuration * 0 <= a
  BY <1>1, <1>2
<1>5. 0 <= a \div TickDuration
  BY <1>1, <1>2, <1>4, QuotientBounds
<1>6. ms <= TickDuration * (a \div TickDuration)
  BY <1>1, <1>2, <1>3
<1>7. TicksUp(ms) = a \div TickDuration
  BY DEF TicksUp, a
<1> QED BY <1>3, <1>5, <1>6, <1>7

\* An empty statistic is within any bounds.
LEMMA NoSamplesFit ==
    /\ NoSamples \in [count : 0..(LatencyWindow - 1), total : Int, avgIsSet : BOOLEAN, avg : Int]
    /\ NoSamples.count = 0 /\ NoSamples.total = 0 /\ ~NoSamples.avgIsSet
BY PredictionAssumption DEF NoSamples

LEMMA PredictionInvInit == PredictionInit => PredictionInv
<1> SUFFICES ASSUME PredictionInit PROVE PredictionInv
  OBVIOUS
<1>1. /\ now = LowerBits /\ rtt \in RoundTrips /\ latencyMs \in UninitLatencies /\ samples = NoSamples
      /\ bufferDelta = 0 /\ expectedWriteId = 0
  BY DEF PredictionInit
<1>2. /\ measured \in BOOLEAN /\ ~measured /\ windowMeasured \in BOOLEAN
      /\ averageMeasured \in BOOLEAN /\ ~averageMeasured
  BY Zenon DEF PredictionInit
<1>3. PredictionTypeOK
  BY <1>1, <1>2, NoSamplesFit, PredictionAssumption DEF PredictionTypeOK
<1>4. rtt * samples.count <= samples.total /\ samples.total <= (rtt + Jitter) * samples.count
  BY <1>1, NoSamplesFit, PredictionAssumption
<1> QED BY <1>2, <1>3, <1>4, Zenon
        DEF PredictionInv, LatencyIsOfTrip, WindowIsOfTrips, AverageIsOfTrips

\* The echo of a time that has passed measures the round trip, whatever the
\* lower bits have wrapped to meanwhile.
LEMMA EchoMeasuresTrip ==
    ASSUME NEW time \in Int, NEW trip \in 0..(LowerBits - 1),
           NEW sentAt \in FromLowerBits(time, (time - trip) % LowerBits), sentAt <= time
    PROVE  time - sentAt = trip
<1>1. LowerBits \in Nat \ {0}
  BY PredictionAssumption
<1>2. /\ sentAt \in Int /\ time - sentAt < LowerBits
      /\ sentAt % LowerBits = (time - trip) % LowerBits
  BY <1>1 DEF FromLowerBits
<1>3. /\ time - trip \in Int
      /\ sentAt - (time - trip) < LowerBits /\ (time - trip) - sentAt < LowerBits
  BY <1>1, <1>2
<1>4. sentAt = time - trip
  BY <1>1, <1>2, <1>3, SameRemainder, Zenon
<1> QED BY <1>2, <1>4

\* A sample more keeps the window within bounds, or makes an average within them.
LEMMA SampleKeepsBounds ==
    ASSUME NEW s \in [count : 0..(LatencyWindow - 1), total : Int, avgIsSet : BOOLEAN, avg : Int],
           NEW low \in Int, NEW high \in Int, NEW v \in Int, low <= v, v <= high,
           low * s.count <= s.total, s.total <= high * s.count
    PROVE  LET n == StatsIntAdd(s, v)
           IN  /\ low * n.count <= n.total /\ n.total <= high * n.count
               /\ n.count = 0 => low <= n.avg /\ n.avg <= high
<1>1. LatencyWindow \in Nat \ {0} /\ s.count \in Nat /\ s.count <= LatencyWindow - 1 /\ s.total \in Int
  BY PredictionAssumption
<1>2. /\ low * (s.count + 1) <= s.total + v
      /\ s.total + v <= high * (s.count + 1)
  BY <1>1
<1>3. CASE s.count + 1 < LatencyWindow
  BY <1>1, <1>2, <1>3 DEF StatsIntAdd
<1>4. CASE s.count + 1 = LatencyWindow
  <2>1. LatencyWindow * low <= s.total + v /\ s.total + v < LatencyWindow * high + LatencyWindow
    BY <1>1, <1>2, <1>4
  <2>2. low <= (s.total + v) \div LatencyWindow /\ (s.total + v) \div LatencyWindow <= high
    BY <1>1, <2>1, QuotientBounds
  <2> QED BY <1>1, <1>4, <2>2 DEF StatsIntAdd
<1> QED BY <1>1, <1>3, <1>4

\* Within a window the average stays, and a new window is empty.
LEMMA SampleOfWindow ==
    ASSUME NEW s \in [count : 0..(LatencyWindow - 1), total : Int, avgIsSet : BOOLEAN, avg : Int],
           NEW v \in Int
    PROVE  LET n == StatsIntAdd(s, v)
           IN  /\ n.count = 0 => n.total = 0
               /\ n.count # 0 => n.avg = s.avg
BY PredictionAssumption DEF StatsIntAdd

LEMMA PongKeepsInv ==
    ASSUME PredictionInv, NEW gap \in Gaps, NEW trip \in rtt..(rtt + Jitter), ReceivePong(gap, trip)
    PROVE  PredictionInv'
<1>1. /\ rtt \in RoundTrips /\ rtt \in Nat /\ Jitter \in Nat
      /\ trip \in Nat /\ rtt <= trip /\ trip <= rtt + Jitter /\ rtt + Jitter < LowerBits
      /\ now' \in Nat /\ LowerBits \in Nat
      /\ UNCHANGED <<rtt, bufferDelta, expectedWriteId>>
  BY PredictionAssumption DEF PredictionInv, PredictionTypeOK, ReceivePong
<1>2. PICK sentAt \in FromLowerBits(now', (now' - trip) % LowerBits) :
        /\ latencyMs' = Latency(now', sentAt)
        /\ measured' = (measured \/ sentAt <= now')
  BY DEF ReceivePong
<1>3. sentAt \in Int /\ (sentAt <= now' => latencyMs' = trip) /\ (now' < sentAt => latencyMs' = latencyMs)
  <2>1. sentAt \in Int
    BY <1>1 DEF FromLowerBits
  <2>2. sentAt <= now' => now' - sentAt = trip
    <3>1. now' \in Int /\ trip \in 0..(LowerBits - 1)
      BY <1>1
    <3> QED BY <1>2, <3>1, EchoMeasuresTrip, Zenon
  <2>3. /\ now' < sentAt => latencyMs' = latencyMs
        /\ ~(now' < sentAt) => latencyMs' = now' - sentAt
    BY <1>2, Zenon DEF Latency
  <2>4. sentAt <= now' => ~(now' < sentAt)
    BY <1>1, <2>1
  <2> QED BY <2>1, <2>2, <2>3, <2>4, Zenon
<1>4. /\ latencyMs' \in Int /\ latencyMs' \in UninitLatencies \cup 0..(LowerBits - 1)
      /\ measured' \in BOOLEAN
      /\ measured' => rtt <= latencyMs' /\ latencyMs' <= rtt + Jitter
  <2>1. /\ latencyMs' \in Int /\ latencyMs' \in UninitLatencies \cup 0..(LowerBits - 1)
    BY <1>1, <1>3, PredictionAssumption DEF PredictionInv, PredictionTypeOK
  <2>2. measured' \in BOOLEAN
    BY <1>2, Zenon DEF PredictionInv, PredictionTypeOK
  <2>3. CASE sentAt <= now'
    BY <1>1, <1>3, <2>1, <2>2, <2>3
  <2>4. CASE ~(sentAt <= now')
    <3>1. measured' => measured
      BY <1>2, <2>4, Zenon
    <3>2. latencyMs' = latencyMs
      BY <1>1, <1>3, <2>4
    <3> QED BY <1>1, <2>1, <2>2, <3>1, <3>2 DEF PredictionInv, LatencyIsOfTrip
  <2> QED BY <2>3, <2>4
<1>5. samples' = StatsIntAdd(samples, latencyMs')
  BY DEF ReceivePong
<1>6. samples' \in [count : 0..(LatencyWindow - 1), total : Int, avgIsSet : BOOLEAN, avg : Int]
  <2>1. samples \in [count : 0..(LatencyWindow - 1), total : Int, avgIsSet : BOOLEAN, avg : Int]
    BY DEF PredictionInv, PredictionTypeOK
  <2>2. LatencyWindow \in Nat \ {0} /\ (samples.total + latencyMs') \div LatencyWindow \in Int
    BY <1>4, <2>1, PredictionAssumption
  <2> QED BY <1>4, <1>5, <2>1, <2>2 DEF StatsIntAdd
<1>7. /\ windowMeasured \in BOOLEAN /\ averageMeasured \in BOOLEAN
      /\ samples \in [count : 0..(LatencyWindow - 1), total : Int, avgIsSet : BOOLEAN, avg : Int]
  BY DEF PredictionInv, PredictionTypeOK
<1>8. /\ samples'.count = 0 => windowMeasured' = TRUE /\ averageMeasured' = (windowMeasured /\ measured')
      /\ samples'.count # 0 =>
            windowMeasured' = (windowMeasured /\ measured') /\ averageMeasured' = averageMeasured
  BY Zenon DEF ReceivePong
<1>9. windowMeasured' \in BOOLEAN /\ averageMeasured' \in BOOLEAN
  BY <1>4, <1>7, <1>8, Zenon
<1>10. PredictionTypeOK'
  BY <1>1, <1>4, <1>6, <1>9 DEF PredictionInv, PredictionTypeOK
<1>11. ASSUME windowMeasured, measured'
       PROVE  /\ rtt * samples'.count <= samples'.total
              /\ samples'.total <= (rtt + Jitter) * samples'.count
              /\ samples'.count = 0 => rtt <= samples'.avg /\ samples'.avg <= rtt + Jitter
  <2>1. rtt * samples.count <= samples.total /\ samples.total <= (rtt + Jitter) * samples.count
    BY <1>11, Zenon DEF PredictionInv, WindowIsOfTrips
  <2>2. rtt <= latencyMs' /\ latencyMs' <= rtt + Jitter
    BY <1>4, <1>11, Zenon
  <2>3. rtt \in Int /\ rtt + Jitter \in Int
    BY <1>1
  <2> QED BY <1>4, <1>5, <1>7, <2>1, <2>2, <2>3, SampleKeepsBounds, Zenon
<1>12. /\ samples'.count = 0 => samples'.total = 0
       /\ samples'.count # 0 => samples'.avg = samples.avg
  BY <1>4, <1>5, <1>7, SampleOfWindow, Zenon
<1>13. WindowIsOfTrips'
  <2>1. CASE samples'.count = 0
    <3>1. rtt * samples'.count <= samples'.total /\ samples'.total <= (rtt + Jitter) * samples'.count
      BY <1>1, <1>12, <2>1
    <3>2. rtt' = rtt
      BY <1>1
    <3> QED BY <3>1, <3>2, Zenon DEF WindowIsOfTrips
  <2>2. CASE samples'.count # 0
    <3>1. rtt' = rtt
      BY <1>1
    <3> QED BY <1>8, <1>11, <2>2, <3>1, Zenon DEF WindowIsOfTrips
  <2> QED BY <2>1, <2>2, Zenon
<1>14. AverageIsOfTrips'
  <2>1. rtt' = rtt
    BY <1>1
  <2>2. CASE samples'.count = 0
    BY <1>8, <1>11, <2>1, <2>2, Zenon DEF AverageIsOfTrips
  <2>3. CASE samples'.count # 0
    BY <1>8, <1>12, <2>1, <2>3, Zenon DEF AverageIsOfTrips, PredictionInv
  <2> QED BY <2>2, <2>3, Zenon
<1>15. LatencyIsOfTrip'
  BY <1>1, <1>4, Zenon DEF LatencyIsOfTrip
<1> QED BY <1>10, <1>13, <1>14, <1>15, Zenon DEF PredictionInv

LEMMA PredictionInvStep == PredictionInv /\ [PredictionNext]_predictionVars => PredictionInv'
<1> SUFFICES ASSUME PredictionInv, [PredictionNext]_predictionVars PROVE PredictionInv'
  OBVIOUS
<1>1. CASE \E gap \in Gaps, trip \in rtt..(rtt + Jitter) : ReceivePong(gap, trip)
  BY <1>1, PongKeepsInv
<1>2. CASE \E delta \in BufferDeltas : AverageBufferDelta(delta)
  BY <1>2 DEF AverageBufferDelta, historyVars, PredictionInv, PredictionTypeOK,
              LatencyIsOfTrip, WindowIsOfTrips, AverageIsOfTrips
<1>3. CASE AuthoritativeStep
  BY <1>3, PredictionAssumption
  DEF AuthoritativeStep, historyVars, PredictionInv, PredictionTypeOK,
      LatencyIsOfTrip, WindowIsOfTrips, AverageIsOfTrips
<1>4. CASE ResetPrediction
  <2>1. /\ rtt' \in RoundTrips /\ samples' = NoSamples /\ bufferDelta' = 0 /\ expectedWriteId' = 0
        /\ UNCHANGED <<now, latencyMs>>
    BY <1>4 DEF ResetPrediction
  <2>2. /\ measured' \in BOOLEAN /\ ~measured' /\ windowMeasured' \in BOOLEAN
        /\ averageMeasured' \in BOOLEAN /\ ~averageMeasured'
    BY <1>4, Zenon DEF ResetPrediction
  <2>3. PredictionTypeOK'
    BY <2>1, <2>2, NoSamplesFit, PredictionAssumption DEF PredictionInv, PredictionTypeOK
  <2>4. samples'.count = 0 /\ samples'.total = 0
    BY <2>1, NoSamplesFit, Zenon
  <2>5. rtt' * samples'.count <= samples'.total /\ samples'.total <= (rtt' + Jitter) * samples'.count
    <3>1. \A n \in Int : n * 0 = 0 /\ 0 <= 0
      OBVIOUS
    <3>2. rtt' \in Int /\ rtt' + Jitter \in Int
      BY <2>1, PredictionAssumption
    <3> QED BY <2>4, <3>1, <3>2, Zenon
  <2> QED BY <2>2, <2>3, <2>5, Zenon
          DEF PredictionInv, LatencyIsOfTrip, WindowIsOfTrips, AverageIsOfTrips
<1>5. CASE UNCHANGED predictionVars
  BY <1>5 DEF predictionVars, historyVars, PredictionInv, PredictionTypeOK,
              LatencyIsOfTrip, WindowIsOfTrips, AverageIsOfTrips
<1> QED BY <1>1, <1>2, <1>3, <1>4, <1>5 DEF PredictionNext

\* The inductive invariant of the measurement: a latency that was measured,
\* a window of such samples and their average are within the round trips of
\* the connection.
THEOREM PredictionInvariant == PredictionSpec => []PredictionInv
BY PredictionInvInit, PredictionInvStep, PTL DEF PredictionSpec

\* The measurement of pong.c keeps its types: a latency is at most 16 bits.
THEOREM PredictionTypes == PredictionSpec => []PredictionTypeOK
<1>1. PredictionInv => PredictionTypeOK BY DEF PredictionInv
<1> QED BY <1>1, PredictionInvariant, PTL

\* What is added to the latency is the largest of the reserves.
LEMMA AddsLargestReserve ==
    ASSUME bufferDelta \in Int
    PROVE  /\ BufferDeltaAddTickCount \in Reserves /\ BufferDeltaAddTickCount \in 0..5
           /\ \A r \in Reserves : r \in Int /\ r <= BufferDeltaAddTickCount
BY DEF BufferDeltaAddTickCount, Reserves, MinimumBufferDelta, MaximumInfluence

\* The average latency rounded up to ticks covers the shortest trip at every
\* phase of the server's ticks; a longer trip costs the ticks it is longer,
\* and a shorter one than the average leaves those it is shorter.
LEMMA InvArrivesInTime == PredictionInv => StepArrivesInTime
<1> SUFFICES ASSUME PredictionInv, CanEstimate, averageMeasured,
                    NEW trip \in rtt..(rtt + Jitter), NEW sinceTick \in 0..(TickDuration - 1)
             PROVE  LET ahead == OptimalStepIdToSend - MadeOnArrival(trip, sinceTick)
                    IN  /\ \A r \in Reserves : r <= ahead + TicksUp(trip - rtt)
                        /\ \E r \in Reserves : ahead <= r + 1 + TicksUp(rtt + Jitter - trip)
  BY Zenon DEF StepArrivesInTime
<1> DEFINE avg == samples.avg
           latency == avg \div TickDuration
           made == (sinceTick + trip) \div TickDuration
           late == TicksUp(trip - rtt)
           early == TicksUp(rtt + Jitter - trip)
<1>1. /\ rtt \in Nat /\ Jitter \in Nat /\ avg \in Int /\ rtt <= avg /\ avg <= rtt + Jitter
      /\ avg < LowerBits /\ LowerBits \in Nat
      /\ TickDuration \in Nat \ {0} /\ bufferDelta \in Int /\ StepModulus \in Nat
      /\ expectedWriteId \in Nat /\ expectedWriteId <= MaxStep /\ MaxStep \in Nat
      /\ MaxStep + LowerBits + 5 < StepModulus
      /\ sinceTick \in Nat /\ sinceTick < TickDuration
      /\ trip \in Nat /\ trip - rtt \in Nat /\ rtt + Jitter - trip \in Nat
  BY PredictionAssumption
  DEF PredictionInv, PredictionTypeOK, AverageIsOfTrips, MaximumInfluence
<1>2. latency \in Nat /\ latency <= avg
  <2>1. avg < TickDuration * avg + TickDuration /\ TickDuration * 0 <= avg
    BY <1>1
  <2>2. 0 <= latency /\ latency <= avg
    <3>1. 0 \in Int OBVIOUS
    <3> QED BY <1>1, <2>1, <3>1, QuotientBounds, Zenon
  <2> QED BY <1>1, <2>2
<1>3. late \in Nat /\ trip - rtt <= TickDuration * late
  BY <1>1, TicksUpCover, Zenon
<1>4. early \in Nat /\ rtt + Jitter - trip <= TickDuration * early
  BY <1>1, TicksUpCover, Zenon
<1>5. made \in Int /\ MadeOnArrival(trip, sinceTick) = expectedWriteId + made
  BY <1>1 DEF MadeOnArrival
<1> HIDE DEF late, early
<1>6. made <= latency + 1 + late
  <2>1. trip <= avg + TickDuration * late /\ trip \in Int /\ late \in Int /\ sinceTick \in Int
    BY <1>1, <1>3
  <2> QED BY <1>1, <2>1, QuotientOfSum, Zenon
<1>7. latency <= made + early
  <2>1. /\ avg <= (sinceTick + trip) + TickDuration * early
        /\ sinceTick + trip \in Int /\ early \in Int
    BY <1>1, <1>4
  <2> QED BY <1>1, <2>1, QuotientOfSmaller, Zenon
<1>8. LatencyInTicksRoundedUp = latency + 1
  BY <1>1 DEF LatencyInTicksRoundedUp, UnsignedLatency
<1> HIDE DEF avg, latency, made
<1>9. /\ BufferDeltaAddTickCount \in Reserves /\ BufferDeltaAddTickCount \in 0..5
      /\ \A r \in Reserves : r \in Int /\ r <= BufferDeltaAddTickCount
  BY <1>1, AddsLargestReserve, Zenon
<1>10. OptimalStepIdToSend = expectedWriteId + (latency + 1 + BufferDeltaAddTickCount)
  BY <1>1, <1>2, <1>8, <1>9 DEF OptimalStepIdToSend, OptimalSendPredictionTickCount
<1>11. OptimalStepIdToSend - MadeOnArrival(trip, sinceTick) = latency + 1 + BufferDeltaAddTickCount - made
  BY <1>1, <1>2, <1>5, <1>9, <1>10
<1>12. \A r \in Reserves : r <= (latency + 1 + BufferDeltaAddTickCount - made) + late
  BY <1>2, <1>3, <1>5, <1>6, <1>9
<1>13. latency + 1 + BufferDeltaAddTickCount - made <= BufferDeltaAddTickCount + 1 + early
  BY <1>2, <1>4, <1>5, <1>7, <1>9
<1> QED BY <1>9, <1>11, <1>12, <1>13 DEF late, early

\* nimbleClientOptimalStepIdToSend is right for every tick length, latency and
\* jitter: a step sent with the id it returns reaches the server when it is
\* due, late or early by no more than its trip differs from the extremes.
THEOREM ArrivesInTime == PredictionSpec => []StepArrivesInTime
BY InvArrivesInTime, PredictionInvariant, PTL
================================================================================
