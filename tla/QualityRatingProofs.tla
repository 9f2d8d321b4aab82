-------------------------- MODULE QualityRatingProofs --------------------------
(***************************************************************************)
(* The rating is between 0 and 5 and agrees with the disconnect decision,  *)
(* for all thresholds.                                                     *)
(***************************************************************************)
EXTENDS QualityRating, ConnectionQualityProofs

\* Degradations: fractions between 0 and 1.
Fractions == {f \in Nat \X (Nat \ {0}) : f[1] <= f[2]}

LEMMA MonotoneProduct ==
    ASSUME NEW a \in Nat, NEW b \in Nat, NEW c \in Nat, NEW d \in Nat, a <= c, b <= d
    PROVE  a * b <= c * d
<1>1. a * b <= a * d
  OBVIOUS
<1>2. a * d <= c * d
  OBVIOUS
<1> QED
  BY <1>1, <1>2

LEMMA DegradeIsFraction ==
    ASSUME NEW v \in Nat, NEW divisor \in Nat, NEW lowerThreshold \in Nat, lowerThreshold < divisor
    PROVE  DegradeLowIsBetter(v, divisor, lowerThreshold) \in Fractions
BY DEF DegradeLowIsBetter, Fractions

LEMMA TimesIsFraction ==
    ASSUME NEW f \in Fractions, NEW g \in Fractions
    PROVE  Times(f, g) \in Fractions /\ (f[1] = 0 \/ g[1] = 0 => Times(f, g)[1] = 0)
<1>1. f[1] \in Nat /\ f[2] \in Nat /\ f[2] >= 1 /\ f[1] <= f[2]
      /\ g[1] \in Nat /\ g[2] \in Nat /\ g[2] >= 1 /\ g[1] <= g[2]
  BY DEF Fractions
<1>2. f[1] * g[1] \in Nat /\ f[2] * g[2] \in Nat /\ f[2] * g[2] >= 1
  BY <1>1
<1>3. f[1] * g[1] <= f[2] * g[2]
  BY <1>1, MonotoneProduct
<1>4. f[1] = 0 \/ g[1] = 0 => f[1] * g[1] = 0
  BY <1>1
<1> QED
  BY <1>2, <1>3, <1>4 DEF Times, Fractions

LEMMA RatingOfFraction ==
    ASSUME NEW f \in Fractions, NEW r \in Ratings(f)
    PROVE  r \in 0..Best /\ (f[1] = 0 => r = 0)
<1> DEFINE whole == (5 * f[1]) \div f[2]
<1>1. f[1] \in Nat /\ f[2] \in Nat /\ f[2] >= 1 /\ f[1] <= f[2]
  BY DEF Fractions
<1>2. whole \in Nat /\ whole * f[2] <= 5 * f[1]
  BY <1>1
<1>3. whole <= 5
  <2> SUFFICES ASSUME whole >= 6 PROVE FALSE
    BY <1>2
  <2>1. 6 * f[2] <= whole * f[2]
    BY <1>1, <1>2, MonotoneProduct
  <2> QED
    BY <1>1, <1>2, <2>1
<1>4. f[1] = 0 => whole = 0
  BY <1>1
<1> QED
  BY <1>2, <1>3, <1>4 DEF Ratings, Best

\* What an evaluation leaves, for any counters it may be made with.
LEMMA EvaluatesRates ==
    ASSUME NEW d \in Nat, NEW s \in Nat, NEW drops \in Nat,
           latency \in Latencies \cup {NoLatency}, lastLatency \in Latencies \cup {0},
           Evaluates(d, s, drops)
    PROVE  /\ rating' \in 0..Best
           /\ lastLatency' \in Latencies \cup {0}
           /\ s > MaxTicksWithoutSteps => rating' = 0
<1> DEFINE silence == Times(DatagramsDegrade(d), StepsDegrade(s))
           lag == Times(LatencyDegrade, JitterDegrade)
           total == Times(Times(silence, lag), DegradeLowIsBetter(drops, DroppedMax, DroppedFrom))
<1>1. DatagramsDegrade(d) \in Fractions /\ StepsDegrade(s) \in Fractions
      /\ DegradeLowIsBetter(drops, DroppedMax, DroppedFrom) \in Fractions
  BY QualityAssumption, RatingAssumption, DegradeIsFraction DEF DatagramsDegrade, StepsDegrade
<1>2. LatencyDegrade \in Fractions
  <2>1. <<1, 1>> \in Fractions
    BY DEF Fractions
  <2>2. latency # NoLatency => AsSize(latency) \in Nat
    BY RatingAssumption DEF AsSize
  <2> QED
    BY <2>1, <2>2, RatingAssumption, DegradeIsFraction DEF LatencyDegrade
<1>3. JitterDegrade \in Fractions
  BY DEF JitterDegrade, Fractions
<1>4. s > MaxTicksWithoutSteps => StepsDegrade(s)[1] = 0
  BY QualityAssumption, RatingAssumption DEF StepsDegrade, DegradeLowIsBetter
<1>5. silence \in Fractions /\ (s > MaxTicksWithoutSteps => silence[1] = 0)
  BY <1>1, <1>4, TimesIsFraction
<1>6. Times(silence, lag) \in Fractions /\ (s > MaxTicksWithoutSteps => Times(silence, lag)[1] = 0)
  BY <1>2, <1>3, <1>5, TimesIsFraction
<1>7. total \in Fractions /\ (s > MaxTicksWithoutSteps => total[1] = 0)
  BY <1>1, <1>6, TimesIsFraction
<1>8. rating' \in Ratings(total) /\ lastLatency' \in {latency, lastLatency}
      /\ (latency = NoLatency => lastLatency' = lastLatency)
  BY DEF Evaluates
<1>9. rating' \in 0..Best /\ (total[1] = 0 => rating' = 0)
  BY <1>7, <1>8, RatingOfFraction
<1> QED
  BY <1>7, <1>8, <1>9

\* The inductive invariant: what the decision's proof needs, and that the
\* rating follows the verdict.
RatingInv ==
    /\ RatingTypeOK
    /\ QualityInv
    /\ BadVerdictIsRatedZero

\* The rating only watches the decision: it takes its steps or none.
LEMMA RatingKeepsQuality ==
    ASSUME QualityInv, [RatingNext]_ratingVars
    PROVE  QualityInv'
<1>1. [QualityNext]_qualityVars
  BY DEF RatingNext, ratingVars, RatedUpdate, RatedWith, Received, DroppedDatagrams, GameStepLatency,
         Describe, ResetRating, QualityNext
<1> QED
  BY <1>1, QualityInvStep

\* An evaluation rates 0 where the verdict is bad.
LEMMA EvaluationKeepsInv ==
    ASSUME RatingInv, QualityInv', NEW drops \in Nat, dropped' = drops,
           latency' = latency, reports' = reports,
           Evaluates(ticksWithoutDatagrams', ticksWithoutSteps', drops)
    PROVE  RatingInv'
<1>1. ticksWithoutDatagrams' \in Nat /\ ticksWithoutSteps' \in Nat
      /\ ticksWithoutDatagrams' <= ticksWithoutSteps'
  BY DEF QualityInv, QualityTypeOK, StepSilenceDominates
<1>2. /\ rating' \in 0..Best
      /\ lastLatency' \in Latencies \cup {0}
      /\ ticksWithoutSteps' > MaxTicksWithoutSteps => rating' = 0
  BY <1>1, EvaluatesRates DEF RatingInv, RatingTypeOK
<1>3. BadVerdictIsRatedZero'
  BY <1>1, <1>2, BadVerdict DEF BadVerdictIsRatedZero
<1>4. RatingTypeOK'
  BY <1>2 DEF RatingInv, RatingTypeOK, QualityInv
<1> QED
  BY <1>3, <1>4 DEF RatingInv

\* Silence that is not longer and a rating that is the same keep the rest.
LEMMA NoWorseKeepsInv ==
    ASSUME RatingInv, QualityInv', rating' = rating,
           ticksWithoutSteps' \in {0, ticksWithoutSteps},
           dropped' \in Nat, latency' \in Latencies \cup {NoLatency},
           lastLatency' \in Latencies \cup {0}, reports' \in 0..MaxReports
    PROVE  RatingInv'
<1>1. /\ ticksWithoutDatagrams \in Nat /\ ticksWithoutSteps \in Nat
      /\ ticksWithoutDatagrams <= ticksWithoutSteps
      /\ ticksWithoutDatagrams' \in Nat /\ ticksWithoutSteps' \in Nat
      /\ ticksWithoutDatagrams' <= ticksWithoutSteps'
  BY DEF RatingInv, QualityInv, QualityTypeOK, StepSilenceDominates
<1>2. BadVerdictIsRatedZero'
  BY <1>1, BadVerdict, QualityAssumption DEF RatingInv, BadVerdictIsRatedZero
<1> QED
  BY <1>2 DEF RatingInv, RatingTypeOK, QualityInv

LEMMA RatingInvInit == RatingInit => RatingInv
<1> SUFFICES ASSUME RatingInit PROVE RatingInv
  OBVIOUS
<1>1. QualityInv
  BY QualityInvInit DEF RatingInit
<1>2. BadVerdictIsRatedZero
  BY QualityAssumption DEF RatingInit, QualityInit, BadVerdictIsRatedZero, Evaluate
<1> QED
  BY <1>1, <1>2, RatingAssumption DEF RatingInit, RatingInv, RatingTypeOK, QualityInv

LEMMA RatingInvStep == RatingInv /\ [RatingNext]_ratingVars => RatingInv'
<1> SUFFICES ASSUME RatingInv, [RatingNext]_ratingVars PROVE RatingInv'
  OBVIOUS
<1>1. QualityInv'
  BY RatingKeepsQuality DEF RatingInv
<1>2. CASE RatedUpdate
  <2> DEFINE drops == IF dropped > 0 THEN dropped - 1 ELSE 0
  <2>1. drops \in Nat
    BY DEF RatingInv, RatingTypeOK
  <2>2. dropped' = drops /\ latency' = latency /\ reports' = reports
        /\ Evaluates(ticksWithoutDatagrams', ticksWithoutSteps', drops)
    BY <1>2 DEF RatedUpdate, RatedWith
  <2> QED
    BY <1>1, <2>1, <2>2, EvaluationKeepsInv
<1>3. CASE Describe
  <2>1. dropped \in Nat
    BY DEF RatingInv, RatingTypeOK
  <2>2. dropped' = dropped /\ latency' = latency /\ reports' = reports
        /\ ticksWithoutDatagrams' = ticksWithoutDatagrams /\ ticksWithoutSteps' = ticksWithoutSteps
        /\ Evaluates(ticksWithoutDatagrams, ticksWithoutSteps, dropped)
    BY <1>3 DEF Describe, qualityVars
  <2>3. Evaluates(ticksWithoutDatagrams', ticksWithoutSteps', dropped)
    BY <2>2
  <2> QED
    BY <1>1, <2>1, <2>2, <2>3, EvaluationKeepsInv
<1>4. CASE Received(ReceivedUsableDatagram) \/ Received(ReceivedAuthoritativeSteps)
  BY <1>1, <1>4, NoWorseKeepsInv
  DEF Received, ReceivedUsableDatagram, ReceivedAuthoritativeSteps, RatingInv, RatingTypeOK
<1>5. ASSUME NEW delta \in 1..(DroppedMax + 1), DroppedDatagrams(delta)
      PROVE  RatingInv'
  <2>1. dropped' \in Nat
    BY <1>5, RatingAssumption DEF DroppedDatagrams, RatingInv, RatingTypeOK
  <2>2. reports' \in 0..MaxReports
    BY <1>5, RatingAssumption DEF DroppedDatagrams, Report, RatingInv, RatingTypeOK
  <2> QED
    BY <1>1, <1>5, <2>1, <2>2, NoWorseKeepsInv
    DEF DroppedDatagrams, qualityVars, RatingInv, RatingTypeOK
<1>6. ASSUME NEW average \in Latencies, GameStepLatency(average)
      PROVE  RatingInv'
  <2>1. reports' \in 0..MaxReports
    BY <1>6, RatingAssumption DEF GameStepLatency, Report, RatingInv, RatingTypeOK
  <2> QED
    BY <1>1, <1>6, <2>1, NoWorseKeepsInv
    DEF GameStepLatency, qualityVars, RatingInv, RatingTypeOK
<1>7. CASE ResetRating
  BY <1>1, <1>7, NoWorseKeepsInv
  DEF ResetRating, QualityReset, RatingInv, RatingTypeOK
<1>8. CASE UNCHANGED ratingVars
  BY <1>1, <1>8, NoWorseKeepsInv DEF ratingVars, qualityVars, RatingInv, RatingTypeOK
<1> QED
  BY <1>2, <1>3, <1>4, <1>5, <1>6, <1>7, <1>8 DEF RatingNext

\* The rating and its inputs stay in their ranges: no rounding and no burst
\* of drops takes the rating out of 0 to 5.
THEOREM RatingTypeCorrect == RatingSpec => []RatingTypeOK
<1>1. RatingInv => RatingTypeOK
  BY DEF RatingInv
<1> QED
  BY <1>1, RatingInvInit, RatingInvStep, PTL DEF RatingSpec

\* A recommendation to disconnect is always shown as the lowest rating.
THEOREM BadVerdictRatedZero == RatingSpec => []BadVerdictIsRatedZero
<1>1. RatingInv => BadVerdictIsRatedZero
  BY DEF RatingInv
<1> QED
  BY <1>1, RatingInvInit, RatingInvStep, PTL DEF RatingSpec
================================================================================
