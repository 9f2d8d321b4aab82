-------------------------- MODULE QualityTimingProofs --------------------------
(* Proofs about QualityTiming, for every choice of the thresholds. *)
EXTENDS QualityTiming, ConnectionQualityProofs

\* An update keeps the invariant: a bad verdict needs more updates than are
\* tolerated, and each one counted against the connection is one more.
LEMMA TimedUpdateKeepsInv ==
    ASSUME TimingInv, TimedUpdate
    PROVE  TimingInv'
  <1> DEFINE d == ticksWithoutDatagrams + 1
             s == ticksWithoutSteps + 1
             verdict == Evaluate(d, s)
  <1> USE QualityAssumption
  <1>1. /\ d \in Nat /\ s \in Nat /\ d <= s
        /\ updates \in Nat /\ s <= updates + 1
        /\ considering \in Nat
        /\ considering > 0 => updates >= MaxTicksWithoutSteps + considering
        /\ reason = "KeepConnection"
    BY DEF TimingInv, QualityTypeOK, TimedUpdate, ShouldDisconnect
  <1>2. verdict \in Reasons /\ (verdict # "KeepConnection" <=> s > MaxTicksWithoutSteps)
    BY <1>1, BadVerdict
  <1>3. ticksWithoutDatagrams' = d /\ ticksWithoutSteps' = s /\ updates' = updates + 1
    BY DEF TimedUpdate, QualityUpdate, Judge
  <1>4. CASE verdict = "KeepConnection"
    <2>1. /\ considering' = IF considering > 0 THEN considering - 1 ELSE 0
          /\ reason' = reason
      BY <1>4 DEF TimedUpdate, QualityUpdate, Judge
    <2> QED
      BY <1>1, <1>2, <1>3, <2>1 DEF TimingInv, QualityTypeOK, Reasons, ShouldDisconnect
  <1>5. CASE verdict # "KeepConnection"
    <2>1. /\ considering' = considering + 1
          /\ reason' = IF considering + 1 > GiveUpAfter THEN verdict ELSE reason
      BY <1>5 DEF TimedUpdate, QualityUpdate, Judge
    <2>2. updates + 1 >= MaxTicksWithoutSteps + (considering + 1)
      BY <1>1, <1>2, <1>5
    <2> QED
      BY <1>1, <1>2, <1>3, <2>1, <2>2 DEF TimingInv, QualityTypeOK, Reasons, ShouldDisconnect
  <1> QED BY <1>4, <1>5

\* The inductive invariant of TimingSpec.
THEOREM TimingInvariant == TimingSpec => []TimingInv
  <1> USE QualityAssumption
  <1>1. TimingInit => TimingInv
    BY DEF TimingInit, QualityInit, TimingInv, QualityTypeOK, Reasons, ShouldDisconnect
  <1>2. TimingInv /\ [TimingNext]_timingVars => TimingInv'
    <2> SUFFICES ASSUME TimingInv, [TimingNext]_timingVars PROVE TimingInv'
      OBVIOUS
    <2>1. CASE TimedUpdate
      BY <2>1, TimedUpdateKeepsInv
    <2>2. CASE ReceivedUsableDatagram /\ UNCHANGED updates
      BY <2>2 DEF ReceivedUsableDatagram, TimingInv, QualityTypeOK, Reasons, ShouldDisconnect
    <2>3. CASE ReceivedAuthoritativeSteps /\ UNCHANGED updates
      BY <2>3 DEF ReceivedAuthoritativeSteps, TimingInv, QualityTypeOK, Reasons, ShouldDisconnect
    <2>4. CASE QualityReset /\ updates' = 0
      BY <2>4 DEF QualityReset, TimingInv, QualityTypeOK, Reasons, ShouldDisconnect
    <2>5. CASE UNCHANGED timingVars
      BY <2>5 DEF timingVars, qualityVars, TimingInv, QualityTypeOK, Reasons, ShouldDisconnect
    <2> QED BY <2>1, <2>2, <2>3, <2>4, <2>5 DEF TimingNext
  <1> QED BY <1>1, <1>2, PTL DEF TimingSpec

\* connection_quality.c never gives up on a connection before it has been
\* updated MaxTicksWithoutSteps + GiveUpAfter + 1 times (76 in the code).
THEOREM GivenUpInTime == TimingSpec => []NotGivenUpEarly
  <1>1. TimingInv => NotGivenUpEarly
    BY QualityAssumption DEF TimingInv, QualityTypeOK, NotGivenUpEarly
  <1> QED BY <1>1, TimingInvariant, PTL
================================================================================
