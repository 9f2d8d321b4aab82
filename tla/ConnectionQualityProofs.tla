------------------------ MODULE ConnectionQualityProofs ------------------------
(* Proofs about ConnectionQuality, for every choice of the thresholds. *)
EXTENDS ConnectionQuality, TLAPS

\* The two kinds of bad verdict of evaluate(): both need more updates
\* without steps than are tolerated.
LEMMA BadVerdict ==
    ASSUME NEW d \in Nat, NEW s \in Nat, d <= s
    PROVE  /\ Evaluate(d, s) \in Reasons
           /\ Evaluate(d, s) # "KeepConnection" <=> s > MaxTicksWithoutSteps
  BY QualityAssumption DEF Evaluate, Reasons

\* The inductive invariant holds initially.
LEMMA QualityInvInit == QualityInit => QualityInv
  BY QualityAssumption
  DEF QualityInit, QualityInv, QualityTypeOK, Reasons, StepSilenceDominates, SilenceIsCounted,
      GivesUpAtTheLimit, ShouldDisconnect

\* An update keeps it, as long as no reason has been set.
LEMMA QualityUpdateKeepsInv ==
    ASSUME QualityInv, ~ShouldDisconnect(reason), QualityUpdate
    PROVE  QualityInv'
  <1> DEFINE d == ticksWithoutDatagrams + 1
             s == ticksWithoutSteps + 1
             verdict == Evaluate(d, s)
  <1>1. d \in Nat /\ s \in Nat /\ d <= s
    BY DEF QualityInv, QualityTypeOK, StepSilenceDominates
  <1>2. verdict \in Reasons /\ (verdict # "KeepConnection" <=> s > MaxTicksWithoutSteps)
    BY <1>1, BadVerdict
  <1>3. ticksWithoutDatagrams' = d /\ ticksWithoutSteps' = s
    BY DEF QualityUpdate, Judge
  <1>4. reason = "KeepConnection" /\ considering \in Nat /\ considering <= GiveUpAfter
    BY QualityAssumption DEF QualityInv, QualityTypeOK, GivesUpAtTheLimit, ShouldDisconnect
  <1>5. CASE verdict = "KeepConnection"
    <2>1. /\ considering' = IF considering > 0 THEN considering - 1 ELSE 0
          /\ reason' = reason
      BY <1>5 DEF QualityUpdate, Judge
    <2> QED
      BY <1>1, <1>2, <1>3, <1>4, <1>5, <2>1, QualityAssumption
      DEF QualityInv, QualityTypeOK, Reasons, StepSilenceDominates, SilenceIsCounted,
          GivesUpAtTheLimit, ShouldDisconnect
  <1>6. CASE verdict # "KeepConnection"
    <2>1. /\ considering' = considering + 1
          /\ reason' = IF considering + 1 > GiveUpAfter THEN verdict ELSE reason
      BY <1>6 DEF QualityUpdate, Judge
    <2>2. s > MaxTicksWithoutSteps + 1 => considering >= ticksWithoutSteps - MaxTicksWithoutSteps
      BY <1>1, QualityAssumption DEF QualityInv, QualityTypeOK, SilenceIsCounted
    <2>3. SilenceIsCounted'
      BY <1>1, <1>3, <1>4, <2>1, <2>2, QualityAssumption DEF QualityInv, QualityTypeOK, SilenceIsCounted
    <2> QED
      BY <1>1, <1>2, <1>3, <1>4, <1>6, <2>1, <2>3, QualityAssumption
      DEF QualityInv, QualityTypeOK, Reasons, StepSilenceDominates, GivesUpAtTheLimit, ShouldDisconnect
  <1> QED BY <1>5, <1>6

\* Every step of the component keeps it.
LEMMA QualityInvStep == QualityInv /\ [QualityNext]_qualityVars => QualityInv'
  <1> SUFFICES ASSUME QualityInv, [QualityNext]_qualityVars PROVE QualityInv'
    OBVIOUS
  <1> USE QualityAssumption DEF QualityInv, QualityTypeOK, Reasons, StepSilenceDominates,
          SilenceIsCounted, GivesUpAtTheLimit, ShouldDisconnect
  <1>1. CASE ~ShouldDisconnect(reason) /\ QualityUpdate
    BY <1>1, QualityUpdateKeepsInv
  <1>2. CASE ReceivedUsableDatagram
    BY <1>2 DEF ReceivedUsableDatagram
  <1>3. CASE ReceivedAuthoritativeSteps
    BY <1>3 DEF ReceivedAuthoritativeSteps
  <1>4. CASE QualityReset
    BY <1>4 DEF QualityReset
  <1>5. CASE UNCHANGED qualityVars
    BY <1>5 DEF qualityVars
  <1> QED BY <1>1, <1>2, <1>3, <1>4, <1>5 DEF QualityNext

\* The invariant holds of the component: the counters are natural numbers,
\* tolerated silence is all that is not held against the connection, and the
\* reason is set exactly at the limit.
THEOREM QualityInvariant == QualitySpec => []QualityInv
  BY QualityInvInit, QualityInvStep, PTL DEF QualitySpec

\* The counters of connection_quality.c never underflow, and the reason is
\* always one of the three.
THEOREM QualityTypes == QualitySpec => []QualityTypeOK
  <1>1. QualityInv => QualityTypeOK BY DEF QualityInv
  <1> QED BY <1>1, QualityInvariant, PTL

\* Steps have been silent for at least as long as datagrams: the two are
\* reset in different handlers, and every game step response resets both.
THEOREM StepsDominate == QualitySpec => []StepSilenceDominates
  <1>1. QualityInv => StepSilenceDominates BY DEF QualityInv
  <1> QED BY <1>1, QualityInvariant, PTL

\* connection_quality.c holds every update without steps beyond the
\* tolerated ones against the connection: forgiveness never eats into it.
THEOREM SilenceCounted == QualitySpec => []SilenceIsCounted
  <1>1. QualityInv => SilenceIsCounted BY DEF QualityInv
  <1> QED BY <1>1, QualityInvariant, PTL

\* connection_quality.c gives up exactly when the counter passes the limit.
THEOREM GiveUpAtTheLimit == QualitySpec => []GivesUpAtTheLimit
  <1>1. QualityInv => GivesUpAtTheLimit BY DEF QualityInv
  <1> QED BY <1>1, QualityInvariant, PTL

\* A server that falls silent is given up on after a fixed number of
\* updates, whatever the thresholds are.
THEOREM SilenceBounded == QualitySpec => []SilenceIsBounded
  <1>1. QualityInv => SilenceIsBounded
    BY QualityAssumption
    DEF QualityInv, QualityTypeOK, SilenceIsCounted, GivesUpAtTheLimit, SilenceIsBounded
  <1> QED BY <1>1, QualityInvariant, PTL
================================================================================
