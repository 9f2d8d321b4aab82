----------------------------- MODULE QualityTiming -----------------------------
(***************************************************************************)
(* How soon the quality may give up on a connection: ConnectionQuality     *)
(* with a history variable that counts the updates of a synced client      *)
(* since the last reset.                                                   *)
(***************************************************************************)
EXTENDS ConnectionQuality

CONSTANT MaxUpdates     \* updates between two resets

ASSUME TimingAssumption == MaxUpdates \in Nat

VARIABLE updates

timingVars == <<qualityVars, updates>>

TimingInit == QualityInit /\ updates = 0

TimedUpdate ==
    /\ ~ShouldDisconnect(reason)
    /\ updates < MaxUpdates
    /\ QualityUpdate
    /\ updates' = updates + 1

TimingNext ==
    \/ TimedUpdate
    \/ ReceivedUsableDatagram /\ UNCHANGED updates
    \/ ReceivedAuthoritativeSteps /\ UNCHANGED updates
    \/ QualityReset /\ updates' = 0

TimingSpec == TimingInit /\ [][TimingNext]_timingVars

-----------------------------------------------------------------------------
\* A connection is not given up on before it has been up for 76 updates (15
\* tolerated and 61 held against it), however the server's datagrams fall:
\* no threshold is reached sooner by combining the two kinds of silence.
NotGivenUpEarly ==
    ShouldDisconnect(reason) => updates >= MaxTicksWithoutSteps + GiveUpAfter + 1

\* The inductive invariant behind it: what is held against the connection
\* took that many updates on top of the tolerated ones.
TimingInv ==
    /\ QualityTypeOK
    /\ updates \in Nat
    /\ ticksWithoutDatagrams <= ticksWithoutSteps
    /\ ticksWithoutSteps <= updates
    /\ considering > 0 => updates >= MaxTicksWithoutSteps + considering
    /\ ShouldDisconnect(reason) => considering > GiveUpAfter
================================================================================
