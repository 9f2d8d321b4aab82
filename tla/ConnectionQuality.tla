--------------------------- MODULE ConnectionQuality ---------------------------
(***************************************************************************)
(* The disconnect decision of connection_quality.c: two counters of        *)
(* updates without news from the server, a counter of how long the client  *)
(* has been considering to disconnect, and the reason it finally gives up  *)
(* for.  The rating shown to the user (qualityRating and what only feeds   *)
(* it: latency, jitter, droppedDatagramCounter, the hold-positive          *)
(* warnings) takes no part in the decision and is not modelled here.       *)
(*                                                                         *)
(* NimbleClient extends this module and calls its actions; QualitySpec is  *)
(* what the component does under any caller that stops updating once a     *)
(* reason is set, as checkIfDisconnectIsNeeded makes the client do.        *)
(***************************************************************************)
EXTENDS Integers

CONSTANTS
    MaxTicksWithoutDatagrams,   \* maxTicksWithoutDatagrams, 40 in the code
    MaxTicksWithoutSteps,       \* maxTicksWithoutSteps, 15 in the code
    GiveUpAfter                 \* consideringDisconnectCounter > 60 gives up

ASSUME QualityAssumption ==
    /\ MaxTicksWithoutDatagrams \in Nat \ {0}
    /\ MaxTicksWithoutSteps \in Nat
    /\ GiveUpAfter \in Nat
    /\ MaxTicksWithoutSteps < MaxTicksWithoutDatagrams

VARIABLES
    ticksWithoutDatagrams,      \* ticksWithoutIncomingDatagrams
    ticksWithoutSteps,          \* ticksWithoutAuthoritativeStepsFromInSerialize
    considering,                \* consideringDisconnectCounter
    reason                      \* NimbleConnectionQualityDisconnectReason

qualityVars == <<ticksWithoutDatagrams, ticksWithoutSteps, considering, reason>>

Reasons == {"KeepConnection", "NotReceivingSteps", "NotReceivingDatagrams"}

QualityTypeOK ==
    /\ ticksWithoutDatagrams \in Nat
    /\ ticksWithoutSteps \in Nat
    /\ considering \in Nat
    /\ reason \in Reasons

-----------------------------------------------------------------------------
(* The operations                                                          *)

\* Mutant: the steps check fires one update late.
EvaluateStepsLate(datagrams, steps) ==
    CASE datagrams >= MaxTicksWithoutDatagrams -> "NotReceivingDatagrams"
      [] datagrams < MaxTicksWithoutDatagrams /\ steps > MaxTicksWithoutSteps + 1 -> "NotReceivingSteps"
      [] OTHER -> "KeepConnection"

\* What evaluate() recommends: the datagram check has precedence.
Evaluate(datagrams, steps) ==
    CASE datagrams >= MaxTicksWithoutDatagrams -> "NotReceivingDatagrams"
      [] datagrams < MaxTicksWithoutDatagrams /\ steps > MaxTicksWithoutSteps -> "NotReceivingSteps"
      [] OTHER -> "KeepConnection"

QualityInit ==
    /\ ticksWithoutDatagrams = 0
    /\ ticksWithoutSteps = 0
    /\ considering = 0
    /\ reason = "KeepConnection"

QualityReset ==
    /\ ticksWithoutDatagrams' = 0
    /\ ticksWithoutSteps' = 0
    /\ considering' = 0
    /\ reason' = "KeepConnection"

\* One update of a synced client, with what a good verdict leaves of the
\* counter and the limit beyond which a bad one is final.
Judge(forgiven, limit) ==
    /\ ticksWithoutDatagrams' = ticksWithoutDatagrams + 1
    /\ ticksWithoutSteps' = ticksWithoutSteps + 1
    /\ LET verdict == Evaluate(ticksWithoutDatagrams + 1, ticksWithoutSteps + 1)
       IN  \/ /\ verdict = "KeepConnection"
              /\ considering' = forgiven
              /\ UNCHANGED reason
           \/ /\ verdict # "KeepConnection"
              /\ considering' = considering + 1
              /\ reason' = IF considering + 1 > limit THEN verdict ELSE reason

\* Mutants: the counter is decremented at zero; the limit is one lower.
QualityUpdateUnderflows == Judge(considering - 1, GiveUpAfter)
QualityUpdateHasty == Judge(IF considering > 0 THEN considering - 1 ELSE 0, GiveUpAfter - 1)

QualityUpdate == Judge(IF considering > 0 THEN considering - 1 ELSE 0, GiveUpAfter)

\* A datagram other than a game step response was fed without error.
ReceivedUsableDatagram ==
    /\ ticksWithoutDatagrams' = 0
    /\ UNCHANGED <<ticksWithoutSteps, considering, reason>>

\* Mutant: the datagram that carried the steps is not counted as a datagram.
ReceivedStepsOnly ==
    /\ ticksWithoutSteps' = 0
    /\ UNCHANGED <<ticksWithoutDatagrams, considering, reason>>

\* A game step response was fed: its handler reports the authoritative
\* steps, and the receive loop then reports the datagram itself.
ReceivedAuthoritativeSteps ==
    /\ ticksWithoutSteps' = 0
    /\ ticksWithoutDatagrams' = 0
    /\ UNCHANGED <<considering, reason>>

ShouldDisconnect(why) == why # "KeepConnection"

QualityNext ==
    \/ ~ShouldDisconnect(reason) /\ QualityUpdate
    \/ ReceivedUsableDatagram
    \/ ReceivedAuthoritativeSteps
    \/ QualityReset

QualitySpec == QualityInit /\ [][QualityNext]_qualityVars

-----------------------------------------------------------------------------
(* Properties                                                              *)

\* Every update without steps beyond the tolerated ones has been held
\* against the connection: forgiveness (the decrement) never eats into it.
SilenceIsCounted ==
    ticksWithoutSteps > MaxTicksWithoutSteps =>
        considering >= ticksWithoutSteps - MaxTicksWithoutSteps

\* Silence on the step stream is never shorter than silence on the wire,
\* so the datagram check cannot fire on a connection that delivers steps.
StepSilenceDominates == ticksWithoutDatagrams <= ticksWithoutSteps

\* The reason is set exactly when the counter passes the limit, in the same
\* update, and the counter never passes it further.
GivesUpAtTheLimit ==
    /\ considering <= GiveUpAfter + 1
    /\ ShouldDisconnect(reason) <=> considering = GiveUpAfter + 1

\* A server that falls silent is given up on within a fixed number of
\* updates: 15 tolerated and 61 held against it (76) in the code.
SilenceIsBounded == ticksWithoutSteps <= MaxTicksWithoutSteps + GiveUpAfter + 1

\* The inductive invariant.
QualityInv ==
    /\ QualityTypeOK
    /\ StepSilenceDominates
    /\ SilenceIsCounted
    /\ GivesUpAtTheLimit
================================================================================
