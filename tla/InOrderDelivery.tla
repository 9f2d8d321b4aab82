---------------------------- MODULE InOrderDelivery ----------------------------
(***************************************************************************)
(* What the ordered datagram ids promise about one direction of an         *)
(* unreliable transport: between two restarts of the receiver a datagram   *)
(* is taken at most once and never after one that was sent later.          *)
(***************************************************************************)
EXTENDS Integers

VARIABLES
    sent,       \* number of datagrams sent so far
    inFlight,   \* those that may still arrive
    last,       \* the last one taken, 0 if none
    taken       \* how many were taken

vars == <<sent, inFlight, last, taken>>

Init == sent = 0 /\ inFlight = {} /\ last = 0 /\ taken = 0

Send ==
    /\ sent' = sent + 1
    /\ inFlight' \in {inFlight, inFlight \cup {sent + 1}}
    /\ UNCHANGED <<last, taken>>

\* A network that duplicates may keep what it delivers.
Take(n) ==
    /\ n \in inFlight /\ n > last
    /\ last' = n /\ taken' = taken + 1
    /\ inFlight' \in {inFlight, inFlight \ {n}}
    /\ UNCHANGED sent

Lose(n) ==
    /\ n \in inFlight
    /\ inFlight' = inFlight \ {n}
    /\ UNCHANGED <<sent, last, taken>>

Restart == last' = 0 /\ taken' = 0 /\ UNCHANGED <<sent, inFlight>>

Next ==
    \/ Send
    \/ \E n \in inFlight : Take(n) \/ Lose(n)
    \/ Restart

Spec == Init /\ [][Next]_vars
================================================================================
