------------------------------ MODULE StepExchange ------------------------------
(***************************************************************************)
(* What the exchange of steps promises to an application, without          *)
(* datagrams, windows and acknowledgements: two streams of steps that both *)
(* start at the step the game state was captured at.  Down, the steps the  *)
(* server made come in order and none before it is made.  Up, the server   *)
(* gets the predicted steps in order, and the client keeps each of them    *)
(* until then.                                                             *)
(***************************************************************************)
EXTENDS Integers

VARIABLES
    playing,    \* the client is synced
    made,       \* next step the server makes
    delivered,  \* next step the client gets
    predicted,  \* next step the application predicts
    received,   \* next predicted step the server gets
    kept        \* first predicted step the client keeps

vars == <<playing, made, delivered, predicted, received, kept>>

Init ==
    /\ playing = FALSE /\ made = 0
    /\ delivered = 0 /\ predicted = 0 /\ received = 0 /\ kept = 0

Make == made' = made + 1 /\ UNCHANGED <<playing, delivered, predicted, received, kept>>

\* From the game state of step n on.
Start(n) ==
    /\ ~playing /\ playing' = TRUE
    /\ delivered' = n /\ predicted' = n /\ received' = n /\ kept' = n
    /\ UNCHANGED made

Deliver ==
    /\ playing
    /\ delivered' \in delivered..made
    /\ kept' \in kept..received
    /\ UNCHANGED <<playing, made, predicted, received>>

Predict ==
    /\ playing
    /\ predicted' = predicted + 1
    /\ UNCHANGED <<playing, made, delivered, received, kept>>

Receive ==
    /\ playing
    /\ received' \in received..predicted
    /\ UNCHANGED <<playing, made, delivered, predicted, kept>>

Stop ==
    /\ playing /\ playing' = FALSE
    /\ delivered' = 0 /\ predicted' = 0 /\ received' = 0 /\ kept' = 0
    /\ UNCHANGED made

Next ==
    \/ Make
    \/ \E n \in 0..made : Start(n)
    \/ Deliver
    \/ Predict
    \/ Receive
    \/ Stop

Spec == Init /\ [][Next]_vars
================================================================================
