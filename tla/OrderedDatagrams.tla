--------------------------- MODULE OrderedDatagrams ---------------------------
(***************************************************************************)
(* One direction of the transport with the ids of its datagrams, which     *)
(* wrap around: the sender is the client's code for sending (prepare_-     *)
(* header.c, outgoing.c, send_steps.c), the receiver its code for          *)
(* receiving (incoming.c), either of which the server mirrors at its end.  *)
(* The network loses, duplicates and reorders.                             *)
(*                                                                         *)
(* seq and the variables nextSeq, lastSeq and accepted are history: they   *)
(* number the datagrams without wrapping around and count those accepted,  *)
(* and no step depends on them, except for the bounds of the model and of  *)
(* the life of a datagram.                                                 *)
(***************************************************************************)
EXTENDS Integers

CONSTANTS
    IdCount,    \* ids before they wrap around
    Lifetime,   \* no datagram arrives after that many later ones were prepared
    MaxSeq      \* datagrams prepared

\* An id is taken for newer within half the range.
Half == IdCount \div 2

ASSUME OrderedAssumption ==
    /\ IdCount \in Nat /\ IdCount >= 4
    /\ Lifetime \in 1..(IdCount \div 2)
    /\ MaxSeq \in Nat

VARIABLES
    nextId,             \* orderedDatagramOut: the id of the next datagram
    wire,               \* datagrams under way: [seq, id]
    hasReceived, last,  \* orderedDatagramIn: the id last accepted, if any
    dropped,            \* datagrams reported as dropped
    nextSeq, lastSeq, accepted

orderedVars == <<nextId, wire, hasReceived, last, dropped, nextSeq, lastSeq, accepted>>

Ids == 0..(IdCount - 1)

OrderedTypeOK ==
    /\ nextId \in Ids
    /\ wire \subseteq [seq : Nat, id : Ids]
    /\ hasReceived \in BOOLEAN /\ last \in Ids
    /\ dropped \in Nat
    /\ nextSeq \in Nat /\ lastSeq \in Nat /\ accepted \in Nat

OrderedInit ==
    /\ nextId = 0
    /\ wire = {}
    /\ hasReceived = FALSE /\ last = 0
    /\ dropped = 0
    /\ nextSeq = 1 /\ lastSeq = 0 /\ accepted = 0

-----------------------------------------------------------------------------
(* Sending                                                                 *)

\* The bounds: of the model, and of the life of what is under way.
MayPrepare ==
    /\ nextSeq <= MaxSeq
    /\ \A d \in wire : nextSeq + 1 - d.seq <= Lifetime

\* Mutant: the id does not wrap around.
SuccessorUnwrapped(id) == id + 1

Successor(id) == IF id = IdCount - 1 THEN 0 ELSE id + 1

\* nimbleClientWriteHeader gives the datagram the next id, and
\* nimbleClientCommitHeader moves on from it: to id.
Committed(id) == nextId' = id /\ nextSeq' = nextSeq + 1

\* The transport takes the datagram, or refuses it.
Hands == wire' \in {wire, wire \cup {[seq |-> nextSeq, id |-> nextId]}}

ReceiverUnchanged == UNCHANGED <<hasReceived, last, dropped, lastSeq, accepted>>

\* Mutant: the id of the steps is not committed.
SendStepsUncommitted == MayPrepare /\ Committed(nextId) /\ Hands /\ ReceiverUnchanged

\* nimbleClientSendStepsToServer with steps to send; without any, and after
\* an error of the serialisation, the id is not committed and nothing changes.
SendSteps == MayPrepare /\ Committed(Successor(nextId)) /\ Hands /\ ReceiverUnchanged

\* The rest of handleState, with something to say.
SendMessage == MayPrepare /\ Committed(Successor(nextId)) /\ Hands /\ ReceiverUnchanged

\* The rest of handleState of a synced client that is not joining: the id of
\* a datagram that is only a header is committed and the datagram not sent.
SendHeaderOnly ==
    /\ MayPrepare
    /\ Committed(Successor(nextId))
    /\ UNCHANGED wire
    /\ ReceiverUnchanged

-----------------------------------------------------------------------------
(* Receiving                                                               *)

\* How far id is ahead of the one before, around the wrap.
Ahead(id, before) == IF id >= before THEN id - before ELSE id - before + IdCount

\* Mutants: the wrap is not considered; a delta of 0 is accepted.
IsNewerUnwrapped(id) == hasReceived => id > last
IsNewerOrSame(id) == hasReceived => Ahead(id, last) \in 0..(Half - 1)

\* orderedDatagramInLogicReceive returns a positive delta.
IsNewer(id) == hasReceived => Ahead(id, last) \in 1..(Half - 1)

\* Mutant: the datagram that arrived is reported too.
SkippedAndThis(id) == IF hasReceived THEN Ahead(id, last) ELSE 0

\* What nimbleClientFeed reports of a delta above 1, delta - 1; nothing is
\* known to be missing before the first datagram.
Skipped(id) == IF hasReceived /\ Ahead(id, last) > 1 THEN Ahead(id, last) - 1 ELSE 0

\* readAndCheckOrderedDatagram accepts the datagram.
Accept(d) ==
    /\ IsNewer(d.id)
    /\ hasReceived' = TRUE /\ last' = d.id /\ lastSeq' = d.seq /\ accepted' = accepted + 1
    /\ dropped' = dropped + Skipped(d.id)
    /\ wire' \in {wire, wire \ {d}}
    /\ UNCHANGED <<nextId, nextSeq>>

\* It returns -91 and nimbleClientFeed with it.
Refuse(d) ==
    /\ ~IsNewer(d.id)
    /\ wire' = wire \ {d}
    /\ UNCHANGED <<nextId, nextSeq>> /\ ReceiverUnchanged

Lose(d) ==
    /\ wire' = wire \ {d}
    /\ UNCHANGED <<nextId, nextSeq>> /\ ReceiverUnchanged

\* nimbleClientReset, at the receiving end: what is under way stays so.
ResetReceiver ==
    /\ hasReceived' = FALSE /\ last' = 0 /\ lastSeq' = 0 /\ accepted' = 0
    /\ dropped' = 0
    /\ UNCHANGED <<nextId, wire, nextSeq>>

OrderedNext ==
    \/ SendSteps
    \/ SendMessage
    \/ SendHeaderOnly
    \/ \E d \in wire : Accept(d)
    \/ \E d \in wire : Refuse(d)
    \/ \E d \in wire : Lose(d)
    \/ ResetReceiver

OrderedSpec == OrderedInit /\ [][OrderedNext]_orderedVars

-----------------------------------------------------------------------------
(* Properties                                                              *)

\* Two datagrams under way never have the same id, though an update sends up
\* to two, commits ids it does not use and ids wrap around: the second one
\* would be refused as a copy of the first.
IdsAreUnique == \A d, e \in wire : d.id = e.id => d = e

\* A datagram newer than the last one accepted is accepted, as long as the
\* receiver is less than half the ids behind: ids that were committed for
\* nothing and lost datagrams do not make the connection deaf.
NewerIsAccepted ==
    nextSeq - lastSeq <= Half => \A d \in wire : d.seq > lastSeq => IsNewer(d.id)

\* An accepted datagram reports exactly the ids between it and the one
\* accepted before, across the wrap.
GapsAreReported ==
    [][\A d \in wire : Accept(d) /\ hasReceived /\ nextSeq - lastSeq < IdCount
          => dropped' - dropped = d.seq - lastSeq - 1]_orderedVars

Stream == INSTANCE InOrderDelivery
    WITH sent <- nextSeq - 1, inFlight <- {d.seq : d \in wire}, last <- lastSeq, taken <- accepted

\* The check of the ids gives at-most-once delivery in the order of sending,
\* whatever the network does: readAndCheckOrderedDatagram accepts no copy
\* and nothing late.
DeliversInOrder == Stream!Spec

\* The inductive invariant: within one turn of the ids the distance of two
\* ids is the distance of their datagrams.
OrderedInv ==
    /\ OrderedTypeOK
    /\ nextSeq >= 1
    /\ hasReceived <=> lastSeq # 0
    /\ lastSeq < nextSeq
    /\ \A d \in wire :
          /\ d.seq >= 1 /\ nextSeq - d.seq \in 1..Lifetime
          /\ Ahead(nextId, d.id) = nextSeq - d.seq
    /\ hasReceived /\ nextSeq - lastSeq < IdCount => Ahead(nextId, last) = nextSeq - lastSeq
================================================================================
