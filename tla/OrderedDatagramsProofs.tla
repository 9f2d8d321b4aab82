------------------------- MODULE OrderedDatagramsProofs -------------------------
(***************************************************************************)
(* The ids of the datagrams keep the order of the datagrams, for every     *)
(* number of ids and every life of a datagram up to half of it.            *)
(***************************************************************************)
EXTENDS OrderedDatagrams, TLAPS

\* Half the ids, as linear arithmetic.
LEMMA HalfOfIds ==
    Half \in Nat /\ 2 * Half <= IdCount /\ IdCount <= 2 * Half + 1 /\ Half >= 2
BY OrderedAssumption DEF Half

LEMMA LifetimeWithinHalf == Lifetime \in Nat /\ Lifetime >= 1 /\ Lifetime <= Half
BY OrderedAssumption DEF Half

\* Successor moves every id one further ahead of an id it does not catch up with.
LEMMA SuccessorIsAhead ==
    ASSUME NEW id \in Ids, NEW before \in Ids
    PROVE  /\ Successor(id) \in Ids
           /\ Ahead(id, before) \in Nat
           /\ Ahead(id, before) < IdCount - 1 =>
                 Ahead(Successor(id), before) = Ahead(id, before) + 1
           /\ Ahead(Successor(id), id) = 1
BY OrderedAssumption DEF Ids, Successor, Ahead

\* The distance of two ids behind a third is the difference of their distances.
LEMMA AheadSubtracts ==
    ASSUME NEW n \in Ids, NEW a \in Ids, NEW b \in Ids
    PROVE  /\ Ahead(n, b) >= Ahead(n, a) => Ahead(a, b) = Ahead(n, b) - Ahead(n, a)
           /\ Ahead(n, b) < Ahead(n, a) => Ahead(a, b) = IdCount - (Ahead(n, a) - Ahead(n, b))
BY OrderedAssumption DEF Ids, Ahead

LEMMA InitOrderedInv == OrderedInit => OrderedInv
<1>1. OrderedInit => hasReceived \in BOOLEAN /\ ~hasReceived
  BY Zenon DEF OrderedInit
<1> QED
  BY <1>1, OrderedAssumption DEF OrderedInit, OrderedInv, OrderedTypeOK, Ids

\* A datagram prepared and committed, on the wire or not.
LEMMA PrepareKeepsInv ==
    ASSUME OrderedInv, MayPrepare, Committed(Successor(nextId)), ReceiverUnchanged,
           wire' \in {wire, wire \cup {[seq |-> nextSeq, id |-> nextId]}}
    PROVE  OrderedInv'
<1>1. OrderedTypeOK'
  BY SuccessorIsAhead DEF OrderedInv, OrderedTypeOK, Committed, ReceiverUnchanged
<1>2. \A d \in wire' :
         /\ d.seq >= 1 /\ (nextSeq - d.seq)' \in 1..Lifetime
         /\ Ahead(nextId, d.id)' = (nextSeq - d.seq)'
  <2>1. ASSUME NEW d \in wire
        PROVE  /\ d.seq >= 1 /\ (nextSeq - d.seq)' \in 1..Lifetime
               /\ Ahead(nextId, d.id)' = (nextSeq - d.seq)'
    <3>1. d.seq \in Nat /\ d.id \in Ids /\ nextSeq \in Nat /\ nextId \in Ids
      BY DEF OrderedInv, OrderedTypeOK
    <3>2. nextSeq + 1 - d.seq <= Lifetime /\ Ahead(nextId, d.id) = nextSeq - d.seq
          /\ d.seq >= 1 /\ nextSeq - d.seq >= 1
      BY <3>1, LifetimeWithinHalf DEF OrderedInv, MayPrepare
    <3>3. Ahead(nextId, d.id) < IdCount - 1
      BY <3>1, <3>2, LifetimeWithinHalf, HalfOfIds, OrderedAssumption
    <3>4. Ahead(Successor(nextId), d.id) = nextSeq - d.seq + 1
      BY <3>1, <3>2, <3>3, SuccessorIsAhead
    <3> QED
      BY <3>1, <3>2, <3>4, LifetimeWithinHalf DEF Committed, Ahead
  <2>2. LET e == [seq |-> nextSeq, id |-> nextId]
        IN  /\ e.seq >= 1 /\ nextSeq' - e.seq \in 1..Lifetime
            /\ Ahead(nextId', e.id) = nextSeq' - e.seq
    BY SuccessorIsAhead, LifetimeWithinHalf DEF OrderedInv, OrderedTypeOK, Committed
  <2> QED
    BY <2>1, <2>2 DEF Ahead
<1>3. (hasReceived /\ nextSeq - lastSeq < IdCount => Ahead(nextId, last) = nextSeq - lastSeq)'
  <2>1. CASE hasReceived /\ nextSeq + 1 - lastSeq < IdCount
    <3>1. nextSeq \in Nat /\ lastSeq \in Nat /\ nextId \in Ids /\ last \in Ids /\ lastSeq < nextSeq
      BY DEF OrderedInv, OrderedTypeOK
    <3>2. Ahead(nextId, last) = nextSeq - lastSeq
      BY <2>1, <3>1, OrderedAssumption DEF OrderedInv
    <3>3. Ahead(Successor(nextId), last) = nextSeq - lastSeq + 1
      BY <2>1, <3>1, <3>2, SuccessorIsAhead, OrderedAssumption
    <3> QED
      BY <2>1, <3>1, <3>3 DEF Committed, ReceiverUnchanged, Ahead
  <2>2. CASE ~(hasReceived /\ nextSeq + 1 - lastSeq < IdCount)
    BY <2>2 DEF OrderedInv, OrderedTypeOK, Committed, ReceiverUnchanged
  <2> QED
    BY <2>1, <2>2
<1>4. nextSeq' >= 1 /\ (hasReceived' <=> lastSeq' # 0) /\ lastSeq' < nextSeq'
  BY DEF OrderedInv, OrderedTypeOK, Committed, ReceiverUnchanged
<1> QED
  BY <1>1, <1>2, <1>3, <1>4 DEF OrderedInv

LEMMA AcceptKeepsInv ==
    ASSUME OrderedInv, NEW d \in wire, Accept(d)
    PROVE  OrderedInv'
<1>1. d \in [seq : Nat, id : Ids] /\ d.seq >= 1 /\ nextSeq \in Nat /\ nextId \in Ids
      /\ nextSeq - d.seq \in 1..Lifetime /\ Ahead(nextId, d.id) = nextSeq - d.seq
  BY DEF OrderedInv, OrderedTypeOK
<1>2. Skipped(d.id) \in Nat
  BY <1>1, HalfOfIds DEF Accept, IsNewer, Skipped
<1>3. OrderedTypeOK'
  BY <1>1, <1>2 DEF OrderedInv, OrderedTypeOK, Accept
<1>4. wire' \subseteq wire /\ nextSeq' = nextSeq /\ nextId' = nextId
      /\ lastSeq' = d.seq /\ last' = d.id /\ hasReceived' = TRUE
  BY DEF Accept
<1>5. d.seq # 0 /\ d.seq < nextSeq
  BY <1>1, LifetimeWithinHalf
<1> QED
  BY <1>1, <1>3, <1>4, <1>5 DEF OrderedInv, Ahead

LEMMA NextKeepsInv ==
    ASSUME OrderedInv, [OrderedNext]_orderedVars
    PROVE  OrderedInv'
<1>1. CASE SendSteps \/ SendMessage
  BY <1>1, PrepareKeepsInv DEF SendSteps, SendMessage, Hands
<1>2. CASE SendHeaderOnly
  BY <1>2, PrepareKeepsInv DEF SendHeaderOnly
<1>3. CASE \E d \in wire : Accept(d)
  BY <1>3, AcceptKeepsInv
<1>4. CASE \E d \in wire : Refuse(d) \/ Lose(d)
  BY <1>4 DEF Refuse, Lose, ReceiverUnchanged, OrderedInv, OrderedTypeOK, Ahead
<1>5. CASE ResetReceiver
  <2>1. hasReceived' \in BOOLEAN /\ ~hasReceived'
    BY <1>5, Zenon DEF ResetReceiver
  <2> QED
    BY <1>5, <2>1, OrderedAssumption DEF ResetReceiver, OrderedInv, OrderedTypeOK, Ahead, Ids
<1>6. CASE UNCHANGED orderedVars
  BY <1>6 DEF orderedVars, OrderedInv, OrderedTypeOK, Ahead
<1> QED
  BY <1>1, <1>2, <1>3, <1>4, <1>5, <1>6 DEF OrderedNext

\* Within one turn of the ids the distance of two ids is the distance of
\* their datagrams, through every send, commit, reception and reset.
THEOREM OrderedInvariant == OrderedSpec => []OrderedInv
<1>1. OrderedInit => OrderedInv
  BY InitOrderedInv
<1>2. OrderedInv /\ [OrderedNext]_orderedVars => OrderedInv'
  BY NextKeepsInv
<1> QED
  BY <1>1, <1>2, PTL DEF OrderedSpec

\* The fields of both ends of the id check keep their types.
THEOREM OrderedTypes == OrderedSpec => []OrderedTypeOK
<1>1. OrderedInv => OrderedTypeOK
  BY DEF OrderedInv
<1> QED
  BY <1>1, OrderedInvariant, PTL

\* No two datagrams under way share an id.
THEOREM UniqueIds == OrderedSpec => []IdsAreUnique
<1>1. OrderedInv => IdsAreUnique
  <2> SUFFICES ASSUME OrderedInv, NEW d \in wire, NEW e \in wire, d.id = e.id
               PROVE  d = e
    BY DEF IdsAreUnique
  <2>1. d \in [seq : Nat, id : Ids] /\ e \in [seq : Nat, id : Ids] /\ nextSeq \in Nat
    BY DEF OrderedInv, OrderedTypeOK
  <2>2. nextSeq - d.seq = nextSeq - e.seq
    BY DEF OrderedInv
  <2>3. d.seq = e.seq
    BY <2>1, <2>2
  <2> QED
    BY <2>1, <2>3
<1> QED
  BY <1>1, OrderedInvariant, PTL

\* A receiver less than half the ids behind accepts everything newer.
THEOREM FreshIsAccepted == OrderedSpec => []NewerIsAccepted
<1>1. OrderedInv => NewerIsAccepted
  <2> SUFFICES ASSUME OrderedInv, nextSeq - lastSeq <= Half, hasReceived,
                      NEW d \in wire, d.seq > lastSeq
               PROVE  Ahead(d.id, last) \in 1..(Half - 1)
    BY DEF NewerIsAccepted, IsNewer
  <2>1. d.seq \in Nat /\ d.id \in Ids /\ nextSeq \in Nat /\ nextId \in Ids
        /\ lastSeq \in Nat /\ last \in Ids
    BY DEF OrderedInv, OrderedTypeOK
  <2>2. Ahead(nextId, d.id) = nextSeq - d.seq /\ nextSeq - d.seq >= 1
    BY <2>1, LifetimeWithinHalf DEF OrderedInv
  <2>3. Ahead(nextId, last) = nextSeq - lastSeq
    BY <2>1, HalfOfIds, OrderedAssumption DEF OrderedInv
  <2>4. Ahead(d.id, last) = d.seq - lastSeq
    BY <2>1, <2>2, <2>3, AheadSubtracts
  <2> QED
    BY <2>1, <2>2, <2>4, HalfOfIds
<1> QED
  BY <1>1, OrderedInvariant, PTL

\* What is accepted was prepared after everything accepted before it.
LEMMA AcceptedIsNewer ==
    ASSUME OrderedInv, NEW d \in wire, IsNewer(d.id)
    PROVE  d.seq > lastSeq
<1>1. d.seq \in Nat /\ d.id \in Ids /\ nextSeq \in Nat /\ nextId \in Ids
      /\ lastSeq \in Nat /\ last \in Ids /\ d.seq >= 1 /\ lastSeq < nextSeq
  BY DEF OrderedInv, OrderedTypeOK
<1>2. Ahead(nextId, d.id) = nextSeq - d.seq /\ nextSeq - d.seq <= Lifetime
  BY <1>1, LifetimeWithinHalf DEF OrderedInv
<1>3. CASE ~hasReceived
  BY <1>1, <1>3 DEF OrderedInv
<1>4. CASE hasReceived /\ nextSeq - lastSeq > Lifetime
  BY <1>1, <1>2, <1>4, LifetimeWithinHalf
<1>5. CASE hasReceived /\ nextSeq - lastSeq <= Lifetime
  <2>1. Ahead(nextId, last) = nextSeq - lastSeq
    BY <1>1, <1>5, LifetimeWithinHalf, HalfOfIds, OrderedAssumption DEF OrderedInv
  <2>2. Ahead(d.id, last) >= 1 /\ Ahead(d.id, last) <= Half - 1
    BY <1>5, HalfOfIds DEF IsNewer
  <2>3. SUFFICES ASSUME d.seq <= lastSeq PROVE FALSE
    BY <1>1
  <2>4. CASE d.seq = lastSeq
    BY <1>1, <1>2, <2>1, <2>2, <2>4, AheadSubtracts
  <2>5. CASE d.seq < lastSeq
    <3>1. Ahead(d.id, last) = IdCount - ((nextSeq - d.seq) - (nextSeq - lastSeq))
      BY <1>1, <1>2, <2>1, <2>5, AheadSubtracts
    <3> QED
      BY <1>1, <1>2, <2>2, <2>5, <3>1, LifetimeWithinHalf, HalfOfIds, OrderedAssumption
  <2> QED
    BY <1>1, <2>3, <2>4, <2>5
<1> QED
  BY <1>1, <1>3, <1>4, <1>5, LifetimeWithinHalf DEF OrderedInv, OrderedTypeOK

\* An accepted datagram reports exactly the ids it skips.
THEOREM ReportedGaps == OrderedSpec => GapsAreReported
<1>1. OrderedInv /\ [OrderedNext]_orderedVars
        => [\A d \in wire : Accept(d) /\ hasReceived /\ nextSeq - lastSeq < IdCount
               => dropped' - dropped = d.seq - lastSeq - 1]_orderedVars
  <2> SUFFICES ASSUME OrderedInv, NEW d \in wire, Accept(d), hasReceived,
                      nextSeq - lastSeq < IdCount
               PROVE  dropped' - dropped = d.seq - lastSeq - 1
    OBVIOUS
  <2>1. d.seq \in Nat /\ d.id \in Ids /\ nextSeq \in Nat /\ nextId \in Ids
        /\ lastSeq \in Nat /\ last \in Ids /\ dropped \in Nat
    BY DEF OrderedInv, OrderedTypeOK
  <2>2. Ahead(nextId, d.id) = nextSeq - d.seq /\ Ahead(nextId, last) = nextSeq - lastSeq
    BY DEF OrderedInv
  <2>3. d.seq > lastSeq
    BY AcceptedIsNewer DEF Accept
  <2>4. Ahead(d.id, last) = d.seq - lastSeq
    BY <2>1, <2>2, <2>3, AheadSubtracts
  <2> QED
    BY <2>1, <2>3, <2>4 DEF Accept, Skipped
<1> QED
  BY <1>1, OrderedInvariant, PTL DEF OrderedSpec, GapsAreReported

\* The ids implement delivery in order and at most once, over a network
\* that loses, duplicates and reorders.
THEOREM Refinement == OrderedSpec => DeliversInOrder
<1> DEFINE InFlight == {d.seq : d \in wire}
<1>1. OrderedInit => Stream!Init
  BY DEF OrderedInit, Stream!Init
<1>2. OrderedInv /\ [OrderedNext]_orderedVars => [Stream!Next]_Stream!vars
  <2> SUFFICES ASSUME OrderedInv, [OrderedNext]_orderedVars
               PROVE  [Stream!Next]_Stream!vars
    OBVIOUS
  <2>0. nextSeq \in Nat /\ \A d, e \in wire : d.seq = e.seq => d = e
    <3>1. \A d, e \in wire : d.seq = e.seq => d.id = e.id
      <4> SUFFICES ASSUME NEW d \in wire, NEW e \in wire, d.seq = e.seq
                   PROVE  d.id = e.id
        OBVIOUS
      <4>1. d.id \in Ids /\ e.id \in Ids /\ nextId \in Ids
        BY DEF OrderedInv, OrderedTypeOK
      <4>2. Ahead(nextId, d.id) = Ahead(nextId, e.id)
        BY DEF OrderedInv
      <4> QED
        BY <4>1, <4>2, OrderedAssumption DEF Ids, Ahead
    <3> QED
      BY <3>1 DEF OrderedInv, OrderedTypeOK
  <2>1. ASSUME Committed(Successor(nextId)), ReceiverUnchanged,
               wire' \in {wire, wire \cup {[seq |-> nextSeq, id |-> nextId]}}
        PROVE  Stream!Send
    <3>1. (nextSeq - 1)' = (nextSeq - 1) + 1
      BY <2>0, <2>1 DEF Committed
    <3>2. InFlight' \in {InFlight, InFlight \cup {(nextSeq - 1) + 1}}
      BY <2>0, <2>1
    <3> QED
      BY <2>1, <3>1, <3>2 DEF Stream!Send, ReceiverUnchanged
  <2>2. ASSUME NEW d \in wire
        PROVE  d.seq \in InFlight /\ {e.seq : e \in wire \ {d}} = InFlight \ {d.seq}
    BY <2>0
  <2>3. CASE SendSteps \/ SendMessage
    BY <2>1, <2>3 DEF SendSteps, SendMessage, Hands, Stream!Next
  <2>4. CASE SendHeaderOnly
    BY <2>1, <2>4 DEF SendHeaderOnly, Stream!Next
  <2>5. ASSUME NEW d \in wire, Accept(d)
        PROVE  Stream!Next
    <3>1. d.seq > lastSeq
      BY <2>5, AcceptedIsNewer DEF Accept
    <3>2. InFlight' \in {InFlight, InFlight \ {d.seq}}
      BY <2>2, <2>5 DEF Accept
    <3> QED
      BY <2>2, <2>5, <3>1, <3>2 DEF Accept, Stream!Next, Stream!Take
  <2>6. ASSUME NEW d \in wire, Refuse(d) \/ Lose(d)
        PROVE  Stream!Next
    <3>1. InFlight' = InFlight \ {d.seq}
      BY <2>2, <2>6 DEF Refuse, Lose
    <3> QED
      BY <2>2, <2>6, <3>1 DEF Refuse, Lose, ReceiverUnchanged, Stream!Next, Stream!Lose
  <2>7. CASE ResetReceiver
    BY <2>7 DEF ResetReceiver, Stream!Next, Stream!Restart
  <2>8. CASE UNCHANGED orderedVars
    BY <2>8 DEF orderedVars, Stream!vars
  <2> QED
    BY <2>3, <2>4, <2>5, <2>6, <2>7, <2>8 DEF OrderedNext
<1> QED
  BY <1>1, <1>2, OrderedInvariant, PTL DEF OrderedSpec, DeliversInOrder, Stream!Spec
================================================================================
