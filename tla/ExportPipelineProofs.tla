------------------------ MODULE ExportPipelineProofs ------------------------
(***************************************************************************)
(* Proofs about ExportPipeline, for every number of spans, span length,    *)
(* batch size, request limit and queue size.                               *)
(*                                                                         *)
(* TypeCorrect comes first.  OrderCorrect shows that what is exported,     *)
(* queued, being enqueued and buffered is in push order, which makes the   *)
(* four places disjoint; CountedCorrect rests on that disjointness, and on *)
(* the control facts of ControlInv, to show that each span is counted      *)
(* under one outcome once.                                                 *)
(***************************************************************************)
EXTENDS ExportPipeline, FiniteSetTheorems, TLAPS

-----------------------------------------------------------------------------
(* Wire sizes *)

\* The framed size of a field is a natural number.
LEMMA FieldBytesNat == ASSUME NEW n \in Nat PROVE FieldBytes(n) \in Nat
<1> DEFINE K == {k \in 1..3 : n >= 128^k}
<1>1. K \in SUBSET Nat /\ \A k \in K : k <= 3
  OBVIOUS
<1>2. IsFiniteSet(K)
  <2> HIDE DEF K
  <2> QED BY <1>1, FS_BoundedSetOfNaturals
<1>3. Cardinality(K) \in Nat
  BY <1>2, FS_CardinalityType
<1> QED BY <1>3 DEF FieldBytes

\* The predicted size of a request is a natural number.
LEMMA RequestBytesNat == ASSUME NEW n \in Nat PROVE RequestBytes(n) \in Nat
<1>1. FieldBytes(ScopeBytes + n + SchemaFieldBytes) \in Nat
  BY FieldBytesNat, ConstantsAssumption
<1> QED BY <1>1, FieldBytesNat, ConstantsAssumption DEF RequestBytes

-----------------------------------------------------------------------------
(* Items and counters *)

\* The placeholder for no batch is an item.
LEMMA NoItemType == NoItem \in Items
  BY DEF NoItem, Items

\* What take() yields and leaves behind has the right type.
LEMMA TakenType ==
    ASSUME TypeOK
    PROVE  Taken(batch) \in Items
  BY RequestBytesNat DEF TypeOK, Taken, Items

\* Buffering a span keeps the batcher well typed.
LEMMA Append1Type ==
    ASSUME TypeOK, NEW s \in Spans,
           NEW b \in [spans : SUBSET Spans, wire_bytes : Nat, oldest : Ages]
    PROVE  Append1(b, s) \in [spans : SUBSET Spans, wire_bytes : Nat,
                              oldest : Ages]
<1>1. len[s] \in SpanLens /\ SpanLens \subseteq Nat
  BY ConstantsAssumption DEF TypeOK
<1>2. FieldBytes(len[s]) \in Nat
  BY <1>1, FieldBytesNat
<1> QED BY <1>2 DEF Append1, Ages

\* Counting keeps every counter a natural number per span.
LEMMA CountType ==
    ASSUME TypeOK, NEW add, Count(add)
    PROVE  counted' \in [Counters -> [Spans -> Nat]]
  BY DEF TypeOK, Count

\* Taking the head of a nonempty queue: the rest is the queue shifted by one.
LEMMA HeadTailFacts ==
    ASSUME NEW q \in Seq(Items), q # <<>>
    PROVE  /\ Head(q) \in Items /\ Head(q) = q[1] /\ 1 \in 1..Len(q)
           /\ Tail(q) \in Seq(Items) /\ Len(Tail(q)) = Len(q) - 1
           /\ Len(Tail(q)) <= Len(q)
           /\ \A i \in 1..Len(Tail(q)) :
                 Tail(q)[i] = q[i + 1] /\ i + 1 \in 1..Len(q)
<1>1. Len(q) \in Nat /\ Len(q) > 0
  OBVIOUS
<1> QED BY <1>1

\* The queue is a sequence of items within the channel's capacity, a number.
LEMMA QueueFacts ==
    ASSUME TypeOK
    PROVE  /\ queue \in Seq(Items) /\ Len(queue) \in Nat
           /\ EXPORT_QUEUE_ITEMS \in Nat /\ Len(queue) <= EXPORT_QUEUE_ITEMS
<1>1. EXPORT_QUEUE_ITEMS \in Nat
  BY ConstantsAssumption
<1>2. queue \in Seq(Items) /\ Len(queue) <= EXPORT_QUEUE_ITEMS
  BY DEF TypeOK
<1>3. Len(queue) \in Nat
  BY <1>2
<1> QED BY <1>1, <1>2, <1>3

-----------------------------------------------------------------------------
(* Type correctness *)

\* Every step of either task keeps the state well typed.
LEMMA TypeStep == ASSUME TypeOK, [Next]_vars PROVE TypeOK'
<1> USE NoItemType
<1> EmptyBatch \in [spans : SUBSET Spans, wire_bytes : Nat, oldest : Ages]
  BY DEF EmptyBatch, Ages
<1>1. CASE Push
  <2>1. pushed + 1 \in Spans /\ pushed' \in 0..MaxSpans
    BY <1>1, ConstantsAssumption DEF Push, TypeOK, Spans
  <2>2. CASE PushRejected(pushed + 1)
    BY <1>1, <2>1, <2>2, CountType DEF Push, PushRejected, TypeOK, gauges
  <2>3. CASE PushBuffered(pushed + 1)
    <3>1. batch' \in [spans : SUBSET Spans, wire_bytes : Nat, oldest : Ages]
      <4>1. Append1(batch, pushed + 1) \in
              [spans : SUBSET Spans, wire_bytes : Nat, oldest : Ages]
        BY <2>1, Append1Type DEF TypeOK
      <4>2. Append1(AfterTake(batch), pushed + 1) \in
              [spans : SUBSET Spans, wire_bytes : Nat, oldest : Ages]
        BY <2>1, Append1Type DEF AfterTake
      <4> QED BY <2>3, <4>1, <4>2 DEF PushBuffered
    <3>2. hand' \in Items /\ pc' \in {"idle", "acquire"}
      BY <1>1, <2>3, TakenType DEF PushBuffered, TypeOK, Push, Ready
    <3> QED BY <1>1, <2>1, <2>3, <3>1, <3>2
            DEF Push, PushBuffered, TypeOK, gauges
  <2> QED BY <1>1, <2>2, <2>3 DEF Push
<1>2. CASE FlushFull
  BY <1>2, TakenType DEF FlushFull, StartEnqueue, AfterTake, TypeOK, gauges
<1>3. CASE FlushDue
  BY <1>3, TakenType DEF FlushDue, StartEnqueue, AfterTake, TypeOK, gauges
<1>4. CASE Acquire
  <2>1. counted' \in [Counters -> [Spans -> Nat]]
    BY <1>4, CountType DEF Acquire, TypeOK
  <2> QED BY <1>4, <2>1 DEF Acquire, TypeOK, gauges, Items
<1>5. CASE Account
  <2>1. queued_bytes' \in Int /\ queued_items' \in Int
        /\ peak_queued_bytes' \in Nat
    BY <1>5 DEF Account, TypeOK, Items
  <2> QED BY <1>5, <2>1 DEF Account, TypeOK
<1>6. CASE Send
  <2>1. counted' \in [Counters -> [Spans -> Nat]]
    BY <1>6, CountType DEF Send, TypeOK
  <2>2. CASE Len(queue) < EXPORT_QUEUE_ITEMS
    <3>1. queue' = Append(queue, hand) /\ hand' = NoItem
          /\ counting' = hand.spans /\ pc' = "count"
      BY <1>6, <2>2, QueueFacts DEF Send
    <3>2. queue' \in Seq(Items) /\ Len(queue') = Len(queue) + 1
      BY <3>1 DEF TypeOK
    <3>3. counting' \in SUBSET Spans
      BY <3>1 DEF TypeOK, Items
    <3>4. Len(queue') <= EXPORT_QUEUE_ITEMS
      BY <2>2, <3>2, QueueFacts
    <3>5. UNCHANGED <<len, pushed, batch, worker, item, bytes, gauges, phase>>
      BY <1>6 DEF Send
    <3> QED BY <2>1, <3>1, <3>2, <3>3, <3>4, <3>5 DEF TypeOK, gauges
  <2>3. CASE Len(queue) >= EXPORT_QUEUE_ITEMS
    <3>1. hand' = [hand EXCEPT !.accounted = TRUE]
          /\ UNCHANGED <<queue, counting>> /\ pc' = "drop"
      BY <1>6, <2>3, QueueFacts DEF Send
    <3>2. hand' \in Items
      BY <3>1 DEF TypeOK, Items
    <3> QED BY <1>6, <2>1, <3>1, <3>2 DEF Send, TypeOK, gauges
  <2> QED BY <2>2, <2>3, QueueFacts
<1>7. CASE CountQueued
  BY <1>7, CountType DEF CountQueued, TypeOK, gauges
<1>8. CASE DropHand
  BY <1>8, CountType DEF DropHand, TypeOK, gauges, Items
<1>9. CASE ReleaseHand
  BY <1>9 DEF ReleaseHand, TypeOK, gauges, Items
<1>10. CASE Recv
  <2>1. Head(queue) \in Items /\ Tail(queue) \in Seq(Items)
        /\ Len(Tail(queue)) <= Len(queue)
    BY <1>10, HeadTailFacts DEF Recv, TypeOK
  <2>2. item' \in Items
    BY <1>10, <2>1 DEF Recv, Items
  <2>3. queue' \in Seq(Items) /\ Len(queue') <= EXPORT_QUEUE_ITEMS
    <3>1. queue' = Tail(queue)
      BY <1>10 DEF Recv
    <3>2. Len(Tail(queue)) \in Nat
      BY <2>1
    <3> QED BY <2>1, <3>1, <3>2, QueueFacts
  <2>4. worker' = "exporting"
        /\ UNCHANGED <<producer, bytes, gauges, counted, phase>>
    BY <1>10 DEF Recv
  <2> QED BY <2>2, <2>3, <2>4 DEF TypeOK, gauges, producer
<1>11. CASE Report
  <2>1. counted' \in [Counters -> [Spans -> Nat]]
    BY <1>11, CountType DEF Report
  <2> QED BY <1>11, <2>1 DEF Report, TypeOK, gauges, producer, Items
<1>12. CASE DropItem
  BY <1>12, CountType DEF DropItem, TypeOK, gauges, producer, Items
<1>13. CASE ReleaseItem
  BY <1>13 DEF ReleaseItem, TypeOK, gauges, producer, Items
<1>14. CASE Exit
  BY <1>14 DEF Exit, TypeOK, gauges, producer
<1>15. CASE Cancel
  BY <1>15 DEF Cancel, TypeOK, gauges, producer
<1>16. CASE CancelDrop
  <2>1. counted' \in [Counters -> [Spans -> Nat]]
    BY <1>16, CountType DEF CancelDrop, DropHeld, TypeOK
  <2>2. CASE item # NoItem
    <3>1. DropHeld(item) /\ item' = NoItem
          /\ UNCHANGED <<queue, worker, producer, peak_queued_bytes, phase>>
      BY <1>16, <2>2 DEF CancelDrop
    <3>2. item.bytes \in Nat /\ bytes \in Nat
          /\ queued_bytes \in Int /\ queued_items \in Int
      BY DEF TypeOK, Items
    <3>3. bytes' \in Nat /\ queued_bytes' \in Int /\ queued_items' \in Int
      BY <3>1, <3>2 DEF DropHeld
    <3> QED BY <2>1, <3>1, <3>3 DEF TypeOK, producer
  <2>3. CASE item = NoItem /\ queue # <<>>
    <3>1. Head(queue) \in Items /\ Tail(queue) \in Seq(Items)
          /\ Len(Tail(queue)) <= Len(queue)
      BY <2>3, HeadTailFacts DEF TypeOK
    <3>2. Head(queue).bytes \in Nat
      BY <3>1 DEF Items
    <3>3. bytes' \in Nat /\ queued_bytes' \in Int /\ queued_items' \in Int
      <4>1. DropHeld(Head(queue))
        BY <1>16, <2>3 DEF CancelDrop
      <4>2. bytes \in Nat /\ queued_bytes \in Int /\ queued_items \in Int
        BY DEF TypeOK
      <4> QED BY <3>2, <4>1, <4>2 DEF DropHeld
    <3>4. queue' = Tail(queue) /\ UNCHANGED <<item, worker, producer,
                                              peak_queued_bytes, phase>>
      BY <1>16, <2>3 DEF CancelDrop
    <3>5. Len(Tail(queue)) \in Nat
      BY <3>1
    <3>6. Len(queue') <= EXPORT_QUEUE_ITEMS
      BY <3>1, <3>4, <3>5, QueueFacts
    <3> QED BY <2>1, <3>1, <3>3, <3>4, <3>6 DEF TypeOK, producer
  <2>4. CASE item = NoItem /\ queue = <<>>
    BY <1>16, <2>4 DEF CancelDrop, TypeOK, producer
  <2> QED BY <2>2, <2>3, <2>4
<1>17. CASE Shutdown
  <2>1. CASE FinalTake
    BY <2>1, TakenType
       DEF FinalTake, StartEnqueue, AfterTake, TypeOK, gauges
  <2> QED BY <1>17, <2>1 DEF Shutdown, Stop, CloseQueue, Deadline, Finish,
                             TypeOK, gauges, producer
<1>18. CASE Age
  BY <1>18 DEF Age, TypeOK, gauges, Ages
<1>19. CASE UNCHANGED vars
  BY <1>19 DEF vars, TypeOK, gauges, producer
<1> QED
  BY <1>1, <1>2, <1>3, <1>4, <1>5, <1>6, <1>7, <1>8, <1>9, <1>10, <1>11,
     <1>12, <1>13, <1>14, <1>15, <1>16, <1>17, <1>18, <1>19
     DEF Next, Main, Worker, Done

\* The initial state is well typed.
LEMMA TypeInit == ASSUME Init PROVE TypeOK
  BY NoItemType, ConstantsAssumption DEF Init, TypeOK, EmptyBatch, Ages

\* Type correctness of the pipeline: in particular the queue respects its bound.
THEOREM TypeCorrect == Spec => []TypeOK
  BY TypeInit, TypeStep, PTL DEF Spec
-----------------------------------------------------------------------------
(* Control: which flags an item carries, by where the two tasks are *)

HandInv ==
    /\ pc \in {"idle", "count"} => hand = NoItem
    /\ pc \in {"acquire", "account", "send"} => ~hand.accounted /\ ~hand.attempted
    /\ pc \in {"drop", "release"} => hand.accounted

ItemInv ==
    /\ worker \in {"recv", "exited", "cancelled"} => item = NoItem
    /\ worker = "exporting" => ~item.accounted /\ item.attempted
    /\ worker \in {"drop", "release"} => item.accounted
    /\ worker = "cancelling" => ~item.accounted
    /\ worker = "cancelling" /\ item # NoItem => item.attempted

QueueInv == \A i \in 1..Len(queue) : ~queue[i].accounted /\ ~queue[i].attempted

ControlInv == HandInv /\ ItemInv /\ QueueInv

\* Sending to the channel appends one item and moves no other.
LEMMA AppendFacts ==
    ASSUME NEW q \in Seq(Items), NEW x \in Items
    PROVE  /\ Len(Append(q, x)) = Len(q) + 1
           /\ Append(q, x)[Len(q) + 1] = x
           /\ Len(q) \in Nat
           /\ \A i \in 1..Len(q) : Append(q, x)[i] = q[i]
  OBVIOUS

\* An item the worker holds was attempted, one in the queue was not, and an
\* item is accounted exactly between its outcome being counted and its drop.
LEMMA ControlStep ==
    ASSUME TypeOK, ControlInv, [Next]_vars PROVE ControlInv'
<1>1. HandInv'
  <2> USE DEF ControlInv, HandInv
  <2>1. CASE Push
    BY <2>1 DEF Push, PushRejected, PushBuffered, Ready, Taken
  <2>2. CASE FlushFull \/ FlushDue \/ FinalTake
    BY <2>2 DEF FlushFull, FlushDue, FinalTake, StartEnqueue, Taken, Ready
  <2>3. CASE Acquire \/ Account
    BY <2>3 DEF Acquire, Account
  <2>4. CASE Send
    BY <2>4 DEF Send, TypeOK, Items
  <2>5. CASE CountQueued \/ DropHand \/ ReleaseHand
    BY <2>5 DEF CountQueued, DropHand, ReleaseHand
  <2>6. CASE Worker
    BY <2>6 DEF Worker, Recv, Report, DropItem, ReleaseItem, Exit, Cancel,
                CancelDrop, producer
  <2>7. CASE Age \/ Stop \/ CloseQueue \/ Deadline \/ Finish \/ UNCHANGED vars
    BY <2>7 DEF Age, Stop, CloseQueue, Deadline, Finish, producer, vars
  <2> QED BY <2>1, <2>2, <2>3, <2>4, <2>5, <2>6, <2>7
          DEF Next, Main, Shutdown, Done
<1>2. ItemInv'
  <2> USE DEF ControlInv, ItemInv
  <2>1. CASE Main \/ Shutdown \/ Age \/ UNCHANGED vars
    BY <2>1 DEF Main, Push, FlushFull, FlushDue, Acquire, Account, Send,
                CountQueued, DropHand, ReleaseHand, Shutdown, Stop, FinalTake,
                CloseQueue, Deadline, Finish, Age, vars
  <2>2. CASE Recv
    <3>1. Head(queue) \in Items /\ Head(queue) = queue[1] /\ 1 \in 1..Len(queue)
      BY <2>2, HeadTailFacts DEF Recv, TypeOK
    <3>2. ~Head(queue).accounted
      BY <3>1 DEF QueueInv
    <3> QED BY <2>2, <3>1, <3>2 DEF Recv, Items
  <2>3. CASE Report
    BY <2>3 DEF Report, TypeOK, Items
  <2>4. CASE DropItem \/ ReleaseItem \/ Exit \/ Cancel
    BY <2>4 DEF DropItem, ReleaseItem, Exit, Cancel, NoItem
  <2>5. CASE CancelDrop
    BY <2>5 DEF CancelDrop, NoItem
  <2> QED BY <2>1, <2>2, <2>3, <2>4, <2>5 DEF Next, Worker, Done
<1>3. QueueInv'
  <2> USE DEF ControlInv, QueueInv
  <2>1. CASE Send
    <3>1. CASE UNCHANGED queue
      BY <3>1
    <3>2. CASE queue' = Append(queue, hand)
      <4>1. ~hand.accounted /\ ~hand.attempted
        BY <2>1 DEF Send, HandInv
      <4> QED BY <3>2, <4>1, AppendFacts DEF TypeOK
    <3> QED BY <2>1, <3>1, <3>2 DEF Send
  <2>2. CASE queue # <<>> /\ queue' = Tail(queue)
    BY <2>2, HeadTailFacts DEF TypeOK
  <2>3. CASE UNCHANGED queue
    BY <2>3
  <2>4. queue' = queue \/ (queue # <<>> /\ queue' = Tail(queue)) \/ Send
    BY DEF Next, Main, Push, FlushFull, FlushDue, Acquire, Account, CountQueued,
           DropHand, ReleaseHand, Worker, Recv, Report, DropItem, ReleaseItem,
           Exit, Cancel, CancelDrop, Shutdown, Stop, FinalTake, CloseQueue,
           Deadline, Finish, Age, Done, vars
  <2> QED BY <2>1, <2>2, <2>3, <2>4
<1> QED BY <1>1, <1>2, <1>3 DEF ControlInv
-----------------------------------------------------------------------------
(* Order *)

\* Nothing is held that was not pushed.  ExportedInOrder needs it: it is what
\* puts the next span after everything the pipeline holds.
AllPushed ==
    /\ \A s \in batch.spans \cup hand.spans \cup item.spans : s <= pushed
    /\ \A i \in 1..Len(queue) : \A s \in queue[i].spans : s <= pushed

OrderInv == ExportedInOrder /\ AllPushed

\* Steps that leave the four places alone, or only empty one of them, keep the
\* order.
LEMMA OrderShrinks ==
    ASSUME TypeOK, OrderInv, pushed' = pushed, UNCHANGED queue,
           batch'.spans \subseteq batch.spans,
           hand'.spans \subseteq hand.spans,
           item'.spans \subseteq item.spans
    PROVE  OrderInv'
  BY DEF OrderInv, ExportedInOrder, AllPushed, Before

\* Taking the buffer into an empty hand keeps the order.
LEMMA OrderTake ==
    ASSUME TypeOK, OrderInv, pushed' = pushed, UNCHANGED <<queue, item>>,
           hand = NoItem, hand'.spans = batch.spans, batch'.spans = {}
    PROVE  OrderInv'
  BY DEF OrderInv, ExportedInOrder, AllPushed, Before, NoItem

\* Every step keeps spans in push order, across the four places.
LEMMA OrderStep ==
    ASSUME TypeOK, ControlInv, OrderInv, [Next]_vars PROVE OrderInv'
<1>1. CASE Push
  <2> DEFINE n == pushed + 1
  <2>1. pushed \in Nat /\ pushed' = n
    BY <1>1, ConstantsAssumption DEF Push, TypeOK
  <2>2. UNCHANGED <<queue, item>> /\ hand.spans = {}
    BY <1>1 DEF Push, Ready, ControlInv, HandInv, NoItem
  <2>3. /\ \A s \in batch.spans \cup item.spans : s \in Nat /\ s < n /\ s <= n
        /\ \A i \in 1..Len(queue) : \A s \in queue[i].spans :
              s \in Nat /\ s < n /\ s <= n
    <3>1. \A s \in Spans : s <= pushed => s \in Nat /\ s < n /\ s <= n
      BY <2>1, ConstantsAssumption DEF Spans
    <3>2. batch.spans \subseteq Spans /\ item.spans \subseteq Spans
      BY DEF TypeOK, Items
    <3>3. \A i \in 1..Len(queue) : queue[i].spans \subseteq Spans
      <4>1. \A i \in 1..Len(queue) : queue[i] \in Items
        BY DEF TypeOK
      <4> QED BY <4>1 DEF Items
    <3> QED BY <3>1, <3>2, <3>3 DEF OrderInv, AllPushed
  <2> HIDE DEF n
  <2>4. CASE UNCHANGED <<batch, hand>>
    BY <2>1, <2>2, <2>3, <2>4
       DEF OrderInv, ExportedInOrder, AllPushed, Before
  <2>5. n <= n
    BY <2>1 DEF n
  <2>6. CASE batch'.spans = batch.spans \cup {n} /\ UNCHANGED hand
    <3>1. ExportedInOrder'
      BY <2>1, <2>2, <2>3, <2>5, <2>6 DEF OrderInv, ExportedInOrder, Before
    <3>2. AllPushed'
      BY <2>1, <2>2, <2>3, <2>5, <2>6 DEF OrderInv, AllPushed
    <3> QED BY <3>1, <3>2 DEF OrderInv
  <2>7. CASE batch'.spans = {n} /\ hand'.spans = batch.spans
    <3>1. ExportedInOrder'
      BY <2>1, <2>2, <2>3, <2>5, <2>7 DEF OrderInv, ExportedInOrder, Before
    <3>2. AllPushed'
      BY <2>1, <2>2, <2>3, <2>5, <2>7 DEF OrderInv, AllPushed
    <3> QED BY <3>1, <3>2 DEF OrderInv
  <2> QED BY <1>1, <2>4, <2>6, <2>7
          DEF Push, PushRejected, PushBuffered, Append1, AfterTake, EmptyBatch,
              Taken, n
<1>2. CASE FlushFull \/ FlushDue
  <2>1. StartEnqueue /\ hand = NoItem /\ UNCHANGED <<pushed, queue, item>>
    BY <1>2 DEF FlushFull, FlushDue, Ready, ControlInv, HandInv
  <2> QED BY <2>1, OrderTake DEF StartEnqueue, Taken, AfterTake, EmptyBatch
<1>3. CASE FinalTake
  <2>1. hand = NoItem /\ UNCHANGED <<pushed, queue, item>>
    BY <1>3 DEF FinalTake, Ready, ControlInv, HandInv
  <2>2. CASE StartEnqueue
    BY <2>1, <2>2, OrderTake DEF StartEnqueue, Taken, AfterTake, EmptyBatch
  <2>3. CASE UNCHANGED <<batch, hand>>
    BY <2>1, <2>3, OrderShrinks
  <2> QED BY <1>3, <2>2, <2>3 DEF FinalTake
<1>4. CASE Acquire \/ ReleaseHand
  BY <1>4, OrderShrinks DEF Acquire, ReleaseHand, NoItem
<1>5. CASE Send
  <2>1. CASE UNCHANGED queue /\ hand' = [hand EXCEPT !.accounted = TRUE]
    BY <1>5, <2>1, OrderShrinks DEF Send, TypeOK, Items
  <2>2. CASE queue' = Append(queue, hand) /\ hand' = NoItem
    <3> DEFINE m == Len(queue)
    <3>1. /\ Len(queue') = m + 1 /\ queue'[m + 1] = hand /\ m \in Nat
          /\ \A i \in 1..m : queue'[i] = queue[i]
      BY <2>2, AppendFacts DEF TypeOK
    <3>2. UNCHANGED <<batch, item, pushed>> /\ hand'.spans = {}
      BY <1>5, <2>2 DEF Send, NoItem
    <3>3. \A i \in 1..Len(queue') : i = m + 1 \/ i \in 1..m
      BY <3>1
    <3>4. ExportedInOrder'
      BY <3>1, <3>2, <3>3 DEF OrderInv, ExportedInOrder, Before
    <3>5. AllPushed'
      BY <3>1, <3>2, <3>3 DEF OrderInv, AllPushed
    <3> QED BY <3>4, <3>5 DEF OrderInv
  <2> QED BY <1>5, <2>1, <2>2 DEF Send
<1>6. CASE Recv
  <2>1. /\ Head(queue) = queue[1] /\ 1 \in 1..Len(queue)
        /\ Head(queue) \in Items
        /\ \A i \in 1..Len(queue') :
              queue'[i] = queue[i + 1] /\ i + 1 \in 1..Len(queue)
    BY <1>6, HeadTailFacts DEF Recv, TypeOK
  <2>2. item'.spans = queue[1].spans /\ UNCHANGED <<batch, hand, pushed>>
    BY <1>6, <2>1 DEF Recv, producer, Items
  <2>3. /\ Len(queue) \in Nat /\ Len(queue') \in Nat
        /\ \A i \in 1..Len(queue') : 1 < i + 1
        /\ \A i, j \in 1..Len(queue') : i < j => i + 1 < j + 1
    BY <1>6, TypeStep DEF TypeOK
  <2>4. ExportedInOrder'
    <3>1. \A i \in 1..Len(queue') : Before(item'.spans, queue'[i].spans)
      BY <2>1, <2>2, <2>3 DEF OrderInv, ExportedInOrder
    <3>2. \A i, j \in 1..Len(queue') : i < j =>
             Before(queue'[i].spans, queue'[j].spans)
      BY <2>1, <2>3 DEF OrderInv, ExportedInOrder
    <3>3. \A i \in 1..Len(queue') :
             Before(queue'[i].spans, hand'.spans \cup batch'.spans)
      BY <2>1, <2>2 DEF OrderInv, ExportedInOrder
    <3> QED BY <2>1, <2>2, <3>1, <3>2, <3>3
            DEF OrderInv, ExportedInOrder, Before
  <2>5. AllPushed'
    BY <2>1, <2>2, <2>3 DEF OrderInv, AllPushed
  <2> QED BY <2>4, <2>5 DEF OrderInv
<1>7. CASE Report
  BY <1>7, OrderShrinks DEF Report, producer, TypeOK, Items
<1>8. CASE ReleaseItem
  BY <1>8, OrderShrinks DEF ReleaseItem, producer, NoItem
<1>9. CASE CancelDrop
  <2>1. CASE queue # <<>> /\ queue' = Tail(queue) /\ item' = item
    <3>1. \A i \in 1..Len(queue') :
             queue'[i] = queue[i + 1] /\ i + 1 \in 1..Len(queue)
      BY <2>1, HeadTailFacts DEF TypeOK
    <3>2. Len(queue) \in Nat /\ Len(queue') \in Nat
      BY TypeStep DEF TypeOK
    <3>3. UNCHANGED <<batch, hand, item, pushed>>
      BY <1>9, <2>1 DEF CancelDrop, producer
    <3>4. ExportedInOrder'
      BY <3>1, <3>2, <3>3 DEF OrderInv, ExportedInOrder, Before
    <3>5. AllPushed'
      BY <3>1, <3>2, <3>3 DEF OrderInv, AllPushed
    <3> QED BY <3>4, <3>5 DEF OrderInv
  <2>2. CASE UNCHANGED queue
    BY <1>9, <2>2, OrderShrinks DEF CancelDrop, producer, NoItem
  <2> QED BY <1>9, <2>1, <2>2 DEF CancelDrop
<1>10. CASE Age
  BY <1>10, OrderShrinks DEF Age, TypeOK
<1>11. CASE \/ Account \/ CountQueued \/ DropHand \/ DropItem \/ Exit \/ Cancel
            \/ Stop \/ CloseQueue \/ Deadline \/ Finish \/ UNCHANGED vars
  <2>1. UNCHANGED <<batch, hand, item, pushed, queue>>
    BY <1>11 DEF Account, CountQueued, DropHand, DropItem, Exit, Cancel, Stop,
                 CloseQueue, Deadline, Finish, vars, producer
  <2> QED BY <2>1, OrderShrinks
<1> QED
  BY <1>1, <1>2, <1>3, <1>4, <1>5, <1>6, <1>7, <1>8, <1>9, <1>10, <1>11
     DEF Next, Main, Worker, Shutdown, Done

\* Spans leave for the collector in the order the assembler emitted them.
THEOREM OrderCorrect == Spec => []ExportedInOrder
<1>1. Init => ControlInv /\ OrderInv
  BY DEF Init, ControlInv, HandInv, ItemInv, QueueInv, OrderInv,
         ExportedInOrder, AllPushed, Before, NoItem, EmptyBatch
<1>2. TypeOK /\ ControlInv /\ OrderInv /\ [Next]_vars
         => ControlInv' /\ OrderInv'
  BY ControlStep, OrderStep
<1>3. OrderInv => ExportedInOrder
  BY DEF OrderInv
<1> QED BY <1>1, <1>2, <1>3, TypeCorrect, PTL DEF Spec
-----------------------------------------------------------------------------
(* Counting *)

\* A span's outcome count is a natural number.
LEMMA SettledNat == ASSUME TypeOK, NEW s \in Spans PROVE Settled(s) \in Nat
<1>1. counted \in [Counters -> [Spans -> Nat]]
  BY DEF TypeOK
<1>2. \A c \in Counters : counted[c][s] \in Nat
  BY <1>1
<1>3. Terminal \subseteq Counters
  BY DEF Counters
<1>4. \A c \in Terminal : counted[c][s] \in Nat
  BY <1>2, <1>3
<1> QED BY <1>4 DEF Settled, Terminal

\* Counting the spans S under one final outcome settles exactly those, once.
LEMMA CountOnly ==
    ASSUME TypeOK, NEW c \in Terminal, NEW S, Count(Only(c, S)),
           NEW s \in Spans
    PROVE  Settled(s)' = Settled(s) + IF s \in S THEN 1 ELSE 0
<1>1. \A d \in Counters : counted[d][s] \in Nat
  <2>1. counted \in [Counters -> [Spans -> Nat]]
    BY DEF TypeOK
  <2> QED BY <2>1
<1>2. \A d \in Terminal : counted'[d][s] =
         counted[d][s] + IF d = c /\ s \in S THEN 1 ELSE 0
  BY DEF Count, Only, Counters
<1>3. \A d \in Terminal \ {c} : counted'[d][s] = counted[d][s]
  BY <1>1, <1>2 DEF Counters
<1>4. counted'[c][s] = counted[c][s] + IF s \in S THEN 1 ELSE 0
  BY <1>2
<1> DEFINE old(d) == counted[d][s]
           new(d) == counted'[d][s]
           one    == IF s \in S THEN 1 ELSE 0
<1>5. \A d \in Terminal : old(d) \in Nat /\ new(d) = old(d) + IF d = c THEN one ELSE 0
  BY <1>1, <1>3, <1>4 DEF Counters
<1>6. Settled(s) = old("span_size") + old("export_capacity") + old("accepted")
                   + old("rejected") + old("unknown") + old("shutdown_dropped")
  BY DEF Settled
<1>7. Settled(s)' = new("span_size") + new("export_capacity") + new("accepted")
                    + new("rejected") + new("unknown") + new("shutdown_dropped")
  BY DEF Settled
<1>8. one \in Nat
  OBVIOUS
<1> HIDE DEF old, new, one
<1>9. Settled(s)' = Settled(s) + one
  BY <1>5, <1>6, <1>7, <1>8 DEF Terminal
<1> QED BY <1>9 DEF one

\* A partial success settles each span of the batch under one of two outcomes.
LEMMA CountPartial ==
    ASSUME TypeOK, NEW S, NEW R \in SUBSET S, NEW s \in Spans,
           Count(Answered(S, R))
    PROVE  Settled(s)' = Settled(s) + IF s \in S THEN 1 ELSE 0
<1>1. \A d \in Counters : counted[d][s] \in Nat
  BY DEF TypeOK
<1>2. /\ counted'["accepted"][s] =
            counted["accepted"][s] + IF s \in S \ R THEN 1 ELSE 0
      /\ counted'["rejected"][s] =
            counted["rejected"][s] + IF s \in R THEN 1 ELSE 0
  BY DEF Count, Answered, Counters, Terminal
<1>3. \A d \in Terminal \ {"accepted", "rejected"} :
         counted'[d][s] = counted[d][s] + 0
  BY DEF Count, Answered, Counters
<1> QED BY <1>1, <1>2, <1>3 DEF Settled, Terminal, Counters

\* What QueuedBatch::drop counts: the batch if it is not accounted, else nothing.
LEMMA CountDrop ==
    ASSUME TypeOK, NEW q \in Items, Count(DropCount(q)), NEW s \in Spans
    PROVE  Settled(s)' = Settled(s)
                         + IF s \in q.spans /\ ~q.accounted THEN 1 ELSE 0
<1>1. CASE q.accounted
  BY <1>1, CountOnly DEF DropCount, Terminal
<1>2. CASE ~q.accounted /\ q.attempted
  BY <1>2, CountOnly DEF DropCount, Terminal
<1>3. CASE ~q.accounted /\ ~q.attempted
  BY <1>3, CountOnly DEF DropCount, Terminal
<1> QED BY <1>1, <1>2, <1>3 DEF Items

\* A step that settles exactly the spans that stop being held keeps the count.
LEMMA CountedFrame ==
    ASSUME TypeOK, EachSpanCountedOnce, pushed' = pushed,
           \A s \in Spans :
              /\ Settled(s)' = Settled(s)
                               + IF Held(s) /\ ~Held(s)' THEN 1 ELSE 0
              /\ Held(s)' => Held(s)
              /\ Held(s) => s <= pushed
    PROVE  EachSpanCountedOnce'
<1> SUFFICES ASSUME NEW s \in Spans
             PROVE  Settled(s)' =
                      (IF s > pushed' \/ Held(s)' THEN 0 ELSE 1)
  BY DEF EachSpanCountedOnce
<1>1. s \in Int /\ pushed \in Int
  BY ConstantsAssumption DEF Spans, TypeOK
<1>2. Settled(s) = IF s > pushed \/ Held(s) THEN 0 ELSE 1
  BY DEF EachSpanCountedOnce
<1> QED BY <1>1, <1>2

\* Only pushed spans are held.
LEMMA HeldPushed ==
    ASSUME TypeOK, OrderInv, NEW s \in Spans, Held(s) PROVE s <= pushed
  BY DEF OrderInv, AllPushed, Held, InQueue
\* Receiving or dropping the head of the queue takes its spans out of the queue.
LEMMA InQueueTail ==
    ASSUME TypeOK, queue # <<>>, queue' = Tail(queue), NEW s
    PROVE  InQueue(s) <=> (s \in Head(queue).spans \/ InQueue(s)')
<1>1. /\ Head(queue) = queue[1] /\ 1 \in 1..Len(queue)
      /\ \A i \in 1..Len(queue') :
            queue'[i] = queue[i + 1] /\ i + 1 \in 1..Len(queue)
      /\ Len(queue') = Len(queue) - 1 /\ Len(queue) \in Nat
  BY HeadTailFacts DEF TypeOK
<1>2. ASSUME NEW i \in 1..Len(queue), i # 1
      PROVE  i - 1 \in 1..Len(queue') /\ queue'[i - 1] = queue[i]
  <2>1. i - 1 \in 1..Len(queue') /\ (i - 1) + 1 = i
    BY <1>1, <1>2
  <2> QED BY <1>1, <2>1
<1> QED BY <1>1, <1>2 DEF InQueue

\* Sending puts the spans of the hand into the queue.
LEMMA InQueueAppend ==
    ASSUME TypeOK, queue' = Append(queue, hand), NEW s
    PROVE  InQueue(s)' <=> (InQueue(s) \/ s \in hand.spans)
<1> DEFINE m == Len(queue)
<1>1. /\ Len(queue') = m + 1 /\ queue'[m + 1] = hand /\ m \in Nat
      /\ \A i \in 1..m : queue'[i] = queue[i]
  BY AppendFacts DEF TypeOK
<1>2. \A i \in 1..Len(queue') : i = m + 1 \/ i \in 1..m
  BY <1>1
<1>3. m + 1 \in 1..Len(queue') /\ \A i \in 1..m : i \in 1..Len(queue')
  BY <1>1
<1> QED BY <1>1, <1>2, <1>3 DEF InQueue

\* Because they are ordered, the four places share no span.
LEMMA PlacesDisjoint ==
    ASSUME TypeOK, OrderInv, NEW s \in Spans
    PROVE  /\ s \in hand.spans =>
                 s \notin batch.spans /\ s \notin item.spans /\ ~InQueue(s)
           /\ s \in item.spans =>
                 s \notin batch.spans /\ s \notin hand.spans /\ ~InQueue(s)
           /\ queue # <<>> /\ s \in Head(queue).spans =>
                 /\ s \notin batch.spans /\ s \notin hand.spans
                 /\ s \notin item.spans
                 /\ queue' = Tail(queue) => ~InQueue(s)'
<1>1. ~(s < s)
  BY ConstantsAssumption DEF Spans
<1>2. s \in hand.spans =>
         s \notin batch.spans /\ s \notin item.spans /\ ~InQueue(s)
  BY <1>1 DEF OrderInv, ExportedInOrder, Before, InQueue
<1>3. s \in item.spans =>
         s \notin batch.spans /\ s \notin hand.spans /\ ~InQueue(s)
  BY <1>1 DEF OrderInv, ExportedInOrder, Before, InQueue
<1>4. ASSUME queue # <<>>, s \in Head(queue).spans
      PROVE  /\ s \notin batch.spans /\ s \notin hand.spans
             /\ s \notin item.spans
             /\ queue' = Tail(queue) => ~InQueue(s)'
  <2>1. /\ Head(queue) = queue[1] /\ 1 \in 1..Len(queue)
        /\ \A i \in 1..Len(Tail(queue)) :
              Tail(queue)[i] = queue[i + 1] /\ i + 1 \in 1..Len(queue)
        /\ Len(queue) \in Nat
    BY <1>4, HeadTailFacts DEF TypeOK
  <2>2. s \notin batch.spans /\ s \notin hand.spans /\ s \notin item.spans
    BY <1>1, <1>4, <2>1 DEF OrderInv, ExportedInOrder, Before
  <2>3. ASSUME queue' = Tail(queue), NEW i \in 1..Len(queue'),
               s \in queue'[i].spans
        PROVE  FALSE
    <3>1. i + 1 \in 1..Len(queue) /\ 1 < i + 1 /\ s \in queue[i + 1].spans
      BY <2>1, <2>3
    <3>2. Before(queue[1].spans, queue[i + 1].spans)
      BY <2>1, <3>1 DEF OrderInv, ExportedInOrder
    <3> QED BY <1>1, <1>4, <2>1, <3>1, <3>2 DEF Before
  <2> QED BY <2>2, <2>3 DEF InQueue
<1> QED BY <1>2, <1>3, <1>4

\* A step that moves open spans between places, and counts nothing, is neutral.
LEMMA CountedMove ==
    ASSUME TypeOK, OrderInv, EachSpanCountedOnce, pushed' = pushed,
           \A s \in Spans : Held(s)' <=> Held(s),
           \A s \in Spans : Settled(s)' = Settled(s)
    PROVE  EachSpanCountedOnce'
  BY SettledNat, HeldPushed DEF EachSpanCountedOnce

\* Every step counts a span under a final outcome exactly when it lets go of it.
LEMMA CountedStep ==
    ASSUME TypeOK, ControlInv, OrderInv, EachSpanCountedOnce, [Next]_vars
    PROVE  EachSpanCountedOnce'
<1> USE DEF Held
<1>1. CASE Push
  <2> DEFINE n == pushed + 1
  <2>1. n \in Spans /\ pushed' = n /\ pushed \in Nat
    BY <1>1, ConstantsAssumption DEF Push, TypeOK, Spans
  <2>2. hand = NoItem /\ UNCHANGED <<queue, item>>
    BY <1>1 DEF Push, Ready, ControlInv, HandInv
  <2>3. ~Held(n) /\ Settled(n) = 0
    <3>1. ~(n <= pushed) /\ n > pushed
      BY <2>1
    <3>2. ~Held(n)
      BY <2>1, <3>1, HeldPushed
    <3> QED BY <2>1, <3>1, <3>2 DEF EachSpanCountedOnce
  <2>4. \A s \in Spans : s # n => (s > pushed' <=> s > pushed)
    BY <2>1, ConstantsAssumption DEF Spans
  <2>5. CASE PushRejected(n)
    <3>1. \A s \in Spans : Settled(s)' = Settled(s) + IF s = n THEN 1 ELSE 0
      BY <2>5, CountOnly DEF PushRejected, Terminal
    <3>2. \A s \in Spans : Held(s)' <=> Held(s)
      BY <2>2, <2>5 DEF PushRejected, InQueue
    <3>3. ~(n > pushed')
      BY <2>1
    <3> QED BY <2>1, <2>3, <2>4, <3>1, <3>2, <3>3, SettledNat
            DEF EachSpanCountedOnce
  <2>6. CASE PushBuffered(n)
    <3>1. \A s \in Spans : Settled(s)' = Settled(s)
      BY <2>6 DEF PushBuffered, Settled
    <3>2. \A s \in Spans : Held(s)' <=> (Held(s) \/ s = n)
      BY <2>2, <2>6 DEF PushBuffered, InQueue, Taken, Append1, AfterTake,
                        EmptyBatch, NoItem
    <3> QED BY <2>3, <2>4, <3>1, <3>2 DEF EachSpanCountedOnce
  <2> QED BY <1>1, <2>5, <2>6 DEF Push
<1>2. CASE FlushFull \/ FlushDue \/ FinalTake
  <2>1. hand = NoItem /\ UNCHANGED <<pushed, queue, item, counted>>
    BY <1>2 DEF FlushFull, FlushDue, FinalTake, Ready, ControlInv, HandInv
  <2>2. StartEnqueue \/ UNCHANGED <<batch, hand>>
    BY <1>2 DEF FlushFull, FlushDue, FinalTake
  <2>3. \A s \in Spans : Held(s)' <=> Held(s)
    BY <2>1, <2>2 DEF StartEnqueue, InQueue, Taken, AfterTake, EmptyBatch, NoItem
  <2>4. \A s \in Spans : Settled(s)' = Settled(s)
    BY <2>1 DEF Settled
  <2> QED BY <2>1, <2>3, <2>4, CountedMove
<1>3. CASE Acquire
  <2>1. UNCHANGED <<batch, pushed, queue, item>>
    BY <1>3 DEF Acquire
  <2>2. CASE UNCHANGED <<hand, counted>>
    <3>1. \A s \in Spans : (Held(s)' <=> Held(s)) /\ Settled(s)' = Settled(s)
      BY <2>1, <2>2 DEF InQueue, Settled
    <3> QED BY <2>1, <3>1, CountedMove
  <2>3. CASE Count(Only("export_capacity", hand.spans)) /\ hand' = NoItem
    <3>1. ~hand.accounted
      BY <1>3 DEF Acquire, ControlInv, HandInv
    <3>2. \A s \in Spans :
             Settled(s)' = Settled(s) + IF s \in hand.spans THEN 1 ELSE 0
      BY <2>3, CountOnly DEF Terminal
    <3>3. \A s \in Spans : /\ Held(s)' => Held(s)
                           /\ (Held(s) /\ ~Held(s)') <=> s \in hand.spans
      BY <2>1, <2>3, <3>1, PlacesDisjoint DEF InQueue, NoItem
    <3> QED BY <2>1, <3>2, <3>3, HeldPushed, CountedFrame
  <2> QED BY <1>3, <2>2, <2>3 DEF Acquire
<1>4. CASE Send
  <2>1. ~hand.accounted /\ UNCHANGED <<batch, pushed, item>>
    BY <1>4 DEF Send, ControlInv, HandInv
  <2>2. CASE queue' = Append(queue, hand) /\ hand' = NoItem /\ UNCHANGED counted
    <3>1. \A s \in Spans : Held(s)' <=> Held(s)
      BY <2>1, <2>2, InQueueAppend DEF NoItem
    <3>2. \A s \in Spans : Settled(s)' = Settled(s)
      BY <2>2 DEF Settled
    <3> QED BY <2>1, <3>1, <3>2, CountedMove
  <2>3. CASE /\ Count(Only("export_capacity", hand.spans)) /\ UNCHANGED queue
             /\ hand' = [hand EXCEPT !.accounted = TRUE]
    <3>1. hand'.spans = hand.spans /\ hand'.accounted
      BY <2>3 DEF TypeOK, Items
    <3>2. \A s \in Spans :
             Settled(s)' = Settled(s) + IF s \in hand.spans THEN 1 ELSE 0
      BY <2>3, CountOnly DEF Terminal
    <3>3. \A s \in Spans : /\ Held(s)' => Held(s)
                           /\ (Held(s) /\ ~Held(s)') <=> s \in hand.spans
      BY <2>1, <2>3, <3>1, PlacesDisjoint DEF InQueue
    <3> QED BY <2>1, <3>2, <3>3, HeldPushed, CountedFrame
  <2> QED BY <1>4, <2>2, <2>3 DEF Send
<1>5. CASE CountQueued
  <2>1. UNCHANGED <<batch, hand, pushed, queue, item>>
    BY <1>5 DEF CountQueued
  <2>2. \A s \in Spans : \A c \in Terminal : counted'[c][s] = counted[c][s] + 0
    <3>1. \A c \in Terminal : c # "export_queued" /\ c \in Counters
      BY DEF Terminal, Counters
    <3> QED BY <1>5, <3>1 DEF CountQueued, Count, Only
  <2>3. \A s \in Spans : \A c \in Terminal : counted'[c][s] = counted[c][s]
    BY <2>2 DEF TypeOK, Counters
  <2>4. \A s \in Spans : (Held(s)' <=> Held(s)) /\ Settled(s)' = Settled(s)
    BY <2>1, <2>3 DEF InQueue, Settled, Terminal
  <2> QED BY <2>1, <2>4, CountedMove
<1>6. CASE DropHand \/ DropItem
  <2>1. UNCHANGED <<batch, hand, pushed, queue, item>>
    BY <1>6 DEF DropHand, DropItem, producer
  <2>2. \A s \in Spans : Settled(s)' = Settled(s) + 0
    BY <1>6, CountDrop
       DEF DropHand, DropItem, ControlInv, HandInv, ItemInv, TypeOK
  <2>3. \A s \in Spans : (Held(s)' <=> Held(s)) /\ Settled(s)' = Settled(s)
    BY <2>1, <2>2, SettledNat DEF InQueue
  <2> QED BY <2>1, <2>3, CountedMove
<1>7. CASE ReleaseHand
  <2>1. hand.accounted /\ hand' = NoItem
        /\ UNCHANGED <<batch, pushed, queue, item, counted>>
    BY <1>7 DEF ReleaseHand, ControlInv, HandInv
  <2>2. \A s \in Spans : (Held(s)' <=> Held(s)) /\ Settled(s)' = Settled(s)
    BY <2>1 DEF InQueue, Settled, NoItem
  <2> QED BY <2>1, <2>2, CountedMove
<1>8. CASE Recv
  <2>1. /\ item = NoItem /\ queue # <<>> /\ queue' = Tail(queue)
        /\ UNCHANGED <<batch, hand, pushed, counted>>
    BY <1>8 DEF Recv, ControlInv, ItemInv, producer
  <2>2. Head(queue) \in Items /\ ~Head(queue).accounted
    BY <2>1, HeadTailFacts DEF TypeOK, ControlInv, QueueInv
  <2>3. item'.spans = Head(queue).spans /\ ~item'.accounted
    BY <1>8, <2>2 DEF Recv, Items
  <2>4. \A s \in Spans : Held(s)' <=> Held(s)
    BY <2>1, <2>3, InQueueTail DEF NoItem
  <2>5. \A s \in Spans : Settled(s)' = Settled(s)
    BY <2>1 DEF Settled
  <2> QED BY <2>1, <2>4, <2>5, CountedMove
<1>9. CASE Report
  <2>1. ~item.accounted /\ UNCHANGED <<batch, hand, pushed, queue>>
    BY <1>9 DEF Report, ControlInv, ItemInv, producer
  <2>2. item'.spans = item.spans /\ item'.accounted
    BY <1>9 DEF Report, TypeOK, Items
  <2>3. \A s \in Spans :
           Settled(s)' = Settled(s) + IF s \in item.spans THEN 1 ELSE 0
    <3>1. CASE Count(Only("unknown", item.spans))
      BY <3>1, CountOnly DEF Terminal
    <3>2. ASSUME NEW R \in SUBSET item.spans, Count(Answered(item.spans, R))
          PROVE  \A s \in Spans :
                   Settled(s)' = Settled(s) + IF s \in item.spans THEN 1 ELSE 0
      BY <3>2, CountPartial
    <3> QED BY <1>9, <3>1, <3>2 DEF Report
  <2>4. \A s \in Spans : /\ Held(s)' => Held(s)
                         /\ (Held(s) /\ ~Held(s)') <=> s \in item.spans
    BY <2>1, <2>2, PlacesDisjoint DEF InQueue
  <2> QED BY <2>1, <2>3, <2>4, HeldPushed, CountedFrame
<1>10. CASE ReleaseItem
  <2>1. item.accounted /\ item' = NoItem
        /\ UNCHANGED <<batch, hand, pushed, queue, counted>>
    BY <1>10 DEF ReleaseItem, ControlInv, ItemInv, producer
  <2>2. \A s \in Spans : (Held(s)' <=> Held(s)) /\ Settled(s)' = Settled(s)
    BY <2>1 DEF InQueue, Settled, NoItem
  <2> QED BY <2>1, <2>2, CountedMove
<1>11. CASE CancelDrop
  <2>1. ~item.accounted /\ UNCHANGED <<batch, hand, pushed>>
    <3>1. worker = "cancelling" /\ UNCHANGED <<batch, hand, pushed>>
      BY <1>11 DEF CancelDrop, producer
    <3> QED BY <3>1 DEF ControlInv, ItemInv
  <2>2. CASE DropHeld(item) /\ item' = NoItem /\ UNCHANGED queue
    <3>1. \A s \in Spans :
             Settled(s)' = Settled(s) + IF s \in item.spans THEN 1 ELSE 0
      BY <2>1, <2>2, CountDrop DEF DropHeld, TypeOK
    <3>2. \A s \in Spans : /\ Held(s)' => Held(s)
                           /\ (Held(s) /\ ~Held(s)') <=> s \in item.spans
      BY <2>1, <2>2, PlacesDisjoint DEF InQueue, NoItem
    <3> QED BY <2>1, <3>1, <3>2, HeldPushed, CountedFrame
  <2>3. CASE /\ queue # <<>> /\ DropHeld(Head(queue)) /\ queue' = Tail(queue)
             /\ UNCHANGED item
    <3>1. Head(queue) \in Items /\ ~Head(queue).accounted
      BY <2>3, HeadTailFacts DEF TypeOK, ControlInv, QueueInv
    <3>2. \A s \in Spans :
             Settled(s)' = Settled(s) + IF s \in Head(queue).spans THEN 1 ELSE 0
      BY <2>3, <3>1, CountDrop DEF DropHeld
    <3>3. \A s \in Spans : /\ Held(s)' => Held(s)
                           /\ (Held(s) /\ ~Held(s)') <=> s \in Head(queue).spans
      BY <2>1, <2>3, PlacesDisjoint, InQueueTail
    <3> QED BY <2>1, <3>2, <3>3, HeldPushed, CountedFrame
  <2>4. CASE UNCHANGED <<queue, item, counted>>
    <3>1. \A s \in Spans : (Held(s)' <=> Held(s)) /\ Settled(s)' = Settled(s)
      BY <2>1, <2>4 DEF InQueue, Settled
    <3> QED BY <2>1, <3>1, CountedMove
  <2> QED BY <1>11, <2>2, <2>3, <2>4 DEF CancelDrop
<1>12. CASE \/ Account \/ Exit \/ Cancel \/ Stop \/ CloseQueue \/ Deadline
            \/ Finish \/ Age \/ UNCHANGED vars
  <2>1. /\ UNCHANGED <<hand, item, pushed, queue, counted>>
        /\ batch'.spans = batch.spans
    BY <1>12 DEF Account, Exit, Cancel, Stop, CloseQueue, Deadline, Finish, Age,
                 vars, producer, TypeOK
  <2>2. \A s \in Spans : (Held(s)' <=> Held(s)) /\ Settled(s)' = Settled(s)
    BY <2>1 DEF InQueue, Settled
  <2> QED BY <2>1, <2>2, CountedMove
<1> QED
  BY <1>1, <1>2, <1>3, <1>4, <1>5, <1>6, <1>7, <1>8, <1>9, <1>10, <1>11, <1>12
     DEF Next, Main, Worker, Shutdown, Done

\* The inductive invariant behind the theorems.
IInv == TypeOK /\ ControlInv /\ OrderInv /\ EachSpanCountedOnce

\* The inductive invariant holds in every reachable state.
LEMMA IInvCorrect == Spec => []IInv
<1>1. Init => IInv
  <2> SUFFICES ASSUME Init PROVE IInv
    OBVIOUS
  <2>1. ControlInv /\ OrderInv
    BY DEF Init, ControlInv, HandInv, ItemInv, QueueInv, OrderInv,
           ExportedInOrder, AllPushed, Before, NoItem, EmptyBatch
  <2>2. EachSpanCountedOnce
    BY ConstantsAssumption DEF Init, EachSpanCountedOnce, Settled, Spans,
                               Counters, Terminal
  <2> QED BY <2>1, <2>2, TypeInit DEF IInv
<1>2. IInv /\ [Next]_vars => IInv'
  BY TypeStep, ControlStep, OrderStep, CountedStep DEF IInv
<1> QED BY <1>1, <1>2, PTL DEF Spec

\* Conservation: every emitted span is held or counted under one outcome, once,
\* whatever the interleaving of the two tasks and wherever an abort falls.
THEOREM CountedCorrect == Spec => []EachSpanCountedOnce
<1>1. IInv => EachSpanCountedOnce
  BY DEF IInv
<1> QED BY <1>1, IInvCorrect, PTL
-----------------------------------------------------------------------------
(* Refinement of the ledger *)

\* Six counts that add up to at most one: two positive ones are the same.
LEMMA OnePositive ==
    ASSUME NEW f, \A c \in Terminal : f[c] \in Nat,
           f["span_size"] + f["export_capacity"] + f["accepted"] + f["rejected"]
             + f["unknown"] + f["shutdown_dropped"] \in {0, 1},
           NEW c \in Terminal, NEW d \in Terminal, f[c] > 0, f[d] > 0
    PROVE  c = d
  BY DEF Terminal

\* The counters of span s under its final outcomes.
Counts(s) == [c \in Terminal |-> counted[c][s]]

\* What counting a set of spans does to the promised fates of each span.
LEMMA CountsFacts ==
    ASSUME TypeOK, EachSpanCountedOnce, NEW s \in Spans
    PROVE  /\ \A c \in Terminal : Counts(s)[c] \in Nat /\ Counts(s)[c] = counted[c][s]
           /\ Settled(s) = Counts(s)["span_size"] + Counts(s)["export_capacity"]
                + Counts(s)["accepted"] + Counts(s)["rejected"]
                + Counts(s)["unknown"] + Counts(s)["shutdown_dropped"]
           /\ Settled(s) \in {0, 1}
<1>1. \A c \in Terminal : Counts(s)[c] \in Nat /\ Counts(s)[c] = counted[c][s]
  BY DEF Counts, TypeOK, Counters
<1>2. Settled(s) \in {0, 1}
  BY DEF EachSpanCountedOnce
<1> QED BY <1>1, <1>2 DEF Settled, Terminal, Counts

\* What the ledger says of a span that is counted is what it is counted under.
LEMMA LedgerCounted ==
    ASSUME TypeOK, EachSpanCountedOnce, NEW s \in Spans, NEW c \in Terminal,
           counted[c][s] > 0
    PROVE  ledgerBar[s] = c
<1>1. \A d \in Terminal : counted[d][s] > 0 => d = c
  <2> SUFFICES ASSUME NEW d \in Terminal, counted[d][s] > 0 PROVE d = c
    OBVIOUS
  <2>1. Counts(s)[d] > 0 /\ Counts(s)[c] > 0
    BY CountsFacts
  <2> HIDE DEF Terminal
  <2> QED BY <2>1, CountsFacts, OnePositive
<1>2. (CHOOSE d \in Terminal : counted[d][s] > 0) = c
  BY <1>1
<1> QED BY <1>2 DEF ledgerBar

\* ... and of a span that is not, whether it was emitted.
LEMMA LedgerOpen ==
    ASSUME TypeOK, NEW s \in Spans, \A c \in Terminal : ~(counted[c][s] > 0)
    PROVE  ledgerBar[s] = IF s > pushed THEN "unseen" ELSE "held"
  BY DEF ledgerBar

\* A span under a final outcome was emitted.
LEMMA CountedPushed ==
    ASSUME TypeOK, EachSpanCountedOnce, NEW s \in Spans, NEW c \in Terminal,
           counted[c][s] > 0
    PROVE  ~(s > pushed)
<1> SUFFICES ASSUME s > pushed PROVE FALSE
  OBVIOUS
<1>1. Settled(s) = 0
  BY DEF EachSpanCountedOnce
<1>2. Counts(s)[c] > 0
  BY CountsFacts
<1> QED BY <1>1, <1>2, CountsFacts DEF Terminal

\* The ledger says of each span what the counters say.
LedgerRight ==
    \A s \in Spans :
       /\ \A c \in Terminal :
             counted[c][s] > 0 => ledgerBar[s] = c /\ ~(s > pushed)
       /\ (\A c \in Terminal : ~(counted[c][s] > 0)) =>
             ledgerBar[s] = IF s > pushed THEN "unseen" ELSE "held"

\* In a well-typed state that counts each span once, the refinement mapping is right.
LEMMA LedgerAgrees == TypeOK /\ EachSpanCountedOnce => LedgerRight
  BY LedgerCounted, LedgerOpen, CountedPushed DEF LedgerRight

\* A step that counts only under the outcomes in B settles held spans.
LEMMA LedgerSettles ==
    ASSUME IInv, IInv', pushed' = pushed, NEW B \in Ledger!BatchOutcomes,
           \A c \in Terminal, s \in Spans :
              counted'[c][s] = counted[c][s] \/ (c \in B /\ counted'[c][s] > counted[c][s])
    PROVE  Ledger!Settle(B)
<1>1. LedgerRight
  BY LedgerAgrees DEF IInv
<1>2. LedgerRight'
  <2>1. (TypeOK /\ EachSpanCountedOnce)'
    BY DEF IInv
  <2> QED BY <2>1, LedgerAgrees, PTL
<1>3. \A c \in Terminal, s \in Spans : counted[c][s] \in Nat /\ counted'[c][s] \in Nat
  BY DEF IInv, TypeOK, Counters
<1>4. ASSUME NEW s \in Spans
      PROVE  ledgerBar'[s] = ledgerBar[s] \/ (ledgerBar[s] = "held" /\ ledgerBar'[s] \in B)
  <2>1. CASE \E c \in Terminal : counted[c][s] > 0
    <3>1. PICK c \in Terminal : counted[c][s] > 0
      BY <2>1
    <3>2. counted'[c][s] > 0
      BY <1>3, <3>1
    <3> QED BY <1>1, <1>2, <3>1, <3>2 DEF LedgerRight
  <2>2. CASE \A c \in Terminal : ~(counted[c][s] > 0)
    <3>1. ledgerBar[s] = IF s > pushed THEN "unseen" ELSE "held"
      BY <1>1, <2>2 DEF LedgerRight
    <3>2. CASE \A c \in Terminal : ~(counted'[c][s] > 0)
      BY <1>2, <3>1, <3>2 DEF LedgerRight
    <3>3. CASE \E c \in Terminal : counted'[c][s] > 0
      <4>1. PICK c \in Terminal : counted'[c][s] > 0
        BY <3>3
      <4>2. c \in B /\ ledgerBar'[s] = c /\ ~(s > pushed)
        BY <1>2, <2>2, <4>1 DEF LedgerRight
      <4> QED BY <3>1, <4>2
    <3> QED BY <3>2, <3>3
  <2> QED BY <2>1, <2>2
<1>5. ledgerBar' \in [Spans -> Ledger!Entries]
  <2>1. ASSUME NEW s \in Spans PROVE ledgerBar'[s] \in Ledger!Entries
    <3>1. CASE \E c \in Terminal : counted'[c][s] > 0
      BY <1>2, <3>1 DEF LedgerRight, Terminal, Ledger!Entries, Ledger!Outcomes
    <3>2. CASE \A c \in Terminal : ~(counted'[c][s] > 0)
      BY <1>2, <3>2 DEF LedgerRight, Ledger!Entries
    <3> QED BY <3>1, <3>2
  <2> QED BY <2>1 DEF ledgerBar
<1> QED BY <1>4, <1>5 DEF Ledger!Settle

\* The counters that a step raises are final outcomes in B, or none.
Raises(B) ==
    \A c \in Terminal, s \in Spans :
       counted'[c][s] = counted[c][s] \/ (c \in B /\ counted'[c][s] > counted[c][s])

\* Counting spans under the outcomes in B, and perhaps as queued, raises those.
LEMMA CountRaises ==
    ASSUME TypeOK, NEW add, NEW B, Count(add),
           \A c \in Terminal \ B : add[c] = {}
    PROVE  Raises(B)
<1> SUFFICES ASSUME NEW c \in Terminal, NEW s \in Spans
             PROVE  counted'[c][s] = counted[c][s]
                    \/ (c \in B /\ counted'[c][s] > counted[c][s])
  BY DEF Raises
<1>1. counted[c][s] \in Nat
  BY DEF TypeOK, Counters
<1>2. counted'[c][s] = counted[c][s] + IF s \in add[c] THEN 1 ELSE 0
  BY DEF Count, Counters
<1>3. CASE s \in add[c]
  BY <1>1, <1>2, <1>3
<1>4. CASE s \notin add[c]
  BY <1>1, <1>2, <1>4
<1> QED BY <1>3, <1>4

\* ... in particular under one outcome, which every kind of batch has one of.
LEMMA OnlyRaises ==
    ASSUME TypeOK, NEW c \in Counters, NEW S, NEW B, Count(Only(c, S)),
           c \in B \cup {"export_queued"}
    PROVE  Raises(B)
<1>1. \A d \in Terminal \ B : Only(c, S)[d] = {}
  BY DEF Only, Counters, Terminal
<1> QED BY <1>1, CountRaises

\* QueuedBatch::drop counts under one outcome.
LEMMA DropRaises ==
    ASSUME TypeOK, NEW q, Count(DropCount(q))
    PROVE  Raises({"unknown"}) \/ Raises({"shutdown_dropped"})
<1>1. "unknown" \in Counters /\ "shutdown_dropped" \in Counters
  BY DEF Counters, Terminal
<1>2. \/ Count(Only("unknown", {})) \/ Count(Only("unknown", q.spans))
      \/ Count(Only("shutdown_dropped", q.spans))
  BY DEF DropCount
<1> QED BY <1>1, <1>2, OnlyRaises

\* An emitted span enters the ledger.
LEMMA PushEmits ==
    ASSUME IInv, IInv', Push
    PROVE  \E s \in Spans : Ledger!Emit(s)
<1> DEFINE n == pushed + 1
<1>1. n \in Spans /\ pushed' = n /\ pushed \in Nat /\ n > pushed
  BY ConstantsAssumption DEF IInv, Push, TypeOK, Spans
<1>2. LedgerRight
  BY LedgerAgrees DEF IInv
<1>3. LedgerRight'
  <2>1. (TypeOK /\ EachSpanCountedOnce)'
    BY DEF IInv
  <2> QED BY <2>1, LedgerAgrees, PTL
<1>4. \A c \in Terminal : ~(counted[c][n] > 0)
  BY <1>1, <1>2 DEF LedgerRight
<1>5. ledgerBar[n] = "unseen"
  BY <1>1, <1>2, <1>4 DEF LedgerRight
<1>6. \A s \in Spans : s # n => (s > pushed' <=> s > pushed)
  BY <1>1, ConstantsAssumption DEF Spans
<1>7. \A c \in Terminal, s \in Spans : counted[c][s] \in Nat
  BY DEF IInv, TypeOK, Counters
<1>8. \A c \in Terminal, s \in Spans \ {n} : counted'[c][s] = counted[c][s]
  <2>1. CASE Count(Only("span_size", {n}))
    BY <1>7, <2>1 DEF Count, Only, Counters
  <2>2. CASE UNCHANGED counted
    BY <2>2
  <2> QED BY <2>1, <2>2 DEF Push, PushRejected, PushBuffered
<1>9. ASSUME NEW s \in Spans, s # n PROVE ledgerBar'[s] = ledgerBar[s]
  <2>1. CASE \E c \in Terminal : counted[c][s] > 0
    BY <1>2, <1>3, <1>8, <1>9, <2>1 DEF LedgerRight
  <2>2. CASE \A c \in Terminal : ~(counted[c][s] > 0)
    BY <1>2, <1>3, <1>6, <1>8, <1>9, <2>2 DEF LedgerRight
  <2> QED BY <2>1, <2>2
<1>10. ledgerBar'[n] \in {"held", "span_size"}
  <2>1. CASE Count(Only("span_size", {n}))
    <3>1. counted'["span_size"][n] = counted["span_size"][n] + 1
      BY <1>1, <2>1 DEF Count, Only, Counters, Terminal
    <3>2. counted'["span_size"][n] > 0
      BY <1>1, <1>7, <3>1 DEF Terminal
    <3> QED BY <1>1, <1>3, <3>2 DEF LedgerRight, Terminal
  <2>2. CASE UNCHANGED counted
    <3>1. ~(n > pushed')
      BY <1>1
    <3> QED BY <1>1, <1>3, <1>4, <2>2, <3>1 DEF LedgerRight
  <2> QED BY <2>1, <2>2 DEF Push, PushRejected, PushBuffered
<1>11. \A e \in {"held", "span_size"} : ledgerBar'[n] = e =>
          ledgerBar' = [ledgerBar EXCEPT ![n] = e]
  BY <1>9 DEF ledgerBar
<1> QED BY <1>1, <1>5, <1>10, <1>11 DEF Ledger!Emit

\* Every other step raises counters of one kind of batch.
LEMMA StepRaises ==
    ASSUME TypeOK, [Next]_vars, ~Push
    PROVE  pushed' = pushed /\ \E B \in Ledger!BatchOutcomes : Raises(B)
<1>1. /\ {"unknown"} \in Ledger!BatchOutcomes
      /\ {"export_capacity"} \in Ledger!BatchOutcomes
      /\ {"shutdown_dropped"} \in Ledger!BatchOutcomes
      /\ {"accepted", "rejected"} \in Ledger!BatchOutcomes
  BY DEF Ledger!BatchOutcomes
<1>2. {"export_capacity", "unknown", "export_queued"} \subseteq Counters
  BY DEF Counters, Terminal
<1>3. CASE UNCHANGED counted /\ pushed' = pushed
  <2>1. Raises({"unknown"})
    BY <1>3 DEF Raises
  <2> QED BY <1>1, <1>3, <2>1
<1>4. CASE Acquire \/ Send
  <2>1. pushed' = pushed
        /\ (UNCHANGED counted \/ Count(Only("export_capacity", hand.spans)))
    BY <1>4 DEF Acquire, Send
  <2>2. CASE Count(Only("export_capacity", hand.spans))
    <3>1. Raises({"export_capacity"})
      BY <1>2, <2>2, OnlyRaises
    <3> QED BY <1>1, <2>1, <3>1
  <2> QED BY <1>3, <2>1, <2>2
<1>5. CASE CountQueued
  <2>1. Raises({"unknown"})
    BY <1>2, <1>5, OnlyRaises DEF CountQueued
  <2> QED BY <1>1, <1>5, <2>1 DEF CountQueued
<1>6. CASE DropHand \/ DropItem
  <2>1. pushed' = pushed /\ \E q \in {hand, item} : Count(DropCount(q))
    BY <1>6 DEF DropHand, DropItem, producer
  <2> QED BY <1>1, <2>1, DropRaises
<1>7. CASE Report
  <2>1. pushed' = pushed
    BY <1>7 DEF Report, producer
  <2>2. CASE Count(Only("unknown", item.spans))
    <3>1. Raises({"unknown"})
      BY <1>2, <2>2, OnlyRaises
    <3> QED BY <1>1, <2>1, <3>1
  <2>3. ASSUME NEW R, Count(Answered(item.spans, R))
        PROVE  Raises({"accepted", "rejected"})
    <3>1. \A c \in Terminal \ {"accepted", "rejected"} : Answered(item.spans, R)[c] = {}
      BY DEF Answered, Counters, Terminal
    <3> QED BY <2>3, <3>1, CountRaises
  <2> QED BY <1>1, <1>7, <2>1, <2>2, <2>3 DEF Report
<1>8. CASE CancelDrop
  <2>1. pushed' = pushed
        /\ (UNCHANGED counted \/ \E q \in {item, Head(queue)} : Count(DropCount(q)))
    BY <1>8 DEF CancelDrop, DropHeld, producer
  <2> QED BY <1>1, <1>3, <2>1, DropRaises
<1>9. CASE \/ FlushFull \/ FlushDue \/ Account \/ ReleaseHand \/ Recv \/ ReleaseItem \/ Exit
           \/ Cancel \/ Shutdown \/ Age \/ UNCHANGED vars
  <2>1. UNCHANGED counted /\ pushed' = pushed
    BY <1>9 DEF FlushFull, FlushDue, Account, ReleaseHand, Recv, ReleaseItem, Exit, Cancel,
                Shutdown, Stop, FinalTake, CloseQueue, Deadline, Finish, Age, vars, producer
  <2> QED BY <1>3, <2>1
<1> QED BY <1>4, <1>5, <1>6, <1>7, <1>8, <1>9 DEF Next, Main, Worker, Done

\* The batcher, the queue, the worker and the guard that counts what is dropped
\* implement the ledger: a span goes from unseen to held or refused and from held
\* to one outcome, and the outcomes that one batch gets belong together.
THEOREM PipelineLedger == Spec => LedgerSpec
<1>1. Init => Ledger!Init
  <2> SUFFICES ASSUME Init PROVE ledgerBar = [s \in Spans |-> "unseen"]
    BY DEF Ledger!Init
  <2>1. \A s \in Spans : s > pushed /\ \A c \in Terminal : ~(counted[c][s] > 0)
    BY ConstantsAssumption DEF Init, Spans, Counters
  <2> QED BY <2>1 DEF ledgerBar
<1>2. IInv /\ IInv' /\ [Next]_vars => [Ledger!Next]_ledgerBar
  <2> SUFFICES ASSUME IInv, IInv', [Next]_vars PROVE [Ledger!Next]_ledgerBar
    OBVIOUS
  <2>1. CASE Push
    BY <2>1, PushEmits DEF Ledger!Next
  <2>2. CASE ~Push
    <3>1. PICK B \in Ledger!BatchOutcomes : Raises(B)
      BY <2>2, StepRaises DEF IInv
    <3>2. pushed' = pushed
      BY <2>2, StepRaises DEF IInv
    <3>3. Ledger!Settle(B)
      BY <3>1, <3>2, LedgerSettles DEF Raises
    <3> QED BY <3>3 DEF Ledger!Next
  <2> QED BY <2>1, <2>2
<1> QED BY <1>1, <1>2, IInvCorrect, PTL DEF Spec, LedgerSpec, Ledger!Spec

=============================================================================
