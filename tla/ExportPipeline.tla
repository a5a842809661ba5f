--------------------------- MODULE ExportPipeline ---------------------------
(***************************************************************************)
(* The export half of the daemon: SpanBatcher (batch.rs), ExportQueue,     *)
(* QueuedBatch and export_worker (pipeline.rs), the outcome counters       *)
(* (diagnostics.rs) and the part of the daemon's loop and shutdown that    *)
(* drives them (daemon.rs).                                                *)
(*                                                                         *)
(* Two tasks run concurrently.  The daemon's main task pushes spans into   *)
(* the batcher and enqueues full batches; every atomic counter update and  *)
(* every channel operation of enqueue() is a step of its own.  The export  *)
(* worker receives batches, awaits the exporter and drops the item.  The   *)
(* main task may abort the worker, which takes effect at an await only.    *)
(*                                                                         *)
(* A counter of the diagnostics is kept per span: counted[c][s] is how     *)
(* often span s was added to counter c, so that the value the code holds   *)
(* is the sum of counted[c] and a span counted twice shows.                *)
(***************************************************************************)
EXTENDS Integers, Sequences, FiniteSets

CONSTANTS MaxSpans,             \* bound: spans emitted by the assembler
          SpanLens,             \* encoded lengths a span can have
          ResourceBytes,        \* framed size of the resource
          ScopeBytes,           \* framed size of the instrumentation scope
          SchemaFieldBytes,     \* framed size of the schema URL, 0 if none
          batch_size,
          MAX_REQUEST_BYTES,
          EXPORT_QUEUE_BYTES,
          EXPORT_QUEUE_ITEMS

ASSUME ConstantsAssumption ==
    /\ MaxSpans \in Nat
    /\ SpanLens \in SUBSET Nat
    /\ {ResourceBytes, ScopeBytes, SchemaFieldBytes} \subseteq Nat
    /\ batch_size \in 1..4096
    /\ {MAX_REQUEST_BYTES, EXPORT_QUEUE_BYTES} \subseteq Nat
    /\ EXPORT_QUEUE_ITEMS \in Nat \ {0}

Spans == 1..MaxSpans

\* Counters a span ends in, and the one it passes on the way.
Terminal == {"span_size", "export_capacity", "accepted", "rejected",
             "unknown", "shutdown_dropped"}
Counters == Terminal \cup {"export_queued"}

VARIABLES
    len,        \* encoded_len of each span the assembler will emit
    pushed,     \* spans handed to try_push so far, in order
    batch,      \* SpanBatcher: spans, wire_bytes, oldest
    pc,         \* where the main task is inside enqueue()
    hand,       \* the batch enqueue() is working on
    counting,   \* spans sent whose export_queued is not yet added
    queue,      \* the bounded channel of QueuedBatch
    worker,     \* where export_worker is
    item,       \* the QueuedBatch the worker holds
    bytes,      \* permits available in the byte semaphore
    queued_bytes, queued_items, peak_queued_bytes,
    counted,    \* the outcome counters
    phase       \* progress of the daemon's shutdown

producer == <<len, pushed, batch, pc, hand, counting>>
gauges == <<queued_bytes, queued_items, peak_queued_bytes>>
vars == <<producer, queue, worker, item, bytes, gauges, counted, phase>>

-----------------------------------------------------------------------------
(* Wire sizes *)

\* Length-delimited protobuf field: tag byte, varint length, contents.  Lengths
\* are below 2^28: a frame carries at most 16 MiB.
FieldBytes(n) == 1 + (1 + Cardinality({k \in 1..3 : n >= 128^k})) + n

RequestBytes(wire) ==
    FieldBytes(ResourceBytes + FieldBytes(ScopeBytes + wire + SchemaFieldBytes)
               + SchemaFieldBytes)

-----------------------------------------------------------------------------
(* SpanBatcher *)

\* The age of the oldest buffered span, against batch_timeout.
Ages == {"none", "young", "due"}

EmptyBatch == [spans |-> {}, wire_bytes |-> 0, oldest |-> "none"]

NoItem == [spans |-> {}, bytes |-> 0, attempted |-> FALSE, accounted |-> FALSE]

\* What take() hands to enqueue(), already in the shape of a QueuedBatch.  The
\* code re-encodes the request to learn encoded_bytes and asserts that this is
\* the size predicted from wire_bytes; BatchSizesExact is that assertion.
Taken(b) == [spans |-> b.spans, bytes |-> RequestBytes(b.wire_bytes),
             attempted |-> FALSE, accounted |-> FALSE]

\* Mutant: take() leaves the spans in the buffer.
AfterTakeKept(b) == b

AfterTake(b) == EmptyBatch

\* Mutant: the age of the batch is never started.
Append1Ageless(b, s) ==
    [b EXCEPT !.spans = @ \cup {s}, !.wire_bytes = @ + FieldBytes(len[s])]

Append1(b, s) ==
    [spans      |-> b.spans \cup {s},
     wire_bytes |-> b.wire_bytes + FieldBytes(len[s]),
     oldest     |-> IF b.oldest = "none" THEN "young" ELSE b.oldest]

TooLarge(s) == RequestBytes(FieldBytes(len[s])) > MAX_REQUEST_BYTES

Overflows(b, s) ==
    /\ b.spans # {}
    /\ RequestBytes(b.wire_bytes + FieldBytes(len[s])) > MAX_REQUEST_BYTES

IsFull == Cardinality(batch.spans) >= batch_size

-----------------------------------------------------------------------------
(* Counters *)

\* Add 1 to counter c for every span of add[c].
Count(add) ==
    counted' = [c \in Counters |-> [s \in Spans |->
                   counted[c][s] + IF s \in add[c] THEN 1 ELSE 0]]

Only(c, S) == [d \in Counters |-> IF d = c THEN S ELSE {}]

\* Of the batch S the collector rejected R: all of it, some of it or nothing.
Answered(S, R) == [d \in Counters |-> IF d = "accepted" THEN S \ R
                                      ELSE IF d = "rejected" THEN R ELSE {}]

\* Mutant: the guard counts a batch whose outcome was counted already.
DropCountTwice(q) ==
    IF q.attempted THEN Only("unknown", q.spans)
    ELSE Only("shutdown_dropped", q.spans)

\* The counter QueuedBatch::drop adds to.
DropCount(q) ==
    IF q.accounted THEN Only("unknown", {})
    ELSE IF q.attempted THEN Only("unknown", q.spans)
    ELSE Only("shutdown_dropped", q.spans)

-----------------------------------------------------------------------------
Init ==
    /\ len \in [Spans -> SpanLens]
    /\ pushed = 0
    /\ batch = EmptyBatch
    /\ pc = "idle" /\ hand = NoItem /\ counting = {}
    /\ queue = <<>>
    /\ worker = "recv" /\ item = NoItem
    /\ bytes = EXPORT_QUEUE_BYTES
    /\ queued_bytes = 0 /\ queued_items = 0 /\ peak_queued_bytes = 0
    /\ counted = [c \in Counters |-> [s \in Spans |-> 0]]
    /\ phase = "running"

(***************************************************************************)
(* The main task                                                           *)
(***************************************************************************)

\* The main task is between spans: nothing being enqueued, batch not full.
Ready == pc = "idle" /\ ~IsFull

\* transform(): the span is larger than any request may be.
PushRejected(s) ==
    /\ TooLarge(s)
    /\ Count(Only("span_size", {s}))
    /\ UNCHANGED <<batch, pc, hand>>

\* transform(): the span is buffered.  A batch that it would overflow is
\* enqueued first.
PushBuffered(s) ==
    /\ ~TooLarge(s)
    /\ IF Overflows(batch, s)
       THEN /\ hand' = Taken(batch)
            /\ batch' = Append1(AfterTake(batch), s)
            /\ pc' = "acquire"
       ELSE /\ batch' = Append1(batch, s)
            /\ UNCHANGED <<pc, hand>>
    /\ UNCHANGED counted

\* One iteration of transform()'s loop over the spans observe() returned, from
\* the main loop or from the drain at shutdown.
Push ==
    /\ phase \in {"running", "draining"}
    /\ Ready /\ pushed < MaxSpans
    /\ pushed' = pushed + 1
    /\ \/ PushRejected(pushed + 1)
       \/ PushBuffered(pushed + 1)
    /\ UNCHANGED <<len, counting, queue, worker, item, bytes, gauges, phase>>

\* Take the buffered spans and start enqueueing them.
StartEnqueue ==
    /\ hand' = Taken(batch)
    /\ batch' = AfterTake(batch)
    /\ pc' = "acquire"

\* transform(): the push filled the batch.
FlushFull ==
    /\ pc = "idle" /\ IsFull
    /\ StartEnqueue
    /\ UNCHANGED <<len, pushed, counting, queue, worker, item, bytes, gauges,
                   counted, phase>>

\* Time passes until the oldest buffered span is batch_timeout old.
Age ==
    /\ batch.oldest = "young"
    /\ batch' = [batch EXCEPT !.oldest = "due"]
    /\ UNCHANGED <<len, pushed, pc, hand, counting, queue, worker, item, bytes,
                   gauges, counted, phase>>

\* take_due() on a tick, or after 64 frames without one.
FlushDue ==
    /\ phase = "running" /\ Ready
    /\ batch.oldest = "due"
    /\ StartEnqueue
    /\ UNCHANGED <<len, pushed, counting, queue, worker, item, bytes, gauges,
                   counted, phase>>

(* enqueue(), step by step *)

\* try_acquire_many_owned(): admission is refused rather than waited for.
Acquire ==
    /\ pc = "acquire"
    /\ \/ /\ hand.bytes <= bytes
          /\ bytes' = bytes - hand.bytes
          /\ pc' = "account"
          /\ UNCHANGED <<hand, counted>>
       \/ /\ hand.bytes > bytes
          /\ Count(Only("export_capacity", hand.spans))
          /\ hand' = NoItem /\ pc' = "idle"
          /\ UNCHANGED bytes
    /\ UNCHANGED <<len, pushed, batch, counting, queue, worker, item, gauges,
                   phase>>

Account ==
    /\ pc = "account" /\ pc' = "send"
    /\ queued_bytes' = queued_bytes + hand.bytes
    /\ peak_queued_bytes' = IF queued_bytes' > peak_queued_bytes
                            THEN queued_bytes' ELSE peak_queued_bytes
    /\ queued_items' = queued_items + 1
    /\ UNCHANGED <<len, pushed, batch, hand, counting, queue, worker, item,
                   bytes, counted, phase>>

\* try_send(): the channel takes the item, or gives it back.
Send ==
    /\ pc = "send"
    /\ \/ /\ Len(queue) < EXPORT_QUEUE_ITEMS
          /\ queue' = Append(queue, hand)
          /\ counting' = hand.spans
          /\ hand' = NoItem /\ pc' = "count"
          /\ UNCHANGED counted
       \/ /\ Len(queue) >= EXPORT_QUEUE_ITEMS
          /\ Count(Only("export_capacity", hand.spans))
          /\ hand' = [hand EXCEPT !.accounted = TRUE] /\ pc' = "drop"
          /\ UNCHANGED <<queue, counting>>
    /\ UNCHANGED <<len, pushed, batch, worker, item, bytes, gauges, phase>>

CountQueued ==
    /\ pc = "count" /\ pc' = "idle"
    /\ Count(Only("export_queued", counting))
    /\ counting' = {}
    /\ UNCHANGED <<len, pushed, batch, hand, queue, worker, item, bytes, gauges,
                   phase>>

\* QueuedBatch::drop of an item the channel gave back ...
DropHand ==
    /\ pc = "drop" /\ pc' = "release"
    /\ queued_bytes' = queued_bytes - hand.bytes
    /\ queued_items' = queued_items - 1
    /\ Count(DropCount(hand))
    /\ UNCHANGED <<len, pushed, batch, hand, counting, queue, worker, item,
                   bytes, peak_queued_bytes, phase>>

\* Mutant: the byte permit of a refused batch is forgotten.
ReleaseHandLeaks ==
    /\ pc = "release" /\ pc' = "idle"
    /\ hand' = NoItem
    /\ UNCHANGED <<len, pushed, batch, counting, queue, worker, item, bytes,
                   gauges, counted, phase>>

\* ... after which its fields go, the byte permit among them.
ReleaseHand ==
    /\ pc = "release" /\ pc' = "idle"
    /\ bytes' = bytes + hand.bytes
    /\ hand' = NoItem
    /\ UNCHANGED <<len, pushed, batch, counting, queue, worker, item, gauges,
                   counted, phase>>

(***************************************************************************)
(* export_worker                                                           *)
(***************************************************************************)
Recv ==
    /\ worker = "recv" /\ queue # <<>>
    /\ item' = [Head(queue) EXCEPT !.attempted = TRUE]
    /\ queue' = Tail(queue)
    /\ worker' = "exporting"
    /\ UNCHANGED <<producer, bytes, gauges, counted, phase>>

\* record_export(): the exporter's report, whatever it is, is counted.
Report ==
    /\ worker = "exporting" /\ worker' = "drop"
    /\ \/ \E R \in SUBSET item.spans : Count(Answered(item.spans, R))
       \/ Count(Only("unknown", item.spans))
    /\ item' = [item EXCEPT !.accounted = TRUE]
    /\ UNCHANGED <<producer, queue, bytes, gauges, phase>>

DropItem ==
    /\ worker = "drop" /\ worker' = "release"
    /\ queued_bytes' = queued_bytes - item.bytes
    /\ queued_items' = queued_items - 1
    /\ Count(DropCount(item))
    /\ UNCHANGED <<producer, queue, item, bytes, peak_queued_bytes, phase>>

ReleaseItem ==
    /\ worker = "release" /\ worker' = "recv"
    /\ bytes' = bytes + item.bytes
    /\ item' = NoItem
    /\ UNCHANGED <<producer, queue, gauges, counted, phase>>

\* The channel is closed and empty: the worker returns.
Exit ==
    /\ worker = "recv" /\ queue = <<>>
    /\ phase \in {"closed", "aborting"}
    /\ worker' = "exited"
    /\ UNCHANGED <<producer, queue, item, bytes, gauges, counted, phase>>

\* The abort reaches the worker at one of its two awaits; its future is dropped.
Cancel ==
    /\ phase = "aborting"
    /\ worker \in {"recv", "exporting"}
    /\ worker' = "cancelling"
    /\ UNCHANGED <<producer, queue, item, bytes, gauges, counted, phase>>

\* Dropping the future drops what it holds: q goes, with its counters and permit.
DropHeld(q) ==
    /\ Count(DropCount(q))
    /\ queued_bytes' = queued_bytes - q.bytes
    /\ queued_items' = queued_items - 1
    /\ bytes' = bytes + q.bytes

CancelDrop ==
    /\ worker = "cancelling"
    /\ \/ /\ item # NoItem
          /\ DropHeld(item)
          /\ item' = NoItem
          /\ UNCHANGED <<queue, worker>>
       \/ /\ item = NoItem /\ queue # <<>>
          /\ DropHeld(Head(queue))
          /\ queue' = Tail(queue)
          /\ UNCHANGED <<item, worker>>
       \/ /\ item = NoItem /\ queue = <<>>
          /\ worker' = "cancelled"
          /\ UNCHANGED <<queue, item, counted, queued_bytes, queued_items, bytes>>
    /\ UNCHANGED <<producer, peak_queued_bytes, phase>>

(***************************************************************************)
(* The daemon's shutdown                                                   *)
(***************************************************************************)

\* The main loop breaks: shutdown token, control frame, idle timeout, or the
\* server ending.
Stop ==
    /\ phase = "running" /\ Ready
    /\ phase' = "draining"
    /\ UNCHANGED <<producer, queue, worker, item, bytes, gauges, counted>>

\* The ingress queue is drained: enqueue what is left in the batcher.
FinalTake ==
    /\ phase = "draining" /\ Ready
    /\ phase' = "final"
    /\ IF batch.spans = {} THEN UNCHANGED <<batch, hand, pc>> ELSE StartEnqueue
    /\ UNCHANGED <<len, pushed, counting, queue, worker, item, bytes, gauges,
                   counted>>

\* drop(queue): the worker's channel has no sender any more.
CloseQueue ==
    /\ phase = "final" /\ pc = "idle"
    /\ phase' = "closed"
    /\ UNCHANGED <<producer, queue, worker, item, bytes, gauges, counted>>

\* The five second budget is spent while the worker still runs.
Deadline ==
    /\ phase = "closed" /\ worker # "exited"
    /\ phase' = "aborting"
    /\ UNCHANGED <<producer, queue, worker, item, bytes, gauges, counted>>

Finish ==
    /\ phase \in {"closed", "aborting"}
    /\ worker \in {"exited", "cancelled"}
    /\ phase' = "finished"
    /\ UNCHANGED <<producer, queue, worker, item, bytes, gauges, counted>>

\* The summary is printed and the daemon is gone.
Done == phase = "finished" /\ UNCHANGED vars

-----------------------------------------------------------------------------
Main == \/ Push \/ FlushFull \/ FlushDue \/ Acquire \/ Account \/ Send
        \/ CountQueued \/ DropHand \/ ReleaseHand

Worker == Recv \/ Report \/ DropItem \/ ReleaseItem \/ Exit \/ Cancel
          \/ CancelDrop

Shutdown == Stop \/ FinalTake \/ CloseQueue \/ Deadline \/ Finish

Next == Main \/ Worker \/ Shutdown \/ Age \/ Done

Spec == Init /\ [][Next]_vars

(***************************************************************************)
(* Both tasks are scheduled, the clock runs, and the exporter answers      *)
(* within its own deadline.  Nothing obliges the assembler to emit a span, *)
(* the daemon to stop, or the shutdown budget to run out.                  *)
(***************************************************************************)
Fairness ==
    /\ WF_vars(FlushFull) /\ WF_vars(FlushDue) /\ WF_vars(Age)
    /\ WF_vars(Acquire \/ Account \/ Send \/ CountQueued \/ DropHand
               \/ ReleaseHand)
    /\ WF_vars(Worker)
    /\ WF_vars(FinalTake) /\ WF_vars(CloseQueue) /\ WF_vars(Finish)

FairSpec == Spec /\ Fairness
-----------------------------------------------------------------------------
(* Properties *)

Items == [spans : SUBSET Spans, bytes : Nat,
          attempted : BOOLEAN, accounted : BOOLEAN]

\* Type correctness of both tasks' state; the queue never outgrows its channel.
TypeOK ==
    /\ len \in [Spans -> SpanLens]
    /\ pushed \in 0..MaxSpans
    /\ batch \in [spans : SUBSET Spans, wire_bytes : Nat, oldest : Ages]
    /\ pc \in {"idle", "acquire", "account", "send", "count", "drop", "release"}
    /\ hand \in Items
    /\ counting \in SUBSET Spans
    /\ queue \in Seq(Items) /\ Len(queue) <= EXPORT_QUEUE_ITEMS
    /\ worker \in {"recv", "exporting", "drop", "release", "exited",
                   "cancelling", "cancelled"}
    /\ item \in Items
    /\ bytes \in Nat
    /\ queued_bytes \in Int /\ queued_items \in Int
    /\ peak_queued_bytes \in Nat
    /\ counted \in [Counters -> [Spans -> Nat]]
    /\ phase \in {"running", "draining", "final", "closed", "aborting",
                  "finished"}

\* How often span s was counted under a final outcome.
Settled(s) ==
    counted["span_size"][s] + counted["export_capacity"][s]
    + counted["accepted"][s] + counted["rejected"][s]
    + counted["unknown"][s] + counted["shutdown_dropped"][s]

InQueue(s) == \E i \in 1..Len(queue) : s \in queue[i].spans

\* Span s is somewhere in the pipeline and its outcome is still open.
Held(s) ==
    \/ s \in batch.spans
    \/ s \in hand.spans /\ ~hand.accounted
    \/ InQueue(s)
    \/ s \in item.spans /\ ~item.accounted

\* Reconciliation of queue, worker and counters (the Drop guard of QueuedBatch,
\* enqueue()'s two refusals, record_export and an abort at any await): a span
\* that was emitted is either still held or counted under one final outcome,
\* once; it is never lost and never reported twice.
EachSpanCountedOnce ==
    \A s \in Spans : Settled(s) = IF s > pushed \/ Held(s) THEN 0 ELSE 1

Before(S, T) == \A s \in S, t \in T : s < t

\* "A returned batch precedes the newly buffered span" (batch.rs:78), carried
\* through to the wire: the batch being exported, the queued ones in queue order,
\* the one being enqueued and the buffer hold spans in the order they were
\* pushed, whichever of the three flush paths took them.
ExportedInOrder ==
    /\ \A s \in batch.spans : s <= pushed
    /\ Before(hand.spans, batch.spans)
    /\ \A i \in 1..Len(queue) :
          /\ Before(item.spans, queue[i].spans)
          /\ Before(queue[i].spans, hand.spans \cup batch.spans)
          /\ \A j \in 1..Len(queue) : i < j =>
                Before(queue[i].spans, queue[j].spans)
    /\ Before(item.spans, hand.spans \cup batch.spans)

(***************************************************************************)
(* Refinement: the pipeline implements the ledger of one final outcome per *)
(* span.                                                                   *)
(***************************************************************************)
ledgerBar ==
    [s \in Spans |->
        IF \E c \in Terminal : counted[c][s] > 0
        THEN CHOOSE c \in Terminal : counted[c][s] > 0
        ELSE IF s > pushed THEN "unseen" ELSE "held"]

Ledger == INSTANCE SpanLedger WITH ledger <- ledgerBar

\* ExportPipeline implements SpanLedger: every span goes unseen -> held ->
\* one final outcome, batches settle as a whole and an outcome never changes.
LedgerSpec == Ledger!Spec
=============================================================================
