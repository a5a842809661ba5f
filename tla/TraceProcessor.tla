--------------------------- MODULE TraceProcessor ---------------------------
(***************************************************************************)
(* BoundedTraceProcessor (lib/observability/bounded-trace-processor.mjs):  *)
(* ended spans wait in a queue bounded by count and bytes; one drain at a  *)
(* time exports them batch by batch, each batch against a timeout; a timer *)
(* starts the drain, and so does everyone who asks for a flush.  Spans end *)
(* and flushes are asked for while a batch is out.                         *)
(***************************************************************************)
EXTENDS Naturals, Sequences, SequencesExt

CONSTANTS
    SpanSizes,                \* bytes of a span
    MaxQueueBytes, MaxQueueSize,
    BatchLimit,               \* spans in one batch (128)
    MaxSpans                  \* bound: spans that end

VARIABLES
    queue,                    \* sizes of the spans waiting
    batch,                    \* sizes of the spans of the batch that is out
    bytes, count,             \* what the processor accounts for
    dropped,                  \* drops
    sent,                     \* spans whose batch was acknowledged in time
    ended,                    \* spans that ended
    closed, timer,
    draining                  \* "no", "out" (a batch is out), "over" (its promise settles)

traceVars == <<queue, batch, bytes, count, dropped, sent, ended, closed, timer, draining>>

Total(s) == FoldLeft(+, 0, s)
FirstOf(s) == SubSeq(s, 1, IF Len(s) < BatchLimit THEN Len(s) ELSE BatchLimit)
After(s) == SubSeq(s, BatchLimit + 1, Len(s))

InitTrace ==
    /\ queue = <<>> /\ batch = <<>>
    /\ bytes = 0 /\ count = 0 /\ dropped = 0 /\ sent = 0 /\ ended = 0
    /\ closed = FALSE /\ timer = FALSE /\ draining = "no"

OnEnd(size) ==
    /\ ended < MaxSpans
    /\ ended' = ended + 1
    /\ IF closed \/ count >= MaxQueueSize \/ bytes + size > MaxQueueBytes
       THEN /\ dropped' = dropped + 1
            /\ UNCHANGED <<queue, bytes, count, timer>>
       ELSE /\ queue' = Append(queue, size)
            /\ bytes' = bytes + size
            /\ count' = count + 1
            /\ timer' = TRUE
            /\ UNCHANGED dropped
    /\ UNCHANGED <<batch, sent, closed, draining>>

\* The drain takes the next batch out of what waits, or is over.
Drain(waiting) ==
    IF waiting = <<>>
    THEN draining' = "over" /\ queue' = <<>> /\ batch' = <<>>
    ELSE draining' = "out" /\ queue' = After(waiting) /\ batch' = FirstOf(waiting)

\* forceFlush joins the drain that is under way.
ForceFlushTrace(waiting) ==
    /\ timer' = FALSE
    /\ IF draining = "no" THEN Drain(waiting)
       ELSE queue' = waiting /\ UNCHANGED <<batch, draining>>

Flush ==
    /\ ForceFlushTrace(queue)
    /\ UNCHANGED <<bytes, count, dropped, sent, ended, closed>>

TimerFires == timer /\ Flush

\* The exporter answers, throws, or its time runs out; a later answer is ignored.
Settle(success) ==
    /\ draining = "out"
    /\ IF success THEN sent' = sent + Len(batch) /\ UNCHANGED dropped
                  ELSE dropped' = dropped + Len(batch) /\ UNCHANGED sent
    /\ bytes' = bytes - Total(batch)
    /\ count' = count - Len(batch)
    /\ Drain(queue)
    /\ UNCHANGED <<ended, closed, timer>>

\* The drain's promise settles, after whatever ran in between.
DrainOver ==
    /\ draining = "over"
    /\ draining' = "no"
    /\ UNCHANGED <<queue, batch, bytes, count, dropped, sent, ended, closed, timer>>

\* Mutant: the discarded spans keep their bytes.
DiscardLeaky(rest) ==
    /\ dropped' = dropped + Len(rest)
    /\ count' = count - Len(rest)
    /\ UNCHANGED bytes

\* Shutdown is bounded to one batch; the spans behind it are given up.
Discard(rest) ==
    /\ dropped' = dropped + Len(rest)
    /\ count' = count - Len(rest)
    /\ bytes' = bytes - Total(rest)

ShutdownTrace ==
    /\ closed' = TRUE
    /\ Discard(After(queue))
    /\ ForceFlushTrace(FirstOf(queue))
    /\ UNCHANGED <<sent, ended>>

NextTrace ==
    \/ \E size \in SpanSizes : OnEnd(size)
    \/ Flush \/ TimerFires \/ DrainOver \/ ShutdownTrace
    \/ \E success \in BOOLEAN : Settle(success)

-----------------------------------------------------------------------------
\* The queue's accounts are exact at every moment: the spans counted and their
\* bytes are those waiting and those out with a batch, they stay within the bounds,
\* and every span that ended is counted there, was sent, or was reported as
\* dropped, exactly once, whichever timeouts, flushes and shutdowns overlap.
TraceAccounted ==
    /\ count = Len(queue) + Len(batch)
    /\ bytes = Total(queue) + Total(batch)
    /\ count <= MaxQueueSize /\ bytes <= MaxQueueBytes
    /\ ended = count + sent + dropped
=============================================================================
