-------------------------- MODULE MCExportPipeline --------------------------
(***************************************************************************)
(* ExportPipeline on a small instance, with the properties that need sums  *)
(* over the queue and the liveness properties, which TLC alone checks.     *)
(***************************************************************************)
EXTENDS ExportPipeline, SequencesExt

MCSpanLens == {50, 110, 400}

\* Framed bytes of the spans in S.
WireOf(S) == FoldSet(LAMBDA s, sum : sum + FieldBytes(len[s]), 0, S)

\* The assertion "predicted == encoded" of SpanBatcher::take (batch.rs:126): the
\* running wire_bytes is the sum over the buffered spans, and every batch is
\* charged the size of exactly the spans in it.  No sequence of pushes and
\* flushes builds a request over MAX_REQUEST_BYTES, which the exporter would
\* refuse with every span in it.
BatchSizesExact ==
    /\ batch.wire_bytes = WireOf(batch.spans)
    /\ batch.spans # {} => RequestBytes(batch.wire_bytes) <= MAX_REQUEST_BYTES
    /\ \A q \in {hand, item} \cup Range(queue) :
          q # NoItem => /\ q.spans # {} /\ q.bytes <= MAX_REQUEST_BYTES
                        /\ q.bytes = RequestBytes(WireOf(q.spans))

QueueBytes == FoldLeft(LAMBDA sum, q : sum + q.bytes, 0, queue)

\* The byte semaphore and the two gauges, across every interleaving of enqueue()
\* with the worker's drop: permits are neither leaked nor minted, a gauge never
\* goes below zero, and the reported peak stays within the budget.
ByteBudgetKept ==
    /\ bytes + QueueBytes + item.bytes
         + (IF pc \in {"account", "send", "drop", "release"} THEN hand.bytes
            ELSE 0) = EXPORT_QUEUE_BYTES
    /\ queued_bytes \in 0..EXPORT_QUEUE_BYTES
    /\ queued_items \in 0..EXPORT_QUEUE_ITEMS + 2
    /\ peak_queued_bytes <= EXPORT_QUEUE_BYTES

\* What the shutdown summary shows (pipeline.rs:128-132 asserts it for an idle
\* worker): no gauge is left standing, no permit is out, every emitted span has
\* an outcome, and exactly the queued ones have one of the outcomes a queued
\* batch can have.
SummaryReconciles ==
    phase = "finished" =>
        /\ queued_bytes = 0 /\ queued_items = 0 /\ bytes = EXPORT_QUEUE_BYTES
        /\ \A s \in 1..pushed :
              /\ Settled(s) = 1
              /\ counted["export_queued"][s] =
                    counted["accepted"][s] + counted["rejected"][s]
                    + counted["unknown"][s] + counted["shutdown_dropped"][s]

\* The pipeline's books are exact: sizes of batches, the byte semaphore with its
\* gauges, and the summary at shutdown.
AccountsExact == BatchSizesExact /\ ByteBudgetKept /\ SummaryReconciles

\* A span that was emitted gets its outcome, in a running daemon too: an
\* underfull batch is flushed when it is due and the worker never stalls.
EverySpanSettles ==
    \A s \in Spans : pushed >= s ~> Settled(s) = 1
=============================================================================
