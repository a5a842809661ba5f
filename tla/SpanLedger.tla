----------------------------- MODULE SpanLedger -----------------------------
(***************************************************************************)
(* What the export half of the daemon promises about one span, with the    *)
(* batcher, the queue, the worker and their counters abstracted away: a    *)
(* span that the assembler emits is either refused at once or held, and a  *)
(* held span is settled exactly once, under exactly one of the outcomes    *)
(* the diagnostics summary reports.  Nothing forgets a span, and nothing   *)
(* reports it twice.                                                       *)
(***************************************************************************)
CONSTANT Spans

VARIABLE ledger

Outcomes == {"span_size", "export_capacity", "accepted", "rejected",
             "unknown", "shutdown_dropped"}

Entries == Outcomes \cup {"unseen", "held"}

TypeOK == ledger \in [Spans -> Entries]

Init == ledger = [s \in Spans |-> "unseen"]

\* An emitted span is buffered, or is too large for any request.
Emit(s) ==
    /\ ledger[s] = "unseen"
    /\ \E e \in {"held", "span_size"} : ledger' = [ledger EXCEPT ![s] = e]

\* A batch of held spans leaves the pipeline, and every span in it gets one of the
\* outcomes in B.
Settle(B) ==
    /\ ledger' \in [Spans -> Entries]
    /\ \A s \in Spans : \/ ledger'[s] = ledger[s]
                        \/ ledger[s] = "held" /\ ledger'[s] \in B

\* A batch has one outcome, unless the collector answered that it kept a part.
BatchOutcomes == {{"accepted", "rejected"}, {"unknown"}, {"export_capacity"},
                  {"shutdown_dropped"}}

Next == \/ \E s \in Spans : Emit(s)
        \/ \E B \in BatchOutcomes : Settle(B)

Spec == Init /\ [][Next]_ledger
=============================================================================
