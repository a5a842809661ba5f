---------------------------- MODULE OtlpExporter ----------------------------
(***************************************************************************)
(* OtlpExporter::export (exporter.rs): one batch, up to three HTTP         *)
(* attempts under one deadline, against a collector that may be            *)
(* unreachable, slow, or cut off after it stored the batch.                *)
(*                                                                         *)
(* A request that left is in flight until the collector handles it, which  *)
(* may be after the exporter gave up on that attempt, after a later        *)
(* attempt, or after the report.  stored holds the attempts whose spans    *)
(* the collector kept; the exporter does not see it.                       *)
(*                                                                         *)
(* The collector, and whatever stands before it, is assumed to answer with *)
(* an error status only when it stored nothing.                            *)
(***************************************************************************)
EXTENDS Naturals

CONSTANT Attempts               \* 3 in the code

ASSUME AttemptsAssumption == Attempts \in Nat \ {0}

\* Ways an export ends before the first request: the SDK or the signal is
\* disabled, the request is too large, or compression fails.
Modes == {"send", "sdk_disabled", "signal_disabled", "oversize", "encode_failed"}

\* Answers to a request.  The first group is status 200 with a body that says
\* all or some spans were kept; then a 200 the exporter cannot use: wrong content
\* type, undecodable or inconsistent body, a body over MAX_RESPONSE_BYTES or cut
\* off; then the statuses: success other than 200, retryable, other.
OkAnswers == {"ok_full", "ok_partial"}
BadOk == {"ok_content_type", "ok_protocol", "ok_size", "ok_cut"}
Statuses == {"status_success", "status_retryable", "status_other"}
Answers == OkAnswers \cup BadOk \cup Statuses

Outcomes == {"none", "Accepted", "PartiallyAccepted", "Rejected", "Unknown"}

VARIABLES
    mode,       \* the configuration and the request, fixed
    pc,         \* where export() is
    attempt,    \* attempts started
    uncertain, last,
    expired,    \* the deadline has passed
    answer,     \* what came back for the current attempt
    report,     \* the ExportReport
    inflight,   \* attempts whose request the collector has not handled
    stored      \* attempts whose spans the collector kept

exporter == <<mode, pc, attempt, uncertain, last, answer, report>>
vars == <<exporter, expired, inflight, stored>>

NoReport == [outcome |-> "none", attempts |-> 0, may_duplicate |-> FALSE]

Init ==
    /\ mode \in Modes
    /\ pc = "start" /\ attempt = 0
    /\ uncertain = FALSE /\ last = "Rejected"
    /\ expired = FALSE /\ answer = "none" /\ report = NoReport
    /\ inflight = {} /\ stored = {}

Return(outcome, may_duplicate) ==
    /\ pc' = "done"
    /\ report' = [outcome |-> outcome, attempts |-> attempt,
                  may_duplicate |-> may_duplicate]

(***************************************************************************)
(* The exporter                                                            *)
(***************************************************************************)
Start ==
    /\ pc = "start"
    /\ IF mode = "send"
       THEN pc' = "loop" /\ UNCHANGED report
       ELSE Return(IF mode = "sdk_disabled" THEN "Accepted" ELSE "Rejected", FALSE)
    /\ UNCHANGED <<mode, attempt, uncertain, last, answer, expired, inflight,
                   stored>>

\* Mutant: the last attempt alone decides.
FinalOutcomeOfLast == last

\* The end of export(): a rejection after an attempt of unknown fate is unknown.
FinalOutcome == IF uncertain /\ last = "Rejected" THEN "Unknown" ELSE last

\* The head of the loop: stop at the deadline, else send the next request.
Send ==
    /\ pc = "loop"
    /\ IF expired
       THEN Return(FinalOutcome, uncertain) /\ UNCHANGED <<attempt, inflight>>
       ELSE /\ attempt' = attempt + 1
            /\ inflight' = inflight \cup {attempt + 1}
            /\ pc' = "sent"
            /\ UNCHANGED report
    /\ UNCHANGED <<mode, uncertain, last, answer, expired, stored>>

\* No connection: the request never left.
ConnectFails ==
    /\ pc = "sent" /\ attempt \in inflight
    /\ inflight' = inflight \ {attempt}
    /\ last' = "Rejected"
    /\ pc' = "retry"
    /\ UNCHANGED <<mode, attempt, uncertain, answer, report, expired, stored>>

\* The connection breaks or the client's own timeout fires; the request may have
\* been handled, may still be, or may never be.
TransportFails ==
    /\ pc = "sent"
    /\ uncertain' = TRUE /\ last' = "Unknown"
    /\ pc' = "retry"
    /\ UNCHANGED <<mode, attempt, answer, report, expired, inflight, stored>>

\* The deadline cuts the attempt off.
SendTimesOut ==
    /\ pc = "sent" /\ expired
    /\ Return("Unknown", TRUE)
    /\ UNCHANGED <<mode, attempt, uncertain, last, answer, expired, inflight,
                   stored>>

\* decode_response(), and the reads before it.
OkOutcome(a) == IF a = "ok_full" THEN "Accepted"
                ELSE IF a = "ok_partial" THEN "PartiallyAccepted" ELSE "Unknown"

\* A 200 ends the export, whatever its body says; the read may hit the deadline.
ReadOk ==
    /\ pc = "answered" /\ answer \in OkAnswers \cup BadOk
    /\ \/ Return(OkOutcome(answer), uncertain)
       \/ expired /\ Return("Unknown", uncertain)
    /\ UNCHANGED <<mode, attempt, uncertain, last, answer, expired, inflight,
                   stored>>

\* Mutant: every error status is retried.
ReadStatusRetries ==
    /\ pc = "answered" /\ answer \in Statuses
    /\ last' = IF answer = "status_success" THEN "Unknown" ELSE "Rejected"
    /\ pc' = "retry"
    /\ UNCHANGED <<mode, attempt, uncertain, answer, report, expired, inflight,
                   stored>>

\* Any other status: give up on it unless it is retryable.
ReadStatus ==
    /\ pc = "answered" /\ answer \in Statuses
    /\ last' = IF answer = "status_success" THEN "Unknown" ELSE "Rejected"
    /\ IF answer = "status_retryable"
       THEN pc' = "retry" /\ UNCHANGED report
       ELSE Return(IF uncertain THEN "Unknown" ELSE last', uncertain)
    /\ UNCHANGED <<mode, attempt, uncertain, answer, expired, inflight, stored>>

\* The end of the loop body: the attempts are used up, or the delay (Retry-After
\* or backoff) would reach the deadline, or it is slept out.
Backoff ==
    /\ pc = "retry"
    /\ \/ Return(FinalOutcome, uncertain)
       \/ attempt < Attempts /\ pc' = "loop" /\ UNCHANGED report
    /\ UNCHANGED <<mode, attempt, uncertain, last, answer, expired, inflight,
                   stored>>

Tick ==
    /\ ~expired /\ expired' = TRUE
    /\ UNCHANGED <<exporter, inflight, stored>>

(***************************************************************************)
(* The collector and the network                                           *)
(***************************************************************************)

\* What a collector that gave this answer may have done with the spans.
MayHaveStored(a) == a \notin {"status_retryable", "status_other"}
MustHaveStored(a) == a \in OkAnswers

\* The collector handles request i.  Its answer reaches the exporter if it still
\* waits for that attempt; it may be lost, and the exporter then sees
\* TransportFails or SendTimesOut.
Handle(i, a, keep) ==
    /\ i \in inflight
    /\ keep => MayHaveStored(a)
    /\ MustHaveStored(a) => keep
    /\ inflight' = inflight \ {i}
    /\ stored' = IF keep THEN stored \cup {i} ELSE stored
    /\ \/ /\ pc = "sent" /\ i = attempt
          /\ pc' = "answered" /\ answer' = a
       \/ UNCHANGED <<pc, answer>>
    /\ UNCHANGED <<mode, attempt, uncertain, last, report, expired>>

\* A request is lost on the way.
Lose(i) ==
    /\ i \in inflight
    /\ inflight' = inflight \ {i}
    /\ UNCHANGED <<exporter, expired, stored>>

Collector ==
    \E i \in 1..Attempts :
        \/ Lose(i)
        \/ \E a \in Answers, keep \in BOOLEAN : Handle(i, a, keep)

Done == pc = "done" /\ UNCHANGED vars

-----------------------------------------------------------------------------
Exporter == Start \/ Send \/ ConnectFails \/ TransportFails \/ SendTimesOut
            \/ ReadOk \/ ReadStatus \/ Backoff

Next == Exporter \/ Tick \/ Collector \/ Done

Spec == Init /\ [][Next]_vars

(***************************************************************************)
(* The exporter's task runs and the clock reaches the deadline.  Nothing   *)
(* is assumed of the collector, and nothing obliges an attempt to fail.    *)
(***************************************************************************)

-----------------------------------------------------------------------------
(* Properties *)

\* Type correctness; at most the configured number of attempts.
TypeOK ==
    /\ mode \in Modes
    /\ pc \in {"start", "loop", "sent", "answered", "retry", "done"}
    /\ attempt \in 0..Attempts
    /\ uncertain \in BOOLEAN /\ expired \in BOOLEAN
    /\ last \in {"Rejected", "Unknown"}
    /\ answer \in Answers \cup {"none"}
    /\ report \in [outcome : Outcomes, attempts : 0..Attempts,
                   may_duplicate : BOOLEAN]
    /\ inflight \in SUBSET (1..attempt) /\ stored \in SUBSET (1..attempt)

\* A batch reported Rejected is a confirmed loss (TELEMETRY_DICTIONARY.md counts
\* it apart from unknown): no attempt stored it, and no request is left that a
\* slow collector could still store.
RejectedIsFinal ==
    report.outcome = "Rejected" => stored = {} /\ inflight = {}

\* Accepted spans are at the collector, unless exporting is switched off.
AcceptedIsStored ==
    /\ report.outcome = "PartiallyAccepted" => attempt \in stored
    /\ report.outcome = "Accepted" => attempt \in stored \/ mode = "sdk_disabled"

\* possible_duplicate_batches: a batch that two attempts delivered, also one that
\* arrives after the report, was reported with may_duplicate.
DuplicateIsFlagged ==
    pc = "done" /\ (\E i, j \in stored \cup inflight : i # j) =>
        report.may_duplicate

\* What export() reports is true of the collector, now and when requests that are
\* still under way have arrived: a loss is a loss, a success is stored, and a
\* possible duplicate is flagged.
ReportTruthful == RejectedIsFinal /\ AcceptedIsStored /\ DuplicateIsFlagged

\* A batch the collector answered is not sent again, unless the answer is one of
\* the retryable statuses: not after a 200 with an unusable body (it may have been
\* stored), nor after an error that a retry cannot cure.
AnsweredNeverResent ==
    [][answer \notin {"none", "status_retryable"} => attempt' = attempt]_vars

=============================================================================
