------------------------- MODULE OtlpExporterProofs -------------------------
(***************************************************************************)
(* Proofs about OtlpExporter for every number of attempts: what a report   *)
(* says about the collector is true, also of requests that the collector   *)
(* handles late.                                                           *)
(***************************************************************************)
EXTENDS OtlpExporter, TLAPS

\* Reach holds the attempts that are or may still be stored.
Reach == stored \cup inflight

(***************************************************************************)
(* The inductive invariant.  As long as nothing is uncertain, only the     *)
(* attempt in progress can be at the collector: every earlier one failed   *)
(* to connect or was answered with an error status.                        *)
(***************************************************************************)
CertainInv ==
    /\ pc \in {"start", "loop", "retry"} /\ ~uncertain => Reach = {}
    /\ pc \in {"sent", "answered"} /\ ~uncertain => Reach \subseteq {attempt}

AnswerInv ==
    /\ pc = "answered" => attempt \notin inflight
    /\ pc = "answered" /\ answer \in {"status_retryable", "status_other"}
          => attempt \notin stored
    /\ pc = "answered" /\ answer \in OkAnswers => attempt \in stored
    /\ pc = "answered" => answer # "none"

ReportInv ==
    /\ pc # "done" => report = NoReport
    /\ pc = "done" => RejectedIsFinal /\ AcceptedIsStored /\ DuplicateIsFlagged

\* Later answers do not come once export() has stopped listening.
LateInv ==
    answer \notin {"none", "status_retryable"} => pc \in {"answered", "done"}

AttemptInv ==
    /\ pc \in {"sent", "answered"} => attempt > 0
    /\ pc = "loop" => attempt < Attempts
    /\ pc = "start" => attempt = 0

\* A request is handled once.
OnceInv == stored \cap inflight = {}

IInv == /\ TypeOK /\ CertainInv /\ AnswerInv /\ ReportInv
        /\ LateInv /\ AttemptInv /\ OnceInv

-----------------------------------------------------------------------------
\* The initial states satisfy the invariant.
LEMMA InitInv == ASSUME Init PROVE IInv
<1>1. NoReport \in [outcome : Outcomes, attempts : 0..Attempts,
                    may_duplicate : BOOLEAN]
  BY AttemptsAssumption DEF NoReport, Outcomes
<1>2. TypeOK
  <2>1. attempt \in 0..Attempts
    BY AttemptsAssumption DEF Init
  <2>2. uncertain \in BOOLEAN /\ expired \in BOOLEAN
    BY DEF Init
  <2>3. inflight \in SUBSET (1..attempt) /\ stored \in SUBSET (1..attempt)
    BY DEF Init
  <2> QED BY <1>1, <2>1, <2>2, <2>3 DEF Init, TypeOK
<1>3. CertainInv /\ AnswerInv /\ ReportInv /\ LateInv /\ AttemptInv /\ OnceInv
  BY DEF Init, CertainInv, AnswerInv, ReportInv, LateInv, AttemptInv, OnceInv,
         Reach
<1> QED BY <1>2, <1>3 DEF IInv

\* A report of the attempts made so far is well typed.
LEMMA ReturnType ==
    ASSUME TypeOK, NEW o \in Outcomes, NEW d \in BOOLEAN, Return(o, d)
    PROVE  /\ pc' = "done"
           /\ report' \in [outcome : Outcomes, attempts : 0..Attempts,
                           may_duplicate : BOOLEAN]
  BY DEF TypeOK, Return

\* Every step of the exporter, the clock and the collector keeps the types.
LEMMA TypeStep == ASSUME IInv, [Next]_vars PROVE TypeOK'
<1> USE AttemptsAssumption DEF IInv, TypeOK, AttemptInv
<1>1. CASE Start
  <2>1. CASE mode = "send"
    BY <1>1, <2>1 DEF Start
  <2>2. CASE mode # "send"
    <3>1. Return("Accepted", FALSE) \/ Return("Rejected", FALSE)
      BY <1>1, <2>2 DEF Start
    <3> QED BY <1>1, <3>1, ReturnType DEF Start, Outcomes
  <2> QED BY <2>1, <2>2
<1>2. CASE Send
  <2>1. CASE Return(FinalOutcome, uncertain) /\ UNCHANGED <<attempt, inflight>>
    <3>1. FinalOutcome \in Outcomes
      BY DEF FinalOutcome, Outcomes
    <3> QED BY <1>2, <2>1, <3>1, ReturnType DEF Send
  <2>2. CASE /\ attempt' = attempt + 1 /\ pc' = "sent" /\ UNCHANGED report
             /\ inflight' = inflight \cup {attempt + 1}
    <3>1. attempt \in Nat /\ attempt' \in 0..Attempts
      BY <1>2, <2>2 DEF Send
    <3>2. 1..attempt \subseteq 1..attempt' /\ attempt + 1 \in 1..attempt'
      BY <2>2, <3>1
    <3>3. inflight' \in SUBSET (1..attempt') /\ stored' \in SUBSET (1..attempt')
      BY <1>2, <2>2, <3>2 DEF Send
    <3> QED BY <1>2, <2>2, <3>1, <3>3 DEF Send
  <2> QED BY <1>2, <2>1, <2>2 DEF Send
<1>3. CASE ConnectFails \/ TransportFails \/ Tick
  BY <1>3 DEF ConnectFails, TransportFails, Tick, exporter
<1>4. CASE SendTimesOut
  BY <1>4 DEF SendTimesOut, Return, Outcomes
<1>5. CASE ReadOk
  BY <1>5 DEF ReadOk, Return, OkOutcome, Outcomes
<1>6. CASE ReadStatus
  BY <1>6 DEF ReadStatus, Return, Outcomes
<1>7. CASE Backoff
  BY <1>7 DEF Backoff, Return, FinalOutcome, Outcomes
<1>8. CASE Collector
  <2>1. PICK i \in 1..Attempts : \/ Lose(i)
                                 \/ \E a \in Answers, keep \in BOOLEAN :
                                       Handle(i, a, keep)
    BY <1>8 DEF Collector
  <2>2. CASE Lose(i)
    BY <2>2 DEF Lose, exporter
  <2>3. CASE \E a \in Answers, keep \in BOOLEAN : Handle(i, a, keep)
    BY <2>3 DEF Handle
  <2> QED BY <2>1, <2>2, <2>3
<1>9. CASE UNCHANGED vars
  BY <1>9 DEF vars, exporter
<1> QED BY <1>1, <1>2, <1>3, <1>4, <1>5, <1>6, <1>7, <1>8, <1>9
        DEF Next, Exporter, Done

\* Every step keeps the rest of the invariant.
LEMMA InvStep == ASSUME IInv, [Next]_vars PROVE IInv'
<1> USE AttemptsAssumption
    DEF CertainInv, AnswerInv, ReportInv, LateInv, AttemptInv, OnceInv, Reach,
        RejectedIsFinal, AcceptedIsStored, DuplicateIsFlagged
<1>0. TypeOK /\ TypeOK'
  BY TypeStep DEF IInv
<1>1. CASE Start
  BY <1>0, <1>1 DEF Start, Return, IInv, TypeOK, NoReport, Modes
<1>2. CASE Send
  <2>1. CASE expired
    BY <1>0, <1>2, <2>1 DEF Send, Return, FinalOutcome, IInv, TypeOK
  <2>2. CASE ~expired
    BY <1>0, <1>2, <2>2 DEF Send, IInv, TypeOK
  <2> QED BY <2>1, <2>2
<1>3. CASE ConnectFails
  BY <1>0, <1>3 DEF ConnectFails, IInv, TypeOK
<1>4. CASE TransportFails
  BY <1>0, <1>4 DEF TransportFails, IInv, TypeOK
<1>5. CASE SendTimesOut
  BY <1>0, <1>5 DEF SendTimesOut, Return, IInv, TypeOK
<1>6. CASE ReadOk
  BY <1>0, <1>6 DEF ReadOk, Return, OkOutcome, OkAnswers, BadOk, IInv, TypeOK
<1>7. CASE ReadStatus
  BY <1>0, <1>7 DEF ReadStatus, Return, Statuses, IInv, TypeOK
<1>8. CASE Backoff
  BY <1>0, <1>8 DEF Backoff, Return, FinalOutcome, IInv, TypeOK
<1>9. CASE Tick
  BY <1>0, <1>9 DEF Tick, exporter, IInv, TypeOK
<1>10. ASSUME NEW i \in 1..Attempts, Lose(i) PROVE IInv'
  BY <1>0, <1>10 DEF Lose, exporter, IInv, TypeOK
<1>11. ASSUME NEW i \in 1..Attempts, NEW a \in Answers, NEW keep \in BOOLEAN,
              Handle(i, a, keep)
       PROVE  IInv'
  <2>1. CASE UNCHANGED <<pc, answer>>
    BY <1>0, <1>11, <2>1 DEF Handle, IInv, TypeOK
  <2>2. CASE pc = "sent" /\ i = attempt /\ pc' = "answered" /\ answer' = a
    BY <1>0, <1>11, <2>2 DEF Handle, MayHaveStored, MustHaveStored, IInv, TypeOK,
                             Answers, OkAnswers, BadOk, Statuses
  <2> QED BY <1>11, <2>1, <2>2 DEF Handle
<1>12. CASE UNCHANGED vars
  BY <1>0, <1>12 DEF vars, exporter, IInv, TypeOK
<1> QED BY <1>1, <1>2, <1>3, <1>4, <1>5, <1>6, <1>7, <1>8, <1>9, <1>10, <1>11,
           <1>12 DEF Next, Exporter, Collector, Done

\* The invariant holds in every reachable state.
LEMMA InvCorrect == Spec => []IInv
<1>1. Init => IInv
  BY InitInv
<1>2. IInv /\ [Next]_vars => IInv'
  BY InvStep
<1> QED BY <1>1, <1>2, PTL DEF Spec

-----------------------------------------------------------------------------
\* A reported rejection is a confirmed loss: nothing was stored, and nothing is
\* left on the way that could be.
THEOREM RejectedCorrect == Spec => []RejectedIsFinal
<1>1. IInv => RejectedIsFinal
  BY DEF IInv, ReportInv, RejectedIsFinal, NoReport
<1> QED BY <1>1, InvCorrect, PTL

\* A reported success is at the collector.
THEOREM AcceptedCorrect == Spec => []AcceptedIsStored
<1>1. IInv => AcceptedIsStored
  BY DEF IInv, ReportInv, AcceptedIsStored, NoReport
<1> QED BY <1>1, InvCorrect, PTL

\* A batch stored twice, now or later, was reported as a possible duplicate.
THEOREM DuplicateCorrect == Spec => []DuplicateIsFlagged
<1>1. IInv => DuplicateIsFlagged
  BY DEF IInv, ReportInv, DuplicateIsFlagged
<1> QED BY <1>1, InvCorrect, PTL

\* The report of export() is true of the collector, for any number of attempts
\* and whatever the network loses or delays.
THEOREM ReportCorrect == Spec => []ReportTruthful
<1>1. RejectedIsFinal /\ AcceptedIsStored /\ DuplicateIsFlagged => ReportTruthful
  BY DEF ReportTruthful
<1> QED BY <1>1, RejectedCorrect, AcceptedCorrect, DuplicateCorrect, PTL

\* An answered batch is sent again only after a retryable status.
THEOREM NeverResent == Spec => AnsweredNeverResent
<1>1. IInv /\ [Next]_vars =>
        [answer \notin {"none", "status_retryable"} => attempt' = attempt]_vars
  BY DEF IInv, LateInv, Next, Exporter, Start, Send, ConnectFails,
         TransportFails, SendTimesOut, ReadOk, ReadStatus, Backoff, Tick,
         Collector, Lose, Handle, Done, exporter, vars
<1> QED BY <1>1, InvCorrect, PTL DEF Spec, AnsweredNeverResent
=============================================================================
