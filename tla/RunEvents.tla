----------------------------- MODULE RunEvents -----------------------------
(***************************************************************************)
(* Run events as the stores see them: an id (a fresh UUID), the digest of  *)
(* the event before, the writer generation, the kind and the process that  *)
(* wrote it.  A digest of events is modelled by their ids, a revision of   *)
(* the run by the id of its last event.  The whole reducer is RunState.    *)
(***************************************************************************)
EXTENDS Integers, Sequences, FiniteSets, SequencesExt

NoRevision == 0

\* The event kinds the stores and the journal tell apart.
EventKinds == {"started", "operation-admitted", "operation", "paused", "resumed"}

SafetyKinds == {"paused"}

-----------------------------------------------------------------------------
(* reduceRun, as far as a store depends on it: the chain of parents, the   *)
(* writer generation, and the refusal of new work while paused.            *)

Revision(events) == IF events = <<>> THEN NoRevision ELSE Last(events).id

\* What a digest of a list of events identifies.
Ids(events) == [i \in DOMAIN events |-> events[i].id]

Generation(events) ==
  Cardinality({i \in DOMAIN events : events[i].kind = "resumed"})

Paused(events) ==
  \E i \in DOMAIN events :
    /\ events[i].kind = "paused"
    /\ \A j \in DOMAIN events : j > i => events[j].kind # "resumed"

\* The process recorded as the writer by the latest start or resume.
RecordedWriter(events) ==
  LET I == {i \in DOMAIN events : events[i].kind \in {"started", "resumed"}}
  IN  events[CHOOSE i \in I : \A j \in I : j <= i].by

\* The events reduceRun accepts next.
Accepts(events, e) ==
  /\ e.prev = Revision(events)
  /\ e.gen = Generation(events)
  /\ (events = <<>>) <=> (e.kind = "started")
  /\ Paused(events) => e.kind \in {"operation", "resumed"}
  /\ e.kind = "operation" =>
       \E i \in DOMAIN events : events[i].kind = "operation-admitted"

ValidRun(events) ==
  \A i \in DOMAIN events : Accepts(SubSeq(events, 1, i - 1), events[i])
=============================================================================
