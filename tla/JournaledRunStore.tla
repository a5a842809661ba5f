------------------------- MODULE JournaledRunStore -------------------------
(***************************************************************************)
(* Processes on one host append events to a run through a write-ahead      *)
(* journal (journaled-run-store over pending-audit-journal).  The source   *)
(* is the log of RunStores: a branch moved by non-force updates, also for  *)
(* other runs and other hosts.  A read may fail, a response may be lost, a *)
(* request may land late, a process may die at any step, and the journal   *)
(* is repaired by explicit recovery.                                       *)
(***************************************************************************)
EXTENDS RunEvents

CONSTANTS
  Writers,        \* processes that share the journal directory
  SafetySlots,    \* frames in safety.reserve
  Capacity,       \* business capacity, one unit per record or reserved outcome
  Reserve,        \* units an operation-admitted event reserves
  MaxId,          \* events that may be created
  MaxOthers,      \* commits by other runs and other hosts
  MaxCrashes      \* crashes of processes

ASSUME JournalAssumption ==
  /\ {"none", "other-host"} \cap Writers = {}     \* names of no process here
  /\ SafetySlots \in Nat \ {0} /\ Capacity \in Nat /\ Reserve \in Nat
  /\ MaxId \in Nat /\ MaxOthers \in Nat /\ MaxCrashes \in Nat

VARIABLES
  ref, log,       \* the branch: its revision and the run's events there
  inflight,       \* ref updates sent and not yet decided by the server
  pending,        \* pending.json
  stage,          \* pending-*.tmp: <<>>, <<value>> or <<Torn>>
  slots,          \* safety.reserve: frames with their commit byte
  lock, recovery, \* writer.lock and recovery.lock
  st,             \* what each process is doing
  inc,            \* incarnation of each process
  nextId

source == <<ref, log, inflight>>
journal == <<pending, stage, slots>>
locks == <<lock, recovery>>
journalVars == <<ref, log, inflight, pending, stage, slots, lock, recovery, st, inc, nextId>>

None == [w |-> "none", inc |-> 0]
Foreign == [w |-> "other-host", inc |-> 0]
Me(w) == [w |-> w, inc |-> inc[w]]
NoEvent == [id |-> 0, prev |-> 0, gen |-> 0, kind |-> "none", by |-> None]
Torn == [entries |-> {}, acks |-> {}, retired |-> {NoEvent}]

Idle == [pc |-> "idle", job |-> "none", ev |-> NoEvent, todo |-> {}, tgt |-> NoEvent,
         mode |-> "none"]

\* A started run, its start acknowledged.
Started(w) == [id |-> 1, prev |-> NoRevision, gen |-> 0, kind |-> "started", by |-> Me(w)]

InitJournal ==
  /\ inc = [w \in Writers |-> 0]
  /\ \E w \in Writers :
       /\ log = <<Started(w)>>
       /\ pending = [entries |-> {}, acks |-> {[e |-> Started(w), res |-> 0]},
                     retired |-> {}]
  /\ ref = 1 /\ nextId = 2
  /\ inflight = {} /\ stage = <<>> /\ slots = <<>>
  /\ lock = None /\ recovery = None
  /\ st = [w \in Writers |-> Idle]

Crashes == FoldFunction(+, 0, inc)

\* A recorded writer is stopped when its process is gone.
Stopped(by) == by.w \in Writers /\ by.inc < inc[by.w]

-----------------------------------------------------------------------------
(* The journal's data.                                                     *)

Events(set) == {x.e : x \in set}

Sum(set) == FoldSet(LAMBDA x, n : n + x.res, 0, set)

Usage(v) ==
  Cardinality(v.entries) + Cardinality(v.acks) + Cardinality(v.retired)
    + Sum(v.entries) + Sum(v.acks)

Unacknowledged ==
  Events(pending.entries) \cup {slots[i].e : i \in {j \in DOMAIN slots : slots[j].mark = 1}}

\* A frame whose payload was written and whose commit byte was not makes
\* every reader of the reserve throw.
ReserveReadable == \A i \in DOMAIN slots : slots[i].mark \in {1, 2}

\* The record that reserved room for an operation's outcome.
Reserving(v, e) ==
  {x \in v.entries \cup v.acks : x.e.kind = "operation-admitted" /\ x.res >= 1}

PutEntry(v, e) ==
  LET new == [e |-> e, state |-> "pending",
              res |-> IF e.kind = "operation-admitted" THEN Reserve ELSE 0]
  IN  IF e.kind # "operation" THEN {[v EXCEPT !.entries = @ \cup {new}]}
      ELSE {[entries |-> {IF y = x THEN [y EXCEPT !.res = @ - 1] ELSE y : y \in v.entries}
                           \cup {new},
             acks    |-> {IF y = x THEN [y EXCEPT !.res = @ - 1] ELSE y : y \in v.acks},
             retired |-> v.retired] : x \in Reserving(v, e)}

AckEntry(v, x) ==
  [v EXCEPT !.entries = @ \ {x}, !.acks = @ \cup {[e |-> x.e, res |-> x.res]}]

RetireEntry(v, x) ==
  [v EXCEPT !.entries = @ \ {x}, !.retired = @ \cup {x.e}]

\* Mutant: an unknown outcome gives its reservation back.
UnknownEntryReleased(v, x) ==
  [v EXCEPT !.entries = (@ \ {x}) \cup {[x EXCEPT !.state = "unknown", !.res = 0]}]

UnknownEntry(v, x) ==
  [v EXCEPT !.entries = (@ \ {x}) \cup {[x EXCEPT !.state = "unknown"]}]

\* validateStageTransition: the stage is one update of the file before it.
StageValid(b, a) ==
  LET added   == {x \in a.entries : x.e \notin Events(b.entries)}
      gone    == {x \in b.entries : x.e \notin Events(a.entries)}
      changed == {x \in b.entries : x.e \in Events(a.entries) /\ x \notin a.entries}
      next(x) == CHOOSE y \in a.entries : y.e = x.e
      lessAck == {x \in b.acks : x \notin a.acks}
      nextAck(x) == CHOOSE y \in a.acks : y.e = x.e
      reduced == FoldSet(LAMBDA x, n : n + x.res - next(x).res, 0, changed)
                   + FoldSet(LAMBDA x, n : n + x.res - nextAck(x).res, 0, lessAck)
      changes == Cardinality(added) + Cardinality(gone) + Cardinality(changed)
                   + Cardinality(lessAck)
  IN  /\ Events(b.acks) \subseteq Events(a.acks)
      /\ \A x \in lessAck : nextAck(x).res < x.res
      /\ b.retired \subseteq a.retired
      /\ \A x \in gone : x.e \in Events(a.acks) \cup a.retired
      /\ \A x \in changed :
           \/ x.state = "pending" /\ next(x).state = "unknown" /\ next(x).res = x.res
           \/ x.state = next(x).state /\ next(x).res < x.res
      /\ Events(a.acks) \ Events(b.acks) \subseteq Events(b.entries)
      /\ a.retired \ b.retired \subseteq Events(b.entries)
      /\ changes \in {1, 2}
      /\ reduced > 0 => Cardinality(added) = 1 /\ reduced = 1

\* verifyPhysicalRecovery: what a stage or a frame claims against the source.
RecoveryVerified(b, v, events) ==
  /\ \A x \in v.acks : Contains(events, x.e)
  /\ \A e \in v.retired :
       /\ ~Contains(events, e)
       /\ e \in Events(b.entries) => Revision(events) # e.prev

-----------------------------------------------------------------------------
(* Where a process goes when a journal call throws or returns.             *)

Call(s, job, tgt) == [s EXCEPT !.pc = "call", !.job = job, !.tgt = tgt]

\* A throw inside append's try block marks a business event unknown.
Thrown(s) ==
  IF /\ s.job \in {"ack", "retire"}
     /\ s.mode = "append"
     /\ s.ev.kind \notin SafetyKinds
  THEN Call(s, "unknown", s.ev)
  ELSE Idle

Returned(s) ==
  CASE s.job = "list"  -> [s EXCEPT !.pc = "reconcile"]
    [] s.job = "reack" -> [s EXCEPT !.pc = "reconcile", !.todo = @ \ {s.tgt}]
    [] s.job = "put"   -> [s EXCEPT !.pc = "submit"]
    [] OTHER           -> Idle

To(w, s) == st' = [st EXCEPT ![w] = s]
Throw(w) == To(w, Thrown(st[w]))
Return(w) == To(w, Returned(st[w]))

-----------------------------------------------------------------------------
(* Commands.                                                               *)

NewEvent(w, k) ==
  [id |-> nextId, prev |-> Revision(log),
   gen |-> Generation(log), kind |-> k, by |-> Me(w)]

\* The run service read the source and selected a transition; the store's
\* append starts with a reconciliation of the journal.
Begin(w, k) ==
  /\ st[w].pc = "idle" /\ nextId <= MaxId
  /\ LET e == NewEvent(w, k) IN
       /\ Accepts(log, e)
       /\ k = "resumed" => Stopped(RecordedWriter(log))
       /\ To(w, Call([Idle EXCEPT !.ev = e, !.mode = "append"], "list", NoEvent))
  /\ nextId' = nextId + 1
  /\ UNCHANGED <<source, journal, locks, inc>>

\* journal-reconcile, with --replay or with --recover-stages.
\* It is run when there is something to settle.
Reconcile(w, mode) ==
  /\ st[w].pc = "idle"
  /\ Unacknowledged # {} \/ stage # <<>> \/ ~ReserveReadable
  /\ To(w, Call([Idle EXCEPT !.mode = mode],
                IF mode = "recover" THEN "physical" ELSE "list", NoEvent))
  /\ UNCHANGED <<source, journal, locks, inc, nextId>>

-----------------------------------------------------------------------------
(* The directory lock.  acquire() looks for recovery.lock first and then   *)
(* creates writer.lock exclusively; it throws rather than wait.            *)

\* Calls that read the source while they hold the lock.
AwaitingJobs == {"ack", "reack", "retire", "physical"}

\* A process that looked before a recovery began may still open the lock.
OpenLock(w) ==
  /\ st[w].pc = "call" /\ st[w].job \in AwaitingJobs
  /\ lock = None
  /\ lock' = Me(w) /\ To(w, [st[w] EXCEPT !.pc = "locked"])
  /\ UNCHANGED <<source, journal, recovery, inc, nextId>>

LockRefused(w) ==
  /\ st[w].pc = "call"
  /\ lock # None \/ recovery # None
  /\ Throw(w)
  /\ UNCHANGED <<source, journal, locks, inc, nextId>>

\* recoverLock: under recovery.lock the owner is read and found dead ...
RecoverLock(w) ==
  /\ st[w].pc = "idle" /\ recovery = None
  /\ lock # None /\ Stopped(lock)
  /\ recovery' = Me(w)
  /\ To(w, [Idle EXCEPT !.pc = "unlink"])
  /\ UNCHANGED <<source, journal, lock, inc, nextId>>

\* ... and then writer.lock and recovery.lock are removed.
Unlink(w) ==
  /\ st[w].pc = "unlink"
  /\ lock' = None /\ recovery' = None
  /\ To(w, Idle)
  /\ UNCHANGED <<source, journal, inc, nextId>>

\* The process holds the lock for a call; the calls that never wait while
\* they hold it take it in the same step.
Holding(w, job) ==
  /\ st[w].job = job
  /\ IF job \in AwaitingJobs THEN st[w].pc = "locked" ELSE st[w].pc = "call" /\ lock = None

-----------------------------------------------------------------------------
(* Journal calls, under the lock.  A snapshot write is a staged file and a *)
(* rename; a safety frame is a payload and a commit byte.                  *)

Release(w) == lock' = None

\* save(): refused while an unpromoted stage exists or over capacity.
Save(w, v) ==
  IF stage = <<>> /\ Usage(v) <= Capacity
  THEN /\ \/ stage' = <<v>>
          \/ stage' = <<Torn>> /\ Crashes < MaxCrashes
       /\ To(w, [st[w] EXCEPT !.pc = IF stage' = <<v>> THEN "staged" ELSE "doomed"])
       /\ lock' = Me(w)
       /\ UNCHANGED <<pending, slots>>
  ELSE Release(w) /\ Throw(w) /\ UNCHANGED journal

Promote(w) ==
  /\ st[w].pc = "staged"
  /\ pending' = stage[1] /\ stage' = <<>>
  /\ Release(w) /\ Return(w)
  /\ UNCHANGED <<source, slots, recovery, inc, nextId>>

List(w) ==
  /\ Holding(w, "list") /\ Release(w)
  /\ IF ReserveReadable /\ stage = <<>>
     THEN To(w, [Returned(st[w]) EXCEPT !.todo = Unacknowledged])
     ELSE Throw(w)
  /\ UNCHANGED <<source, journal, recovery, inc, nextId>>

\* Mutant: a safety event that finds the reserve full is sent all the same.
PutSafetyBestEffort(w) ==
  /\ Holding(w, "put") /\ st[w].ev.kind \in SafetyKinds
  /\ IF ReserveReadable /\ Len(slots) < SafetySlots
     THEN /\ slots' = Append(slots, [e |-> st[w].ev, mark |-> 0])
          /\ To(w, [st[w] EXCEPT !.pc = "framed"])
          /\ lock' = Me(w)
     ELSE Release(w) /\ Return(w) /\ UNCHANGED slots
  /\ UNCHANGED <<source, pending, stage, recovery, inc, nextId>>

PutSafety(w) ==
  /\ Holding(w, "put") /\ st[w].ev.kind \in SafetyKinds
  /\ IF ReserveReadable /\ Len(slots) < SafetySlots
     THEN /\ slots' = Append(slots, [e |-> st[w].ev, mark |-> 0])
          /\ To(w, [st[w] EXCEPT !.pc = "framed"])
          /\ lock' = Me(w)
     ELSE Release(w) /\ Throw(w) /\ UNCHANGED slots
  /\ UNCHANGED <<source, pending, stage, recovery, inc, nextId>>

CommitFrame(w) ==
  /\ st[w].pc = "framed"
  /\ slots' = [slots EXCEPT ![Len(slots)].mark = 1]
  /\ Release(w) /\ Return(w)
  /\ UNCHANGED <<source, pending, stage, recovery, inc, nextId>>

PutBusiness(w) ==
  /\ Holding(w, "put") /\ st[w].ev.kind \notin SafetyKinds
  /\ LET options == PutEntry(pending, st[w].ev) IN
     IF ReserveReadable /\ options # {}
     THEN \E v \in options : Save(w, v)
     ELSE Release(w) /\ Throw(w) /\ UNCHANGED journal
  /\ UNCHANGED <<source, recovery, inc, nextId>>

\* put with state unknown: a settled or a missing event is left alone.
PutUnknown(w) ==
  /\ Holding(w, "unknown")
  /\ LET xs == {x \in pending.entries : x.e = st[w].tgt /\ x.state = "pending"} IN
     IF ReserveReadable /\ xs # {}
     THEN \E x \in xs : Save(w, UnknownEntry(pending, x))
     ELSE Release(w) /\ Throw(w) /\ UNCHANGED journal
  /\ UNCHANGED <<source, recovery, inc, nextId>>

\* ack: the source is read again under the lock.
Acknowledge(w) ==
  /\ st[w].pc = "locked" /\ st[w].job \in {"ack", "reack"}
  /\ LET e  == st[w].tgt
         xs == {x \in pending.entries : x.e = e}
         is == {i \in DOMAIN slots : slots[i].e = e}
     IN  IF e \in Events(pending.acks) /\ ReserveReadable
         THEN Release(w) /\ Return(w) /\ UNCHANGED journal
         ELSE IF ~ReserveReadable \/ ~Contains(log, e) \/ xs \cup is = {}
         THEN Release(w) /\ Throw(w) /\ UNCHANGED journal
         ELSE IF xs # {}
         THEN \E x \in xs : Save(w, AckEntry(pending, x))
         ELSE /\ slots' = [i \in DOMAIN slots |->
                             IF i \in is THEN [slots[i] EXCEPT !.mark = 2] ELSE slots[i]]
              /\ Release(w) /\ Return(w)
              /\ UNCHANGED <<pending, stage>>
  /\ UNCHANGED <<source, recovery, inc, nextId>>

\* Mutant: absence from the source is taken for non-commitment.
NotCommittedByAbsence(events, e) == ~Contains(events, e)

\* verifyNonCommitment: the run moved past the event's parent without it.
NotCommitted(events, e) == Revision(events) # e.prev /\ ~Contains(events, e)

Retire(w) ==
  /\ Holding(w, "retire")
  /\ LET xs == {x \in pending.entries : x.e = st[w].tgt} IN
     IF xs # {} /\ NotCommitted(log, st[w].tgt)
     THEN \E x \in xs : Save(w, RetireEntry(pending, x))
     ELSE Release(w) /\ Throw(w) /\ UNCHANGED journal
  /\ UNCHANGED <<source, recovery, inc, nextId>>

\* The writer recovery must find stopped: the recorded one, or that of the
\* start event that never reached an empty source.
RecoveringWriter(events, v) ==
  IF events # <<>> THEN RecordedWriter(events)
  ELSE LET xs == {x \in v.entries : x.e.kind = "started"}
       IN  IF xs = {} THEN None ELSE (CHOOSE x \in xs : TRUE).e.by

\* recoverPhysical: an intact stage is promoted, then frames are committed.
RecoverStage(w) ==
  /\ Holding(w, "physical")
  /\ LET frames == {i \in DOMAIN slots : slots[i].mark = 0}
         v      == IF stage = <<>> THEN pending ELSE stage[1]
         events == log
     IN  IF stage = <<>> /\ frames = {}
         THEN Release(w) /\ To(w, Call(st[w], "list", NoEvent)) /\ UNCHANGED journal
         ELSE IF /\ v # Torn
                 /\ stage # <<>> => StageValid(pending, v)
                 /\ Stopped(RecoveringWriter(events, v))
                 /\ RecoveryVerified(pending, v, events)
         THEN /\ pending' = v /\ stage' = <<>>
              /\ To(w, [st[w] EXCEPT !.pc = "frames"])
              /\ UNCHANGED <<slots, lock>>
         ELSE Release(w) /\ Throw(w) /\ UNCHANGED journal
  /\ UNCHANGED <<source, recovery, inc, nextId>>

RecoverFrames(w) ==
  /\ st[w].pc = "frames"
  /\ slots' = [i \in DOMAIN slots |->
                 IF slots[i].mark = 0 THEN [slots[i] EXCEPT !.mark = 1] ELSE slots[i]]
  /\ Release(w) /\ To(w, Call(st[w], "list", NoEvent))
  /\ UNCHANGED <<source, pending, stage, recovery, inc, nextId>>

-----------------------------------------------------------------------------
(* The reconciliation every append starts with, and the replay command.    *)

\* An absent entry may be replayed only onto the unchanged source, in its
\* own generation, with the recorded writer stopped.
Replayable(events, e) ==
  /\ events # <<>>
  /\ e.prev = Revision(events)
  /\ e.gen = Generation(events)
  /\ Stopped(RecordedWriter(events))

\* When nothing is pending, the expected revision is checked on a fresh read
\* before anything is staged.
Settle(w) ==
  /\ st[w].pc = "reconcile"
  /\ IF st[w].todo = {}
     THEN To(w, IF st[w].mode = "append" /\ Revision(log) = st[w].ev.prev
                THEN Call(st[w], "put", NoEvent) ELSE Idle)
     ELSE \E e \in st[w].todo :
            To(w, IF Contains(log, e) THEN Call(st[w], "reack", e)
                  ELSE IF st[w].mode = "replay" /\ Replayable(log, e)
                  THEN [st[w] EXCEPT !.pc = "submit", !.ev = e]
                  ELSE Idle)
  /\ UNCHANGED <<source, journal, locks, inc, nextId>>

-----------------------------------------------------------------------------
(* store.append: read, build the commit on the revision read, move the     *)
(* branch without force, and read the outcome back.                        *)

\* How append ends for the journal when it could not be confirmed.
Unconfirmed(s, proven) ==
  IF s.mode = "replay" \/ s.ev.kind \in SafetyKinds THEN Idle
  ELSE Call(s, IF proven THEN "retire" ELSE "unknown", s.ev)

Confirmed(s) ==
  IF s.mode = "replay" THEN [s EXCEPT !.pc = "reconcile"] ELSE Call(s, "ack", s.ev)

Submit(w) ==
  /\ st[w].pc = "submit"
  /\ LET e == st[w].ev IN
     IF Contains(log, e) THEN To(w, Confirmed(st[w])) /\ UNCHANGED inflight
     ELSE IF Revision(log) # e.prev
     THEN To(w, Unconfirmed(st[w], TRUE)) /\ UNCHANGED inflight
     ELSE /\ inflight' = inflight \cup
               {[by |-> Me(w), parent |-> ref, log |-> Append(log, e)]}
          /\ To(w, [st[w] EXCEPT !.pc = "wait"])
  /\ UNCHANGED <<ref, log, journal, locks, inc, nextId>>

\* The server decides an update: only a fast-forward moves the branch.
FastForward(p) == p.parent = ref

Waiting(p) == p.by.w \in Writers /\ p.by = Me(p.by.w) /\ st[p.by.w].pc = "wait"

\* An update that can no longer land and that nobody waits for is forgotten.
Outstanding(set) == {q \in set : Waiting(q) \/ q.parent = ref'}

\* The process w no longer waits for its update.
Unawaited(w) == {[q EXCEPT !.by = IF @ = Me(w) THEN None ELSE @] : q \in inflight}

Land(p) ==
  /\ IF FastForward(p) THEN ref' = ref + 1 /\ log' = p.log ELSE UNCHANGED <<ref, log>>
  /\ inflight' = Outstanding(inflight \ {p})
  /\ IF Waiting(p)
     THEN To(p.by.w, [st[p.by.w] EXCEPT !.pc = IF FastForward(p) THEN "accepted" ELSE "rejected"])
     ELSE UNCHANGED st
  /\ UNCHANGED <<journal, locks, inc, nextId>>

\* The response is lost or the call times out; the request may still land.
Lose(w) ==
  /\ st[w].pc = "wait"
  /\ To(w, [st[w] EXCEPT !.pc = "lost"])
  /\ inflight' = {q \in Unawaited(w) : q.by # None \/ q.parent = ref}
  /\ UNCHANGED <<ref, log, journal, locks, inc, nextId>>

ReadBack(w) ==
  /\ st[w].pc \in {"accepted", "rejected", "lost"}
  /\ To(w, IF Contains(log, st[w].ev) THEN Confirmed(st[w])
           ELSE Unconfirmed(st[w], st[w].pc = "rejected"))
  /\ UNCHANGED <<source, journal, locks, inc, nextId>>

\* A read of the source throws: in the reconciliation nothing is staged yet,
\* in append the outcome is unknown.
ReadFails(w) ==
  /\ st[w].pc \in {"reconcile", "submit", "accepted", "rejected", "lost"}
  /\ To(w, IF st[w].pc = "reconcile" THEN Idle ELSE Unconfirmed(st[w], FALSE))
  /\ UNCHANGED <<source, journal, locks, inc, nextId>>

-----------------------------------------------------------------------------
(* The rest of the world.                                                  *)

\* A process dies; its files and its lock stay.
Crash(w) ==
  /\ st[w].pc # "idle" /\ Crashes < MaxCrashes
  /\ inc' = [inc EXCEPT ![w] = @ + 1]
  /\ inflight' = {q \in Unawaited(w) : q.by # None \/ q.parent = ref}
  /\ To(w, Idle)
  /\ UNCHANGED <<ref, log, journal, locks, nextId>>

\* Every commit is one event of this host or one of these.
Others == ref - Cardinality({i \in DOMAIN log : log[i].by.w \in Writers})

\* Another run of the same branch commits.
OtherRun ==
  /\ Others < MaxOthers /\ ref' = ref + 1
  /\ inflight' = Outstanding(inflight)
  /\ UNCHANGED <<log, journal, locks, st, inc, nextId>>

\* A store on another host appends to this run.
OtherHost(k) ==
  LET e == [id |-> nextId, prev |-> Revision(log), gen |-> Generation(log),
            kind |-> k, by |-> Foreign]
  IN  /\ nextId <= MaxId /\ Others < MaxOthers /\ Accepts(log, e)
      /\ ref' = ref + 1 /\ nextId' = nextId + 1
      /\ log' = Append(log, e)
      /\ inflight' = Outstanding(inflight)
      /\ UNCHANGED <<journal, locks, st, inc>>

NextJournal ==
  \/ \E w \in Writers :
       \/ \E k \in EventKinds : Begin(w, k)
       \/ \E m \in {"replay", "recover"} : Reconcile(w, m)
       \/ OpenLock(w) \/ LockRefused(w)
       \/ RecoverLock(w) \/ Unlink(w) \/ Promote(w) \/ List(w)
       \/ PutSafety(w) \/ CommitFrame(w) \/ PutBusiness(w) \/ PutUnknown(w)
       \/ Acknowledge(w) \/ Retire(w) \/ RecoverStage(w) \/ RecoverFrames(w)
       \/ Settle(w) \/ Submit(w) \/ Lose(w) \/ ReadBack(w)
       \/ ReadFails(w) \/ Crash(w)
  \/ \E p \in inflight : Land(p)
  \/ OtherRun
  \/ \E k \in {"operation-admitted", "resumed"} : OtherHost(k)

JournalSpec == InitJournal /\ [][NextJournal]_journalVars

-----------------------------------------------------------------------------
(* Properties.                                                             *)

\* Write-ahead: an event of this host is in the source only if the journal
\* holds it, whichever process died in between.
WriteAhead ==
  \A i \in DOMAIN log :
    LET e == log[i] IN
    e.by.w \in Writers =>
      \/ e \in Events(pending.entries) \cup Events(pending.acks)
      \/ \E j \in DOMAIN slots : slots[j].e = e /\ slots[j].mark \in {1, 2}

\* The journal never settles an event wrongly: what it calls acknowledged
\* is in the source, what it retired never gets there, late requests
\* included.
SettledTruthfully ==
  /\ \A x \in pending.acks : Contains(log, x.e)
  /\ \A j \in DOMAIN slots : slots[j].mark = 2 => Contains(log, slots[j].e)
  /\ \A e \in pending.retired : ~Contains(log, e)

\* A stage left behind by a crash (unless the write itself was torn) is one
\* that recoverPhysical accepts: the validator and the source checks never
\* refuse what the journal itself wrote.
StageRecoverable ==
  stage \notin {<<>>, <<Torn>>} =>
    /\ StageValid(pending, stage[1])
    /\ RecoveryVerified(pending, stage[1], log)

\* Lock recovery never lets two live processes into the directory.
LockExclusive ==
  \A w \in Writers :
    st[w].pc \in {"locked", "staged", "framed", "frames", "doomed"} => lock = Me(w)

\* However processes die, the directory can be taken over: by one process at a
\* time, and with a stage it can recover.
DirectoryRecoverable == StageRecoverable /\ LockExclusive
=============================================================================
