------------------------- MODULE CollaborationProofs -------------------------
(***************************************************************************)
(* What the stores that roles work together through promise, proved for    *)
(* any number of writers, roles, seats and records.                        *)
(*                                                                         *)
(* The journal: a snapshot never replaces another before the events are    *)
(* staged durably, an acknowledged or dropped event is never found to be   *)
(* the other, and one process at a time works in the directory.            *)
(* The handover: a phase advances only on current evidence, and never on   *)
(* a delivery from before the last freeze.                                 *)
(***************************************************************************)
EXTENDS JournaledRunStore, RoleCollaboration, SequenceTheorems, TLAPS

(* The inductive invariant.                                                *)

\* Where a process holds the lock of the directory.
LockPcs == {"locked", "staged", "framed", "frames", "doomed"}

IsProc(s) ==
  s = [pc |-> s.pc, job |-> s.job, ev |-> s.ev, todo |-> s.todo, tgt |-> s.tgt, mode |-> s.mode]

\* The lock is a live holder's or nobody's; lock recovery removes a dead
\* owner's lock, one recovery at a time.
HostInv ==
  /\ inc \in [Writers -> Nat] /\ lock.inc \in Nat
  /\ st = [w \in Writers |-> st[w]] /\ \A w \in Writers : IsProc(st[w])
  /\ LockExclusive
  /\ \A w \in Writers :
       st[w].pc = "unlink" => recovery = Me(w) /\ lock # None /\ Stopped(lock)

\* The events a snapshot of the journal knows, and the readable frames.
Records(v) == Events(v.entries) \cup Events(v.acks) \cup v.retired

Framed == {slots[i].e : i \in {j \in DOMAIN slots : slots[j].mark \in {1, 2}}}

\* What the journal has written down; it never forgets any of it.
Recorded == Records(pending) \cup Framed

\* Every event anyone may still write to the journal or find in it.
Known ==
  {NoEvent} \cup {log[i] : i \in DOMAIN log} \cup Records(pending)
    \cup {slots[i].e : i \in DOMAIN slots}
    \cup (IF stage = <<>> THEN {} ELSE Records(stage[1]))
    \cup {st[w].ev : w \in Writers}

\* Events known by their ids, below the next one; each parent was a revision
\* of the source.
Distinct(known, next, events) ==
  /\ next \in Nat
  /\ \A x \in known :
       /\ x.id \in Nat /\ x.id < next
       /\ x.prev = NoRevision \/ \E i \in DOMAIN events : events[i].id = x.prev
  /\ \A x, y \in known : x.id = y.id => x = y

EventInv == Distinct(Known, nextId, log)

\* The source moved past the event's parent without it.
Dead(events, e) == ~Contains(events, e) /\ e.prev # Revision(events)

IsSnapshot(v) ==
  /\ v = [entries |-> v.entries, acks |-> v.acks, retired |-> v.retired]
  /\ \A x \in v.entries : x = [e |-> x.e, state |-> x.state, res |-> x.res]
  /\ \A x \in v.acks : x = [e |-> x.e, res |-> x.res]

\* What a snapshot says of the source is so.
Truthful(events, v) ==
  /\ IsSnapshot(v)
  /\ \A x \in v.acks : Contains(events, x.e)
  /\ \A e \in v.retired : Dead(events, e)

\* A stage that may replace the snapshot: it forgets nothing.
Promotable(v) == Truthful(log, v) /\ Records(pending) \subseteq Records(v)

IsSeq(s) == s \in Seq({s[i] : i \in DOMAIN s})

SnapshotInv ==
  /\ Truthful(log, pending)
  /\ stage # <<>> =>
       stage = <<stage[1]>> /\ (stage[1] = Torn \/ Promotable(stage[1]))
  /\ IsSeq(slots)
  /\ \A i \in DOMAIN slots :
       /\ slots[i] = [e |-> slots[i].e, mark |-> slots[i].mark]
       /\ slots[i].mark = 2 => Contains(log, slots[i].e)
  /\ \A w \in Writers :
       /\ st[w].pc = "staged" =>
            /\ stage # <<>> /\ Promotable(stage[1])
            /\ st[w].job = "put" => st[w].ev \in Records(stage[1])
       /\ st[w].pc = "framed" =>
            slots # <<>> /\ slots[Len(slots)].e = st[w].ev

\* An update that can still land brings an event the journal has.
MayLand(p, events, recorded) ==
  \E e \in recorded :
    p.log = Append(events, e) /\ e.prev = Revision(events) /\ ~Contains(events, e)

IsUpdate(p) == p = [by |-> p.by, parent |-> p.parent, log |-> p.log]

RunInv ==
  /\ ref \in Nat /\ IsSeq(log) /\ log # <<>>
  /\ \A i \in DOMAIN log : log[i].by.w \in Writers => log[i] \in Recorded
  /\ \A w \in Writers :
       /\ st[w].todo \subseteq Recorded
       /\ st[w].pc = "submit" => st[w].ev \in Recorded
  /\ \A p \in inflight :
       /\ IsUpdate(p) /\ p.parent \in Nat /\ p.parent <= ref
       /\ p.parent = ref => MayLand(p, log, Recorded)

DataInv == EventInv /\ SnapshotInv /\ RunInv

JournalInv == HostInv /\ DataInv

-----------------------------------------------------------------------------
(* Processes and the lock.                                                 *)

\* One process moves.
LEMMA JMoved ==
  ASSUME HostInv, NEW w \in Writers, NEW s, To(w, s)
  PROVE  /\ st'[w] = s /\ \A u \in Writers : u # w => st'[u] = st[u]
         /\ st' = [u \in Writers |-> st'[u]]
         /\ IsProc(s) => \A u \in Writers : IsProc(st'[u])
BY DEF HostInv, To

\* Where a process goes when it neither takes the lock nor writes: it keeps
\* what it knows or forgets it.
Free(t) == IsProc(t) /\ t.pc \notin LockPcs /\ t.pc # "unlink"

Onward(s, t) ==
  /\ Free(t)
  /\ t.ev \in {s.ev, NoEvent} /\ t.todo \subseteq s.todo

\* A process keeps its shape.
LEMMA ProcShape ==
  ASSUME NEW s, IsProc(s), NEW x
  PROVE  /\ IsProc([s EXCEPT !.pc = x]) /\ IsProc([s EXCEPT !.job = x])
         /\ IsProc([s EXCEPT !.tgt = x]) /\ IsProc([s EXCEPT !.ev = x])
         /\ IsProc([s EXCEPT !.todo = x]) /\ IsProc([s EXCEPT !.mode = x])
         /\ [s EXCEPT !.pc = x].pc = x
         /\ [s EXCEPT !.pc = x].ev = s.ev /\ [s EXCEPT !.pc = x].todo = s.todo
         /\ [s EXCEPT !.pc = x].job = s.job
BY DEF IsProc

\* A call of the journal is one.
LEMMA CallOnward ==
  ASSUME NEW s, IsProc(s), NEW job, NEW tgt
  PROVE  Onward(s, Call(s, job, tgt)) /\ Call(s, job, tgt).pc = "call"
         /\ Call(s, job, tgt).ev = s.ev
<1> DEFINE r == [s EXCEPT !.pc = "call"]
           q == [r EXCEPT !.job = job]
           t == [q EXCEPT !.tgt = tgt]
<1>1. r.pc = "call" /\ r.ev = s.ev /\ r.todo = s.todo /\ IsProc(r)
  <2>1. IsProc(r)
    BY ProcShape
  <2>2. r.pc = "call" /\ r.ev = s.ev /\ r.todo = s.todo
    BY DEF IsProc
  <2> QED BY <2>1, <2>2
<1> HIDE DEF r
<1>2. q.pc = "call" /\ q.ev = s.ev /\ q.todo = s.todo /\ IsProc(q)
  <2>1. IsProc(q)
    BY <1>1, ProcShape
  <2>2. q.pc = "call" /\ q.ev = r.ev /\ q.todo = r.todo
    BY <1>1 DEF IsProc
  <2> QED BY <2>1, <2>2, <1>1
<1> HIDE DEF q
<1>3. t.pc = "call" /\ t.ev = s.ev /\ t.todo = s.todo /\ IsProc(t)
  <2>1. IsProc(t)
    BY <1>2, ProcShape
  <2>2. t.pc = "call" /\ t.ev = q.ev /\ t.todo = q.todo
    BY <1>2 DEF IsProc
  <2> QED BY <2>1, <2>2, <1>2
<1>4. Call(s, job, tgt) = t
  BY DEF Call, t, q, r
<1> HIDE DEF t
<1> QED BY <1>3, <1>4 DEF Onward, Free, LockPcs

\* Going idle is one.
LEMMA IdleOnward == ASSUME NEW s PROVE Onward(s, Idle) /\ Idle.pc = "idle"
BY DEF Onward, Free, Idle, IsProc, LockPcs

\* A throw is one.
LEMMA ThrownOnward ==
  ASSUME NEW s, IsProc(s)
  PROVE  Onward(s, Thrown(s)) /\ Thrown(s).pc \in {"call", "idle"}
BY CallOnward, IdleOnward DEF Thrown

\* A return is one; only a put goes on to submit.
LEMMA ReturnedOnward ==
  ASSUME NEW s, IsProc(s)
  PROVE  /\ Onward(s, Returned(s))
         /\ Returned(s).pc = "submit" => s.job = "put" /\ Returned(s).ev = s.ev
<1>1. CASE s.job = "list"
  BY <1>1 DEF Returned, Onward, Free, IsProc, LockPcs
<1>2. CASE s.job = "reack"
  BY <1>2 DEF Returned, Onward, Free, IsProc, LockPcs
<1>3. CASE s.job = "put"
  BY <1>3 DEF Returned, Onward, Free, IsProc, LockPcs
<1>4. CASE s.job \notin {"list", "reack", "put"}
  <2>1. Returned(s) = Idle
    BY <1>4 DEF Returned
  <2> QED BY <2>1, IdleOnward
<1> QED BY <1>1, <1>2, <1>3, <1>4

\* An append that is confirmed or not goes on to one.
LEMMA OutcomeOnward ==
  ASSUME NEW s, IsProc(s), NEW proven
  PROVE  /\ Onward(s, Confirmed(s)) /\ Confirmed(s).pc # "submit"
         /\ Onward(s, Unconfirmed(s, proven)) /\ Unconfirmed(s, proven).pc # "submit"
<1>1. Onward(s, [s EXCEPT !.pc = "reconcile"]) /\ [s EXCEPT !.pc = "reconcile"].pc = "reconcile"
  BY DEF Onward, Free, IsProc, LockPcs
<1> QED BY <1>1, CallOnward, IdleOnward DEF Confirmed, Unconfirmed

\* Owners are told apart, and a live one is not stopped.
LEMMA Owners ==
  ASSUME HostInv, NEW w \in Writers
  PROVE  /\ Me(w).inc \in Nat /\ None.inc \in Nat
         /\ Me(w) # None /\ ~Stopped(Me(w))
         /\ \A u \in Writers : Me(u) = Me(w) => u = w
BY JournalAssumption DEF Me, None, Stopped, HostInv

\* Holding the lock for a call: it is free or one's own.
LEMMA HeldOrFree ==
  ASSUME HostInv, NEW w \in Writers, NEW job, Holding(w, job)
  PROVE  lock \in {None, Me(w)}
BY DEF Holding, HostInv, LockExclusive, LockPcs

\* A process moves on, and gives up the lock if it has it.
LEMMA HostFree ==
  ASSUME HostInv, NEW w \in Writers, NEW t, To(w, t), Free(t),
         UNCHANGED <<recovery, inc>>,
         lock' = lock \/ (lock' = None /\ lock \in {None, Me(w)})
  PROVE  HostInv'
<1> USE DEF Free
<1>1. /\ st'[w] = t /\ \A u \in Writers : u # w => st'[u] = st[u]
      /\ st' = [u \in Writers |-> st'[u]] /\ \A u \in Writers : IsProc(st'[u])
  BY JMoved
<1>2. \A u \in Writers : Me(u)' = Me(u)
  BY DEF Me
<1>3. \A u \in Writers : st[u].pc \in LockPcs /\ u # w => lock' = Me(u)
  BY Owners DEF HostInv, LockExclusive, LockPcs
<1>4. LockExclusive'
  BY <1>1, <1>2, <1>3 DEF LockExclusive, LockPcs
<1>5. Stopped(lock)' <=> Stopped(lock')
  BY DEF Stopped
<1>6. \A u \in Writers : st[u].pc = "unlink" /\ u # w =>
        recovery' = Me(u) /\ lock' # None /\ Stopped(lock')
  <2>1. \A u \in Writers : st[u].pc = "unlink" => lock # None /\ Stopped(lock) /\ recovery = Me(u)
    BY DEF HostInv
  <2> QED BY <2>1, Owners
<1>7. lock'.inc \in Nat
  BY Owners DEF HostInv
<1> QED BY <1>1, <1>2, <1>4, <1>5, <1>6, <1>7 DEF HostInv

\* A process takes the free lock, or keeps its own.
LEMMA HostHold ==
  ASSUME HostInv, NEW w \in Writers, NEW t, To(w, t), IsProc(t), t.pc # "unlink",
         UNCHANGED <<recovery, inc>>, lock' = Me(w), lock \in {None, Me(w)}
  PROVE  HostInv'
<1>1. /\ st'[w] = t /\ \A u \in Writers : u # w => st'[u] = st[u]
      /\ st' = [u \in Writers |-> st'[u]] /\ \A u \in Writers : IsProc(st'[u])
  BY JMoved
<1>2. \A u \in Writers : Me(u)' = Me(u)
  BY DEF Me
<1>3. \A u \in Writers : st[u].pc \in LockPcs => u = w
  BY Owners DEF HostInv, LockExclusive, LockPcs
<1>4. LockExclusive'
  BY <1>1, <1>2, <1>3 DEF LockExclusive, LockPcs
<1>5. \A u \in Writers : st[u].pc # "unlink"
  BY Owners DEF HostInv
<1> QED BY <1>1, <1>2, <1>4, <1>5, Owners DEF HostInv

\* Nobody moves.
LEMMA HostStill ==
  ASSUME HostInv, UNCHANGED <<st, lock, recovery, inc>>
  PROVE  HostInv'
BY DEF HostInv, LockExclusive, Me, Stopped

\* A snapshot is staged under the lock, or the call throws.
LEMMA HostSave ==
  ASSUME HostInv, NEW w \in Writers, NEW v, Save(w, v), lock \in {None, Me(w)},
         UNCHANGED <<recovery, inc>>
  PROVE  HostInv'
<1>0. IsProc(st[w])
  BY DEF HostInv
<1>1. CASE stage = <<>> /\ Usage(v) <= Capacity
  <2>1. PICK pc \in {"staged", "doomed"} : To(w, [st[w] EXCEPT !.pc = pc]) /\ lock' = Me(w)
    BY <1>1 DEF Save
  <2>2. IsProc([st[w] EXCEPT !.pc = pc]) /\ [st[w] EXCEPT !.pc = pc].pc = pc
    BY <1>0, ProcShape
  <2> QED BY <2>1, <2>2, HostHold
<1>2. CASE ~(stage = <<>> /\ Usage(v) <= Capacity)
  <2>1. To(w, Thrown(st[w])) /\ lock' = None
    BY <1>2 DEF Save, Throw, Release
  <2>2. Free(Thrown(st[w]))
    BY <1>0, ThrownOnward DEF Onward
  <2> QED BY <2>1, <2>2, HostFree
<1> QED BY <1>1, <1>2

\* A call ends with a throw or a return and the lock released.
LEMMA HostDone ==
  ASSUME HostInv, NEW w \in Writers, Release(w), Throw(w) \/ Return(w),
         lock \in {None, Me(w)}, UNCHANGED <<recovery, inc>>
  PROVE  HostInv'
<1>1. IsProc(st[w])
  BY DEF HostInv
<1>2. Free(Thrown(st[w])) /\ Free(Returned(st[w]))
  BY <1>1, ThrownOnward, ReturnedOnward DEF Onward
<1> QED BY <1>2, HostFree DEF Release, Throw, Return

\* The steps of a process outside the lock.
LEMMA HostOutside ==
  ASSUME HostInv, NEW w \in Writers,
         \/ \E k \in EventKinds : Begin(w, k)
         \/ \E m \in {"replay", "recover"} : Reconcile(w, m)
         \/ LockRefused(w) \/ Settle(w) \/ Submit(w) \/ Lose(w) \/ ReadBack(w) \/ ReadFails(w)
  PROVE  HostInv'
<1>0. IsProc(st[w])
  BY DEF HostInv
<1>1. ASSUME NEW t, Free(t), To(w, t), UNCHANGED <<locks, inc>>
      PROVE  HostInv'
  BY <1>1, HostFree DEF locks
<1>2. ASSUME NEW e, NEW mode, NEW job
      PROVE  /\ Free(Call([Idle EXCEPT !.ev = e, !.mode = mode], job, NoEvent))
             /\ Free(Call([Idle EXCEPT !.mode = mode], job, NoEvent))
  <2>1. IsProc(Idle)
    BY IdleOnward DEF Onward, Free
  <2>2. IsProc([Idle EXCEPT !.ev = e])
    BY <2>1, ProcShape
  <2>3. IsProc([[Idle EXCEPT !.ev = e] EXCEPT !.mode = mode]) /\ IsProc([Idle EXCEPT !.mode = mode])
    BY <2>1, <2>2, ProcShape
  <2> QED BY <2>3, CallOnward DEF Onward
<1>3. \A job, tgt : Free(Call(st[w], job, tgt))
  BY <1>0, CallOnward DEF Onward
<1>4. Free(Idle) /\ Free(Thrown(st[w])) /\ Free(Confirmed(st[w]))
      /\ \A proven : Free(Unconfirmed(st[w], proven))
  BY <1>0, IdleOnward, ThrownOnward, OutcomeOnward DEF Onward
<1>5. \A pc \in {"submit", "wait", "lost"} : Free([st[w] EXCEPT !.pc = pc])
  BY <1>0, ProcShape DEF Free, LockPcs
<1>6. \A e : Free([st[w] EXCEPT !.pc = "submit", !.ev = e])
  <2>1. IsProc([st[w] EXCEPT !.pc = "submit"]) /\ [st[w] EXCEPT !.pc = "submit"].pc = "submit"
    BY <1>0, ProcShape
  <2> SUFFICES ASSUME NEW r, r = [st[w] EXCEPT !.pc = "submit"], IsProc(r), r.pc = "submit",
                      NEW e
               PROVE  Free([r EXCEPT !.ev = e])
    BY <2>1
  <2>2. [r EXCEPT !.ev = e].pc = "submit"
    BY DEF IsProc
  <2>3. IsProc([r EXCEPT !.ev = e])
    BY ProcShape
  <2> QED BY <2>2, <2>3 DEF Free, LockPcs
<1>7. CASE (\E k \in EventKinds : Begin(w, k)) \/ \E m \in {"replay", "recover"} : Reconcile(w, m)
  BY <1>1, <1>2, <1>7 DEF Begin, Reconcile
<1>8. CASE LockRefused(w) \/ ReadBack(w) \/ ReadFails(w) \/ Lose(w)
  BY <1>1, <1>4, <1>5, <1>8 DEF LockRefused, Throw, ReadBack, ReadFails, Lose
<1>9. CASE Settle(w)
  BY <1>1, <1>3, <1>4, <1>6, <1>9 DEF Settle
<1>10. CASE Submit(w)
  BY <1>1, <1>4, <1>5, <1>10 DEF Submit
<1> QED BY <1>7, <1>8, <1>9, <1>10

\* The steps of a process under the lock.
LEMMA HostUnder ==
  ASSUME HostInv, NEW w \in Writers,
         \/ OpenLock(w) \/ Promote(w) \/ List(w) \/ PutSafety(w) \/ CommitFrame(w)
         \/ PutBusiness(w) \/ PutUnknown(w) \/ Acknowledge(w) \/ Retire(w)
         \/ RecoverStage(w) \/ RecoverFrames(w)
  PROVE  HostInv'
<1>0. IsProc(st[w])
  BY DEF HostInv
<1>1. st[w].pc \in LockPcs => lock = Me(w)
  BY DEF HostInv, LockExclusive, LockPcs
<1>2. \A job, tgt : Free(Call(st[w], job, tgt))
  BY <1>0, CallOnward DEF Onward
<1>3. ASSUME NEW pc \in LockPcs, To(w, [st[w] EXCEPT !.pc = pc]), lock \in {None, Me(w)},
             lock' = Me(w), UNCHANGED <<recovery, inc>>
      PROVE  HostInv'
  <2>1. IsProc([st[w] EXCEPT !.pc = pc]) /\ [st[w] EXCEPT !.pc = pc].pc = pc
    BY <1>0, ProcShape
  <2> QED BY <1>3, <2>1, HostHold DEF LockPcs
<1>4. ASSUME NEW job, Holding(w, job) PROVE lock \in {None, Me(w)}
  BY <1>4, HeldOrFree
<1>5. CASE OpenLock(w)
  BY <1>3, <1>5 DEF OpenLock, LockPcs
<1>6. CASE Promote(w) \/ CommitFrame(w)
  <2>1. lock = Me(w)
    BY <1>1, <1>6 DEF Promote, CommitFrame, LockPcs
  <2> QED BY <1>6, <2>1, HostDone DEF Promote, CommitFrame
<1>7. CASE List(w)
  <2>1. lock \in {None, Me(w)}
    BY <1>4, <1>7 DEF List
  <2>2. CASE ReserveReadable /\ stage = <<>>
    <3>1. IsProc(Returned(st[w])) /\ Free(Returned(st[w]))
      BY <1>0, ReturnedOnward DEF Onward, Free
    <3>2. Free([Returned(st[w]) EXCEPT !.todo = Unacknowledged])
      <4> SUFFICES ASSUME NEW r, IsProc(r), Free(r), NEW x PROVE Free([r EXCEPT !.todo = x])
        BY <3>1
      <4>1. [r EXCEPT !.todo = x].pc = r.pc
        BY DEF IsProc
      <4>2. IsProc([r EXCEPT !.todo = x])
        BY ProcShape
      <4> QED BY <4>1, <4>2 DEF Free
    <3> QED BY <1>7, <2>1, <2>2, <3>2, HostFree DEF List, Release
  <2>3. CASE ~(ReserveReadable /\ stage = <<>>)
    BY <1>7, <2>1, <2>3, HostDone DEF List
  <2> QED BY <2>2, <2>3
<1>8. CASE PutSafety(w)
  <2>1. lock \in {None, Me(w)}
    BY <1>4, <1>8 DEF PutSafety
  <2> QED BY <1>3, <1>8, <2>1, HostDone DEF PutSafety, LockPcs
<1>9. CASE PutBusiness(w)
  <2>1. lock \in {None, Me(w)}
    BY <1>4, <1>9 DEF PutBusiness
  <2> QED BY <1>9, <2>1, HostDone, HostSave DEF PutBusiness
<1>10. CASE PutUnknown(w)
  <2>1. lock \in {None, Me(w)}
    BY <1>4, <1>10 DEF PutUnknown
  <2> QED BY <1>10, <2>1, HostDone, HostSave DEF PutUnknown
<1>11. CASE Retire(w)
  <2>1. lock \in {None, Me(w)}
    BY <1>4, <1>11 DEF Retire
  <2> QED BY <1>11, <2>1, HostDone, HostSave DEF Retire
<1>12. CASE Acknowledge(w)
  <2>1. lock \in {None, Me(w)}
    BY <1>1, <1>12 DEF Acknowledge, LockPcs
  <2> QED BY <1>12, <2>1, HostDone, HostSave DEF Acknowledge
<1>13. CASE RecoverStage(w)
  <2>1. lock = Me(w)
    BY <1>1, <1>13 DEF RecoverStage, Holding, AwaitingJobs, LockPcs
  <2>2. \/ Release(w) /\ To(w, Call(st[w], "list", NoEvent))
        \/ To(w, [st[w] EXCEPT !.pc = "frames"]) /\ lock' = lock
        \/ Release(w) /\ Throw(w)
    BY <1>13 DEF RecoverStage
  <2>3. UNCHANGED <<recovery, inc>>
    BY <1>13 DEF RecoverStage
  <2>4. CASE To(w, [st[w] EXCEPT !.pc = "frames"]) /\ lock' = lock
    BY <1>3, <2>1, <2>3, <2>4 DEF LockPcs
  <2> QED BY <1>2, <2>1, <2>2, <2>3, <2>4, HostDone, HostFree DEF Release
<1>14. CASE RecoverFrames(w)
  <2>1. lock = Me(w)
    BY <1>1, <1>14 DEF RecoverFrames, LockPcs
  <2> QED BY <1>2, <1>14, <2>1, HostFree DEF RecoverFrames, Release
<1> QED BY <1>5, <1>6, <1>7, <1>8, <1>9, <1>10, <1>11, <1>12, <1>13, <1>14

\* Lock recovery and crashes.
LEMMA HostRecovers ==
  ASSUME HostInv, NEW w \in Writers, RecoverLock(w) \/ Unlink(w) \/ Crash(w)
  PROVE  HostInv'
<1>0. IsProc(Idle) /\ Idle.pc = "idle"
  BY IdleOnward DEF Onward, Free
<1>1. CASE RecoverLock(w)
  <2> DEFINE t == [Idle EXCEPT !.pc = "unlink"]
  <2>1. To(w, t) /\ IsProc(t) /\ t.pc = "unlink"
    BY <1>0, <1>1, ProcShape DEF RecoverLock
  <2> HIDE DEF t
  <2>2. /\ st'[w] = t /\ \A u \in Writers : u # w => st'[u] = st[u]
        /\ st' = [u \in Writers |-> st'[u]] /\ \A u \in Writers : IsProc(st'[u])
    BY <2>1, JMoved
  <2>3. /\ recovery = None /\ recovery' = Me(w) /\ lock # None /\ Stopped(lock)
        /\ UNCHANGED <<lock, inc>>
    BY <1>1 DEF RecoverLock
  <2>4. \A u \in Writers : st[u].pc # "unlink"
    BY <2>3, Owners DEF HostInv
  <2>5. Stopped(lock)' /\ \A u \in Writers : Me(u)' = Me(u)
    BY <2>3 DEF Stopped, Me
  <2>6. LockExclusive'
    BY <2>1, <2>2, <2>3, <2>5 DEF HostInv, LockExclusive
  <2> QED BY <2>2, <2>3, <2>4, <2>5, <2>6 DEF HostInv
<1>2. CASE Unlink(w)
  <2>1. /\ st'[w] = Idle /\ \A u \in Writers : u # w => st'[u] = st[u]
        /\ st' = [u \in Writers |-> st'[u]] /\ \A u \in Writers : IsProc(st'[u])
    BY <1>0, <1>2, JMoved DEF Unlink
  <2>2. recovery = Me(w) /\ Stopped(lock)
    BY <1>2 DEF Unlink, HostInv
  <2>3. \A u \in Writers : st[u].pc \notin LockPcs /\ (st[u].pc = "unlink" => u = w)
    BY <2>2, Owners DEF HostInv, LockExclusive, LockPcs
  <2>4. UNCHANGED inc
    BY <1>2 DEF Unlink
  <2>5. LockExclusive'
    BY <1>0, <2>1, <2>3 DEF LockExclusive, LockPcs
  <2>6. lock'.inc \in Nat
    BY <1>2, Owners DEF Unlink
  <2> QED BY <1>0, <2>1, <2>3, <2>4, <2>5, <2>6 DEF HostInv
<1>3. CASE Crash(w)
  <2>1. /\ st'[w] = Idle /\ \A u \in Writers : u # w => st'[u] = st[u]
        /\ st' = [u \in Writers |-> st'[u]] /\ \A u \in Writers : IsProc(st'[u])
    BY <1>0, <1>3, JMoved DEF Crash
  <2>2. /\ inc' \in [Writers -> Nat] /\ inc'[w] = inc[w] + 1
        /\ \A u \in Writers : u # w => inc'[u] = inc[u]
    BY <1>3 DEF Crash, HostInv
  <2>3. UNCHANGED <<lock, recovery>>
    BY <1>3 DEF Crash, locks
  <2>4. \A u \in Writers : u # w => Me(u)' = Me(u)
    BY <2>2 DEF Me
  <2>5. LockExclusive'
    BY <1>0, <2>1, <2>3, <2>4 DEF HostInv, LockExclusive
  <2>6. Stopped(lock) => Stopped(lock)'
    <3>1. lock.inc \in Nat /\ \A u \in Writers :
             inc[u] \in Nat /\ inc'[u] \in Nat /\ inc[u] <= inc'[u]
      BY <2>2 DEF HostInv
    <3> SUFFICES ASSUME lock.w \in Writers, lock.inc < inc[lock.w]
                 PROVE  lock.inc < inc'[lock.w]
      BY <2>3 DEF Stopped
    <3>2. CASE lock.w = w
      BY <2>2, <3>1, <3>2
    <3> QED BY <2>2, <3>2
  <2> QED BY <1>0, <2>1, <2>2, <2>3, <2>4, <2>5, <2>6 DEF HostInv
<1> QED BY <1>1, <1>2, <1>3

-----------------------------------------------------------------------------
(* The data of the journal.                                                *)

\* The shape of a sequence.
LEMMA SeqShape ==
  ASSUME NEW s, IsSeq(s)
  PROVE  Len(s) \in Nat /\ DOMAIN s = 1..Len(s) /\ (s # <<>> => Len(s) \in DOMAIN s)
<1>1. Len(s) \in Nat /\ DOMAIN s = 1..Len(s)
  BY LenProperties DEF IsSeq
<1>2. s # <<>> => Len(s) # 0
  BY EmptySeq DEF IsSeq
<1> QED BY <1>1, <1>2

\* Append adds the last element.
LEMMA SeqAppend ==
  ASSUME NEW s, NEW e, IsSeq(s)
  PROVE  /\ IsSeq(Append(s, e)) /\ Append(s, e) # <<>> /\ Len(Append(s, e)) = Len(s) + 1
         /\ DOMAIN Append(s, e) = 1..(Len(s) + 1)
         /\ Append(s, e)[Len(s) + 1] = e
         /\ \A i \in DOMAIN s : Append(s, e)[i] = s[i]
<1> DEFINE S == {s[i] : i \in DOMAIN s} \cup {e}
           t == Append(s, e)
<1>1. Len(s) \in Nat /\ DOMAIN s = 1..Len(s)
  BY SeqShape
<1>2. s \in Seq(S)
  <2>1. s \in [1..Len(s) -> {s[i] : i \in DOMAIN s}]
    BY LenProperties DEF IsSeq
  <2>2. s \in [1..Len(s) -> S]
    BY <1>1, <2>1
  <2> QED BY <1>1, <2>2, SeqDef
<1>3. e \in S
  OBVIOUS
<1> HIDE DEF S, t
<1>4. /\ t \in Seq(S) /\ t # <<>> /\ Len(t) = Len(s) + 1
      /\ \A i \in 1..Len(s) : t[i] = s[i]
      /\ t[Len(s) + 1] = e
  BY <1>2, <1>3, AppendProperties DEF t
<1>5. DOMAIN t = 1..(Len(s) + 1)
  BY <1>4, LenProperties
<1>6. IsSeq(t)
  <2>1. Len(t) \in Nat /\ t \in [1..Len(t) -> {t[i] : i \in DOMAIN t}]
    BY <1>4, LenProperties
  <2> QED BY <2>1, SeqDef DEF IsSeq
<1> QED BY <1>1, <1>4, <1>5, <1>6 DEF t

\* A history with one more event.
LEMMA Longer ==
  ASSUME NEW events, IsSeq(events), NEW f
  PROVE  /\ \A e : Contains(Append(events, f), e) <=> Contains(events, e) \/ e = f
         /\ Revision(Append(events, f)) = f.id
<1> DEFINE t == Append(events, f)
<1>1. /\ t # <<>> /\ Len(t) = Len(events) + 1 /\ t[Len(events) + 1] = f
      /\ \A i \in 1..Len(events) : t[i] = events[i]
  BY SeqShape, SeqAppend
<1>2. Len(events) \in Nat
  BY SeqShape
<1> HIDE DEF t
<1>3. \A i \in 1..Len(t) : i \in 1..Len(events) \/ i = Len(events) + 1
  BY <1>1, <1>2
<1>4. \A i \in 1..Len(events) : i \in 1..Len(t)
  BY <1>1, <1>2
<1>5. Len(events) + 1 \in 1..Len(t)
  BY <1>1, <1>2
<1>6. \A e : Contains(t, e) <=> Contains(events, e) \/ e = f
  BY <1>1, <1>3, <1>4, <1>5 DEF Contains
<1>7. Revision(t) = f.id
  BY <1>1 DEF Revision, Last
<1> QED BY <1>6, <1>7 DEF t

\* Fewer events on a source with the same revisions.
LEMMA DistinctKept ==
  ASSUME NEW known, NEW next, NEW events, Distinct(known, next, events),
         NEW known2, known2 \subseteq known,
         NEW events2, \A i \in DOMAIN events : \E j \in DOMAIN events2 : events2[j].id = events[i].id
  PROVE  Distinct(known2, next, events2)
BY DEF Distinct

\* One new event.
LEMMA DistinctGrown ==
  ASSUME NEW known, NEW next, NEW events, Distinct(known, next, events),
         NEW f, f.id = next, \E i \in DOMAIN events : events[i].id = f.prev
  PROVE  Distinct(known \cup {f}, next + 1, events)
BY DEF Distinct

\* The events known after a step.
LEMMA KnownWithin ==
  ASSUME NEW K, NoEvent \in K,
         \A i \in DOMAIN log' : log'[i] \in K,
         Records(pending') \subseteq K,
         \A i \in DOMAIN slots' : slots'[i].e \in K,
         stage' # <<>> => Records(stage'[1]) \subseteq K,
         \A w \in Writers : st'[w].ev \in K
  PROVE  Known' \subseteq K
BY DEF Known, Records, Events

\* The events known now.
LEMMA KnownParts ==
  /\ NoEvent \in Known /\ \A i \in DOMAIN log : log[i] \in Known
  /\ Records(pending) \subseteq Known /\ \A i \in DOMAIN slots : slots[i].e \in Known
  /\ stage # <<>> => Records(stage[1]) \subseteq Known
  /\ \A w \in Writers : st[w].ev \in Known
  /\ Recorded \subseteq Known
BY DEF Known, Recorded, Framed

\* An update that may land may still land when more is recorded.
LEMMA MayLandStill ==
  ASSUME NEW p, NEW events, NEW recorded, MayLand(p, events, recorded),
         NEW q, q.log = p.log, NEW recorded2, recorded \subseteq recorded2
  PROVE  MayLand(q, events, recorded2)
BY DEF MayLand

\* The updates that have not been decided: none is new.
Fewer ==
  \A q \in inflight' : IsUpdate(q) /\ \E p \in inflight : q.parent = p.parent /\ q.log = p.log

\* None is when they stay.
LEMMA FewerSame == ASSUME RunInv, inflight' \subseteq inflight PROVE Fewer
BY DEF Fewer, RunInv

\* What holds of the run when the source stays and the journal forgets nothing.
LEMMA RunKept ==
  ASSUME HostInv, RunInv, UNCHANGED <<ref, log>>, Fewer, Recorded \subseteq Recorded',
         NEW w \in Writers, NEW t, To(w, t), t.todo \subseteq Recorded',
         t.pc = "submit" => t.ev \in Recorded'
  PROVE  RunInv'
<1>1. st'[w] = t /\ \A u \in Writers : u # w => st'[u] = st[u]
  BY JMoved
<1>2. \A u \in Writers : /\ st'[u].todo \subseteq Recorded'
                         /\ st'[u].pc = "submit" => st'[u].ev \in Recorded'
  BY <1>1 DEF RunInv
<1>3. \A q \in inflight' : /\ IsUpdate(q) /\ q.parent \in Nat /\ q.parent <= ref
                           /\ q.parent = ref => MayLand(q, log, Recorded')
  <2> SUFFICES ASSUME NEW q \in inflight', IsUpdate(q),
                      NEW p \in inflight, q.parent = p.parent, q.log = p.log
               PROVE  /\ q.parent \in Nat /\ q.parent <= ref
                      /\ q.parent = ref => MayLand(q, log, Recorded')
    BY DEF Fewer
  <2>1. /\ p.parent \in Nat /\ p.parent <= ref
        /\ p.parent = ref => MayLand(p, log, Recorded)
    BY DEF RunInv
  <2> QED BY <2>1, MayLandStill
<1> QED BY <1>2, <1>3 DEF RunInv

\* A process moves on and the journal and the source stay as they are.
LEMMA Quiet ==
  ASSUME JournalInv, NEW w \in Writers, NEW t, To(w, t),
         UNCHANGED <<ref, log, journal, nextId>>, Fewer,
         t.ev \in Known, t.todo \subseteq Recorded, t.pc = "submit" => t.ev \in Recorded,
         t.pc \notin {"staged", "framed"}
  PROVE  DataInv'
<1> USE DEF journal
<1>1. st'[w] = t /\ \A u \in Writers : u # w => st'[u] = st[u]
  BY JMoved DEF JournalInv
<1>2. Recorded' = Recorded
  BY DEF Recorded, Framed
<1>3. RunInv'
  BY <1>2, RunKept DEF JournalInv, DataInv
<1>4. SnapshotInv'
  BY <1>1 DEF JournalInv, DataInv, SnapshotInv, Promotable
<1>5. EventInv'
  <2>1. Known' \subseteq Known
    BY <1>1, KnownParts, KnownWithin
  <2> QED BY <2>1, DistinctKept DEF JournalInv, DataInv, EventInv
<1> QED BY <1>3, <1>4, <1>5 DEF DataInv

\* While a process may take the lock, no other one holds it.
LEMMA OthersAway ==
  ASSUME HostInv, NEW w \in Writers, lock \in {None, Me(w)}
  PROVE  \A u \in Writers : u # w => st[u].pc \notin LockPcs
BY Owners DEF HostInv, LockExclusive, LockPcs

\* A snapshot that forgets nothing and says what is so is staged, or the call
\* throws.
LEMMA Saves ==
  ASSUME JournalInv, NEW w \in Writers, NEW v, Save(w, v), lock \in {None, Me(w)},
         UNCHANGED <<source, nextId>>, Promotable(v), Records(v) \subseteq Known,
         st[w].job = "put" => st[w].ev \in Records(v)
  PROVE  DataInv'
<1>0. IsProc(st[w])
  BY DEF JournalInv, HostInv
<1>1. Fewer /\ UNCHANGED <<ref, log>>
  BY FewerSame DEF source, JournalInv, DataInv
<1>2. CASE stage = <<>> /\ Usage(v) <= Capacity
  <2>1. PICK pc \in {"staged", "doomed"} :
          /\ To(w, [st[w] EXCEPT !.pc = pc])
          /\ pc = "staged" => stage' = <<v>>
    BY <1>2 DEF Save
  <2>2. UNCHANGED <<pending, slots>> /\ stage' \in {<<v>>, <<Torn>>}
    BY <1>2 DEF Save
  <2> DEFINE t == [st[w] EXCEPT !.pc = pc]
  <2>3. t.pc = pc /\ t.ev = st[w].ev /\ t.todo = st[w].todo /\ t.job = st[w].job
    BY <1>0, ProcShape
  <2> HIDE DEF t
  <2>4. st'[w] = t /\ \A u \in Writers : u # w => st'[u] = st[u]
    BY <2>1, JMoved DEF JournalInv, t
  <2>5. Recorded' = Recorded
    BY <2>2 DEF Recorded, Framed
  <2>6. RunInv'
    BY <1>1, <2>1, <2>3, <2>5, RunKept DEF JournalInv, DataInv, RunInv, t
  <2>7. stage'[1] \in {v, Torn} /\ stage' = <<stage'[1]>>
        /\ (stage' = <<v>> => stage'[1] = v /\ stage' # <<>>)
        /\ (stage'[1] = Torn \/ stage'[1] = v)
    BY <2>2
  <2>8. \A u \in Writers : u # w => st'[u].pc \notin {"staged", "framed"}
    BY <2>4, OthersAway DEF JournalInv, LockPcs
  <2>9. Promotable(v)'
    BY <1>1, <2>2 DEF Promotable
  <2>10. /\ st'[w].pc = "staged" =>
              /\ stage' # <<>> /\ Promotable(stage[1])'
              /\ st'[w].job = "put" => st'[w].ev \in Records(stage'[1])
         /\ st'[w].pc # "framed"
    <3>1. CASE pc = "staged"
      <4>1. stage'[1] = v /\ stage' # <<>>
        BY <2>1, <2>7, <3>1
      <4> QED BY <2>3, <2>4, <2>9, <3>1, <4>1 DEF Promotable
    <3>2. CASE pc = "doomed"
      BY <2>3, <2>4, <3>2
    <3> QED BY <3>1, <3>2
  <2>11. stage'[1] = Torn \/ Promotable(stage[1])'
    BY <2>7, <2>9 DEF Promotable
  <2>12. SnapshotInv'
    <3>1. Truthful(log, pending)' /\ IsSeq(slots)'
      BY <1>1, <2>2 DEF JournalInv, DataInv, SnapshotInv
    <3>2. \A i \in DOMAIN slots' : /\ slots'[i] = [e |-> slots'[i].e, mark |-> slots'[i].mark]
                                   /\ slots'[i].mark = 2 => Contains(log', slots'[i].e)
      BY <1>1, <2>2 DEF JournalInv, DataInv, SnapshotInv
    <3> QED BY <2>7, <2>8, <2>10, <2>11, <3>1, <3>2 DEF SnapshotInv
  <2>13. EventInv'
    <3>1. Torn.entries = {} /\ Torn.acks = {} /\ Torn.retired = {NoEvent}
      BY DEF Torn
    <3>2. Records(Torn) \subseteq Known
      BY <3>1, KnownParts DEF Records, Events
    <3>3. Known' \subseteq Known
      BY <1>1, <2>2, <2>3, <2>4, <2>7, <3>2, KnownParts, KnownWithin
    <3> QED BY <1>1, <3>3, DistinctKept DEF JournalInv, DataInv, EventInv
  <2> QED BY <2>6, <2>12, <2>13 DEF DataInv
<1>3. CASE ~(stage = <<>> /\ Usage(v) <= Capacity)
  <2> DEFINE t == Thrown(st[w])
  <2>1. To(w, t) /\ UNCHANGED journal
    BY <1>3 DEF Save, Throw
  <2>2. Onward(st[w], t) /\ t.pc \in {"call", "idle"}
    BY <1>0, ThrownOnward
  <2> HIDE DEF t
  <2>3. t.ev \in Known /\ t.todo \subseteq Recorded
    BY <2>2, KnownParts DEF Onward, JournalInv, DataInv, RunInv
  <2> QED BY <1>1, <2>1, <2>2, <2>3, Quiet DEF journal
<1> QED BY <1>2, <1>3

\* A call under the lock throws or returns and leaves the journal as it is.
LEMMA Done ==
  ASSUME JournalInv, NEW w \in Writers, UNCHANGED <<source, journal, nextId>>,
         Throw(w) \/ (Return(w) /\ st[w].job # "put")
  PROVE  DataInv'
<1>1. PICK t \in {Thrown(st[w]), Returned(st[w])} :
        /\ To(w, t) /\ Onward(st[w], t) /\ t.pc # "submit"
  <2>1. IsProc(st[w])
    BY DEF JournalInv, HostInv
  <2> QED BY <2>1, ThrownOnward, ReturnedOnward DEF Throw, Return
<1>2. t.ev \in Known /\ t.todo \subseteq Recorded /\ t.pc \notin {"staged", "framed"}
  BY <1>1, KnownParts DEF Onward, Free, LockPcs, JournalInv, DataInv, RunInv
<1>3. Fewer
  BY FewerSame DEF source, JournalInv, DataInv
<1> QED BY <1>1, <1>2, <1>3, Quiet DEF journal, source

\* The staged snapshot becomes the snapshot.
LEMMA Promotes ==
  ASSUME JournalInv, NEW w \in Writers, NEW t, To(w, t), lock = Me(w),
         stage # <<>>, Promotable(stage[1]), pending' = stage[1], stage' = <<>>,
         UNCHANGED <<source, slots, nextId>>,
         t.ev \in Known, t.todo \subseteq Recorded,
         t.pc = "submit" => t.ev \in Records(stage[1]), t.pc \notin {"staged", "framed"}
  PROVE  DataInv'
<1>1. Fewer /\ UNCHANGED <<ref, log>>
  BY FewerSame DEF source, JournalInv, DataInv
<1>2. st'[w] = t /\ \A u \in Writers : u # w => st'[u] = st[u]
  BY JMoved DEF JournalInv
<1>3. Records(pending') = Records(stage[1]) /\ Framed' = Framed
  BY DEF Framed
<1>4. Recorded' = Records(pending') \cup Framed'
  BY DEF Recorded
<1>5. Recorded \subseteq Recorded' /\ Records(stage[1]) \subseteq Recorded'
  BY <1>3, <1>4 DEF Recorded, Promotable
<1>6. RunInv'
  BY <1>1, <1>5, RunKept DEF JournalInv, DataInv
<1>7. SnapshotInv'
  <2>1. Truthful(log, pending)'
    BY <1>1 DEF Promotable
  <2>2. \A u \in Writers : st'[u].pc \notin {"staged", "framed"}
    BY <1>2, OthersAway DEF JournalInv, LockPcs
  <2>3. IsSeq(slots)' /\ \A i \in DOMAIN slots' :
          /\ slots'[i] = [e |-> slots'[i].e, mark |-> slots'[i].mark]
          /\ slots'[i].mark = 2 => Contains(log', slots'[i].e)
    BY <1>1 DEF JournalInv, DataInv, SnapshotInv
  <2> QED BY <2>1, <2>2, <2>3 DEF SnapshotInv
<1>8. EventInv'
  <2>1. Known' \subseteq Known
    BY <1>1, <1>2, <1>3, KnownParts, KnownWithin
  <2> QED BY <1>1, <2>1, DistinctKept DEF JournalInv, DataInv, EventInv
<1> QED BY <1>6, <1>7, <1>8 DEF DataInv

\* A sequence of the same length.
LEMMA SeqSame ==
  ASSUME NEW s, IsSeq(s), NEW t, t = [i \in DOMAIN s |-> t[i]]
  PROVE  IsSeq(t) /\ Len(t) = Len(s) /\ DOMAIN t = DOMAIN s
<1>1. Len(s) \in Nat /\ DOMAIN s = 1..Len(s)
  BY SeqShape
<1>2. t \in [1..Len(s) -> {t[i] : i \in DOMAIN t}] /\ DOMAIN t = 1..Len(s)
  BY <1>1
<1>3. t \in Seq({t[i] : i \in DOMAIN t})
  BY <1>1, <1>2, SeqDef
<1>4. Len(t) = Len(s)
  BY <1>1, <1>2, <1>3, LenProperties
<1> QED BY <1>1, <1>2, <1>3, <1>4 DEF IsSeq

\* Frames keep their events, a readable one stays readable, and one that is
\* settled is in the source.
Marking ==
  /\ slots' = [i \in DOMAIN slots |-> slots'[i]]
  /\ \A i \in DOMAIN slots :
       /\ slots'[i] = [e |-> slots[i].e, mark |-> slots'[i].mark]
       /\ slots[i].mark \in {1, 2} => slots'[i].mark \in {1, 2}
       /\ slots'[i].mark = 2 => Contains(log, slots[i].e)

\* Marking forgets no event.
LEMMA MarkingKeeps ==
  ASSUME SnapshotInv, Marking
  PROVE  /\ DOMAIN slots' = DOMAIN slots /\ IsSeq(slots)'
         /\ \A i \in DOMAIN slots : slots'[i].e = slots[i].e
         /\ Framed \subseteq Framed'
<1>1. DOMAIN slots' = DOMAIN slots /\ IsSeq(slots')
  BY SeqSame DEF SnapshotInv, Marking
<1>2. \A i \in DOMAIN slots : slots'[i].e = slots[i].e
  BY DEF Marking
<1>3. Framed \subseteq Framed'
  BY <1>1, <1>2 DEF Framed, Marking
<1> QED BY <1>1, <1>2, <1>3

\* Frames are marked.
LEMMA Marks ==
  ASSUME JournalInv, NEW w \in Writers, NEW t, To(w, t), lock \in {None, Me(w)},
         Marking, UNCHANGED <<source, pending, stage, nextId>>,
         t.ev \in Known, t.todo \subseteq Recorded,
         t.pc = "submit" => t.ev \in Framed', t.pc \notin {"staged", "framed"}
  PROVE  DataInv'
<1>1. Fewer /\ UNCHANGED <<ref, log>>
  BY FewerSame DEF source, JournalInv, DataInv
<1>2. st'[w] = t /\ \A u \in Writers : u # w => st'[u] = st[u]
  BY JMoved DEF JournalInv
<1>3. /\ DOMAIN slots' = DOMAIN slots /\ IsSeq(slots)'
      /\ \A i \in DOMAIN slots : slots'[i].e = slots[i].e
      /\ Framed \subseteq Framed'
  BY MarkingKeeps DEF JournalInv, DataInv
<1>4. Recorded' = Records(pending) \cup Framed'
  BY DEF Recorded
<1>5. Recorded \subseteq Recorded' /\ Framed' \subseteq Recorded'
  BY <1>3, <1>4 DEF Recorded
<1>6. RunInv'
  BY <1>1, <1>5, RunKept DEF JournalInv, DataInv
<1>7. SnapshotInv'
  <2>1. Truthful(log, pending)' /\ (Promotable(stage[1])' <=> Promotable(stage[1]))
    BY <1>1 DEF JournalInv, DataInv, SnapshotInv, Promotable
  <2>2. \A u \in Writers : st'[u].pc \notin {"staged", "framed"}
    BY <1>2, OthersAway DEF JournalInv, LockPcs
  <2>3. \A i \in DOMAIN slots' :
          /\ slots'[i] = [e |-> slots'[i].e, mark |-> slots'[i].mark]
          /\ slots'[i].mark = 2 => Contains(log', slots'[i].e)
    BY <1>1, <1>3 DEF Marking
  <2>4. stage' # <<>> => stage' = <<stage'[1]>> /\ (stage'[1] = Torn \/ Promotable(stage[1])')
    BY <2>1 DEF JournalInv, DataInv, SnapshotInv
  <2> QED BY <1>3, <2>1, <2>2, <2>3, <2>4 DEF SnapshotInv
<1>8. EventInv'
  <2>1. Known' \subseteq Known
    BY <1>1, <1>2, <1>3, KnownParts, KnownWithin
  <2> QED BY <1>1, <2>1, DistinctKept DEF JournalInv, DataInv, EventInv
<1> QED BY <1>6, <1>7, <1>8 DEF DataInv

\* The payload of a new frame is written: nobody can read it yet.
LEMMA Frames ==
  ASSUME JournalInv, NEW w \in Writers, lock \in {None, Me(w)},
         slots' = Append(slots, [e |-> st[w].ev, mark |-> 0]),
         To(w, [st[w] EXCEPT !.pc = "framed"]),
         UNCHANGED <<source, pending, stage, nextId>>
  PROVE  DataInv'
<1> DEFINE t == [st[w] EXCEPT !.pc = "framed"]
           f == [e |-> st[w].ev, mark |-> 0]
<1>0. t.pc = "framed" /\ t.ev = st[w].ev /\ t.todo = st[w].todo
  BY ProcShape DEF JournalInv, HostInv
<1>a. f.e = st[w].ev /\ f.mark = 0 /\ f = [e |-> f.e, mark |-> f.mark]
  OBVIOUS
<1>b. slots' = Append(slots, f) /\ To(w, t)
  OBVIOUS
<1> HIDE DEF t, f
<1>1. Fewer /\ UNCHANGED <<ref, log>>
  BY FewerSame DEF source, JournalInv, DataInv
<1>2. st'[w] = t /\ \A u \in Writers : u # w => st'[u] = st[u]
  BY <1>b, JMoved DEF JournalInv
<1>3. /\ Len(slots) \in Nat /\ DOMAIN slots = 1..Len(slots)
      /\ IsSeq(slots)' /\ slots' # <<>> /\ Len(slots') = Len(slots) + 1
      /\ DOMAIN slots' = 1..(Len(slots) + 1) /\ slots'[Len(slots) + 1] = f
      /\ \A i \in DOMAIN slots : slots'[i] = slots[i]
  BY <1>b, SeqShape, SeqAppend DEF JournalInv, DataInv, SnapshotInv
<1>4. \A i \in DOMAIN slots' : i \in DOMAIN slots \/ slots'[i] = f
  BY <1>3
<1>5. DOMAIN slots \subseteq DOMAIN slots'
  BY <1>3
<1>6. Recorded' = Recorded
  <2>1. Framed' = Framed
    BY <1>a, <1>3, <1>4, <1>5 DEF Framed
  <2> QED BY <2>1 DEF Recorded
<1>7. RunInv'
  BY <1>b, <1>0, <1>1, <1>6, RunKept DEF JournalInv, DataInv, RunInv
<1>8. SnapshotInv'
  <2>1. Truthful(log, pending)' /\ (Promotable(stage[1])' <=> Promotable(stage[1]))
    BY <1>1 DEF JournalInv, DataInv, SnapshotInv, Promotable
  <2>2. \A u \in Writers : u # w => st'[u].pc \notin {"staged", "framed"}
    BY <1>2, OthersAway DEF JournalInv, LockPcs
  <2>3. \A i \in DOMAIN slots :
          /\ slots[i] = [e |-> slots[i].e, mark |-> slots[i].mark]
          /\ slots[i].mark = 2 => Contains(log, slots[i].e)
    BY DEF JournalInv, DataInv, SnapshotInv
  <2>4. \A i \in DOMAIN slots' :
          /\ slots'[i] = [e |-> slots'[i].e, mark |-> slots'[i].mark]
          /\ slots'[i].mark = 2 => Contains(log', slots'[i].e)
    BY <1>a, <1>1, <1>3, <1>4, <2>3
  <2>5. stage' # <<>> => stage' = <<stage'[1]>> /\ (stage'[1] = Torn \/ Promotable(stage[1])')
    BY <2>1 DEF JournalInv, DataInv, SnapshotInv
  <2>6. slots'[Len(slots')].e = st'[w].ev /\ st'[w].pc = "framed"
    BY <1>0, <1>a, <1>2, <1>3
  <2> QED BY <1>3, <2>1, <2>2, <2>4, <2>5, <2>6 DEF SnapshotInv
<1>9. EventInv'
  <2>1. \A i \in DOMAIN slots' : slots'[i].e \in Known
    BY <1>a, <1>3, <1>4, KnownParts
  <2>2. Known' \subseteq Known
    BY <1>0, <1>1, <1>2, <2>1, KnownParts, KnownWithin
  <2> QED BY <1>1, <2>2, DistinctKept DEF JournalInv, DataInv, EventInv
<1> QED BY <1>7, <1>8, <1>9 DEF DataInv

-----------------------------------------------------------------------------
(* The source.                                                             *)

\* An event the source may take next: on its revision, with an id of its own.
Fresh(events, f) ==
  /\ f.prev = Revision(events) /\ f.id # NoRevision
  /\ \A i \in DOMAIN events : events[i].id # f.id

\* What was so stays so when the source takes an event.
LEMMA TruthfulStill ==
  ASSUME NEW known, NEW next, NEW events, Distinct(known, next, events), IsSeq(events),
         NEW f, Fresh(events, f), NEW v, Records(v) \subseteq known, Truthful(events, v)
  PROVE  Truthful(Append(events, f), v)
<1>1. /\ \A e : Contains(Append(events, f), e) <=> Contains(events, e) \/ e = f
      /\ Revision(Append(events, f)) = f.id
  BY Longer
<1>2. ASSUME NEW e \in v.retired PROVE Dead(Append(events, f), e)
  <2>1. e \in known /\ Dead(events, e)
    BY DEF Records, Truthful
  <2>2. e.prev # f.id
    BY <2>1 DEF Distinct, Fresh
  <2>3. e # f
    BY <2>1 DEF Dead, Fresh
  <2> QED BY <1>1, <2>1, <2>2, <2>3 DEF Dead
<1> QED BY <1>1, <1>2 DEF Truthful

\* Processes do what they did; one may have heard the server's answer.
SameWork ==
  \A u \in Writers :
    \/ st'[u] = st[u]
    \/ /\ st'[u].pc \in {"accepted", "rejected"}
       /\ st'[u].ev = st[u].ev /\ st'[u].todo = st[u].todo

\* The source takes an event.
LEMMA Appends ==
  ASSUME JournalInv, NEW f, Fresh(log, f), log' = Append(log, f), ref' = ref + 1,
         UNCHANGED journal, Fewer, SameWork, f.by.w \in Writers => f \in Recorded
  PROVE  SnapshotInv' /\ RunInv'
<1> USE DEF journal
<1>1. /\ \A e : Contains(log', e) <=> Contains(log, e) \/ e = f
      /\ IsSeq(log') /\ log' # <<>> /\ DOMAIN log' = 1..(Len(log) + 1)
      /\ log'[Len(log) + 1] = f /\ \A i \in DOMAIN log : log'[i] = log[i]
      /\ Len(log) \in Nat /\ DOMAIN log = 1..Len(log)
  <2>1. IsSeq(log) /\ log' = Append(log, f)
    BY DEF JournalInv, DataInv, RunInv
  <2>2. \A e : Contains(log', e) <=> Contains(log, e) \/ e = f
    BY <2>1, Longer
  <2>3. /\ IsSeq(log') /\ log' # <<>> /\ DOMAIN log' = 1..(Len(log) + 1)
        /\ log'[Len(log) + 1] = f /\ \A i \in DOMAIN log : log'[i] = log[i]
    BY <2>1, SeqAppend
  <2>4. Len(log) \in Nat /\ DOMAIN log = 1..Len(log)
    BY <2>1, SeqShape
  <2> QED BY <2>2, <2>3, <2>4
<1>2. Recorded' = Recorded
  BY DEF Recorded, Framed
<1>3. RunInv'
  <2>1. \A i \in DOMAIN log' : log'[i].by.w \in Writers => log'[i] \in Recorded'
    <3>1. \A i \in DOMAIN log' : i \in DOMAIN log \/ i = Len(log) + 1
      BY <1>1
    <3> QED BY <1>1, <1>2, <3>1 DEF JournalInv, DataInv, RunInv
  <2>2. \A u \in Writers : /\ st'[u].todo \subseteq Recorded'
                           /\ st'[u].pc = "submit" => st'[u].ev \in Recorded'
    BY <1>2 DEF SameWork, JournalInv, DataInv, RunInv
  <2>3. ref' \in Nat /\ \A q \in inflight' : /\ IsUpdate(q) /\ q.parent \in Nat
                                             /\ q.parent <= ref' /\ q.parent # ref'
    BY DEF Fewer, JournalInv, DataInv, RunInv
  <2> QED BY <1>1, <2>1, <2>2, <2>3 DEF RunInv
<1>4. ASSUME NEW v, Records(v) \subseteq Known, Truthful(log, v)
      PROVE  Truthful(log', v)
  BY <1>4, TruthfulStill DEF JournalInv, DataInv, EventInv, RunInv
<1>5. SnapshotInv'
  <2>1. Truthful(log, pending)'
    BY <1>4, KnownParts DEF JournalInv, DataInv, SnapshotInv
  <2>2. stage # <<>> /\ Promotable(stage[1]) => Promotable(stage[1])'
    BY <1>4, KnownParts DEF Promotable
  <2>3. stage' # <<>> => stage' = <<stage'[1]>> /\ (stage'[1] = Torn \/ Promotable(stage[1])')
    BY <2>2 DEF JournalInv, DataInv, SnapshotInv
  <2>4. \A i \in DOMAIN slots' :
          /\ slots'[i] = [e |-> slots'[i].e, mark |-> slots'[i].mark]
          /\ slots'[i].mark = 2 => Contains(log', slots'[i].e)
    BY <1>1 DEF JournalInv, DataInv, SnapshotInv
  <2>5. \A u \in Writers :
         /\ st'[u].pc = "staged" =>
              /\ stage' # <<>> /\ Promotable(stage[1])'
              /\ st'[u].job = "put" => st'[u].ev \in Records(stage'[1])
         /\ st'[u].pc = "framed" => slots' # <<>> /\ slots'[Len(slots')].e = st'[u].ev
    BY <2>2 DEF SameWork, JournalInv, DataInv, SnapshotInv
  <2>6. IsSeq(slots)'
    BY DEF JournalInv, DataInv, SnapshotInv
  <2> QED BY <2>1, <2>3, <2>4, <2>5, <2>6 DEF SnapshotInv
<1> QED BY <1>3, <1>5

\* The branch stays or moves for others, and the run stays.
LEMMA Passes ==
  ASSUME JournalInv, UNCHANGED <<log, journal, nextId>>, ref' \in {ref, ref + 1},
         Fewer, SameWork
  PROVE  DataInv'
<1> USE DEF journal
<1>1. Recorded' = Recorded
  BY DEF Recorded, Framed
<1>2. RunInv'
  <2>1. \A u \in Writers : /\ st'[u].todo \subseteq Recorded'
                           /\ st'[u].pc = "submit" => st'[u].ev \in Recorded'
    BY <1>1 DEF SameWork, JournalInv, DataInv, RunInv
  <2>2. ref \in Nat /\ ref' \in Nat
    BY DEF JournalInv, DataInv, RunInv
  <2>3. ASSUME NEW q \in inflight'
        PROVE  /\ IsUpdate(q) /\ q.parent \in Nat /\ q.parent <= ref'
               /\ q.parent = ref' => MayLand(q, log', Recorded')
    <3>1. PICK p \in inflight : q.parent = p.parent /\ q.log = p.log /\ IsUpdate(q)
      BY DEF Fewer
    <3>2. /\ p.parent \in Nat /\ p.parent <= ref
          /\ p.parent = ref => MayLand(p, log, Recorded)
      BY DEF JournalInv, DataInv, RunInv
    <3>3. MayLand(p, log, Recorded) => MayLand(q, log', Recorded')
      BY <1>1, <3>1, MayLandStill
    <3> QED BY <2>2, <3>1, <3>2, <3>3
  <2>4. IsSeq(log)' /\ log' # <<>>
        /\ \A i \in DOMAIN log' : log'[i].by.w \in Writers => log'[i] \in Recorded'
    BY <1>1 DEF JournalInv, DataInv, RunInv
  <2> QED BY <2>1, <2>2, <2>3, <2>4 DEF RunInv
<1>3. SnapshotInv'
  BY DEF SameWork, JournalInv, DataInv, SnapshotInv, Promotable
<1>4. EventInv'
  <2>1. \A u \in Writers : st'[u].ev \in Known
    BY KnownParts DEF SameWork
  <2>2. Known' \subseteq Known
    BY <2>1, KnownParts, KnownWithin
  <2> QED BY <2>2, DistinctKept DEF JournalInv, DataInv, EventInv
<1> QED BY <1>2, <1>3, <1>4 DEF DataInv

-----------------------------------------------------------------------------
(* The steps.                                                              *)

\* A process goes on from what it is doing.
LEMMA GoesOn ==
  ASSUME JournalInv, NEW w \in Writers, NEW t, To(w, t), Onward(st[w], t),
         UNCHANGED <<ref, log, journal, nextId>>, Fewer,
         t.pc = "submit" => t.ev \in Recorded
  PROVE  DataInv'
<1>1. t.ev \in Known /\ t.todo \subseteq Recorded /\ t.pc \notin {"staged", "framed"}
  BY KnownParts DEF Onward, Free, LockPcs, JournalInv, DataInv, RunInv
<1> QED BY <1>1, Quiet

\* A process changes its place only.
LEMMA Goes ==
  ASSUME JournalInv, NEW w \in Writers, NEW pc, pc \notin {"submit", "staged", "framed"},
         To(w, [st[w] EXCEPT !.pc = pc]), UNCHANGED <<ref, log, journal, nextId>>, Fewer
  PROVE  DataInv'
<1> DEFINE t == [st[w] EXCEPT !.pc = pc]
<1>1. t.pc = pc /\ t.ev = st[w].ev /\ t.todo = st[w].todo
  BY ProcShape DEF JournalInv, HostInv
<1>2. To(w, t)
  OBVIOUS
<1> HIDE DEF t
<1>3. t.ev \in Known /\ t.todo \subseteq Recorded
  BY <1>1, KnownParts DEF JournalInv, DataInv, RunInv
<1> QED BY <1>1, <1>2, <1>3, Quiet

\* A new event is made: nobody has its id, and it names the revision.
LEMMA BeginStep ==
  ASSUME JournalInv, NEW w \in Writers, NEW k \in EventKinds, Begin(w, k)
  PROVE  DataInv'
<1> DEFINE e == NewEvent(w, k)
           s == [Idle EXCEPT !.ev = e]
           r == [s EXCEPT !.mode = "append"]
           t == Call(r, "list", NoEvent)
<1>1. To(w, t) /\ nextId' = nextId + 1 /\ UNCHANGED <<ref, log, inflight, pending, stage, slots>>
  BY DEF Begin, source, journal
<1>2. t.ev = e /\ t.todo = {} /\ t.pc = "call"
  <2>1. s.ev = e /\ s.todo = {} /\ IsProc(s)
    <3>1. IsProc(Idle)
      BY IdleOnward DEF Onward, Free
    <3>2. IsProc(s)
      BY <3>1, ProcShape
    <3>3. s.ev = e /\ s.todo = {}
      BY DEF Idle
    <3> QED BY <3>2, <3>3
  <2> HIDE DEF s
  <2>2. r.ev = e /\ r.todo = {}
    BY <2>1 DEF IsProc
  <2>3. IsProc(r)
    BY <2>1, ProcShape
  <2> HIDE DEF r
  <2>4. t.pc = "call" /\ Onward(r, t) /\ t.ev = r.ev
    BY <2>3, CallOnward
  <2> QED BY <2>2, <2>4 DEF Onward
<1>3. e.id = nextId /\ e.prev = Revision(log)
  BY DEF NewEvent
<1> HIDE DEF t, e
<1>4. st'[w] = t /\ \A u \in Writers : u # w => st'[u] = st[u]
  BY <1>1, JMoved DEF JournalInv
<1>5. Fewer
  BY <1>1, FewerSame DEF JournalInv, DataInv
<1>6. Recorded' = Recorded
  BY <1>1 DEF Recorded, Framed
<1>7. RunInv'
  BY <1>1, <1>2, <1>5, <1>6, RunKept DEF JournalInv, DataInv
<1>8. SnapshotInv'
  BY <1>1, <1>2, <1>4 DEF JournalInv, DataInv, SnapshotInv, Promotable
<1>9. EventInv'
  <2>1. \E i \in DOMAIN log : log[i].id = e.prev
    <3>1. log # <<>> /\ IsSeq(log)
      BY DEF JournalInv, DataInv, RunInv
    <3>2. Len(log) \in DOMAIN log /\ e.prev = log[Len(log)].id
      BY <1>3, <3>1, SeqShape DEF Revision, Last
    <3> QED BY <3>2
  <2>2. Distinct(Known \cup {e}, nextId', log)
    BY <1>1, <1>3, <2>1, DistinctGrown DEF JournalInv, DataInv, EventInv
  <2>3. Known' \subseteq Known \cup {e}
    <3> DEFINE K == Known \cup {e}
    <3>1. Known \subseteq K /\ e \in K
      OBVIOUS
    <3> HIDE DEF K
    <3>2. Known' \subseteq K
      BY <1>1, <1>2, <1>4, <3>1, KnownParts, KnownWithin
    <3> QED BY <3>2 DEF K
  <2> QED BY <1>1, <2>2, <2>3, DistinctKept DEF EventInv
<1> QED BY <1>7, <1>8, <1>9 DEF DataInv

\* The steps outside the lock that write nothing.
LEMMA OutsideStep ==
  ASSUME JournalInv, NEW w \in Writers,
         \/ \E m \in {"replay", "recover"} : Reconcile(w, m)
         \/ OpenLock(w) \/ LockRefused(w) \/ RecoverLock(w) \/ Unlink(w)
         \/ ReadBack(w) \/ ReadFails(w)
  PROVE  DataInv'
<1>0. IsProc(st[w])
  BY DEF JournalInv, HostInv
<1>1. UNCHANGED <<ref, log, pending, stage, slots, nextId, inflight>>
  BY DEF Reconcile, OpenLock, LockRefused, RecoverLock, Unlink, ReadBack, ReadFails,
         source, journal
<1>2. Fewer
  BY <1>1, FewerSame DEF JournalInv, DataInv
<1>3. ASSUME NEW t, To(w, t), Onward(st[w], t), t.pc # "submit"
      PROVE  DataInv'
  BY <1>1, <1>2, <1>3, GoesOn DEF journal
<1>4. ASSUME NEW t, To(w, t), t.ev = NoEvent, t.todo = {}, t.pc \notin {"submit", "staged", "framed"}
      PROVE  DataInv'
  <2>1. NoEvent \in Known
    BY KnownParts
  <2> QED BY <1>1, <1>2, <1>4, <2>1, Quiet DEF journal
<1>5. Idle.ev = NoEvent /\ Idle.todo = {} /\ Idle.pc = "idle" /\ IsProc(Idle)
  BY IdleOnward DEF Onward, Free, Idle
<1>6. CASE \E m \in {"replay", "recover"} : Reconcile(w, m)
  <2>1. PICK m, job : To(w, Call([Idle EXCEPT !.mode = m], job, NoEvent))
    BY <1>6 DEF Reconcile
  <2> DEFINE r == [Idle EXCEPT !.mode = m]
             t == Call(r, job, NoEvent)
  <2>2. r.ev = NoEvent /\ r.todo = {}
    BY DEF Idle
  <2>3. IsProc(r)
    BY <1>5, ProcShape
  <2>4. To(w, t)
    BY <2>1
  <2> HIDE DEF r
  <2>5. Onward(r, t) /\ t.pc = "call"
    BY <2>3, CallOnward
  <2> HIDE DEF t
  <2>6. t.ev = NoEvent /\ t.todo = {}
    BY <2>2, <2>5 DEF Onward
  <2> QED BY <1>4, <2>4, <2>5, <2>6
<1>7. CASE OpenLock(w)
  <2>1. To(w, [st[w] EXCEPT !.pc = "locked"])
    BY <1>7 DEF OpenLock
  <2> QED BY <1>1, <1>2, <2>1, Goes DEF journal
<1>8. CASE LockRefused(w)
  <2>1. To(w, Thrown(st[w])) /\ Onward(st[w], Thrown(st[w])) /\ Thrown(st[w]).pc # "submit"
    BY <1>0, <1>8, ThrownOnward DEF LockRefused, Throw
  <2> QED BY <1>3, <2>1
<1>9. CASE RecoverLock(w) \/ Unlink(w)
  <2>1. CASE RecoverLock(w)
    <3>1. [Idle EXCEPT !.pc = "unlink"].ev = NoEvent /\ [Idle EXCEPT !.pc = "unlink"].todo = {}
          /\ [Idle EXCEPT !.pc = "unlink"].pc = "unlink"
      BY <1>5, ProcShape
    <3>2. To(w, [Idle EXCEPT !.pc = "unlink"])
      BY <2>1 DEF RecoverLock
    <3> QED BY <1>4, <3>1, <3>2
  <2>2. CASE Unlink(w)
    BY <1>4, <1>5, <2>2 DEF Unlink
  <2> QED BY <1>9, <2>1, <2>2
<1>10. CASE ReadBack(w) \/ ReadFails(w)
  <2>1. \E t : To(w, t) /\ Onward(st[w], t) /\ t.pc # "submit"
    <3>1. \/ To(w, Confirmed(st[w])) \/ To(w, Idle)
          \/ \E proven : To(w, Unconfirmed(st[w], proven))
      BY <1>10 DEF ReadBack, ReadFails
    <3> QED BY <1>0, <1>5, <3>1, IdleOnward, OutcomeOnward
  <2> QED BY <1>3, <2>1
<1> QED BY <1>6, <1>7, <1>8, <1>9, <1>10

\* The lock a call runs under.
LEMMA LockOf ==
  ASSUME JournalInv, NEW w \in Writers
  PROVE  /\ \A job : Holding(w, job) => lock \in {None, Me(w)}
         /\ st[w].pc \in LockPcs => lock = Me(w)
BY HeldOrFree DEF JournalInv, HostInv, LockExclusive, LockPcs

\* Listing hands out what is recorded.
LEMMA ListStep ==
  ASSUME JournalInv, NEW w \in Writers, List(w)
  PROVE  DataInv'
<1>0. IsProc(st[w])
  BY DEF JournalInv, HostInv
<1>1. UNCHANGED <<source, journal, nextId>> /\ UNCHANGED <<ref, log, inflight>>
  BY DEF List, source
<1>2. Fewer
  BY <1>1, FewerSame DEF JournalInv, DataInv
<1>3. CASE ReserveReadable /\ stage = <<>>
  <2> DEFINE r == Returned(st[w])
             t == [r EXCEPT !.todo = Unacknowledged]
  <2>1. Onward(st[w], r) /\ IsProc(r) /\ r.pc # "submit"
    <3>1. st[w].job = "list"
      BY DEF List, Holding
    <3> QED BY <1>0, <3>1, ReturnedOnward DEF Onward, Free
  <2>2. To(w, t)
    BY <1>3 DEF List
  <2> HIDE DEF r
  <2>3. t.ev = r.ev /\ t.todo = Unacknowledged /\ t.pc = r.pc
    BY <2>1 DEF IsProc
  <2> HIDE DEF t
  <2>4. Unacknowledged \subseteq Recorded
    BY DEF Unacknowledged, Recorded, Framed, Records
  <2>5. t.ev \in Known /\ t.pc \notin {"submit", "staged", "framed"}
    BY <2>1, <2>3, KnownParts DEF Onward, Free, LockPcs
  <2> QED BY <1>1, <1>2, <2>2, <2>3, <2>4, <2>5, Quiet
<1>4. CASE ~(ReserveReadable /\ stage = <<>>)
  BY <1>1, <1>4, Done DEF List
<1> QED BY <1>3, <1>4

\* A safety event is framed.
LEMMA PutSafetyStep ==
  ASSUME JournalInv, NEW w \in Writers, PutSafety(w) \/ CommitFrame(w)
  PROVE  DataInv'
<1>1. CASE PutSafety(w)
  <2>1. lock \in {None, Me(w)}
    BY <1>1, LockOf DEF PutSafety
  <2>2. UNCHANGED <<source, pending, stage, nextId>>
    BY <1>1 DEF PutSafety
  <2>3. CASE ReserveReadable /\ Len(slots) < SafetySlots
    BY <1>1, <2>1, <2>2, <2>3, Frames DEF PutSafety
  <2>4. CASE ~(ReserveReadable /\ Len(slots) < SafetySlots)
    BY <1>1, <2>2, <2>4, Done DEF PutSafety, journal
  <2> QED BY <2>3, <2>4
<1>2. CASE CommitFrame(w)
  <2> DEFINE t == Returned(st[w])
             n == Len(slots)
  <2>1. /\ st[w].pc = "framed" /\ slots' = [slots EXCEPT ![n].mark = 1] /\ To(w, t)
        /\ UNCHANGED <<source, pending, stage, nextId>>
    BY <1>2 DEF CommitFrame, Return
  <2>2. Onward(st[w], t) /\ (t.pc = "submit" => t.ev = st[w].ev)
    BY ReturnedOnward DEF JournalInv, HostInv
  <2> HIDE DEF t
  <2>3. lock = Me(w)
    BY <2>1, LockOf DEF LockPcs
  <2>4. /\ IsSeq(slots) /\ slots # <<>> /\ slots[n].e = st[w].ev
        /\ \A i \in DOMAIN slots : /\ slots[i] = [e |-> slots[i].e, mark |-> slots[i].mark]
                                   /\ slots[i].mark = 2 => Contains(log, slots[i].e)
    BY <2>1 DEF JournalInv, DataInv, SnapshotInv
  <2>5. n \in DOMAIN slots
    BY <2>4, SeqShape
  <2> HIDE DEF n
  <2>6. /\ slots' = [i \in DOMAIN slots |-> slots'[i]] /\ DOMAIN slots' = DOMAIN slots
        /\ \A i \in DOMAIN slots : i # n => slots'[i] = slots[i]
        /\ slots'[n] = [slots[n] EXCEPT !.mark = 1]
    <3>1. slots \in [DOMAIN slots -> {slots[i] : i \in DOMAIN slots}]
      <4>1. DOMAIN slots = 1..Len(slots)
        BY <2>4, SeqShape
      <4> QED BY <2>4, <4>1, LenProperties DEF IsSeq
    <3> QED BY <2>1, <2>5, <3>1
  <2>7. slots'[n] = [e |-> slots[n].e, mark |-> 1]
    BY <2>4, <2>5, <2>6
  <2>8. slots'[n].mark = 1 /\ slots'[n].e = st[w].ev
    BY <2>4, <2>7
  <2>9. Marking
    <3> SUFFICES ASSUME NEW i \in DOMAIN slots
                 PROVE  /\ slots'[i] = [e |-> slots[i].e, mark |-> slots'[i].mark]
                        /\ slots[i].mark \in {1, 2} => slots'[i].mark \in {1, 2}
                        /\ slots'[i].mark = 2 => Contains(log, slots[i].e)
      BY <2>6 DEF Marking
    <3>1. CASE i = n
      BY <2>7, <2>8, <3>1
    <3>2. CASE i # n
      BY <2>4, <2>6, <3>2
    <3> QED BY <3>1, <3>2
  <2>10. st[w].ev \in Framed'
    BY <2>5, <2>6, <2>8 DEF Framed
  <2>11. t.ev \in Known /\ t.todo \subseteq Recorded /\ t.pc \notin {"staged", "framed"}
    BY <2>2, KnownParts DEF Onward, Free, LockPcs, JournalInv, DataInv, RunInv
  <2> QED BY <2>1, <2>2, <2>3, <2>9, <2>10, <2>11, Marks
<1> QED BY <1>1, <1>2

\* What an update of a snapshot may do to it: it keeps its shape, adds new
\* records only for events it names, and forgets none.
Updates(b, v, acked, dropped) ==
  /\ IsSnapshot(v)
  /\ \A x \in v.acks : (\E y \in b.acks : y.e = x.e) \/ x.e \in acked
  /\ \A e \in v.retired : e \in b.retired \/ e \in dropped
  /\ Records(b) \subseteq Records(v)

\* A put adds one entry, and takes an outcome's room from its reservation.
LEMMA PutUpdates ==
  ASSUME NEW b, IsSnapshot(b), NEW e, NEW v \in PutEntry(b, e)
  PROVE  Updates(b, v, {}, {}) /\ e \in Records(v) /\ Records(v) \subseteq Records(b) \cup {e}
<1> DEFINE new == [e |-> e, state |-> "pending",
                   res |-> IF e.kind = "operation-admitted" THEN Reserve ELSE 0]
<1>1. new.e = e /\ new = [e |-> new.e, state |-> new.state, res |-> new.res]
  OBVIOUS
<1>2. CASE e.kind # "operation"
  <2>1. v = [b EXCEPT !.entries = @ \cup {new}]
    BY <1>2 DEF PutEntry
  <2> HIDE DEF new
  <2>2. v.entries = b.entries \cup {new} /\ v.acks = b.acks /\ v.retired = b.retired
        /\ v = [entries |-> v.entries, acks |-> v.acks, retired |-> v.retired]
    BY <2>1 DEF IsSnapshot
  <2>3. IsSnapshot(v)
    BY <1>1, <2>2 DEF IsSnapshot
  <2> QED BY <1>1, <2>2, <2>3 DEF Updates, Records, Events
<1>3. CASE e.kind = "operation"
  <2> DEFINE less(y) == [y EXCEPT !.res = @ - 1]
  <2>1. PICK x \in Reserving(b, e) :
          v = [entries |-> {IF y = x THEN less(y) ELSE y : y \in b.entries} \cup {new},
               acks    |-> {IF y = x THEN less(y) ELSE y : y \in b.acks},
               retired |-> b.retired]
    BY <1>3 DEF PutEntry
  <2>2. \A y \in b.entries : /\ less(y).e = y.e
                             /\ less(y) = [e |-> less(y).e, state |-> less(y).state, res |-> less(y).res]
    BY DEF IsSnapshot
  <2>3. \A y \in b.acks : less(y).e = y.e /\ less(y) = [e |-> less(y).e, res |-> less(y).res]
    BY DEF IsSnapshot
  <2> DEFINE moved(y) == IF y = x THEN less(y) ELSE y
  <2>4. \A y \in b.entries : /\ moved(y).e = y.e
                             /\ moved(y) = [e |-> moved(y).e, state |-> moved(y).state, res |-> moved(y).res]
    BY <2>2 DEF IsSnapshot
  <2>5. \A y \in b.acks : moved(y).e = y.e /\ moved(y) = [e |-> moved(y).e, res |-> moved(y).res]
    BY <2>3 DEF IsSnapshot
  <2>6. /\ v.entries = {moved(y) : y \in b.entries} \cup {new}
        /\ v.acks = {moved(y) : y \in b.acks} /\ v.retired = b.retired
        /\ v = [entries |-> v.entries, acks |-> v.acks, retired |-> v.retired]
    BY <2>1
  <2> HIDE DEF moved, new
  <2>7. IsSnapshot(v)
    BY <1>1, <2>4, <2>5, <2>6 DEF IsSnapshot
  <2>8. Events(v.entries) = Events(b.entries) \cup {e} /\ Events(v.acks) = Events(b.acks)
    BY <1>1, <2>4, <2>5, <2>6 DEF Events
  <2>9. \A z \in v.acks : \E y \in b.acks : y.e = z.e
    BY <2>5, <2>6
  <2> QED BY <2>6, <2>7, <2>8, <2>9 DEF Updates, Records
<1> QED BY <1>2, <1>3

\* An entry that is acknowledged, retired or marked unknown.
LEMMA SettleUpdates ==
  ASSUME NEW b, IsSnapshot(b), NEW x \in b.entries
  PROVE  /\ Updates(b, AckEntry(b, x), {x.e}, {}) /\ Records(AckEntry(b, x)) \subseteq Records(b)
         /\ Updates(b, RetireEntry(b, x), {}, {x.e}) /\ Records(RetireEntry(b, x)) \subseteq Records(b)
         /\ Updates(b, UnknownEntry(b, x), {}, {}) /\ Records(UnknownEntry(b, x)) \subseteq Records(b)
<1>0. b = [entries |-> b.entries, acks |-> b.acks, retired |-> b.retired]
  BY DEF IsSnapshot
<1>1. ASSUME NEW v, v = AckEntry(b, x)
      PROVE  Updates(b, v, {x.e}, {}) /\ Records(v) \subseteq Records(b)
  <2> DEFINE a == [e |-> x.e, res |-> x.res]
  <2>1. /\ v.entries = b.entries \ {x} /\ v.acks = b.acks \cup {a} /\ v.retired = b.retired
        /\ v = [entries |-> v.entries, acks |-> v.acks, retired |-> v.retired]
    BY <1>0, <1>1 DEF AckEntry
  <2>2. a.e = x.e /\ a = [e |-> a.e, res |-> a.res]
    OBVIOUS
  <2> HIDE DEF a
  <2>3. IsSnapshot(v)
    BY <2>1, <2>2 DEF IsSnapshot
  <2>4. Records(b) \subseteq Records(v) /\ Records(v) \subseteq Records(b)
    BY <2>1, <2>2 DEF Records, Events
  <2> QED BY <2>1, <2>2, <2>3, <2>4 DEF Updates
<1>2. ASSUME NEW v, v = RetireEntry(b, x)
      PROVE  Updates(b, v, {}, {x.e}) /\ Records(v) \subseteq Records(b)
  <2>1. /\ v.entries = b.entries \ {x} /\ v.acks = b.acks /\ v.retired = b.retired \cup {x.e}
        /\ v = [entries |-> v.entries, acks |-> v.acks, retired |-> v.retired]
    BY <1>0, <1>2 DEF RetireEntry
  <2>2. IsSnapshot(v)
    BY <2>1 DEF IsSnapshot
  <2>3. Records(b) \subseteq Records(v) /\ Records(v) \subseteq Records(b)
    BY <2>1 DEF Records, Events
  <2> QED BY <2>1, <2>2, <2>3 DEF Updates
<1>3. ASSUME NEW v, v = UnknownEntry(b, x)
      PROVE  Updates(b, v, {}, {}) /\ Records(v) \subseteq Records(b)
  <2> DEFINE y == [x EXCEPT !.state = "unknown"]
  <2>1. /\ v.entries = (b.entries \ {x}) \cup {y} /\ v.acks = b.acks /\ v.retired = b.retired
        /\ v = [entries |-> v.entries, acks |-> v.acks, retired |-> v.retired]
    BY <1>0, <1>3 DEF UnknownEntry
  <2>2. y.e = x.e /\ y = [e |-> y.e, state |-> y.state, res |-> y.res]
    BY DEF IsSnapshot
  <2> HIDE DEF y
  <2>3. IsSnapshot(v)
    BY <2>1, <2>2 DEF IsSnapshot
  <2>4. Records(b) \subseteq Records(v) /\ Records(v) \subseteq Records(b)
    BY <2>1, <2>2 DEF Records, Events
  <2> QED BY <2>1, <2>3, <2>4 DEF Updates
<1> QED BY <1>1, <1>2, <1>3

\* An update that acknowledges what is in the source and retires what is dead
\* may be promoted.
LEMMA UpdatePromotable ==
  ASSUME JournalInv, NEW v, NEW acked, NEW dropped, Updates(pending, v, acked, dropped),
         \A e \in acked : Contains(log, e), \A e \in dropped : Dead(log, e)
  PROVE  Promotable(v)
BY DEF Updates, Promotable, Truthful, JournalInv, DataInv, SnapshotInv

\* A business event is journalled.
LEMMA PutBusinessStep ==
  ASSUME JournalInv, NEW w \in Writers, PutBusiness(w)
  PROVE  DataInv'
<1>1. lock \in {None, Me(w)} /\ UNCHANGED <<source, nextId>>
  BY LockOf DEF PutBusiness
<1>2. CASE ReserveReadable /\ PutEntry(pending, st[w].ev) # {}
  <2>1. PICK v \in PutEntry(pending, st[w].ev) : Save(w, v)
    BY <1>2 DEF PutBusiness
  <2>2. IsSnapshot(pending)
    BY DEF JournalInv, DataInv, SnapshotInv, Truthful
  <2>3. /\ Updates(pending, v, {}, {}) /\ st[w].ev \in Records(v)
        /\ Records(v) \subseteq Records(pending) \cup {st[w].ev}
    BY <2>2, PutUpdates
  <2>4. Promotable(v)
    BY <2>3, UpdatePromotable
  <2>5. Records(v) \subseteq Known
    BY <2>3, KnownParts
  <2> QED BY <1>1, <2>1, <2>3, <2>4, <2>5, Saves
<1>3. CASE ~(ReserveReadable /\ PutEntry(pending, st[w].ev) # {})
  <2>1. Throw(w) /\ UNCHANGED journal
    BY <1>3 DEF PutBusiness
  <2> QED BY <1>1, <2>1, Done
<1> QED BY <1>2, <1>3

\* An entry is marked unknown, or retired once the source moved past it.
LEMMA PutUnknownRetireStep ==
  ASSUME JournalInv, NEW w \in Writers, PutUnknown(w) \/ Retire(w)
  PROVE  DataInv'
<1>1. lock \in {None, Me(w)} /\ UNCHANGED <<source, nextId>> /\ st[w].job # "put"
  BY LockOf DEF PutUnknown, Retire, Holding
<1>2. IsSnapshot(pending)
  BY DEF JournalInv, DataInv, SnapshotInv, Truthful
<1>3. CASE Throw(w) /\ UNCHANGED journal
  BY <1>1, <1>3, Done
<1>4. ASSUME NEW x \in pending.entries, Save(w, UnknownEntry(pending, x))
      PROVE  DataInv'
  <2> DEFINE v == UnknownEntry(pending, x)
  <2>1. Updates(pending, v, {}, {}) /\ Records(v) \subseteq Records(pending)
    BY <1>2, SettleUpdates
  <2>2. Save(w, v)
    BY <1>4
  <2> HIDE DEF v
  <2>3. Promotable(v) /\ Records(v) \subseteq Known
    BY <2>1, UpdatePromotable, KnownParts
  <2> QED BY <1>1, <2>2, <2>3, Saves
<1>5. ASSUME NEW x \in pending.entries, Save(w, RetireEntry(pending, x)), NotCommitted(log, x.e)
      PROVE  DataInv'
  <2> DEFINE v == RetireEntry(pending, x)
  <2>1. Updates(pending, v, {}, {x.e}) /\ Records(v) \subseteq Records(pending)
    BY <1>2, SettleUpdates
  <2>2. Save(w, v)
    BY <1>5
  <2> HIDE DEF v
  <2>3. Dead(log, x.e)
    BY <1>5 DEF NotCommitted, Dead
  <2>4. Promotable(v) /\ Records(v) \subseteq Known
    BY <2>1, <2>3, UpdatePromotable, KnownParts
  <2> QED BY <1>1, <2>2, <2>4, Saves
<1>6. CASE PutUnknown(w)
  BY <1>3, <1>4, <1>6 DEF PutUnknown
<1>7. CASE Retire(w)
  BY <1>3, <1>5, <1>7 DEF Retire
<1> QED BY <1>6, <1>7

\* What the source has is acknowledged.
LEMMA AcknowledgeStep ==
  ASSUME JournalInv, NEW w \in Writers, Acknowledge(w)
  PROVE  DataInv'
<1> DEFINE e  == st[w].tgt
           xs == {x \in pending.entries : x.e = e}
           is == {i \in DOMAIN slots : slots[i].e = e}
<1>1. lock \in {None, Me(w)} /\ UNCHANGED <<source, nextId>> /\ st[w].job # "put"
  BY LockOf DEF Acknowledge, LockPcs
<1>2. IsSnapshot(pending)
  BY DEF JournalInv, DataInv, SnapshotInv, Truthful
<1>3. \/ (Throw(w) \/ Return(w)) /\ UNCHANGED journal
      \/ Contains(log, e) /\ \E x \in xs : Save(w, AckEntry(pending, x))
      \/ /\ Contains(log, e) /\ Return(w) /\ UNCHANGED <<pending, stage>>
         /\ slots' = [i \in DOMAIN slots |->
                        IF i \in is THEN [slots[i] EXCEPT !.mark = 2] ELSE slots[i]]
  BY DEF Acknowledge
<1>4. CASE (Throw(w) \/ Return(w)) /\ UNCHANGED journal
  BY <1>1, <1>4, Done
<1>5. CASE Contains(log, e) /\ \E x \in xs : Save(w, AckEntry(pending, x))
  <2>1. PICK x \in pending.entries : x.e = e /\ Save(w, AckEntry(pending, x))
    BY <1>5
  <2> DEFINE v == AckEntry(pending, x)
  <2>2. Updates(pending, v, {x.e}, {}) /\ Records(v) \subseteq Records(pending)
    BY <1>2, SettleUpdates
  <2>3. Save(w, v)
    BY <2>1
  <2> HIDE DEF v
  <2>4. Promotable(v) /\ Records(v) \subseteq Known
    BY <1>5, <2>1, <2>2, UpdatePromotable, KnownParts
  <2> QED BY <1>1, <2>3, <2>4, Saves
<1>6. CASE /\ Contains(log, e) /\ Return(w) /\ UNCHANGED <<pending, stage>>
           /\ slots' = [i \in DOMAIN slots |->
                          IF i \in is THEN [slots[i] EXCEPT !.mark = 2] ELSE slots[i]]
  <2>1. \A i \in DOMAIN slots : /\ slots[i] = [e |-> slots[i].e, mark |-> slots[i].mark]
                                /\ slots[i].mark = 2 => Contains(log, slots[i].e)
    BY DEF JournalInv, DataInv, SnapshotInv
  <2>2. Marking
    <3> SUFFICES ASSUME NEW i \in DOMAIN slots
                 PROVE  /\ slots'[i] = [e |-> slots[i].e, mark |-> slots'[i].mark]
                        /\ slots[i].mark \in {1, 2} => slots'[i].mark \in {1, 2}
                        /\ slots'[i].mark = 2 => Contains(log, slots[i].e)
      BY <1>6 DEF Marking
    <3>1. CASE i \in is
      <4>1. slots'[i] = [slots[i] EXCEPT !.mark = 2]
        BY <1>6, <3>1
      <4>2. slots'[i] = [e |-> slots[i].e, mark |-> 2]
        BY <2>1, <4>1
      <4>3. slots'[i].mark = 2 /\ slots[i].e = e
        BY <3>1, <4>2
      <4> QED BY <1>6, <4>2, <4>3
    <3>2. CASE i \notin is
      <4>1. slots'[i] = slots[i]
        BY <1>6, <3>2
      <4> QED BY <2>1, <4>1
    <3> QED BY <3>1, <3>2
  <2> DEFINE t == Returned(st[w])
  <2>3. To(w, t) /\ Onward(st[w], t) /\ t.pc # "submit"
    BY <1>1, <1>6, ReturnedOnward DEF Return, JournalInv, HostInv
  <2> HIDE DEF t
  <2>4. t.ev \in Known /\ t.todo \subseteq Recorded /\ t.pc \notin {"staged", "framed"}
    BY <2>3, KnownParts DEF Onward, Free, LockPcs, JournalInv, DataInv, RunInv
  <2> QED BY <1>1, <1>6, <2>2, <2>3, <2>4, Marks
<1> QED BY <1>3, <1>4, <1>5, <1>6

\* A rename replaces the snapshot by the stage: the writer's own one, or an
\* intact one that recovery found.
LEMMA PromoteStep ==
  ASSUME JournalInv, NEW w \in Writers, Promote(w)
  PROVE  DataInv'
<1> DEFINE t == Returned(st[w])
<1>1. /\ st[w].pc = "staged" /\ pending' = stage[1] /\ stage' = <<>> /\ To(w, t)
      /\ UNCHANGED <<source, slots, nextId>>
  BY DEF Promote, Return
<1>2. lock = Me(w)
  BY <1>1, LockOf DEF LockPcs
<1>3. Onward(st[w], t) /\ (t.pc = "submit" => st[w].job = "put" /\ t.ev = st[w].ev)
  BY ReturnedOnward DEF JournalInv, HostInv
<1> HIDE DEF t
<1>4. /\ stage # <<>> /\ Promotable(stage[1])
      /\ st[w].job = "put" => st[w].ev \in Records(stage[1])
  BY <1>1 DEF JournalInv, DataInv, SnapshotInv
<1>5. t.ev \in Known /\ t.todo \subseteq Recorded /\ t.pc \notin {"staged", "framed"}
  BY <1>3, KnownParts DEF Onward, Free, LockPcs, JournalInv, DataInv, RunInv
<1> QED BY <1>1, <1>2, <1>3, <1>4, <1>5, Promotes

\* Recovery promotes an intact stage and commits the frames behind it.
LEMMA RecoverStep ==
  ASSUME JournalInv, NEW w \in Writers, RecoverStage(w) \/ RecoverFrames(w)
  PROVE  DataInv'
<1>0. IsProc(st[w]) /\ lock = Me(w)
  BY LockOf DEF RecoverStage, RecoverFrames, Holding, AwaitingJobs, LockPcs, JournalInv, HostInv
<1>1. UNCHANGED <<source, nextId>> /\ UNCHANGED <<ref, log, inflight>>
  BY DEF RecoverStage, RecoverFrames, source
<1>2. Fewer
  BY <1>1, FewerSame DEF JournalInv, DataInv
<1>3. Onward(st[w], Call(st[w], "list", NoEvent)) /\ Call(st[w], "list", NoEvent).pc = "call"
  BY <1>0, CallOnward
<1>4. CASE RecoverStage(w)
  <2> DEFINE v == IF stage = <<>> THEN pending ELSE stage[1]
             t == [st[w] EXCEPT !.pc = "frames"]
  <2>1. \/ UNCHANGED journal /\ To(w, Call(st[w], "list", NoEvent))
        \/ UNCHANGED journal /\ Throw(w)
        \/ /\ v # Torn /\ pending' = v /\ stage' = <<>> /\ To(w, t) /\ UNCHANGED slots
    BY <1>4 DEF RecoverStage
  <2>2. CASE UNCHANGED journal /\ To(w, Call(st[w], "list", NoEvent))
    BY <1>1, <1>2, <1>3, <2>2, GoesOn
  <2>3. CASE UNCHANGED journal /\ Throw(w)
    BY <1>1, <2>3, Done
  <2>4. CASE v # Torn /\ pending' = v /\ stage' = <<>> /\ To(w, t) /\ UNCHANGED slots
    <3>1. CASE stage = <<>>
      <4>1. v = pending
        BY <3>1
      <4>2. To(w, [st[w] EXCEPT !.pc = "frames"])
        BY <2>4
      <4> HIDE DEF t, v
      <4>3. UNCHANGED journal
        BY <2>4, <3>1, <4>1 DEF journal
      <4> QED BY <1>1, <1>2, <4>2, <4>3, Goes
    <3>2. CASE stage # <<>>
      <4>0. stage[1] # Torn /\ pending' = stage[1]
        <5>1. v = stage[1]
          BY <3>2
        <5> HIDE DEF v
        <5> QED BY <2>4, <5>1
      <4>1. Promotable(stage[1]) /\ pending' = stage[1]
        BY <3>2, <4>0 DEF JournalInv, DataInv, SnapshotInv
      <4>2. t.pc = "frames" /\ t.ev = st[w].ev /\ t.todo = st[w].todo
        BY <1>0, ProcShape
      <4>3. t.ev \in Known /\ t.todo \subseteq Recorded
        BY <4>2, KnownParts DEF JournalInv, DataInv, RunInv
      <4>4. To(w, t) /\ stage' = <<>> /\ UNCHANGED slots
        BY <2>4
      <4> HIDE DEF t, v
      <4> QED BY <1>0, <1>1, <3>2, <4>1, <4>2, <4>3, <4>4, Promotes
    <3> QED BY <3>1, <3>2
  <2> QED BY <2>1, <2>2, <2>3, <2>4
<1>5. CASE RecoverFrames(w)
  <2> DEFINE t == Call(st[w], "list", NoEvent)
  <2>1. /\ To(w, t) /\ UNCHANGED <<pending, stage>>
        /\ slots' = [i \in DOMAIN slots |->
                       IF slots[i].mark = 0 THEN [slots[i] EXCEPT !.mark = 1] ELSE slots[i]]
    BY <1>5 DEF RecoverFrames
  <2>2. \A i \in DOMAIN slots : /\ slots[i] = [e |-> slots[i].e, mark |-> slots[i].mark]
                                /\ slots[i].mark = 2 => Contains(log, slots[i].e)
    BY DEF JournalInv, DataInv, SnapshotInv
  <2>3. Marking
    <3> SUFFICES ASSUME NEW i \in DOMAIN slots
                 PROVE  /\ slots'[i] = [e |-> slots[i].e, mark |-> slots'[i].mark]
                        /\ slots[i].mark \in {1, 2} => slots'[i].mark \in {1, 2}
                        /\ slots'[i].mark = 2 => Contains(log, slots[i].e)
      BY <2>1 DEF Marking
    <3>1. CASE slots[i].mark = 0
      <4>1. slots'[i] = [slots[i] EXCEPT !.mark = 1]
        BY <2>1, <3>1
      <4>2. slots'[i] = [e |-> slots[i].e, mark |-> 1]
        BY <2>2, <4>1
      <4>3. slots'[i].mark = 1
        BY <4>2
      <4> QED BY <4>2, <4>3
    <3>2. CASE slots[i].mark # 0
      <4>1. slots'[i] = slots[i]
        BY <2>1, <3>2
      <4> QED BY <2>2, <4>1
    <3> QED BY <3>1, <3>2
  <2> HIDE DEF t
  <2>4. t.ev \in Known /\ t.todo \subseteq Recorded /\ t.pc = "call"
    BY <1>3, KnownParts DEF Onward, JournalInv, DataInv, RunInv, t
  <2> QED BY <1>0, <1>1, <2>1, <2>3, <2>4, Marks
<1> QED BY <1>4, <1>5

\* The reconciliation replays only what is recorded.
LEMMA SettleStep ==
  ASSUME JournalInv, NEW w \in Writers, Settle(w)
  PROVE  DataInv'
<1>0. IsProc(st[w])
  BY DEF JournalInv, HostInv
<1>1. UNCHANGED <<journal, nextId>> /\ UNCHANGED <<ref, log, inflight>>
  BY DEF Settle, source
<1>2. Fewer
  BY <1>1, FewerSame DEF JournalInv, DataInv
<1>3. \A job, tgt : Onward(st[w], Call(st[w], job, tgt)) /\ Call(st[w], job, tgt).pc # "submit"
  BY <1>0, CallOnward
<1>4. Onward(st[w], Idle) /\ Idle.pc # "submit"
  BY IdleOnward
<1>5. \/ \E t : To(w, t) /\ Onward(st[w], t) /\ t.pc # "submit"
      \/ \E e \in st[w].todo : To(w, [st[w] EXCEPT !.pc = "submit", !.ev = e])
  <2>1. CASE st[w].todo = {}
    BY <1>3, <1>4, <2>1 DEF Settle
  <2>2. CASE st[w].todo # {}
    BY <1>3, <1>4, <2>2 DEF Settle
  <2> QED BY <2>1, <2>2
<1>6. CASE \E t : To(w, t) /\ Onward(st[w], t) /\ t.pc # "submit"
  BY <1>1, <1>2, <1>6, GoesOn
<1>7. CASE \E e \in st[w].todo : To(w, [st[w] EXCEPT !.pc = "submit", !.ev = e])
  <2>1. PICK e \in st[w].todo : To(w, [st[w] EXCEPT !.pc = "submit", !.ev = e])
    BY <1>7
  <2> DEFINE r == [st[w] EXCEPT !.pc = "submit"]
             t == [r EXCEPT !.ev = e]
  <2>2. IsProc(r) /\ r.pc = "submit" /\ r.todo = st[w].todo
    BY <1>0, ProcShape
  <2>3. To(w, t)
    BY <2>1
  <2> HIDE DEF r
  <2>4. t.pc = "submit" /\ t.ev = e /\ t.todo = st[w].todo
    BY <2>2 DEF IsProc
  <2> HIDE DEF t
  <2>5. e \in Recorded /\ st[w].todo \subseteq Recorded
    BY DEF JournalInv, DataInv, RunInv
  <2> QED BY <1>1, <1>2, <2>3, <2>4, <2>5, KnownParts, Quiet
<1> QED BY <1>5, <1>6, <1>7

\* An update is sent for a recorded event, on the revision it names.
LEMMA SubmitStep ==
  ASSUME JournalInv, NEW w \in Writers, Submit(w)
  PROVE  DataInv'
<1> DEFINE e == st[w].ev
<1>0. IsProc(st[w]) /\ e \in Recorded /\ IsSeq(log)
  BY DEF Submit, JournalInv, HostInv, DataInv, RunInv
<1>1. UNCHANGED <<ref, log, journal, nextId>>
  BY DEF Submit
<1>2. CASE Contains(log, e) \/ Revision(log) # e.prev
  <2>1. UNCHANGED inflight /\ \E t : To(w, t) /\ Onward(st[w], t) /\ t.pc # "submit"
    BY <1>0, <1>2, OutcomeOnward DEF Submit
  <2>2. Fewer
    BY <2>1, FewerSame DEF JournalInv, DataInv
  <2> QED BY <1>1, <2>1, <2>2, GoesOn
<1>3. CASE ~(Contains(log, e) \/ Revision(log) # e.prev)
  <2> DEFINE p == [by |-> Me(w), parent |-> ref, log |-> Append(log, e)]
             t == [st[w] EXCEPT !.pc = "wait"]
  <2>1. inflight' = inflight \cup {p} /\ To(w, t)
    BY <1>3 DEF Submit
  <2>2. IsUpdate(p) /\ p.parent = ref /\ p.log = Append(log, e)
    BY DEF IsUpdate
  <2>3. t.pc = "wait" /\ t.ev = e /\ t.todo = st[w].todo
    BY <1>0, ProcShape
  <2> HIDE DEF p, t
  <2>4. st'[w] = t /\ \A u \in Writers : u # w => st'[u] = st[u]
    BY <2>1, JMoved DEF JournalInv
  <2>5. Recorded' = Recorded
    BY <1>1 DEF Recorded, Framed, journal
  <2>6. RunInv'
    <3>1. \A u \in Writers : /\ st'[u].todo \subseteq Recorded'
                             /\ st'[u].pc = "submit" => st'[u].ev \in Recorded'
      BY <2>3, <2>4, <2>5 DEF JournalInv, DataInv, RunInv
    <3>2. MayLand(p, log, Recorded)
      BY <1>0, <1>3, <2>2 DEF MayLand
    <3>3. ref \in Nat /\ \A q \in inflight : /\ IsUpdate(q) /\ q.parent \in Nat /\ q.parent <= ref
                                             /\ q.parent = ref => MayLand(q, log, Recorded)
      BY DEF JournalInv, DataInv, RunInv
    <3>4. \A q \in inflight' : /\ IsUpdate(q) /\ q.parent \in Nat /\ q.parent <= ref'
                               /\ q.parent = ref' => MayLand(q, log', Recorded')
      BY <1>1, <2>1, <2>2, <2>5, <3>2, <3>3
    <3>5. \A i \in DOMAIN log' : log'[i].by.w \in Writers => log'[i] \in Recorded'
      BY <1>1, <2>5 DEF JournalInv, DataInv, RunInv
    <3>6. ref' \in Nat /\ IsSeq(log') /\ log' # <<>>
      BY <1>1 DEF JournalInv, DataInv, RunInv
    <3> QED BY <3>1, <3>4, <3>5, <3>6 DEF RunInv
  <2>7. SnapshotInv'
    BY <1>1, <2>3, <2>4 DEF journal, JournalInv, DataInv, SnapshotInv, Promotable
  <2>8. EventInv'
    <3>1. Known' \subseteq Known
      BY <1>1, <2>3, <2>4, KnownParts, KnownWithin DEF journal
    <3> QED BY <1>1, <3>1, DistinctKept DEF JournalInv, DataInv, EventInv
  <2> QED BY <2>6, <2>7, <2>8 DEF DataInv
<1> QED BY <1>2, <1>3

\* A process stops waiting or dies: its update may still land.
LEMMA LoseStep ==
  ASSUME JournalInv, NEW w \in Writers, Lose(w) \/ Crash(w)
  PROVE  DataInv'
<1>1. UNCHANGED <<ref, log, journal, nextId>> /\ inflight' \subseteq Unawaited(w)
  BY DEF Lose, Crash
<1>2. Fewer
  <2>1. \A q \in inflight : IsUpdate(q)
    BY DEF JournalInv, DataInv, RunInv
  <2>2. ASSUME NEW q, IsUpdate(q), NEW by
        PROVE  /\ IsUpdate([q EXCEPT !.by = by]) /\ [q EXCEPT !.by = by].parent = q.parent
               /\ [q EXCEPT !.by = by].log = q.log
    <3>1. [q EXCEPT !.by = by].parent = q.parent /\ [q EXCEPT !.by = by].log = q.log
      BY <2>2 DEF IsUpdate
    <3>2. IsUpdate([q EXCEPT !.by = by])
      BY <2>2 DEF IsUpdate
    <3> QED BY <3>1, <3>2
  <2>3. \A q \in Unawaited(w) : IsUpdate(q) /\ \E p \in inflight : q.parent = p.parent /\ q.log = p.log
    <3> SUFFICES ASSUME NEW p \in inflight, NEW q,
                        q = [p EXCEPT !.by = IF @ = Me(w) THEN None ELSE @]
                 PROVE  IsUpdate(q) /\ q.parent = p.parent /\ q.log = p.log
      BY DEF Unawaited
    <3> DEFINE b == IF p.by = Me(w) THEN None ELSE p.by
    <3>1. q = [p EXCEPT !.by = b]
      OBVIOUS
    <3> HIDE DEF b
    <3> QED BY <2>1, <2>2, <3>1
  <2> QED BY <1>1, <2>3 DEF Fewer
<1>3. CASE Lose(w)
  <2>1. To(w, [st[w] EXCEPT !.pc = "lost"])
    BY <1>3 DEF Lose
  <2> QED BY <1>1, <1>2, <2>1, Goes
<1>4. CASE Crash(w)
  BY <1>1, <1>2, <1>4, IdleOnward, GoesOn DEF Crash
<1> QED BY <1>3, <1>4

\* A recorded event that may land has an id of its own.
LEMMA LandsFresh ==
  ASSUME JournalInv, NEW f \in Known, f.prev = Revision(log), ~Contains(log, f)
  PROVE  Fresh(log, f)
<1>1. /\ \A x, y \in Known : x.id = y.id => x = y
      /\ NoEvent \in Known /\ \A i \in DOMAIN log : log[i] \in Known
  BY KnownParts DEF JournalInv, DataInv, EventInv, Distinct
<1>2. DOMAIN log = 1..Len(log) /\ Len(log) \in DOMAIN log /\ log # <<>>
  BY SeqShape DEF JournalInv, DataInv, RunInv
<1>3. \A i \in DOMAIN log : log[i].id # f.id
  BY <1>1, <1>2 DEF Contains
<1>4. f.id # NoRevision
  <2> SUFFICES ASSUME f.id = NoRevision PROVE FALSE
    OBVIOUS
  <2>1. NoEvent.id = NoRevision /\ NoEvent.prev = NoRevision
    BY DEF NoEvent, NoRevision
  <2>2. f = NoEvent
    BY <1>1, <2>1
  <2>3. log[Len(log)].id = NoRevision
    BY <1>2, <2>1, <2>2 DEF Revision, Last
  <2> QED BY <1>2, <1>3, <2>1, <2>2, <2>3
<1> QED BY <1>3, <1>4 DEF Fresh

\* The server decides an update.
LEMMA LandStep ==
  ASSUME JournalInv, NEW p \in inflight, Land(p)
  PROVE  HostInv' /\ DataInv'
<1>1. UNCHANGED <<journal, locks, inc, nextId>> /\ UNCHANGED <<lock, recovery>>
      /\ inflight' \subseteq inflight
  BY DEF Land, Outstanding, locks
<1>2. Fewer
  BY <1>1, FewerSame DEF JournalInv, DataInv
<1>3. SameWork /\ HostInv'
  <2>1. CASE Waiting(p)
    <3>1. PICK w \in Writers, pc \in {"accepted", "rejected"} : To(w, [st[w] EXCEPT !.pc = pc])
      BY <2>1 DEF Land, Waiting
    <3> DEFINE t == [st[w] EXCEPT !.pc = pc]
    <3>2. /\ IsProc(t) /\ t.pc = pc /\ t.ev = st[w].ev /\ t.todo = st[w].todo
      BY ProcShape DEF JournalInv, HostInv
    <3>3. To(w, t)
      BY <3>1
    <3> HIDE DEF t
    <3>4. st'[w] = t /\ \A u \in Writers : u # w => st'[u] = st[u]
      BY <3>3, JMoved DEF JournalInv
    <3>5. HostInv'
      BY <1>1, <3>2, <3>3, HostFree DEF JournalInv, Free, LockPcs
    <3> QED BY <3>2, <3>4, <3>5 DEF SameWork
  <2>2. CASE ~Waiting(p)
    <3>1. UNCHANGED st
      BY <2>2 DEF Land
    <3> QED BY <1>1, <3>1, HostStill DEF SameWork, JournalInv
  <2> QED BY <2>1, <2>2
<1>4. CASE FastForward(p)
  <2>1. p.parent = ref /\ ref' = ref + 1 /\ log' = p.log
    BY <1>4 DEF Land, FastForward
  <2>2. PICK f \in Recorded : p.log = Append(log, f) /\ f.prev = Revision(log) /\ ~Contains(log, f)
    BY <2>1 DEF MayLand, JournalInv, DataInv, RunInv
  <2>3. f \in Known
    BY KnownParts
  <2>4. Fresh(log, f)
    BY <2>2, <2>3, LandsFresh
  <2>5. SnapshotInv' /\ RunInv'
    BY <1>1, <1>2, <1>3, <2>1, <2>2, <2>4, Appends
  <2>6. EventInv'
    <3>1. IsSeq(log) /\ log' = Append(log, f)
      BY <2>1, <2>2 DEF JournalInv, DataInv, RunInv
    <3>2. /\ Len(log) \in Nat /\ DOMAIN log = 1..Len(log)
          /\ DOMAIN log' = 1..(Len(log) + 1) /\ log'[Len(log) + 1] = f
          /\ \A i \in DOMAIN log : log'[i] = log[i]
      BY <3>1, SeqShape, SeqAppend
    <3>3. \A i \in DOMAIN log' : log'[i] \in Known
      <4>1. \A i \in DOMAIN log' : i \in DOMAIN log \/ i = Len(log) + 1
        BY <3>2
      <4> QED BY <2>3, <3>2, <4>1, KnownParts
    <3>4. \A i \in DOMAIN log : \E j \in DOMAIN log' : log'[j].id = log[i].id
      BY <3>2
    <3>5. \A u \in Writers : st'[u].ev \in Known
      BY <1>3, KnownParts DEF SameWork
    <3>6. Known' \subseteq Known
      BY <1>1, <3>3, <3>5, KnownParts, KnownWithin DEF journal
    <3> QED BY <1>1, <3>4, <3>6, DistinctKept DEF JournalInv, DataInv, EventInv
  <2> QED BY <1>3, <2>5, <2>6 DEF DataInv
<1>5. CASE ~FastForward(p)
  <2>1. UNCHANGED <<ref, log>>
    BY <1>5 DEF Land
  <2> QED BY <1>1, <1>2, <1>3, <2>1, Passes
<1> QED BY <1>4, <1>5

\* Others move the branch, or append to the run.
LEMMA OthersStep ==
  ASSUME JournalInv, OtherRun \/ \E k \in {"operation-admitted", "resumed"} : OtherHost(k)
  PROVE  HostInv' /\ DataInv'
<1>1. UNCHANGED <<journal, locks, st, inc>> /\ UNCHANGED <<lock, recovery>>
      /\ inflight' \subseteq inflight
  BY DEF OtherRun, OtherHost, Outstanding, locks
<1>2. Fewer /\ SameWork /\ HostInv'
  BY <1>1, FewerSame, HostStill DEF SameWork, JournalInv, DataInv
<1>3. CASE OtherRun
  BY <1>1, <1>2, <1>3, Passes DEF OtherRun
<1>4. ASSUME NEW k, OtherHost(k) PROVE DataInv'
  <2> DEFINE f == [id |-> nextId, prev |-> Revision(log), gen |-> Generation(log),
                   kind |-> k, by |-> Foreign]
  <2>1. ref' = ref + 1 /\ nextId' = nextId + 1 /\ log' = Append(log, f)
    BY <1>4 DEF OtherHost
  <2>2. f.id = nextId /\ f.prev = Revision(log) /\ f.by.w \notin Writers
    BY JournalAssumption DEF Foreign
  <2> HIDE DEF f
  <2>3. IsSeq(log) /\ log # <<>>
    BY DEF JournalInv, DataInv, RunInv
  <2>4. nextId \in Nat /\ \A x \in Known : x.id \in Nat /\ x.id < nextId
    BY DEF JournalInv, DataInv, EventInv, Distinct
  <2>5. Fresh(log, f)
    <3>1. f.id # NoRevision
      BY <2>2, <2>4, KnownParts DEF NoEvent, NoRevision
    <3> QED BY <2>2, <2>4, <3>1, KnownParts DEF Fresh
  <2>6. SnapshotInv' /\ RunInv'
    BY <1>1, <1>2, <2>1, <2>2, <2>5, Appends
  <2>7. EventInv'
    <3>1. /\ Len(log) \in DOMAIN log /\ Len(log) \in Nat /\ DOMAIN log = 1..Len(log)
          /\ DOMAIN log' = 1..(Len(log) + 1) /\ log'[Len(log) + 1] = f
          /\ \A i \in DOMAIN log : log'[i] = log[i]
      BY <2>1, <2>3, SeqShape, SeqAppend
    <3>2. \E i \in DOMAIN log : log[i].id = f.prev
      BY <2>2, <2>3, <3>1 DEF Revision, Last
    <3>3. Distinct(Known \cup {f}, nextId', log)
      BY <2>1, <2>2, <3>2, DistinctGrown DEF JournalInv, DataInv, EventInv
    <3> DEFINE K == Known \cup {f}
    <3>4. Known \subseteq K /\ f \in K
      OBVIOUS
    <3> HIDE DEF K
    <3>5. \A i \in DOMAIN log' : log'[i] \in K
      <4>1. \A i \in DOMAIN log' : i \in DOMAIN log \/ i = Len(log) + 1
        BY <3>1
      <4> QED BY <3>1, <3>4, <4>1, KnownParts
    <3>6. Known' \subseteq K
      BY <1>1, <3>4, <3>5, KnownParts, KnownWithin DEF journal
    <3>7. \A i \in DOMAIN log : \E j \in DOMAIN log' : log'[j].id = log[i].id
      BY <3>1
    <3> QED BY <3>3, <3>6, <3>7, DistinctKept DEF EventInv, K
  <2> QED BY <2>6, <2>7 DEF DataInv
<1> QED BY <1>2, <1>3, <1>4

\* Every step keeps the invariant.
LEMMA JournalStep ==
  ASSUME JournalInv, [NextJournal]_journalVars
  PROVE  JournalInv'
<1>1. CASE UNCHANGED journalVars
  <2>1. UNCHANGED <<ref, log, inflight, pending, stage, slots, lock, recovery, st, inc, nextId>>
    BY <1>1 DEF journalVars
  <2>2. HostInv' /\ SameWork /\ Fewer
    BY <2>1, HostStill, FewerSame DEF JournalInv, DataInv, SameWork
  <2> QED BY <2>1, <2>2, Passes DEF JournalInv, journal
<1>2. ASSUME NEW w \in Writers,
             \/ \E k \in EventKinds : Begin(w, k)
             \/ \E m \in {"replay", "recover"} : Reconcile(w, m)
             \/ OpenLock(w) \/ LockRefused(w)
             \/ RecoverLock(w) \/ Unlink(w) \/ Promote(w) \/ List(w)
             \/ PutSafety(w) \/ CommitFrame(w) \/ PutBusiness(w) \/ PutUnknown(w)
             \/ Acknowledge(w) \/ Retire(w) \/ RecoverStage(w) \/ RecoverFrames(w)
             \/ Settle(w) \/ Submit(w) \/ Lose(w) \/ ReadBack(w)
             \/ ReadFails(w) \/ Crash(w)
      PROVE  JournalInv'
  <2>1. HostInv'
    BY <1>2, HostOutside, HostUnder, HostRecovers DEF JournalInv
  <2>2. DataInv'
    BY <1>2, BeginStep, OutsideStep, PromoteStep, ListStep, PutSafetyStep, PutBusinessStep,
       PutUnknownRetireStep, AcknowledgeStep, RecoverStep, SettleStep, SubmitStep, LoseStep
  <2> QED BY <2>1, <2>2 DEF JournalInv
<1>3. ASSUME NEW p \in inflight, Land(p) PROVE JournalInv'
  BY <1>3, LandStep DEF JournalInv
<1>4. CASE OtherRun \/ \E k \in {"operation-admitted", "resumed"} : OtherHost(k)
  BY <1>4, OthersStep DEF JournalInv
<1> QED BY <1>1, <1>2, <1>3, <1>4 DEF NextJournal

\* A started run satisfies it.
LEMMA JournalStarts == InitJournal => JournalInv
<1> SUFFICES ASSUME InitJournal PROVE JournalInv
  OBVIOUS
<1>1. PICK v \in Writers :
        /\ log = <<Started(v)>>
        /\ pending = [entries |-> {}, acks |-> {[e |-> Started(v), res |-> 0]}, retired |-> {}]
  BY DEF InitJournal
<1>2. /\ inc = [w \in Writers |-> 0] /\ ref = 1 /\ nextId = 2 /\ inflight = {}
      /\ stage = <<>> /\ slots = <<>> /\ lock = None /\ recovery = None
      /\ st = [w \in Writers |-> Idle]
  BY DEF InitJournal
<1> DEFINE s == Started(v)
<1>3. s.id = 1 /\ s.prev = NoRevision
  BY DEF Started
<1>4. NoEvent.id = 0 /\ NoEvent.prev = NoRevision
  BY DEF NoEvent, NoRevision
<1>5. log = <<s>> /\ pending.entries = {} /\ pending.acks = {[e |-> s, res |-> 0]}
      /\ pending.retired = {}
      /\ pending = [entries |-> pending.entries, acks |-> pending.acks, retired |-> pending.retired]
  BY <1>1
<1> HIDE DEF s
<1>6. IsSeq(log) /\ Len(log) = 1 /\ DOMAIN log = {1} /\ log[1] = s /\ log # <<>>
  <2>1. log \in Seq({s}) /\ Len(log) = 1 /\ DOMAIN log = {1} /\ log[1] = s
    BY <1>5
  <2>2. {log[i] : i \in DOMAIN log} = {s}
    BY <2>1
  <2> QED BY <1>5, <2>1, <2>2 DEF IsSeq
<1>7. \A w \in Writers : st[w] = Idle /\ IsProc(st[w])
  BY <1>2, IdleOnward DEF Onward, Free
<1>8. Idle.pc = "idle" /\ Idle.ev = NoEvent /\ Idle.todo = {}
  BY DEF Idle
<1>9. Records(pending) = {s} /\ Contains(log, s)
  BY <1>5, <1>6 DEF Records, Events, Contains
<1>10. HostInv
  <2>1. LockExclusive
    BY <1>7, <1>8 DEF LockExclusive
  <2>2. lock.inc \in Nat
    BY <1>2 DEF None
  <2> QED BY <1>2, <1>7, <1>8, <2>1, <2>2 DEF HostInv
<1>11. EventInv
  <2>1. Known \subseteq {NoEvent, s}
    BY <1>2, <1>6, <1>7, <1>8, <1>9 DEF Known
  <2>2. Distinct({NoEvent, s}, nextId, log)
    BY <1>2, <1>3, <1>4 DEF Distinct
  <2> QED BY <2>1, <2>2, DistinctKept DEF EventInv
<1>12. SnapshotInv
  <2>1. IsSnapshot(pending)
    BY <1>5 DEF IsSnapshot
  <2>2. Truthful(log, pending)
    BY <1>5, <1>9, <2>1 DEF Truthful
  <2>3. IsSeq(slots) /\ DOMAIN slots = {}
    BY <1>2 DEF IsSeq
  <2> QED BY <1>2, <1>7, <1>8, <2>2, <2>3 DEF SnapshotInv
<1>13. RunInv
  <2>1. s \in Recorded
    BY <1>9 DEF Recorded
  <2> QED BY <1>2, <1>6, <1>7, <1>8, <2>1 DEF RunInv
<1> QED BY <1>10, <1>11, <1>12, <1>13 DEF JournalInv, DataInv

\* What the journal satisfies from the start on.
LEMMA JournalInvariant == JournalSpec => []JournalInv
<1>1. JournalInv /\ [NextJournal]_journalVars => JournalInv'
  BY JournalStep
<1> QED BY <1>1, JournalStarts, PTL DEF JournalSpec

\* Write-ahead: whichever process dies between two steps, an event of this host
\* is in the source only if the journal holds it; for any processes, crashes and
\* capacities (journaled-run-store over pending-audit-journal).
THEOREM JournalIsAhead == JournalSpec => []WriteAhead
<1>1. JournalInv => WriteAhead
  <2> SUFFICES ASSUME JournalInv, NEW i \in DOMAIN log, log[i].by.w \in Writers
               PROVE  \/ log[i] \in Events(pending.entries) \cup Events(pending.acks)
                      \/ \E j \in DOMAIN slots : slots[j].e = log[i] /\ slots[j].mark \in {1, 2}
    BY DEF WriteAhead
  <2>1. log[i] \in Recorded
    BY DEF JournalInv, DataInv, RunInv
  <2>2. Contains(log, log[i])
    BY SeqShape DEF JournalInv, DataInv, RunInv, Contains
  <2>3. log[i] \notin pending.retired
    BY <2>2 DEF JournalInv, DataInv, SnapshotInv, Truthful, Dead
  <2> QED BY <2>1, <2>3 DEF Recorded, Records, Framed
<1> QED BY <1>1, JournalInvariant, PTL

\* The journal never settles an event wrongly, late requests included.
THEOREM JournalIsTruthful == JournalSpec => []SettledTruthfully
<1>1. JournalInv => SettledTruthfully
  BY DEF JournalInv, DataInv, SnapshotInv, Truthful, Dead, SettledTruthfully
<1> QED BY <1>1, JournalInvariant, PTL

\* Lock recovery never lets two live processes into the journal's directory.
THEOREM JournalLockExcludes == JournalSpec => []LockExclusive
<1>1. JournalInv => LockExclusive
  BY DEF JournalInv, HostInv
<1> QED BY <1>1, JournalInvariant, PTL

-----------------------------------------------------------------------------
(* The proof, for any roles, seats and changes.  What an advance needs is  *)
(* checked on what is handed in; that it is current rests on two facts     *)
(* about the rest: the contract is the candidate's, and no delivery was    *)
(* authored under a token the ledger has not given out.                    *)

Ledgers ==
  [rounds : Nat, frozen : BOOLEAN, token : Nat, unfreezes : Nat, blocker : BOOLEAN]

RoleInv ==
  /\ ledger \in Ledgers
  /\ contract = createAcceptanceContract(candidate)
  /\ \A delivery \in deliveries : delivery.token \in Nat /\ delivery.token <= ledger.token
  /\ AdvanceOnCurrentEvidence /\ FencedAfterFreeze

\* Until it advances, a handover has nothing to answer for.
LEMMA NotAdvanced ==
  ASSUME advanced = NoRecord, UNCHANGED advanced
  PROVE  AdvanceOnCurrentEvidence' /\ FencedAfterFreeze'
BY DEF AdvanceOnCurrentEvidence, FencedAfterFreeze

\* Tokens are only ever raised.
LEMMA TokensRaised ==
  ASSUME RoleInv, UNCHANGED <<deliveries, change, candidate, contract, advanced>>,
         ledger' \in Ledgers, ledger.token <= ledger'.token, advanced = NoRecord
  PROVE  RoleInv'
<1>1. ledger.token \in Nat /\ ledger'.token \in Nat
  BY DEF RoleInv, Ledgers
<1>2. \A delivery \in deliveries' :
        delivery.token \in Nat /\ delivery.token <= ledger'.token
  BY <1>1 DEF RoleInv
<1>3. (contract = createAcceptanceContract(candidate))'
  BY DEF RoleInv, createAcceptanceContract
<1>4. AdvanceOnCurrentEvidence' /\ FencedAfterFreeze'
  BY NotAdvanced
<1> QED BY <1>2, <1>3, <1>4 DEF RoleInv

\* Council evidence that verifies answers for every required seat and leaves
\* no objection open or put off.
LEMMA CouncilAnswers ==
  ASSUME NEW contr, NEW delivery, NEW supplied, NEW syn,
         verifyCouncil(contr, delivery, supplied, syn)
  PROVE  /\ contr.seats \subseteq {a.seat : a \in supplied}
         /\ ~(syn.disposition = "deferred-with-owner" /\ \E a \in syn.advice : a.objects)
<1>1. \A s \in contr.seats : \E a \in supplied : a.seat = s
  BY DEF verifyCouncil
<1>2. \A a \in syn.advice : a.objects =>
        syn.disposition \in {"accepted", "rejected-with-reason"}
  BY DEF verifyCouncil, unresolvedObjections
<1> QED BY <1>1, <1>2

\* An advance takes current evidence, authored under the current token.
LEMMA AdvanceIsCurrent ==
  ASSUME RoleInv, NEW d, NEW delivery \in deliveries, NEW supplied, NEW syn,
         AdvanceRoles(d, delivery, supplied, syn)
  PROVE  RoleInv'
<1> DEFINE contr == delivery.contract
           report == verifyRoleDelivery(contr, delivery, supplied, syn)
           class == classifyRoleCollaboration(change)
<1>1. /\ validateAcceptanceDecision(d) /\ d.report = report
      /\ d.state \in {"accepted", "accepted-with-conditions"}
      /\ ~openRework /\ ~ledger.frozen /\ delivery.token >= ledger.token
      /\ contr.cand = candidate /\ contr = contract
  BY DEF AdvanceRoles, verifyRoleAdvance, sameRun, fenced
<1>2. /\ UNCHANGED <<change, candidate, contract, deliveries, ledger>>
      /\ advanced' = [delivery |-> delivery, cand |-> candidate, token |-> ledger.token,
                  decision |-> d, frozen |-> ledger.frozen, open |-> openRework,
                  resolved |-> {a.seat : a \in supplied},
                  deferred |-> syn # NoRecord /\ syn.disposition = "deferred-with-owner"
                               /\ \E a \in syn.advice : a.objects]
  BY DEF AdvanceRoles
<1>3. /\ contr.class = class
      /\ contr.seats = IF councilRequired(class) THEN selectCouncilSeats ELSE {}
  BY <1>1 DEF RoleInv, createAcceptanceContract
<1>4. /\ d.by = Owner /\ d.report.pass
      /\ d.report.contract.class = "human-gated" => d.approved = d.report.delivery
  BY <1>1 DEF validateAcceptanceDecision
<1>5. report.delivery = delivery /\ report.contract = contr
  BY DEF verifyRoleDelivery
<1>6. /\ delivery.by = Producer /\ delivery.cand = contr.cand /\ delivery.criteria
      /\ councilRequired(contr.class) => verifyCouncil(contr, delivery, supplied, syn)
  BY <1>1, <1>4 DEF verifyRoleDelivery
<1> HIDE DEF report, class, contr
<1>7. councilRequired(class) =>
        /\ Required \ {Owner} \subseteq {a.seat : a \in supplied}
        /\ ~(syn.disposition = "deferred-with-owner" /\ \E a \in syn.advice : a.objects)
  BY <1>3, <1>6, CouncilAnswers DEF selectCouncilSeats
<1>8. AdvanceOnCurrentEvidence'
  <2>1. /\ advanced'.decision = d /\ advanced'.delivery = delivery
        /\ advanced'.cand = candidate /\ advanced'.resolved = {a.seat : a \in supplied}
        /\ advanced'.deferred =>
             syn.disposition = "deferred-with-owner" /\ \E a \in syn.advice : a.objects
    BY <1>2
  <2>2. delivery.contract = contr
    BY DEF contr
  <2>3. classifyRoleCollaboration(change)' = class
    BY <1>2 DEF class
  <2>4. class = "human-gated" => d.approved = delivery
    BY <1>1, <1>3, <1>4, <1>5
  <2> QED BY <1>1, <1>4, <1>5, <1>6, <1>7, <2>1, <2>2, <2>3, <2>4 DEF AdvanceOnCurrentEvidence
<1>9. FencedAfterFreeze'
  <2>1. delivery.token = ledger.token
    BY <1>1 DEF RoleInv, Ledgers
  <2> QED BY <1>1, <1>2, <2>1 DEF FencedAfterFreeze
<1>10. (contract = createAcceptanceContract(candidate))'
  BY <1>2 DEF RoleInv, createAcceptanceContract
<1> QED BY <1>2, <1>8, <1>9, <1>10 DEF RoleInv

\* Every step keeps the invariant.
LEMMA RoleStep ==
  ASSUME RoleInv, [NextRoles]_roleVars PROVE RoleInv'
<1>1. CASE UNCHANGED roleVars
  BY <1>1 DEF roleVars, RoleInv, createAcceptanceContract, AdvanceOnCurrentEvidence,
              FencedAfterFreeze
<1> SUFFICES ASSUME NextRoles, advanced = NoRecord PROVE RoleInv'
  BY <1>1 DEF NextRoles
<1>0. ledger \in Ledgers /\ ledger.token \in Nat /\ ledger.token <= ledger.token
  BY DEF RoleInv, Ledgers
<1>2. ASSUME UNCHANGED <<deliveries, change, candidate, contract, advanced, ledger>>
      PROVE  RoleInv'
  BY <1>0, <1>2, TokensRaised
<1>3. ASSUME NewCandidate PROVE RoleInv'
  <2>1. /\ (contract = createAcceptanceContract(candidate))' /\ UNCHANGED advanced
        /\ deliveries' = deliveries /\ ledger' = ledger
    BY <1>3 DEF NewCandidate, createAcceptanceContract
  <2>2. AdvanceOnCurrentEvidence' /\ FencedAfterFreeze'
    BY <2>1, NotAdvanced
  <2> QED BY <2>1, <2>2 DEF RoleInv
<1>4. ASSUME NEW role, NEW passing, Deliver(role, passing) PROVE RoleInv'
  <2> DEFINE delivery == [contract |-> contract, cand |-> candidate, by |-> role,
                          criteria |-> passing, token |-> ledger.token]
  <2>1. /\ deliveries' = deliveries \cup {delivery}
        /\ UNCHANGED <<change, candidate, contract, ledger, advanced>>
    BY <1>4 DEF Deliver
  <2>2. delivery.token \in Nat /\ delivery.token <= ledger.token
    BY DEF RoleInv, Ledgers
  <2> HIDE DEF delivery
  <2>3. (contract = createAcceptanceContract(candidate))'
    BY <2>1 DEF RoleInv, createAcceptanceContract
  <2>4. AdvanceOnCurrentEvidence' /\ FencedAfterFreeze'
    BY <2>1, NotAdvanced
  <2> QED BY <2>1, <2>2, <2>3, <2>4 DEF RoleInv
<1>5. ASSUME NEW delivery, NEW seat, NEW objecting,
             createCouncilAdvice(delivery, seat, objecting)
      PROVE  RoleInv'
  BY <1>2, <1>5 DEF createCouncilAdvice
<1>6. ASSUME NEW delivery, NEW bound, NEW disposition,
             createCouncilSynthesis(delivery, bound, disposition)
      PROVE  RoleInv'
  BY <1>2, <1>6 DEF createCouncilSynthesis
<1>7. ASSUME NEW role, NEW state, NEW delivery, NEW supplied, NEW syn, NEW semantic,
             NEW approved,
             createAcceptanceDecision(role, state, delivery, supplied, syn, semantic, approved)
      PROVE  RoleInv'
  BY <1>2, <1>7 DEF createAcceptanceDecision
<1>8. ASSUME NEW blocker \in BOOLEAN, createReworkRequest(blocker) PROVE RoleInv'
  <2>1. ledger' = [ledger EXCEPT !.rounds = ledger.rounds + 1,
                                 !.blocker = ledger.blocker \/ blocker]
    BY <1>8 DEF createReworkRequest, deriveReworkRound
  <2>2. ledger'.token = ledger.token
    BY <1>0, <2>1 DEF Ledgers
  <2>3. ledger' \in Ledgers
    <3> DEFINE rounds == ledger.rounds + 1
               blocked == ledger.blocker \/ blocker
    <3>1. rounds \in Nat /\ blocked \in BOOLEAN
      BY <1>0 DEF Ledgers
    <3>2. ledger' = [ledger EXCEPT !.rounds = rounds, !.blocker = blocked]
      BY <2>1
    <3> HIDE DEF rounds, blocked
    <3> QED BY <1>0, <3>1, <3>2 DEF Ledgers
  <2> QED BY <1>0, <1>8, <2>2, <2>3, TokensRaised DEF createReworkRequest
<1>9. ASSUME tripLedgerBreaker PROVE RoleInv'
  <2>1. ledger' \in Ledgers /\ ledger.token <= ledger'.token
    <3> DEFINE next == ledger.token + 1
    <3>1. next \in Nat /\ ledger.token <= next
      BY <1>0
    <3>2. ledger' = [ledger EXCEPT !.frozen = TRUE, !.token = next]
      BY <1>0, <1>9 DEF tripLedgerBreaker, Ledgers
    <3> HIDE DEF next
    <3> QED BY <1>0, <3>1, <3>2 DEF Ledgers
  <2> QED BY <1>9, <2>1, TokensRaised DEF tripLedgerBreaker
<1>10. ASSUME NEW actor, NEW resolution, NEW approval, NEW token,
              unfreezeLedger(actor, resolution, approval, token)
       PROVE  RoleInv'
  <2>1. ledger' \in Ledgers /\ ledger.token <= ledger'.token
    <3> DEFINE next == ledger.token + 1
               unfreezes == ledger.unfreezes + 1
    <3>1. next \in Nat /\ unfreezes \in Nat /\ ledger.token <= next
      BY <1>0 DEF Ledgers
    <3>2. ledger' = [ledger EXCEPT !.frozen = FALSE, !.token = next, !.unfreezes = unfreezes]
      BY <1>0, <1>10 DEF unfreezeLedger, Ledgers
    <3> HIDE DEF next, unfreezes
    <3> QED BY <1>0, <3>1, <3>2 DEF Ledgers
  <2> QED BY <1>10, <2>1, TokensRaised DEF unfreezeLedger
<1>11. CASE NewCandidate \/ tripLedgerBreaker
            \/ \E passing \in BOOLEAN : Deliver(Producer, passing) \/ Deliver(Owner, TRUE)
            \/ \E blocker \in BOOLEAN : createReworkRequest(blocker)
  BY <1>3, <1>4, <1>8, <1>9, <1>11
<1>12. CASE \E delivery \in deliveries, seat \in Seats, objecting \in BOOLEAN :
              createCouncilAdvice(delivery, seat, objecting)
  BY <1>5, <1>12
<1>13. CASE \E delivery \in deliveries, bound \in SUBSET advice,
              disposition \in {"accepted", "deferred-with-owner"} :
              createCouncilSynthesis(delivery, bound, disposition)
  BY <1>6, <1>13
<1>14. CASE \E delivery \in deliveries :
              createAcceptanceDecision(Owner, "rework-required", delivery, {}, NoRecord,
                                       FALSE, NoRecord)
  BY <1>7, <1>14
<1>15. CASE \E role \in {Owner, Producer}, delivery \in deliveries,
              state \in {"accepted", "accepted-with-conditions"}, semantic \in BOOLEAN,
              approved \in (IF humanGated(change) THEN deliveries ELSE {}) \cup {NoRecord} :
              \E syn \in MaybeSynthesis(delivery) :
                createAcceptanceDecision(role, state, delivery, Supplied(syn), syn, semantic,
                                         approved)
  BY <1>7, <1>15
<1>16. CASE \E actor \in {"steer.lead", "human", "dev.build"},
              resolution \in {"re-scope", "person-waiver"}, approval \in BOOLEAN,
              token \in 1..(ledger.token + 1) :
              unfreezeLedger(actor, resolution, approval, token)
  BY <1>10, <1>16
<1>17. CASE \E d \in decisions, delivery \in deliveries :
              \E syn \in syntheses \cup {NoRecord} :
                AdvanceRoles(d, delivery, Supplied(syn), syn)
  BY <1>17, AdvanceIsCurrent
<1> QED BY <1>11, <1>12, <1>13, <1>14, <1>15, <1>16, <1>17 DEF NextRoles

\* What the role records satisfy from the start on.
LEMMA RoleInvariant == RoleSpec => []RoleInv
<1>1. InitRoles => RoleInv
  <2> SUFFICES ASSUME InitRoles PROVE RoleInv
    OBVIOUS
  <2>1. ledger \in Ledgers /\ contract = createAcceptanceContract(candidate)
    BY DEF InitRoles, Ledgers
  <2> QED BY <2>1 DEF InitRoles, RoleInv, AdvanceOnCurrentEvidence, FencedAfterFreeze
<1>2. RoleInv /\ [NextRoles]_roleVars => RoleInv'
  BY RoleStep
<1> QED BY <1>1, <1>2, PTL DEF RoleSpec

\* A phase advances only on what the owner accepted for the candidate it is now,
\* with every required seat answered and a human's approval where the change
\* asks for one; for any roles, seats and changes, and whatever old records are
\* handed in.
THEOREM AdvanceHoldsUp == RoleSpec => []AdvanceOnCurrentEvidence
<1>1. RoleInv => AdvanceOnCurrentEvidence
  BY DEF RoleInv
<1> QED BY <1>1, RoleInvariant, PTL

\* A phase never advances on a receipt authored before the last freeze.
THEOREM FreezeFences == RoleSpec => []FencedAfterFreeze
<1>1. RoleInv => FencedAfterFreeze
  BY DEF RoleInv
<1> QED BY <1>1, RoleInvariant, PTL
==============================================================================
