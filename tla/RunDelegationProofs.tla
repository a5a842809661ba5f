------------------------ MODULE RunDelegationProofs ------------------------
(***************************************************************************)
(* What a run does outside itself happens at most once, and its record     *)
(* binds it: for every number of processes, operations and grants.         *)
(*                                                                         *)
(* A process sends a request only after the append that made the operation *)
(* submitted, and that append succeeds once.  What the run records as an   *)
(* outcome has been seen at the provider, so there is nothing left to      *)
(* send.  A process between admission and submission decides on the        *)
(* revision it read, and a revocation is an append that ends it.           *)
(***************************************************************************)
EXTENDS RunDelegation, FiniteSetTheorems, TLAPS

OpStates == {"none", "planned", "submitted", "unknown", "confirmed", "failed"}

\* The states of a run at its last phase that was never assured.
Runs ==
  [gen : Nat, epoch : Nat, owner : {1}, status : {"active", "paused", "completed"},
   phase : {LastPhase}, contract : {None}, cand : {None, 1}, obs : {{}}, rework : {{}},
   ops : [Ops -> OpStates], oracle : {None}, pkg : {None}, dev : {None}, ev : {{}},
   custody : {{}}, assured : {FALSE}]

\* Where a process is with a delegated operation or with a projection.
Delegating == {"admitted", "planned", "dispatch", "waiting", "receipt", "ask", "told", "lost"}
Publishing == {"publishing", "post", "posted"}
Resting == {"idle", "takeover"}
Controls == [pc : Delegating \cup Publishing \cup Resting, op : Ops \cup {None}, gen : Nat,
             fresh : BOOLEAN]

DelegationTypeOK ==
  /\ s \in Runs
  /\ grant \in [Grants -> [status : {"none", "active", "expired", "revoked"},
                           usedA : Nat, usedE : Nat, heldA : Nat, heldE : Nat]]
  /\ admitted \in [Ops -> Grants \cup {None}]
  /\ receipts \in [Ops -> Nat]
  /\ st \in [Procs -> Controls]
  /\ sent \in SUBSET Ops /\ landed \in [Ops -> Nat] /\ done \in SUBSET Ops

\* Each process works on an operation of its kind.
RoleInv ==
  \A p \in Procs : /\ st[p].pc \in Delegating => st[p].op \in Delegated
                   /\ st[p].pc \in Publishing => st[p].op \in Projections

\* Before its submission is recorded an operation has not been sent.
Unsent == {"none", "planned"}
Sending(p, o) == st[p].pc \in {"dispatch", "post"} /\ st[p].op = o

SendInv ==
  \A o \in Ops :
    /\ \A p \in Procs : Sending(p, o) =>
         o \notin sent /\ landed[o] = 0 /\ s.ops[o] \notin Unsent
    /\ \A p, q \in Procs : Sending(p, o) /\ Sending(q, o) => p = q
    /\ o \in sent => landed[o] = 0
    /\ landed[o] \in {0, 1}
    /\ o \in sent \/ landed[o] > 0 => s.ops[o] \notin Unsent

\* What is taken for an outcome is there.
ShownInv ==
  /\ \A o \in Ops : o \in done \/ s.ops[o] \in Outcomes => landed[o] = 1
  /\ \A p \in Procs : st[p].pc = "told" => landed[st[p].op] = 1

\* Who is about to submit was admitted under a grant that nobody revoked.
GrantInv ==
  \A p \in Procs : st[p].pc \in {"admitted", "planned"} =>
    \A h \in Ancestors(admitted[st[p].op]) : grant[h].status # "revoked"

DelegationInv == DelegationTypeOK /\ RoleInv /\ SendInv /\ ShownInv /\ GrantInv

-----------------------------------------------------------------------------
(* What the reducer does to such a run.                                    *)

\* An unassured run has nothing to refresh.
LEMMA RefreshNothing ==
  ASSUME NEW r \in Runs
  PROVE  Refresh(r) = r
<1>1. /\ {e \in r.ev : e = Binding(r)} = r.ev
      /\ (IF r.pkg = r.oracle THEN r.pkg ELSE None) = r.pkg
      /\ (IF \A c \in r.custody : c.at.gen = r.gen /\ c.at.epoch = r.epoch
          THEN r.custody ELSE {}) = r.custody
  BY DEF Runs
<1>2. [r EXCEPT !.ev = r.ev, !.pkg = r.pkg, !.custody = r.custody] = r
  BY DEF Runs
<1>3. Refresh(r) = [r EXCEPT !.ev = {e \in r.ev : e = Binding(r)},
                             !.pkg = IF r.pkg = r.oracle THEN r.pkg ELSE None,
                             !.custody = IF \A c \in r.custody : c.at.gen = r.gen
                                                                 /\ c.at.epoch = r.epoch
                                         THEN r.custody ELSE {}]
  BY DEF Refresh
<1> QED BY <1>1, <1>2, <1>3

\* An operation that moves leaves the others where they are.
LEMMA OperatedFacts ==
  ASSUME s \in Runs, NEW o \in Ops, NEW to \in OpStates, NEW a \in BOOLEAN, NEW v \in BOOLEAN,
         NEW r \in Operated(s, o, to, a, v)
  PROVE  /\ r \in Runs /\ r.gen = s.gen /\ r.ops = [s.ops EXCEPT ![o] = to]
         /\ to \in OperationSteps(s.ops[o], a, v)
<1> DEFINE x == [s EXCEPT !.ops[o] = to]
<1>1. r = Refresh(x) /\ to \in OperationSteps(s.ops[o], a, v)
  BY DEF Operated
<1>2. x \in Runs /\ x.gen = s.gen /\ x.ops = [s.ops EXCEPT ![o] = to]
  BY DEF Runs
<1> HIDE DEF x
<1> QED BY <1>1, <1>2, RefreshNothing

\* The provider's word confirms an operation that is still pending.
LEMMA ReconciledFacts ==
  ASSUME s \in Runs, NEW o \in Ops, NEW r \in Reconciled(o)
  PROVE  r \in Runs /\ r.gen = s.gen /\ r.ops = [s.ops EXCEPT ![o] = "confirmed"]
<1> DEFINE x == [s EXCEPT !.ops[o] = "confirmed"]
<1>1. r = Refresh(x)
  BY DEF Reconciled
<1>2. x \in Runs /\ x.gen = s.gen /\ x.ops = [s.ops EXCEPT ![o] = "confirmed"]
  BY DEF Runs, OpStates
<1> HIDE DEF x
<1> QED BY <1>1, <1>2, RefreshNothing

\* A revocation, a take-over, a pause and the end of the run move no operation.
LEMMA RevisedFacts ==
  ASSUME s \in Runs,
         NEW r \in {Refresh([s EXCEPT !.epoch = @ + 1])} \cup Resumed(s, s.owner, TRUE)
                   \cup Resumed(s, s.owner, FALSE) \cup Halted(s, "paused") \cup Completed(s)
  PROVE  r \in Runs /\ r.ops = s.ops
<1> DEFINE taken == [s EXCEPT !.owner = s.owner, !.gen = @ + 1, !.status = "active"]
           cut == [taken EXCEPT !.cand = None, !.obs = {}, !.custody = {}]
           late == [s EXCEPT !.epoch = @ + 1]
           over(x) == [s EXCEPT !.status = x]
<1>0. \A n \in Nat : [s EXCEPT !.epoch = n] \in Runs /\ [s EXCEPT !.epoch = n].ops = s.ops
  BY DEF Runs
<1>1. late \in Runs /\ late.ops = s.ops
  <2>1. s.epoch + 1 \in Nat
    BY DEF Runs
  <2> QED BY <1>0, <2>1
<1>2. taken \in Runs /\ taken.ops = s.ops
  <2>1. s.gen + 1 \in Nat /\ s.owner = 1
    BY DEF Runs
  <2>2. \A n \in Nat : LET t == [s EXCEPT !.owner = 1, !.gen = n, !.status = "active"]
                       IN  t \in Runs /\ t.ops = s.ops
    BY DEF Runs
  <2> QED BY <2>1, <2>2
<1>3. \A x \in {"paused", "completed"} : over(x) \in Runs /\ over(x).ops = s.ops
  BY DEF Runs
<1>4. cut \in Runs /\ cut.ops = s.ops
  <2> HIDE DEF taken
  <2> QED BY <1>2 DEF Runs
<1>5. r \in {Refresh(late), Refresh(taken), Refresh(cut)} \cup {Refresh(over(x)) : x \in {"paused", "completed"}}
  BY DEF Resumed, Halted, Completed
<1> HIDE DEF late, taken, cut, over
<1> QED BY <1>1, <1>2, <1>3, <1>4, <1>5, RefreshNothing

-----------------------------------------------------------------------------
(* What a command does to the processes.                                   *)

\* Process p goes to next; the others stay with what they do or give up.
Moved(p, next) ==
  /\ st' \in [Procs -> Controls] /\ st'[p] = next
  /\ \A q \in Procs \ {p} :
       st'[q].pc = "idle" \/ (st'[q].pc = st[q].pc /\ st'[q].op = st[q].op)

\* No other process is left that decided on the former revision.
Revised(p) == \A q \in Procs \ {p} : st'[q].pc \notin {"admitted", "planned"}

\* An append moves the process that makes it and sends those that decided on the
\* former revision back to read again.
LEMMA AppendMoves ==
  ASSUME DelegationTypeOK, NEW p \in Procs, NEW states, NEW next \in Controls,
         AppendState(p, states, next)
  PROVE  s' \in states /\ Moved(p, next) /\ Revised(p)
<1> DEFINE other(q) == IF st[q].pc = "idle" \/ st[q].pc \notin Rereads THEN Idle
                       ELSE [st[q] EXCEPT !.fresh = FALSE]
<1>1. st' = [q \in Procs |-> IF q = p THEN next ELSE other(q)] /\ s' \in states
  BY DEF AppendState
<1>2. ASSUME NEW q \in Procs
      PROVE  /\ other(q) \in Controls
             /\ other(q).pc = "idle" \/ (other(q).pc = st[q].pc /\ other(q).op = st[q].op)
             /\ other(q).pc \notin {"admitted", "planned"}
  <2>1. CASE other(q) = Idle
    <3>1. Idle \in Controls /\ Idle.pc = "idle"
      BY DEF Idle, Controls, Resting
    <3> QED BY <2>1, <3>1
  <2>2. CASE st[q].pc \in Rereads /\ other(q) = [st[q] EXCEPT !.fresh = FALSE]
    <3>1. st[q] \in Controls
      BY DEF DelegationTypeOK
    <3>2. other(q) \in Controls /\ other(q).pc = st[q].pc /\ other(q).op = st[q].op
      BY <2>2, <3>1 DEF Controls
    <3> QED BY <2>2, <3>2 DEF Rereads
  <2> QED BY <2>1, <2>2
<1> HIDE DEF other
<1> QED BY <1>1, <1>2 DEF Moved, Revised

\* A step without an append moves one process and leaves the run alone.
LEMMA StepMoves ==
  ASSUME DelegationTypeOK, NEW p \in Procs, NEW next \in Controls, Step(p, next)
  PROVE  Moved(p, next) /\ s' = s
BY DEF DelegationTypeOK, Step, Moved

\* The callers' control states, spelled out.
LEMMA ControlsFacts ==
  ASSUME s \in Runs
  PROVE  /\ Idle \in Controls /\ Idle.pc = "idle"
         /\ \A pc \in Delegating \cup Publishing \cup Resting, o \in Ops \cup {None} :
              At(pc, o) \in Controls /\ At(pc, o).pc = pc /\ At(pc, o).op = o
<1>1. s.gen \in Nat
  BY DEF Runs
<1> QED BY <1>1 DEF Idle, At, Controls, Resting

\* A command that sends nothing keeps the record of what is sent.
LEMMA CommandKeeps ==
  ASSUME DelegationInv, NEW p \in Procs, NEW next \in Controls, Moved(p, next),
         DelegationTypeOK', UNCHANGED world,
         next.pc \in Delegating => next.op \in Delegated,
         next.pc \in Publishing => next.op \in Projections,
         \A o \in Ops : s'.ops[o] \in Unsent => s.ops[o] \in Unsent,
         \A o \in Ops : s'.ops[o] \in Outcomes => landed[o] = 1,
         next.pc \in {"dispatch", "post"} =>
           s'.ops[next.op] \notin Unsent /\ (s.ops[next.op] \in Unsent \/ Sending(p, next.op)),
         next.pc = "told" => landed[next.op] = 1,
         Revised(p) \/ UNCHANGED <<grant, admitted>>,
         next.pc \in {"admitted", "planned"} =>
           \A h \in Ancestors(admitted'[next.op]) : grant'[h].status # "revoked"
  PROVE  DelegationInv'
<1>0. DelegationTypeOK /\ RoleInv /\ SendInv /\ ShownInv /\ GrantInv
  BY DEF DelegationInv
<1>1. /\ st'[p] = next
      /\ \A q \in Procs \ {p} :
           st'[q].pc = "idle" \/ (st'[q].pc = st[q].pc /\ st'[q].op = st[q].op)
  BY DEF Moved
<1>2. UNCHANGED <<sent, landed, done>>
  BY DEF world
<1>3. RoleInv'
  BY <1>0, <1>1 DEF RoleInv, Delegating, Publishing
<1>4. SendInv'
  <2> SUFFICES ASSUME NEW o \in Ops
               PROVE  /\ \A q \in Procs : Sending(q, o)' =>
                           o \notin sent /\ landed[o] = 0 /\ s'.ops[o] \notin Unsent
                      /\ \A q, r \in Procs : Sending(q, o)' /\ Sending(r, o)' => q = r
                      /\ o \in sent => landed[o] = 0
                      /\ landed[o] \in {0, 1}
                      /\ o \in sent \/ landed[o] > 0 => s'.ops[o] \notin Unsent
    BY <1>2 DEF SendInv
  <2>1. \A q \in Procs \ {p} : Sending(q, o)' => Sending(q, o)
    BY <1>1 DEF Sending
  <2>2. Sending(p, o)' => s'.ops[o] \notin Unsent /\ (s.ops[o] \in Unsent \/ Sending(p, o))
    BY <1>1 DEF Sending
  <2> HIDE DEF Sending
  <2> QED BY <1>0, <2>1, <2>2 DEF SendInv
<1>5. ShownInv'
  <2>1. \A o \in Ops : o \in done => landed[o] = 1
    BY <1>0 DEF ShownInv
  <2>2. \A q \in Procs : st'[q].pc = "told" => landed[st'[q].op] = 1
    BY <1>0, <1>1 DEF ShownInv
  <2> QED BY <1>2, <2>1, <2>2 DEF ShownInv
<1>6. GrantInv'
  <2> SUFFICES ASSUME NEW q \in Procs, st'[q].pc \in {"admitted", "planned"},
                      NEW h \in Ancestors(admitted'[st'[q].op])
               PROVE  grant'[h].status # "revoked"
    BY DEF GrantInv
  <2>1. CASE q = p
    BY <1>1, <2>1
  <2>2. CASE q # p
    <3>1. UNCHANGED <<grant, admitted>> /\ st'[q].pc = st[q].pc /\ st'[q].op = st[q].op
      BY <1>1, <2>2 DEF Revised
    <3> QED BY <1>0, <3>1 DEF GrantInv
  <2> QED BY <2>1, <2>2
<1> QED BY <1>3, <1>4, <1>5, <1>6 DEF DelegationInv

\* An operation never goes back to where it has not been sent.
LEMMA StepsForward ==
  ASSUME NEW from, NEW a, NEW v, NEW to \in OperationSteps(from, a, v)
  PROVE  /\ to # "none" /\ (to = "planned" => from = "none")
         /\ to = "submitted" => from = "planned"
<1>1. CASE from = "none"
  BY <1>1 DEF OperationSteps
<1>2. CASE from = "planned"
  BY <1>2 DEF OperationSteps
<1>3. CASE from = "submitted"
  BY <1>3 DEF OperationSteps
<1>4. CASE from = "unknown"
  BY <1>4 DEF OperationSteps
<1>5. CASE from \notin {"none", "planned", "submitted", "unknown"}
  BY <1>5 DEF OperationSteps
<1> QED BY <1>1, <1>2, <1>3, <1>4, <1>5

\* A command that moves one operation.
LEMMA OperationKeeps ==
  ASSUME DelegationInv, NEW p \in Procs, NEW next \in Controls, NEW o \in Ops,
         NEW to \in OpStates, NEW a \in BOOLEAN, NEW v \in BOOLEAN,
         AppendState(p, Operated(s, o, to, a, v), next),
         UNCHANGED <<grant, admitted, receipts, world>>,
         to \in Outcomes => landed[o] = 1,
         next.pc \in Delegating => next.op \in Delegated,
         next.pc \in Publishing => next.op \in Projections,
         next.pc \in {"dispatch", "post"} => next.op = o /\ to = "submitted",
         next.pc # "told",
         next.pc \in {"admitted", "planned"} =>
           st[p].pc \in {"admitted", "planned"} /\ next.op = st[p].op
  PROVE  DelegationInv'
<1>0. DelegationTypeOK /\ SendInv /\ ShownInv /\ GrantInv
  BY DEF DelegationInv
<1>1. s' \in Operated(s, o, to, a, v) /\ Moved(p, next) /\ Revised(p)
  BY <1>0, AppendMoves
<1>2. /\ s' \in Runs /\ s'.ops = [s.ops EXCEPT ![o] = to]
      /\ to \in OperationSteps(s.ops[o], a, v)
  BY <1>0, <1>1, OperatedFacts DEF DelegationTypeOK
<1>3. DelegationTypeOK'
  BY <1>0, <1>1, <1>2 DEF DelegationTypeOK, Moved, world
<1>4. s.ops \in [Ops -> OpStates]
  BY <1>0 DEF DelegationTypeOK, Runs
<1>5. s'.ops[o] = to /\ \A q \in Ops \ {o} : s'.ops[q] = s.ops[q]
  BY <1>2, <1>4
<1>6. to # "none" /\ (to = "planned" => s.ops[o] = "none") /\ (to = "submitted" => s.ops[o] = "planned")
  BY <1>2, StepsForward
<1>7. \A q \in Ops : s'.ops[q] \in Unsent => s.ops[q] \in Unsent
  BY <1>5, <1>6 DEF Unsent
<1>8. \A q \in Ops : s'.ops[q] \in Outcomes => landed[q] = 1
  BY <1>0, <1>5 DEF ShownInv
<1>9. next.pc \in {"dispatch", "post"} =>
        s'.ops[next.op] \notin Unsent /\ (s.ops[next.op] \in Unsent \/ Sending(p, next.op))
  BY <1>5, <1>6 DEF Unsent
<1>10. next.pc \in {"admitted", "planned"} =>
         \A h \in Ancestors(admitted'[next.op]) : grant'[h].status # "revoked"
  BY <1>0 DEF GrantInv
<1>11. UNCHANGED world
  OBVIOUS
<1> QED BY <1>1, <1>3, <1>7, <1>8, <1>9, <1>10, <1>11, CommandKeeps

\* A command that moves none, and is not about to send anything.
LEMMA QuietKeeps ==
  ASSUME DelegationInv, NEW p \in Procs, NEW next \in Controls, Moved(p, next),
         DelegationTypeOK', s'.ops = s.ops, UNCHANGED world,
         next.pc \in Delegating => next.op \in Delegated,
         next.pc \in Publishing => next.op \in Projections,
         next.pc \in {"dispatch", "post"} => Sending(p, next.op),
         next.pc = "told" => landed[next.op] = 1,
         Revised(p) \/ UNCHANGED <<grant, admitted>>,
         next.pc \in {"admitted", "planned"} =>
           \A h \in Ancestors(admitted'[next.op]) : grant'[h].status # "revoked"
  PROVE  DelegationInv'
<1>0. DelegationTypeOK /\ RoleInv /\ SendInv /\ ShownInv
  BY DEF DelegationInv
<1>1. ASSUME next.pc \in {"dispatch", "post"} PROVE next.op \in Ops /\ s.ops[next.op] \notin Unsent
  <2>1. Sending(p, next.op) /\ next.op \in Ops
    BY <1>0, <1>1 DEF RoleInv, Delegating, Publishing, Sending, Delegated, Projections
  <2> HIDE DEF Sending
  <2> QED BY <1>0, <2>1 DEF SendInv
<1>2. \A o \in Ops : s'.ops[o] \in Outcomes => landed[o] = 1
  BY <1>0 DEF ShownInv
<1> QED BY <1>1, <1>2, CommandKeeps

-----------------------------------------------------------------------------
(* One lemma per group of actions.                                         *)

\* A charged or a held budget is a record of a grant still.
LEMMA GrantsKeep ==
  ASSUME DelegationInv, NEW p \in Procs, NEW g \in Grants,
         IssueGrant(p, g) \/ RevokeGrant(p, g)
  PROVE  DelegationInv'
<1>0. DelegationTypeOK /\ Idle \in Controls /\ Idle.pc = "idle"
  BY ControlsFacts DEF DelegationInv, DelegationTypeOK
<1>1. CASE IssueGrant(p, g)
  <2>1. AppendState(p, {s}, Idle) /\ UNCHANGED <<admitted, receipts, world>>
    BY <1>1 DEF IssueGrant
  <2>2. s' = s /\ Moved(p, Idle) /\ Revised(p)
    BY <1>0, <2>1, AppendMoves
  <2>3. grant' \in [Grants -> [status : {"none", "active", "expired", "revoked"},
                               usedA : Nat, usedE : Nat, heldA : Nat, heldE : Nat]]
    <3>1. MaxAttempts[g] \in Nat /\ MaxEffects[g] \in Nat
      BY DelegationAssumption
    <3>2. ASSUME NEW h \in Grants, NEW m \in Nat, NEW n \in Nat
          PROVE  [grant[h] EXCEPT !.heldA = @ + m, !.heldE = @ + n] \in
                   [status : {"none", "active", "expired", "revoked"},
                    usedA : Nat, usedE : Nat, heldA : Nat, heldE : Nat]
      <4>1. grant[h].heldA + m \in Nat /\ grant[h].heldE + n \in Nat
        BY <1>0 DEF DelegationTypeOK
      <4>2. \A i, j \in Nat : [grant[h] EXCEPT !.heldA = i, !.heldE = j] \in
                   [status : {"none", "active", "expired", "revoked"},
                    usedA : Nat, usedE : Nat, heldA : Nat, heldE : Nat]
        BY <1>0 DEF DelegationTypeOK
      <4> QED BY <4>1, <4>2
    <3>3. \A h \in Grants : [grant[h] EXCEPT !.status = "active"] \in
                   [status : {"none", "active", "expired", "revoked"},
                    usedA : Nat, usedE : Nat, heldA : Nat, heldE : Nat]
      BY <1>0 DEF DelegationTypeOK
    <3>4. \A h \in Grants : grant[h] \in
                   [status : {"none", "active", "expired", "revoked"},
                    usedA : Nat, usedE : Nat, heldA : Nat, heldE : Nat]
      BY <1>0 DEF DelegationTypeOK
    <3> QED BY <1>1, <3>1, <3>2, <3>3, <3>4 DEF IssueGrant
  <2>4. DelegationTypeOK'
    BY <1>0, <2>1, <2>2, <2>3 DEF DelegationTypeOK, Moved, world
  <2> QED BY <1>0, <2>1, <2>2, <2>4, QuietKeeps DEF Delegating, Publishing
<1>2. CASE RevokeGrant(p, g)
  <2>1. /\ AppendState(p, {Refresh([s EXCEPT !.epoch = @ + 1])}, Idle)
        /\ UNCHANGED <<admitted, receipts, world>>
        /\ grant' = [grant EXCEPT ![g].status = "revoked"]
    BY <1>2 DEF RevokeGrant
  <2>2. s' = Refresh([s EXCEPT !.epoch = @ + 1]) /\ Moved(p, Idle) /\ Revised(p)
    BY <1>0, <2>1, AppendMoves
  <2>3. s' \in Runs /\ s'.ops = s.ops
    BY <1>0, <2>2, RevisedFacts DEF DelegationTypeOK
  <2>4. DelegationTypeOK'
    BY <1>0, <2>1, <2>2, <2>3 DEF DelegationTypeOK, Moved, world
  <2> QED BY <1>0, <2>1, <2>2, <2>3, <2>4, QuietKeeps DEF Delegating, Publishing
<1> QED BY <1>1, <1>2

\* An admission finds its grant and all above it active.
LEMMA AdmitKeeps ==
  ASSUME DelegationInv, NEW p \in Procs, NEW g \in Grants, NEW o \in Delegated,
         AdmitOperation(p, o, g)
  PROVE  DelegationInv'
<1> DEFINE next == At("admitted", o)
<1>0. DelegationTypeOK /\ o \in Ops
  BY DEF DelegationInv, Delegated
<1>1. next \in Controls /\ next.pc = "admitted" /\ next.op = o
  BY <1>0, ControlsFacts DEF DelegationTypeOK, Delegating
<1>2. AppendState(p, {s}, next) /\ UNCHANGED <<receipts, world>> /\ OperationAdmitted(o, g)
  BY DEF AdmitOperation
<1> HIDE DEF next
<1>3. s' = s /\ Moved(p, next) /\ Revised(p)
  BY <1>0, <1>1, <1>2, AppendMoves
<1>4. /\ admitted' = [admitted EXCEPT ![o] = g]
      /\ grant' = [grant EXCEPT ![g].usedA = @ + 1,
                                ![g].usedE = IF External(o) THEN @ + 1 ELSE @]
  BY <1>2 DEF OperationAdmitted
<1>5. /\ grant' \in [Grants -> [status : {"none", "active", "expired", "revoked"},
                                usedA : Nat, usedE : Nat, heldA : Nat, heldE : Nat]]
      /\ \A h \in Grants : grant'[h].status = grant[h].status
  <2>1. \A i, j \in Nat : LET n == [grant EXCEPT ![g].usedA = i, ![g].usedE = j] IN
           /\ n \in [Grants -> [status : {"none", "active", "expired", "revoked"},
                                usedA : Nat, usedE : Nat, heldA : Nat, heldE : Nat]]
           /\ \A h \in Grants : n[h].status = grant[h].status
    BY <1>0 DEF DelegationTypeOK
  <2>2. /\ grant[g].usedA + 1 \in Nat
        /\ (IF External(o) THEN grant[g].usedE + 1 ELSE grant[g].usedE) \in Nat
    BY <1>0 DEF DelegationTypeOK
  <2>3. grant' = [grant EXCEPT ![g].usedA = grant[g].usedA + 1,
                    ![g].usedE = IF External(o) THEN grant[g].usedE + 1 ELSE grant[g].usedE]
    BY <1>0, <1>4 DEF DelegationTypeOK
  <2> QED BY <2>1, <2>2, <2>3
<1>6. DelegationTypeOK'
  BY <1>0, <1>2, <1>3, <1>4, <1>5 DEF DelegationTypeOK, Moved, world
<1>7. \A h \in Ancestors(admitted'[o]) : grant'[h].status # "revoked"
  <2>1. admitted'[o] = g
    BY <1>0, <1>4 DEF DelegationTypeOK
  <2>2. \A h \in Ancestors(g) : h \in Grants /\ grant[h].status = "active"
    BY <1>2 DEF OperationAdmitted, ResolveGrant, Live, Ancestors
  <2> QED BY <1>5, <2>1, <2>2
<1> QED BY <1>1, <1>2, <1>3, <1>6, <1>7, QuietKeeps DEF Delegating, Publishing

\* A grant that expires was not revoked.
LEMMA ExpireKeeps ==
  ASSUME DelegationInv, NEW g \in Grants, Expire(g)
  PROVE  DelegationInv'
<1>0. DelegationTypeOK /\ RoleInv /\ SendInv /\ ShownInv /\ GrantInv
  BY DEF DelegationInv
<1>1. grant' = [grant EXCEPT ![g].status = "expired"]
      /\ UNCHANGED <<s, admitted, receipts, st, world>>
  BY DEF Expire
<1>2. DelegationTypeOK'
  BY <1>0, <1>1 DEF DelegationTypeOK, world
<1>3. RoleInv' /\ SendInv' /\ ShownInv'
  BY <1>0, <1>1 DEF RoleInv, SendInv, ShownInv, world, Sending
<1>4. \A h \in Grants : grant[h].status # "revoked" => grant'[h].status # "revoked"
  BY <1>0, <1>1 DEF DelegationTypeOK
<1>5. GrantInv'
  BY <1>0, <1>1, <1>4 DEF GrantInv, Ancestors
<1> QED BY <1>2, <1>3, <1>5 DEF DelegationInv

\* Who acts on an operation acts on one of the run's.
LEMMA RoleFacts ==
  ASSUME DelegationInv, NEW p \in Procs
  PROVE  /\ st[p] \in Controls
         /\ st[p].pc \in Delegating => st[p].op \in Delegated /\ st[p].op \in Ops
         /\ st[p].pc \in Publishing => st[p].op \in Projections /\ st[p].op \in Ops
BY DEF DelegationInv, DelegationTypeOK, RoleInv, Delegated, Projections

\* From admission to submission.
LEMMA SubmitKeeps ==
  ASSUME DelegationInv, NEW p \in Procs,
         PlanOperation(p) \/ SubmitOperation(p) \/ LostOperation(p)
  PROVE  DelegationInv'
<1> DEFINE o == st[p].op
<1>0. /\ s \in Runs /\ {"planned", "submitted", "unknown"} \subseteq OpStates
      /\ UNCHANGED <<grant, admitted, receipts, world>>
  BY DEF DelegationInv, DelegationTypeOK, OpStates, PlanOperation, SubmitOperation, LostOperation
<1>1. o \in Ops /\ o \in Delegated
  BY RoleFacts DEF PlanOperation, SubmitOperation, LostOperation, Continue, Delegating
<1>2. \A pc \in {"planned", "dispatch", "ask"} :
        At(pc, o) \in Controls /\ At(pc, o).pc = pc /\ At(pc, o).op = o
  BY <1>0, <1>1, ControlsFacts DEF Delegating
<1>3. CASE PlanOperation(p)
  <2>1. /\ AppendState(p, Operated(s, o, "planned", TRUE, FALSE), At("planned", o))
        /\ st[p].pc = "admitted"
    BY <1>3 DEF PlanOperation, Continue
  <2> HIDE DEF o
  <2> QED BY <1>0, <1>1, <1>2, <2>1, OperationKeeps DEF o, Publishing, Outcomes
<1>4. CASE SubmitOperation(p)
  <2>1. AppendState(p, Operated(s, o, "submitted", TRUE, FALSE), At("dispatch", o))
    BY <1>4 DEF SubmitOperation
  <2> HIDE DEF o
  <2> QED BY <1>0, <1>1, <1>2, <2>1, OperationKeeps DEF Publishing, Outcomes
<1>5. CASE LostOperation(p)
  <2>1. AppendState(p, Operated(s, o, "unknown", TRUE, FALSE), At("ask", o))
    BY <1>5 DEF LostOperation
  <2> HIDE DEF o
  <2> QED BY <1>0, <1>1, <1>2, <2>1, OperationKeeps DEF Publishing, Outcomes
<1> QED BY <1>3, <1>4, <1>5

\* A request is sent by the one process that submitted it.
LEMMA SendKeeps ==
  ASSUME DelegationInv, NEW p \in Procs, Dispatch(p) \/ Post(p)
  PROVE  DelegationInv'
<1> DEFINE o == st[p].op
           next == [st[p] EXCEPT !.pc = IF @ = "dispatch" THEN "waiting" ELSE "posted"]
<1>0. DelegationTypeOK /\ RoleInv /\ SendInv /\ ShownInv /\ GrantInv
  BY DEF DelegationInv
<1>1. /\ o \in Ops /\ st[p] \in Controls /\ st[p].pc \in {"dispatch", "post"}
      /\ st[p].pc = "dispatch" => o \in Delegated
      /\ st[p].pc = "post" => o \in Projections
  BY RoleFacts DEF Dispatch, Post, Delegating, Publishing
<1>2. /\ next \in Controls /\ next.op = o
      /\ next.pc = IF st[p].pc = "dispatch" THEN "waiting" ELSE "posted"
  BY <1>1 DEF Controls, Delegating, Publishing
<1>3. Step(p, next) /\ sent' = sent \cup {o} /\ UNCHANGED <<grant, admitted, receipts, landed, done>>
  BY <1>1 DEF Dispatch, Post
<1> HIDE DEF o, next
<1>4. s' = s /\ st' \in [Procs -> Controls] /\ st'[p] = next /\ \A q \in Procs \ {p} : st'[q] = st[q]
  BY <1>0, <1>2, <1>3 DEF Step, DelegationTypeOK
<1>5. DelegationTypeOK'
  BY <1>0, <1>1, <1>3, <1>4 DEF DelegationTypeOK
<1>6. RoleInv'
  BY <1>0, <1>1, <1>2, <1>4 DEF RoleInv, Delegating, Publishing
<1>7. SendInv'
  <2>1. Sending(p, o)
    BY <1>1 DEF Sending, o
  <2>2. \A q \in Procs, a \in Ops : Sending(q, a)' => q # p /\ Sending(q, a)
    BY <1>2, <1>4 DEF Sending
  <2>3. o \notin sent /\ landed[o] = 0 /\ s.ops[o] \notin Unsent /\ \A q \in Procs : Sending(q, o) => q = p
    BY <1>0, <1>1, <2>1 DEF SendInv
  <2> SUFFICES ASSUME NEW a \in Ops
               PROVE  /\ \A q \in Procs : Sending(q, a)' =>
                           a \notin sent' /\ landed[a] = 0 /\ s.ops[a] \notin Unsent
                      /\ \A q, r \in Procs : Sending(q, a)' /\ Sending(r, a)' => q = r
                      /\ a \in sent' => landed[a] = 0
                      /\ landed[a] \in {0, 1}
                      /\ a \in sent' \/ landed[a] > 0 => s.ops[a] \notin Unsent
    BY <1>3, <1>4 DEF SendInv
  <2> HIDE DEF Sending
  <2> QED BY <1>0, <1>3, <2>2, <2>3 DEF SendInv
<1>8. ShownInv'
  BY <1>0, <1>2, <1>3, <1>4 DEF ShownInv
<1>9. GrantInv'
  BY <1>0, <1>2, <1>3, <1>4 DEF GrantInv
<1> QED BY <1>5, <1>6, <1>7, <1>8, <1>9 DEF DelegationInv

\* A request lands once, or is lost.
LEMMA WorldKeeps ==
  ASSUME DelegationInv, NEW o \in Ops, Land(o) \/ Lose(o)
  PROVE  DelegationInv'
<1>0. DelegationTypeOK /\ RoleInv /\ SendInv /\ ShownInv /\ GrantInv
  BY DEF DelegationInv
<1>1. o \in sent /\ sent' = sent \ {o} /\ UNCHANGED <<s, grant, admitted, receipts, st>>
  BY DEF Land, Lose
<1>2. landed[o] = 0 /\ landed \in [Ops -> Nat]
  BY <1>0, <1>1 DEF SendInv, DelegationTypeOK
<1>3. /\ landed' \in [Ops -> Nat] /\ landed'[o] \in {0, 1}
      /\ \A q \in Ops \ {o} : landed'[q] = landed[q]
      /\ done' \in {done, done \cup {o}} /\ (o \in done' => landed'[o] = 1)
  <2>1. CASE Land(o)
    BY <1>2, <2>1 DEF Land
  <2>2. CASE Lose(o)
    BY <1>0, <1>2, <2>2 DEF Lose, ShownInv
  <2> QED BY <2>1, <2>2
<1>4. DelegationTypeOK'
  BY <1>0, <1>1, <1>3 DEF DelegationTypeOK
<1>5. \A q \in Procs : ~Sending(q, o)
  BY <1>0, <1>1 DEF SendInv
<1>6. SendInv'
  <2>1. \A q \in Procs, a \in Ops : Sending(q, a)' <=> Sending(q, a)
    BY <1>1 DEF Sending
  <2> HIDE DEF Sending
  <2> QED BY <1>0, <1>1, <1>3, <1>5, <2>1 DEF SendInv
<1>7. ShownInv'
  <2>1. \A a \in Ops : landed[a] = 1 => a # o
    BY <1>2
  <2>2. \A q \in Procs : st[q].pc = "told" => st[q].op \in Ops \ {o}
    BY <1>0, <2>1, RoleFacts DEF ShownInv, Delegating
  <2> QED BY <1>0, <1>1, <1>3, <2>1, <2>2 DEF ShownInv
<1>8. RoleInv' /\ GrantInv'
  BY <1>0, <1>1 DEF RoleInv, GrantInv
<1> QED BY <1>4, <1>6, <1>7, <1>8 DEF DelegationInv

\* A process that appends nothing only goes on, or ends.
LEMMA WalkKeeps ==
  ASSUME DelegationInv, NEW p \in Procs, NEW next \in Controls, Step(p, next),
         UNCHANGED <<grant, admitted, receipts, world>>,
         next.pc \in Delegating => next.op \in Delegated,
         next.pc \in {"idle", "receipt", "ask", "told"},
         next.pc = "told" => landed[next.op] = 1
  PROVE  DelegationInv'
<1>0. DelegationTypeOK
  BY DEF DelegationInv
<1>1. s' = s /\ Moved(p, next)
  BY <1>0, StepMoves
<1>2. DelegationTypeOK'
  BY <1>0, <1>1 DEF DelegationTypeOK, Moved, world
<1> QED BY <1>1, <1>2, QuietKeeps DEF Publishing

\* What the provider shows has landed.
LEMMA ShowsLanded ==
  ASSUME DelegationInv, NEW o \in Ops, Shows(o)
  PROVE  landed[o] = 1
<1>1. KindOf[o] \in {"edit", "merge", "issue-projection"}
  BY DelegationAssumption
<1>2. CASE KindOf[o] = "edit"
  BY <1>2 DEF DelegationInv, ShownInv, Shows, EditShown
<1>3. CASE KindOf[o] = "merge"
  BY <1>3 DEF Shows, ActionShown
<1>4. CASE KindOf[o] = "issue-projection"
  BY <1>4 DEF Shows, CommentShown
<1> QED BY <1>1, <1>2, <1>3, <1>4

\* The dispatch ends, with a receipt or without.
LEMMA DispatchKeeps ==
  ASSUME DelegationInv, NEW p \in Procs, DispatchThrows(p) \/ DispatchReturns(p)
  PROVE  DelegationInv'
<1> DEFINE o == st[p].op
<1>0. s \in Runs /\ "unknown" \in OpStates /\ UNCHANGED <<grant, admitted, receipts, world>>
  BY DEF DelegationInv, DelegationTypeOK, OpStates, DispatchThrows, DispatchReturns
<1>1. o \in Ops /\ o \in Delegated /\ st[p] \in Controls
  BY RoleFacts DEF DispatchThrows, DispatchReturns, Delegating
<1>2. Idle \in Controls /\ Idle.pc = "idle"
  BY <1>0, ControlsFacts
<1>3. \A pc \in {"receipt", "ask"} : LET next == [st[p] EXCEPT !.pc = pc] IN
        next \in Controls /\ next.pc = pc /\ next.op = o
  BY <1>1 DEF Controls, Delegating
<1>4. CASE AppendState(p, Operated(s, o, "unknown", TRUE, FALSE), Idle)
  <2> HIDE DEF o
  <2> QED BY <1>0, <1>1, <1>2, <1>4, OperationKeeps DEF Delegating, Publishing, Outcomes
<1>5. CASE Step(p, Idle)
  BY <1>0, <1>2, <1>5, WalkKeeps DEF Delegating
<1>6. ASSUME NEW pc \in {"receipt", "ask"}, Step(p, [st[p] EXCEPT !.pc = pc])
      PROVE  DelegationInv'
  BY <1>0, <1>1, <1>3, <1>6, WalkKeeps
<1> QED BY <1>4, <1>5, <1>6 DEF DispatchThrows, DispatchReturns

\* A receipt moves no operation.
LEMMA ReceiptKeeps ==
  ASSUME DelegationInv, NEW p \in Procs,
         RecordReceipt(p) \/ \E o \in Delegated : ObserveProvider(p, o)
  PROVE  DelegationInv'
<1>0. DelegationTypeOK
  BY DEF DelegationInv
<1>1. PICK o \in Delegated : AppendState(p, {s}, At("ask", o)) /\ receipts' \in [Ops -> Nat]
                             /\ UNCHANGED <<grant, admitted, world>>
  <2>1. CASE RecordReceipt(p)
    <3>1. st[p].op \in Delegated /\ receipts' = [receipts EXCEPT ![st[p].op] = @ + 1]
          /\ st[p].op \in Ops
      BY <2>1, RoleFacts DEF RecordReceipt, Continue, Delegating
    <3>2. receipts' \in [Ops -> Nat]
      BY <1>0, <3>1 DEF DelegationTypeOK
    <3> QED BY <2>1, <3>1, <3>2 DEF RecordReceipt
  <2>2. CASE \E o \in Delegated : ObserveProvider(p, o)
    BY <1>0, <2>2 DEF ObserveProvider, DelegationTypeOK
  <2> QED BY <2>1, <2>2
<1>2. At("ask", o) \in Controls /\ At("ask", o).pc = "ask" /\ At("ask", o).op = o
  BY <1>0, ControlsFacts DEF DelegationTypeOK, Delegating, Delegated
<1> DEFINE next == At("ask", o)
<1> HIDE DEF next
<1>3. next \in Controls /\ next.pc = "ask" /\ next.op = o /\ AppendState(p, {s}, next)
  BY <1>1, <1>2 DEF next
<1>4. s' = s /\ Moved(p, next) /\ Revised(p)
  BY <1>0, <1>3, AppendMoves
<1>5. DelegationTypeOK'
  BY <1>0, <1>1, <1>4 DEF DelegationTypeOK, Moved, world
<1> QED BY <1>1, <1>3, <1>4, <1>5, QuietKeeps DEF Publishing

\* Reconciliation takes an outcome from the provider.
LEMMA ReconcileKeeps ==
  ASSUME DelegationInv, NEW p \in Procs,
         \/ \E o \in Delegated : StartReconcile(p, o)
         \/ AskProvider(p) \/ RecordOutcome(p)
  PROVE  DelegationInv'
<1>0. DelegationTypeOK /\ ShownInv /\ {"planned", "confirmed"} \subseteq OpStates
  BY DEF DelegationInv, OpStates
<1>1. Idle \in Controls /\ Idle.pc = "idle"
  BY <1>0, ControlsFacts DEF DelegationTypeOK
<1>2. ASSUME NEW o \in Delegated, StartReconcile(p, o) PROVE DelegationInv'
  <2>1. o \in Ops /\ UNCHANGED <<grant, admitted, receipts, world>>
    BY <1>2 DEF Delegated, StartReconcile
  <2>2. \A pc \in {"lost", "ask"} : At(pc, o) \in Controls /\ At(pc, o).pc = pc /\ At(pc, o).op = o
    BY <1>0, <2>1, ControlsFacts DEF DelegationTypeOK, Delegating
  <2>3. CASE AppendState(p, Operated(s, o, "planned", TRUE, FALSE), At("lost", o))
    BY <1>0, <2>1, <2>2, <2>3, OperationKeeps DEF Publishing, Outcomes
  <2>4. CASE Step(p, At("ask", o))
    BY <2>1, <2>2, <2>4, WalkKeeps
  <2> QED BY <1>2, <2>3, <2>4 DEF StartReconcile
<1>3. CASE AskProvider(p)
  <2> DEFINE next == [st[p] EXCEPT !.pc = "told"]
  <2>1. st[p].op \in Delegated /\ st[p].op \in Ops /\ st[p] \in Controls
        /\ UNCHANGED <<grant, admitted, receipts, world>>
    BY <1>3, RoleFacts DEF AskProvider, Delegating
  <2>2. next \in Controls /\ next.pc = "told" /\ next.op = st[p].op
    BY <2>1 DEF Controls, Delegating
  <2> HIDE DEF next
  <2>3. CASE Shows(st[p].op) /\ Step(p, next)
    BY <2>1, <2>2, <2>3, ShowsLanded, WalkKeeps
  <2>4. CASE Step(p, Idle)
    BY <1>1, <2>1, <2>4, WalkKeeps DEF Delegating
  <2> QED BY <1>3, <2>3, <2>4 DEF AskProvider, next
<1>4. CASE RecordOutcome(p)
  <2> DEFINE o == st[p].op
  <2>1. o \in Ops /\ UNCHANGED <<grant, admitted, receipts, world>> /\ landed[o] = 1
    BY <1>0, <1>4, RoleFacts DEF RecordOutcome, Continue, Delegating, ShownInv
  <2>2. CASE Step(p, Idle)
    BY <1>1, <2>1, <2>2, WalkKeeps DEF Delegating
  <2>3. CASE AppendState(p, Reconciled(o), Idle)
    <3> HIDE DEF o
    <3>1. s' \in Reconciled(o) /\ Moved(p, Idle) /\ Revised(p)
      BY <1>0, <1>1, <2>3, AppendMoves
    <3>2. s' \in Runs /\ s'.ops = [s.ops EXCEPT ![o] = "confirmed"]
      BY <1>0, <2>1, <3>1, ReconciledFacts DEF DelegationTypeOK
    <3>3. DelegationTypeOK'
      BY <1>0, <2>1, <3>1, <3>2 DEF DelegationTypeOK, Moved, world
    <3>4. s.ops \in [Ops -> OpStates]
      BY <1>0 DEF DelegationTypeOK, Runs
    <3>5. s'.ops[o] = "confirmed" /\ \A q \in Ops \ {o} : s'.ops[q] = s.ops[q]
      BY <2>1, <3>2, <3>4
    <3>6. \A q \in Ops : s'.ops[q] \in Unsent => s.ops[q] \in Unsent
      BY <3>5 DEF Unsent
    <3>7. \A q \in Ops : s'.ops[q] \in Outcomes => landed[q] = 1
      BY <1>0, <2>1, <3>5 DEF ShownInv
    <3> QED BY <1>1, <2>1, <3>1, <3>3, <3>6, <3>7, CommandKeeps DEF Delegating, Publishing
  <2> QED BY <1>4, <2>2, <2>3 DEF RecordOutcome
<1> QED BY <1>2, <1>3, <1>4

\* A projection is confirmed by the comment that is there.
LEMMA PublishKeeps ==
  ASSUME DelegationInv, NEW p \in Procs,
         \/ \E n \in Projections : Publish(p, n) \/ PublishAgain(p, n)
         \/ SubmitProjection(p) \/ \E to \in {"confirmed", "unknown"} : Posted(p, to)
  PROVE  DelegationInv'
<1>0. s \in Runs /\ {"planned", "submitted", "confirmed", "unknown"} \subseteq OpStates
  BY DEF DelegationInv, DelegationTypeOK, OpStates
<1>1. Idle \in Controls /\ Idle.pc = "idle"
  BY <1>0, ControlsFacts
<1>2. ASSUME NEW n \in Projections, Publish(p, n) PROVE DelegationInv'
  <2>1. /\ AppendState(p, Operated(s, n, "planned", FALSE, FALSE), At("publishing", n))
        /\ n \in Ops /\ UNCHANGED <<grant, admitted, receipts, world>>
    BY <1>2 DEF Publish, Projections
  <2>2. LET next == At("publishing", n) IN
          next \in Controls /\ next.pc = "publishing" /\ next.op = n
    BY <1>0, <2>1, ControlsFacts DEF Publishing
  <2> QED BY <1>0, <2>1, <2>2, OperationKeeps DEF Delegating, Outcomes
<1>3. ASSUME NEW n \in Projections, PublishAgain(p, n) PROVE DelegationInv'
  <2>1. /\ AppendState(p, Operated(s, n, "confirmed", FALSE, TRUE), Idle)
        /\ n \in Ops /\ UNCHANGED <<grant, admitted, receipts, world>> /\ landed[n] = 1
    BY <1>3 DEF PublishAgain, Projections, CommentShown
  <2> QED BY <1>0, <1>1, <2>1, OperationKeeps DEF Delegating, Publishing
<1>4. CASE SubmitProjection(p)
  <2> DEFINE o == st[p].op
  <2>1. /\ AppendState(p, Operated(s, o, "submitted", FALSE, FALSE), At("post", o))
        /\ o \in Ops /\ o \in Projections /\ UNCHANGED <<grant, admitted, receipts, world>>
    BY <1>4, RoleFacts DEF SubmitProjection, Continue, Publishing
  <2>2. LET next == At("post", o) IN next \in Controls /\ next.pc = "post" /\ next.op = o
    BY <1>0, <2>1, ControlsFacts DEF Publishing
  <2> HIDE DEF o
  <2> QED BY <1>0, <2>1, <2>2, OperationKeeps DEF Delegating, Outcomes
<1>5. ASSUME NEW to \in {"confirmed", "unknown"}, Posted(p, to) PROVE DelegationInv'
  <2> DEFINE o == st[p].op
             v == to = "confirmed"
  <2>1. /\ AppendState(p, Operated(s, o, to, FALSE, v), Idle) /\ v \in BOOLEAN
        /\ o \in Ops /\ UNCHANGED <<grant, admitted, receipts, world>>
        /\ to = "confirmed" => landed[o] = 1
    BY <1>5, RoleFacts DEF Posted, Continue, Publishing, CommentShown
  <2> HIDE DEF o, v
  <2> QED BY <1>0, <1>1, <2>1, OperationKeeps DEF Delegating, Publishing, Outcomes
<1> QED BY <1>2, <1>3, <1>4, <1>5

\* A take-over, a pause, the end of the run and a death move no operation that
\* the provider does not show.
LEMMA TakeoverKeeps ==
  ASSUME DelegationInv, NEW p \in Procs,
         \/ \E o \in Ops : SettleForTakeover(p, o)
         \/ \E b \in BOOLEAN : Resume(p, b)
         \/ Halt(p) \/ Abandon(p)
  PROVE  DelegationInv'
<1>0. DelegationTypeOK /\ "confirmed" \in OpStates
  BY DEF DelegationInv, OpStates
<1>1. Idle \in Controls /\ Idle.pc = "idle"
  BY <1>0, ControlsFacts DEF DelegationTypeOK
<1>2. ASSUME NEW o \in Ops, SettleForTakeover(p, o) PROVE DelegationInv'
  <2>1. /\ AppendState(p, Operated(s, o, "confirmed", TRUE, TRUE), At("takeover", None))
        /\ UNCHANGED <<grant, admitted, receipts, world>> /\ landed[o] = 1
    BY <1>2, ShowsLanded DEF SettleForTakeover, Recoverable
  <2>2. LET next == At("takeover", None) IN next \in Controls /\ next.pc = "takeover"
    BY <1>0, ControlsFacts DEF DelegationTypeOK, Resting
  <2> QED BY <1>0, <2>1, <2>2, OperationKeeps DEF Delegating, Publishing
<1>3. CASE (\E b \in BOOLEAN : Resume(p, b)) \/ Halt(p)
  <2>1. PICK states \in {Resumed(s, s.owner, TRUE), Resumed(s, s.owner, FALSE),
                         Halted(s, "paused") \cup Completed(s)} :
          AppendState(p, states, Idle) /\ UNCHANGED <<grant, admitted, receipts, world>>
    BY <1>3 DEF Resume, Halt
  <2>2. s' \in states /\ Moved(p, Idle) /\ Revised(p)
    BY <1>0, <1>1, <2>1, AppendMoves
  <2>3. s' \in Resumed(s, s.owner, TRUE) \cup Resumed(s, s.owner, FALSE) \cup Halted(s, "paused")
               \cup Completed(s)
    BY <2>1, <2>2
  <2>4. s' \in Runs /\ s'.ops = s.ops
    BY <1>0, <2>3, RevisedFacts DEF DelegationTypeOK
  <2>5. DelegationTypeOK'
    BY <1>0, <2>1, <2>2, <2>4 DEF DelegationTypeOK, Moved, world
  <2> QED BY <1>1, <2>1, <2>2, <2>4, <2>5, QuietKeeps DEF Delegating, Publishing
<1>4. CASE Abandon(p)
  BY <1>1, <1>4, WalkKeeps DEF Abandon, Delegating
<1> QED BY <1>2, <1>3, <1>4

-----------------------------------------------------------------------------
\* The invariant holds at the start ...
LEMMA DelegationStarts == Init => DelegationInv
<1> SUFFICES ASSUME Init PROVE DelegationInv
  OBVIOUS
<1>1. s \in Runs /\ s.ops = [o \in Ops |-> "none"]
  BY DEF Init, Started, Runs, OpStates
<1>2. Idle \in Controls /\ Idle.pc = "idle"
  BY <1>1, ControlsFacts
<1>3. \A p \in Procs : st[p].pc = "idle"
  BY <1>2 DEF Init
<1>4. DelegationTypeOK
  BY <1>1, <1>2 DEF Init, DelegationTypeOK, NotIssued
<1>5. \A o \in Ops : s.ops[o] = "none" /\ landed[o] = 0
  BY <1>1 DEF Init
<1>6. sent = {} /\ done = {}
  BY DEF Init
<1> QED BY <1>3, <1>4, <1>5, <1>6 DEF DelegationInv, RoleInv, SendInv, ShownInv, GrantInv,
      Sending, Unsent, Outcomes, Delegating, Publishing

\* ... and every step keeps it.
LEMMA DelegationKept ==
  ASSUME DelegationInv, [Next]_vars
  PROVE  DelegationInv'
<1>1. CASE UNCHANGED vars
  BY <1>1 DEF vars, world, DelegationInv, DelegationTypeOK, RoleInv, SendInv, ShownInv, GrantInv,
    Sending
<1>2. CASE \E p \in Procs, g \in Grants : IssueGrant(p, g) \/ RevokeGrant(p, g)
  BY <1>2, GrantsKeep
<1>3. CASE \E p \in Procs, g \in Grants, o \in Delegated : AdmitOperation(p, o, g)
  BY <1>3, AdmitKeeps
<1>4. CASE \E p \in Procs : PlanOperation(p) \/ SubmitOperation(p) \/ LostOperation(p)
  BY <1>4, SubmitKeeps
<1>5. CASE \E p \in Procs : Dispatch(p) \/ Post(p)
  BY <1>5, SendKeeps
<1>6. CASE \E p \in Procs : DispatchThrows(p) \/ DispatchReturns(p)
  BY <1>6, DispatchKeeps
<1>7. CASE \E p \in Procs : RecordReceipt(p) \/ \E o \in Delegated : ObserveProvider(p, o)
  BY <1>7, ReceiptKeeps
<1>8. CASE \E p \in Procs : (\E o \in Delegated : StartReconcile(p, o)) \/ AskProvider(p) \/ RecordOutcome(p)
  BY <1>8, ReconcileKeeps
<1>9. CASE \E p \in Procs :
             \/ \E n \in Projections : Publish(p, n) \/ PublishAgain(p, n)
             \/ SubmitProjection(p) \/ \E to \in {"confirmed", "unknown"} : Posted(p, to)
  BY <1>9, PublishKeeps
<1>10. CASE \E p \in Procs :
              \/ \E o \in Ops : SettleForTakeover(p, o)
              \/ \E b \in BOOLEAN : Resume(p, b)
              \/ Halt(p) \/ Abandon(p)
  BY <1>10, TakeoverKeeps
<1>11. CASE (\E g \in Grants : Expire(g)) \/ \E o \in Ops : Land(o) \/ Lose(o)
  BY <1>11, ExpireKeeps, WorldKeeps
<1> QED BY <1>1, <1>2, <1>3, <1>4, <1>5, <1>6, <1>7, <1>8, <1>9, <1>10, <1>11 DEF Next

\* The inductive invariant holds in every reachable state.
LEMMA DelegationInvariant == Spec => []DelegationInv
BY DelegationStarts, DelegationKept, PTL DEF Spec

\* However processes stall, die, retry and reconcile side by side, the run's
\* record is ahead of every request, and no request is sent twice.
THEOREM SentOnce == Spec => []EffectOnce
<1>1. DelegationInv => EffectOnce
  <2> SUFFICES ASSUME DelegationInv, NEW o \in Ops
               PROVE  /\ landed[o] + Cardinality(sent \cap {o}) <= 1
                      /\ o \in sent \/ landed[o] > 0 => s.ops[o] \notin {"none", "planned"}
    BY DEF EffectOnce
  <2>1. SendInv
    BY DEF DelegationInv
  <2>2. CASE o \in sent
    <3>1. sent \cap {o} = {o} /\ landed[o] = 0
      BY <2>1, <2>2 DEF SendInv
    <3>2. Cardinality({o}) = 1
      BY FS_Singleton
    <3> QED BY <2>1, <3>1, <3>2 DEF SendInv, Unsent
  <2>3. CASE o \notin sent
    <3>1. sent \cap {o} = {} /\ landed[o] \in {0, 1}
      BY <2>1, <2>3 DEF SendInv
    <3>2. Cardinality({}) = 0
      BY FS_EmptySet
    <3> QED BY <2>1, <3>1, <3>2 DEF SendInv, Unsent
  <2> QED BY <2>2, <2>3
<1> QED BY <1>1, DelegationInvariant, PTL

\* An effect lands while the run's record still says that it may.
LEMMA LandsUnsettled ==
  ASSUME DelegationInv, [Next]_vars, NEW o \in Ops, landed'[o] # landed[o]
  PROVE  s.ops[o] \notin Outcomes
<1>1. CASE \E q \in Ops : Land(q)
  <2>1. PICK q \in Ops : Land(q)
    BY <1>1
  <2>2. o = q /\ o \in sent
    BY <2>1 DEF Land, DelegationInv, DelegationTypeOK
  <2> QED BY <2>2 DEF DelegationInv, SendInv, ShownInv
<1>2. CASE ~\E q \in Ops : Land(q)
  <2>1. UNCHANGED landed
    BY <1>2 DEF Next, vars, world, IssueGrant, RevokeGrant, AdmitOperation, PlanOperation,
      SubmitOperation, Dispatch, DispatchThrows, DispatchReturns, RecordReceipt, ObserveProvider,
      StartReconcile, LostOperation, AskProvider, RecordOutcome, Publish, PublishAgain,
      SubmitProjection, Post, Posted, SettleForTakeover, Resume, Halt, Abandon, Expire, Lose
  <2> QED BY <2>1
<1> QED BY <1>1, <1>2

\* Only SubmitOperation makes a delegated operation submitted.
LEMMA SubmitsGranted ==
  ASSUME DelegationInv, [Next]_vars, NEW o \in Delegated,
         s'.ops[o] = "submitted", s.ops[o] # "submitted"
  PROVE  \A h \in Ancestors(admitted[o]) : grant[h].status # "revoked"
<1>0. /\ s \in Runs /\ s.ops \in [Ops -> OpStates] /\ o \in Ops /\ o \notin Projections
      /\ {"planned", "submitted", "confirmed", "unknown"} \subseteq OpStates
  BY DEF DelegationInv, DelegationTypeOK, Runs, Delegated, OpStates
<1>1. ASSUME NEW q \in Ops, NEW to \in OpStates, NEW a \in BOOLEAN, NEW v \in BOOLEAN,
             s' \in Operated(s, q, to, a, v)
      PROVE  q = o /\ to = "submitted"
  <2>1. s'.ops = [s.ops EXCEPT ![q] = to]
    BY <1>0, <1>1, OperatedFacts
  <2> QED BY <1>0, <2>1
<1>2. ASSUME s'.ops = s.ops PROVE FALSE
  BY <1>2
<1>3. ASSUME NEW r \in {Refresh([s EXCEPT !.epoch = @ + 1])} \cup Resumed(s, s.owner, TRUE)
                \cup Resumed(s, s.owner, FALSE) \cup Halted(s, "paused") \cup Completed(s),
             s' = r
      PROVE  FALSE
  BY <1>0, <1>2, <1>3, RevisedFacts
<1>4. CASE \E p \in Procs : SubmitOperation(p)
  <2>1. PICK p \in Procs : SubmitOperation(p)
    BY <1>4
  <2>2. /\ st[p].pc = "planned" /\ st[p].op \in Ops
        /\ s' \in Operated(s, st[p].op, "submitted", TRUE, FALSE)
    BY <2>1, RoleFacts DEF SubmitOperation, Continue, AppendState, Delegating
  <2>3. st[p].op = o
    BY <1>0, <1>1, <2>2
  <2> QED BY <2>2, <2>3 DEF DelegationInv, GrantInv
<1>5. ASSUME NEW p \in Procs, Next, ~SubmitOperation(p),
             \/ \E g \in Grants : IssueGrant(p, g) \/ RevokeGrant(p, g)
                                  \/ \E q \in Delegated : AdmitOperation(p, q, g)
             \/ Dispatch(p) \/ DispatchReturns(p) \/ RecordReceipt(p) \/ Post(p)
             \/ \E q \in Delegated : ObserveProvider(p, q)
             \/ AskProvider(p) \/ (\E b \in BOOLEAN : Resume(p, b)) \/ Halt(p) \/ Abandon(p)
      PROVE  FALSE
  BY <1>2, <1>3, <1>5 DEF IssueGrant, RevokeGrant, AdmitOperation, Dispatch, DispatchReturns,
    RecordReceipt, Post, ObserveProvider, AskProvider, Resume, Halt, Abandon, AppendState, Step
<1>6. ASSUME NEW p \in Procs, PlanOperation(p) \/ LostOperation(p) \/ DispatchThrows(p) PROVE FALSE
  <2>1. st[p].op \in Ops
    BY <1>6, RoleFacts DEF PlanOperation, LostOperation, DispatchThrows, Continue, Delegating
  <2>2. s' = s \/ \E to \in {"planned", "unknown"} : s' \in Operated(s, st[p].op, to, TRUE, FALSE)
    BY <1>6 DEF PlanOperation, LostOperation, DispatchThrows, AppendState, Step
  <2> QED BY <1>0, <1>1, <1>2, <2>1, <2>2
<1>7. ASSUME NEW p \in Procs,
             (\E q \in Delegated : StartReconcile(p, q)) \/ RecordOutcome(p)
      PROVE  FALSE
  <2>1. ASSUME NEW q \in Delegated, StartReconcile(p, q) PROVE FALSE
    <3>1. q \in Ops /\ (s' = s \/ s' \in Operated(s, q, "planned", TRUE, FALSE))
      BY <2>1 DEF StartReconcile, AppendState, Step, Delegated
    <3> QED BY <1>0, <1>1, <1>2, <3>1
  <2>2. CASE RecordOutcome(p)
    <3>1. st[p].op \in Ops /\ (s' = s \/ s' \in Reconciled(st[p].op))
      BY <2>2, RoleFacts DEF RecordOutcome, Continue, Delegating, AppendState, Step
    <3>2. s' = s \/ s'.ops = [s.ops EXCEPT ![st[p].op] = "confirmed"]
      BY <1>0, <3>1, ReconciledFacts
    <3> QED BY <1>0, <1>2, <3>1, <3>2
  <2> QED BY <1>7, <2>1, <2>2
<1>8. ASSUME NEW p \in Procs,
             \/ \E n \in Projections : Publish(p, n) \/ PublishAgain(p, n)
             \/ SubmitProjection(p) \/ (\E to \in {"confirmed", "unknown"} : Posted(p, to))
             \/ \E q \in Ops : SettleForTakeover(p, q)
      PROVE  FALSE
  <2>1. ASSUME NEW n \in Projections, Publish(p, n) \/ PublishAgain(p, n) PROVE FALSE
    <3>1. n \in Ops /\ (\/ s' \in Operated(s, n, "planned", FALSE, FALSE)
                        \/ s' \in Operated(s, n, "confirmed", FALSE, TRUE))
      BY <2>1 DEF Publish, PublishAgain, AppendState, Projections
    <3> QED BY <1>0, <1>1, <3>1
  <2>2. CASE SubmitProjection(p)
    <3>1. /\ st[p].op \in Ops /\ st[p].op \in Projections
          /\ s' \in Operated(s, st[p].op, "submitted", FALSE, FALSE)
      BY <2>2, RoleFacts DEF SubmitProjection, Continue, Publishing, AppendState
    <3> QED BY <1>0, <1>1, <3>1
  <2>3. ASSUME NEW to \in {"confirmed", "unknown"}, Posted(p, to) PROVE FALSE
    <3>1. /\ st[p].op \in Ops /\ (to = "confirmed") \in BOOLEAN
          /\ s' \in Operated(s, st[p].op, to, FALSE, to = "confirmed")
      BY <2>3, RoleFacts DEF Posted, Continue, Publishing, AppendState
    <3> QED BY <1>0, <1>1, <3>1
  <2>4. ASSUME NEW q \in Ops, SettleForTakeover(p, q) PROVE FALSE
    <3>1. s' \in Operated(s, q, "confirmed", TRUE, TRUE)
      BY <2>4 DEF SettleForTakeover, AppendState
    <3> QED BY <1>0, <1>1, <3>1
  <2> QED BY <1>8, <2>1, <2>2, <2>3, <2>4
<1>9. ASSUME (\E g \in Grants : Expire(g)) \/ (\E q \in Ops : Land(q) \/ Lose(q)) \/ UNCHANGED vars
      PROVE  FALSE
  BY <1>2, <1>9 DEF Expire, Land, Lose, vars
<1> QED BY <1>4, <1>5, <1>6, <1>7, <1>8, <1>9 DEF Next

\* The record binds what is done: nothing is submitted under a revoked grant,
\* also when it was admitted before, and nothing lands once its outcome is on
\* record.
THEOREM RecordKept == Spec => RecordBinds
<1>1. DelegationInv /\ [Next]_vars =>
        [\A o \in Ops : landed'[o] # landed[o] => s.ops[o] \notin Outcomes]_vars
  BY LandsUnsettled
<1>2. DelegationInv /\ [Next]_vars =>
        [\A o \in Delegated :
           s'.ops[o] = "submitted" /\ s.ops[o] # "submitted" =>
             \A h \in Ancestors(admitted[o]) : grant[h].status # "revoked"]_vars
  BY SubmitsGranted
<1> QED BY <1>1, <1>2, DelegationInvariant, PTL
        DEF Spec, RecordBinds, SettledIsFinal, RevokedStopsSubmission

=============================================================================
