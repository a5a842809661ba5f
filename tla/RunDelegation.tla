--------------------------- MODULE RunDelegation ---------------------------
(***************************************************************************)
(* The operations a run performs outside itself.  Delegated ones (edits,   *)
(* pull requests, merges) are admitted under a grant, made durable as      *)
(* planned and submitted, dispatched, and settled only by what the         *)
(* provider shows; projections of the run to its issue are published the   *)
(* same way without a grant.  Processes of the current writer run these    *)
(* commands side by side, stall or die anywhere; a request once sent may   *)
(* land at any later time or never.                                        *)
(***************************************************************************)
EXTENDS RunState

CONSTANTS
  Procs,          \* processes running commands
  Grants,         \* grant identities
  ParentOf,       \* the grant each grant is issued under, or None
  MaxAttempts, MaxEffects,   \* the budget of each grant
  MaxGen

ASSUME DelegationAssumption ==
  /\ MaxAttempts \in [Grants -> Nat] /\ MaxEffects \in [Grants -> Nat] /\ MaxGen \in Nat
  /\ \A g \in Grants : ParentOf[g] \in (Grants \ {g}) \cup {None}
  /\ KindOf \in [Ops -> {"edit", "merge", "issue-projection"}]

VARIABLES
  s,              \* the reduced run
  grant,          \* the grants of the run
  admitted,       \* the grant each operation was admitted under, or None
  receipts,       \* engineering-result checkpoints per operation
  st,             \* what each process is in the middle of
  sent, landed,   \* requests on their way; effects of each operation
  done            \* edits the provider completed

vars == <<s, grant, admitted, receipts, st, sent, landed, done>>
world == <<sent, landed, done>>

Projections == {o \in Ops : KindOf[o] = "issue-projection"}
Delegated == Ops \ Projections
External(o) == KindOf[o] # "edit"

NotIssued == [status |-> "none", usedA |-> 0, usedE |-> 0, heldA |-> 0, heldE |-> 0]
Idle == [pc |-> "idle", op |-> None, gen |-> 0, fresh |-> TRUE]

\* The run is at its last phase with a candidate all operations are for.
Init ==
  /\ s = [Started(1, FALSE) EXCEPT !.phase = LastPhase, !.cand = 1]
  /\ grant = [g \in Grants |-> NotIssued]
  /\ admitted = [o \in Ops |-> None]
  /\ receipts = [o \in Ops |-> 0]
  /\ st = [p \in Procs |-> Idle]
  /\ sent = {} /\ landed = [o \in Ops |-> 0] /\ done = {}

-----------------------------------------------------------------------------
(* append, as in RunService: it ends the commands of other processes that  *)
(* decided on the revision it replaces, not those that read it again.      *)

\* Mutant: executeDelegatedOperation appends to whatever revision it finds.
RereadsAlways == {"idle", "admitted", "planned", "dispatch", "waiting", "receipt", "ask",
                  "told", "publishing", "post", "posted"}

Rereads == {"idle", "dispatch", "waiting", "receipt", "ask", "told",
            "publishing", "post", "posted"}

At(pc, o) == [pc |-> pc, op |-> o, gen |-> s.gen, fresh |-> TRUE]

AppendState(p, states, next) ==
  /\ s' \in states
  /\ st' = [q \in Procs |->
              IF q = p THEN next
              ELSE IF st[q].pc = "idle" \/ st[q].pc \notin Rereads THEN Idle
              ELSE [st[q] EXCEPT !.fresh = FALSE]]

\* The next append of a command under way, and the start of a command.
Continue(p, pc) == st[p].pc = pc /\ st[p].gen = s.gen
Command(p) == st[p].pc = "idle"

\* A step that appends nothing.
Step(p, next) == st' = [st EXCEPT ![p] = next] /\ UNCHANGED s

-----------------------------------------------------------------------------
(* Grants.                                                                 *)

\* A grant and those above it.
Ancestors(g) ==
  {h \in Grants : \A C \in SUBSET Grants :
     g \in C /\ (\A c \in C : ParentOf[c] \in C \cup {None}) => h \in C}

Live(g) == \A h \in Ancestors(g) : grant[h].status = "active"

NoWider(g, b) == MaxAttempts[g] <= MaxAttempts[b] /\ MaxEffects[g] <= MaxEffects[b]

WithinParent(g) ==
  LET b == ParentOf[g]
  IN  b # None =>
        /\ Live(b) /\ NoWider(g, b)
        /\ grant[b].usedA + grant[b].heldA + MaxAttempts[g] <= MaxAttempts[b]
        /\ grant[b].usedE + grant[b].heldE + MaxEffects[g] <= MaxEffects[b]

\* issueGrant: a child takes its whole budget out of its parent's.
IssueGrant(p, g) ==
  /\ Command(p) /\ grant[g].status = "none" /\ WithinParent(g)
  /\ Takes(s, "grant-issued") /\ AppendState(p, {s}, Idle)
  /\ grant' = [h \in Grants |->
       IF h = g THEN [grant[h] EXCEPT !.status = "active"]
       ELSE IF h = ParentOf[g]
            THEN [grant[h] EXCEPT !.heldA = @ + MaxAttempts[g], !.heldE = @ + MaxEffects[g]]
            ELSE grant[h]]
  /\ UNCHANGED <<admitted, receipts, world>>

RevokeGrant(p, g) ==
  /\ Command(p) /\ grant[g].status \in {"active", "expired"}
  /\ Takes(s, "grant-revoked")
  /\ AppendState(p, {Refresh([s EXCEPT !.epoch = @ + 1])}, Idle)
  /\ grant' = [grant EXCEPT ![g].status = "revoked"]
  /\ UNCHANGED <<admitted, receipts, world>>

\* Time passes; a child never outlives its parent.
Expire(g) ==
  /\ grant[g].status = "active"
  /\ \A h \in Grants : ParentOf[h] = g => grant[h].status # "active"
  /\ grant' = [grant EXCEPT ![g].status = "expired"]
  /\ UNCHANGED <<s, admitted, receipts, st, world>>

-----------------------------------------------------------------------------
(* act: admission under a grant, then planned, submitted and dispatched,   *)
(* each append on the revision the one before it made.                     *)

\* Mutant: what was passed on to children still counts as available.
ResolveGrantUnheld(g, o) ==
  /\ Live(g) /\ s.cand # None
  /\ grant[g].usedA < MaxAttempts[g]
  /\ External(o) => grant[g].usedE < MaxEffects[g]

ResolveGrant(g, o) ==
  /\ Live(g) /\ s.cand # None
  /\ grant[g].usedA + grant[g].heldA < MaxAttempts[g]
  /\ External(o) => grant[g].usedE + grant[g].heldE < MaxEffects[g]

\* The run takes an admission once per operation, and charges its grant.
OperationAdmitted(o, g) ==
  /\ Takes(s, "operation-admitted") /\ admitted[o] = None /\ ResolveGrant(g, o)
  /\ admitted' = [admitted EXCEPT ![o] = g]
  /\ grant' = [grant EXCEPT ![g].usedA = @ + 1, ![g].usedE = IF External(o) THEN @ + 1 ELSE @]

\* One admitted operation at a time; admitting it again never dispatches.
AdmitOperation(p, o, g) ==
  /\ Command(p)
  /\ \A q \in Ops : admitted[q] # None => s.ops[q] \in Outcomes
  /\ OperationAdmitted(o, g) /\ AppendState(p, {s}, At("admitted", o))
  /\ UNCHANGED <<receipts, world>>

\* Mutant: the dispatch follows the plan, the submission is not recorded.
PlanAndDispatch(p) ==
  /\ Continue(p, "admitted")
  /\ AppendState(p, Operated(s, st[p].op, "planned", TRUE, FALSE), At("dispatch", st[p].op))
  /\ UNCHANGED <<grant, admitted, receipts, world>>

PlanOperation(p) ==
  /\ Continue(p, "admitted")
  /\ AppendState(p, Operated(s, st[p].op, "planned", TRUE, FALSE), At("planned", st[p].op))
  /\ UNCHANGED <<grant, admitted, receipts, world>>

SubmitOperation(p) ==
  /\ Continue(p, "planned")
  /\ AppendState(p, Operated(s, st[p].op, "submitted", TRUE, FALSE), At("dispatch", st[p].op))
  /\ UNCHANGED <<grant, admitted, receipts, world>>

\* The adapter sends the request, whatever became of the run meanwhile.
Dispatch(p) ==
  /\ st[p].pc = "dispatch"
  /\ Step(p, [st[p] EXCEPT !.pc = "waiting"])
  /\ sent' = sent \cup {st[p].op}
  /\ UNCHANGED <<grant, admitted, receipts, landed, done>>

\* A preflight, a time-out or an answer that does not verify throws.
DispatchThrows(p) ==
  /\ st[p].pc \in {"dispatch", "waiting"}
  /\ IF st[p].fresh
     THEN AppendState(p, Operated(s, st[p].op, "unknown", TRUE, FALSE), Idle)
     ELSE Step(p, Idle)
  /\ UNCHANGED <<grant, admitted, receipts, world>>

\* Only an edit that passed, with its verified output, leaves a receipt.
DispatchReturns(p) ==
  /\ st[p].pc = "waiting" /\ st[p].op \notin sent /\ landed[st[p].op] > 0
  /\ \/ st[p].op \in done /\ Step(p, [st[p] EXCEPT !.pc = "receipt"])
     \/ st[p].op \notin done /\ Step(p, [st[p] EXCEPT !.pc = "ask"])
  /\ UNCHANGED <<grant, admitted, receipts, world>>

RecordReceipt(p) ==
  /\ Continue(p, "receipt") /\ Takes(s, "checkpoint")
  /\ AppendState(p, {s}, At("ask", st[p].op))
  /\ receipts' = [receipts EXCEPT ![st[p].op] = @ + 1]
  /\ UNCHANGED <<grant, admitted, world>>

\* Observation of the provider records the receipt the dispatcher did not.
ObserveProvider(p, o) ==
  /\ Command(p) /\ admitted[o] # None /\ o \in done /\ receipts[o] = 0
  /\ Takes(s, "checkpoint")
  /\ AppendState(p, {s}, At("ask", o))
  /\ receipts' = [receipts EXCEPT ![o] = 1]
  /\ UNCHANGED <<grant, admitted, world>>

-----------------------------------------------------------------------------
(* The world.                                                              *)

Land(o) ==
  /\ o \in sent
  /\ sent' = sent \ {o}
  /\ landed' = [landed EXCEPT ![o] = @ + 1]
  /\ \/ done' = done
     \/ KindOf[o] = "edit" /\ done' = done \cup {o}
  /\ UNCHANGED <<s, grant, admitted, receipts, st>>

Lose(o) ==
  /\ o \in sent
  /\ sent' = sent \ {o}
  /\ UNCHANGED <<s, grant, admitted, receipts, st, landed, done>>

-----------------------------------------------------------------------------
(* Reconciliation: the outcome is what the provider shows, and absence     *)
(* shows nothing.                                                          *)

\* An edit by its one durable receipt, which says that it passed.
ReceiptFound(o) == receipts[o] = 1
EditShown(o) == ReceiptFound(o) /\ o \in done

\* A pull request or a merge by itself, a projection by its comment.
ActionShown(o) == landed[o] = 1
CommentShown(o) == landed[o] = 1

Shows(o) ==
  CASE KindOf[o] = "edit"             -> EditShown(o)
    [] KindOf[o] = "merge"            -> ActionShown(o)
    [] KindOf[o] = "issue-projection" -> CommentShown(o)

StartReconcile(p, o) ==
  /\ Command(p) /\ admitted[o] # None /\ s.ops[o] \notin Outcomes
  /\ IF s.ops[o] = "none"
     THEN AppendState(p, Operated(s, o, "planned", TRUE, FALSE), At("lost", o))
     ELSE Step(p, At("ask", o))
  /\ UNCHANGED <<grant, admitted, receipts, world>>

\* An admission whose process died is unknown, not undone.
LostOperation(p) ==
  /\ Continue(p, "lost")
  /\ AppendState(p, Operated(s, st[p].op, "unknown", TRUE, FALSE), At("ask", st[p].op))
  /\ UNCHANGED <<grant, admitted, receipts, world>>

AskProvider(p) ==
  /\ st[p].pc = "ask"
  /\ Step(p, IF Shows(st[p].op) THEN [st[p] EXCEPT !.pc = "told"] ELSE Idle)
  /\ UNCHANGED <<grant, admitted, receipts, world>>

\* The run takes the provider's word on an operation that is still pending.
Reconciled(o) ==
  IF Takes(s, "delegation-safety") /\ s.ops[o] \notin Outcomes
  THEN {Refresh([s EXCEPT !.ops[o] = "confirmed"])} ELSE {}

RecordOutcome(p) ==
  /\ Continue(p, "told")
  /\ IF s.ops[st[p].op] \in Outcomes THEN Step(p, Idle)
     ELSE AppendState(p, Reconciled(st[p].op), Idle)
  /\ UNCHANGED <<grant, admitted, receipts, world>>

-----------------------------------------------------------------------------
(* publish: the projections of the run, one after the other.               *)

Publish(p, n) ==
  /\ Command(p) /\ s.ops[n] = "none"
  /\ \A m \in Projections : s.ops[m] # "none" => s.ops[m] = "confirmed" /\ CommentShown(m)
  /\ AppendState(p, Operated(s, n, "planned", FALSE, FALSE), At("publishing", n))
  /\ UNCHANGED <<grant, admitted, receipts, world>>

SubmitProjection(p) ==
  /\ Continue(p, "publishing")
  /\ AppendState(p, Operated(s, st[p].op, "submitted", FALSE, FALSE), At("post", st[p].op))
  /\ UNCHANGED <<grant, admitted, receipts, world>>

Post(p) ==
  /\ st[p].pc = "post"
  /\ Step(p, [st[p] EXCEPT !.pc = "posted"])
  /\ sent' = sent \cup {st[p].op}
  /\ UNCHANGED <<grant, admitted, receipts, landed, done>>

\* The comment is read back; an error, or its absence, leaves it unknown.
Posted(p, to) ==
  /\ Continue(p, "posted")
  /\ to = "confirmed" => CommentShown(st[p].op)
  /\ AppendState(p, Operated(s, st[p].op, to, FALSE, to = "confirmed"), Idle)
  /\ UNCHANGED <<grant, admitted, receipts, world>>

\* Publishing again only reconciles.
PublishAgain(p, n) ==
  /\ Command(p) /\ n \in Pending(s) /\ CommentShown(n)
  /\ AppendState(p, Operated(s, n, "confirmed", FALSE, TRUE), Idle)
  /\ UNCHANGED <<grant, admitted, receipts, world>>

-----------------------------------------------------------------------------
(* resume: every pending operation shows its outcome, or nothing happens.  *)

\* recoveryPlan is blocked by an operation whose outcome does not show.
Recoverable == \A q \in Pending(s) : Shows(q)

SettleForTakeover(p, o) ==
  /\ st[p].pc \in {"idle", "takeover"} /\ s.gen < MaxGen
  /\ o \in Pending(s) /\ Recoverable
  /\ AppendState(p, Operated(s, o, "confirmed", TRUE, TRUE), At("takeover", None))
  /\ UNCHANGED <<grant, admitted, receipts, world>>

Resume(p, invalidate) ==
  /\ st[p].pc \in {"idle", "takeover"} /\ s.gen < MaxGen
  /\ AppendState(p, Resumed(s, s.owner, invalidate), Idle)
  /\ UNCHANGED <<grant, admitted, receipts, world>>

\* The rest of the run: it pauses, or completes.
Halt(p) ==
  /\ Command(p)
  /\ AppendState(p, Halted(s, "paused") \cup Completed(s), Idle)
  /\ UNCHANGED <<grant, admitted, receipts, world>>

\* A process throws or dies; a lost answer to an append looks the same.
Abandon(p) ==
  /\ st[p].pc # "idle" /\ Step(p, Idle)
  /\ UNCHANGED <<grant, admitted, receipts, world>>

Next ==
  \/ \E p \in Procs :
       \/ \E g \in Grants :
            \/ IssueGrant(p, g) \/ RevokeGrant(p, g)
            \/ \E o \in Delegated : AdmitOperation(p, o, g)
       \/ PlanOperation(p) \/ SubmitOperation(p)
       \/ Dispatch(p) \/ DispatchThrows(p) \/ DispatchReturns(p) \/ RecordReceipt(p)
       \/ \E o \in Delegated : ObserveProvider(p, o) \/ StartReconcile(p, o)
       \/ LostOperation(p) \/ AskProvider(p) \/ RecordOutcome(p)
       \/ \E n \in Projections : Publish(p, n) \/ PublishAgain(p, n)
       \/ SubmitProjection(p) \/ Post(p) \/ \E to \in {"confirmed", "unknown"} : Posted(p, to)
       \/ \E o \in Ops : SettleForTakeover(p, o)
       \/ \E b \in BOOLEAN : Resume(p, b)
       \/ Halt(p) \/ Abandon(p)
  \/ \E g \in Grants : Expire(g)
  \/ \E o \in Ops : Land(o) \/ Lose(o)

Spec == Init /\ [][Next]_vars

-----------------------------------------------------------------------------
(* Properties.                                                             *)

\* However processes stall, die, retry and reconcile side by side, an
\* operation is sent at most once, and only after the run durably says so.
EffectOnce ==
  \A o \in Ops :
    /\ landed[o] + Cardinality(sent \cap {o}) <= 1
    /\ o \in sent \/ landed[o] > 0 => s.ops[o] \notin {"none", "planned"}

\* Once the run has recorded an operation's outcome, which a take-over
\* requires, no effect of it lands any more, not from a request that was
\* delayed nor from a process that stalled before sending it.
SettledIsFinal ==
  [][\A o \in Ops : landed'[o] # landed[o] => s.ops[o] \notin Outcomes]_vars

\* The admissions under a grant and all grants below it never exceed its
\* budget, and so neither do the effects that land.
BudgetConserved ==
  \A g \in Grants :
    LET under == {o \in Ops : admitted[o] # None /\ g \in Ancestors(admitted[o])}
    IN  /\ grant[g].usedA + grant[g].heldA <= MaxAttempts[g]
        /\ Cardinality(under) <= MaxAttempts[g]
        /\ Cardinality({o \in under : External(o)}) <= MaxEffects[g]

\* An operation that was not submitted when its grant, or one above it, was
\* revoked is never submitted, also when it was already admitted.
RevokedStopsSubmission ==
  [][\A o \in Delegated :
       s'.ops[o] = "submitted" /\ s.ops[o] # "submitted" =>
         \A h \in Ancestors(admitted[o]) : grant[h].status # "revoked"]_vars

\* The run's record binds what is done: nothing is submitted under a revoked grant,
\* and nothing lands once its outcome is recorded.
RecordBinds == SettledIsFinal /\ RevokedStopsSubmission
=============================================================================
