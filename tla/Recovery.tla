------------------------------ MODULE Recovery ------------------------------
(***************************************************************************)
(* recoverExecution (adapters/openrig/recovery.mjs): a failed execution is *)
(* retried later or moved to another provider.  The call classifies the    *)
(* failure, leaves a checkpoint of the attempt and of the continuation in  *)
(* the run's source, transfers the writer, executes one delegated          *)
(* operation and verifies what it reads back.  It may be started again     *)
(* after a crash or a timeout, and twice at once: what it knows it learns  *)
(* from the source.                                                        *)
(*                                                                         *)
(* A port call that times out is not cancelled: it may land later.  The    *)
(* run service of src/lib/application is used through the conditions its   *)
(* append puts on a revision and a writer.                                 *)
(***************************************************************************)
EXTENDS Naturals, FiniteSets

CONSTANTS
  Callers,      \* hosts that may run the recovery of this incident
  Policies,     \* [name, maxAttempts]
  Failures,     \* structured errors: [code, status]
  MaxStarts,    \* bound on the recoveries started
  MaxForeign    \* bound on what others do to the run meanwhile

ASSUME RecoveryAssumption ==
  /\ Policies # {} /\ \A p \in Policies : p.maxAttempts \in Nat
  /\ "nobody" \notin Callers
  /\ MaxStarts \in Nat /\ MaxForeign \in Nat

VARIABLES
  run,          \* the run as its source holds it
  artifacts,    \* the artifact digests on disk
  call,         \* each caller's progress and snapshot
  flying,       \* appends and effects issued and not yet landed
  dispatched,   \* history: how often the operation reached the provider
  transfers,    \* history: how often this incident moved the writer
  renewals,     \* history: custody renewals that gave a call a newer snapshot
  recovered,    \* history: what the run was when a call reported success
  starts, foreign

recoveryVars == <<run, artifacts, call, flying, dispatched, transfers, renewals,
          recovered, starts, foreign>>

Old == "old"
New == "new"
NoAnchor == [none |-> TRUE]

-----------------------------------------------------------------------------
(* Classification, by the error's identity and not its prose.              *)

classifyExecutionFailure(e) ==
  CASE e.code = "insufficient_quota" -> "quota-exhausted"
    [] e.code = "invalid_api_key" \/ (e.status = 401 /\ e.code # "insufficient_quota")
         -> "authentication"
    [] e.code = "" /\ e.status = 429 -> "temporary-rate-limit"
    [] e.code = "" /\ e.status = 503 -> "provider-unavailable"
    [] OTHER -> "unknown"

Transient == {"temporary-rate-limit", "provider-unavailable"}

Recoverable(class) == class \in Transient \cup {"quota-exhausted"}

-----------------------------------------------------------------------------
(* The run.                                                                *)

Scope(r) == <<r.gen, r.epoch, r.cand>>

\* Custody of the oracle is a receipt for this generation, epoch and candidate.
activeOracleCustody(r) == r.custody = Scope(r)

InitRecovery ==
  /\ run = [rev |-> 0, owner |-> Old, gen |-> 0, epoch |-> 0, cand |-> 0,
            custody |-> <<0, 0, 0>>, attempts |-> 0, policies |-> {},
            anchor |-> NoAnchor, moved |-> FALSE, adm |-> "none"]
  /\ artifacts = 0
  /\ call = [c \in Callers |-> [pc |-> "idle"]]
  /\ flying = {} /\ dispatched = 0 /\ transfers = 0 /\ renewals = 0 /\ recovered = {}
  /\ starts = 0 /\ foreign = 0

IdleCaller == [pc |-> "idle"]
Hold(c) == call' = [call EXCEPT ![c] = IdleCaller]
Goto(c, pc) == call' = [call EXCEPT ![c].pc = pc]

\* append: the expected revision, and the generation of the caller's authority.
Admissible(r, f) == r.rev = f.rev /\ r.gen = f.gen

Issue(c, f) == flying' = flying \cup {[f EXCEPT !.by = c]}

-----------------------------------------------------------------------------
(* A call begins: its inputs are copied, its failure is classified.  The   *)
(* caller prepared the operation's options from the run it saw.            *)

\* The writer was already moved by this incident, and nobody moved it since.
continues(r) ==
  r.anchor # NoAnchor /\ r.moved /\ r.gen = r.anchor.from + 1 /\ r.owner = New

Start(c, e, policy) ==
  /\ call[c].pc = "idle" /\ starts < MaxStarts
  /\ Recoverable(classifyExecutionFailure(e))
  /\ starts' = starts + 1
  /\ call' = [call EXCEPT ![c] =
       [pc |-> "read", class |-> classifyExecutionFailure(e), policy |-> policy,
        opts |-> [rev |-> run.rev, gen |-> IF continues(run) THEN run.gen ELSE run.gen + 1],
        snap |-> NoAnchor, art |-> 0]]
  /\ UNCHANGED <<run, artifacts, flying, dispatched, transfers, renewals, recovered, foreign>>

\* An incident keeps the policy it was first met with.
policyUnchanged(r, p) == r.policies \subseteq {p}

attemptsLeft(r, p) == r.anchor # NoAnchor \/ r.attempts < p.maxAttempts

\* The anchor of an interrupted recovery binds what it was about.
anchorHolds(r, p) ==
  r.anchor # NoAnchor =>
    /\ r.anchor.policy = p
    /\ r.anchor.epoch = r.epoch /\ r.anchor.cand = r.cand

\* Otherwise the writer is still the one the recovery began with.
begins(r) ==
  IF r.anchor = NoAnchor THEN r.owner # New
  ELSE r.gen = r.anchor.from /\ r.owner = r.anchor.owner

optionsCurrent(o, r) ==
  o.rev = r.rev /\ o.gen = (IF continues(r) THEN r.gen ELSE r.gen + 1)

readSource(c) ==
  /\ call[c].pc = "read"
  /\ LET s == call[c]
         mayAct == policyUnchanged(run, s.policy) /\ attemptsLeft(run, s.policy)
     IN \/ /\ run.adm # "none"            \* reconcile first, dispatch never
           /\ policyUnchanged(run, s.policy)
           /\ call' = [call EXCEPT ![c].pc = "settle", ![c].snap = run]
        \/ /\ run.adm = "none" /\ mayAct /\ s.class \in Transient /\ run.anchor = NoAnchor
           /\ call' = [call EXCEPT ![c].pc = "attempt", ![c].snap = run]
        \/ /\ run.adm = "none" /\ mayAct /\ s.class = "quota-exhausted"
           /\ anchorHolds(run, s.policy)
           /\ continues(run) \/ begins(run)
           /\ optionsCurrent(s.opts, run)
           /\ call' = [call EXCEPT ![c].pc = "custody", ![c].snap = run]
        \/ /\ ~ (policyUnchanged(run, s.policy) /\ (run.adm # "none" \/ mayAct))
           /\ Hold(c)
  /\ UNCHANGED <<run, artifacts, flying, dispatched, transfers, renewals, recovered, starts, foreign>>

-----------------------------------------------------------------------------
(* Checkpoints of attempts.                                                *)

\* persistAttempt: the checkpoint names the revision the snapshot was read at.
persistAttempt(c, anchor, next) ==
  /\ Issue(c, [kind |-> "checkpoint", by |-> c, rev |-> call[c].snap.rev,
               gen |-> call[c].snap.gen, policy |-> call[c].policy, anchor |-> anchor])
  /\ Goto(c, next)
  /\ UNCHANGED <<run, artifacts, dispatched, transfers, renewals, recovered, starts, foreign>>

RetryLater(c) ==
  /\ call[c].pc = "attempt"
  /\ persistAttempt(c, NoAnchor, "attempted")

ensureCustody(c, from, to) ==
  /\ call[c].pc = from
  /\ \/ /\ activeOracleCustody(call[c].snap)
        /\ Goto(c, to) /\ UNCHANGED <<run, renewals>>
     \/ /\ ~activeOracleCustody(call[c].snap)
        /\ LET renewed == [run EXCEPT !.custody = Scope(run), !.rev = @ + 1]
           IN /\ run' = renewed
              /\ renewals' = renewals + 1
              /\ IF Scope(run) = Scope(call[c].snap) /\ run.owner = call[c].snap.owner
                 THEN call' = [call EXCEPT ![c].pc = to, ![c].snap = renewed]
                 ELSE Hold(c)
  /\ UNCHANGED <<artifacts, flying, dispatched, transfers, recovered, starts, foreign>>

\* The host's evidence is about the revision the call read; it names the
\* artifacts, which must be those of the anchor.
inspectRecoveryContext(c) ==
  /\ call[c].pc = "inspect"
  /\ LET r == call[c].snap
     IN IF run.rev # r.rev \/ (r.anchor # NoAnchor /\ r.anchor.art # artifacts)
        THEN Hold(c)
        ELSE call' = [call EXCEPT ![c].art = artifacts,
               ![c].pc = IF r.anchor = NoAnchor THEN "anchor"
                         ELSE IF continues(r) THEN "verify" ELSE "plan"]
  /\ UNCHANGED <<run, artifacts, flying, dispatched, transfers, renewals, recovered, starts, foreign>>

PersistAnchor(c) ==
  LET r == call[c].snap
  IN /\ call[c].pc = "anchor"
     /\ persistAttempt(c, [policy |-> call[c].policy, from |-> r.gen, owner |-> r.owner,
                           epoch |-> r.epoch, cand |-> r.cand, art |-> call[c].art],
                       "anchored")

-----------------------------------------------------------------------------
(* The writer's transfer.  The plan is made of the run as it is then; the  *)
(* authority is of the generation the caller expects to take over.         *)

\* Mutant: the transfer asks nothing of the generation it replaces.
ResumeAnyGeneration(c) ==
  /\ call[c].pc = "plan" /\ run.adm \in {"none", "confirmed", "failed"}
  /\ Issue(c, [kind |-> "resume", by |-> c, rev |-> run.rev, gen |-> run.gen])
  /\ Goto(c, "resumed")
  /\ UNCHANGED <<run, artifacts, dispatched, transfers, renewals, recovered, starts, foreign>>

ResumeCall(c) ==
  /\ call[c].pc = "plan" /\ run.adm \in {"none", "confirmed", "failed"}
  /\ Issue(c, [kind |-> "resume", by |-> c, rev |-> run.rev, gen |-> call[c].opts.gen - 1])
  /\ Goto(c, "resumed")
  /\ UNCHANGED <<run, artifacts, dispatched, transfers, renewals, recovered, starts, foreign>>

\* The replacement writer is the one the options name, and nothing the anchor
\* fixed has changed.
VerifyWriter(c) ==
  /\ call[c].pc = "verify"
  /\ LET r == call[c].snap
     IN IF r.owner = New /\ r.gen = call[c].opts.gen /\ r.anchor # NoAnchor
           /\ r.anchor.epoch = r.epoch /\ r.anchor.cand = r.cand
        THEN Goto(c, "custody2") ELSE Hold(c)
  /\ UNCHANGED <<run, artifacts, flying, dispatched, transfers, renewals, recovered, starts, foreign>>

InspectAgain(c) ==
  /\ call[c].pc = "inspect2"
  /\ IF run.rev = call[c].snap.rev /\ artifacts = call[c].snap.anchor.art
     THEN call' = [call EXCEPT ![c].pc = "execute", ![c].art = artifacts]
     ELSE Hold(c)
  /\ UNCHANGED <<run, artifacts, flying, dispatched, transfers, renewals, recovered, starts, foreign>>

-----------------------------------------------------------------------------
(* The delegated operation: admitted, recorded as submitted, dispatched.   *)

Execute(c) ==
  /\ call[c].pc = "execute"
  /\ Issue(c, [kind |-> "admit", by |-> c, rev |-> call[c].snap.rev, gen |-> call[c].opts.gen])
  /\ Goto(c, "executing")
  /\ UNCHANGED <<run, artifacts, dispatched, transfers, renewals, recovered, starts, foreign>>

\* reconcileDelegatedOperation: an admission without a submission is closed by
\* an append, so a submission still in flight finds another revision.  The
\* provider answers truthfully: confirmed when it was reached, failed only
\* when it no longer can be.
Reconciled(r) ==
  IF r.adm \in {"confirmed", "failed", "none"} THEN {r}
  ELSE LET closed == IF r.adm = "admitted" THEN [r EXCEPT !.adm = "unknown", !.rev = @ + 1] ELSE r
       IN {closed}
          \cup (IF dispatched > 0 THEN {[closed EXCEPT !.adm = "confirmed", !.rev = @ + 1]} ELSE {})
          \cup (IF dispatched = 0 /\ ~\E f \in flying : f.kind = "dispatch"
                THEN {[closed EXCEPT !.adm = "failed", !.rev = @ + 1]} ELSE {})

\* Of an earlier call's operation: always held.
reconcileDelegatedOperation(c) ==
  /\ call[c].pc = "settle"
  /\ run' \in Reconciled(run)
  /\ Hold(c)
  /\ UNCHANGED <<artifacts, flying, dispatched, transfers, renewals, recovered, starts, foreign>>

\* Of the call's own operation, whether its execution returned or timed out.
ReconcileOwn(c) ==
  /\ call[c].pc \in {"executing", "reconcile"}
  /\ run.owner = New /\ run.gen = call[c].opts.gen
  /\ run' \in Reconciled(run)
  /\ IF run'.adm = "confirmed" THEN Goto(c, "final") ELSE Hold(c)
  /\ UNCHANGED <<artifacts, flying, dispatched, transfers, renewals, recovered, starts, foreign>>

ReadFinal(c) ==
  /\ call[c].pc = "final"
  /\ call' = [call EXCEPT ![c].pc = "readback", ![c].snap = run]
  /\ UNCHANGED <<run, artifacts, flying, dispatched, transfers, renewals, recovered, starts, foreign>>

\* The host reads back that the replacement's contract is in force.
Readback(c) ==
  /\ call[c].pc = "readback"
  /\ IF run.rev = call[c].snap.rev /\ run.owner = New /\ artifacts = call[c].art
     THEN Goto(c, "current") ELSE Hold(c)
  /\ UNCHANGED <<run, artifacts, flying, dispatched, transfers, renewals, recovered, starts, foreign>>

\* Mutant: the source is not read once more after the readback.
stillCurrentAssumed(c) == TRUE

stillCurrent(c) == run.rev = call[c].snap.rev /\ activeOracleCustody(run)

Recovered(c) ==
  /\ call[c].pc = "current"
  /\ Hold(c)
  /\ recovered' = IF stillCurrent(c)
                  THEN recovered \cup {[run |-> run, anchor |-> call[c].snap.anchor]}
                  ELSE recovered
  /\ UNCHANGED <<run, artifacts, flying, dispatched, transfers, renewals, starts, foreign>>

-----------------------------------------------------------------------------
(* What was issued lands, or is refused; a call that still waits for it    *)
(* goes on with the source read again, or is held.                         *)

NextPc == [attempted |-> "idle", anchored |-> "plan", resumed |-> "verify"]

\* An append that a call gave up on reaches nobody.
WaitingCaller(f) ==
  /\ f.by \in Callers
  /\ \/ f.kind = "checkpoint" /\ call[f.by].pc \in {"attempted", "anchored"}
     \/ f.kind = "resume" /\ call[f.by].pc = "resumed"

Applied(r, f) ==
  CASE f.kind = "checkpoint" ->
         [r EXCEPT !.rev = @ + 1, !.attempts = @ + 1, !.policies = @ \cup {f.policy},
                   !.anchor = IF f.anchor = NoAnchor THEN @ ELSE f.anchor]
    [] f.kind = "resume" ->
         [r EXCEPT !.rev = @ + 1, !.owner = New, !.gen = @ + 1, !.moved = TRUE]
    [] f.kind = "admit" -> [r EXCEPT !.rev = @ + 1, !.adm = "admitted"]
    [] f.kind = "submit" -> [r EXCEPT !.rev = @ + 1, !.adm = "submitted"]

Lands(f) == Admissible(run, f) /\ (f.kind = "admit" => run.adm = "none")

LandCall(f) ==
  /\ f \in flying /\ f.kind # "dispatch"
  /\ Lands(f)
  /\ run' = Applied(run, f)
  /\ flying' = (flying \ {f}) \cup
       CASE f.kind = "admit" -> {[f EXCEPT !.kind = "submit", !.rev = run'.rev]}
         [] f.kind = "submit" -> {[f EXCEPT !.kind = "dispatch", !.rev = run'.rev]}
         [] OTHER -> {}
  /\ transfers' = transfers + (IF f.kind = "resume" THEN 1 ELSE 0)
  /\ IF ~WaitingCaller(f) THEN UNCHANGED call
     ELSE IF NextPc[call[f.by].pc] = "idle" THEN Hold(f.by)
     ELSE call' = [call EXCEPT ![f.by].pc = NextPc[@], ![f.by].snap = run']
  /\ UNCHANGED <<artifacts, dispatched, renewals, recovered, starts, foreign>>

Dispatch(f) ==
  /\ f \in flying /\ f.kind = "dispatch"
  /\ flying' = flying \ {f} /\ dispatched' = dispatched + 1
  /\ call' = IF f.by \in Callers /\ call[f.by].pc = "executing"
             THEN [call EXCEPT ![f.by].pc = "reconcile"] ELSE call
  /\ UNCHANGED <<run, artifacts, transfers, renewals, recovered, starts, foreign>>

\* An append the source refuses, an effect that never reaches the provider.
Refused(f) ==
  /\ f \in flying
  /\ f.kind = "dispatch" \/ ~Lands(f)
  /\ flying' = flying \ {f}
  /\ call' = IF WaitingCaller(f) THEN [call EXCEPT ![f.by] = IdleCaller]
             ELSE IF f.by \in Callers /\ call[f.by].pc = "executing"
             THEN [call EXCEPT ![f.by].pc = "reconcile"] ELSE call
  /\ UNCHANGED <<run, artifacts, dispatched, transfers, renewals, recovered, starts, foreign>>

\* A port times out, or the host crashes: the call ends where it is.  What it
\* issued is not called back.
AbandonCall(c) ==
  /\ call[c].pc # "idle"
  /\ Hold(c)
  /\ flying' = {IF f.by = c THEN [f EXCEPT !.by = "nobody"] ELSE f : f \in flying}
  /\ UNCHANGED <<run, artifacts, dispatched, transfers, renewals, recovered, starts, foreign>>

-----------------------------------------------------------------------------
(* Others act on the run: a revocation, a new candidate, a takeover by     *)
(* another writer; or the files change.                                    *)

ForeignEvent(kind) ==
  /\ foreign < MaxForeign /\ foreign' = foreign + 1
  /\ run' = CASE kind = "revoke" -> [run EXCEPT !.rev = @ + 1, !.epoch = @ + 1]
              [] kind = "candidate" -> [run EXCEPT !.rev = @ + 1, !.cand = @ + 1]
              [] kind = "takeover" ->
                   [run EXCEPT !.rev = @ + 1, !.owner = "other", !.gen = @ + 1]
              [] kind = "edit" -> run
  /\ artifacts' = IF kind = "edit" THEN artifacts + 1 ELSE artifacts
  /\ UNCHANGED <<call, flying, dispatched, transfers, renewals, recovered, starts>>

NextRecovery ==
  \/ \E c \in Callers :
       \/ \E e \in Failures, p \in Policies : Start(c, e, p)
       \/ readSource(c) \/ RetryLater(c)
       \/ ensureCustody(c, "custody", "inspect") \/ inspectRecoveryContext(c)
       \/ PersistAnchor(c) \/ ResumeCall(c) \/ VerifyWriter(c)
       \/ ensureCustody(c, "custody2", "inspect2") \/ InspectAgain(c) \/ Execute(c)
       \/ reconcileDelegatedOperation(c) \/ ReconcileOwn(c)
       \/ ReadFinal(c) \/ Readback(c) \/ Recovered(c) \/ AbandonCall(c)
  \/ \E f \in flying : LandCall(f) \/ Dispatch(f) \/ Refused(f)
  \/ \E k \in {"revoke", "candidate", "takeover", "edit"} : ForeignEvent(k)

RecoverySpec == InitRecovery /\ [][NextRecovery]_recoveryVars

-----------------------------------------------------------------------------
(* Properties.                                                             *)

\* However often the recovery of an incident is started, at once or after a
\* crash or timeout, the operation reaches the provider at most once and the
\* writer is moved at most once (the reconciliation before any dispatch, the
\* continuation anchor, and the revision every append names).
ActsOnce == dispatched <= 1 /\ transfers <= 1

\* An incident keeps to its policy: no more attempts are recorded than the one
\* policy it was met with allows, counting those of concurrent and of crashed
\* calls (persistAttempt against the snapshot's revision).  The one leak: a
\* call that renews custody goes on with a newer snapshot whose attempts and
\* policy it does not check again, so each renewal may let one more through.
AttemptsBounded ==
  /\ Cardinality(run.policies) <= 1 + renewals
  /\ \A p \in run.policies : renewals = 0 => run.attempts <= p.maxAttempts
  /\ \E p \in Policies : run.attempts <= p.maxAttempts + renewals

\* Success is reported of the run as it then is: the operation confirmed, the
\* writer the replacement and of the one generation the recovery was anchored
\* to take, with custody of the oracle in that generation and for the candidate
\* and epoch of that moment (the checks after the readback).
RecoveredTruthfully ==
  \A h \in recovered :
    /\ h.run.adm = "confirmed" /\ h.run.owner = New
    /\ h.run.gen = h.anchor.from + 1
    /\ activeOracleCustody(h.run)

\* The recovery of an incident stays bounded: one dispatch, one transfer, and the
\* attempts its policy allows.
RecoveryBounded == ActsOnce /\ AttemptsBounded
=============================================================================
