---------------------------- MODULE AdoptionLock ----------------------------
(***************************************************************************)
(* withAdoptionLock: processes that adopt, roll back or recover in one     *)
(* project take .agentflow-adoption.lock by an exclusive link.  A command  *)
(* with recovery may first reclaim the lock of a dead process: it claims   *)
(* the right to do so in a slot named by the hash of the dead owner's      *)
(* record, and of every dead claimant before it.  Every file system call   *)
(* is a step, a file is removed by its name whoever owns it, and a process *)
(* may die between any two calls.                                          *)
(***************************************************************************)
EXTENDS Naturals, Sequences, SequencesExt, FiniteSetsExt, Functions

CONSTANTS
  Procs,          \* processes on one host
  MaxDepth,       \* longest chain of claims (64 in the code)
  MaxCrashes      \* bound on the number of processes that die

\* "none" stands for a lock file that is not there.
ASSUME LockAssumption ==
  MaxDepth \in Nat \ {0} /\ MaxCrashes \in Nat /\ "none" \notin Procs

VARIABLES
  lock,           \* the owner recorded in the lock file, or Nobody
  claims,         \* recovery claims on disk: the hashed key and the claimant
  inc,            \* incarnation of each process
  ctl             \* where each process is in withAdoptionLock

lockVars == <<lock, claims, inc, ctl>>

Nobody == [p |-> "none", inc |-> 0]
Me(p) == [p |-> p, inc |-> inc[p]]
Outside == [pc |-> "out", key |-> <<>>]

LockInit ==
  /\ lock = Nobody /\ claims = {}
  /\ inc = [p \in Procs |-> 0]
  /\ ctl = [p \in Procs |-> Outside]

At(p, pc) == ctl[p].pc = pc
Inside(p) == At(p, "in")
Go(p, pc) == ctl' = [ctl EXCEPT ![p].pc = pc]

\* process.kill(pid, 0) answers ESRCH.
Stopped(owner) == owner.p \in Procs /\ owner.inc < inc[owner.p]

Crashes == FoldFunction(+, 0, inc)

\* With recovery an existing lock must belong to a dead process.
Enter(p, recovery) ==
  /\ At(p, "out")
  /\ IF recovery /\ lock # Nobody
     THEN Stopped(lock) /\ ctl' = [ctl EXCEPT ![p] = [pc |-> "claim", key |-> <<lock>>]]
     ELSE Go(p, "link")
  /\ UNCHANGED <<lock, claims, inc>>

Holder(key) == {c \in claims : c.key = key}

\* linkSync(staging, guardPath)
Claim(p) ==
  /\ At(p, "claim")
  /\ IF Holder(ctl[p].key) = {}
     THEN claims' = claims \cup {[key |-> ctl[p].key, by |-> Me(p)]} /\ Go(p, "check")
     ELSE UNCHANGED claims /\ Go(p, "inspect")
  /\ UNCHANGED <<lock, inc>>

\* The claimant found there must be dead; its record extends the key.
Inspect(p) ==
  /\ At(p, "inspect")
  /\ LET holder == Holder(ctl[p].key) IN
     ctl' = [ctl EXCEPT ![p] =
       IF Len(@.key) < MaxDepth /\ \E c \in holder : Stopped(c.by)
       THEN [pc |-> "claim", key |-> Append(@.key, (CHOOSE c \in holder : TRUE).by)]
       ELSE Outside]
  /\ UNCHANGED <<lock, claims, inc>>

\* Mutant: the lock is removed without reading it again under the claim.
BlindCheck(p) ==
  /\ At(p, "check") /\ Go(p, "reclaim")
  /\ UNCHANGED <<lock, claims, inc>>

\* Under the claim the lock must still hold the record first read.
Check(p) ==
  /\ At(p, "check")
  /\ Go(p, IF lock = Head(ctl[p].key) THEN "reclaim" ELSE "refuse")
  /\ UNCHANGED <<lock, claims, inc>>

Reclaim(p) ==
  /\ At(p, "reclaim")
  /\ lock' = Nobody /\ Go(p, "sweep")
  /\ UNCHANGED <<claims, inc>>

\* finally: the own claim is removed and, after a reclaim, the abandoned
\* ones, by name.
Sweep(p) ==
  /\ ctl[p].pc \in {"sweep", "refuse"}
  /\ claims' = claims \ Holder(ctl[p].key)
  /\ ctl' = [ctl EXCEPT ![p] =
       IF @.pc = "refuse" THEN Outside
       ELSE [pc |-> IF Len(@.key) = 1 THEN "link" ELSE "sweep", key |-> Front(@.key)]]
  /\ UNCHANGED <<lock, inc>>

\* linkSync(staging, path)
LinkLock(p) ==
  /\ At(p, "link")
  /\ IF lock = Nobody THEN lock' = Me(p) /\ Go(p, "in") ELSE UNCHANGED lock /\ Go(p, "out")
  /\ UNCHANGED <<claims, inc>>

\* The operation returned or threw.
Leave(p) ==
  /\ Inside(p)
  /\ lock' = Nobody /\ ctl' = [ctl EXCEPT ![p] = Outside]
  /\ UNCHANGED <<claims, inc>>

Die(p) ==
  /\ ~At(p, "out") /\ Crashes < MaxCrashes
  /\ inc' = [inc EXCEPT ![p] = @ + 1]
  /\ ctl' = [ctl EXCEPT ![p] = Outside]
  /\ UNCHANGED <<lock, claims>>

LockStep(p) ==
  Claim(p) \/ Inspect(p) \/ Check(p) \/ Reclaim(p) \/ Sweep(p) \/ LinkLock(p)

\* The lock by itself, around any operation.
LockNext ==
  \E p \in Procs :
    \/ \E recovery \in BOOLEAN : Enter(p, recovery)
    \/ LockStep(p) \/ Leave(p) \/ Die(p)

LockSpec == LockInit /\ [][LockNext]_lockVars

-----------------------------------------------------------------------------

\* However many processes reclaim a dead owner's lock, and however many of
\* them die on the way, no two operations run in the project at a time.
Exclusive ==
  \A p \in Procs : Inside(p) => lock = Me(p)

=============================================================================
