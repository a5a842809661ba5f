------------------------------ MODULE Adoption ------------------------------
(***************************************************************************)
(* Adoption as a recoverable transaction on a project's files: apply,      *)
(* rollback and recover under the adoption lock, with a write-ahead        *)
(* journal, staged replacement, backups and a durable receipt.  A call may *)
(* fail at any step (the handlers then run), a process may die at any      *)
(* step, and authors edit files between operations, also while a           *)
(* transaction waits for recovery.  They do not edit during an operation.  *)
(***************************************************************************)
EXTENDS AdoptionLock, AdoptionPlan

CONSTANTS
  MaxPackage,     \* package versions
  Previews,       \* profile and configuration chosen when adopting a version
  MaxEdits,       \* edits by authors
  MaxInstalls     \* adoptions that reach their receipt

ASSUME AdoptionAssumption ==
  MaxPackage \in Nat \ {0} /\ MaxEdits \in Nat /\ MaxInstalls \in Nat

VARIABLES
  disk,           \* the project's files
  tmp, bak,       \* staged and backup files of the journalled transaction
  journal,        \* the adoption or the rollback journal: operation and mutations
  durable,        \* the outstanding transaction's receipt is at its destination
  receipts,       \* receipts on disk, in the order they were written
  package,        \* version of the package adopted from
  edits,
  touched,        \* files edited since the outstanding journal was opened
  job             \* what each process does inside the lock

files == <<disk, tmp, bak>>
records == <<journal, durable, receipts>>
world == <<package, edits, touched>>
body == <<files, records, world, job>>
vars == <<lockVars, body>>

NoJournal == [op |-> "none", muts |-> <<>>, id |-> 0]
NoPlan == [opts |-> [profile |-> "none"]]

\* What is left to do are files in an adoption, positions in the journal in a
\* recovery or a rollback.
Idle == [op |-> "none", step |-> "none", plan |-> NoPlan, id |-> 0, todo |-> {},
         done |-> <<>>]

\* A project before its first adoption: empty, with a file of its own where
\* the package has one, with a former version's lock, or with an unreadable
\* one.
Fresh ==
  LET doc == Head(Payload)
      with(c, l) == [f \in Files |-> IF f = LockFile THEN l ELSE IF f = doc THEN c ELSE Absent]
  IN  {with(Absent, Absent), with(Authored(0), Absent), with(Authored(0), Unknown),
       with(Packaged(1), Legacy(doc :> Entry("managed", "managed", Packaged(1))))}

Init ==
  /\ LockInit
  /\ disk \in Fresh
  /\ tmp = [f \in Files |-> Absent] /\ bak = [f \in Files |-> Absent]
  /\ journal = NoJournal /\ durable = FALSE /\ receipts = <<>>
  /\ package = 1 /\ edits = 0 /\ touched = {}
  /\ job = [p \in Procs |-> Idle]

Doing(p, op, step) == Inside(p) /\ job[p].op = op /\ job[p].step = step

Do(p, j) == job' = [job EXCEPT ![p] = j]
Stay == UNCHANGED lockVars

\* The operation returns or throws; withAdoptionLock releases the lock.
Exit(p) == Leave(p) /\ Do(p, Idle)

Mutation(f, before, after) == [path |-> f, before |-> before, after |-> after]

\* A rename or a write of one file.
Put(file, f, c) == [file EXCEPT ![f] = c]

-----------------------------------------------------------------------------
(* Commands.                                                               *)

Conflicts(opts) ==
  {f \in Profiles[opts.profile] :
     ActionForManaged(LockEntries(disk[LockFile]), f, disk[f], opts.package) = "conflict"}

\* A preview the person confirms; conflicts are resolved one way or the other.
Options ==
  LET base(c) == [profile |-> c.profile, choice |-> c.choice, package |-> package,
                  resolutions |-> <<>>]
  IN  {[base(c) EXCEPT !.resolutions = [f \in Conflicts(base(c)) |-> r]] :
         c \in Previews[package], r \in {"preserve", "replace"}}

\* applyAdoption: the plan is made, confirmed and found fresh before the lock.
BeginAdopt(p) ==
  /\ At(p, "out") /\ journal = NoJournal /\ Len(receipts) < MaxInstalls
  /\ Enter(p, FALSE)
  /\ \E opts \in Options :
       LET plan == Plan(disk, opts) IN
       /\ LockReadable(disk[LockFile], TRUE)
       /\ ResolutionsValid(disk, opts) /\ ~Blocked(plan)
       /\ Do(p, [Idle EXCEPT !.op = "adopt", !.step = "start", !.plan = plan])
  /\ UNCHANGED <<files, records, world>>

BeginRecover(p) ==
  /\ journal # NoJournal
  /\ Enter(p, TRUE)
  /\ Do(p, [Idle EXCEPT !.op = "recover", !.step = "start"])
  /\ UNCHANGED <<files, records, world>>

BeginRollback(p, i) ==
  /\ Enter(p, TRUE)
  /\ Do(p, [Idle EXCEPT !.op = "rollback", !.step = "start", !.id = i])
  /\ UNCHANGED <<files, records, world>>

\* A process that did not get the lock gave up.
Locking(p) ==
  /\ LockStep(p)
  /\ Do(p, IF ctl'[p].pc = "out" THEN Idle ELSE job[p])
  /\ UNCHANGED <<files, records, world>>

-----------------------------------------------------------------------------
(* applyAdoptionUnlocked.                                                  *)

\* The plan is made again under the lock, and the journal header written.
StartAdopt(p) ==
  /\ Doing(p, "adopt", "start")
  /\ LET plan == job[p].plan IN
     IF journal # NoJournal \/ Plan(disk, plan.opts) # plan \/ Unchanged(plan)
     THEN Exit(p) /\ UNCHANGED <<journal, touched>>
     ELSE /\ journal' = [op |-> "adopt", muts |-> <<>>, id |-> Len(receipts) + 1]
          /\ touched' = {}
          /\ Do(p, [job[p] EXCEPT !.step = "prepare",
                                  !.todo = Changes(plan) \cup {LockFile}])
          /\ Stay
  /\ UNCHANGED <<files, durable, receipts, package, edits>>

\* The files of a plan are taken in the order of the payload, the lock last.
Position(f) ==
  IF f = LockFile THEN Len(Payload) + 1 ELSE CHOOSE i \in DOMAIN Payload : Payload[i] = f

FirstIn(set, f) == \A g \in set \ {f} : Position(f) < Position(g)

After(p, f) == IF f = LockFile THEN NewLock(job[p].plan) ELSE job[p].plan.actions[f].after

\* Mutant: the mutation is journalled once it is done.
PrepareLate(p) ==
  /\ Doing(p, "adopt", "prepare")
  /\ \E f \in job[p].todo :
       /\ FirstIn(job[p].todo, f)
       /\ Do(p, [job[p] EXCEPT !.step = "stage", !.todo = @ \ {f},
                               !.done = Append(@, Mutation(f, disk[f], After(p, f)))])
  /\ Stay /\ UNCHANGED <<files, records, world>>

\* replaceFile: the mutation is journalled ...
Prepare(p) ==
  /\ Doing(p, "adopt", "prepare")
  /\ \E f \in job[p].todo :
       LET m == Mutation(f, disk[f], After(p, f)) IN
       /\ FirstIn(job[p].todo, f)
       /\ journal' = [journal EXCEPT !.muts = Append(@, m)]
       /\ Do(p, [job[p] EXCEPT !.step = "stage", !.todo = @ \ {f}, !.done = Append(@, m)])
  /\ Stay /\ UNCHANGED <<files, durable, receipts, world>>

\* ... the content staged beside the target ...
Stage(p) ==
  /\ Doing(p, "adopt", "stage")
  /\ LET m == Last(job[p].done) IN tmp' = Put(tmp, m.path, m.after)
  /\ Do(p, [job[p] EXCEPT !.step = "aside"])
  /\ Stay /\ UNCHANGED <<disk, bak, records, world>>

\* ... the target set aside, if there is one ...
SetAside(p) ==
  /\ Doing(p, "adopt", "aside")
  /\ LET m == Last(job[p].done) IN
     /\ disk' = Put(disk, m.path, Absent)
     /\ bak' = Put(bak, m.path, m.before)
  /\ Do(p, [job[p] EXCEPT !.step = "replace"])
  /\ Stay /\ UNCHANGED <<tmp, records, world>>

\* ... and the staged file renamed over it.
Replace(p) ==
  /\ Doing(p, "adopt", "replace")
  /\ LET m == Last(job[p].done) IN
     /\ disk' = Put(disk, m.path, tmp[m.path])
     /\ tmp' = Put(tmp, m.path, Absent)
  /\ Do(p, [job[p] EXCEPT !.step = "prepare"])
  /\ Stay /\ UNCHANGED <<bak, records, world>>

\* Mutant: the receipt is written before the lock file is replaced.
WriteReceiptEarly(p) ==
  /\ Doing(p, "adopt", "prepare") /\ job[p].todo = {LockFile} /\ ~durable
  /\ durable' = TRUE
  /\ LET m == Mutation(LockFile, disk[LockFile], After(p, LockFile)) IN
     /\ journal' = [journal EXCEPT !.muts = Append(@, m)]
     /\ receipts' = Append(receipts, [plan |-> job[p].plan, muts |-> Append(job[p].done, m)])
  /\ Stay /\ UNCHANGED <<files, world, job>>

\* The receipt is renamed to its destination before a backup is removed.
WriteReceipt(p) ==
  /\ Doing(p, "adopt", "prepare") /\ job[p].todo = {}
  /\ durable' = TRUE
  /\ receipts' = Append(receipts, [plan |-> job[p].plan, muts |-> job[p].done])
  /\ Do(p, [job[p] EXCEPT !.step = "cleanup"])
  /\ Stay /\ UNCHANGED <<files, journal, world>>

\* Backups, and in a recovery staged files too, go one by one ...
Artifacts == {f \in Files : bak[f] # Absent \/ tmp[f] # Absent}

RemoveArtifact(p) ==
  /\ Doing(p, "adopt", "cleanup") \/ Doing(p, "recover", "cleanup")
  /\ \E f \in Artifacts :
       /\ FirstIn(Artifacts, f)
       /\ bak' = Put(bak, f, Absent)
       /\ tmp' = Put(tmp, f, Absent)
  /\ Stay /\ UNCHANGED <<disk, records, world, job>>

\* ... and the journal last.
CloseJournal(p) ==
  /\ journal' = NoJournal /\ durable' = FALSE /\ touched' = {}
  /\ Exit(p)
  /\ UNCHANGED <<files, receipts, package, edits>>

Finish(p) ==
  /\ \/ Doing(p, "adopt", "cleanup") \/ Doing(p, "recover", "cleanup")
  /\ Artifacts = {}
  /\ CloseJournal(p)

\* A step throws before the receipt is durable: replaceFile undoes its own
\* renames ...
ApplyFails(p) ==
  /\ \E s \in {"prepare", "stage", "aside", "replace"} : Doing(p, "adopt", s)
  /\ LET f == IF job[p].done = <<>> THEN LockFile ELSE Last(job[p].done).path
         begun == job[p].step # "prepare"
     IN  /\ tmp' = IF begun THEN Put(tmp, f, Absent) ELSE tmp
         /\ IF job[p].step = "replace"
            THEN disk' = Put(disk, f, bak[f]) /\ bak' = Put(bak, f, Absent)
            ELSE UNCHANGED <<disk, bak>>
         /\ Do(p, [job[p] EXCEPT !.step = "undo", !.done = IF begun THEN Front(@) ELSE @])
  /\ Stay /\ UNCHANGED <<records, world>>

\* ... and rollbackApplied the files already replaced, last first: the new
\* file is removed ...
UndoRemove(p) ==
  /\ Doing(p, "adopt", "undo") /\ job[p].done # <<>>
  /\ disk' = Put(disk, Last(job[p].done).path, Absent)
  /\ Do(p, [job[p] EXCEPT !.step = "putback"])
  /\ Stay /\ UNCHANGED <<tmp, bak, records, world>>

\* ... and the backup takes its place.
UndoPutBack(p) ==
  /\ Doing(p, "adopt", "putback")
  /\ LET f == Last(job[p].done).path IN
     disk' = Put(disk, f, bak[f]) /\ bak' = Put(bak, f, Absent)
  /\ Do(p, [job[p] EXCEPT !.step = "undo", !.done = Front(@)])
  /\ Stay /\ UNCHANGED <<tmp, records, world>>

UndoFinish(p) ==
  /\ Doing(p, "adopt", "undo") /\ job[p].done = <<>>
  /\ CloseJournal(p)

\* A step throws inside a handler or a cleanup: the journal stays.
Abandon(p) ==
  /\ \E s \in {"undo", "putback", "cleanup"} :
       Doing(p, "adopt", s) \/ Doing(p, "recover", s)
  /\ Exit(p)
  /\ UNCHANGED <<files, records, world>>

-----------------------------------------------------------------------------
(* recoverAdoptionUnlocked.                                                *)

Intact(m) == disk[m.path] \in {m.before, m.after, Absent}

\* What has to be put back: the installed files and the missing ones.
Restorable(ms) ==
  {i \in DOMAIN ms : \/ disk[ms[i].path] = ms[i].after
                     \/ disk[ms[i].path] = Absent /\ ms[i].before # Absent}

\* A durable receipt finalizes the adoption, if nothing drifted; without one
\* every file must be the old one, the new one or missing.
StartRecover(p) ==
  /\ Doing(p, "recover", "start")
  /\ LET j == job[p]
         next ==
           CASE journal.op = "rollback" ->
                  {[j EXCEPT !.op = "rollback", !.id = journal.id]}
             [] journal.op = "adopt" /\ durable
                /\ (\A i \in DOMAIN journal.muts :
                      disk[journal.muts[i].path] = journal.muts[i].after) ->
                  {[j EXCEPT !.step = "cleanup"]}
             [] journal.op = "adopt" /\ ~durable
                /\ (\A i \in DOMAIN journal.muts : Intact(journal.muts[i])) ->
                  {[j EXCEPT !.step = "restore", !.todo = Restorable(journal.muts)]}
             [] OTHER -> {}
     IN  IF next = {} THEN Exit(p) ELSE Stay /\ \E n \in next : Do(p, n)
  /\ UNCHANGED <<files, records, world>>

\* restoreMutationSet, in the order of the journal (its caller and it reverse
\* the list): the file is set aside under a fresh name that only this process
\* knows ...
RestoreAside(p) ==
  /\ Doing(p, "recover", "restore")
  /\ \E i \in job[p].todo :
       LET m == journal.muts[i] IN
       /\ \A k \in job[p].todo : i <= k
       /\ disk' = Put(disk, m.path, Absent)
       /\ Do(p, [job[p] EXCEPT !.step = "place", !.todo = @ \ {i},
                               !.done = Append(@, Mutation(m.path, disk[m.path], m.before))])
  /\ Stay /\ UNCHANGED <<tmp, bak, records, world>>

\* ... and the old content put in its place.
RestorePlace(p) ==
  /\ Doing(p, "recover", "place")
  /\ LET m == Last(job[p].done) IN disk' = Put(disk, m.path, m.after)
  /\ Do(p, [job[p] EXCEPT !.step = "restore"])
  /\ Stay /\ UNCHANGED <<tmp, bak, records, world>>

Restored(p) ==
  /\ Doing(p, "recover", "restore") /\ job[p].todo = {}
  /\ Do(p, [job[p] EXCEPT !.step = "cleanup"])
  /\ Stay /\ UNCHANGED <<files, records, world>>

\* A restoration that fails takes its own steps back and throws.
RestoreFails(p) ==
  /\ Doing(p, "recover", "restore") \/ Doing(p, "recover", "place")
  /\ Do(p, [job[p] EXCEPT !.step = "unrestore"])
  /\ Stay /\ UNCHANGED <<files, records, world>>

Unrestore(p) ==
  /\ Doing(p, "recover", "unrestore")
  /\ IF job[p].done = <<>> THEN Exit(p) /\ UNCHANGED disk
     ELSE /\ disk' = Put(disk, Last(job[p].done).path, Last(job[p].done).before)
          /\ Do(p, [job[p] EXCEPT !.done = Front(@)])
          /\ Stay
  /\ UNCHANGED <<tmp, bak, records, world>>

-----------------------------------------------------------------------------
(* rollbackAdoptionUnlocked.                                               *)

\* A rollback starts only from the installed files, or resumes its own
\* journal.
StartRollback(p) ==
  /\ Doing(p, "rollback", "start")
  /\ LET r == receipts[job[p].id]
         fresh == /\ journal = NoJournal
                  /\ \A i \in DOMAIN r.muts : disk[r.muts[i].path] = r.muts[i].after
         resumed == journal.op = "rollback" /\ journal.id = job[p].id
     IN  IF fresh \/ resumed
         THEN /\ journal' = [op |-> "rollback", muts |-> r.muts, id |-> job[p].id]
              /\ touched' = IF fresh THEN {} ELSE touched
              /\ Do(p, [job[p] EXCEPT !.step = "back", !.todo = DOMAIN r.muts])
              /\ Stay
         ELSE Exit(p) /\ UNCHANGED <<journal, touched>>
  /\ UNCHANGED <<files, durable, receipts, package, edits>>

\* The last file first; a drifted one stops the rollback with its journal in
\* place.
RollBackFile(p) ==
  /\ Doing(p, "rollback", "back")
  /\ \E i \in job[p].todo :
       LET m == journal.muts[i] IN
       /\ \A k \in job[p].todo : k <= i
       /\ IF disk[m.path] \in {m.before, m.after}
          THEN /\ disk' = Put(disk, m.path, m.before)
               /\ Do(p, [job[p] EXCEPT !.todo = @ \ {i}])
               /\ Stay
          ELSE Exit(p) /\ UNCHANGED disk
  /\ UNCHANGED <<tmp, bak, records, world>>

RolledBack(p) ==
  /\ Doing(p, "rollback", "back") /\ job[p].todo = {}
  /\ CloseJournal(p)

\* Any other error puts the installed files back, every one of them.
RollbackFails(p) ==
  /\ Doing(p, "rollback", "back")
  /\ \E i \in job[p].todo :
       /\ \A k \in job[p].todo : k <= i
       /\ disk[journal.muts[i].path] = journal.muts[i].after
  /\ Do(p, [job[p] EXCEPT !.step = "reinstall", !.todo = DOMAIN journal.muts])
  /\ Stay /\ UNCHANGED <<files, records, world>>

Reinstall(p) ==
  /\ Doing(p, "rollback", "reinstall")
  /\ \E i \in job[p].todo :
       /\ \A k \in job[p].todo : i <= k
       /\ disk' = Put(disk, journal.muts[i].path, journal.muts[i].after)
       /\ Do(p, [job[p] EXCEPT !.todo = @ \ {i}])
  /\ Stay /\ UNCHANGED <<tmp, bak, records, world>>

Reinstalled(p) ==
  /\ Doing(p, "rollback", "reinstall") /\ job[p].todo = {}
  /\ CloseJournal(p)

-----------------------------------------------------------------------------
(* The rest of the world.                                                  *)

Crash(p) ==
  /\ Die(p) /\ Do(p, Idle)
  /\ UNCHANGED <<files, records, world>>

\* A journal whose first write was cut short cannot be read: no header line,
\* or no JSON.
Unreadable(op) == op \in {"torn-adopt", "torn-rollback"}

CrashInHeader(p) ==
  /\ Doing(p, "adopt", "start") \/ Doing(p, "rollback", "start")
  /\ journal = NoJournal
  /\ Die(p) /\ Do(p, Idle)
  /\ journal' = [NoJournal EXCEPT !.op = IF job[p].op = "adopt" THEN "torn-adopt"
                                         ELSE "torn-rollback"]
  /\ UNCHANGED <<files, durable, receipts, world>>

AuthorEdits(f, c) ==
  /\ edits < MaxEdits /\ \A p \in Procs : ~Inside(p)
  /\ disk[f] # c
  /\ disk' = Put(disk, f, c) /\ edits' = edits + 1
  /\ touched' = IF journal = NoJournal THEN {} ELSE touched \cup {f}
  /\ UNCHANGED <<lockVars, tmp, bak, records, package, job>>

Upgrade ==
  /\ package < MaxPackage /\ \A p \in Procs : At(p, "out")
  /\ package' = package + 1
  /\ UNCHANGED <<lockVars, files, records, edits, touched, job>>

Apply(p) ==
  \/ StartAdopt(p) \/ Prepare(p) \/ Stage(p) \/ SetAside(p) \/ Replace(p)
  \/ WriteReceipt(p) \/ RemoveArtifact(p) \/ Finish(p)
  \/ ApplyFails(p) \/ UndoRemove(p) \/ UndoPutBack(p) \/ UndoFinish(p) \/ Abandon(p)

Recover(p) ==
  \/ StartRecover(p) \/ RestoreAside(p) \/ RestorePlace(p) \/ Restored(p)
  \/ RestoreFails(p) \/ Unrestore(p)

Rollback(p) ==
  \/ StartRollback(p) \/ RollBackFile(p) \/ RolledBack(p)
  \/ RollbackFails(p) \/ Reinstall(p) \/ Reinstalled(p)

Work(p) ==
  \/ BeginAdopt(p) \/ BeginRecover(p)
  \/ \E i \in DOMAIN receipts : BeginRollback(p, i)
  \/ Locking(p) \/ Apply(p) \/ Recover(p) \/ Rollback(p)
  \/ Crash(p) \/ CrashInHeader(p)

Around ==
  \/ \E f \in Range(Payload) \ Synced, c \in {Absent, Authored(1)} : AuthorEdits(f, c)
  \/ Upgrade

Next == (\E p \in Procs : Work(p)) \/ Around

Spec == Init /\ [][Next]_vars

-----------------------------------------------------------------------------
(* Properties.                                                             *)

\* The project a finished or recovered transaction leaves: the journalled
\* files as they were before an unfinished adoption, as installed once its
\* receipt is durable and until a rollback is complete.
Settled ==
  [f \in Files |->
     LET ms == {i \in DOMAIN journal.muts : journal.muts[i].path = f} IN
     IF ms = {} THEN disk[f]
     ELSE LET m == journal.muts[CHOOSE i \in ms : TRUE]
          IN  IF journal.op = "adopt" /\ ~durable THEN m.before ELSE m.after]

\* Whatever fails or dies, adoption changes the project by whole plans made
\* for the files it has, and takes them back as a whole.
Atomic == INSTANCE AtomicAdoption
            WITH project <- Settled, taken <- [i \in DOMAIN receipts |-> receipts[i].plan]
AllOrNothing == [][Atomic!Next]_<<Settled, receipts>>

\* No crash, failed handler or failed recovery leaves a file in a state that
\* recovery refuses: only an author's edit does.
RecoveryAccepted ==
  \A i \in DOMAIN journal.muts :
    LET m == journal.muts[i] IN
    (m.path \notin touched /\ \A p \in Procs : ~Inside(p)) =>
      CASE journal.op = "adopt" /\ durable  -> disk[m.path] = m.after
        [] journal.op = "adopt" /\ ~durable -> Intact(m)
        [] OTHER -> disk[m.path] \in {m.before, m.after}

\* Authored drift blocks destructive restoration: no operation writes over a
\* journalled file that is neither the old nor the new one.
DriftProtected ==
  [][\A i \in DOMAIN journal.muts :
       LET f == journal.muts[i].path IN
       disk[f] \in {journal.muts[i].before, journal.muts[i].after, Absent}
         \/ disk'[f] = disk[f] \/ UNCHANGED job]_vars

=============================================================================
