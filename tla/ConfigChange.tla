---------------------------- MODULE ConfigChange ----------------------------
(***************************************************************************)
(* Changes of a project's configuration.  Distribution and steering        *)
(* changes plan against the bytes they read, take the adoption lock, write *)
(* a receipt with the preimage and replace the file; an undo restores the  *)
(* preimage.  The migrations of lib/config/authority.mjs take no lock, and *)
(* an author may edit a file at any time.  Every replacement of a file is  *)
(* a step of its own and a process may die between two steps.              *)
(*                                                                         *)
(* A file holds three fields: policy (a domain field: does an external     *)
(* action need a human), dist and steer (workflow fields: the selected     *)
(* distribution and the steering agreement).  A digest is modelled by what *)
(* it covers.                                                              *)
(***************************************************************************)
EXTENDS Naturals, Sequences, FiniteSets

CONSTANTS
  Procs,
  Selections,     \* distribution selections that resolve
  Layouts,        \* the configuration files a project may start with
  MaxPlans, MaxReceipts,
  MaxDisturbances \* edits, crashes and migrations, at most one of each kind

VARIABLES
  file,           \* domain, workflow and unified configuration on disk
  bak,            \* backups a migration has made and not removed
  plans,          \* reviewed plans waiting to be applied
  receipts,       \* receipts under .agent-runs
  lock,           \* "free", the process that holds the lock, or "dead"
  proc,           \* what every process is doing
  disturbances,   \* the kinds of edit, crash and migration so far
  confirmed,      \* history: the parameters somebody confirmed by a digest
  interfered,     \* history: processes whose command met an unlocked write
  kept            \* history: field values a migration must not destroy

configVars == <<file, bak, plans, receipts, lock, proc, disturbances, confirmed,
          interfered, kept>>

Names == {"domain", "workflow", "unified"}
Modes == {"human", "bounded"}
Owners == {"steer.lead", "dev.build"}
NoAgreement == [mode |-> "none", owner |-> "none", dist |-> "none", digest |-> <<>>]
Missing == [there |-> FALSE, policy |-> "none", dist |-> "none",
            steer |-> NoAgreement]
Idle == [pc |-> "idle", kind |-> "none", name |-> "none",
         before |-> Missing, after |-> Missing, rid |-> 0]

\* A project starts with files nobody confirmed an agreement in; the lock file
\* names a process, and no process has one of the names that stand for none.
Unconfirmed ==
  [mode : Modes \cup {"none"}, owner : Owners \cup {"none"},
   dist : Selections \cup {"none"}, digest : {<<>>}]

ASSUME ConfigAssumption ==
  /\ {"free", "dead"} \cap Procs = {}
  /\ Layouts \subseteq
       [Names -> {Missing} \cup [there : {TRUE}, policy : {"human", "lenient", "none"},
                                dist : Selections \cup {"none"}, steer : Unconfirmed]]

-----------------------------------------------------------------------------
(* Which file is authoritative, and what it says.                          *)

isUnified == file["unified"].there

\* The file that distribution and steering commands read and replace.
configuration == IF isUnified THEN "unified" ELSE "workflow"

loadDomain ==
  IF isUnified THEN [file["unified"] EXCEPT !.dist = "none", !.steer = NoAgreement]
  ELSE file["domain"]

loadWorkflow ==
  IF isUnified THEN [file["unified"] EXCEPT !.policy = "none"]
  ELSE file["workflow"]

-----------------------------------------------------------------------------
(* The steering agreement.                                                 *)

\* A policy that does not say otherwise requires a human.
domainRequiresHuman == loadDomain.policy # "lenient"

\* The digest covers the whole agreement; three of its parameters vary here.
computeSteeringParametersDigest(mode, owner, dist) == <<mode, owner, dist>>

\* What an agreement may say: one of the allowed review modes, an owner that
\* is not a delivery seat of the rig.  Its other fields are refused likewise
\* when they leave their allowed values or grant authority.
validateSteeringAgreementShape(mode, owner) ==
  mode \in Modes \cup {"none"} /\ owner \in {"none", "steer.lead"}

\* The mode asked for, else the saved one, else the domain's default.
resolveMode(asked) ==
  IF asked # "none" THEN asked
  ELSE IF loadWorkflow.steer.mode # "none" THEN loadWorkflow.steer.mode
  ELSE IF domainRequiresHuman THEN "human" ELSE "bounded"

resolveOwner(asked) ==
  IF asked # "none" THEN asked
  ELSE IF loadWorkflow.steer.owner # "none" THEN loadWorkflow.steer.owner
  ELSE "steer.lead"

distributionConflict ==
  LET saved == loadWorkflow.steer
  IN /\ loadWorkflow.dist # "none"
     /\ saved.dist # "none"
     /\ saved.dist # loadWorkflow.dist

weakensGate(mode) == domainRequiresHuman /\ mode = "bounded"

inspectConflicts(mode, owner) ==
  \/ ~validateSteeringAgreementShape(loadWorkflow.steer.mode, loadWorkflow.steer.owner)
  \/ ~validateSteeringAgreementShape(mode, owner)
  \/ distributionConflict
  \/ weakensGate(resolveMode(mode))

inspectMissing == loadWorkflow.dist = "none"

\* Mutant: the distribution in the digest is the saved one, not the one in force.
alreadyConfirmedSaved ==
  LET saved == loadWorkflow.steer
  IN /\ saved.mode # "none"
     /\ saved.digest =
          computeSteeringParametersDigest(saved.mode, saved.owner, saved.dist)
     /\ ~inspectMissing

\* The saved digest covers the parameters in force now.
alreadyConfirmed ==
  /\ loadWorkflow.steer.mode # "none"
  /\ loadWorkflow.steer.digest = computeSteeringParametersDigest(
       resolveMode("none"), resolveOwner("none"), loadWorkflow.dist)
  /\ ~inspectMissing
  /\ ~inspectConflicts("none", "none")

-----------------------------------------------------------------------------
InitConfig ==
  /\ file \in Layouts
  /\ bak = {} /\ plans = {} /\ receipts = <<>>
  /\ lock = "free"
  /\ proc = [p \in Procs |-> Idle]
  /\ disturbances = {}
  /\ confirmed = {} /\ interfered = {} /\ kept = Missing

idleVars == <<disturbances, confirmed, interfered, kept>>

At(p, pc) == proc[p].pc = pc
Go(p, pc) == proc' = [proc EXCEPT ![p].pc = pc]
Stop(p) == proc' = [proc EXCEPT ![p] = Idle]

\* An unlocked write: every command under way has met it.
Interfere == interfered' = {p \in Procs : ~At(p, "idle")}

disturb(kind) ==
  /\ kind \notin disturbances /\ Cardinality(disturbances) < MaxDisturbances
  /\ disturbances' = disturbances \cup {kind}

-----------------------------------------------------------------------------
(* Plans.                                                                  *)

addPlan(kind, after) ==
  /\ Cardinality(plans) < MaxPlans
  /\ plans' = plans \cup {[kind |-> kind, name |-> configuration,
                           before |-> file[configuration], after |-> after]}
  /\ UNCHANGED <<file, bak, receipts, lock, proc, idleVars>>

planDistributionChange(sel) ==
  /\ file[configuration].there
  /\ addPlan("dist", [file[configuration] EXCEPT !.dist = sel])

\* The new agreement, bound to the distribution by the digest in it.
buildConfigWithSteering(mode, owner) ==
  LET dist == loadWorkflow.dist
  IN [file[configuration] EXCEPT !.steer =
        [mode |-> mode, owner |-> owner, dist |-> dist,
         digest |-> computeSteeringParametersDigest(mode, owner, dist)]]

planSteeringAgreement(mode, owner) ==
  /\ file[configuration].there
  /\ ~inspectConflicts(mode, owner) /\ ~inspectMissing
  /\ addPlan("steer", buildConfigWithSteering(resolveMode(mode), resolveOwner(owner)))

-----------------------------------------------------------------------------
(* Applying a plan.                                                        *)

\* Mutant: the lock is not taken.
takeLockNever(p) == lock' = p

takeLock(p) == lock = "free" /\ lock' = p

\* A fresh plan, made under the lock, must have the reviewed plan's digest.
beginDistribution(p, plan) ==
  /\ At(p, "idle") /\ plan.kind = "dist"
  /\ takeLock(p)
  /\ plan.name = configuration /\ file[configuration] = plan.before
  /\ proc' = [proc EXCEPT ![p] = [Idle EXCEPT !.pc = "journal", !.kind = "dist",
       !.name = plan.name, !.before = plan.before, !.after = plan.after]]
  /\ UNCHANGED <<file, bak, plans, receipts, disturbances, confirmed, interfered, kept>>

\* The plan is confirmed by its digest; its parameters are inspected against
\* the configuration before the lock is taken.
beginSteering(p, plan) ==
  /\ At(p, "idle") /\ plan.kind = "steer"
  /\ LET agreed == plan.after.steer
     IN /\ validateSteeringAgreementShape(agreed.mode, agreed.owner)
        /\ agreed.digest = computeSteeringParametersDigest(
             agreed.mode, agreed.owner, agreed.dist)
        /\ ~inspectConflicts(agreed.mode, agreed.owner) /\ ~inspectMissing
  /\ proc' = [proc EXCEPT ![p] = [Idle EXCEPT !.pc = "inspected", !.kind = "steer",
       !.name = plan.name, !.before = plan.before, !.after = plan.after]]
  /\ confirmed' = confirmed \cup {plan.after.steer.digest}
  /\ UNCHANGED <<file, bak, plans, receipts, lock, disturbances, interfered, kept>>

\* Under the lock only the bytes of the configuration file are compared.
lockSteering(p) ==
  /\ At(p, "inspected")
  /\ IF lock = "free" /\ file[configuration] = proc[p].before
     THEN /\ takeLock(p)
          /\ proc' = [proc EXCEPT ![p].pc = "journal", ![p].name = configuration]
     ELSE Stop(p) /\ UNCHANGED lock
  /\ UNCHANGED <<file, bak, plans, receipts, idleVars>>

\* The receipt with the preimage is on disk before the file is replaced.
writeReceipt(p) ==
  /\ At(p, "journal") /\ Len(receipts) < MaxReceipts
  /\ receipts' = Append(receipts,
       [kind |-> proc[p].kind, name |-> proc[p].name, before |-> proc[p].before,
        after |-> proc[p].after, status |-> "prepared"])
  /\ proc' = [proc EXCEPT ![p].pc = "recheck", ![p].rid = Len(receipts) + 1]
  /\ UNCHANGED <<file, bak, plans, lock, idleVars>>

\* Config drift before replacement.
recheck(p) ==
  /\ At(p, "recheck")
  /\ IF file[proc[p].name] = proc[p].before
     THEN Go(p, "replace") /\ UNCHANGED lock
     ELSE Stop(p) /\ lock' = "free"
  /\ UNCHANGED <<file, bak, plans, receipts, idleVars>>

replace(p) ==
  /\ At(p, "replace")
  /\ file' = [file EXCEPT ![proc[p].name] = proc[p].after]
  /\ Go(p, "readback")
  /\ kept' = Missing
  /\ UNCHANGED <<bak, plans, receipts, lock, disturbances, confirmed, interfered>>

\* The file must read back as written; then the receipt becomes applied.
readback(p) ==
  /\ At(p, "readback")
  /\ IF file[proc[p].name] = proc[p].after
     THEN Go(p, "applied") /\ UNCHANGED lock
     ELSE Stop(p) /\ lock' = "free"
  /\ UNCHANGED <<file, bak, plans, receipts, idleVars>>

applied(p) ==
  /\ At(p, "applied")
  /\ receipts' = [receipts EXCEPT ![proc[p].rid].status = "applied"]
  /\ lock' = "free" /\ Stop(p)
  /\ interfered' = interfered \ {p}
  /\ UNCHANGED <<file, bak, plans, disturbances, confirmed, kept>>

-----------------------------------------------------------------------------
(* Undoing a distribution change.                                          *)

beginUndo(p, rid) ==
  /\ At(p, "idle") /\ takeLock(p)
  /\ LET r == receipts[rid]
     IN /\ r.kind = "dist" /\ r.status \in {"prepared", "applied"}
        /\ r.name = configuration /\ file[r.name] = r.after
        /\ proc' = [proc EXCEPT ![p] = [Idle EXCEPT !.pc = "undo", !.kind = "undo",
             !.name = r.name, !.before = r.after, !.after = r.before, !.rid = rid]]
  /\ UNCHANGED <<file, bak, plans, receipts, idleVars>>

undo(p) ==
  /\ At(p, "undo")
  /\ file' = [file EXCEPT ![proc[p].name] = proc[p].after]
  /\ Go(p, "undone")
  /\ kept' = Missing
  /\ UNCHANGED <<bak, plans, receipts, lock, disturbances, confirmed, interfered>>

undone(p) ==
  /\ At(p, "undone")
  /\ receipts' = [receipts EXCEPT ![proc[p].rid].status = "rolled-back"]
  /\ lock' = "free" /\ Stop(p)
  /\ interfered' = interfered \ {p}
  /\ UNCHANGED <<file, bak, plans, disturbances, confirmed, kept>>

-----------------------------------------------------------------------------
(* The migrations: no lock; the plan is made again, then files are replaced *)
(* one by one, each first renamed to a backup.                              *)

\* Misplaced fields move to the file that owns them; its own value wins.
planAuthorityMigration ==
  LET d == loadDomain
      w == loadWorkflow
  IN [domain |-> [there |-> TRUE, dist |-> "none", steer |-> NoAgreement,
                  policy |-> IF d.policy # "none" THEN d.policy ELSE w.policy],
      workflow |-> [there |-> TRUE, policy |-> "none",
                    dist |-> IF w.dist # "none" THEN w.dist ELSE d.dist,
                    steer |-> IF w.steer # NoAgreement THEN w.steer ELSE d.steer]]

planAuthorityConsolidation ==
  [there |-> TRUE, policy |-> loadDomain.policy, dist |-> loadWorkflow.dist,
   steer |-> loadWorkflow.steer]

beginMigration(p) ==
  /\ At(p, "idle") /\ ~isUnified
  /\ disturb("migrations")
  /\ LET after == planAuthorityMigration
     IN /\ after.domain # file["domain"] \/ after.workflow # file["workflow"]
        /\ proc' = [proc EXCEPT ![p] = [Idle EXCEPT !.pc = "backup", !.kind = "migrate",
             !.name = "domain", !.before = after.workflow, !.after = after.domain]]
        /\ kept' = [planAuthorityConsolidation EXCEPT !.policy = after.domain.policy,
                      !.dist = after.workflow.dist, !.steer = after.workflow.steer]
  /\ UNCHANGED <<file, bak, plans, receipts, lock, confirmed, interfered>>

beginConsolidation(p) ==
  /\ At(p, "idle")
  /\ disturb("migrations")
  /\ LET after == planAuthorityConsolidation
     IN /\ after # file["unified"]
        /\ proc' = [proc EXCEPT ![p] = [Idle EXCEPT !.pc = "backup", !.kind = "consolidate",
             !.name = "unified", !.after = after]]
        /\ kept' = after
  /\ UNCHANGED <<file, bak, plans, receipts, lock, confirmed, interfered>>

\* replaceJson renames the file away ...
backup(p) ==
  /\ At(p, "backup")
  /\ LET n == proc[p].name
     IN /\ bak' = bak \cup (IF file[n].there
                            THEN {[by |-> p, name |-> n, was |-> file[n]]} ELSE {})
        /\ file' = [file EXCEPT ![n] = Missing]
  /\ Go(p, "install") /\ Interfere
  /\ UNCHANGED <<plans, receipts, lock, disturbances, confirmed, kept>>

\* ... and the staged file into its place: the workflow file after the domain's.
install(p) ==
  /\ At(p, "install")
  /\ file' = [file EXCEPT ![proc[p].name] = proc[p].after]
  /\ proc' = [proc EXCEPT ![p] =
       IF proc[p].kind = "migrate" /\ proc[p].name = "domain"
       THEN [@ EXCEPT !.pc = "backup", !.name = "workflow", !.after = proc[p].before]
       ELSE [@ EXCEPT !.pc = "unlink"]]
  /\ Interfere
  /\ UNCHANGED <<bak, plans, receipts, lock, disturbances, confirmed, kept>>

Mine(p) == {b \in bak : b.by = p}

\* A rename fails: every file replaced so far gets its backup again.
rollback(p) ==
  /\ At(p, "install")
  /\ file' = [n \in Names |->
       IF \E b \in Mine(p) : b.name = n THEN (CHOOSE b \in Mine(p) : b.name = n).was
       ELSE IF n = "domain" /\ proc[p].name = "workflow" THEN Missing
       ELSE file[n]]
  /\ bak' = bak \ Mine(p)
  /\ Stop(p) /\ Interfere
  /\ UNCHANGED <<plans, receipts, lock, disturbances, confirmed, kept>>

unlinkBackups(p) ==
  /\ At(p, "unlink")
  /\ bak' = bak \ Mine(p)
  /\ Stop(p)
  /\ interfered' = interfered \ {p}
  /\ UNCHANGED <<file, plans, receipts, lock, disturbances, confirmed, kept>>

-----------------------------------------------------------------------------
(* The world outside the commands.                                         *)

\* An author edits the policy, or the mode or owner of a saved agreement.
edit(n, changed) ==
  /\ disturb("edits") /\ file[n].there /\ changed # file[n]
  /\ file' = [file EXCEPT ![n] = changed]
  /\ kept' = Missing /\ Interfere
  /\ UNCHANGED <<bak, plans, receipts, lock, proc, confirmed>>

authorEdits(n) ==
  \/ edit(n, [file[n] EXCEPT !.policy = "lenient"])
  \/ edit(n, [file[n] EXCEPT !.policy = "human"])
  \/ /\ file[n].steer.mode # "none"
     /\ \/ \E m \in Modes : edit(n, [file[n] EXCEPT !.steer.mode = m])
        \/ edit(n, [file[n] EXCEPT !.steer.owner = "dev.build"])

\* A process dies; the lock it held, and its backups, stay on disk.
crash(p) ==
  /\ disturb("crashes") /\ ~At(p, "idle")
  /\ lock' = IF lock = p THEN "dead" ELSE lock
  /\ Stop(p)
  /\ bak' = {IF b.by = p THEN [b EXCEPT !.by = "dead"] ELSE b : b \in bak}
  /\ interfered' = interfered \ {p}
  /\ UNCHANGED <<file, plans, receipts, confirmed, kept>>

\* An adoption command with recovery reclaims the lock of a dead process.
reclaim ==
  /\ lock = "dead" /\ lock' = "free"
  /\ UNCHANGED <<file, bak, plans, receipts, proc, idleVars>>

Step(p) ==
  \/ \E plan \in plans : beginDistribution(p, plan) \/ beginSteering(p, plan)
  \/ lockSteering(p) \/ writeReceipt(p) \/ recheck(p) \/ replace(p)
  \/ readback(p) \/ applied(p)
  \/ \E rid \in DOMAIN receipts : beginUndo(p, rid)
  \/ undo(p) \/ undone(p)
  \/ beginMigration(p) \/ beginConsolidation(p) \/ backup(p) \/ install(p)
  \/ rollback(p) \/ unlinkBackups(p) \/ crash(p)

NextConfig ==
  \/ \E sel \in Selections : planDistributionChange(sel)
  \/ \E mode \in Modes \cup {"none"}, owner \in Owners \cup {"none"} :
       planSteeringAgreement(mode, owner)
  \/ \E p \in Procs : Step(p)
  \/ \E n \in Names : authorEdits(n)
  \/ reclaim

ConfigSpec == InitConfig /\ [][NextConfig]_configVars

-----------------------------------------------------------------------------
(* Properties.                                                             *)

\* A command under the lock, an undo too, replaces exactly the configuration
\* it read: the change of no other such command is lost, whatever receipts
\* and stale plans are on disk and whoever died holding the lock.  Only a
\* writer that takes no lock can slip in between (applyDistributionChange,
\* applySteeringAgreement, undoDistributionChange).
NoLostUpdate ==
  [][ \A p \in Procs :
        /\ proc[p].pc \in {"replace", "undo"} /\ proc'[p].pc \in {"readback", "undone"}
        /\ p \notin interfered
        => /\ file[proc[p].name] = proc[p].before
           /\ proc[p].name = configuration ]_configVars

\* An agreement counts as confirmed only if somebody confirmed exactly the
\* mode, owner and distribution now in force, and it does not weaken the human
\* gate of the domain: neither a later change of the distribution, nor an
\* undo, a migration or a hand edit lets an old confirmation stand for
\* something else (inspectSteeringAgreement).
ConfirmedAsInForce ==
  alreadyConfirmed =>
    /\ <<loadWorkflow.steer.mode, loadWorkflow.steer.owner, loadWorkflow.dist>>
         \in confirmed
    /\ domainRequiresHuman => loadWorkflow.steer.mode = "human"

\* Whatever step of a migration a process dies in, or fails in, each value the
\* migration found is still on disk, in a file or in a backup
\* (applyAuthorityMigration, applyAuthorityConsolidation).
NothingDestroyed ==
  \A f \in {"policy", "dist", "steer"} :
    \/ kept[f] = Missing[f]
    \/ \E n \in Names : file[n].there /\ file[n][f] = kept[f]
    \/ \E b \in bak : b.was[f] = kept[f]

\* The configuration is sound at every moment: what is confirmed is in force, and
\* nothing a migration found is lost.
ConfigurationSound == ConfirmedAsInForce /\ NothingDestroyed
=============================================================================
