---------------------------- MODULE AdoptionPlan ----------------------------
(***************************************************************************)
(* What an adoption would do to a project: the action for every file of    *)
(* the selected profile, decided from the file, the package and the        *)
(* ownership the lock file records.  A content stands for its hash, and a  *)
(* plan for its token: both digests are taken to be injective.             *)
(***************************************************************************)
EXTENDS Naturals, Sequences, SequencesExt, FiniteSetsExt

CONSTANTS
  Profiles,       \* composition profiles: the managed files of each
  Payload,        \* every file of the package in plan order
  Seeds,          \* seed-once files
  Config,         \* agent-workflow.config.json, one of the seeds
  Synced          \* project files kept in step with the package

LockFile == "agent-framework-lock.json"
Files == Range(Payload) \cup {LockFile}

ASSUME PayloadAssumption ==
  /\ LockFile \notin Range(Payload)
  /\ Config \in Seeds /\ Seeds \cap Synced = {}
  /\ \A pr \in DOMAIN Profiles : Profiles[pr] \subseteq Range(Payload) \ (Seeds \cup Synced)

Content(kind, v) == [kind |-> kind, v |-> v, chosen |-> "none"]
Absent == Content("absent", 0)
Authored(v) == Content("authored", v)
Packaged(v) == Content("package", v)

\* A lock this version wrote, one of a former version, and one it cannot read.
Legacy(claimed) == [kind |-> "legacy", entries |-> claimed]
Unknown == [kind |-> "unknown"]

NoEntries == <<>>

\* validateAdoptionLock and normalizeLockfile: an entry is managed with a hash,
\* or merged or removed without one.
Entry(ownership, state, hash) == [ownership |-> ownership, state |-> state, hash |-> hash]

\* readLockForPlan; consent is migrateLegacy for a legacy lock and
\* recoverUnknown for one that cannot be read.
LockReadable(c, consent) == c.kind \in {"absent", "lock"} \/ consent

LockEntries(c) ==
  IF c.kind \in {"lock", "legacy"} THEN c.entries ELSE NoEntries

Claims(entries, f, state) ==
  f \in DOMAIN entries /\ entries[f].ownership = "managed" /\ entries[f].state = state

ActionForManaged(entries, f, current, v) ==
  LET locked == Claims(entries, f, "managed")
  IN  CASE Claims(entries, f, "removed") /\ current = Absent -> "preserve-removed"
        [] Claims(entries, f, "merged")   ->
             IF current = Absent THEN "preserve-removed" ELSE "preserve-merged"
        [] ~Claims(entries, f, "merged") /\ current = Absent
             /\ ~Claims(entries, f, "removed") ->
             IF locked THEN "preserve-removed" ELSE "create"
        [] ~Claims(entries, f, "merged") /\ current # Absent ->
             IF ~locked \/ current # entries[f].hash THEN "conflict"
             ELSE IF current = Packaged(v) THEN "unchanged" ELSE "update"

\* mergeSelectedConfig changes the selected keys and nothing else.
MergeSelected(base, choice) == [base EXCEPT !.chosen = choice]

\* A configuration with chosen values is merged; every other seed is written
\* once.
ActionForSeed(f, current, v, choice) ==
  IF f = Config /\ choice # "none"
  THEN LET base == IF current = Absent THEN Packaged(v) ELSE current
           after == MergeSelected(base, choice)
       IN  [action |-> IF current = Absent THEN "seed"
                       ELSE IF current = after THEN "unchanged" ELSE "update",
            after  |-> after]
  ELSE [action |-> IF current = Absent THEN "seed" ELSE "seed-skip", after |-> Packaged(v)]

ActionForProjectFile(current, v) ==
  IF current = Absent THEN "create" ELSE IF current = Packaged(v) THEN "unchanged" ELSE "update"

Selected(pr) == Range(Payload) \cap (Profiles[pr] \cup Seeds \cup Synced)

\* planAdoption for the options the person chose.
ActionFor(disk, f, opts) ==
  LET current == disk[f]
      seed == ActionForSeed(f, current, opts.package, opts.choice)
      managed == ActionForManaged(LockEntries(disk[LockFile]), f, current, opts.package)
  IN  [before    |-> current,
       ownership |-> IF f \in Seeds THEN "seed-once"
                     ELSE IF f \in Synced THEN "project" ELSE "managed",
       after     |-> IF f \in Seeds THEN seed.after ELSE Packaged(opts.package),
       action    |->
         IF f \in Seeds THEN seed.action
         ELSE IF f \in Synced THEN ActionForProjectFile(current, opts.package)
         ELSE IF f \in DOMAIN opts.resolutions /\ managed \in {"conflict", "preserve-merged"}
         THEN (IF opts.resolutions[f] = "replace" THEN "update" ELSE "preserve-merged")
         ELSE managed]

Plan(disk, opts) ==
  [opts    |-> opts,
   prior   |-> disk[LockFile],
   actions |-> [f \in Selected(opts.profile) |-> ActionFor(disk, f, opts)]]

\* A resolution names a conflicting or merged managed file.
ResolutionsValid(disk, opts) ==
  \A f \in DOMAIN opts.resolutions :
    /\ f \in Profiles[opts.profile]
    /\ ActionForManaged(LockEntries(disk[LockFile]), f, disk[f], opts.package)
         \in {"conflict", "preserve-merged"}

Blocked(plan) == \E f \in DOMAIN plan.actions : plan.actions[f].action = "conflict"

Mutating == {"create", "update", "seed"}
Changes(plan) == {f \in DOMAIN plan.actions : plan.actions[f].action \in Mutating}

\* lockEntries: the plan's files, and what an earlier lock kept as merged or
\* removed.
EntriesOf(plan, prior) ==
  LET named == {f \in DOMAIN plan.actions : plan.actions[f].ownership # "project"}
      kept  == {f \in DOMAIN prior \ named : prior[f].state \in {"merged", "removed"}}
      entry(f) ==
        LET a == plan.actions[f] IN
        IF a.action = "preserve-merged" THEN Entry(a.ownership, "merged", Absent)
        ELSE IF a.action = "preserve-removed" THEN Entry(a.ownership, "removed", Absent)
        ELSE Entry(a.ownership, "managed", IF a.action = "seed-skip" THEN a.before ELSE a.after)
  IN  [f \in named \cup kept |->
         IF f \in named THEN entry(f) ELSE Entry("managed", prior[f].state, Absent)]

NewLock(plan) ==
  [kind |-> "lock", plan |-> plan, entries |-> EntriesOf(plan, LockEntries(plan.prior))]

\* Nothing to write, and the lock says so already.
Unchanged(plan) ==
  /\ Changes(plan) = {}
  /\ plan.prior.kind = "lock"
  /\ plan.prior.plan.opts.profile = plan.opts.profile
  /\ plan.prior.plan.opts.package = plan.opts.package
  /\ plan.prior.entries = EntriesOf(plan, plan.prior.entries)

\* The project once the plan is applied.
Installed(disk, plan) ==
  [f \in Files |-> IF f = LockFile THEN NewLock(plan)
                   ELSE IF f \in Changes(plan) THEN plan.actions[f].after ELSE disk[f]]

=============================================================================
