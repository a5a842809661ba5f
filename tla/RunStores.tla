----------------------------- MODULE RunStores -----------------------------
(***************************************************************************)
(* Several processes append to one run through the GitHub stores, some     *)
(* configured for the single file and some for segments, while a migration *)
(* and other runs move the same branch.  Requests to move the branch are   *)
(* decided by the server (only fast-forwards), may be answered late or     *)
(* never, and an event whose outcome is unknown is appended again.         *)
(***************************************************************************)
EXTENDS RunSource

CONSTANTS
  Stores,         \* processes with a store each
  RecordLimit,    \* events that fit into one record of 1 MiB less the reserve
  MaxId,          \* events that may be created
  MaxOthers       \* commits by other runs

ASSUME StoresAssumption == RecordLimit \in Nat /\ MaxId \in Nat /\ MaxOthers \in Nat

VARIABLES
  ref, tree,      \* the branch: its revision and the run's files there
  others,         \* commits by other runs so far
  inflight,       \* updates of the branch the server has not decided
  fmt,            \* source.format of each process
  st,             \* the append each process is in: [pc, ev, result]
  mig,            \* the migration command: [pc, from, outcome]
  nextId

vars == <<ref, tree, others, inflight, fmt, st, mig, nextId>>

NoEvent == [id |-> 0, prev |-> 0, gen |-> 0, kind |-> "none", by |-> [w |-> "none", inc |-> 0]]

Idle == [pc |-> "idle", ev |-> NoEvent, result |-> "none"]

\* The branch need not exist yet (ref = 0); creating it is an update of
\* parent 0 that fails when another process created it first.
Init ==
  /\ ref = 0 /\ tree = EmptyTree /\ others = 0 /\ inflight = {}
  /\ fmt \in [Stores -> {1, 2}]
  /\ st = [a \in Stores |-> Idle]
  /\ mig = [pc |-> "idle", from |-> 0, outcome |-> "none"]
  /\ nextId = 1

\* The run's history: what the files hold, before any check of the readers.
History ==
  IF tree.manifest.present THEN Sealed(tree) \o tree.tail ELSE tree.legacy.events

Read(a) == ReadAs(fmt[a], tree)

To(a, s) == st' = [st EXCEPT ![a] = s]

Ended(a, result) == [st[a] EXCEPT !.pc = "idle", !.result = result]

-----------------------------------------------------------------------------

\* The run service read the source and builds the next event of the chain.
Select(a, k) ==
  /\ st[a].pc = "idle" /\ nextId <= MaxId /\ Read(a).ok
  /\ LET e == [id |-> nextId, prev |-> Revision(Read(a).events),
               gen |-> Generation(Read(a).events), kind |-> k,
               by |-> [w |-> a, inc |-> 0]]
     IN  /\ Accepts(Read(a).events, e)
         /\ To(a, [pc |-> "append", ev |-> e, result |-> "none"])
  /\ nextId' = nextId + 1
  /\ UNCHANGED <<ref, tree, others, inflight, fmt, mig>>

\* An event whose outcome is unknown is appended again, as it was.
Retry(a) ==
  /\ st[a].pc = "idle" /\ st[a].result = "unknown"
  /\ To(a, [st[a] EXCEPT !.pc = "append"])
  /\ UNCHANGED <<ref, tree, others, inflight, fmt, mig, nextId>>

\* A process is restarted with the format configured for segments.
Configure(a) ==
  /\ st[a].pc = "idle" /\ fmt[a] = 1
  /\ fmt' = [fmt EXCEPT ![a] = 2]
  /\ UNCHANGED <<ref, tree, others, inflight, st, mig, nextId>>

\* append: the event is already there; the run moved on; the record is
\* full; or a commit on the revision just read is sent.
SendUpdate(a, big) ==
  LET t == AppendAs(fmt[a], tree, st[a].ev, big)
      record == IF fmt[a] = 1 THEN t.legacy.events
                ELSE IF t.tail # <<>> THEN t.tail ELSE Last(t.segFiles)
  IN  IF Len(record) > RecordLimit
      THEN To(a, Ended(a, "refused")) /\ UNCHANGED inflight
      ELSE /\ inflight' = inflight \cup {[by |-> a, parent |-> ref, tree |-> t]}
           /\ To(a, [st[a] EXCEPT !.pc = "wait"])

AppendEvent(a) ==
  /\ st[a].pc = "append"
  /\ LET r == Read(a)
         e == st[a].ev
     IN  IF ~r.ok THEN To(a, Ended(a, "unknown")) /\ UNCHANGED inflight
         ELSE IF Contains(r.events, e) THEN To(a, Ended(a, "appended")) /\ UNCHANGED inflight
         ELSE IF Revision(r.events) # e.prev
         THEN To(a, Ended(a, "not-committed")) /\ UNCHANGED inflight
         ELSE \E big \in BOOLEAN : (big => fmt[a] = 2) /\ SendUpdate(a, big)
  /\ UNCHANGED <<ref, tree, others, fmt, mig, nextId>>

\* Mutant: the update is forced, whatever the branch holds by then.
Forced(p) == ref >= 0

\* The server: only a fast-forward moves the branch.
FastForward(p) == p.parent = ref

Waiting(q) == q.by # "nobody"

\* An update that can no longer land and that nobody waits for is forgotten.
Outstanding(set) == {q \in set : Waiting(q) \/ q.parent = ref'}

Unawaited(by) ==
  {q \in {[q0 EXCEPT !.by = IF @ = by THEN "nobody" ELSE @] : q0 \in inflight} :
     Waiting(q) \/ q.parent = ref}

Land(p) ==
  /\ IF FastForward(p) THEN ref' = ref + 1 /\ tree' = p.tree ELSE UNCHANGED <<ref, tree>>
  /\ inflight' = Outstanding(inflight \ {p})
  /\ st' = [a \in Stores |-> IF p.by # a THEN st[a]
              ELSE [st[a] EXCEPT !.pc = IF FastForward(p) THEN "accepted" ELSE "rejected"]]
  /\ mig' = IF p.by # "migration" THEN mig
            ELSE [mig EXCEPT !.pc = IF FastForward(p) THEN "accepted" ELSE "rejected"]
  /\ UNCHANGED <<others, fmt, nextId>>

\* The call fails without an answer; the request may still land.
Lose(a) ==
  /\ st[a].pc = "wait"
  /\ To(a, [st[a] EXCEPT !.pc = "lost"])
  /\ inflight' = Unawaited(a)
  /\ UNCHANGED <<ref, tree, others, fmt, mig, nextId>>

\* Mutant: an event that is not there yet counts as not committed.
OutcomeByAbsence(found, pc) == IF found THEN "appended" ELSE "not-committed"

\* Never retry a possibly successful write: the event is looked up first,
\* and only a refusal by the server proves that it was not committed.
Outcome(found, pc) ==
  IF found THEN "appended" ELSE IF pc = "rejected" THEN "not-committed" ELSE "unknown"

ReadBack(a) ==
  /\ st[a].pc \in {"accepted", "rejected", "lost"}
  /\ To(a, Ended(a, IF Read(a).ok THEN Outcome(Contains(Read(a).events, st[a].ev), st[a].pc)
                    ELSE "unknown"))
  /\ UNCHANGED <<ref, tree, others, inflight, fmt, mig, nextId>>

OtherRun ==
  /\ ref > 0 /\ others < MaxOthers
  /\ ref' = ref + 1 /\ others' = others + 1
  /\ inflight' = Outstanding(inflight)
  /\ UNCHANGED <<tree, fmt, st, mig, nextId>>

-----------------------------------------------------------------------------

\* run migrate: previewed and built on one revision, then sent.
MigrateSend ==
  /\ mig.pc = "idle" /\ mig.outcome = "none" /\ ref > 0 /\ MigrationAdmitted(tree)
  /\ inflight' = inflight \cup
       {[by |-> "migration", parent |-> ref, tree |-> Migrated(tree)]}
  /\ mig' = [pc |-> "wait", from |-> ref, outcome |-> "none"]
  /\ UNCHANGED <<ref, tree, others, fmt, st, nextId>>

MigrateLose ==
  /\ mig.pc = "wait"
  /\ mig' = [mig EXCEPT !.pc = "lost"]
  /\ inflight' = Unawaited("migration")
  /\ UNCHANGED <<ref, tree, others, fmt, st, nextId>>

\* Confirmed only by the source: the candidate's revision and the replay.
MigrateConfirm ==
  /\ mig.pc \in {"accepted", "rejected", "lost"}
  /\ LET there == ref = mig.from + 1 /\ tree.manifest.present /\ mig.pc # "rejected" IN
     mig' = [mig EXCEPT !.pc = "idle",
               !.outcome = IF there /\ ReadV2(tree).ok THEN "receipt"
                           ELSE IF mig.pc # "accepted" /\ ref = mig.from
                           THEN "not-committed" ELSE "unknown"]
  /\ UNCHANGED <<ref, tree, others, inflight, fmt, st, nextId>>

Next ==
  \/ \E a \in Stores :
       \/ \E k \in {"started", "operation-admitted"} : Select(a, k)
       \/ Retry(a) \/ Configure(a) \/ AppendEvent(a) \/ Lose(a) \/ ReadBack(a)
  \/ \E p \in inflight : Land(p)
  \/ OtherRun \/ MigrateSend \/ MigrateLose \/ MigrateConfirm

Spec == Init /\ [][Next]_vars

-----------------------------------------------------------------------------

\* Every committed tree, whichever stores, migration and late requests made
\* it, passes all the checks of the segmented reader; an old binary reads
\* the whole history or fails closed.
SourceReadable ==
  /\ ReadV2(tree) = [ok |-> TRUE, events |-> History]
  /\ ReadV1(tree) \in {Failed, [ok |-> TRUE, events |-> History]}

\* append tells the truth about the event it ended with: a success is in
\* the history, a proven non-commitment never gets there, however late the
\* requests of the attempt land.
AdmissionTruthful ==
  \A a \in Stores :
    /\ st[a].result = "appended" => Contains(History, st[a].ev)
    /\ st[a].result = "not-committed" => ~Contains(History, st[a].ev)

\* No step of a store, of the migration or of the server loses, repeats or
\* reorders an event: the branch implements the append-only log.
Log == INSTANCE RunLog WITH log <- History
LogSpec == Log!Spec

=============================================================================
