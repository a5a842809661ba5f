----------------------------- MODULE RunService -----------------------------
(***************************************************************************)
(* The governed run service and the commands of `run` that drive one run   *)
(* through its phases: freeze, verify, oracle pin and custody, advance,    *)
(* return and rework, escalation, budget admission with safe stop, and     *)
(* take-over.  Every append is conditional on the revision it was decided  *)
(* on (RunStores), so a command that appends once is one step here; what   *)
(* it reads from outside the run is any value at all.  A command that      *)
(* appends several times is several steps, and a step of another process   *)
(* in between makes its next append fail.                                  *)
(***************************************************************************)
EXTENDS RunState

CONSTANTS
  Procs,          \* processes running commands
  OwnerOf,        \* the writer name each process acts under
  Candidates,     \* candidate digests a workspace may have
  Versions,       \* versions of the authoritative contract
  Oracles,        \* oracle digests
  StopOp,         \* the provider-safe-stop operation
  MaxGen, MaxDetours

ASSUME ServiceAssumption ==
  /\ OracleOf \in [Versions -> Oracles \cup {None}]
  /\ OwnerOf \in [Procs -> {OwnerOf[p] : p \in Procs}]
  /\ MaxGen \in Nat /\ MaxDetours \in Nat /\ StopOp \in Ops
  /\ None \notin Candidates \cup Versions \cup Oracles

VARIABLES
  s,              \* the reduced run
  st,             \* what each process is in the middle of
  resolved,       \* escalations a human resolved: <<frozen, source>>
  detours,        \* steps off the straight path so far
  accepted        \* what the last acceptance compared: <<frozen, source>>

runVars == <<s, st, resolved, detours, accepted>>

Idle == [pc |-> "idle", obs |-> {}]
Nothing == <<None, None>>

InitRun ==
  /\ \E p \in Procs, required \in BOOLEAN : s = Started(OwnerOf[p], required)
  /\ st = [p \in Procs |-> Idle]
  /\ resolved = {} /\ detours = 0 /\ accepted = Nothing

-----------------------------------------------------------------------------
(* append: refused for another writer; it moves the revision, so whatever  *)
(* another process decided on the old one is refused in turn.              *)

Writer(p) == OwnerOf[p] = s.owner

\* Commands that re-read the run before they append keep going.
Rereads == {"idle", "observe"}

AppendState(p, states, next) ==
  /\ s' \in states
  /\ st' = [q \in Procs |-> IF q = p THEN next
                            ELSE IF st[q].pc \in Rereads THEN st[q] ELSE Idle]

Command(p, states) == st[p].pc = "idle" /\ Writer(p) /\ AppendState(p, states, Idle)

Straight == UNCHANGED detours
Detour == detours < MaxDetours /\ detours' = detours + 1

\* The policy's own requirement is recorded when the run starts.
RequiresOracleAssurance == s.assured \/ s.pkg # None

-----------------------------------------------------------------------------
(* Contract, oracle and custody.                                           *)

\* freezeContract: any version the authoritative source has.
Freeze(p, v) ==
  /\ Command(p, ContractFrozen(s, v, RequiresOracleAssurance))
  /\ IF s.contract = None /\ OracleOf[v] = None THEN Straight ELSE Detour
  /\ accepted' = Nothing /\ UNCHANGED resolved

\* pinOracle, once and only by the implementation planner.  An assured run
\* needs the package proofs verified for this state.
PinOracle(p, d, package) ==
  /\ s.phase = PinPhase /\ s.oracle = None
  /\ RequiresOracleAssurance => package
  /\ Command(p, OraclePinned(s, d, package))
  /\ Straight /\ accepted' = Nothing /\ UNCHANGED resolved

RecordCustody(p, mode) ==
  /\ s.status = "active"
  /\ Command(p, OracleCustody(s, mode))
  /\ Detour /\ accepted' = Nothing /\ UNCHANGED resolved

-----------------------------------------------------------------------------
(* verify: admission, a check in the workspace, the candidate when it is   *)
(* not the run's, and then the observation.                                *)

MayVerify(p) == st[p].pc = "idle" /\ Writer(p) /\ s.status = "active" /\ s.contract # None

\* An admitted attempt leaves its admission in the log and collects.  What it
\* collects is dated by the findings that are open then.
Collect(p, c, k) ==
  /\ MayVerify(p)
  /\ AppendState(p, {s}, [pc |-> "collected",
                     obs |-> {[crit |-> k, cand |-> c, def |-> s.contract, open |-> s.rework]}])
  /\ IF s.cand \in {None, c} THEN Straight ELSE Detour
  /\ accepted' = Nothing /\ UNCHANGED resolved

\* The check ran in another candidate than the run's.
RecordCandidate(p) ==
  /\ st[p].pc = "collected" /\ Writer(p)
  /\ \E o \in st[p].obs :
       /\ o.cand # s.cand
       /\ AppendState(p, CandidateChanged(s, o.cand), [st[p] EXCEPT !.pc = "observe"])
  /\ Straight /\ accepted' = Nothing /\ UNCHANGED resolved

RecordObservation(p) ==
  /\ Writer(p)
  /\ \E o \in st[p].obs :
       /\ \/ st[p].pc = "observe"
          \/ st[p].pc = "collected" /\ o.cand = s.cand
       /\ AppendState(p, Observed(s, o), Idle)
  /\ Straight /\ accepted' = Nothing /\ UNCHANGED resolved

\* A command that throws, or whose process dies.
Abandon(p) ==
  /\ st[p].pc # "idle"
  /\ st' = [st EXCEPT ![p] = Idle]
  /\ accepted' = Nothing /\ UNCHANGED <<s, resolved, detours>>

-----------------------------------------------------------------------------
(* Acceptance.  v is what the source holds when it is read, K the criteria *)
(* submitted.  A drifted contract needs the resolution of that very drift; *)
(* criteria that differ from the frozen ones are a drift of their own.     *)

ResolvedDrift(v) == <<s.contract, v>> \in resolved

Evidence(K) == {o \in s.obs : o.crit \in K}

VerifyCriteria(v, K) ==
  /\ s.contract # None /\ K # {}
  /\ IF v = s.contract
     THEN K = Criteria /\ \A o \in Evidence(K) : o.def = s.contract
     ELSE ResolvedDrift(v)
  /\ \A k \in K : \E o \in s.obs : o.crit = k /\ o.cand = s.cand
  /\ RequiresOracleAssurance /\ s.phase \in EvidencePhases => s.pkg # None

\* The oracle digest of the payload: the run's, or the sealed contract's.
\* Entering the developer needs one, and the same on disk.
AdvanceOracle(d) ==
  /\ s.oracle # None => d = s.oracle
  /\ s.phase = PinPhase => d # None

\* advance: bilateral acceptance, the human gates at both ends (the host
\* consents, or nothing happens), the assured package before the developer.
Advance(p, v, K, d) ==
  LET assured == RequiresOracleAssurance
      package == assured /\ s.phase = PinPhase
      rt      == IF assured /\ s.phase \in EvidencePhases THEN Evidence(K \cap {"r"}) ELSE {}
  IN  /\ VerifyCriteria(v, K)
      /\ AdvanceOracle(d)
      /\ package => s.pkg # None
      /\ Command(p, IF s.phase = LastPhase THEN Completed(s) ELSE Advanced(s, d, package, rt))
      /\ accepted' = <<s.contract, v>>
      /\ Straight /\ UNCHANGED resolved

\* verifyCriteria escalated; a human attests this drift and no other.
ResolveEscalation(p, v) ==
  /\ s.cand # None /\ v # s.contract /\ ~ResolvedDrift(v)
  /\ Takes(s, "checkpoint")
  /\ Command(p, {s})
  /\ resolved' = resolved \cup {<<s.contract, v>>}
  /\ Detour /\ accepted' = Nothing

-----------------------------------------------------------------------------
(* Return, rework, pause.                                                  *)

Return(p) ==
  /\ Command(p, ReturnedTo(s, detours + 1))
  /\ Detour /\ accepted' = Nothing /\ UNCHANGED resolved

\* resolveRework: acceptance passes and covers the finding's criteria.
ResolveRework(p, f, v, K) ==
  /\ VerifyCriteria(v, K) /\ "c" \in K
  /\ Command(p, ReworkResolved(s, f, Evidence({"c"})))
  /\ accepted' = <<s.contract, v>>
  /\ Straight /\ UNCHANGED resolved

RecordHalt(p, kind) ==
  /\ Command(p, Halted(s, kind))
  /\ Detour /\ accepted' = Nothing /\ UNCHANGED resolved

\* A grant is revoked: the epoch moves and with it what was proved.
GrantRevoked(p) ==
  /\ Takes(s, "grant-revoked")
  /\ Command(p, {Refresh([s EXCEPT !.epoch = @ + 1])})
  /\ Detour /\ accepted' = Nothing /\ UNCHANGED resolved

-----------------------------------------------------------------------------
(* admitAttempt refuses: the refusal, the pause and the intent to stop the *)
(* provider are durable before the provider is asked.                      *)

StopSteps == {"refused", "paused", "planned", "submitted"}

BudgetRefused(p) ==
  /\ MayVerify(p) /\ s.ops[StopOp] = "none"
  /\ AppendState(p, {s}, [Idle EXCEPT !.pc = "refused"])
  /\ Detour /\ accepted' = Nothing /\ UNCHANGED resolved

SafeStop(p) ==
  /\ Writer(p)
  /\ \/ /\ st[p].pc = "refused"
        /\ AppendState(p, Halted(s, "paused"), [Idle EXCEPT !.pc = "paused"])
     \/ /\ st[p].pc = "paused"
        /\ AppendState(p, Operated(s, StopOp, "planned", FALSE, FALSE),
                  [Idle EXCEPT !.pc = "planned"])
     \/ /\ st[p].pc = "planned"
        /\ AppendState(p, Operated(s, StopOp, "submitted", FALSE, FALSE),
                  [Idle EXCEPT !.pc = "submitted"])
     \/ /\ st[p].pc = "submitted"
        /\ \E to \in {"confirmed", "unknown"} :
             AppendState(p, Operated(s, StopOp, to, FALSE, FALSE), Idle)
  /\ Straight /\ accepted' = Nothing /\ UNCHANGED resolved

-----------------------------------------------------------------------------
(* resume: a confirmed plan.  The prior writer is observed stopped; what   *)
(* is pending is settled by the provider's verified word; then the writer  *)
(* changes.  A workspace with another candidate invalidates the run's.     *)

SettleForTakeover(p, to) ==
  /\ st[p].pc \in {"idle", "takeover"} /\ s.gen < MaxGen
  /\ AppendState(p, Operated(s, StopOp, to, FALSE, TRUE), [Idle EXCEPT !.pc = "takeover"])
  /\ Straight /\ accepted' = Nothing /\ UNCHANGED resolved

Resume(p, invalidate) ==
  /\ st[p].pc \in {"idle", "takeover"} /\ s.gen < MaxGen
  /\ AppendState(p, Resumed(s, OwnerOf[p], invalidate), Idle)
  /\ Detour /\ accepted' = Nothing /\ UNCHANGED resolved

Done == Terminal(s) /\ (\A p \in Procs : st[p] = Idle) /\ UNCHANGED runVars

NextRun ==
  \/ \E p \in Procs :
       \/ \E v \in Versions :
            \/ Freeze(p, v)
            \/ ResolveEscalation(p, v)
            \/ \E K \in SUBSET Criteria :
                 \/ \E d \in Oracles \cup {None} : Advance(p, v, K, d)
                 \/ \E f \in s.rework : ResolveRework(p, f, v, K)
       \/ \E d \in Oracles, b \in BOOLEAN : PinOracle(p, d, b)
       \/ \E m \in {"author", "assignment"} : RecordCustody(p, m)
       \/ \E c \in Candidates, k \in Criteria : Collect(p, c, k)
       \/ RecordCandidate(p) \/ RecordObservation(p) \/ Abandon(p)
       \/ Return(p) \/ GrantRevoked(p)
       \/ \E k \in {"paused", "blocked"} : RecordHalt(p, k)
       \/ BudgetRefused(p) \/ SafeStop(p)
       \/ \E to \in Outcomes : SettleForTakeover(p, to)
       \/ \E b \in BOOLEAN : Resume(p, b)
  \/ Done

RunSpec == InitRun /\ [][NextRun]_runVars

-----------------------------------------------------------------------------
(* Properties.                                                             *)

\* Every proof the run holds binds what the run is now: runtime evidence and
\* custody are for this candidate, oracle, writer generation and revocation
\* epoch, observations for this candidate, whatever happened since.
EvidenceCurrent ==
  /\ \A e \in s.ev : e = Binding(s)
  /\ \A c \in s.custody : c.at = Binding(s)
  /\ \A o \in s.obs : o.cand = s.cand
  /\ s.pkg \in {None, s.oracle}

\* A run that must be assured completes only on a candidate whose runtime
\* evidence was accepted in this generation, built behind the very oracle
\* whose package the developer was admitted with.
AssuredCompletion ==
  s.status = "completed" /\ s.assured =>
    /\ s.ev = {Binding(s)}
    /\ s.dev = s.oracle

\* Acceptance under a contract that drifted from the frozen one happens only
\* when a human resolved that very drift.
DriftNeedsHuman == accepted[1] # accepted[2] => accepted \in resolved

\* Nothing in the code keeps two commands of one writer apart: the candidate
\* append of a verify and its observation may have a return between them.
OneCommandPerWriter == \A p, q \in Procs : OwnerOf[p] = OwnerOf[q] => p = q

\* A finding is resolved only by evidence collected after the return that
\* raised it, never by what was observed before, as long as no writer runs
\* two commands at a time.
ResolvedOnNewEvidence ==
  OneCommandPerWriter =>
    \A f \in s.rework \ s'.rework : \A o \in Evidence({"c"}) : f \in o.open

ReworkNeedsNewEvidence == [][ResolvedOnNewEvidence]_runVars

\* What the run rests on is current: its proofs, the candidate it completed with,
\* and the contract it accepted under.
RunCurrent == EvidenceCurrent /\ AssuredCompletion /\ DriftNeedsHuman
=============================================================================
