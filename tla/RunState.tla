------------------------------ MODULE RunState ------------------------------
(***************************************************************************)
(* reduceRun: the state of a run as a fold over its events.  One operator  *)
(* per event kind; it yields the set of successor states, empty when the   *)
(* reducer throws.  Digests are model values or numbers, None is null.     *)
(***************************************************************************)
EXTENDS Integers, FiniteSets

CONSTANTS
  Ops,            \* operation identities
  KindOf,         \* what each operation is
  OracleOf        \* the oracle digest a contract version carries, or None

None == 0

LastPhase == 8
PinPhase == 3                 \* implementation-planner, before the developer
EvidencePhases == {4, 5}      \* developer and tester

\* An observation: criterion "c", or "r" for the candidate's runtime check.
Criteria == {"c", "r"}

Started(owner, assured) ==
  [gen |-> 0, epoch |-> 0, owner |-> owner, status |-> "active", phase |-> 0,
   contract |-> None, cand |-> None, obs |-> {}, rework |-> {},
   ops |-> [o \in Ops |-> "none"],
   oracle |-> None, pkg |-> None, dev |-> None, ev |-> {}, custody |-> {},
   assured |-> assured]

Outcomes == {"confirmed", "failed"}

Pending(s) == {o \in Ops : s.ops[o] \notin Outcomes \cup {"none"}}

Terminal(s) == s.status \in {"completed", "cancelled"}

\* What a proof of the oracle binds.
Binding(s) == [cand |-> s.cand, oracle |-> s.oracle, gen |-> s.gen, epoch |-> s.epoch]

\* Which events a run that is over, paused or blocked still takes.
Takes(s, kind) ==
  /\ ~Terminal(s)
  /\ s.status # "active" =>
       kind \in {"checkpoint", "resumed", "cancelled", "delegation-safety", "grant-revoked"}

\* Mutant: runtime evidence survives a new candidate.
RefreshLate(s) ==
  [s EXCEPT !.ev = {e \in @ : e.oracle = s.oracle /\ e.gen = s.gen /\ e.epoch = s.epoch},
            !.pkg = IF @ = s.oracle THEN @ ELSE None,
            !.custody = {c \in @ : c.at.gen = s.gen /\ c.at.epoch = s.epoch}]

\* After every event: evidence, package and custody that no longer bind the
\* state are dropped, the custody receipts all together.
Refresh(s) ==
  [s EXCEPT !.ev = {e \in @ : e = Binding(s)},
            !.pkg = IF @ = s.oracle THEN @ ELSE None,
            !.custody = IF \A c \in @ : c.at.gen = s.gen /\ c.at.epoch = s.epoch
                        THEN @ ELSE {}]

\* A new oracle digest takes the custody of another one away.
WithOracle(s, d) ==
  IF d = None THEN s
  ELSE [s EXCEPT !.oracle = d,
                 !.custody = IF \E c \in @ : c.at.oracle # d THEN {} ELSE @]

-----------------------------------------------------------------------------

\* Mutant: the observations outlive the contract they were made for.
ContractFrozenKeeping(s, v, assured) ==
  IF ~Takes(s, "contract-frozen") THEN {}
  ELSE {Refresh(WithOracle([s EXCEPT !.contract = v, !.assured = @ \/ assured],
                           OracleOf[v]))}

ContractFrozen(s, v, assured) ==
  IF ~Takes(s, "contract-frozen") THEN {}
  ELSE {Refresh(WithOracle([s EXCEPT !.contract = v, !.obs = {},
                                     !.assured = @ \/ assured], OracleOf[v]))}

\* The package proof, when there is one, was made for this very state.
OraclePinned(s, d, package) ==
  IF ~Takes(s, "oracle-pinned") THEN {}
  ELSE LET pinned == WithOracle(s, d)
       IN  {Refresh(IF package THEN [pinned EXCEPT !.pkg = d, !.assured = TRUE] ELSE pinned)}

OracleCustody(s, mode) ==
  IF ~Takes(s, "oracle-custody-recorded") \/ s.oracle = None THEN {}
  ELSE {Refresh([s EXCEPT !.custody =
                   {c \in @ : c.mode # mode} \cup {[mode |-> mode, at |-> Binding(s)]}])}

CandidateChanged(s, c) ==
  IF ~Takes(s, "candidate") THEN {}
  ELSE {Refresh([s EXCEPT !.cand = c, !.obs = {},
                          !.custody = IF c # s.cand THEN {} ELSE @])}

Observed(s, o) ==
  IF ~Takes(s, "observation") \/ o.cand # s.cand THEN {}
  ELSE {Refresh([s EXCEPT !.obs = @ \cup {o}])}

\* rt: the digest of the runtime observation the service cites, as a set.
Advanced(s, d, verifiedPackage, rt) ==
  LET entered == WithOracle(s, d)
      proven  == /\ entered.pkg # None /\ rt # {}
                 /\ \A o \in rt : o \in s.obs /\ o.crit = "r" /\ o.cand = s.cand
  IN  IF \/ ~Takes(s, "advanced") \/ s.rework # {} \/ Pending(s) # {}
         \/ s.phase = LastPhase
         \/ s.assured /\ s.phase = PinPhase /\ ~verifiedPackage
         \/ s.assured /\ s.phase \in EvidencePhases /\ ~proven
         \/ verifiedPackage /\ s.pkg = None
      THEN {}
      ELSE {Refresh([entered EXCEPT
              !.phase = @ + 1, !.contract = None,
              !.dev = IF verifiedPackage THEN s.pkg ELSE @,
              !.ev = IF s.assured /\ s.phase \in EvidencePhases
                     THEN {Binding(entered)} ELSE @])}

ReturnTarget(s) ==
  IF s.phase = 4 THEN 3 ELSE IF s.phase \in {6, 7, 8} THEN 4 ELSE None

ReturnedTo(s, f) ==
  IF ~Takes(s, "returned") \/ ReturnTarget(s) = None \/ f \in s.rework THEN {}
  ELSE {Refresh([s EXCEPT !.phase = ReturnTarget(s), !.rework = @ \cup {f},
                          !.contract = None])}

ReworkResolved(s, f, cited) ==
  IF ~Takes(s, "rework-resolved") \/ f \notin s.rework \/ cited = {} \/ ~(cited \subseteq s.obs)
  THEN {}
  ELSE {Refresh([s EXCEPT !.rework = @ \ {f}])}

Halted(s, kind) == IF ~Takes(s, kind) THEN {} ELSE {Refresh([s EXCEPT !.status = kind])}

\* A new writer takes over a run whose operations are all settled.
Resumed(s, owner, invalidate) ==
  IF ~Takes(s, "resumed") \/ Pending(s) # {} THEN {}
  ELSE LET taken == [s EXCEPT !.owner = owner, !.gen = @ + 1, !.status = "active"]
       IN  {Refresh(IF invalidate THEN [taken EXCEPT !.cand = None, !.obs = {}, !.custody = {}]
                    ELSE taken)}

Completed(s) ==
  IF \/ ~Takes(s, "completed") \/ s.phase # LastPhase \/ s.rework # {} \/ Pending(s) # {}
     \/ s.assured /\ (s.ev # {Binding(s)} \/ s.pkg = None)
  THEN {}
  ELSE {Refresh([s EXCEPT !.status = "completed"])}

-----------------------------------------------------------------------------
(* Operations on the outside world.                                        *)

\* The transitions of an operation; admitted ones may become unknown before
\* they were submitted, a verified outcome may confirm a planned one.
OperationSteps(from, admitted, verified) ==
  CASE from = "none"      -> {"planned"}
    [] from = "planned"   -> {"submitted", "failed"}
                               \cup (IF admitted THEN {"unknown"} ELSE {})
                               \cup (IF verified THEN {"confirmed"} ELSE {})
    [] from = "submitted" -> {"confirmed", "unknown", "failed"}
    [] from = "unknown"   -> {"confirmed", "failed"}
    [] OTHER              -> {}

OperationTaken(s, o, to) ==
  \/ s.status = "active"
  \/ Terminal(s) /\ KindOf[o] = "issue-projection"
  \/ s.status \in {"paused", "blocked"} /\ to \in Outcomes \cup {"unknown"}
  \/ s.status = "paused" /\ KindOf[o] = "provider-safe-stop"

Operated(s, o, to, admitted, verified) ==
  IF ~OperationTaken(s, o, to) \/ to \notin OperationSteps(s.ops[o], admitted, verified) THEN {}
  ELSE {Refresh([s EXCEPT !.ops[o] = to])}
=============================================================================
