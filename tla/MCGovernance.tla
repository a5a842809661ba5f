---------------------------- MODULE MCGovernance ----------------------------
(***************************************************************************)
(* What governs a run, on a small instance: the rules for opening work     *)
(* records and the reading of a record set; the run service, with two      *)
(* processes of two writers and a second contract version that carries     *)
(* another oracle digest; and the recovery of an incident by two callers.  *)
(* They share no state: a behaviour runs one of them, named by side, and   *)
(* leaves the others as they start.                                        *)
(***************************************************************************)
EXTENDS RunService, Recovery, WorkAltitude, WorkProjection, TLC

CONSTANTS p1, p2

MCOwnerOf == [p \in Procs |-> IF p = p1 THEN 1 ELSE 2]
MCOracleOf == [v \in Versions |-> IF v = 2 THEN 2 ELSE None]
MCKindOf == [o \in Ops |-> "provider-safe-stop"]

MCPolicies == { [name |-> "p", maxAttempts |-> 1], [name |-> "q", maxAttempts |-> 2] }

MCFailures ==
  { [code |-> "insufficient_quota", status |-> 429], [code |-> "", status |-> 429],
    [code |-> "", status |-> 401] }

MCSymmetry == Permutations(Callers)

Draft(marker, titled, worn, parents, replaces) ==
    [marker |-> marker, named |-> marker, titled |-> titled, worn |-> worn,
     parents |-> parents, replaces |-> replaces, epics |-> {}]

Note(parent) == Draft("none", "capability", {"capability"}, <<parent>>, <<>>)
Cap(parents, replaces) == Draft("capability", "capability", {"capability"}, parents, replaces)

\* Notes and capabilities, claims to an earlier record, also from under the other
\* goal, and the mistakes the audit is for: two parents, two claims, a marker that
\* does not parse, an epic that names another goal.
MCDrafts ==
    {Note(1), Cap(<<1>>, <<>>), Cap(<<1>>, <<3>>), Cap(<<2>>, <<3>>),
     Cap(<<1, 2>>, <<3>>), Cap(<<1>>, <<3, 4>>),
     [Cap(<<1>>, <<>>) EXCEPT !.marker = "malformed", !.epics = {2}]}

VARIABLE side

MCInit ==
    /\ side \in {"service", "recovery", "altitude", "projection"}
    /\ InitRun /\ InitRecovery /\ InitAltitude /\ InitProjection
    \* The parts that do not run have one initial state.
    /\ side # "service" => s = Started(1, TRUE)

MCNext ==
    \/ /\ side = "service" /\ NextRun
       /\ UNCHANGED <<side, recoveryVars, altitudeVars, projectionVars>>
    \/ /\ side = "recovery" /\ NextRecovery
       /\ UNCHANGED <<side, runVars, altitudeVars, projectionVars>>
    \/ /\ side = "altitude" /\ NextAltitude
       /\ UNCHANGED <<side, runVars, recoveryVars, projectionVars>>
    \/ /\ side = "projection" /\ NextProjection
       /\ UNCHANGED <<side, runVars, recoveryVars, altitudeVars>>

MCSpec == MCInit /\ [][MCNext]_<<side, runVars, recoveryVars, altitudeVars, projectionVars>>
=============================================================================
