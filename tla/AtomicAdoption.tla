--------------------------- MODULE AtomicAdoption ---------------------------
(***************************************************************************)
(* What adoption promises its project: between the edits of its authors a  *)
(* project changes only by a whole plan made for exactly the files it has, *)
(* or by taking one such change back as a whole.                           *)
(***************************************************************************)
EXTENDS AdoptionPlan

VARIABLES project, taken

Edit ==
  /\ \E f \in Files :
       /\ project' = [project EXCEPT ![f] = project'[f]]
       /\ project'[f].kind \in {"absent", "authored"}
  /\ UNCHANGED taken

Install ==
  \E opts \in {taken'[i].opts : i \in DOMAIN taken'} :
    LET plan == Plan(project, opts) IN
    /\ ~Blocked(plan)
    /\ project' = Installed(project, plan)
    /\ taken' = Append(taken, plan)

Before(plan) ==
  [f \in Changes(plan) \cup {LockFile} |->
     IF f = LockFile THEN plan.prior ELSE plan.actions[f].before]

Undo ==
  /\ \E i \in DOMAIN taken :
       LET b == Before(taken[i]) IN
       /\ \A f \in DOMAIN b : f # LockFile => project[f] = taken[i].actions[f].after
       /\ project[LockFile] = NewLock(taken[i])
       /\ project' = [f \in Files |-> IF f \in DOMAIN b THEN b[f] ELSE project[f]]
  /\ UNCHANGED taken

Next == Edit \/ Install \/ Undo

=============================================================================
