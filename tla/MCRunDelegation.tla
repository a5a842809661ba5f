-------------------------- MODULE MCRunDelegation --------------------------
(***************************************************************************)
(* Two processes, a grant with a child, an edit, a merge and projections.  *)
(***************************************************************************)
EXTENDS RunDelegation, TLC

CONSTANTS p1, p2, root, child, edit, merge, note1, note2

MCParentOf == [g \in Grants |-> IF g = child THEN root ELSE None]
MCMaxAttempts == [g \in Grants |-> IF g = child THEN 1 ELSE 2]
MCMaxEffects == [g \in Grants |-> 1]
MCKindOf == [o \in Ops |-> IF o = edit THEN "edit" ELSE IF o = merge THEN "merge"
                           ELSE "issue-projection"]
MCSymmetry == Permutations({p1, p2}) \cup Permutations({note1, note2})
MCOracleOf == [v \in {} |-> None]
=============================================================================
