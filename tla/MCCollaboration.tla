-------------------------- MODULE MCCollaboration ---------------------------
(***************************************************************************)
(* What several parties share, on a small instance: the journal of two     *)
(* processes of one host, with small reserves, and the decisions of the    *)
(* roles about a delivery.  The two share no state: a behaviour runs one   *)
(* of them, named by side, and leaves the other as it starts.              *)
(***************************************************************************)
EXTENDS JournaledRunStore, RoleCollaboration, TLC

Plain == [assurance |-> "standard", sensitive |-> FALSE, reversible |-> TRUE,
          publicContract |-> FALSE, migration |-> FALSE, domains |-> 1,
          risk |-> "low", uncertainty |-> "low", complete |-> TRUE]

MCChanges == { Plain, [Plain EXCEPT !.sensitive = TRUE] }

MCSymmetry == Permutations(Writers)

VARIABLE side

MCInit ==
    /\ side \in {"journal", "roles"}
    /\ InitJournal /\ InitRoles
    \* The side that does not run has one initial state.
    /\ side # "roles" => change = Plain

MCNext ==
    \/ side = "journal" /\ NextJournal /\ UNCHANGED <<side, roleVars>>
    \/ side = "roles" /\ NextRoles /\ UNCHANGED <<side, journalVars>>

MCSpec == MCInit /\ [][MCNext]_<<side, journalVars, roleVars>>
=============================================================================
