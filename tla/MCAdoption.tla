----------------------------- MODULE MCAdoption -----------------------------
(***************************************************************************)
(* A package of one managed file in the core profile, the configuration,   *)
(* and a synced project file.  Two questions share the run, named by side: *)
(* the lock by itself with all processes contending for it, and whole      *)
(* adoptions by one process that may die and come back.  The lock admits   *)
(* one process at a time, so the second needs no other process.            *)
(***************************************************************************)
EXTENDS Adoption

CONSTANTS p1, p2, p3

MCProfiles == [bare |-> {}, core |-> {"doc"}]
MCPayload == <<"doc", "config", "pnpm-lock">>
MCSeeds == {"config"}
MCSynced == {"pnpm-lock"}
\* Over a former version's installation the first removes the document and
\* the second updates it; after the first the second adds it.
MCPreviews ==
  <<{[profile |-> "bare", choice |-> "strict"]}, {[profile |-> "core", choice |-> "none"]}>>

VARIABLE side

MCInit ==
  /\ side \in {"lock", "adoption"}
  /\ Init
  /\ side = "lock" => disk = CHOOSE d \in Fresh : TRUE

MCNext ==
  \/ side = "lock" /\ LockNext /\ UNCHANGED <<side, body>>
  \/ /\ side = "adoption" /\ UNCHANGED side
     /\ (Work(p1) \/ Around)
     \* One death is enough there; the lock side has MaxCrashes.
     /\ inc'[p1] < MaxCrashes

MCSpec == MCInit /\ [][MCNext]_<<side, vars>>

=============================================================================
