--------------------------- MODULE WorkProjection ---------------------------
(***************************************************************************)
(* How a set of work records reads (lib/core/work-projection.mjs): what a  *)
(* record is, which note an admitted capability replaces, which parts a    *)
(* goal has, whether they are all delivered, and what the audit of an      *)
(* issue reports (validateIssueAgainstSdlc in lib/sdlc-state.mjs).         *)
(*                                                                         *)
(* Records are opened, edited and delivered by anyone at any time; the     *)
(* ledger in a goal's body is a picture of its parts taken at some earlier *)
(* moment.                                                                 *)
(***************************************************************************)
EXTENDS Naturals, Sequences, FiniteSets, FiniteSetsExt

CONSTANTS
    Goals,        \* issue numbers of the goals
    Goal,         \* the goal whose body carries a parts ledger
    Parts,        \* issue numbers the later records get, in order
    Drafts        \* what an author may write into a record

VARIABLES
    records,      \* the records by issue number
    ledger        \* the parts ledger in the goal's body, or NoLedger

projectionVars == <<records, ledger>>

Kinds == {"goal", "capability", "spec"}

\* marker: the kind in the work marker, "malformed", or "none";  named: the kind
\* in the prose, or "none";  titled: the kind the title starts with, or "none";
\* worn: the kind labels;  parents, replaces: the numbers its lines name, in order;
\* epics: the numbers of its **Epic:** lines.
DraftType ==
    [marker : Kinds \cup {"malformed", "none"}, named : Kinds \cup {"none"},
     titled : Kinds \cup {"none"}, worn : SUBSET Kinds, parents : Seq(Nat),
     replaces : Seq(Nat), epics : SUBSET Nat]

ASSUME DraftAssumption == Drafts \subseteq DraftType

\* Issue numbers are given out once.
ASSUME NumberAssumption == Goal \in Goals /\ Goals \cap Parts = {}

-----------------------------------------------------------------------------
(* One record.                                                             *)

workShape(r) ==
    CASE r.marker \in Kinds -> r.marker
      [] r.marker = "malformed" -> "invalid"
      [] r.marker = "none" /\ r.named \in {"none", "capability"} /\ r.titled = "capability"
             /\ r.worn = {"capability"} -> "note"
      [] OTHER -> IF r.named # "none" THEN "invalid" ELSE "legacy"

parentFindings(r, kind) ==
    IF kind = "goal" THEN r.parents # <<>> \/ r.epics # {}
    ELSE \/ Len(r.parents) # 1
         \/ r.epics \ {r.parents[1]} # {}

\* Whether the record's own text is reported.
workProjectionFindings(n, r) ==
    CASE workShape(r) = "note" -> parentFindings(r, "note") \/ r.replaces # <<>>
      [] r.marker = "none" /\ r.named = "none" /\ workShape(r) # "note" ->
             r.titled # "none" \/ r.worn # {} \/ r.replaces # <<>>
      [] r.marker \notin Kinds /\ r.named # "none" /\ workShape(r) # "note" -> TRUE
      [] r.marker = "malformed" /\ r.named = "none" -> TRUE
      [] r.marker \in Kinds ->
             \/ r.named \notin {"none", r.marker}
             \/ r.titled # r.marker
             \/ r.worn # {r.marker}
             \/ parentFindings(r, r.marker)
             \/ r.replaces # <<>> /\ r.marker # "capability"
             \/ Len(r.replaces) > 1
             \/ r.replaces # <<>> /\ r.replaces[1] = n

-----------------------------------------------------------------------------
(* A set of records.                                                       *)

\* The first parent a record names decides; naming none is a name of its own.
FirstParent(r) == IF r.parents = <<>> THEN 0 ELSE r.parents[1]

Replacers(rs) == {n \in DOMAIN rs : workShape(rs[n]) = "capability" /\ rs[n].replaces # <<>>}

\* Mutant: a capability may replace a note of another goal.
claimsAnywhere(rs, n, note) ==
    /\ Len(rs[n].replaces) = 1
    /\ rs[n].replaces[1] = note
    /\ note # n
    /\ note \in DOMAIN rs
    /\ workShape(rs[note]) = "note"

\* Capability n makes a sound claim to the note: one note, of the same parent.
claims(rs, n, note) ==
    /\ Len(rs[n].replaces) = 1
    /\ rs[n].replaces[1] = note
    /\ note # n
    /\ note \in DOMAIN rs
    /\ workShape(rs[note]) = "note"
    /\ FirstParent(rs[n]) = FirstParent(rs[note])

Claimants(rs, note) == {n \in Replacers(rs) : claims(rs, n, note)}

\* The lower number keeps a contested note.
resolveReplacements(rs) ==
    [note \in {n \in DOMAIN rs : Claimants(rs, n) # {}} |-> Min(Claimants(rs, note))]

\* The records whose claim is refused.
replacementFindings(rs) ==
    Replacers(rs) \ {resolveReplacements(rs)[note] : note \in DOMAIN resolveReplacements(rs)}

\* The parts of a parent: its admitted records, and its notes nothing replaces.
currentParts(rs, parent) ==
    {n \in DOMAIN rs :
        /\ rs[n].parents = <<parent>>
        /\ \/ workShape(rs[n]) \in {"capability", "spec"}
           \/ workShape(rs[n]) = "note" /\ n \notin DOMAIN resolveReplacements(rs)}

admitted(r) == workShape(r) # "note"

\* goalChildCompletionStatus: every part is admitted and delivered.
readyForClosure(rs, goal) ==
    LET parts == currentParts(rs, goal)
    IN  parts # {} /\ \A n \in parts : admitted(rs[n]) /\ rs[n].delivered

-----------------------------------------------------------------------------
(* The ledger in the goal's body and the audit.                            *)

NoLedger == [written |-> FALSE]

renderGoalPartsLedger(rs, goal) ==
    [written |-> TRUE, rows |-> [n \in currentParts(rs, goal) |-> rs[n].delivered],
     ready |-> readyForClosure(rs, goal)]

goalLedgerFindings(rs, goal) ==
    LET parts == currentParts(rs, goal)
    IN  /\ goal = Goal /\ ledger.written
        /\ \/ DOMAIN ledger.rows # parts
           \/ \E n \in DOMAIN ledger.rows \cap parts : ledger.rows[n] # rs[n].delivered
           \/ ledger.ready # readyForClosure(rs, goal)

\* The audit of one issue against the record set it is part of.
validateIssueAgainstSdlc(rs, n) ==
    \/ workProjectionFindings(n, rs[n])
    \/ n \in replacementFindings(rs)
    \/ workShape(rs[n]) = "goal" /\ goalLedgerFindings(rs, n)

-----------------------------------------------------------------------------
GoalRecord ==
    [marker |-> "goal", named |-> "goal", titled |-> "goal", worn |-> {"goal"},
     parents |-> <<>>, replaces |-> <<>>, epics |-> {}, delivered |-> FALSE]

InitProjection ==
    /\ records = [g \in Goals |-> GoalRecord]
    /\ ledger = NoLedger

Written(draft, delivered) ==
    [f \in DOMAIN draft \cup {"delivered"} |-> IF f = "delivered" THEN delivered ELSE draft[f]]

\* A new record gets the next issue number.
OpenRecord(n, draft) ==
    /\ n = Min(Parts \ DOMAIN records)
    /\ records' = [m \in DOMAIN records \cup {n} |->
                      IF m = n THEN Written(draft, FALSE) ELSE records[m]]
    /\ UNCHANGED ledger

\* An author rewrites a record.
EditRecord(n, draft) ==
    /\ records' = [records EXCEPT ![n] = Written(draft, records[n].delivered)]
    /\ UNCHANGED ledger

\* A record is closed or labelled as delivered, or opened again.
MarkDelivered(n, delivered) ==
    /\ records' = [records EXCEPT ![n].delivered = delivered]
    /\ UNCHANGED ledger

\* The ledger is rendered into the goal's body.
WriteLedger ==
    /\ ledger' = renderGoalPartsLedger(records, Goal)
    /\ UNCHANGED records

NextProjection ==
    \/ \E n \in Parts \ DOMAIN records, draft \in Drafts : OpenRecord(n, draft)
    \/ \E n \in DOMAIN records \cap Parts, draft \in Drafts : EditRecord(n, draft)
    \/ \E n \in DOMAIN records \cap Parts, delivered \in BOOLEAN : MarkDelivered(n, delivered)
    \/ WriteLedger

ProjectionSpec == InitProjection /\ [][NextProjection]_projectionVars

-----------------------------------------------------------------------------
\* A note is covered when exactly one capability of its own goal took it over and
\* that capability is delivered.
Covered(note) ==
    \E n \in DOMAIN records :
        /\ workShape(records[n]) = "capability"
        /\ records[n].replaces = <<note>>
        /\ records[n].parents = records[note].parents
        /\ records[n].delivered

\* When the audit reports nothing on any record and the goal's ledger says that it
\* is ready to be closed, every note broken out of the goal was taken over by
\* a delivered capability of that goal, and every capability and spec under it is
\* delivered, whatever was opened or edited since the ledger was written
\* (goalChildCompletionStatus, goalLedgerFindings, resolveReplacements).
ClosureSound ==
    (/\ \A n \in DOMAIN records : ~validateIssueAgainstSdlc(records, n)
     /\ ledger.written /\ ledger.ready) =>
            \A n \in DOMAIN records : records[n].parents = <<Goal>> =>
                CASE workShape(records[n]) = "note" -> Covered(n)
                  [] workShape(records[n]) \in {"capability", "spec"} -> records[n].delivered
                  [] OTHER -> TRUE

=============================================================================
