------------------------- MODULE RoleCollaboration --------------------------
(***************************************************************************)
(* The handover between two roles (lib/core/role-collaboration.mjs): the   *)
(* owner issues an acceptance contract, the producer delivers, a council   *)
(* advises where the change asks for one, the owner decides, asks for      *)
(* rework a bounded number of times, and the phase advances on a decision  *)
(* that matches the evidence it was taken on.                              *)
(*                                                                         *)
(* Records are sealed by a digest of their contents: here a record that    *)
(* binds another holds it.  Records are never withdrawn, so whoever asks   *)
(* for an advance may hand in old ones.                                    *)
(***************************************************************************)
EXTENDS Naturals, FiniteSets

CONSTANTS
  Owner, Producer,    \* the two roles of the handover
  Seats,              \* further roles that may sit on a council
  Required,           \* the seats whose advice a council must have
  Changes,            \* the changes a project may classify
  MaxCandidates, MaxRecords, MaxSyntheses, MaxUnfreezes

DefaultMaxReworkRounds == 2
NoRecord == [none |-> TRUE]

VARIABLES
  change,       \* what is being changed, as classified
  candidate,    \* the candidate under work
  contract,     \* the acceptance contract of the issued handoff
  deliveries,   \* delivery receipts
  advice,       \* council advice, bound to a delivery
  syntheses,    \* the owner's council syntheses
  decisions,    \* acceptance decisions that were valid when made
  ledger,       \* rework rounds, the circuit breaker and its fencing token
  openRework,   \* is a rework request unresolved
  advanced      \* history: the last advance and the state it happened in

roleVars == <<change, candidate, contract, deliveries, advice, syntheses, decisions,
          ledger, openRework, advanced>>

-----------------------------------------------------------------------------
(* How much collaboration a change needs.                                  *)

humanGated(c) == c.assurance = "high" \/ c.sensitive \/ ~c.reversible

councilNeeded(c) ==
  \/ c.publicContract \/ c.migration \/ c.domains >= 3
  \/ c.risk = "high" \/ c.uncertainty = "high"

bilateralNeeded(c) ==
  \/ c.risk = "medium" \/ c.uncertainty = "medium"
  \/ ~c.complete \/ c.domains >= 2

classifyRoleCollaboration(c) ==
  IF humanGated(c) THEN "human-gated"
  ELSE IF councilNeeded(c) THEN "council"
  ELSE IF bilateralNeeded(c) THEN "bilateral"
  ELSE "linear"

\* The owner never sits on the council that advises it.
selectCouncilSeats == Required \ {Owner}

councilRequired(class) == class \in {"council", "human-gated"}

\* A sealed contract: council and human-gated work require a council.
createAcceptanceContract(cand) ==
  LET class == classifyRoleCollaboration(change)
  IN [cand |-> cand, class |-> class,
      seats |-> IF councilRequired(class) THEN selectCouncilSeats ELSE {}]

-----------------------------------------------------------------------------
(* Verifying a delivery.                                                   *)

\* Mutant: a deferred objection is as good as a resolved one.
unresolvedUnlessDeferred(syn) ==
  {a \in syn.advice : a.objects /\ syn.disposition = "open"}

\* A blocking objection must be accepted or rejected with a reason: deferring
\* it completes the synthesis but not the council.
unresolvedObjections(syn) ==
  {a \in syn.advice : a.objects /\ syn.disposition \notin {"accepted", "rejected-with-reason"}}

\* The synthesis binds this delivery and exactly the advice supplied, with one
\* advice of every required seat.
verifyCouncil(contr, delivery, supplied, syn) ==
  /\ syn # NoRecord
  /\ syn.delivery = delivery
  /\ syn.disposition # "open" \/ \A a \in syn.advice : ~a.objects
  /\ supplied = syn.advice
  /\ \A a \in supplied : a.delivery = delivery /\ a.seat \in Seats \ {Owner}
  /\ \A a, b \in supplied : a.seat = b.seat => a = b
  /\ \A s \in contr.seats : \E a \in supplied : a.seat = s
  /\ unresolvedObjections(syn) = {}

\* The report: what was checked, and whether every check passed.
verifyRoleDelivery(contr, delivery, supplied, syn) ==
  [contract |-> contr, delivery |-> delivery,
   synthesis |-> IF councilRequired(contr.class) THEN syn ELSE NoRecord,
   pass |-> /\ delivery.contract = contr
            /\ delivery.by = Producer
            /\ delivery.cand = contr.cand
            /\ delivery.criteria
            /\ councilRequired(contr.class) => verifyCouncil(contr, delivery, supplied, syn)]

\* Acceptance needs a passing report, passing semantic findings, and for
\* human-gated work a human's approval of this very delivery.
validateAcceptanceDecision(d) ==
  /\ d.by = Owner
  /\ d.state \in {"accepted", "accepted-with-conditions"} =>
       /\ d.report.pass /\ d.semantic
       /\ d.report.contract.class = "human-gated" => d.approved = d.report.delivery

-----------------------------------------------------------------------------
InitRoles ==
  /\ change \in Changes
  /\ candidate = 1 /\ contract = createAcceptanceContract(1)
  /\ deliveries = {} /\ advice = {} /\ syntheses = {} /\ decisions = {}
  /\ ledger = [rounds |-> 0, frozen |-> FALSE, token |-> 0, unfreezes |-> 0,
               blocker |-> FALSE]
  /\ openRework = FALSE
  /\ advanced = NoRecord

\* The work changes; the owner seals a contract for the new candidate.
NewCandidate ==
  /\ candidate < MaxCandidates
  /\ candidate' = candidate + 1
  /\ contract' = createAcceptanceContract(candidate + 1)
  /\ openRework' = FALSE
  /\ UNCHANGED <<change, deliveries, advice, syntheses, decisions, ledger, advanced>>

\* A receipt for the handoff, by whichever role, with the token its author
\* knew; the criteria pass or fail.
Deliver(role, passing) ==
  /\ Cardinality(deliveries) < MaxRecords
  /\ deliveries' = deliveries \cup
       {[contract |-> contract, cand |-> candidate, by |-> role,
         criteria |-> passing, token |-> ledger.token]}
  /\ UNCHANGED <<change, candidate, contract, advice, syntheses, decisions,
                 ledger, openRework, advanced>>

createCouncilAdvice(delivery, seat, objecting) ==
  /\ councilRequired(delivery.contract.class)
  /\ Cardinality(advice) < MaxRecords
  /\ advice' = advice \cup
       {[delivery |-> delivery, seat |-> seat, objects |-> objecting]}
  /\ UNCHANGED <<change, candidate, contract, deliveries, syntheses, decisions,
                 ledger, openRework, advanced>>

createCouncilSynthesis(delivery, bound, disposition) ==
  /\ Cardinality(syntheses) < MaxSyntheses
  /\ bound # {}
  /\ (\E a \in bound : a.objects) \/ disposition = "accepted"   \* nothing to dispose of
  /\ syntheses' = syntheses \cup
       {[delivery |-> delivery, advice |-> bound, disposition |-> disposition]}
  /\ UNCHANGED <<change, candidate, contract, deliveries, advice, decisions,
                 ledger, openRework, advanced>>

\* The report is recomputed from the sources; an invalid decision is refused.
createAcceptanceDecision(role, state, delivery, supplied, syn, semantic, approved) ==
  LET d == [by |-> role, state |-> state, semantic |-> semantic,
            approved |-> approved,
            report |-> verifyRoleDelivery(delivery.contract, delivery, supplied, syn)]
  IN /\ Cardinality(decisions) < MaxRecords
     /\ validateAcceptanceDecision(d)
     /\ decisions' = decisions \cup {d}
     /\ UNCHANGED <<change, candidate, contract, deliveries, advice, syntheses,
                    ledger, openRework, advanced>>

-----------------------------------------------------------------------------
(* Rework and its circuit breaker.                                         *)

deriveReworkRound == ledger.rounds + 1

reworkAllowed == deriveReworkRound <= DefaultMaxReworkRounds

\* The request, and the round its caller records in the ledger; a finding may
\* be a blocker.
createReworkRequest(blocker) ==
  /\ ~ledger.frozen /\ reworkAllowed
  /\ \E d \in decisions : d.state = "rework-required"
  /\ ledger' = [ledger EXCEPT !.rounds = deriveReworkRound,
                              !.blocker = ledger.blocker \/ blocker]
  /\ openRework' = TRUE
  /\ UNCHANGED <<change, candidate, contract, deliveries, advice, syntheses,
                 decisions, advanced>>

\* A request past the last round freezes the ledger and raises its token.
tripLedgerBreaker ==
  /\ ~ledger.frozen /\ ~reworkAllowed
  /\ \E d \in decisions : d.state = "rework-required"
  /\ ledger' = [ledger EXCEPT !.frozen = TRUE, !.token = @ + 1]
  /\ UNCHANGED <<change, candidate, contract, deliveries, advice, syntheses,
                 decisions, openRework, advanced>>

\* A waiver or an abandonment needs a human or a human's approval; a seat of
\* the rig may not resolve.
validateUnfreezeResolution(actor, resolution, approval) ==
  /\ actor \in {"steer.lead", "human"}
  /\ resolution \in {"re-scope", "slice-split", "person-waiver", "abandonment"}
  /\ resolution \in {"person-waiver", "abandonment"} => actor = "human" \/ approval

\* The resolution names the next token, so it cannot be used for a later
\* freeze; the rounds are not given back.
unfreezeLedger(actor, resolution, approval, token) ==
  /\ ledger.frozen /\ ledger.unfreezes < MaxUnfreezes
  /\ validateUnfreezeResolution(actor, resolution, approval)
  /\ token = ledger.token + 1
  /\ ledger' = [ledger EXCEPT !.frozen = FALSE, !.token = token,
                              !.unfreezes = @ + 1]
  /\ UNCHANGED <<change, candidate, contract, deliveries, advice, syntheses,
                 decisions, openRework, advanced>>

-----------------------------------------------------------------------------
(* Advancing the phase.                                                    *)

\* Registering conditions instead of fixing them: not after a blocker, not on
\* a sensitive surface.
acceptAndRegister == ~ledger.frozen /\ ~ledger.blocker /\ ~change.sensitive

\* Mutant: work authored under an older token may still land.
fencedNever(delivery) == TRUE

fenced(delivery) == delivery.token >= ledger.token

\* The decision must match the report recomputed from the sources handed in.
verifyRoleAdvance(d, contr, delivery, supplied, syn) ==
  /\ validateAcceptanceDecision(d)
  /\ d.report = verifyRoleDelivery(contr, delivery, supplied, syn)
  /\ d.state \in {"accepted", "accepted-with-conditions"}
  /\ d.state = "accepted-with-conditions" => acceptAndRegister
  /\ ~openRework
  /\ ~ledger.frozen
  /\ fenced(delivery)

\* The run's own contract, for its own candidate (run-service, advance).
sameRun(contr) == contr.cand = candidate /\ contr = contract

AdvanceRoles(d, delivery, supplied, syn) ==
  /\ verifyRoleAdvance(d, delivery.contract, delivery, supplied, syn)
  /\ sameRun(delivery.contract)
  /\ advanced' = [delivery |-> delivery, cand |-> candidate, token |-> ledger.token,
                  decision |-> d, frozen |-> ledger.frozen, open |-> openRework,
                  resolved |-> {a.seat : a \in supplied},
                  deferred |-> syn # NoRecord /\ syn.disposition = "deferred-with-owner"
                               /\ \E a \in syn.advice : a.objects]
  /\ UNCHANGED <<change, candidate, contract, deliveries, advice, syntheses,
                 decisions, ledger, openRework>>

-----------------------------------------------------------------------------
MaybeSynthesis(delivery) ==
  {s \in syntheses : s.delivery = delivery} \cup {NoRecord}

Supplied(syn) == IF syn = NoRecord THEN {} ELSE syn.advice

\* Nothing is asked of a handover that advanced.
NextRoles ==
  /\ advanced = NoRecord
  /\ \/ NewCandidate
     \/ \E passing \in BOOLEAN : Deliver(Producer, passing)
     \/ Deliver(Owner, TRUE)
     \/ \E delivery \in deliveries, seat \in Seats :
          \E objecting \in (IF seat \in Required THEN BOOLEAN ELSE {FALSE}) :
            createCouncilAdvice(delivery, seat, objecting)
     \/ \E delivery \in deliveries, bound \in SUBSET advice,
           disposition \in {"accepted", "deferred-with-owner"} :
          createCouncilSynthesis(delivery, bound, disposition)
     \/ \E role \in {Owner, Producer}, delivery \in deliveries,
           state \in {"accepted", "accepted-with-conditions"}, semantic \in BOOLEAN,
           approved \in (IF humanGated(change) THEN deliveries ELSE {}) \cup {NoRecord} :
          \E syn \in MaybeSynthesis(delivery) :
            createAcceptanceDecision(role, state, delivery, Supplied(syn), syn, semantic,
                                     approved)
     \/ \E delivery \in deliveries :
          createAcceptanceDecision(Owner, "rework-required", delivery, {}, NoRecord,
                                   FALSE, NoRecord)
     \/ \E blocker \in BOOLEAN : createReworkRequest(blocker)
     \/ tripLedgerBreaker
     \/ \E actor \in {"steer.lead", "human", "dev.build"},
           resolution \in {"re-scope", "person-waiver"}, approval \in BOOLEAN,
           token \in 1..(ledger.token + 1) :
          unfreezeLedger(actor, resolution, approval, token)
     \/ \E d \in decisions, delivery \in deliveries :
          \E syn \in syntheses \cup {NoRecord} : AdvanceRoles(d, delivery, Supplied(syn), syn)

RoleSpec == InitRoles /\ [][NextRoles]_roleVars

-----------------------------------------------------------------------------
(* Properties.                                                             *)

\* A phase advances only on what the owner accepted for the candidate it is
\* now: the producer's delivery of that candidate with passing criteria,
\* advised on by every required seat with no objection left or put off, and
\* for human-gated work approved by a human for that very delivery.  Old
\* decisions, deliveries, advice and syntheses cannot be recombined into an
\* advance (verifyRoleAdvance, verifyCouncil, run-service advance).
AdvanceOnCurrentEvidence ==
  advanced # NoRecord =>
    LET a == advanced
    IN /\ a.decision.by = Owner
       /\ a.decision.report.delivery = a.delivery
       /\ a.delivery.cand = a.cand /\ a.delivery.contract.cand = a.cand
       /\ a.delivery.by = Producer /\ a.delivery.criteria
       /\ councilRequired(classifyRoleCollaboration(change)) =>
            Required \ {Owner} \subseteq a.resolved /\ ~a.deferred
       /\ classifyRoleCollaboration(change) = "human-gated" =>
            a.decision.approved = a.delivery

\* After the breaker tripped, nothing advances until steering unfroze the
\* ledger, and then only work delivered since: a receipt authored before the
\* freeze never lands after it (the fencing token of tripLedgerBreaker and
\* unfreezeLedger, checked in verifyRoleAdvance).
FencedAfterFreeze ==
  advanced # NoRecord =>
    ~advanced.frozen /\ ~advanced.open /\ advanced.delivery.token = advanced.token
==============================================================================
