---------------------------- MODULE WorkAltitude ----------------------------
(***************************************************************************)
(* Which work records may open (lib/core/work-altitude.mjs), on the gates  *)
(* of lib/core/gate.mjs and the attestations of                            *)
(* lib/core/review-attestation.mjs.                                        *)
(*                                                                         *)
(* One goal and one capability under it are kept by a medium that anyone   *)
(* can edit: the texts, the capability's change class, and the admission   *)
(* stored on it.  People and agents answer what they are shown; an answer  *)
(* stays around and may be given again later, as the consent for another   *)
(* record, another gate or another text.  A digest is the content it is    *)
(* taken over.                                                             *)
(***************************************************************************)
EXTENDS Naturals, FiniteSets, TLC

CONSTANTS
    MaxText,      \* texts a record goes through: 1 .. MaxText
    MaxAnswers,   \* answers given in a behaviour
    MaxSpecs      \* specs opened in a behaviour

VARIABLES
    goalText,     \* the goal as a person reads it now
    capability,   \* the capability record, or NoCapability
    answers,      \* every attestation given so far
    specs         \* the specs opened: what their capability was at that moment

altitudeVars == <<goalText, capability, answers, specs>>

GoalTexts == 1 .. MaxText
ChangeClasses == {"standard", "high-assurance"}

-----------------------------------------------------------------------------
(* Subjects.  The medium digests a record twice: the revision covers all   *)
(* of it, the goal subject only what a person reads.                       *)

Subject(of, text) == [of |-> of, text |-> text, class |-> "none"]
goalSubject(text) == Subject("goal", text)
capabilitySubject(text) == Subject("capability", text)
revision(text, class) == [of |-> "revision", text |-> text, class |-> class]

\* A goal subject and a change class, agreed to together.
admissionDigest(goalRevision, changeClass) ==
    [of |-> "admission", text |-> goalRevision.text, class |-> changeClass]

Subjects ==
    {goalSubject(t) : t \in GoalTexts} \cup {capabilitySubject(t) : t \in GoalTexts}
        \cup {revision(t, c) : t \in GoalTexts, c \in ChangeClasses}
        \cup {admissionDigest(goalSubject(t), c) : t \in GoalTexts, c \in ChangeClasses}

(* Gates and attestations.  A gate is sealed over its subject; an          *)
(* attestation names the digest it reviewed and no gate.                   *)

AllowedSubjectKinds ==
    [c \in {"adequacy-of-intent", "release-of-candidate", "agent-escalation"} |->
        CASE c = "adequacy-of-intent" -> {"goalRevision", "admission"}
          [] c = "release-of-candidate" -> {"candidateDigest"}
          [] c = "agent-escalation" -> {"goalRevision", "candidateDigest"}]

createGate(subject, class, kind) ==
    [gateClass |-> class, subjectDigest |-> subject, subjectKind |-> kind, sealed |-> subject]

\* A gate altered after it was sealed names another subject than its seal.
hasCurrentDigest(gate) == gate.sealed = gate.subjectDigest

Gates ==
    LET created == UNION {{createGate(s, c, k) : s \in Subjects, k \in AllowedSubjectKinds[c]} :
                              c \in DOMAIN AllowedSubjectKinds}
    IN  created \cup {[g EXCEPT !.sealed = goalSubject(1)] : g \in created}

createReviewAttestation(subject, reviewer, decision) ==
    [reviewedDigest |-> subject, reviewer |-> reviewer, decision |-> decision]

validateReviewAttestation(attestation, expected) ==
    attestation.reviewedDigest = expected

isHumanReviewer(attestation) == attestation.reviewer = "person"

\* Only a person's agreement to the subject of this gate satisfies it.
satisfyGate(gate, attestation) ==
    /\ hasCurrentDigest(gate)
    /\ validateReviewAttestation(attestation, gate.subjectDigest)
    /\ attestation.decision = "agree"
    /\ isHumanReviewer(attestation)

requireConsent(consent, subject) ==
    /\ consent.gate.gateClass = "adequacy-of-intent"
    /\ consent.gate.subjectDigest = subject
    /\ satisfyGate(consent.gate, consent.attestation)

Consents == [gate : Gates, attestation : answers]

-----------------------------------------------------------------------------
NoCapability == [open |-> FALSE]

InitAltitude ==
    /\ goalText = 1
    /\ capability = NoCapability
    /\ answers = {}
    /\ specs = {}

requiresPersonReview(record) == record.changeClass = "high-assurance"

Open(changeClass, text, admission) ==
    [open |-> TRUE, changeClass |-> changeClass, text |-> text, admission |-> admission]

\* A capability opens under the goal as it is now, at a class a person admitted;
\* the consent is stored on it.
OpenCapability(changeClass, text, consent) ==
    /\ ~capability.open
    /\ requireConsent(consent, admissionDigest(goalSubject(goalText), changeClass))
    /\ capability' = Open(changeClass, text, [goalRevision |-> goalSubject(goalText)] @@ consent)
    /\ UNCHANGED <<goalText, answers, specs>>

\* The stored admission still matches the class stored now.
admissionMatches(record) ==
    requireConsent(record.admission, admissionDigest(record.admission.goalRevision, record.changeClass))

\* Mutant: the stored admission opens the specs of a standard capability.
mayOpenSpecOnAdmission(record, consent) ==
    /\ admissionMatches(record)
    /\ requiresPersonReview(record)
         => requireConsent(consent, capabilitySubject(record.text))

\* The person accepts the capability itself, beyond its stored admission: its
\* revision when it is standard, what is read of it when it is high-assurance.
mayOpenSpec(record, consent) ==
    /\ admissionMatches(record)
    /\ consent.gate # record.admission.gate
    /\ requireConsent(consent, IF requiresPersonReview(record)
                               THEN capabilitySubject(record.text)
                               ELSE revision(record.text, record.changeClass))

OpenSpec(consent) ==
    /\ capability.open
    /\ mayOpenSpec(capability, consent)
    /\ Cardinality(specs) < MaxSpecs
    /\ specs' = specs \cup {[text |-> capability.text, changeClass |-> capability.changeClass]}
    /\ UNCHANGED <<goalText, capability, answers>>

-----------------------------------------------------------------------------
(* The medium and its readers.                                             *)

\* Somebody answers on a subject that is, or once was, in front of them.
Answer(subject, reviewer, decision) ==
    /\ Cardinality(answers) < MaxAnswers
    /\ answers' = answers \cup {createReviewAttestation(subject, reviewer, decision)}
    /\ UNCHANGED <<goalText, capability, specs>>

EditGoal(text) ==
    /\ goalText' = text
    /\ UNCHANGED <<capability, answers, specs>>

\* A freshly sealed admission, signed with a person's name by whoever edits the record.
Forged(goal, changeClass) ==
    LET subject == admissionDigest(goalSubject(goal), changeClass)
    IN  [goalRevision |-> goalSubject(goal),
         gate |-> createGate(subject, "adequacy-of-intent", "admission"),
         attestation |-> createReviewAttestation(subject, "person", "agree")]

\* Whoever can edit the capability may change its text, its class, and the class
\* together with the admission.
EditCapability(text, changeClass, admission) ==
    /\ capability.open
    /\ capability' = Open(changeClass, text, admission)
    /\ UNCHANGED <<goalText, answers, specs>>

NextAltitude ==
    \/ \E class \in ChangeClasses, text \in GoalTexts, consent \in Consents :
          OpenCapability(class, text, consent)
    \/ \E consent \in Consents : OpenSpec(consent)
    \/ \E subject \in Subjects :
          \/ Answer(subject, "agent", "agree")
          \/ \E decision \in {"agree", "changes-requested"} : Answer(subject, "person", decision)
    \/ \E text \in GoalTexts : EditGoal(text)
    \/ \E text \in GoalTexts, class \in ChangeClasses :
          \/ capability.open /\ EditCapability(text, class, capability.admission)
          \/ \E goal \in GoalTexts : EditCapability(text, class, Forged(goal, class))

AltitudeSpec == InitAltitude /\ [][NextAltitude]_altitudeVars

-----------------------------------------------------------------------------
\* Every spec opened on a capability whose text, as it stood at that moment, a
\* person had agreed to; and unless it stood in the class with the strictest
\* review, the person had agreed to that class with it.  Rewriting the class and
\* the stored admission together never opens one (validateOpen, satisfyGate).
SpecsAgreed ==
    \A spec \in specs : \E answer \in answers :
        /\ answer.reviewer = "person"
        /\ answer.decision = "agree"
        /\ \/ answer.reviewedDigest = revision(spec.text, spec.changeClass)
           \/ /\ spec.changeClass = "high-assurance"
              /\ answer.reviewedDigest = capabilitySubject(spec.text)
=============================================================================
