-------------------------- MODULE OperationsProofs --------------------------
(***************************************************************************)
(* What the operations around a run promise, proved for any number of      *)
(* callers, processes, subscriptions and files.                            *)
(*                                                                         *)
(* Recovery: however often the recovery of an incident is started, at once *)
(* or after a crash or a timeout, it acts once and within its policy, and  *)
(* what it reports is true.  The invariant says of each caller what its    *)
(* snapshot and its options still mean, and of each append in flight what  *)
(* it will do if it lands.  Both refer to the run only by its revision,    *)
(* which every step that changes the run raises, and by its anchor, which  *)
(* is set once: what holds of a caller or an append that a step leaves     *)
(* alone holds after it (CallStable, FlightStable), so each step is proved *)
(* of what it touches.                                                     *)
(*                                                                         *)
(* Quota: a seat works only on fresh reports within budget, and does not   *)
(* switch back and forth.                                                  *)
(*                                                                         *)
(* Configuration: no change under the lock is lost, an old confirmation    *)
(* stands for nothing new, and a migration destroys nothing.               *)
(***************************************************************************)
EXTENDS Recovery, QuotaControl, ConfigChange, FiniteSetTheorems, SequenceTheorems,
        WellFoundedInduction, TLAPS

-----------------------------------------------------------------------------
(* Types.                                                                  *)

Writers == {Old, New, "other"}

Anchors ==
  [policy: Policies, from: Nat, owner: Writers, epoch: Nat, cand: Nat, art: Nat]

RunRecords ==
  [rev: Nat, owner: Writers, gen: Nat, epoch: Nat, cand: Nat,
   custody: Nat \X Nat \X Nat, attempts: Nat, policies: SUBSET Policies,
   anchor: Anchors \cup {NoAnchor}, moved: BOOLEAN,
   adm: {"none", "admitted", "submitted", "unknown", "confirmed", "failed"}]

Options == [rev: Nat, gen: Nat]

Classes == Transient \cup {"quota-exhausted"}

\* A call past its first reading of the source holds a snapshot of the run.
Acting == {"settle", "attempt", "attempted", "custody", "inspect", "anchor", "anchored",
           "plan", "resumed", "verify", "custody2", "inspect2", "execute", "executing",
           "reconcile", "final", "readback", "current"}

Readers == [pc: {"read"}, class: Classes, policy: Policies, opts: Options,
            snap: {NoAnchor}, art: Nat]

Actors == [pc: Acting, class: Classes, policy: Policies, opts: Options,
           snap: RunRecords, art: Nat]

CallersOrNone == Callers \cup {"nobody"}

Checkpoints == [kind: {"checkpoint"}, by: CallersOrNone, rev: Nat, gen: Nat, policy: Policies,
                anchor: Anchors \cup {NoAnchor}]

Moves == [kind: {"resume", "admit", "submit", "dispatch"}, by: CallersOrNone, rev: Nat, gen: Nat]

RecoveryTypeOK ==
  /\ run \in RunRecords /\ IsFiniteSet(run.policies)
  /\ artifacts \in Nat
  /\ call \in [Callers -> {IdleCaller} \cup Readers \cup Actors]
  /\ flying \subseteq Checkpoints \cup Moves
  /\ dispatched \in Nat /\ transfers \in Nat /\ renewals \in Nat
  /\ starts \in Nat /\ foreign \in Nat

-----------------------------------------------------------------------------
(* The inductive invariant.                                                *)

\* The replacement is the writer of the one generation after the anchor's.
Sound(r) ==
  /\ r.anchor # NoAnchor => r.anchor.from <= r.gen
  /\ r.owner = New => r.moved /\ r.anchor # NoAnchor /\ r.gen = r.anchor.from + 1

\* A snapshot q is the run of its revision; an anchor it lacks was set later.
SnapOK(q, r) ==
  /\ Sound(q)
  /\ q.rev <= r.rev /\ q.gen <= r.gen
  /\ q.rev = r.rev => q = r
  /\ q.anchor # NoAnchor => q.anchor = r.anchor
  /\ q.anchor = NoAnchor /\ r.anchor # NoAnchor => q.gen <= r.anchor.from

\* The options take over the generation of the anchor.
OptionsOK(s, r) ==
  /\ s.pc \in {"custody", "inspect"} /\ s.snap.owner = New => s.opts.gen = s.snap.gen
  /\ s.pc \in {"custody", "inspect"} /\ s.snap.owner # New =>
       /\ s.opts.gen = s.snap.gen + 1
       /\ s.snap.anchor # NoAnchor => s.snap.gen = s.snap.anchor.from
  /\ s.pc = "anchor" => s.snap.anchor = NoAnchor /\ s.opts.gen = s.snap.gen + 1
  /\ s.pc = "attempt" => s.snap.anchor = NoAnchor
  /\ s.pc = "plan" => r.anchor # NoAnchor /\ s.opts.gen = r.anchor.from + 1

\* One more attempt is what the policy allows, or what a renewal of custody let
\* through: n is the number of renewals.
Spare(r, n) ==
  /\ n # 0 /\ Cardinality(r.policies) <= n
  /\ \E p \in Policies : r.attempts + 1 <= p.maxAttempts + n

Allowed(p, r, n) ==
  (r.policies \subseteq {p} /\ r.attempts < p.maxAttempts) \/ Spare(r, n)

\* A call whose snapshot is current, before the anchor, may record its attempt.
AttemptOK(s, r, n) ==
  /\ s.pc \in {"attempt", "custody", "inspect", "anchor"}
  /\ s.snap.rev = r.rev /\ r.anchor = NoAnchor
  => Allowed(s.policy, r, n)

\* What the call read of the operation's outcome.
OutcomeOK(s, r) ==
  /\ s.pc = "final" => r.adm = "confirmed"
  /\ s.pc \in {"readback", "current"} => s.snap.adm = "confirmed"
  /\ s.pc = "current" => s.snap.owner = New

\* What a call's progress means for the run r.
CallOK(s, r, n) ==
  s.pc \in Acting =>
    SnapOK(s.snap, r) /\ OptionsOK(s, r) /\ AttemptOK(s, r, n) /\ OutcomeOK(s, r)

\* What an append in flight may still do to the run r.
FlightOK(f, r, n) ==
  /\ f.rev <= r.rev
  /\ f.kind = "checkpoint" =>
       /\ f.rev = r.rev => Allowed(f.policy, r, n)
       /\ f.anchor # NoAnchor =>
            f.anchor.from = f.gen /\ (f.rev = r.rev => r.anchor = NoAnchor)
  /\ f.kind = "resume" => r.anchor # NoAnchor /\ f.gen = r.anchor.from
  /\ f.kind = "submit" /\ f.rev = r.rev => r.adm = "admitted"

\* A checkpoint that a call waits for is the only one of that call.
Awaited(f) == f.kind = "checkpoint" /\ f.by \in Callers

LinkInv ==
  /\ \A f \in flying : Awaited(f) =>
       /\ call[f.by].pc \in {"attempted", "anchored"}
       /\ call[f.by].pc = "anchored" =>
            f.anchor # NoAnchor /\ f.gen + 1 = call[f.by].opts.gen
  /\ \A f, g \in flying : Awaited(f) /\ Awaited(g) /\ f.by = g.by => f = g

TransferInv ==
  transfers # 0 => transfers = 1 /\ run.anchor # NoAnchor /\ run.gen > run.anchor.from

\* The operation's way to the provider is one token: submitted, dispatched, counted.
Token(f) == f.kind \in {"submit", "dispatch"}

TokenInv ==
  /\ \A f, g \in flying : Token(f) /\ Token(g) => f = g
  /\ dispatched # 0 => dispatched = 1 /\ \A f \in flying : ~Token(f)
  /\ dispatched # 0 \/ (\E f \in flying : Token(f)) => run.adm # "none"

RecoveryInv ==
  /\ RecoveryTypeOK
  /\ Sound(run)
  /\ \A c \in Callers : CallOK(call[c], run, renewals)
  /\ \A f \in flying : FlightOK(f, run, renewals)
  /\ LinkInv /\ TransferInv /\ TokenInv /\ AttemptsBounded /\ RecoveredTruthfully

-----------------------------------------------------------------------------
(* What the records are.                                                   *)

\* No anchor is the absent one.
LEMMA AnchorFacts == \A a \in Anchors : a # NoAnchor
<1>1. \A a \in Anchors : DOMAIN a = {"policy", "from", "owner", "epoch", "cand", "art"}
  BY DEF Anchors
<1>2. DOMAIN NoAnchor = {"none"}
  BY DEF NoAnchor
<1>3. "policy" # "none"
  OBVIOUS
<1> QED BY <1>1, <1>2, <1>3

\* A call is at "idle", "read" or acting, and its step says what it holds.
LEMMA CallFacts ==
  ASSUME RecoveryTypeOK, NEW c \in Callers
  PROVE  /\ call[c] \in {IdleCaller} \cup Readers \cup Actors
         /\ call[c].pc = "idle" => call[c] = IdleCaller
         /\ call[c].pc = "read" => call[c] \in Readers
         /\ call[c].pc \in Acting => call[c] \in Actors
         /\ call[c].pc \in {"idle", "read"} \cup Acting
         /\ call[c] \in Actors => call[c].pc \in Acting
<1>1. call[c] \in {IdleCaller} \cup Readers \cup Actors
  BY DEF RecoveryTypeOK
<1>2. IdleCaller.pc = "idle"
  BY DEF IdleCaller
<1>3. \A s \in Readers : s.pc = "read"
  BY DEF Readers
<1>4. \A s \in Actors : s.pc \in Acting
  BY DEF Actors
<1>5. "idle" \notin Acting /\ "read" \notin Acting
  BY DEF Acting
<1> QED BY <1>1, <1>2, <1>3, <1>4, <1>5

\* A call goes on, with a newer snapshot, or with the artifacts it inspected.
GoOn(s, pc) == [s EXCEPT !.pc = pc]
GoOnSeeing(s, pc, r) == [s EXCEPT !.pc = pc, !.snap = r]
GoOnWith(s, pc, a) == [s EXCEPT !.art = a, !.pc = pc]

\* A call acts from its first reading on.
LEMMA ReaderUpdates ==
  ASSUME NEW s \in Readers, NEW r \in RunRecords, NEW pc \in Acting
  PROVE  LET t == GoOnSeeing(s, pc, r)
         IN /\ t \in Actors /\ t.pc = pc /\ t.snap = r
            /\ t.opts = s.opts /\ t.policy = s.policy
BY DEF Readers, Actors, GoOnSeeing

\* A call that goes on keeps what it holds.
LEMMA ActorUpdates ==
  ASSUME NEW s \in Actors
  PROVE  /\ s.snap \in RunRecords /\ s.art \in Nat /\ s.policy \in Policies
         /\ s.opts.gen \in Nat /\ s.opts.rev \in Nat /\ s.class \in Classes
         /\ \A pc \in Acting :
              LET t == GoOn(s, pc)
              IN /\ t \in Actors /\ t.pc = pc /\ t.snap = s.snap
                 /\ t.opts = s.opts /\ t.policy = s.policy
         /\ \A pc \in Acting, r \in RunRecords :
              LET t == GoOnSeeing(s, pc, r)
              IN /\ t \in Actors /\ t.pc = pc /\ t.snap = r
                 /\ t.opts = s.opts /\ t.policy = s.policy
BY DEF Actors, Options, GoOn, GoOnSeeing

-----------------------------------------------------------------------------
(* What a step leaves alone.                                               *)

\* A step keeps the run, or raises its revision: the generation never falls, the
\* anchor is set once and to a generation of that moment or later, a confirmed
\* operation stays confirmed.
After(r, n, q, m) ==
  \/ q = r /\ m = n
  \/ /\ q.rev > r.rev /\ q.gen >= r.gen
     /\ r.anchor # NoAnchor => q.anchor = r.anchor
     /\ r.anchor = NoAnchor /\ q.anchor # NoAnchor => q.anchor.from >= r.gen
     /\ r.adm = "confirmed" => q.adm = "confirmed"

\* What a call's progress means is not changed by a step of others.
LEMMA CallStable ==
  ASSUME NEW s \in {IdleCaller} \cup Readers \cup Actors,
         NEW r \in RunRecords, NEW n \in Nat, NEW q \in RunRecords, NEW m \in Nat,
         After(r, n, q, m), CallOK(s, r, n)
  PROVE  CallOK(s, q, m)
<1> SUFFICES ASSUME s.pc \in Acting, q.rev > r.rev,
                    q.gen >= r.gen,
                    r.anchor # NoAnchor => q.anchor = r.anchor,
                    r.anchor = NoAnchor /\ q.anchor # NoAnchor => q.anchor.from >= r.gen,
                    r.adm = "confirmed" => q.adm = "confirmed"
             PROVE  CallOK(s, q, m)
  BY DEF After, CallOK
<1>1. s \in Actors
  BY DEF IdleCaller, Readers, Acting
<1>2. /\ s.snap.rev \in Nat /\ s.snap.gen \in Nat /\ r.rev \in Nat /\ r.gen \in Nat
      /\ q.rev \in Nat /\ q.gen \in Nat
      /\ \A a \in Anchors : a.from \in Nat
      /\ q.anchor \in Anchors \cup {NoAnchor} /\ r.anchor \in Anchors \cup {NoAnchor}
  BY <1>1 DEF Actors, RunRecords, Anchors
<1>3. SnapOK(s.snap, r) /\ OptionsOK(s, r) /\ OutcomeOK(s, r)
  BY DEF CallOK
<1>4. SnapOK(s.snap, q)
  BY <1>2, <1>3 DEF SnapOK
<1>5. OptionsOK(s, q)
  BY <1>3 DEF OptionsOK
<1>6. AttemptOK(s, q, m)
  BY <1>2, <1>3 DEF SnapOK, AttemptOK
<1>7. OutcomeOK(s, q)
  BY <1>3 DEF OutcomeOK
<1> QED BY <1>4, <1>5, <1>6, <1>7 DEF CallOK

\* Nor is what an append in flight may do.
LEMMA FlightStable ==
  ASSUME NEW f \in Checkpoints \cup Moves,
         NEW r \in RunRecords, NEW n \in Nat, NEW q \in RunRecords, NEW m \in Nat,
         After(r, n, q, m), FlightOK(f, r, n)
  PROVE  FlightOK(f, q, m)
<1>1. f.rev \in Nat /\ r.rev \in Nat /\ q.rev \in Nat
  BY DEF Checkpoints, Moves, RunRecords
<1> QED BY <1>1 DEF After, FlightOK

\* The states of a caller.
CallStates == {IdleCaller} \cup Readers \cup Actors

\* A step is proved of what it touches.
LEMMA StepKeeps ==
  ASSUME RecoveryInv, RecoveryTypeOK', Sound(run'),
         After(run, renewals, run', renewals'),
         \A c \in Callers : call'[c] = call[c] \/ CallOK(call'[c], run', renewals'),
         \A f \in flying' : f \in flying \/ FlightOK(f, run', renewals'),
         LinkInv', TransferInv', TokenInv', AttemptsBounded', RecoveredTruthfully'
  PROVE  RecoveryInv'
<1>1. RecoveryTypeOK
  BY DEF RecoveryInv
<1>2. /\ run \in RunRecords /\ run' \in RunRecords
      /\ renewals \in Nat /\ renewals' \in Nat
      /\ \A c \in Callers : call[c] \in CallStates
      /\ flying \subseteq Checkpoints \cup Moves
  BY <1>1 DEF RecoveryTypeOK, CallStates
<1>3. ASSUME NEW c \in Callers
      PROVE  CallOK(call'[c], run', renewals')
  <2>1. CallOK(call[c], run, renewals)
    BY DEF RecoveryInv
  <2>2. CASE call'[c] = call[c]
    BY <1>2, <2>1, <2>2, CallStable DEF CallStates
  <2> QED BY <2>2
<1>4. ASSUME NEW f \in flying'
      PROVE  FlightOK(f, run', renewals')
  <2>1. CASE f \in flying
    <3>1. FlightOK(f, run, renewals)
      BY <2>1 DEF RecoveryInv
    <3> QED BY <1>2, <2>1, <3>1, FlightStable
  <2> QED BY <2>1, <1>4
<1>5. (\A c \in Callers : CallOK(call[c], run, renewals))'
  BY <1>3
<1>6. (\A f \in flying : FlightOK(f, run, renewals))'
  BY <1>4
<1> QED BY <1>5, <1>6 DEF RecoveryInv

\* A transfer stays the one there was.
LEMMA TransferStable ==
  ASSUME RecoveryTypeOK, RecoveryTypeOK', TransferInv, transfers' = transfers,
         After(run, renewals, run', renewals')
  PROVE  TransferInv'
<1>1. /\ run.gen \in Nat /\ run'.gen \in Nat
      /\ run.anchor \in Anchors \cup {NoAnchor}
      /\ \A a \in Anchors : a.from \in Nat
  BY DEF RecoveryTypeOK, RunRecords, Anchors
<1> QED BY <1>1 DEF TransferInv, After

\* The attempts stay bounded while none is recorded.
LEMMA AttemptsStable ==
  ASSUME RecoveryTypeOK, RecoveryTypeOK', AttemptsBounded,
         run'.attempts = run.attempts, run'.policies = run.policies,
         renewals' >= renewals
  PROVE  AttemptsBounded'
<1>1. /\ run.attempts \in Nat /\ run.policies \subseteq Policies
      /\ renewals \in Nat /\ renewals' \in Nat
      /\ Cardinality(run.policies) \in Nat
      /\ \A p \in Policies : p.maxAttempts \in Nat
  BY FS_CardinalityType, RecoveryAssumption DEF RecoveryTypeOK, RunRecords
<1>2. Cardinality(run'.policies) <= 1 + renewals'
  BY <1>1 DEF AttemptsBounded
<1>3. \A p \in run'.policies : renewals' = 0 => run'.attempts <= p.maxAttempts
  BY <1>1 DEF AttemptsBounded
<1>4. \E p \in Policies : run'.attempts <= p.maxAttempts + renewals'
  BY <1>1 DEF AttemptsBounded
<1> QED BY <1>2, <1>3, <1>4 DEF AttemptsBounded

\* A step that issues nothing, applies nothing and ends no wait: a caller moves on,
\* or the run is changed past its attempts.
LEMMA PlainStep ==
  ASSUME RecoveryInv, RecoveryTypeOK', Sound(run'),
         After(run, renewals, run', renewals'), renewals' >= renewals,
         run'.attempts = run.attempts, run'.policies = run.policies,
         run.adm # "none" => run'.adm # "none",
         UNCHANGED <<flying, dispatched, transfers>>, RecoveredTruthfully',
         \A c \in Callers :
           \/ call'[c] = call[c]
           \/ /\ call[c].pc \notin {"attempted", "anchored"}
              /\ CallOK(call'[c], run', renewals')
  PROVE  RecoveryInv'
<1>1. RecoveryTypeOK /\ LinkInv /\ TransferInv /\ TokenInv /\ AttemptsBounded
  BY DEF RecoveryInv
<1>2. TransferInv'
  BY <1>1, TransferStable
<1>3. AttemptsBounded'
  BY <1>1, AttemptsStable
<1>4. TokenInv'
  BY <1>1 DEF TokenInv
<1>5. LinkInv'
  <2>1. ASSUME NEW f \in flying, Awaited(f)
        PROVE  call'[f.by] = call[f.by]
    BY <1>1, <2>1 DEF LinkInv, Awaited
  <2> QED BY <1>1, <2>1 DEF LinkInv, Awaited
<1> QED BY <1>2, <1>3, <1>4, <1>5, StepKeeps

-----------------------------------------------------------------------------
(* A caller reads, checks and goes on.                                     *)

\* One caller moves; nothing else happens.
LEMMA CallerMoves ==
  ASSUME RecoveryInv, NEW c \in Callers, NEW s \in CallStates,
         call' = [call EXCEPT ![c] = s], call[c].pc \notin {"attempted", "anchored"},
         CallOK(s, run, renewals), RecoveredTruthfully', starts' \in Nat,
         UNCHANGED <<run, artifacts, flying, dispatched, transfers, renewals, foreign>>
  PROVE  RecoveryInv'
<1>1. RecoveryTypeOK /\ Sound(run) /\ AttemptsBounded
  BY DEF RecoveryInv
<1>2. RecoveryTypeOK'
  BY <1>1 DEF RecoveryTypeOK, CallStates
<1>3. renewals \in Nat
  BY <1>1 DEF RecoveryTypeOK
<1>4. \A d \in Callers : call'[d] = IF d = c THEN s ELSE call[d]
  BY <1>1 DEF RecoveryTypeOK
<1>5. After(run, renewals, run', renewals') /\ Sound(run') /\ renewals' >= renewals
  BY <1>1, <1>3 DEF After
<1>6. \A d \in Callers :
        \/ call'[d] = call[d]
        \/ /\ call[d].pc \notin {"attempted", "anchored"}
           /\ CallOK(call'[d], run', renewals')
  BY <1>4
<1> QED BY <1>2, <1>5, <1>6, PlainStep

\* An idle caller means nothing.
LEMMA IdleFacts ==
  /\ IdleCaller \in CallStates /\ IdleCaller.pc = "idle"
  /\ \A r, n : CallOK(IdleCaller, r, n)
BY DEF IdleCaller, CallStates, CallOK, Acting

\* A caller holds.
LEMMA HoldKeeps ==
  ASSUME RecoveryInv, NEW c \in Callers, Hold(c),
         call[c].pc \notin {"attempted", "anchored"},
         UNCHANGED <<run, artifacts, flying, dispatched, transfers, renewals, recovered,
                     starts, foreign>>
  PROVE  RecoveryInv'
<1>1. RecoveredTruthfully' /\ starts' \in Nat
  BY DEF RecoveryInv, RecoveryTypeOK, RecoveredTruthfully
<1> QED BY <1>1, IdleFacts, CallerMoves DEF Hold

\* A call begins: it knows nothing of the run yet (Start).
LEMMA StartKeeps ==
  ASSUME RecoveryInv, NEW c \in Callers, NEW e \in Failures, NEW p \in Policies,
         Start(c, e, p)
  PROVE  RecoveryInv'
<1> DEFINE class == classifyExecutionFailure(e)
           s == [pc |-> "read", class |-> class, policy |-> p,
                 opts |-> [rev |-> run.rev,
                           gen |-> IF continues(run) THEN run.gen ELSE run.gen + 1],
                 snap |-> NoAnchor, art |-> 0]
<1>1. RecoveryTypeOK
  BY DEF RecoveryInv
<1>2. run.rev \in Nat /\ run.gen \in Nat /\ starts \in Nat
  BY <1>1 DEF RecoveryTypeOK, RunRecords
<1>3. class \in Classes
  BY DEF Start, Recoverable, Classes
<1>4. s.opts \in Options
  BY <1>2 DEF Options
<1> HIDE DEF class
<1>5. s \in Readers /\ s.pc = "read"
  BY <1>3, <1>4 DEF Readers
<1>6. s \in CallStates /\ CallOK(s, run, renewals)
  BY <1>5 DEF CallStates, CallOK, Acting
<1>7. /\ call' = [call EXCEPT ![c] = s] /\ call[c].pc = "idle" /\ starts' \in Nat
      /\ UNCHANGED <<run, artifacts, flying, dispatched, transfers, renewals, recovered, foreign>>
  BY <1>2 DEF Start, class
<1>8. RecoveredTruthfully'
  BY <1>7 DEF RecoveryInv, RecoveredTruthfully
<1> HIDE DEF s
<1> QED BY <1>6, <1>7, <1>8, CallerMoves

\* A caller that goes on with what it holds, or with the run as it is.
LEMMA GoesOn ==
  ASSUME RecoveryInv, NEW c \in Callers, NEW s \in Actors,
         call' = [call EXCEPT ![c] = s], call[c].pc \notin {"attempted", "anchored"},
         SnapOK(s.snap, run), OptionsOK(s, run), AttemptOK(s, run, renewals),
         OutcomeOK(s, run),
         UNCHANGED <<run, artifacts, flying, dispatched, transfers, renewals, recovered,
                     starts, foreign>>
  PROVE  RecoveryInv'
<1>1. RecoveredTruthfully' /\ starts' \in Nat
  BY DEF RecoveryInv, RecoveryTypeOK, RecoveredTruthfully
<1>2. CallOK(s, run, renewals) /\ s \in CallStates
  BY DEF CallOK, CallStates
<1> QED BY <1>1, <1>2, CallerMoves

\* The run is its own snapshot.
LEMMA RunIsSnapshot ==
  ASSUME RecoveryInv
  PROVE  SnapOK(run, run) /\ run \in RunRecords /\ run.gen \in Nat /\ run.rev \in Nat
<1>1. run \in RunRecords /\ Sound(run)
  BY DEF RecoveryInv, RecoveryTypeOK
<1>2. run.gen \in Nat /\ run.rev \in Nat
  BY <1>1 DEF RunRecords
<1> QED BY <1>1, <1>2 DEF SnapOK

\* What is known of a caller that acts.
LEMMA ActorFacts ==
  ASSUME RecoveryInv, NEW c \in Callers, call[c].pc \in Acting
  PROVE  /\ call[c] \in Actors
         /\ SnapOK(call[c].snap, run) /\ OptionsOK(call[c], run)
         /\ AttemptOK(call[c], run, renewals) /\ OutcomeOK(call[c], run)
<1>1. RecoveryTypeOK /\ CallOK(call[c], run, renewals)
  BY DEF RecoveryInv
<1>2. call[c] \in Actors
  BY <1>1, CallFacts
<1> QED BY <1>1, <1>2 DEF CallOK

\* The first reading: the snapshot is the run, and what the call goes on to is
\* what the run admits (readSource).
LEMMA ReadSourceKeeps ==
  ASSUME RecoveryInv, NEW c \in Callers, readSource(c)
  PROVE  RecoveryInv'
<1> DEFINE at(pc) == GoOnSeeing(call[c], pc, run)
<1>1. /\ call[c].pc = "read"
      /\ UNCHANGED <<run, artifacts, flying, dispatched, transfers, renewals, recovered,
                     starts, foreign>>
  BY DEF readSource
<1>2. RecoveryTypeOK /\ call \in [Callers -> CallStates]
  BY DEF RecoveryInv, RecoveryTypeOK, CallStates
<1>3. call[c] \in Readers
  BY <1>1, <1>2, CallFacts
<1>4. ASSUME NEW pc \in Acting
      PROVE  /\ at(pc) \in Actors /\ at(pc).pc = pc /\ at(pc).snap = run
             /\ at(pc).opts = call[c].opts /\ at(pc).policy = call[c].policy
  BY <1>3, RunIsSnapshot, ReaderUpdates
<1>5. "settle" \in Acting /\ "attempt" \in Acting /\ "custody" \in Acting
  BY DEF Acting
<1>6. SnapOK(run, run) /\ Sound(run) /\ run \in RunRecords
  BY RunIsSnapshot DEF RecoveryInv
<1>7. CASE run.adm # "none" /\ call' = [call EXCEPT ![c] = at("settle")]
  <2> DEFINE s == at("settle")
  <2>1. s \in Actors /\ s.pc = "settle" /\ s.snap = run
    BY <1>4, <1>5
  <2> HIDE DEF s
  <2>2. OptionsOK(s, run) /\ AttemptOK(s, run, renewals) /\ OutcomeOK(s, run)
    BY <2>1 DEF OptionsOK, AttemptOK, OutcomeOK
  <2>3. call' = [call EXCEPT ![c] = s]
    BY <1>7 DEF s
  <2> QED BY <1>1, <1>6, <2>1, <2>2, <2>3, GoesOn
<1>8. CASE /\ policyUnchanged(run, call[c].policy) /\ attemptsLeft(run, call[c].policy)
           /\ run.anchor = NoAnchor
           /\ call' = [call EXCEPT ![c] = at("attempt")]
  <2> DEFINE s == at("attempt")
  <2>1. /\ s \in Actors /\ s.pc = "attempt" /\ s.snap = run
        /\ s.policy = call[c].policy
    BY <1>4, <1>5
  <2> HIDE DEF s
  <2>2. OptionsOK(s, run) /\ OutcomeOK(s, run)
    BY <1>8, <2>1 DEF OptionsOK, OutcomeOK
  <2>3. AttemptOK(s, run, renewals)
    BY <1>8, <2>1 DEF AttemptOK, Allowed, policyUnchanged, attemptsLeft
  <2>4. call' = [call EXCEPT ![c] = s]
    BY <1>8 DEF s
  <2> QED BY <1>1, <1>6, <2>1, <2>2, <2>3, <2>4, GoesOn
<1>9. CASE /\ policyUnchanged(run, call[c].policy) /\ attemptsLeft(run, call[c].policy)
           /\ continues(run) \/ begins(run)
           /\ optionsCurrent(call[c].opts, run)
           /\ call' = [call EXCEPT ![c] = at("custody")]
  <2> DEFINE s == at("custody")
  <2>1. /\ s \in Actors /\ s.pc = "custody" /\ s.snap = run
        /\ s.policy = call[c].policy /\ s.opts = call[c].opts
    BY <1>4, <1>5
  <2> HIDE DEF s
  <2>2. continues(run) <=> run.owner = New
    BY <1>6 DEF Sound, continues
  <2>3. s.opts.gen = IF run.owner = New THEN run.gen ELSE run.gen + 1
    BY <1>9, <2>1, <2>2 DEF optionsCurrent
  <2>4. run.owner # New /\ run.anchor # NoAnchor => run.gen = run.anchor.from
    BY <1>9, <2>2 DEF begins
  <2>5. OptionsOK(s, run) /\ OutcomeOK(s, run)
    BY <2>1, <2>3, <2>4 DEF OptionsOK, OutcomeOK
  <2>6. AttemptOK(s, run, renewals)
    BY <1>9, <2>1 DEF AttemptOK, Allowed, policyUnchanged, attemptsLeft
  <2>7. call' = [call EXCEPT ![c] = s]
    BY <1>9 DEF s
  <2> QED BY <1>1, <1>6, <2>1, <2>5, <2>6, <2>7, GoesOn
<1>10. CASE Hold(c)
  BY <1>1, <1>10, HoldKeeps
<1> QED BY <1>7, <1>8, <1>9, <1>10 DEF readSource, GoOnSeeing

\* The steps of a call that say nothing of the run by themselves.
Plain == Acting \ {"attempt", "custody", "inspect", "anchor", "plan", "final",
                   "readback", "current"}

\* A caller goes on to such a step with the snapshot it has, or with a sound one.
LEMMA PlainAdvance ==
  ASSUME RecoveryInv, NEW c \in Callers, NEW s \in Actors, s.pc \in Plain,
         SnapOK(s.snap, run), call' = [call EXCEPT ![c] = s],
         call[c].pc \notin {"attempted", "anchored"},
         UNCHANGED <<run, artifacts, flying, dispatched, transfers, renewals, recovered,
                     starts, foreign>>
  PROVE  RecoveryInv'
<1>1. OptionsOK(s, run) /\ AttemptOK(s, run, renewals) /\ OutcomeOK(s, run)
  BY DEF Plain, OptionsOK, AttemptOK, OutcomeOK
<1> QED BY <1>1, GoesOn

\* The inspected snapshot decides whether to anchor, transfer or verify
\* (inspectRecoveryContext).
LEMMA InspectKeeps ==
  ASSUME RecoveryInv, NEW c \in Callers, inspectRecoveryContext(c)
  PROVE  RecoveryInv'
<1> DEFINE r == call[c].snap
           next == IF r.anchor = NoAnchor THEN "anchor"
                   ELSE IF continues(r) THEN "verify" ELSE "plan"
           s == GoOnWith(call[c], next, artifacts)
<1>1. /\ call[c].pc = "inspect"
      /\ UNCHANGED <<run, artifacts, flying, dispatched, transfers, renewals, recovered,
                     starts, foreign>>
  BY DEF inspectRecoveryContext
<1>2. "inspect" \in Acting /\ next \in {"anchor", "verify", "plan"} /\ next \in Acting
  BY DEF Acting
<1>3. /\ call[c] \in Actors /\ SnapOK(r, run) /\ OptionsOK(call[c], run)
      /\ AttemptOK(call[c], run, renewals)
  BY <1>1, <1>2, ActorFacts
<1>4. artifacts \in Nat /\ \A a \in Anchors : a # NoAnchor /\ a.from \in Nat
  BY AnchorFacts DEF RecoveryInv, RecoveryTypeOK, Anchors
<1>5. s \in Actors /\ s.pc = next /\ s.snap = r /\ s.opts = call[c].opts
      /\ s.policy = call[c].policy
  <2> HIDE DEF next
  <2> QED BY <1>2, <1>3, <1>4 DEF GoOnWith, Actors
<1>6. CASE call' = [call EXCEPT ![c] = s]
  <2> HIDE DEF s, r
  <2>1. r \in RunRecords /\ r.gen \in Nat /\ r.anchor \in Anchors \cup {NoAnchor}
    BY <1>3, ActorUpdates DEF r, RunRecords
  <2>2. continues(r) <=> r.owner = New
    BY <1>3 DEF SnapOK, Sound, continues
  <2>3. /\ r.owner = New => s.opts.gen = r.gen
        /\ r.owner # New => s.opts.gen = r.gen + 1
        /\ r.owner # New /\ r.anchor # NoAnchor => r.gen = r.anchor.from
    BY <1>1, <1>3, <1>5 DEF OptionsOK, r
  <2>4. next = "anchor" => r.anchor = NoAnchor /\ s.opts.gen = r.gen + 1
    BY <1>3, <2>3 DEF SnapOK, Sound
  <2>5. next = "plan" => r.anchor # NoAnchor /\ s.opts.gen = r.anchor.from + 1
    BY <2>2, <2>3
  <2>6. r.anchor # NoAnchor => run.anchor = r.anchor
    BY <1>3 DEF SnapOK
  <2>7. OptionsOK(s, run)
    BY <1>2, <1>5, <2>4, <2>5, <2>6 DEF OptionsOK
  <2>8. AttemptOK(s, run, renewals)
    BY <1>1, <1>2, <1>3, <1>5 DEF AttemptOK, r
  <2>9. OutcomeOK(s, run)
    BY <1>2, <1>5 DEF OutcomeOK
  <2> QED BY <1>1, <1>3, <1>5, <1>6, <2>7, <2>8, <2>9, GoesOn
<1>7. CASE Hold(c)
  BY <1>1, <1>7, HoldKeeps
<1> QED BY <1>6, <1>7 DEF inspectRecoveryContext, GoOnWith

\* The replacement writer is verified (VerifyWriter).
LEMMA VerifyKeeps ==
  ASSUME RecoveryInv, NEW c \in Callers, VerifyWriter(c)
  PROVE  RecoveryInv'
<1> DEFINE s == GoOn(call[c], "custody2")
<1>1. /\ call[c].pc = "verify"
      /\ UNCHANGED <<run, artifacts, flying, dispatched, transfers, renewals, recovered,
                     starts, foreign>>
  BY DEF VerifyWriter
<1>2. "verify" \in Acting /\ "custody2" \in Acting /\ "custody2" \in Plain
  BY DEF Acting, Plain
<1>3. call[c] \in Actors /\ SnapOK(call[c].snap, run)
  BY <1>1, <1>2, ActorFacts
<1>4. s \in Actors /\ s.pc = "custody2" /\ s.snap = call[c].snap
  BY <1>2, <1>3, ActorUpdates
<1>5. CASE call' = [call EXCEPT ![c] = s]
  <2> HIDE DEF s
  <2> QED BY <1>1, <1>2, <1>3, <1>4, <1>5, PlainAdvance
<1>6. CASE Hold(c)
  BY <1>1, <1>6, HoldKeeps
<1> QED BY <1>5, <1>6 DEF VerifyWriter, Goto, GoOn

\* The artifacts are inspected before the operation (InspectAgain).
LEMMA InspectAgainKeeps ==
  ASSUME RecoveryInv, NEW c \in Callers, InspectAgain(c)
  PROVE  RecoveryInv'
<1> DEFINE s == GoOnWith(call[c], "execute", artifacts)
<1>1. /\ call[c].pc = "inspect2"
      /\ UNCHANGED <<run, artifacts, flying, dispatched, transfers, renewals, recovered,
                     starts, foreign>>
  BY DEF InspectAgain
<1>2. "inspect2" \in Acting /\ "execute" \in Acting /\ "execute" \in Plain
  BY DEF Acting, Plain
<1>3. call[c] \in Actors /\ SnapOK(call[c].snap, run) /\ artifacts \in Nat
  BY <1>1, <1>2, ActorFacts DEF RecoveryInv, RecoveryTypeOK
<1>4. s \in Actors /\ s.pc = "execute" /\ s.snap = call[c].snap
  BY <1>2, <1>3 DEF GoOnWith, Actors
<1>5. CASE call' = [call EXCEPT ![c] = s]
  <2> HIDE DEF s
  <2> QED BY <1>1, <1>2, <1>3, <1>4, <1>5, PlainAdvance
<1>6. CASE Hold(c)
  BY <1>1, <1>6, HoldKeeps
<1> QED BY <1>5, <1>6 DEF InspectAgain, GoOnWith

\* The run read after a confirmed operation is confirmed (ReadFinal).
LEMMA ReadFinalKeeps ==
  ASSUME RecoveryInv, NEW c \in Callers, ReadFinal(c)
  PROVE  RecoveryInv'
<1> DEFINE s == GoOnSeeing(call[c], "readback", run)
<1>1. /\ call[c].pc = "final"
      /\ UNCHANGED <<run, artifacts, flying, dispatched, transfers, renewals, recovered,
                     starts, foreign>>
  BY DEF ReadFinal
<1>2. "final" \in Acting /\ "readback" \in Acting
  BY DEF Acting
<1>3. call[c] \in Actors /\ OutcomeOK(call[c], run) /\ SnapOK(run, run) /\ run \in RunRecords
  BY <1>1, <1>2, ActorFacts, RunIsSnapshot
<1>4. s \in Actors /\ s.pc = "readback" /\ s.snap = run
  BY <1>2, <1>3, ActorUpdates
<1>5. call' = [call EXCEPT ![c] = s]
  BY DEF ReadFinal, GoOnSeeing
<1> HIDE DEF s
<1>6. OptionsOK(s, run) /\ AttemptOK(s, run, renewals) /\ OutcomeOK(s, run)
  BY <1>1, <1>3, <1>4 DEF OptionsOK, AttemptOK, OutcomeOK
<1> QED BY <1>1, <1>3, <1>4, <1>5, <1>6, GoesOn

\* A readback at the revision of the snapshot names the replacement (Readback).
LEMMA ReadbackKeeps ==
  ASSUME RecoveryInv, NEW c \in Callers, Readback(c)
  PROVE  RecoveryInv'
<1> DEFINE s == GoOn(call[c], "current")
<1>1. /\ call[c].pc = "readback"
      /\ UNCHANGED <<run, artifacts, flying, dispatched, transfers, renewals, recovered,
                     starts, foreign>>
  BY DEF Readback
<1>2. "readback" \in Acting /\ "current" \in Acting
  BY DEF Acting
<1>3. call[c] \in Actors /\ OutcomeOK(call[c], run) /\ SnapOK(call[c].snap, run)
  BY <1>1, <1>2, ActorFacts
<1>4. s \in Actors /\ s.pc = "current" /\ s.snap = call[c].snap
  BY <1>2, <1>3, ActorUpdates
<1>5. CASE run.rev = call[c].snap.rev /\ run.owner = New /\ call' = [call EXCEPT ![c] = s]
  <2> HIDE DEF s
  <2>1. call[c].snap = run
    BY <1>3, <1>5 DEF SnapOK
  <2>2. OptionsOK(s, run) /\ AttemptOK(s, run, renewals) /\ OutcomeOK(s, run)
    BY <1>1, <1>3, <1>4, <1>5, <2>1 DEF OptionsOK, AttemptOK, OutcomeOK
  <2> QED BY <1>1, <1>3, <1>4, <1>5, <2>2, GoesOn
<1>6. CASE Hold(c)
  BY <1>1, <1>6, HoldKeeps
<1> QED BY <1>5, <1>6 DEF Readback, Goto, GoOn

\* Success is reported of the run the call read back.
LEMMA RecoveredKeeps ==
  ASSUME RecoveryInv, NEW c \in Callers, Recovered(c)
  PROVE  RecoveryInv'
<1>1. /\ call[c].pc = "current" /\ Hold(c)
      /\ UNCHANGED <<run, artifacts, flying, dispatched, transfers, renewals, starts, foreign>>
  BY DEF Recovered
<1>2. "current" \in Acting
  BY DEF Acting
<1>3. /\ SnapOK(call[c].snap, run)
      /\ call[c].snap.adm = "confirmed" /\ call[c].snap.owner = New
  BY <1>1, <1>2, ActorFacts DEF OutcomeOK
<1>4. RecoveredTruthfully /\ starts \in Nat
  BY DEF RecoveryInv, RecoveryTypeOK
<1>5. RecoveredTruthfully'
  <2>1. CASE stillCurrent(c)
    <3> DEFINE h == [run |-> run, anchor |-> call[c].snap.anchor]
    <3>1. call[c].snap = run /\ activeOracleCustody(run)
      BY <1>3, <2>1 DEF stillCurrent, SnapOK
    <3>2. run.adm = "confirmed" /\ run.owner = New /\ run.gen = run.anchor.from + 1
      BY <1>3, <3>1 DEF SnapOK, Sound
    <3>3. h.run = run /\ h.anchor = run.anchor
      BY <3>1
    <3>4. recovered' = recovered \cup {h}
      BY <2>1 DEF Recovered
    <3> HIDE DEF h
    <3> QED BY <1>4, <3>1, <3>2, <3>3, <3>4 DEF RecoveredTruthfully
  <2>2. CASE ~stillCurrent(c)
    BY <1>4, <2>2 DEF Recovered, RecoveredTruthfully
  <2> QED BY <2>1, <2>2
<1> QED BY <1>1, <1>4, <1>5, IdleFacts, CallerMoves DEF Hold

-----------------------------------------------------------------------------
(* A caller renews custody, or has the operation reconciled.               *)

\* A caller's step raises the run's revision, past its attempts.
LEMMA RunRevised ==
  ASSUME RecoveryInv, NEW c \in Callers, NEW s \in CallStates,
         call' = [call EXCEPT ![c] = s], call[c].pc \notin {"attempted", "anchored"},
         run' \in RunRecords, Sound(run'), renewals' \in Nat, renewals' >= renewals,
         After(run, renewals, run', renewals'),
         run'.attempts = run.attempts, run'.policies = run.policies,
         run.adm # "none" => run'.adm # "none",
         CallOK(s, run', renewals'),
         UNCHANGED <<artifacts, flying, dispatched, transfers, recovered, starts, foreign>>
  PROVE  RecoveryInv'
<1>1. RecoveryTypeOK /\ RecoveredTruthfully
  BY DEF RecoveryInv
<1>2. RecoveryTypeOK'
  BY <1>1 DEF RecoveryTypeOK, CallStates
<1>3. \A d \in Callers : call'[d] = IF d = c THEN s ELSE call[d]
  BY <1>1 DEF RecoveryTypeOK
<1>4. \A d \in Callers :
        \/ call'[d] = call[d]
        \/ /\ call[d].pc \notin {"attempted", "anchored"}
           /\ CallOK(call'[d], run', renewals')
  BY <1>3
<1>5. RecoveredTruthfully'
  BY <1>1 DEF RecoveredTruthfully
<1> QED BY <1>2, <1>4, <1>5, PlainStep

\* The run with custody renewed.
Renewed(r) == [r EXCEPT !.custody = Scope(r), !.rev = @ + 1]

\* A renewal touches custody and the revision only.
LEMMA RenewedFacts ==
  ASSUME NEW r \in RunRecords, Sound(r)
  PROVE  /\ Renewed(r) \in RunRecords /\ Sound(Renewed(r))
         /\ Renewed(r).rev = r.rev + 1 /\ Renewed(r).gen = r.gen
         /\ Renewed(r).anchor = r.anchor /\ Renewed(r).owner = r.owner
         /\ Renewed(r).attempts = r.attempts /\ Renewed(r).policies = r.policies
         /\ Renewed(r).adm = r.adm /\ Renewed(r).moved = r.moved
<1>1. Scope(r) \in Nat \X Nat \X Nat /\ r.rev + 1 \in Nat
  BY DEF RunRecords, Scope
<1>2. /\ Renewed(r).rev = r.rev + 1 /\ Renewed(r).gen = r.gen
      /\ Renewed(r).anchor = r.anchor /\ Renewed(r).owner = r.owner
      /\ Renewed(r).attempts = r.attempts /\ Renewed(r).policies = r.policies
      /\ Renewed(r).adm = r.adm /\ Renewed(r).moved = r.moved
  BY DEF RunRecords, Renewed
<1>3. Renewed(r) \in RunRecords
  <2> DEFINE custody == Scope(r)
             rev == r.rev + 1
  <2>1. custody \in Nat \X Nat \X Nat /\ rev \in Nat
    BY <1>1
  <2>2. Renewed(r) = [r EXCEPT !.custody = custody, !.rev = rev]
    BY DEF Renewed, RunRecords
  <2> HIDE DEF custody, rev
  <2> QED BY <2>1, <2>2 DEF RunRecords
<1> QED BY <1>2, <1>3 DEF Sound

\* A renewed snapshot keeps the meaning of the options, and may spare an attempt
\* (ensureCustody).
LEMMA CustodyKeeps ==
  ASSUME RecoveryInv, NEW c \in Callers, NEW from, NEW to,
         \/ from = "custody" /\ to = "inspect"
         \/ from = "custody2" /\ to = "inspect2",
         ensureCustody(c, from, to)
  PROVE  RecoveryInv'
<1> DEFINE q == call[c].snap
<1>1. /\ call[c].pc = from
      /\ UNCHANGED <<artifacts, flying, dispatched, transfers, recovered, starts, foreign>>
  BY DEF ensureCustody
<1>2. from \in Acting /\ to \in Acting /\ from \notin {"attempted", "anchored"}
  BY DEF Acting
<1>3. /\ call[c] \in Actors /\ q \in RunRecords
      /\ SnapOK(q, run) /\ OptionsOK(call[c], run) /\ AttemptOK(call[c], run, renewals)
  BY <1>1, <1>2, ActorFacts, ActorUpdates
<1>4. /\ run \in RunRecords /\ Sound(run) /\ run.gen \in Nat /\ run.rev \in Nat
      /\ renewals \in Nat /\ RecoveryTypeOK /\ AttemptsBounded
      /\ run.anchor \in Anchors \cup {NoAnchor} /\ \A a \in Anchors : a.from \in Nat
  BY DEF RecoveryInv, RecoveryTypeOK, RunRecords, Anchors
<1>5. CASE /\ call' = [call EXCEPT ![c] = GoOn(call[c], to)]
           /\ UNCHANGED <<run, renewals>>
  <2> DEFINE s == GoOn(call[c], to)
  <2>1. /\ s \in Actors /\ s.pc = to /\ s.snap = q
        /\ s.opts = call[c].opts /\ s.policy = call[c].policy
    BY <1>2, <1>3, ActorUpdates
  <2> HIDE DEF s, q
  <2>2. OptionsOK(s, run)
    BY <1>1, <1>3, <2>1 DEF OptionsOK, q
  <2>3. AttemptOK(s, run, renewals) /\ OutcomeOK(s, run)
    BY <1>1, <1>3, <2>1 DEF AttemptOK, OutcomeOK, q
  <2> QED BY <1>1, <1>2, <1>3, <1>5, <2>1, <2>2, <2>3, GoesOn DEF s
<1>6. CASE /\ run' = Renewed(run) /\ renewals' = renewals + 1
           /\ \/ /\ Scope(run) = Scope(q) /\ run.owner = q.owner
                 /\ call' = [call EXCEPT ![c] = GoOnSeeing(call[c], to, Renewed(run))]
              \/ Hold(c)
  <2> DEFINE n == Renewed(run)
             s == GoOnSeeing(call[c], to, n)
  <2>1. /\ n \in RunRecords /\ Sound(n) /\ n.rev = run.rev + 1 /\ n.gen = run.gen
        /\ n.anchor = run.anchor /\ n.owner = run.owner /\ n.adm = run.adm
        /\ n.attempts = run.attempts /\ n.policies = run.policies
    BY <1>4, RenewedFacts
  <2> HIDE DEF n
  <2>2. After(run, renewals, n, renewals + 1)
    BY <1>4, <2>1 DEF After
  <2>3. run' = n
    BY <1>6 DEF n
  <2>4. /\ s \in Actors /\ s.pc = to /\ s.snap = n
        /\ s.opts = call[c].opts /\ s.policy = call[c].policy
    <3>1. n \in RunRecords /\ to \in Acting /\ call[c] \in Actors
      BY <1>2, <1>3, <2>1
    <3> QED BY <3>1, ActorUpdates
  <2>5. CASE Hold(c)
    <3> HIDE DEF s, q
    <3>1. renewals' \in Nat /\ renewals' >= renewals
      BY <1>4, <1>6
    <3>2. call' = [call EXCEPT ![c] = IdleCaller]
      BY <2>5 DEF Hold
    <3>3. CallOK(IdleCaller, run', renewals') /\ IdleCaller \in CallStates
      BY IdleFacts
    <3> QED BY <1>1, <1>2, <1>6, <2>1, <2>2, <2>3, <3>1, <3>2, <3>3, RunRevised
  <2>6. CASE /\ Scope(run) = Scope(q) /\ run.owner = q.owner
             /\ call' = [call EXCEPT ![c] = s]
    <3> HIDE DEF s, q
    <3>1. run.gen = q.gen
      BY <2>6 DEF Scope
    <3>2. SnapOK(n, n)
      BY <1>4, <2>1 DEF SnapOK
    <3>3. run.anchor # NoAnchor /\ q.anchor # NoAnchor => q.anchor = run.anchor
      BY <1>3 DEF SnapOK
    <3>4. run.anchor # NoAnchor /\ q.anchor = NoAnchor => run.gen = run.anchor.from
      BY <1>3, <1>4, <3>1 DEF SnapOK, Sound
    <3>5. OptionsOK(s, n)
      <4>1. CASE to = "inspect"
        <5>1. call[c].pc = "custody"
          BY <1>1, <4>1
        <5>2. q.owner = New => s.opts.gen = n.gen
          BY <1>3, <2>1, <2>4, <3>1, <5>1 DEF OptionsOK, q
        <5>3. q.owner # New => s.opts.gen = n.gen + 1
          BY <1>3, <2>1, <2>4, <3>1, <5>1 DEF OptionsOK, q
        <5>4. q.owner # New /\ q.anchor # NoAnchor => q.gen = q.anchor.from
          BY <1>3, <5>1 DEF OptionsOK, q
        <5>5. q.owner # New /\ n.anchor # NoAnchor => n.gen = n.anchor.from
          BY <2>1, <3>1, <3>3, <3>4, <5>4
        <5> QED BY <2>1, <2>4, <2>6, <4>1, <5>2, <5>3, <5>5 DEF OptionsOK
      <4>2. CASE to = "inspect2"
        BY <2>4, <4>2 DEF OptionsOK
      <4> QED BY <4>1, <4>2
    <3>6. Spare(n, renewals + 1)
      <4>1. /\ run.attempts \in Nat /\ Cardinality(run.policies) \in Nat
            /\ \A p \in Policies : p.maxAttempts \in Nat
        BY <1>4, FS_CardinalityType, RecoveryAssumption DEF RecoveryTypeOK, RunRecords
      <4>2. Cardinality(n.policies) <= renewals + 1
        BY <1>4, <2>1, <4>1 DEF AttemptsBounded
      <4>3. \E p \in Policies : n.attempts + 1 <= p.maxAttempts + (renewals + 1)
        BY <1>4, <2>1, <4>1 DEF AttemptsBounded
      <4> QED BY <1>4, <4>2, <4>3 DEF Spare
    <3>7. AttemptOK(s, n, renewals + 1) /\ OutcomeOK(s, n)
      BY <2>4, <3>6 DEF AttemptOK, Allowed, OutcomeOK
    <3>8. CallOK(s, run', renewals') /\ s \in CallStates
      BY <1>6, <2>3, <2>4, <3>2, <3>5, <3>7 DEF CallOK, CallStates
    <3>9. renewals' \in Nat /\ renewals' >= renewals
      BY <1>4, <1>6
    <3> QED BY <1>1, <1>2, <1>6, <2>1, <2>2, <2>3, <2>6, <3>8, <3>9, RunRevised
  <2> QED BY <1>6, <2>5, <2>6 DEF n
<1> QED BY <1>5, <1>6 DEF ensureCustody, Goto, GoOn, GoOnSeeing, Renewed

\* The run with another outcome of the operation recorded.
Recorded(r, a) == [r EXCEPT !.adm = a, !.rev = @ + 1]

\* An outcome touches the admission and the revision only.
LEMMA RecordedFacts ==
  ASSUME NEW r \in RunRecords, Sound(r),
         NEW a \in {"admitted", "submitted", "unknown", "confirmed", "failed"}
  PROVE  /\ Recorded(r, a) \in RunRecords /\ Sound(Recorded(r, a))
         /\ Recorded(r, a).rev = r.rev + 1 /\ Recorded(r, a).gen = r.gen
         /\ Recorded(r, a).anchor = r.anchor
         /\ Recorded(r, a).attempts = r.attempts /\ Recorded(r, a).policies = r.policies
         /\ Recorded(r, a).adm = a
<1>1. /\ Recorded(r, a).rev = r.rev + 1 /\ Recorded(r, a).gen = r.gen
      /\ Recorded(r, a).anchor = r.anchor /\ Recorded(r, a).owner = r.owner
      /\ Recorded(r, a).attempts = r.attempts /\ Recorded(r, a).policies = r.policies
      /\ Recorded(r, a).adm = a /\ Recorded(r, a).moved = r.moved
  BY DEF RunRecords, Recorded
<1>2. Recorded(r, a) \in RunRecords
  <2> DEFINE rev == r.rev + 1
  <2>1. rev \in Nat
    BY DEF RunRecords
  <2>2. Recorded(r, a) = [r EXCEPT !.adm = a, !.rev = rev]
    BY DEF Recorded, RunRecords
  <2> HIDE DEF rev
  <2> QED BY <2>1, <2>2 DEF RunRecords
<1> QED BY <1>1, <1>2 DEF Sound

\* Reconciling records an outcome or nothing; a confirmed one stays.
LEMMA ReconciledFacts ==
  ASSUME NEW r \in RunRecords, Sound(r), NEW q \in Reconciled(r), NEW n
  PROVE  /\ q \in RunRecords /\ Sound(q) /\ After(r, n, q, n)
         /\ q.attempts = r.attempts /\ q.policies = r.policies
         /\ r.adm # "none" => q.adm # "none"
<1>1. CASE q = r
  BY <1>1 DEF After
<1>2. CASE q # r
  <2>1. r.adm \notin {"confirmed", "failed", "none"}
    BY <1>2 DEF Reconciled
  <2> DEFINE closed == IF r.adm = "admitted" THEN Recorded(r, "unknown") ELSE r
  <2>2. q \in {closed, Recorded(closed, "confirmed"), Recorded(closed, "failed")}
    BY <2>1 DEF Reconciled, Recorded
  <2>3. r.rev \in Nat /\ r.gen \in Nat
    BY DEF RunRecords
  <2>4. /\ closed \in RunRecords /\ Sound(closed) /\ closed.rev \in Nat
        /\ closed.rev >= r.rev /\ (closed = r \/ closed.rev > r.rev)
        /\ closed.gen = r.gen /\ closed.anchor = r.anchor
        /\ closed.attempts = r.attempts /\ closed.policies = r.policies
        /\ closed.adm # "none"
    BY <2>1, <2>3, RecordedFacts
  <2> HIDE DEF closed
  <2>5. CASE q = closed
    BY <1>2, <2>1, <2>3, <2>4, <2>5 DEF After
  <2>6. ASSUME NEW a \in {"confirmed", "failed"}, q = Recorded(closed, a)
        PROVE  /\ q \in RunRecords /\ Sound(q) /\ q.rev > r.rev /\ q.gen = r.gen
               /\ q.anchor = r.anchor /\ q.attempts = r.attempts
               /\ q.policies = r.policies /\ q.adm # "none"
    BY <2>3, <2>4, <2>6, RecordedFacts
  <2>7. CASE q \in {Recorded(closed, "confirmed"), Recorded(closed, "failed")}
    BY <2>1, <2>3, <2>6, <2>7 DEF After
  <2> QED BY <2>2, <2>5, <2>7
<1> QED BY <1>1, <1>2

\* An earlier call's operation is reconciled (reconcileDelegatedOperation).
LEMMA SettleKeeps ==
  ASSUME RecoveryInv, NEW c \in Callers, reconcileDelegatedOperation(c)
  PROVE  RecoveryInv'
<1>1. /\ call[c].pc = "settle" /\ run' \in Reconciled(run)
      /\ call' = [call EXCEPT ![c] = IdleCaller] /\ renewals' = renewals
      /\ UNCHANGED <<artifacts, flying, dispatched, transfers, recovered, starts, foreign>>
  BY DEF reconcileDelegatedOperation, Hold
<1>2. run \in RunRecords /\ Sound(run) /\ renewals \in Nat
  BY DEF RecoveryInv, RecoveryTypeOK
<1>3. /\ run' \in RunRecords /\ Sound(run') /\ After(run, renewals, run', renewals')
      /\ run'.attempts = run.attempts /\ run'.policies = run.policies
      /\ run.adm # "none" => run'.adm # "none"
  BY <1>1, <1>2, ReconciledFacts
<1>4. renewals' \in Nat /\ renewals' >= renewals
  BY <1>1, <1>2
<1>5. CallOK(IdleCaller, run', renewals') /\ IdleCaller \in CallStates
  BY IdleFacts
<1> QED BY <1>1, <1>3, <1>4, <1>5, RunRevised

\* The call's own operation is reconciled (ReconcileOwn).
LEMMA ReconcileOwnKeeps ==
  ASSUME RecoveryInv, NEW c \in Callers, ReconcileOwn(c)
  PROVE  RecoveryInv'
<1> DEFINE s == GoOn(call[c], "final")
<1>1. /\ call[c].pc \in {"executing", "reconcile"} /\ run' \in Reconciled(run)
      /\ renewals' = renewals
      /\ UNCHANGED <<artifacts, flying, dispatched, transfers, recovered, starts, foreign>>
  BY DEF ReconcileOwn
<1>2. call[c].pc \in Acting /\ "final" \in Acting /\ call[c].pc \notin {"attempted", "anchored"}
  BY <1>1 DEF Acting
<1>3. run \in RunRecords /\ Sound(run) /\ renewals \in Nat
  BY DEF RecoveryInv, RecoveryTypeOK
<1>4. /\ run' \in RunRecords /\ Sound(run') /\ After(run, renewals, run', renewals')
      /\ run'.attempts = run.attempts /\ run'.policies = run.policies
      /\ run.adm # "none" => run'.adm # "none"
  BY <1>1, <1>3, ReconciledFacts
<1>5. renewals' \in Nat /\ renewals' >= renewals
  BY <1>1, <1>3
<1>6. call[c] \in Actors /\ SnapOK(call[c].snap, run) /\ call[c].snap \in RunRecords
  BY <1>2, ActorFacts, ActorUpdates
<1>7. s \in Actors /\ s.pc = "final" /\ s.snap = call[c].snap
  BY <1>2, <1>6, ActorUpdates
<1>8. CASE run'.adm = "confirmed" /\ call' = [call EXCEPT ![c] = s]
  <2> HIDE DEF s
  <2>1. /\ run.rev \in Nat /\ run.gen \in Nat /\ run'.rev \in Nat /\ run'.gen \in Nat
        /\ s.snap.rev \in Nat /\ s.snap.gen \in Nat
        /\ \A a \in Anchors : a.from \in Nat
        /\ run.anchor \in Anchors \cup {NoAnchor} /\ run'.anchor \in Anchors \cup {NoAnchor}
    BY <1>3, <1>4, <1>6, <1>7 DEF RunRecords, Anchors
  <2>2. SnapOK(s.snap, run')
    BY <1>4, <1>6, <1>7, <2>1 DEF SnapOK, After
  <2>3. OptionsOK(s, run') /\ AttemptOK(s, run', renewals') /\ OutcomeOK(s, run')
    BY <1>7, <1>8 DEF OptionsOK, AttemptOK, OutcomeOK
  <2>4. CallOK(s, run', renewals') /\ s \in CallStates
    BY <1>7, <2>2, <2>3 DEF CallOK, CallStates
  <2> QED BY <1>1, <1>2, <1>4, <1>5, <1>8, <2>4, RunRevised
<1>9. CASE call' = [call EXCEPT ![c] = IdleCaller]
  <2> HIDE DEF s
  <2>1. CallOK(IdleCaller, run', renewals') /\ IdleCaller \in CallStates
    BY IdleFacts
  <2> QED BY <1>1, <1>2, <1>4, <1>5, <1>9, <2>1, RunRevised
<1> QED BY <1>8, <1>9 DEF ReconcileOwn, Goto, Hold, GoOn

-----------------------------------------------------------------------------
(* A caller issues an append.                                              *)

\* An append that means what it may do to the run is added to those in the air.
LEMMA IssueKeeps ==
  ASSUME RecoveryInv, NEW c \in Callers, NEW s \in Actors, NEW g \in Checkpoints \cup Moves,
         g.by = c, ~Token(g), FlightOK(g, run, renewals),
         call[c].pc \notin {"attempted", "anchored"},
         CallOK(s, run, renewals), call' = [call EXCEPT ![c] = s],
         g.kind = "checkpoint" =>
           /\ s.pc \in {"attempted", "anchored"}
           /\ s.pc = "anchored" => g.anchor # NoAnchor /\ g.gen + 1 = s.opts.gen,
         flying' = flying \cup {g},
         UNCHANGED <<run, artifacts, dispatched, transfers, renewals, recovered, starts, foreign>>
  PROVE  RecoveryInv'
<1>1. /\ RecoveryTypeOK /\ Sound(run) /\ LinkInv /\ TransferInv /\ TokenInv
      /\ AttemptsBounded /\ RecoveredTruthfully
  BY DEF RecoveryInv
<1>2. RecoveryTypeOK'
  BY <1>1 DEF RecoveryTypeOK
<1>3. \A d \in Callers : call'[d] = IF d = c THEN s ELSE call[d]
  BY <1>1 DEF RecoveryTypeOK
<1>4. TransferInv' /\ AttemptsBounded' /\ RecoveredTruthfully'
  BY <1>1 DEF TransferInv, AttemptsBounded, RecoveredTruthfully
<1>5. TokenInv'
  BY <1>1 DEF TokenInv
<1>6. LinkInv'
  <2>1. ASSUME NEW f \in flying, Awaited(f)
        PROVE  f.by # c /\ call'[f.by] = call[f.by]
    BY <1>1, <1>3, <2>1 DEF LinkInv, Awaited
  <2>2. \A f \in flying' : Awaited(f) =>
          /\ call'[f.by].pc \in {"attempted", "anchored"}
          /\ call'[f.by].pc = "anchored" =>
               f.anchor # NoAnchor /\ f.gen + 1 = call'[f.by].opts.gen
    BY <1>1, <1>3, <2>1 DEF LinkInv, Awaited
  <2>3. \A f, h \in flying' : Awaited(f) /\ Awaited(h) /\ f.by = h.by => f = h
    BY <1>1, <2>1 DEF LinkInv
  <2> QED BY <2>2, <2>3 DEF LinkInv
<1>7. After(run, renewals, run', renewals') /\ Sound(run')
  BY <1>1 DEF After
<1> QED BY <1>2, <1>3, <1>4, <1>5, <1>6, <1>7, StepKeeps

\* A checkpoint names what its caller's snapshot was read at.
LEMMA CheckpointKeeps ==
  ASSUME RecoveryInv, NEW c \in Callers, NEW anchor \in Anchors \cup {NoAnchor}, NEW next,
         \/ call[c].pc = "attempt" /\ next = "attempted"
         \/ call[c].pc = "anchor" /\ next = "anchored" /\ anchor \in Anchors,
         anchor \in Anchors => anchor.from = call[c].snap.gen,
         persistAttempt(c, anchor, next)
  PROVE  RecoveryInv'
<1> DEFINE q == call[c].snap
           s == GoOn(call[c], next)
           g == [kind |-> "checkpoint", by |-> c, rev |-> q.rev, gen |-> q.gen,
                 policy |-> call[c].policy, anchor |-> anchor]
<1>1. /\ call' = [call EXCEPT ![c] = s] /\ flying' = flying \cup {[g EXCEPT !.by = c]}
      /\ UNCHANGED <<run, artifacts, dispatched, transfers, renewals, recovered, starts, foreign>>
  BY DEF persistAttempt, Issue, Goto, GoOn
<1>2. call[c].pc \in Acting /\ next \in Acting
  BY DEF Acting
<1>3. /\ call[c] \in Actors /\ q \in RunRecords
      /\ SnapOK(q, run) /\ OptionsOK(call[c], run) /\ AttemptOK(call[c], run, renewals)
  BY <1>2, ActorFacts, ActorUpdates
<1>4. /\ s \in Actors /\ s.pc = next /\ s.snap = q /\ s.opts = call[c].opts
      /\ call[c].policy \in Policies
  BY <1>2, <1>3, ActorUpdates
<1>5. q.rev \in Nat /\ q.gen \in Nat /\ call[c].opts.gen \in Nat
  BY <1>3, ActorUpdates DEF RunRecords
<1>6. [g EXCEPT !.by = c] = g
  OBVIOUS
<1>7. /\ g \in Checkpoints /\ g.by = c /\ g.kind = "checkpoint" /\ g.rev = q.rev
      /\ g.gen = q.gen /\ g.policy = call[c].policy /\ g.anchor = anchor
  BY <1>4, <1>5 DEF Checkpoints, CallersOrNone
<1>8. flying' = flying \cup {g}
  BY <1>1, <1>6
<1> HIDE DEF g, s
<1>9. \A a \in Anchors : a # NoAnchor
  BY AnchorFacts
<1>10. q.anchor = NoAnchor
  BY <1>3 DEF OptionsOK
<1>11. FlightOK(g, run, renewals)
  <2>1. g.rev <= run.rev
    BY <1>3, <1>7 DEF SnapOK
  <2>2. g.rev = run.rev => run.anchor = NoAnchor
    BY <1>3, <1>7, <1>10 DEF SnapOK
  <2>3. g.rev = run.rev => Allowed(g.policy, run, renewals)
    BY <1>3, <1>7, <2>2 DEF AttemptOK
  <2>4. g.anchor # NoAnchor => g.anchor.from = g.gen
    BY <1>7, <1>9
  <2> QED BY <1>7, <2>1, <2>2, <2>3, <2>4 DEF FlightOK
<1>12. CallOK(s, run, renewals)
  <2>1. OptionsOK(s, run) /\ AttemptOK(s, run, renewals) /\ OutcomeOK(s, run)
    BY <1>4 DEF OptionsOK, AttemptOK, OutcomeOK
  <2> QED BY <1>3, <1>4, <2>1 DEF CallOK
<1>13. /\ s.pc \in {"attempted", "anchored"}
       /\ s.pc = "anchored" => g.anchor # NoAnchor /\ g.gen + 1 = s.opts.gen
  <2>1. CASE next = "anchored"
    <3>1. call[c].opts.gen = q.gen + 1
      BY <1>3, <2>1 DEF OptionsOK
    <3> QED BY <1>4, <1>7, <1>9, <2>1, <3>1
  <2>2. CASE next = "attempted"
    BY <1>4, <2>2
  <2> QED BY <2>1, <2>2
<1>14. ~Token(g) /\ g \in Checkpoints \cup Moves
  BY <1>7 DEF Token
<1>15. call[c].pc \notin {"attempted", "anchored"}
  OBVIOUS
<1> QED BY <1>1, <1>4, <1>7, <1>8, <1>11, <1>12, <1>13, <1>14, <1>15, IssueKeeps

\* The attempt of a transient failure is checkpointed (RetryLater).
LEMMA RetryLaterKeeps ==
  ASSUME RecoveryInv, NEW c \in Callers, RetryLater(c)
  PROVE  RecoveryInv'
<1>1. NoAnchor \in Anchors \cup {NoAnchor} /\ NoAnchor \notin Anchors
  BY AnchorFacts
<1>2. call[c].pc = "attempt" /\ persistAttempt(c, NoAnchor, "attempted")
  BY DEF RetryLater
<1> QED BY <1>1, <1>2, CheckpointKeeps

\* The continuation is anchored at the snapshot's generation (PersistAnchor).
LEMMA PersistAnchorKeeps ==
  ASSUME RecoveryInv, NEW c \in Callers, PersistAnchor(c)
  PROVE  RecoveryInv'
<1> DEFINE r == call[c].snap
           a == [policy |-> call[c].policy, from |-> r.gen, owner |-> r.owner,
                 epoch |-> r.epoch, cand |-> r.cand, art |-> call[c].art]
<1>1. call[c].pc = "anchor" /\ persistAttempt(c, a, "anchored")
  BY DEF PersistAnchor
<1>2. "anchor" \in Acting
  BY DEF Acting
<1>3. call[c] \in Actors
  BY <1>1, <1>2, ActorFacts
<1>4. a \in Anchors /\ a.from = r.gen
  BY <1>3 DEF Actors, RunRecords, Anchors
<1> HIDE DEF a
<1> QED BY <1>1, <1>4, CheckpointKeeps

\* The transfer names the generation the anchor took over from.
LEMMA ResumeKeeps ==
  ASSUME RecoveryInv, NEW c \in Callers, ResumeCall(c)
  PROVE  RecoveryInv'
<1> DEFINE s == GoOn(call[c], "resumed")
           gen == call[c].opts.gen - 1
           g == [kind |-> "resume", by |-> c, rev |-> run.rev, gen |-> gen]
<1>1. /\ call' = [call EXCEPT ![c] = s] /\ flying' = flying \cup {[g EXCEPT !.by = c]}
      /\ call[c].pc = "plan"
      /\ UNCHANGED <<run, artifacts, dispatched, transfers, renewals, recovered, starts, foreign>>
  BY DEF ResumeCall, Issue, Goto, GoOn
<1>2. "plan" \in Acting /\ "resumed" \in Acting
  BY DEF Acting
<1>3. call[c] \in Actors /\ SnapOK(call[c].snap, run) /\ OptionsOK(call[c], run)
  BY <1>1, <1>2, ActorFacts
<1>4. s \in Actors /\ s.pc = "resumed" /\ s.snap = call[c].snap
  BY <1>2, <1>3, ActorUpdates
<1>5. /\ run.rev \in Nat /\ run.anchor \in Anchors \cup {NoAnchor}
      /\ \A a \in Anchors : a.from \in Nat
  BY DEF RecoveryInv, RecoveryTypeOK, RunRecords, Anchors
<1>6. run.anchor # NoAnchor /\ gen = run.anchor.from /\ gen \in Nat
  BY <1>1, <1>3, <1>5 DEF OptionsOK
<1> HIDE DEF gen
<1>7. [g EXCEPT !.by = c] = g
  OBVIOUS
<1>8. g \in Moves /\ g.by = c /\ g.kind = "resume" /\ g.rev = run.rev /\ g.gen = gen
  BY <1>5, <1>6 DEF Moves, CallersOrNone
<1>9. flying' = flying \cup {g}
  BY <1>1, <1>7
<1> HIDE DEF g, s
<1>10. FlightOK(g, run, renewals) /\ ~Token(g)
  BY <1>5, <1>6, <1>8 DEF FlightOK, Token
<1>11. OptionsOK(s, run) /\ AttemptOK(s, run, renewals) /\ OutcomeOK(s, run)
  BY <1>4 DEF OptionsOK, AttemptOK, OutcomeOK
<1>12. CallOK(s, run, renewals)
  BY <1>3, <1>4, <1>11 DEF CallOK
<1> QED BY <1>1, <1>4, <1>8, <1>9, <1>10, <1>12, IssueKeeps

\* The delegated operation's admission is issued (Execute).
LEMMA ExecuteKeeps ==
  ASSUME RecoveryInv, NEW c \in Callers, Execute(c)
  PROVE  RecoveryInv'
<1> DEFINE q == call[c].snap
           s == GoOn(call[c], "executing")
           g == [kind |-> "admit", by |-> c, rev |-> q.rev, gen |-> call[c].opts.gen]
<1>1. /\ call' = [call EXCEPT ![c] = s] /\ flying' = flying \cup {[g EXCEPT !.by = c]}
      /\ call[c].pc = "execute"
      /\ UNCHANGED <<run, artifacts, dispatched, transfers, renewals, recovered, starts, foreign>>
  BY DEF Execute, Issue, Goto, GoOn
<1>2. "execute" \in Acting /\ "executing" \in Acting
  BY DEF Acting
<1>3. call[c] \in Actors /\ SnapOK(q, run) /\ q \in RunRecords
  BY <1>1, <1>2, ActorFacts, ActorUpdates
<1>4. s \in Actors /\ s.pc = "executing" /\ s.snap = q
  BY <1>2, <1>3, ActorUpdates
<1>5. q.rev \in Nat /\ call[c].opts.gen \in Nat
  BY <1>3, ActorUpdates DEF RunRecords
<1>6. [g EXCEPT !.by = c] = g
  OBVIOUS
<1>7. g \in Moves /\ g.by = c /\ g.kind = "admit" /\ g.rev = q.rev
  BY <1>5 DEF Moves, CallersOrNone
<1>8. flying' = flying \cup {g}
  BY <1>1, <1>6
<1> HIDE DEF g, s
<1>9. FlightOK(g, run, renewals) /\ ~Token(g)
  BY <1>3, <1>7 DEF FlightOK, Token, SnapOK
<1>10. OptionsOK(s, run) /\ AttemptOK(s, run, renewals) /\ OutcomeOK(s, run)
  BY <1>4 DEF OptionsOK, AttemptOK, OutcomeOK
<1>11. CallOK(s, run, renewals)
  BY <1>3, <1>4, <1>10 DEF CallOK
<1> QED BY <1>1, <1>4, <1>7, <1>8, <1>9, <1>11, IssueKeeps

-----------------------------------------------------------------------------
(* What was issued lands, or is refused.                                   *)

\* Only the caller that waits for what leaves the air is woken.
LEMMA LinkAfter ==
  ASSUME RecoveryInv, NEW f \in flying,
         \A g \in flying' : g \in flying \ {f} \/ ~Awaited(g),
         \A d \in Callers :
           \/ call'[d] = call[d]
           \/ Awaited(f) /\ d = f.by
           \/ call[d].pc \notin {"attempted", "anchored"}
  PROVE  LinkInv'
<1>1. LinkInv
  BY DEF RecoveryInv
<1>2. ASSUME NEW g \in flying', Awaited(g)
      PROVE  g \in flying /\ call'[g.by] = call[g.by]
  <2>1. g \in flying /\ g # f /\ g.by \in Callers
    BY <1>2 DEF Awaited
  <2>2. call[g.by].pc \in {"attempted", "anchored"}
    BY <1>1, <1>2, <2>1 DEF LinkInv
  <2>3. ~(Awaited(f) /\ g.by = f.by)
    BY <1>1, <1>2, <2>1 DEF LinkInv
  <2> QED BY <2>1, <2>2, <2>3
<1>3. \A g \in flying' : Awaited(g) =>
        /\ call'[g.by].pc \in {"attempted", "anchored"}
        /\ call'[g.by].pc = "anchored" =>
             g.anchor # NoAnchor /\ g.gen + 1 = call'[g.by].opts.gen
  BY <1>1, <1>2 DEF LinkInv
<1>4. \A g, h \in flying' : Awaited(g) /\ Awaited(h) /\ g.by = h.by => g = h
  BY <1>1, <1>2 DEF LinkInv
<1> QED BY <1>3, <1>4 DEF LinkInv

\* The kinds of what is in the air.
LEMMA FlightFacts ==
  ASSUME RecoveryInv, NEW f \in flying
  PROVE  /\ f \in Checkpoints \cup Moves /\ FlightOK(f, run, renewals)
         /\ f.kind \in {"checkpoint", "resume", "admit", "submit", "dispatch"}
         /\ f.kind = "checkpoint" => f \in Checkpoints
         /\ f.kind # "checkpoint" => f \in Moves
         /\ f.by \in Callers \cup {"nobody"}
<1>1. f \in Checkpoints \cup Moves /\ FlightOK(f, run, renewals)
  BY DEF RecoveryInv, RecoveryTypeOK
<1>2. /\ \A g \in Checkpoints : g.kind = "checkpoint" /\ g.by \in Callers \cup {"nobody"}
      /\ \A g \in Moves : /\ g.kind \in {"resume", "admit", "submit", "dispatch"}
                          /\ g.by \in Callers \cup {"nobody"}
  BY DEF Checkpoints, Moves, CallersOrNone
<1> QED BY <1>1, <1>2

\* The run with a checkpoint of an attempt.
Attempted(r, f) ==
  [r EXCEPT !.rev = @ + 1, !.attempts = @ + 1, !.policies = @ \cup {f.policy},
            !.anchor = IF f.anchor = NoAnchor THEN @ ELSE f.anchor]

\* A checkpoint counts one attempt, adds its policy and may set the anchor.
LEMMA AttemptedFacts ==
  ASSUME NEW r \in RunRecords, NEW f \in Checkpoints
  PROVE  LET q == Attempted(r, f)
         IN /\ q \in RunRecords
            /\ q.rev = r.rev + 1 /\ q.gen = r.gen /\ q.owner = r.owner
            /\ q.moved = r.moved /\ q.adm = r.adm
            /\ q.attempts = r.attempts + 1 /\ q.policies = r.policies \cup {f.policy}
            /\ q.anchor = IF f.anchor = NoAnchor THEN r.anchor ELSE f.anchor
<1> DEFINE rev == r.rev + 1
           attempts == r.attempts + 1
           policies == r.policies \cup {f.policy}
           anchor == IF f.anchor = NoAnchor THEN r.anchor ELSE f.anchor
<1>1. /\ rev \in Nat /\ attempts \in Nat /\ policies \in SUBSET Policies
      /\ anchor \in Anchors \cup {NoAnchor}
  BY DEF RunRecords, Checkpoints
<1>2. Attempted(r, f) = [r EXCEPT !.rev = rev, !.attempts = attempts, !.policies = policies,
                                  !.anchor = anchor]
  BY DEF Attempted, RunRecords
<1> HIDE DEF rev, attempts, policies, anchor
<1>3. Attempted(r, f) \in RunRecords
  BY <1>1, <1>2 DEF RunRecords
<1>4. LET q == Attempted(r, f)
      IN /\ q.rev = rev /\ q.gen = r.gen /\ q.owner = r.owner
         /\ q.moved = r.moved /\ q.adm = r.adm
         /\ q.attempts = attempts /\ q.policies = policies /\ q.anchor = anchor
  BY <1>2 DEF RunRecords
<1> QED BY <1>3, <1>4 DEF rev, attempts, policies, anchor

\* The run with its writer replaced.
Resumed(r) == [r EXCEPT !.rev = @ + 1, !.owner = New, !.gen = @ + 1, !.moved = TRUE]

\* A transfer names the replacement and raises the generation by one.
LEMMA ResumedFacts ==
  ASSUME NEW r \in RunRecords
  PROVE  LET q == Resumed(r)
         IN /\ q \in RunRecords
            /\ q.rev = r.rev + 1 /\ q.gen = r.gen + 1 /\ q.owner = New
            /\ q.moved /\ q.adm = r.adm /\ q.anchor = r.anchor
            /\ q.attempts = r.attempts /\ q.policies = r.policies
<1> DEFINE rev == r.rev + 1
           gen == r.gen + 1
<1>1. rev \in Nat /\ gen \in Nat /\ New \in Writers
  BY DEF RunRecords, Writers
<1>2. Resumed(r) = [r EXCEPT !.rev = rev, !.owner = New, !.gen = gen, !.moved = TRUE]
  BY DEF Resumed, RunRecords
<1> HIDE DEF rev, gen
<1>3. Resumed(r) \in RunRecords
  BY <1>1, <1>2 DEF RunRecords
<1>4. LET q == Resumed(r)
      IN /\ q.rev = rev /\ q.gen = gen /\ q.owner = New
         /\ q.moved /\ q.adm = r.adm /\ q.anchor = r.anchor
         /\ q.attempts = r.attempts /\ q.policies = r.policies
  BY <1>2 DEF RunRecords
<1> QED BY <1>3, <1>4 DEF rev, gen

\* The attempt a checkpoint records is one that the policy, or a renewal, allows.
LEMMA AttemptCounted ==
  ASSUME RecoveryInv, NEW f \in Checkpoints, Allowed(f.policy, run, renewals),
         run' = Attempted(run, f), renewals' = renewals
  PROVE  AttemptsBounded'
<1>1. RecoveryTypeOK /\ AttemptsBounded
  BY DEF RecoveryInv
<1>2. /\ run \in RunRecords /\ run.attempts \in Nat /\ renewals \in Nat
      /\ IsFiniteSet(run.policies) /\ run.policies \subseteq Policies
      /\ f.policy \in Policies /\ f.policy.maxAttempts \in Nat
      /\ \A p \in Policies : p.maxAttempts \in Nat
  BY <1>1, RecoveryAssumption DEF RecoveryTypeOK, RunRecords, Checkpoints
<1>3. /\ run'.attempts = run.attempts + 1
      /\ run'.policies = run.policies \cup {f.policy}
  BY <1>2, AttemptedFacts
<1>4. CASE run.policies \subseteq {f.policy} /\ run.attempts < f.policy.maxAttempts
  <2>1. run'.policies = {f.policy}
    BY <1>3, <1>4
  <2>2. Cardinality(run'.policies) = 1
    BY <2>1, FS_Singleton
  <2>3. run.attempts + 1 <= f.policy.maxAttempts
    BY <1>2, <1>4
  <2> QED BY <1>2, <1>3, <2>1, <2>2, <2>3 DEF AttemptsBounded
<1>5. CASE Spare(run, renewals)
  <2>1. Cardinality(run.policies) \in Nat /\ Cardinality(run.policies) <= renewals
    BY <1>2, <1>5, FS_CardinalityType DEF Spare
  <2>2. \/ Cardinality(run'.policies) = Cardinality(run.policies)
        \/ Cardinality(run'.policies) = Cardinality(run.policies) + 1
    <3> DEFINE old == run.policies
               p == f.policy
    <3>1. Cardinality(old \cup {p}) = IF p \in old THEN Cardinality(old) ELSE Cardinality(old) + 1
      BY <1>2, FS_AddElement
    <3>2. run'.policies = old \cup {p}
      BY <1>3
    <3> HIDE DEF old, p
    <3>3. Cardinality(run'.policies) = Cardinality(old) \/ Cardinality(run'.policies) = Cardinality(old) + 1
      BY <3>1, <3>2
    <3> QED BY <3>3 DEF old
  <2>3. Cardinality(run'.policies) <= 1 + renewals'
    BY <1>2, <2>1, <2>2
  <2>4. \E p \in Policies : run'.attempts <= p.maxAttempts + renewals'
    BY <1>3, <1>5 DEF Spare
  <2>5. renewals' # 0
    BY <1>5 DEF Spare
  <2> QED BY <2>3, <2>4, <2>5 DEF AttemptsBounded
<1> QED BY <1>4, <1>5 DEF Allowed

\* The caller that a landing append wakes.
LEMMA LandedCalls ==
  ASSUME RecoveryInv, NEW f \in flying, LandCall(f), run' \in RunRecords
  PROVE  /\ call' \in [Callers -> CallStates]
         /\ \A d \in Callers :
              \/ call'[d] = call[d]
              \/ /\ d = f.by /\ WaitingCaller(f)
                 /\ \/ call[d].pc = "attempted" /\ call'[d] = IdleCaller
                    \/ call[d].pc = "anchored" /\ call'[d] = GoOnSeeing(call[d], "plan", run')
                    \/ call[d].pc = "resumed" /\ call'[d] = GoOnSeeing(call[d], "verify", run')
<1>1. call \in [Callers -> CallStates]
  BY DEF RecoveryInv, RecoveryTypeOK, CallStates
<1>2. CASE ~WaitingCaller(f)
  BY <1>1, <1>2 DEF LandCall
<1>3. CASE WaitingCaller(f)
  <2>1. f.by \in Callers /\ call[f.by].pc \in {"attempted", "anchored", "resumed"}
    BY <1>3 DEF WaitingCaller
  <2>2. call[f.by].pc \in Acting /\ "plan" \in Acting /\ "verify" \in Acting
    BY <2>1 DEF Acting
  <2>3. call[f.by] \in Actors
    BY <2>1, <2>2, ActorFacts
  <2>4. CASE call[f.by].pc = "attempted" /\ call' = [call EXCEPT ![f.by] = IdleCaller]
    BY <1>1, <1>3, <2>1, <2>4, IdleFacts
  <2>5. ASSUME NEW s, s \in Actors, call' = [call EXCEPT ![f.by] = s]
        PROVE  call' \in [Callers -> CallStates] /\ call'[f.by] = s
               /\ \A d \in Callers : d # f.by => call'[d] = call[d]
    <3>1. s \in CallStates
      BY <2>5 DEF CallStates
    <3> QED BY <1>1, <2>1, <2>5, <3>1
  <2>6. CASE call[f.by].pc = "attempted"
    <3>1. NextPc[call[f.by].pc] = "idle"
      BY <2>6 DEF NextPc
    <3> QED BY <1>3, <2>4, <2>6, <3>1 DEF LandCall, Hold
  <2>7. CASE call[f.by].pc = "anchored"
    <3>1. NextPc[call[f.by].pc] = "plan"
      BY <2>7 DEF NextPc
    <3>2. call' = [call EXCEPT ![f.by].pc = "plan", ![f.by].snap = run']
      BY <1>3, <3>1 DEF LandCall
    <3> DEFINE s == GoOnSeeing(call[f.by], "plan", run')
    <3>3. call' = [call EXCEPT ![f.by] = s]
      BY <1>1, <2>1, <3>2 DEF GoOnSeeing
    <3>4. s \in Actors
      BY <2>2, <2>3, ActorUpdates
    <3>5. /\ call' \in [Callers -> CallStates] /\ call'[f.by] = s
          /\ \A d \in Callers : d # f.by => call'[d] = call[d]
      BY <2>5, <3>3, <3>4
    <3> QED BY <1>3, <2>7, <3>5
  <2>8. CASE call[f.by].pc = "resumed"
    <3>1. NextPc[call[f.by].pc] = "verify"
      BY <2>8 DEF NextPc
    <3>2. call' = [call EXCEPT ![f.by].pc = "verify", ![f.by].snap = run']
      BY <1>3, <3>1 DEF LandCall
    <3> DEFINE s == GoOnSeeing(call[f.by], "verify", run')
    <3>3. call' = [call EXCEPT ![f.by] = s]
      BY <1>1, <2>1, <3>2 DEF GoOnSeeing
    <3>4. s \in Actors
      BY <2>2, <2>3, ActorUpdates
    <3>5. /\ call' \in [Callers -> CallStates] /\ call'[f.by] = s
          /\ \A d \in Callers : d # f.by => call'[d] = call[d]
      BY <2>5, <3>3, <3>4
    <3> QED BY <1>3, <2>8, <3>5
  <2> QED BY <2>1, <2>6, <2>7, <2>8
<1> QED BY <1>2, <1>3

\* A caller that sees the run as it is now, at a step that says no more of it.
LEMMA SeeingFacts ==
  ASSUME NEW s \in Actors, NEW r \in RunRecords, Sound(r), NEW n, NEW pc \in Acting,
         pc \in Plain \/ (pc = "plan" /\ r.anchor # NoAnchor
                            /\ s.opts.gen = r.anchor.from + 1)
  PROVE  CallOK(GoOnSeeing(s, pc, r), r, n)
<1> DEFINE t == GoOnSeeing(s, pc, r)
<1>1. t.pc = pc /\ t.snap = r /\ t.opts = s.opts
  BY ActorUpdates
<1>2. r.rev \in Nat /\ r.gen \in Nat
  BY DEF RunRecords
<1> HIDE DEF t
<1>3. SnapOK(t.snap, r)
  BY <1>1, <1>2 DEF SnapOK
<1>4. OptionsOK(t, r) /\ AttemptOK(t, r, n) /\ OutcomeOK(t, r)
  BY <1>1 DEF Plain, OptionsOK, AttemptOK, OutcomeOK
<1>5. CallOK(t, r, n)
  BY <1>3, <1>4 DEF CallOK
<1> QED BY <1>5 DEF t

\* A checkpoint lands: one attempt more, perhaps the anchor.
LEMMA LandCheckpointKeeps ==
  ASSUME RecoveryInv, NEW f \in flying, LandCall(f), f.kind = "checkpoint"
  PROVE  RecoveryInv'
<1>1. /\ RecoveryTypeOK /\ Sound(run) /\ LinkInv /\ TransferInv /\ TokenInv
      /\ AttemptsBounded /\ RecoveredTruthfully
  BY DEF RecoveryInv
<1>2. f \in Checkpoints /\ FlightOK(f, run, renewals)
  BY FlightFacts
<1>3. /\ run \in RunRecords /\ run.rev \in Nat /\ run.gen \in Nat /\ renewals \in Nat
      /\ run.anchor \in Anchors \cup {NoAnchor}
      /\ \A a \in Anchors : a # NoAnchor /\ a.from \in Nat
      /\ f.anchor \in Anchors \cup {NoAnchor}
  BY <1>1, <1>2, AnchorFacts DEF RecoveryTypeOK, RunRecords, Anchors, Checkpoints
<1>4. /\ run' = Attempted(run, f) /\ flying' = flying \ {f}
      /\ transfers' = transfers + 0 /\ f.rev = run.rev /\ f.gen = run.gen
      /\ UNCHANGED <<artifacts, dispatched, renewals, recovered, starts, foreign>>
  BY DEF LandCall, Lands, Admissible, Applied, Attempted
<1>5. /\ run' \in RunRecords /\ run'.rev = run.rev + 1 /\ run'.gen = run.gen
      /\ run'.owner = run.owner /\ run'.moved = run.moved /\ run'.adm = run.adm
      /\ run'.policies = run.policies \cup {f.policy}
      /\ run'.anchor = IF f.anchor = NoAnchor THEN run.anchor ELSE f.anchor
  BY <1>2, <1>3, <1>4, AttemptedFacts
<1>6. /\ Allowed(f.policy, run, renewals)
      /\ f.anchor # NoAnchor => run.anchor = NoAnchor /\ f.anchor.from = f.gen
  BY <1>2, <1>4 DEF FlightOK
<1>7. Sound(run')
  BY <1>1, <1>3, <1>4, <1>5, <1>6 DEF Sound
<1>8. After(run, renewals, run', renewals')
  BY <1>3, <1>4, <1>5, <1>6 DEF After
<1>9. AttemptsBounded'
  BY <1>2, <1>4, <1>6, AttemptCounted
<1>10. call' \in [Callers -> CallStates]
  BY <1>5, LandedCalls
<1>11. transfers' = transfers
  BY <1>1, <1>4 DEF RecoveryTypeOK
<1>12. RecoveryTypeOK'
  <2>1. IsFiniteSet(run'.policies)
    <3>1. IsFiniteSet(run.policies \cup {f.policy})
      BY <1>1, FS_AddElement DEF RecoveryTypeOK
    <3> QED BY <1>5, <3>1
  <2> QED BY <1>1, <1>4, <1>5, <1>10, <1>11, <2>1 DEF RecoveryTypeOK, CallStates
<1>13. ASSUME NEW d \in Callers, call'[d] # call[d]
       PROVE  CallOK(call'[d], run', renewals') /\ Awaited(f) /\ d = f.by
  <2>1. /\ d = f.by
        /\ \/ call[d].pc = "attempted" /\ call'[d] = IdleCaller
           \/ call[d].pc = "anchored" /\ call'[d] = GoOnSeeing(call[d], "plan", run')
           \/ call[d].pc = "resumed" /\ call'[d] = GoOnSeeing(call[d], "verify", run')
    BY <1>5, <1>13, LandedCalls
  <2>2. Awaited(f) /\ call[d].pc \in {"attempted", "anchored"}
    BY <1>1, <2>1 DEF Awaited, LinkInv
  <2>3. CASE call[d].pc = "attempted"
    BY <2>1, <2>2, <2>3, IdleFacts
  <2>4. CASE call[d].pc = "anchored"
    <3>1. "anchored" \in Acting /\ "plan" \in Acting
      BY DEF Acting
    <3>2. call[d] \in Actors /\ call[d].opts.gen \in Nat
      BY <2>4, <3>1, ActorFacts, ActorUpdates
    <3>3. f.anchor # NoAnchor /\ f.gen + 1 = call[d].opts.gen
      BY <1>1, <2>1, <2>2, <2>4 DEF LinkInv
    <3>4. run'.anchor # NoAnchor /\ call[d].opts.gen = run'.anchor.from + 1
      BY <1>5, <1>6, <3>3
    <3>5. CallOK(GoOnSeeing(call[d], "plan", run'), run', renewals')
      BY <1>5, <1>7, <3>1, <3>2, <3>4, SeeingFacts
    <3> QED BY <2>1, <2>2, <2>4, <3>5
  <2> QED BY <2>2, <2>3, <2>4
<1>14. LinkInv'
  BY <1>4, <1>13, LinkAfter
<1>15. TransferInv'
  BY <1>1, <1>8, <1>11, <1>12, TransferStable
<1>16. TokenInv'
  BY <1>1, <1>4, <1>5 DEF TokenInv
<1>17. RecoveredTruthfully'
  BY <1>1, <1>4 DEF RecoveredTruthfully
<1> QED BY <1>4, <1>7, <1>8, <1>9, <1>12, <1>13, <1>14, <1>15, <1>16, <1>17, StepKeeps

\* The transfer lands: the anchored generation was still the run's, so it is the first.
LEMMA LandResumeKeeps ==
  ASSUME RecoveryInv, NEW f \in flying, LandCall(f), f.kind = "resume"
  PROVE  RecoveryInv'
<1>1. /\ RecoveryTypeOK /\ Sound(run) /\ LinkInv /\ TransferInv /\ TokenInv
      /\ AttemptsBounded /\ RecoveredTruthfully
  BY DEF RecoveryInv
<1>2. FlightOK(f, run, renewals)
  BY FlightFacts
<1>3. /\ run \in RunRecords /\ run.rev \in Nat /\ run.gen \in Nat /\ renewals \in Nat
      /\ run.anchor \in Anchors \cup {NoAnchor} /\ transfers \in Nat
      /\ \A a \in Anchors : a.from \in Nat
  BY <1>1 DEF RecoveryTypeOK, RunRecords, Anchors
<1>4. /\ run' = Resumed(run) /\ flying' = flying \ {f}
      /\ transfers' = transfers + 1 /\ f.gen = run.gen
      /\ UNCHANGED <<artifacts, dispatched, renewals, recovered, starts, foreign>>
  BY DEF LandCall, Lands, Admissible, Applied, Resumed
<1>5. /\ run' \in RunRecords /\ run'.rev = run.rev + 1 /\ run'.gen = run.gen + 1
      /\ run'.owner = New /\ run'.moved /\ run'.adm = run.adm /\ run'.anchor = run.anchor
      /\ run'.attempts = run.attempts /\ run'.policies = run.policies
  BY <1>3, <1>4, ResumedFacts
<1>6. run.anchor # NoAnchor /\ run.gen = run.anchor.from
  BY <1>2, <1>4 DEF FlightOK
<1>7. Sound(run')
  BY <1>3, <1>5, <1>6 DEF Sound
<1>8. After(run, renewals, run', renewals')
  BY <1>3, <1>4, <1>5 DEF After
<1>9. TransferInv'
  <2>1. transfers = 0
    BY <1>1, <1>3, <1>6 DEF TransferInv
  <2> QED BY <1>3, <1>4, <1>5, <1>6, <2>1 DEF TransferInv
<1>10. call' \in [Callers -> CallStates]
  BY <1>5, LandedCalls
<1>11. RecoveryTypeOK'
  BY <1>1, <1>3, <1>4, <1>5, <1>10 DEF RecoveryTypeOK, CallStates
<1>12. AttemptsBounded'
  BY <1>1, <1>3, <1>4, <1>5, <1>11, AttemptsStable
<1>13. ASSUME NEW d \in Callers, call'[d] # call[d]
       PROVE  CallOK(call'[d], run', renewals') /\ call[d].pc \notin {"attempted", "anchored"}
  <2>1. /\ d = f.by /\ WaitingCaller(f)
        /\ \/ call[d].pc = "attempted" /\ call'[d] = IdleCaller
           \/ call[d].pc = "anchored" /\ call'[d] = GoOnSeeing(call[d], "plan", run')
           \/ call[d].pc = "resumed" /\ call'[d] = GoOnSeeing(call[d], "verify", run')
    BY <1>5, <1>13, LandedCalls
  <2>2. call[d].pc = "resumed"
    BY <2>1 DEF WaitingCaller
  <2>3. "resumed" \in Acting /\ "verify" \in Acting /\ "verify" \in Plain
    BY DEF Acting, Plain
  <2>4. call[d] \in Actors
    BY <2>2, <2>3, ActorFacts
  <2>5. CallOK(GoOnSeeing(call[d], "verify", run'), run', renewals')
    BY <1>5, <1>7, <2>3, <2>4, SeeingFacts
  <2> QED BY <2>1, <2>2, <2>5
<1>14. LinkInv'
  BY <1>4, <1>13, LinkAfter
<1>15. TokenInv'
  BY <1>1, <1>4, <1>5 DEF TokenInv
<1>16. RecoveredTruthfully'
  BY <1>1, <1>4 DEF RecoveredTruthfully
<1> QED BY <1>4, <1>7, <1>8, <1>9, <1>11, <1>12, <1>13, <1>14, <1>15, <1>16, StepKeeps

\* An admission or a submission lands: the token goes one step further.
LEMMA LandOperationKeeps ==
  ASSUME RecoveryInv, NEW f \in flying, LandCall(f), f.kind \in {"admit", "submit"}
  PROVE  RecoveryInv'
<1> DEFINE adm == IF f.kind = "admit" THEN "admitted" ELSE "submitted"
           kind == IF f.kind = "admit" THEN "submit" ELSE "dispatch"
           g == [f EXCEPT !.kind = kind, !.rev = run'.rev]
<1>1. /\ RecoveryTypeOK /\ Sound(run) /\ LinkInv /\ TransferInv /\ TokenInv
      /\ AttemptsBounded /\ RecoveredTruthfully
  BY DEF RecoveryInv
<1>2. f \in Moves /\ FlightOK(f, run, renewals)
  BY FlightFacts
<1>3. /\ run \in RunRecords /\ run.rev \in Nat /\ run.gen \in Nat /\ renewals \in Nat
      /\ transfers \in Nat
  BY <1>1 DEF RecoveryTypeOK, RunRecords
<1>4. /\ run' = Recorded(run, adm) /\ flying' = (flying \ {f}) \cup {g}
      /\ transfers' = transfers + 0 /\ f.rev = run.rev
      /\ f.kind = "admit" => run.adm = "none"
      /\ UNCHANGED <<call, artifacts, dispatched, renewals, recovered, starts, foreign>>
  BY DEF LandCall, Lands, Admissible, Applied, Recorded, WaitingCaller
<1>5. /\ run' \in RunRecords /\ Sound(run') /\ run'.rev = run.rev + 1 /\ run'.gen = run.gen
      /\ run'.anchor = run.anchor
      /\ run'.attempts = run.attempts /\ run'.policies = run.policies /\ run'.adm = adm
  BY <1>1, <1>3, <1>4, RecordedFacts
<1>6. run.adm # "confirmed"
  BY <1>2, <1>4 DEF FlightOK
<1>7. After(run, renewals, run', renewals')
  BY <1>3, <1>4, <1>5, <1>6 DEF After
<1>8. g \in Moves /\ g.kind = kind /\ g.rev = run'.rev
  <2> DEFINE rev == run'.rev
  <2>1. rev \in Nat /\ kind \in {"submit", "dispatch"}
    BY <1>5 DEF RunRecords
  <2> HIDE DEF rev, kind
  <2> QED BY <1>2, <2>1 DEF Moves, rev
<1>9. Token(g) /\ ~Awaited(g)
  BY <1>8 DEF Token, Awaited
<1>10. dispatched = 0 /\ \A h \in flying \ {f} : ~Token(h)
  <2>1. CASE f.kind = "admit"
    BY <1>1, <1>4, <2>1 DEF TokenInv
  <2>2. CASE f.kind = "submit"
    BY <1>1, <2>2 DEF TokenInv, Token
  <2> QED BY <2>1, <2>2
<1>11. FlightOK(g, run', renewals')
  <2>1. kind = "submit" => adm = "admitted"
    OBVIOUS
  <2>2. kind \in {"submit", "dispatch"} /\ run'.rev \in Nat
    BY <1>5 DEF RunRecords
  <2> HIDE DEF g, kind, adm
  <2> QED BY <1>5, <1>8, <2>1, <2>2 DEF FlightOK
<1>12. adm # "none"
  OBVIOUS
<1>13. transfers' = transfers
  BY <1>3, <1>4
<1> HIDE DEF g, kind, adm
<1>14. RecoveryTypeOK'
  BY <1>1, <1>4, <1>5, <1>8, <1>13 DEF RecoveryTypeOK
<1>15. TransferInv'
  BY <1>1, <1>7, <1>13, <1>14, TransferStable
<1>16. AttemptsBounded'
  BY <1>1, <1>3, <1>4, <1>5, <1>14, AttemptsStable
<1>17. TokenInv'
  BY <1>4, <1>5, <1>9, <1>10, <1>12 DEF TokenInv
<1>18. LinkInv'
  BY <1>4, <1>9, LinkAfter
<1>19. RecoveredTruthfully'
  BY <1>1, <1>4 DEF RecoveredTruthfully
<1> QED BY <1>4, <1>5, <1>7, <1>11, <1>14, <1>15, <1>16, <1>17, <1>18, <1>19, StepKeeps

\* Whatever the append, its landing keeps the invariant (LandCall).
LEMMA LandKeeps ==
  ASSUME RecoveryInv, NEW f \in flying, LandCall(f)
  PROVE  RecoveryInv'
<1>1. f.kind \in {"checkpoint", "resume", "admit", "submit"}
  BY FlightFacts DEF LandCall
<1> QED BY <1>1, LandCheckpointKeeps, LandResumeKeeps, LandOperationKeeps

\* A caller whose execution returns goes to reconcile, or a caller holds.
LEMMA Woken ==
  ASSUME RecoveryInv, NEW d \in Callers,
         \/ call' = [call EXCEPT ![d] = IdleCaller]
         \/ call[d].pc = "executing" /\ call' = [call EXCEPT ![d] = GoOn(call[d], "reconcile")]
         \/ call' = call
  PROVE  /\ call' \in [Callers -> CallStates]
         /\ CallOK(call'[d], run, renewals)
         /\ \A e \in Callers : e # d => call'[e] = call[e]
<1>1. call \in [Callers -> CallStates] /\ CallOK(call[d], run, renewals)
  BY DEF RecoveryInv, RecoveryTypeOK, CallStates
<1>2. CASE call' = [call EXCEPT ![d] = IdleCaller]
  BY <1>1, <1>2, IdleFacts
<1>3. CASE call[d].pc = "executing" /\ call' = [call EXCEPT ![d] = GoOn(call[d], "reconcile")]
  <2> DEFINE s == GoOn(call[d], "reconcile")
  <2>1. "executing" \in Acting /\ "reconcile" \in Acting
    BY DEF Acting
  <2>2. call[d] \in Actors /\ SnapOK(call[d].snap, run)
    BY <1>3, <2>1, ActorFacts
  <2>3. s \in Actors /\ s.pc = "reconcile" /\ s.snap = call[d].snap
    BY <2>1, <2>2, ActorUpdates
  <2>4. call' = [call EXCEPT ![d] = s]
    BY <1>3
  <2> HIDE DEF s
  <2>5. OptionsOK(s, run) /\ AttemptOK(s, run, renewals) /\ OutcomeOK(s, run)
    BY <2>3 DEF OptionsOK, AttemptOK, OutcomeOK
  <2>6. CallOK(s, run, renewals) /\ s \in CallStates
    BY <2>2, <2>3, <2>5 DEF CallOK, CallStates
  <2> QED BY <1>1, <2>4, <2>6
<1>4. CASE call' = call
  BY <1>1, <1>4
<1> QED BY <1>2, <1>3, <1>4

\* Something leaves the air and may wake the caller that issued it.
LEMMA LeavesAir ==
  ASSUME RecoveryInv, NEW f \in flying, flying' = flying \ {f}, dispatched' \in Nat,
         \/ f.by \in Callers /\ \/ Awaited(f) /\ call' = [call EXCEPT ![f.by] = IdleCaller]
                                \/ /\ call[f.by].pc \notin {"attempted", "anchored"}
                                   /\ call' = [call EXCEPT ![f.by] = IdleCaller]
                                \/ /\ call[f.by].pc = "executing"
                                   /\ call' = [call EXCEPT ![f.by] = GoOn(call[f.by], "reconcile")]
         \/ call' = call,
         TokenInv',
         UNCHANGED <<run, artifacts, transfers, renewals, recovered, starts, foreign>>
  PROVE  RecoveryInv'
<1>1. /\ RecoveryTypeOK /\ Sound(run) /\ TransferInv /\ AttemptsBounded /\ RecoveredTruthfully
  BY DEF RecoveryInv
<1>2. call \in [Callers -> CallStates]
  BY <1>1 DEF RecoveryTypeOK, CallStates
<1>3. /\ call' \in [Callers -> CallStates]
      /\ \A d \in Callers :
           \/ call'[d] = call[d]
           \/ /\ d = f.by /\ CallOK(call'[d], run, renewals)
              /\ Awaited(f) \/ call[d].pc \notin {"attempted", "anchored"}
  <2>1. CASE call' = call
    BY <1>2, <2>1
  <2>2. CASE f.by \in Callers /\ call' # call
    <3>1. /\ call' \in [Callers -> CallStates] /\ CallOK(call'[f.by], run, renewals)
          /\ \A d \in Callers : d # f.by => call'[d] = call[d]
      BY <2>2, Woken
    <3>2. Awaited(f) \/ call[f.by].pc \notin {"attempted", "anchored"}
      BY <2>2
    <3> QED BY <3>1, <3>2
  <2> QED BY <2>1, <2>2
<1>4. RecoveryTypeOK'
  BY <1>1, <1>3 DEF RecoveryTypeOK, CallStates
<1>5. After(run, renewals, run', renewals') /\ Sound(run')
  BY <1>1 DEF After
<1>6. LinkInv'
  BY <1>3, LinkAfter
<1>7. TransferInv' /\ AttemptsBounded' /\ RecoveredTruthfully'
  BY <1>1 DEF TransferInv, AttemptsBounded, RecoveredTruthfully
<1> QED BY <1>3, <1>4, <1>5, <1>6, <1>7, StepKeeps

\* The operation reaches the provider: its token is spent (Dispatch).
LEMMA DispatchKeeps ==
  ASSUME RecoveryInv, NEW f \in flying, Dispatch(f)
  PROVE  RecoveryInv'
<1>1. /\ f.kind = "dispatch" /\ flying' = flying \ {f} /\ dispatched' = dispatched + 1
      /\ UNCHANGED <<run, artifacts, transfers, renewals, recovered, starts, foreign>>
  BY DEF Dispatch
<1>2. TokenInv /\ dispatched \in Nat
  BY DEF RecoveryInv, RecoveryTypeOK
<1>3. Token(f)
  BY <1>1 DEF Token
<1>4. dispatched = 0 /\ run.adm # "none" /\ \A g \in flying \ {f} : ~Token(g)
  BY <1>2, <1>3 DEF TokenInv
<1>5. dispatched' = 1 /\ dispatched' \in Nat
  BY <1>1, <1>4
<1>6. TokenInv'
  BY <1>1, <1>4, <1>5 DEF TokenInv
<1>7. \/ /\ f.by \in Callers /\ call[f.by].pc = "executing"
         /\ call' = [call EXCEPT ![f.by] = GoOn(call[f.by], "reconcile")]
      \/ call' = call
  BY DEF Dispatch, GoOn
<1> QED BY <1>1, <1>5, <1>6, <1>7, LeavesAir

\* An append is refused, or an effect is lost (Refused).
LEMMA RefusedKeeps ==
  ASSUME RecoveryInv, NEW f \in flying, Refused(f)
  PROVE  RecoveryInv'
<1>1. /\ flying' = flying \ {f}
      /\ UNCHANGED <<run, artifacts, dispatched, transfers, renewals, recovered, starts, foreign>>
  BY DEF Refused
<1>2. TokenInv /\ dispatched \in Nat
  BY DEF RecoveryInv, RecoveryTypeOK
<1>3. TokenInv'
  BY <1>1, <1>2 DEF TokenInv
<1>4. \/ WaitingCaller(f) /\ call' = [call EXCEPT ![f.by] = IdleCaller]
      \/ /\ f.by \in Callers /\ call[f.by].pc = "executing"
         /\ call' = [call EXCEPT ![f.by] = GoOn(call[f.by], "reconcile")]
      \/ call' = call
  BY DEF Refused, GoOn
<1>5. WaitingCaller(f) =>
        f.by \in Callers /\ (Awaited(f) \/ call[f.by].pc \notin {"attempted", "anchored"})
  BY DEF WaitingCaller, Awaited
<1> QED BY <1>1, <1>2, <1>3, <1>4, <1>5, LeavesAir

\* What a call issued before it ended stays in the air, and is nobody's.
LEMMA AbandonKeeps ==
  ASSUME RecoveryInv, NEW c \in Callers, AbandonCall(c)
  PROVE  RecoveryInv'
<1> DEFINE orphan(f) == IF f.by = c THEN [f EXCEPT !.by = "nobody"] ELSE f
<1>1. /\ call' = [call EXCEPT ![c] = IdleCaller]
      /\ flying' = {orphan(f) : f \in flying}
      /\ UNCHANGED <<run, artifacts, dispatched, transfers, renewals, recovered, starts, foreign>>
  BY DEF AbandonCall, Hold
<1>2. /\ RecoveryTypeOK /\ Sound(run) /\ LinkInv /\ TransferInv /\ TokenInv
      /\ AttemptsBounded /\ RecoveredTruthfully
  BY DEF RecoveryInv
<1>3. ASSUME NEW f \in flying
      PROVE  /\ orphan(f) \in Checkpoints \cup Moves
             /\ FlightOK(orphan(f), run, renewals)
             /\ Token(orphan(f)) => Token(f)
             /\ Awaited(orphan(f)) => orphan(f) = f /\ f.by # c
  <2>1. f \in Checkpoints \cup Moves /\ FlightOK(f, run, renewals)
    BY FlightFacts
  <2>2. CASE f.by # c
    BY <2>1, <2>2
  <2>3. CASE f.by = c
    <3> DEFINE g == [f EXCEPT !.by = "nobody"]
    <3>1. CASE f \in Checkpoints
      <4>1. /\ g \in Checkpoints /\ g.by = "nobody" /\ g.kind = f.kind /\ g.rev = f.rev
            /\ g.gen = f.gen /\ g.policy = f.policy /\ g.anchor = f.anchor
        BY <3>1 DEF Checkpoints, CallersOrNone
      <4> HIDE DEF g
      <4>2. FlightOK(g, run, renewals)
        BY <2>1, <4>1 DEF FlightOK
      <4>3. ~Awaited(g) /\ (Token(g) => Token(f))
        BY <4>1, RecoveryAssumption DEF Awaited, Token
      <4> QED BY <2>3, <4>1, <4>2, <4>3 DEF g
    <3>2. CASE f \in Moves
      <4>1. /\ g \in Moves /\ g.by = "nobody" /\ g.kind = f.kind /\ g.rev = f.rev
            /\ g.gen = f.gen
        BY <3>2 DEF Moves, CallersOrNone
      <4>2. f.kind # "checkpoint"
        BY <3>2 DEF Moves
      <4> HIDE DEF g
      <4>3. FlightOK(g, run, renewals)
        BY <2>1, <4>1, <4>2 DEF FlightOK
      <4>4. ~Awaited(g) /\ (Token(g) => Token(f))
        BY <4>1, RecoveryAssumption DEF Awaited, Token
      <4> QED BY <2>3, <4>1, <4>3, <4>4 DEF g
    <3> QED BY <2>1, <3>1, <3>2
  <2> QED BY <2>2, <2>3
<1> HIDE DEF orphan
<1>4. call \in [Callers -> CallStates]
  BY <1>2 DEF RecoveryTypeOK, CallStates
<1>5. /\ call' \in [Callers -> CallStates]
      /\ \A d \in Callers : IF d = c THEN call'[d] = IdleCaller ELSE call'[d] = call[d]
  BY <1>1, <1>4, IdleFacts
<1>6. RecoveryTypeOK'
  BY <1>1, <1>2, <1>3, <1>5 DEF RecoveryTypeOK, CallStates
<1>7. After(run, renewals, run', renewals') /\ Sound(run')
  BY <1>1, <1>2 DEF After
<1>8. LinkInv'
  <2>1. ASSUME NEW g \in flying', Awaited(g)
        PROVE  g \in flying /\ g.by \in Callers /\ call'[g.by] = call[g.by]
    BY <1>1, <1>3, <1>5, <2>1 DEF Awaited
  <2>2. \A g \in flying' : Awaited(g) =>
          /\ call'[g.by].pc \in {"attempted", "anchored"}
          /\ call'[g.by].pc = "anchored" =>
               g.anchor # NoAnchor /\ g.gen + 1 = call'[g.by].opts.gen
    BY <1>2, <2>1 DEF LinkInv
  <2>3. \A g, h \in flying' : Awaited(g) /\ Awaited(h) /\ g.by = h.by => g = h
    BY <1>2, <2>1 DEF LinkInv
  <2> QED BY <2>2, <2>3 DEF LinkInv
<1>9. TokenInv'
  <2>1. \A g \in flying' : Token(g) => \E f \in flying : Token(f) /\ g = orphan(f)
    BY <1>1, <1>3
  <2>2. \A g, h \in flying' : Token(g) /\ Token(h) => g = h
    BY <1>2, <2>1 DEF TokenInv
  <2>3. dispatched' # 0 => dispatched' = 1 /\ \A g \in flying' : ~Token(g)
    BY <1>1, <1>2, <2>1 DEF TokenInv
  <2>4. dispatched' # 0 \/ (\E g \in flying' : Token(g)) => run'.adm # "none"
    BY <1>1, <1>2, <2>1 DEF TokenInv
  <2> QED BY <2>2, <2>3, <2>4 DEF TokenInv
<1>10. TransferInv' /\ AttemptsBounded' /\ RecoveredTruthfully'
  BY <1>1, <1>2 DEF TransferInv, AttemptsBounded, RecoveredTruthfully
<1>11. \A d \in Callers : call'[d] = call[d] \/ CallOK(call'[d], run', renewals')
  BY <1>5, IdleFacts
<1>12. \A g \in flying' : FlightOK(g, run', renewals')
  BY <1>1, <1>3
<1> QED BY <1>6, <1>7, <1>8, <1>9, <1>10, <1>11, <1>12, StepKeeps

-----------------------------------------------------------------------------
(* Others act.                                                             *)

\* A revocation, a candidate or a takeover raises the revision (ForeignEvent).
LEMMA ForeignKeeps ==
  ASSUME RecoveryInv, NEW k \in {"revoke", "candidate", "takeover", "edit"}, ForeignEvent(k)
  PROVE  RecoveryInv'
<1> DEFINE rev == run.rev + 1
           epoch == run.epoch + 1
           cand == run.cand + 1
           gen == run.gen + 1
<1>1. /\ UNCHANGED <<call, flying, dispatched, transfers, renewals, recovered, starts>>
      /\ foreign' = foreign + 1
      /\ artifacts' = IF k = "edit" THEN artifacts + 1 ELSE artifacts
  BY DEF ForeignEvent
<1>2. /\ RecoveryTypeOK /\ Sound(run) /\ RecoveredTruthfully
      /\ run \in RunRecords /\ run.rev \in Nat /\ run.gen \in Nat
      /\ run.epoch \in Nat /\ run.cand \in Nat /\ renewals \in Nat
      /\ run.anchor \in Anchors \cup {NoAnchor} /\ \A a \in Anchors : a.from \in Nat
  BY DEF RecoveryInv, RecoveryTypeOK, RunRecords, Anchors
<1>3. run' \in {run, [run EXCEPT !.rev = rev, !.epoch = epoch],
                [run EXCEPT !.rev = rev, !.cand = cand],
                [run EXCEPT !.rev = rev, !.owner = "other", !.gen = gen]}
  BY <1>2 DEF ForeignEvent, RunRecords
<1>4. /\ rev \in Nat /\ epoch \in Nat /\ cand \in Nat /\ gen \in Nat
      /\ rev > run.rev /\ gen > run.gen /\ "other" \in Writers
  BY <1>2 DEF Writers
<1> HIDE DEF rev, epoch, cand, gen
<1>5. run' = run
      \/ /\ run' \in RunRecords /\ run'.rev = rev /\ run'.anchor = run.anchor
         /\ run'.attempts = run.attempts /\ run'.policies = run.policies
         /\ run'.adm = run.adm /\ run'.moved = run.moved
         /\ \/ run'.gen = run.gen /\ run'.owner = run.owner
            \/ run'.gen = gen /\ run'.owner = "other"
  <2>1. CASE run' = [run EXCEPT !.rev = rev, !.epoch = epoch]
    BY <1>2, <1>4, <2>1 DEF RunRecords
  <2>2. CASE run' = [run EXCEPT !.rev = rev, !.cand = cand]
    BY <1>2, <1>4, <2>2 DEF RunRecords
  <2>3. CASE run' = [run EXCEPT !.rev = rev, !.owner = "other", !.gen = gen]
    BY <1>2, <1>4, <2>3 DEF RunRecords
  <2> QED BY <1>3, <2>1, <2>2, <2>3
<1>6. run' \in RunRecords /\ Sound(run') /\ After(run, renewals, run', renewals')
  <2>1. "other" # New
    BY DEF New
  <2>2. Sound(run')
    BY <1>2, <1>4, <1>5, <2>1 DEF Sound
  <2>3. After(run, renewals, run', renewals')
    BY <1>1, <1>2, <1>4, <1>5 DEF After
  <2> QED BY <1>2, <1>5, <2>2, <2>3
<1>7. /\ run'.attempts = run.attempts /\ run'.policies = run.policies /\ run'.adm = run.adm
  BY <1>5
<1>8. RecoveryTypeOK'
  BY <1>1, <1>2, <1>6, <1>7 DEF RecoveryTypeOK
<1>9. RecoveredTruthfully' /\ renewals' >= renewals
  BY <1>1, <1>2 DEF RecoveredTruthfully
<1> QED BY <1>1, <1>6, <1>7, <1>8, <1>9, PlainStep

-----------------------------------------------------------------------------
(* The theorems.                                                           *)

\* The invariant holds when the incident begins.
LEMMA RecoveryStarts == InitRecovery => RecoveryInv
<1> SUFFICES ASSUME InitRecovery PROVE RecoveryInv
  OBVIOUS
<1>1. /\ run.rev = 0 /\ run.owner = Old /\ run.gen = 0 /\ run.attempts = 0
      /\ run.policies = {} /\ run.anchor = NoAnchor /\ run.adm = "none"
      /\ run = [rev |-> 0, owner |-> Old, gen |-> 0, epoch |-> 0, cand |-> 0,
                custody |-> <<0, 0, 0>>, attempts |-> 0, policies |-> {},
                anchor |-> NoAnchor, moved |-> FALSE, adm |-> "none"]
      /\ call = [c \in Callers |-> IdleCaller]
      /\ flying = {} /\ dispatched = 0 /\ transfers = 0 /\ renewals = 0 /\ recovered = {}
      /\ artifacts = 0 /\ starts = 0 /\ foreign = 0
  BY DEF InitRecovery, IdleCaller
<1>2. run \in RunRecords
  <2>1. <<0, 0, 0>> \in Nat \X Nat \X Nat /\ Old \in Writers
    BY DEF Writers
  <2> DEFINE custody == <<0, 0, 0>>
  <2>2. run = [rev |-> 0, owner |-> Old, gen |-> 0, epoch |-> 0, cand |-> 0,
               custody |-> custody, attempts |-> 0, policies |-> {},
               anchor |-> NoAnchor, moved |-> FALSE, adm |-> "none"]
    BY <1>1
  <2>3. custody \in Nat \X Nat \X Nat
    BY <2>1
  <2> HIDE DEF custody
  <2> QED BY <2>1, <2>2, <2>3 DEF RunRecords
<1>3. RecoveryTypeOK
  <2>1. IsFiniteSet({})
    BY FS_EmptySet
  <2> QED BY <1>1, <1>2, <2>1 DEF RecoveryTypeOK
<1>4. Sound(run)
  BY <1>1 DEF Sound, Old, New
<1>5. \A c \in Callers : CallOK(call[c], run, renewals)
  BY <1>1, IdleFacts
<1>6. LinkInv /\ TransferInv /\ TokenInv /\ RecoveredTruthfully
  BY <1>1 DEF LinkInv, TransferInv, TokenInv, RecoveredTruthfully
<1>7. AttemptsBounded
  <2>1. Cardinality({}) = 0
    BY FS_EmptySet
  <2>2. \E p \in Policies : 0 <= p.maxAttempts + 0
    BY RecoveryAssumption
  <2> QED BY <1>1, <2>1, <2>2 DEF AttemptsBounded
<1> QED BY <1>1, <1>3, <1>4, <1>5, <1>6, <1>7 DEF RecoveryInv

\* Every step of every party keeps the invariant.
LEMMA RecoveryKept == RecoveryInv /\ [NextRecovery]_recoveryVars => RecoveryInv'
<1> SUFFICES ASSUME RecoveryInv, [NextRecovery]_recoveryVars PROVE RecoveryInv'
  OBVIOUS
<1>1. CASE UNCHANGED recoveryVars
  <2>1. /\ RecoveryTypeOK' /\ Sound(run') /\ TransferInv' /\ TokenInv' /\ LinkInv'
        /\ AttemptsBounded' /\ RecoveredTruthfully'
    BY <1>1 DEF recoveryVars, RecoveryInv, RecoveryTypeOK, TransferInv, TokenInv, LinkInv,
                AttemptsBounded, RecoveredTruthfully
  <2>2. After(run, renewals, run', renewals') /\ call' = call /\ flying' = flying
    BY <1>1 DEF recoveryVars, After
  <2> QED BY <2>1, <2>2, StepKeeps
<1>2. ASSUME NEW c \in Callers, NEW e \in Failures, NEW p \in Policies, Start(c, e, p)
      PROVE  RecoveryInv'
  BY <1>2, StartKeeps
<1>3. ASSUME NEW c \in Callers,
             \/ readSource(c) \/ inspectRecoveryContext(c) \/ VerifyWriter(c)
             \/ InspectAgain(c) \/ ReadFinal(c) \/ Readback(c) \/ Recovered(c)
      PROVE  RecoveryInv'
  BY <1>3, ReadSourceKeeps, InspectKeeps, VerifyKeeps, InspectAgainKeeps, ReadFinalKeeps,
     ReadbackKeeps, RecoveredKeeps
<1>4. ASSUME NEW c \in Callers,
             ensureCustody(c, "custody", "inspect") \/ ensureCustody(c, "custody2", "inspect2")
      PROVE  RecoveryInv'
  BY <1>4, CustodyKeeps
<1>5. ASSUME NEW c \in Callers, reconcileDelegatedOperation(c) \/ ReconcileOwn(c)
      PROVE  RecoveryInv'
  BY <1>5, SettleKeeps, ReconcileOwnKeeps
<1>6. ASSUME NEW c \in Callers,
             RetryLater(c) \/ PersistAnchor(c) \/ ResumeCall(c) \/ Execute(c)
      PROVE  RecoveryInv'
  BY <1>6, RetryLaterKeeps, PersistAnchorKeeps, ResumeKeeps, ExecuteKeeps
<1>7. ASSUME NEW c \in Callers, AbandonCall(c)
      PROVE  RecoveryInv'
  BY <1>7, AbandonKeeps
<1>8. ASSUME NEW f \in flying, LandCall(f) \/ Dispatch(f) \/ Refused(f)
      PROVE  RecoveryInv'
  BY <1>8, LandKeeps, DispatchKeeps, RefusedKeeps
<1>9. ASSUME NEW k \in {"revoke", "candidate", "takeover", "edit"}, ForeignEvent(k)
      PROVE  RecoveryInv'
  BY <1>9, ForeignKeeps
<1> QED BY <1>1, <1>2, <1>3, <1>4, <1>5, <1>6, <1>7, <1>8, <1>9 DEF NextRecovery

\* The inductive invariant holds in every reachable state.
LEMMA RecoveryInvariant == RecoverySpec => []RecoveryInv
BY RecoveryStarts, RecoveryKept, PTL DEF RecoverySpec

\* However often the recovery of an incident is started, at once or after crashes
\* and timeouts, the operation reaches the provider at most once, the writer is
\* moved at most once, and no attempt is recorded that the policy does not allow
\* or a renewal of custody let through.
THEOREM RecoveryActsOnce == RecoverySpec => []RecoveryBounded
<1>1. RecoveryInv => RecoveryBounded
  BY DEF RecoveryInv, RecoveryTypeOK, TokenInv, TransferInv, RecoveryBounded, ActsOnce
<1> QED BY <1>1, RecoveryInvariant, PTL

\* Success is only ever reported of a run that is then as reported: confirmed, with
\* the replacement its writer, in the anchored generation, under current custody.
THEOREM RecoveryIsTruthful == RecoverySpec => []RecoveredTruthfully
<1>1. RecoveryInv => RecoveredTruthfully
  BY DEF RecoveryInv
<1> QED BY <1>1, RecoveryInvariant, PTL

-----------------------------------------------------------------------------
(* The quota of a seat.                                                    *)

\* The clock, and the switches behind it; every report has a time.
QuotaInv ==
  /\ now \in Nat
  /\ validateQuotaControlPolicyShape(policy)
  /\ observations \in Seq(Ran(observations)) /\ \A o \in Ran(observations) : o.at \in Int
  /\ switches \in Seq(Nat) /\ \A i \in DOMAIN switches : switches[i] <= now

\* A set of numbers has a least one.
LEMMA LeastOf ==
  ASSUME NEW R, IsWellFoundedOn(R, Nat), \A x, y \in Nat : y < x => <<y, x>> \in R,
         NEW T \in SUBSET Nat, T # {}
  PROVE  \E x \in T : \A y \in T : x <= y
<1>1. T \subseteq Nat
  OBVIOUS
<1>2. PICK x \in T : \A y \in T : ~ (<<y, x>> \in R)
  BY <1>1, WFMin
<1>3. \A y \in T : ~ (y < x)
  BY <1>1, <1>2, Zenon
<1>4. \A y \in T : x <= y
  BY <1>1, <1>3
<1> QED BY <1>4

\* For the order of the numbers.
LEMMA Least ==
  ASSUME NEW T \in SUBSET Nat, T # {}
  PROVE  \E x \in T : \A y \in T : x <= y
<1>1. \A x, y \in Nat : y < x => <<y, x>> \in OpToRel(<, Nat)
  BY DEF OpToRel
<1> QED BY <1>1, LeastOf, NatLessThanWellFounded

\* The policy in force, as far as the proofs use it.
LEMMA PolicyInForce ==
  ASSUME QuotaInv
  PROVE  /\ policy.maxAge \in Nat /\ policy.cooldown \in Nat /\ policy.maxSwitches \in 1..10
         /\ \A w : Threshold(w) \in 1..99
<1>1. validateLimits(policy) /\ validateThresholds(policy)
  BY DEF QuotaInv, validateQuotaControlPolicyShape
<1>2. policy.maxAge \in Nat /\ policy.cooldown \in Nat /\ policy.maxSwitches \in 1..10
  <2>1. /\ policy.maxAge \in AgeFloor..AgeCeiling /\ policy.cooldown \in Nat
        /\ policy.maxSwitches \in 1..10
    BY <1>1, Zenon DEF validateLimits
  <2>2. AgeFloor..AgeCeiling \subseteq Nat
    BY DEF AgeFloor, AgeCeiling
  <2> QED BY <2>1, <2>2
<1>3. \A w : Threshold(w) \in 1..99
  BY <1>1 DEF validateThresholds, Threshold
<1> QED BY <1>2, <1>3

\* What a report is classified as.
LEMMA Classified ==
  ASSUME QuotaInv, NEW i \in DOMAIN observations
  PROVE  LET o == observations[i]
             c == classified(i)
         IN /\ c.at \in Int /\ now - c.at \in Nat
            /\ o.source = "provider" /\ o.at <= now => c.at = o.at
            /\ c.health \in {"invalid", "stale", "unavailable", "threshold-crossed", "healthy"}
            /\ c.health = "healthy" =>
                 /\ o.source = "provider" /\ o.mode # "unavailable"
                 /\ now - o.at \in 0..policy.maxAge /\ o.pct \in Threshold(o.window)..100
<1> DEFINE o == observations[i]
           V(health, at, pct) == [subscription |-> o.subscription, window |-> o.window,
                                  health |-> health, at |-> at, pct |-> pct]
           age == now - o.at
           read == IF o.pct \notin 0..100 THEN V("invalid", o.at, -1)
                   ELSE V(IF o.pct < Threshold(o.window) THEN "threshold-crossed"
                          ELSE "healthy", o.at, o.pct)
<1>1. o.at \in Int /\ now \in Nat /\ policy.maxAge \in Nat /\ Threshold(o.window) \in 1..99
  BY PolicyInForce DEF QuotaInv, Ran
<1>2. \A h, a, q : V(h, a, q).health = h /\ V(h, a, q).at = a
  OBVIOUS
<1>3. CASE o.source # "provider" \/ o.at > now
  <2>1. classified(i) = V("invalid", 0, -1)
    BY <1>1, <1>3 DEF classified, classifyQuotaObservation
  <2> HIDE DEF V
  <2> QED BY <1>1, <1>2, <1>3, <2>1
<1>4. CASE o.source = "provider" /\ o.at <= now /\ age > policy.maxAge
  <2>1. classified(i) = V("stale", o.at, -1)
    BY <1>1, <1>4 DEF classified, classifyQuotaObservation
  <2> HIDE DEF V
  <2> QED BY <1>1, <1>2, <1>4, <2>1
<1>5. CASE /\ o.source = "provider" /\ o.at <= now /\ age <= policy.maxAge
           /\ o.mode = "unavailable"
  <2>1. classified(i) = V("unavailable", o.at, o.pct)
    BY <1>1, <1>5 DEF classified, classifyQuotaObservation
  <2> HIDE DEF V
  <2> QED BY <1>1, <1>2, <1>5, <2>1
<1>6. CASE /\ o.source = "provider" /\ o.at <= now /\ age <= policy.maxAge
           /\ o.mode # "unavailable"
  <2>1. classified(i) = read
    BY <1>1, <1>6 DEF classified, classifyQuotaObservation
  <2>2. read.at = o.at /\ read.health \in {"invalid", "threshold-crossed", "healthy"}
    OBVIOUS
  <2>3. read.health = "healthy" => o.pct \in Threshold(o.window)..100
    BY <1>1
  <2> HIDE DEF read
  <2> QED BY <1>1, <1>6, <2>1, <2>2, <2>3
<1> QED BY <1>1, <1>3, <1>4, <1>5, <1>6

\* Among reports there is a newest one, and the policy finds it.
LEMMA NewestIsNewest ==
  ASSUME QuotaInv, NEW items \in SUBSET DOMAIN observations, items # {}
  PROVE  /\ Newest(items) \in items
         /\ \A j \in items : classified(Newest(items)).at >= classified(j).at
<1> DEFINE Age(i) == now - classified(i).at
           Ages == {Age(i) : i \in items}
<1>1. /\ \A i \in items : i \in Nat /\ classified(i).at \in Int /\ now - classified(i).at \in Nat
      /\ now \in Nat
  BY Classified DEF QuotaInv
<1>2. PICK t \in Ages : \A u \in Ages : t <= u
  <2>1. Ages \in SUBSET Nat /\ Ages # {}
    BY <1>1
  <2> HIDE DEF Ages
  <2> QED BY <2>1, Least
<1> DEFINE Young == {i \in items : Age(i) = t}
<1>3. PICK m \in Young : \A i \in Young : m <= i
  <2>1. Young \in SUBSET Nat /\ Young # {}
    BY <1>1
  <2> HIDE DEF Young
  <2> QED BY <2>1, Least
<1>4. m \in items /\ \A j \in items \ {m} : Before(m, j)
  <2> SUFFICES ASSUME NEW j \in items, j # m PROVE Before(m, j)
    OBVIOUS
  <2>1. now - classified(m).at <= now - classified(j).at
    BY <1>2
  <2>2. now - classified(j).at = now - classified(m).at => m <= j
    BY <1>3
  <2> QED BY <1>1, <2>1, <2>2 DEF Before
<1>5. Newest(items) \in items /\ \A j \in items \ {Newest(items)} : Before(Newest(items), j)
  BY <1>4 DEF Newest
<1> QED BY <1>1, <1>5 DEF Before

\* A healthy pool has a report within budget for each of its windows, and no
\* later one for that window.
LEMMA HealthyPool ==
  ASSUME QuotaInv, NEW sub, PoolStatus(sub) = "healthy", NEW w \in Ran(policy.windows)
  PROVE  \E o \in Ran(observations) :
           /\ Shows(o, sub, w)
           /\ \A p \in Ran(observations) :
                p.source = "provider" /\ p.window = w
                /\ p.subscription = o.subscription /\ p.at <= now
                => p.at <= o.at
<1> DEFINE items == WindowItems(sub, w)
           n == Newest(items)
           o == observations[n]
<1>1. items # {} /\ classified(n).health \notin {"invalid", "stale", "unavailable",
                                                 "threshold-crossed"}
  BY DEF PoolStatus
<1>2. items \in SUBSET DOMAIN observations
  BY DEF WindowItems
<1>3. n \in items /\ \A j \in items : classified(n).at >= classified(j).at
  <2> HIDE DEF items
  <2> QED BY <1>1, <1>2, NewestIsNewest
<1>4. o \in Ran(observations) /\ o.subscription = sub /\ o.window = w /\ n \in DOMAIN observations
  BY <1>3 DEF WindowItems, Ran
<1> HIDE DEF items, n
<1>5. classified(n).health = "healthy"
  BY <1>1, <1>4, Classified
<1>6. /\ o.source = "provider" /\ o.mode # "unavailable"
      /\ now - o.at \in 0..policy.maxAge /\ o.pct \in Threshold(w)..100
  BY <1>4, <1>5, Classified
<1>7. classified(n).at = o.at
  <2>1. o.at \in Int /\ now \in Nat /\ policy.maxAge \in Nat
    BY <1>4, PolicyInForce DEF QuotaInv
  <2>2. o.at <= now
    BY <1>6, <2>1
  <2> QED BY <1>4, <1>6, <2>2, Classified
<1>8. ASSUME NEW p \in Ran(observations), p.source = "provider", p.window = w,
             p.subscription = sub, p.at <= now
      PROVE  p.at <= o.at
  <2>1. PICK j \in DOMAIN observations : p = observations[j]
    BY DEF Ran
  <2>2. j \in items
    BY <1>8, <2>1 DEF items, WindowItems, IsQuota
  <2>3. classified(j).at = p.at
    BY <1>8, <2>1, Classified
  <2>4. p.at \in Int /\ o.at \in Int
    BY <1>4 DEF QuotaInv
  <2> QED BY <1>3, <1>7, <2>2, <2>3, <2>4
<1> QED BY <1>4, <1>6, <1>8 DEF Shows

\* The route a seat is sent to belongs to a healthy pool.
LEMMA RouteIsHealthy ==
  ASSUME NEW pools, NEW sub, NEW excluded, NEW maxAge,
         LET route == selectDistributionRoute(AvailabilityOf(pools, sub), excluded, maxAge)
         IN route # NoModel
  PROVE  LET route == selectDistributionRoute(AvailabilityOf(pools, sub), excluded, maxAge)
         IN SubscriptionOf[route] \in DOMAIN pools
            /\ pools[SubscriptionOf[route]].status = "healthy"
<1> DEFINE availability == AvailabilityOf(pools, sub)
           route == selectDistributionRoute(availability, excluded, maxAge)
           records == {a \in availability : a.subscription = SubscriptionOf[route]}
<1>0. route # NoModel
  OBVIOUS
<1>1. Cardinality(records) = 1 /\ \A a \in records : a.status = "healthy"
  <2> HIDE DEF availability
  <2> DEFINE age == IF maxAge \in AgeFloor..AgeCeiling THEN maxAge ELSE DefaultAge
             Records(m) == {a \in availability : a.subscription = SubscriptionOf[m]}
             Eligible(m) ==
               /\ FamilyOf[SubscriptionOf[m]] \notin excluded
               /\ Cardinality(Records(m)) = 1
               /\ \A a \in Records(m) : FreshAvailability(a, age) /\ a.status = "healthy"
             eligible == {i \in DOMAIN RoleOptions : Eligible(RoleOptions[i])}
  <2>1. route = IF eligible = {} THEN NoModel
                ELSE RoleOptions[CHOOSE i \in eligible : \A j \in eligible : i <= j]
    BY DEF selectDistributionRoute
  <2>2. eligible # {}
    <3> HIDE DEF eligible, route
    <3> QED BY <1>0, <2>1
  <2>3. \E i \in eligible : \A j \in eligible : i <= j
    <3>1. DOMAIN RoleOptions \subseteq Nat
      BY DistributionAssumption DEF validateOptions
    <3>2. eligible \in SUBSET Nat
      BY <3>1
    <3> HIDE DEF eligible
    <3> QED BY <2>2, <3>2, Least
  <2>4. PICK i \in eligible : route = RoleOptions[i]
    <3> HIDE DEF eligible, route
    <3> QED BY <2>1, <2>2, <2>3
  <2>5. Eligible(route)
    <3> HIDE DEF route
    <3> QED BY <2>4
  <2> QED BY <2>5
<1>2. records # {}
  BY <1>1, FS_EmptySet
<1> HIDE DEF route
<1>3. PICK a \in availability : a.subscription = SubscriptionOf[route] /\ a.status = "healthy"
  BY <1>1, <1>2
<1>4. PICK s \in DOMAIN pools :
        /\ a.subscription = s
        /\ a.status = IF s # sub /\ pools[s].status = "healthy" THEN "healthy"
                      ELSE "unavailable"
  BY DEF AvailabilityOf
<1> QED BY <1>3, <1>4 DEF route

\* A seat told to work with a model has a healthy pool behind it.
LEMMA ChosenIsHealthy ==
  ASSUME policy.enabled, NEW excluded,
         evaluateSeatQuotaControl(TRUE, FALSE, excluded).selected # NoModel
  PROVE  LET chosen == evaluateSeatQuotaControl(TRUE, FALSE, excluded).selected
         IN PoolStatus(SubscriptionOf[chosen]) = "healthy"
<1> DEFINE pools == evaluateSubscriptionQuotaPools
           sub == SubscriptionOf[current]
           status == IF sub \in DOMAIN pools THEN pools[sub].status ELSE "unknown"
           answer == evaluateSeatQuotaControl(TRUE, FALSE, excluded)
           route == selectDistributionRoute(AvailabilityOf(pools, sub), excluded, policy.maxAge)
<1>1. \A s \in DOMAIN pools : pools[s].status = PoolStatus(s)
  BY DEF evaluateSubscriptionQuotaPools
<1>2. answer = IF ~policy.enabled \/ status = "healthy" THEN Answer("none", current)
               ELSE IF status \in {"unknown", "stale"}
                    THEN Answer("hold-unverified-quota", NoModel)
               ELSE IF MustPark THEN Answer("park-and-checkpoint", NoModel)
               ELSE FallbackOrPark(pools, sub, excluded)
  BY DEF evaluateSeatQuotaControl
<1>3. \A what, model : Answer(what, model).selected = model
  BY DEF Answer
<1>4. CASE answer = Answer("none", current) /\ status = "healthy"
  <2>1. sub \in DOMAIN pools /\ pools[sub].status = "healthy"
    BY <1>4
  <2>2. PoolStatus(sub) = "healthy"
    BY <1>1, <2>1
  <2>3. answer.selected = current
    <3> HIDE DEF answer
    <3> QED BY <1>3, <1>4
  <2> HIDE DEF answer
  <2> QED BY <2>2, <2>3 DEF answer
<1>5. CASE answer = FallbackOrPark(pools, sub, excluded)
  <2> HIDE DEF pools, sub
  <2>1. answer.selected = route /\ route # NoModel
    <3> HIDE DEF route
    <3>1. answer = IF route # NoModel /\ SubscriptionOf[route] # sub
                   THEN Answer("checkpoint-and-fallback", route)
                   ELSE Answer("park-and-checkpoint", NoModel)
      BY <1>5 DEF FallbackOrPark, route
    <3>2. answer.selected # NoModel
      OBVIOUS
    <3> HIDE DEF answer
    <3> QED BY <1>3, <3>1, <3>2
  <2>2. SubscriptionOf[route] \in DOMAIN pools /\ pools[SubscriptionOf[route]].status = "healthy"
    BY <2>1, RouteIsHealthy
  <2> HIDE DEF answer, route
  <2> QED BY <1>1, <2>1, <2>2 DEF answer
<1>6. answer.selected # NoModel
  OBVIOUS
<1> HIDE DEF answer, status
<1> QED BY <1>2, <1>3, <1>4, <1>5, <1>6 DEF answer

\* The clock and the history of switches.
LEMMA QuotaStarts ==
  ASSUME InitQuota
  PROVE  QuotaInv
BY DEF InitQuota, QuotaInv, Ran

\* Reports, switches and time keep it so.
LEMMA QuotaStep ==
  ASSUME QuotaInv, [NextQuota]_quotaVars
  PROVE  QuotaInv'
<1>1. CASE UNCHANGED quotaVars
  BY <1>1 DEF quotaVars, QuotaInv, Ran, validateQuotaControlPolicyShape, validateWindows,
     validateThresholds, validateLimits
<1>2. ASSUME NEW sub \in Subscriptions, NEW w \in Ran(policy.windows), NEW r \in Reports,
             Observe(sub, w, r)
      PROVE  QuotaInv'
  <2> DEFINE o == [subscription |-> sub, window |-> w, source |-> r.source,
                   mode |-> r.mode, pct |-> r.pct, at |-> now + r.skew]
  <2>1. o.at \in Int
    BY ReportAssumption DEF QuotaInv
  <2>2. observations' = Append(observations, o) /\ UNCHANGED <<policy, current, switches, now>>
    BY <1>2 DEF Observe
  <2> HIDE DEF o
  <2>3. observations \in Seq(Ran(observations) \cup {o})
    BY DEF QuotaInv
  <2>4. /\ Ran(observations') = Ran(observations) \cup {o}
        /\ observations' \in Seq(Ran(observations) \cup {o})
    BY <2>2, <2>3 DEF Ran
  <2>5. \A x \in Ran(observations') : x.at \in Int
    BY <2>1, <2>4 DEF QuotaInv
  <2>6. /\ observations' \in Seq(Ran(observations'))
        /\ validateQuotaControlPolicyShape(policy)'
    BY <2>2, <2>4 DEF QuotaInv, validateQuotaControlPolicyShape, validateWindows,
       validateThresholds, validateLimits
  <2> QED BY <2>2, <2>5, <2>6 DEF QuotaInv, Ran
<1>3. ASSUME NEW excluded \in Exclusions, ApplyFallback(excluded)
      PROVE  QuotaInv'
  <2>1. switches' = Append(switches, now) /\ UNCHANGED <<policy, observations, now>>
    BY <1>3 DEF ApplyFallback
  <2>2. switches' \in Seq(Nat) /\ \A i \in DOMAIN switches' : switches'[i] <= now
    BY <2>1 DEF QuotaInv
  <2> QED BY <2>1, <2>2 DEF QuotaInv, Ran, validateQuotaControlPolicyShape, validateWindows,
          validateThresholds, validateLimits
<1>4. CASE Tick
  <2>1. now' = now + 1 /\ UNCHANGED <<policy, observations, switches>>
    BY <1>4 DEF Tick
  <2>2. now' \in Nat /\ \A i \in DOMAIN switches : switches[i] <= now'
    BY <2>1 DEF QuotaInv
  <2> QED BY <2>1, <2>2 DEF QuotaInv, Ran, validateQuotaControlPolicyShape, validateWindows,
          validateThresholds, validateLimits
<1> QED BY <1>1, <1>2, <1>3, <1>4 DEF NextQuota

\* A fallback keeps the cooldown, the number of switches and the budgets apart.
LEMMA FallbackWaits ==
  ASSUME QuotaInv, NEW excluded, ApplyFallback(excluded)
  PROVE  /\ Len(switches') <= policy.maxSwitches
         /\ SubscriptionOf[current'] # SubscriptionOf[current]
         /\ switches # <<>> => now - switches[Len(switches)] >= policy.cooldown
<1> DEFINE pools == evaluateSubscriptionQuotaPools
           sub == SubscriptionOf[current]
           status == IF sub \in DOMAIN pools THEN pools[sub].status ELSE "unknown"
           answer == evaluateSeatQuotaControl(TRUE, FALSE, excluded)
           route == selectDistributionRoute(AvailabilityOf(pools, sub), excluded, policy.maxAge)
<1>1. answer.intervention = "checkpoint-and-fallback" /\ current' = answer.selected
      /\ switches' = Append(switches, now)
  BY DEF ApplyFallback
<1>2. answer = IF ~policy.enabled \/ status = "healthy" THEN Answer("none", current)
               ELSE IF status \in {"unknown", "stale"}
                    THEN Answer("hold-unverified-quota", NoModel)
               ELSE IF MustPark THEN Answer("park-and-checkpoint", NoModel)
               ELSE FallbackOrPark(pools, sub, excluded)
  BY DEF evaluateSeatQuotaControl
<1>3. \A what, model : Answer(what, model).selected = model
                       /\ Answer(what, model).intervention = what
  BY DEF Answer
<1> HIDE DEF answer, status, pools, sub
<1>4. ~MustPark /\ answer = FallbackOrPark(pools, sub, excluded)
  BY <1>1, <1>2, <1>3
<1>5. answer = IF route # NoModel /\ SubscriptionOf[route] # sub
               THEN Answer("checkpoint-and-fallback", route)
               ELSE Answer("park-and-checkpoint", NoModel)
  BY <1>4 DEF FallbackOrPark
<1> HIDE DEF route
<1>6. SubscriptionOf[current'] # SubscriptionOf[current]
  <2>1. SubscriptionOf[route] # sub /\ answer = Answer("checkpoint-and-fallback", route)
    BY <1>1, <1>3, <1>5
  <2> QED BY <1>1, <1>3, <2>1 DEF sub
<1>7. ~(Len(switches) >= policy.maxSwitches) /\ ~inCooldown
  BY <1>4 DEF MustPark
<1>8. /\ switches \in Seq(Nat) /\ now \in Nat
      /\ policy.maxSwitches \in 1..10 /\ policy.cooldown \in Nat
  BY PolicyInForce DEF QuotaInv
<1>9. Len(switches') <= policy.maxSwitches
  BY <1>1, <1>7, <1>8
<1>10. ASSUME switches # <<>> PROVE now - switches[Len(switches)] >= policy.cooldown
  <2>1. Len(switches) \in DOMAIN switches /\ switches[Len(switches)] \in Nat
    BY <1>8, <1>10
  <2>2. switches[Len(switches)] <= now
    BY <2>1 DEF QuotaInv
  <2> QED BY <1>7, <1>8, <1>10, <2>1, <2>2 DEF inCooldown
<1> QED BY <1>6, <1>9, <1>10

\* The clock and the history of switches stay sound.
LEMMA QuotaInvariant == QuotaSpec => []QuotaInv
<1>1. InitQuota => QuotaInv
  BY QuotaStarts
<1>2. QuotaInv /\ [NextQuota]_quotaVars => QuotaInv'
  BY QuotaStep
<1> QED BY <1>1, <1>2, PTL DEF QuotaSpec

\* A seat works with a model only on fresh reports within budget.
THEOREM QuotaIsVerified == QuotaSpec => []VerifiedQuotaOnly
<1>1. QuotaInv => VerifiedQuotaOnly
  <2> SUFFICES ASSUME QuotaInv, policy.enabled, NEW excluded \in Exclusions,
                      evaluateSeatQuotaControl(TRUE, FALSE, excluded).selected # NoModel,
                      NEW w \in Ran(policy.windows)
               PROVE  LET chosen == evaluateSeatQuotaControl(TRUE, FALSE, excluded).selected
                      IN \E o \in Ran(observations) :
                           /\ Shows(o, SubscriptionOf[chosen], w)
                           /\ \A p \in Ran(observations) :
                                p.source = "provider" /\ p.window = w
                                /\ p.subscription = o.subscription /\ p.at <= now
                                => p.at <= o.at
    BY DEF VerifiedQuotaOnly
  <2> DEFINE sub == SubscriptionOf[evaluateSeatQuotaControl(TRUE, FALSE, excluded).selected]
  <2>1. PoolStatus(sub) = "healthy"
    BY ChosenIsHealthy
  <2> HIDE DEF sub
  <2>2. \E o \in Ran(observations) :
          /\ Shows(o, sub, w)
          /\ \A p \in Ran(observations) :
               p.source = "provider" /\ p.window = w
               /\ p.subscription = o.subscription /\ p.at <= now
               => p.at <= o.at
    BY <2>1, HealthyPool
  <2> QED BY <2>2 DEF sub
<1> QED BY <1>1, QuotaInvariant, PTL

\* However reports alternate, the seat does not switch back and forth.
THEOREM SwitchesAreApart == QuotaSpec => SwitchesNeverStorm
<1>1. QuotaInv /\ [NextQuota]_quotaVars =>
        (switches' # switches =>
          /\ Len(switches') <= policy.maxSwitches
          /\ SubscriptionOf[current'] # SubscriptionOf[current]
          /\ switches # <<>> => now - switches[Len(switches)] >= policy.cooldown)
  <2> SUFFICES ASSUME QuotaInv, [NextQuota]_quotaVars, switches' # switches
               PROVE  /\ Len(switches') <= policy.maxSwitches
                      /\ SubscriptionOf[current'] # SubscriptionOf[current]
                      /\ switches # <<>> => now - switches[Len(switches)] >= policy.cooldown
    OBVIOUS
  <2>1. PICK excluded \in Exclusions : ApplyFallback(excluded)
    BY DEF NextQuota, Observe, Tick, quotaVars
  <2> QED BY <2>1, FallbackWaits
<1> QED BY <1>1, QuotaInvariant, PTL DEF QuotaSpec, SwitchesNeverStorm

-----------------------------------------------------------------------------
(* The inductive invariant.                                                *)

IsAgreement(s) ==
  s = [mode |-> s.mode, owner |-> s.owner, dist |-> s.dist, digest |-> s.digest]

\* A file, or none.
IsFile(f) ==
  f = [there |-> f.there, policy |-> f.policy, dist |-> f.dist, steer |-> f.steer]

IsConfiguration(f) ==
  /\ IsFile(f)
  /\ f.there \in BOOLEAN
  /\ ~f.there => f = Missing
  /\ IsAgreement(f.steer)

\* An agreement names its owner if it carries a digest.
Owned(s) == s.digest # <<>> => s.owner # "none"

\* A file whose agreement was confirmed, if it carries a digest.
Vouched(f, digests) ==
  IsConfiguration(f) /\ Owned(f.steer) /\ f.steer.digest \in digests \cup {<<>>}

IsProcess(s) ==
  s = [pc |-> s.pc, kind |-> s.kind, name |-> s.name, before |-> s.before,
       after |-> s.after, rid |-> s.rid]

IsReceipt(r) ==
  r = [kind |-> r.kind, name |-> r.name, before |-> r.before, after |-> r.after,
       status |-> r.status]

IsBackup(b) == b = [by |-> b.by, name |-> b.name, was |-> b.was]

\* A process that works with vouched files, and one of the three if it migrates.
VouchedProcess(s, digests) ==
  /\ IsProcess(s) /\ Vouched(s.before, digests) /\ Vouched(s.after, digests)
  /\ s.pc \in {"backup", "install"} => s.name \in Names

VouchedBackup(b, digests) == IsBackup(b) /\ Vouched(b.was, digests)

VouchedReceipt(r, digests) ==
  IsReceipt(r) /\ Vouched(r.before, digests) /\ Vouched(r.after, digests)

\* A plan to change the agreement is confirmed when it is applied.
VouchedPlan(plan, digests) ==
  /\ plan = [kind |-> plan.kind, name |-> plan.name, before |-> plan.before,
             after |-> plan.after]
  /\ Vouched(plan.before, digests)
  /\ IsConfiguration(plan.after) /\ Owned(plan.after.steer)
  /\ plan.kind = "dist" => Vouched(plan.after, digests)

\* Whatever is in use or may come into use again was confirmed.
FilesVouched(files, digests) ==
  /\ files = [n \in Names |-> files[n]]
  /\ \A n \in Names : Vouched(files[n], digests)

ReceiptsVouched(rs, digests) ==
  /\ rs \in Seq({rs[i] : i \in DOMAIN rs})
  /\ \A i \in DOMAIN rs : VouchedReceipt(rs[i], digests)

ProcsVouched(procs, digests) ==
  /\ procs = [p \in Procs |-> procs[p]]
  /\ \A p \in Procs : VouchedProcess(procs[p], digests)

VouchedInv ==
  /\ FilesVouched(file, confirmed)
  /\ \A b \in bak : VouchedBackup(b, confirmed)
  /\ \A plan \in plans : VouchedPlan(plan, confirmed)
  /\ ReceiptsVouched(receipts, confirmed)
  /\ ProcsVouched(proc, confirmed)

LockedPcs == {"journal", "recheck", "replace", "readback", "applied", "undo", "undone"}

\* Who works on the configuration holds the lock; unless something without a
\* lock came in between, what it is about to replace is what it read.
HeldInv ==
  /\ lock \in Procs \cup {"free", "dead"}
  /\ \A p \in Procs :
       /\ proc[p].pc \in LockedPcs => lock = p
       /\ p \notin interfered =>
            /\ proc[p].pc \in {"journal", "recheck", "replace", "undo"} =>
                 proc[p].name = configuration
            /\ proc[p].pc \in {"replace", "undo"} =>
                 file[proc[p].name] = proc[p].before

\* The backup of one file, if there was one.
BackupOf(p, n, was) ==
  IF was.there THEN {[by |-> p, name |-> n, was |-> was]} ELSE {}

\* Process p, its backups and the files at a step of the migration of domain
\* file d and workflow file w, which must not lose the values in k.
MigrationStep(p, s, mine, files, k, d, w) ==
  /\ s.kind = "migrate" /\ IsConfiguration(d) /\ IsConfiguration(w)
  /\ k.policy \in {d.policy, w.policy} /\ k.dist \in {d.dist, w.dist}
  /\ k.steer \in {d.steer, w.steer}
  /\ \/ /\ s.pc = "backup" /\ s.name = "domain" /\ mine = {}
        /\ files["domain"] = d /\ files["workflow"] = w
     \/ /\ s.pc = "install" /\ s.name = "domain" /\ mine = BackupOf(p, "domain", d)
        /\ files["domain"] = Missing /\ files["workflow"] = w
     \/ /\ s.pc = "backup" /\ s.name = "workflow" /\ mine = BackupOf(p, "domain", d)
        /\ files["workflow"] = w
     \/ /\ s.pc = "install" /\ s.name = "workflow"
        /\ mine = BackupOf(p, "domain", d) \cup BackupOf(p, "workflow", w)
        /\ files["workflow"] = Missing
     \/ s.pc = "unlink"
  \* What is still to be installed, or is.
  /\ LET installed == s.pc = "unlink"
         first == s.name = "domain" /\ ~installed
         x == IF first THEN s.after ELSE files["domain"]
         y == IF first THEN s.before ELSE IF installed THEN files["workflow"] ELSE s.after
     IN x.there = TRUE /\ x.policy = k.policy
        /\ y.there = TRUE /\ y.dist = k.dist /\ y.steer = k.steer

\* A consolidation leaves the two files where they are.
ConsolidationStep(s, mine, files, k) ==
  /\ s.kind = "consolidate" /\ mine = {}
  /\ s.pc \in {"backup", "install"} => s.name = "unified"
  /\ s.pc = "backup" => files["unified"].there = FALSE
  /\ k.policy = files["domain"].policy
  /\ k.dist = files["workflow"].dist /\ k.steer = files["workflow"].steer

MigrationPcs == {"backup", "install", "unlink"}

\* Every value of k is somewhere.
Safe(k, files, baks) ==
  \A f \in {"policy", "dist", "steer"} :
    \/ k[f] = Missing[f]
    \/ \E n \in Names : files[n].there /\ files[n][f] = k[f]
    \/ \E b \in baks : b.was[f] = k[f]

Underway(p, s, mine, files, k) ==
  \/ ConsolidationStep(s, mine, files, k)
  \/ \E d, w : MigrationStep(p, s, mine, files, k, d, w)

\* Until something else writes, the one migration is at one of its steps.
KeptInv ==
  /\ "migrations" \notin disturbances =>
       kept = Missing /\ bak = {} /\ \A p \in Procs : proc[p].pc \notin MigrationPcs
  /\ \A p, q \in Procs :
       proc[p].pc \in MigrationPcs /\ proc[q].pc \in MigrationPcs => p = q
  /\ kept # Missing =>
       /\ Safe(kept, file, bak)
       /\ \A p \in Procs :
            proc[p].pc \in MigrationPcs => Underway(p, proc[p], Mine(p), file, kept)

ChangeInv == VouchedInv /\ HeldInv /\ KeptInv

-----------------------------------------------------------------------------
(* What is confirmed.                                                      *)

\* Confirmed once, confirmed for good.
LEMMA VouchedGrows ==
  ASSUME NEW D, NEW E, D \subseteq E
  PROVE  /\ \A f : Vouched(f, D) => Vouched(f, E)
         /\ \A f : FilesVouched(f, D) => FilesVouched(f, E)
         /\ \A b : VouchedBackup(b, D) => VouchedBackup(b, E)
         /\ \A x : VouchedPlan(x, D) => VouchedPlan(x, E)
         /\ \A r : ReceiptsVouched(r, D) => ReceiptsVouched(r, E)
         /\ \A s : ProcsVouched(s, D) => ProcsVouched(s, E)
<1>1. \A f : Vouched(f, D) => Vouched(f, E)
  BY DEF Vouched
<1> QED
  BY <1>1 DEF FilesVouched, VouchedBackup, VouchedPlan, ReceiptsVouched, VouchedReceipt,
              ProcsVouched, VouchedProcess

\* No file is vouched for, and so is no process that does nothing.
LEMMA IdleVouched ==
  ASSUME NEW D
  PROVE  Vouched(Missing, D) /\ VouchedProcess(Idle, D)
<1>1. Vouched(Missing, D)
  BY DEF Vouched, IsConfiguration, IsFile, IsAgreement, Owned, Missing, NoAgreement
<1>2. IsProcess(Idle) /\ Idle.pc = "idle" /\ Idle.before = Missing /\ Idle.after = Missing
  BY DEF Idle, IsProcess
<1> QED BY <1>1, <1>2 DEF VouchedProcess

\* One process moves.
LEMMA ProcMoves ==
  ASSUME NEW D, NEW procs, ProcsVouched(procs, D), NEW p \in Procs, NEW s, VouchedProcess(s, D)
  PROVE  ProcsVouched([procs EXCEPT ![p] = s], D)
BY DEF ProcsVouched

\* A field of a process, or of a file, changes.
LEMMA ProcessShape ==
  ASSUME NEW s, IsProcess(s), NEW x
  PROVE  /\ IsProcess([s EXCEPT !.pc = x]) /\ IsProcess([s EXCEPT !.name = x])
         /\ IsProcess([s EXCEPT !.after = x]) /\ IsProcess([s EXCEPT !.rid = x])
BY DEF IsProcess

\* What such a change does to each field.
LEMMA ProcessFields ==
  ASSUME NEW s, IsProcess(s), NEW x
  PROVE  /\ LET t == [s EXCEPT !.pc = x]
            IN /\ t.pc = x /\ t.kind = s.kind /\ t.name = s.name /\ t.rid = s.rid
               /\ t.before = s.before /\ t.after = s.after
         /\ LET t == [s EXCEPT !.name = x]
            IN /\ t.pc = s.pc /\ t.kind = s.kind /\ t.name = x /\ t.rid = s.rid
               /\ t.before = s.before /\ t.after = s.after
         /\ LET t == [s EXCEPT !.after = x]
            IN /\ t.pc = s.pc /\ t.kind = s.kind /\ t.name = s.name /\ t.rid = s.rid
               /\ t.before = s.before /\ t.after = x
         /\ LET t == [s EXCEPT !.rid = x]
            IN /\ t.pc = s.pc /\ t.kind = s.kind /\ t.name = s.name /\ t.rid = x
               /\ t.before = s.before /\ t.after = s.after
BY DEF IsProcess

\* A changed file is a file.
LEMMA FileShape ==
  ASSUME NEW f, IsFile(f), NEW x
  PROVE  /\ IsFile([f EXCEPT !.policy = x]) /\ IsFile([f EXCEPT !.dist = x])
         /\ IsFile([f EXCEPT !.steer = x])
BY DEF IsFile

\* What such a change does to each field.
LEMMA FileFields ==
  ASSUME NEW f, IsFile(f), NEW x
  PROVE  /\ LET t == [f EXCEPT !.policy = x]
            IN t.there = f.there /\ t.policy = x /\ t.dist = f.dist /\ t.steer = f.steer
         /\ LET t == [f EXCEPT !.dist = x]
            IN t.there = f.there /\ t.policy = f.policy /\ t.dist = x /\ t.steer = f.steer
         /\ LET t == [f EXCEPT !.steer = x]
            IN t.there = f.there /\ t.policy = f.policy /\ t.dist = f.dist /\ t.steer = x
BY DEF IsFile

\* A process that takes another step of its own.
LEMMA StepVouched ==
  ASSUME NEW D, NEW s, VouchedProcess(s, D), NEW pc, pc \notin {"backup", "install"}
  PROVE  /\ VouchedProcess([s EXCEPT !.pc = pc], D)
         /\ \A n : VouchedProcess([s EXCEPT !.pc = pc, !.name = n], D)
         /\ \A n : VouchedProcess([s EXCEPT !.pc = pc, !.rid = n], D)
<1> DEFINE t == [s EXCEPT !.pc = pc]
<1>1. IsProcess(s)
  BY DEF VouchedProcess
<1>2. IsProcess(t)
  BY <1>1, ProcessShape
<1>3. t.pc = pc /\ t.before = s.before /\ t.after = s.after
  BY <1>1, ProcessFields
<1> HIDE DEF t
<1>4. VouchedProcess(t, D)
  BY <1>2, <1>3 DEF VouchedProcess
<1>5. ASSUME NEW n PROVE VouchedProcess([t EXCEPT !.name = n], D)
  <2> DEFINE u == [t EXCEPT !.name = n]
  <2>1. IsProcess(u)
    BY <1>2, ProcessShape
  <2>2. u.pc = pc /\ u.before = s.before /\ u.after = s.after
    BY <1>2, <1>3, ProcessFields
  <2> HIDE DEF u
  <2> QED BY <2>1, <2>2 DEF VouchedProcess, u
<1>6. ASSUME NEW n PROVE VouchedProcess([t EXCEPT !.rid = n], D)
  <2> DEFINE u == [t EXCEPT !.rid = n]
  <2>1. IsProcess(u)
    BY <1>2, ProcessShape
  <2>2. u.pc = pc /\ u.before = s.before /\ u.after = s.after
    BY <1>2, <1>3, ProcessFields
  <2> HIDE DEF u
  <2> QED BY <2>1, <2>2 DEF VouchedProcess, u
<1> QED BY <1>4, <1>5, <1>6 DEF t

\* A file is replaced.
LEMMA FileMoves ==
  ASSUME NEW D, NEW files, FilesVouched(files, D), NEW n, NEW f, Vouched(f, D)
  PROVE  FilesVouched([files EXCEPT ![n] = f], D)
BY DEF FilesVouched

\* Fields of a file change, the agreement's digest does not.
LEMMA FieldsChange ==
  ASSUME NEW D, NEW f, Vouched(f, D), f.there = TRUE, NEW x
  PROVE  /\ Vouched([f EXCEPT !.dist = x], D)
         /\ Vouched([f EXCEPT !.policy = x], D)
         /\ Vouched([f EXCEPT !.steer.mode = x], D)
         /\ x # "none" => Vouched([f EXCEPT !.steer.owner = x], D)
<1>1. /\ IsFile(f) /\ IsAgreement(f.steer) /\ Owned(f.steer)
      /\ f.steer.digest \in D \cup {<<>>}
  BY DEF Vouched, IsConfiguration
<1>2. \A s : IsAgreement(s) /\ s.digest = f.steer.digest /\ Owned(s)
             => Vouched([f EXCEPT !.steer = s], D)
  <2> TAKE s
  <2> HAVE IsAgreement(s) /\ s.digest = f.steer.digest /\ Owned(s)
  <2> DEFINE g == [f EXCEPT !.steer = s]
  <2>1. IsFile(g)
    BY <1>1, FileShape
  <2>2. g.there = TRUE /\ g.steer = s
    BY <1>1, FileFields
  <2> HIDE DEF g
  <2>3. Vouched(g, D)
    BY <1>1, <2>1, <2>2 DEF Vouched, IsConfiguration
  <2> QED BY <2>3 DEF g
<1>3. Vouched([f EXCEPT !.policy = x], D)
  <2> DEFINE g == [f EXCEPT !.policy = x]
  <2>1. IsFile(g)
    BY <1>1, FileShape
  <2>2. g.there = TRUE /\ g.steer = f.steer
    BY <1>1, FileFields
  <2> HIDE DEF g
  <2>3. Vouched(g, D)
    BY <1>1, <2>1, <2>2 DEF Vouched, IsConfiguration
  <2> QED BY <2>3 DEF g
<1>8. Vouched([f EXCEPT !.dist = x], D)
  <2> DEFINE g == [f EXCEPT !.dist = x]
  <2>1. IsFile(g)
    BY <1>1, FileShape
  <2>2. g.there = TRUE /\ g.steer = f.steer
    BY <1>1, FileFields
  <2> HIDE DEF g
  <2>3. Vouched(g, D)
    BY <1>1, <2>1, <2>2 DEF Vouched, IsConfiguration
  <2> QED BY <2>3 DEF g
<1>4. [f EXCEPT !.steer.mode = x] = [f EXCEPT !.steer = [f.steer EXCEPT !.mode = x]]
  OBVIOUS
<1>5. [f EXCEPT !.steer.owner = x] = [f EXCEPT !.steer = [f.steer EXCEPT !.owner = x]]
  OBVIOUS
<1>6. LET s == [f.steer EXCEPT !.mode = x]
      IN IsAgreement(s) /\ s.digest = f.steer.digest /\ Owned(s)
  BY <1>1 DEF IsAgreement, Owned
<1>7. x # "none" => LET s == [f.steer EXCEPT !.owner = x]
                    IN IsAgreement(s) /\ s.digest = f.steer.digest /\ Owned(s)
  BY <1>1 DEF IsAgreement, Owned
<1> QED BY <1>2, <1>3, <1>8, <1>4, <1>5, <1>6, <1>7

-----------------------------------------------------------------------------
(* What is confirmed: the steps.                                           *)

\* The configuration is one of the files, and what it says of steering comes
\* from it.
LEMMA ConfigurationFile ==
  /\ configuration \in Names
  /\ {"domain", "workflow", "unified"} \subseteq Names
BY DEF configuration, Names

\* A plan is made.
LEMMA PlanAdded ==
  ASSUME VouchedInv, NEW kind, NEW after, addPlan(kind, after),
         IsConfiguration(after), Owned(after.steer),
         kind = "dist" => Vouched(after, confirmed)
  PROVE  VouchedInv'
<1> DEFINE x == [kind |-> kind, name |-> configuration, before |-> file[configuration],
                 after |-> after]
<1>1. x = [kind |-> x.kind, name |-> x.name, before |-> x.before, after |-> x.after]
      /\ x.kind = kind /\ x.before = file[configuration] /\ x.after = after
  OBVIOUS
<1>2. plans' = plans \cup {x} /\ UNCHANGED <<file, bak, receipts, proc, confirmed>>
  BY DEF addPlan, idleVars
<1>3. Vouched(file[configuration], confirmed)
  BY ConfigurationFile DEF VouchedInv, FilesVouched
<1> HIDE DEF x
<1>4. VouchedPlan(x, confirmed)
  BY <1>1, <1>3 DEF VouchedPlan
<1> QED BY <1>2, <1>4 DEF VouchedInv

\* A planned selection leaves the agreement alone.
LEMMA PlanDistributionVouched ==
  ASSUME VouchedInv, NEW sel, planDistributionChange(sel)
  PROVE  VouchedInv'
<1> DEFINE f == file[configuration]
           g == [f EXCEPT !.dist = sel]
<1>1. Vouched(f, confirmed) /\ f.there = TRUE
  BY ConfigurationFile DEF VouchedInv, FilesVouched, planDistributionChange, Vouched,
     IsConfiguration
<1>2. addPlan("dist", g)
  BY DEF planDistributionChange
<1>3. Vouched(g, confirmed)
  BY <1>1, FieldsChange
<1> HIDE DEF g
<1>4. IsConfiguration(g) /\ Owned(g.steer)
  BY <1>3 DEF Vouched
<1> QED BY <1>2, <1>3, <1>4, PlanAdded

\* A planned agreement names an owner; it is confirmed when it is applied.
LEMMA PlanSteeringVouched ==
  ASSUME VouchedInv, NEW mode, NEW owner, planSteeringAgreement(mode, owner)
  PROVE  VouchedInv'
<1> DEFINE f == file[configuration]
           m == resolveMode(mode)
           o == resolveOwner(owner)
           a == [mode |-> m, owner |-> o, dist |-> loadWorkflow.dist,
                 digest |-> computeSteeringParametersDigest(m, o, loadWorkflow.dist)]
           g == [f EXCEPT !.steer = a]
<1>1. Vouched(f, confirmed) /\ f.there = TRUE
  BY ConfigurationFile DEF VouchedInv, FilesVouched, planSteeringAgreement, Vouched,
     IsConfiguration
<1>2. addPlan("steer", g)
  BY DEF planSteeringAgreement, buildConfigWithSteering
<1>3. o # "none"
  BY DEF resolveOwner
<1>4. IsAgreement(a) /\ a.owner # "none"
  BY <1>3 DEF IsAgreement
<1> HIDE DEF a
<1>5. IsFile(g) /\ g.there = TRUE /\ g.steer = a
  <2>1. IsFile(f)
    BY <1>1 DEF Vouched, IsConfiguration
  <2>2. IsFile(g)
    BY <2>1, FileShape
  <2>3. g.there = f.there /\ g.steer = a
    BY <2>1, FileFields
  <2> HIDE DEF f, g
  <2> QED BY <1>1, <2>2, <2>3
<1> HIDE DEF g
<1>6. IsConfiguration(g) /\ Owned(g.steer)
  BY <1>4, <1>5 DEF IsConfiguration, Owned
<1> QED BY <1>2, <1>6, PlanAdded

\* One process moves, and nothing else that is vouched for.
LEMMA OneMoves ==
  ASSUME VouchedInv, NEW p \in Procs, NEW s, VouchedProcess(s, confirmed),
         proc' = [proc EXCEPT ![p] = s],
         UNCHANGED <<file, bak, plans, receipts, confirmed>>
  PROVE  VouchedInv'
BY ProcMoves DEF VouchedInv

\* A process steps on, with what it has.
LEMMA GoVouched ==
  ASSUME VouchedInv, NEW p \in Procs, NEW pc, pc \notin {"backup", "install"}, Go(p, pc)
  PROVE  ProcsVouched(proc', confirmed)
<1>1. VouchedProcess(proc[p], confirmed)
  BY DEF VouchedInv, ProcsVouched
<1>2. proc' = [proc EXCEPT ![p] = [proc[p] EXCEPT !.pc = pc]]
  BY DEF Go
<1> QED BY <1>1, <1>2, StepVouched, ProcMoves DEF VouchedInv

\* A process that stops works with no file.
LEMMA StopVouched ==
  ASSUME VouchedInv, NEW p \in Procs, Stop(p)
  PROVE  ProcsVouched(proc', confirmed)
BY IdleVouched, ProcMoves DEF VouchedInv, Stop

\* What a command takes over from a plan or a receipt.
LEMMA BegunVouched ==
  ASSUME NEW D, NEW pc, pc \notin {"backup", "install"}, NEW kind, NEW name, NEW before,
         NEW after, NEW rid, Vouched(before, D), Vouched(after, D)
  PROVE  /\ VouchedProcess([Idle EXCEPT !.pc = pc, !.kind = kind, !.name = name,
                                        !.before = before, !.after = after], D)
         /\ VouchedProcess([Idle EXCEPT !.pc = pc, !.kind = kind, !.name = name,
                                        !.before = before, !.after = after, !.rid = rid], D)
<1> DEFINE R(a, b, c, d, e, g) == [pc |-> a, kind |-> b, name |-> c, before |-> d,
                                   after |-> e, rid |-> g]
<1>1. \A r : VouchedProcess(R(pc, kind, name, before, after, r), D)
  BY DEF VouchedProcess, IsProcess
<1>3. Idle = R("idle", "none", "none", Missing, Missing, 0)
  BY DEF Idle
<1> HIDE DEF R
<1> DEFINE i1 == [Idle EXCEPT !.pc = pc]
           i2 == [i1 EXCEPT !.kind = kind]
           i3 == [i2 EXCEPT !.name = name]
           i4 == [i3 EXCEPT !.before = before]
           i5 == [i4 EXCEPT !.after = after]
           i6 == [i5 EXCEPT !.rid = rid]
<1>4. /\ i5 = [Idle EXCEPT !.pc = pc, !.kind = kind, !.name = name, !.before = before,
                           !.after = after]
      /\ i6 = [Idle EXCEPT !.pc = pc, !.kind = kind, !.name = name, !.before = before,
                           !.after = after, !.rid = rid]
  OBVIOUS
<1>5. i1 = R(pc, "none", "none", Missing, Missing, 0)
  BY <1>3 DEF R, i1
<1> HIDE DEF i1, i2, i3, i4, i5, i6
<1>7. i2 = R(pc, kind, "none", Missing, Missing, 0)
  BY <1>5 DEF R, i2
<1>8. i3 = R(pc, kind, name, Missing, Missing, 0)
  BY <1>7 DEF R, i3
<1>9. i4 = R(pc, kind, name, before, Missing, 0)
  BY <1>8 DEF R, i4
<1>10. i5 = R(pc, kind, name, before, after, 0)
  BY <1>9 DEF R, i5
<1>11. i6 = R(pc, kind, name, before, after, rid)
  BY <1>10 DEF R, i6
<1> QED BY <1>1, <1>4, <1>10, <1>11

\* The command takes over the files of the plan.
LEMMA BeginDistributionVouched ==
  ASSUME VouchedInv, NEW p \in Procs, NEW plan \in plans, beginDistribution(p, plan)
  PROVE  VouchedInv'
<1> DEFINE s == [Idle EXCEPT !.pc = "journal", !.kind = "dist", !.name = plan.name,
                             !.before = plan.before, !.after = plan.after]
<1>1. Vouched(plan.before, confirmed) /\ Vouched(plan.after, confirmed)
  BY DEF VouchedInv, VouchedPlan, beginDistribution
<1>2. VouchedProcess(s, confirmed)
  BY <1>1, BegunVouched
<1>3. proc' = [proc EXCEPT ![p] = s] /\ UNCHANGED <<file, bak, plans, receipts, confirmed>>
  BY DEF beginDistribution
<1> HIDE DEF s
<1> QED BY <1>2, <1>3, OneMoves

\* The command confirms the agreement of the plan.
LEMMA BeginSteeringVouched ==
  ASSUME VouchedInv, NEW p \in Procs, NEW plan \in plans, beginSteering(p, plan)
  PROVE  VouchedInv'
<1> DEFINE D == confirmed \cup {plan.after.steer.digest}
           s == [Idle EXCEPT !.pc = "inspected", !.kind = "steer", !.name = plan.name,
                             !.before = plan.before, !.after = plan.after]
<1>1. Vouched(plan.before, D) /\ Vouched(plan.after, D)
  BY VouchedGrows DEF VouchedInv, VouchedPlan, Vouched
<1>2. VouchedProcess(s, D)
  BY <1>1, BegunVouched
<1>3. /\ proc' = [proc EXCEPT ![p] = s] /\ confirmed' = D
      /\ UNCHANGED <<file, bak, plans, receipts>>
  BY DEF beginSteering
<1> HIDE DEF s
<1>4. confirmed \subseteq D
  OBVIOUS
<1> HIDE DEF D
<1>5. ProcsVouched(proc, D)
  BY <1>4, VouchedGrows DEF VouchedInv
<1>6. ProcsVouched(proc', D)
  BY <1>2, <1>3, <1>5, ProcMoves
<1>7. FilesVouched(file, D) /\ (\A b \in bak : VouchedBackup(b, D)) /\ ReceiptsVouched(receipts, D)
  BY <1>4, VouchedGrows DEF VouchedInv
<1>8. \A x \in plans : VouchedPlan(x, D)
  BY <1>4, VouchedGrows DEF VouchedInv
<1> QED BY <1>3, <1>6, <1>7, <1>8 DEF VouchedInv

\* Under the lock the command goes on with the same files.
LEMMA LockSteeringVouched ==
  ASSUME VouchedInv, NEW p \in Procs, lockSteering(p)
  PROVE  VouchedInv'
<1>1. UNCHANGED <<file, bak, plans, receipts, confirmed>>
  BY DEF lockSteering, idleVars
<1>2. ProcsVouched(proc', confirmed)
  <2>1. CASE Stop(p)
    BY <2>1, StopVouched
  <2>2. CASE proc' = [proc EXCEPT ![p].pc = "journal", ![p].name = configuration]
    <3> DEFINE s == [proc[p] EXCEPT !.pc = "journal", !.name = configuration]
    <3>1. VouchedProcess(proc[p], confirmed)
      BY DEF VouchedInv, ProcsVouched
    <3>2. VouchedProcess(s, confirmed)
      BY <3>1, StepVouched
    <3>3. proc' = [proc EXCEPT ![p] = s]
      BY <2>2 DEF VouchedInv, ProcsVouched
    <3> HIDE DEF s
    <3> QED BY <3>2, <3>3, ProcMoves DEF VouchedInv
  <2> QED BY <2>1, <2>2 DEF lockSteering
<1> QED BY <1>1, <1>2 DEF VouchedInv

\* A receipt is written, and its status moves on.
LEMMA ReceiptWritten ==
  ASSUME NEW D, NEW rs, ReceiptsVouched(rs, D), NEW r, VouchedReceipt(r, D)
  PROVE  ReceiptsVouched(Append(rs, r), D)
<1> DEFINE E == {rs[i] : i \in DOMAIN rs}
           t == Append(rs, r)
           F == {t[i] : i \in DOMAIN t}
<1>1. rs \in Seq(E)
  BY DEF ReceiptsVouched
<1>2. /\ DOMAIN rs = 1..Len(rs) /\ Len(rs) \in Nat
      /\ DOMAIN t = 1..(Len(rs) + 1) /\ \A i \in 1..Len(rs) : t[i] = rs[i]
      /\ t[Len(rs) + 1] = r /\ t \in Seq(E \cup {r}) /\ Len(t) = Len(rs) + 1
  <2>1. rs \in Seq(E \cup {r})
    <3>1. \A i \in 1..Len(rs) : rs[i] \in E \cup {r}
      BY <1>1
    <3> HIDE DEF E
    <3> QED BY <1>1, <3>1
  <2> HIDE DEF E
  <2> QED BY <1>1, <2>1
<1> HIDE DEF t
<1>3. t \in Seq(F)
  <2>1. \A i \in 1..Len(t) : t[i] \in F
    BY <1>2
  <2> HIDE DEF F, E
  <2> QED BY <1>2, <2>1
<1>4. \A i \in DOMAIN t : VouchedReceipt(t[i], D)
  BY <1>2 DEF ReceiptsVouched
<1> QED BY <1>3, <1>4 DEF ReceiptsVouched, t

\* A receipt changes its status, not its files.
LEMMA ReceiptMoves ==
  ASSUME NEW D, NEW rs, ReceiptsVouched(rs, D), NEW k, NEW x
  PROVE  ReceiptsVouched([rs EXCEPT ![k].status = x], D)
<1> DEFINE E == {rs[i] : i \in DOMAIN rs}
           t == [rs EXCEPT ![k].status = x]
           F == {t[i] : i \in DOMAIN t}
           r == [rs[k] EXCEPT !.status = x]
<1>1. rs \in Seq(E)
  BY DEF ReceiptsVouched
<1>2. /\ DOMAIN t = DOMAIN rs /\ \A i \in DOMAIN rs : t[i] = IF i = k THEN r ELSE rs[i]
      /\ t = [i \in DOMAIN rs |-> t[i]]
  <2> HIDE DEF E, r
  <2>1. t = [rs EXCEPT ![k] = r]
    BY DEF r
  <2> HIDE DEF t
  <2> QED BY <1>1, <2>1
<1>3. k \in DOMAIN rs => VouchedReceipt(r, D)
  <2> SUFFICES ASSUME k \in DOMAIN rs PROVE VouchedReceipt(r, D)
    OBVIOUS
  <2>1. VouchedReceipt(rs[k], D)
    BY DEF ReceiptsVouched
  <2>2. IsReceipt(r) /\ r.before = rs[k].before /\ r.after = rs[k].after
    BY <2>1 DEF VouchedReceipt, IsReceipt
  <2> QED BY <2>1, <2>2 DEF VouchedReceipt
<1> HIDE DEF t, r
<1>4. t \in Seq(F)
  <2>1. \A i \in DOMAIN t : t[i] \in F
    OBVIOUS
  <2>2. DOMAIN t = 1..Len(rs) /\ Len(rs) \in Nat
    BY <1>1, <1>2
  <2> HIDE DEF F, E
  <2> QED BY <1>2, <2>1, <2>2
<1>5. \A i \in DOMAIN t : VouchedReceipt(t[i], D)
  BY <1>2, <1>3 DEF ReceiptsVouched
<1> QED BY <1>4, <1>5 DEF ReceiptsVouched, t

\* The receipt has the files of the process.
LEMMA WriteReceiptVouched ==
  ASSUME VouchedInv, NEW p \in Procs, writeReceipt(p)
  PROVE  VouchedInv'
<1> DEFINE r == [kind |-> proc[p].kind, name |-> proc[p].name, before |-> proc[p].before,
                 after |-> proc[p].after, status |-> "prepared"]
           s == [proc[p] EXCEPT !.pc = "recheck", !.rid = Len(receipts) + 1]
<1>1. VouchedProcess(proc[p], confirmed)
  BY DEF VouchedInv, ProcsVouched
<1>2. VouchedReceipt(r, confirmed)
  BY <1>1 DEF VouchedReceipt, VouchedProcess, IsReceipt
<1>3. receipts' = Append(receipts, r) /\ UNCHANGED <<file, bak, plans, confirmed>>
  BY DEF writeReceipt, idleVars
<1>4. VouchedProcess(s, confirmed)
  BY <1>1, StepVouched
<1>5. proc' = [proc EXCEPT ![p] = s]
  BY DEF writeReceipt, VouchedInv, ProcsVouched
<1> HIDE DEF r, s
<1>6. ReceiptsVouched(receipts', confirmed)
  BY <1>2, <1>3, ReceiptWritten DEF VouchedInv
<1>7. ProcsVouched(proc', confirmed)
  BY <1>4, <1>5, ProcMoves DEF VouchedInv
<1> QED BY <1>3, <1>6, <1>7 DEF VouchedInv

\* Reading changes nothing.
LEMMA RecheckVouched ==
  ASSUME VouchedInv, NEW p \in Procs, recheck(p) \/ readback(p)
  PROVE  VouchedInv'
<1>1. UNCHANGED <<file, bak, plans, receipts, confirmed>>
  BY DEF recheck, readback, idleVars
<1>2. Go(p, "replace") \/ Go(p, "applied") \/ Stop(p)
  BY DEF recheck, readback
<1>3. ProcsVouched(proc', confirmed)
  BY <1>2, GoVouched, StopVouched
<1> QED BY <1>1, <1>3 DEF VouchedInv

\* A vouched file replaces another.
LEMMA ReplaceVouched ==
  ASSUME VouchedInv, NEW p \in Procs, replace(p) \/ undo(p)
  PROVE  VouchedInv'
<1>1. UNCHANGED <<bak, plans, receipts, confirmed>>
  BY DEF replace, undo
<1>2. Go(p, "readback") \/ Go(p, "undone")
  BY DEF replace, undo
<1>3. ProcsVouched(proc', confirmed)
  BY <1>2, GoVouched
<1>4. file' = [file EXCEPT ![proc[p].name] = proc[p].after]
  BY DEF replace, undo
<1>5. Vouched(proc[p].after, confirmed)
  BY DEF VouchedInv, ProcsVouched, VouchedProcess
<1>6. FilesVouched(file', confirmed)
  BY <1>4, <1>5, FileMoves DEF VouchedInv
<1> QED BY <1>1, <1>3, <1>6 DEF VouchedInv

\* The receipt is settled.
LEMMA AppliedVouched ==
  ASSUME VouchedInv, NEW p \in Procs, applied(p) \/ undone(p)
  PROVE  VouchedInv'
<1>1. UNCHANGED <<file, bak, plans, confirmed>> /\ Stop(p)
  BY DEF applied, undone
<1>2. PICK x : receipts' = [receipts EXCEPT ![proc[p].rid].status = x]
  BY DEF applied, undone
<1>3. ReceiptsVouched(receipts', confirmed)
  BY <1>2, ReceiptMoves DEF VouchedInv
<1>4. ProcsVouched(proc', confirmed)
  BY <1>1, StopVouched
<1> QED BY <1>1, <1>3, <1>4 DEF VouchedInv

\* An undo takes over the files of its receipt.
LEMMA BeginUndoVouched ==
  ASSUME VouchedInv, NEW p \in Procs, NEW rid \in DOMAIN receipts, beginUndo(p, rid)
  PROVE  VouchedInv'
<1> DEFINE r == receipts[rid]
           s == [Idle EXCEPT !.pc = "undo", !.kind = "undo", !.name = r.name,
                             !.before = r.after, !.after = r.before, !.rid = rid]
<1>1. Vouched(r.before, confirmed) /\ Vouched(r.after, confirmed)
  BY DEF VouchedInv, ReceiptsVouched, VouchedReceipt
<1>2. VouchedProcess(s, confirmed)
  BY <1>1, BegunVouched
<1>3. proc' = [proc EXCEPT ![p] = s] /\ UNCHANGED <<file, bak, plans, receipts, confirmed>>
  BY DEF beginUndo, idleVars
<1> HIDE DEF s
<1> QED BY <1>2, <1>3, OneMoves

\* A backup goes to nobody with its content.
LEMMA CrashVouched ==
  ASSUME VouchedInv, NEW p \in Procs, crash(p)
  PROVE  VouchedInv'
<1>1. UNCHANGED <<file, plans, receipts, confirmed>> /\ Stop(p)
  BY DEF crash
<1>2. ProcsVouched(proc', confirmed)
  BY <1>1, StopVouched
<1>3. \A b \in bak' : VouchedBackup(b, confirmed)
  <2> SUFFICES ASSUME NEW b \in bak
               PROVE  VouchedBackup(IF b.by = p THEN [b EXCEPT !.by = "dead"] ELSE b, confirmed)
    BY DEF crash
  <2>1. VouchedBackup(b, confirmed)
    BY DEF VouchedInv
  <2> DEFINE c == [b EXCEPT !.by = "dead"]
  <2>2. IsBackup(c) /\ c.was = b.was
    BY <2>1 DEF VouchedBackup, IsBackup
  <2> HIDE DEF c
  <2>3. VouchedBackup(c, confirmed)
    BY <2>1, <2>2 DEF VouchedBackup
  <2> QED BY <2>1, <2>3 DEF c
<1> QED BY <1>1, <1>2, <1>3 DEF VouchedInv

\* A hand edit does not touch the digest.
LEMMA EditVouched ==
  ASSUME VouchedInv, NEW n \in Names, authorEdits(n)
  PROVE  VouchedInv'
<1> DEFINE f == file[n]
<1>1. Vouched(f, confirmed)
  BY DEF VouchedInv, FilesVouched
<1>2. ASSUME NEW g, edit(n, g), f.there = TRUE => Vouched(g, confirmed)
      PROVE  VouchedInv'
  <2>1. f.there = TRUE
    BY <1>1, <1>2 DEF edit, Vouched, IsConfiguration
  <2>2. file' = [file EXCEPT ![n] = g] /\ UNCHANGED <<bak, plans, receipts, proc, confirmed>>
    BY <1>2 DEF edit
  <2>3. FilesVouched(file', confirmed)
    BY <1>2, <2>1, <2>2, FileMoves DEF VouchedInv
  <2> QED BY <2>2, <2>3 DEF VouchedInv
<1>3. f.there = TRUE =>
        /\ \A x : Vouched([f EXCEPT !.policy = x], confirmed)
        /\ \A x : Vouched([f EXCEPT !.steer.mode = x], confirmed)
        /\ Vouched([f EXCEPT !.steer.owner = "dev.build"], confirmed)
  <2> HIDE DEF f
  <2> SUFFICES ASSUME f.there = TRUE
               PROVE  /\ \A x : Vouched([f EXCEPT !.policy = x], confirmed)
                      /\ \A x : Vouched([f EXCEPT !.steer.mode = x], confirmed)
                      /\ Vouched([f EXCEPT !.steer.owner = "dev.build"], confirmed)
    OBVIOUS
  <2>1. \A x : Vouched([f EXCEPT !.policy = x], confirmed)
    BY <1>1, FieldsChange
  <2>2. \A x : Vouched([f EXCEPT !.steer.mode = x], confirmed)
    BY <1>1, FieldsChange
  <2>3. Vouched([f EXCEPT !.steer.owner = "dev.build"], confirmed)
    BY <1>1, FieldsChange
  <2> QED BY <2>1, <2>2, <2>3
<1>4. CASE edit(n, [f EXCEPT !.policy = "lenient"])
  BY <1>2, <1>3, <1>4
<1>5. CASE edit(n, [f EXCEPT !.policy = "human"])
  BY <1>2, <1>3, <1>5
<1>6. ASSUME NEW m \in Modes, edit(n, [f EXCEPT !.steer.mode = m]) PROVE VouchedInv'
  BY <1>2, <1>3, <1>6
<1>7. CASE edit(n, [f EXCEPT !.steer.owner = "dev.build"])
  BY <1>2, <1>3, <1>7
<1> QED BY <1>4, <1>5, <1>6, <1>7 DEF authorEdits

\* The fields a migration moves are those of vouched files.
LEMMA AuthoritiesVouched ==
  ASSUME VouchedInv
  PROVE  /\ Owned(loadWorkflow.steer) /\ IsAgreement(loadWorkflow.steer)
         /\ loadWorkflow.steer.digest \in confirmed \cup {<<>>}
         /\ ~isUnified => loadDomain = file["domain"] /\ loadWorkflow = file["workflow"]
         /\ Vouched(file["domain"], confirmed)
<1>1. \A n \in Names : Vouched(file[n], confirmed)
  BY DEF VouchedInv, FilesVouched
<1>2. Vouched(file["domain"], confirmed) /\ Vouched(file["workflow"], confirmed)
      /\ Vouched(file["unified"], confirmed)
  BY <1>1 DEF Names
<1>3. LET s == file["workflow"].steer
      IN Owned(s) /\ IsAgreement(s) /\ s.digest \in confirmed \cup {<<>>}
  BY <1>2 DEF Vouched, IsConfiguration
<1>4. LET s == file["unified"].steer
      IN Owned(s) /\ IsAgreement(s) /\ s.digest \in confirmed \cup {<<>>}
  BY <1>2 DEF Vouched, IsConfiguration
<1>5. [file["unified"] EXCEPT !.policy = "none"].steer = file["unified"].steer
  <2>1. IsFile(file["unified"])
    BY <1>2 DEF Vouched, IsConfiguration
  <2> QED BY <2>1, FileFields
<1>6. isUnified => loadWorkflow.steer = file["unified"].steer
  BY <1>5 DEF loadWorkflow
<1>7. ~isUnified => loadDomain = file["domain"] /\ loadWorkflow = file["workflow"]
  BY DEF loadWorkflow, loadDomain
<1> QED BY <1>2, <1>3, <1>4, <1>6, <1>7

\* A file put together from fields.
LEMMA NewFile ==
  ASSUME NEW D, NEW rules, NEW dist, NEW steer, IsAgreement(steer), Owned(steer),
         steer.digest \in D \cup {<<>>}
  PROVE  Vouched([there |-> TRUE, policy |-> rules, dist |-> dist, steer |-> steer], D)
<1> DEFINE f == [there |-> TRUE, policy |-> rules, dist |-> dist, steer |-> steer]
<1>1. IsFile(f) /\ f.there = TRUE /\ f.steer = steer
  BY DEF IsFile
<1> HIDE DEF f
<1>2. Vouched(f, D)
  BY <1>1 DEF Vouched, IsConfiguration
<1> QED BY <1>2 DEF f

\* Where there is no agreement there is no digest.
LEMMA NoAgreementVouched ==
  ASSUME NEW D
  PROVE  IsAgreement(NoAgreement) /\ Owned(NoAgreement) /\ NoAgreement.digest \in D \cup {<<>>}
BY DEF IsAgreement, Owned, NoAgreement

\* The files a migration plans.
LEMMA MigrationPlanned ==
  ASSUME VouchedInv, ~isUnified
  PROVE  LET after == planAuthorityMigration
             d == file["domain"]
             w == file["workflow"]
         IN /\ Vouched(after.domain, confirmed) /\ Vouched(after.workflow, confirmed)
            /\ after.domain.there = TRUE /\ after.workflow.there = TRUE
            /\ after.domain.policy \in {d.policy, w.policy}
            /\ after.workflow.dist \in {d.dist, w.dist}
            /\ after.workflow.steer \in {d.steer, w.steer}
<1> DEFINE d == file["domain"]
           w == file["workflow"]
           rules == IF d.policy # "none" THEN d.policy ELSE w.policy
           dist == IF w.dist # "none" THEN w.dist ELSE d.dist
           steer == IF w.steer # NoAgreement THEN w.steer ELSE d.steer
           x == [there |-> TRUE, policy |-> rules, dist |-> "none", steer |-> NoAgreement]
           y == [there |-> TRUE, policy |-> "none", dist |-> dist, steer |-> steer]
<1>1. loadDomain = d /\ loadWorkflow = w
  BY AuthoritiesVouched
<1>2. planAuthorityMigration.domain = x /\ planAuthorityMigration.workflow = y
  BY <1>1 DEF planAuthorityMigration
<1>3. IsAgreement(steer) /\ Owned(steer) /\ steer.digest \in confirmed \cup {<<>>}
  <2>1. IsAgreement(d.steer) /\ Owned(d.steer) /\ d.steer.digest \in confirmed \cup {<<>>}
    BY AuthoritiesVouched DEF Vouched, IsConfiguration
  <2>2. IsAgreement(w.steer) /\ Owned(w.steer) /\ w.steer.digest \in confirmed \cup {<<>>}
    BY <1>1, AuthoritiesVouched
  <2> QED BY <2>1, <2>2
<1>4. Vouched(x, confirmed)
  BY NewFile, NoAgreementVouched
<1>5. Vouched(y, confirmed)
  <2> HIDE DEF dist, steer
  <2> QED BY <1>3, NewFile
<1>6. /\ x.there = TRUE /\ x.policy \in {d.policy, w.policy}
      /\ y.there = TRUE /\ y.dist \in {d.dist, w.dist} /\ y.steer \in {d.steer, w.steer}
  OBVIOUS
<1> HIDE DEF x, y
<1> QED BY <1>2, <1>4, <1>5, <1>6

\* The file a consolidation plans.
LEMMA ConsolidationPlanned ==
  ASSUME VouchedInv
  PROVE  LET after == planAuthorityConsolidation
         IN Vouched(after, confirmed) /\ after.there = TRUE
BY AuthoritiesVouched, NewFile DEF planAuthorityConsolidation

\* A migration begins.
Migrator(kind, name, before, after) ==
  [Idle EXCEPT !.pc = "backup", !.kind = kind, !.name = name, !.before = before,
               !.after = after]

Consolidator(kind, name, after) ==
  [Idle EXCEPT !.pc = "backup", !.kind = kind, !.name = name, !.after = after]

\* What a migration begins with.
LEMMA MigratorBegins ==
  ASSUME NEW kind, NEW name, NEW before, NEW after
  PROVE  /\ Migrator(kind, name, before, after)
            = [pc |-> "backup", kind |-> kind, name |-> name, before |-> before,
               after |-> after, rid |-> 0]
         /\ Consolidator(kind, name, after)
            = [pc |-> "backup", kind |-> kind, name |-> name, before |-> Missing,
               after |-> after, rid |-> 0]
<1> DEFINE i1 == [Idle EXCEPT !.pc = "backup"]
           i2 == [i1 EXCEPT !.kind = kind]
           i3 == [i2 EXCEPT !.name = name]
           i4 == [i3 EXCEPT !.before = before]
           i5 == [i4 EXCEPT !.after = after]
           j5 == [i3 EXCEPT !.after = after]
<1>1. i1 = [pc |-> "backup", kind |-> "none", name |-> "none", before |-> Missing,
            after |-> Missing, rid |-> 0]
  BY DEF Idle
<1>2. Migrator(kind, name, before, after) = i5 /\ Consolidator(kind, name, after) = j5
  BY DEF Migrator, Consolidator
<1> HIDE DEF i1, i2, i3, i4, i5, j5
<1>3. i2 = [pc |-> "backup", kind |-> kind, name |-> "none", before |-> Missing,
            after |-> Missing, rid |-> 0]
  BY <1>1 DEF i2
<1>4. i3 = [pc |-> "backup", kind |-> kind, name |-> name, before |-> Missing,
            after |-> Missing, rid |-> 0]
  BY <1>3 DEF i3
<1>5. i4 = [pc |-> "backup", kind |-> kind, name |-> name, before |-> before,
            after |-> Missing, rid |-> 0]
  BY <1>4 DEF i4
<1>6. i5 = [pc |-> "backup", kind |-> kind, name |-> name, before |-> before,
            after |-> after, rid |-> 0]
  BY <1>5 DEF i5
<1>7. j5 = [pc |-> "backup", kind |-> kind, name |-> name, before |-> Missing,
            after |-> after, rid |-> 0]
  BY <1>4 DEF j5
<1> QED BY <1>2, <1>6, <1>7

\* What the two migrations begin with.
LEMMA MigratorVouched ==
  ASSUME NEW D, NEW kind, NEW name \in Names, NEW before, NEW after,
         Vouched(before, D), Vouched(after, D)
  PROVE  /\ VouchedProcess(Migrator(kind, name, before, after), D)
         /\ VouchedProcess(Consolidator(kind, name, after), D)
<1> DEFINE s(b) == [pc |-> "backup", kind |-> kind, name |-> name, before |-> b,
                    after |-> after, rid |-> 0]
<1>1. \A b : Vouched(b, D) => VouchedProcess(s(b), D)
  BY DEF VouchedProcess, IsProcess
<1>2. Migrator(kind, name, before, after) = s(before)
      /\ Consolidator(kind, name, after) = s(Missing)
  BY MigratorBegins
<1> HIDE DEF s
<1> QED BY <1>1, <1>2, IdleVouched

\* A migration begins with vouched files.
LEMMA BeginMigrationVouched ==
  ASSUME VouchedInv, NEW p \in Procs, beginMigration(p)
  PROVE  VouchedInv'
<1> DEFINE after == planAuthorityMigration
           s == Migrator("migrate", "domain", after.workflow, after.domain)
<1>1. proc' = [proc EXCEPT ![p] = s]
  BY DEF beginMigration, Migrator
<1>2. Vouched(after.domain, confirmed) /\ Vouched(after.workflow, confirmed)
  BY MigrationPlanned DEF beginMigration
<1>3. "domain" \in Names
  BY DEF Names
<1> HIDE DEF after
<1>4. VouchedProcess(s, confirmed)
  BY <1>2, <1>3, MigratorVouched
<1>5. UNCHANGED <<file, bak, plans, receipts, confirmed>>
  BY DEF beginMigration
<1> HIDE DEF s
<1> QED BY <1>1, <1>4, <1>5, OneMoves

\* And so does a consolidation.
LEMMA BeginConsolidationVouched ==
  ASSUME VouchedInv, NEW p \in Procs, beginConsolidation(p)
  PROVE  VouchedInv'
<1> DEFINE after == planAuthorityConsolidation
           s == Consolidator("consolidate", "unified", after)
<1>1. proc' = [proc EXCEPT ![p] = s]
  BY DEF beginConsolidation, Consolidator
<1>2. Vouched(after, confirmed)
  BY ConsolidationPlanned
<1>3. "unified" \in Names
  BY DEF Names
<1> HIDE DEF after
<1>4. VouchedProcess(s, confirmed)
  BY <1>2, <1>3, MigratorVouched
<1>5. UNCHANGED <<file, bak, plans, receipts, confirmed>>
  BY DEF beginConsolidation
<1> HIDE DEF s
<1> QED BY <1>1, <1>4, <1>5, OneMoves

\* A backup is a file that was in use.
LEMMA BackupVouched ==
  ASSUME VouchedInv, NEW p \in Procs, backup(p)
  PROVE  VouchedInv'
<1> DEFINE n == proc[p].name
           b == [by |-> p, name |-> n, was |-> file[n]]
           t == [proc[p] EXCEPT !.pc = "install"]
<1>1. VouchedProcess(proc[p], confirmed) /\ n \in Names
  BY DEF VouchedInv, ProcsVouched, VouchedProcess, backup, At
<1>2. VouchedBackup(b, confirmed)
  <2>1. Vouched(file[n], confirmed)
    BY <1>1 DEF VouchedInv, FilesVouched
  <2>2. IsBackup(b) /\ b.was = file[n]
    BY DEF IsBackup
  <2> QED BY <2>1, <2>2 DEF VouchedBackup
<1>3. bak' \subseteq bak \cup {b} /\ file' = [file EXCEPT ![n] = Missing]
      /\ UNCHANGED <<plans, receipts, confirmed>>
  BY DEF backup
<1>4. VouchedProcess(t, confirmed)
  <2>1. IsProcess(proc[p])
    BY <1>1 DEF VouchedProcess
  <2>2. IsProcess(t)
    BY <2>1, ProcessShape
  <2>3. t.name = n /\ t.before = proc[p].before /\ t.after = proc[p].after
    BY <2>1, ProcessFields
  <2> HIDE DEF t
  <2> QED BY <1>1, <2>2, <2>3 DEF VouchedProcess
<1>5. proc' = [proc EXCEPT ![p] = t]
  BY DEF backup, Go
<1> HIDE DEF t, b
<1>6. ProcsVouched(proc', confirmed)
  BY <1>4, <1>5, ProcMoves DEF VouchedInv
<1>7. FilesVouched(file', confirmed)
  BY <1>3, FileMoves, IdleVouched DEF VouchedInv
<1>8. \A c \in bak' : VouchedBackup(c, confirmed)
  BY <1>2, <1>3 DEF VouchedInv
<1> QED BY <1>3, <1>6, <1>7, <1>8 DEF VouchedInv

\* What install makes of the process.
Installed(s) ==
  IF s.kind = "migrate" /\ s.name = "domain"
  THEN [s EXCEPT !.pc = "backup", !.name = "workflow", !.after = s.before]
  ELSE [s EXCEPT !.pc = "unlink"]

\* Where a process is after it has installed a file.
LEMMA InstalledFields ==
  ASSUME NEW s, IsProcess(s)
  PROVE  LET t == Installed(s) IN
         /\ IsProcess(t) /\ t.kind = s.kind /\ t.before = s.before
         /\ IF s.kind = "migrate" /\ s.name = "domain"
            THEN t.pc = "backup" /\ t.name = "workflow" /\ t.after = s.before
            ELSE t.pc = "unlink" /\ t.name = s.name /\ t.after = s.after
<1> DEFINE a == [s EXCEPT !.pc = "backup"]
           b == [a EXCEPT !.name = "workflow"]
           c == [b EXCEPT !.after = s.before]
           d == [s EXCEPT !.pc = "unlink"]
<1>1. Installed(s) = IF s.kind = "migrate" /\ s.name = "domain" THEN c ELSE d
  BY DEF Installed
<1>2. IsProcess(d)
  BY ProcessShape
<1>3. d.kind = s.kind /\ d.before = s.before /\ d.pc = "unlink" /\ d.name = s.name
      /\ d.after = s.after
  BY ProcessFields
<1>4. IsProcess(a)
  BY ProcessShape
<1>5. a.kind = s.kind /\ a.before = s.before /\ a.pc = "backup"
  BY ProcessFields
<1> HIDE DEF a, d
<1>6. IsProcess(b)
  BY <1>4, ProcessShape
<1>7. b.kind = s.kind /\ b.before = s.before /\ b.pc = "backup" /\ b.name = "workflow"
  BY <1>4, <1>5, ProcessFields
<1> HIDE DEF b
<1>8. IsProcess(c)
  BY <1>6, ProcessShape
<1>9. c.kind = s.kind /\ c.before = s.before /\ c.pc = "backup" /\ c.name = "workflow"
      /\ c.after = s.before
  BY <1>6, <1>7, ProcessFields
<1> HIDE DEF c
<1> QED BY <1>1, <1>2, <1>3, <1>8, <1>9

\* What is installed was planned.
LEMMA InstallVouched ==
  ASSUME VouchedInv, NEW p \in Procs, install(p)
  PROVE  VouchedInv'
<1>1. VouchedProcess(proc[p], confirmed)
  BY DEF VouchedInv, ProcsVouched
<1>2. VouchedProcess(Installed(proc[p]), confirmed)
  <2> DEFINE t == Installed(proc[p])
  <2>1. IsProcess(t) /\ t.before = proc[p].before /\ t.after \in {proc[p].before, proc[p].after}
        /\ (t.pc \in {"backup", "install"} => t.name = "workflow")
    BY <1>1, InstalledFields DEF VouchedProcess
  <2> HIDE DEF t
  <2>2. VouchedProcess(t, confirmed)
    BY <1>1, <2>1 DEF VouchedProcess, Names
  <2> QED BY <2>2 DEF t
<1>3. proc' = [proc EXCEPT ![p] = Installed(proc[p])]
  BY DEF install, Installed, VouchedInv, ProcsVouched
<1>4. ProcsVouched(proc', confirmed)
  BY <1>2, <1>3, ProcMoves DEF VouchedInv
<1>5. file' = [file EXCEPT ![proc[p].name] = proc[p].after]
      /\ UNCHANGED <<bak, plans, receipts, confirmed>>
  BY DEF install
<1>6. FilesVouched(file', confirmed)
  BY <1>1, <1>5, FileMoves DEF VouchedInv, VouchedProcess
<1> QED BY <1>4, <1>5, <1>6 DEF VouchedInv

\* What comes back was in use.
LEMMA RollbackVouched ==
  ASSUME VouchedInv, NEW p \in Procs, rollback(p)
  PROVE  VouchedInv'
<1>1. bak' \subseteq bak /\ UNCHANGED <<plans, receipts, confirmed>> /\ Stop(p)
  BY DEF rollback
<1>2. ProcsVouched(proc', confirmed)
  BY <1>1, StopVouched
<1>3. FilesVouched(file', confirmed)
  <2>1. file' = [n \in Names |-> file'[n]]
    BY DEF rollback
  <2>2. ASSUME NEW n \in Names PROVE Vouched(file'[n], confirmed)
    <3>1. CASE \E b \in Mine(p) : b.name = n
      <4> DEFINE c == CHOOSE b \in Mine(p) : b.name = n
      <4>1. c \in bak
        BY <3>1 DEF Mine
      <4>2. file'[n] = c.was
        BY <3>1 DEF rollback
      <4> HIDE DEF c
      <4> QED BY <4>1, <4>2 DEF VouchedInv, VouchedBackup
    <3>2. CASE ~(\E b \in Mine(p) : b.name = n)
      <4>1. file'[n] = Missing \/ file'[n] = file[n]
        BY <3>2 DEF rollback
      <4> QED BY <4>1, IdleVouched DEF VouchedInv, FilesVouched
    <3> QED BY <3>1, <3>2
  <2> QED BY <2>1, <2>2 DEF FilesVouched
<1> QED BY <1>1, <1>2, <1>3 DEF VouchedInv

\* Fewer backups stay.
LEMMA UnlinkVouched ==
  ASSUME VouchedInv, NEW p \in Procs, unlinkBackups(p)
  PROVE  VouchedInv'
<1>1. bak' \subseteq bak /\ UNCHANGED <<file, plans, receipts, confirmed>> /\ Stop(p)
  BY DEF unlinkBackups
<1>2. ProcsVouched(proc', confirmed)
  BY <1>1, StopVouched
<1> QED BY <1>1, <1>2 DEF VouchedInv

\* Whatever happens, an agreement that may come into force was confirmed.
LEMMA VouchedStep ==
  ASSUME VouchedInv, [NextConfig]_configVars
  PROVE  VouchedInv'
<1>1. CASE UNCHANGED configVars
  BY <1>1 DEF configVars, VouchedInv
<1>2. CASE reclaim
  BY <1>2 DEF reclaim, idleVars, VouchedInv
<1>3. ASSUME NEW p \in Procs, Step(p) PROVE VouchedInv'
  BY <1>3, BeginDistributionVouched, BeginSteeringVouched, LockSteeringVouched,
     WriteReceiptVouched, RecheckVouched, ReplaceVouched, AppliedVouched, BeginUndoVouched,
     BeginMigrationVouched, BeginConsolidationVouched, BackupVouched, InstallVouched,
     RollbackVouched, UnlinkVouched, CrashVouched DEF Step
<1> QED BY <1>1, <1>2, <1>3, PlanDistributionVouched, PlanSteeringVouched, EditVouched
    DEF NextConfig

\* A project starts without a digest.
LEMMA VouchedStarts ==
  ASSUME ConfigAssumption, InitConfig
  PROVE  VouchedInv
<1>1. FilesVouched(file, confirmed)
  <2> DEFINE Saved == [there : {TRUE}, policy : {"human", "lenient", "none"},
                       dist : Selections \cup {"none"}, steer : Unconfirmed]
  <2>1. file \in [Names -> {Missing} \cup Saved]
    BY DEF InitConfig, ConfigAssumption
  <2>2. \A f \in Saved : Vouched(f, confirmed)
    <3> SUFFICES ASSUME NEW f \in Saved PROVE Vouched(f, confirmed)
      OBVIOUS
    <3>1. f.steer \in Unconfirmed
      OBVIOUS
    <3>2. IsAgreement(f.steer) /\ f.steer.digest = <<>>
      BY <3>1 DEF Unconfirmed, IsAgreement
    <3>3. IsFile(f) /\ f.there = TRUE
      BY DEF IsFile
    <3> HIDE DEF Saved
    <3> QED BY <3>2, <3>3 DEF Vouched, IsConfiguration, Owned
  <2> HIDE DEF Saved
  <2> QED BY <2>1, <2>2, IdleVouched DEF FilesVouched
<1>2. ReceiptsVouched(<<>>, confirmed)
  BY DEF ReceiptsVouched
<1>3. ProcsVouched(proc, confirmed)
  BY IdleVouched DEF InitConfig, ProcsVouched
<1> QED BY <1>1, <1>2, <1>3 DEF InitConfig, VouchedInv

-----------------------------------------------------------------------------
(* The lock, and who meets a write without it.                             *)

\* What a process under the lock rests on.
Rests(s, files, name) ==
  /\ s.pc \in {"journal", "recheck", "replace", "undo"} => s.name = name
  /\ s.pc \in {"replace", "undo"} => files[s.name] = s.before

\* The invariant, by what each process rests on ...
LEMMA HeldRests ==
  HeldInv <=> /\ lock \in Procs \cup {"free", "dead"}
              /\ \A p \in Procs :
                   /\ proc[p].pc \in LockedPcs => lock = p
                   /\ p \notin interfered => Rests(proc[p], file, configuration)
BY DEF HeldInv, Rests

\* ... and after a step.
LEMMA HeldRestsNext ==
  HeldInv' <=> /\ lock' \in Procs \cup {"free", "dead"}
               /\ \A p \in Procs :
                    /\ proc'[p].pc \in LockedPcs => lock' = p
                    /\ p \notin interfered' => Rests(proc'[p], file', configuration')
BY DEF HeldInv, Rests

\* Somebody who does not work under the lock rests on nothing.
LEMMA RestsOnNothing ==
  ASSUME NEW s, s.pc \notin {"journal", "recheck", "replace", "undo"}
  PROVE  \A files, name : Rests(s, files, name)
BY DEF Rests

\* One process moves, takes the lock or gives it back; no file changes.
LEMMA HeldOne ==
  ASSUME ConfigAssumption, VouchedInv, HeldInv, NEW p \in Procs, NEW s,
         proc' = [proc EXCEPT ![p] = s], UNCHANGED file,
         \/ lock' = lock
         \/ lock = "free" /\ lock' = p
         \/ lock = p /\ lock' \in {"free", "dead"},
         s.pc \in LockedPcs => lock' = p,
         \A q \in Procs : q # p /\ q \notin interfered' => q \notin interfered,
         p \notin interfered' => Rests(s, file, configuration)
  PROVE  HeldInv'
<1>1. proc'[p] = s /\ \A q \in Procs : q # p => proc'[q] = proc[q]
  BY DEF VouchedInv, ProcsVouched
<1>2. configuration' = configuration
  BY DEF configuration, isUnified
<1>3. p \notin {"free", "dead"}
  BY DEF ConfigAssumption
<1>4. lock' \in Procs \cup {"free", "dead"}
  BY HeldRests
<1>5. ASSUME NEW q \in Procs, proc'[q].pc \in LockedPcs PROVE lock' = q
  <2>1. CASE q = p
    BY <1>1, <1>5, <2>1
  <2>2. CASE q # p
    <3>1. lock = q
      BY <1>1, <1>5, <2>2, HeldRests
    <3>2. q \notin {"free", "dead"}
      BY DEF ConfigAssumption
    <3> QED BY <2>2, <3>1, <3>2
  <2> QED BY <2>1, <2>2
<1>6. ASSUME NEW q \in Procs, q \notin interfered' PROVE Rests(proc'[q], file', configuration')
  <2>1. CASE q = p
    BY <1>1, <1>2, <1>6, <2>1
  <2>2. CASE q # p
    BY <1>1, <1>2, <1>6, <2>2, HeldRests
  <2> QED BY <2>1, <2>2
<1> QED BY <1>4, <1>5, <1>6, HeldRestsNext

\* A write without the lock: everybody under way has met it.
LEMMA HeldDisturbed ==
  ASSUME VouchedInv, HeldInv, NEW p \in Procs, NEW s, proc' = [proc EXCEPT ![p] = s],
         s.pc \notin LockedPcs, Interfere, UNCHANGED lock
  PROVE  HeldInv'
<1>1. proc'[p] = s /\ \A q \in Procs : q # p => proc'[q] = proc[q]
  BY DEF VouchedInv, ProcsVouched
<1>2. lock' \in Procs \cup {"free", "dead"}
  BY HeldRests
<1>3. \A q \in Procs : proc'[q].pc \in LockedPcs => lock' = q
  BY <1>1, HeldRests
<1>4. ASSUME NEW q \in Procs, q \notin interfered' PROVE Rests(proc'[q], file', configuration')
  <2>1. CASE q = p
    <3>1. s.pc \notin {"journal", "recheck", "replace", "undo"}
      BY DEF LockedPcs
    <3> QED BY <1>1, <2>1, <3>1, RestsOnNothing
  <2>2. CASE q # p
    <3>1. proc[q].pc = "idle"
      BY <1>4 DEF Interfere, At
    <3> QED BY <1>1, <2>2, <3>1, RestsOnNothing
  <2> QED BY <2>1, <2>2
<1> QED BY <1>2, <1>3, <1>4, HeldRestsNext

\* Where nothing of it moves.
LEMMA HeldUnmoved ==
  ASSUME HeldInv, UNCHANGED <<file, proc, interfered>>,
         lock' = lock \/ (lock = "dead" /\ lock' = "free"), ConfigAssumption
  PROVE  HeldInv'
<1>1. configuration' = configuration
  BY DEF configuration, isUnified
<1>2. ASSUME NEW q \in Procs, proc[q].pc \in LockedPcs PROVE lock' = q
  BY <1>2, HeldRests DEF ConfigAssumption
<1> QED BY <1>1, <1>2, HeldRests, HeldRestsNext

\* What a new command rests on.
LEMMA BegunFields ==
  ASSUME NEW pc, NEW kind, NEW name, NEW before, NEW after, NEW rid
  PROVE  /\ LET s == [Idle EXCEPT !.pc = pc, !.kind = kind, !.name = name,
                                  !.before = before, !.after = after]
            IN s.pc = pc /\ s.name = name /\ s.before = before
         /\ LET s == [Idle EXCEPT !.pc = pc, !.kind = kind, !.name = name,
                                  !.before = before, !.after = after, !.rid = rid]
            IN s.pc = pc /\ s.name = name /\ s.before = before
<1>1. LET s == [Idle EXCEPT !.pc = pc, !.kind = kind, !.name = name,
                            !.before = before, !.after = after]
      IN s.pc = pc /\ s.name = name /\ s.before = before
  BY DEF Idle
<1>2. LET s == [Idle EXCEPT !.pc = pc, !.kind = kind, !.name = name,
                            !.before = before, !.after = after, !.rid = rid]
      IN s.pc = pc /\ s.name = name /\ s.before = before
  BY DEF Idle
<1> QED BY <1>1, <1>2

\* Somebody idle rests on nothing.
LEMMA IdleRests == Idle.pc = "idle" /\ \A files, name : Rests(Idle, files, name)
BY DEF Idle, Rests

\* The plan is for the configuration in force.
LEMMA BeginDistributionHeld ==
  ASSUME ConfigAssumption, VouchedInv, HeldInv, NEW p \in Procs, NEW plan \in plans,
         beginDistribution(p, plan)
  PROVE  HeldInv'
<1> DEFINE s == [Idle EXCEPT !.pc = "journal", !.kind = "dist", !.name = plan.name,
                             !.before = plan.before, !.after = plan.after]
<1>1. s.pc = "journal" /\ s.name = plan.name
  BY BegunFields
<1>2. /\ proc' = [proc EXCEPT ![p] = s] /\ UNCHANGED <<file, interfered>>
      /\ plan.name = configuration /\ lock = "free" /\ lock' = p
  BY DEF beginDistribution, takeLock
<1> HIDE DEF s
<1>3. Rests(s, file, configuration)
  BY <1>1, <1>2 DEF Rests
<1> QED BY <1>2, <1>3, HeldOne

\* An inspection needs no lock.
LEMMA BeginSteeringHeld ==
  ASSUME ConfigAssumption, VouchedInv, HeldInv, NEW p \in Procs, NEW plan \in plans,
         beginSteering(p, plan)
  PROVE  HeldInv'
<1> DEFINE s == [Idle EXCEPT !.pc = "inspected", !.kind = "steer", !.name = plan.name,
                             !.before = plan.before, !.after = plan.after]
<1>1. s.pc = "inspected"
  BY BegunFields
<1>2. proc' = [proc EXCEPT ![p] = s] /\ UNCHANGED <<file, lock, interfered>>
  BY DEF beginSteering
<1> HIDE DEF s
<1>3. s.pc \notin LockedPcs /\ Rests(s, file, configuration)
  BY <1>1 DEF Rests, LockedPcs
<1> QED BY <1>2, <1>3, HeldOne

\* The lock is taken for the configuration in force.
LEMMA LockSteeringHeld ==
  ASSUME ConfigAssumption, VouchedInv, HeldInv, NEW p \in Procs, lockSteering(p)
  PROVE  HeldInv'
<1>1. UNCHANGED <<file, interfered>>
  BY DEF lockSteering, idleVars
<1>2. CASE Stop(p) /\ UNCHANGED lock
  <2>1. Idle.pc \notin LockedPcs
    BY IdleRests DEF LockedPcs
  <2>2. proc' = [proc EXCEPT ![p] = Idle]
    BY <1>2 DEF Stop
  <2> QED BY <1>1, <1>2, <2>1, <2>2, IdleRests, HeldOne
<1>3. CASE takeLock(p) /\ proc' = [proc EXCEPT ![p].pc = "journal", ![p].name = configuration]
  <2> DEFINE t == [proc[p] EXCEPT !.pc = "journal"]
             s == [t EXCEPT !.name = configuration]
  <2>1. IsProcess(proc[p])
    BY DEF VouchedInv, ProcsVouched, VouchedProcess
  <2>2. IsProcess(t)
    BY <2>1, ProcessShape
  <2>3. t.pc = "journal"
    BY <2>1, ProcessFields
  <2>4. proc' = [proc EXCEPT ![p] = s]
    BY <1>3 DEF VouchedInv, ProcsVouched
  <2> HIDE DEF t
  <2>5. s.pc = "journal" /\ s.name = configuration
    BY <2>2, <2>3, ProcessFields
  <2> HIDE DEF s
  <2>6. Rests(s, file, configuration)
    BY <2>5 DEF Rests
  <2>7. lock = "free" /\ lock' = p
    BY <1>3 DEF takeLock
  <2> QED BY <1>1, <2>4, <2>6, <2>7, HeldOne
<1> QED BY <1>2, <1>3 DEF lockSteering

\* Nobody but the holder of the lock moves the configuration.
LEMMA WriteReceiptHeld ==
  ASSUME ConfigAssumption, VouchedInv, HeldInv, NEW p \in Procs, writeReceipt(p)
  PROVE  HeldInv'
<1> DEFINE t == [proc[p] EXCEPT !.pc = "recheck"]
           s == [t EXCEPT !.rid = Len(receipts) + 1]
<1>1. IsProcess(proc[p])
  BY DEF VouchedInv, ProcsVouched, VouchedProcess
<1>2. IsProcess(t)
  BY <1>1, ProcessShape
<1>3. t.pc = "recheck" /\ t.name = proc[p].name
  BY <1>1, ProcessFields
<1>4. proc' = [proc EXCEPT ![p] = s]
  BY DEF writeReceipt, VouchedInv, ProcsVouched
<1> HIDE DEF t
<1>5. s.pc = "recheck" /\ s.name = proc[p].name
  BY <1>2, <1>3, ProcessFields
<1>6. proc[p].pc = "journal" /\ UNCHANGED <<file, lock, interfered>>
  BY DEF writeReceipt, At, idleVars
<1>7. lock = p
  BY <1>6, HeldRests DEF LockedPcs
<1> HIDE DEF s
<1>8. p \notin interfered => Rests(s, file, configuration)
  BY <1>5, <1>6, HeldRests DEF Rests
<1> QED BY <1>4, <1>6, <1>7, <1>8, HeldOne

\* What is about to be replaced is what was read.
LEMMA RecheckHeld ==
  ASSUME ConfigAssumption, VouchedInv, HeldInv, NEW p \in Procs, recheck(p)
  PROVE  HeldInv'
<1>1. proc[p].pc = "recheck" /\ UNCHANGED <<file, interfered>>
  BY DEF recheck, At, idleVars
<1>2. lock = p
  BY <1>1, HeldRests DEF LockedPcs
<1>3. CASE Stop(p) /\ lock' = "free"
  <2>1. Idle.pc \notin LockedPcs /\ Rests(Idle, file, configuration)
    BY IdleRests DEF LockedPcs
  <2>2. proc' = [proc EXCEPT ![p] = Idle]
    BY <1>3 DEF Stop
  <2> QED BY <1>1, <1>2, <1>3, <2>1, <2>2, HeldOne
<1>4. CASE file[proc[p].name] = proc[p].before /\ Go(p, "replace") /\ UNCHANGED lock
  <2> DEFINE s == [proc[p] EXCEPT !.pc = "replace"]
  <2>1. IsProcess(proc[p])
    BY DEF VouchedInv, ProcsVouched, VouchedProcess
  <2>2. s.pc = "replace" /\ s.name = proc[p].name /\ s.before = proc[p].before
    BY <2>1, ProcessFields
  <2>3. proc' = [proc EXCEPT ![p] = s]
    BY <1>4 DEF Go
  <2> HIDE DEF s
  <2>4. p \notin interfered => Rests(s, file, configuration)
    BY <1>1, <1>4, <2>2, HeldRests DEF Rests
  <2> QED BY <1>1, <1>2, <1>4, <2>3, <2>4, HeldOne
<1> QED BY <1>3, <1>4 DEF recheck

\* Reading back needs nothing.
LEMMA ReadbackHeld ==
  ASSUME ConfigAssumption, VouchedInv, HeldInv, NEW p \in Procs, readback(p)
  PROVE  HeldInv'
<1>1. proc[p].pc = "readback" /\ UNCHANGED <<file, interfered>>
  BY DEF readback, At, idleVars
<1>2. lock = p
  BY <1>1, HeldRests DEF LockedPcs
<1>3. CASE Stop(p) /\ lock' = "free"
  <2>1. Idle.pc \notin LockedPcs /\ Rests(Idle, file, configuration)
    BY IdleRests DEF LockedPcs
  <2>2. proc' = [proc EXCEPT ![p] = Idle]
    BY <1>3 DEF Stop
  <2> QED BY <1>1, <1>2, <1>3, <2>1, <2>2, HeldOne
<1>4. CASE Go(p, "applied") /\ UNCHANGED lock
  <2> DEFINE s == [proc[p] EXCEPT !.pc = "applied"]
  <2>1. IsProcess(proc[p])
    BY DEF VouchedInv, ProcsVouched, VouchedProcess
  <2>2. s.pc = "applied"
    BY <2>1, ProcessFields
  <2>3. proc' = [proc EXCEPT ![p] = s]
    BY <1>4 DEF Go
  <2> HIDE DEF s
  <2>4. Rests(s, file, configuration)
    BY <2>2, RestsOnNothing
  <2> QED BY <1>1, <1>2, <1>4, <2>3, <2>4, HeldOne
<1> QED BY <1>3, <1>4 DEF readback

\* The lock is given back.
LEMMA AppliedHeld ==
  ASSUME ConfigAssumption, VouchedInv, HeldInv, NEW p \in Procs, applied(p) \/ undone(p)
  PROVE  HeldInv'
<1>1. /\ proc[p].pc \in {"applied", "undone"} /\ UNCHANGED file
      /\ lock' = "free" /\ proc' = [proc EXCEPT ![p] = Idle] /\ interfered' = interfered \ {p}
  BY DEF applied, undone, At, Stop
<1>2. lock = p
  BY <1>1, HeldRests DEF LockedPcs
<1>3. Idle.pc \notin LockedPcs /\ Rests(Idle, file, configuration)
  BY IdleRests DEF LockedPcs
<1> QED BY <1>1, <1>2, <1>3, HeldOne

\* Whoever replaces the configuration is alone with it.
LEMMA ReplaceHeld ==
  ASSUME ConfigAssumption, VouchedInv, HeldInv, NEW p \in Procs, replace(p) \/ undo(p)
  PROVE  HeldInv'
<1>1. proc[p].pc \in {"replace", "undo"} /\ UNCHANGED <<lock, interfered>>
  BY DEF replace, undo, At
<1>2. lock = p
  BY <1>1, HeldRests DEF LockedPcs
<1>3. PICK pc \in {"readback", "undone"} : proc' = [proc EXCEPT ![p] = [proc[p] EXCEPT !.pc = pc]]
  BY DEF replace, undo, Go
<1> DEFINE s == [proc[p] EXCEPT !.pc = pc]
<1>4. IsProcess(proc[p])
  BY DEF VouchedInv, ProcsVouched, VouchedProcess
<1>5. s.pc = pc
  BY <1>4, ProcessFields
<1>6. proc'[p] = s /\ \A q \in Procs : q # p => proc'[q] = proc[q]
  BY <1>3 DEF VouchedInv, ProcsVouched
<1> HIDE DEF s
<1>7. ASSUME NEW q \in Procs PROVE proc'[q].pc \notin {"journal", "recheck", "replace", "undo"}
  <2>1. q # p => proc[q].pc \notin LockedPcs
    BY <1>2, HeldRests
  <2> QED BY <1>5, <1>6, <2>1 DEF LockedPcs
<1>8. \A q \in Procs : proc'[q].pc \in LockedPcs => lock' = q
  BY <1>1, <1>2, <1>6, HeldRests
<1> QED BY <1>1, <1>7, <1>8, RestsOnNothing, HeldRests, HeldRestsNext

\* An undo begins on the file its receipt left.
LEMMA BeginUndoHeld ==
  ASSUME ConfigAssumption, VouchedInv, HeldInv, NEW p \in Procs, NEW rid \in DOMAIN receipts,
         beginUndo(p, rid)
  PROVE  HeldInv'
<1> DEFINE r == receipts[rid]
           s == [Idle EXCEPT !.pc = "undo", !.kind = "undo", !.name = r.name,
                             !.before = r.after, !.after = r.before, !.rid = rid]
<1>1. s.pc = "undo" /\ s.name = r.name /\ s.before = r.after
  BY BegunFields
<1>2. /\ proc' = [proc EXCEPT ![p] = s] /\ UNCHANGED <<file, interfered>>
      /\ r.name = configuration /\ file[r.name] = r.after /\ lock = "free" /\ lock' = p
  BY DEF beginUndo, takeLock, idleVars
<1> HIDE DEF s
<1>3. Rests(s, file, configuration)
  BY <1>1, <1>2 DEF Rests
<1> QED BY <1>2, <1>3, HeldOne

\* A migration begins without the lock.
LEMMA MigrationHeld ==
  ASSUME ConfigAssumption, VouchedInv, HeldInv, NEW p \in Procs,
         beginMigration(p) \/ beginConsolidation(p)
  PROVE  HeldInv'
<1>1. PICK s : proc' = [proc EXCEPT ![p] = s] /\ s.pc = "backup"
  <2>1. CASE beginMigration(p)
    <3> DEFINE after == planAuthorityMigration
               s == Migrator("migrate", "domain", after.workflow, after.domain)
    <3>1. proc' = [proc EXCEPT ![p] = s]
      BY <2>1 DEF beginMigration, Migrator
    <3>2. s.pc = "backup"
      <4> HIDE DEF after
      <4> QED BY MigratorBegins
    <3> QED BY <3>1, <3>2
  <2>2. CASE beginConsolidation(p)
    <3> DEFINE s == Consolidator("consolidate", "unified", planAuthorityConsolidation)
    <3>1. proc' = [proc EXCEPT ![p] = s]
      BY <2>2 DEF beginConsolidation, Consolidator
    <3>2. s.pc = "backup"
      BY MigratorBegins
    <3> QED BY <3>1, <3>2
  <2> QED BY <2>1, <2>2
<1>2. UNCHANGED <<file, lock, interfered>>
  BY DEF beginMigration, beginConsolidation
<1>3. s.pc \notin LockedPcs /\ Rests(s, file, configuration)
  BY <1>1, RestsOnNothing DEF LockedPcs
<1> QED BY <1>1, <1>2, <1>3, HeldOne

\* Each of its writes is met by everybody under way.
LEMMA MigratesHeld ==
  ASSUME VouchedInv, HeldInv, NEW p \in Procs, backup(p) \/ install(p) \/ rollback(p)
  PROVE  HeldInv'
<1>1. Interfere /\ UNCHANGED lock
  BY DEF backup, install, rollback
<1>2. PICK s : proc' = [proc EXCEPT ![p] = s] /\ s.pc \in {"backup", "install", "unlink", "idle"}
  <2>1. IsProcess(proc[p])
    BY DEF VouchedInv, ProcsVouched, VouchedProcess
  <2>2. CASE backup(p)
    <3>1. [proc[p] EXCEPT !.pc = "install"].pc = "install"
      BY <2>1, ProcessFields
    <3> QED BY <2>2, <3>1 DEF backup, Go
  <2>3. CASE install(p)
    <3>1. proc' = [proc EXCEPT ![p] = Installed(proc[p])]
      BY <2>3 DEF install, Installed, VouchedInv, ProcsVouched
    <3>2. Installed(proc[p]).pc \in {"backup", "unlink"}
      BY <2>1, InstalledFields
    <3> QED BY <3>1, <3>2
  <2>4. CASE rollback(p)
    BY <2>4, IdleRests DEF rollback, Stop
  <2> QED BY <2>2, <2>3, <2>4
<1>3. s.pc \notin LockedPcs
  BY <1>2 DEF LockedPcs
<1> QED BY <1>1, <1>2, <1>3, HeldDisturbed

\* Removing backups is met by nobody.
LEMMA UnlinkHeld ==
  ASSUME ConfigAssumption, VouchedInv, HeldInv, NEW p \in Procs, unlinkBackups(p)
  PROVE  HeldInv'
<1>1. /\ UNCHANGED <<file, lock>> /\ proc' = [proc EXCEPT ![p] = Idle]
      /\ interfered' = interfered \ {p}
  BY DEF unlinkBackups, Stop
<1>2. Idle.pc \notin LockedPcs /\ Rests(Idle, file, configuration)
  BY IdleRests DEF LockedPcs
<1> QED BY <1>1, <1>2, HeldOne

\* The lock of the dead is nobody's.
LEMMA CrashHeld ==
  ASSUME ConfigAssumption, VouchedInv, HeldInv, NEW p \in Procs, crash(p)
  PROVE  HeldInv'
<1>1. /\ UNCHANGED file /\ proc' = [proc EXCEPT ![p] = Idle]
      /\ interfered' = interfered \ {p}
  BY DEF crash, Stop
<1>3. lock' = lock \/ (lock = p /\ lock' = "dead")
  <2>1. lock' = IF lock = p THEN "dead" ELSE lock
    BY DEF crash
  <2> QED BY <2>1
<1>2. Idle.pc \notin LockedPcs /\ Rests(Idle, file, configuration)
  BY IdleRests DEF LockedPcs
<1> QED BY <1>1, <1>2, <1>3, HeldOne

\* A hand edit is met by everybody under way.
LEMMA EditHeld ==
  ASSUME VouchedInv, HeldInv, NEW n \in Names, authorEdits(n)
  PROVE  HeldInv'
<1>1. Interfere /\ UNCHANGED <<lock, proc>>
  BY DEF authorEdits, edit
<1>2. ASSUME NEW q \in Procs, q \notin interfered' PROVE Rests(proc'[q], file', configuration')
  <2>1. proc[q].pc = "idle"
    BY <1>1, <1>2 DEF Interfere, At
  <2> QED BY <1>1, <2>1, RestsOnNothing
<1> QED BY <1>1, <1>2, HeldRests, HeldRestsNext

\* Planning, and reclaiming a dead lock.
LEMMA PlanHeld ==
  ASSUME ConfigAssumption, HeldInv,
         \/ \E sel \in Selections : planDistributionChange(sel)
         \/ \E mode \in Modes \cup {"none"}, owner \in Owners \cup {"none"} :
              planSteeringAgreement(mode, owner)
         \/ reclaim
  PROVE  HeldInv'
<1>1. CASE reclaim
  BY <1>1, HeldUnmoved DEF reclaim, idleVars
<1>2. ASSUME NEW kind, NEW after, addPlan(kind, after) PROVE HeldInv'
  BY <1>2, HeldUnmoved DEF addPlan, idleVars
<1>3. ASSUME NEW sel, planDistributionChange(sel) PROVE HeldInv'
  BY <1>2, <1>3 DEF planDistributionChange
<1>4. ASSUME NEW mode, NEW owner, planSteeringAgreement(mode, owner) PROVE HeldInv'
  BY <1>2, <1>4 DEF planSteeringAgreement
<1> QED BY <1>1, <1>3, <1>4

\* The lock keeps commands apart.
LEMMA HeldStep ==
  ASSUME ConfigAssumption, VouchedInv, HeldInv, [NextConfig]_configVars
  PROVE  HeldInv'
<1>1. CASE UNCHANGED configVars
  <2>1. UNCHANGED <<file, lock, proc, interfered>>
    BY <1>1 DEF configVars
  <2> QED BY <2>1, HeldUnmoved
<1>2. ASSUME NEW p \in Procs, Step(p) PROVE HeldInv'
  BY <1>2, BeginDistributionHeld, BeginSteeringHeld, LockSteeringHeld, WriteReceiptHeld,
     RecheckHeld, ReplaceHeld, ReadbackHeld, AppliedHeld, BeginUndoHeld, MigrationHeld,
     MigratesHeld, UnlinkHeld, CrashHeld DEF Step
<1> QED BY <1>1, <1>2, PlanHeld, EditHeld DEF NextConfig

\* At first nobody works.
LEMMA HeldStarts ==
  ASSUME InitConfig
  PROVE  HeldInv
BY IdleRests DEF InitConfig, HeldInv, LockedPcs

-----------------------------------------------------------------------------
(* What a migration found.                                                 *)

\* A file's content is on disk somewhere, if there is any.
OnDisk(d, files, baks) ==
  d = Missing \/ (\E n \in Names : files[n] = d) \/ (\E b \in baks : b.was = d)

\* Where every value is one of two files', and both are on disk, all are.
LEMMA TwoFilesHold ==
  ASSUME NEW k, NEW d, NEW w, NEW files, NEW baks, IsConfiguration(d), IsConfiguration(w),
         k.policy \in {d.policy, w.policy}, k.dist \in {d.dist, w.dist},
         k.steer \in {d.steer, w.steer},
         OnDisk(d, files, baks), OnDisk(w, files, baks)
  PROVE  Safe(k, files, baks)
<1>1. ASSUME NEW f \in {"policy", "dist", "steer"}, NEW e, IsConfiguration(e),
             OnDisk(e, files, baks), k[f] = e[f]
      PROVE  \/ k[f] = Missing[f]
             \/ \E n \in Names : files[n].there /\ files[n][f] = k[f]
             \/ \E b \in baks : b.was[f] = k[f]
  <2>1. CASE e = Missing
    BY <1>1, <2>1
  <2>2. CASE e # Missing /\ \E n \in Names : files[n] = e
    BY <1>1, <2>2 DEF IsConfiguration
  <2>3. CASE \E b \in baks : b.was = e
    BY <1>1, <2>3
  <2> QED BY <1>1, <2>1, <2>2, <2>3 DEF OnDisk
<1>2. \A f \in {"policy", "dist", "steer"} : k[f] = d[f] \/ k[f] = w[f]
  OBVIOUS
<1> QED BY <1>1, <1>2 DEF Safe

\* A backup holds the file it was made of.
LEMMA BackupHolds ==
  ASSUME NEW p, NEW n, NEW d, IsConfiguration(d)
  PROVE  /\ \A b \in BackupOf(p, n, d) : b.by = p /\ b.name = n /\ b.was = d
         /\ d # Missing => \E b \in BackupOf(p, n, d) : b.was = d
         /\ d = Missing => BackupOf(p, n, d) = {}
<1> DEFINE c == [by |-> p, name |-> n, was |-> d]
<1>1. c.by = p /\ c.name = n /\ c.was = d
  OBVIOUS
<1>2. BackupOf(p, n, d) = IF d.there THEN {c} ELSE {}
  BY DEF BackupOf
<1>3. d.there \in BOOLEAN /\ (~d.there => d = Missing)
  BY DEF IsConfiguration
<1>4. d = Missing => ~d.there
  BY DEF Missing
<1> HIDE DEF c
<1> QED BY <1>1, <1>2, <1>3, <1>4

\* At no step of a migration a value is missing.
LEMMA MigrationSafe ==
  ASSUME NEW p, NEW s, NEW files, NEW baks, NEW mine \in SUBSET baks, NEW k, NEW d, NEW w,
         MigrationStep(p, s, mine, files, k, d, w)
  PROVE  Safe(k, files, baks)
<1>1. IsConfiguration(d) /\ IsConfiguration(w) /\ k.policy \in {d.policy, w.policy}
      /\ k.dist \in {d.dist, w.dist} /\ k.steer \in {d.steer, w.steer}
  BY DEF MigrationStep
<1>2. CASE s.pc = "unlink"
  <2>1. /\ files["domain"].there /\ files["domain"].policy = k.policy
        /\ files["workflow"].there /\ files["workflow"].dist = k.dist
        /\ files["workflow"].steer = k.steer
    BY <1>2 DEF MigrationStep
  <2> QED BY <2>1 DEF Safe, Names
<1>3. CASE s.pc # "unlink"
  <2>1. files["domain"] = d \/ BackupOf(p, "domain", d) \subseteq mine
    BY <1>3 DEF MigrationStep
  <2>2. files["workflow"] = w \/ BackupOf(p, "workflow", w) \subseteq mine
    BY <1>3 DEF MigrationStep
  <2>3. OnDisk(d, files, baks)
    BY <1>1, <2>1, BackupHolds DEF OnDisk, Names
  <2>4. OnDisk(w, files, baks)
    BY <1>1, <2>2, BackupHolds DEF OnDisk, Names
  <2> QED BY <1>1, <2>3, <2>4, TwoFilesHold
<1> QED BY <1>2, <1>3

\* Nor at a step of a consolidation, which only adds a file.
LEMMA ConsolidationSafe ==
  ASSUME NEW s, NEW mine, NEW files, NEW k, ConsolidationStep(s, mine, files, k),
         IsConfiguration(files["domain"]), IsConfiguration(files["workflow"])
  PROVE  \A baks : Safe(k, files, baks)
<1>1. \A baks : OnDisk(files["domain"], files, baks) /\ OnDisk(files["workflow"], files, baks)
  BY DEF OnDisk, Names
<1>2. k.policy = files["domain"].policy /\ k.dist = files["workflow"].dist
      /\ k.steer = files["workflow"].steer
  BY DEF ConsolidationStep
<1> QED BY <1>1, <1>2, TwoFilesHold

\* So at no step of either.
LEMMA UnderwaySafe ==
  ASSUME NEW p, NEW s, NEW files, NEW baks, NEW mine \in SUBSET baks, NEW k,
         IsConfiguration(files["domain"]), IsConfiguration(files["workflow"]),
         Underway(p, s, mine, files, k)
  PROVE  Safe(k, files, baks)
BY MigrationSafe, ConsolidationSafe DEF Underway

\* The files are files.
LEMMA Files ==
  ASSUME VouchedInv
  PROVE  /\ \A n \in Names : IsConfiguration(file[n])
         /\ IsConfiguration(file["domain"]) /\ IsConfiguration(file["workflow"])
         /\ IsConfiguration(file["unified"])
BY DEF VouchedInv, FilesVouched, Vouched, Names

\* The process that moves, and the others.
LEMMA OneMover ==
  ASSUME VouchedInv, NEW p \in Procs, NEW s, proc' = [proc EXCEPT ![p] = s]
  PROVE  proc'[p] = s /\ \A q \in Procs : q # p => proc'[q] = proc[q]
BY DEF VouchedInv, ProcsVouched

\* Who migrates at all.
LEMMA MigratorsKept ==
  ASSUME VouchedInv, KeptInv, NEW p \in Procs, NEW s, proc' = [proc EXCEPT ![p] = s],
         s.pc \in MigrationPcs => proc[p].pc \in MigrationPcs,
         disturbances \subseteq disturbances', kept' \in {kept, Missing},
         bak = {} => bak' = {} \/ "migrations" \in disturbances
  PROVE  /\ "migrations" \notin disturbances' =>
              kept' = Missing /\ bak' = {} /\ \A q \in Procs : proc'[q].pc \notin MigrationPcs
         /\ \A q, r \in Procs :
              proc'[q].pc \in MigrationPcs /\ proc'[r].pc \in MigrationPcs => q = r
<1>1. \A q \in Procs : proc'[q].pc \in MigrationPcs => proc[q].pc \in MigrationPcs
  BY OneMover
<1>2. \A q, r \in Procs :
        proc'[q].pc \in MigrationPcs /\ proc'[r].pc \in MigrationPcs => q = r
  BY <1>1 DEF KeptInv
<1>3. "migrations" \notin disturbances' =>
        kept' = Missing /\ bak' = {} /\ \A q \in Procs : proc'[q].pc \notin MigrationPcs
  BY <1>1 DEF KeptInv
<1> QED BY <1>2, <1>3

\* The invariant after a step.
LEMMA KeptNext ==
  KeptInv' <=>
    /\ "migrations" \notin disturbances' =>
         kept' = Missing /\ bak' = {} /\ \A p \in Procs : proc'[p].pc \notin MigrationPcs
    /\ \A p, q \in Procs :
         proc'[p].pc \in MigrationPcs /\ proc'[q].pc \in MigrationPcs => p = q
    /\ kept' # Missing =>
         /\ Safe(kept', file', bak')
         /\ \A p \in Procs :
              proc'[p].pc \in MigrationPcs => Underway(p, proc'[p], Mine(p)', file', kept')
BY DEF KeptInv, Safe, Underway, ConsolidationStep, MigrationStep

\* A step of somebody who does not migrate: it keeps everything, or nothing is
\* asked of the migration any more.
LEMMA KeptQuiet ==
  ASSUME VouchedInv, KeptInv, NEW p \in Procs, NEW s, proc' = [proc EXCEPT ![p] = s],
         s.pc \notin MigrationPcs, proc[p].pc \notin MigrationPcs,
         disturbances \subseteq disturbances', UNCHANGED bak,
         UNCHANGED <<file, kept>> \/ kept' = Missing
  PROVE  KeptInv'
<1>1. /\ "migrations" \notin disturbances' =>
           kept' = Missing /\ bak' = {} /\ \A q \in Procs : proc'[q].pc \notin MigrationPcs
      /\ \A q, r \in Procs :
           proc'[q].pc \in MigrationPcs /\ proc'[r].pc \in MigrationPcs => q = r
  BY MigratorsKept
<1>2. CASE kept' = Missing
  BY <1>1, <1>2, KeptNext
<1>3. CASE UNCHANGED <<file, kept>> /\ kept # Missing
  <2>1. Safe(kept', file', bak')
    BY <1>3 DEF KeptInv
  <2>2. ASSUME NEW q \in Procs, proc'[q].pc \in MigrationPcs
        PROVE  Underway(q, proc'[q], Mine(q)', file', kept')
    <3>1. q # p /\ proc'[q] = proc[q] /\ Mine(q)' = Mine(q)
      BY <1>3, <2>2, OneMover DEF Mine
    <3>2. Underway(q, proc[q], Mine(q), file, kept)
      BY <1>3, <2>2, <3>1 DEF KeptInv
    <3> QED BY <1>3, <3>1, <3>2
  <2> QED BY <1>1, <2>1, <2>2, KeptNext
<1> QED BY <1>2, <1>3

\* A step of the migration itself.
LEMMA KeptMigrates ==
  ASSUME VouchedInv, KeptInv, NEW p \in Procs, NEW s, proc' = [proc EXCEPT ![p] = s],
         proc[p].pc \in MigrationPcs, UNCHANGED <<disturbances, kept>>,
         kept # Missing =>
           /\ s.pc \in MigrationPcs => Underway(p, s, Mine(p)', file', kept)
           /\ Safe(kept, file', bak')
  PROVE  KeptInv'
<1>1. /\ "migrations" \notin disturbances' =>
           kept' = Missing /\ bak' = {} /\ \A q \in Procs : proc'[q].pc \notin MigrationPcs
      /\ \A q, r \in Procs :
           proc'[q].pc \in MigrationPcs /\ proc'[r].pc \in MigrationPcs => q = r
  BY MigratorsKept DEF KeptInv
<1>2. ASSUME NEW q \in Procs, proc'[q].pc \in MigrationPcs PROVE q = p
  BY <1>2, OneMover DEF KeptInv
<1>3. kept' # Missing =>
        \A q \in Procs :
          proc'[q].pc \in MigrationPcs => Underway(q, proc'[q], Mine(q)', file', kept')
  <2> SUFFICES ASSUME kept' # Missing, proc'[p].pc \in MigrationPcs
               PROVE  Underway(p, proc'[p], Mine(p)', file', kept')
    BY <1>2 DEF Mine
  <2> QED BY OneMover
<1>4. kept' # Missing => Safe(kept', file', bak')
  OBVIOUS
<1> QED BY <1>1, <1>3, <1>4, KeptNext

\* No process moves.
LEMMA KeptStill ==
  ASSUME VouchedInv, KeptInv, UNCHANGED proc, disturbances \subseteq disturbances',
         UNCHANGED bak, UNCHANGED <<file, kept>> \/ kept' = Missing
  PROVE  KeptInv'
<1>1. /\ "migrations" \notin disturbances' =>
           kept' = Missing /\ bak' = {} /\ \A q \in Procs : proc'[q].pc \notin MigrationPcs
      /\ \A q, r \in Procs :
           proc'[q].pc \in MigrationPcs /\ proc'[r].pc \in MigrationPcs => q = r
  BY DEF KeptInv
<1>2. CASE kept' = Missing
  BY <1>1, <1>2, KeptNext
<1>3. CASE UNCHANGED <<file, kept>> /\ kept # Missing
  <2>1. Safe(kept', file', bak')
    BY <1>3 DEF KeptInv
  <2>2. ASSUME NEW q \in Procs, proc'[q].pc \in MigrationPcs
        PROVE  Underway(q, proc'[q], Mine(q)', file', kept')
    <3>1. Mine(q)' = Mine(q)
      BY <1>3 DEF Mine
    <3>2. Underway(q, proc[q], Mine(q), file, kept)
      BY <1>3, <2>2 DEF KeptInv
    <3> QED BY <1>3, <3>1, <3>2
  <2> QED BY <1>1, <2>1, <2>2, KeptNext
<1> QED BY <1>2, <1>3

\* The commands under the lock, and the inspection before it.
LEMMA CommandMoves ==
  ASSUME VouchedInv, NEW p \in Procs,
         \/ \E plan \in plans : beginDistribution(p, plan) \/ beginSteering(p, plan)
         \/ lockSteering(p) \/ writeReceipt(p) \/ recheck(p) \/ replace(p)
         \/ readback(p) \/ applied(p)
         \/ \E rid \in DOMAIN receipts : beginUndo(p, rid)
         \/ undo(p) \/ undone(p)
  PROVE  /\ proc[p].pc \notin MigrationPcs
         /\ \E s : proc' = [proc EXCEPT ![p] = s] /\ s.pc \notin MigrationPcs
<1> USE DEF MigrationPcs, At
<1>0. IsProcess(proc[p])
  BY DEF VouchedInv, ProcsVouched, VouchedProcess
<1>1. ASSUME NEW pc, Go(p, pc), pc \notin MigrationPcs
      PROVE  \E s : proc' = [proc EXCEPT ![p] = s] /\ s.pc \notin MigrationPcs
  <2>1. [proc[p] EXCEPT !.pc = pc].pc = pc
    BY <1>0, ProcessFields
  <2> QED BY <1>1, <2>1 DEF Go
<1>2. ASSUME Stop(p)
      PROVE  \E s : proc' = [proc EXCEPT ![p] = s] /\ s.pc \notin MigrationPcs
  BY <1>2, IdleRests DEF Stop
<1>3. ASSUME NEW plan \in plans, beginDistribution(p, plan)
      PROVE  /\ proc[p].pc \notin MigrationPcs
             /\ \E s : proc' = [proc EXCEPT ![p] = s] /\ s.pc \notin MigrationPcs
  <2> DEFINE s == [Idle EXCEPT !.pc = "journal", !.kind = "dist", !.name = plan.name,
                               !.before = plan.before, !.after = plan.after]
  <2>1. s.pc = "journal"
    BY BegunFields
  <2>2. proc' = [proc EXCEPT ![p] = s] /\ proc[p].pc = "idle"
    BY <1>3 DEF beginDistribution
  <2> HIDE DEF s
  <2> QED BY <2>1, <2>2
<1>4. ASSUME NEW plan \in plans, beginSteering(p, plan)
      PROVE  /\ proc[p].pc \notin MigrationPcs
             /\ \E s : proc' = [proc EXCEPT ![p] = s] /\ s.pc \notin MigrationPcs
  <2> DEFINE s == [Idle EXCEPT !.pc = "inspected", !.kind = "steer", !.name = plan.name,
                               !.before = plan.before, !.after = plan.after]
  <2>1. s.pc = "inspected"
    BY BegunFields
  <2>2. proc' = [proc EXCEPT ![p] = s] /\ proc[p].pc = "idle"
    BY <1>4 DEF beginSteering
  <2> HIDE DEF s
  <2> QED BY <2>1, <2>2
<1>5. ASSUME NEW rid \in DOMAIN receipts, beginUndo(p, rid)
      PROVE  /\ proc[p].pc \notin MigrationPcs
             /\ \E s : proc' = [proc EXCEPT ![p] = s] /\ s.pc \notin MigrationPcs
  <2> DEFINE r == receipts[rid]
             s == [Idle EXCEPT !.pc = "undo", !.kind = "undo", !.name = r.name,
                               !.before = r.after, !.after = r.before, !.rid = rid]
  <2>1. s.pc = "undo"
    BY BegunFields
  <2>2. proc' = [proc EXCEPT ![p] = s] /\ proc[p].pc = "idle"
    BY <1>5 DEF beginUndo
  <2> HIDE DEF s
  <2> QED BY <2>1, <2>2
<1>6. CASE lockSteering(p)
  <2>1. proc[p].pc = "inspected"
    BY <1>6 DEF lockSteering
  <2>2. CASE proc' = [proc EXCEPT ![p].pc = "journal", ![p].name = configuration]
    <3> DEFINE t == [proc[p] EXCEPT !.pc = "journal"]
               s == [t EXCEPT !.name = configuration]
    <3>1. IsProcess(t)
      BY <1>0, ProcessShape
    <3>4. t.pc = "journal"
      BY <1>0, ProcessFields
    <3>2. proc' = [proc EXCEPT ![p] = s]
      BY <2>2 DEF VouchedInv, ProcsVouched
    <3> HIDE DEF t
    <3>3. s.pc = "journal"
      BY <3>1, <3>4, ProcessFields
    <3> HIDE DEF s
    <3> QED BY <2>1, <3>2, <3>3
  <2> QED BY <1>2, <1>6, <2>1, <2>2 DEF lockSteering
<1>7. CASE writeReceipt(p)
  <2> DEFINE t == [proc[p] EXCEPT !.pc = "recheck"]
             s == [t EXCEPT !.rid = Len(receipts) + 1]
  <2>1. IsProcess(t)
    BY <1>0, ProcessShape
  <2>4. t.pc = "recheck"
    BY <1>0, ProcessFields
  <2>2. proc' = [proc EXCEPT ![p] = s] /\ proc[p].pc = "journal"
    BY <1>7 DEF writeReceipt, VouchedInv, ProcsVouched
  <2> HIDE DEF t
  <2>3. s.pc = "recheck"
    BY <2>1, <2>4, ProcessFields
  <2> HIDE DEF s
  <2> QED BY <2>2, <2>3
<1>8. CASE recheck(p) \/ replace(p) \/ readback(p) \/ undo(p)
  <2>1. proc[p].pc \in {"recheck", "replace", "readback", "undo"}
    BY <1>8 DEF recheck, replace, readback, undo
  <2>2. Stop(p) \/ Go(p, "replace") \/ Go(p, "readback") \/ Go(p, "applied") \/ Go(p, "undone")
    BY <1>8 DEF recheck, replace, readback, undo
  <2> QED BY <1>1, <1>2, <2>1, <2>2
<1>9. CASE applied(p) \/ undone(p)
  BY <1>2, <1>9 DEF applied, undone
<1> QED BY <1>3, <1>4, <1>5, <1>6, <1>7, <1>8, <1>9

\* No command under the lock is a migration.
LEMMA CommandKept ==
  ASSUME VouchedInv, KeptInv, NEW p \in Procs,
         \/ \E plan \in plans : beginDistribution(p, plan) \/ beginSteering(p, plan)
         \/ lockSteering(p) \/ writeReceipt(p) \/ recheck(p) \/ replace(p)
         \/ readback(p) \/ applied(p)
         \/ \E rid \in DOMAIN receipts : beginUndo(p, rid)
         \/ undo(p) \/ undone(p)
  PROVE  KeptInv'
<1>1. disturbances' = disturbances
  BY DEF beginDistribution, beginSteering, lockSteering, writeReceipt, recheck, replace,
         readback, applied, beginUndo, undo, undone, idleVars
<1>2. UNCHANGED bak /\ (UNCHANGED <<file, kept>> \/ kept' = Missing)
  BY DEF beginDistribution, beginSteering, lockSteering, writeReceipt, recheck, replace,
         readback, applied, beginUndo, undo, undone, idleVars
<1> QED BY <1>1, <1>2, CommandMoves, KeptQuiet

\* Nor does anything outside make one.
LEMMA OutsideKept ==
  ASSUME VouchedInv, KeptInv,
         \/ \E sel \in Selections : planDistributionChange(sel)
         \/ \E mode \in Modes \cup {"none"}, owner \in Owners \cup {"none"} :
              planSteeringAgreement(mode, owner)
         \/ \E n \in Names : authorEdits(n)
         \/ reclaim
  PROVE  KeptInv'
<1>1. CASE reclaim
  BY <1>1, KeptStill DEF reclaim, idleVars
<1>2. ASSUME NEW kind, NEW after, addPlan(kind, after) PROVE KeptInv'
  BY <1>2, KeptStill DEF addPlan, idleVars
<1>3. ASSUME NEW sel, planDistributionChange(sel) PROVE KeptInv'
  BY <1>2, <1>3 DEF planDistributionChange
<1>4. ASSUME NEW mode, NEW owner, planSteeringAgreement(mode, owner) PROVE KeptInv'
  BY <1>2, <1>4 DEF planSteeringAgreement
<1>5. ASSUME NEW n \in Names, authorEdits(n) PROVE KeptInv'
  <2>1. kept' = Missing /\ UNCHANGED <<proc, bak>> /\ disturbances \subseteq disturbances'
    BY <1>5 DEF authorEdits, edit, disturb
  <2> QED BY <2>1, KeptStill
<1> QED BY <1>1, <1>3, <1>4, <1>5

\* Who dies leaves its backups, under no name of a process.
LEMMA CrashKept ==
  ASSUME ConfigAssumption, VouchedInv, KeptInv, NEW p \in Procs, crash(p)
  PROVE  KeptInv'
<1> DEFINE left(b) == IF b.by = p THEN [b EXCEPT !.by = "dead"] ELSE b
<1>1. /\ UNCHANGED <<file, kept>> /\ proc' = [proc EXCEPT ![p] = Idle]
      /\ disturbances \subseteq disturbances' /\ bak' = {left(b) : b \in bak}
  BY DEF crash, Stop, disturb
<1>2. \A b \in bak : left(b).was = b.was /\ left(b).by = (IF b.by = p THEN "dead" ELSE b.by)
      /\ (b.by # p => left(b) = b)
  <2> SUFFICES ASSUME NEW b \in bak
               PROVE  left(b).was = b.was /\ left(b).by = (IF b.by = p THEN "dead" ELSE b.by)
                      /\ (b.by # p => left(b) = b)
    OBVIOUS
  <2>1. IsBackup(b)
    BY DEF VouchedInv, VouchedBackup
  <2> QED BY <2>1 DEF IsBackup
<1> HIDE DEF left
<1>3. /\ "migrations" \notin disturbances' =>
           kept' = Missing /\ bak' = {} /\ \A q \in Procs : proc'[q].pc \notin MigrationPcs
      /\ \A q, r \in Procs :
           proc'[q].pc \in MigrationPcs /\ proc'[r].pc \in MigrationPcs => q = r
  <2>1. Idle.pc \notin MigrationPcs
    BY IdleRests DEF MigrationPcs
  <2> QED BY <1>1, <2>1, MigratorsKept
<1>4. ASSUME kept # Missing PROVE Safe(kept', file', bak')
  <2>1. Safe(kept, file, bak)
    BY <1>4 DEF KeptInv
  <2>2. \A b \in bak : \E c \in bak' : c.was = b.was
    BY <1>1, <1>2
  <2> QED BY <1>1, <2>1, <2>2 DEF Safe
<1>5. ASSUME kept # Missing, NEW q \in Procs, proc'[q].pc \in MigrationPcs
      PROVE  Underway(q, proc'[q], Mine(q)', file', kept')
  <2>1. q # p /\ proc'[q] = proc[q]
    BY <1>1, <1>5, OneMover, IdleRests DEF MigrationPcs
  <2>2. Mine(q)' = Mine(q)
    <3>1. q # "dead"
      BY DEF ConfigAssumption
    <3>2. \A b \in bak : b.by = q => left(b) = b
      BY <1>2, <2>1
    <3>3. \A b \in bak : left(b).by = q => left(b) = b
      BY <1>2, <3>1
    <3> QED BY <1>1, <3>2, <3>3 DEF Mine
  <2>3. Underway(q, proc[q], Mine(q), file, kept)
    BY <1>5, <2>1 DEF KeptInv
  <2> QED BY <1>1, <2>1, <2>2, <2>3
<1> QED BY <1>1, <1>3, <1>4, <1>5, KeptNext

\* The first migration begins, with everything in place.
LEMMA MigrationBegins ==
  ASSUME VouchedInv, KeptInv, NEW p \in Procs, NEW s, proc' = [proc EXCEPT ![p] = s],
         s.pc = "backup", disturb("migrations"), UNCHANGED <<file, bak>>,
         Underway(p, s, Mine(p), file, kept')
  PROVE  KeptInv'
<1>1. "migrations" \notin disturbances /\ "migrations" \in disturbances'
  BY DEF disturb
<1>2. \A q \in Procs : proc'[q].pc \in MigrationPcs => q = p
  BY <1>1, OneMover DEF KeptInv
<1>3. proc'[p] = s /\ Mine(p)' = Mine(p)
  BY OneMover DEF Mine
<1>4. Mine(p) \in SUBSET bak
  BY DEF Mine
<1>5. Safe(kept', file', bak')
  BY <1>4, Files, UnderwaySafe
<1>6. ASSUME NEW q \in Procs, proc'[q].pc \in MigrationPcs
      PROVE  Underway(q, proc'[q], Mine(q)', file', kept')
  <2>1. q = p
    BY <1>2, <1>6
  <2> QED BY <1>3, <2>1
<1>7. \A q, r \in Procs :
        proc'[q].pc \in MigrationPcs /\ proc'[r].pc \in MigrationPcs => q = r
  BY <1>2
<1> QED BY <1>1, <1>5, <1>6, <1>7, KeptNext

\* A migration begins with what it found.
LEMMA BeginMigrationKept ==
  ASSUME VouchedInv, KeptInv, NEW p \in Procs, beginMigration(p)
  PROVE  KeptInv'
<1> DEFINE after == planAuthorityMigration
           s == Migrator("migrate", "domain", after.workflow, after.domain)
           k == [planAuthorityConsolidation EXCEPT !.policy = after.domain.policy,
                   !.dist = after.workflow.dist, !.steer = after.workflow.steer]
           d == file["domain"]
           w == file["workflow"]
<1>1. proc' = [proc EXCEPT ![p] = s]
  BY DEF beginMigration, Migrator
<1>2. kept' = k /\ disturb("migrations") /\ UNCHANGED <<file, bak>>
  BY DEF beginMigration
<1>3. /\ after.domain.there = TRUE /\ after.workflow.there = TRUE
      /\ after.domain.policy \in {d.policy, w.policy}
      /\ after.workflow.dist \in {d.dist, w.dist}
      /\ after.workflow.steer \in {d.steer, w.steer}
  BY MigrationPlanned DEF beginMigration
<1>4. /\ k.policy = after.domain.policy /\ k.dist = after.workflow.dist
      /\ k.steer = after.workflow.steer
  <2>1. \A a, b, c, e, x, y, z :
          LET r == [there |-> a, policy |-> b, dist |-> c, steer |-> e]
              t == [r EXCEPT !.policy = x, !.dist = y, !.steer = z]
          IN t.policy = x /\ t.dist = y /\ t.steer = z
    OBVIOUS
  <2> HIDE DEF after
  <2> QED BY <2>1 DEF planAuthorityConsolidation
<1>5. s.pc = "backup" /\ s.kind = "migrate" /\ s.name = "domain"
      /\ s.before = after.workflow /\ s.after = after.domain
  <2> HIDE DEF after
  <2> QED BY MigratorBegins
<1>6. Mine(p) = {}
  BY <1>2 DEF KeptInv, disturb, Mine
<1>7. IsConfiguration(d) /\ IsConfiguration(w)
  BY Files
<1> HIDE DEF after, s, k
<1>8. MigrationStep(p, s, Mine(p), file, k, d, w)
  BY <1>3, <1>4, <1>5, <1>6, <1>7 DEF MigrationStep
<1>9. Underway(p, s, Mine(p), file, kept')
  BY <1>2, <1>8 DEF Underway
<1> QED BY <1>1, <1>2, <1>5, <1>9, MigrationBegins

\* A consolidation of a unified file would change nothing.
LEMMA ConsolidationFields ==
  ASSUME VouchedInv, planAuthorityConsolidation # file["unified"]
  PROVE  LET after == planAuthorityConsolidation
         IN /\ file["unified"].there = FALSE
            /\ after.policy = file["domain"].policy
            /\ after.dist = file["workflow"].dist /\ after.steer = file["workflow"].steer
<1> DEFINE u == file["unified"]
           after == planAuthorityConsolidation
<1>1. IsConfiguration(u)
  BY Files
<1>2. after = [there |-> TRUE, policy |-> loadDomain.policy, dist |-> loadWorkflow.dist,
               steer |-> loadWorkflow.steer]
  BY DEF planAuthorityConsolidation
<1>3. ASSUME isUnified PROVE after = u
  <2>1. u.there = TRUE /\ IsFile(u)
    BY <1>1, <1>3 DEF isUnified, IsConfiguration
  <2>2. loadDomain.policy = u.policy
    <3> DEFINE x == [u EXCEPT !.dist = "none"]
               y == [x EXCEPT !.steer = NoAgreement]
    <3>1. loadDomain = y
      BY <1>3 DEF loadDomain
    <3>2. IsFile(x)
      BY <2>1, FileShape
    <3>3. x.policy = u.policy
      BY <2>1, FileFields
    <3> HIDE DEF x
    <3>4. y.policy = x.policy
      BY <3>2, FileFields
    <3> QED BY <3>1, <3>3, <3>4
  <2>3. loadWorkflow.dist = u.dist /\ loadWorkflow.steer = u.steer
    <3> DEFINE x == [u EXCEPT !.policy = "none"]
    <3>1. loadWorkflow = x
      BY <1>3 DEF loadWorkflow
    <3>2. x.dist = u.dist /\ x.steer = u.steer
      BY <2>1, FileFields
    <3> QED BY <3>1, <3>2
  <2> HIDE DEF after, u
  <2>4. u = [there |-> u.there, policy |-> u.policy, dist |-> u.dist, steer |-> u.steer]
    BY <2>1 DEF IsFile
  <2> QED BY <1>2, <2>1, <2>2, <2>3, <2>4
<1>4. ~isUnified
  BY <1>3
<1>5. loadDomain = file["domain"] /\ loadWorkflow = file["workflow"]
  BY <1>4, AuthoritiesVouched
<1>6. u.there = FALSE
  BY <1>1, <1>4 DEF isUnified, IsConfiguration
<1> HIDE DEF after
<1> QED BY <1>2, <1>5, <1>6 DEF after

\* And so does a consolidation.
LEMMA BeginConsolidationKept ==
  ASSUME VouchedInv, KeptInv, NEW p \in Procs, beginConsolidation(p)
  PROVE  KeptInv'
<1> DEFINE after == planAuthorityConsolidation
           s == Consolidator("consolidate", "unified", after)
<1>1. proc' = [proc EXCEPT ![p] = s]
  BY DEF beginConsolidation, Consolidator
<1>2. /\ kept' = after /\ disturb("migrations") /\ UNCHANGED <<file, bak>>
      /\ after # file["unified"]
  BY DEF beginConsolidation
<1>3. s.pc = "backup" /\ s.kind = "consolidate" /\ s.name = "unified"
  <2> HIDE DEF after
  <2> QED BY MigratorBegins
<1>4. Mine(p) = {}
  BY <1>2 DEF KeptInv, disturb, Mine
<1>5. /\ file["unified"].there = FALSE /\ after.policy = file["domain"].policy
      /\ after.dist = file["workflow"].dist /\ after.steer = file["workflow"].steer
  BY <1>2, ConsolidationFields
<1> HIDE DEF after, s
<1>6. Underway(p, s, Mine(p), file, kept')
  BY <1>2, <1>3, <1>4, <1>5 DEF Underway, ConsolidationStep
<1> QED BY <1>1, <1>2, <1>3, <1>6, MigrationBegins

\* A file goes to its backup ...
LEMMA UnderwayBackup ==
  ASSUME NEW p, NEW s, NEW mine, NEW files, NEW k, NEW t, NEW files2,
         files = [n \in Names |-> files[n]], Underway(p, s, mine, files, k),
         s.pc = "backup", s.name \in Names, t.pc = "install", t.kind = s.kind,
         t.name = s.name, t.before = s.before, t.after = s.after,
         files2 = [files EXCEPT ![s.name] = Missing]
  PROVE  Underway(p, t, mine \cup BackupOf(p, s.name, files[s.name]), files2, k)
<1> DEFINE mine2 == mine \cup BackupOf(p, s.name, files[s.name])
<1>0. files2[s.name] = Missing /\ \A n \in Names : n # s.name => files2[n] = files[n]
  OBVIOUS
<1>1. CASE ConsolidationStep(s, mine, files, k)
  <2>1. s.name = "unified" /\ files["unified"].there = FALSE /\ mine = {}
    BY <1>1 DEF ConsolidationStep
  <2>2. mine2 = {}
    BY <2>1 DEF BackupOf
  <2>3. files2["domain"] = files["domain"] /\ files2["workflow"] = files["workflow"]
    BY <1>0, <2>1 DEF Names
  <2>4. ConsolidationStep(t, mine2, files2, k)
    BY <1>1, <2>1, <2>2, <2>3 DEF ConsolidationStep
  <2> QED BY <2>4 DEF Underway
<1>2. ASSUME NEW d, NEW w, MigrationStep(p, s, mine, files, k, d, w)
      PROVE  MigrationStep(p, t, mine2, files2, k, d, w)
  <2>1. CASE s.name = "domain"
    <3>1. files2["domain"] = Missing /\ files2["workflow"] = files["workflow"]
      BY <1>0, <2>1 DEF Names
    <3>2. mine = {} /\ files["domain"] = d /\ files["workflow"] = w
      BY <1>2, <2>1 DEF MigrationStep
    <3>3. mine2 = BackupOf(p, "domain", d)
      BY <2>1, <3>2
    <3> HIDE DEF mine2
    <3> QED BY <1>2, <2>1, <3>1, <3>2, <3>3 DEF MigrationStep
  <2>2. CASE s.name = "workflow"
    <3>1. files2["workflow"] = Missing /\ files2["domain"] = files["domain"]
      BY <1>0, <2>2 DEF Names
    <3>2. mine = BackupOf(p, "domain", d) /\ files["workflow"] = w
      BY <1>2, <2>2 DEF MigrationStep
    <3>3. mine2 = BackupOf(p, "domain", d) \cup BackupOf(p, "workflow", w)
      BY <2>2, <3>2
    <3> HIDE DEF mine2
    <3> QED BY <1>2, <2>2, <3>1, <3>2, <3>3 DEF MigrationStep
  <2> QED BY <1>2, <2>1, <2>2 DEF MigrationStep
<1> QED BY <1>1, <1>2 DEF Underway

\* ... and its new content into place.
LEMMA UnderwayInstall ==
  ASSUME NEW p, NEW s, NEW mine, NEW files, NEW k, NEW t, NEW files2,
         files = [n \in Names |-> files[n]], Underway(p, s, mine, files, k),
         s.pc = "install", s.name \in Names, t = Installed(s), IsProcess(s),
         files2 = [files EXCEPT ![s.name] = s.after]
  PROVE  Underway(p, t, mine, files2, k)
<1>0. files2[s.name] = s.after /\ \A n \in Names : n # s.name => files2[n] = files[n]
  OBVIOUS
<1>3. /\ t.kind = s.kind /\ t.before = s.before
      /\ IF s.kind = "migrate" /\ s.name = "domain"
         THEN t.pc = "backup" /\ t.name = "workflow" /\ t.after = s.before
         ELSE t.pc = "unlink" /\ t.name = s.name /\ t.after = s.after
  BY InstalledFields
<1>1. CASE ConsolidationStep(s, mine, files, k)
  <2>1. s.name = "unified" /\ s.kind = "consolidate"
    BY <1>1 DEF ConsolidationStep
  <2>2. t.pc = "unlink" /\ t.kind = "consolidate"
    BY <1>3, <2>1
  <2>3. files2["domain"] = files["domain"] /\ files2["workflow"] = files["workflow"]
    BY <1>0, <2>1 DEF Names
  <2>4. ConsolidationStep(t, mine, files2, k)
    BY <1>1, <2>2, <2>3 DEF ConsolidationStep
  <2> QED BY <2>4 DEF Underway
<1>2. ASSUME NEW d, NEW w, MigrationStep(p, s, mine, files, k, d, w)
      PROVE  MigrationStep(p, t, mine, files2, k, d, w)
  <2>0. s.kind = "migrate"
    BY <1>2 DEF MigrationStep
  <2>1. CASE s.name = "domain"
    <3>1. files2["domain"] = s.after /\ files2["workflow"] = files["workflow"]
      BY <1>0, <2>1 DEF Names
    <3>2. t.pc = "backup" /\ t.name = "workflow" /\ t.after = s.before /\ t.kind = "migrate"
      BY <1>3, <2>0, <2>1
    <3>3. mine = BackupOf(p, "domain", d) /\ files["workflow"] = w
      BY <1>2, <2>1 DEF MigrationStep
    <3>4. /\ s.after.there = TRUE /\ s.after.policy = k.policy
          /\ s.before.there = TRUE /\ s.before.dist = k.dist /\ s.before.steer = k.steer
      BY <1>2, <2>1 DEF MigrationStep
    <3> QED BY <1>2, <3>1, <3>2, <3>3, <3>4 DEF MigrationStep
  <2>2. CASE s.name = "workflow"
    <3>1. files2["workflow"] = s.after /\ files2["domain"] = files["domain"]
      BY <1>0, <2>2 DEF Names
    <3>2. t.pc = "unlink" /\ t.kind = "migrate"
      BY <1>3, <2>0, <2>2
    <3>3. /\ files["domain"].there = TRUE /\ files["domain"].policy = k.policy
          /\ s.after.there = TRUE /\ s.after.dist = k.dist /\ s.after.steer = k.steer
      BY <1>2, <2>2 DEF MigrationStep
    <3> QED BY <1>2, <3>1, <3>2, <3>3 DEF MigrationStep
  <2> QED BY <1>2, <2>1, <2>2 DEF MigrationStep
<1> QED BY <1>1, <1>2 DEF Underway

\* A rename loses nothing ...
LEMMA BackupKept ==
  ASSUME VouchedInv, KeptInv, NEW p \in Procs, backup(p)
  PROVE  KeptInv'
<1> DEFINE s == proc[p]
           n == s.name
           t == [s EXCEPT !.pc = "install"]
           c == [by |-> p, name |-> n, was |-> file[n]]
<1>1. s.pc = "backup" /\ n \in Names /\ IsProcess(s) /\ file = [m \in Names |-> file[m]]
  BY DEF backup, At, VouchedInv, ProcsVouched, VouchedProcess, FilesVouched
<1>2. t.pc = "install" /\ t.kind = s.kind /\ t.name = n /\ t.before = s.before
      /\ t.after = s.after
  BY <1>1, ProcessFields
<1>3. /\ proc' = [proc EXCEPT ![p] = t] /\ file' = [file EXCEPT ![n] = Missing]
      /\ UNCHANGED <<disturbances, kept>>
  BY DEF backup, Go
<1>4. bak' = bak \cup BackupOf(p, n, file[n])
  BY DEF backup, BackupOf
<1>5. Mine(p)' = Mine(p) \cup BackupOf(p, n, file[n])
  <2>1. \A b \in BackupOf(p, n, file[n]) : b.by = p
    BY <1>1, Files, BackupHolds
  <2> QED BY <1>4, <2>1 DEF Mine
<1> HIDE DEF t
<1>6. ASSUME kept # Missing
      PROVE  Underway(p, t, Mine(p)', file', kept) /\ Safe(kept, file', bak')
  <2>1. Underway(p, s, Mine(p), file, kept)
    BY <1>1, <1>6 DEF KeptInv, MigrationPcs
  <2>2. Underway(p, t, Mine(p)', file', kept)
    <3> DEFINE m == Mine(p)'
               f == file'
    <3>1. m = Mine(p) \cup BackupOf(p, n, file[n]) /\ f = [file EXCEPT ![n] = Missing]
      BY <1>3, <1>5
    <3> HIDE DEF m, f
    <3>2. Underway(p, t, m, f, kept)
      BY <1>1, <1>2, <2>1, <3>1, UnderwayBackup
    <3> QED BY <3>2 DEF m, f
  <2>3. IsConfiguration(file'["domain"]) /\ IsConfiguration(file'["workflow"])
    BY BackupVouched DEF VouchedInv, FilesVouched, Vouched, Names
  <2>4. Mine(p)' \in SUBSET bak'
    BY DEF Mine
  <2> QED BY <2>2, <2>3, <2>4, UnderwaySafe
<1>7. proc[p].pc \in MigrationPcs
  BY <1>1 DEF MigrationPcs
<1> QED BY <1>3, <1>6, <1>7, KeptMigrates

\* ... nor does the next.
LEMMA InstallKept ==
  ASSUME VouchedInv, KeptInv, NEW p \in Procs, install(p)
  PROVE  KeptInv'
<1> DEFINE s == proc[p]
           n == s.name
           t == Installed(s)
<1>1. s.pc = "install" /\ n \in Names /\ IsProcess(s) /\ file = [m \in Names |-> file[m]]
  BY DEF install, At, VouchedInv, ProcsVouched, VouchedProcess, FilesVouched
<1>2. proc' = [proc EXCEPT ![p] = t]
  BY DEF install, Installed, VouchedInv, ProcsVouched
<1>3. file' = [file EXCEPT ![n] = s.after] /\ UNCHANGED <<disturbances, kept, bak>>
  BY DEF install
<1>4. Mine(p)' = Mine(p)
  BY <1>3 DEF Mine
<1>6. ASSUME kept # Missing
      PROVE  Underway(p, t, Mine(p)', file', kept) /\ Safe(kept, file', bak')
  <2>1. Underway(p, s, Mine(p), file, kept)
    BY <1>1, <1>6 DEF KeptInv, MigrationPcs
  <2>2. Underway(p, t, Mine(p)', file', kept)
    <3> DEFINE f == file'
    <3>1. f = [file EXCEPT ![n] = s.after]
      BY <1>3
    <3> HIDE DEF f
    <3>2. Underway(p, t, Mine(p), f, kept)
      BY <1>1, <2>1, <3>1, UnderwayInstall
    <3> QED BY <1>4, <3>2 DEF f
  <2>3. IsConfiguration(file'["domain"]) /\ IsConfiguration(file'["workflow"])
    BY InstallVouched DEF VouchedInv, FilesVouched, Vouched, Names
  <2>4. Mine(p)' \in SUBSET bak'
    BY DEF Mine
  <2> QED BY <2>2, <2>3, <2>4, UnderwaySafe
<1>7. proc[p].pc \in MigrationPcs
  BY <1>1 DEF MigrationPcs
<1> QED BY <1>2, <1>3, <1>6, <1>7, KeptMigrates

\* What a rollback puts in a file's place: its one backup, if there is one.
LEMMA BackupRestored ==
  ASSUME NEW mine, NEW n, NEW d, NEW e, \A b \in mine : b.name = n => b.was = d,
         (\E b \in mine : b.name = n) \/ e = d
  PROVE  (IF \E b \in mine : b.name = n THEN (CHOOSE b \in mine : b.name = n).was ELSE e) = d
<1>1. CASE \E b \in mine : b.name = n
  <2>1. (CHOOSE b \in mine : b.name = n) \in mine
        /\ (CHOOSE b \in mine : b.name = n).name = n
    BY <1>1
  <2> QED BY <1>1, <2>1
<1>2. CASE ~\E b \in mine : b.name = n
  BY <1>2
<1> QED BY <1>1, <1>2

\* A migration that is rolled back leaves the files it found.
LEMMA MigrationRolledBack ==
  ASSUME NEW p, NEW s, NEW mine, NEW files, NEW k, NEW d, NEW w,
         MigrationStep(p, s, mine, files, k, d, w), s.pc = "install",
         NEW files2,
         files2["domain"] =
           (IF \E b \in mine : b.name = "domain" THEN (CHOOSE b \in mine : b.name = "domain").was
            ELSE IF s.name = "workflow" THEN Missing ELSE files["domain"]),
         files2["workflow"] =
           (IF \E b \in mine : b.name = "workflow"
            THEN (CHOOSE b \in mine : b.name = "workflow").was ELSE files["workflow"])
  PROVE  files2["domain"] = d /\ files2["workflow"] = w
<1>1. IsConfiguration(d) /\ IsConfiguration(w)
  BY DEF MigrationStep
<1>2. /\ \A b \in BackupOf(p, "domain", d) : b.name = "domain" /\ b.was = d
      /\ \A b \in BackupOf(p, "workflow", w) : b.name = "workflow" /\ b.was = w
      /\ d # Missing => \E b \in BackupOf(p, "domain", d) : b.was = d
      /\ w # Missing => \E b \in BackupOf(p, "workflow", w) : b.was = w
  BY <1>1, BackupHolds
<1>3. CASE s.name = "domain"
  <2>1. mine = BackupOf(p, "domain", d) /\ files["domain"] = Missing /\ files["workflow"] = w
    BY <1>3 DEF MigrationStep
  <2>2. \A b \in mine : b.name = "domain" /\ b.was = d
    BY <1>2, <2>1
  <2>3. (\E b \in mine : b.name = "domain") \/ files["domain"] = d
    BY <1>2, <2>1
  <2>4. files2["domain"] = d
    BY <1>3, <2>2, <2>3, BackupRestored
  <2>5. files2["workflow"] = w
    BY <2>1, <2>2
  <2> QED BY <2>4, <2>5
<1>4. CASE s.name = "workflow"
  <2>1. /\ mine = BackupOf(p, "domain", d) \cup BackupOf(p, "workflow", w)
        /\ files["workflow"] = Missing
    BY <1>4 DEF MigrationStep
  <2>2. \A b \in mine : b.name = "domain" => b.was = d
    BY <1>2, <2>1
  <2>3. \A b \in mine : b.name = "workflow" => b.was = w
    BY <1>2, <2>1
  <2>4. (\E b \in mine : b.name = "domain") \/ Missing = d
    BY <1>2, <2>1
  <2>5. (\E b \in mine : b.name = "workflow") \/ files["workflow"] = w
    BY <1>2, <2>1
  <2>6. files2["domain"] = d
    BY <1>4, <2>2, <2>4, BackupRestored
  <2>7. files2["workflow"] = w
    BY <2>3, <2>5, BackupRestored
  <2> QED BY <2>6, <2>7
<1> QED BY <1>3, <1>4 DEF MigrationStep

\* A rollback brings everything back.
LEMMA RollbackKept ==
  ASSUME VouchedInv, KeptInv, NEW p \in Procs, rollback(p)
  PROVE  KeptInv'
<1> DEFINE s == proc[p]
           mine == Mine(p)
           f == file'
<1>1. /\ s.pc = "install" /\ proc' = [proc EXCEPT ![p] = Idle]
      /\ UNCHANGED <<disturbances, kept>>
  BY DEF rollback, At, Stop
<1>2. /\ f["domain"] =
           (IF \E b \in mine : b.name = "domain" THEN (CHOOSE b \in mine : b.name = "domain").was
            ELSE IF s.name = "workflow" THEN Missing ELSE file["domain"])
      /\ f["workflow"] =
           (IF \E b \in mine : b.name = "workflow"
            THEN (CHOOSE b \in mine : b.name = "workflow").was ELSE file["workflow"])
  BY DEF rollback, Names
<1>3. proc[p].pc \in MigrationPcs /\ Idle.pc \notin MigrationPcs
  BY <1>1, IdleRests DEF MigrationPcs
<1>4. ASSUME kept # Missing PROVE Safe(kept, file', bak')
  <2>0. Underway(p, s, mine, file, kept)
    BY <1>3, <1>4 DEF KeptInv
  <2>1. CASE ConsolidationStep(s, mine, file, kept)
    <3>1. /\ mine = {} /\ s.name = "unified" /\ kept.policy = file["domain"].policy
          /\ kept.dist = file["workflow"].dist /\ kept.steer = file["workflow"].steer
      BY <1>1, <2>1 DEF ConsolidationStep
    <3> HIDE DEF mine, f
    <3>2. f["domain"] = file["domain"] /\ f["workflow"] = file["workflow"]
      BY <1>2, <3>1
    <3>3. IsConfiguration(file["domain"]) /\ IsConfiguration(file["workflow"])
      BY Files
    <3>4. OnDisk(file["domain"], f, bak') /\ OnDisk(file["workflow"], f, bak')
      BY <3>2 DEF OnDisk, Names
    <3>5. Safe(kept, f, bak')
      BY <3>1, <3>3, <3>4, TwoFilesHold
    <3> QED BY <3>5 DEF f
  <2>2. ASSUME NEW d, NEW w, MigrationStep(p, s, mine, file, kept, d, w)
        PROVE  Safe(kept, file', bak')
    <3> HIDE DEF mine, f, s
    <3>1. f["domain"] = d /\ f["workflow"] = w
      BY <1>1, <1>2, <2>2, MigrationRolledBack
    <3>2. /\ IsConfiguration(d) /\ IsConfiguration(w) /\ kept.policy \in {d.policy, w.policy}
          /\ kept.dist \in {d.dist, w.dist} /\ kept.steer \in {d.steer, w.steer}
      BY <2>2 DEF MigrationStep
    <3>3. OnDisk(d, f, bak') /\ OnDisk(w, f, bak')
      BY <3>1 DEF OnDisk, Names
    <3>4. Safe(kept, f, bak')
      BY <3>2, <3>3, TwoFilesHold
    <3> QED BY <3>4 DEF f
  <2> QED BY <2>0, <2>1, <2>2 DEF Underway
<1> QED BY <1>1, <1>3, <1>4, KeptMigrates

\* The backups go when the files say everything.
LEMMA UnlinkKept ==
  ASSUME VouchedInv, KeptInv, NEW p \in Procs, unlinkBackups(p)
  PROVE  KeptInv'
<1>1. /\ proc[p].pc = "unlink" /\ proc' = [proc EXCEPT ![p] = Idle]
      /\ UNCHANGED <<file, disturbances, kept>>
  BY DEF unlinkBackups, At, Stop
<1>3. proc[p].pc \in MigrationPcs /\ Idle.pc \notin MigrationPcs
  BY <1>1, IdleRests DEF MigrationPcs
<1>4. ASSUME kept # Missing PROVE Safe(kept, file', bak')
  <2>0. Underway(p, proc[p], Mine(p), file, kept)
    BY <1>3, <1>4 DEF KeptInv
  <2>1. CASE ConsolidationStep(proc[p], Mine(p), file, kept)
    BY <1>1, <2>1, Files, ConsolidationSafe
  <2>2. ASSUME NEW d, NEW w, MigrationStep(p, proc[p], Mine(p), file, kept, d, w)
        PROVE  Safe(kept, file', bak')
    <3>1. /\ file["domain"].there /\ file["domain"].policy = kept.policy
          /\ file["workflow"].there /\ file["workflow"].dist = kept.dist
          /\ file["workflow"].steer = kept.steer
      BY <1>1, <2>2 DEF MigrationStep
    <3> QED BY <1>1, <3>1 DEF Safe, Names
  <2> QED BY <2>0, <2>1, <2>2 DEF Underway
<1> QED BY <1>1, <1>3, <1>4, KeptMigrates

\* Whatever happens, what a migration found is kept.
LEMMA KeptStep ==
  ASSUME ConfigAssumption, VouchedInv, KeptInv, [NextConfig]_configVars
  PROVE  KeptInv'
<1>1. CASE UNCHANGED configVars
  <2>1. UNCHANGED <<proc, disturbances, bak, file, kept>>
    BY <1>1 DEF configVars
  <2> QED BY <2>1, KeptStill
<1>2. ASSUME NEW p \in Procs, Step(p) PROVE KeptInv'
  BY <1>2, CommandKept, BeginMigrationKept, BeginConsolidationKept, BackupKept, InstallKept,
     RollbackKept, UnlinkKept, CrashKept DEF Step
<1> QED BY <1>1, <1>2, OutsideKept DEF NextConfig

\* At first there is nothing to keep.
LEMMA KeptStarts ==
  ASSUME InitConfig
  PROVE  KeptInv
BY IdleRests DEF InitConfig, KeptInv, MigrationPcs

-----------------------------------------------------------------------------
(* The theorems.                                                           *)

\* The invariant of the changes holds throughout.
THEOREM ChangeInvariant == ConfigSpec => []ChangeInv
<1> USE ConfigAssumption
<1>1. InitConfig => ChangeInv
  BY VouchedStarts, HeldStarts, KeptStarts DEF ChangeInv
<1>2. ChangeInv /\ [NextConfig]_configVars => ChangeInv'
  BY VouchedStep, HeldStep, KeptStep DEF ChangeInv
<1> QED BY <1>1, <1>2, PTL DEF ConfigSpec

\* A replacement by somebody who met no unlocked write replaces what was read.
THEOREM UpdatesAreKept == ConfigSpec => NoLostUpdate
<1>1. ChangeInv =>
        \A p \in Procs :
          /\ proc[p].pc \in {"replace", "undo"} /\ proc'[p].pc \in {"readback", "undone"}
          /\ p \notin interfered
          => /\ file[proc[p].name] = proc[p].before
             /\ proc[p].name = configuration
  BY DEF ChangeInv, HeldInv
<1> QED BY <1>1, ChangeInvariant, PTL DEF NoLostUpdate

\* What counts as confirmed is in the files; their digest was confirmed.
LEMMA ConfirmedInForce ==
  ASSUME VouchedInv
  PROVE  ConfirmedAsInForce
<1> SUFFICES ASSUME alreadyConfirmed
             PROVE  /\ <<loadWorkflow.steer.mode, loadWorkflow.steer.owner, loadWorkflow.dist>>
                         \in confirmed
                    /\ domainRequiresHuman => loadWorkflow.steer.mode = "human"
  BY DEF ConfirmedAsInForce
<1> DEFINE a == loadWorkflow.steer
<1>1. /\ a.mode # "none" /\ ~inspectConflicts("none", "none")
      /\ a.digest = <<resolveMode("none"), resolveOwner("none"), loadWorkflow.dist>>
  BY DEF alreadyConfirmed, computeSteeringParametersDigest
<1>2. Owned(a) /\ a.digest \in confirmed \cup {<<>>}
  BY AuthoritiesVouched
<1>3. a.digest # <<>>
  BY <1>1
<1>4. a.owner # "none"
  BY <1>2, <1>3 DEF Owned
<1>5. resolveMode("none") = a.mode /\ resolveOwner("none") = a.owner
  BY <1>1, <1>4 DEF resolveMode, resolveOwner
<1>6. a.mode \in Modes \cup {"none"} /\ ~weakensGate(a.mode)
  BY <1>1, <1>5 DEF inspectConflicts, validateSteeringAgreementShape
<1>7. domainRequiresHuman => a.mode = "human"
  BY <1>1, <1>6 DEF weakensGate, Modes
<1> QED BY <1>1, <1>2, <1>3, <1>5, <1>7

\* What is confirmed is in force, and nothing a migration found is lost.
THEOREM ConfigurationIsSound == ConfigSpec => []ConfigurationSound
<1>1. ChangeInv => ConfigurationSound
  <2>1. KeptInv => NothingDestroyed
    BY DEF KeptInv, Safe, NothingDestroyed
  <2> QED BY <2>1, ConfirmedInForce DEF ChangeInv, ConfigurationSound
<1> QED BY <1>1, ChangeInvariant, PTL
=============================================================================
