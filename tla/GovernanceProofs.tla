-------------------------- MODULE GovernanceProofs --------------------------
(***************************************************************************)
(* What governs a run holds up, for any number of processes, writers,      *)
(* candidates, contract versions, oracles, texts, records and operators.   *)
(* The four components share no state; each has a part of this module.     *)
(*                                                                         *)
(* The run service: what a run rests on is current.  Every event ends in   *)
(* Refresh, which drops what no longer binds the revision's generation and *)
(* epoch; a new candidate or oracle must drop the rest itself.  Usable     *)
(* says what an event must leave for Refresh to make the run Sound again.  *)
(*                                                                         *)
(* The rules for opening records (WorkAltitude), the reading of a record   *)
(* set (WorkProjection) and the map of the world (World) come last.        *)
(***************************************************************************)
EXTENDS RunService, WorkAltitude, WorkProjection, World, FiniteSetTheorems, TLAPS

Writers == {OwnerOf[p] : p \in Procs}

OracleDigests == Oracles \cup {None}

Bindings ==
  [cand : Candidates \cup {None}, oracle : OracleDigests, gen : Nat, epoch : Nat]

Observations ==
  [crit : Criteria, cand : Candidates, def : Versions, open : SUBSET Nat]

Receipts == [mode : {"author", "assignment"}, at : Bindings]

OpStates == {"none", "planned", "submitted", "unknown", "confirmed", "failed"}

RunRecords ==
  [gen : Nat, epoch : Nat, owner : Writers,
   status : {"active", "paused", "blocked", "completed"},
   phase : 0..LastPhase, contract : Versions \cup {None}, cand : Candidates \cup {None},
   obs : SUBSET Observations, rework : SUBSET Nat, ops : [Ops -> OpStates],
   oracle : OracleDigests, pkg : OracleDigests, dev : OracleDigests,
   ev : SUBSET Bindings, custody : SUBSET Receipts, assured : BOOLEAN]

Steps == {"idle", "collected", "observe", "takeover"} \cup StopSteps

ServiceTypeOK ==
  /\ s \in RunRecords
  /\ st \in [Procs -> [pc : Steps, obs : SUBSET Observations]]
  /\ detours \in Nat

-----------------------------------------------------------------------------
(* What every revision of the run satisfies.                               *)

ProofsBind(r) ==
  /\ \A e \in r.ev : e = Binding(r)
  /\ \A c \in r.custody : c.at = Binding(r)
  /\ \A o \in r.obs : o.cand = r.cand
  /\ r.pkg \in {None, r.oracle}

\* The package came in at the pin, and the developer was entered with it.
PackageCarried(r) ==
  /\ r.assured /\ r.phase >= PinPhase
  /\ r.phase > PinPhase => r.dev = r.pkg

CompletedProven(r) == r.ev = {Binding(r)} /\ r.pkg # None /\ r.pkg = r.oracle /\ r.phase > PinPhase

Sound(r) ==
  /\ ProofsBind(r)
  /\ r.pkg # None => PackageCarried(r)
  /\ r.status = "completed" /\ r.assured => CompletedProven(r)

\* What an event leaves to Refresh.
Usable(r) ==
  /\ \A c \in r.custody : c.at.cand = r.cand /\ c.at.oracle = r.oracle
  /\ \A o \in r.obs : o.cand = r.cand
  /\ r.pkg # None /\ r.pkg = r.oracle => PackageCarried(r)
  /\ r.status = "completed" /\ r.assured => CompletedProven(r)

\* The part of a revision that evidence is dated by.
SameDates(r, n) ==
  n.contract = r.contract /\ n.rework = r.rework /\ n.obs = r.obs /\ n.owner = r.owner

\* Refresh turns what an event leaves into a sound revision and touches
\* nothing but proofs.
LEMMA RefreshSound ==
  ASSUME NEW r \in RunRecords, Usable(r)
  PROVE  Refresh(r) \in RunRecords /\ Sound(Refresh(r)) /\ SameDates(r, Refresh(r))
<1> DEFINE n == Refresh(r)
<1>1. n \in RunRecords
  <2> DEFINE ev == {e \in r.ev : e = Binding(r)}
             pkg == IF r.pkg = r.oracle THEN r.pkg ELSE None
             custody == IF \A c \in r.custody : c.at.gen = r.gen /\ c.at.epoch = r.epoch
                        THEN r.custody ELSE {}
  <2>1. ev \in SUBSET Bindings /\ pkg \in OracleDigests /\ custody \in SUBSET Receipts
    BY DEF RunRecords, OracleDigests
  <2>2. n = [r EXCEPT !.ev = ev, !.pkg = pkg, !.custody = custody]
    BY DEF RunRecords, Refresh
  <2> HIDE DEF ev, pkg, custody, n
  <2> QED BY <2>1, <2>2 DEF RunRecords
<1>2. /\ n.ev = {e \in r.ev : e = Binding(r)}
      /\ n.pkg = IF r.pkg = r.oracle THEN r.pkg ELSE None
      /\ n.custody = IF \A c \in r.custody : c.at.gen = r.gen /\ c.at.epoch = r.epoch
                     THEN r.custody ELSE {}
      /\ n.gen = r.gen /\ n.epoch = r.epoch /\ n.owner = r.owner /\ n.status = r.status
      /\ n.phase = r.phase /\ n.contract = r.contract /\ n.cand = r.cand /\ n.obs = r.obs
      /\ n.rework = r.rework /\ n.oracle = r.oracle /\ n.dev = r.dev
      /\ n.assured = r.assured
  BY DEF RunRecords, Refresh
<1>3. Binding(n) = Binding(r)
  BY <1>2 DEF Binding
<1>4. \A c \in n.custody : c.at = Binding(r)
  <2> SUFFICES ASSUME NEW c \in n.custody PROVE c.at = Binding(r)
    OBVIOUS
  <2>1. c \in r.custody /\ c.at.gen = r.gen /\ c.at.epoch = r.epoch
    BY <1>2
  <2>2. c.at.cand = r.cand /\ c.at.oracle = r.oracle
    BY <2>1 DEF Usable
  <2>3. c.at \in Bindings
    BY <2>1 DEF RunRecords, Receipts
  <2> QED BY <2>1, <2>2, <2>3 DEF Bindings, Binding
<1>5. ProofsBind(n)
  BY <1>2, <1>3, <1>4 DEF ProofsBind, Usable
<1>6. n.pkg # None => PackageCarried(n)
  BY <1>2 DEF Usable, PackageCarried
<1>7. n.status = "completed" /\ n.assured => CompletedProven(n)
  BY <1>2, <1>3 DEF Usable, CompletedProven
<1> QED BY <1>1, <1>2, <1>5, <1>6, <1>7 DEF Sound, SameDates

-----------------------------------------------------------------------------
(* One lemma per event of the reducer.                                     *)

\* A sound revision is usable.
LEMMA SoundUsable ==
  ASSUME NEW r \in RunRecords, Sound(r) PROVE Usable(r)
BY DEF Sound, Usable, ProofsBind, Binding

\* Taking an oracle digest drops the custody of another one.
LEMMA WithOracleUsable ==
  ASSUME NEW r \in RunRecords, NEW d \in OracleDigests, Sound(r), ~Terminal(r)
  PROVE  LET n == WithOracle(r, d) IN
         /\ n \in RunRecords /\ Usable(n) /\ SameDates(r, n)
         /\ n = [r EXCEPT !.oracle = n.oracle, !.custody = n.custody]
         /\ n.oracle = IF d = None THEN r.oracle ELSE d
<1> DEFINE n == WithOracle(r, d)
<1>0. Usable(r)
  BY SoundUsable
<1>1. CASE d = None
  BY <1>0, <1>1 DEF WithOracle, SameDates, RunRecords
<1>2. CASE d # None
  <2> DEFINE custody == IF \E c \in r.custody : c.at.oracle # d THEN {} ELSE r.custody
  <2>1. n = [r EXCEPT !.oracle = d, !.custody = custody]
    BY <1>2 DEF WithOracle
  <2>2. custody \in SUBSET Receipts
    BY DEF RunRecords
  <2>3. \A c \in custody : c.at.cand = r.cand /\ c.at.oracle = d
    BY <1>0 DEF Usable
  <2> HIDE DEF custody
  <2>4. n \in RunRecords /\ SameDates(r, n)
    BY <2>1, <2>2 DEF RunRecords, SameDates
  <2>5. Usable(n)
    <3>1. r.status # "completed"
      BY DEF Terminal
    <3>2. r.pkg # None => PackageCarried(r)
      BY DEF Sound
    <3>4. \A o \in r.obs : o.cand = r.cand
      BY <1>0 DEF Usable
    <3>3. /\ n.custody = custody /\ n.cand = r.cand /\ n.oracle = d /\ n.obs = r.obs
          /\ n.pkg = r.pkg /\ n.assured = r.assured /\ n.phase = r.phase
          /\ n.dev = r.dev /\ n.status = r.status
      BY <2>1 DEF RunRecords
    <3> QED BY <2>3, <3>1, <3>2, <3>3, <3>4 DEF Usable, PackageCarried
  <2>6. n.oracle = d /\ n.custody = custody
    BY <2>1 DEF RunRecords
  <2>7. n = [r EXCEPT !.oracle = n.oracle, !.custody = n.custody]
    BY <2>1, <2>6
  <2> QED BY <1>2, <2>4, <2>5, <2>6, <2>7
<1> HIDE DEF n
<1> QED BY <1>1, <1>2 DEF n

\* A frozen contract starts without observations.
LEMMA FreezeSound ==
  ASSUME NEW r \in RunRecords, Sound(r), NEW v \in Versions, NEW assured \in BOOLEAN,
         NEW n \in ContractFrozen(r, v, assured)
  PROVE  /\ n \in RunRecords /\ Sound(n)
         /\ n.owner = r.owner /\ n.rework = r.rework /\ n.obs = {}
<1> DEFINE x == [r EXCEPT !.contract = v, !.obs = {}, !.assured = @ \/ assured]
           w == WithOracle(x, OracleOf[v])
<1>1. ~Terminal(r) /\ n = Refresh(w)
  BY DEF ContractFrozen, Takes
<1>2. x \in RunRecords
  BY DEF RunRecords
<1>3. /\ x.owner = r.owner /\ x.rework = r.rework /\ x.obs = {} /\ x.status = r.status
      /\ x.assured = (r.assured \/ assured) /\ x.phase = r.phase /\ x.pkg = r.pkg
      /\ x.dev = r.dev /\ x.oracle = r.oracle /\ x.ev = r.ev /\ x.custody = r.custody
      /\ x.cand = r.cand /\ x.gen = r.gen /\ x.epoch = r.epoch
  BY DEF RunRecords
<1>4. Sound(x) /\ ~Terminal(x)
  BY <1>1, <1>3 DEF Sound, ProofsBind, Binding, PackageCarried, Terminal
<1>5. OracleOf[v] \in OracleDigests
  BY ServiceAssumption DEF OracleDigests
<1> HIDE DEF x
<1>6. w \in RunRecords /\ Usable(w) /\ SameDates(x, w)
  BY <1>2, <1>4, <1>5, WithOracleUsable
<1> HIDE DEF w
<1> QED BY <1>1, <1>3, <1>6, RefreshSound DEF SameDates

\* The oracle is pinned once, at the pin phase, with the package made for it.
LEMMA PinSound ==
  ASSUME NEW r \in RunRecords, Sound(r), NEW d \in Oracles, NEW package \in BOOLEAN,
         r.phase = PinPhase, NEW n \in OraclePinned(r, d, package)
  PROVE  n \in RunRecords /\ Sound(n) /\ SameDates(r, n)
<1> DEFINE w == WithOracle(r, d)
           x == IF package THEN [w EXCEPT !.pkg = d, !.assured = TRUE] ELSE w
<1>1. ~Terminal(r) /\ n = Refresh(x)
  BY DEF OraclePinned, Takes
<1>2. d \in OracleDigests
  BY DEF OracleDigests
<1>3. /\ w \in RunRecords /\ Usable(w) /\ SameDates(r, w)
      /\ w.status = r.status /\ w.phase = PinPhase
  <2>1. /\ w \in RunRecords /\ Usable(w) /\ SameDates(r, w)
        /\ w = [r EXCEPT !.oracle = w.oracle, !.custody = w.custody]
    BY <1>1, <1>2, WithOracleUsable
  <2> HIDE DEF w
  <2>2. w.status = r.status /\ w.phase = r.phase
    BY <2>1 DEF RunRecords
  <2> QED BY <2>1, <2>2
<1> HIDE DEF w
<1>4. CASE package
  <2>1. x = [w EXCEPT !.pkg = d, !.assured = TRUE]
    BY <1>4
  <2>2. x \in RunRecords
    BY <1>2, <1>3, <2>1 DEF RunRecords
  <2>3. /\ x.custody = w.custody /\ x.cand = w.cand /\ x.oracle = w.oracle /\ x.obs = w.obs
        /\ x.assured /\ x.phase = PinPhase /\ x.status = r.status /\ SameDates(w, x)
    BY <1>3, <2>1 DEF RunRecords, SameDates
  <2> HIDE DEF x
  <2>4. Usable(x)
    BY <1>1, <1>3, <2>3 DEF Usable, PackageCarried, Terminal, PinPhase
  <2> QED BY <1>1, <1>3, <2>2, <2>3, <2>4, RefreshSound DEF SameDates
<1>5. CASE ~package
  BY <1>1, <1>3, <1>5, RefreshSound DEF SameDates
<1> QED BY <1>4, <1>5

\* A custody receipt is made for the revision it is recorded on.
LEMMA CustodySound ==
  ASSUME NEW r \in RunRecords, Sound(r), NEW mode \in {"author", "assignment"},
         NEW n \in OracleCustody(r, mode)
  PROVE  n \in RunRecords /\ Sound(n) /\ SameDates(r, n)
<1> DEFINE kept == {c \in r.custody : c.mode # mode}
           receipt == [mode |-> mode, at |-> Binding(r)]
           x == [r EXCEPT !.custody = kept \cup {receipt}]
<1>1. n = Refresh(x)
  BY DEF OracleCustody
<1>2. receipt \in Receipts /\ receipt.at.cand = r.cand /\ receipt.at.oracle = r.oracle
  BY DEF Receipts, Bindings, Binding, RunRecords, OracleDigests
<1>3. kept \subseteq r.custody
  OBVIOUS
<1> HIDE DEF receipt, kept
<1>4. x \in RunRecords
  BY <1>2, <1>3 DEF RunRecords
<1>5. /\ x.custody = kept \cup {receipt} /\ x.cand = r.cand /\ x.oracle = r.oracle
      /\ x.obs = r.obs /\ x.pkg = r.pkg /\ x.assured = r.assured /\ x.phase = r.phase
      /\ x.dev = r.dev /\ x.status = r.status /\ x.ev = r.ev /\ x.gen = r.gen
      /\ x.epoch = r.epoch /\ SameDates(r, x)
  BY DEF RunRecords, SameDates
<1> HIDE DEF x
<1>6. Usable(r)
  BY SoundUsable
<1>7. Usable(x)
  BY <1>2, <1>3, <1>5, <1>6 DEF Usable, PackageCarried, CompletedProven, Binding
<1> QED BY <1>1, <1>4, <1>5, <1>7, RefreshSound DEF SameDates

\* Another candidate takes the observations and the custody receipts away.
LEMMA CandidateSound ==
  ASSUME NEW r \in RunRecords, Sound(r), NEW c \in Candidates,
         NEW n \in CandidateChanged(r, c)
  PROVE  /\ n \in RunRecords /\ Sound(n) /\ n.obs = {}
         /\ n.owner = r.owner /\ n.contract = r.contract /\ n.rework = r.rework
<1> DEFINE custody == IF c # r.cand THEN {} ELSE r.custody
           x == [r EXCEPT !.cand = c, !.obs = {}, !.custody = custody]
<1>1. ~Terminal(r) /\ n = Refresh(x)
  BY DEF CandidateChanged, Takes, RunRecords
<1>2. x \in RunRecords
  BY DEF RunRecords
<1>3. /\ x.custody = custody /\ x.cand = c /\ x.oracle = r.oracle
      /\ x.obs = {} /\ x.pkg = r.pkg /\ x.assured = r.assured /\ x.phase = r.phase
      /\ x.dev = r.dev /\ x.status = r.status /\ x.owner = r.owner
      /\ x.contract = r.contract /\ x.rework = r.rework
  BY DEF RunRecords
<1> HIDE DEF x
<1>4. Usable(r)
  BY SoundUsable
<1>5. Usable(x)
  BY <1>1, <1>3, <1>4 DEF Usable, PackageCarried, Terminal
<1> QED BY <1>1, <1>2, <1>3, <1>5, RefreshSound DEF SameDates

\* An observation counts only for the run's candidate.
LEMMA ObservationSound ==
  ASSUME NEW r \in RunRecords, Sound(r), NEW o \in Observations,
         NEW n \in Observed(r, o)
  PROVE  /\ n \in RunRecords /\ Sound(n) /\ n.obs = r.obs \cup {o}
         /\ n.owner = r.owner /\ n.contract = r.contract /\ n.rework = r.rework
<1> DEFINE x == [r EXCEPT !.obs = @ \cup {o}]
<1>1. ~Terminal(r) /\ o.cand = r.cand /\ n = Refresh(x)
  BY DEF Observed, Takes
<1>2. x \in RunRecords
  BY DEF RunRecords
<1>3. /\ x.custody = r.custody /\ x.cand = r.cand /\ x.oracle = r.oracle
      /\ x.obs = r.obs \cup {o} /\ x.pkg = r.pkg /\ x.assured = r.assured
      /\ x.phase = r.phase /\ x.dev = r.dev /\ x.status = r.status /\ x.owner = r.owner
      /\ x.contract = r.contract /\ x.rework = r.rework
  BY DEF RunRecords
<1> HIDE DEF x
<1>4. Usable(r)
  BY SoundUsable
<1>5. Usable(x)
  BY <1>1, <1>3, <1>4 DEF Usable, PackageCarried, Terminal
<1> QED BY <1>1, <1>2, <1>3, <1>5, RefreshSound DEF SameDates

\* The developer is entered with the package, when there is one.
LEMMA AdvanceSound ==
  ASSUME NEW r \in RunRecords, Sound(r), NEW d \in OracleDigests,
         NEW package \in BOOLEAN, NEW rt,
         r.pkg # None /\ r.phase = PinPhase => package,
         NEW n \in Advanced(r, d, package, rt)
  PROVE  /\ n \in RunRecords /\ Sound(n) /\ n.contract = None
         /\ n.owner = r.owner /\ n.rework = r.rework
<1> DEFINE w == WithOracle(r, d)
           dev == IF package THEN r.pkg ELSE r.dev
           ev == IF r.assured /\ r.phase \in EvidencePhases THEN {Binding(w)} ELSE r.ev
           x == [w EXCEPT !.phase = r.phase + 1, !.contract = None, !.dev = dev, !.ev = ev]
<1>1. ~Terminal(r) /\ r.phase # LastPhase
  BY DEF Advanced, Takes
<1>2. /\ w \in RunRecords /\ Usable(w) /\ SameDates(r, w)
      /\ w = [r EXCEPT !.oracle = w.oracle, !.custody = w.custody]
  BY <1>1, WithOracleUsable
<1>3. n = Refresh(x)
  <2>1. w.phase = r.phase /\ w.dev = r.dev /\ w.ev = r.ev
    BY DEF WithOracle, RunRecords
  <2>2. n = Refresh([w EXCEPT !.phase = @ + 1, !.contract = None,
                       !.dev = IF package THEN r.pkg ELSE @,
                       !.ev = IF r.assured /\ r.phase \in EvidencePhases
                              THEN {Binding(w)} ELSE @])
    BY DEF Advanced
  <2> HIDE DEF w
  <2> QED BY <1>2, <2>1, <2>2 DEF RunRecords
<1>4. dev \in OracleDigests /\ ev \in SUBSET Bindings /\ r.phase + 1 \in 0..LastPhase
  <2> HIDE DEF w
  <2> QED BY <1>1, <1>2 DEF RunRecords, Bindings, Binding, LastPhase
<1>5. /\ w.status = r.status /\ w.pkg = r.pkg /\ w.assured = r.assured
  <2> HIDE DEF w
  <2> QED BY <1>2 DEF RunRecords
<1> HIDE DEF w, ev
<1>6. x \in RunRecords
  <2> HIDE DEF dev
  <2> QED BY <1>2, <1>4 DEF RunRecords
<1>7. /\ x.custody = w.custody /\ x.cand = w.cand /\ x.oracle = w.oracle /\ x.obs = w.obs
      /\ x.pkg = r.pkg /\ x.assured = r.assured /\ x.phase = r.phase + 1 /\ x.dev = dev
      /\ x.status = r.status /\ x.contract = None /\ x.owner = w.owner /\ x.rework = w.rework
  BY <1>2, <1>5 DEF RunRecords
<1> HIDE DEF x
<1>8. x.pkg # None => PackageCarried(x)
  <2>1. r.pkg # None => /\ r.assured /\ dev = r.pkg
                        /\ r.phase + 1 > PinPhase /\ r.phase + 1 >= PinPhase
    BY DEF Sound, PackageCarried, PinPhase, RunRecords
  <2> HIDE DEF dev
  <2> QED BY <1>7, <2>1 DEF PackageCarried
<1> HIDE DEF dev
<1>9. Usable(x)
  BY <1>1, <1>2, <1>7, <1>8 DEF Usable, Terminal
<1> QED BY <1>2, <1>3, <1>6, <1>7, <1>9, RefreshSound DEF SameDates

\* A return keeps the package: the developer has it, or is entered again.
LEMMA ReturnSound ==
  ASSUME NEW r \in RunRecords, Sound(r), NEW f \in Nat, NEW n \in ReturnedTo(r, f)
  PROVE  /\ n \in RunRecords /\ Sound(n) /\ n.contract = None
         /\ n.owner = r.owner /\ n.rework = r.rework \cup {f}
<1> DEFINE target == ReturnTarget(r)
           x == [r EXCEPT !.phase = target, !.rework = @ \cup {f}, !.contract = None]
<1>1. ~Terminal(r) /\ target # None /\ n = Refresh(x)
  BY DEF ReturnedTo, Takes
<1>2. target \in 0..LastPhase /\ target >= PinPhase /\ (target > PinPhase => r.phase > PinPhase)
  BY <1>1 DEF ReturnTarget, LastPhase, PinPhase, None, RunRecords
<1> HIDE DEF target
<1>3. x \in RunRecords
  BY <1>2 DEF RunRecords
<1>4. /\ x.custody = r.custody /\ x.cand = r.cand /\ x.oracle = r.oracle /\ x.obs = r.obs
      /\ x.pkg = r.pkg /\ x.assured = r.assured /\ x.phase = target /\ x.dev = r.dev
      /\ x.status = r.status /\ x.contract = None /\ x.owner = r.owner
      /\ x.rework = r.rework \cup {f}
  BY DEF RunRecords
<1> HIDE DEF x
<1>5. Usable(r)
  BY SoundUsable
<1>6. x.pkg # None => PackageCarried(x)
  BY <1>2, <1>4 DEF Sound, PackageCarried
<1>7. Usable(x)
  BY <1>1, <1>4, <1>5, <1>6 DEF Usable, Terminal
<1> QED BY <1>1, <1>3, <1>4, <1>7, RefreshSound DEF SameDates

\* A resolved finding leaves everything else as it is.
LEMMA ReworkSound ==
  ASSUME NEW r \in RunRecords, Sound(r), NEW f, NEW cited,
         NEW n \in ReworkResolved(r, f, cited)
  PROVE  /\ n \in RunRecords /\ Sound(n) /\ n.rework = r.rework \ {f}
         /\ n.owner = r.owner /\ n.contract = r.contract /\ n.obs = r.obs
<1> DEFINE x == [r EXCEPT !.rework = @ \ {f}]
<1>1. ~Terminal(r) /\ n = Refresh(x)
  BY DEF ReworkResolved, Takes
<1>2. x \in RunRecords
  BY DEF RunRecords
<1>3. /\ x.custody = r.custody /\ x.cand = r.cand /\ x.oracle = r.oracle /\ x.obs = r.obs
      /\ x.pkg = r.pkg /\ x.assured = r.assured /\ x.phase = r.phase /\ x.dev = r.dev
      /\ x.status = r.status /\ x.owner = r.owner /\ x.contract = r.contract
      /\ x.rework = r.rework \ {f}
  BY DEF RunRecords
<1> HIDE DEF x
<1>4. Usable(r)
  BY SoundUsable
<1>5. Usable(x)
  BY <1>1, <1>3, <1>4 DEF Usable, PackageCarried, Terminal
<1> QED BY <1>1, <1>2, <1>3, <1>5, RefreshSound DEF SameDates

\* A pause or a block changes the status alone.
LEMMA HaltSound ==
  ASSUME NEW r \in RunRecords, Sound(r), NEW kind \in {"paused", "blocked"},
         NEW n \in Halted(r, kind)
  PROVE  n \in RunRecords /\ Sound(n) /\ SameDates(r, n)
<1> DEFINE x == [r EXCEPT !.status = kind]
<1>1. ~Terminal(r) /\ n = Refresh(x)
  BY DEF Halted, Takes
<1>2. x \in RunRecords
  BY DEF RunRecords
<1>3. /\ x.custody = r.custody /\ x.cand = r.cand /\ x.oracle = r.oracle /\ x.obs = r.obs
      /\ x.pkg = r.pkg /\ x.assured = r.assured /\ x.phase = r.phase /\ x.dev = r.dev
      /\ x.status = kind /\ SameDates(r, x)
  BY DEF RunRecords, SameDates
<1> HIDE DEF x
<1>4. Usable(r)
  BY SoundUsable
<1>5. Usable(x)
  BY <1>1, <1>3, <1>4 DEF Usable, PackageCarried
<1> QED BY <1>1, <1>2, <1>3, <1>5, RefreshSound DEF SameDates

\* A revocation raises the epoch; Refresh drops what was proved before it.
LEMMA RevocationSound ==
  ASSUME NEW r \in RunRecords, Sound(r), ~Terminal(r)
  PROVE  LET n == Refresh([r EXCEPT !.epoch = @ + 1])
         IN  n \in RunRecords /\ Sound(n) /\ SameDates(r, n)
<1> DEFINE x == [r EXCEPT !.epoch = @ + 1]
<1>1. x \in RunRecords
  BY DEF RunRecords
<1>2. /\ x.custody = r.custody /\ x.cand = r.cand /\ x.oracle = r.oracle /\ x.obs = r.obs
      /\ x.pkg = r.pkg /\ x.assured = r.assured /\ x.phase = r.phase /\ x.dev = r.dev
      /\ x.status = r.status /\ SameDates(r, x)
  BY DEF RunRecords, SameDates
<1> HIDE DEF x
<1>3. Usable(r)
  BY SoundUsable
<1>4. Usable(x)
  BY <1>2, <1>3 DEF Usable, PackageCarried, Terminal
<1>5. LET n == Refresh(x) IN n \in RunRecords /\ Sound(n) /\ SameDates(r, n)
  BY <1>1, <1>2, <1>4, RefreshSound DEF SameDates
<1> QED BY <1>5 DEF x

\* A take-over raises the generation; with another workspace it also takes
\* the candidate and what was observed on it.
LEMMA ResumeSound ==
  ASSUME NEW r \in RunRecords, Sound(r), NEW owner \in Writers, NEW invalidate \in BOOLEAN,
         NEW n \in Resumed(r, owner, invalidate)
  PROVE  /\ n \in RunRecords /\ Sound(n) /\ n.owner = owner
         /\ n.contract = r.contract /\ n.rework = r.rework /\ n.obs \subseteq r.obs
<1> DEFINE taken == [r EXCEPT !.owner = owner, !.gen = @ + 1, !.status = "active"]
           gone == [taken EXCEPT !.cand = None, !.obs = {}, !.custody = {}]
           x == IF invalidate THEN gone ELSE taken
<1>1. n = Refresh(x)
  BY DEF Resumed
<1>2. Usable(r)
  BY SoundUsable
<1>3. /\ taken.custody = r.custody /\ taken.cand = r.cand /\ taken.oracle = r.oracle
      /\ taken.obs = r.obs /\ taken.pkg = r.pkg /\ taken.assured = r.assured
      /\ taken.phase = r.phase /\ taken.dev = r.dev /\ taken.status = "active"
      /\ taken.owner = owner /\ taken.contract = r.contract /\ taken.rework = r.rework
  BY DEF RunRecords
<1>7. taken \in RunRecords
  <2> DEFINE gen == r.gen + 1
  <2>1. gen \in Nat
    BY DEF RunRecords
  <2>2. taken = [r EXCEPT !.owner = owner, !.gen = gen, !.status = "active"]
    BY DEF RunRecords
  <2> HIDE DEF gen, taken
  <2> QED BY <2>1, <2>2 DEF RunRecords
<1> HIDE DEF taken
<1>4. /\ gone.custody = {} /\ gone.obs = {} /\ gone.pkg = r.pkg /\ gone.assured = r.assured
      /\ gone.phase = r.phase /\ gone.dev = r.dev /\ gone.status = "active"
      /\ gone.oracle = r.oracle
      /\ gone.owner = owner /\ gone.contract = r.contract /\ gone.rework = r.rework
  BY <1>3, <1>7 DEF RunRecords
<1>8. gone \in RunRecords
  BY <1>7 DEF RunRecords
<1> HIDE DEF gone
<1>5. CASE ~invalidate
  <2>1. x = taken
    BY <1>5
  <2>2. Usable(taken)
    BY <1>2, <1>3 DEF Usable, PackageCarried
  <2> QED BY <1>1, <1>3, <1>7, <2>1, <2>2, RefreshSound DEF SameDates
<1>6. CASE invalidate
  <2>1. x = gone
    BY <1>6
  <2>2. Usable(gone)
    BY <1>2, <1>4 DEF Usable, PackageCarried
  <2> QED BY <1>1, <1>4, <1>8, <2>1, <2>2, RefreshSound DEF SameDates
<1> QED BY <1>5, <1>6

\* Completion is at the last phase, on proven evidence when it is assured.
LEMMA CompletionSound ==
  ASSUME NEW r \in RunRecords, Sound(r), NEW n \in Completed(r)
  PROVE  n \in RunRecords /\ Sound(n) /\ SameDates(r, n)
<1> DEFINE x == [r EXCEPT !.status = "completed"]
<1>1. /\ n = Refresh(x) /\ r.phase = LastPhase
      /\ r.assured => r.ev = {Binding(r)} /\ r.pkg # None
  BY DEF Completed
<1>2. x \in RunRecords
  BY DEF RunRecords
<1>3. /\ x.custody = r.custody /\ x.cand = r.cand /\ x.oracle = r.oracle /\ x.obs = r.obs
      /\ x.pkg = r.pkg /\ x.assured = r.assured /\ x.phase = r.phase /\ x.dev = r.dev
      /\ x.ev = r.ev /\ x.gen = r.gen /\ x.epoch = r.epoch /\ SameDates(r, x)
  BY DEF RunRecords, SameDates
<1> HIDE DEF x
<1>4. Usable(r)
  BY SoundUsable
<1>5. x.assured => CompletedProven(x)
  <2>1. r.pkg # None => r.pkg = r.oracle
    BY DEF Sound, ProofsBind
  <2>2. LastPhase > PinPhase
    BY DEF LastPhase, PinPhase
  <2> QED BY <1>1, <1>3, <2>1, <2>2 DEF CompletedProven, Binding
<1>6. Usable(x)
  BY <1>3, <1>4, <1>5 DEF Usable, PackageCarried
<1> QED BY <1>1, <1>2, <1>3, <1>6, RefreshSound DEF SameDates

\* An operation on the outside world leaves what the run rests on alone, also
\* on a run that is over.
LEMMA OperationSound ==
  ASSUME NEW r \in RunRecords, Sound(r), NEW o \in Ops, NEW to \in OpStates,
         NEW granted, NEW verified, NEW n \in Operated(r, o, to, granted, verified)
  PROVE  n \in RunRecords /\ Sound(n) /\ SameDates(r, n)
<1> DEFINE x == [r EXCEPT !.ops[o] = to]
<1>1. n = Refresh(x)
  BY DEF Operated
<1>2. x \in RunRecords
  BY DEF RunRecords
<1>3. /\ x.custody = r.custody /\ x.cand = r.cand /\ x.oracle = r.oracle /\ x.obs = r.obs
      /\ x.pkg = r.pkg /\ x.assured = r.assured /\ x.phase = r.phase /\ x.dev = r.dev
      /\ x.ev = r.ev /\ x.gen = r.gen /\ x.epoch = r.epoch /\ x.status = r.status
      /\ SameDates(r, x)
  BY DEF RunRecords, SameDates
<1> HIDE DEF x
<1>4. Usable(r)
  BY SoundUsable
<1>5. Usable(x)
  BY <1>3, <1>4 DEF Usable, PackageCarried, CompletedProven, Binding
<1> QED BY <1>1, <1>2, <1>3, <1>5, RefreshSound DEF SameDates

-----------------------------------------------------------------------------
(* What a step carries over.                                               *)

\* While a contract is frozen, all evidence was collected with every finding
\* that is open now already open.
Dated(r) == r.contract # None => \A o \in r.obs : r.rework \subseteq o.open

\* So was what a command of the run's writer is about to record.
InFlight(r, x, writer) ==
  x.pc = "collected" \/ (x.pc = "observe" /\ writer = r.owner) =>
    r.contract # None /\ \A o \in x.obs : r.rework \subseteq o.open

DatingInv == Dated(s) /\ \A p \in Procs : InFlight(s, st[p], OwnerOf[p])

Carried ==
  /\ ServiceTypeOK' /\ Sound(s')
  /\ OneCommandPerWriter /\ DatingInv => DatingInv'
  /\ s.contract # None \/ s.rework \subseteq s'.rework
  /\ DriftNeedsHuman'

Before == ServiceTypeOK /\ Sound(s)

\* What processes do stays typed, and other commands than p's are either over
\* or where they were, past their candidate at most.
LEMMA AppendEffect ==
  ASSUME Before, NEW p \in Procs, NEW states,
         NEW next \in [pc : Steps, obs : SUBSET Observations], AppendState(p, states, next)
  PROVE  /\ st'[p] = next
         /\ st' \in [Procs -> [pc : Steps, obs : SUBSET Observations]]
         /\ \A q \in Procs \ {p} :
              \/ st'[q] = Idle
              \/ st'[q] = st[q] /\ st[q].pc # "collected"
<1>1. Idle \in [pc : Steps, obs : SUBSET Observations]
  BY DEF Idle, Steps
<1>2. st' = [q \in Procs |-> IF q = p THEN next
                             ELSE IF st[q].pc \in Rereads THEN st[q] ELSE Idle]
  BY DEF AppendState
<1> QED BY <1>1, <1>2 DEF Before, ServiceTypeOK, Rereads

\* An append that leaves what evidence is dated by alone, by a command that
\* then holds no evidence.
LEMMA DatesStay ==
  ASSUME Before, DatingInv, NEW p \in Procs, NEW states, SameDates(s, s'),
         NEW next \in [pc : Steps, obs : SUBSET Observations], AppendState(p, states, next),
         next.pc \notin {"collected", "observe"}
  PROVE  DatingInv'
<1>1. st'[p] = next /\ \A q \in Procs \ {p} : st'[q] = Idle \/ st'[q] = st[q]
  BY AppendEffect
<1>2. Dated(s')
  BY DEF DatingInv, Dated, SameDates
<1>3. ASSUME NEW q \in Procs PROVE InFlight(s', st'[q], OwnerOf[q])
  BY <1>1, <1>3 DEF DatingInv, InFlight, SameDates, Idle
<1> QED BY <1>2, <1>3 DEF DatingInv

\* An append by the writer, when no other command acts for it.
LEMMA WriterDates ==
  ASSUME Before, OneCommandPerWriter, NEW p \in Procs, NEW states,
         NEW next \in [pc : Steps, obs : SUBSET Observations], AppendState(p, states, next),
         s'.owner = OwnerOf[p], Dated(s'), InFlight(s', next, OwnerOf[p])
  PROVE  DatingInv'
<1>1. st'[p] = next /\ \A q \in Procs \ {p} :
        st'[q] = Idle \/ (st'[q] = st[q] /\ st[q].pc # "collected")
  BY AppendEffect
<1>2. ASSUME NEW q \in Procs PROVE InFlight(s', st'[q], OwnerOf[q])
  <2>1. CASE q = p
    BY <1>1, <2>1
  <2>2. CASE q # p
    <3>1. OwnerOf[q] # s'.owner
      BY <2>2 DEF OneCommandPerWriter
    <3> QED BY <1>1, <2>2, <3>1 DEF InFlight, Idle
  <2> QED BY <2>1, <2>2
<1> QED BY <1>2 DEF DatingInv

\* Counting a step off the straight path keeps the count a number.
LEMMA DetourTyped ==
  ASSUME Before, Straight \/ Detour PROVE detours' \in Nat
BY DEF Before, ServiceTypeOK, Straight, Detour

\* An idle process is typed and holds nothing.
LEMMA IdleTyped ==
  Idle \in [pc : Steps, obs : SUBSET Observations] /\ Idle.pc = "idle"
BY DEF Idle, Steps

\* The commands of the writer that leave what evidence is dated by alone.
LEMMA PlainCommand ==
  ASSUME Before, NEW p \in Procs, NEW states, Command(p, states),
         s' \in RunRecords, Sound(s'), SameDates(s, s'),
         Straight \/ Detour, accepted' = Nothing
  PROVE  Carried
<1>1. AppendState(p, states, Idle)
  BY DEF Command, AppendState
<1>3. ServiceTypeOK'
  BY <1>1, IdleTyped, AppendEffect, DetourTyped DEF ServiceTypeOK
<1>2. DatingInv => DatingInv'
  BY <1>1, IdleTyped, DatesStay
<1>4. DriftNeedsHuman'
  BY DEF DriftNeedsHuman, Nothing
<1> QED BY <1>2, <1>3, <1>4 DEF Carried, SameDates

\* The other commands of the writer: what they leave must be dated.
LEMMA DatingCommand ==
  ASSUME Before, NEW p \in Procs, NEW states, Command(p, states),
         s' \in RunRecords, Sound(s'), s'.owner = s.owner,
         DatingInv => Dated(s'), s.contract # None \/ s.rework \subseteq s'.rework,
         Straight \/ Detour, DriftNeedsHuman'
  PROVE  Carried
<1>1. AppendState(p, states, Idle) /\ s.owner = OwnerOf[p]
  BY DEF Command, AppendState, Writer
<1>3. ServiceTypeOK'
  BY <1>1, IdleTyped, AppendEffect, DetourTyped DEF ServiceTypeOK
<1>2. OneCommandPerWriter /\ DatingInv => DatingInv'
  <2>1. InFlight(s', Idle, OwnerOf[p])
    BY <1>1, IdleTyped DEF InFlight
  <2> QED BY <1>1, <2>1, IdleTyped, WriterDates
<1> QED BY <1>2, <1>3 DEF Carried

-----------------------------------------------------------------------------
(* One lemma per action.                                                   *)

\* A freeze starts over: nothing observed counts any more.
LEMMA FreezeStep ==
  ASSUME Before, NEW p \in Procs, NEW v \in Versions, Freeze(p, v) PROVE Carried
<1> DEFINE states == ContractFrozen(s, v, RequiresOracleAssurance)
<1>1. Command(p, states) /\ (Straight \/ Detour) /\ accepted' = Nothing /\ s' \in states
  BY DEF Freeze, Command, AppendState
<1>2. s \in RunRecords /\ Sound(s) /\ RequiresOracleAssurance \in BOOLEAN
  BY DEF Before, ServiceTypeOK, RequiresOracleAssurance, RunRecords
<1>3. s' \in RunRecords /\ Sound(s') /\ s'.owner = s.owner /\ s'.rework = s.rework /\ s'.obs = {}
  BY <1>1, <1>2, FreezeSound
<1>4. Dated(s') /\ DriftNeedsHuman'
  BY <1>1, <1>3 DEF Dated, DriftNeedsHuman, Nothing
<1> HIDE DEF states
<1> QED BY <1>1, <1>3, <1>4, DatingCommand

\* A pin names the oracle, and the package made for it.
LEMMA PinOracleStep ==
  ASSUME Before, NEW p \in Procs, NEW d \in Oracles, NEW b \in BOOLEAN, PinOracle(p, d, b)
  PROVE  Carried
<1> DEFINE states == OraclePinned(s, d, b)
<1>1. /\ Command(p, states) /\ Straight /\ accepted' = Nothing /\ s' \in states
      /\ s.phase = PinPhase
  BY DEF PinOracle, Command, AppendState
<1>2. s' \in RunRecords /\ Sound(s') /\ SameDates(s, s')
  BY <1>1, PinSound DEF Before, ServiceTypeOK
<1> HIDE DEF states
<1> QED BY <1>1, <1>2, PlainCommand

\* Custody is recorded for this very revision.
LEMMA RecordCustodyStep ==
  ASSUME Before, NEW p \in Procs, NEW m \in {"author", "assignment"}, RecordCustody(p, m)
  PROVE  Carried
<1> DEFINE states == OracleCustody(s, m)
<1>1. Command(p, states) /\ Detour /\ accepted' = Nothing /\ s' \in states
  BY DEF RecordCustody, Command, AppendState
<1>2. s' \in RunRecords /\ Sound(s') /\ SameDates(s, s')
  BY <1>1, CustodySound DEF Before, ServiceTypeOK
<1> HIDE DEF states
<1> QED BY <1>1, <1>2, PlainCommand

\* An attempt collects with the findings open now already open.
LEMMA CollectStep ==
  ASSUME Before, NEW p \in Procs, NEW c \in Candidates, NEW k \in Criteria, Collect(p, c, k)
  PROVE  Carried
<1> DEFINE o == [crit |-> k, cand |-> c, def |-> s.contract, open |-> s.rework]
           next == [pc |-> "collected", obs |-> {o}]
<1>1. /\ AppendState(p, {s}, next) /\ s' = s /\ s.owner = OwnerOf[p] /\ s.contract # None
      /\ Straight \/ Detour
      /\ accepted' = Nothing
  BY DEF Collect, MayVerify, AppendState, Writer
<1>2. o \in Observations
  BY <1>1 DEF Before, ServiceTypeOK, Observations, RunRecords
<1>3. next \in [pc : Steps, obs : SUBSET Observations]
  BY <1>2 DEF Steps
<1>4. InFlight(s, next, OwnerOf[p])
  BY <1>1 DEF InFlight
<1> HIDE DEF next
<1>5. ServiceTypeOK' /\ Sound(s')
  BY <1>1, <1>3, AppendEffect, DetourTyped DEF ServiceTypeOK, Before
<1>6. OneCommandPerWriter /\ DatingInv => DatingInv'
  <2> SUFFICES ASSUME OneCommandPerWriter, DatingInv PROVE DatingInv'
    OBVIOUS
  <2>1. Dated(s') /\ InFlight(s', next, OwnerOf[p]) /\ s'.owner = OwnerOf[p]
    BY <1>1, <1>4 DEF DatingInv
  <2> QED BY <1>1, <1>3, <2>1, WriterDates
<1> QED BY <1>1, <1>5, <1>6 DEF Carried, DriftNeedsHuman, Nothing

\* The candidate append drops evidence, and the command keeps its own.
LEMMA RecordCandidateStep ==
  ASSUME Before, NEW p \in Procs, RecordCandidate(p) PROVE Carried
<1>1. PICK o \in st[p].obs :
        AppendState(p, CandidateChanged(s, o.cand), [st[p] EXCEPT !.pc = "observe"])
  BY DEF RecordCandidate
<1> DEFINE next == [st[p] EXCEPT !.pc = "observe"]
           states == CandidateChanged(s, o.cand)
<1>2. /\ st[p].pc = "collected" /\ s.owner = OwnerOf[p] /\ Straight /\ accepted' = Nothing
      /\ s' \in states
  BY <1>1 DEF RecordCandidate, Writer, AppendState
<1>3. st[p] \in [pc : Steps, obs : SUBSET Observations]
  BY DEF Before, ServiceTypeOK
<1>4. /\ next \in [pc : Steps, obs : SUBSET Observations]
      /\ next.pc = "observe" /\ next.obs = st[p].obs /\ o.cand \in Candidates
  BY <1>3 DEF Steps, Observations
<1>5. /\ s' \in RunRecords /\ Sound(s') /\ s'.obs = {} /\ s'.owner = s.owner
      /\ s'.contract = s.contract /\ s'.rework = s.rework
  BY <1>2, <1>4, CandidateSound DEF Before, ServiceTypeOK
<1> HIDE DEF next, states
<1>6. ServiceTypeOK'
  BY <1>1, <1>2, <1>4, <1>5, AppendEffect, DetourTyped DEF ServiceTypeOK, next
<1>7. OneCommandPerWriter /\ DatingInv => DatingInv'
  <2> SUFFICES ASSUME OneCommandPerWriter, DatingInv PROVE DatingInv'
    OBVIOUS
  <2>1. InFlight(s, st[p], OwnerOf[p])
    BY DEF DatingInv
  <2>2. Dated(s') /\ InFlight(s', next, OwnerOf[p]) /\ s'.owner = OwnerOf[p]
    BY <1>2, <1>4, <1>5, <2>1 DEF Dated, InFlight
  <2>3. AppendState(p, states, next)
    BY <1>1 DEF next, states
  <2> QED BY <1>4, <2>2, <2>3, WriterDates
<1> QED BY <1>2, <1>5, <1>6, <1>7 DEF Carried, DriftNeedsHuman, Nothing

\* What is recorded was dated when it was collected.
LEMMA RecordObservationStep ==
  ASSUME Before, NEW p \in Procs, RecordObservation(p) PROVE Carried
<1>1. PICK o \in st[p].obs :
        /\ st[p].pc \in {"observe", "collected"}
        /\ AppendState(p, Observed(s, o), Idle)
  BY DEF RecordObservation
<1> DEFINE states == Observed(s, o)
<1>2. /\ s.owner = OwnerOf[p] /\ Straight /\ accepted' = Nothing /\ s' \in states
  BY <1>1 DEF RecordObservation, Writer, AppendState
<1>3. o \in Observations
  BY DEF Before, ServiceTypeOK
<1>4. /\ s' \in RunRecords /\ Sound(s') /\ s'.obs = s.obs \cup {o} /\ s'.owner = s.owner
      /\ s'.contract = s.contract /\ s'.rework = s.rework
  BY <1>2, <1>3, ObservationSound DEF Before, ServiceTypeOK
<1>5. AppendState(p, states, Idle)
  BY <1>1
<1> HIDE DEF states
<1>6. ServiceTypeOK'
  BY <1>2, <1>4, <1>5, IdleTyped, AppendEffect, DetourTyped DEF ServiceTypeOK
<1>7. OneCommandPerWriter /\ DatingInv => DatingInv'
  <2> SUFFICES ASSUME OneCommandPerWriter, DatingInv PROVE DatingInv'
    OBVIOUS
  <2>1. InFlight(s, st[p], OwnerOf[p]) /\ Dated(s)
    BY DEF DatingInv
  <2>2. s.rework \subseteq o.open
    BY <1>1, <1>2, <2>1 DEF InFlight
  <2>3. Dated(s') /\ InFlight(s', Idle, OwnerOf[p]) /\ s'.owner = OwnerOf[p]
    BY <1>2, <1>4, <2>1, <2>2, IdleTyped DEF Dated, InFlight
  <2> QED BY <1>5, <2>3, IdleTyped, WriterDates
<1> QED BY <1>2, <1>4, <1>6, <1>7 DEF Carried, DriftNeedsHuman, Nothing

\* A command that ends takes its evidence along.
LEMMA AbandonStep ==
  ASSUME Before, NEW p \in Procs, Abandon(p) PROVE Carried
<1>1. /\ st' = [st EXCEPT ![p] = Idle] /\ accepted' = Nothing /\ s' = s /\ detours' = detours
  BY DEF Abandon
<1>2. ServiceTypeOK'
  BY <1>1, IdleTyped DEF ServiceTypeOK, Before
<1>3. \A q \in Procs : st'[q] = IF q = p THEN Idle ELSE st[q]
  BY <1>1 DEF ServiceTypeOK, Before
<1>4. DatingInv => DatingInv'
  BY <1>1, <1>3, IdleTyped DEF DatingInv, InFlight
<1> QED BY <1>1, <1>2, <1>4 DEF Carried, DriftNeedsHuman, Nothing, Before

\* Acceptance compares the frozen contract with the source's, or with the
\* drift a human resolved.
LEMMA AcceptanceResolved ==
  ASSUME NEW v \in Versions, NEW K, VerifyCriteria(v, K),
         accepted' = <<s.contract, v>>, UNCHANGED resolved
  PROVE  DriftNeedsHuman' /\ s.contract # None
BY DEF VerifyCriteria, ResolvedDrift, DriftNeedsHuman

\* Advancing takes the contract away, or completes the run.
LEMMA AdvanceStep ==
  ASSUME Before, NEW p \in Procs, NEW v \in Versions, NEW K \in SUBSET Criteria,
         NEW d \in Oracles \cup {None}, Advance(p, v, K, d)
  PROVE  Carried
<1> DEFINE package == RequiresOracleAssurance /\ s.phase = PinPhase
           rt == IF RequiresOracleAssurance /\ s.phase \in EvidencePhases
                 THEN Evidence(K \cap {"r"}) ELSE {}
           states == IF s.phase = LastPhase THEN Completed(s) ELSE Advanced(s, d, package, rt)
<1>1. /\ Command(p, states) /\ Straight /\ accepted' = <<s.contract, v>> /\ s' \in states
      /\ VerifyCriteria(v, K) /\ UNCHANGED resolved
  BY DEF Advance, Command, AppendState
<1>2. s \in RunRecords /\ Sound(s) /\ d \in OracleDigests
  BY DEF Before, ServiceTypeOK, OracleDigests
<1>3. package \in BOOLEAN /\ (s.pkg # None /\ s.phase = PinPhase => package)
  BY DEF RequiresOracleAssurance
<1>4. DriftNeedsHuman' /\ s.contract # None
  BY <1>1, AcceptanceResolved
<1>5. s' \in RunRecords /\ Sound(s') /\ s'.owner = s.owner /\ (DatingInv => Dated(s'))
  <2>1. CASE s.phase = LastPhase
    <3>1. s' \in Completed(s)
      BY <1>1, <2>1
    <3>2. s' \in RunRecords /\ Sound(s') /\ SameDates(s, s')
      BY <1>2, <3>1, CompletionSound
    <3> QED BY <3>2 DEF SameDates, DatingInv, Dated
  <2>2. CASE s.phase # LastPhase
    <3>1. s' \in Advanced(s, d, package, rt)
      BY <1>1, <2>2
    <3> HIDE DEF package, rt
    <3>2. s' \in RunRecords /\ Sound(s') /\ s'.contract = None /\ s'.owner = s.owner
      BY <1>2, <1>3, <3>1, AdvanceSound
    <3> QED BY <3>2 DEF Dated
  <2> QED BY <2>1, <2>2
<1> HIDE DEF states
<1> QED BY <1>1, <1>4, <1>5, DatingCommand

\* A resolved drift does not touch the run.
LEMMA ResolveEscalationStep ==
  ASSUME Before, NEW p \in Procs, NEW v \in Versions, ResolveEscalation(p, v) PROVE Carried
<1>1. Command(p, {s}) /\ Detour /\ accepted' = Nothing /\ s' = s
  BY DEF ResolveEscalation, Command, AppendState
<1>2. s' \in RunRecords /\ Sound(s') /\ SameDates(s, s')
  BY <1>1 DEF Before, ServiceTypeOK, SameDates
<1> QED BY <1>1, <1>2, PlainCommand

\* A return opens a finding and takes the contract away.
LEMMA ReturnStep ==
  ASSUME Before, NEW p \in Procs, Return(p) PROVE Carried
<1> DEFINE states == ReturnedTo(s, detours + 1)
<1>1. Command(p, states) /\ Detour /\ accepted' = Nothing /\ s' \in states
  BY DEF Return, Command, AppendState
<1>2. detours + 1 \in Nat
  BY DEF Before, ServiceTypeOK
<1>3. /\ s' \in RunRecords /\ Sound(s') /\ s'.contract = None
      /\ s'.owner = s.owner /\ s'.rework = s.rework \cup {detours + 1}
  BY <1>1, <1>2, ReturnSound DEF Before, ServiceTypeOK
<1>4. Dated(s') /\ DriftNeedsHuman'
  BY <1>1, <1>3 DEF Dated, DriftNeedsHuman, Nothing
<1> HIDE DEF states
<1> QED BY <1>1, <1>3, <1>4, DatingCommand

\* Resolving a finding happens under a frozen contract.
LEMMA ResolveReworkStep ==
  ASSUME Before, NEW p \in Procs, NEW f \in s.rework, NEW v \in Versions,
         NEW K \in SUBSET Criteria, ResolveRework(p, f, v, K)
  PROVE  Carried
<1> DEFINE states == ReworkResolved(s, f, Evidence({"c"}))
<1>1. /\ Command(p, states) /\ Straight /\ accepted' = <<s.contract, v>> /\ s' \in states
      /\ VerifyCriteria(v, K) /\ UNCHANGED resolved
  BY DEF ResolveRework, Command, AppendState
<1>2. DriftNeedsHuman' /\ s.contract # None
  BY <1>1, AcceptanceResolved
<1>3. /\ s' \in RunRecords /\ Sound(s') /\ s'.rework = s.rework \ {f}
      /\ s'.owner = s.owner /\ s'.contract = s.contract /\ s'.obs = s.obs
  BY <1>1, ReworkSound DEF Before, ServiceTypeOK
<1>4. DatingInv => Dated(s')
  BY <1>3 DEF DatingInv, Dated
<1> HIDE DEF states
<1> QED BY <1>1, <1>2, <1>3, <1>4, DatingCommand

\* A pause or a block touches the status alone.
LEMMA RecordHaltStep ==
  ASSUME Before, NEW p \in Procs, NEW k \in {"paused", "blocked"}, RecordHalt(p, k)
  PROVE  Carried
<1> DEFINE states == Halted(s, k)
<1>1. Command(p, states) /\ Detour /\ accepted' = Nothing /\ s' \in states
  BY DEF RecordHalt, Command, AppendState
<1>2. s' \in RunRecords /\ Sound(s') /\ SameDates(s, s')
  BY <1>1, HaltSound DEF Before, ServiceTypeOK
<1> HIDE DEF states
<1> QED BY <1>1, <1>2, PlainCommand

\* A revocation touches the epoch and what was proved in the last.
LEMMA GrantRevokedStep ==
  ASSUME Before, NEW p \in Procs, GrantRevoked(p) PROVE Carried
<1> DEFINE n == Refresh([s EXCEPT !.epoch = @ + 1])
<1>1. Command(p, {n}) /\ Detour /\ accepted' = Nothing /\ s' = n /\ ~Terminal(s)
  BY DEF GrantRevoked, Command, AppendState, Takes
<1>2. n \in RunRecords /\ Sound(n) /\ SameDates(s, n)
  BY <1>1, RevocationSound DEF Before, ServiceTypeOK
<1> HIDE DEF n
<1> QED BY <1>1, <1>2, PlainCommand

\* Appends that leave what evidence is dated by alone, by commands that hold no
\* evidence: the safe stop and the settling of operations before a take-over.
LEMMA PlainAppend ==
  ASSUME Before, NEW p \in Procs, NEW states, NEW pc \in Steps \ {"collected", "observe"},
         AppendState(p, states, [Idle EXCEPT !.pc = pc]),
         s' \in RunRecords, Sound(s'), SameDates(s, s'),
         Straight \/ Detour, accepted' = Nothing
  PROVE  Carried
<1> DEFINE next == [Idle EXCEPT !.pc = pc]
<1>1. next \in [pc : Steps, obs : SUBSET Observations] /\ next.pc = pc
  BY DEF Idle
<1> HIDE DEF next
<1>2. AppendState(p, states, next)
  BY DEF next
<1>3. ServiceTypeOK'
  BY <1>1, <1>2, AppendEffect, DetourTyped DEF ServiceTypeOK
<1>4. DatingInv => DatingInv'
  BY <1>1, <1>2, DatesStay
<1>5. DriftNeedsHuman'
  BY DEF DriftNeedsHuman, Nothing
<1> QED BY <1>3, <1>4, <1>5 DEF Carried, SameDates

\* A refused admission is a record only.
LEMMA BudgetRefusedStep ==
  ASSUME Before, NEW p \in Procs, BudgetRefused(p) PROVE Carried
<1>1. /\ AppendState(p, {s}, [Idle EXCEPT !.pc = "refused"])
      /\ Detour /\ accepted' = Nothing /\ s' = s
  BY DEF BudgetRefused, AppendState
<1>2. "refused" \in Steps \ {"collected", "observe"}
  BY DEF Steps, StopSteps
<1>3. s' \in RunRecords /\ Sound(s') /\ SameDates(s, s')
  BY <1>1 DEF Before, ServiceTypeOK, SameDates
<1> QED BY <1>1, <1>2, <1>3, PlainAppend

\* The steps of the safe stop touch the status and its operation.
LEMMA SafeStopStep ==
  ASSUME Before, NEW p \in Procs, SafeStop(p) PROVE Carried
<1>1. Straight /\ accepted' = Nothing
  BY DEF SafeStop
<1>2. {"idle", "paused", "planned", "submitted"} \subseteq Steps \ {"collected", "observe"}
  BY DEF Steps, StopSteps
<1>3. CASE AppendState(p, Halted(s, "paused"), [Idle EXCEPT !.pc = "paused"])
  <2>1. s' \in Halted(s, "paused")
    BY <1>3 DEF AppendState
  <2>2. s' \in RunRecords /\ Sound(s') /\ SameDates(s, s')
    BY <2>1, HaltSound DEF Before, ServiceTypeOK
  <2> QED BY <1>1, <1>2, <1>3, <2>2, PlainAppend
<1>4. ASSUME NEW to \in OpStates, NEW pc \in {"idle", "planned", "submitted"},
             AppendState(p, Operated(s, StopOp, to, FALSE, FALSE), [Idle EXCEPT !.pc = pc])
      PROVE  Carried
  <2>1. s' \in Operated(s, StopOp, to, FALSE, FALSE)
    BY <1>4 DEF AppendState
  <2>2. s' \in RunRecords /\ Sound(s') /\ SameDates(s, s')
    BY <2>1, OperationSound, ServiceAssumption DEF Before, ServiceTypeOK
  <2> QED BY <1>1, <1>2, <1>4, <2>2, PlainAppend
<1>5. Idle = [Idle EXCEPT !.pc = "idle"]
  BY DEF Idle
<1>6. {"planned", "submitted", "confirmed", "unknown"} \subseteq OpStates
  BY DEF OpStates
<1>7. \/ AppendState(p, Halted(s, "paused"), [Idle EXCEPT !.pc = "paused"])
      \/ AppendState(p, Operated(s, StopOp, "planned", FALSE, FALSE),
                     [Idle EXCEPT !.pc = "planned"])
      \/ AppendState(p, Operated(s, StopOp, "submitted", FALSE, FALSE),
                     [Idle EXCEPT !.pc = "submitted"])
      \/ \E to \in {"confirmed", "unknown"} :
           AppendState(p, Operated(s, StopOp, to, FALSE, FALSE), [Idle EXCEPT !.pc = "idle"])
  BY <1>5 DEF SafeStop
<1> QED BY <1>3, <1>4, <1>6, <1>7

\* Settling before a take-over touches its operation alone.
LEMMA SettleStep ==
  ASSUME Before, NEW p \in Procs, NEW to \in Outcomes, SettleForTakeover(p, to) PROVE Carried
<1> DEFINE states == Operated(s, StopOp, to, FALSE, TRUE)
<1>1. /\ AppendState(p, states, [Idle EXCEPT !.pc = "takeover"])
      /\ Straight /\ accepted' = Nothing /\ s' \in states
  BY DEF SettleForTakeover, AppendState
<1>2. to \in OpStates /\ "takeover" \in Steps \ {"collected", "observe"}
  BY DEF Steps, Outcomes, OpStates
<1>3. s' \in RunRecords /\ Sound(s') /\ SameDates(s, s')
  BY <1>1, <1>2, OperationSound, ServiceAssumption DEF Before, ServiceTypeOK
<1> HIDE DEF states
<1> QED BY <1>1, <1>2, <1>3, PlainAppend

\* The run changes hands; nobody holds evidence for the new writer.
LEMMA ResumeStep ==
  ASSUME Before, NEW p \in Procs, NEW b \in BOOLEAN, Resume(p, b) PROVE Carried
<1> DEFINE states == Resumed(s, OwnerOf[p], b)
<1>1. AppendState(p, states, Idle) /\ Detour /\ accepted' = Nothing /\ s' \in states
  BY DEF Resume, AppendState
<1>2. OwnerOf[p] \in Writers
  BY DEF Writers
<1>3. /\ s' \in RunRecords /\ Sound(s') /\ s'.owner = OwnerOf[p]
      /\ s'.contract = s.contract /\ s'.rework = s.rework /\ s'.obs \subseteq s.obs
  BY <1>1, <1>2, ResumeSound DEF Before, ServiceTypeOK
<1> HIDE DEF states
<1>4. ServiceTypeOK'
  BY <1>1, <1>3, IdleTyped, AppendEffect, DetourTyped DEF ServiceTypeOK
<1>5. OneCommandPerWriter /\ DatingInv => DatingInv'
  <2> SUFFICES ASSUME OneCommandPerWriter, DatingInv PROVE DatingInv'
    OBVIOUS
  <2>1. Dated(s') /\ InFlight(s', Idle, OwnerOf[p])
    BY <1>3, IdleTyped DEF DatingInv, Dated, InFlight
  <2> QED BY <1>1, <1>3, <2>1, IdleTyped, WriterDates
<1> QED BY <1>1, <1>3, <1>4, <1>5 DEF Carried, DriftNeedsHuman, Nothing

-----------------------------------------------------------------------------
(* The theorems.                                                           *)

RunInv == ServiceTypeOK /\ Sound(s) /\ DriftNeedsHuman

\* Every step keeps the run sound.
LEMMA RunStep ==
  ASSUME Before, NextRun, ~(UNCHANGED runVars) PROVE Carried
<1>1. ~Done
  BY DEF Done
<1>2. CASE \E p \in Procs, v \in Versions, K \in SUBSET Criteria, d \in Oracles \cup {None} :
             Advance(p, v, K, d)
  BY <1>2, AdvanceStep
<1>3. CASE \E p \in Procs, v \in Versions, K \in SUBSET Criteria, f \in s.rework :
             ResolveRework(p, f, v, K)
  BY <1>3, ResolveReworkStep
<1>4. CASE \E p \in Procs, v \in Versions : Freeze(p, v) \/ ResolveEscalation(p, v)
  BY <1>4, FreezeStep, ResolveEscalationStep
<1>5. CASE \E p \in Procs, d \in Oracles, b \in BOOLEAN : PinOracle(p, d, b)
  BY <1>5, PinOracleStep
<1>6. CASE \E p \in Procs, m \in {"author", "assignment"} : RecordCustody(p, m)
  BY <1>6, RecordCustodyStep
<1>7. CASE \E p \in Procs, c \in Candidates, k \in Criteria : Collect(p, c, k)
  BY <1>7, CollectStep
<1>8. CASE \E p \in Procs : RecordCandidate(p) \/ RecordObservation(p) \/ Abandon(p)
  BY <1>8, RecordCandidateStep, RecordObservationStep, AbandonStep
<1>9. CASE \E p \in Procs : Return(p) \/ GrantRevoked(p) \/ BudgetRefused(p) \/ SafeStop(p)
  BY <1>9, ReturnStep, GrantRevokedStep, BudgetRefusedStep, SafeStopStep
<1>10. CASE \E p \in Procs, k \in {"paused", "blocked"} : RecordHalt(p, k)
  BY <1>10, RecordHaltStep
<1>11. CASE \E p \in Procs, to \in Outcomes : SettleForTakeover(p, to)
  BY <1>11, SettleStep
<1>12. CASE \E p \in Procs, b \in BOOLEAN : Resume(p, b)
  BY <1>12, ResumeStep
<1> QED BY <1>1, <1>2, <1>3, <1>4, <1>5, <1>6, <1>7, <1>8, <1>9, <1>10, <1>11, <1>12
        DEF NextRun

\* A run that starts holds no proof and no evidence.
LEMMA RunStarts ==
  ASSUME InitRun PROVE RunInv /\ DatingInv
<1>1. PICK p \in Procs, required \in BOOLEAN : s = Started(OwnerOf[p], required)
  BY DEF InitRun
<1>2. s \in RunRecords
  BY <1>1 DEF Started, RunRecords, Writers, OracleDigests, OpStates, LastPhase
<1>3. /\ s.ev = {} /\ s.custody = {} /\ s.obs = {} /\ s.pkg = None /\ s.status = "active"
      /\ s.contract = None
  BY <1>1 DEF Started
<1>4. Sound(s) /\ Dated(s)
  BY <1>3 DEF Sound, ProofsBind, Dated
<1>5. st \in [Procs -> [pc : Steps, obs : SUBSET Observations]] /\ detours \in Nat
  BY IdleTyped DEF InitRun
<1>6. \A q \in Procs : InFlight(s, st[q], OwnerOf[q])
  BY IdleTyped DEF InFlight, InitRun
<1>7. DriftNeedsHuman
  BY DEF DriftNeedsHuman, InitRun, Nothing
<1> QED BY <1>2, <1>4, <1>5, <1>6, <1>7 DEF RunInv, ServiceTypeOK, DatingInv

\* A step that changes nothing keeps everything.
LEMMA RunStutters ==
  ASSUME RunInv, UNCHANGED runVars PROVE RunInv' /\ (DatingInv => DatingInv')
<1>1. s' = s /\ st' = st /\ detours' = detours /\ resolved' = resolved /\ accepted' = accepted
  BY DEF runVars
<1>2. DriftNeedsHuman'
  BY <1>1 DEF RunInv, DriftNeedsHuman
<1>3. ServiceTypeOK' /\ Sound(s')
  BY <1>1 DEF RunInv, ServiceTypeOK
<1>4. DatingInv => DatingInv'
  BY <1>1 DEF DatingInv
<1> QED BY <1>2, <1>3, <1>4 DEF RunInv

\* A sound revision holds only current proofs, and was completed on them.
LEMMA SoundIsCurrent ==
  ASSUME RunInv PROVE RunCurrent
<1>1. EvidenceCurrent
  BY DEF RunInv, Sound, ProofsBind, EvidenceCurrent
<1>2. AssuredCompletion
  BY DEF RunInv, Sound, CompletedProven, PackageCarried, AssuredCompletion
<1> QED BY <1>1, <1>2 DEF RunCurrent, RunInv

\* The type invariant and soundness hold in every reachable state.
LEMMA RunInvariant == RunSpec => []RunInv
<1>1. InitRun => RunInv
  BY RunStarts
<1>2. RunInv /\ [NextRun]_runVars => RunInv'
  <2> SUFFICES ASSUME RunInv, [NextRun]_runVars PROVE RunInv'
    OBVIOUS
  <2>1. CASE UNCHANGED runVars
    BY <2>1, RunStutters
  <2>2. CASE NextRun /\ ~(UNCHANGED runVars)
    BY <2>2, RunStep DEF RunInv, Before, Carried
  <2> QED BY <2>1, <2>2
<1> QED BY <1>1, <1>2, PTL DEF RunSpec

\* What a run rests on is current in every reachable state: its runtime
\* evidence, custody, observations and oracle package bind the candidate, oracle,
\* writer generation and epoch it has now; an assured run completed on evidence of
\* that kind, with the package its developer was entered with; and a drifted
\* contract was accepted only when a human resolved that very drift.  For any
\* number of processes, also several of one writer.
THEOREM RunRestsOnCurrent == RunSpec => []RunCurrent
BY RunInvariant, SoundIsCurrent, PTL

\* As long as no writer runs two commands at a time, a finding is resolved only
\* by evidence collected after the return that raised it.
THEOREM ReworkBringsNewEvidence == RunSpec => ReworkNeedsNewEvidence
<1> DEFINE Inv == RunInv /\ (OneCommandPerWriter => DatingInv)
<1>1. InitRun => Inv
  BY RunStarts
<1>2. Inv /\ [NextRun]_runVars => Inv' /\ [ResolvedOnNewEvidence]_runVars
  <2> SUFFICES ASSUME Inv, [NextRun]_runVars PROVE Inv' /\ [ResolvedOnNewEvidence]_runVars
    OBVIOUS
  <2>1. CASE UNCHANGED runVars
    BY <2>1, RunStutters
  <2>2. CASE NextRun /\ ~(UNCHANGED runVars)
    <3>1. Carried
      BY <2>2, RunStep DEF RunInv, Before
    <3>2. Inv'
      BY <3>1 DEF Carried, RunInv, OneCommandPerWriter
    <3>3. ResolvedOnNewEvidence
      BY <3>1 DEF ResolvedOnNewEvidence, Carried, DatingInv, Dated, Evidence
    <3> QED BY <3>2, <3>3
  <2> QED BY <2>1, <2>2
<1> QED BY <1>1, <1>2, PTL DEF RunSpec, ReworkNeedsNewEvidence

-----------------------------------------------------------------------------
(* What opens a spec (WorkAltitude).                                       *)

\* Answers are never withdrawn.
LEMMA AnswersStay ==
  ASSUME SpecsAgreed, answers \subseteq answers', UNCHANGED specs
  PROVE  SpecsAgreed'
BY DEF SpecsAgreed

\* Opening a spec takes a person's agreement to what the capability says then.
LEMMA OpenIsAgreed ==
  ASSUME SpecsAgreed, NEW consent \in Consents, OpenSpec(consent)
  PROVE  SpecsAgreed'
<1> DEFINE answer == consent.attestation
           class == capability.changeClass
           spec == [text |-> capability.text, changeClass |-> class]
<1>1. answer \in answers
  BY DEF Consents
<1>2. requireConsent(consent, IF requiresPersonReview(capability)
                              THEN capabilitySubject(capability.text)
                              ELSE revision(capability.text, class))
  BY DEF OpenSpec, mayOpenSpec
<1>3. /\ answer.reviewer = "person" /\ answer.decision = "agree"
      /\ answer.reviewedDigest = IF class = "high-assurance"
                                 THEN capabilitySubject(capability.text)
                                 ELSE revision(capability.text, class)
  BY <1>2 DEF requireConsent, satisfyGate, validateReviewAttestation, isHumanReviewer,
              requiresPersonReview
<1>4. spec.text = capability.text /\ spec.changeClass = class
  OBVIOUS
<1>5. specs' = specs \cup {spec} /\ answers' = answers
  BY DEF OpenSpec
<1> HIDE DEF spec, class, answer
<1>6. \E a \in answers' :
        /\ a.reviewer = "person" /\ a.decision = "agree"
        /\ \/ a.reviewedDigest = revision(spec.text, spec.changeClass)
           \/ /\ spec.changeClass = "high-assurance"
              /\ a.reviewedDigest = capabilitySubject(spec.text)
  BY <1>1, <1>3, <1>4, <1>5
<1> QED BY <1>5, <1>6 DEF SpecsAgreed

\* The theorem SpecsAreAgreed: whoever edits the goal, the capability, its class
\* and its admission, in any order, a spec opens only on a text that a person
\* agreed to, together with its class unless that has the strictest review.
THEOREM SpecsAreAgreed == AltitudeSpec => []SpecsAgreed
<1>1. InitAltitude => SpecsAgreed
  BY DEF InitAltitude, SpecsAgreed
<1>2. SpecsAgreed /\ [NextAltitude]_altitudeVars => SpecsAgreed'
  <2> SUFFICES ASSUME SpecsAgreed, [NextAltitude]_altitudeVars PROVE SpecsAgreed'
    OBVIOUS
  <2>1. CASE UNCHANGED specs /\ answers \subseteq answers'
    BY <2>1, AnswersStay
  <2>2. ASSUME NEW class, NEW text, NEW consent, OpenCapability(class, text, consent)
        PROVE  SpecsAgreed'
    BY <2>1, <2>2 DEF OpenCapability
  <2>3. ASSUME NEW subject, NEW reviewer, NEW decision, Answer(subject, reviewer, decision)
        PROVE  SpecsAgreed'
    BY <2>1, <2>3 DEF Answer
  <2>4. ASSUME NEW text, EditGoal(text) PROVE SpecsAgreed'
    BY <2>1, <2>4 DEF EditGoal
  <2>5. ASSUME NEW text, NEW class, NEW admission, EditCapability(text, class, admission)
        PROVE  SpecsAgreed'
    BY <2>1, <2>5 DEF EditCapability
  <2>6. CASE UNCHANGED altitudeVars
    BY <2>1, <2>6 DEF altitudeVars
  <2> QED BY <2>2, <2>3, <2>4, <2>5, <2>6, OpenIsAgreed DEF NextAltitude
<1> QED BY <1>1, <1>2, PTL DEF AltitudeSpec

-----------------------------------------------------------------------------
(* What a goal's ledger claims (WorkProjection).                           *)

RecordTyped(r) ==
  /\ r.marker \in Kinds \cup {"malformed", "none"}
  /\ r.parents \in Seq(Nat) /\ r.replaces \in Seq(Nat)

\* Goals are not written over, and a ledger says whether it is ready.
ProjectionInv ==
  /\ Goals \subseteq DOMAIN records
  /\ \A g \in Goals : records[g] = GoalRecord
  /\ \A n \in DOMAIN records : RecordTyped(records[n])
  /\ ledger.written \in BOOLEAN
  /\ ledger.written => ledger.ready \in BOOLEAN

LEMMA WrittenTyped ==
  ASSUME NEW draft \in Drafts, NEW delivered
  PROVE  RecordTyped(Written(draft, delivered))
<1>1. draft \in DraftType
  BY DraftAssumption
<1>2. /\ DOMAIN draft = {"marker", "named", "titled", "worn", "parents", "replaces", "epics"}
      /\ draft.marker \in Kinds \cup {"malformed", "none"}
      /\ draft.parents \in Seq(Nat) /\ draft.replaces \in Seq(Nat)
  BY <1>1 DEF DraftType
<1>3. /\ Written(draft, delivered).marker = draft.marker
      /\ Written(draft, delivered).parents = draft.parents
      /\ Written(draft, delivered).replaces = draft.replaces
  BY <1>2 DEF Written
<1> QED BY <1>2, <1>3 DEF RecordTyped

LEMMA ProjectionStep ==
  ASSUME ProjectionInv, [NextProjection]_projectionVars
  PROVE  ProjectionInv'
<1>1. ASSUME NEW n \in Parts \ DOMAIN records, NEW draft \in Drafts, OpenRecord(n, draft)
      PROVE  ProjectionInv'
  BY <1>1, WrittenTyped, NumberAssumption DEF OpenRecord, ProjectionInv
<1>2. ASSUME NEW n \in DOMAIN records \cap Parts, NEW draft \in Drafts, EditRecord(n, draft)
      PROVE  ProjectionInv'
  BY <1>2, WrittenTyped, NumberAssumption DEF EditRecord, ProjectionInv
<1>3. ASSUME NEW n \in DOMAIN records \cap Parts, NEW delivered \in BOOLEAN,
             MarkDelivered(n, delivered)
      PROVE  ProjectionInv'
  <2>1. /\ DOMAIN records' = DOMAIN records /\ UNCHANGED ledger
        /\ \A m \in DOMAIN records : m # n => records'[m] = records[m]
        /\ records'[n] = [records[n] EXCEPT !.delivered = delivered]
    BY <1>3 DEF MarkDelivered
  <2>2. /\ records'[n].marker = records[n].marker /\ records'[n].parents = records[n].parents
        /\ records'[n].replaces = records[n].replaces
    BY <2>1
  <2>3. \A m \in DOMAIN records' : RecordTyped(records'[m])
    BY <2>1, <2>2 DEF ProjectionInv, RecordTyped
  <2>4. n \notin Goals
    BY NumberAssumption
  <2> QED BY <2>1, <2>3, <2>4 DEF ProjectionInv
<1>4. CASE WriteLedger
  <2>1. ledger'.written = TRUE /\ ledger'.ready = readyForClosure(records, Goal)
        /\ UNCHANGED records
    BY <1>4 DEF WriteLedger, renderGoalPartsLedger
  <2>2. readyForClosure(records, Goal) \in BOOLEAN
    BY DEF readyForClosure
  <2> QED BY <2>1, <2>2 DEF ProjectionInv
<1>5. CASE UNCHANGED projectionVars
  BY <1>5 DEF projectionVars, ProjectionInv
<1> QED BY <1>1, <1>2, <1>3, <1>4, <1>5 DEF NextProjection

\* Only the marker makes a record a capability.
LEMMA CapabilityMarked ==
  ASSUME NEW r, RecordTyped(r), workShape(r) = "capability"
  PROVE  r.marker = "capability"
<1>1. CASE r.marker \in Kinds
  BY <1>1 DEF workShape
<1>2. CASE r.marker \notin Kinds
  BY <1>2 DEF workShape, RecordTyped
<1> QED BY <1>1, <1>2

\* A capability the audit says nothing of names one parent.
LEMMA CleanCapability ==
  ASSUME NEW n, NEW r, RecordTyped(r), workShape(r) = "capability",
         ~workProjectionFindings(n, r)
  PROVE  Len(r.parents) = 1
<1>1. r.marker = "capability" /\ r.marker \in Kinds
  BY CapabilityMarked DEF Kinds
<1>2. workProjectionFindings(n, r) <=>
             \/ r.named \notin {"none", r.marker}
             \/ r.titled # r.marker
             \/ r.worn # {r.marker}
             \/ parentFindings(r, r.marker)
             \/ r.replaces # <<>> /\ r.marker # "capability"
             \/ Len(r.replaces) > 1
             \/ r.replaces # <<>> /\ r.replaces[1] = n
  BY <1>1 DEF workProjectionFindings
<1> QED BY <1>1, <1>2 DEF parentFindings

\* A clean audit and a ready ledger make the goal's parts delivered, and a note
\* that is no part was taken over by one of them.
LEMMA ClosureFollows == ProjectionInv => ClosureSound
<1> SUFFICES ASSUME ProjectionInv,
                    \A n \in DOMAIN records : ~validateIssueAgainstSdlc(records, n),
                    ledger.written, ledger.ready,
                    NEW n \in DOMAIN records, records[n].parents = <<Goal>>
             PROVE  CASE workShape(records[n]) = "note" -> Covered(n)
                      [] workShape(records[n]) \in {"capability", "spec"} -> records[n].delivered
                      [] OTHER -> TRUE
  BY DEF ClosureSound
<1> DEFINE parts == currentParts(records, Goal)
<1>1. Goal \in DOMAIN records /\ workShape(records[Goal]) = "goal"
  BY NumberAssumption DEF ProjectionInv, GoalRecord, workShape, Kinds
<1>2. ~goalLedgerFindings(records, Goal)
  BY <1>1 DEF validateIssueAgainstSdlc
<1>3. ledger.ready = readyForClosure(records, Goal)
  BY <1>2 DEF goalLedgerFindings
<1>4. \A m \in parts : admitted(records[m]) /\ records[m].delivered
  BY <1>3 DEF readyForClosure
<1>5. CASE workShape(records[n]) \in {"capability", "spec"}
  <2>1. n \in parts
    BY <1>5 DEF currentParts
  <2> QED BY <1>4, <1>5, <2>1
<1>6. CASE workShape(records[n]) = "note"
  <2>1. n \notin parts
    BY <1>4, <1>6 DEF admitted
  <2>2. n \in DOMAIN resolveReplacements(records)
    BY <1>6, <2>1 DEF currentParts
  <2>3. PICK m : m \in Claimants(records, n)
    BY <2>2 DEF resolveReplacements
  <2>4. /\ m \in DOMAIN records /\ workShape(records[m]) = "capability"
        /\ Len(records[m].replaces) = 1 /\ records[m].replaces[1] = n
        /\ FirstParent(records[m]) = FirstParent(records[n])
    BY <2>3 DEF Claimants, Replacers, claims
  <2>5. RecordTyped(records[m])
    BY <2>4 DEF ProjectionInv
  <2>6. Len(records[m].parents) = 1
    BY <2>4, <2>5, CleanCapability DEF validateIssueAgainstSdlc
  <2>7. records[m].replaces = <<n>>
    BY <2>4, <2>5 DEF RecordTyped
  <2>8. records[m].parents = <<records[m].parents[1]>>
    BY <2>5, <2>6 DEF RecordTyped
  <2>9. FirstParent(records[m]) = records[m].parents[1] /\ FirstParent(records[n]) = Goal
    BY <2>8 DEF FirstParent
  <2>10. records[m].parents = <<Goal>>
    BY <2>4, <2>8, <2>9
  <2>11. m \in parts
    BY <2>4, <2>10 DEF currentParts
  <2>12. Covered(n)
    BY <1>4, <2>4, <2>7, <2>10, <2>11 DEF Covered
  <2> QED BY <1>6, <2>12
<1> QED BY <1>5, <1>6

\* The theorem ClosuresAreSound: however records are opened, edited, delivered
\* and reopened, a clean audit and a ledger that says ready mean that everything
\* broken out of the goal is delivered or taken over by what is delivered.
THEOREM ClosuresAreSound == ProjectionSpec => []ClosureSound
<1>1. InitProjection => ProjectionInv
  <2> SUFFICES ASSUME InitProjection PROVE ProjectionInv
    OBVIOUS
  <2>1. RecordTyped(GoalRecord)
    BY DEF RecordTyped, GoalRecord, Kinds
  <2>2. ledger.written = FALSE
    BY DEF InitProjection, NoLedger
  <2> QED BY <2>1, <2>2 DEF InitProjection, ProjectionInv
<1>2. ProjectionInv /\ [NextProjection]_projectionVars => ProjectionInv'
  BY ProjectionStep
<1> QED BY <1>1, <1>2, ClosureFollows, PTL DEF ProjectionSpec

-----------------------------------------------------------------------------
(* The world map.                                                          *)

IsLock(l) == l = [atoms |-> l.atoms, claims |-> l.claims]

\* Who is between the confirmation of a proposal and the return of its apply.
ApplyPcs == {"gaps", "manifest", "lock", "applied"}

\* Whatever text is in the lock, or on the way to it, somebody agreed to.
AgreedLock(l, pairs) == IsLock(l) /\ PairsOf(l.atoms) \subseteq pairs

AgreedOp(opSt, pairs) ==
  /\ opSt = [pc |-> opSt.pc, plan |-> opSt.plan]
  /\ opSt.pc \in ApplyPcs => AgreedLock(opSt.plan.lock, pairs)
  /\ opSt.pc = "ack" => AgreedLock(opSt.plan, pairs)

AgreedInv ==
  /\ lock # NoFile => AgreedLock(lock, agreed)
  /\ op = [o \in Operators |-> op[o]]
  /\ \A o \in Operators : AgreedOp(op[o], agreed)

\* A lock without a text nobody agreed to stays one.
LEMMA AgreedGrows ==
  ASSUME NEW P, NEW Q, P \subseteq Q
  PROVE  /\ \A l : AgreedLock(l, P) => AgreedLock(l, Q)
         /\ \A opSt : AgreedOp(opSt, P) => AgreedOp(opSt, Q)
BY DEF AgreedLock, AgreedOp

\* One operator moves.
LEMMA OperatorMoves ==
  ASSUME AgreedInv, NEW o \in Operators, NEW opSt, op' = [op EXCEPT ![o] = opSt],
         AgreedOp(opSt, agreed'), agreed \subseteq agreed',
         UNCHANGED lock \/ AgreedLock(lock', agreed')
  PROVE  AgreedInv'
<1>1. lock' # NoFile => AgreedLock(lock', agreed')
  BY AgreedGrows DEF AgreedInv
<1>2. \A q \in Operators : AgreedOp(op'[q], agreed')
  BY AgreedGrows DEF AgreedInv
<1>3. op' = [q \in Operators |-> op'[q]]
  BY DEF AgreedInv
<1>4. AgreedInv' <=> /\ lock' # NoFile => AgreedLock(lock', agreed')
                     /\ op' = [q \in Operators |-> op'[q]]
                     /\ \A q \in Operators : AgreedOp(op'[q], agreed')
  BY DEF AgreedInv, AgreedOp, AgreedLock, IsLock, PairsOf
<1> QED BY <1>1, <1>2, <1>3, <1>4

\* An operator takes its next step.
LEMMA NextPc ==
  ASSUME NEW P, NEW opSt, AgreedOp(opSt, P), NEW pc
  PROVE  LET t == [opSt EXCEPT !.pc = pc]
         IN t.pc = pc /\ t.plan = opSt.plan /\ t = [pc |-> t.pc, plan |-> t.plan]
BY DEF AgreedOp

\* An idle operator brings nothing.
LEMMA IdleAgreed ==
  ASSUME NEW P
  PROVE  AgreedOp([pc |-> "idle", plan |-> NoPlan], P)
BY DEF AgreedOp, ApplyPcs

\* The proposal that is applied is the confirmed one.
LEMMA ApplyAgreed ==
  ASSUME AgreedInv, NEW o \in Operators, applyWorld(o)
  PROVE  AgreedInv'
<1>1. PICK options \in RefineOptions, allowStubs \in BOOLEAN :
        LET p == plan(options) IN
        /\ p = confirmed[o]
        /\ op' = [op EXCEPT ![o] = [pc |-> IF p.gaps = << >> THEN "manifest" ELSE "gaps",
                                    plan |-> p]]
        /\ agreed' = agreed \cup PairsOf(confirmed[o].lock.atoms)
  BY DEF applyWorld
<1> DEFINE p == plan(options)
           opSt == [pc |-> IF p.gaps = << >> THEN "manifest" ELSE "gaps", plan |-> p]
<1>2. IsLock(p.lock)
  BY DEF plan, digestPayload, IsLock
<1> HIDE DEF p
<1>3. op' = [op EXCEPT ![o] = opSt] /\ agreed' = agreed \cup PairsOf(p.lock.atoms)
  BY <1>1 DEF p
<1>4. AgreedLock(p.lock, agreed')
  BY <1>2, <1>3 DEF AgreedLock
<1>5. AgreedOp(opSt, agreed')
  BY <1>4 DEF AgreedOp, ApplyPcs
<1>6. UNCHANGED lock
  BY DEF applyWorld
<1> HIDE DEF opSt
<1> QED BY <1>3, <1>5, <1>6, OperatorMoves

\* What is acknowledged is agreed to, the rest was in the lock.
LEMMA AckAgreed ==
  ASSUME AgreedInv, NEW o \in Operators, ackWorld(o)
  PROVE  AgreedInv'
<1>1. PICK targets : LET present == [a \in targets |-> resolveAddress(Sections, a)] IN
          /\ op' = [op EXCEPT ![o] =
                      [pc |-> "ack", plan |-> [lock EXCEPT !.atoms = Merge(present, @)]]]
          /\ agreed' = agreed \cup PairsOf(present)
  BY DEF ackWorld
<1> DEFINE present == [a \in targets |-> resolveAddress(Sections, a)]
           l == [lock EXCEPT !.atoms = Merge(present, lock.atoms)]
           opSt == [pc |-> "ack", plan |-> l]
<1>2. lock # NoFile /\ UNCHANGED lock /\ AgreedLock(lock, agreed)
  BY DEF ackWorld, AgreedInv
<1>3. op' = [op EXCEPT ![o] = opSt] /\ agreed' = agreed \cup PairsOf(present)
  BY <1>1
<1> HIDE DEF present
<1>4. IsLock(l) /\ l.atoms = Merge(present, lock.atoms)
  BY <1>2 DEF AgreedLock, IsLock
<1>5. PairsOf(Merge(present, lock.atoms)) \subseteq PairsOf(present) \cup PairsOf(lock.atoms)
  BY DEF PairsOf, Merge
<1> HIDE DEF l
<1>6. AgreedLock(l, agreed')
  BY <1>2, <1>3, <1>4, <1>5 DEF AgreedLock
<1>7. AgreedOp(opSt, agreed')
  BY <1>6 DEF AgreedOp, ApplyPcs
<1> HIDE DEF opSt
<1> QED BY <1>2, <1>3, <1>7, OperatorMoves

\* The writes put in place what was agreed to.
LEMMA WriteAgreed ==
  ASSUME AgreedInv, NEW o \in Operators,
         writeGaps(o) \/ writeManifest(o) \/ writeLock(o)
  PROVE  AgreedInv'
<1>1. PICK pc \in {"manifest", "lock", "applied"} : op' = [op EXCEPT ![o].pc = pc]
  BY DEF writeGaps, writeManifest, writeLock
<1> DEFINE opSt == [op[o] EXCEPT !.pc = pc]
<1>2. op[o].pc \in ApplyPcs /\ AgreedOp(op[o], agreed) /\ agreed' = agreed
  BY DEF writeGaps, writeManifest, writeLock, ApplyPcs, AgreedInv
<1>3. op' = [op EXCEPT ![o] = opSt]
  BY <1>1
<1>4. opSt.pc = pc /\ opSt.plan = op[o].plan /\ opSt = [pc |-> opSt.pc, plan |-> opSt.plan]
  BY <1>2, NextPc
<1> HIDE DEF opSt
<1>5. AgreedOp(opSt, agreed')
  BY <1>1, <1>2, <1>4 DEF AgreedOp, ApplyPcs
<1>6. UNCHANGED lock \/ AgreedLock(lock', agreed')
  BY <1>2 DEF writeGaps, writeManifest, writeLock, AgreedOp
<1> QED BY <1>2, <1>3, <1>5, <1>6, OperatorMoves

\* The acknowledgement is written, or a command ends.
LEMMA EndAgreed ==
  ASSUME AgreedInv, NEW o \in Operators, writeAcknowledged(o) \/ endCommand(o)
  PROVE  AgreedInv'
<1>1. op' = [op EXCEPT ![o] = [pc |-> "idle", plan |-> NoPlan]] /\ agreed' = agreed
  BY DEF writeAcknowledged, endCommand
<1>2. UNCHANGED lock \/ AgreedLock(lock', agreed')
  BY DEF writeAcknowledged, endCommand, AgreedInv, AgreedOp
<1> QED BY <1>1, <1>2, IdleAgreed, OperatorMoves

\* No other step touches the lock or what is on the way to it.
LEMMA AgreedStep ==
  ASSUME AgreedInv, [NextWorld]_worldVars
  PROVE  AgreedInv'
<1>1. CASE UNCHANGED <<lock, op, agreed>>
  BY <1>1 DEF AgreedInv
<1>2. UNCHANGED worldVars => UNCHANGED <<lock, op, agreed>>
  BY DEF worldVars
<1>3. \A o \in Operators : refineWorld(o) => UNCHANGED <<lock, op, agreed>>
  BY DEF refineWorld
<1>4. /\ \A a \in Slugs : EditSection(a) => UNCHANGED <<lock, op, agreed>>
      /\ EditGaps \/ EditConfig \/ EditManifest => UNCHANGED <<lock, op, agreed>>
  BY DEF EditSection, EditGaps, EditConfig, EditManifest, Edit
<1> QED BY <1>1, <1>2, <1>3, <1>4, ApplyAgreed, AckAgreed, WriteAgreed, EndAgreed
        DEF NextWorld

\* At first there is no lock.
LEMMA AgreedStarts ==
  ASSUME InitWorld
  PROVE  AgreedInv
BY IdleAgreed DEF InitWorld, AgreedInv

\* When the doctor reports the map aligned, somebody agreed to each text it
\* compared, whoever refines, applies, acknowledges or edits meanwhile.
THEOREM AlignedIsAgreed == WorldSpec => []AlignedMeansAgreed
<1>1. InitWorld => AgreedInv
  BY AgreedStarts
<1>2. AgreedInv /\ [NextWorld]_worldVars => AgreedInv'
  BY AgreedStep
<1>3. AgreedInv => AlignedMeansAgreed
  <2> SUFFICES ASSUME AgreedInv, readWorldIntegrity, lock # NoFile,
                      NEW a \in DOMAIN manifest \cap DOMAIN lock.atoms
               PROVE  <<a, resolveAddress(Sections, a)>> \in agreed
    BY DEF AlignedMeansAgreed
  <2>1. resolveAddress(Sections, a) = lock.atoms[a]
    BY DEF readWorldIntegrity, driftFindings, pointerFindings
  <2>2. <<a, lock.atoms[a]>> \in agreed
    BY DEF AgreedInv, AgreedLock, PairsOf
  <2> QED BY <2>1, <2>2
<1> QED BY <1>1, <1>2, <1>3, PTL DEF WorldSpec

\* What the scan finds, and what no longer holds, by the state they are of.
SectionsIn(ds, text) ==
  [a \in Addresses |->
     IF a \in Slugs THEN ds[a] ELSE IF a \in DOMAIN text THEN {text[a]} ELSE {}]

BrokenIn(cf, cs) ==
  {c \in cs : IF c.id = "key" THEN cf.key # c.expected ELSE ~cf.cargo}

TextIn(gs) == IF gs = NoFile THEN << >> ELSE gs

\* A proposal that fits the sections it will meet.
Fits(p, sections) ==
  /\ \A a \in DOMAIN p.manifest : Resolves(sections, a) /\ p.manifest[a].sound
  /\ \A a \in DOMAIN p.manifest \cap DOMAIN p.lock.atoms :
       a \notin Replaced(p) => resolveAddress(sections, a) = p.lock.atoms[a]
  /\ CoreRegions \subseteq UNION {p.manifest[a].regions : a \in DOMAIN p.manifest}

\* An apply nobody disturbed: its proposal fits, and what it wrote is there.
Undisturbed(opSt, ds, gs, cf, m, l) ==
  opSt.pc \in ApplyPcs =>
    /\ Fits(opSt.plan, SectionsIn(ds, IF opSt.pc = "gaps" THEN opSt.plan.gaps ELSE TextIn(gs)))
    /\ BrokenIn(cf, opSt.plan.lock.claims) = {}
    /\ opSt.pc = "gaps" => opSt.plan.gaps # NoFile
    /\ opSt.pc \in {"lock", "applied"} => m = opSt.plan.manifest
    /\ opSt.pc = "applied" => l = opSt.plan.lock

QuietInv ==
  /\ op = [o \in Operators |-> op[o]]
  /\ \A o \in Operators : op[o] = [pc |-> op[o].pc, plan |-> op[o].plan]
  /\ \A o \in Operators :
       quiet = o => Undisturbed(op[o], docs, gaps, config, manifest, lock)

\* The operators of the module are those of the state.
LEMMA InThisState ==
  /\ \A text : parseMarkdownSections(text) = SectionsIn(docs, text)
  /\ \A cs : brokenClaims(cs) = BrokenIn(config, cs)
  /\ GapsText = TextIn(gaps) /\ Sections = SectionsIn(docs, TextIn(gaps))
BY DEF parseMarkdownSections, SectionsIn, brokenClaims, BrokenIn, GapsText, TextIn, Sections

\* The atoms of a proposal.
LEMMA ProposedAtoms ==
  ASSUME NEW options \in RefineOptions
  PROVE  LET p == plan(options)
         IN /\ DOMAIN p.gaps \subseteq CoreRegions
            /\ p.gaps # << >> => p.stubGaps
            /\ \A a \in DOMAIN p.manifest : p.manifest[a].sound
            /\ \A a \in DOMAIN p.lock.atoms \ Scanned : a \in DOMAIN p.gaps
            /\ \A a \in Scanned : p.lock.atoms[a] = resolveAddress(Sections, a)
<1> DEFINE p == plan(options)
           stubs == VirtualGaps(options)
<1>1. /\ p.gaps = stubs /\ p.stubGaps = options.stubGaps
      /\ p.manifest = manifestAtoms(stubs) /\ p.lock.atoms = lockAtoms(stubs)
  BY DEF plan, digestPayload
<1>2. DOMAIN stubs \subseteq CoreRegions
  BY DEF VirtualGaps, buildGapStubMarkdown, missingCoreRegions
<1>3. stubs # << >> => options.stubGaps
  BY DEF VirtualGaps
<1> HIDE DEF stubs, p
<1>4. \A a \in DOMAIN manifestAtoms(stubs) : manifestAtoms(stubs)[a].sound
  BY DEF manifestAtoms, Merge
<1>5. \A a \in DOMAIN lockAtoms(stubs) \ Scanned : a \in DOMAIN stubs
  BY DEF lockAtoms, Merge
<1>6. \A a \in Scanned : lockAtoms(stubs)[a] = resolveAddress(Sections, a)
  BY DEF lockAtoms, Merge
<1> QED BY <1>1, <1>2, <1>3, <1>4, <1>5, <1>6 DEF p

\* A proposal of quality fits what it will find once its gaps are written.
LEMMA ProposalFits ==
  ASSUME WorldAssumption, NEW options \in RefineOptions, NEW allowStubs,
         validateWorldQuality(plan(options), allowStubs)
  PROVE  LET p == plan(options)
         IN /\ Fits(p, SectionsIn(docs, IF p.gaps # << >> THEN p.gaps ELSE TextIn(gaps)))
            /\ BrokenIn(config, p.lock.claims) = {}
            /\ p.gaps # NoFile
<1> DEFINE p == plan(options)
           text == IF p.gaps # << >> THEN p.gaps ELSE TextIn(gaps)
           sections == SectionsIn(docs, text)
<1>1. /\ DOMAIN p.gaps \subseteq CoreRegions
      /\ p.gaps # << >> => p.stubGaps
      /\ \A a \in DOMAIN p.manifest : p.manifest[a].sound
      /\ \A a \in DOMAIN p.lock.atoms \ Scanned : a \in DOMAIN p.gaps
      /\ \A a \in Scanned : p.lock.atoms[a] = resolveAddress(Sections, a)
  BY ProposedAtoms
<1>2. /\ unresolvedAddresses(p) = {} /\ uncoveredRegions(p) = {}
      /\ brokenClaims(p.lock.claims) = {}
  BY DEF validateWorldQuality
<1> HIDE DEF p
<1>3. text = IF p.stubGaps /\ p.gaps # << >> THEN p.gaps ELSE GapsText
  BY <1>1, InThisState
<1>4. \A a \in DOMAIN p.manifest : Resolves(sections, a)
  <2> HIDE DEF text
  <2>1. unresolvedAddresses(p) = {a \in DOMAIN p.manifest : ~Resolves(sections, a)}
    BY <1>3, InThisState DEF unresolvedAddresses
  <2> QED BY <1>2, <2>1
<1>5. CoreRegions \subseteq UNION {p.manifest[a].regions : a \in DOMAIN p.manifest}
  BY <1>2 DEF uncoveredRegions
<1>6. BrokenIn(config, p.lock.claims) = {}
  BY <1>2, InThisState
<1>7. p.gaps # NoFile
  <2>1. "missing" \notin DOMAIN p.gaps
    BY <1>1 DEF WorldAssumption
  <2>2. DOMAIN NoFile = {"missing"}
    BY DEF NoFile
  <2> QED BY <2>1, <2>2
<1>8. ASSUME NEW a \in DOMAIN p.manifest \cap DOMAIN p.lock.atoms, a \notin Replaced(p)
      PROVE  resolveAddress(sections, a) = p.lock.atoms[a]
  <2>1. CASE a \in DOMAIN p.gaps
    <3>1. a \in GapSlugs /\ a \notin Slugs /\ a \in Addresses
      BY <1>1, <2>1 DEF WorldAssumption, GapSlugs, Addresses
    <3>2. p.gaps # << >>
      BY <2>1
    <3>3. sections[a] = {p.gaps[a]}
      BY <2>1, <3>1, <3>2 DEF SectionsIn
    <3>4. p.lock.atoms[a] = p.gaps[a]
      BY <1>8, <2>1 DEF Replaced
    <3> QED BY <3>3, <3>4 DEF resolveAddress
  <2>2. CASE a \notin DOMAIN p.gaps
    <3>1. a \in Scanned /\ p.lock.atoms[a] = resolveAddress(Sections, a)
      BY <1>1, <1>8, <2>2
    <3>2. a \in Addresses
      BY <3>1 DEF Scanned
    <3>3. CASE a \in Slugs
      <4>1. sections[a] = docs[a] /\ Sections[a] = docs[a]
        BY <3>2, <3>3, InThisState DEF SectionsIn
      <4> QED BY <3>1, <4>1 DEF resolveAddress
    <3>4. CASE a \notin Slugs /\ p.gaps # << >>
      <4>1. sections[a] = {}
        BY <2>2, <3>2, <3>4 DEF SectionsIn
      <4>2. Resolves(sections, a)
        BY <1>4
      <4> HIDE DEF sections, p
      <4>3. Cardinality(sections[a]) = 0
        BY <4>1, FS_EmptySet
      <4>4. Cardinality(sections[a]) = 1
        BY <4>2 DEF Resolves
      <4>5. FALSE
        BY <4>3, <4>4
      <4> QED BY <4>5
    <3>5. CASE p.gaps = << >>
      <4>1. sections = Sections
        BY <3>5, InThisState
      <4> QED BY <3>1, <4>1
    <3> QED BY <3>3, <3>4, <3>5
  <2> QED BY <2>1, <2>2
<1> HIDE DEF sections
<1>9. Fits(p, sections)
  BY <1>1, <1>4, <1>5, <1>8 DEF Fits
<1> QED BY <1>6, <1>7, <1>9 DEF p, sections

\* One operator moves, and nobody else counts as undisturbed unless he was.
LEMMA QuietMoves ==
  ASSUME QuietInv, NEW o \in Operators, NEW opSt, op' = [op EXCEPT ![o] = opSt],
         opSt = [pc |-> opSt.pc, plan |-> opSt.plan],
         \A q \in Operators \ {o} : quiet' = q =>
           quiet = q /\ UNCHANGED <<docs, gaps, config, manifest, lock>>,
         quiet' = o => Undisturbed(opSt, docs', gaps', config', manifest', lock')
  PROVE  QuietInv'
<1>1. op'[o] = opSt /\ \A q \in Operators \ {o} : op'[q] = op[q]
  BY DEF QuietInv
<1>2. op' = [q \in Operators |-> op'[q]]
  BY DEF QuietInv
<1>3. \A q \in Operators : op'[q] = [pc |-> op'[q].pc, plan |-> op'[q].plan]
  BY <1>1 DEF QuietInv
<1>4. ASSUME NEW q \in Operators, quiet' = q
      PROVE  Undisturbed(op'[q], docs', gaps', config', manifest', lock')
  BY <1>1, <1>4 DEF QuietInv
<1>5. QuietInv' <=>
        /\ op' = [q \in Operators |-> op'[q]]
        /\ \A q \in Operators : op'[q] = [pc |-> op'[q].pc, plan |-> op'[q].plan]
        /\ \A q \in Operators :
             quiet' = q => Undisturbed(op'[q], docs', gaps', config', manifest', lock')
  BY DEF QuietInv, Undisturbed, Fits, Resolves, resolveAddress, Replaced
<1> QED BY <1>2, <1>3, <1>4, <1>5

\* Nobody is undisturbed any more, or nothing has happened to him.
LEMMA QuietStays ==
  ASSUME QuietInv, UNCHANGED op,
         \/ quiet' = Nobody /\ WorldAssumption
         \/ UNCHANGED <<docs, gaps, config, manifest, lock, quiet>>
  PROVE  QuietInv'
<1>1. CASE quiet' = Nobody /\ WorldAssumption
  BY <1>1 DEF QuietInv, WorldAssumption
<1>2. CASE UNCHANGED <<docs, gaps, config, manifest, lock, quiet>>
  BY <1>2 DEF QuietInv
<1> QED BY <1>1, <1>2

\* Confirmed again, checked again: the apply begins undisturbed.
LEMMA ApplyQuiet ==
  ASSUME WorldAssumption, QuietInv, NEW o \in Operators, applyWorld(o)
  PROVE  QuietInv'
<1>1. PICK options \in RefineOptions, allowStubs \in BOOLEAN :
        LET p == plan(options) IN
        /\ validateWorldQuality(p, allowStubs)
        /\ op' = [op EXCEPT ![o] = [pc |-> IF p.gaps = << >> THEN "manifest" ELSE "gaps",
                                    plan |-> p]]
  BY DEF applyWorld
<1> DEFINE p == plan(options)
           opSt == [pc |-> IF p.gaps = << >> THEN "manifest" ELSE "gaps", plan |-> p]
<1>2. op' = [op EXCEPT ![o] = opSt] /\ validateWorldQuality(p, allowStubs)
  BY <1>1
<1>3. /\ Fits(p, SectionsIn(docs, IF p.gaps # << >> THEN p.gaps ELSE TextIn(gaps)))
      /\ BrokenIn(config, p.lock.claims) = {}
      /\ p.gaps # NoFile
  BY <1>2, ProposalFits
<1>4. quiet' = o /\ UNCHANGED <<docs, gaps, config, manifest, lock>>
  BY DEF applyWorld
<1> HIDE DEF p
<1>5. opSt.plan = p /\ opSt = [pc |-> opSt.pc, plan |-> opSt.plan]
      /\ IF p.gaps # << >> THEN opSt.pc = "gaps" ELSE opSt.pc = "manifest"
  OBVIOUS
<1> HIDE DEF opSt
<1>6. Undisturbed(opSt, docs, gaps, config, manifest, lock)
  BY <1>3, <1>5 DEF Undisturbed
<1> QED BY <1>2, <1>4, <1>5, <1>6, QuietMoves

\* Each write leaves what the proposal says, or somebody else is disturbed.
LEMMA WriteQuiet ==
  ASSUME WorldAssumption, QuietInv, NEW o \in Operators,
         writeGaps(o) \/ writeManifest(o) \/ writeLock(o)
  PROVE  QuietInv'
<1>1. PICK pc \in {"manifest", "lock", "applied"} :
        /\ op' = [op EXCEPT ![o].pc = pc]
        /\ pc = "manifest" => /\ op[o].pc = "gaps" /\ gaps' = op[o].plan.gaps
                              /\ UNCHANGED <<manifest, lock>>
        /\ pc = "lock" => /\ op[o].pc = "manifest" /\ manifest' = op[o].plan.manifest
                          /\ UNCHANGED <<gaps, lock>>
        /\ pc = "applied" => /\ op[o].pc = "lock" /\ lock' = op[o].plan.lock
                             /\ UNCHANGED <<gaps, manifest>>
  BY DEF writeGaps, writeManifest, writeLock
<1> DEFINE opSt == [op[o] EXCEPT !.pc = pc]
<1>2. op' = [op EXCEPT ![o] = opSt]
  BY <1>1
<1>3. opSt.pc = pc /\ opSt.plan = op[o].plan /\ opSt = [pc |-> opSt.pc, plan |-> opSt.plan]
  BY DEF QuietInv
<1> HIDE DEF opSt
<1>4. UNCHANGED <<docs, config>> /\ (quiet' = IF quiet = o THEN o ELSE Nobody)
  BY DEF writeGaps, writeManifest, writeLock, Touch
<1>5. \A q \in Operators \ {o} : quiet' # q
  BY <1>4 DEF WorldAssumption
<1>6. ASSUME quiet' = o PROVE Undisturbed(opSt, docs', gaps', config', manifest', lock')
  <2>1. quiet = o
    BY <1>4, <1>6 DEF WorldAssumption
  <2>2. Undisturbed(op[o], docs, gaps, config, manifest, lock)
    BY <2>1 DEF QuietInv
  <2>3. CASE pc = "manifest"
    BY <1>1, <1>3, <1>4, <2>2, <2>3 DEF Undisturbed, ApplyPcs, TextIn
  <2>4. CASE pc = "lock"
    BY <1>1, <1>3, <1>4, <2>2, <2>4 DEF Undisturbed, ApplyPcs
  <2>5. CASE pc = "applied"
    BY <1>1, <1>3, <1>4, <2>2, <2>5 DEF Undisturbed, ApplyPcs
  <2> QED BY <2>3, <2>4, <2>5
<1> QED BY <1>2, <1>3, <1>5, <1>6, QuietMoves

\* An acknowledgement, and the end of a command.
LEMMA OtherQuiet ==
  ASSUME WorldAssumption, QuietInv, NEW o \in Operators,
         ackWorld(o) \/ writeAcknowledged(o) \/ endCommand(o)
  PROVE  QuietInv'
<1>1. quiet' = Nobody \/ UNCHANGED <<docs, gaps, config, manifest, lock, quiet>>
  BY DEF ackWorld, writeAcknowledged, endCommand
<1>2. \A q \in Operators \ {o} : quiet' = q =>
        quiet = q /\ UNCHANGED <<docs, gaps, config, manifest, lock>>
  BY <1>1 DEF WorldAssumption
<1>3. ASSUME NEW pc \in {"idle", "ack"}, NEW x,
             op' = [op EXCEPT ![o] = [pc |-> pc, plan |-> x]]
      PROVE  QuietInv'
  <2> DEFINE opSt == [pc |-> pc, plan |-> x]
  <2>1. opSt.pc = pc /\ opSt = [pc |-> opSt.pc, plan |-> opSt.plan]
    OBVIOUS
  <2>2. op' = [op EXCEPT ![o] = opSt]
    BY <1>3
  <2> HIDE DEF opSt
  <2>3. Undisturbed(opSt, docs', gaps', config', manifest', lock')
    BY <2>1 DEF Undisturbed, ApplyPcs
  <2> QED BY <1>2, <2>1, <2>2, <2>3, QuietMoves
<1>4. CASE ackWorld(o)
  <2>1. PICK x : op' = [op EXCEPT ![o] = [pc |-> "ack", plan |-> x]]
    BY <1>4 DEF ackWorld
  <2> QED BY <1>3, <2>1
<1>5. CASE writeAcknowledged(o) \/ endCommand(o)
  <2>1. op' = [op EXCEPT ![o] = [pc |-> "idle", plan |-> NoPlan]]
    BY <1>5 DEF writeAcknowledged, endCommand
  <2> QED BY <1>3, <2>1
<1> QED BY <1>4, <1>5

\* Whoever writes disturbs everybody else.
LEMMA QuietStep ==
  ASSUME WorldAssumption, QuietInv, [NextWorld]_worldVars
  PROVE  QuietInv'
<1>1. UNCHANGED worldVars => UNCHANGED <<docs, gaps, config, manifest, lock, quiet, op>>
  BY DEF worldVars
<1>2. \A o \in Operators :
        refineWorld(o) => UNCHANGED <<docs, gaps, config, manifest, lock, quiet, op>>
  BY DEF refineWorld
<1>3. /\ \A a \in Slugs : EditSection(a) => quiet' = Nobody /\ UNCHANGED op
      /\ EditGaps \/ EditConfig \/ EditManifest => quiet' = Nobody /\ UNCHANGED op
  BY DEF EditSection, EditGaps, EditConfig, EditManifest, Edit
<1> QED BY <1>1, <1>2, <1>3, QuietStays, ApplyQuiet, WriteQuiet, OtherQuiet DEF NextWorld

\* At first nobody applies anything.
LEMMA QuietStarts ==
  ASSUME WorldAssumption, InitWorld
  PROVE  QuietInv
BY DEF InitWorld, QuietInv, WorldAssumption

\* An apply that nobody disturbed leaves a map that says what the documents say,
\* but for the gap sections its stubs have just replaced.
THEOREM ApplyIsSound == WorldSpec => []AppliedIsSound
<1> USE WorldAssumption
<1>1. InitWorld => QuietInv
  BY QuietStarts
<1>2. QuietInv /\ [NextWorld]_worldVars => QuietInv'
  BY QuietStep
<1>3. QuietInv => AppliedIsSound
  <2> SUFFICES ASSUME QuietInv, NEW o \in Operators, quiet = o, op[o].pc = "applied"
               PROVE  /\ pointerFindings = {} /\ atomFindings = {} /\ claimFindings = {}
                      /\ driftFindings \subseteq Replaced(op[o].plan)
                      /\ CoreRegions \subseteq
                           UNION {manifest[a].regions : a \in DOMAIN manifest}
    BY DEF AppliedIsSound
  <2> DEFINE p == op[o].plan
  <2>1. /\ Fits(p, SectionsIn(docs, TextIn(gaps))) /\ BrokenIn(config, p.lock.claims) = {}
        /\ manifest = p.manifest /\ lock = p.lock
    BY DEF QuietInv, Undisturbed, ApplyPcs
  <2>2. Fits(p, Sections)
    BY <2>1, InThisState
  <2> HIDE DEF p
  <2>3. pointerFindings = {} /\ atomFindings = {}
    BY <2>1, <2>2 DEF Fits, pointerFindings, atomFindings
  <2>4. claimFindings = {}
    BY <2>1, InThisState DEF claimFindings
  <2>5. driftFindings \subseteq Replaced(p)
    BY <2>1, <2>2 DEF Fits, driftFindings
  <2>6. CoreRegions \subseteq UNION {manifest[a].regions : a \in DOMAIN manifest}
    BY <2>1, <2>2 DEF Fits
  <2> QED BY <2>3, <2>4, <2>5, <2>6 DEF p
<1> QED BY <1>1, <1>2, <1>3, PTL DEF WorldSpec

=============================================================================
