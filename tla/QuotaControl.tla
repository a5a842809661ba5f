--------------------------- MODULE QuotaControl ----------------------------
(* Quota control of one seat (lib/config/quota-policy.mjs): reports of the   *)
(* provider's remaining quota arrive late, out of order or in conflict; the  *)
(* policy classifies them, judges every subscription by its configured       *)
(* windows, and tells the host to continue, hold, reach a checkpoint, switch *)
(* to another subscription of the seat's distribution, or park.              *)
(*                                                                           *)
(* Time is counted in ticks of ten seconds, the least maxObservationAgeMs.   *)
EXTENDS Integers, Sequences, FiniteSets

CONSTANTS
  Catalog,        \* the approved models (execution-distribution.mjs, PROFILE)
  SubscriptionOf, \* the subscription whose budget a model spends
  FamilyOf,       \* the provider family of a subscription
  RoleOptions,    \* the seat's routes, as the distribution selection lists them
  SavedPolicies,  \* the quotaControl objects a project may have saved
  Reports,        \* what an observation may say, and how far its timestamp
                  \* lies from its arrival: [source, mode, pct, skew]
  MaxObservations,\* how many reports, by the number of configured windows
  Exclusions,     \* the sets of families a reviewer may have to avoid
  MaxTime,
  NoModel         \* no option selected

\* A timestamp is a number.
ASSUME ReportAssumption == \A r \in Reports : r.skew \in Int

AllowedWindows == {"weekly", "five-hour"}
AgeFloor == 1
AgeCeiling == 8640
DefaultAge == 30

Subscriptions == {SubscriptionOf[m] : m \in Catalog}
Ran(s) == {s[i] : i \in DOMAIN s}

VARIABLES
  policy,       \* the resolved policy (one that does not validate is refused)
  observations, \* the reports handed to the evaluation, in order of arrival
  current,      \* the model the seat works with (currentOption)
  switches,     \* when the host applied a proposed fallback (switchHistory)
  now

quotaVars == <<policy, observations, current, switches, now>>

-----------------------------------------------------------------------------
(* The policy.                                                               *)

defaultQuotaControlPolicy ==
  [enabled |-> FALSE, windows |-> <<"weekly">>, threshold |-> 25,
   windowThresholds |-> <<>>, cadence |-> "phase-boundary",
   maxAge |-> DefaultAge, cooldown |-> 30, maxSwitches |-> 2,
   action |-> "approved-fallback-or-park"]

validateWindows(windows) ==
  /\ windows # <<>>
  /\ Ran(windows) \subseteq AllowedWindows
  /\ Cardinality(Ran(windows)) = Len(windows)

validateThresholds(p) ==
  /\ p.threshold \in 1..99
  /\ \A w \in DOMAIN p.windowThresholds :
       w \in AllowedWindows /\ p.windowThresholds[w] \in 1..99

validateLimits(p) ==
  /\ p.maxAge \in AgeFloor..AgeCeiling
  /\ p.cooldown \in Nat
  /\ p.maxSwitches \in 1..10
  /\ p.cadence \in {"phase-boundary", "slice-boundary", "turn-boundary"}
  /\ p.action \in {"approved-fallback-or-park", "park-only"}

validateQuotaControlPolicyShape(p) ==
  /\ validateWindows(p.windows)
  /\ validateThresholds(p)
  /\ validateLimits(p)

\* A field the project saved wins over what the steering agreement implies,
\* which wins over the default.
resolveQuotaControlPolicy(saved, steeringMode) ==
  LET steered == IF steeringMode = "park-and-checkpoint"
                 THEN [defaultQuotaControlPolicy EXCEPT !.action = "park-only"]
                 ELSE defaultQuotaControlPolicy
  IN [f \in DOMAIN steered |->
        IF f \in DOMAIN saved THEN saved[f] ELSE steered[f]]

-----------------------------------------------------------------------------
(* The distribution of the seat.                                             *)

validateOptions(options) ==
  /\ options \in Seq(Catalog)
  /\ Len(options) = 3
  /\ Cardinality(Ran(options)) = 3
  /\ Cardinality({SubscriptionOf[options[i]] : i \in DOMAIN options}) >= 2

ASSUME DistributionAssumption == validateOptions(RoleOptions)

\* A subscription with one availability record that has not expired.
FreshAvailability(a, age) ==
  /\ a.observedAt <= now
  /\ now < a.expiresAt
  /\ now - a.observedAt <= age
  /\ a.expiresAt - a.observedAt <= age

\* The first option, in the order of the role, whose family is not excluded
\* and whose subscription is known to be healthy.
selectDistributionRoute(availability, excluded, maxAge) ==
  LET age == IF maxAge \in AgeFloor..AgeCeiling THEN maxAge ELSE DefaultAge
      Eligible(m) ==
        LET records == {a \in availability :
                          a.subscription = SubscriptionOf[m]}
        IN /\ FamilyOf[SubscriptionOf[m]] \notin excluded
           /\ Cardinality(records) = 1
           /\ \A a \in records :
                FreshAvailability(a, age) /\ a.status = "healthy"
      eligible == {i \in DOMAIN RoleOptions : Eligible(RoleOptions[i])}
  IN IF eligible = {} THEN NoModel
     ELSE RoleOptions[CHOOSE i \in eligible : \A j \in eligible : i <= j]

-----------------------------------------------------------------------------
(* One observation.                                                          *)

\* Observations of tokens or transcripts carry no subscription and are dropped.
IsQuota(o) == o.source \notin {"transcript", "context-window"}

Threshold(w) ==
  IF w \in DOMAIN policy.windowThresholds
  THEN policy.windowThresholds[w] ELSE policy.threshold

\* A rejected observation keeps no timestamp unless only its percentage is bad.
classifyQuotaObservation(o) ==
  LET Verdict(health, at, pct) ==
        [subscription |-> o.subscription, window |-> o.window,
         health |-> health, at |-> at, pct |-> pct]
  IN CASE o.source # "provider" \/ o.at > now -> Verdict("invalid", 0, -1)
       [] o.source = "provider" /\ o.at <= now ->
          CASE now - o.at > policy.maxAge -> Verdict("stale", o.at, -1)
            [] now - o.at <= policy.maxAge /\ o.mode = "unavailable" ->
               Verdict("unavailable", o.at, o.pct)
            [] now - o.at <= policy.maxAge /\ o.mode # "unavailable" ->
               IF o.pct \notin 0..100 THEN Verdict("invalid", o.at, -1)
               ELSE Verdict(IF o.pct < Threshold(o.window)
                            THEN "threshold-crossed" ELSE "healthy",
                            o.at, o.pct)

-----------------------------------------------------------------------------
(* The pool of a subscription: its configured windows together.              *)

\* The observations of one window, by their place in the order of arrival.
WindowItems(sub, w) ==
  {i \in DOMAIN observations :
     LET o == observations[i] IN IsQuota(o) /\ o.subscription = sub /\ o.window = w}

classified(i) == classifyQuotaObservation(observations[i])

\* Newest first; of the same age, in order of arrival (a stable sort).
Before(i, j) ==
  \/ classified(i).at > classified(j).at
  \/ classified(i).at = classified(j).at /\ i < j

\* Mutant: the first report of a window to arrive is the one that counts.
NewestArrivedFirst(items) == CHOOSE i \in items : \A j \in items : i <= j

Newest(items) == CHOOSE i \in items : \A j \in items \ {i} : Before(i, j)

\* Only the first two are compared, and only by timestamp and percentage.
Ambiguous(items) ==
  LET first == classified(Newest(items))
      second == classified(Newest(items \ {Newest(items)}))
  IN /\ Cardinality(items) > 1
     /\ first.at = second.at
     /\ first.pct # second.pct

\* The status of a subscription, in the order the code asks its questions.
PoolStatus(sub) ==
  LET windows == Ran(policy.windows)
      items == [w \in windows |-> WindowItems(sub, w)]
      seen == {w \in windows : items[w] # {}}
      healths == {classified(Newest(items[w])).health : w \in seen}
  IN IF \E w \in seen : Ambiguous(items[w]) THEN "unknown"
     ELSE IF "threshold-crossed" \in healths THEN "threshold-crossed"
     ELSE IF "unavailable" \in healths THEN "unavailable"
     ELSE IF "invalid" \in healths THEN "unknown"
     ELSE IF "stale" \in healths THEN "stale"
     ELSE IF seen # windows THEN "unknown"
     ELSE "healthy"

\* The age of a pool is the age of its oldest window.
PoolObservedAt(sub) ==
  LET seen == {w \in Ran(policy.windows) : WindowItems(sub, w) # {}}
      at(w) == classified(Newest(WindowItems(sub, w))).at
  IN IF seen = {} THEN now
     ELSE at(CHOOSE w \in seen : \A v \in seen : at(w) <= at(v))

\* Only subscriptions some observation names have a pool.
Pools ==
  {o.subscription : o \in {p \in Ran(observations) : IsQuota(p)}}

evaluateSubscriptionQuotaPools ==
  [sub \in Pools |-> [status |-> PoolStatus(sub), at |-> PoolObservedAt(sub)]]

-----------------------------------------------------------------------------
(* The decision about the seat.                                              *)

\* The availability handed to the router: the subscription being left is
\* unavailable whatever its models.
AvailabilityOf(pools, currentSub) ==
  {[subscription |-> sub,
    status |-> IF sub # currentSub /\ pools[sub].status = "healthy"
               THEN "healthy" ELSE "unavailable",
    observedAt |-> pools[sub].at,
    expiresAt |-> LET e == pools[sub].at + policy.maxAge
                  IN IF e > now + 1 THEN e ELSE now + 1] : sub \in DOMAIN pools}

inCooldown ==
  /\ switches # <<>>
  /\ now - switches[Len(switches)] >= 0
  /\ now - switches[Len(switches)] < policy.cooldown

\* Mutant: the cooldown is asked only when the switches are used up.
MustParkStormy ==
  policy.action = "park-only" \/ (Len(switches) >= policy.maxSwitches /\ inCooldown)

MustPark ==
  \/ policy.action = "park-only"
  \/ Len(switches) >= policy.maxSwitches
  \/ inCooldown

Answer(what, model) == [intervention |-> what, selected |-> model]

\* An eligible route on another budget, or parking with everything preserved.
FallbackOrPark(pools, sub, excluded) ==
  LET route == selectDistributionRoute(AvailabilityOf(pools, sub), excluded,
                                       policy.maxAge)
  IN IF route # NoModel /\ SubscriptionOf[route] # sub
     THEN Answer("checkpoint-and-fallback", route)
     ELSE Answer("park-and-checkpoint", NoModel)

\* atSafeCheckpoint, activeWriter and the excluded families are the host's.
evaluateSeatQuotaControl(atSafeCheckpoint, activeWriter, excluded) ==
  LET pools == evaluateSubscriptionQuotaPools
      sub == SubscriptionOf[current]
      status == IF sub \in DOMAIN pools THEN pools[sub].status ELSE "unknown"
  IN IF ~policy.enabled \/ status = "healthy" THEN Answer("none", current)
     ELSE IF status \in {"unknown", "stale"}
          THEN Answer("hold-unverified-quota", NoModel)
     ELSE IF ~atSafeCheckpoint THEN Answer("reach-safe-checkpoint", NoModel)
     ELSE IF activeWriter \/ MustPark
          THEN Answer("park-and-checkpoint", NoModel)
     ELSE FallbackOrPark(pools, sub, excluded)

-----------------------------------------------------------------------------
InitQuota ==
  /\ \E saved \in SavedPolicies,
        mode \in {"park-and-checkpoint", "approved-fallback-only"} :
       /\ policy = resolveQuotaControlPolicy(saved, mode)
       /\ validateQuotaControlPolicyShape(policy)
  /\ observations = <<>>
  /\ current = RoleOptions[1]
  /\ switches = <<>>
  /\ now = 1

\* A probe, header or operator reports; the report may be late or from a
\* clock that runs ahead.
Observe(sub, w, r) ==
  /\ Len(observations) < MaxObservations[Len(policy.windows)]
  /\ observations' = Append(observations,
       [subscription |-> sub, window |-> w, source |-> r.source,
        mode |-> r.mode, pct |-> r.pct,
        at |-> now + r.skew])
  /\ UNCHANGED <<policy, current, switches, now>>

\* The host applies a proposed fallback at a checkpoint and records the switch.
ApplyFallback(excluded) ==
  /\ LET answer == evaluateSeatQuotaControl(TRUE, FALSE, excluded)
     IN /\ answer.intervention = "checkpoint-and-fallback"
        /\ current' = answer.selected
  /\ switches' = Append(switches, now)
  /\ UNCHANGED <<policy, observations, now>>

Tick ==
  /\ now < MaxTime
  /\ now' = now + 1
  /\ UNCHANGED <<policy, observations, current, switches>>

NextQuota ==
  \/ \E sub \in Subscriptions, w \in Ran(policy.windows), r \in Reports :
       Observe(sub, w, r)
  \/ \E excluded \in Exclusions :
       ApplyFallback(excluded)
  \/ Tick

QuotaSpec == InitQuota /\ [][NextQuota]_quotaVars

-----------------------------------------------------------------------------
(* Properties.                                                               *)

\* A report that shows a window of a subscription within its budget.
Shows(o, sub, w) ==
  /\ o.source = "provider" /\ o.mode # "unavailable"
  /\ o.subscription = sub /\ o.window = w
  /\ now - o.at \in 0..policy.maxAge
  /\ o.pct \in Threshold(w)..100

\* A seat is told to work with a model (to continue, or to switch to it) only
\* if every configured window of that model's subscription has a fresh report
\* within budget that no later report of that window supersedes: neither a
\* late report, nor a stale one, nor another window makes up for one that is
\* missing (evaluateSeatQuotaControl with classifyQuotaObservation; away from
\* a checkpoint, or beside an active writer, it selects no other model).
VerifiedQuotaOnly ==
  policy.enabled =>
    \A excluded \in Exclusions :
      LET chosen == evaluateSeatQuotaControl(TRUE, FALSE, excluded).selected
      IN chosen # NoModel =>
           \A w \in Ran(policy.windows) :
             \E o \in Ran(observations) :
               /\ Shows(o, SubscriptionOf[chosen], w)
               /\ \A p \in Ran(observations) :
                    p.source = "provider" /\ p.window = w
                    /\ p.subscription = o.subscription /\ p.at <= now
                    => p.at <= o.at

\* Switches between budgets never storm: within one incident there are at most
\* maxSwitchesPerIncident of them, the cooldown lies between any two, and none
\* stays on the subscription it leaves, however the reports alternate
\* (the guards of evaluateSeatQuotaControl around selectDistributionRoute).
SwitchesNeverStorm ==
  [][ switches' # switches =>
        /\ Len(switches') <= policy.maxSwitches
        /\ SubscriptionOf[current'] # SubscriptionOf[current]
        /\ switches # <<>> =>
             now - switches[Len(switches)] >= policy.cooldown ]_quotaVars
=============================================================================
