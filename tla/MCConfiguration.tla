-------------------------- MODULE MCConfiguration ---------------------------
(***************************************************************************)
(* The configuration of a seat on a small instance: the quota rules that   *)
(* choose its model, and the commands that change distribution, steering   *)
(* agreement and file layout.  The two share no state: a behaviour runs one *)
(* of them, named by side, and leaves the other as it starts.              *)
(***************************************************************************)
EXTENDS QuotaControl, ConfigChange, TLC

CONSTANTS openai1, openai2, claude1, p1, p2

MCSubscriptionOf ==
  [m \in {openai1, openai2, claude1} |-> IF m = claude1 THEN "claude" ELSE "openai"]
MCFamilyOf == [s \in {"openai", "claude"} |-> s]
MCRoleOptions == <<openai1, openai2, claude1>>

MCSavedPolicies ==
  { [enabled |-> TRUE, windows |-> <<"weekly">>, maxAge |-> 2, cooldown |-> 1,
     action |-> "approved-fallback-or-park"],
    [enabled |-> TRUE, windows |-> <<"weekly", "five-hour">>, maxAge |-> 1,
     windowThresholds |-> [w \in {"five-hour"} |-> 50],
     action |-> "approved-fallback-or-park"],
    [enabled |-> TRUE, windows |-> <<"weekly", "weekly">>] }

MCMaxObservations == <<4, 3>>
MCExclusions == {{}, {"claude"}}

MCReports ==
  LET Report(mode, pct, skew) ==
        [source |-> "provider", mode |-> mode, pct |-> pct, skew |-> skew]
  IN { Report("supported", 50, -1), Report("approximate", 50, 0),
       Report("supported", 50, 1), Report("supported", 24, 0),
       Report("unavailable", 50, 0) }

File(rules, selection) ==
  [there |-> TRUE, policy |-> rules, dist |-> selection, steer |-> NoAgreement]

\* A clean pair of files; a legacy pair with both kinds of misplaced field.
MCLayouts ==
  { [n \in Names |-> CASE n = "domain" -> File("lenient", "none")
                       [] n = "workflow" -> File("none", "d1")
                       [] n = "unified" -> Missing],
    [n \in Names |-> CASE n = "domain" -> File("none", "d1")
                       [] n = "workflow" -> File("human", "none")
                       [] n = "unified" -> Missing] }
MCSymmetry == Permutations({p1, p2})

VARIABLE side

MCInit ==
    /\ side \in {"quota", "change"}
    /\ InitQuota /\ InitConfig
    \* The side that does not run has one initial state.
    /\ side # "quota" =>
         policy = resolveQuotaControlPolicy(CHOOSE p \in SavedPolicies : "maxAge" \in DOMAIN p,
                                            "park-and-checkpoint")
    /\ side # "change" => file = CHOOSE f \in Layouts : TRUE

MCNext ==
    \/ side = "quota" /\ NextQuota /\ UNCHANGED <<side, configVars>>
    \/ side = "change" /\ NextConfig /\ UNCHANGED <<side, quotaVars>>

MCSpec == MCInit /\ [][MCNext]_<<side, quotaVars, configVars>>
=============================================================================
