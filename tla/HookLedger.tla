----------------------------- MODULE HookLedger -----------------------------
(***************************************************************************)
(* What the span assembler promises about one hook: it waits for its       *)
(* partner, or is part of a span that was returned for export, or (a Stop  *)
(* that ends nothing) is dropped; and it is returned only once.            *)
(***************************************************************************)
CONSTANT Hooks

VARIABLES waiting, told, swallowed

Init == waiting = {} /\ told = {} /\ swallowed = {}

\* One observe(): the waiting hooks in gone are returned (expired, displaced,
\* evicted or joined with h), and h itself waits, is returned, or is dropped.
Observe(h, gone) ==
    /\ h \notin waiting \cup told \cup swallowed
    /\ gone \subseteq waiting
    /\ \/ /\ waiting' = (waiting \ gone) \cup {h} /\ told' = told \cup gone
          /\ UNCHANGED swallowed
       \/ /\ waiting' = waiting \ gone /\ told' = told \cup gone \cup {h}
          /\ UNCHANGED swallowed
       \/ /\ waiting' = waiting \ gone /\ told' = told \cup gone
          /\ swallowed' = swallowed \cup {h}

Next == \E h \in Hooks, gone \in SUBSET Hooks : Observe(h, gone)

Spec == Init /\ [][Next]_<<waiting, told, swallowed>>
=============================================================================
