------------------------------- MODULE RunLog -------------------------------
(***************************************************************************)
(* What every store of a run promises: a log of events that only grows,    *)
(* one event at a time, and that the reducer accepts at every length.      *)
(***************************************************************************)
EXTENDS RunEvents

VARIABLE log

Init == ValidRun(log)

Extend ==
  /\ Len(log') = Len(log) + 1
  /\ IsPrefix(log, log')
  /\ ValidRun(log')

Spec == Init /\ [][Extend]_log
=============================================================================
