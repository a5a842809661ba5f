---------------------------- MODULE MCTelemetry ----------------------------
(***************************************************************************)
(* The parts that move and keep telemetry on a small instance: the OTLP    *)
(* exporter and the context cache of the daemon, the local spool and the   *)
(* trace processor of the delivery tools.  They share no state: a          *)
(* behaviour runs one of them, named by side, and leaves the others as     *)
(* they start.                                                             *)
(***************************************************************************)
EXTENDS OtlpExporter, ContextCache, LocalSpool, TraceProcessor

CONSTANTS k1, k2, k3, w1, w2

MCKeys == {k1, k2, k3}
MCWorkers == {w1, w2}
MCBatches == {[size |-> 1, count |-> 2], [size |-> 2, count |-> 1]}
MCSymmetry == Permutations(MCKeys) \cup Permutations(MCWorkers) \cup Permutations(Writers)

VARIABLE side

MCInit ==
    /\ side \in {"exporter", "cache", "spool", "trace"}
    /\ Init /\ InitCache /\ InitSpool /\ InitTrace
    \* The parts that do not run are fixed.
    /\ side # "exporter" => mode = "send"
    /\ side # "spool" => \A p \in Writers : w[p].available

MCNext ==
    \/ side = "exporter" /\ Next /\ UNCHANGED <<side, cacheVars, spoolVars, traceVars>>
    \/ side = "cache" /\ NextCache /\ UNCHANGED <<side, vars, spoolVars, traceVars>>
    \/ side = "spool" /\ NextSpool /\ UNCHANGED <<side, vars, cacheVars, traceVars>>
    \/ side = "trace" /\ NextTrace /\ UNCHANGED <<side, vars, cacheVars, spoolVars>>

MCSpec == MCInit /\ [][MCNext]_<<side, vars, cacheVars, spoolVars, traceVars>>
=============================================================================
