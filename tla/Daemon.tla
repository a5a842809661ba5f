------------------------------- MODULE Daemon -------------------------------
(***************************************************************************)
(* Daemon::run_with_diagnostics (daemon.rs): the main task's select loop   *)
(* and its shutdown, composed with the IngressServer and, through the      *)
(* promise it implements, with the SpanAssembler.  Batches and exports are *)
(* the ExportPipeline module's; here a span that observe() returned has    *)
(* left.                                                                   *)
(*                                                                         *)
(* Each connection carries one hook, so a hook is named by its connection. *)
(***************************************************************************)
EXTENDS IngressServer

VARIABLES
    pc,                             \* where the main task is
    waiting, told, swallowed,       \* the assembler, as HookLedger has it
    handled,        \* what the pipeline counters say of each hook's frame
    server_finished, server_error,
    expired,        \* the five second shutdown budget is spent
    result          \* what run_with_diagnostics() returned

assembler == <<waiting, told, swallowed>>
main == <<pc, assembler, handled, server_finished, server_error, expired, result>>
daemonVars == <<vars, main>>

Assembler == INSTANCE HookLedger WITH Hooks <- Conns

DaemonInit ==
    /\ Init /\ Assembler!Init
    /\ pc = "head"
    /\ handled = [c \in Conns |-> "none"]
    /\ server_finished = FALSE /\ server_error = FALSE
    /\ expired = FALSE /\ result = "none"

\* Only pc changes in the main task.
Goes(s) == pc' = s /\ UNCHANGED <<assembler, handled, server_finished,
                                   server_error, expired, result>>

(***************************************************************************)
(* The main loop                                                           *)
(***************************************************************************)

\* The loop condition, before each select.
LoopHead ==
    /\ pc = "head"
    /\ Goes(IF cancelled THEN "stopping" ELSE "select")
    /\ UNCHANGED vars

SelectShutdown == pc = "select" /\ cancelled /\ Goes("stopping") /\ UNCHANGED vars

\* The server task has ended by itself.
SelectServer ==
    /\ pc = "select" /\ server \in {"ok", "failed"}
    /\ pc' = "stopping" /\ server_finished' = TRUE
    /\ server_error' = (server = "failed" \/ ~cancelled)
    /\ UNCHANGED <<vars, assembler, handled, expired, result>>

SelectControl ==
    /\ pc = "select" /\ RecvControl
    /\ Goes(IF Head(controls) = "shutdown" THEN "stopping" ELSE "head")

SelectFrame == pc = "select" /\ Recv /\ Goes("transform")

\* The server task and every reader have dropped their senders.
NoSenders == server \in {"failing", "failed", "ok"} /\ Readers = {}

\* recv() returns None on the control or the frame channel.
SelectClosed ==
    /\ pc = "select" /\ NoSenders
    /\ controls = <<>> \/ events = <<>>
    /\ Goes("stopping")
    /\ UNCHANGED vars

\* A tick, on which the daemon may have been idle for too long.
SelectTick ==
    /\ pc = "select"
    /\ \E s \in {"head", "stopping"} : Goes(s)
    /\ UNCHANGED vars

(***************************************************************************)
(* process_frame(), in the loop or while draining                          *)
(***************************************************************************)

\* The payload is transformed into a span for the assembler, or is invalid.
Transform ==
    /\ pc = "transform" /\ pc' = "drop"
    /\ rx_open \/ ~expired
    /\ \/ /\ handled' = [handled EXCEPT ![taken.conn] = "transformed"]
          /\ \E gone \in SUBSET waiting : Assembler!Observe(taken.conn, gone)
       \/ /\ handled' = [handled EXCEPT ![taken.conn] = "invalid"]
          /\ UNCHANGED assembler
    /\ UNCHANGED <<vars, server_finished, server_error, expired, result>>

\* A drained frame that comes after the deadline is only counted.
DropLate ==
    /\ pc = "transform" /\ ~rx_open /\ expired
    /\ pc' = "drop"
    /\ handled' = [handled EXCEPT ![taken.conn] = "shutdown_dropped"]
    /\ UNCHANGED <<vars, assembler, server_finished, server_error, expired, result>>

Dropped == pc = "drop" /\ DropFrame /\ Goes("free")
Freed == pc = "free" /\ FreeFrame /\ Goes(IF rx_open THEN "head" ELSE "drain")

(***************************************************************************)
(* Shutdown                                                                *)
(***************************************************************************)

\* Cancel the token; quota and metrics tasks end.
Stopping ==
    /\ pc = "stopping" /\ Goes("join")
    /\ cancelled' = TRUE
    /\ UNCHANGED <<server, st, frame, permits, gauges, events, controls,
                   rx_open, taken, counted>>

\* The server's result is awaited and not looked at.
Join ==
    /\ pc = "join"
    /\ server_finished \/ server \in {"ok", "failed"}
    /\ Goes("close") /\ UNCHANGED vars

\* The budget is spent while the server still runs: it is aborted, and its
\* readers with it.
AbortServer ==
    /\ pc = "join" /\ expired /\ Idle
    /\ server \in {"serving", "joining"} /\ server' = "failing"
    /\ UNCHANGED <<main, cancelled, st, frame, permits, gauges, events, controls,
                   rx_open, taken, counted>>

CloseRx ==
    /\ pc = "close" /\ Goes("drain")
    /\ rx_open' = FALSE
    /\ UNCHANGED <<cancelled, server, st, frame, permits, gauges, events,
                   controls, taken, counted>>

DrainFrame == pc = "drain" /\ Recv /\ Goes("transform")

\* Mutant: the frame channel is dropped with what is in it.
ReturnUndrained ==
    /\ pc = "drain"
    /\ pc' = "finished" /\ result' = IF server_error THEN "Err" ELSE "Ok"
    /\ UNCHANGED <<vars, assembler, handled, server_finished, server_error, expired>>

\* The channel is empty: flush and export what the batcher holds, and return.
Return ==
    /\ pc = "drain" /\ events = <<>>
    /\ pc' = "finished" /\ result' = IF server_error THEN "Err" ELSE "Ok"
    /\ UNCHANGED <<vars, assembler, handled, server_finished, server_error, expired>>

\* Five seconds after the main loop ended.
Deadline ==
    /\ pc \in {"join", "close"} \/ ~rx_open
    /\ pc # "finished" /\ ~expired /\ expired' = TRUE
    /\ UNCHANGED <<vars, pc, assembler, handled, server_finished, server_error,
                   result>>

-----------------------------------------------------------------------------
Main == \/ LoopHead \/ SelectShutdown \/ SelectServer \/ SelectControl
        \/ SelectFrame \/ SelectClosed \/ SelectTick
        \/ Transform \/ DropLate \/ Dropped \/ Freed
        \/ Stopping \/ Join \/ AbortServer \/ CloseRx \/ DrainFrame \/ Return

Finished == pc = "finished" /\ Readers = {} /\ UNCHANGED daemonVars

DaemonNext ==
    \/ Main \/ Deadline \/ Finished
    \/ UNCHANGED main /\ (Server \/ Cancel \/ \E c \in Conns : Reader(c))

DaemonSpec == DaemonInit /\ [][DaemonNext]_daemonVars

(***************************************************************************)
(* The runtime polls every task that can run; a reader at an await is      *)
(* ended by its 100 ms timeout if nothing else ends it.  Clients owe       *)
(* nothing, nobody has to stop the daemon, and the deadline may never      *)
(* come.                                                                   *)
(***************************************************************************)
DaemonFairSpec ==
    /\ DaemonSpec
    /\ WF_daemonVars(Main)
    /\ WF_daemonVars(UNCHANGED main /\ (StopServing \/ ServerReturns \/ ServerFailed))
    /\ \A c \in Conns : WF_daemonVars(UNCHANGED main /\ Reader(c))

-----------------------------------------------------------------------------
(* Properties *)

\* The two counter families of the summary agree: whenever the shutdown starts
\* and however it interleaves with readers about to send, every frame the server
\* counted as admitted was transformed, refused as invalid or counted as dropped;
\* and if the server ended by itself, the main task saw no other frame.
AdmittedFramesHandled ==
    pc = "finished" =>
        \A c \in Conns :
            /\ counted["admitted"][c] = 1 => handled[c] # "none"
            /\ server = "ok" /\ handled[c] # "none" => counted["admitted"][c] = 1

\* After a shutdown in which the server ended by itself nothing is held: every
\* lease on bytes and connections has been given back.
CleanAtExit ==
    pc = "finished" /\ server = "ok" =>
        /\ bytes = payload_budget_bytes /\ reserved_bytes = 0
        /\ connections = max_connections /\ active_connections = 0

\* Ingress reconciles with the main loop at every moment of a run and of its
\* shutdown: counters and leases account for every connection, and at the end
\* every admitted frame was handled and nothing is held.
IngressReconciles ==
    /\ EachConnectionCountedOnce /\ LimitsKept
    /\ AdmittedFramesHandled /\ CleanAtExit

\* A shutdown request ends the daemon, also when the control channel was full and
\* the message itself was dropped, or its reader is cut off right after it: the
\* token, not the message, carries it.
ShutdownRequestHonoured ==
    (\E c \in Conns : counted["received"][c] = 1 /\ frame[c].kind = "shutdown")
        ~> pc = "finished"

=============================================================================
