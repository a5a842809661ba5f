---------------------------- MODULE IngressServer ----------------------------
(***************************************************************************)
(* The daemon's IPC server (agent-otel-ipc, server.rs, Unix listener): the *)
(* accept loop, one reader task per connection, the connection and byte    *)
(* semaphores with their leases, the two bounded channels to the daemon's  *)
(* main task and the ingress counters.                                     *)
(*                                                                         *)
(* Readers run concurrently.  A reader is cut off, by the shutdown token   *)
(* or by the server aborting its tasks, at one of its two awaits only;     *)
(* between awaits each operation on shared state is a step of its own.     *)
(*                                                                         *)
(* A counter is kept per connection: counted[k][c] is how often connection *)
(* c was added to counter k.                                               *)
(***************************************************************************)
EXTENDS Integers, Sequences, FiniteSets, FiniteSetsExt, SequencesExt

CONSTANTS Conns,                \* bound: connections clients make
          Sizes,                \* payload sizes a header may announce
          max_connections, payload_budget_bytes, max_frame_bytes,
          EventSlots,           \* capacity of the frame channel
          ControlSlots          \* capacity of the control channel

ASSUME IngressAssumption ==
    /\ Sizes \subseteq Nat
    /\ max_connections \in 1..4096
    /\ max_frame_bytes \in Nat \ {0}
    /\ payload_budget_bytes \in Nat /\ payload_budget_bytes >= max_frame_bytes
    /\ EventSlots \in Nat \ {0} /\ ControlSlots \in Nat \ {0}

\* What a header announces: a hook payload, a quota or health ping, a shutdown request, or
\* a header that decode_header() refuses or whose type is Unknown.
Kinds == {"hook", "quota_ping", "shutdown", "bad"}

\* A refused header announces no size that is looked at.
Frames == [kind : Kinds \ {"bad"}, size : Sizes] \cup {[kind |-> "bad", size |-> 0]}

Counters == {"received", "admitted", "invalid", "read_failed", "read_deadline",
             "capacity", "control_dropped"}

VARIABLES
    cancelled,  \* the shutdown token
    server,     \* the accept loop: serving, aborting its readers, its result
    st,         \* where each connection's reader is
    frame,      \* the frame each reader is reading
    connections, bytes,                     \* free permits of the semaphores
    active_connections, peak_connections,
    reserved_bytes, peak_reserved_bytes,
    events, controls,                       \* the channels to the main task
    rx_open,    \* the main task has not closed the frame channel
    taken,      \* lease of the frame the main task holds: none, held, gauged
    counted

permits == <<connections, bytes>>
gauges == <<active_connections, peak_connections, reserved_bytes,
            peak_reserved_bytes>>
vars == <<cancelled, server, st, frame, permits, gauges, events, controls,
          rx_open, taken, counted>>

NoFrame == [kind |-> "none", size |-> 0]
NotTaken == [conn |-> "none", lease |-> "none", size |-> 0]

Greater(a, b) == IF a > b THEN a ELSE b

Count(k, c) == counted' = [counted EXCEPT ![k][c] = @ + 1]

\* Reader c goes on to step s.
Goto(c, s) == st' = [st EXCEPT ![c] = s]

Init ==
    /\ cancelled = FALSE /\ server = "serving"
    /\ st = [c \in Conns |-> "away"] /\ frame = [c \in Conns |-> NoFrame]
    /\ connections = max_connections /\ bytes = payload_budget_bytes
    /\ active_connections = 0 /\ peak_connections = 0
    /\ reserved_bytes = 0 /\ peak_reserved_bytes = 0
    /\ events = <<>> /\ controls = <<>> /\ rx_open = TRUE /\ taken = NotTaken
    /\ counted = [k \in Counters |-> [c \in Conns |-> 0]]

(***************************************************************************)
(* serve(): the accept loop                                                *)
(***************************************************************************)

\* A connection is accepted and spawn_reader() takes a permit for it, or closes
\* it unread.
Accept(c) ==
    /\ server = "serving" /\ ~cancelled
    /\ \A d \in Conns : st[d] # "accepted"
    /\ st[c] = "away"
    /\ \/ /\ connections > 0
          /\ connections' = connections - 1
          /\ Goto(c, "accepted")
          /\ UNCHANGED counted
       \/ /\ connections = 0
          /\ Count("capacity", c)
          /\ Goto(c, "closed")
          /\ UNCHANGED connections
    /\ UNCHANGED <<cancelled, server, frame, bytes, gauges, events, controls,
                   rx_open, taken>>

\* The rest of spawn_reader().
Spawn(c) ==
    /\ st[c] = "accepted" /\ Goto(c, "header")
    /\ active_connections' = active_connections + 1
    /\ peak_connections' = Greater(peak_connections, active_connections')
    /\ UNCHANGED <<cancelled, server, frame, permits, reserved_bytes,
                   peak_reserved_bytes, events, controls, rx_open, taken, counted>>

Idle == \A c \in Conns : st[c] # "accepted"
Readers == {c \in Conns : st[c] \notin {"away", "closed"}}

\* The token is cancelled: the loop ends and aborts its readers ...
StopServing ==
    /\ server = "serving" /\ cancelled /\ Idle
    /\ server' = "joining"
    /\ UNCHANGED <<cancelled, st, frame, permits, gauges, events, controls,
                   rx_open, taken, counted>>

\* ... and returns Ok when they are gone.
ServerReturns ==
    /\ server = "joining" /\ Readers = {}
    /\ server' = "ok"
    /\ UNCHANGED <<cancelled, st, frame, permits, gauges, events, controls,
                   rx_open, taken, counted>>

\* accept() fails: the server returns the error at once.  Its JoinSet goes with
\* it, which aborts the readers and waits for none of them.
AcceptFails ==
    /\ server = "serving" /\ ~cancelled /\ Idle
    /\ server' = "failing"
    /\ UNCHANGED <<cancelled, st, frame, permits, gauges, events, controls,
                   rx_open, taken, counted>>

\* The task has dropped its senders; now its result can be joined.
ServerFailed ==
    /\ server = "failing" /\ server' = "failed"
    /\ UNCHANGED <<cancelled, st, frame, permits, gauges, events, controls,
                   rx_open, taken, counted>>

(***************************************************************************)
(* A reader                                                                *)
(***************************************************************************)

\* The header arrives.  The token is looked at first in every poll.
ReadHeader(c) ==
    /\ st[c] = "header" /\ ~cancelled /\ Goto(c, "decode")
    /\ \E f \in Frames : frame' = [frame EXCEPT ![c] = f]
    /\ UNCHANGED <<cancelled, server, permits, gauges, events, controls,
                   rx_open, taken, counted>>

Invalid(f) == f.kind = "bad" \/ f.size > max_frame_bytes

\* The header is refused, or the payload gets its byte permits, or there are too
\* few of them.
Admit(c) ==
    /\ st[c] = "decode"
    /\ \/ /\ Invalid(frame[c])
          /\ Count("invalid", c) /\ Goto(c, "ending")
          /\ UNCHANGED bytes
       \/ /\ ~Invalid(frame[c]) /\ frame[c].size > bytes
          /\ Count("capacity", c) /\ Goto(c, "ending")
          /\ UNCHANGED bytes
       \/ /\ ~Invalid(frame[c]) /\ frame[c].size <= bytes
          /\ bytes' = bytes - frame[c].size /\ Goto(c, "reserve")
          /\ UNCHANGED counted
    /\ UNCHANGED <<cancelled, server, frame, connections, gauges, events,
                   controls, rx_open, taken>>

Reserve(c) ==
    /\ st[c] = "reserve" /\ Goto(c, "payload")
    /\ reserved_bytes' = reserved_bytes + frame[c].size
    /\ peak_reserved_bytes' = Greater(peak_reserved_bytes, reserved_bytes')
    /\ UNCHANGED <<cancelled, server, frame, permits, active_connections,
                   peak_connections, events, controls, rx_open, taken, counted>>

\* Mutant: a shutdown request is left to the control channel.
ReadPayloadOnly(c) ==
    /\ st[c] = "payload" /\ Goto(c, "dispatch")
    /\ Count("received", c)
    /\ UNCHANGED <<cancelled, server, frame, permits, gauges, events, controls,
                   rx_open, taken>>

\* The payload arrives, possibly in the same poll as the header, when the token
\* is not looked at again.  A shutdown request cancels the token here.
ReadPayload(c) ==
    /\ st[c] = "payload" /\ Goto(c, "dispatch")
    /\ Count("received", c)
    /\ cancelled' = (cancelled \/ frame[c].kind = "shutdown")
    /\ UNCHANGED <<server, frame, permits, gauges, events, controls, rx_open,
                   taken>>

\* try_send() of a hook frame, which takes the lease with it.
DispatchEvent(c) ==
    /\ st[c] = "dispatch" /\ frame[c].kind = "hook"
    /\ \/ /\ rx_open /\ Len(events) < EventSlots
          /\ events' = Append(events, c)
          /\ Goto(c, "sent")
          /\ UNCHANGED counted
       \/ /\ ~rx_open \/ Len(events) >= EventSlots
          /\ Count("capacity", c)
          /\ Goto(c, "unreserve")
          /\ UNCHANGED events
    /\ UNCHANGED <<cancelled, server, frame, permits, gauges, controls, rx_open,
                   taken>>

CountAdmitted(c) ==
    /\ st[c] = "sent" /\ Goto(c, "ending")
    /\ Count("admitted", c)
    /\ UNCHANGED <<cancelled, server, frame, permits, gauges, events, controls,
                   rx_open, taken>>

\* try_send() of any other message; the payload and its lease end with read().
DispatchControl(c) ==
    /\ st[c] = "dispatch" /\ frame[c].kind # "hook" /\ Goto(c, "unreserve")
    /\ \/ /\ Len(controls) < ControlSlots
          /\ controls' = Append(controls, frame[c].kind)
          /\ UNCHANGED counted
       \/ /\ Len(controls) >= ControlSlots
          /\ Count("control_dropped", c)
          /\ UNCHANGED controls
    /\ UNCHANGED <<cancelled, server, frame, permits, gauges, events, rx_open,
                   taken>>

\* Where a reader goes that ends at an await: a payload read holds a lease.
AfterAwait(c) == IF st[c] = "payload" THEN "unreserve" ELSE "ending"

\* The read timeout, or the client going away.
ReadEnds(c) ==
    /\ st[c] \in {"header", "payload"} /\ Goto(c, AfterAwait(c))
    /\ Count("read_deadline", c) \/ Count("read_failed", c)
    /\ UNCHANGED <<cancelled, server, frame, permits, gauges, events, controls,
                   rx_open, taken>>

\* The token wins the reader's select, or the server's abort reaches it.
Cut(c) ==
    /\ st[c] \in {"header", "payload"} /\ Goto(c, AfterAwait(c))
    /\ cancelled \/ server # "serving"
    /\ UNCHANGED <<cancelled, server, frame, permits, gauges, events, controls,
                   rx_open, taken, counted>>

\* ByteLease::drop and then its permit.
Unreserve(c) ==
    /\ st[c] = "unreserve" /\ Goto(c, "unlease")
    /\ reserved_bytes' = reserved_bytes - frame[c].size
    /\ UNCHANGED <<cancelled, server, frame, permits, active_connections,
                   peak_connections, peak_reserved_bytes, events, controls,
                   rx_open, taken, counted>>

Unlease(c) ==
    /\ st[c] = "unlease" /\ Goto(c, "ending")
    /\ bytes' = bytes + frame[c].size
    /\ UNCHANGED <<cancelled, server, frame, connections, gauges, events,
                   controls, rx_open, taken, counted>>

\* ConnectionLease::drop and then its permit.
Leave(c) ==
    /\ st[c] = "ending" /\ Goto(c, "leaving")
    /\ active_connections' = active_connections - 1
    /\ UNCHANGED <<cancelled, server, frame, permits, peak_connections,
                   reserved_bytes, peak_reserved_bytes, events, controls,
                   rx_open, taken, counted>>

Close(c) ==
    /\ st[c] = "leaving" /\ Goto(c, "closed")
    /\ connections' = connections + 1
    /\ UNCHANGED <<cancelled, server, frame, bytes, gauges, events, controls,
                   rx_open, taken, counted>>

(***************************************************************************)
(* The main task's end of the channels                                     *)
(***************************************************************************)
Recv ==
    /\ taken = NotTaken /\ events # <<>>
    /\ taken' = [conn |-> Head(events), lease |-> "held",
                 size |-> frame[Head(events)].size]
    /\ events' = Tail(events)
    /\ UNCHANGED <<cancelled, server, st, frame, permits, gauges, controls,
                   rx_open, counted>>

\* The frame is dropped when its transformation returns.
DropFrame ==
    /\ taken.lease = "held"
    /\ taken' = [taken EXCEPT !.lease = "gauged"]
    /\ reserved_bytes' = reserved_bytes - taken.size
    /\ UNCHANGED <<cancelled, server, st, frame, permits, active_connections,
                   peak_connections, peak_reserved_bytes, events, controls,
                   rx_open, counted>>

FreeFrame ==
    /\ taken.lease = "gauged"
    /\ taken' = NotTaken
    /\ bytes' = bytes + taken.size
    /\ UNCHANGED <<cancelled, server, st, frame, connections, gauges, events,
                   controls, rx_open, counted>>

RecvControl ==
    /\ controls # <<>> /\ controls' = Tail(controls)
    /\ UNCHANGED <<cancelled, server, st, frame, permits, gauges, events,
                   rx_open, taken, counted>>

\* The daemon decides to stop, whatever the clients sent.
Cancel ==
    /\ ~cancelled /\ cancelled' = TRUE
    /\ UNCHANGED <<server, st, frame, permits, gauges, events, controls,
                   rx_open, taken, counted>>

-----------------------------------------------------------------------------
\* The steps of reader c that need nobody else.
ReaderRuns(c) ==
    \/ Spawn(c) \/ Admit(c) \/ Reserve(c) \/ DispatchEvent(c)
    \/ CountAdmitted(c) \/ DispatchControl(c) \/ Unreserve(c) \/ Unlease(c)
    \/ Leave(c) \/ Close(c)

Reader(c) == ReaderRuns(c) \/ ReadHeader(c) \/ ReadPayload(c) \/ ReadEnds(c)
             \/ Cut(c)

Server == \/ \E c \in Conns : Accept(c)
          \/ StopServing \/ ServerReturns \/ AcceptFails \/ ServerFailed

-----------------------------------------------------------------------------
(* Properties *)

Verdicts(c) ==
    counted["admitted"][c] + counted["invalid"][c] + counted["capacity"][c]
    + counted["read_failed"][c] + counted["read_deadline"][c]
    + counted["control_dropped"][c]

\* The ingress counters account for every connection that ended, once: a frame
\* is admitted, refused or failed, a control message is delivered or dropped, and
\* only a reader that the shutdown or a failed server cut off leaves no trace.
EachConnectionCountedOnce ==
    \A c \in Conns :
        /\ Verdicts(c) <= 1 /\ counted["received"][c] <= 1
        /\ st[c] = "closed" /\ Verdicts(c) = 0 =>
              IF counted["received"][c] = 1
              THEN frame[c].kind \in {"quota_ping", "shutdown"}
              ELSE cancelled \/ server # "serving"

\* Readers whose byte lease is not with the main task.
Leased == {c \in Conns : st[c] \in {"reserve", "payload", "dispatch",
                                    "unreserve", "unlease"}}

SizesOf(S) == FoldSet(LAMBDA c, sum : sum + frame[c].size, 0, S)

\* Both semaphores and their gauges over every interleaving of readers, the
\* accept loop and the main task: permits are neither leaked nor minted, wherever
\* a reader is cut off and wherever a frame is dropped; the gauges stay between
\* zero and the limit, and so do the reported peaks.
LimitsKept ==
    /\ bytes + SizesOf(Leased) + SizesOf(Range(events)) + taken.size
         = payload_budget_bytes
    /\ connections + Cardinality(Readers) = max_connections
    /\ reserved_bytes \in 0..payload_budget_bytes
    /\ active_connections \in 0..max_connections
    /\ peak_reserved_bytes <= payload_budget_bytes
    /\ peak_connections <= max_connections
=============================================================================
