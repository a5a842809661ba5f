--------------------------- MODULE SpanAssembler ---------------------------
(***************************************************************************)
(* SpanAssembler (span_assembler.rs): the bounded map of open Pre spans    *)
(* that the daemon's main task pairs with their Post or Stop.              *)
(*                                                                         *)
(* A hook is one span handed to observe(), numbered in the order the       *)
(* daemon handles them.  Hooks of one agent come over separate             *)
(* connections, so any order of Pre, Post and Stop is possible.  The       *)
(* monotonic clock orders the openings; start and end times come from the  *)
(* wall clock, which may be set back.                                      *)
(*                                                                         *)
(* Attributes other than those the pairing key is made of, and the ones    *)
(* pair() copies from the Post, are left out.                              *)
(***************************************************************************)
EXTENDS Naturals, Sequences, SequencesExt

CONSTANTS Spans,        \* the spans transform() can produce: [event, call,
                        \* conversation, tool], call "" when it has no id,
                        \* tool standing for step index and tool name
          capacity, ttl,
          Wall,         \* wall clock readings
          MaxHooks,     \* bound: hooks observed
          MaxTime       \* bound: monotonic clock

ASSUME AssemblerAssumption ==
    /\ capacity \in Nat \ {0} /\ ttl \in Nat \ {0}
    /\ Wall \subseteq Nat /\ MaxHooks \in Nat /\ MaxTime \in Nat

VARIABLES
    now,        \* the monotonic clock
    hooks,      \* every hook observed: its span, arrival and wall time
    open,       \* PairKey -> the OpenSpan stored under it
    out,        \* the spans the last observe() returned
    told        \* hook -> how many returned spans it is part of

vars == <<now, hooks, open, out, told>>

Hooks == 1..MaxHooks

-----------------------------------------------------------------------------
(* Pairing keys *)

tool_key(span) ==
    IF span.call # "" THEN <<"ToolCall", span.call>>
    ELSE <<"ToolFallback", span.conversation, span.tool>>

invoke_key(span) == <<"Invoke", span.conversation>>

\* The action a hook event asks for, and the key it is about.
classify(span) ==
    CASE span.event = "PreToolUse"     -> [act |-> "Open", key |-> tool_key(span)]
      [] span.event = "PostToolUse"    -> [act |-> "Close", key |-> tool_key(span)]
      [] span.event = "PreInvocation"  -> [act |-> "Open", key |-> invoke_key(span)]
      [] span.event = "PostInvocation" -> [act |-> "Close", key |-> invoke_key(span)]
      [] span.event = "Stop"           -> [act |-> "Stop", key |-> invoke_key(span)]
      [] OTHER                         -> [act |-> "Immediate", key |-> <<>>]

-----------------------------------------------------------------------------
(* Emitted spans.  post is 0 in a span that is not paired. *)

emit_unpaired(h, start) ==
    [hook |-> h, post |-> 0, start |-> start, end |-> start]

\* The Pre's span takes its end from the Post, unless the wall clock went back.
pair(pre, h, post_ts) ==
    [hook |-> pre.hook, post |-> h, start |-> pre.start,
     end |-> IF post_ts >= pre.start THEN post_ts ELSE pre.start]

\* The map without the keys in K.
Without(map, K) == [k \in DOMAIN map \ K |-> map[k]]

Emitted(map, keys) ==
    [i \in DOMAIN keys |-> emit_unpaired(map[keys[i]].hook, map[keys[i]].start)]

-----------------------------------------------------------------------------
(* observe(), for hook h with wall time ts *)

\* Mutant: a Pre as old as the TTL is not expired yet.
ExpiredLate == {k \in DOMAIN open : now - open[k].opened > ttl}

Expired == {k \in DOMAIN open : now - open[k].opened >= ttl}

Oldest(map) == {m \in DOMAIN map :
                   \A n \in DOMAIN map : map[m].opened <= map[n].opened}

\* The keys evict_if_full() may pick: an oldest one when the map is full.
Victims(map) ==
    IF Cardinality(DOMAIN map) < capacity THEN {{}} ELSE {{k} : k \in Oldest(map)}

\* Open: an earlier Pre under the key is displaced, the map is made to fit, and
\* the Pre is stored.
Store(map, key, h, ts, before) ==
    LET displaced == DOMAIN map \cap {key}
        rest == Without(map, displaced)
    IN \E victim \in Victims(rest) :
          /\ open' = [k \in (DOMAIN rest \ victim) \cup {key} |->
                        IF k = key THEN [hook |-> h, start |-> ts, opened |-> now]
                        ELSE rest[k]]
          /\ out' = before \o Emitted(map, SetToSeq(displaced))
                           \o Emitted(rest, SetToSeq(victim))

\* Mutant: the Pre is looked up but not removed.
MatchKeepsOpen(map, key, h, ts, before, alone) ==
    /\ open' = map
    /\ out' = before \o IF key \in DOMAIN map THEN <<pair(map[key], h, ts)>> ELSE alone

\* Close and Stop: pair with the stored Pre.  Without one a Post is emitted as it
\* is and a Stop is not.
Match(map, key, h, ts, before, alone) ==
    /\ open' = Without(map, {key})
    /\ out' = before \o IF key \in DOMAIN map THEN <<pair(map[key], h, ts)>> ELSE alone

\* flush_expired(), in the iteration order of the hash map, then the action.
observe(span, ts) ==
    LET h == Len(hooks) + 1
        c == classify(span)
        map == Without(open, Expired)
    IN \E order \in SetToSeqs(Expired) :
          LET before == Emitted(open, order)
          IN \/ /\ c.act = "Immediate"
                /\ open' = map
                /\ out' = Append(before, emit_unpaired(h, ts))
             \/ c.act = "Open" /\ Store(map, c.key, h, ts, before)
             \/ c.act = "Close" /\ Match(map, c.key, h, ts, before,
                                         <<emit_unpaired(h, ts)>>)
             \/ c.act = "Stop" /\ Match(map, c.key, h, ts, before, <<>>)

Observe(span, ts) ==
    /\ Len(hooks) < MaxHooks
    /\ hooks' = Append(hooks, [span |-> span, at |-> now])
    /\ observe(span, ts)
    /\ told' = [h \in Hooks |->
                  told[h] + Cardinality({i \in DOMAIN out' :
                                           h \in {out'[i].hook, out'[i].post}})]
    /\ UNCHANGED now

Tick ==
    /\ now < MaxTime /\ now' = now + 1
    /\ UNCHANGED <<hooks, open, out, told>>

-----------------------------------------------------------------------------
Init ==
    /\ now = 0 /\ hooks = <<>> /\ open = <<>> /\ out = <<>>
    /\ told = [h \in Hooks |-> 0]

\* Both bounds are reached.
Done == Len(hooks) = MaxHooks /\ now = MaxTime /\ UNCHANGED vars

Next == Tick \/ Done \/ \E span \in Spans, ts \in Wall : Observe(span, ts)

Spec == Init /\ [][Next]_vars

-----------------------------------------------------------------------------
(* Properties *)

Key(h) == classify(hooks[h].span).key
Act(h) == classify(hooks[h].span).act

Waiting(h) == \E k \in DOMAIN open : open[k].hook = h

\* The hooks of h's key that arrived before it.
Earlier(h) == {j \in 1..h - 1 : Act(j) # "Immediate" /\ Key(j) = Key(h)}

\* A paired span joins a Post or Stop with the Pre that came last before it under
\* the same key, with no other hook of that key in between and less than the TTL
\* ago; its end is not before its start even if the wall clock was set back.
PairsAreNeighbours ==
    \A i \in DOMAIN out :
        LET pre == out[i].hook
            post == out[i].post
        IN /\ out[i].end >= out[i].start
           /\ post # 0 =>
                /\ Act(pre) = "Open" /\ Act(post) \in {"Close", "Stop"}
                /\ pre \in Earlier(post) /\ \A j \in Earlier(post) : j <= pre
                /\ hooks[post].at - hooks[pre].at < ttl

\* Pres that arrived no earlier than Pre h and before hook p, under other keys.
Rivals(h, p) == {j \in 1..p - 1 : /\ Act(j) = "Open" /\ Key(j) # Key(h)
                                  /\ hooks[j].at >= hooks[h].at}

\* A Post goes out unpaired only for a reason: the last hook of its key was no
\* Pre, or that Pre is older than the TTL, or the map overflowed, which takes
\* capacity other Pres no older than it.
NoPairMissed ==
    \A i \in DOMAIN out :
        LET p == out[i].hook
        IN out[i].post = 0 /\ Act(p) = "Close" =>
            \A h \in Earlier(p) :
                (\A j \in Earlier(p) : j <= h) =>
                    \/ Act(h) # "Open"
                    \/ hooks[p].at - hooks[h].at >= ttl
                    \/ Cardinality(Rivals(h, p)) >= capacity

\* Pairs are joined exactly when they should be: neither too eagerly nor missed.
PairsExact == PairsAreNeighbours /\ NoPairMissed

(***************************************************************************)
(* Refinement: of all its keys, clocks and limits the rest of the daemon   *)
(* sees only which hooks wait, which were returned and which were dropped. *)
(***************************************************************************)
waitingBar == {open[k].hook : k \in DOMAIN open}
toldBar == {h \in Hooks : told[h] > 0}
swallowedBar == {h \in 1..Len(hooks) : told[h] = 0 /\ ~Waiting(h)}

Ledger == INSTANCE HookLedger WITH waiting <- waitingBar, told <- toldBar,
                                   swallowed <- swallowedBar

\* SpanAssembler implements HookLedger, the assembler the Daemon module is built
\* on: one observe() takes one new hook and lets any of the waiting ones go.
LedgerSpec == Ledger!Spec

=============================================================================
