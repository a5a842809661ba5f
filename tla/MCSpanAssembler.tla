-------------------------- MODULE MCSpanAssembler --------------------------
(***************************************************************************)
(* SpanAssembler with one tool call that has an id, one tool call without, *)
(* one agent invocation and one event that is not paired.                  *)
(***************************************************************************)
EXTENDS SpanAssembler

Hook(event, call, tool) ==
    [event |-> event, call |-> call, conversation |-> "c", tool |-> tool]

MCSpans ==
    {Hook(e, "id", "t") : e \in {"PreToolUse", "PostToolUse"}}
    \cup {Hook(e, "", "t") : e \in {"PreToolUse", "PostToolUse"}}
    \cup {Hook(e, "", "") : e \in {"PreInvocation", "PostInvocation", "Stop"}}
    \cup {Hook("Unknown", "", "")}
=============================================================================
