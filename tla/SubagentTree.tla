---------------------------- MODULE SubagentTree ----------------------------
(***************************************************************************)
(* The durable side of a tree of conversations: what `session` holds about *)
(* every conversation and its links, and what the framework derives from   *)
(* it (src/luca/agent/core/models.py, and the writes of runner.py).        *)
(*                                                                         *)
(* A conversation's path is reduced to what the tree tells apart: its turn *)
(* bracket, the pending CancelRequested, whether calls wait for dispatch,  *)
(* whether one waits for an approval, which completed calls spawned or     *)
(* stopped a child, and whether there is material the model has not seen.  *)
(* Module Turn has the path itself.                                        *)
(*                                                                         *)
(* Conversations are numbered in the order `generate_id` hands them out;   *)
(* a subagent's parent is a constant and its link says if it exists yet.   *)
(***************************************************************************)
EXTENDS Naturals, Sequences, FiniteSets

CONSTANTS
    Parent,         \* Parent[k]: the conversation that spawns subagent k
    HardMaxSteps    \* runtime_config.hard_max_steps

Main == 0

ASSUME TreeAssumption ==
    /\ Parent \in Seq(Nat)
    /\ \A k \in DOMAIN Parent : Parent[k] < k
    /\ HardMaxSteps \in Nat \ {0}

Subagents == DOMAIN Parent
Conversations == {Main} \cup Subagents

Kids(c) == {k \in Subagents : Parent[k] = c}

\* The order of ids, which is the order of links on the parent's path.
First(S) == CHOOSE k \in S : \A j \in S : k <= j

InOrder(S) ==
    [i \in 1..Cardinality(S) |->
        CHOOSE k \in S : Cardinality({j \in S : j < k}) = i - 1]

-----------------------------------------------------------------------------
(* One conversation's entries.                                             *)

ClosedTurns == {"completed", "errored", "cancelled"}

\* "seeded": a user message and no TurnStart yet.
Turns == {"none", "seeded", "open"} \cup ClosedTurns

\* A ChildConversation is resolved with a result or with the cancelled text.
Links == {"unborn", "open", "result", "cancelled"}

\* A call's approval: none gated, gated, or gated with an answer waiting.
Asks == {"none", "waiting", "answered"}

Entries ==
    [turn : Turns, link : Links, cancel : BOOLEAN, ask : Asks, calls : BOOLEAN,
     spawns : SUBSET Subagents, stops : SUBSET Subagents, fresh : BOOLEAN,
     steps : 0..HardMaxSteps]

Unborn ==
    [turn |-> "none", link |-> "unborn", cancel |-> FALSE, ask |-> "none",
     calls |-> FALSE, spawns |-> {}, stops |-> {}, fresh |-> FALSE, steps |-> 0]

\* The session before the first run: the user's question on the main path.
FirstQuestion ==
    [c \in Conversations |-> IF c = Main THEN [Unborn EXCEPT !.turn = "seeded"] ELSE Unborn]

\* `_unresolved_child_ids`
Unresolved(s, c) == {k \in Kids(c) : s[k].link = "open"}

\* `_derive_status`, of every conversation at once: a parent is busy while a
\* child of its open turn is anything but blocked.
Status(s) ==
    LET status[c \in Conversations] ==
            LET e == s[c]
                children == Unresolved(s, c)
            IN  IF e.turn = "seeded" THEN "busy"
                ELSE IF e.turn # "open" THEN "idle"
                ELSE IF e.cancel THEN "cancelling"
                ELSE IF e.calls \/ \E k \in children : status[k] # "blocked" THEN "busy"
                ELSE IF e.ask # "none" THEN "blocked"
                ELSE IF children = {} \/ e.fresh THEN "busy"
                ELSE "blocked"
    IN  status

-----------------------------------------------------------------------------
(* Writes.                                                                 *)

\* `_ensure_open_turn`
Opened(e) == IF e.turn = "open" THEN e ELSE [e EXCEPT !.turn = "open"]

\* `_settle_open_executions` and `_close_turn`: nothing waits behind a close.
Closed(e, outcome) ==
    [e EXCEPT !.turn = outcome, !.cancel = FALSE, !.calls = FALSE, !.ask = "none"]

\* `_spawn_one`: the child's row, its seed message and the parent's link.
Spawned(s, c) ==
    [k \in Conversations |->
        IF k \in s[c].spawns THEN [Unborn EXCEPT !.turn = "seeded", !.link = "open"]
        ELSE IF k = c THEN [s[c] EXCEPT !.spawns = {}]
        ELSE s[k]]

\* The conversations a cancel of every member of `targets` reaches: the
\* cascade follows unresolved links and stops where a cancel is pending.
Reached(s, targets) ==
    LET reached[k \in Conversations] ==
            \/ k \in targets
            \/ /\ k # Main
               /\ reached[Parent[k]]
               /\ s[k].link = "open"
               /\ ~s[k].cancel
    IN  {k \in Conversations : reached[k]}

\* `cancel`: one CancelRequested each; a conversation with no open turn gets one.
CancelRequested(s, reached) ==
    [k \in Conversations |->
        IF k \in reached THEN [Opened(s[k]) EXCEPT !.cancel = TRUE] ELSE s[k]]

\* `_cascade_cancel` of c itself left out: its unresolved children.
Cascaded(s, c) == Reached(s, {k \in Unresolved(s, c) : ~s[k].cancel})

\* `_stop_target`: an unresolved child, neither finished nor cancelling.
StopTargets(s, c) ==
    {k \in s[c].stops \cap Unresolved(s, c) : Status(s)[k] \notin {"idle", "cancelling"}}

\* `_flush_cancelled_children`: the writes of winding down every child of `flushed`.
Flushed(s, flushed) ==
    [k \in Conversations |-> IF k \in flushed THEN Closed(s[k], "cancelled") ELSE s[k]]

\* Changed: the links resolved earlier are written again.
LinksSettledAgain(s, c) ==
    [k \in Conversations |->
        IF k \in Kids(c) /\ s[k].link # "unborn" THEN [s[k] EXCEPT !.link = "cancelled"] ELSE s[k]]

\* The tail of `_settle_children`: every link left is resolved without a tool.
LinksSettled(s, c) ==
    [k \in Conversations |->
        IF k \in Unresolved(s, c) THEN [s[k] EXCEPT !.link = "cancelled"] ELSE s[k]]

=============================================================================
