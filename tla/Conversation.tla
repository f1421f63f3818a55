---------------------------- MODULE Conversation ----------------------------
(***************************************************************************)
(* One conversation's durable path and everything the framework derives    *)
(* from it (src/luca/agent/core/models.py, ledger.py).                     *)
(*                                                                         *)
(* A path is the conversation's `nodes` list with every node id resolved   *)
(* to its entry, so a tool execution lives at its path position and is     *)
(* updated in place, as `_persist_entry` does through the entry store.     *)
(* Nothing here is stored state: the open turn, the pending cancel and the *)
(* status are pure functions of the path, exactly as in the code.          *)
(*                                                                         *)
(* The module has no RECURSIVE operator, so it can be proved about.        *)
(***************************************************************************)
EXTENDS Naturals, Sequences, FiniteSets

-----------------------------------------------------------------------------
(* The vocabulary.                                                         *)

\* ExecutionStatus: the lifecycle of one tool call.
NonterminalStatuses == {"received", "pending", "running", "awaiting_result"}

TerminalStatuses ==
    {"completed", "failed", "not_found", "invalid", "rejected", "refused",
     "cancelled", "interrupted", "timed_out"}

Statuses == NonterminalStatuses \cup TerminalStatuses

\* ApprovalStatus, with "none" for "no decision has processed it yet".
Approvals == {"none", "pending", "allowed", "rejected"}

\* ExecutionAttemptOutcome, with "open" for an attempt in flight.
AttemptOutcomes ==
    {"open", "deferred", "completed", "failed", "interrupted", "timed_out",
     "discarded"}

TurnOutcomes == {"completed", "errored", "timed_out", "cancelled"}

\* How the model stopped: tool calls, a final answer, a pause the provider
\* wants replayed, or a finish reason that is not an answer.
StopReasons == {"tool_use", "stop", "pause", "non_answer"}

-----------------------------------------------------------------------------
(* Path entries.  `seen` is a ghost: how much of the path the projection   *)
(* behind an assistant message contained.                                  *)

UserMessage == [kind |-> "user"]
TurnStart == [kind |-> "start"]
TurnFinish(o) == [kind |-> "finish", outcome |-> o]
CancelRequested(o) == [kind |-> "cancel", outcome |-> o]
AssistantMessage(r, n) == [kind |-> "assistant", stop |-> r, seen |-> n]

\* A call as `_receive_executions` appends it: nothing asked of the registry.
ReceivedExecution ==
    [kind |-> "tool", status |-> "received", approval |-> "none", attempts |-> <<>>]

ToolExecutions ==
    [kind : {"tool"}, status : Statuses, approval : Approvals,
     attempts : Seq(AttemptOutcomes)]

Entries ==
    {UserMessage, TurnStart}
    \cup [kind : {"finish"}, outcome : TurnOutcomes]
    \cup [kind : {"cancel"}, outcome : TurnOutcomes \ {"completed"}]
    \cup [kind : {"assistant"}, stop : StopReasons, seen : Nat]
    \cup ToolExecutions

Holds(path, i, k) == path[i].kind = k

-----------------------------------------------------------------------------
(* The open turn.                                                          *)

\* Position s holds the TurnStart a backward scan meets before any bracket.
IsOpenTurn(path, s) ==
    /\ s \in DOMAIN path
    /\ Holds(path, s, "start")
    /\ \A j \in DOMAIN path : j > s => path[j].kind \notin {"start", "finish"}

HasOpenTurn(path) == \E s \in DOMAIN path : IsOpenTurn(path, s)

\* Position i belongs to the open turn (its TurnStart included).
InOpenTurn(path, i) ==
    /\ i \in DOMAIN path
    /\ \E s \in DOMAIN path : IsOpenTurn(path, s) /\ s <= i

OpenTurnEntries(path, k) == {i \in DOMAIN path : InOpenTurn(path, i) /\ Holds(path, i, k)}

OpenTurnExecutions(path) == OpenTurnEntries(path, "tool")

WithStatus(path, S) == {i \in OpenTurnExecutions(path) : path[i].status \in S}

ReceivedExecutions(path) == WithStatus(path, {"received"})
UndispatchedExecutions(path) == WithStatus(path, {"received", "pending"})
RunningExecutions(path) == WithStatus(path, {"running"})
ParkedExecutions(path) == WithStatus(path, {"awaiting_result"})

UndecidedExecutions(path) ==
    {i \in WithStatus(path, {"pending"}) : path[i].approval \in {"none", "pending"}}

AwaitingExecutions(path) ==
    {i \in WithStatus(path, {"pending"}) : path[i].approval = "pending"}

\* Mutant: a pending call is ready before it was allowed.
ReadyUnasked(path) == WithStatus(path, {"pending", "awaiting_result"})

ReadyExecutions(path) ==
    {i \in WithStatus(path, {"pending", "awaiting_result"}) : path[i].approval = "allowed"}

\* The open turn's first CancelRequested, as a set of at most one position.
PendingCancel(path) ==
    {i \in OpenTurnEntries(path, "cancel") :
        \A j \in OpenTurnEntries(path, "cancel") : i <= j}

CancelIsPending(path) == OpenTurnEntries(path, "cancel") # {}

\* LLM responses the open turn already holds.
StepCount(path) == Cardinality(OpenTurnEntries(path, "assistant"))

\* The open turn's last assistant message, as a set of at most one position.
LastAssistant(path) ==
    {i \in OpenTurnEntries(path, "assistant") :
        \A j \in OpenTurnEntries(path, "assistant") : j <= i}

\* A user message behind the open turn's last assistant message.
UnseenPost(path) ==
    \E a \in LastAssistant(path), i \in DOMAIN path : i > a /\ Holds(path, i, "user")

\* A user message the projection of length n did not contain.
UserMessageBeyond(path, n) == \E i \in DOMAIN path : i > n /\ Holds(path, i, "user")

\* The last response paused and nothing but posts followed it.
PausedAwaitingReplay(path) ==
    \E a \in LastAssistant(path) :
        /\ path[a].stop = "pause"
        /\ \A i \in DOMAIN path : i > a => Holds(path, i, "user")

-----------------------------------------------------------------------------
(* The derived status of a conversation without subagents.                 *)

HasAdvanceableExecutions(path) ==
    \E i \in OpenTurnExecutions(path) :
        \/ path[i].status \in {"received", "running"}
        \/ path[i].status = "pending" /\ path[i].approval \in {"none", "allowed"}

IsRunnable(path) ==
    \/ HasAdvanceableExecutions(path)
    \/ WithStatus(path, {"pending", "awaiting_result"}) = {}

EndsWithUserMessage(path) == path # <<>> /\ Holds(path, Len(path), "user")

Status(path) ==
    IF HasOpenTurn(path)
    THEN IF CancelIsPending(path) THEN "cancelling"
         ELSE IF IsRunnable(path) \/ UnseenPost(path) THEN "busy"
         ELSE "blocked"
    ELSE IF EndsWithUserMessage(path) THEN "busy" ELSE "idle"

-----------------------------------------------------------------------------
(* Writes several components share.                                        *)

\* Mutant: a deferral leaves its attempt open.
AttemptOutcomeWithoutDeferral(status) ==
    IF status \in {"completed", "failed", "interrupted", "timed_out"} THEN status ELSE "open"

\* `_ATTEMPT_OUTCOMES`: the outcome an open attempt takes from a terminal status.
AttemptOutcomeOf(status) ==
    IF status \in {"completed", "failed", "interrupted", "timed_out"} THEN status
    ELSE IF status = "awaiting_result" THEN "deferred"
    ELSE "open"

\* `_close_attempt`: only a last attempt still in flight is closed.
CloseAttempt(attempts, outcome) ==
    IF attempts # <<>> /\ attempts[Len(attempts)] = "open"
    THEN [attempts EXCEPT ![Len(attempts)] = outcome]
    ELSE attempts

\* One execution reaches `status` through the shared outcome tail.
Finalize(execution, status) ==
    [execution EXCEPT !.status = status,
                      !.attempts = CloseAttempt(@, AttemptOutcomeOf(status))]

\* Mutant: a parked call is taken for one that already has its outcome.
SettleUndispatched(path) ==
    [i \in DOMAIN path |->
        IF i \in UndispatchedExecutions(path) THEN Finalize(path[i], "cancelled") ELSE path[i]]

\* Mutant: the settle does not skip what already has its outcome.
SettleEverything(path) ==
    [i \in DOMAIN path |->
        IF i \in OpenTurnExecutions(path) THEN Finalize(path[i], "cancelled") ELSE path[i]]

\* `_settle_open_executions`: nothing nonterminal is left behind a close.
SettleOpenExecutions(path) ==
    [i \in DOMAIN path |->
        IF i \in UndispatchedExecutions(path) THEN Finalize(path[i], "cancelled")
        ELSE IF i \in ParkedExecutions(path) THEN Finalize(path[i], "interrupted")
        ELSE path[i]]

\* `_wind_down`: settle, then close with the outcome the cancel asked for.
WindDown(path) ==
    LET c == CHOOSE i \in PendingCancel(path) : TRUE
    IN  Append(SettleOpenExecutions(path), TurnFinish(path[c].outcome))

=============================================================================
