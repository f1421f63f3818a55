-------------------------------- MODULE Turn --------------------------------
(***************************************************************************)
(* The drive of one conversation: `AgentSessionRunner._drive` and          *)
(* `_drive_loop` (src/luca/agent/core/runner.py) with the doors other      *)
(* callbacks use while the drive is suspended: `post_message`, `cancel`,   *)
(* `notify`, suspension, and a crash followed by a new run.                *)
(*                                                                         *)
(* The engine is a coroutine on one event loop.  `pc` names where it is.   *)
(* At the locations of `Suspended` it is inside an await or a yield and    *)
(* other callbacks may run; between two of them it runs alone.  A crash    *)
(* may hit anywhere.                                                       *)
(*                                                                         *)
(* Left out: subagents, compaction, middleware hooks that rewrite values,  *)
(* and every text, usage counter and timestamp.                            *)
(***************************************************************************)
EXTENDS Conversation

CONSTANTS
    HardMaxSteps,      \* runtime_config.hard_max_steps; 0 disables the limit
    BirthStatuses,     \* statuses a registry's birth draft may carry
    PrepareFailures,   \* statuses a failed prepare() maps to
    BodyOutcomes,      \* statuses a tool body that ran to its end maps to
    CancelOutcomes,    \* outcomes cancel() is called with
    MaxCalls,          \* bound: tool calls in one response
    MaxPosts,          \* bound: calls of post_message
    MaxNotifies,       \* bound: calls of notify
    MaxRuns,           \* bound: calls of run()/start()
    MaxSteps           \* bound: responses in one turn when HardMaxSteps = 0

ASSUME TurnAssumption ==
    /\ HardMaxSteps \in Nat
    /\ BirthStatuses \subseteq {"pending", "not_found", "invalid", "failed", "refused"}
    /\ PrepareFailures \subseteq {"not_found", "invalid", "failed"}
    /\ BodyOutcomes \subseteq {"completed", "failed", "timed_out"}
    /\ CancelOutcomes \subseteq TurnOutcomes \ {"completed"}
    /\ {MaxCalls, MaxPosts, MaxNotifies, MaxRuns, MaxSteps} \subseteq Nat

VARIABLES
    path,        \* durable: the conversation's entries
    recheck,     \* runner._recheck holds this conversation
    pc,          \* where the engine is
    token,       \* the run's CancellationToken is tripped
    polled,      \* execution positions this drive already dispatched
    announced,   \* gates announced through ApprovalRequired in this drive
    lastSeen,    \* path length at this drive's latest projection, 0 for None
    progress,    \* this pass decided or dispatched something
    batch,       \* executions selected in step 2 and not yet dispatched
    closing,     \* outcome of a close whose settle events are being yielded
    runs, posts, notifies   \* counters for the bounds

drive == <<token, polled, announced, lastSeen, progress, batch, closing>>
counters == <<runs, posts, notifies>>
vars == <<path, recheck, pc, drive, counters>>

-----------------------------------------------------------------------------
(* Where the engine can be.                                                *)

\* Inside an await on application code or the network, raced with the token.
Raced == {"birth", "decide", "prepare", "body", "tools", "llm"}

\* At a yield: the consumer holds the event.
Yielding == {"begun", "loop", "denied", "executed", "announced", "resumed",
             "settled", "ending"}

Suspended == Raced \cup Yielding

\* Between two suspension points: nothing else on the loop can run.
Running == {"drive", "top", "select", "dispatch", "gate", "gateCheck", "model",
            "project"}

\* No engine: never started, or returned at a gate, or ended some other way.
Off == {"off", "parked"}

Locations == Suspended \cup Running \cup Off

FreshDrive ==
    /\ token' = FALSE
    /\ polled' = {}
    /\ announced' = {}
    /\ lastSeen' = 0
    /\ progress' = FALSE
    /\ batch' = {}
    /\ closing' = "none"

Init ==
    /\ path = <<>>
    /\ recheck = FALSE
    /\ pc = "off"
    /\ token = FALSE
    /\ polled = {}
    /\ announced = {}
    /\ lastSeen = 0
    /\ progress = FALSE
    /\ batch = {}
    /\ closing = "none"
    /\ runs = 0
    /\ posts = 0
    /\ notifies = 0

-----------------------------------------------------------------------------
(* The doors: what other callbacks do while the engine is suspended or off *)

\* post_message(): rejected while cancelling; also the notify door.
Post ==
    /\ pc \in Suspended \cup Off
    /\ posts < MaxPosts
    /\ ~CancelIsPending(path)
    /\ path' = Append(path, UserMessage)
    /\ recheck' = TRUE
    /\ posts' = posts + 1
    /\ UNCHANGED <<pc, drive, runs, notifies>>

\* cancel(): durable entry first, then the live run's token.
Cancel(outcome) ==
    /\ pc \in Suspended \cup Off
    /\ HasOpenTurn(path)
    /\ ~CancelIsPending(path)
    /\ path' = Append(path, CancelRequested(outcome))
    /\ token' = (pc \in Suspended)
    /\ UNCHANGED <<recheck, pc, polled, announced, lastSeen, progress, batch,
                   closing, counters>>

\* notify(): the application says a gate or a parked call may have moved.
Notify ==
    /\ pc \in Suspended \cup Off
    /\ notifies < MaxNotifies
    /\ \E i \in DOMAIN path : Holds(path, i, "tool")
    /\ recheck' = TRUE
    /\ notifies' = notifies + 1
    /\ UNCHANGED <<path, pc, drive, runs, posts>>

\* Mutant: an eager run opens a bracket without looking for an open turn.
BeginBlindly(eager) ==
    /\ pc \in Off
    /\ runs < MaxRuns
    /\ Status(path) # "idle"
    /\ path' = IF eager THEN Append(path, TurnStart) ELSE path
    /\ pc' = IF eager THEN "begun" ELSE "drive"
    /\ runs' = runs + 1
    /\ FreshDrive
    /\ UNCHANGED <<recheck, posts, notifies>>

\* run()/start(): one live run, refused when there is nothing to run.  An
\* eager run opens its bracket before its task first runs.
Begin(eager) ==
    /\ pc \in Off
    /\ runs < MaxRuns
    /\ Status(path) # "idle"
    /\ path' = IF eager /\ ~HasOpenTurn(path) THEN Append(path, TurnStart) ELSE path
    /\ pc' = IF eager THEN "begun" ELSE "drive"
    /\ runs' = runs + 1
    /\ FreshDrive
    /\ UNCHANGED <<recheck, posts, notifies>>

\* The handle is suspended or its task cancelled: nothing is written.
Suspend ==
    /\ pc \in Suspended
    /\ pc' = "off"
    /\ FreshDrive
    /\ UNCHANGED <<path, recheck, counters>>

\* The process dies: only the durable path survives.
Crash ==
    /\ pc \notin Off
    /\ pc' = "off"
    /\ recheck' = FALSE
    /\ FreshDrive
    /\ UNCHANGED <<path, counters>>

-----------------------------------------------------------------------------
(* Ways out of the drive.                                                  *)

\* The engine ends here with the path as p; the location tells how.
EndDrive(p, location) ==
    /\ path' = p
    /\ pc' = location
    /\ FreshDrive
    /\ UNCHANGED <<recheck, counters>>

\* _wind_down(): settle and close as the pending cancel asks, yield, return.
WindDownNow ==
    /\ path' = WindDown(path)
    /\ pc' = "ending"
    /\ UNCHANGED <<recheck, drive, counters>>

\* The last events are delivered and the generator returns or raises.
Ending ==
    /\ pc = "ending"
    /\ EndDrive(path, "off")

\* A settle whose events are yielded before the close is written.
SettleThenClose(outcome) ==
    LET settled == SettleOpenExecutions(path)
    IN  IF settled = path
        THEN EndDrive(Append(path, TurnFinish(outcome)), "off")
        ELSE /\ path' = settled
             /\ pc' = "settled"
             /\ closing' = outcome
             /\ UNCHANGED <<recheck, token, polled, announced, lastSeen,
                            progress, batch, counters>>

CloseSettled ==
    /\ pc = "settled"
    /\ EndDrive(Append(path, TurnFinish(closing)), "off")

\* Application code raised where nothing catches it: the turn stays open.
ApplicationRaises ==
    /\ pc \in {"birth", "decide", "tools"}
    /\ EndDrive(path, "off")

-----------------------------------------------------------------------------
(* _drive: ensure an open turn, recover orphans.                           *)

\* Mutant: an orphan goes back to the queue instead of being interrupted.
Requeue(execution) ==
    [execution EXCEPT !.status = "pending", !.attempts = CloseAttempt(@, "discarded")]

\* A RUNNING call has no live task on a fresh drive.
Discard(execution) ==
    [execution EXCEPT !.status = "interrupted",
                      !.attempts = CloseAttempt(@, "discarded")]

Drive ==
    /\ pc \in {"begun", "drive"}
    /\ LET opened == IF HasOpenTurn(path) THEN path ELSE Append(path, TurnStart)
           orphans == RunningExecutions(opened)
       IN  /\ path' = [i \in DOMAIN opened |->
                          IF i \in orphans THEN Discard(opened[i]) ELSE opened[i]]
           /\ pc' = IF orphans = {} THEN "top" ELSE "loop"
    /\ UNCHANGED <<recheck, drive, counters>>

-----------------------------------------------------------------------------
(* The loop top: the cancel check, then the notify flag, cleared first.    *)

LoopTopCancelled ==
    /\ pc \in {"loop", "top"}
    /\ CancelIsPending(path)
    /\ WindDownNow

\* Mutant: the progress of earlier passes is carried into this one.
LoopTopKeepsProgress ==
    /\ pc \in {"loop", "top"}
    /\ ~CancelIsPending(path)
    /\ polled' = IF recheck THEN {} ELSE polled
    /\ recheck' = FALSE
    /\ progress' = (progress \/ (ReceivedExecutions(path) = {} /\ UndecidedExecutions(path) # {}))
    /\ pc' = IF ReceivedExecutions(path) # {} THEN "birth"
             ELSE IF UndecidedExecutions(path) # {} THEN "decide"
             ELSE "select"
    /\ UNCHANGED <<path, token, announced, lastSeen, batch, closing, counters>>

LoopTop ==
    /\ pc \in {"loop", "top"}
    /\ ~CancelIsPending(path)
    /\ polled' = IF recheck THEN {} ELSE polled
    /\ recheck' = FALSE
    /\ progress' = (ReceivedExecutions(path) = {} /\ UndecidedExecutions(path) # {})
    /\ pc' = IF ReceivedExecutions(path) # {} THEN "birth"
             ELSE IF UndecidedExecutions(path) # {} THEN "decide"
             ELSE "select"
    /\ UNCHANGED <<path, token, announced, lastSeen, batch, closing, counters>>

-----------------------------------------------------------------------------
(* Steps 1a and 1: births and decisions, each one gathered batch.          *)

\* The token won before the registry listed its tools: nothing is born.
BirthLost ==
    /\ pc = "birth"
    /\ token
    /\ pc' = "top"
    /\ UNCHANGED <<path, recheck, drive, counters>>

\* Every received call is born; a draft the token beat is born pending.
Birth ==
    /\ pc = "birth"
    /\ \E born \in [ReceivedExecutions(path) ->
                        BirthStatuses \cup (IF token THEN {"pending"} ELSE {})] :
          path' = [i \in DOMAIN path |->
                      IF i \in DOMAIN born THEN Finalize(path[i], born[i]) ELSE path[i]]
    /\ pc' = "loop"
    /\ UNCHANGED <<recheck, drive, counters>>

\* What one decide() answer does to its execution.
Decided(execution, approval) ==
    [execution EXCEPT !.approval = approval,
                      !.status = IF approval = "rejected" THEN "rejected" ELSE @]

\* All answers are written before any denial is yielded; the token may have
\* beaten any subset of the decisions.
Decide ==
    /\ pc = "decide"
    /\ \E answered \in SUBSET UndecidedExecutions(path) :
         /\ token \/ answered = UndecidedExecutions(path)
         /\ \E answer \in [answered -> {"allowed", "pending", "rejected"}] :
              /\ path' = [i \in DOMAIN path |->
                            IF i \in answered THEN Decided(path[i], answer[i]) ELSE path[i]]
              /\ pc' = IF \E i \in answered : answer[i] = "rejected"
                       THEN "denied" ELSE "select"
    /\ UNCHANGED <<recheck, drive, counters>>

-----------------------------------------------------------------------------
(* Step 2: dispatch what is allowed and not yet polled, one at a time.     *)

\* Mutant: what was dispatched is not remembered as polled.
SelectForgets ==
    /\ pc \in {"denied", "select"}
    /\ batch' = ReadyExecutions(path) \ polled
    /\ progress' = (progress \/ batch' # {})
    /\ pc' = "dispatch"
    /\ UNCHANGED <<path, recheck, token, polled, announced, lastSeen, closing, counters>>

Select ==
    /\ pc \in {"denied", "select"}
    /\ batch' = ReadyExecutions(path) \ polled
    /\ polled' = polled \cup batch'
    /\ progress' = (progress \/ batch' # {})
    /\ pc' = "dispatch"
    /\ UNCHANGED <<path, recheck, token, announced, lastSeen, closing, counters>>

\* A tripped token stops the batch between two calls.
NextCall ==
    /\ pc \in {"executed", "dispatch"}
    /\ pc' = IF token \/ batch = {} THEN "gate" ELSE "prepare"
    /\ batch' = IF token THEN {} ELSE batch
    /\ UNCHANGED <<path, recheck, token, polled, announced, lastSeen, progress,
                   closing, counters>>

\* The call being dispatched: the batch goes in path order.
IsCurrent(i) == i \in batch /\ \A j \in batch : i <= j

\* _cancelled_in_place(): a call that never ran is cancelled, one that ran
\* before it parked is interrupted.
CancelledInPlace(execution) ==
    Finalize(execution, IF execution.attempts # <<>> THEN "interrupted" ELSE "cancelled")

\* The current call leaves the batch as `execution`.
Settle(i, execution, location) ==
    /\ path' = [path EXCEPT ![i] = execution]
    /\ batch' = batch \ {i}
    /\ pc' = location
    /\ UNCHANGED <<recheck, token, polled, announced, lastSeen, progress,
                   closing, counters>>

PrepareFails(i) ==
    /\ pc = "prepare"
    /\ IsCurrent(i)
    /\ \E s \in PrepareFailures : Settle(i, Finalize(path[i], s), "executed")

\* prepare() lost to the token, or came back to find it tripped.
PrepareCancelled(i) ==
    /\ pc = "prepare"
    /\ IsCurrent(i)
    /\ token
    /\ Settle(i, CancelledInPlace(path[i]), "executed")

\* Mutant: the token is not looked at again when prepare() is back.
StartBodyBlindly(i) ==
    /\ pc = "prepare"
    /\ IsCurrent(i)
    /\ path' = [path EXCEPT ![i].status = "running", ![i].attempts = Append(@, "open")]
    /\ pc' = "body"
    /\ UNCHANGED <<recheck, drive, counters>>

\* What the start of the body writes.
Dispatched(execution) ==
    [execution EXCEPT !.status = "running", !.attempts = Append(@, "open")]

\* The attempt opens after prepare() returned and before the body runs.
StartBody(i) ==
    /\ pc = "prepare"
    /\ IsCurrent(i)
    /\ ~token
    /\ path' = [path EXCEPT ![i] = Dispatched(path[i])]
    /\ pc' = "body"
    /\ UNCHANGED <<recheck, drive, counters>>

BodyEnds(i) ==
    /\ pc = "body"
    /\ IsCurrent(i)
    /\ \E s \in BodyOutcomes : Settle(i, Finalize(path[i], s), "executed")

\* ExecutionDeferred: the attempt closes, the call parks, nothing is yielded.
BodyDefers(i) ==
    /\ pc = "body"
    /\ IsCurrent(i)
    /\ Settle(i, Finalize(path[i], "awaiting_result"), "dispatch")

\* The cancellation grace expired and the body was killed.
BodyKilled(i) ==
    /\ pc = "body"
    /\ IsCurrent(i)
    /\ token
    /\ Settle(i, Finalize(path[i], "interrupted"), "executed")

-----------------------------------------------------------------------------
(* Step 3: the gate and the park.                                          *)

Blocked == AwaitingExecutions(path) # {} \/ ParkedExecutions(path) # {}

\* _has_unseen_post(): durable, or posted under this drive's own model call.
HasUnseenPost ==
    \/ UnseenPost(path)
    \/ lastSeen # 0 /\ UserMessageBeyond(path, lastSeen)

GateCancelled ==
    /\ pc = "gate"
    /\ Blocked
    /\ CancelIsPending(path)
    /\ WindDownNow

\* Announce new gates; a park without a gate forgets what was announced.
Gate ==
    /\ pc = "gate"
    /\ Blocked
    /\ ~CancelIsPending(path)
    /\ announced' = IF AwaitingExecutions(path) = {} THEN {}
                    ELSE announced \cup AwaitingExecutions(path)
    /\ pc' = IF AwaitingExecutions(path) \subseteq announced
             THEN "gateCheck" ELSE "announced"
    /\ UNCHANGED <<path, recheck, token, polled, lastSeen, progress, batch,
                   closing, counters>>

\* A post reaches the model past the gate.
GatePassed ==
    /\ pc \in {"announced", "gateCheck"}
    /\ HasUnseenPost
    /\ pc' = "model"
    /\ UNCHANGED <<path, recheck, drive, counters>>

\* _await_subtree() without children: look again, or nothing can advance.
GateRechecked ==
    /\ pc \in {"announced", "gateCheck"}
    /\ ~HasUnseenPost
    /\ recheck
    /\ pc' = "top"
    /\ UNCHANGED <<path, recheck, drive, counters>>

\* Mutant: a notify that arrived since the loop top is not looked at.
ParkDeaf ==
    /\ pc \in {"announced", "gateCheck"}
    /\ ~HasUnseenPost
    /\ EndDrive(path, "parked")

Park ==
    /\ pc \in {"announced", "gateCheck"}
    /\ ~HasUnseenPost
    /\ ~recheck
    /\ EndDrive(path, "parked")

\* Mutant: a pass that made progress goes straight on to the model.
NotBlockedRushes ==
    /\ pc = "gate"
    /\ ~Blocked
    /\ announced' = {}
    /\ pc' = "model"
    /\ UNCHANGED <<path, recheck, token, polled, lastSeen, progress, batch,
                   closing, counters>>

NotBlocked ==
    /\ pc = "gate"
    /\ ~Blocked
    /\ announced' = {}
    /\ pc' = IF progress THEN "top" ELSE "model"
    /\ UNCHANGED <<path, recheck, token, polled, lastSeen, progress, batch,
                   closing, counters>>

-----------------------------------------------------------------------------
(* Step 4: the step limit and the model call.                              *)

AtHardLimit == HardMaxSteps > 0 /\ StepCount(path) >= HardMaxSteps

HardLimit ==
    /\ pc = "model"
    /\ AtHardLimit
    /\ SettleThenClose("errored")

\* ResponseResumed is yielded before the projection is taken.
Resume ==
    /\ pc = "model"
    /\ ~AtHardLimit
    /\ pc' = IF PausedAwaitingReplay(path) THEN "resumed" ELSE "project"
    /\ UNCHANGED <<path, recheck, drive, counters>>

\* Mutant: the mark of what the model has seen is one too far.
ProjectTooFar ==
    /\ pc \in {"resumed", "project"}
    /\ lastSeen' = Len(path) + 1
    /\ pc' = "tools"
    /\ UNCHANGED <<path, recheck, token, polled, announced, progress, batch,
                   closing, counters>>

Project ==
    /\ pc \in {"resumed", "project"}
    /\ lastSeen' = Len(path)
    /\ pc' = "tools"
    /\ UNCHANGED <<path, recheck, token, polled, announced, progress, batch,
                   closing, counters>>

ToolsCollected ==
    /\ pc = "tools"
    /\ pc' = "llm"
    /\ UNCHANGED <<path, recheck, drive, counters>>

\* Mutant: collecting the tools is awaited without racing the token.
ModelLostOnly ==
    /\ pc = "llm"
    /\ token
    /\ pc' = "top"
    /\ UNCHANGED <<path, recheck, drive, counters>>

\* The token won get_tools or the model call: nothing is recorded.
ModelLost ==
    /\ pc \in {"tools", "llm"}
    /\ token
    /\ pc' = "top"
    /\ UNCHANGED <<path, recheck, drive, counters>>

MaySpeak == HardMaxSteps > 0 \/ StepCount(path) < MaxSteps

\* The response and its calls are appended in one step without an await.
Response(stop) == Append(path, AssistantMessage(stop, lastSeen))

ModelCalls(n) ==
    /\ pc = "llm"
    /\ MaySpeak
    /\ path' = Response("tool_use") \o [k \in 1..n |-> ReceivedExecution]
    /\ pc' = "loop"
    /\ UNCHANGED <<recheck, drive, counters>>

\* A final answer that may not close: something newer or something live.
MustContinue ==
    UserMessageBeyond(path, lastSeen) \/ Blocked

\* No tool calls: a pause loops; else cancel, then the unseen, then the close.
ModelPauses ==
    /\ pc = "llm"
    /\ MaySpeak
    /\ path' = Response("pause")
    /\ pc' = "loop"
    /\ UNCHANGED <<recheck, drive, counters>>

\* The close an answer, or a finish reason that is not one, writes behind it.
Closed(stop) ==
    IF stop = "stop" THEN Append(Response(stop), TurnFinish("completed"))
    ELSE Append(SettleOpenExecutions(Response(stop)), TurnFinish("errored"))

\* Mutant: the answer is closed on without asking for a cancel first.
ModelAnswersRegardless(stop) ==
    /\ pc = "llm"
    /\ MaySpeak
    /\ IF MustContinue
       THEN path' = Response(stop) /\ pc' = "loop"
       ELSE path' = Closed(stop) /\ pc' = "ending"
    /\ UNCHANGED <<recheck, drive, counters>>

ModelAnswers(stop) ==
    /\ pc = "llm"
    /\ MaySpeak
    /\ IF CancelIsPending(path)
       THEN path' = WindDown(Response(stop)) /\ pc' = "ending"
       ELSE IF MustContinue
       THEN path' = Response(stop) /\ pc' = "loop"
       ELSE path' = Closed(stop) /\ pc' = "ending"
    /\ UNCHANGED <<recheck, drive, counters>>

\* A pending cancel discards the failure; otherwise the turn closes on it.
ModelFails(outcome) ==
    /\ pc = "llm"
    /\ IF CancelIsPending(path) THEN WindDownNow ELSE SettleThenClose(outcome)

-----------------------------------------------------------------------------
(* The specification.                                                      *)

Doors ==
    \/ Post
    \/ \E o \in CancelOutcomes : Cancel(o)
    \/ Notify
    \/ \E eager \in BOOLEAN : Begin(eager)
    \/ Suspend
    \/ Crash

\* What the engine does on its own once it is pulled: no application answer.
Engine ==
    \/ Drive \/ LoopTopCancelled \/ LoopTop \/ Select \/ NextCall
    \/ GateCancelled \/ Gate \/ GatePassed \/ GateRechecked \/ Park \/ NotBlocked
    \/ HardLimit \/ Resume \/ Project \/ CloseSettled \/ Ending

\* The token beats whatever the engine is waiting for.
TokenWins ==
    \/ BirthLost
    \/ token /\ Decide
    \/ \E i \in DOMAIN path : PrepareCancelled(i) \/ BodyKilled(i)
    \/ ModelLost

\* The application or the provider answers.
Answers ==
    \/ Birth
    \/ Decide
    \/ \E i \in DOMAIN path : PrepareFails(i) \/ StartBody(i) \/ BodyEnds(i) \/ BodyDefers(i)
    \/ ToolsCollected
    \/ \E n \in 1..MaxCalls : ModelCalls(n)
    \/ ModelPauses
    \/ \E r \in {"stop", "non_answer"} : ModelAnswers(r)
    \/ \E o \in {"errored", "timed_out"} : ModelFails(o)

Next == Doors \/ Engine \/ TokenWins \/ Answers \/ ApplicationRaises

Spec == Init /\ [][Next]_vars

\* The engine advances whenever it is pulled, and a tripped token is raced by
\* every await, so neither needs the application or the provider to answer.
FairSpec == Spec /\ WF_vars(Engine) /\ WF_vars(TokenWins)

-----------------------------------------------------------------------------
(* Safety.                                                                 *)

\* Every variable keeps its type.
TypeOK ==
    /\ path \in Seq(Entries)
    /\ recheck \in BOOLEAN
    /\ pc \in Locations
    /\ token \in BOOLEAN
    /\ polled \subseteq DOMAIN path
    /\ announced \subseteq DOMAIN path
    /\ lastSeen \in 0..Len(path)
    /\ progress \in BOOLEAN
    /\ batch \subseteq DOMAIN path
    /\ closing \in TurnOutcomes \cup {"none"}
    /\ {runs, posts, notifies} \subseteq Nat

\* Turn brackets never nest and only a user message may lie between two of
\* them, whichever of start(), the drive, cancel() and a crash wrote last.
WellBracketed ==
    \A i \in DOMAIN path :
        /\ Holds(path, i, "start") =>
             \A j \in DOMAIN path : j < i =>
                \/ path[j].kind # "start"
                \/ \E k \in DOMAIN path : j < k /\ k < i /\ Holds(path, k, "finish")
        /\ path[i].kind \notin {"start", "user"} =>
             \E s \in DOMAIN path :
                /\ s < i
                /\ Holds(path, s, "start")
                /\ \A k \in DOMAIN path : s < k /\ k < i => ~Holds(path, k, "finish")

\* No close leaves a live call behind it: outside the open turn every
\* execution is terminal (`_settle_open_executions` before every TurnFinish).
SettledBehindClose ==
    \A i \in DOMAIN path :
        Holds(path, i, "tool") /\ path[i].status \in NonterminalStatuses
            => InOpenTurn(path, i)

\* The attempt list is the audit of the body's invocations: only a deferral is
\* followed by another attempt, an attempt is in flight exactly while the call
\* is RUNNING, and the last attempt agrees with the status, through deferrals,
\* kills, crashes and orphan recovery.
AttemptsAgree(x) ==
    LET n == Len(x.attempts)
    IN  /\ \A k \in 1..n : k < n => x.attempts[k] = "deferred"
        /\ x.status = "running" <=> (n > 0 /\ x.attempts[n] = "open")
        /\ x.status \in {"completed", "timed_out"} =>
              n > 0 /\ x.attempts[n] = x.status
        /\ x.status = "awaiting_result" => n > 0 /\ x.attempts[n] = "deferred"
        /\ x.status = "interrupted" =>
              n > 0 /\ x.attempts[n] \in {"interrupted", "discarded", "deferred"}
        /\ x.status \in {"received", "pending", "rejected", "refused", "cancelled"} =>
              n = 0

AttemptAudit == \A i \in DOMAIN path : Holds(path, i, "tool") => AttemptsAgree(path[i])

\* No tool body ever runs without an ALLOW, on any dispatch of the call.
ApprovalBeforeBody ==
    \A i \in DOMAIN path :
        Holds(path, i, "tool") /\ path[i].attempts # <<>> => path[i].approval = "allowed"

\* The model is never called over a call that could still move: at the model
\* call every execution is terminal, parked, or gated on an answer (the comment
\* at the call, runner.py), whatever a cancel or a notify did to the pass.
NothingLiveAtModel ==
    pc \in {"model", "resumed", "project", "tools", "llm"} =>
        \A i \in DOMAIN path : Holds(path, i, "tool") =>
            \/ path[i].status \in TerminalStatuses \cup {"awaiting_result"}
            \/ path[i].status = "pending" /\ path[i].approval = "pending"

\* Position c lies in the bracket that the finish at f closed.
InBracketOf(c, f) ==
    /\ c < f
    /\ \A k \in DOMAIN path : c < k /\ k < f => path[k].kind \notin {"start", "finish"}

\* A turn that was asked to cancel is never closed as a complete answer, even
\* when the answer arrives inside the grace window.
CancelNeverCompletes ==
    \A c, f \in DOMAIN path :
        /\ Holds(path, c, "cancel")
        /\ Holds(path, f, "finish")
        /\ InBracketOf(c, f)
        => path[f].outcome # "completed"

\* A turn closes COMPLETED only when the model has been shown every message
\* posted before the close, however the posts interleave with its calls.
AnsweredBeforeComplete ==
    \A f \in DOMAIN path :
        Holds(path, f, "finish") /\ path[f].outcome = "completed" =>
            \A u \in DOMAIN path : u < f /\ Holds(path, u, "user") =>
                \E a \in DOMAIN path :
                    a < f /\ Holds(path, a, "assistant") /\ u <= path[a].seen

\* A turn closes COMPLETED only as an answer to everything the application
\* said in it: its posts and its cancels, whenever they landed.
CompletedIsAnswered == AnsweredBeforeComplete /\ CancelNeverCompletes

\* A parked tool is polled again only when a run, a notify or a post behind the
\* call asked for it: no pass of the loop polls a deferred call on its own.
PollsArePaidFor ==
    \A i \in DOMAIN path :
        Holds(path, i, "tool") =>
            Len(path[i].attempts) <=
                runs + notifies
                + Cardinality({u \in DOMAIN path : u > i /\ Holds(path, u, "user")})

-----------------------------------------------------------------------------
(* Action properties.                                                      *)

\* The path is append-only, and only a live execution is ever rewritten: a
\* terminal outcome survives cancels, recoveries and later settles.
TerminalIsFinal ==
    [][/\ DOMAIN path \subseteq DOMAIN path'
       /\ \A i \in DOMAIN path :
            path'[i] # path[i] =>
                Holds(path, i, "tool") /\ path[i].status \in NonterminalStatuses]_vars

\* No body starts in a turn that has been asked to cancel: the token the
\* dispatch reads and the durable request it stands for never disagree.
NoDispatchUnderCancel ==
    [][\A i \in DOMAIN path :
          Holds(path, i, "tool") /\ path'[i].status = "running" /\ path[i].status # "running"
              => ~CancelIsPending(path)]_vars

\* A drive stops at a gate only in a state the derived status calls stopped,
\* and never with a notify it has not looked at: a polling application cannot
\* find BUSY after a run that did nothing, nor lose an answer.
ParksOnlyWhenBlocked ==
    [][pc' = "parked" /\ pc # "parked" =>
          Status(path) \in {"blocked", "cancelling"} /\ ~recheck]_vars

-----------------------------------------------------------------------------
(* Liveness.                                                               *)

\* A cancelled run ends although no tool, registry or provider ever answers.
CancelledRunEnds == token ~> pc \in Off

\* When tools, registry and provider answer sooner or later, every run ends:
\* deferrals, gates, posts and pauses cannot keep it spinning.
AnsweredRunEnds == WF_vars(Answers) => (pc \notin Off ~> pc \in Off)

-----------------------------------------------------------------------------
(* The drive implements the contract of a turn.                            *)

StageOf(status) ==
    IF status \in TerminalStatuses THEN "done"
    ELSE IF status = "received" THEN "asked"
    ELSE IF status = "pending" THEN "waiting"
    ELSE IF status = "running" THEN "running"
    ELSE "parked"

CallsOf(p) ==
    [i \in {j \in DOMAIN p : Holds(p, j, "tool")} |->
        [stage |-> StageOf(p[i].status), tries |-> Len(p[i].attempts)]]

\* The outcome of the path's last TurnFinish.
OutcomeOf(p) ==
    LET finishes == {i \in DOMAIN p : Holds(p, i, "finish")}
    IN  IF finishes = {} THEN "none"
        ELSE p[CHOOSE f \in finishes : \A g \in finishes : g <= f].outcome

Contract == INSTANCE TurnContract WITH
    open <- HasOpenTurn(path),
    asked <- CancelIsPending(path),
    calls <- CallsOf(path),
    outcome <- OutcomeOf(path)

\* Every step of the drive, its doors and its crashes is a step of the
\* contract: a call never skips a stage and no close leaves one live.
TurnRefinement == Contract!ContractSpec

=============================================================================
