------------------------------ MODULE Subagents ------------------------------
(***************************************************************************)
(* A tree of conversations driven by the framework under a worker pool:    *)
(* `AgentSessionRunner` and `AgentRun` of src/luca/agent/core/runner.py in *)
(* their framework-owned mode (autostart_subagents=True).                  *)
(*                                                                         *)
(* Every conversation has at most one drive, a task on one event loop.     *)
(* `pc` says where it is.  At the locations of `Synchronous` a drive runs  *)
(* between two awaits, and nothing else can; at every other location it is *)
(* suspended.  Pool work a synchronous block causes (granting slots,       *)
(* starting and waking drives) is kept in `todo` and done, in the order    *)
(* the nested calls do it, before anything else moves.                     *)
(*                                                                         *)
(* Left out, and modelled elsewhere or not at all: what a tool or a model  *)
(* call does inside (module Turn), posts, deferred tools, result tools     *)
(* that are themselves gated, compaction, and suspending a run.            *)
(***************************************************************************)
EXTENDS SubagentTree

CONSTANTS
    MaxWorkers,     \* runtime_config.subagents_max_workers; 0 for Inf
    MaxRuns,        \* bound: calls of start()
    MaxCancels,     \* bound: calls of cancel()
    MaxGates,       \* bound: calls an approval policy gates
    MaxFailures,    \* bound: raises of application code
    MaxCrashes      \* bound: crashes

ASSUME PoolAssumption ==
    {MaxWorkers, MaxRuns, MaxCancels, MaxGates, MaxFailures, MaxCrashes} \subseteq Nat

VARIABLES
    session,   \* durable: the entries of every conversation
    drive,     \* per conversation: its drive, token, handle and wake flags
    working,   \* runner._working: the conversations that hold a slot
    waiters,   \* runner._waiters: the queue for a slot
    todo,      \* the rest of the synchronous block on the pool
    failed,    \* runner._admission_errors: children whose start raised
    used       \* counters for the bounds

vars == <<session, drive, working, waiters, todo, failed, used>>

-----------------------------------------------------------------------------
(* A drive.                                                                *)

\* Inside a synchronous block of the engine.
Synchronous == {"top", "spawn", "stop", "flush", "resolve", "gate", "park",
                "limit", "settle", "closing"}

\* The engine is in its loop, so `_wakes` holds the conversation.
Looping == Synchronous \cup
    {"tools", "flushed", "resolving", "announced", "waiting", "acquiring",
     "again", "model", "settling", "settled", "ending"}

\* Doing its own productive work.
Productive == {"tools", "resolving", "model"}

Locations == Looping \cup {"off", "created", "returned", "raised"}

\* `runs` says whether runner._runs has the conversation, and under which of
\* its handles: the one its parent's run holds now or one a later run replaced.
\* `under` says which of the parent's handles holds this conversation's handle.
NoDrive ==
    [pc |-> "off", token |-> FALSE, wake |-> FALSE, recheck |-> FALSE,
     progress |-> FALSE, announced |-> FALSE, pending |-> {}, why |-> "none",
     runs |-> "none", handle |-> "none", under |-> "gone", stir |-> FALSE]

Drives ==
    [pc : Locations, token : BOOLEAN, wake : BOOLEAN, recheck : BOOLEAN,
     progress : BOOLEAN, announced : BOOLEAN, pending : SUBSET Subagents,
     why : {"none", "cancel", "limit", "failure"},
     runs : {"none", "current", "old"},
     handle : {"none", "unstarted", "started", "abandoned"},
     under : {"current", "old", "gone"}, stir : BOOLEAN]

Live(c) == drive[c].runs # "none"

\* `_needs_slot`
NeedsSlot(c) == MaxWorkers # 0 /\ c # Main

\* `_parked_handle`: a live run's subtree holds the current handle of c.
Found ==
    LET found[c \in Conversations] ==
            /\ c # Main
            /\ \/ Live(Parent[c]) /\ drive[Parent[c]].runs = drive[c].under
               \/ drive[c].under = "current" /\ found[Parent[c]]
    IN  found

Init ==
    /\ session = FirstQuestion
    /\ drive = [c \in Conversations |-> NoDrive]
    /\ working = {}
    /\ waiters = <<>>
    /\ todo = <<>>
    /\ failed = {}
    /\ used = [runs |-> 0, cancels |-> 0, gates |-> 0, failures |-> 0, crashes |-> 0]

Spend(resource, limit) ==
    /\ used[resource] < limit
    /\ used' = [used EXCEPT ![resource] = @ + 1]

-----------------------------------------------------------------------------
(* Who may run.                                                            *)

\* Changed: one slot too many.
PumpOneTooMany == waiters # <<>> /\ Cardinality(working) <= MaxWorkers

\* `_pump_slots` would pop a waiter.
PumpReady == waiters # <<>> /\ Cardinality(working) < MaxWorkers

Quiet == ~PumpReady /\ todo = <<>>

\* Nothing runs: the event loop picks a suspended task or a callback.
Alone == Quiet /\ \A c \in Conversations : drive[c].pc \notin Synchronous

RunningAt(c, location) == Quiet /\ drive[c].pc = location
SuspendedAt(c, location) == Alone /\ drive[c].pc = location

Goto(c, location) == [drive EXCEPT ![c].pc = location]

-----------------------------------------------------------------------------
(* The worker pool.                                                        *)

Waiter(c, kind) == [conv |-> c, kind |-> kind, old |-> FALSE]

SlotRequest(kind, c) == [op |-> kind, conv |-> c]
WakeRequest(c) == [op |-> "drive", conv |-> c]

SlotRequests(S) == [i \in 1..Cardinality(S) |-> SlotRequest("start", InOrder(S)[i])]
WakeRequests(S) == [i \in 1..Cardinality(S) |-> WakeRequest(Parent[InOrder(S)[i]])]

\* `_still_wants_slot`
StillWants(w) ==
    IF w.kind = "resume" THEN Live(w.conv)
    ELSE /\ w.old \/ drive[w.conv].handle # "abandoned"
         /\ ~Live(w.conv)
         /\ Status(session)[w.conv] # "idle"
         /\ ~session[w.conv].cancel

\* `_restart_unresolved_children`: the children that get a fresh handle.
Restartable(c) ==
    {k \in Unresolved(session, c) : ~Live(k) /\ Status(session)[k] # "idle"}

\* What c's new handle `own` adopts: live drives, and fresh handles for the rest.
Adopted(c, own, d) ==
    [k \in Conversations |->
        IF k \in Unresolved(session, c) /\ Live(k)
        THEN [d[k] EXCEPT !.under = own, !.runs = "current", !.handle = "started"]
        ELSE IF k \in Restartable(c)
        THEN [d[k] EXCEPT !.under = own, !.handle = "unstarted"]
        ELSE IF k \in Kids(c) THEN [d[k] EXCEPT !.under = "gone"]
        ELSE IF k # Main /\ Parent[k] \in Restartable(c) THEN [d[k] EXCEPT !.under = "old"]
        ELSE IF k # Main /\ Parent[k] \in Kids(c) /\ drive[Parent[k]].runs = "old"
        THEN [d[k] EXCEPT !.under = IF @ = "old" THEN "current" ELSE "gone"]
        ELSE d[k]]

\* Waiters of a handle that was replaced.
Outdated(queue, replaced) ==
    [i \in DOMAIN queue |->
        IF queue[i].conv \in replaced THEN [queue[i] EXCEPT !.old = TRUE] ELSE queue[i]]

Replaced(c) ==
    Restartable(c) \cup {k \in Unresolved(session, c) : drive[k].runs = "old"}

\* The fan-in of the parent's run, or its settle, has something to look at.
Stirs(k) ==
    LET p == Parent[k]
    IN  /\ drive[p].runs = drive[k].under \/ drive[p].pc = "settling"
        /\ drive[p].pc = "settling" => k = First(drive[p].pending)

Stirred(k, d) == IF Stirs(k) THEN [d EXCEPT ![Parent[k]].stir = TRUE] ELSE d

\* The handle a waiter starts.
HandleOf(w) == IF w.old THEN "old" ELSE "current"

\* `_start_eager`, granted: token, restarts below, bracket, task.
GrantStart(w, queue, rest) ==
    LET k == w.conv
        started == [drive EXCEPT ![k] =
            [@ EXCEPT !.pc = "created", !.token = FALSE, !.runs = HandleOf(w),
                      !.handle = IF w.old THEN drive[k].handle ELSE "started"]]
    IN  /\ w.kind = "start"
        /\ session' = [session EXCEPT ![k] = Opened(@)]
        /\ drive' = Stirred(k, Adopted(k, HandleOf(w), started))
        /\ working' = IF NeedsSlot(k) THEN working \cup {k} ELSE working
        /\ waiters' = Outdated(queue, Replaced(k))
        /\ todo' = SlotRequests(Restartable(k)) \o rest
        /\ UNCHANGED <<failed, used>>

\* Changed: the slot of a failed start is not given back.
GrantFailsKeepingSlot(w, queue, rest) ==
    LET k == w.conv
    IN  /\ w.kind = "start"
        /\ Spend("failures", MaxFailures)
        /\ drive' = Stirred(k, Adopted(k, HandleOf(w), [drive EXCEPT ![k].handle = "abandoned"]))
        /\ working' = working \cup {k}
        /\ waiters' = Outdated(queue, Replaced(k))
        /\ todo' = SlotRequests(Restartable(k)) \o <<WakeRequest(Parent[k])>> \o rest
        /\ failed' = failed \cup {k}
        /\ UNCHANGED session

\* `_start_eager` raises after the restarts: the parent's drive will hear of it.
GrantFails(w, queue, rest) ==
    LET k == w.conv
        abandoned == [drive EXCEPT ![k].handle = IF w.old THEN @ ELSE "abandoned"]
    IN  /\ w.kind = "start"
        /\ Spend("failures", MaxFailures)
        /\ drive' = Stirred(k, Adopted(k, HandleOf(w), abandoned))
        /\ waiters' = Outdated(queue, Replaced(k))
        /\ todo' = SlotRequests(Restartable(k)) \o <<WakeRequest(Parent[k])>> \o rest
        /\ failed' = failed \cup {k}
        /\ UNCHANGED <<session, working>>

\* `_redrive`: the same handle, token and subtree; no bracket of its own.
GrantRedrive(w, queue, rest) ==
    LET k == w.conv
    IN  /\ w.kind = "redrive"
        /\ drive' = Stirred(k, [drive EXCEPT ![k] =
               [@ EXCEPT !.pc = "created", !.runs = HandleOf(w)]])
        /\ working' = IF NeedsSlot(k) THEN working \cup {k} ELSE working
        /\ waiters' = queue
        /\ todo' = rest
        /\ UNCHANGED <<session, failed, used>>

\* A parked drive gets its slot back.
GrantResume(w, queue, rest) ==
    /\ w.kind = "resume"
    /\ drive' = [drive EXCEPT ![w.conv].pc = IF @ = "acquiring" THEN "again" ELSE @]
    /\ working' = IF NeedsSlot(w.conv) THEN working \cup {w.conv} ELSE working
    /\ waiters' = queue
    /\ todo' = rest
    /\ UNCHANGED <<session, failed, used>>

\* `_grant`
Grant(w, queue, rest) ==
    \/ GrantStart(w, queue, rest)
    \/ GrantFails(w, queue, rest)
    \/ GrantRedrive(w, queue, rest)
    \/ GrantResume(w, queue, rest)

\* `_pump_slots`: one waiter popped, and granted unless it is stale.
Pump ==
    /\ PumpReady
    /\ IF StillWants(Head(waiters))
       THEN Grant(Head(waiters), Tail(waiters), todo)
       ELSE /\ waiters' = Tail(waiters)
            /\ UNCHANGED <<session, drive, working, todo, failed, used>>

\* `_request_slot`
RequestSlot ==
    /\ ~PumpReady /\ todo # <<>>
    /\ LET request == Head(todo)
           w == Waiter(request.conv, request.op)
       IN  /\ request.op # "drive"
           /\ IF NeedsSlot(request.conv)
              THEN /\ waiters' = Append(waiters, w)
                   /\ todo' = Tail(todo)
                   /\ UNCHANGED <<session, drive, working, failed, used>>
              ELSE Grant(w, waiters, Tail(todo))

\* `_ensure_driven`: wake a looping drive, restart one that ended, else nothing.
EnsureDriven ==
    /\ ~PumpReady /\ todo # <<>>
    /\ LET c == Head(todo).conv
       IN  /\ Head(todo).op = "drive"
           /\ drive' = IF drive[c].pc \in Looping THEN [drive EXCEPT ![c].wake = TRUE] ELSE drive
           /\ todo' = IF ~Live(c) /\ Found[c] /\ drive[c].handle = "started"
                      THEN <<SlotRequest("redrive", c)>> \o Tail(todo)
                      ELSE Tail(todo)
    /\ UNCHANGED <<session, working, waiters, failed, used>>

Pool == Pump \/ RequestSlot \/ EnsureDriven

-----------------------------------------------------------------------------
(* The doors.                                                              *)

\* start() on the main conversation: `_begin_run` and the bracket.
StartRun ==
    /\ Alone
    /\ ~Live(Main)
    /\ Status(session)[Main] # "idle"
    /\ Spend("runs", MaxRuns)
    /\ session' = [session EXCEPT ![Main] = Opened(@)]
    /\ drive' = Adopted(Main, "current",
           [drive EXCEPT ![Main] = [NoDrive EXCEPT !.pc = "created", !.runs = "current",
                                                   !.recheck = drive[Main].recheck]])
    /\ waiters' = Outdated(waiters, Replaced(Main))
    /\ todo' = SlotRequests(Restartable(Main))
    /\ UNCHANGED <<working, failed>>

\* What cancel() does to the runs of the conversations it reaches: a live one's
\* token is tripped, a queued handle is abandoned.
Tripped(reached) ==
    [k \in Conversations |->
        IF k \notin reached THEN drive[k]
        ELSE IF Live(k) THEN [drive[k] EXCEPT !.token = TRUE]
        ELSE IF Found[k] /\ drive[k].handle = "unstarted"
        THEN [drive[k] EXCEPT !.handle = "abandoned"]
        ELSE drive[k]]

\* Changed: nobody is woken to flush.
FlushersNobody(reached) == <<>>

\* Nothing would wake for a request without a live run but the parent's drive.
Flushers(reached) == WakeRequests({k \in reached \ {Main} : ~Live(k)})

\* cancel(): of any conversation, cascading to its unresolved children.
Cancel(c) ==
    /\ Alone
    /\ session[c].turn = "open" \/ session[c].link = "open"
    /\ ~session[c].cancel
    /\ Spend("cancels", MaxCancels)
    /\ session' = CancelRequested(session, Reached(session, {c}))
    /\ drive' = Tripped(Reached(session, {c}))
    /\ todo' = Flushers(Reached(session, {c}))
    /\ UNCHANGED <<working, waiters, failed>>

\* The application answers a gate and calls notify().
Answer(c) ==
    /\ Alone
    /\ session[c].ask = "waiting"
    /\ session' = [session EXCEPT ![c].ask = "answered"]
    /\ drive' = [drive EXCEPT ![c].recheck = TRUE]
    /\ todo' = <<WakeRequest(c)>>
    /\ UNCHANGED <<working, waiters, failed, used>>

\* The process dies: only the session survives.
Crash ==
    /\ Spend("crashes", MaxCrashes)
    /\ drive' = [c \in Conversations |-> NoDrive]
    /\ working' = {}
    /\ waiters' = <<>>
    /\ todo' = <<>>
    /\ failed' = {}
    /\ UNCHANGED session

-----------------------------------------------------------------------------
(* The engine: the top of the loop.                                        *)

\* The task's first step: resume the open turn or open one.
TakeOff(c) ==
    /\ SuspendedAt(c, "created")
    /\ session' = [session EXCEPT ![c] = Opened(@)]
    /\ drive' = [drive EXCEPT ![c] =
           [@ EXCEPT !.pc = "top", !.wake = FALSE, !.progress = FALSE, !.announced = FALSE]]
    /\ UNCHANGED <<working, waiters, todo, failed, used>>

\* `_settle_children` begins: the slot goes back, recorded start failures are dropped.
Settling(c) ==
    /\ working' = working \ {c}
    /\ failed' = failed \ Unresolved(session, c)

SettlingDrive(c, why, d) ==
    [d EXCEPT ![c] = [@ EXCEPT !.pc = "settle", !.why = why,
                               !.pending = Unresolved(session, c)]]

\* `_wind_down_async`
WindDownTree(c) ==
    /\ Settling(c)
    /\ drive' = SettlingDrive(c, "cancel", drive)
    /\ UNCHANGED <<session, waiters, todo, used>>

TopCancelled(c) ==
    /\ RunningAt(c, "top")
    /\ session[c].cancel
    /\ WindDownTree(c)

\* A child's start failed with nobody to raise into: raise here.
TopAdmissionError(c) ==
    /\ RunningAt(c, "top")
    /\ ~session[c].cancel
    /\ failed \cap Unresolved(session, c) # {}
    /\ failed' = failed \ {First(failed \cap Unresolved(session, c))}
    /\ drive' = Goto(c, "raised")
    /\ UNCHANGED <<session, working, waiters, todo, used>>

\* The flags are cleared before the state is read.
Top(c) ==
    LET busy == session[c].calls \/ session[c].ask # "none"
    IN  /\ RunningAt(c, "top")
        /\ ~session[c].cancel
        /\ failed \cap Unresolved(session, c) = {}
        /\ drive' = [drive EXCEPT ![c] =
               [@ EXCEPT !.recheck = FALSE, !.wake = FALSE, !.progress = busy,
                         !.pc = IF busy THEN "tools" ELSE "spawn"]]
        /\ UNCHANGED <<session, working, waiters, todo, failed, used>>

Again(c) ==
    /\ SuspendedAt(c, "again")
    /\ drive' = Goto(c, "top")
    /\ UNCHANGED <<session, working, waiters, todo, failed, used>>

-----------------------------------------------------------------------------
(* Steps 1 and 2: decide and dispatch.                                     *)

\* The token wins the await: nothing is written.
ToolsLost(c) ==
    /\ SuspendedAt(c, "tools")
    /\ drive[c].token
    /\ drive' = Goto(c, "spawn")
    /\ UNCHANGED <<session, working, waiters, todo, failed, used>>

\* The policy is asked again; an answered call is dispatched.
Reasked(c) ==
    /\ SuspendedAt(c, "tools")
    /\ session[c].ask # "none"
    /\ session' = IF session[c].ask = "answered"
                  THEN [session EXCEPT ![c].ask = "none", ![c].fresh = TRUE]
                  ELSE session
    /\ drive' = Goto(c, "spawn")
    /\ UNCHANGED <<working, waiters, todo, failed, used>>

\* Spawn calls complete in path order, so the next ids are used in order.
SpawnBatches(c) ==
    {S \in SUBSET {k \in Kids(c) : session[k].link = "unborn"} :
        \A k \in S, j \in Kids(c) : j < k /\ session[j].link = "unborn" => j \in S}

StopBatches(c) == {{}} \cup {{k} : k \in Unresolved(session, c)}

\* One round of calls: spawns, a stop, a gated call, or plain results.
Dispatched(c) ==
    /\ SuspendedAt(c, "tools")
    /\ session[c].calls
    /\ \E spawns \in SpawnBatches(c), stops \in StopBatches(c), gated \in BOOLEAN :
          /\ spawns = {} \/ stops = {}
          /\ IF gated THEN Spend("gates", MaxGates) ELSE UNCHANGED used
          /\ session' = [session EXCEPT ![c] =
                [@ EXCEPT !.calls = FALSE,
                          !.spawns = session[c].spawns \cup spawns,
                          !.stops = session[c].stops \cup stops,
                          !.ask = IF gated THEN "waiting" ELSE session[c].ask,
                          !.fresh = session[c].fresh \/ stops # {} \/ (spawns = {} /\ ~gated)]]
    /\ drive' = Goto(c, "spawn")
    /\ UNCHANGED <<working, waiters, todo, failed>>

\* decide(), a middleware or a contract check raises out of the drive.
ToolsRaise(c) ==
    /\ SuspendedAt(c, "tools")
    /\ Spend("failures", MaxFailures)
    /\ drive' = Goto(c, "raised")
    /\ UNCHANGED <<session, working, waiters, todo, failed>>

-----------------------------------------------------------------------------
(* Step 2b: the spawn and stop handshakes, the flush, the resolution.      *)

\* `_spawn_children` and `_start_children`; no look at the pending cancel.
Spawn(c) ==
    LET spawned == session[c].spawns
    IN  /\ RunningAt(c, "spawn")
        /\ session' = Spawned(session, c)
        /\ drive' = [k \in Conversations |->
               IF k \in spawned
               THEN [NoDrive EXCEPT !.handle = "unstarted", !.under = drive[c].runs]
               ELSE IF k = c
               THEN [drive[c] EXCEPT !.pc = "stop", !.progress = @ \/ spawned # {}]
               ELSE drive[k]]
        /\ todo' = SlotRequests(spawned)
        /\ UNCHANGED <<working, waiters, failed, used>>

\* `_stop_children`
StopChildren(c) ==
    LET reached == Reached(session, StopTargets(session, c))
    IN  /\ RunningAt(c, "stop")
        /\ session' = CancelRequested(session, reached)
        /\ drive' = [Tripped(reached) EXCEPT ![c].pc = "flush"]
        /\ todo' = Flushers(reached)
        /\ UNCHANGED <<working, waiters, failed, used>>

\* Cancelled children with no drive left to wind them down.
Flushable(c) == {k \in Unresolved(session, c) : ~Live(k) /\ session[k].cancel}

\* Its own wind-down owns the links when c is cancelling too.
Flush(c) ==
    LET flushed == IF session[c].cancel THEN {} ELSE Flushable(c)
    IN  /\ RunningAt(c, "flush")
        /\ session' = Flushed(session, flushed)
        /\ drive' = [drive EXCEPT ![c] =
               [@ EXCEPT !.pending = Unresolved(session, c),
                         !.pc = IF flushed = {} THEN "resolve" ELSE "flushed"]]
        /\ UNCHANGED <<working, waiters, todo, failed, used>>

FlushYielded(c) ==
    /\ SuspendedAt(c, "flushed")
    /\ drive' = Goto(c, "resolve")
    /\ UNCHANGED <<session, working, waiters, todo, failed, used>>

Finished(c) == {k \in drive[c].pending : Status(session)[k] = "idle"}

\* `_resolve_children`: the next finished child's result tool is invoked.
Resolve(c) ==
    /\ RunningAt(c, "resolve")
    /\ Finished(c) # {}
    /\ drive' = [drive EXCEPT ![c] =
           [@ EXCEPT !.pc = "resolving", !.progress = TRUE,
                     !.pending = {j \in drive[c].pending : j >= First(Finished(c))}]]
    /\ UNCHANGED <<session, working, waiters, todo, failed, used>>

ResolvedAll(c) ==
    /\ RunningAt(c, "resolve")
    /\ Finished(c) = {}
    /\ drive' = [drive EXCEPT ![c] = [@ EXCEPT !.pc = "gate", !.pending = {}]]
    /\ UNCHANGED <<session, working, waiters, todo, failed, used>>

\* The result lands on the link, whatever happened to the child meanwhile.
Resolved(c) ==
    LET k == First(drive[c].pending)
    IN  /\ SuspendedAt(c, "resolving")
        /\ session' = [session EXCEPT ![k].link = "result", ![c].fresh = TRUE]
        /\ drive' = [drive EXCEPT ![c] = [@ EXCEPT !.pc = "resolve", !.pending = drive[c].pending \ {k}]]
        /\ UNCHANGED <<working, waiters, todo, failed, used>>

ResolveLost(c) ==
    /\ SuspendedAt(c, "resolving")
    /\ drive[c].token
    /\ drive' = [drive EXCEPT ![c] =
           [@ EXCEPT !.pc = "resolve", !.pending = drive[c].pending \ {First(drive[c].pending)}]]
    /\ UNCHANGED <<session, working, waiters, todo, failed, used>>

-----------------------------------------------------------------------------
(* Steps 3 and 3c: gates, waiting on the subtree.                          *)

GateCancelled(c) ==
    /\ RunningAt(c, "gate")
    /\ session[c].ask # "none"
    /\ session[c].cancel
    /\ WindDownTree(c)

\* A gate is announced once per drive, and the announcement is a yield.
Gated(c) ==
    /\ RunningAt(c, "gate")
    /\ session[c].ask # "none"
    /\ ~session[c].cancel
    /\ drive' = [drive EXCEPT ![c] =
           [@ EXCEPT !.announced = TRUE, !.pc = IF drive[c].announced THEN "park" ELSE "announced"]]
    /\ UNCHANGED <<session, working, waiters, todo, failed, used>>

Announced(c) ==
    /\ SuspendedAt(c, "announced")
    /\ drive' = Goto(c, "park")
    /\ UNCHANGED <<session, working, waiters, todo, failed, used>>

\* Changed: the limit is noticed a call late.
AtHardLimitLate(c) == session[c].steps > HardMaxSteps

AtHardLimit(c) == session[c].steps >= HardMaxSteps

\* No gate: loop after progress, wait for the children, or go on to the model.
Ungated(c) ==
    /\ RunningAt(c, "gate")
    /\ session[c].ask = "none"
    /\ drive' = [drive EXCEPT ![c] =
           [@ EXCEPT !.announced = FALSE,
                     !.pc = IF drive[c].progress THEN "top"
                            ELSE IF Unresolved(session, c) # {} /\ ~session[c].fresh THEN "park"
                            ELSE IF AtHardLimit(c) THEN "limit"
                            ELSE "model"]]
    /\ UNCHANGED <<session, working, waiters, todo, failed, used>>

\* `_can_subtree_advance`
CanAdvance(c) ==
    \E k \in Unresolved(session, c) : Live(k) \/ Status(session)[k] # "blocked"

Returned(c, d) == [d EXCEPT ![c] = [@ EXCEPT !.pc = "returned", !.stir = TRUE]]

\* Changed: the slot is kept while waiting.
ParkWithSlot(c) ==
    /\ RunningAt(c, "park")
    /\ drive' = IF drive[c].recheck \/ (CanAdvance(c) /\ drive[c].token) THEN Goto(c, "top")
                ELSE IF CanAdvance(c) THEN Goto(c, "waiting")
                ELSE Returned(c, drive)
    /\ UNCHANGED <<session, working, waiters, todo, failed, used>>

\* `_await_subtree`: look again, give up, or wait without a slot.
Park(c) ==
    LET loops == drive[c].recheck \/ (CanAdvance(c) /\ drive[c].token)
        waits == CanAdvance(c) /\ ~loops
    IN  /\ RunningAt(c, "park")
        /\ drive' = IF loops THEN Goto(c, "top")
                    ELSE IF waits THEN Goto(c, "waiting")
                    ELSE Returned(c, drive)
        /\ working' = IF waits THEN working \ {c} ELSE working
        /\ UNCHANGED <<session, waiters, todo, failed, used>>

\* Changed: the loop goes on without asking for the slot again.
WokenWithoutSlot(c) ==
    /\ SuspendedAt(c, "waiting")
    /\ drive[c].wake \/ drive[c].token
    /\ drive' = Goto(c, "again")
    /\ UNCHANGED <<session, working, waiters, todo, failed, used>>

\* The wait is over; the slot is asked for again before the loop goes on.
Woken(c) ==
    /\ SuspendedAt(c, "waiting")
    /\ drive[c].wake \/ drive[c].token
    /\ drive' = Goto(c, IF NeedsSlot(c) THEN "acquiring" ELSE "again")
    /\ todo' = IF NeedsSlot(c) THEN <<SlotRequest("resume", c)>> ELSE <<>>
    /\ UNCHANGED <<session, working, waiters, failed, used>>

\* `_drop_waiter`
Without(queue, c) ==
    LET kept == {i \in DOMAIN queue : queue[i].conv # c}
    IN  [i \in 1..Cardinality(kept) |-> queue[InOrder(kept)[i]]]

\* The token wins while queued: go on without a slot, the wind-down needs none.
AcquireLost(c) ==
    /\ SuspendedAt(c, "acquiring")
    /\ drive[c].token
    /\ drive' = Goto(c, "again")
    /\ waiters' = Without(waiters, c)
    /\ UNCHANGED <<session, working, todo, failed, used>>

-----------------------------------------------------------------------------
(* Step 4: the model, and the closes.                                      *)

\* The children are cancelled by c's own close, then settled.
CascadeAndSettle(c, why) ==
    LET reached == Cascaded(session, c)
    IN  /\ Settling(c)
        /\ session' = CancelRequested(session, reached)
        /\ drive' = SettlingDrive(c, why, Tripped(reached))
        /\ todo' = Flushers(reached)
        /\ UNCHANGED <<waiters, used>>

\* A close with nothing below to settle.
CloseAlone(c, outcome, location) ==
    /\ session' = [session EXCEPT ![c] = Closed(@, outcome)]
    /\ drive' = Goto(c, location)
    /\ UNCHANGED <<working, waiters, todo, failed, used>>

\* Changed: the limit closes the turn over its children.
HardLimitAlone(c) ==
    /\ RunningAt(c, "limit")
    /\ CloseAlone(c, "errored", "ending")

\* The hard limit wins over the children.
HardLimit(c) ==
    /\ RunningAt(c, "limit")
    /\ IF Unresolved(session, c) # {}
       THEN CascadeAndSettle(c, "limit")
       ELSE CloseAlone(c, "errored", "ending")

ModelLost(c) ==
    /\ SuspendedAt(c, "model")
    /\ drive[c].token
    /\ drive' = Goto(c, "top")
    /\ UNCHANGED <<session, working, waiters, todo, failed, used>>

\* An assistant message is recorded: nothing before it is unseen any more.
Answered(e) == [e EXCEPT !.steps = @ + 1, !.fresh = FALSE]

ModelCalls(c) ==
    /\ SuspendedAt(c, "model")
    /\ session' = [session EXCEPT ![c] = [Answered(@) EXCEPT !.calls = TRUE]]
    /\ drive' = Goto(c, "again")
    /\ UNCHANGED <<working, waiters, todo, failed, used>>

\* An answer closes the turn unless a cancel or a subagent holds it open.
ModelAnswers(c) ==
    /\ SuspendedAt(c, "model")
    /\ IF session[c].cancel
       THEN /\ session' = [session EXCEPT ![c] = Answered(@)]
            /\ drive' = SettlingDrive(c, "cancel", drive)
            /\ Settling(c)
            /\ UNCHANGED <<waiters, todo, used>>
       ELSE /\ session' = [session EXCEPT ![c] =
                  IF Unresolved(session, c) # {} THEN Answered(@)
                  ELSE Closed(Answered(@), "completed")]
            /\ drive' = Goto(c, IF Unresolved(session, c) # {} THEN "again" ELSE "ending")
            /\ UNCHANGED <<working, waiters, todo, failed, used>>

\* A failed call: the main turn stays open over its children, a subagent's closes.
ModelFails(c) ==
    /\ SuspendedAt(c, "model")
    /\ IF session[c].cancel THEN WindDownTree(c)
       ELSE IF Unresolved(session, c) = {} THEN CloseAlone(c, "errored", "raised")
       ELSE IF c = Main
       THEN /\ drive' = Goto(c, "raised")
            /\ UNCHANGED <<session, working, waiters, todo, failed, used>>
       ELSE CascadeAndSettle(c, "failure")

-----------------------------------------------------------------------------
(* `_settle_children`.                                                     *)

\* The children left from the first one with a live drive on.
StillToAwait(c) ==
    {k \in drive[c].pending : \E j \in drive[c].pending : j <= k /\ Live(j)}

SettleAwaits(c) ==
    /\ RunningAt(c, "settle")
    /\ StillToAwait(c) # {}
    /\ drive' = [drive EXCEPT ![c] =
           [@ EXCEPT !.pc = "settling", !.pending = StillToAwait(c), !.stir = FALSE]]
    /\ UNCHANGED <<session, working, waiters, todo, failed, used>>

\* The awaited task is done.
ChildSettled(c) ==
    /\ SuspendedAt(c, "settling")
    /\ drive[c].stir
    /\ drive' = [drive EXCEPT ![c] =
           [@ EXCEPT !.pc = "settle", !.pending = drive[c].pending \ {First(drive[c].pending)}]]
    /\ UNCHANGED <<session, working, waiters, todo, failed, used>>

\* Nobody left to await: flush, resolve every link, and close when cancelled.
SettleEnds(c) ==
    LET flushed == Flushable(c)
        settled == LinksSettled(Flushed(session, flushed), c)
    IN  /\ RunningAt(c, "settle")
        /\ StillToAwait(c) = {}
        /\ session' = IF drive[c].why = "cancel"
                      THEN [settled EXCEPT ![c] = Closed(@, "cancelled")]
                      ELSE settled
        /\ drive' = [drive EXCEPT ![c] =
               [@ EXCEPT !.pending = {},
                         !.pc = IF drive[c].why = "cancel" THEN "ending"
                                ELSE IF flushed = {} THEN "closing" ELSE "settled"]]
        /\ UNCHANGED <<working, waiters, todo, failed, used>>

SettleYielded(c) ==
    /\ SuspendedAt(c, "settled")
    /\ drive' = Goto(c, "closing")
    /\ UNCHANGED <<session, working, waiters, todo, failed, used>>

\* The limit or the failure closes the turn, or a cancel made meanwhile does.
CloseSettled(c) ==
    /\ RunningAt(c, "closing")
    /\ IF session[c].cancel THEN CloseAlone(c, "cancelled", "ending")
       ELSE CloseAlone(c, "errored", IF drive[c].why = "limit" THEN "ending" ELSE "raised")

-----------------------------------------------------------------------------
(* The end of a drive.                                                     *)

Ending(c) ==
    /\ SuspendedAt(c, "ending")
    /\ drive' = Returned(c, drive)
    /\ UNCHANGED <<session, working, waiters, todo, failed, used>>

\* `_live_children` of the handle that drives c: driving, or queued to drive.
LiveChildren(c) ==
    {k \in Kids(c) :
        /\ drive[k].under = drive[c].runs
        /\ \/ drive[k].handle = "started" /\ drive[k].runs = "current"
           \/ drive[k].handle = "unstarted" /\ Status(session)[k] # "idle"}

\* `_end_run`, then the parent is woken: its fan-in, and its drive.
EndRun(c) ==
    LET ended == [drive EXCEPT ![c] = [@ EXCEPT !.pc = "off", !.runs = "none"]]
    IN  /\ drive' = IF c = Main THEN ended ELSE Stirred(c, ended)
        /\ working' = working \ {c}
        /\ todo' = IF c = Main THEN <<>> ELSE <<WakeRequest(Parent[c])>>
        /\ UNCHANGED <<session, waiters, failed, used>>

\* The fan-in of a finished engine: the run goes on while a child is live.
FanIn(c) ==
    /\ SuspendedAt(c, "returned")
    /\ drive[c].stir
    /\ IF LiveChildren(c) = {} THEN EndRun(c)
       ELSE /\ drive' = [drive EXCEPT ![c].stir = FALSE]
            /\ UNCHANGED <<session, working, waiters, todo, failed, used>>

\* An exception ends the run at once, children or not.
RunRaises(c) ==
    /\ SuspendedAt(c, "raised")
    /\ EndRun(c)

-----------------------------------------------------------------------------
(* The specification.                                                      *)

\* One task is scheduled.
Step(c) ==
    \/ TakeOff(c) \/ TopCancelled(c) \/ TopAdmissionError(c) \/ Top(c) \/ Again(c)
    \/ ToolsLost(c) \/ Reasked(c) \/ Dispatched(c)
    \/ Spawn(c) \/ StopChildren(c) \/ Flush(c) \/ FlushYielded(c)
    \/ Resolve(c) \/ ResolvedAll(c) \/ Resolved(c) \/ ResolveLost(c)
    \/ GateCancelled(c) \/ Gated(c) \/ Announced(c) \/ Ungated(c)
    \/ Park(c) \/ Woken(c) \/ AcquireLost(c)
    \/ HardLimit(c) \/ ModelLost(c) \/ ModelCalls(c) \/ ModelAnswers(c) \/ ModelFails(c)
    \/ SettleAwaits(c) \/ ChildSettled(c) \/ SettleEnds(c) \/ SettleYielded(c)
    \/ CloseSettled(c) \/ Ending(c) \/ FanIn(c) \/ RunRaises(c)

Next ==
    \/ Pool \/ StartRun \/ Crash
    \/ \E c \in Conversations : Cancel(c) \/ Answer(c) \/ ToolsRaise(c) \/ Step(c)

Spec == Init /\ [][Next]_vars

\* The event loop runs every ready task; tools and model calls answer in the end.
FairSpec == Spec /\ WF_vars(Pool) /\ \A c \in Conversations : WF_vars(Step(c))

-----------------------------------------------------------------------------
(* Properties.                                                             *)

\* Types; a slot, a waiter and a start failure are a subagent's, and a
\* conversation makes no more model calls than its hard limit.
TypeOK ==
    /\ session \in [Conversations -> Entries]
    /\ drive \in [Conversations -> Drives]
    /\ working \subseteq Subagents
    /\ failed \subseteq Subagents
    /\ \A i \in DOMAIN waiters :
          waiters[i] \in [conv : Subagents, kind : {"start", "redrive", "resume"}, old : BOOLEAN]
    /\ \A i \in DOMAIN todo :
          todo[i] \in [op : {"start", "redrive", "resume", "drive"}, conv : Conversations]
    /\ used \in [{"runs", "cancels", "gates", "failures", "crashes"} -> Nat]

\* The cap: no nesting of grants, releases, restarts and failed starts ever
\* has more subagents working than subagents_max_workers.
WithinCap == MaxWorkers # 0 => Cardinality(working) <= MaxWorkers

\* A slot belongs to a live drive: a grant to a request that went stale while
\* queued, or whose start raised, would leave a slot nobody gives back.
NoStrandedSlot == \A c \in working : Live(c)

\* The cap counts everybody: a subagent that runs a tool, a result tool or a
\* model call holds a slot, whatever route its drive came by.
WorkNeedsSlot ==
    \A c \in Conversations : NeedsSlot(c) /\ drive[c].pc \in Productive => c \in working

\* The rule of the pool: a subagent that waits for its subtree, for a slot or
\* for its cancelled children to settle holds no slot.
ParkedHoldsNoSlot ==
    \A c \in working : drive[c].pc \notin {"waiting", "acquiring", "settling"}

\* No close leaves an unresolved subagent behind: its path would not project.
ClosedTurnsOwnNothing ==
    \A c \in Conversations : session[c].turn \in ClosedTurns => Unresolved(session, c) = {}

\* A subagent whose result was handed to its parent has closed its turn, or
\* was told to stop while the result tool was computing.
ResolvedIsOver ==
    \A k \in Subagents :
        session[k].link = "result" => session[k].turn \in ClosedTurns \/ session[k].cancel

\* A link is resolved once: result tool, settle and flush of one parent,
\* across runs and crashes, never overwrite each other's outcome.
LinksResolveOnce ==
    [][\A k \in Subagents : session[k].link \in {"result", "cancelled"} =>
          session'[k].link = session[k].link]_vars

\* Somebody works for k: its drive, a request in the queue for one, or the
\* same of a subagent below it.
Attended ==
    LET attended[k \in Conversations] ==
            \/ Live(k)
            \/ \E i \in DOMAIN waiters : waiters[i].conv = k /\ StillWants(waiters[i])
            \/ \E j \in Unresolved(session, k) : attended[j]
    IN  attended

\* What a parked parent waits for will happen: a subagent that is BUSY, which
\* keeps its parent waiting, is not a turn everybody has left.
BusyChildIsDriven ==
    \A c \in Conversations :
        Alone /\ drive[c].pc = "waiting" /\ ~drive[c].wake =>
            \A k \in Unresolved(session, c) : Status(session)[k] = "busy" => Attended[k]

\* What the drives do agrees with what the pool and the sessions say: work
\* holds a slot and waiting holds none, a subagent that looks busy is attended
\* and one whose result was taken is over.
DrivesAgree == WorkNeedsSlot /\ ParkedHoldsNoSlot /\ BusyChildIsDriven /\ ResolvedIsOver

\* Every run of the main conversation ends, in an answer or in nothing left but
\* what the application must answer, at any cap and at any depth.
TreeRunEnds == [](Live(Main) => <>~Live(Main))

\* A cancelled subagent ends while the run that owns it lasts.
CancelledChildEnds ==
    \A k \in Subagents : []((session[k].cancel /\ Live(Main)) => <>(~session[k].cancel \/ ~Live(Main)))

=============================================================================
