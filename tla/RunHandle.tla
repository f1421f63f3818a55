----------------------------- MODULE RunHandle ------------------------------
(***************************************************************************)
(* The handles of a run (`AgentRun`): how the events of a tree of handles   *)
(* reach one consumer.  The root handle is lazy (a consumer pulls it) or   *)
(* eager (a task pulls it and a consumer reads the buffer); its subagents  *)
(* are eager tasks the framework starts, whose events are forwarded into   *)
(* the inbox of their parent.                                              *)
(*                                                                         *)
(* A fan-in races the inbox with one held step of the handle's own engine  *)
(* and sleeps on both and on the event its children set when they end.     *)
(* What an engine does is left open: it yields an event, announces a gate, *)
(* spawns a child, fails or ends; modules Turn and Subagents say when.     *)
(***************************************************************************)
EXTENDS Naturals, Sequences, FiniteSets

CONSTANTS
    Root,          \* the handle the application holds
    Parent,        \* Parent[c]: the handle that spawns subagent c
    Modes,         \* {"lazy"}, {"eager"} or both
    DeepRestarts,  \* a subagent may be restarted under a parent whose drive is over
    MaxEvents,     \* bound: events and gates of each engine
    MaxTroubles    \* bound: raises, failing starts, cancelled tasks, restarts of subagents

Kids == DOMAIN Parent
Handles == {Root} \cup Kids

ASSUME RunHandleAssumption ==
    /\ Root \notin Kids
    /\ \A c \in Kids : Parent[c] \in Handles
    /\ \E depth \in [Handles -> 0 .. Cardinality(Kids)] : \A c \in Kids : depth[Parent[c]] < depth[c]
    /\ Modes \subseteq {"lazy", "eager"}
    /\ DeepRestarts \in BOOLEAN
    /\ MaxEvents \in [Handles -> Nat]
    /\ MaxTroubles \in Nat

VARIABLES
    mode,        \* how the root is driven
    engine,      \* the engine of a handle: "none" or "on"
    step,        \* its held step: none, running, event, over or failed
    made,        \* bound: events an engine has yielded
    story,       \* history: what has been said of a handle, kind by kind
    inbox,       \* _inbox: what children and the pool have put there
    tasks,       \* an eager handle's task: none, running, cancelling, or how it ended
    kid,         \* a subagent before its drive: unborn, queued, abandoned, admitted
    registered,  \* runner._runs holds the handle
    awake,       \* the fan-in has something to look at that the inbox does not show
    approvals,   \* the approvals queue of the root
    stream,      \* what came out of the root (a lazy consumer's, or the buffer), by handle
    client,      \* idle, pulling, stopped, error, refused or left
    wake,        \* _wake of the root: its reader does not sleep
    unread,      \* the buffer holds events the consumer has yet to read
    result,      \* the root's RunResult is there
    owed,        \* handles whose engine has an admission error to raise
    faults

pulls == <<engine, step, made>>
pool == <<kid, owed>>
handles == <<tasks, registered>>
reader == <<client, wake, unread>>
handleVars == <<mode, pulls, story, inbox, pool, handles, awake, approvals, stream, reader, result, faults>>

-----------------------------------------------------------------------------
(* Events.                                                                 *)

\* An event names the handle it is about; n is its place among what was said of it.
Kinds == {"spawned", "started", "own", "ended"}
News(h, what) == [of |-> h, what |-> what, n |-> Len(story[h]) + 1]
Says(h, what) == story' = [story EXCEPT ![h] = Append(@, what)]

\* The event of the step in hand, which was said when the engine yielded it.
InHand(h) == [of |-> h, what |-> "own", n |-> Len(story[h])]

\* A child that is driving, or is queued with something to drive.
LiveChildren(h) ==
    \E c \in Kids : Parent[c] = h /\ (tasks[c] \in {"running", "cancelling"} \/ kid[c] = "queued")

IsEager(h) == h # Root \/ mode = "eager"

\* The fan-in is being pulled: by the task, or by the consumer.
Pumping(h) == IF IsEager(h) THEN tasks[h] = "running" ELSE client = "pulling"

-----------------------------------------------------------------------------
(* Handing an event on, and the end of a drive.                            *)

Put(box, h, e) == [box EXCEPT ![h] = Append(@, e)]

\* One event of handle h: forwarded to the parent, buffered, or returned to
\* the consumer whose pull it answers.
HandOn(h, e, box) ==
    IF h # Root THEN inbox' = Put(box, Parent[h], e) /\ UNCHANGED <<stream, reader>>
    ELSE /\ inbox' = box /\ stream' = Put(stream, e.of, e)
         /\ IF mode = "eager" THEN wake' = TRUE /\ unread' = TRUE /\ UNCHANGED client
            ELSE client' = "idle" /\ UNCHANGED <<wake, unread>>

\* `_close_engine`: the held step first, then the generator.
CloseEngine(h) ==
    /\ step' = [step EXCEPT ![h] = "none"]
    /\ engine' = [engine EXCEPT ![h] = "none"]

ApprovalsClosed == approvals # <<>> /\ approvals[Len(approvals)] = "end"

\* `_close_approvals`: the sentinel, once.
CloseApprovals(h) ==
    approvals' = IF h # Root \/ ApprovalsClosed THEN approvals ELSE Append(approvals, "end")

\* `_end_run`: unregister, and announce the ending to the parent, once.
Unregister(h, box) ==
    /\ registered' = [registered EXCEPT ![h] = FALSE]
    /\ IF h = Root \/ ~registered[h] THEN inbox' = box /\ UNCHANGED story
       ELSE inbox' = Put(box, Parent[h], News(h, "ended")) /\ Says(h, "ended")

\* The `finally` of `_consume`, for an eager handle that ends as `how`: its
\* parent's fan-in, and the reader of the parent, are woken.
TaskEnds(h, how, box) ==
    /\ tasks' = [tasks EXCEPT ![h] = how]
    /\ CloseEngine(h) /\ Unregister(h, box) /\ CloseApprovals(h)
    /\ awake' = [x \in Handles |-> awake[x] \/ x = h \/ (h # Root /\ x = Parent[h])]
    /\ wake' = (wake \/ h = Root \/ Parent[h] = Root)
    /\ result' = IF h = Root THEN how = "done" ELSE result

\* The ends of a lazy root's pull: over, or raised.
PullEnds(how, box) ==
    /\ client' = how
    /\ Unregister(Root, box) /\ CloseApprovals(Root)
    /\ result' = (how = "stopped")

DriveEnds(h, how, box) ==
    /\ IF IsEager(h) THEN TaskEnds(h, how, box) /\ UNCHANGED client
       ELSE CloseEngine(h) /\ PullEnds(IF how = "done" THEN "stopped" ELSE "error", box)
            /\ UNCHANGED <<tasks, awake, wake>>
    /\ UNCHANGED <<mode, made, pool>>

-----------------------------------------------------------------------------
(* The fan-in: `_next_own_or_forwarded`.                                   *)

Idle(h) == Pumping(h) /\ inbox[h] = <<>>

\* Nothing to hand on: take a step of the engine in hand, clear _subtree_wake
\* and sleep on both and on the inbox.
Sleep(h) ==
    /\ Idle(h) /\ awake[h]
    /\ step[h] \in {"none", "running"}
    /\ engine[h] = "on" \/ LiveChildren(h)
    /\ step' = IF engine[h] = "on" THEN [step EXCEPT ![h] = "running"] ELSE step
    /\ awake' = [awake EXCEPT ![h] = FALSE]
    /\ UNCHANGED <<mode, engine, made, story, inbox, pool, handles, approvals, stream, reader, result, faults>>

\* What is in the inbox goes first, whether or not the own step is done.
TakeForwarded(h) ==
    /\ Pumping(h) /\ inbox[h] # <<>>
    /\ HandOn(h, Head(inbox[h]), [inbox EXCEPT ![h] = Tail(@)])
    /\ awake' = [awake EXCEPT ![h] = TRUE]
    /\ UNCHANGED <<mode, pulls, story, pool, handles, approvals, result, faults>>

TakeOwn(h) ==
    /\ Idle(h) /\ step[h] = "event"
    /\ HandOn(h, InHand(h), inbox)
    /\ step' = [step EXCEPT ![h] = "none"]
    /\ awake' = [awake EXCEPT ![h] = TRUE]
    /\ UNCHANGED <<mode, engine, made, story, pool, handles, approvals, result, faults>>

\* `_deliver` raised: the event is buffered (eager) or lost (lazy), and the
\* run ends with the exception.
DeliveryRaises ==
    /\ Pumping(Root) /\ faults < MaxTroubles
    /\ inbox[Root] # <<>> \/ step[Root] = "event"
    /\ LET forwarded == inbox[Root] # <<>>
           e == IF forwarded THEN Head(inbox[Root]) ELSE InHand(Root)
       IN  /\ DriveEnds(Root, "failed", IF forwarded THEN [inbox EXCEPT ![Root] = Tail(@)] ELSE inbox)
           /\ IF mode = "eager" THEN stream' = Put(stream, e.of, e) /\ unread' = TRUE
              ELSE UNCHANGED <<stream, unread>>
    /\ faults' = faults + 1

\* The own engine is exhausted; the subtree may still be going.
OwnOver(h) ==
    /\ Idle(h) /\ step[h] = "over"
    /\ CloseEngine(h)
    /\ awake' = [awake EXCEPT ![h] = TRUE]
    /\ UNCHANGED <<mode, made, story, inbox, pool, handles, approvals, stream, reader, result, faults>>

OwnFailed(h) ==
    /\ Idle(h) /\ step[h] = "failed"
    /\ DriveEnds(h, "failed", inbox)
    /\ UNCHANGED <<stream, unread, faults>>

\* The whole subtree is settled: StopAsyncIteration.
Stop(h) ==
    /\ Idle(h) /\ engine[h] = "none" /\ step[h] = "none" /\ awake[h]
    /\ ~LiveChildren(h)
    /\ DriveEnds(h, "done", inbox)
    /\ UNCHANGED <<stream, unread, faults>>

FanIn(h) == Sleep(h) \/ TakeForwarded(h) \/ TakeOwn(h) \/ OwnOver(h) \/ OwnFailed(h) \/ Stop(h)

-----------------------------------------------------------------------------
(* The engines, while a step of theirs is running.                         *)

Ready(h, what) == step[h] = "running" /\ step' = [step EXCEPT ![h] = what]

EngineYields(h) ==
    /\ made[h] < MaxEvents[h]
    /\ Ready(h, "event")
    /\ made' = [made EXCEPT ![h] = @ + 1]
    /\ Says(h, "own")
    /\ UNCHANGED <<mode, engine, inbox, pool, handles, awake, approvals, stream, reader, result, faults>>

\* A gate is published to the approvals stream of every ancestor that still has
\* one open, and then announced by an event.
EngineGates(h) ==
    /\ made[h] < MaxEvents[h]
    /\ Ready(h, "event")
    /\ made' = [made EXCEPT ![h] = @ + 1]
    /\ Says(h, "own")
    /\ approvals' = IF ApprovalsClosed THEN approvals ELSE Append(approvals, "gate")
    /\ UNCHANGED <<mode, engine, inbox, pool, handles, awake, stream, reader, result, faults>>

\* Mutant: the slot is asked for, and granted, before the spawn is announced.
EngineSpawnsLate(h, c) ==
    /\ step[h] = "running" /\ Parent[c] = h /\ kid[c] = "unborn"
    /\ tasks' = [tasks EXCEPT ![c] = "running"] /\ registered' = [registered EXCEPT ![c] = TRUE]
    /\ engine' = [engine EXCEPT ![c] = "on"] /\ kid' = [kid EXCEPT ![c] = "admitted"]
    /\ inbox' = Put(Put(inbox, h, News(c, "started")), h, [News(c, "spawned") EXCEPT !.n = @ + 1])
    /\ story' = [story EXCEPT ![c] = @ \o <<"started", "spawned">>]
    /\ UNCHANGED <<mode, step, made, owed, awake, approvals, stream, reader, result, faults>>

\* The spawn is announced through the inbox, and a slot is asked for.
EngineSpawns(h, c) ==
    /\ step[h] = "running"
    /\ Parent[c] = h /\ kid[c] = "unborn"
    /\ inbox' = Put(inbox, h, News(c, "spawned")) /\ Says(c, "spawned")
    /\ kid' = [kid EXCEPT ![c] = "queued"]
    /\ UNCHANGED <<mode, pulls, owed, handles, awake, approvals, stream, reader, result, faults>>

EngineEnds(h) ==
    /\ ~owed[h]
    /\ Ready(h, "over")
    /\ UNCHANGED <<mode, engine, made, story, inbox, pool, handles, awake, approvals, stream, reader, result, faults>>

\* It raises: an admission error it owes, or application code's.
EngineFails(h) ==
    /\ owed[h] \/ faults < MaxTroubles
    /\ Ready(h, "failed")
    /\ owed' = [owed EXCEPT ![h] = FALSE]
    /\ faults' = IF owed[h] THEN faults ELSE faults + 1
    /\ UNCHANGED <<mode, engine, made, story, inbox, kid, handles, awake, approvals, stream, reader, result>>

Engine(h) ==
    EngineYields(h) \/ EngineGates(h) \/ EngineEnds(h) \/ EngineFails(h) \/ \E c \in Kids : EngineSpawns(h, c)

-----------------------------------------------------------------------------
(* The pool starts subagents.                                              *)

\* `_start_eager`: registered, a task of its own, announced as started.
StartEager(c) ==
    /\ tasks' = [tasks EXCEPT ![c] = "running"]
    /\ engine' = [engine EXCEPT ![c] = "on"]
    /\ awake' = [awake EXCEPT ![c] = TRUE]
    /\ registered' = [registered EXCEPT ![c] = TRUE]
    /\ kid' = [kid EXCEPT ![c] = "admitted"]
    /\ inbox' = Put(inbox, Parent[c], News(c, "started")) /\ Says(c, "started")

\* `_grant` of a first start.
Grant(c) ==
    /\ kid[c] = "queued"
    /\ StartEager(c)
    /\ UNCHANGED <<mode, step, made, owed, approvals, stream, reader, result, faults>>

\* Mutant: a start that raised tells nobody.
GrantFailsQuietly(c) ==
    /\ kid[c] = "queued" /\ faults < MaxTroubles
    /\ kid' = [kid EXCEPT ![c] = "abandoned"]
    /\ faults' = faults + 1
    /\ UNCHANGED <<mode, pulls, story, inbox, owed, handles, awake, approvals, stream, reader, result>>

\* A start that raises: nobody awaits it, so the parent is woken and owes it.
GrantFails(c) ==
    /\ kid[c] = "queued" /\ faults < MaxTroubles
    /\ kid' = [kid EXCEPT ![c] = "abandoned"]
    /\ awake' = [awake EXCEPT ![Parent[c]] = TRUE]
    /\ wake' = (wake \/ Parent[c] = Root)
    /\ owed' = [owed EXCEPT ![Parent[c]] = TRUE]
    /\ faults' = faults + 1
    /\ UNCHANGED <<mode, pulls, story, inbox, handles, approvals, stream, client, unread, result>>

\* `_redrive`: the task that ended is replaced, found through a live ancestor.
Redrive(c) ==
    /\ faults < MaxTroubles
    /\ kid[c] = "admitted" /\ tasks[c] \in {"done", "failed"}
    /\ registered[Parent[c]] \/ (DeepRestarts /\ registered[Root])
    /\ StartEager(c)
    /\ faults' = faults + 1
    /\ UNCHANGED <<mode, step, made, owed, approvals, stream, reader, result>>

-----------------------------------------------------------------------------
(* The consumer of the root.                                               *)

\* `__anext__` of a lazy run; the first one begins it.  So does one that finds
\* the engine exhausted, and it is refused on account of its own registration.
Pull ==
    /\ mode = "lazy" /\ client = "idle"
    /\ IF engine[Root] = "none" /\ registered[Root]
       THEN client' = "refused" /\ UNCHANGED <<engine, registered>>
       ELSE /\ client' = "pulling"
            /\ engine' = [engine EXCEPT ![Root] = "on"]
            /\ registered' = [registered EXCEPT ![Root] = TRUE]
    /\ UNCHANGED <<mode, step, made, story, inbox, pool, tasks, awake, approvals, stream, wake, unread, result, faults>>

\* The consumer's own task is cancelled in a pull: the drive is ended, the
\* step it holds is not.
PullCancelled ==
    /\ mode = "lazy" /\ client = "pulling" /\ faults < MaxTroubles
    /\ PullEnds("error", inbox)
    /\ faults' = faults + 1
    /\ UNCHANGED <<mode, pulls, pool, tasks, awake, stream, wake, unread>>

\* `cancel_drive` of every child.
CancelDrives ==
    /\ tasks' = [h \in Handles |-> IF h # Root /\ tasks[h] = "running" THEN "cancelling" ELSE tasks[h]]
    /\ kid' = [c \in Kids |-> IF kid[c] = "queued" THEN "abandoned" ELSE kid[c]]

\* `__aexit__` of a lazy run: its engine is closed and the subagents suspended.
\* A handle without an engine is left registered.
Leave ==
    /\ mode = "lazy" /\ client \in {"idle", "stopped", "error", "refused"}
    /\ client' = "left"
    /\ CancelDrives
    /\ IF engine[Root] = "on" /\ client = "idle"
       THEN CloseEngine(Root) /\ Unregister(Root, inbox) /\ CloseApprovals(Root)
       ELSE UNCHANGED <<engine, step, story, inbox, registered, approvals>>
    /\ UNCHANGED <<mode, made, owed, awake, stream, wake, unread, result, faults>>

\* The task that joins an eager run is cancelled, and cancels the drive.
JoinCancelled ==
    /\ mode = "eager" /\ tasks[Root] = "running" /\ faults < MaxTroubles
    /\ tasks' = [tasks EXCEPT ![Root] = "cancelling"]
    /\ faults' = faults + 1
    /\ UNCHANGED <<mode, pulls, story, inbox, pool, registered, awake, approvals, stream, reader, result>>

\* A cancelled task unwinds.
Unwinds(h) ==
    /\ tasks[h] = "cancelling"
    /\ TaskEnds(h, "cancelled", inbox)
    /\ UNCHANGED <<mode, made, pool, stream, client, unread, faults>>

\* `_next_buffered`: read what there is, or clear the wake and sleep on it.
Read ==
    /\ mode = "eager" /\ client = "idle" /\ wake
    /\ unread' = FALSE
    /\ IF unread THEN UNCHANGED <<client, wake>>
       ELSE IF tasks[Root] \in {"done", "failed", "cancelled"}
       THEN client' = "stopped" /\ UNCHANGED wake
       ELSE wake' = FALSE /\ UNCHANGED client
    /\ UNCHANGED <<mode, pulls, story, inbox, pool, handles, awake, approvals, stream, result, faults>>

-----------------------------------------------------------------------------
HandleInit ==
    /\ mode \in Modes
    /\ engine = [h \in Handles |-> IF h = Root /\ mode = "eager" THEN "on" ELSE "none"]
    /\ step = [h \in Handles |-> "none"]
    /\ made = [h \in Handles |-> 0]
    /\ story = [h \in Handles |-> <<>>]
    /\ inbox = [h \in Handles |-> <<>>]
    /\ tasks = [h \in Handles |-> IF h = Root /\ mode = "eager" THEN "running" ELSE "none"]
    /\ kid = [c \in Kids |-> "unborn"]
    /\ registered = [h \in Handles |-> h = Root /\ mode = "eager"]
    /\ awake = [h \in Handles |-> TRUE]
    /\ approvals = <<>>
    /\ stream = [h \in Handles |-> <<>>]
    /\ client = "idle" /\ wake = TRUE /\ unread = FALSE /\ result = FALSE
    /\ owed = [h \in Handles |-> FALSE]
    /\ faults = 0

HandleNext ==
    \/ \E h \in Handles : FanIn(h) \/ Engine(h) \/ Unwinds(h)
    \/ \E c \in Kids : Grant(c) \/ GrantFails(c) \/ Redrive(c)
    \/ DeliveryRaises \/ Pull \/ PullCancelled \/ Leave \/ JoinCancelled \/ Read

\* Ready tasks run, engines and the pool answer in the end, the consumer of an
\* eager run reads; a lazy consumer need not pull.
HandleFairness ==
    /\ \A h \in Handles : /\ WF_handleVars(FanIn(h))
                          /\ WF_handleVars(Engine(h))
                          /\ WF_handleVars(Unwinds(h))
    /\ \A c \in Kids : WF_handleVars(Grant(c) \/ GrantFails(c))
    /\ WF_handleVars(Read)

HandleSpec == HandleInit /\ [][HandleNext]_handleVars /\ HandleFairness

-----------------------------------------------------------------------------
(* Properties.                                                             *)

\* Every variable has its type, and a step in hand is one of an engine in hand
\* (runner.py:841).
HandleTypeOK ==
    /\ mode \in Modes
    /\ engine \in [Handles -> {"none", "on"}]
    /\ step \in [Handles -> {"none", "running", "event", "over", "failed"}]
    /\ \A h \in Handles : step[h] # "none" => engine[h] = "on"
    /\ \A h \in Handles : made[h] \in 0 .. MaxEvents[h]
    /\ kid \in [Kids -> {"unborn", "queued", "abandoned", "admitted"}]
    /\ tasks \in [Handles -> {"none", "running", "cancelling", "done", "failed", "cancelled"}]
    /\ client \in {"idle", "pulling", "stopped", "error", "refused", "left"}

\* What is said of each handle, its own events and its spawn, starts and ends,
\* arrives in the order it was said, nothing twice and nothing skipped, over any
\* number of forwardings and restarts (runner.py:910).
StreamInOrder == \A h \in Handles :
    /\ Len(stream[h]) <= Len(story[h])
    /\ \A i \in DOMAIN stream[h] : stream[h][i] = [of |-> h, what |-> story[h][i], n |-> i]

\* A branch of the tree: the handles in it have ancestors that all ended well.
Branches == {S \in SUBSET Handles :
    Root \in S /\ \A c \in S \ {Root} : Parent[c] \in S /\ (Parent[c] = Root \/ tasks[Parent[c]] = "done")}

\* A run that has a result has handed on all that was said in such a branch: the
\* fan-in stops only with its whole subtree settled (runner.py:751).
NothingLost ==
    result => \A S \in Branches : \A h \in S :
                  /\ Len(stream[h]) = Len(story[h])
                  /\ h \in Kids => tasks[h] \notin {"running", "cancelling"}

\* A consumer hears of a subagent's spawn before anything else about it, and of
\* each start before the events and the end of that drive (runner.py:3235).
Announced ==
    \A c \in Kids : \A i \in DOMAIN stream[c] :
        CASE stream[c][i].what = "spawned" -> i = 1
          [] stream[c][i].what = "started" -> i > 1 /\ stream[c][i - 1].what \in {"spawned", "ended"}
          [] OTHER -> i > 1 /\ stream[c][i - 1].what \in {"started", "own"}

\* An eager handle that is not registered has no step of its engine going: it
\* releases the conversation only once its work is over (runner.py:896).
NoWorkAfterEnd == \A h \in Handles : IsEager(h) /\ step[h] # "none" => registered[h]

\* The approvals stream of a run that is over ends with the sentinel, and
\* carries nothing behind it, so that an approver stops (runner.py:647).
SentinelLast ==
    /\ client \in {"stopped", "error"} => ApprovalsClosed
    /\ \A i \in DOMAIN approvals : approvals[i] = "end" => i = Len(approvals)

\* Waits for the run: a pull that is out, or the reader of an eager run.
ReaderWaits == IF mode = "lazy" THEN client = "pulling" ELSE client # "stopped"

\* The engine of a lazy run is exhausted, and a subagent is at work: it was
\* restarted behind the last step of the engine, or is still being torn down.
Outlived == mode = "lazy" /\ engine[Root] = "none" /\ registered[Root] /\ LiveChildren(Root)

\* A lazy run answers its consumer, and is unregistered once he has left.
Dismissed == client # "refused" /\ (client = "left" => ~registered[Root])

\* A pull is answered, and an eager run ends and its reader hears of it: no
\* fan-in and no reader sleeps through the last thing it waits for.  Unless a
\* subagent outlives the engine of a lazy run, every pull is answered by an
\* event, the end or the failure of the run, and the conversation is free for
\* another run when the consumer leaves (runner.py:657, 751, 920).  Where one
\* does, the fan-in still hands on its events, as its docstring says, but the
\* pull after such an event is refused and the run stays registered for good.
ConsumerServed ==
    /\ ReaderWaits ~> ~ReaderWaits
    /\ <>Outlived \/ []Dismissed

\* What the consumer of a tree of handles may count on: order, completeness,
\* announcements before contents, an end that is an end (runner.py:751).
HandleSound ==
    /\ HandleTypeOK /\ StreamInOrder /\ NothingLost /\ Announced
    /\ NoWorkAfterEnd /\ SentinelLast

=============================================================================
