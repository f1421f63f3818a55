----------------------------- MODULE Compaction -----------------------------
(***************************************************************************)
(* Compaction and rewind: how the main conversation is replaced by a new   *)
(* one while runs, posts and cancels refer to it.  `_compaction_step`,     *)
(* `_commit` and `_drive` of the runner, the two doors that change the     *)
(* conversation (`schedule_compaction`, `rewind_to`), the plan of the      *)
(* summarizing context manager, and the ledger's transition.               *)
(*                                                                         *)
(* Entries have identities here, since a transition carries some of them   *)
(* into the next conversation.  Only the main conversation is ever         *)
(* transitioned, so the conversations are a sequence, each the successor   *)
(* of the one before it, and the last one is the main one.  A turn of the  *)
(* conversation itself is reduced to its model call; module Turn has it.   *)
(***************************************************************************)
EXTENDS Conversation

CONSTANTS
    Runs,          \* handles the application may drive
    NoRun,
    KeepTurns,     \* SummarizingContextManager.keep_turns
    Held,          \* a run or a compaction may be asked for while
                   \* CompactionFinished is held
    Grace,         \* a cancelled compact() may still finish within its grace
    MaxPosts,      \* bound: calls of post_message
    MaxCancels,    \* bound: calls of cancel
    MaxSchedules,  \* bound: calls of schedule_compaction
    MaxRewinds,    \* bound: calls of rewind_to
    MaxFaults,     \* bound: crashes, suspensions, raises and bad plans
    MaxBegins,     \* bound: runs begun
    MaxBrackets    \* bound: compaction brackets

ASSUME CompactionAssumption ==
    /\ NoRun \notin Runs
    /\ {Held, Grace} \subseteq BOOLEAN
    /\ {KeepTurns, MaxPosts, MaxCancels, MaxSchedules, MaxRewinds, MaxFaults,
        MaxBegins, MaxBrackets} \subseteq Nat

VARIABLES
    entries,     \* session.entries: the entry of every id
    nodes,       \* the nodes of every conversation, oldest first
    registry,    \* runner._runs: the handle registered for a conversation
    didRun,      \* runner._compaction_did_run
    cancelled,   \* runner._compaction_cancelled
    pc,          \* where the drive of a handle is
    cid,         \* the conversation that drive works on
    token,       \* its cancellation token is tripped
    snapshot,    \* the nodes compact() was given
    plan,        \* what compact() returned
    seen,        \* length of the path at the latest projection
    counters     \* for the bounds

drives == <<registry, didRun, cancelled, pc, cid, token, snapshot, plan, seen>>
compactionVars == <<entries, nodes, drives, counters>>

Main == Len(nodes)
Conversations == DOMAIN nodes
Slots == 1 .. 1 + MaxRewinds + MaxSchedules + MaxBrackets
Bump(c) == counters' = [counters EXCEPT ![c] = @ + 1]

CompactionEntry(s) == [kind |-> "compaction", source |-> s, summary |-> FALSE, folded |-> {}]

\* A path as module Conversation reads it.
Resolved(ids) == [k \in DOMAIN ids |-> entries[ids[k]]]
Path(c) == Resolved(nodes[c])

-----------------------------------------------------------------------------
(* What is derived from a path with compaction brackets on it.             *)

\* A bracket is a compaction's when its TurnStart is followed by the entry.
IsCompactionBracket(path, s) == s + 1 \in DOMAIN path /\ Holds(path, s + 1, "compaction")

\* The open compaction entry's position, as a set of at most one.
OpenCompaction(path) ==
    {i \in DOMAIN path :
        \E s \in DOMAIN path : /\ IsOpenTurn(path, s)
                               /\ i = s + 1
                               /\ Holds(path, i, "compaction")
                               /\ ~path[i].summary}

\* Positions s..e are a closed compaction bracket.
ClosedBracket(path, s, e) ==
    /\ s < e
    /\ Holds(path, e, "finish") /\ Holds(path, s, "start")
    /\ IsCompactionBracket(path, s)
    /\ \A i \in s + 1 .. e - 1 : path[i].kind \notin {"start", "finish"}

\* The path's length without its trailing closed compaction brackets.
EndBeforeClosedBrackets(path) ==
    LET tail(n) == \A i \in n + 1 .. Len(path) :
                      \E s, e \in n + 1 .. Len(path) : s <= i /\ i <= e /\ ClosedBracket(path, s, e)
    IN  CHOOSE n \in 0 .. Len(path) : tail(n) /\ \A m \in 0 .. n - 1 : ~tail(m)

\* `_derive_status` of a conversation without subagents and tool calls.
RunStatus(path) ==
    LET end == EndBeforeClosedBrackets(path)
    IN  IF HasOpenTurn(path)
        THEN IF CancelIsPending(path) THEN "cancelling" ELSE "busy"
        ELSE IF end > 0 /\ Holds(path, end, "user") THEN "busy" ELSE "idle"

-----------------------------------------------------------------------------
(* Writes.                                                                 *)

\* Appending new entries to conversation c, in order.
AppendAll(c, new) ==
    /\ entries' = entries \o new
    /\ nodes' = [nodes EXCEPT ![c] = @ \o [k \in 1 .. Len(new) |-> Len(entries) + k]]

NewBracket(source) == <<TurnStart, CompactionEntry(source)>>

\* A compaction that ends without a plan: the turn is closed, nothing else.
CloseCompaction(c, outcome) == AppendAll(c, <<TurnFinish(outcome)>>)

\* The ledger's transition: a successor with `ids` becomes the main one.
Transition(ids) == nodes' = Append(nodes, ids)

-----------------------------------------------------------------------------
(* SummarizingContextManager.compact: which trailing nodes stay verbatim.  *)

\* The cut lands on the n-th TurnStart from the end and takes in the user
\* message before it.
SelectKeep(ids) ==
    LET starts == {k \in DOMAIN ids : entries[ids[k]].kind = "start"}
        cut == {s \in starts : Cardinality({t \in starts : t >= s}) = KeepTurns}
    IN  IF KeepTurns = 0 THEN <<>>
        ELSE IF cut = {} THEN ids
        ELSE LET s == CHOOSE k \in cut : TRUE
                 from == IF s > 1 /\ entries[ids[s - 1]].kind = "user" THEN s - 1 ELSE s
             IN  SubSeq(ids, from, Len(ids))

\* A trailing user message nobody answered is not folded.
Kept(ids) ==
    LET keep == SelectKeep(ids)
    IN  IF ids # <<>> /\ keep = <<>> /\ entries[ids[Len(ids)]].kind = "user"
        THEN <<ids[Len(ids)]>> ELSE keep

\* The nodes offered to the manager, without the bracket and its entry.
Candidates(ids) ==
    LET s == CHOOSE k \in DOMAIN ids : IsOpenTurn(Resolved(ids), k)
    IN  SubSeq(ids, 1, s - 1) \o SubSeq(ids, s + 2, Len(ids))

\* Nothing older than the kept tail is nothing to compact.
PlanFor(ids) == IF Kept(Candidates(ids)) = Candidates(ids) THEN "nothing" ELSE "plan"

-----------------------------------------------------------------------------
(* The doors.  Callbacks reach them when every drive is suspended.         *)

Waiting == {"off", "begun", "started", "compact", "planned", "finished", "llm", "ended"}
Doors == \A r \in Runs : pc[r] \in Waiting

\* CompactionFinished is held by the consumer: the bracket is closed and the
\* handle still stands for the conversation that was replaced.
InTheWindow == \E r \in Runs : pc[r] = "finished"

\* post_message(): not while cancelling, not into a compaction, not to an
\* archived conversation.
Post(c) ==
    /\ Doors /\ counters.posts < MaxPosts
    /\ ~CancelIsPending(Path(c))
    /\ ~\E s \in DOMAIN Path(c) : IsOpenTurn(Path(c), s) /\ IsCompactionBracket(Path(c), s)
    /\ c = Main
    /\ AppendAll(c, <<UserMessage>>)
    /\ Bump("posts") /\ UNCHANGED drives

\* schedule_compaction(): refused over an open turn; an open bracket is kept.
Schedule ==
    /\ Doors /\ (Held \/ ~InTheWindow) /\ counters.schedules < MaxSchedules
    /\ ~HasOpenTurn(Path(Main))
    /\ AppendAll(Main, NewBracket("user"))
    /\ Bump("schedules") /\ UNCHANGED drives

\* rewind_to(): the successor is a prefix that ends between turns.
Rewind(cut) ==
    /\ Doors /\ counters.rewinds < MaxRewinds
    /\ registry[Main] = NoRun
    /\ ~HasOpenTurn(Path(Main))
    /\ cut < Len(nodes[Main])
    /\ ~HasOpenTurn(SubSeq(Path(Main), 1, cut))
    /\ Transition(SubSeq(nodes[Main], 1, cut))
    /\ Bump("rewinds") /\ UNCHANGED <<entries, drives>>

\* cancel(): the durable request, then the token of the registered run.
Cancel(outcome) ==
    /\ Doors /\ counters.cancels < MaxCancels
    /\ HasOpenTurn(Path(Main))
    /\ ~CancelIsPending(Path(Main))
    /\ AppendAll(Main, <<CancelRequested(outcome)>>)
    /\ token' = [r \in Runs |-> token[r] \/ registry[Main] = r]
    /\ Bump("cancels")
    /\ UNCHANGED <<registry, didRun, cancelled, pc, cid, snapshot, plan, seen>>

-----------------------------------------------------------------------------
(* A run begins and ends.                                                  *)

\* What `start()` writes before its task runs: a bracket, a compaction's when
\* one is due.
StartBracket(due) ==
    IF HasOpenTurn(Path(Main)) THEN <<>>
    ELSE IF due THEN NewBracket("policy")
    ELSE <<TurnStart>>

\* `_begin_run`, with `_open_bracket_for_start` for an eager run.
Begin(r, eager, due) ==
    /\ Doors /\ (Held \/ ~InTheWindow) /\ counters.begins < MaxBegins
    /\ pc[r] = "off"
    /\ registry[Main] = NoRun
    /\ RunStatus(Path(Main)) # "idle"
    /\ due => eager /\ ~HasOpenTurn(Path(Main)) /\ counters.brackets < MaxBrackets
    /\ IF eager THEN AppendAll(Main, StartBracket(due)) ELSE UNCHANGED <<entries, nodes>>
    /\ pc' = [pc EXCEPT ![r] = "begun"]
    /\ cid' = [cid EXCEPT ![r] = Main]
    /\ token' = [token EXCEPT ![r] = FALSE]
    /\ registry' = [registry EXCEPT ![Main] = r]
    /\ didRun' = didRun \ {Main}
    /\ cancelled' = cancelled \ {Main}
    /\ counters' = [counters EXCEPT !.begins = @ + 1, !.brackets = @ + (IF due THEN 1 ELSE 0)]
    /\ UNCHANGED <<snapshot, plan, seen>>

\* The handle forgets its drive and frees the conversation.
Released(r) ==
    /\ pc' = [pc EXCEPT ![r] = "off"]
    /\ registry' = [c \in Slots |-> IF registry[c] = r THEN NoRun ELSE registry[c]]
    /\ snapshot' = [snapshot EXCEPT ![r] = <<>>]
    /\ plan' = [plan EXCEPT ![r] = "none"]
    /\ seen' = [seen EXCEPT ![r] = 0]
    /\ token' = [token EXCEPT ![r] = FALSE]

EndRun(r) ==
    /\ pc[r] = "ended"
    /\ Released(r)
    /\ UNCHANGED <<entries, nodes, didRun, cancelled, cid, counters>>

\* The consumer leaves, or the process dies: only the entries survive.
Fault(r) ==
    /\ pc[r] \in Waiting \ {"off"}
    /\ counters.faults < MaxFaults
    /\ Released(r)
    /\ Bump("faults")
    /\ UNCHANGED <<entries, nodes, didRun, cancelled, cid>>

-----------------------------------------------------------------------------
(* `_compaction_step`.                                                     *)

NewPlan(r, p) == plan' = [plan EXCEPT ![r] = p]
Goes(r, where) == pc' = [pc EXCEPT ![r] = where]

\* The bracket is closed and the event yielded; `after` says what `_drive`
\* does once the event is taken.
Closes(r, outcome, after) ==
    /\ CloseCompaction(cid[r], outcome)
    /\ Goes(r, "finished")
    /\ NewPlan(r, after)

\* The cancel asks for its outcome, and ends the drive.
ClosesAsCancelled(r) ==
    /\ \E i \in PendingCancel(Path(cid[r])) : Closes(r, Path(cid[r])[i].outcome, "drive")
    /\ cancelled' = cancelled \cup {cid[r]}

BracketOf(r) == OpenCompaction(Path(cid[r]))
SourceOf(r) == Path(cid[r])[CHOOSE i \in BracketOf(r) : TRUE].source

\* What a failure does behind its close: raise to the user who scheduled the
\* compaction, or degrade a policy's and go on.
FailureOf(r) == IF SourceOf(r) = "user" THEN "raise" ELSE "drive"

\* A bracket whose cancel came before this drive is closed at once.
CompactionCancelledBefore(r) ==
    /\ pc[r] = "begun"
    /\ BracketOf(r) # {}
    /\ CancelIsPending(Path(cid[r]))
    /\ ClosesAsCancelled(r)
    /\ UNCHANGED <<registry, didRun, cid, token, snapshot, seen, counters>>

\* Scheduled and Started are yielded: the bracket is open, and `due` is what
\* should_compact says of a conversation between turns.
CompactionStarts(r, due) ==
    /\ pc[r] = "begun"
    /\ IF due
       THEN /\ ~HasOpenTurn(Path(cid[r]))
            /\ counters.brackets < MaxBrackets
            /\ AppendAll(cid[r], NewBracket("policy"))
            /\ Bump("brackets")
       ELSE /\ BracketOf(r) # {}
            /\ ~CancelIsPending(Path(cid[r]))
            /\ UNCHANGED <<entries, nodes, counters>>
    /\ didRun' = didRun \cup {cid[r]}
    /\ Goes(r, "started")
    /\ UNCHANGED <<registry, cancelled, cid, token, snapshot, plan, seen>>

\* An open turn of the conversation, or a policy that declines: no event.
CompactionSkipped(r) ==
    /\ pc[r] = "begun"
    /\ BracketOf(r) = {}
    /\ Goes(r, "skipped") /\ NewPlan(r, "drive")
    /\ UNCHANGED <<entries, nodes, registry, didRun, cancelled, cid, token, snapshot, seen, counters>>

\* compact() is called with the path as it is now.
TakeSnapshot(r) ==
    /\ pc[r] = "started"
    /\ snapshot' = [snapshot EXCEPT ![r] = nodes[cid[r]]]
    /\ Goes(r, "compact")
    /\ UNCHANGED <<entries, nodes, registry, didRun, cancelled, cid, token, plan, seen, counters>>

\* compact() is over; the drive has not resumed yet.
Compacted(r, bad) ==
    /\ pc[r] = "compact"
    /\ token[r] => Grace
    /\ IF bad \in {"raised", "invalid"}
       THEN counters.faults < MaxFaults /\ Bump("faults") /\ NewPlan(r, bad)
       ELSE UNCHANGED counters /\ NewPlan(r, PlanFor(snapshot[r]))
    /\ Goes(r, "planned")
    /\ UNCHANGED <<entries, nodes, registry, didRun, cancelled, cid, token, snapshot, seen>>

\* Mutant: compact() is not raced with the token.
CompactionTimesOut(r, timedOut) ==
    /\ pc[r] = "compact"
    /\ timedOut /\ counters.faults < MaxFaults
    /\ IF CancelIsPending(Path(cid[r]))
       THEN ClosesAsCancelled(r)
       ELSE Closes(r, "timed_out", FailureOf(r)) /\ UNCHANGED cancelled
    /\ Bump("faults")
    /\ UNCHANGED <<registry, didRun, cid, token, snapshot, seen>>

\* The token won, or the deadline passed: the pending cancel decides.
CompactionEnds(r, timedOut) ==
    /\ pc[r] = "compact"
    /\ token[r] \/ (timedOut /\ counters.faults < MaxFaults)
    /\ IF CancelIsPending(Path(cid[r]))
       THEN ClosesAsCancelled(r)
       ELSE Closes(r, "timed_out", FailureOf(r)) /\ UNCHANGED cancelled
    /\ IF timedOut THEN Bump("faults") ELSE UNCHANGED counters
    /\ UNCHANGED <<registry, didRun, cid, token, snapshot, seen>>

\* `check_snapshot`: the path is the one the plan was made from.
SnapshotHolds(r) == cid[r] = Main /\ nodes[Main] = snapshot[r]

\* The manager raised, or its plan is rejected before the cancel is looked at.
PlanFails(r) ==
    /\ pc[r] = "planned"
    /\ \/ plan[r] = "raised"
       \/ plan[r] \in {"plan", "invalid"} /\ ~SnapshotHolds(r)
    /\ Closes(r, "errored", FailureOf(r))
    /\ UNCHANGED <<registry, didRun, cancelled, cid, token, snapshot, seen, counters>>

\* A cancel within the grace discards the plan.
PlanDiscarded(r) ==
    /\ pc[r] = "planned"
    /\ plan[r] # "raised" /\ (plan[r] = "nothing" \/ SnapshotHolds(r))
    /\ CancelIsPending(Path(cid[r]))
    /\ ClosesAsCancelled(r)
    /\ UNCHANGED <<registry, didRun, cid, token, snapshot, seen, counters>>

NothingToCompact(r) ==
    /\ pc[r] = "planned"
    /\ plan[r] = "nothing" /\ ~CancelIsPending(Path(cid[r]))
    /\ Closes(r, "completed", "drive")
    /\ UNCHANGED <<registry, didRun, cancelled, cid, token, snapshot, seen, counters>>

\* `validate_plan` refuses it at the commit: nothing of it was written.
CommitFails(r) ==
    /\ pc[r] = "planned"
    /\ plan[r] = "invalid" /\ SnapshotHolds(r) /\ ~CancelIsPending(Path(cid[r]))
    /\ Closes(r, "errored", FailureOf(r))
    /\ UNCHANGED <<registry, didRun, cancelled, cid, token, snapshot, seen, counters>>

\* Mutant: what is carried is listed as folded too.
CommitFoldsEverything(r, kept) ==
    LET c == cid[r]
        s == CHOOSE k \in DOMAIN nodes[c] : IsOpenTurn(Path(c), k)
        id == nodes[c][s + 1]
    IN  /\ entries' = Append([entries EXCEPT ![id].summary = TRUE,
                                            ![id].folded = {nodes[c][k] : k \in 1 .. s - 1}],
                             TurnFinish("completed"))
        /\ nodes' = Append([nodes EXCEPT ![c] = Append(@, Len(entries) + 1)], <<id>> \o kept)

\* `_commit`: the entry gets its summary and what it folded, the bracket is
\* closed on the outgoing path, and the successor takes the plan's nodes.
CommitOf(r, kept) ==
    LET c == cid[r]
        s == CHOOSE k \in DOMAIN nodes[c] : IsOpenTurn(Path(c), k)
        id == nodes[c][s + 1]
        carried == {id} \cup {kept[k] : k \in DOMAIN kept}
        folded == {nodes[c][k] : k \in 1 .. s - 1} \ carried
    IN  /\ entries' = Append([entries EXCEPT ![id].summary = TRUE, ![id].folded = folded],
                             TurnFinish("completed"))
        /\ nodes' = Append([nodes EXCEPT ![c] = Append(@, Len(entries) + 1)], <<id>> \o kept)

Commit(r) ==
    /\ pc[r] = "planned"
    /\ plan[r] = "plan" /\ SnapshotHolds(r) /\ ~CancelIsPending(Path(cid[r]))
    /\ CommitOf(r, Kept(Candidates(snapshot[r])))
    /\ Goes(r, "finished") /\ NewPlan(r, "drive")
    /\ UNCHANGED <<registry, didRun, cancelled, cid, token, snapshot, seen, counters>>

-----------------------------------------------------------------------------
(* The rest of `_drive`, with the turn reduced to its model call.          *)

\* `_rebind_run`: the handle follows the conversation that was replaced.
Rebound(r) ==
    [c \in Slots |-> IF c = Main THEN r ELSE IF c = cid[r] THEN NoRun ELSE registry[c]]

Ended(r) == Goes(r, "ended") /\ UNCHANGED <<entries, nodes, registry, didRun, cancelled, cid, token, snapshot, plan, seen, counters>>

\* A failure the user asked for is raised; a cancelled compaction was the drive.
DriveStops(r) ==
    /\ pc[r] \in {"finished", "skipped"}
    /\ plan[r] = "raise" \/ cid[r] \in cancelled
    /\ Ended(r)

\* Past the step: the conversation may be a new one, and finished.
DriveGoesOn(r) ==
    /\ pc[r] \in {"finished", "skipped"}
    /\ plan[r] = "drive" /\ cid[r] \notin cancelled
    /\ LET compacted == cid[r] \in didRun
           target == IF compacted THEN Main ELSE cid[r]
           over == compacted /\ RunStatus(Path(Main)) = "idle"
       IN  /\ cid' = [cid EXCEPT ![r] = target]
           /\ registry' = IF target # cid[r] THEN Rebound(r) ELSE registry
           /\ didRun' = IF compacted THEN didRun \cup {target} ELSE didRun
           /\ IF over \/ HasOpenTurn(Path(target))
              THEN UNCHANGED <<entries, nodes>>
              ELSE AppendAll(target, <<TurnStart>>)
           /\ Goes(r, IF over THEN "ended" ELSE "turn")
    /\ NewPlan(r, "none")
    /\ snapshot' = [snapshot EXCEPT ![r] = <<>>]
    /\ UNCHANGED <<cancelled, token, seen, counters>>

\* The loop top: wind down under a cancel, or project and call the model.
LoopTop(r) ==
    /\ pc[r] = "turn"
    /\ LET path == Path(cid[r])
       IN  IF CancelIsPending(path)
           THEN /\ \E i \in PendingCancel(path) : AppendAll(cid[r], <<TurnFinish(path[i].outcome)>>)
                /\ Goes(r, "ended") /\ UNCHANGED seen
           ELSE /\ Goes(r, "llm") /\ seen' = [seen EXCEPT ![r] = Len(path)]
                /\ UNCHANGED <<entries, nodes>>
    /\ UNCHANGED <<registry, didRun, cancelled, cid, token, snapshot, plan, counters>>

\* A model call that lost to the token is dropped and the loop goes on.
ModelLost(r) ==
    /\ pc[r] = "llm" /\ token[r]
    /\ Goes(r, "turn")
    /\ UNCHANGED <<entries, nodes, registry, didRun, cancelled, cid, token, snapshot, plan, seen, counters>>

\* An answer closes the turn unless a post arrived under the call.
ModelAnswers(r) ==
    /\ pc[r] = "llm"
    /\ token[r] => Grace
    /\ LET path == Path(cid[r])
           last == ~UserMessageBeyond(path, seen[r]) /\ ~CancelIsPending(path)
           answer == AssistantMessage("stop", seen[r])
       IN  /\ AppendAll(cid[r], IF last THEN <<answer, TurnFinish("completed")>> ELSE <<answer>>)
           /\ Goes(r, IF last THEN "ended" ELSE "turn")
    /\ UNCHANGED <<registry, didRun, cancelled, cid, token, snapshot, plan, seen, counters>>

-----------------------------------------------------------------------------
CompactionInit ==
    /\ entries = <<>>
    /\ nodes = << <<>> >>
    /\ registry = [c \in Slots |-> NoRun]
    /\ didRun = {} /\ cancelled = {}
    /\ pc = [r \in Runs |-> "off"]
    /\ cid = [r \in Runs |-> 1]
    /\ token = [r \in Runs |-> FALSE]
    /\ snapshot = [r \in Runs |-> <<>>]
    /\ plan = [r \in Runs |-> "none"]
    /\ seen = [r \in Runs |-> 0]
    /\ counters = [posts |-> 0, cancels |-> 0, schedules |-> 0, rewinds |-> 0,
                   faults |-> 0, begins |-> 0, brackets |-> 0]

\* A drive that may end: `EndRun` and what precedes it need no answer.
Step(r) ==
    \/ CompactionCancelledBefore(r) \/ CompactionSkipped(r)
    \/ \E due \in BOOLEAN : CompactionStarts(r, due)
    \/ TakeSnapshot(r)
    \/ CompactionEnds(r, FALSE)
    \/ PlanFails(r) \/ PlanDiscarded(r) \/ NothingToCompact(r) \/ CommitFails(r) \/ Commit(r)
    \/ DriveStops(r) \/ DriveGoesOn(r) \/ LoopTop(r) \/ ModelLost(r) \/ EndRun(r)

\* What a manager, a provider or a clock may do.
Answers(r) ==
    \/ \E bad \in {"no", "raised", "invalid"} : Compacted(r, bad)
    \/ CompactionEnds(r, TRUE)
    \/ ModelAnswers(r)

Environment ==
    \/ \E c \in Conversations : Post(c)
    \/ Schedule
    \/ \E cut \in 0 .. Len(nodes[Main]) : Rewind(cut)
    \/ \E o \in {"cancelled", "errored"} : Cancel(o)
    \/ \E r \in Runs : Fault(r) \/ \E eager, due \in BOOLEAN : Begin(r, eager, due)

CompactionNext == Environment \/ \E r \in Runs : Step(r) \/ Answers(r)

\* Every drive that is pulled takes its next step, and the token wins a race
\* it entered; managers and providers need not answer.
CompactionFairness == \A r \in Runs : WF_compactionVars(Step(r))

CompactionSpec ==
    CompactionInit /\ [][CompactionNext]_compactionVars /\ CompactionFairness

-----------------------------------------------------------------------------
(* Correctness.                                                            *)

\* Type invariant.
CompactionTypeOK ==
    /\ \A c \in Conversations : \A k \in DOMAIN nodes[c] : nodes[c][k] \in DOMAIN entries
    /\ Main \in Slots
    /\ registry \in [Slots -> Runs \cup {NoRun}]
    /\ didRun \subseteq Slots /\ cancelled \subseteq Slots
    /\ pc \in [Runs -> Waiting \cup {"skipped", "turn"}]
    /\ cid \in [Runs -> Slots]
    /\ token \in [Runs -> BOOLEAN]
    /\ plan \in [Runs -> {"none", "plan", "nothing", "raised", "invalid", "drive", "raise"}]

\* On no path, archived or current, is a turn opened inside another or closed
\* twice: schedule_compaction, rewind_to, the compaction step and the turn
\* each write brackets of their own.
BracketsNeverNest ==
    \A c \in Conversations : LET path == Path(c) IN
        \A i, j \in DOMAIN path :
            /\ i < j /\ path[i].kind = path[j].kind /\ path[i].kind \in {"start", "finish"}
            => \E k \in i + 1 .. j - 1 : path[k].kind = (IF path[i].kind = "start" THEN "finish" ELSE "start")

\* A conversation that was replaced is a record: nobody posts to it, cancels
\* it or drives it again, whichever id they still hold.
ArchivesAreFrozen ==
    [][\A c \in Conversations \ {Main} : nodes'[c] = nodes[c]]_compactionVars

\* A drive past its compaction works on the main conversation and is the one
\* registered for it, so that a cancel of the main conversation reaches it.
CancelReachesTheDrive ==
    \A r \in Runs : pc[r] \in {"turn", "llm"} =>
        /\ cid[r] = Main /\ registry[Main] = r
        /\ CancelIsPending(Path(Main)) /\ pc[r] = "llm" => token[r]

\* A compaction accounts for what it replaced: every entry before the bracket
\* is on the successor's path or listed as folded, and nothing is both.
FoldedOrCarried ==
    \A c \in Conversations \ {Main} : LET next == nodes[c + 1] IN
        next # <<>> /\ entries[next[1]].kind = "compaction" /\ next[1] # nodes[c][1] =>
            LET s == CHOOSE k \in DOMAIN nodes[c] :
                        k + 1 \in DOMAIN nodes[c] /\ nodes[c][k + 1] = next[1]
                carried == {next[k] : k \in DOMAIN next}
                folded == entries[next[1]].folded
            IN  /\ folded \cap carried = {}
                /\ {nodes[c][k] : k \in 1 .. s - 1} \subseteq folded \cup carried

\* The model is never called without a user message it has not answered: a
\* drive that only compacted ends, and a rewind leaves no half of a turn.
ModelCallHasInput ==
    \A r \in Runs : pc[r] = "llm" =>
        LET path == Path(cid[r])
        IN  \E i \in DOMAIN path :
               /\ Holds(path, i, "user")
               /\ \A j \in DOMAIN path : Holds(path, j, "assistant") => path[j].seen < i \/ j < i

\* A compaction whose cancel is pending is closed while its drive lasts, even
\* if compact() never returns.
CancelledCompactionCloses ==
    \A r \in Runs :
        pc[r] \in {"started", "compact", "planned"} /\ CancelIsPending(Path(cid[r]))
            ~> pc[r] \in {"finished", "off"}

\* Whichever of the doors, the manager, the clock and the turn moves next: the
\* paths stay bracketed, no entry is dropped by a compaction, and the model and
\* the cancels meet the conversation that is current (`_compaction_step`).
CompactionSound ==
    /\ CompactionTypeOK /\ BracketsNeverNest /\ CancelReachesTheDrive
    /\ FoldedOrCarried /\ ModelCallHasInput

\* A replaced conversation is never written again, and a cancelled compaction is
\* closed (`_require_live`, `_race_cancellation` around compact()).
CompactionMoves == ArchivesAreFrozen /\ CancelledCompactionCloses

=============================================================================
