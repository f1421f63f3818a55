------------------------------- MODULE Commands -------------------------------
(* One-shot shell commands: the generic bash tool (contrib/shell/tools.py) and *)
(* OpenAI's shell tool (native/openai.py), which runs a list of commands, each *)
(* in a process group of its own.  A call waits for the end of the output, its *)
(* cancellation token and its timeout, whichever comes first.                  *)
(*                                                                             *)
(* A group has a leader, the shell, and may have a child that the shell left   *)
(* in the background: it writes to the pipe of the call, or its output is      *)
(* redirected.  Another child may have left the group with the pipe in hand.   *)
(* The output ends when nobody holds the pipe.                                 *)
EXTENDS Integers, Sequences

CONSTANTS MaxCommands   \* commands of one openai_shell call

ASSUME CommandsAssumption == MaxCommands \in Nat

VARIABLES
  tool,      \* "bash" or "openai_shell"
  left,      \* commands still to run
  cmd,       \* where the call is
  group,     \* the process group of the last command
  token,     \* the call's cancellation token
  results    \* outcome of each command that ran

commandVars == <<tool, left, cmd, group, token, results>>

\* A leader is running, quiet (it closed its output), exited (process.returncode
\* is not set yet) or reaped; shot: it was alive when its group was killed.
NoGroup == [leader |-> "none", code |-> 0, child |-> "none", escaped |-> FALSE, shot |-> FALSE]
Killed == -9
Lives == group.leader \in {"running", "quiet"}
PipeHeld == group.leader = "running" \/ group.child = "holding" \/ group.escaped

\* Mutant: process.kill() reaches the shell alone.
KillShell ==
  IF group.leader \in {"none", "reaped"} THEN group
  ELSE [group EXCEPT !.leader = "exited", !.shot = @ \/ Lives, !.code = IF Lives THEN Killed ELSE @]

\* _kill_process_group: nothing once the leader has its returncode.  Before
\* that the whole group dies; a leader that had exited keeps its exit code.
KillGroup ==
  IF group.leader \in {"none", "reaped"} THEN group
  ELSE [group EXCEPT !.leader = "exited", !.child = "none", !.shot = @ \/ Lives,
                     !.code = IF Lives THEN Killed ELSE @]

CommandsInit ==
  /\ tool \in {"bash", "openai_shell"}
  /\ left \in IF tool = "bash" THEN {1} ELSE 1..MaxCommands
  /\ cmd = "spawning" /\ group = NoGroup
  /\ token = FALSE /\ results = <<>>

(* ------------------------------ the processes ------------------------------ *)

SpawnGroup == \E child \in {"none", "redirected", "holding"}, escapes \in BOOLEAN :
  /\ cmd = "spawning"
  /\ group' = [NoGroup EXCEPT !.leader = "running", !.child = child, !.escaped = escapes]
  /\ cmd' = "running"
  /\ UNCHANGED <<tool, left, token, results>>

\* The shell ends; what it left in the background goes on.
Exits == \E code \in {0, 1} :
  /\ Lives
  /\ group' = [group EXCEPT !.leader = "exited", !.code = code]
  /\ UNCHANGED <<tool, left, cmd, token, results>>

\* asyncio's child watcher sets process.returncode, a while after the exit.
ExitNoticed ==
  /\ group.leader = "exited"
  /\ group' = [group EXCEPT !.leader = "reaped"]
  /\ UNCHANGED <<tool, left, cmd, token, results>>

ClosesOutput ==
  /\ group.leader = "running"
  /\ group' = [group EXCEPT !.leader = "quiet"]
  /\ UNCHANGED <<tool, left, cmd, token, results>>

ChildEnds ==
  /\ group.child # "none"
  /\ group' = [group EXCEPT !.child = "none"]
  /\ UNCHANGED <<tool, left, cmd, token, results>>

EscapedChildEnds ==
  /\ group.escaped
  /\ group' = [group EXCEPT !.escaped = FALSE]
  /\ UNCHANGED <<tool, left, cmd, token, results>>

(* --------------------------------- the call -------------------------------- *)

\* A command is over.  openai_shell goes on to the next one unless its token is set.
RecordOutcome(outcome) ==
  /\ results' = Append(results, [how |-> outcome.how, code |-> outcome.code, shot |-> group.shot])
  /\ left' = left - 1
  /\ cmd' = IF left = 1 \/ token THEN "over" ELSE "spawning"

\* Failing to start ends bash with an error; openai_shell records exit code 1.
SpawnGroupFails ==
  /\ cmd = "spawning"
  /\ RecordOutcome([how |-> "error", code |-> 1])
  /\ UNCHANGED <<tool, group, token>>

\* The output ended first; the shell itself is then awaited without limit.
OutputEnds ==
  /\ cmd = "running" /\ ~PipeHeld
  /\ cmd' = "waiting"
  /\ UNCHANGED <<tool, left, group, token, results>>

Reaped ==
  /\ cmd = "waiting" /\ group.leader = "reaped"
  /\ RecordOutcome([how |-> "completed", code |-> group.code])
  /\ UNCHANGED <<tool, group, token>>

\* The token or the timeout came first: the group is killed, its leader is
\* awaited, and the rest of the output is read to its end.
CutShort(why) ==
  /\ cmd = "running" /\ (why = "cancelled" => token)
  /\ group' = KillGroup
  /\ cmd' = why
  /\ UNCHANGED <<tool, left, token, results>>

\* openai_shell has no outcome of its own for a cancelled command: it reports
\* the exit code of the process it killed.
Drained ==
  /\ cmd \in {"cancelled", "timed_out"} /\ ~PipeHeld /\ group.leader = "reaped"
  /\ RecordOutcome(IF tool = "openai_shell" /\ cmd = "cancelled"
            THEN [how |-> "completed", code |-> group.code]
            ELSE [how |-> cmd, code |-> 0])
  /\ UNCHANGED <<tool, group, token>>

TokenFires ==
  /\ ~token /\ cmd # "over"
  /\ token' = TRUE
  /\ UNCHANGED <<tool, left, cmd, group, results>>

\* The runner's patience with a cancelled call is over: the task is cancelled,
\* wherever it is, and kills the group on its way out.
TaskCancelled ==
  /\ token /\ cmd \notin {"unwinding", "over"}
  /\ group' = KillGroup
  /\ cmd' = "unwinding"
  /\ UNCHANGED <<tool, left, token, results>>

\* It awaits the leader once more; with some versions of asyncio that wait also
\* lasts until the pipe is closed.
TaskUnwinds ==
  /\ cmd = "unwinding" /\ group.leader \in {"none", "reaped"}
  /\ results' = Append(results, [how |-> "killed", code |-> 0, shot |-> group.shot])
  /\ cmd' = "over"
  /\ UNCHANGED <<tool, left, group, token>>

CallSteps ==
  \/ SpawnGroup \/ SpawnGroupFails \/ OutputEnds \/ Reaped
  \/ CutShort("cancelled") \/ CutShort("timed_out") \/ Drained

ProcessSteps == Exits \/ ExitNoticed \/ ClosesOutput \/ ChildEnds \/ EscapedChildEnds

CommandsNext == CallSteps \/ ProcessSteps \/ TokenFires \/ TaskCancelled \/ TaskUnwinds

\* The call goes on, its timeout fires, an exit is noticed, and the runner kills
\* a cancelled task, which unwinds at the latest when the pipe is closed;
\* nothing makes a process end or a child let go of the pipe.
CommandsFairness ==
  /\ WF_commandVars(CallSteps) /\ WF_commandVars(TaskCancelled)
  /\ WF_commandVars(ExitNoticed) /\ WF_commandVars(~PipeHeld /\ TaskUnwinds)
CommandsSpec == CommandsInit /\ [][CommandsNext]_commandVars /\ CommandsFairness

(* -------------------------------- properties ------------------------------- *)

\* _assemble and _render: the call is an error unless every command exited 0.
Failed == \E j \in DOMAIN results : results[j].how # "completed" \/ results[j].code # 0

\* A call that reports success ran its commands to their own end, all of them
\* unless it was cancelled between two: a killed command never passes for one
\* that exited well (native/openai.py, _assemble).
SuccessIsReal ==
  cmd = "over" /\ ~Failed =>
    /\ \A j \in DOMAIN results : ~results[j].shot
    /\ left = 0 \/ token

\* No command starts and no call ends before the shell of the last command is
\* dead and reaped, and a group that was killed under a live shell is gone as a
\* whole.  What a shell left in the background when it ended by itself may
\* outlive the call (tools.py, _kill_process_group).
NoShellLeft ==
  /\ cmd \in {"spawning", "over"} => group.leader \in {"none", "reaped"}
  /\ group.shot => ~Lives /\ group.child = "none"

\* The timeout bounds the wait for a command's output, and a cancel ends a call
\* even when it hangs on a shell that closed its output, which the timeout no
\* longer bounds, unless somebody out of the kill's reach holds the pipe for good.
CommandsEnd ==
  /\ cmd = "running" ~> cmd # "running"
  /\ <>token => <>(cmd = "over") \/ <>[]PipeHeld

\* The end of a one-shot call: its shell is gone and its result is theirs.
CommandsSound == SuccessIsReal /\ NoShellLeft

=============================================================================
