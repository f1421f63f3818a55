-------------------------------- MODULE Shells --------------------------------
(* The persistent bash behind Anthropic's native bash tool                     *)
(* (contrib/shell/session.py, native/anthropic.py): a pool with one session    *)
(* per conversation lineage, the shell process of a session, and the calls     *)
(* that run commands in it.  One lineage is followed: `pool` is its session.   *)
(*                                                                             *)
(* A command is written to the live shell and read back up to its sentinel;    *)
(* a timeout, a cancel or the death of the shell throws the process away, and  *)
(* the next call starts another.  aclose kills without the session's lock.     *)
EXTENDS Integers, FiniteSets

CONSTANTS
  Shells,     \* ShellSession objects
  Procs,      \* bash processes
  ShellCalls, \* tool calls of the lineage
  Dirs,       \* directories
  Workdir,    \* the workspace
  Nil

ASSUME ShellsAssumption == Nil \notin Shells \cup Procs \cup ShellCalls \cup Dirs /\ Workdir \in Dirs

VARIABLES
  pool,       \* ShellSessionPool._sessions: the lineage's session, or Nil
  shell,      \* the sessions
  proc,       \* the processes: alive, the directory they are in, who ran there
  bash,       \* the calls
  raced       \* history: calls about to start a shell in a session being closed

shellVars == <<pool, shell, proc, bash, raced>>

NewShell == [proc |-> Nil, used |-> FALSE, cwd |-> Workdir, holder |-> Nil, born |-> FALSE]
NewCall == [at |-> "idle", kind |-> "run", shell |-> Nil, proc |-> Nil, outcome |-> Nil]

Alive(p) == p # Nil /\ proc[p].alive
Unborn == {s \in Shells : ~shell[s].born}

(* ShellSession._kill: the process of the session, whichever it is by now. *)
Kill(s) ==
  [shell EXCEPT ![s] = [@ EXCEPT !.proc = Nil, !.used = FALSE, !.cwd = Workdir]]
KillProc(s) ==
  [p \in Procs |-> IF p = shell[s].proc THEN [proc[p] EXCEPT !.alive = FALSE] ELSE proc[p]]

Return(c, outcome) == bash' = [bash EXCEPT ![c] = [@ EXCEPT !.at = "over", !.outcome = outcome]]
Unlocked(sh, c) == [s \in Shells |-> IF sh[s].holder = c THEN [sh[s] EXCEPT !.holder = Nil] ELSE sh[s]]

(* ----------------------------------- calls --------------------------------- *)

\* ShellSessionPool.get, from the permission requests or from the call itself.
GetShell(s) ==
  IF pool = Nil
  THEN /\ s \in Unborn
       /\ pool' = s /\ shell' = [shell EXCEPT ![s].born = TRUE]
  ELSE s = pool /\ UNCHANGED <<pool, shell>>

Call(c) == \E s \in Shells, kind \in {"run", "restart"} :
  /\ bash[c].at = "idle"
  /\ GetShell(s)
  /\ bash' = [bash EXCEPT ![c] = [@ EXCEPT !.at = "queued", !.kind = kind, !.shell = s]]
  /\ UNCHANGED <<proc, raced>>

\* The lock, taken when free.
MayEnter(s) == shell[s].holder = Nil

\* run: the live shell, or none yet; what a dead one left is thrown away first.
Enter(c) ==
  LET s == bash[c].shell IN
  /\ bash[c].at = "queued" /\ bash[c].kind = "run" /\ MayEnter(s)
  /\ IF Alive(shell[s].proc)
     THEN /\ shell' = [shell EXCEPT ![s].holder = c]
          /\ bash' = [bash EXCEPT ![c] = [@ EXCEPT !.at = "driving", !.proc = shell[s].proc]]
          /\ UNCHANGED proc
     ELSE /\ shell' = [Kill(s) EXCEPT ![s].holder = c]
          /\ proc' = KillProc(s)
          /\ bash' = [bash EXCEPT ![c].at = "spawning"]
  /\ UNCHANGED <<pool, raced>>

Restart(c) ==
  LET s == bash[c].shell IN
  /\ bash[c].at = "queued" /\ bash[c].kind = "restart" /\ MayEnter(s)
  /\ shell' = Kill(s) /\ proc' = KillProc(s)
  /\ Return(c, "restarted")
  /\ UNCHANGED <<pool, raced>>

\* create_subprocess_exec returns, in whatever session the call still holds.
Spawn(c) == \E p \in Procs :
  LET s == bash[c].shell IN
  /\ bash[c].at = "spawning" /\ proc[p].cwd = Nil
  /\ p = CHOOSE q \in Procs : proc[q].cwd = Nil
  /\ proc' = [proc EXCEPT ![p] = [alive |-> TRUE, cwd |-> Workdir, ran |-> {}, of |-> s]]
  /\ shell' = [shell EXCEPT ![s] = [@ EXCEPT !.proc = p]]
  /\ bash' = [bash EXCEPT ![c] = [@ EXCEPT !.at = "driving", !.proc = p]]
  /\ UNCHANGED <<pool, raced>>

SpawnFails(c) ==
  /\ bash[c].at = "spawning"
  /\ shell' = Unlocked(shell, c) /\ Return(c, "error")
  /\ UNCHANGED <<pool, proc, raced>>

\* The driver is written; a pipe nobody reads any more may refuse it.
Drive(c) ==
  LET s == bash[c].shell
      p == bash[c].proc IN
  /\ bash[c].at = "driving"
  /\ shell' = [shell EXCEPT ![s].used = TRUE]
  /\ proc' = [proc EXCEPT ![p].ran = IF Alive(p) THEN @ \cup {c} ELSE @]
  /\ bash' = [bash EXCEPT ![c].at = "reading"]
  /\ UNCHANGED <<pool, raced>>

\* The command is done: the shell, left in directory d, prints the sentinel.
Sentinel(c) == \E d \in Dirs :
  /\ bash[c].at = "reading" /\ Alive(bash[c].proc)
  /\ proc' = [proc EXCEPT ![bash[c].proc].cwd = d]
  /\ bash' = [bash EXCEPT ![c].at = "answered"]
  /\ UNCHANGED <<pool, shell, raced>>

\* `read in done` comes before the token and the timeout.
Complete(c) ==
  LET s == bash[c].shell IN
  /\ bash[c].at = "answered"
  /\ shell' = Unlocked([shell EXCEPT ![s].cwd = proc[bash[c].proc].cwd], c)
  /\ Return(c, "completed")
  /\ UNCHANGED <<pool, proc, raced>>

\* EOF or a broken pipe, the token, the timeout, or the task's own cancellation:
\* the session's process is killed.
GiveUp(c, outcome) ==
  LET s == bash[c].shell IN
  /\ bash[c].at \in {"driving", "reading"}
  /\ outcome = "shell_died" <=> ~Alive(bash[c].proc)
  /\ outcome # "shell_died" => bash[c].at = "reading"
  /\ shell' = Unlocked(Kill(s), c) /\ proc' = KillProc(s)
  /\ Return(c, outcome)
  /\ UNCHANGED <<pool, raced>>

(* ------------------------------ the world outside -------------------------- *)

\* `exit` in a command, or a kill from elsewhere.
Dies(p) ==
  /\ Alive(p)
  /\ proc' = [proc EXCEPT ![p].alive = FALSE]
  /\ UNCHANGED <<pool, shell, bash, raced>>

\* ShellSessionPool.aclose, which does not wait for the lock.
Close ==
  /\ pool # Nil
  /\ pool' = Nil
  /\ shell' = Kill(pool)
  /\ proc' = KillProc(pool)
  /\ raced' = raced \cup {c \in ShellCalls : bash[c].shell = pool /\ bash[c].at \in {"queued", "spawning"}}
  /\ UNCHANGED bash

ShellsInit ==
  /\ pool = Nil
  /\ shell = [s \in Shells |-> NewShell]
  /\ proc = [p \in Procs |-> [alive |-> FALSE, cwd |-> Nil, ran |-> {}, of |-> Nil]]
  /\ bash = [c \in ShellCalls |-> NewCall]
  /\ raced = {}

ShellOutcomes == {"shell_died", "cancelled", "timed_out", "killed"}
Runs(c) ==
  \/ Enter(c) \/ Restart(c) \/ Spawn(c) \/ SpawnFails(c) \/ Drive(c)
  \/ Sentinel(c) \/ Complete(c) \/ \E o \in ShellOutcomes : GiveUp(c, o)

ShellsNext ==
  \/ \E c \in ShellCalls : Call(c) \/ Runs(c)
  \/ \E p \in Procs : Dies(p)
  \/ Close

\* A call's own steps go on: its timeout bounds every command.
ShellsFairness == \A c \in ShellCalls : WF_shellVars(Runs(c))
ShellsSpec == ShellsInit /\ [][ShellsNext]_shellVars /\ ShellsFairness

(* -------------------------------- properties ------------------------------- *)

\* The shape of the state of calls, shells and processes.
ShellsTypeOK ==
  /\ pool \in Shells \cup {Nil}
  /\ \A s \in Shells : /\ shell[s].proc \in Procs \cup {Nil} /\ shell[s].cwd \in Dirs
                       /\ shell[s].holder \in ShellCalls \cup {Nil}
                       /\ shell[s].holder # Nil =>
                            bash[shell[s].holder].at \in {"spawning", "driving", "reading", "answered"}
  /\ \A p \in Procs : proc[p].ran \subseteq ShellCalls /\ proc[p].cwd \in Dirs \cup {Nil}
  /\ raced \subseteq ShellCalls

\* Two calls never have a command in the same shell (session.py, run's lock).
OneCommandPerShell == \A c, d \in ShellCalls :
  c # d /\ {bash[c].at, bash[d].at} \subseteq {"driving", "reading", "answered"}
    => bash[c].proc # bash[d].proc

\* The restart notice is right: a live shell of the lineage counts as fresh
\* exactly while it has run nothing (session.py, fresh; plugin.py,
\* bash_restart_part).
NoticeIsTrue ==
  pool # Nil /\ Alive(shell[pool].proc) => (shell[pool].used <=> proc[shell[pool].proc].ran # {})

\* Between commands, the directory an approval prompt names is the one the live
\* shell is in (session.py, _drive; native/anthropic.py, _effective_workdir).
CwdIsReal ==
  pool # Nil /\ Alive(shell[pool].proc)
  /\ (\A c \in ShellCalls : bash[c].proc = shell[pool].proc => bash[c].at # "answered")
    => shell[pool].cwd = proc[shell[pool].proc].cwd

\* A shell outlives the close of its session only through a call that was still
\* waiting for it, or starting it, when aclose ran.
NoShellOutlivesClose == \A p \in Procs :
  Alive(p) /\ proc[p].of # pool => \E c \in raced : bash[c].proc = p

\* Every call returns: the lock is always given up, the timeout always ends the
\* read.
ShellCallsReturn == \A c \in ShellCalls : bash[c].at = "queued" ~> bash[c].at = "over"

\* What the model and the approver are told of the persistent shell is so.
ShellsSound ==
  /\ ShellsTypeOK /\ OneCommandPerShell /\ NoticeIsTrue /\ CwdIsReal /\ NoShellOutlivesClose

=============================================================================
