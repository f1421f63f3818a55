--------------------------------- MODULE Race ---------------------------------
(* _race_cancellation and _kill (core/runner.py), at the grain of the event    *)
(* loop: the inner task, the cancellation token, the grace timer and the       *)
(* deadline timer move on their own, and the drive finds out when it is        *)
(* resumed.  Three users: a registry hook (no grace, its teardown awaited), a  *)
(* tool body (grace, deadline, detached when it does not die) and the steps of *)
(* a model stream (one grace window over the chunks that are left).            *)
EXTENDS Integers

CONSTANTS
  Window,     \* length of a finite grace window, in time units
  MaxDeaf,    \* loop turns _kill gives a detached task: the code's 2
  MaxHeld     \* bound: chunks a stream yields before the token trips

ASSUME RaceAssumption == Window \in Nat \ {0} /\ MaxDeaf \in Nat /\ MaxHeld \in Nat

Unset == -1      \* grace_deadline is None
Endless == -2    \* grace_deadline is infinite

VARIABLES
  use,        \* who races: its kind, grace, deadline, and whether it is deaf
  tripped,    \* token.cancelled
  inner,      \* the task: running, how it ended, and whether it was cancelled
  racer,      \* the drive: where it is, what is thrown into it, its outcome
  grace,      \* units left of the grace window
  signalled   \* cancel_signalled_at is recorded

raceVars == <<use, tripped, inner, racer, grace, signalled>>

Kinds == {"hook", "body", "stream"}
Endings == {"value", "deferred", "raised", "timeout"}
Uses == {u \in [kind : Kinds, grace : {"none", "finite", "endless"}, deadline : BOOLEAN, deaf : BOOLEAN] :
           /\ u.kind = "hook" => u.grace = "none"
           /\ u.kind # "body" => ~u.deadline /\ ~u.deaf}

RaceInit ==
  /\ use \in Uses /\ tripped \in BOOLEAN
  /\ inner = [state |-> "running", told |-> FALSE, held |-> 0]
  /\ racer = [at |-> "enter", thrown |-> "none", ticks |-> 0, outcome |-> "none"]
  /\ grace = Unset /\ signalled = FALSE

Running == inner.state = "running"
Fired == grace = 0

(* ------------------------ the task, the token, the timers ------------------- *)

\* A cancelled task may still return or raise; only a body can defer, and only a
\* stream ends by StopAsyncIteration ("end").
TaskEnds == \E s \in Endings \cup {"killed", "end"} :
  /\ Running /\ racer.at # "enter"
  /\ s = "killed" => inner.told /\ ~use.deaf
  /\ s = "deferred" => use.kind = "body"
  /\ s = "end" => use.kind = "stream"
  /\ (s = "value" /\ use.kind = "stream" /\ ~tripped) => inner.held < MaxHeld
  /\ inner' = [inner EXCEPT !.state = s]
  /\ UNCHANGED <<use, tripped, racer, grace, signalled>>

Trip == ~tripped /\ tripped' = TRUE /\ UNCHANGED <<use, inner, racer, grace, signalled>>

\* Time passes in the grace window; at 0 its timer has fired.
TimePasses == grace > 0 /\ grace' = grace - 1 /\ UNCHANGED <<use, tripped, inner, racer, signalled>>

\* asyncio.timeout fires, or the drive itself is cancelled: a CancelledError is
\* thrown into the drive where it waits, and reaches it at its next turn.  Each
\* happens once; a teardown that is awaited (_cancel_quietly) swallows it.
Throw(what) ==
  /\ racer.at \in {"wait", "grace", "late", "kill"} /\ racer.thrown = "none"
  /\ racer.at = "kill" => use.kind = "body"
  /\ racer.outcome \notin {"abandoned", what}
  /\ what = "TIMED_OUT" => use.deadline
  /\ racer' = [racer EXCEPT !.thrown = what]
  /\ UNCHANGED <<use, tripped, inner, grace, signalled>>

(* --------------------------------- the drive -------------------------------- *)

\* What the body's caller makes of a race that returned or raised.
OutcomeOf(s) ==
  CASE s = "value" -> "COMPLETED" [] s = "deferred" -> "AWAITING_RESULT"
    [] s \in {"raised", "timeout"} -> "FAILED" [] OTHER -> "lost"

\* Mutant: each chunk that is left gets a window of its own.
Rearmed == Unset

\* The race is over: a chunk goes on to the next one, with the same window.
SameWindow == grace
BodyReturns ==
  IF use.kind = "stream" /\ inner.state = "value"
  THEN /\ racer' = [racer EXCEPT !.at = "enter"]
       /\ inner' = [inner EXCEPT !.state = "running", !.held = IF tripped THEN @ ELSE @ + 1]
       /\ grace' = SameWindow
  ELSE /\ racer' = [racer EXCEPT !.at = "over", !.outcome = OutcomeOf(inner.state)]
       /\ UNCHANGED <<inner, grace>>

\* _kill: task.cancel(), then two turns of the loop (detach) or its whole teardown.
KillTask == [inner EXCEPT !.told = @ \/ Running]
StartKill(outcome) ==
  /\ racer' = [racer EXCEPT !.at = "kill", !.thrown = "none", !.ticks = 0, !.outcome = outcome]
  /\ inner' = KillTask

\* Cancelled while in flight: signalled first, then no grace, or the window; one
\* that is used up by earlier chunks is a wait_for that can only time out.
TokenWon ==
  /\ signalled' = TRUE
  /\ IF use.grace = "none" THEN StartKill("INTERRUPTED") /\ UNCHANGED grace
     ELSE /\ racer' = [racer EXCEPT !.at = IF Fired THEN "late" ELSE "grace"]
          /\ grace' = IF grace # Unset THEN grace ELSE IF use.grace = "endless" THEN Endless ELSE Window
          /\ UNCHANGED inner

\* Every caller makes its task in the step that enters the race, so the branch
\* for a task that is done on entry is never taken.
RaceEnters ==
  /\ racer.at = "enter"
  /\ IF tripped THEN TokenWon
     ELSE racer' = [racer EXCEPT !.at = "wait"] /\ UNCHANGED <<inner, grace, signalled>>
  /\ UNCHANGED <<use, tripped>>

\* Mutant: a task that settled in the same tick was not signalled.
SignalUnlessDone == signalled

SignalNow == signalled \/ tripped

\* asyncio.wait wakes the drive: the task, when it is done by now, wins.
Woken ==
  /\ racer.at = "wait" /\ racer.thrown = "none"
  /\ \/ ~Running /\ signalled' = SignalNow /\ BodyReturns
     \/ Running /\ tripped /\ TokenWon
  /\ UNCHANGED <<use, tripped>>

\* The shielded task settled before the drive saw the timer.
Graced ==
  /\ racer.at = "grace" /\ racer.thrown = "none" /\ ~Running
  /\ BodyReturns
  /\ UNCHANGED <<use, tripped, signalled>>

\* wait_for timed out: a task that is done by the time the drive runs is taken
\* to have raised the TimeoutError itself.
GraceOver ==
  /\ racer.at \in {"grace", "late"} /\ racer.thrown = "none" /\ Fired
  /\ IF Running THEN StartKill("INTERRUPTED")
     ELSE racer' = [racer EXCEPT !.at = "over", !.outcome = "FAILED"] /\ UNCHANGED inner
  /\ UNCHANGED <<use, tripped, grace, signalled>>

\* The CancelledError arrives: kill, then TIMED_OUT, or the drive is gone, at once
\* when it was killing already.
Thrown ==
  /\ racer.thrown # "none"
  /\ IF racer.at = "kill" /\ racer.thrown = "abandoned"
     THEN racer' = [racer EXCEPT !.at = "over", !.outcome = "abandoned"] /\ UNCHANGED inner
     ELSE StartKill(racer.thrown)
  /\ UNCHANGED <<use, tripped, grace, signalled>>

KillTurn ==
  /\ racer.at = "kill" /\ racer.thrown = "none" /\ Running /\ use.kind = "body" /\ racer.ticks < MaxDeaf
  /\ racer' = [racer EXCEPT !.ticks = @ + 1]
  /\ UNCHANGED <<use, tripped, inner, grace, signalled>>

KillReturns(r) == ~Running \/ (use.kind = "body" /\ r.ticks = MaxDeaf)
TaskKilled ==
  /\ racer.at = "kill" /\ racer.thrown = "none" /\ KillReturns(racer)
  /\ racer' = [racer EXCEPT !.at = "over"]
  /\ UNCHANGED <<use, tripped, inner, grace, signalled>>

Drives == RaceEnters \/ Woken \/ Graced \/ GraceOver \/ Thrown \/ KillTurn \/ TaskKilled
RaceNext == TaskEnds \/ Trip \/ TimePasses \/ Drives \/ \E what \in {"TIMED_OUT", "abandoned"} : Throw(what)

\* The loop resumes the drive, time passes, and a task that honours its
\* cancellation dies of it.  A body may run, and a stream may be silent, for ever.
RaceFairness ==
  WF_raceVars(Drives) /\ WF_raceVars(TimePasses) /\ WF_raceVars(inner.told /\ TaskEnds)
RaceSpec == RaceInit /\ [][RaceNext]_raceVars /\ RaceFairness

(* -------------------------------- properties -------------------------------- *)

\* The shape of a race; the window of a race whose token is intact is not open.
RaceTypeOK ==
  /\ use \in Uses /\ tripped \in BOOLEAN /\ signalled \in BOOLEAN
  /\ inner \in [state : Endings \cup {"running", "killed", "end"}, told : BOOLEAN, held : 0..MaxHeld]
  /\ racer.at \in {"enter", "wait", "grace", "late", "kill", "over"} /\ racer.ticks \in 0..MaxDeaf
  /\ grace \in -2..Window
  /\ grace # Unset => tripped /\ signalled

\* _race_cancellation: "no orphans".  When the race is over, however it ended,
\* nothing it started still runs, except a tool body that was cancelled and does
\* not die (detached thread work).
NoOrphans == racer.at = "over" /\ Running => use.kind = "body" /\ inner.told

\* Cancellation that reached a body in flight is on record before its outcome is,
\* "also when the task settled in the same tick": the audit trail tells a
\* cooperative early return from an answer nobody asked to stop.
SignalIsRecorded ==
  [][racer.at # "over" /\ racer'.at = "over" /\ tripped
       /\ racer'.outcome \in {"COMPLETED", "AWAITING_RESULT", "FAILED", "INTERRUPTED"} => signalled']_raceVars

\* With a finite window (or none), a tripped token ends the race, whatever the
\* body ignores and however steadily the stream delivers: the window is shared by
\* the chunks that are left and never starts again.
CancelledRaceEnds == (tripped /\ use.grace # "endless") ~> (racer.at = "over")

\* A race leaves nothing running and its record says what reached the body.
RaceSound == [](RaceTypeOK /\ NoOrphans) /\ SignalIsRecorded

===============================================================================
