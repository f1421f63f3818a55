---------------------------- MODULE EffectsProofs ----------------------------
(* The parts through which a drive reaches the outside, for every instance of  *)
(* them: the race every await is run in, the persistent shells and the          *)
(* one-shot commands, the approvals.                                            *)
EXTENDS Race, Processes, Approvals, FiniteSetTheorems, SequenceTheorems, TLAPS

-----------------------------------------------------------------------------
(* The race: a cancelled one leaves nothing running and says what reached the *)
(* body, for every window, every patience of _kill and every number of chunks. *)

RacePlaces == {"enter", "wait", "grace", "late", "kill", "over"}
Raisable == {"none", "TIMED_OUT", "abandoned"}
RaceOutcomes == {"none", "COMPLETED", "AWAITING_RESULT", "FAILED", "lost", "INTERRUPTED", "TIMED_OUT", "abandoned"}

Inners == [state : Endings \cup {"running", "killed", "end"}, told : BOOLEAN, held : 0..MaxHeld]
Racers == [at : RacePlaces, thrown : Raisable, ticks : 0..MaxDeaf, outcome : RaceOutcomes]

\* RaceTypes, in full.
RaceTypes ==
  /\ use \in Uses /\ tripped \in BOOLEAN /\ signalled \in BOOLEAN
  /\ inner \in Inners /\ racer \in Racers
  /\ grace \in -2..Window

\* The window is open, and a drive waits in it, only once the token is tripped
\* and the signal is on record.
WindowInv ==
  /\ grace # Unset => tripped /\ signalled
  /\ racer.at \in {"grace", "late"} => signalled

\* What is being killed has been cancelled, and an interruption was signalled.
KillInv ==
  /\ racer.at = "kill" => (Running => inner.told)
  /\ racer.at = "kill" => racer.outcome \in {"INTERRUPTED", "TIMED_OUT", "abandoned"}
  /\ racer.at = "kill" /\ racer.outcome = "INTERRUPTED" => signalled
  /\ racer.at = "kill" /\ racer.thrown # "none" => use.kind = "body"

\* A stream that may still deliver a chunk has room for it.
HeldInv == inner.state = "value" /\ use.kind = "stream" /\ ~tripped => inner.held < MaxHeld

RaceInv == RaceTypes /\ WindowInv /\ KillInv /\ HeldInv /\ NoOrphans

\* The first state of a race.
LEMMA RaceInitInv == RaceInit => RaceInv
<1> SUFFICES ASSUME RaceInit PROVE RaceInv
  OBVIOUS
<1> USE RaceAssumption DEF RaceInit
<1>1. RaceTypes
  <2>1. use \in Uses /\ tripped \in BOOLEAN /\ signalled \in BOOLEAN
    OBVIOUS
  <2>2. inner \in Inners
    BY DEF Inners, Endings
  <2>3. racer \in Racers
    BY DEF Racers, RacePlaces, Raisable, RaceOutcomes
  <2>4. grace \in -2..Window
    BY DEF Unset
  <2> QED BY <2>1, <2>2, <2>3, <2>4 DEF RaceTypes
<1>2. WindowInv
  BY DEF WindowInv, Unset
<1>3. KillInv
  BY DEF KillInv
<1>4. HeldInv
  BY DEF HeldInv
<1>5. NoOrphans
  BY DEF NoOrphans
<1> QED BY <1>1, <1>2, <1>3, <1>4, <1>5 DEF RaceInv

\* The words a step writes are words of the types.
LEMMA RaceNames ==
  /\ {"enter", "wait", "grace", "late", "kill", "over"} \subseteq RacePlaces
  /\ Raisable \subseteq RaceOutcomes /\ {"none", "INTERRUPTED", "FAILED"} \subseteq RaceOutcomes
BY DEF RacePlaces, Raisable, RaceOutcomes

\* What a body's caller makes of a race is an outcome.
LEMMA OutcomeKnown == \A s : OutcomeOf(s) \in RaceOutcomes
BY DEF OutcomeOf, RaceOutcomes

\* Starting to kill keeps the types.
LEMMA KillTyped ==
  ASSUME NEW o \in RaceOutcomes, racer \in Racers, inner \in Inners, StartKill(o)
  PROVE  racer' \in Racers /\ inner' \in Inners
<1>1. racer' \in Racers
  <2>1. "kill" \in RacePlaces /\ "none" \in Raisable /\ 0 \in 0..MaxDeaf
    BY RaceAssumption DEF RacePlaces, Raisable
  <2>2. racer' = [racer EXCEPT !.at = "kill", !.thrown = "none", !.ticks = 0, !.outcome = o]
    BY DEF StartKill
  <2> QED BY <2>1, <2>2 DEF Racers
<1>2. inner' \in Inners
  BY DEF StartKill, KillTask, Running, Inners
<1> QED BY <1>1, <1>2

\* A race that returns keeps the types.
LEMMA BodyTyped ==
  ASSUME RaceTypes, HeldInv, BodyReturns, ~Running
  PROVE  racer' \in Racers /\ inner' \in Inners
<1>1. CASE use.kind = "stream" /\ inner.state = "value"
  <2>1. racer' \in Racers
    BY <1>1, RaceNames DEF BodyReturns, RaceTypes, Racers
  <2>2. inner' = [inner EXCEPT !.state = "running", !.held = IF tripped THEN @ ELSE @ + 1]
    BY <1>1 DEF BodyReturns
  <2>3. (IF tripped THEN inner.held ELSE inner.held + 1) \in 0..MaxHeld
    BY <1>1, RaceAssumption DEF RaceTypes, Inners, HeldInv
  <2> QED BY <2>1, <2>2, <2>3 DEF RaceTypes, Inners
<1>2. CASE ~(use.kind = "stream" /\ inner.state = "value")
  <2>1. racer' = [racer EXCEPT !.at = "over", !.outcome = OutcomeOf(inner.state)] /\ inner' = inner
    BY <1>2 DEF BodyReturns
  <2>2. OutcomeOf(inner.state) \in RaceOutcomes /\ "over" \in RacePlaces
    BY OutcomeKnown, RaceNames
  <2> QED BY <2>1, <2>2 DEF RaceTypes, Racers, Inners
<1> QED BY <1>1, <1>2

\* A drive that finds the token tripped keeps the window within its bounds.
LEMMA WindowTyped == ASSUME RaceTypes, TokenWon PROVE signalled' \in BOOLEAN /\ grace' \in -2..Window
<1>1. Window \in -2..Window /\ -2 \in -2..Window
  BY RaceAssumption
<1>2. grace' \in {grace, Endless, Window}
  BY DEF TokenWon
<1>3. grace' \in -2..Window
  BY <1>1, <1>2 DEF RaceTypes, Endless
<1> QED BY <1>3 DEF TokenWon

\* The task ends.
LEMMA TaskEndsStep == ASSUME RaceInv, TaskEnds PROVE RaceInv'
<1>1. inner' \in Inners /\ racer' \in Racers
  BY RaceNames DEF RaceTypes, Inners, Racers, Endings, HeldInv, RaceInv, TaskEnds, Running
<1> USE RaceAssumption DEF RaceInv, TaskEnds, Running, Unset, Endless
<1>2. use' \in Uses /\ tripped' \in BOOLEAN /\ signalled' \in BOOLEAN /\ grace' \in -2..Window
  BY DEF RaceTypes, Racers, Inners
<1>3. WindowInv'
  BY <1>1 DEF RaceTypes, WindowInv, Racers
<1>4. KillInv'
  BY <1>1 DEF RaceTypes, WindowInv, KillInv, Inners, Racers, Raisable
<1>5. HeldInv'
  BY <1>1 DEF RaceTypes, HeldInv, Inners
<1>6. NoOrphans'
  BY <1>1 DEF RaceTypes, KillInv, NoOrphans, Inners, Racers, Raisable
<1> QED BY <1>1, <1>2, <1>3, <1>4, <1>5, <1>6 DEF RaceTypes

\* The token trips.
LEMMA TripStep == ASSUME RaceInv, Trip PROVE RaceInv'
<1>1. inner' \in Inners /\ racer' \in Racers
  BY RaceNames DEF RaceTypes, Racers, RaceInv, Trip
<1> USE RaceAssumption DEF RaceInv, Trip, Running, Unset, Endless
<1>2. use' \in Uses /\ tripped' \in BOOLEAN /\ signalled' \in BOOLEAN /\ grace' \in -2..Window
  BY DEF RaceTypes, Racers, Inners
<1>3. WindowInv'
  BY <1>1 DEF RaceTypes, WindowInv, Racers
<1>4. KillInv'
  BY <1>1 DEF RaceTypes, WindowInv, KillInv, Inners, Racers, Raisable
<1>5. HeldInv'
  BY <1>1 DEF RaceTypes, HeldInv, Inners
<1>6. NoOrphans'
  BY <1>1 DEF RaceTypes, KillInv, NoOrphans, Inners, Racers, Raisable
<1> QED BY <1>1, <1>2, <1>3, <1>4, <1>5, <1>6 DEF RaceTypes

\* Time passes in the window.
LEMMA TimePassesStep == ASSUME RaceInv, TimePasses PROVE RaceInv'
<1>1. inner' \in Inners /\ racer' \in Racers
  BY RaceNames DEF RaceTypes, Racers, RaceInv, TimePasses
<1> USE RaceAssumption DEF RaceInv, TimePasses, Running, Unset, Endless
<1>2. use' \in Uses /\ tripped' \in BOOLEAN /\ signalled' \in BOOLEAN /\ grace' \in -2..Window
  BY DEF RaceTypes, Racers, Inners
<1>3. WindowInv'
  BY <1>1 DEF RaceTypes, WindowInv, Racers
<1>4. KillInv'
  BY <1>1 DEF RaceTypes, WindowInv, KillInv, Inners, Racers, Raisable
<1>5. HeldInv'
  BY <1>1 DEF RaceTypes, HeldInv, Inners
<1>6. NoOrphans'
  BY <1>1 DEF RaceTypes, KillInv, NoOrphans, Inners, Racers, Raisable
<1> QED BY <1>1, <1>2, <1>3, <1>4, <1>5, <1>6 DEF RaceTypes

\* The drive enters the race, with a token that may be tripped already.
LEMMA RaceEntersStep == ASSUME RaceInv, RaceEnters PROVE RaceInv'
<1>1. inner' \in Inners /\ racer' \in Racers
  <2>1. CASE tripped /\ use.grace = "none"
    BY <2>1, KillTyped, RaceNames DEF RaceTypes, RaceInv, RaceEnters, TokenWon
  <2>2. CASE tripped /\ use.grace # "none"
    BY <2>2, RaceNames DEF RaceTypes, Racers, RaceInv, RaceEnters, TokenWon
  <2>3. CASE ~tripped
    BY <2>3, RaceNames DEF RaceTypes, Racers, RaceInv, RaceEnters, TokenWon
  <2> QED BY <2>1, <2>2, <2>3
<1>2. use' \in Uses /\ tripped' \in BOOLEAN /\ signalled' \in BOOLEAN /\ grace' \in -2..Window
  <2>1. CASE tripped
    BY <2>1, WindowTyped DEF RaceTypes, RaceInv, RaceEnters
  <2>2. CASE ~tripped
    BY <2>2 DEF RaceTypes, RaceInv, RaceEnters
  <2> QED BY <2>1, <2>2
<1> USE RaceAssumption DEF RaceInv, RaceEnters, Running, Unset, Endless, TokenWon, StartKill, KillTask, Fired
<1>3. WindowInv'
  BY <1>1 DEF RaceTypes, WindowInv, Racers
<1>4. KillInv'
  BY <1>1 DEF RaceTypes, WindowInv, KillInv, Inners, Racers, Raisable
<1>5. HeldInv'
  BY <1>1 DEF RaceTypes, HeldInv, Inners
<1>6. NoOrphans'
  BY <1>1 DEF RaceTypes, KillInv, NoOrphans, Inners, Racers, Raisable
<1> QED BY <1>1, <1>2, <1>3, <1>4, <1>5, <1>6 DEF RaceTypes

\* asyncio.wait wakes the drive.
LEMMA WokenStep == ASSUME RaceInv, Woken PROVE RaceInv'
<1>1. inner' \in Inners /\ racer' \in Racers
  <2>1. CASE ~Running
    BY <2>1, BodyTyped DEF RaceInv, Woken, TokenWon
  <2>2. CASE Running /\ use.grace = "none"
    BY <2>2, KillTyped, RaceNames DEF RaceTypes, RaceInv, Woken, TokenWon
  <2>3. CASE Running /\ use.grace # "none"
    BY <2>3, RaceNames DEF RaceTypes, Racers, RaceInv, Woken, TokenWon
  <2> QED BY <2>1, <2>2, <2>3
<1>2. use' \in Uses /\ tripped' \in BOOLEAN /\ signalled' \in BOOLEAN /\ grace' \in -2..Window
  <2>1. CASE ~Running
    BY <2>1 DEF RaceTypes, RaceInv, Woken, SignalNow, BodyReturns, SameWindow
  <2>2. CASE Running
    BY <2>2, WindowTyped DEF RaceTypes, RaceInv, Woken
  <2> QED BY <2>1, <2>2
<1> USE RaceAssumption DEF RaceInv, Woken, Running, Unset, Endless, TokenWon, StartKill, KillTask, Fired, BodyReturns, SameWindow, SignalNow
<1>3. WindowInv'
  BY <1>1 DEF RaceTypes, WindowInv, Racers
<1>4. KillInv'
  BY <1>1, ZenonT(30) DEF RaceTypes, WindowInv, KillInv, Inners, Racers, Raisable
<1>5. HeldInv'
  BY <1>1 DEF RaceTypes, HeldInv, Inners
<1>6. NoOrphans'
  BY <1>1 DEF RaceTypes, KillInv, NoOrphans, Inners, Racers, Raisable
<1> QED BY <1>1, <1>2, <1>3, <1>4, <1>5, <1>6 DEF RaceTypes

\* The task settled inside the window.
LEMMA GracedStep == ASSUME RaceInv, Graced PROVE RaceInv'
<1>1. inner' \in Inners /\ racer' \in Racers
  BY BodyTyped DEF RaceInv, Graced
<1> USE RaceAssumption DEF RaceInv, Graced, Running, Unset, Endless, BodyReturns, SameWindow
<1>2. use' \in Uses /\ tripped' \in BOOLEAN /\ signalled' \in BOOLEAN /\ grace' \in -2..Window
  BY DEF RaceTypes, Racers, Inners
<1>3. WindowInv'
  BY <1>1 DEF RaceTypes, WindowInv, Racers
<1>4. KillInv'
  BY <1>1 DEF RaceTypes, WindowInv, KillInv, Inners, Racers, Raisable
<1>5. HeldInv'
  BY <1>1 DEF RaceTypes, HeldInv, Inners
<1>6. NoOrphans'
  BY <1>1 DEF RaceTypes, KillInv, NoOrphans, Inners, Racers, Raisable
<1> QED BY <1>1, <1>2, <1>3, <1>4, <1>5, <1>6 DEF RaceTypes

\* The window is over.
LEMMA GraceOverStep == ASSUME RaceInv, GraceOver PROVE RaceInv'
<1>1. inner' \in Inners /\ racer' \in Racers
  <2>1. CASE Running
    BY <2>1, KillTyped, RaceNames DEF RaceTypes, RaceInv, GraceOver, Fired
  <2>2. CASE ~Running
    BY <2>2, RaceNames DEF RaceTypes, Racers, RaceInv, GraceOver, Fired
  <2> QED BY <2>1, <2>2
<1> USE RaceAssumption DEF RaceInv, GraceOver, Running, Unset, Endless, StartKill, KillTask, Fired
<1>2. use' \in Uses /\ tripped' \in BOOLEAN /\ signalled' \in BOOLEAN /\ grace' \in -2..Window
  BY DEF RaceTypes, Racers, Inners
<1>3. WindowInv'
  BY <1>1 DEF RaceTypes, WindowInv, Racers
<1>4. KillInv'
  BY <1>1 DEF RaceTypes, WindowInv, KillInv, Inners, Racers, Raisable
<1>5. HeldInv'
  BY <1>1 DEF RaceTypes, HeldInv, Inners
<1>6. NoOrphans'
  BY <1>1 DEF RaceTypes, KillInv, NoOrphans, Inners, Racers, Raisable
<1> QED BY <1>1, <1>2, <1>3, <1>4, <1>5, <1>6 DEF RaceTypes

\* A CancelledError reaches the drive.
LEMMA ThrownStep == ASSUME RaceInv, Thrown PROVE RaceInv'
<1>1. inner' \in Inners /\ racer' \in Racers
  <2>1. CASE racer.at = "kill" /\ racer.thrown = "abandoned"
    BY <2>1, RaceNames DEF RaceTypes, Racers, Raisable, RaceInv, Thrown
  <2>2. CASE ~(racer.at = "kill" /\ racer.thrown = "abandoned")
    BY <2>2, KillTyped, RaceNames DEF RaceTypes, Racers, RaceInv, Thrown
  <2> QED BY <2>1, <2>2
<1> USE RaceAssumption DEF RaceInv, Thrown, Running, Unset, Endless, StartKill, KillTask
<1>2. use' \in Uses /\ tripped' \in BOOLEAN /\ signalled' \in BOOLEAN /\ grace' \in -2..Window
  BY DEF RaceTypes, Racers, Inners
<1>3. WindowInv'
  BY <1>1 DEF RaceTypes, WindowInv, Racers
<1>4. KillInv'
  BY <1>1 DEF RaceTypes, WindowInv, KillInv, Inners, Racers, Raisable
<1>5. HeldInv'
  BY <1>1 DEF RaceTypes, HeldInv, Inners
<1>6. NoOrphans'
  BY <1>1 DEF RaceTypes, KillInv, NoOrphans, Inners, Racers, Raisable
<1> QED BY <1>1, <1>2, <1>3, <1>4, <1>5, <1>6 DEF RaceTypes

\* A turn of _kill.
LEMMA KillTurnStep == ASSUME RaceInv, KillTurn PROVE RaceInv'
<1>1. inner' \in Inners /\ racer' \in Racers
  BY RaceAssumption, RaceNames DEF RaceTypes, Racers, RaceInv, KillTurn
<1> USE RaceAssumption DEF RaceInv, KillTurn, Running, Unset, Endless
<1>2. use' \in Uses /\ tripped' \in BOOLEAN /\ signalled' \in BOOLEAN /\ grace' \in -2..Window
  BY DEF RaceTypes, Racers, Inners
<1>3. WindowInv'
  BY <1>1 DEF RaceTypes, WindowInv, Racers
<1>4. KillInv'
  BY <1>1 DEF RaceTypes, WindowInv, KillInv, Inners, Racers, Raisable
<1>5. HeldInv'
  BY <1>1 DEF RaceTypes, HeldInv, Inners
<1>6. NoOrphans'
  BY <1>1 DEF RaceTypes, KillInv, NoOrphans, Inners, Racers, Raisable
<1> QED BY <1>1, <1>2, <1>3, <1>4, <1>5, <1>6 DEF RaceTypes

\* _kill returns.
LEMMA TaskKilledStep == ASSUME RaceInv, TaskKilled PROVE RaceInv'
<1>1. inner' \in Inners /\ racer' \in Racers
  BY RaceNames DEF RaceTypes, Racers, RaceInv, TaskKilled
<1> USE RaceAssumption DEF RaceInv, TaskKilled, Running, Unset, Endless, KillReturns
<1>2. use' \in Uses /\ tripped' \in BOOLEAN /\ signalled' \in BOOLEAN /\ grace' \in -2..Window
  BY DEF RaceTypes, Racers, Inners
<1>3. WindowInv'
  BY <1>1 DEF RaceTypes, WindowInv, Racers
<1>4. KillInv'
  BY <1>1 DEF RaceTypes, WindowInv, KillInv, Inners, Racers, Raisable
<1>5. HeldInv'
  BY <1>1 DEF RaceTypes, HeldInv, Inners
<1>6. NoOrphans'
  BY <1>1 DEF RaceTypes, KillInv, NoOrphans, Inners, Racers, Raisable
<1> QED BY <1>1, <1>2, <1>3, <1>4, <1>5, <1>6 DEF RaceTypes

\* A CancelledError is on its way.
LEMMA ThrowStep == ASSUME NEW what \in {"TIMED_OUT", "abandoned"}, RaceInv, Throw(what) PROVE RaceInv'
<1>1. inner' \in Inners /\ racer' \in Racers
  BY RaceNames DEF RaceTypes, Racers, Raisable, RaceInv, Throw
<1> USE RaceAssumption DEF RaceInv, Throw, Running, Unset, Endless
<1>2. use' \in Uses /\ tripped' \in BOOLEAN /\ signalled' \in BOOLEAN /\ grace' \in -2..Window
  BY DEF RaceTypes, Racers, Inners
<1>3. WindowInv'
  BY <1>1 DEF RaceTypes, WindowInv, Racers
<1>4. KillInv'
  BY <1>1 DEF RaceTypes, WindowInv, KillInv, Inners, Racers, Raisable
<1>5. HeldInv'
  BY <1>1 DEF RaceTypes, HeldInv, Inners
<1>6. NoOrphans'
  BY <1>1 DEF RaceTypes, KillInv, NoOrphans, Inners, Racers, Raisable
<1> QED BY <1>1, <1>2, <1>3, <1>4, <1>5, <1>6 DEF RaceTypes

\* Every step of the race preserves the invariant.
LEMMA RaceStep == RaceInv /\ [RaceNext]_raceVars => RaceInv'
<1> SUFFICES ASSUME RaceInv, [RaceNext]_raceVars PROVE RaceInv'
  OBVIOUS
<1>1. CASE TaskEnds
  BY <1>1, TaskEndsStep
<1>2. CASE Trip
  BY <1>2, TripStep
<1>3. CASE TimePasses
  BY <1>3, TimePassesStep
<1>4. CASE Drives
  BY <1>4, RaceEntersStep, WokenStep, GracedStep, GraceOverStep, ThrownStep, KillTurnStep, TaskKilledStep DEF Drives
<1>5. CASE \E what \in {"TIMED_OUT", "abandoned"} : Throw(what)
  BY <1>5, ThrowStep
<1>6. CASE UNCHANGED raceVars
  BY <1>6 DEF raceVars, RaceInv, RaceTypes, WindowInv, KillInv, HeldInv, NoOrphans, Running
<1> QED BY <1>1, <1>2, <1>3, <1>4, <1>5, <1>6 DEF RaceNext

\* The strengthened invariant holds in every state of the race.
LEMMA RaceInvariance == RaceSpec => []RaceInv
<1>1. RaceInit => RaceInv
  BY RaceInitInv
<1>2. RaceInv /\ [RaceNext]_raceVars => RaceInv'
  BY RaceStep
<1> QED BY <1>1, <1>2, PTL DEF RaceSpec

\* What a step of the race may end it with: a signal that is on record, or the
\* end of the drive itself.
SignalStep ==
  racer.at # "over" /\ racer'.at = "over" /\ tripped
    /\ racer'.outcome \in {"COMPLETED", "AWAITING_RESULT", "FAILED", "INTERRUPTED"} => signalled'

\* Each way out of a race leaves the signal on record: the grace window opens only
\* after the signal, and _race_cancellation looks at the token once more when the
\* task wins.
LEMMA SignalInv == RaceInv /\ [RaceNext]_raceVars => SignalStep
<1> SUFFICES ASSUME RaceInv, [RaceNext]_raceVars, racer.at # "over", racer'.at = "over", tripped,
                    racer'.outcome \in {"COMPLETED", "AWAITING_RESULT", "FAILED", "INTERRUPTED"}
             PROVE  signalled'
  BY DEF SignalStep
<1> USE DEF RaceInv, RaceTypes, Racers
<1>1. CASE RaceEnters
  BY <1>1 DEF RaceEnters, TokenWon, StartKill
<1>2. CASE Woken
  BY <1>2 DEF Woken, TokenWon, SignalNow
<1>3. CASE Graced
  BY <1>3 DEF Graced, WindowInv
<1>4. CASE GraceOver
  BY <1>4 DEF GraceOver, WindowInv
<1>5. CASE Thrown
  BY <1>5 DEF Thrown, StartKill
<1>6. CASE TaskKilled
  BY <1>6 DEF TaskKilled, KillInv
<1>7. CASE KillTurn
  BY <1>7 DEF KillTurn
<1>8. CASE TaskEnds \/ Trip \/ TimePasses \/ \E what \in {"TIMED_OUT", "abandoned"} : Throw(what)
  BY <1>8 DEF TaskEnds, Trip, TimePasses, Throw
<1>9. CASE UNCHANGED raceVars
  BY <1>9 DEF raceVars
<1> QED BY <1>1, <1>2, <1>3, <1>4, <1>5, <1>6, <1>7, <1>8, <1>9 DEF RaceNext, Drives

\* _race_cancellation and _kill, for every window, patience and number of chunks:
\* a race that is over leaves nothing running but a body that was cancelled and
\* does not die, the window is open only behind a recorded signal, and no outcome
\* of a cancelled race is recorded without the signal.
THEOREM RaceIsSound == RaceSpec => RaceSound
<1>1. RaceInv => RaceTypeOK /\ NoOrphans
  BY DEF RaceInv, RaceTypes, Inners, Racers, RacePlaces, WindowInv, RaceTypeOK
<1>2. RaceInv /\ [RaceNext]_raceVars => [SignalStep]_raceVars
  BY SignalInv
<1>3. RaceSpec => [](RaceTypeOK /\ NoOrphans)
  BY <1>1, RaceInvariance, PTL
<1>4. RaceSpec => [][SignalStep]_raceVars
  BY <1>2, RaceInvariance, PTL DEF RaceSpec
<1>5. RaceSpec => SignalIsRecorded
  BY <1>4 DEF SignalStep, SignalIsRecorded
<1> QED BY <1>3, <1>5 DEF RaceSound
-----------------------------------------------------------------------------
(* The shells: whoever runs in a session holds it, and a process has one       *)
(* owner, for any shells, processes, calls and directories.                    *)

Inside == {"spawning", "driving", "reading", "answered"}
Working == {"driving", "reading", "answered"}
CallPlaces == {"idle", "queued", "over"} \cup Inside
CallOutcomes == {Nil, "restarted", "error", "completed"} \cup ShellOutcomes

Sessions == [proc : Procs \cup {Nil}, used : BOOLEAN, cwd : Dirs,
             holder : ShellCalls \cup {Nil}, born : BOOLEAN]
ProcRecords == [alive : BOOLEAN, cwd : Dirs \cup {Nil}, ran : SUBSET ShellCalls, of : Shells \cup {Nil}]
CallRecords == [at : CallPlaces, kind : {"run", "restart"}, shell : Shells \cup {Nil},
                proc : Procs \cup {Nil}, outcome : CallOutcomes]

\* Types, in full.
ShellsTypes ==
  /\ pool \in Shells \cup {Nil}
  /\ shell \in [Shells -> Sessions]
  /\ proc \in [Procs -> ProcRecords]
  /\ bash \in [ShellCalls -> CallRecords]
  /\ raced \subseteq ShellCalls

\* A session is held by the one call that is inside it.
LockInv ==
  /\ \A s \in Shells : shell[s].holder # Nil =>
       bash[shell[s].holder].at \in Inside /\ bash[shell[s].holder].shell = s
  /\ \A c \in ShellCalls : bash[c].at \in Inside => shell[bash[c].shell].holder = c

\* Sessions in use were created, and so were the processes they hold.
BornInv ==
  /\ \A c \in ShellCalls : bash[c].at # "idle" =>
       bash[c].shell \in Shells /\ shell[bash[c].shell].born
  /\ \A c \in ShellCalls : bash[c].at \in {"idle", "queued", "spawning"} => bash[c].proc = Nil
  /\ pool # Nil => shell[pool].born
  /\ \A s \in Shells : shell[s].proc # Nil =>
       proc[shell[s].proc].of = s /\ proc[shell[s].proc].cwd # Nil

\* A live process is its session's; a call at work is in its session's process,
\* unless that was killed under it; a session about to start one is as new.
ProcInv ==
  /\ \A p \in Procs : proc[p].alive => proc[p].of \in Shells /\ shell[proc[p].of].proc = p
  /\ \A c \in ShellCalls : bash[c].at \in Working =>
       /\ bash[c].proc \in Procs /\ shell[bash[c].shell].proc \in {bash[c].proc, Nil}
       /\ proc[bash[c].proc].of = bash[c].shell /\ proc[bash[c].proc].cwd # Nil
  /\ \A c \in ShellCalls : bash[c].at = "spawning" =>
       LET s == shell[bash[c].shell] IN s.proc = Nil /\ ~s.used /\ s.cwd = Workdir

\* The notice and the directory are right in every session, of the pool or not.
FreshInv == \A s \in Shells : shell[s].proc # Nil /\ proc[shell[s].proc].alive =>
  (shell[s].used <=> proc[shell[s].proc].ran # {})
CwdInv == \A s \in Shells : shell[s].proc # Nil /\ proc[shell[s].proc].alive =>
  \/ shell[s].cwd = proc[shell[s].proc].cwd
  \/ \E c \in ShellCalls : bash[c].proc = shell[s].proc /\ bash[c].at = "answered"

\* Who waits for a session the pool no longer has was there when it closed.
RacedInv ==
  /\ \A c \in ShellCalls : bash[c].at \in {"queued", "spawning"} /\ bash[c].shell # pool => c \in raced
  /\ \A p \in Procs : proc[p].alive /\ proc[p].of # pool => \E c \in raced : bash[c].proc = p

ShellsInv == ShellsTypes /\ LockInv /\ BornInv /\ ProcInv /\ FreshInv /\ CwdInv /\ RacedInv

\* The first state.
LEMMA ShellsInitInv == ShellsInit => ShellsInv
<1> SUFFICES ASSUME ShellsInit PROVE ShellsInv
  OBVIOUS
<1> USE ShellsAssumption DEF ShellsInit, NewShell, NewCall
<1>1. ShellsTypes
  BY DEF ShellsTypes, Sessions, ProcRecords, CallRecords, CallPlaces, CallOutcomes
<1>2. LockInv /\ BornInv
  BY DEF LockInv, BornInv, Inside
<1>3. ProcInv
  BY DEF ProcInv, Working
<1>4. FreshInv /\ CwdInv /\ RacedInv
  BY DEF FreshInv, CwdInv, RacedInv
<1> QED BY <1>1, <1>2, <1>3, <1>4 DEF ShellsInv

\* The words of the records.
LEMMA ShellWords ==
  /\ \A c \in ShellCalls : ShellsTypes => bash[c] \in CallRecords
  /\ \A s \in Shells : ShellsTypes => shell[s] \in Sessions
  /\ \A p \in Procs : ShellsTypes => proc[p] \in ProcRecords
BY DEF ShellsTypes

\* A function that is given another record of its range.
LEMMA OneRecord ==
  ASSUME NEW A, NEW R, NEW f \in [A -> R], NEW a \in A, NEW r \in R
  PROVE  [f EXCEPT ![a] = r] \in [A -> R]
OBVIOUS

\* Words a step writes.
LEMMA CallWords ==
  /\ {"idle", "queued", "spawning", "driving", "reading", "answered", "over"} \subseteq CallPlaces
  /\ {Nil, "restarted", "error", "completed"} \cup ShellOutcomes \subseteq CallOutcomes
BY DEF CallPlaces, CallOutcomes, Inside

\* What a step makes of call c, of session s, and of the processes when it kills
\* the one session s had.
Moved(c, at, p) ==
  /\ \A d \in ShellCalls \ {c} : bash'[d] = bash[d]
  /\ bash'[c].at = at /\ bash'[c].shell = bash[c].shell /\ bash'[c].proc = p
Session(s, p, holder) ==
  /\ \A x \in Shells \ {s} : shell'[x] = shell[x]
  /\ shell'[s].proc = p /\ shell'[s].holder = holder
  /\ shell[s].born => shell'[s].born
KilledProc(s) == \A q \in Procs :
  /\ proc'[q].cwd = proc[q].cwd /\ proc'[q].ran = proc[q].ran /\ proc'[q].of = proc[q].of
  /\ q = shell[s].proc => ~proc'[q].alive
  /\ q # shell[s].proc => proc'[q] = proc[q]

\* _kill throws the process of the session away.
LEMMA KillProcKills ==
  ASSUME ShellsTypes, NEW s \in Shells, proc' = KillProc(s)
  PROVE  KilledProc(s) /\ proc' \in [Procs -> ProcRecords]
BY DEF ShellsTypes, ProcRecords, KillProc, KilledProc

\* What is left of a session that is killed.
LEMMA KillClears ==
  ASSUME ShellsTypes, NEW s \in Shells
  PROVE  /\ Kill(s) \in [Shells -> Sessions] /\ \A x \in Shells \ {s} : Kill(s)[x] = shell[x]
         /\ Kill(s)[s].proc = Nil /\ ~Kill(s)[s].used /\ Kill(s)[s].cwd = Workdir
         /\ Kill(s)[s].holder = shell[s].holder /\ (Kill(s)[s].born <=> shell[s].born)
BY ShellsAssumption DEF ShellsTypes, Sessions, Kill

\* A call that goes on, one that enters a process and one that returns.
LEMMA CallMoves ==
  ASSUME ShellsTypes, NEW c \in ShellCalls, NEW at \in CallPlaces,
         bash' = [bash EXCEPT ![c].at = at]
  PROVE  bash' \in [ShellCalls -> CallRecords] /\ Moved(c, at, bash[c].proc)
<1>1. bash[c] \in CallRecords
  BY DEF ShellsTypes
<1>2. [bash[c] EXCEPT !.at = at] \in CallRecords
  BY <1>1 DEF CallRecords
<1> QED BY <1>1, <1>2 DEF ShellsTypes, Moved, CallRecords

\* A call that got its session works on the process it found.
LEMMA CallEnters ==
  ASSUME ShellsTypes, NEW c \in ShellCalls, NEW p \in Procs,
         bash' = [bash EXCEPT ![c] = [@ EXCEPT !.at = "driving", !.proc = p]]
  PROVE  bash' \in [ShellCalls -> CallRecords] /\ Moved(c, "driving", p)
<1>1. bash[c] \in CallRecords
  BY DEF ShellsTypes
<1>2. [bash[c] EXCEPT !.at = "driving", !.proc = p] \in CallRecords
  BY <1>1, CallWords DEF CallRecords
<1> QED BY <1>1, <1>2 DEF ShellsTypes, Moved, CallRecords

\* A call that is over keeps nothing but its result.
LEMMA CallReturns ==
  ASSUME ShellsTypes, NEW c \in ShellCalls, NEW o \in CallOutcomes, Return(c, o)
  PROVE  bash' \in [ShellCalls -> CallRecords] /\ Moved(c, "over", bash[c].proc)
<1>1. bash[c] \in CallRecords
  BY DEF ShellsTypes
<1>2. [bash[c] EXCEPT !.at = "over", !.outcome = o] \in CallRecords
  BY <1>1, CallWords DEF CallRecords
<1> QED BY <1>1, <1>2 DEF ShellsTypes, Moved, CallRecords, Return

\* The lock is given up by the call that has it.
LEMMA UnlockFrees ==
  ASSUME NEW sh \in [Shells -> Sessions], NEW c \in ShellCalls, NEW x \in Shells
  PROVE  /\ Unlocked(sh, c) \in [Shells -> Sessions]
         /\ sh[x].holder # c => Unlocked(sh, c)[x] = sh[x]
         /\ sh[x].holder = c => Unlocked(sh, c)[x].holder = Nil
         /\ Unlocked(sh, c)[x].proc = sh[x].proc /\ Unlocked(sh, c)[x].cwd = sh[x].cwd
         /\ (Unlocked(sh, c)[x].used <=> sh[x].used) /\ (Unlocked(sh, c)[x].born <=> sh[x].born)
<1>1. \A y \in Shells : sh[y] \in Sessions /\ [sh[y] EXCEPT !.holder = Nil] \in Sessions
  BY DEF Sessions
<1>2. Unlocked(sh, c) \in [Shells -> Sessions]
  BY <1>1 DEF Unlocked
<1>3. Unlocked(sh, c)[x] = IF sh[x].holder = c THEN [sh[x] EXCEPT !.holder = Nil] ELSE sh[x]
  BY DEF Unlocked
<1> QED BY <1>1, <1>2, <1>3 DEF Sessions

\* The session of a call under way, and its records.
LEMMA CallOfSession ==
  ASSUME ShellsInv, NEW c \in ShellCalls, bash[c].at # "idle"
  PROVE  /\ bash[c].shell \in Shells /\ shell[bash[c].shell] \in Sessions
         /\ bash[c] \in CallRecords /\ bash[c].proc \in Procs \cup {Nil}
         /\ shell[bash[c].shell].proc \in Procs \cup {Nil}
         /\ bash[c].at \in Inside => shell[bash[c].shell].holder = c
BY DEF ShellsInv, BornInv, LockInv, ShellsTypes, CallRecords, Sessions

\* Who is inside holds the lock, after a step of a call that had it or found it free.
LEMMA LockStep ==
  ASSUME ShellsInv, NEW c \in ShellCalls, NEW at, NEW p, NEW q, bash[c].at # "idle",
         shell[bash[c].shell].holder \in {c, Nil}, Moved(c, at, p),
         Session(bash[c].shell, q, IF at \in Inside THEN c ELSE Nil)
  PROVE  LockInv'
<1>1. bash[c].shell \in Shells
  BY CallOfSession
<1>2. \A d \in ShellCalls \ {c} : bash[d].at \in Inside => bash[d].shell # bash[c].shell
  BY ShellsAssumption DEF ShellsInv, LockInv
<1>3. ASSUME NEW d \in ShellCalls, bash'[d].at \in Inside PROVE shell'[bash'[d].shell].holder = d
  <2>1. CASE d = c
    BY <1>1, <1>3, <2>1 DEF Moved, Session
  <2>2. CASE d # c
    <3>1. bash[d].shell \in Shells \ {bash[c].shell}
      BY <1>2, <1>3, <2>2 DEF ShellsInv, BornInv, Moved, Inside
    <3> QED BY <1>3, <2>2, <3>1 DEF ShellsInv, LockInv, Moved, Session
  <2> QED BY <2>1, <2>2
<1>4. ASSUME NEW x \in Shells, shell'[x].holder # Nil
      PROVE  bash'[shell'[x].holder].at \in Inside /\ bash'[shell'[x].holder].shell = x
  <2>1. CASE x = bash[c].shell
    BY <1>4, <2>1, ShellsAssumption DEF Moved, Session
  <2>2. CASE x # bash[c].shell
    <3>1. shell[x].holder \in ShellCalls \ {c} /\ shell'[x] = shell[x]
      BY <1>4, <2>2 DEF ShellsInv, ShellsTypes, Sessions, LockInv, Session
    <3> QED BY <1>4, <3>1 DEF ShellsInv, LockInv, Moved
  <2> QED BY <2>1, <2>2
<1> QED BY <1>3, <1>4 DEF LockInv

\* What a call that is inside a session, or enters it, leaves of the processes:
\* none comes to life, and only the one the session keeps may have run or moved.
Kept(q) == \A r \in Procs :
  /\ proc'[r].of = proc[r].of /\ (proc'[r].alive => proc[r].alive) /\ (proc[r].cwd # Nil => proc'[r].cwd # Nil)
  /\ r # q => proc'[r].ran = proc[r].ran /\ proc'[r].cwd = proc[r].cwd

\* What such a call must see to: `s` is its session, left with process q (the one it
\* had, or none, and then that is dead) and with a notice and a directory that are right.
InSession(c, s, at, p, q) ==
  /\ Moved(c, at, p) /\ Session(s, q, IF at \in Inside THEN c ELSE Nil) /\ Kept(q)
  /\ pool' = pool /\ raced' = raced
  /\ shell[s].holder \in {c, Nil} /\ at \in Inside \cup {"over"}
  /\ \/ q = shell[s].proc
     \/ q = Nil /\ (shell[s].proc # Nil => ~proc'[shell[s].proc].alive)
  /\ at = "spawning" => bash[c].at = "queued" /\ p = Nil /\ q = Nil /\ ~shell'[s].used /\ shell'[s].cwd = Workdir
  /\ at \in Working => p \in Procs /\ q \in {p, Nil} /\ proc[p].of = s /\ proc[p].cwd # Nil
  /\ bash[c].proc \in {p, Nil}
  /\ q # Nil /\ proc'[q].alive => (shell'[s].used <=> proc'[q].ran # {})
  /\ q # Nil /\ proc'[q].alive => shell'[s].cwd = proc'[q].cwd \/ (p = q /\ at = "answered")

\* A call that sees to it keeps the invariant.
LEMMA InSessionInv ==
  ASSUME ShellsInv, ShellsTypes', NEW c \in ShellCalls, NEW s, NEW at, NEW p, NEW q,
         bash[c].at # "idle", s = bash[c].shell, InSession(c, s, at, p, q)
  PROVE  ShellsInv'
<1>0. /\ s \in Shells /\ shell[s].proc \in Procs \cup {Nil} /\ bash[c].proc \in Procs \cup {Nil}
      /\ q \in Procs \cup {Nil}
  BY CallOfSession DEF InSession
<1>1. LockInv'
  BY LockStep DEF InSession
<1>2. \A x \in Shells \ {s} : shell[x].proc # Nil => shell[x].proc \in Procs \ {q} /\ proc[shell[x].proc].of = x
  BY <1>0, ShellsAssumption DEF InSession, ShellsInv, BornInv, ShellsTypes, Sessions
<1>3. BornInv'
  <2>1. \A x \in Shells : shell[x].born => shell'[x].born
    BY DEF InSession, Session
  <2>2. ASSUME NEW d \in ShellCalls
        PROVE  /\ bash'[d].at # "idle" => bash'[d].shell \in Shells /\ shell'[bash'[d].shell].born
               /\ bash'[d].at \in {"idle", "queued", "spawning"} => bash'[d].proc = Nil
    BY <2>1 DEF InSession, Moved, ShellsInv, BornInv, Inside
  <2>3. pool' # Nil => shell'[pool'].born
    BY <2>1 DEF InSession, ShellsInv, BornInv, ShellsTypes
  <2>4. ASSUME NEW x \in Shells, shell'[x].proc # Nil
        PROVE  proc'[shell'[x].proc].of = x /\ proc'[shell'[x].proc].cwd # Nil
    BY <1>0, <1>2, <2>4 DEF InSession, Session, Kept, ShellsInv, BornInv
  <2> QED BY <2>2, <2>3, <2>4 DEF BornInv
<1>4. \A d \in ShellCalls \ {c} : bash[d].at \in Inside => bash[d].shell \in Shells \ {s}
  BY ShellsAssumption DEF InSession, ShellsInv, BornInv, LockInv, Inside
<1>5. ProcInv'
  <2>1. ASSUME NEW r \in Procs, proc'[r].alive
        PROVE  proc'[r].of \in Shells /\ shell'[proc'[r].of].proc = r
    BY <1>0, <2>1 DEF InSession, Session, Kept, ShellsInv, ProcInv
  <2>2. ASSUME NEW d \in ShellCalls, bash'[d].at \in Working
        PROVE  /\ bash'[d].proc \in Procs /\ shell'[bash'[d].shell].proc \in {bash'[d].proc, Nil}
               /\ proc'[bash'[d].proc].of = bash'[d].shell /\ proc'[bash'[d].proc].cwd # Nil
    <3>1. CASE d = c
      BY <1>0, <2>2, <3>1 DEF InSession, Moved, Session, Kept
    <3>2. CASE d # c
      <4>1. bash'[d] = bash[d] /\ shell'[bash[d].shell] = shell[bash[d].shell]
        BY <1>4, <2>2, <3>2 DEF InSession, Moved, Session, Inside, Working
      <4> QED BY <2>2, <4>1 DEF InSession, Kept, ShellsInv, ProcInv
    <3> QED BY <3>1, <3>2
  <2>3. ASSUME NEW d \in ShellCalls, bash'[d].at = "spawning"
        PROVE  LET x == shell'[bash'[d].shell] IN x.proc = Nil /\ ~x.used /\ x.cwd = Workdir
    <3>1. CASE d = c
      BY <2>3, <3>1 DEF InSession, Moved, Session
    <3>2. CASE d # c
      <4>1. bash'[d] = bash[d] /\ shell'[bash[d].shell] = shell[bash[d].shell]
        BY <1>4, <2>3, <3>2 DEF InSession, Moved, Session, Inside
      <4> QED BY <2>3, <4>1 DEF ShellsInv, ProcInv
    <3> QED BY <3>1, <3>2
  <2> QED BY <2>1, <2>2, <2>3 DEF ProcInv
<1>6. FreshInv'
  <2> SUFFICES ASSUME NEW x \in Shells, shell'[x].proc # Nil, proc'[shell'[x].proc].alive
               PROVE  shell'[x].used <=> proc'[shell'[x].proc].ran # {}
    BY DEF FreshInv
  <2>1. CASE x = s
    BY <2>1 DEF InSession, Session
  <2>2. CASE x # s
    BY <1>2, <2>2, SMTT(20) DEF InSession, Session, Kept, ShellsInv, FreshInv
  <2> QED BY <2>1, <2>2
<1>7. CwdInv'
  <2> SUFFICES ASSUME NEW x \in Shells, shell'[x].proc # Nil, proc'[shell'[x].proc].alive
               PROVE  \/ shell'[x].cwd = proc'[shell'[x].proc].cwd
                      \/ \E d \in ShellCalls : bash'[d].proc = shell'[x].proc /\ bash'[d].at = "answered"
    BY DEF CwdInv
  <2>1. CASE x = s
    BY <2>1 DEF InSession, Session, Moved
  <2>2. CASE x # s
    <3>1. \A d \in ShellCalls : bash[d].proc = shell[x].proc /\ bash[d].at = "answered" => d # c
      BY <1>2, <2>2 DEF InSession, Session, ShellsInv, ProcInv, Working
    <3> QED BY <1>2, <2>2, <3>1 DEF InSession, Session, Kept, Moved, ShellsInv, CwdInv
  <2> QED BY <2>1, <2>2
<1>8. RacedInv'
  <2>1. ASSUME NEW d \in ShellCalls, bash'[d].at \in {"queued", "spawning"}, bash'[d].shell # pool'
        PROVE  d \in raced'
    BY <2>1 DEF InSession, Moved, ShellsInv, RacedInv, Inside
  <2>2. ASSUME NEW r \in Procs, proc'[r].alive, proc'[r].of # pool'
        PROVE  \E d \in raced' : bash'[d].proc = r
    <3>1. PICK d \in raced : bash[d].proc = r
      BY <2>2 DEF InSession, Kept, ShellsInv, RacedInv
    <3>2. d \in ShellCalls /\ r # Nil
      BY <3>1, ShellsAssumption DEF ShellsInv, ShellsTypes
    <3>3. bash'[d].proc = r
      BY <3>1, <3>2 DEF InSession, Moved
    <3> QED BY <3>1, <3>3 DEF InSession
  <2> QED BY <2>1, <2>2 DEF RacedInv
<1> QED BY <1>1, <1>3, <1>5, <1>6, <1>7, <1>8 DEF ShellsInv

\* The pool opens: ShellSessionPool.get finds the session, or makes it.
LEMMA CallShells == ASSUME ShellsInv, NEW c \in ShellCalls, Call(c) PROVE ShellsInv'
<1> USE ShellsAssumption DEF ShellsInv
<1> PICK s \in Shells, kind \in {"run", "restart"} : Call(c)!(s, kind)
  BY DEF Call
<1>1. /\ \A d \in ShellCalls \ {c} : bash'[d] = bash[d]
      /\ bash[c].at = "idle" /\ bash'[c].at = "queued" /\ bash'[c].shell = s
  BY DEF ShellsTypes, CallRecords
<1>2. Session(s, shell[s].proc, shell[s].holder) /\ shell'[s].born
  BY DEF Session, GetShell, Unborn, ShellsTypes, Sessions, BornInv
<1>3. (shell'[s].used <=> shell[s].used) /\ shell'[s].cwd = shell[s].cwd
  BY DEF GetShell, ShellsTypes, Sessions
<1>4. pool' = s /\ pool \in {s, Nil} /\ proc' = proc /\ raced' = raced
  BY DEF GetShell
<1>5. ShellsTypes'
  <2>1. bash' \in [ShellCalls -> CallRecords]
    <3>1. bash[c] \in CallRecords
      BY DEF ShellsTypes
    <3>2. [bash[c] EXCEPT !.at = "queued", !.kind = kind, !.shell = s] \in CallRecords
      BY <3>1 DEF CallRecords, CallPlaces
    <3> QED BY <3>2, OneRecord DEF ShellsTypes
  <2>2. shell' \in [Shells -> Sessions]
    <3>1. shell[s] \in Sessions /\ [shell[s] EXCEPT !.born = TRUE] \in Sessions
      BY DEF ShellsTypes, Sessions
    <3> QED BY <3>1 DEF GetShell, ShellsTypes
  <2> QED BY <2>1, <2>2, <1>4 DEF ShellsTypes
<1>6. LockInv'
  BY <1>1, <1>2, <1>3, <1>4, <1>5 DEF Moved, Session, LockInv, BornInv, Inside
<1>7. BornInv'
  BY <1>1, <1>2, <1>3, <1>4, <1>5 DEF Moved, Session, KilledProc, LockInv, BornInv, ProcInv, Inside, Working
<1>8. ProcInv'
  BY <1>1, <1>2, <1>3, <1>4, <1>5 DEF Moved, Session, KilledProc, LockInv, BornInv, ProcInv, Inside, Working
<1>9. FreshInv'
  BY <1>1, <1>2, <1>3, <1>4, <1>5, SMTT(20) DEF Moved, Session, KilledProc, LockInv, BornInv, ProcInv, Inside, Working, FreshInv
<1>10. CwdInv'
  BY <1>1, <1>2, <1>3, <1>4, <1>5 DEF Moved, Session, KilledProc, LockInv, BornInv, ProcInv, Inside, Working, CwdInv
<1>11. RacedInv'
  BY <1>1, <1>2, <1>3, <1>4, <1>5 DEF Moved, Session, KilledProc, LockInv, BornInv, ProcInv, Inside, Working, RacedInv
<1> QED BY <1>5, <1>6, <1>7, <1>8, <1>9, <1>10, <1>11

\* A call enters the session whose lock it found free: its live shell, or, when what
\* is left of it was thrown away, nothing yet.
LEMMA EnterShells == ASSUME ShellsInv, NEW c \in ShellCalls, Enter(c) PROVE ShellsInv'
<1> DEFINE s == bash[c].shell
<1>0. /\ bash[c].at = "queued" /\ s \in Shells /\ shell[s] \in Sessions /\ shell[s].holder = Nil
      /\ shell[s].proc \in Procs \cup {Nil} /\ bash[c].proc = Nil /\ ShellsTypes
  BY CallOfSession DEF Enter, MayEnter, ShellsInv, BornInv
<1>1. pool' = pool /\ raced' = raced
  BY DEF Enter
<1>2. CASE Alive(shell[s].proc)
  <2>1. shell[s].proc \in Procs /\ proc[shell[s].proc].alive
    BY <1>0, <1>2 DEF Alive
  <2>2. proc' = proc /\ shell' = [shell EXCEPT ![s].holder = c]
        /\ bash' = [bash EXCEPT ![c] = [@ EXCEPT !.at = "driving", !.proc = shell[s].proc]]
    BY <1>2 DEF Enter
  <2>3. bash' \in [ShellCalls -> CallRecords] /\ Moved(c, "driving", shell[s].proc)
    BY <1>0, <2>1, <2>2, CallEnters
  <2>4. [shell[s] EXCEPT !.holder = c] \in Sessions
    BY <1>0 DEF Sessions
  <2>5. /\ shell' \in [Shells -> Sessions] /\ Session(s, shell[s].proc, c)
        /\ (shell'[s].used <=> shell[s].used) /\ shell'[s].cwd = shell[s].cwd
    BY <1>0, <2>2, <2>4 DEF ShellsTypes, Session, Sessions
  <2>6. ShellsTypes'
    BY <1>0, <1>1, <2>2, <2>3, <2>5 DEF ShellsTypes
  <2>7. shell[s].used <=> proc[shell[s].proc].ran # {}
    BY <1>0, <2>1, ShellsAssumption DEF ShellsInv, FreshInv
  <2>8. shell[s].cwd = proc[shell[s].proc].cwd
    <3>1. \A d \in ShellCalls : bash[d].at = "answered" => bash[d].proc # shell[s].proc
      BY <1>0, <2>1, ShellsAssumption DEF ShellsInv, LockInv, BornInv, ProcInv, Inside, Working
    <3> QED BY <1>0, <2>1, <3>1, ShellsAssumption DEF ShellsInv, CwdInv
  <2>9. InSession(c, s, "driving", shell[s].proc, shell[s].proc)
    BY <1>0, <1>1, <2>1, <2>2, <2>3, <2>5, <2>7, <2>8, ShellsAssumption
       DEF InSession, Kept, Inside, Working, ShellsInv, BornInv
  <2> QED BY <1>0, <2>6, <2>9, InSessionInv
<1>3. CASE ~Alive(shell[s].proc)
  <2>1. /\ shell' = [Kill(s) EXCEPT ![s].holder = c] /\ proc' = KillProc(s)
        /\ bash' = [bash EXCEPT ![c].at = "spawning"]
    BY <1>3 DEF Enter
  <2>2. bash' \in [ShellCalls -> CallRecords] /\ Moved(c, "spawning", Nil)
    BY <1>0, <2>1, CallMoves, CallWords
  <2>3. KilledProc(s) /\ proc' \in [Procs -> ProcRecords]
    BY <1>0, <2>1, KillProcKills
  <2>4. Kill(s)[s] \in Sessions /\ [Kill(s)[s] EXCEPT !.holder = c] \in Sessions
    BY <1>0, KillClears, ZenonT(30) DEF Sessions
  <2>5. shell' \in [Shells -> Sessions] /\ Session(s, Nil, c) /\ ~shell'[s].used /\ shell'[s].cwd = Workdir
    BY <1>0, <2>1, <2>4, KillClears DEF Session, Sessions
  <2>6. ShellsTypes'
    BY <1>0, <1>1, <2>2, <2>3, <2>5 DEF ShellsTypes
  <2>7. InSession(c, s, "spawning", Nil, Nil)
    BY <1>0, <1>1, <2>2, <2>3, <2>5 DEF InSession, Kept, KilledProc, Inside, Working
  <2> QED BY <1>0, <2>6, <2>7, InSessionInv
<1> QED BY <1>2, <1>3

\* A restart, and a call that gives up: the session has no process any more.
LEMMA KillingShells ==
  ASSUME ShellsInv, NEW c \in ShellCalls, NEW s, s = bash[c].shell, bash[c].at # "idle",
         shell[s].holder \in {c, Nil}, shell' \in [Shells -> Sessions], Session(s, Nil, Nil),
         proc' = KillProc(s), NEW o \in CallOutcomes, Return(c, o), pool' = pool, raced' = raced
  PROVE  ShellsInv'
<1>0. s \in Shells /\ shell[s].proc \in Procs \cup {Nil} /\ bash[c].proc \in Procs \cup {Nil} /\ ShellsTypes
  BY CallOfSession DEF ShellsInv
<1>1. bash' \in [ShellCalls -> CallRecords] /\ Moved(c, "over", bash[c].proc)
  BY <1>0, CallReturns
<1>2. KilledProc(s) /\ proc' \in [Procs -> ProcRecords]
  BY <1>0, KillProcKills
<1>3. ShellsTypes'
  BY <1>0, <1>1, <1>2 DEF ShellsTypes
<1>4. InSession(c, s, "over", bash[c].proc, Nil)
  BY <1>0, <1>1, <1>2 DEF InSession, Kept, KilledProc, Inside, Working
<1> QED BY <1>0, <1>3, <1>4, InSessionInv

\* A restart kills what the session runs and takes no other shell with it.
LEMMA RestartShells == ASSUME ShellsInv, NEW c \in ShellCalls, Restart(c) PROVE ShellsInv'
<1> DEFINE s == bash[c].shell
<1>0. bash[c].at # "idle" /\ s \in Shells /\ shell[s].holder = Nil /\ ShellsTypes
  BY CallOfSession DEF Restart, MayEnter, ShellsInv
<1>1. shell' = Kill(s) /\ proc' = KillProc(s) /\ Return(c, "restarted") /\ pool' = pool /\ raced' = raced
  BY DEF Restart
<1>2. shell' \in [Shells -> Sessions] /\ Session(s, Nil, Nil)
  BY <1>0, <1>1, KillClears DEF Session
<1> QED BY <1>0, <1>1, <1>2, KillingShells, CallWords

\* A call that gives up kills the shell it is in.
LEMMA GiveUpShells ==
  ASSUME ShellsInv, NEW c \in ShellCalls, NEW o \in ShellOutcomes, GiveUp(c, o) PROVE ShellsInv'
<1> DEFINE s == bash[c].shell
<1>0. bash[c].at # "idle" /\ s \in Shells /\ shell[s].holder = c /\ ShellsTypes
  BY CallOfSession DEF GiveUp, ShellsInv, Inside
<1>1. shell' = Unlocked(Kill(s), c) /\ proc' = KillProc(s) /\ Return(c, o) /\ pool' = pool /\ raced' = raced
  BY DEF GiveUp
<1>2. \A x \in Shells \ {s} : shell[x].holder # c
  BY ShellsAssumption DEF ShellsInv, LockInv
<1>3. shell' \in [Shells -> Sessions] /\ Session(s, Nil, Nil)
  BY <1>0, <1>1, <1>2, KillClears, UnlockFrees DEF Session
<1> QED BY <1>0, <1>1, <1>3, KillingShells, CallWords

\* A call that returns, or cannot start a shell, leaves its session as it is but for
\* the lock, and for the directory it reads from the shell that answered.
LEMMA SpawnFailsShells == ASSUME ShellsInv, NEW c \in ShellCalls, SpawnFails(c) PROVE ShellsInv'
<1> DEFINE s == bash[c].shell
<1>0. /\ bash[c].at = "spawning" /\ s \in Shells /\ shell[s].holder = c /\ ShellsTypes
      /\ shell[s].proc = Nil /\ bash[c].proc = Nil
  BY CallOfSession DEF SpawnFails, ShellsInv, Inside, ProcInv, BornInv
<1>1. shell' = Unlocked(shell, c) /\ proc' = proc /\ Return(c, "error") /\ pool' = pool /\ raced' = raced
  BY DEF SpawnFails
<1>2. \A x \in Shells \ {s} : shell[x].holder # c
  BY ShellsAssumption DEF ShellsInv, LockInv
<1>3. shell' \in [Shells -> Sessions] /\ Session(s, Nil, Nil)
  BY <1>0, <1>1, <1>2, UnlockFrees DEF Session, ShellsTypes
<1>4. bash' \in [ShellCalls -> CallRecords] /\ Moved(c, "over", Nil)
  BY <1>0, <1>1, CallReturns, CallWords
<1>5. ShellsTypes'
  BY <1>0, <1>1, <1>3, <1>4 DEF ShellsTypes
<1>6. InSession(c, s, "over", Nil, Nil)
  BY <1>0, <1>1, <1>3, <1>4 DEF InSession, Kept, Inside, Working
<1> QED BY <1>0, <1>5, <1>6, InSessionInv

\* A call whose answer is in gives the session back where the process left it.
LEMMA CompleteShells == ASSUME ShellsInv, NEW c \in ShellCalls, Complete(c) PROVE ShellsInv'
<1> DEFINE s == bash[c].shell
           p == bash[c].proc
           leaves == [shell EXCEPT ![s].cwd = proc[p].cwd]
<1>0. /\ bash[c].at = "answered" /\ s \in Shells /\ shell[s].holder = c /\ ShellsTypes /\ shell[s] \in Sessions
      /\ p \in Procs /\ shell[s].proc \in {p, Nil} /\ proc[p].of = s /\ proc[p].cwd # Nil
  BY CallOfSession DEF Complete, ShellsInv, Inside, Working, ProcInv
<1>1. shell' = Unlocked(leaves, c) /\ proc' = proc /\ Return(c, "completed") /\ pool' = pool /\ raced' = raced
  BY DEF Complete
<1>2. \A x \in Shells \ {s} : shell[x].holder # c
  BY ShellsAssumption DEF ShellsInv, LockInv
<1>3. [shell[s] EXCEPT !.cwd = proc[p].cwd] \in Sessions
  BY <1>0 DEF ShellsTypes, Sessions, ProcRecords
<1>4. /\ leaves \in [Shells -> Sessions] /\ \A x \in Shells \ {s} : leaves[x] = shell[x]
      /\ leaves[s].proc = shell[s].proc /\ leaves[s].holder = c /\ leaves[s].cwd = proc[p].cwd
      /\ (leaves[s].used <=> shell[s].used) /\ (leaves[s].born <=> shell[s].born)
  BY <1>0, <1>3 DEF ShellsTypes, Sessions
<1>5. /\ shell' \in [Shells -> Sessions] /\ Session(s, shell[s].proc, Nil)
      /\ shell'[s].cwd = proc[p].cwd /\ (shell'[s].used <=> shell[s].used)
  <2> HIDE DEF leaves
  <2> QED BY <1>0, <1>1, <1>2, <1>4, UnlockFrees DEF Session
<1>6. bash' \in [ShellCalls -> CallRecords] /\ Moved(c, "over", p)
  BY <1>0, <1>1, CallReturns, CallWords
<1>7. ShellsTypes'
  BY <1>0, <1>1, <1>5, <1>6 DEF ShellsTypes
<1>8. shell[s].proc # Nil /\ proc[shell[s].proc].alive => (shell[s].used <=> proc[shell[s].proc].ran # {})
  BY <1>0 DEF ShellsInv, FreshInv
<1>9. InSession(c, s, "over", p, shell[s].proc)
  BY <1>0, <1>1, <1>5, <1>6, <1>8 DEF InSession, Kept, Inside, Working
<1> QED BY <1>0, <1>7, <1>9, InSessionInv

\* A command is written, and one is done.
LEMMA DriveShells == ASSUME ShellsInv, NEW c \in ShellCalls, Drive(c) PROVE ShellsInv'
<1> DEFINE s == bash[c].shell
           p == bash[c].proc
<1>0. /\ bash[c].at = "driving" /\ s \in Shells /\ shell[s].holder = c /\ ShellsTypes /\ shell[s] \in Sessions
      /\ p \in Procs /\ shell[s].proc \in {p, Nil} /\ proc[p].of = s /\ proc[p].cwd # Nil
  BY CallOfSession DEF Drive, ShellsInv, Inside, Working, ProcInv
<1>1. /\ shell' = [shell EXCEPT ![s].used = TRUE]
      /\ proc' = [proc EXCEPT ![p].ran = IF Alive(p) THEN @ \cup {c} ELSE @]
      /\ bash' = [bash EXCEPT ![c].at = "reading"] /\ pool' = pool /\ raced' = raced
  BY DEF Drive
<1>2. [shell[s] EXCEPT !.used = TRUE] \in Sessions
  BY <1>0 DEF Sessions
<1>3. shell' \in [Shells -> Sessions] /\ Session(s, shell[s].proc, c) /\ shell'[s].used /\ shell'[s].cwd = shell[s].cwd
  BY <1>0, <1>1, <1>2 DEF ShellsTypes, Session, Sessions
<1>4. bash' \in [ShellCalls -> CallRecords] /\ Moved(c, "reading", p)
  BY <1>0, <1>1, CallMoves, CallWords
<1>5. proc[p] \in ProcRecords /\ [proc[p] EXCEPT !.ran = IF Alive(p) THEN @ \cup {c} ELSE @] \in ProcRecords
  BY <1>0 DEF ShellsTypes, ProcRecords
<1>6. /\ proc' \in [Procs -> ProcRecords] /\ \A r \in Procs \ {p} : proc'[r] = proc[r]
      /\ proc'[p].of = proc[p].of /\ proc'[p].cwd = proc[p].cwd /\ (proc'[p].alive <=> proc[p].alive)
      /\ (proc[p].alive => c \in proc'[p].ran) /\ (~proc[p].alive => proc'[p].ran = proc[p].ran)
  BY <1>0, <1>1, <1>5, ShellsAssumption DEF ShellsTypes, ProcRecords, Alive
<1>7. proc[p].alive => shell[s].proc = p
  BY <1>0 DEF ShellsInv, ProcInv
<1>8. ShellsTypes'
  BY <1>0, <1>1, <1>3, <1>4, <1>6 DEF ShellsTypes
<1>9. Kept(shell[s].proc)
  BY <1>0, <1>6, <1>7 DEF Kept
<1>10. shell[s].proc # Nil /\ proc[shell[s].proc].alive => shell[s].cwd = proc[shell[s].proc].cwd
  <2>1. \A d \in ShellCalls : bash[d].at = "answered" => bash[d].proc # p
    BY <1>0, ShellsAssumption DEF ShellsInv, LockInv, BornInv, ProcInv, Inside, Working
  <2> QED BY <1>0, <2>1 DEF ShellsInv, CwdInv
<1>11. InSession(c, s, "reading", p, shell[s].proc)
  BY <1>0, <1>1, <1>3, <1>4, <1>6, <1>9, <1>10, ZenonT(30) DEF InSession, Inside, Working
<1> QED BY <1>0, <1>8, <1>11, InSessionInv

\* The sentinel on the output says which directory the process is in.
LEMMA SentinelShells == ASSUME ShellsInv, NEW c \in ShellCalls, Sentinel(c) PROVE ShellsInv'
<1> DEFINE s == bash[c].shell
           p == bash[c].proc
<1>0. /\ bash[c].at = "reading" /\ s \in Shells /\ shell[s].holder = c /\ ShellsTypes /\ shell[s] \in Sessions
      /\ p \in Procs /\ proc[p].of = s /\ proc[p].cwd # Nil /\ proc[p].alive /\ shell[s].proc = p
  BY CallOfSession DEF Sentinel, Alive, ShellsInv, Inside, Working, ProcInv
<1>1. PICK d \in Dirs : proc' = [proc EXCEPT ![p].cwd = d]
  BY DEF Sentinel
<1>2. bash' = [bash EXCEPT ![c].at = "answered"] /\ shell' = shell /\ pool' = pool /\ raced' = raced
  BY DEF Sentinel
<1>3. bash' \in [ShellCalls -> CallRecords] /\ Moved(c, "answered", p)
  BY <1>0, <1>2, CallMoves, CallWords
<1>4. proc[p] \in ProcRecords /\ [proc[p] EXCEPT !.cwd = d] \in ProcRecords
  BY <1>0 DEF ShellsTypes, ProcRecords
<1>5. /\ proc' \in [Procs -> ProcRecords] /\ \A r \in Procs \ {p} : proc'[r] = proc[r]
      /\ proc'[p].of = proc[p].of /\ proc'[p].cwd = d /\ (proc'[p].alive <=> proc[p].alive) /\ proc'[p].ran = proc[p].ran
  BY <1>0, <1>1, <1>4 DEF ShellsTypes, ProcRecords
<1>6. ShellsTypes'
  BY <1>0, <1>2, <1>3, <1>5 DEF ShellsTypes
<1>7. Kept(p)
  BY <1>0, <1>5, ShellsAssumption DEF Kept
<1>8. shell[s].used <=> proc[p].ran # {}
  BY <1>0, ShellsAssumption DEF ShellsInv, FreshInv
<1>9. InSession(c, s, "answered", p, p)
  BY <1>0, <1>2, <1>3, <1>5, <1>7, <1>8 DEF InSession, Session, Inside, Working
<1> QED BY <1>0, <1>6, <1>9, InSessionInv

\* A shell starts, in a process no session had, with nothing run in it: one that was
\* closed meanwhile gets it all the same, from a call the close has on record.
LEMMA SpawnShells == ASSUME ShellsInv, NEW c \in ShellCalls, Spawn(c) PROVE ShellsInv'
<1> DEFINE s == bash[c].shell
<1>0. /\ bash[c].at = "spawning" /\ s \in Shells /\ shell[s].holder = c /\ ShellsTypes /\ shell[s] \in Sessions
      /\ shell[s].proc = Nil /\ ~shell[s].used /\ shell[s].cwd = Workdir /\ bash[c].proc = Nil /\ shell[s].born
  BY CallOfSession DEF Spawn, ShellsInv, Inside, ProcInv, BornInv
<1>1. PICK p \in Procs : Spawn(c)!(p)
  BY DEF Spawn
<1> DEFINE new == [alive |-> TRUE, cwd |-> Workdir, ran |-> {}, of |-> s]
<1>2. /\ proc[p].cwd = Nil /\ proc' = [proc EXCEPT ![p] = new] /\ shell' = [shell EXCEPT ![s] = [@ EXCEPT !.proc = p]]
      /\ bash' = [bash EXCEPT ![c] = [@ EXCEPT !.at = "driving", !.proc = p]] /\ pool' = pool /\ raced' = raced
  BY <1>1
<1>3. bash' \in [ShellCalls -> CallRecords] /\ Moved(c, "driving", p)
  BY <1>0, <1>2, CallEnters
<1>4. [shell[s] EXCEPT !.proc = p] \in Sessions /\ new \in ProcRecords
  BY <1>0, ShellsAssumption DEF Sessions, ProcRecords
<1>5. /\ shell' \in [Shells -> Sessions] /\ Session(s, p, c)
      /\ (shell'[s].used <=> shell[s].used) /\ shell'[s].cwd = Workdir
  BY <1>0, <1>2, <1>4 DEF ShellsTypes, Session, Sessions
<1>6. proc' \in [Procs -> ProcRecords] /\ proc'[p] = new /\ \A r \in Procs \ {p} : proc'[r] = proc[r]
  BY <1>0, <1>2, <1>4 DEF ShellsTypes
<1>7. ShellsTypes'
  BY <1>0, <1>2, <1>3, <1>5, <1>6 DEF ShellsTypes
<1>8. p # Nil /\ Workdir # Nil /\ \A x \in Shells : shell[x].proc # p
  BY <1>2, ShellsAssumption DEF ShellsInv, BornInv
<1>9. \A d \in ShellCalls \ {c} : /\ bash'[d] = bash[d] /\ (bash[d].at \in Inside => bash[d].shell \in Shells \ {s})
                                  /\ (bash[d].at \in Working => bash[d].proc \in Procs \ {p})
  BY <1>0, <1>2, <1>3, ShellsAssumption DEF Moved, ShellsInv, LockInv, BornInv, ProcInv, Inside, Working
<1>10. LockInv'
  BY <1>0, <1>3, <1>5, LockStep DEF Inside
<1>11. BornInv'
  <2>1. ASSUME NEW d \in ShellCalls
        PROVE  /\ bash'[d].at # "idle" => bash'[d].shell \in Shells /\ shell'[bash'[d].shell].born
               /\ bash'[d].at \in {"idle", "queued", "spawning"} => bash'[d].proc = Nil
    BY <1>0, <1>3, <1>5 DEF Moved, Session, ShellsInv, BornInv
  <2>2. pool' # Nil => shell'[pool'].born
    BY <1>0, <1>2, <1>5 DEF Session, ShellsInv, BornInv, ShellsTypes
  <2>3. ASSUME NEW x \in Shells, shell'[x].proc # Nil
        PROVE  proc'[shell'[x].proc].of = x /\ proc'[shell'[x].proc].cwd # Nil
    <3>1. CASE x = s
      BY <1>5, <1>6, <1>8, <3>1 DEF Session
    <3>2. CASE x # s
      <4>1. shell[x].proc \in Procs \ {p} /\ shell'[x] = shell[x]
        BY <1>0, <1>5, <1>8, <2>3, <3>2 DEF Session, ShellsTypes, Sessions
      <4> QED BY <1>6, <2>3, <4>1 DEF ShellsInv, BornInv
    <3> QED BY <3>1, <3>2
  <2> QED BY <2>1, <2>2, <2>3 DEF BornInv
<1>12. ProcInv'
  <2>1. ASSUME NEW r \in Procs, proc'[r].alive
        PROVE  proc'[r].of \in Shells /\ shell'[proc'[r].of].proc = r
    <3>1. CASE r = p
      BY <1>0, <1>5, <1>6, <3>1 DEF Session
    <3>2. CASE r # p
      BY <1>0, <1>5, <1>6, <2>1, <3>2, ShellsAssumption DEF Session, ShellsInv, ProcInv
    <3> QED BY <3>1, <3>2
  <2>2. ASSUME NEW d \in ShellCalls, bash'[d].at \in Working
        PROVE  /\ bash'[d].proc \in Procs /\ shell'[bash'[d].shell].proc \in {bash'[d].proc, Nil}
               /\ proc'[bash'[d].proc].of = bash'[d].shell /\ proc'[bash'[d].proc].cwd # Nil
    <3>1. CASE d = c
      BY <1>3, <1>5, <1>6, <1>8, <3>1 DEF Moved, Session
    <3>2. CASE d # c
      BY <1>5, <1>6, <1>9, <2>2, <3>2 DEF Session, ShellsInv, ProcInv, Inside, Working
    <3> QED BY <3>1, <3>2
  <2>3. ASSUME NEW d \in ShellCalls, bash'[d].at = "spawning"
        PROVE  LET x == shell'[bash'[d].shell] IN x.proc = Nil /\ ~x.used /\ x.cwd = Workdir
    <3>1. d # c
      BY <1>3, <2>3 DEF Moved
    <3> QED BY <1>5, <1>9, <2>3, <3>1 DEF Session, ShellsInv, ProcInv, Inside
  <2> QED BY <2>1, <2>2, <2>3 DEF ProcInv
<1>13. FreshInv' /\ CwdInv'
  <2> SUFFICES ASSUME NEW x \in Shells, shell'[x].proc # Nil, proc'[shell'[x].proc].alive
               PROVE  /\ shell'[x].used <=> proc'[shell'[x].proc].ran # {}
                      /\ \/ shell'[x].cwd = proc'[shell'[x].proc].cwd
                         \/ \E d \in ShellCalls : bash'[d].proc = shell'[x].proc /\ bash'[d].at = "answered"
    BY DEF FreshInv, CwdInv
  <2>1. CASE x = s
    BY <1>0, <1>5, <1>6, <2>1 DEF Session
  <2>2. CASE x # s
    <3>1. shell[x].proc \in Procs \ {p} /\ shell'[x] = shell[x]
      BY <1>0, <1>5, <1>8, <2>2 DEF Session, ShellsTypes, Sessions
    <3>2. shell[x].used <=> proc[shell[x].proc].ran # {}
      BY <1>6, <3>1 DEF ShellsInv, FreshInv
    <3>3. \/ shell[x].cwd = proc[shell[x].proc].cwd
          \/ \E d \in ShellCalls \ {c} : bash[d].proc = shell[x].proc /\ bash[d].at = "answered"
      BY <1>0, <1>6, <3>1 DEF ShellsInv, CwdInv
    <3> QED BY <1>6, <1>9, <3>1, <3>2, <3>3
  <2> QED BY <2>1, <2>2
<1>14. RacedInv'
  <2>1. ASSUME NEW d \in ShellCalls, bash'[d].at \in {"queued", "spawning"}, bash'[d].shell # pool'
        PROVE  d \in raced'
    BY <1>2, <1>3, <2>1 DEF Moved, ShellsInv, RacedInv
  <2>2. ASSUME NEW r \in Procs, proc'[r].alive, proc'[r].of # pool'
        PROVE  \E d \in raced' : bash'[d].proc = r
    <3>1. CASE r = p
      BY <1>0, <1>2, <1>3, <1>6, <2>2, <3>1 DEF Moved, ShellsInv, RacedInv
    <3>2. CASE r # p
      <4>1. PICK d \in raced : bash[d].proc = r
        BY <1>2, <1>6, <2>2, <3>2 DEF ShellsInv, RacedInv
      <4>2. d \in ShellCalls \ {c}
        BY <1>0, <4>1, ShellsAssumption DEF ShellsTypes
      <4> QED BY <1>2, <1>3, <4>1, <4>2 DEF Moved
    <3> QED BY <3>1, <3>2
  <2> QED BY <2>1, <2>2 DEF RacedInv
<1> QED BY <1>7, <1>10, <1>11, <1>12, <1>13, <1>14 DEF ShellsInv

\* A shell dies on its own, under whatever call is in it.
LEMMA DiesShells == ASSUME ShellsInv, NEW p \in Procs, Dies(p) PROVE ShellsInv'
<1> USE DEF ShellsInv
<1>0. proc[p] \in ProcRecords /\ [proc[p] EXCEPT !.alive = FALSE] \in ProcRecords
  BY DEF ShellsTypes, ProcRecords
<1>1. /\ proc' \in [Procs -> ProcRecords] /\ \A r \in Procs \ {p} : proc'[r] = proc[r]
      /\ proc'[p].of = proc[p].of /\ proc'[p].cwd = proc[p].cwd /\ ~proc'[p].alive /\ proc'[p].ran = proc[p].ran
  BY <1>0 DEF Dies, ShellsTypes, ProcRecords
<1>2. pool' = pool /\ shell' = shell /\ bash' = bash /\ raced' = raced
  BY DEF Dies
<1>3. \A s \in Shells : shell[s].proc \in Procs \cup {Nil}
  BY DEF ShellsTypes, Sessions
<1>4. ShellsTypes' /\ LockInv'
  BY <1>1, <1>2 DEF ShellsTypes, LockInv
<1>5. BornInv'
  BY <1>1, <1>2, <1>3 DEF BornInv
<1>6. ProcInv'
  BY <1>1, <1>2 DEF ProcInv
<1>7. FreshInv'
  BY <1>1, <1>2, <1>3 DEF FreshInv
<1>8. CwdInv'
  BY <1>1, <1>2, <1>3 DEF CwdInv
<1>9. RacedInv'
  BY <1>1, <1>2 DEF RacedInv
<1> QED BY <1>4, <1>5, <1>6, <1>7, <1>8, <1>9

\* aclose kills the process of the session and remembers who was waiting for it: a
\* live process is its session's, so none is left but theirs.
LEMMA CloseShells == ASSUME ShellsInv, Close PROVE ShellsInv'
<1> USE DEF ShellsInv
<1> DEFINE s == pool
<1>0. s \in Shells /\ pool' = Nil /\ bash' = bash
  BY DEF Close, ShellsTypes
<1>1. KilledProc(s) /\ proc' \in [Procs -> ProcRecords]
  BY <1>0, KillProcKills DEF Close
<1>2. /\ shell' \in [Shells -> Sessions] /\ (\A x \in Shells \ {s} : shell'[x] = shell[x])
      /\ shell'[s].proc = Nil /\ ~shell'[s].used /\ shell'[s].cwd = Workdir
      /\ shell'[s].holder = shell[s].holder /\ (shell'[s].born <=> shell[s].born)
  BY <1>0, KillClears DEF Close
<1>3. raced' = raced \cup {c \in ShellCalls : bash[c].shell = s /\ bash[c].at \in {"queued", "spawning"}}
  BY DEF Close
<1>4. \A x \in Shells : shell[x].proc \in Procs \cup {Nil}
  BY DEF ShellsTypes, Sessions
<1>5. \A x \in Shells \ {s} : shell[x].proc # Nil => shell[x].proc # shell[s].proc
  BY <1>0 DEF BornInv
<1>6. ShellsTypes'
  BY <1>0, <1>1, <1>2, <1>3 DEF ShellsTypes
<1>7. LockInv'
  <2>1. \A x \in Shells : shell'[x].holder = shell[x].holder
    BY <1>0, <1>2
  <2>2. \A c \in ShellCalls : bash[c].at \in Inside => bash[c].shell \in Shells
    BY DEF BornInv, Inside
  <2> QED BY <1>0, <2>1, <2>2 DEF LockInv
<1>8. BornInv'
  <2>1. \A x \in Shells : shell'[x].born <=> shell[x].born
    BY <1>0, <1>2
  <2> QED BY <1>0, <1>1, <1>2, <1>4, <1>5, <2>1 DEF BornInv, KilledProc
<1>9. ProcInv'
  <2>1. ASSUME NEW r \in Procs, proc'[r].alive
        PROVE  proc'[r].of \in Shells /\ shell'[proc'[r].of].proc = r
    BY <1>0, <1>1, <1>2, <2>1 DEF KilledProc, ProcInv
  <2>2. ASSUME NEW d \in ShellCalls, bash'[d].at \in Working
        PROVE  /\ bash'[d].proc \in Procs /\ shell'[bash'[d].shell].proc \in {bash'[d].proc, Nil}
               /\ proc'[bash'[d].proc].of = bash'[d].shell /\ proc'[bash'[d].proc].cwd # Nil
    BY <1>0, <1>1, <1>2, <2>2 DEF KilledProc, ProcInv, BornInv, Working
  <2>3. ASSUME NEW d \in ShellCalls, bash'[d].at = "spawning"
        PROVE  LET x == shell'[bash'[d].shell] IN x.proc = Nil /\ ~x.used /\ x.cwd = Workdir
    BY <1>0, <1>2, <2>3 DEF ProcInv, BornInv
  <2> QED BY <2>1, <2>2, <2>3 DEF ProcInv
<1>10. FreshInv'
  BY <1>0, <1>1, <1>2, <1>4, <1>5 DEF FreshInv, KilledProc
<1>11. CwdInv'
  BY <1>0, <1>1, <1>2, <1>4, <1>5 DEF CwdInv, KilledProc
<1>12. RacedInv'
  <2>1. ASSUME NEW r \in Procs, proc'[r].alive PROVE proc[r].of # s /\ proc'[r].of = proc[r].of /\ proc[r].alive
    BY <1>0, <1>1, <2>1 DEF KilledProc, ProcInv
  <2> QED BY <1>0, <1>3, <2>1 DEF RacedInv
<1> QED BY <1>6, <1>7, <1>8, <1>9, <1>10, <1>11, <1>12

\* The invariant of the shells holds, and says what the tools are told is so.
LEMMA ShellsStep == ShellsInv /\ [ShellsNext]_shellVars => ShellsInv'
<1> SUFFICES ASSUME ShellsInv, [ShellsNext]_shellVars PROVE ShellsInv'
  OBVIOUS
<1>1. ASSUME NEW c \in ShellCalls, Call(c) \/ Runs(c) PROVE ShellsInv'
  BY <1>1, CallShells, EnterShells, RestartShells, SpawnShells, SpawnFailsShells, DriveShells, SentinelShells,
     CompleteShells, GiveUpShells DEF Runs
<1>2. ASSUME NEW p \in Procs, Dies(p) PROVE ShellsInv'
  BY <1>2, DiesShells
<1>3. CASE Close
  BY <1>3, CloseShells
<1>4. CASE UNCHANGED shellVars
  BY <1>4 DEF shellVars, ShellsInv, ShellsTypes, LockInv, BornInv, ProcInv, FreshInv, CwdInv, RacedInv
<1> QED BY <1>1, <1>2, <1>3, <1>4 DEF ShellsNext

\* What the invariant says of the shells.
LEMMA ShellsInvSound == ShellsInv => ShellsSound
<1> SUFFICES ASSUME ShellsInv PROVE ShellsSound
  OBVIOUS
<1> USE ShellsAssumption DEF ShellsInv
<1>1. ShellsTypeOK
  BY DEF ShellsTypeOK, ShellsTypes, Sessions, ProcRecords, LockInv, Inside
<1>2. OneCommandPerShell
  BY DEF OneCommandPerShell, LockInv, BornInv, ProcInv, Inside, Working
<1>3. NoticeIsTrue
  BY DEF NoticeIsTrue, Alive, FreshInv, ShellsTypes
<1>4. CwdIsReal
  BY DEF CwdIsReal, Alive, CwdInv, ShellsTypes
<1>5. NoShellOutlivesClose
  BY DEF NoShellOutlivesClose, Alive, RacedInv
<1> QED BY <1>1, <1>2, <1>3, <1>4, <1>5 DEF ShellsSound

\* contrib/shell/session.py and native/anthropic.py, for any number of sessions,
\* processes and calls: two calls never have a command in one shell, the restart
\* notice and the directory a prompt names are those of the live shell, and a shell
\* outlives the close of its session only through a call the close did not wait for.
THEOREM ShellsAreSound == ShellsSpec => []ShellsSound
<1>1. ShellsSpec => []ShellsInv
  BY ShellsInitInv, ShellsStep, PTL DEF ShellsSpec
<1> QED BY <1>1, ShellsInvSound, PTL
-----------------------------------------------------------------------------
(* The one-shot commands: no shell outlives its call, for any number of        *)
(* commands.                                                                   *)

Groups == [leader : {"none", "running", "quiet", "exited", "reaped"}, code : Int,
           child : {"none", "redirected", "holding"}, escaped : BOOLEAN, shot : BOOLEAN]
CommandResults == [how : {"completed", "error", "cancelled", "timed_out", "killed"}, code : Int, shot : BOOLEAN]

\* Types, in full.
CommandsTypes ==
  /\ tool \in {"bash", "openai_shell"} /\ left \in Int /\ token \in BOOLEAN
  /\ cmd \in {"spawning", "running", "waiting", "cancelled", "timed_out", "unwinding", "over"}
  /\ group \in Groups /\ results \in Seq(CommandResults)

\* A group that was shot is gone and its code says so; the shell is reaped between
\* two commands and at the end.
GroupInv ==
  /\ group.shot => ~Lives /\ group.child = "none" /\ group.code # 0
  /\ cmd \in {"spawning", "over"} => group.leader \in {"none", "reaped"}

\* A command that was shot is recorded as one that failed, and a call is over when
\* nothing is left, or cancelled; only a cancelled call's task is killed.
ResultInv ==
  /\ \A j \in DOMAIN results : results[j].shot => results[j].how # "completed" \/ results[j].code # 0
  /\ cmd = "over" => left = 0 \/ token
  /\ cmd = "unwinding" => token

CommandsInv == CommandsTypes /\ GroupInv /\ ResultInv

\* The first state.
LEMMA CommandsInitInv == CommandsInit => CommandsInv
<1> SUFFICES ASSUME CommandsInit PROVE CommandsInv
  OBVIOUS
<1>1. left \in Int /\ results = <<>> /\ cmd = "spawning"
  BY CommandsAssumption DEF CommandsInit
<1>2. group \in Groups /\ group.leader = "none" /\ ~group.shot
  BY DEF CommandsInit, NoGroup, Groups
<1>3. tool \in {"bash", "openai_shell"} /\ token \in BOOLEAN
  BY DEF CommandsInit
<1> QED BY <1>1, <1>2, <1>3 DEF CommandsInv, CommandsTypes, GroupInv, ResultInv

\* What one more result makes of the results.
LEMMA ResultsGrow ==
  ASSUME CommandsInv, NEW r \in CommandResults, r.shot => r.how # "completed" \/ r.code # 0,
         results' = Append(results, r)
  PROVE  /\ results' \in Seq(CommandResults)
         /\ \A j \in DOMAIN results' : results'[j].shot => results'[j].how # "completed" \/ results'[j].code # 0
<1>1. results \in Seq(CommandResults)
  BY DEF CommandsInv, CommandsTypes
<1>2. results' \in Seq(CommandResults) /\ DOMAIN results' = 1..(Len(results) + 1) /\ DOMAIN results = 1..Len(results)
  BY <1>1
<1>3. \A j \in 1..Len(results) : results'[j] = results[j]
  BY <1>1
<1>4. results'[Len(results) + 1] = r
  BY <1>1
<1> QED BY <1>1, <1>2, <1>3, <1>4 DEF CommandsInv, ResultInv

\* A group whose leader, child, exit code and end are written.
LEMMA GroupTyped ==
  ASSUME NEW g \in Groups, NEW leader \in {"none", "running", "quiet", "exited", "reaped"}, NEW code \in Int,
         NEW child \in {"none", "redirected", "holding"}, NEW shot \in BOOLEAN
  PROVE  /\ [g EXCEPT !.leader = leader, !.child = child, !.shot = shot, !.code = code] \in Groups
         /\ [g EXCEPT !.leader = leader, !.code = code] \in Groups
<1>1. [g EXCEPT !.leader = leader, !.child = child, !.shot = shot, !.code = code] \in Groups
  BY Zenon DEF Groups
<1>2. [g EXCEPT !.leader = leader, !.code = code] \in Groups
  BY Zenon DEF Groups
<1> QED BY <1>1, <1>2

\* Killing the group leaves no live shell behind it, unless its leader was reaped.
LEMMA GroupKilled ==
  ASSUME CommandsInv
  PROVE  /\ KillGroup \in Groups
         /\ KillGroup.leader \notin {"running", "quiet"}
         /\ KillGroup.shot => KillGroup.child = "none" /\ KillGroup.code # 0
         /\ KillGroup.leader = "exited" \/ KillGroup = group
<1>1. group \in Groups /\ (group.shot => ~Lives /\ group.child = "none" /\ group.code # 0)
  BY DEF CommandsInv, CommandsTypes, GroupInv
<1>2. CASE group.leader \in {"none", "reaped"}
  BY <1>1, <1>2 DEF KillGroup
<1>3. CASE Lives
  <2>1. KillGroup = [group EXCEPT !.leader = "exited", !.child = "none", !.shot = TRUE, !.code = Killed]
    BY <1>1, <1>3 DEF KillGroup, Lives, Groups
  <2>2. Killed \in Int /\ Killed # 0
    BY DEF Killed
  <2>3. KillGroup \in Groups
    BY <1>1, <2>1, <2>2, GroupTyped
  <2>4. KillGroup.leader = "exited" /\ KillGroup.child = "none" /\ KillGroup.code = Killed
    BY <1>1, <2>1, Zenon DEF Groups
  <2> QED BY <2>2, <2>3, <2>4
<1>4. CASE group.leader = "exited"
  <2>1. KillGroup = [group EXCEPT !.child = "none", !.shot = group.shot]
    BY <1>1, <1>4 DEF KillGroup, Lives, Groups
  <2> QED BY <1>1, <1>4, <2>1 DEF Groups
<1> QED BY <1>1, <1>2, <1>3, <1>4 DEF Groups, Lives

\* A command that is over is recorded with what its group came to.
LEMMA RecordInv ==
  ASSUME CommandsInv, NEW o, o.how \in {"completed", "error", "cancelled", "timed_out", "killed"}, o.code \in Int,
         o.how = "completed" => o.code = group.code, group.leader \in {"none", "reaped"},
         RecordOutcome(o), UNCHANGED <<tool, group, token>>
  PROVE  CommandsInv'
<1> DEFINE r == [how |-> o.how, code |-> o.code, shot |-> group.shot]
<1>1. r \in CommandResults /\ (r.shot => r.how # "completed" \/ r.code # 0)
  BY DEF CommandsInv, CommandsTypes, GroupInv, Groups, CommandResults
<1>2. results' = Append(results, r) /\ left' = left - 1 /\ cmd' = IF left = 1 \/ token THEN "over" ELSE "spawning"
  BY DEF RecordOutcome
<1> HIDE DEF r
<1>3. /\ results' \in Seq(CommandResults)
      /\ \A j \in DOMAIN results' : results'[j].shot => results'[j].how # "completed" \/ results'[j].code # 0
  BY <1>1, <1>2, ResultsGrow
<1>4. CommandsTypes'
  BY <1>2, <1>3 DEF CommandsInv, CommandsTypes
<1>5. GroupInv'
  BY <1>2 DEF CommandsInv, CommandsTypes, GroupInv, Lives
<1>6. ResultInv'
  BY <1>2, <1>3 DEF CommandsInv, CommandsTypes, ResultInv
<1> QED BY <1>4, <1>5, <1>6 DEF CommandsInv

\* Every step of the call keeps the invariant.
LEMMA CallInv == ASSUME CommandsInv, CallSteps PROVE CommandsInv'
<1>1. CASE SpawnGroup
  <2>1. PICK child \in {"none", "redirected", "holding"}, escapes \in BOOLEAN :
          group' = [NoGroup EXCEPT !.leader = "running", !.child = child, !.escaped = escapes]
    BY <1>1 DEF SpawnGroup
  <2>2. group' = [leader |-> "running", code |-> 0, child |-> child, escaped |-> escapes, shot |-> FALSE]
    BY <2>1, Zenon DEF NoGroup
  <2>3. group' \in Groups /\ ~group'.shot
    BY <2>2 DEF Groups
  <2> QED BY <1>1, <2>3 DEF SpawnGroup, CommandsInv, CommandsTypes, GroupInv, ResultInv
<1>2. CASE SpawnGroupFails
  BY <1>2, RecordInv DEF SpawnGroupFails, CommandsInv, GroupInv
<1>3. CASE OutputEnds
  BY <1>3 DEF OutputEnds, CommandsInv, CommandsTypes, GroupInv, ResultInv, Lives
<1>4. CASE Reaped
  BY <1>4, RecordInv DEF Reaped, CommandsInv, CommandsTypes, Groups
<1>5. ASSUME NEW why \in {"cancelled", "timed_out"}, CutShort(why) PROVE CommandsInv'
  BY <1>5, GroupKilled DEF CutShort, CommandsInv, CommandsTypes, GroupInv, ResultInv, Lives
<1>6. CASE Drained
  <2>1. CASE tool = "openai_shell" /\ cmd = "cancelled"
    BY <1>6, <2>1, RecordInv DEF Drained, CommandsInv, CommandsTypes, Groups
  <2>2. CASE ~(tool = "openai_shell" /\ cmd = "cancelled")
    BY <1>6, <2>2, RecordInv DEF Drained
  <2> QED BY <2>1, <2>2
<1> QED BY <1>1, <1>2, <1>3, <1>4, <1>5, <1>6 DEF CallSteps

\* What the processes do by themselves changes the group alone.
LEMMA ProcessInv == ASSUME CommandsInv, ProcessSteps PROVE CommandsInv'
<1>1. group \in Groups
  BY DEF CommandsInv, CommandsTypes
<1>2. UNCHANGED <<tool, left, cmd, token, results>>
  BY DEF ProcessSteps, Exits, ExitNoticed, ClosesOutput, ChildEnds, EscapedChildEnds
<1>3. group' \in Groups /\ GroupInv'
  <2>1. CASE Exits
    <3>1. PICK code \in {0, 1} : group' = [group EXCEPT !.leader = "exited", !.code = code]
      BY <2>1 DEF Exits
    <3>2. code \in Int
      OBVIOUS
    <3>3. group' \in Groups
      BY <1>1, <3>1, <3>2, GroupTyped
    <3>4. group'.shot = group.shot /\ ~group.shot
      BY <1>1, <2>1, <3>1 DEF Exits, Groups, CommandsInv, GroupInv
    <3> QED BY <1>2, <2>1, <3>3, <3>4 DEF Exits, CommandsInv, GroupInv, Lives
  <2>2. CASE ExitNoticed
    BY <1>1, <1>2, <2>2 DEF ExitNoticed, Groups, CommandsInv, GroupInv, Lives
  <2>3. CASE ClosesOutput
    BY <1>1, <1>2, <2>3 DEF ClosesOutput, Groups, CommandsInv, GroupInv, Lives
  <2>4. CASE ChildEnds
    BY <1>1, <1>2, <2>4 DEF ChildEnds, Groups, CommandsInv, GroupInv, Lives
  <2>5. CASE EscapedChildEnds
    BY <1>1, <1>2, <2>5 DEF EscapedChildEnds, Groups, CommandsInv, GroupInv, Lives
  <2> QED BY <2>1, <2>2, <2>3, <2>4, <2>5 DEF ProcessSteps
<1> QED BY <1>2, <1>3 DEF CommandsInv, CommandsTypes, ResultInv

\* Every step keeps it.
LEMMA CommandsStep == CommandsInv /\ [CommandsNext]_commandVars => CommandsInv'
<1> SUFFICES ASSUME CommandsInv, [CommandsNext]_commandVars PROVE CommandsInv'
  OBVIOUS
<1>1. CASE CallSteps
  BY <1>1, CallInv
<1>2. CASE ProcessSteps
  BY <1>2, ProcessInv
<1>3. CASE TokenFires
  BY <1>3 DEF TokenFires, CommandsInv, CommandsTypes, GroupInv, ResultInv, Lives
<1>4. CASE TaskCancelled
  BY <1>4, GroupKilled DEF TaskCancelled, CommandsInv, CommandsTypes, GroupInv, ResultInv, Lives
<1>5. CASE TaskUnwinds
  <2> DEFINE r == [how |-> "killed", code |-> 0, shot |-> group.shot]
  <2>1. r \in CommandResults /\ (r.shot => r.how # "completed" \/ r.code # 0)
    BY DEF CommandResults, CommandsInv, CommandsTypes, Groups
  <2>2. results' = Append(results, r)
    BY <1>5 DEF TaskUnwinds
  <2> HIDE DEF r
  <2>3. /\ results' \in Seq(CommandResults)
        /\ \A j \in DOMAIN results' : results'[j].shot => results'[j].how # "completed" \/ results'[j].code # 0
    BY <2>1, <2>2, ResultsGrow
  <2> QED BY <1>5, <2>3 DEF TaskUnwinds, CommandsInv, CommandsTypes, GroupInv, ResultInv, Lives
<1>6. CASE UNCHANGED commandVars
  BY <1>6 DEF commandVars, CommandsInv, CommandsTypes, GroupInv, ResultInv, Lives
<1> QED BY <1>1, <1>2, <1>3, <1>4, <1>5, <1>6 DEF CommandsNext

\* contrib/shell/tools.py and native/openai.py, for any number of commands: a call
\* that reports success shot none of its commands and left none out unless it was
\* cancelled; its last shell is dead and reaped when it is over, and nothing is left
\* of a group that was killed under a live shell.
THEOREM CommandsAreSound == CommandsSpec => []CommandsSound
<1>1. CommandsSpec => []CommandsInv
  BY CommandsInitInv, CommandsStep, PTL DEF CommandsSpec
<1>2. CommandsInv => CommandsSound
  BY DEF CommandsInv, GroupInv, ResultInv, CommandsSound, SuccessIsReal, NoShellLeft, Failed, Lives
<1> QED BY <1>1, <1>2, PTL

-----------------------------------------------------------------------------
(* Both kinds of process.                                                      *)

\* ShellSession, ShellSessionPool and the command tools: whatever is killed, dies,
\* times out or is restarted, no two calls are in one shell, no shell outlives its
\* one-shot call or, but for a call the close did not wait for, its closed session,
\* and a result says how its command ended.
THEOREM ProcessesAreSound == ShellsSpec /\ CommandsSpec => []ProcessesSound
BY ShellsAreSound, CommandsAreSound, PTL DEF ProcessesSound

-----------------------------------------------------------------------------
(* The approvals: what the gate lets through is granted and not refused, for   *)
(* any calls, requests, rules and answers.                                     *)

Decisions == {"ALLOW", "DENY", "PENDING"}

\* The rules are a list without repetition, each with a decision.
RulesInv ==
  /\ rules \in Seq(ToSet(rules))
  /\ \A i, j \in DOMAIN rules : rules[i] = rules[j] => i = j
  /\ \A i \in DOMAIN rules : rules[i].decision \in Decisions

ApprovalInv == ApprovalTypeOK /\ RulesInv

\* A nonempty set of positions has a greatest one.
LEMMA GreatestPosition ==
    ASSUME NEW n \in Nat, NEW S \in SUBSET (1..n), S # {}
    PROVE  Max(S) \in S
<1> DEFINE R == OpToRel(<, Nat)
           T == {n - i : i \in S}
<1>1. PICK t \in T : \A u \in T : ~(<<u, t>> \in R)
  <2>1. IsWellFoundedOn(R, Nat)
    BY NatLessThanWellFounded
  <2>2. \A i \in S : i \in 1..n /\ n - i \in Nat
    OBVIOUS
  <2>3. T \subseteq Nat
    BY <2>2
  <2>4. T # {}
    OBVIOUS
  <2> QED
    BY <2>1, <2>3, <2>4, WFMin
<1>2. \A u \in T : ~(u < t)
  <2>1. T \subseteq Nat
    OBVIOUS
  <2> QED
    BY <1>1, <2>1, Zenon DEF OpToRel
<1>3. PICK i \in S : t = n - i
  OBVIOUS
<1>4. \A j \in S : i >= j
  <2> SUFFICES ASSUME NEW j \in S PROVE i >= j
    OBVIOUS
  <2>1. ~(n - j < t)
    BY <1>2
  <2> QED
    BY <2>1, <1>3
<1> QED
  BY <1>3, <1>4 DEF Max

\* A nonempty set of positions has a least one.
LEMMA LeastPosition ==
    ASSUME NEW S \in SUBSET Nat, S # {}
    PROVE  Min(S) \in S
<1> DEFINE R == OpToRel(<, Nat)
<1>1. PICK i \in S : \A j \in S : ~(<<j, i>> \in R)
  <2>1. IsWellFoundedOn(R, Nat)
    BY NatLessThanWellFounded
  <2> QED
    BY <2>1, WFMin
<1>2. \A j \in S : ~(j < i)
  BY <1>1, Zenon DEF OpToRel
<1>3. \A j \in S : i =< j
  BY <1>2
<1> QED
  BY <1>3 DEF Min

\* A finite set is listed without repetition.
LEMMA Listed ==
    ASSUME NEW S, IsFiniteSet(S)
    PROVE  /\ Cardinality(S) \in Nat
           /\ SetToSeq(S) \in [1..Cardinality(S) -> S]
           /\ \A i, j \in 1..Cardinality(S) : SetToSeq(S)[i] = SetToSeq(S)[j] => i = j
<1>1. Cardinality(S) \in Nat /\ ExistsBijection(1..Cardinality(S), S)
  BY FS_CardinalityType
<1>2. \E f \in [1..Cardinality(S) -> S] : IsInjective(f)
  BY <1>1 DEF ExistsBijection, Bijection, Injection
<1>3. SetToSeq(S) \in [1..Cardinality(S) -> S] /\ IsInjective(SetToSeq(S))
  BY <1>2 DEF SetToSeq
<1> QED
  BY <1>1, <1>3 DEF IsInjective

\* The decision of a rule that matches is the decision of one of the rules.
LEMMA MatchedRule ==
    ASSUME RulesInv, NEW k, NEW p
    PROVE  \/ MatchRules(k, p) = "PENDING"
           \/ \E r \in ToSet(rules) : r.decision = MatchRules(k, p) /\ RuleMatches(r, k, p)
                                      /\ MatchRules(k, p) \in Decisions
<1> DEFINE hits == {i \in DOMAIN rules : RuleMatches(rules[i], k, p)}
<1>1. CASE hits = {}
  BY <1>1 DEF MatchRules
<1>2. CASE hits # {}
  <2>1. hits \in SUBSET (1..Len(rules)) /\ Len(rules) \in Nat
    BY DEF RulesInv
  <2>2. Max(hits) \in hits
    BY <1>2, <2>1, GreatestPosition
  <2>3. MatchRules(k, p) = rules[Max(hits)].decision
    BY <1>2 DEF MatchRules
  <2> HIDE DEF hits
  <2>4. Max(hits) \in DOMAIN rules /\ RuleMatches(rules[Max(hits)], k, p)
    BY <2>2 DEF hits
  <2> QED
    BY <2>3, <2>4 DEF RulesInv, ToSet
<1> QED
  BY <1>1, <1>2

\* A pair is allowed, denied or open.
LEMMA PairDecided ==
    ASSUME RulesInv, NEW k, NEW p
    PROVE  ResolvePair(k, p) \in Decisions
BY MatchedRule DEF ResolvePair, MatchVerdicts, ApplyMode, Decisions

\* Where the user is asked, a pair that is allowed is granted by an answer or a rule.
LEMMA AllowedPair ==
    ASSUME RulesInv, mode = "ASK", NEW k, NEW p, ResolvePair(k, p) = "ALLOW"
    PROVE  Granted(k, p)
<1>1. CASE MatchVerdicts(k, p) # "none"
  BY <1>1 DEF ResolvePair, MatchVerdicts, Granted
<1>2. CASE MatchVerdicts(k, p) = "none"
  <2>1. MatchRules(k, p) = "ALLOW"
    BY <1>2 DEF ResolvePair, ApplyMode
  <2> QED
    BY <2>1, MatchedRule DEF Granted
<1> QED
  BY <1>1, <1>2

\* One pair refused by an answer refuses the call, whatever the rules and the mode say.
LEMMA RefusedPair ==
    ASSUME NEW k, NEW p \in RequiredPairs(k), IsRefused(k, p)
    PROVE  Decision(k) = "DENY"
<1>1. MatchVerdicts(k, p) = "DENY"
  BY DEF IsRefused, MatchVerdicts
<1>2. ResolvePair(k, p) = "DENY"
  BY <1>1 DEF ResolvePair
<1> QED
  BY <1>2 DEF Decision, Aggregate

\* A call is allowed only when every pair it needs is.
LEMMA AllowedCall ==
    ASSUME RulesInv, NEW k, Decision(k) = "ALLOW", NEW p \in RequiredPairs(k)
    PROVE  ResolvePair(k, p) = "ALLOW"
<1>1. ResolvePair(k, p) \in {ResolvePair(k, q) : q \in RequiredPairs(k)}
  OBVIOUS
<1>2. ResolvePair(k, p) \in Decisions
  BY PairDecided
<1> QED
  BY <1>1, <1>2 DEF Decision, Aggregate, Decisions

\* A decision is one of three.
LEMMA DecisionTyped == \A k : Decision(k) \in Decisions
BY DEF Decision, Aggregate, Decisions

\* The pairs a prompt offers are finitely many.
LEMMA PromptFinite ==
    ASSUME NEW k \in Asks
    PROVE  IsFiniteSet(Prompt(k))
<1>1. CASE PendingRequests(k) = {}
  BY <1>1, FS_Singleton DEF Prompt
<1>2. CASE PendingRequests(k) # {}
  <2> DEFINE i == Min(PendingRequests(k))
             q == AskOf[k].requests[i]
  <2>1. PendingRequests(k) \in SUBSET Nat
    BY ApprovalsAssumption DEF PendingRequests
  <2>2. i \in DOMAIN AskOf[k].requests
    BY <1>2, <2>1, LeastPosition DEF PendingRequests
  <2>3. q \in ToSet(AskOf[k].requests)
    BY <2>2 DEF ToSet
  <2>4. IsFiniteSet(q)
    BY <2>3, ApprovalsAssumption
  <2>5. Prompt(k) = q \cap Left(k, q)
    BY <1>2 DEF Prompt
  <2> QED
    BY <2>4, <2>5, FS_Subset
<1> QED
  BY <1>1, <1>2

\* Adding rules lists each new one once, after those there were.
LEMMA RulesAdded ==
    ASSUME RulesInv, NEW new, IsFiniteSet(new), \A r \in new : r.decision \in Decisions,
           rules' = AddRules(new)
    PROVE  RulesInv'
<1> DEFINE more == new \ ToSet(rules)
           s == SetToSeq(more)
           c == Cardinality(more)
<1>1. IsFiniteSet(more)
  BY FS_Difference
<1>2. c \in Nat /\ s \in [1..c -> more] /\ \A i, j \in 1..c : s[i] = s[j] => i = j
  BY <1>1, Listed
<1>3. rules' = rules \o s
  BY DEF AddRules
<1> HIDE DEF more, s, c
<1>4. s \in Seq(more) /\ Len(s) = c
  BY <1>2
<1>5. rules \in Seq(ToSet(rules) \cup more) /\ s \in Seq(ToSet(rules) \cup more)
  BY <1>4 DEF RulesInv
<1>6. /\ rules' \in Seq(ToSet(rules) \cup more) /\ Len(rules') = Len(rules) + c
      /\ \A i \in 1..Len(rules) : rules'[i] = rules[i]
      /\ \A i \in 1..c : rules'[Len(rules) + i] = s[i]
  <2>1. Len(rules) \in Nat
    BY <1>5
  <2>2. /\ rules \o s \in Seq(ToSet(rules) \cup more)
        /\ Len(rules \o s) = Len(rules) + Len(s)
        /\ \A i \in 1..(Len(rules) + Len(s)) :
             (rules \o s)[i] = IF i <= Len(rules) THEN rules[i] ELSE s[i - Len(rules)]
    BY <1>5, ConcatProperties
  <2>3. \A i \in 1..c : (Len(rules) + i) - Len(rules) = i /\ ~(Len(rules) + i <= Len(rules))
    BY <2>1, <1>2
  <2> QED
    BY <1>2, <1>3, <1>4, <2>1, <2>2, <2>3
<1>7. rules' \in Seq(ToSet(rules)')
  <2>1. \A i \in 1..Len(rules') : rules'[i] \in ToSet(rules)'
    BY <1>6 DEF ToSet
  <2> QED
    BY <1>6, <2>1
<1>8. \A i \in 1..Len(rules') :
        \/ i \in DOMAIN rules /\ rules'[i] = rules[i]
        \/ i - Len(rules) \in 1..c /\ rules'[i] = s[i - Len(rules)] /\ i \notin DOMAIN rules
  <2> SUFFICES ASSUME NEW i \in 1..Len(rules')
      PROVE  \/ i \in DOMAIN rules /\ rules'[i] = rules[i]
             \/ i - Len(rules) \in 1..c /\ rules'[i] = s[i - Len(rules)] /\ i \notin DOMAIN rules
    OBVIOUS
  <2>1. Len(rules) \in Nat /\ DOMAIN rules = 1..Len(rules)
    BY DEF RulesInv
  <2>2. CASE i <= Len(rules)
    BY <2>1, <2>2, <1>6
  <2>3. CASE i > Len(rules)
    <3>1. i - Len(rules) \in 1..c /\ Len(rules) + (i - Len(rules)) = i
      BY <2>1, <2>3, <1>2, <1>6
    <3> QED
      BY <2>1, <2>3, <3>1, <1>6
  <2> QED
    BY <2>1, <2>2, <2>3
<1>9. \A i \in 1..c : s[i] \notin ToSet(rules) /\ s[i].decision \in Decisions
  BY <1>2 DEF more
<1>10. \A i \in DOMAIN rules' : rules'[i].decision \in Decisions
  BY <1>6, <1>8, <1>9 DEF RulesInv
<1>11. \A i, j \in DOMAIN rules' : rules'[i] = rules'[j] => i = j
  <2>1. \A i \in DOMAIN rules : rules[i] \in ToSet(rules)
    BY DEF ToSet
  <2>2. Len(rules) \in Nat
    BY DEF RulesInv
  <2> SUFFICES ASSUME NEW i \in 1..Len(rules'), NEW j \in 1..Len(rules'), rules'[i] = rules'[j]
      PROVE  i = j
    BY <1>6
  <2>3. CASE i \in DOMAIN rules /\ j \in DOMAIN rules
    BY <1>8, <2>3 DEF RulesInv
  <2>4. CASE i \notin DOMAIN rules /\ j \notin DOMAIN rules
    <3>1. i - Len(rules) = j - Len(rules)
      BY <1>2, <1>8, <2>4
    <3> QED
      BY <2>2, <3>1
  <2>5. CASE (i \in DOMAIN rules) # (j \in DOMAIN rules)
    BY <1>8, <1>9, <2>1, <2>5
  <2> QED
    BY <2>3, <2>4, <2>5
<1> QED
  BY <1>7, <1>10, <1>11 DEF RulesInv

\* An answer about finitely many pairs adds finitely many rules.
LEMMA AnswerRules ==
    ASSUME RulesInv, NEW k \in Asks, NEW pairs, IsFiniteSet(pairs),
           NEW decision \in {"ALLOW", "DENY"}, NEW scope, ApplyAnswer(k, pairs, decision, scope)
    PROVE  RulesInv'
<1> DEFINE Rule(p) == [of |-> "tool", name |-> AskOf[k].name, pair |-> p, decision |-> decision]
           new == {Rule(p) : p \in pairs}
<1>1. CASE scope = "ALWAYS"
  <2>1. rules' = AddRules(new)
    BY <1>1, Zenon DEF ApplyAnswer
  <2>2. IsFiniteSet(new)
    <3> DEFINE f == [p \in pairs |-> Rule(p)]
    <3>1. f \in Surjection(pairs, new)
      BY Zenon DEF Surjection
    <3> QED
      BY <3>1, FS_Surjection
  <2>3. \A r \in new : r.decision \in Decisions
    BY DEF Decisions
  <2> QED
    BY <2>1, <2>2, <2>3, RulesAdded
<1>2. CASE scope # "ALWAYS"
  BY <1>2 DEF ApplyAnswer, RulesInv
<1> QED
  BY <1>1, <1>2

\* The invariant holds initially and every step keeps it.
LEMMA ApprovalInvInit == ApprovalInit => ApprovalInv
BY ApprovalsAssumption DEF ApprovalInit, ApprovalInv, ApprovalTypeOK, RulesInv, Decisions

\* Every step keeps the invariant.
LEMMA ApprovalStep == ApprovalInv /\ [ApprovalNext]_approvalVars => ApprovalInv'
<1> SUFFICES ASSUME ApprovalInv, [ApprovalNext]_approvalVars PROVE ApprovalInv'
  OBVIOUS
<1> USE DEF ApprovalInv
<1>1. ASSUME NEW k \in Asks, Decide(k) PROVE ApprovalInv'
  <2>1. gate' \in [Asks -> {"PENDING", "ALLOWED", "REJECTED"}]
    BY <1>1, DecisionTyped DEF Decide, ApprovalTypeOK, Decisions
  <2> QED
    BY <1>1, <2>1 DEF Decide, ApprovalTypeOK, RulesInv
<1>2. ASSUME NEW k \in Asks, AnswerPrompt(k) PROVE ApprovalInv'
  <2>1. RulesInv'
    BY <1>2, PromptFinite, AnswerRules DEF AnswerPrompt
  <2> QED
    BY <1>2, <2>1 DEF AnswerPrompt, ApprovalTypeOK, RulesInv
<1>3. ASSUME NEW k \in Asks, AnswerFreely(k) PROVE ApprovalInv'
  <2>1. RulesInv'
    BY <1>3, FS_Singleton, AnswerRules DEF AnswerFreely
  <2>2. free' \in 0..MaxFree
    BY <1>3, ApprovalsAssumption DEF AnswerFreely, ApprovalTypeOK
  <2> QED
    BY <1>3, <2>1, <2>2 DEF AnswerFreely, ApprovalTypeOK, RulesInv
<1>4. ASSUME SwitchMode PROVE ApprovalInv'
  BY <1>4, ApprovalsAssumption DEF SwitchMode, ApprovalTypeOK, RulesInv
<1>5. ASSUME UNCHANGED approvalVars PROVE ApprovalInv'
  BY <1>5 DEF approvalVars, ApprovalTypeOK, RulesInv
<1> QED
  BY <1>1, <1>2, <1>3, <1>4, <1>5 DEF ApprovalNext

\* So it always holds.
LEMMA ApprovalInvariance == ApprovalSpec => []ApprovalInv
BY ApprovalInvInit, ApprovalStep, PTL DEF ApprovalSpec

\* A call the gate lets through in a step is the one decided in it.
LEMMA DecidedNow ==
    ASSUME ApprovalInv, [ApprovalNext]_approvalVars, NEW k \in Asks,
           gate[k] = "PENDING", gate'[k] = "ALLOWED"
    PROVE  Decision(k) = "ALLOW"
<1>1. PICK j \in Asks : Decide(j)
  BY DEF ApprovalNext, AnswerPrompt, AnswerFreely, SwitchMode, approvalVars
<1>2. j = k
  BY <1>1 DEF Decide, ApprovalInv, ApprovalTypeOK
<1> QED
  BY <1>1, <1>2, DecisionTyped DEF Decide, ApprovalInv, ApprovalTypeOK, Decisions

\* decide and _match_verdicts, for any calls, requests and rules the strategy is built
\* with: no rule is recorded twice, a call that is let through is granted pair by pair,
\* and one the user refused is not let through.
THEOREM ApprovalsAreSound == ApprovalSpec => ApprovalsSound
<1>1. ApprovalInv /\ [ApprovalNext]_approvalVars =>
        \A k \in Asks : gate[k] = "PENDING" /\ gate'[k] = "ALLOWED" /\ mode = "ASK" =>
          \A p \in RequiredPairs(k) : Granted(k, p)
  BY DecidedNow, AllowedCall, AllowedPair DEF ApprovalInv
<1>2. ApprovalInv /\ [ApprovalNext]_approvalVars =>
        \A k \in Asks : (\E p \in RequiredPairs(k) : IsRefused(k, p)) /\ gate[k] = "PENDING" =>
          gate'[k] # "ALLOWED"
  BY DecidedNow, RefusedPair DEF ApprovalInv
<1>3. ApprovalInv => ApprovalTypeOK
  BY DEF ApprovalInv
<1>4. ApprovalSpec => AllowedIsGranted
  BY <1>1, ApprovalInvariance, PTL DEF ApprovalSpec, AllowedIsGranted
<1>5. ApprovalSpec => RefusalIsPinned
  BY <1>2, ApprovalInvariance, PTL DEF ApprovalSpec, RefusalIsPinned
<1> QED
  BY <1>3, <1>4, <1>5, ApprovalInvariance, PTL DEF ApprovalsSound

==============================================================================
