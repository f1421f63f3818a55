------------------------------- MODULE Terminal --------------------------------
(* The terminal application around one session: the drive worker, the one dock *)
(* slot its prompts take, the composer, the palette and the session file       *)
(* (contrib/tui/app.py, frame.py, commands.py).                                *)
(*                                                                             *)
(* The worker runs the session until it is idle and, between runs, awaits the  *)
(* user through a future that only the view in the dock resolves.  The app's   *)
(* handlers run beside it: what they do to the dock they do whatever it holds. *)
EXTENDS Integers

CONSTANTS MaxPosts, MaxOverlays, MaxFailures   \* bounds: messages, overlays opened, runs that raise

VARIABLES
  turn,        \* the session: idle, due (work to drive) or blocked
  holds,       \* what blocks it: an approval gate, the user's questions, a deferring
               \* tool this app did not install
  answered,    \* those of them the user resolved since the last run
  mail,        \* a message was posted that the running run has not taken
  cancelling,  \* runner.cancelling()
  worker,      \* where _drive is; off when there is none
  driving,     \* AgentApp._driving
  future,      \* what the worker awaits: an approval, the questions or a retry
  dock,        \* the widget in the dock slot
  said,        \* a key of the overlay the app has not handled
  starting,    \* a handler posted a message and is about to look at _driving
  saved,        \* the turn as the session file has it
  posts, overlays, failures  \* bounds

terminalVars == <<turn, holds, answered, mail, cancelling, worker, driving, future, dock, said, starting, saved, posts, overlays, failures>>
limits == <<posts, overlays, failures>>
session == <<turn, holds, answered, mail, cancelling>>

Causes == {"gate", "questions", "foreign"}
Unanswered == holds \ answered

StartDrive == worker' = "top" /\ driving' = TRUE
StopDrive == worker' = "off" /\ driving' = FALSE

(* ----------------------------------- _drive --------------------------------- *)

\* Nothing between the look at idle() and the end of the worker awaits.
Top ==
  /\ worker = "top"
  /\ IF turn = "idle" THEN StopDrive ELSE worker' = "running" /\ UNCHANGED driving
  /\ UNCHANGED <<session, future, dock, said, starting, saved, limits>>

\* A run ends: a cancelled one winds its turn down; a session blocked on something
\* stays so; any other may end the turn, block, or raise.  The session is saved.
RunEnds ==
  /\ worker = "running"
  /\ \/ /\ cancelling /\ turn' \in {"idle"} \cup (IF mail THEN {"due"} ELSE {}) /\ holds' = {}
        /\ worker' = "top" /\ UNCHANGED failures
     \/ /\ ~cancelling /\ Unanswered # {} /\ holds' = Unanswered
        /\ worker' = "approvals" /\ UNCHANGED <<turn, failures>>
     \/ /\ ~cancelling /\ Unanswered = {} /\ UNCHANGED failures
        /\ \/ turn' = (IF mail THEN "due" ELSE "idle") /\ holds' = {} /\ worker' = "top"
           \/ turn' = "blocked" /\ holds' \in SUBSET Causes \ {{}} /\ worker' = "approvals"
     \/ /\ ~cancelling /\ Unanswered = {} /\ failures < MaxFailures /\ failures' = failures + 1
        /\ turn' = "due" /\ holds' = {} /\ worker' = "recover"
  /\ cancelling' = FALSE /\ mail' = FALSE /\ answered' = {} /\ saved' = <<turn', holds'>>
  /\ UNCHANGED <<driving, future, dock, said, starting, posts, overlays>>

\* _ask, show_approval: the prompt replaces what the dock holds.
Prompts(kind, view) == future' = kind /\ dock' = view /\ worker' = "asking"
AskApproval ==
  /\ worker = "approvals"
  /\ IF "gate" \in holds THEN Prompts("approval", "approval") ELSE worker' = "questions" /\ UNCHANGED <<future, dock>>
  /\ UNCHANGED <<session, driving, said, starting, saved, limits>>
AskRetry ==
  /\ worker = "recover" /\ Prompts("retry", "approval")
  /\ UNCHANGED <<session, driving, said, starting, saved, limits>>

\* _resolve_questions: not for a turn the user just ended, and a tool this app cannot
\* answer stops the worker.
Parked == holds \cap {"questions", "foreign"}

\* Mutant: questions are asked whatever is being cancelled.
AskAnyway ==
  \/ "questions" \in Unanswered /\ Prompts("questions", "questions") /\ UNCHANGED driving
  \/ "questions" \notin Unanswered /\ "foreign" \in holds /\ StopDrive /\ UNCHANGED <<future, dock>>
  \/ Parked \subseteq answered /\ worker' = "top" /\ UNCHANGED <<future, dock, driving>>

AskWhatIsParked ==
  \/ ~cancelling /\ "questions" \in Unanswered /\ Prompts("questions", "questions") /\ UNCHANGED driving
  \/ ~cancelling /\ "questions" \notin Unanswered /\ "foreign" \in holds /\ StopDrive /\ UNCHANGED <<future, dock>>
  \/ (cancelling \/ Parked \subseteq answered) /\ worker' = "top" /\ UNCHANGED <<future, dock, driving>>
AskQuestions ==
  /\ worker = "questions" /\ AskWhatIsParked
  /\ UNCHANGED <<session, said, starting, saved, limits>>

\* The user decides: an answer that covers the gate, one that does not (it re-arms), or
\* Cancel turn.  Then the composer takes the dock back.
Resolved(next) == future' = "none" /\ dock' = "composer" /\ worker' = next
Approve ==
  /\ future = "approval" /\ dock = "approval"
  /\ \/ answered' \in {answered, answered \cup {"gate"}} /\ UNCHANGED cancelling
     \/ cancelling' = TRUE /\ UNCHANGED answered
  /\ Resolved("questions")
  /\ UNCHANGED <<turn, holds, mail, driving, said, starting, saved, limits>>

\* _recover_from: retry or switch the model; Cancel turn drives once more.  ^r needs
\* no prompt in the dock.
Retry ==
  /\ future = "retry" /\ Resolved("top")
  /\ \/ UNCHANGED cancelling
     \/ dock = "approval" /\ cancelling' = TRUE
  /\ UNCHANGED <<turn, holds, answered, mail, driving, said, starting, saved, limits>>

\* The set is submitted, or left by Chat about this: stored and saved.
AnswerQuestions ==
  /\ future = "questions" /\ dock = "questions"
  /\ answered' = answered \cup {"questions"} /\ Resolved("questions")
  /\ UNCHANGED <<turn, holds, saved, mail, cancelling, driving, said, starting, limits>>

(* --------------------------------- the handlers ----------------------------- *)

\* on_prompt_input_submitted: "the TUI opts out of posting past a gate"; a message
\* posted into a running turn steers it.
Submit ==
  /\ dock = "composer" /\ turn # "blocked" /\ ~starting /\ posts < MaxPosts /\ posts' = posts + 1
  /\ turn' = "due" /\ mail' = (worker = "running") /\ starting' = TRUE
  /\ UNCHANGED <<holds, answered, cancelling, worker, driving, future, dock, said, saved, overlays, failures>>
StartUnlessDriving ==
  /\ starting /\ starting' = FALSE
  /\ IF driving THEN UNCHANGED <<worker, driving>> ELSE StartDrive
  /\ UNCHANGED <<session, future, dock, said, saved, limits>>

\* action_cancel_run: nothing to do but while a run is on.
CancelKey ==
  /\ dock \in {"composer", "overlay"} /\ future # "questions"
  /\ worker = "running" /\ ~cancelling /\ cancelling' = TRUE
  /\ UNCHANGED <<turn, holds, answered, mail, worker, driving, future, dock, said, starting, saved, limits>>

\* action_palette, open_context_picker: refused only while a question set is up.
OpenOverlay ==
  /\ dock # "overlay" /\ future # "questions"
  /\ overlays < MaxOverlays /\ overlays' = overlays + 1 /\ dock' = "overlay"
  /\ UNCHANGED <<session, worker, driving, future, said, starting, saved, posts, failures>>
OverlayKey ==
  /\ dock = "overlay" /\ said = "none" /\ said' \in {"dismissed", "committed"}
  /\ UNCHANGED <<session, worker, driving, future, dock, starting, saved, limits>>
\* The key reaches the app: the composer, or the next menu, takes the dock.
HandleOverlay ==
  /\ said # "none" /\ said' = "none"
  /\ dock' \in {"composer"} \cup (IF said = "committed" THEN {"overlay"} ELSE {})
  /\ UNCHANGED <<session, worker, driving, future, starting, saved, limits>>

\* The process ends and the session is opened again: on_mount, _settle.
Reopen ==
  /\ turn' = saved[1] /\ holds' = saved[2] /\ answered' \in SUBSET (saved[2] \cap {"questions"}) /\ mail' = FALSE /\ cancelling' = FALSE /\ said' = "none" /\ starting' = FALSE
  /\ future' = "none" /\ dock' = "composer"
  /\ IF saved[1] = "idle" THEN StopDrive ELSE StartDrive
  /\ UNCHANGED <<saved, limits>>

TerminalInit ==
  /\ turn = "idle" /\ holds = {} /\ answered = {} /\ mail = FALSE /\ cancelling = FALSE /\ worker = "off" /\ driving = FALSE
  /\ future = "none" /\ dock = "composer" /\ said = "none" /\ starting = FALSE /\ saved = <<"idle", {}>>
  /\ posts = 0 /\ overlays = 0 /\ failures = 0

TerminalNext ==
  \/ Top \/ RunEnds \/ AskApproval \/ AskRetry \/ AskQuestions
  \/ Approve \/ Retry \/ AnswerQuestions
  \/ Submit \/ StartUnlessDriving \/ CancelKey
  \/ OpenOverlay \/ OverlayKey \/ HandleOverlay \/ Reopen

TerminalSpec == TerminalInit /\ [][TerminalNext]_terminalVars

(* -------------------------------- properties -------------------------------- *)

\* _start_drive and the end of _drive: a session with work to do, or whose
\* every prompt is answered, always has a worker,
\* or a handler about to start one.
DueIsDriven == turn = "due" \/ (holds # {} /\ Unanswered = {}) => worker # "off" \/ starting

\* _driving is what every handler looks at before it starts a worker.
DrivingIsTrue == driving <=> worker # "off"

\* "asking its questions now would prompt for a turn the user just ended".
CancelledIsNotAsked == future = "questions" => ~cancelling

\* The terminal drives what is due, knows that it does, and asks nobody about a
\* turn that was cancelled.
TerminalSound == DueIsDriven /\ DrivingIsTrue /\ CancelledIsNotAsked

===============================================================================
