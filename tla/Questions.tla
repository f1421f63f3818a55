------------------------------- MODULE Questions -------------------------------
(* The questions tool and the dock that answers it (contrib/questions/tool.py, *)
(* contrib/tui: QuestionSetView, QuestionConfirmView, the app's handlers).     *)
(*                                                                             *)
(* One parked ask_user call.  The view and the app each hold a copy of the     *)
(* question set: a key changes the view's and posts what the user did, the app *)
(* applies it to its own and rebuilds the view from that.  What the dock, or   *)
(* any other driver, stores as the answer is rendered for the model by pairing *)
(* its entries with the questions.                                             *)
EXTENDS Integers, Sequences, SequencesExt, FiniteSetsExt

CONSTANTS
  Titles,        \* sequence of the questions' titles
  Multi,         \* positions of the multiple-select questions
  NOptions,      \* options the model wrote for each question
  Sheets,        \* answers another driver may store: sequences of entries
  MaxKeys,       \* bound: keys pressed
  Ahead,         \* bound: messages outstanding when a key is pressed
  NoSet          \* no question set, no job, no view

VARIABLES
  job,           \* the store's slot: NoSet, or its questions and its answer
  sidecar,       \* the slot as the sidecar file has it
  parked,        \* the call is parked; FALSE once it completed
  asks,         \* AgentApp._questions_state
  view,          \* the mounted view's model
  posted,        \* messages of the view the app has not handled
  meant,         \* what the user committed, struck out, ticked and typed, per question
  rushed,        \* kinds of the messages a key was pressed over, for the set shown
  keys           \* bound: keys pressed so far

questionVars == <<job, sidecar, parked, asks, view, posted, meant, rushed, keys>>
dockVars == <<asks, view, posted, meant, rushed, keys>>

Tabs == DOMAIN Titles
Custom(q) == NOptions + 1
Chat(q) == NOptions + 2
Rows == 1..(NOptions + 2)

\* question_set_state: the custom row and the chat row come last.
NewSet ==
  [tabs |-> [q \in Tabs |-> [caret |-> 1, answer |-> 0, answered |-> FALSE, ticks |-> {}, text |-> FALSE, chat |-> FALSE]],
   active |-> 1, confirming |-> FALSE, editing |-> FALSE]

Nothing == [q \in Tabs |-> [pick |-> 0, struck |-> 0, ticks |-> {}, text |-> FALSE]]

\* QuestionState and QuestionSetState; AnswerEntry; a slot of the store.
TabStates == [caret : Rows, answer : 0..(NOptions + 1), answered : BOOLEAN, ticks : SUBSET (1..NOptions),
              text : BOOLEAN, chat : BOOLEAN]
SetStates == [tabs : [Tabs -> TabStates], active : Tabs, confirming : BOOLEAN, editing : BOOLEAN]
EntryStates == [title : Range(Titles), chat : BOOLEAN, custom : BOOLEAN, picks : SUBSET (1..NOptions)]
Payloads == Sheets \cup {<<>>} \cup [Tabs -> EntryStates]
Jobs == [titles : {<<>>, Titles}, answer : {NoSet} \cup Payloads]

ASSUME QuestionsAssumption ==
  /\ Titles \in Seq(Range(Titles)) /\ Multi \subseteq Tabs
  /\ NOptions \in Nat /\ MaxKeys \in Nat /\ Ahead \in Nat
  /\ \A sheet \in Sheets : sheet \in Seq(Range(sheet))
  /\ NoSet \notin SetStates \cup Jobs \cup Payloads

(* ------------------------------ the answer's text --------------------------- *)

\* _pair: by title first, each entry claimed once, then by position.
ByTitle(titles, sheet, i) ==
  LET named == {p \in DOMAIN sheet : sheet[p].title = titles[i]}
      before == Cardinality({j \in 1..(i - 1) : titles[j] = titles[i]})
      left == {p \in named : Cardinality({r \in named : r < p}) = before}
  IN IF left = {} THEN 0 ELSE Max(left)
PairOf(titles, sheet, i) ==
  LET named == {ByTitle(titles, sheet, j) : j \in DOMAIN titles}
  IN IF ByTitle(titles, sheet, i) # 0 \/ i > Len(sheet) \/ i \in named THEN ByTitle(titles, sheet, i) ELSE i

Declined(sheet) ==
  LET said == {p \in DOMAIN sheet : sheet[p].chat} IN IF said = {} THEN 0 ELSE Min(said)

\* generate_content_string_from_answers: its paragraphs.  The declined entry has its
\* own, every other question has one, and so has what matches no question.
Rendered(titles, sheet) ==
  LET declined == Declined(sheet)
      Pair(i) == PairOf(titles, sheet, i)
      Paragraph(part, i, p) == [part |-> part, question |-> i, entry |-> p]
  IN {Paragraph("declined", 0, p) : p \in {declined} \ {0}}
     \cup {Paragraph("question", i, Pair(i)) : i \in {i \in DOMAIN titles : Pair(i) = 0 \/ Pair(i) # declined}}
     \cup {Paragraph("unmatched", 0, p) : p \in (DOMAIN sheet) \ ({declined} \cup {Pair(i) : i \in DOMAIN titles})}

\* answer_payload: verbatim, one entry per question.
PayloadOf(set) == [q \in Tabs |->
  [title |-> Titles[q], chat |-> set.tabs[q].chat, custom |-> set.tabs[q].text,
   picks |-> IF q \in Multi THEN set.tabs[q].ticks ELSE {set.tabs[q].answer} \cap 1..NOptions]]

(* ------------------------------- tool and store ------------------------------ *)

\* execute: a predicate that seeds the slot the first time.
Poll ==
  /\ parked
  /\ IF job = NoSet THEN job' = [titles |-> Titles, answer |-> NoSet] /\ UNCHANGED parked
     ELSE job.answer # NoSet /\ parked' = FALSE /\ UNCHANGED job
  /\ UNCHANGED <<sidecar, dockVars>>

Answered(answer) == [IF job = NoSet THEN [titles |-> <<>>, answer |-> NoSet] ELSE job EXCEPT !.answer = answer]

\* answer(): any driver, any payload, before the first execute() too; once the call
\* completed nothing reads the slot again.
AnswerOtherwise == \E sheet \in Sheets :
  /\ parked /\ asks = NoSet /\ job' = Answered(sheet)
  /\ UNCHANGED <<sidecar, parked, dockVars>>

\* _save, and a process that ends: the session says parked, the sidecar is what was
\* saved last, or cannot be read.
Save == parked /\ sidecar' = job /\ UNCHANGED <<job, parked, dockVars>>
Crash ==
  /\ parked
  /\ job' \in {sidecar, NoSet} /\ sidecar' = job'
  /\ asks' = NoSet /\ view' = NoSet /\ posted' = <<>> /\ meant' = Nothing /\ rushed' = {}
  /\ UNCHANGED <<parked, keys>>

(* ---------------------------------- the view -------------------------------- *)

Shown == view.tabs[view.active]
Say(kind, index) == [kind |-> kind, index |-> index]
MayPress == view # NoSet /\ keys < MaxKeys /\ Len(posted) <= Ahead
Press(model, says) ==
  /\ view' = model /\ posted' = posted \o says
  /\ rushed' = rushed \cup {posted[i].kind : i \in DOMAIN posted}
  /\ keys' = keys + 1 /\ UNCHANGED <<asks, job, sidecar, parked>>
OnPanel == MayPress /\ ~view.confirming
Means(change) == meant' = [meant EXCEPT ![view.active] = change]

\* "Typing into it clears any picked option, and picking an option clears it": what the
\* user means by a row of a radio question, and by text appearing in its field.
Picked(row, text) == [meant[view.active] EXCEPT !.pick = row, !.struck = 0, !.text = text]
Typed(text) ==
  LET mine == [meant[view.active] EXCEPT !.text = text]
  IN IF text /\ view.active \notin Multi /\ mine.pick \in 1..NOptions
     THEN [mine EXCEPT !.pick = 0, !.struck = mine.pick] ELSE mine

\* A position moved around a ring of n.
Turned(at, by, n) == 1 + ((at - 1 + by) % n)
CaretAt(row) == [view EXCEPT !.tabs[view.active].caret = row, !.editing = FALSE]

\* _activate: what a row does when it is entered, ticked or picked by its digit.
Activate(model, row, ticking, says) ==
  LET mine == meant[view.active] IN
  \/ /\ row = Chat(view.active) /\ Press(model, says \o <<Say("chat", 0)>>) /\ UNCHANGED meant
  \/ /\ row = Custom(view.active)
     /\ Press([model EXCEPT !.editing = TRUE], says \o <<Say("moved", 0)>>) /\ UNCHANGED meant
  \/ /\ row \in 1..NOptions /\ view.active \in Multi /\ ticking
     /\ Press(model, says \o <<Say("toggled", row)>>)
     /\ Means([mine EXCEPT !.ticks = SymDiff(@, {row})])
  \/ /\ row \in 1..NOptions /\ ~(view.active \in Multi /\ ticking)
     /\ Press(model, says \o <<Say("answered", row)>>)
     /\ IF view.active \in Multi THEN UNCHANGED meant ELSE Means(Picked(row, FALSE))

Arrow == OnPanel /\ ~view.editing /\ \E delta \in {-1, 1} :
  /\ Press(CaretAt(Turned(Shown.caret, delta, NOptions + 2)), <<Say("moved", 0)>>)
  /\ UNCHANGED meant
TabKey ==
  /\ OnPanel
  /\ Press([view EXCEPT !.active = Turned(@, 1, Len(Titles)), !.editing = FALSE], <<Say("moved", 0)>>)
  /\ UNCHANGED meant
EnterKey == OnPanel /\ ~view.editing /\ Activate(view, Shown.caret, FALSE, <<>>)
SpaceKey == OnPanel /\ ~view.editing /\ Shown.caret # Chat(view.active) /\ Activate(view, Shown.caret, TRUE, <<>>)
DigitKey == OnPanel /\ ~view.editing /\ \E row \in Rows : Activate(CaretAt(row), row, TRUE, <<Say("moved", 0)>>)

LeaveField == Press([view EXCEPT !.editing = FALSE], <<Say("moved", 0)>>) /\ UNCHANGED meant
EscapeField == OnPanel /\ view.editing /\ LeaveField
\* The field's text appears or is deleted: _set_custom.
TypeInField ==
  /\ OnPanel /\ view.editing
  /\ Press([view EXCEPT !.tabs[view.active].text = ~@], <<Say(IF Shown.text THEN "cleared" ELSE "typed", 0)>>)
  /\ Means(Typed(~Shown.text))
SubmitField ==
  /\ OnPanel /\ view.editing
  /\ IF Shown.text
     THEN /\ Press(view, <<Say("answered", Custom(view.active))>>)
          /\ IF view.active \in Multi THEN UNCHANGED meant
             ELSE Means(Picked(Custom(view.active), meant[view.active].text))
     ELSE LeaveField

ConfirmKey ==
  /\ MayPress /\ view.confirming
  /\ \E kind \in {"submitted", "cancelled"} : Press(view, <<Say(kind, 0)>>)
  /\ UNCHANGED meant

(* ----------------------------------- the app -------------------------------- *)

\* _ask_questions: the set takes the dock; a slot that holds no questions is
\* answered with nothing.
AskSet ==
  /\ parked /\ asks = NoSet /\ job # NoSet /\ job.answer = NoSet
  /\ IF job.titles = <<>> THEN job' = Answered(<<>>) /\ UNCHANGED <<asks, view, posted, meant, rushed>>
     ELSE asks' = NewSet /\ view' = NewSet /\ posted' = <<>> /\ meant' = Nothing /\ rushed' = {} /\ UNCHANGED job
  /\ UNCHANGED <<sidecar, parked, keys>>

\* _show_questions: the view is built anew from the app's asks.
Rebuild(set) == asks' = set /\ view' = set /\ UNCHANGED <<job, sidecar>>
AllAnswered(set) == \A q \in Tabs : set.tabs[q].answered

\* _advance_questions: the next open tab, wrapping, or the confirmation.
Advance(set) ==
  IF AllAnswered(set) THEN [set EXCEPT !.confirming = TRUE]
  ELSE LET n == Len(Titles)
           open == {step \in 1..n : ~set.tabs[Turned(set.active, step, n)].answered}
       IN [set EXCEPT !.active = Turned(set.active, Min(open), n), !.editing = FALSE]

\* Answering a radio question with an option clears its custom text.
AnsweredTab(q, tab, row) ==
  [tab EXCEPT !.caret = row, !.answered = TRUE, !.text = @ /\ ~(q \notin Multi /\ row # Custom(q)),
              !.answer = IF q \in Multi THEN 0 ELSE row]
ToggledTab(tab, row) == [tab EXCEPT !.ticks = SymDiff(@, {row}), !.caret = row]

\* Mutant: the custom text stays under a picked option.
OnAnsweredKeepingText(row) ==
  LET q == asks.active
      tab == [AnsweredTab(q, asks.tabs[q], row) EXCEPT !.text = asks.tabs[q].text]
  IN Rebuild(Advance([asks EXCEPT !.tabs[q] = tab, !.editing = FALSE]))

OnAnswered(row) ==
  LET q == asks.active
  IN Rebuild(Advance([asks EXCEPT !.tabs[q] = AnsweredTab(q, asks.tabs[q], row), !.editing = FALSE]))

OnToggled(row) == Rebuild([asks EXCEPT !.tabs[asks.active] = ToggledTab(asks.tabs[asks.active], row)])

OnCustomChanged(text) ==
  asks' = [asks EXCEPT !.tabs[asks.active].text = text] /\ UNCHANGED <<view, job, sidecar>>

\* Moved reads the view as it is now, takes its carets, its tab and its editing flag,
\* and rebuilds when the tab or the flag changed.
OnMoved ==
  LET merged == [asks EXCEPT !.tabs = [q \in Tabs |-> [@[q] EXCEPT !.caret = view.tabs[q].caret]],
                              !.active = view.active, !.editing = view.editing]
  IN IF merged.active # asks.active \/ merged.editing # asks.editing THEN Rebuild(merged)
     ELSE asks' = merged /\ UNCHANGED <<view, job, sidecar>>

\* The set is over: the payload is stored, and saved "the moment it is answered".
FinishSet(set) ==
  /\ job' = Answered(PayloadOf(set)) /\ sidecar' = job'
  /\ asks' = NoSet /\ view' = NoSet
OnChat == FinishSet([asks EXCEPT !.tabs[asks.active].chat = TRUE])

Handle ==
  /\ posted # <<>>
  /\ LET said == Head(posted) IN
     \/ asks # NoSet /\ said.kind = "answered" /\ OnAnswered(said.index)
     \/ asks # NoSet /\ said.kind = "toggled" /\ OnToggled(said.index)
     \/ asks # NoSet /\ said.kind = "typed" /\ OnCustomChanged(TRUE)
     \/ asks # NoSet /\ said.kind = "cleared" /\ OnCustomChanged(FALSE)
     \/ asks # NoSet /\ said.kind = "moved" /\ OnMoved
     \/ asks # NoSet /\ said.kind = "chat" /\ OnChat
     \/ asks # NoSet /\ said.kind = "submitted" /\ FinishSet(asks)
     \/ asks # NoSet /\ said.kind = "cancelled" /\ Rebuild([asks EXCEPT !.confirming = FALSE])
  /\ posted' = IF asks' = NoSet THEN <<>> ELSE Tail(posted)
  /\ UNCHANGED <<parked, meant, rushed, keys>>

QuestionInit ==
  /\ job = NoSet /\ sidecar = NoSet /\ parked = TRUE
  /\ asks = NoSet /\ view = NoSet /\ posted = <<>> /\ meant = Nothing /\ rushed = {} /\ keys = 0

QuestionNext ==
  \/ Poll \/ AnswerOtherwise \/ Save \/ Crash
  \/ Arrow \/ TabKey \/ EnterKey \/ SpaceKey \/ DigitKey
  \/ EscapeField \/ TypeInField \/ SubmitField \/ ConfirmKey
  \/ AskSet \/ Handle

QuestionSpec == QuestionInit /\ [][QuestionNext]_questionVars

(* -------------------------------- properties -------------------------------- *)

\* QuestionSetView and AgentApp: once every message is handled, the set on screen is
\* the set the app would send, whatever was pressed ahead but over an Answered, whose
\* handler moves the dock on under that key, or over a Moved, whose handler reads the
\* view as it is by then.
ViewsAgree == rushed \cap {"answered", "moved"} = {} /\ posted = <<>> /\ asks # NoSet => view = asks

\* answer_payload: what would be sent is what the user did, question by question, where
\* no key was pressed over an Answered, nor, where more than one message may be ahead,
\* over a Moved.  On top of it a pick that typing has struck out is sent all the same: nothing
\* in on_question_set_view_custom_changed clears the tab's answer.
SentIsMeant == "answered" \notin rushed /\ (Ahead <= 1 \/ "moved" \notin rushed) /\ posted = <<>> /\ asks # NoSet =>
  \A q \in Tabs : LET sent == PayloadOf(asks)[q] IN
    /\ sent.custom = meant[q].text
    /\ sent.picks = IF q \in Multi THEN meant[q].ticks ELSE {meant[q].pick, meant[q].struck} \cap 1..NOptions

\* The confirmation is reached with every question answered and left with all of them.
ConfirmsAll == asks # NoSet /\ asks.confirming => AllAnswered(asks)

\* _pair: "each entry is claimed once": the model reads every answer, once, and every
\* question but the declined one.
EveryAnswerShown == ~parked =>
  LET shown == Rendered(job.titles, job.answer) IN
  /\ \A p \in DOMAIN job.answer : Cardinality({line \in shown : line.entry = p}) = 1
  /\ Cardinality({i \in DOMAIN job.titles : \A line \in shown : line.question # i}) <= 1

\* _pair: "a positional fallback can never steal an entry that belongs to a later
\* question by name": where a question shows an answer to another, every question of
\* that name shows one of its own.
NoAnswerStolen == ~parked =>
  LET Pair(i) == PairOf(job.titles, job.answer, i)
      Own(i) == job.answer[Pair(i)].title = job.titles[i]
  IN \A i, j \in DOMAIN job.titles :
       Pair(i) # 0 /\ ~Own(i) /\ job.titles[j] = job.answer[Pair(i)].title => Pair(j) # 0 /\ Own(j)

\* _resolve_questions: "a crash ... must not lose an answer the user already gave": the
\* user is not asked what the sidecar has an answer to.
AnsweredIsKept == asks # NoSet => sidecar = NoSet \/ sidecar.answer = NoSet

\* The user's answers reach the model as they were given, through the view, the
\* sidecar and the rendering.
QuestionsSound ==
  ViewsAgree /\ SentIsMeant /\ ConfirmsAll /\ EveryAnswerShown /\ NoAnswerStolen /\ AnsweredIsKept

===============================================================================
