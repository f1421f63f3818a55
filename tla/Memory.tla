-------------------------------- MODULE Memory --------------------------------
(* The todo list of contrib/memory, kept in the session's extras under the id  *)
(* of the conversation, and what the terminal interface does with it when the  *)
(* main conversation gets another id.  A compaction's transition is followed   *)
(* by its event, at which the interface moves the list; a rewind's is not.     *)
EXTENDS Integers, Sequences, FiniteSets

CONSTANTS
  Contents,           \* what a todo item may say
  MaxItems,           \* bound: items of one list
  MaxConversations,   \* bound: ids the main conversation takes
  MaxUpdates          \* bound: calls of update_todos

ASSUME MemoryAssumption == MaxItems \in Nat /\ MaxConversations \in Nat \ {0} /\ MaxUpdates \in Nat

VARIABLES
  main,      \* the id of the main conversation
  slots,     \* the store: a list and the next number, for each conversation id
  shown,     \* the lists update_todos has returned on the current path
  moving,    \* TRUE between a compaction's transition and its event
  adrift,    \* TRUE while the list is filed under an id the main conversation left
  updates

memoryVars == <<main, slots, shown, moving, adrift, updates>>

NewSlot == [todos |-> <<>>, nextId |-> 1]

\* A list as the model sends it; the statuses play no part here.
Lists == UNION {[1..n -> [content : Contents]] : n \in 0..MaxItems}

\* How often the content of item i occurs up to i.
Occurrence(list, i) == Cardinality({j \in 1..i : list[j].content = list[i].content})

\* Mutant: every later occurrence is taken for the first.
MatchFirst(previous, list, i) ==
  {k \in 1..Len(previous) : /\ previous[k].content = list[i].content
                            /\ Occurrence(previous, k) = 1}

\* The previous item that item i carries on: the same content, the same occurrence.
Match(previous, list, i) ==
  {k \in 1..Len(previous) : /\ previous[k].content = list[i].content
                            /\ Occurrence(previous, k) = Occurrence(list, i)}

Fresh(previous, list, i) == {j \in 1..i : Match(previous, list, j) = {}}

AssignIds(slot, list) ==
  LET id(i) == IF Match(slot.todos, list, i) = {}
               THEN slot.nextId + Cardinality(Fresh(slot.todos, list, i)) - 1
               ELSE slot.todos[CHOOSE k \in Match(slot.todos, list, i) : TRUE].id
  IN [todos  |-> [i \in 1..Len(list) |-> [id |-> id(i), content |-> list[i].content]],
      nextId |-> slot.nextId + Cardinality(Fresh(slot.todos, list, Len(list)))]

MemoryInit ==
  /\ main = 1 /\ slots = [c \in 1..MaxConversations |-> NewSlot]
  /\ shown = <<>> /\ moving = FALSE /\ adrift = FALSE /\ updates = 0

UpdateTodos == \E list \in Lists :
  /\ ~moving /\ updates < MaxUpdates
  /\ slots' = [slots EXCEPT ![main] = AssignIds(@, list)]
  /\ shown' = Append(shown, slots'[main].todos)
  /\ adrift' = FALSE /\ updates' = updates + 1
  /\ UNCHANGED <<main, moving>>

\* The transition: some of the calls the path shows are folded into a summary.
CompactionCommits == \E kept \in 0..Len(shown) :
  /\ ~moving /\ main < MaxConversations
  /\ main' = main + 1 /\ moving' = TRUE
  /\ shown' = SubSeq(shown, Len(shown) - kept + 1, Len(shown))
  /\ UNCHANGED <<slots, adrift, updates>>

MoveStore(from, to) == [slots EXCEPT ![to] = slots[from], ![from] = NewSlot]

\* The event reaches the interface before the run is pulled again ...
EventHandled ==
  /\ moving /\ moving' = FALSE
  /\ slots' = MoveStore(main - 1, main)
  /\ UNCHANGED <<main, shown, adrift, updates>>

\* ... unless the worker that reads it is cancelled first.
EventLost ==
  /\ moving /\ moving' = FALSE /\ adrift' = TRUE
  /\ UNCHANGED <<main, slots, shown, updates>>

\* rewind_to installs a successor; nobody moves the list.
RewindTo == \E cut \in 0..Len(shown) :
  /\ ~moving /\ main < MaxConversations
  /\ main' = main + 1 /\ shown' = SubSeq(shown, 1, cut) /\ adrift' = TRUE
  /\ UNCHANGED <<slots, moving, updates>>

MemoryNext == UpdateTodos \/ CompactionCommits \/ EventHandled \/ EventLost \/ RewindTo

MemorySpec == MemoryInit /\ [][MemoryNext]_memoryVars

(* -------------------------------- properties ------------------------------- *)

\* The numbers of a list are distinct, and below the next one to be given: an item
\* that comes back later, or twice, never takes another's number.
NumbersAreItems == \A c \in 1..MaxConversations :
  LET todos == slots[c].todos IN
  /\ \A i, j \in 1..Len(todos) : i # j => todos[i].id # todos[j].id
  /\ \A i \in 1..Len(todos) : todos[i].id < slots[c].nextId

\* The list the agent reads, and the panel shows, is the last one the model was
\* answered with, through every compaction whose event was handled.
PlanFollows ==
  ~moving /\ ~adrift /\ shown # <<>> => slots[main].todos = shown[Len(shown)]

\* The todo list of a conversation keeps its numbers and follows the agent.
MemorySound == NumbersAreItems /\ PlanFollows

================================================================================
