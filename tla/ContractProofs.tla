--------------------------- MODULE ContractProofs ---------------------------
(***************************************************************************)
(* The drive implements the contract of a turn, for every value of its     *)
(* constants.  A step of the drive leaves one of seven marks on the path;  *)
(* each of them is a step of the contract, or nothing the contract sees.   *)
(* And a deferred call is polled only when something asked for it: the     *)
(* invariant counts, beside the starts of a body, the one in hand and the  *)
(* ones the next passes owe.                                               *)
(***************************************************************************)
EXTENDS TurnProofs, FiniteSetTheorems

-----------------------------------------------------------------------------
(* What the contract sees of a path.                                       *)

ToolsOf(p) == {j \in DOMAIN p : Holds(p, j, "tool")}
FinishesOf(p) == {i \in DOMAIN p : Holds(p, i, "finish")}
CallOf(x) == [stage |-> StageOf(x.status), tries |-> Len(x.attempts)]

\* The calls of a path, one by one.
LEMMA CallsFacts ==
    ASSUME NEW p
    PROVE  /\ DOMAIN CallsOf(p) = ToolsOf(p)
           /\ \A i \in ToolsOf(p) : CallsOf(p)[i] = CallOf(p[i])
           /\ CallsOf(p) = [i \in ToolsOf(p) |-> CallsOf(p)[i]]
BY DEF CallsOf, ToolsOf, CallOf

\* Two paths with the same calls are the same to the contract.
LEMMA CallsSame ==
    ASSUME NEW p, NEW q, ToolsOf(q) = ToolsOf(p),
           \A i \in ToolsOf(p) : q[i] = p[i]
    PROVE  CallsOf(q) = CallsOf(p)
<1>1. \A i \in ToolsOf(p) : CallsOf(q)[i] = CallsOf(p)[i]
  BY CallsFacts
<1>2. CallsOf(q) = [i \in ToolsOf(p) |-> CallsOf(q)[i]] /\ CallsOf(p) = [i \in ToolsOf(p) |-> CallsOf(p)[i]]
  BY CallsFacts
<1> QED
  BY <1>1, <1>2

\* The last close is what is seen of the closes.
LEMMA OutcomeFacts ==
    ASSUME NEW p \in Seq(Entries), NEW f \in FinishesOf(p), \A g \in FinishesOf(p) : g <= f
    PROVE  OutcomeOf(p) = p[f].outcome
<1>1. FinishesOf(p) \subseteq Nat
  BY DEF FinishesOf
<1>2. OutcomeOf(p) = p[CHOOSE g \in FinishesOf(p) : \A h \in FinishesOf(p) : h <= g].outcome
  BY DEF OutcomeOf, FinishesOf
<1>3. (CHOOSE g \in FinishesOf(p) : \A h \in FinishesOf(p) : h <= g) = f
  <2> DEFINE c == CHOOSE g \in FinishesOf(p) : \A h \in FinishesOf(p) : h <= g
  <2>1. c \in FinishesOf(p) /\ \A h \in FinishesOf(p) : h <= c
    OBVIOUS
  <2> HIDE DEF c
  <2>2. c = f
    BY <1>1, <2>1
  <2> QED
    BY <2>2 DEF c
<1> QED
  BY <1>2, <1>3

\* Two paths with the same closes show the same outcome.
LEMMA OutcomeSame ==
    ASSUME NEW p \in Seq(Entries), NEW q \in Seq(Entries), FinishesOf(q) = FinishesOf(p),
           \A i \in FinishesOf(p) : q[i] = p[i]
    PROVE  OutcomeOf(q) = OutcomeOf(p)
<1>1. CASE FinishesOf(p) = {}
  BY <1>1 DEF OutcomeOf, FinishesOf
<1>2. CASE FinishesOf(p) # {}
  <2>1. FinishesOf(p) \in SUBSET (1..Len(p)) /\ Len(p) \in Nat
    BY DEF FinishesOf
  <2>2. PICK f \in FinishesOf(p) : \A g \in FinishesOf(p) : g <= f
    BY <1>2, <2>1, Greatest
  <2>3. OutcomeOf(p) = p[f].outcome /\ OutcomeOf(q) = q[f].outcome
    BY <2>2, OutcomeFacts
  <2> QED
    BY <2>3
<1> QED
  BY <1>1, <1>2

\* The reads of the open turn are truth values.
LEMMA Truths == \A p : HasOpenTurn(p) \in BOOLEAN /\ CancelIsPending(p) \in BOOLEAN
BY DEF HasOpenTurn, CancelIsPending

-----------------------------------------------------------------------------
(* The marks a step may leave.                                             *)

\* A message of the user or of the model is nothing to the contract.
LEMMA SaidMark ==
    ASSUME IInv, NEW e \in Entries, e.kind \in {"user", "assistant"}, path' = Append(path, e)
    PROVE  UNCHANGED Contract!contract
<1>1. path \in Seq(Entries)
  BY DEF IInv, TypeOK
<1>2. /\ path' \in Seq(Entries) /\ DOMAIN path = 1..Len(path) /\ DOMAIN path' = 1..(Len(path) + 1)
      /\ \A i \in DOMAIN path : path'[i] = path[i]
      /\ path'[Len(path) + 1] = e /\ Len(path) \in Nat
  BY <1>1, AppendFacts
<1>3. ToolsOf(path') = ToolsOf(path) /\ FinishesOf(path') = FinishesOf(path)
  BY <1>2 DEF ToolsOf, FinishesOf, Holds
<1>4. CallsOf(path') = CallsOf(path)
  BY <1>2, <1>3, CallsSame DEF ToolsOf
<1>5. OutcomeOf(path') = OutcomeOf(path)
  BY <1>1, <1>2, <1>3, OutcomeSame DEF FinishesOf
<1>6. (HasOpenTurn(path') <=> HasOpenTurn(path)) /\ (CancelIsPending(path') <=> CancelIsPending(path))
  BY <1>1, AppendOpenTurn
<1>7. HasOpenTurn(path') = HasOpenTurn(path) /\ CancelIsPending(path') = CancelIsPending(path)
  BY <1>6, Truths
<1> QED
  BY <1>4, <1>5, <1>7 DEF Contract!contract

\* Opening the turn.
LEMMA OpenedMark ==
    ASSUME IInv, ~HasOpenTurn(path), path' = Append(path, TurnStart)
    PROVE  Contract!Open
<1>1. path \in Seq(Entries) /\ TurnStart \in Entries /\ TurnStart.kind = "start"
  BY DEF IInv, TypeOK, Entries, TurnStart
<1>2. /\ path' \in Seq(Entries) /\ DOMAIN path = 1..Len(path) /\ DOMAIN path' = 1..(Len(path) + 1)
      /\ \A i \in DOMAIN path : path'[i] = path[i]
      /\ path'[Len(path) + 1] = TurnStart /\ Len(path) \in Nat
  BY <1>1, AppendFacts
<1>3. ToolsOf(path') = ToolsOf(path) /\ FinishesOf(path') = FinishesOf(path)
  BY <1>1, <1>2 DEF ToolsOf, FinishesOf, Holds
<1>4. CallsOf(path') = CallsOf(path)
  BY <1>2, <1>3, CallsSame DEF ToolsOf
<1>5. OutcomeOf(path') = OutcomeOf(path)
  BY <1>1, <1>2, <1>3, OutcomeSame DEF FinishesOf
<1>6. HasOpenTurn(path') /\ ~CancelIsPending(path') /\ ~CancelIsPending(path)
  BY <1>1, AppendStart, NoOpenTurn
<1>7. HasOpenTurn(path') = TRUE /\ CancelIsPending(path') = CancelIsPending(path)
  BY <1>6, Truths
<1> QED
  BY <1>4, <1>5, <1>7 DEF Contract!Open

\* Asking the open turn to cancel.
LEMMA CancelledMark ==
    ASSUME IInv, HasOpenTurn(path), ~CancelIsPending(path),
           NEW e \in Entries, e.kind = "cancel", path' = Append(path, e)
    PROVE  Contract!AskCancel
<1>1. path \in Seq(Entries)
  BY DEF IInv, TypeOK
<1>2. /\ path' \in Seq(Entries) /\ DOMAIN path = 1..Len(path) /\ DOMAIN path' = 1..(Len(path) + 1)
      /\ \A i \in DOMAIN path : path'[i] = path[i]
      /\ path'[Len(path) + 1] = e /\ Len(path) \in Nat
  BY <1>1, AppendFacts
<1>3. ToolsOf(path') = ToolsOf(path) /\ FinishesOf(path') = FinishesOf(path)
  BY <1>2 DEF ToolsOf, FinishesOf, Holds
<1>4. CallsOf(path') = CallsOf(path)
  BY <1>2, <1>3, CallsSame DEF ToolsOf
<1>5. OutcomeOf(path') = OutcomeOf(path)
  BY <1>1, <1>2, <1>3, OutcomeSame DEF FinishesOf
<1>6. (HasOpenTurn(path') <=> HasOpenTurn(path)) /\ CancelIsPending(path')
  BY <1>1, AppendOpenTurn
<1>7. HasOpenTurn(path') = HasOpenTurn(path) /\ CancelIsPending(path') = TRUE
  BY <1>6, Truths
<1> QED
  BY <1>4, <1>5, <1>7 DEF Contract!AskCancel

\* A response and the calls it made.
LEMMA CalledMark ==
    ASSUME IInv, HasOpenTurn(path), NEW a \in Entries, a.kind = "assistant", NEW n \in Nat,
           path' = Append(path, a) \o [k \in 1..n |-> ReceivedExecution]
    PROVE  Contract!Receive
<1>1. path \in Seq(Entries)
  BY DEF IInv, TypeOK
<1>2. /\ ReceivedExecution \in Entries /\ ReceivedExecution.kind = "tool"
      /\ CallOf(ReceivedExecution) = Contract!Start
  BY DEF Entries, ToolExecutions, ReceivedExecution, Statuses, NonterminalStatuses, TerminalStatuses,
         Approvals, CallOf, StageOf, Contract!Start
<1>3. DOMAIN path = 1..Len(path) /\ Len(path) \in Nat
  BY <1>1
<1>5. /\ path' \in Seq(Entries) /\ Len(path') = Len(path) + 1 + n
      /\ DOMAIN path' = 1..(Len(path) + 1 + n)
      /\ \A i \in DOMAIN path : path'[i] = path[i]
      /\ path'[Len(path) + 1] = a
      /\ \A i \in DOMAIN path' : i > Len(path) + 1 => path'[i] = ReceivedExecution
  <2>1. path' = Called(path, a, n)
    BY DEF Called
  <2>2. IsCalled(path, a, n, Called(path, a, n))
    BY <1>1, ResponseAdds
  <2>3. IsCalled(path, a, n, path')
    BY <2>1, <2>2
  <2> QED
    BY <2>3 DEF IsCalled
<1>6. /\ ToolsOf(path) \subseteq ToolsOf(path')
      /\ \A i \in ToolsOf(path') \ ToolsOf(path) : path'[i] = ReceivedExecution
      /\ \A i \in ToolsOf(path) : path'[i] = path[i]
      /\ FinishesOf(path') = FinishesOf(path)
  BY <1>2, <1>3, <1>5 DEF ToolsOf, FinishesOf, Holds
<1>7. OutcomeOf(path') = OutcomeOf(path)
  BY <1>1, <1>5, <1>6, OutcomeSame DEF FinishesOf
<1>8. \A i \in DOMAIN path' \ DOMAIN path : path'[i].kind \in {"assistant", "tool"}
  BY <1>2, <1>3, <1>5
<1>9. (HasOpenTurn(path') <=> HasOpenTurn(path)) /\ (CancelIsPending(path') <=> CancelIsPending(path))
  <2>1. /\ Len(path) <= Len(path')
        /\ \A i \in DOMAIN path' \ DOMAIN path : path'[i].kind \notin {"start", "finish"}
        /\ ~\E i \in DOMAIN path' \ DOMAIN path : path'[i].kind = "cancel"
    BY <1>3, <1>5, <1>8
  <2>2. /\ path \in Seq(Entries) /\ path' \in Seq(Entries) /\ \A i \in DOMAIN path : path'[i] = path[i]
    BY <1>1, <1>5
  <2>3. /\ HasOpenTurn(path') <=> HasOpenTurn(path)
        /\ CancelIsPending(path') <=>
             \/ CancelIsPending(path)
             \/ HasOpenTurn(path) /\ \E i \in DOMAIN path' \ DOMAIN path : path'[i].kind = "cancel"
    BY <2>1, <2>2, ExtendOpenTurn, ZenonT(30)
  <2> QED
    BY <2>1, <2>3
<1>10. HasOpenTurn(path') = HasOpenTurn(path) /\ CancelIsPending(path') = CancelIsPending(path)
  BY <1>9, Truths
<1>11. /\ DOMAIN CallsOf(path) \subseteq DOMAIN CallsOf(path')
       /\ \A i \in DOMAIN CallsOf(path') :
            CallsOf(path')[i] = IF i \in DOMAIN CallsOf(path) THEN CallsOf(path)[i]
                                ELSE Contract!Start
  <2>1. DOMAIN CallsOf(path) = ToolsOf(path) /\ DOMAIN CallsOf(path') = ToolsOf(path')
    BY CallsFacts
  <2>2. ASSUME NEW i \in ToolsOf(path)
        PROVE  CallsOf(path')[i] = CallsOf(path)[i]
    <3>1. i \in ToolsOf(path') /\ path'[i] = path[i]
      BY <1>6, <2>2
    <3>2. CallsOf(path)[i] = CallOf(path[i])
      BY <2>2, CallsFacts
    <3>3. CallsOf(path')[i] = CallOf(path'[i])
      BY <3>1, CallsFacts
    <3> QED
      BY <3>1, <3>2, <3>3
  <2>3. ASSUME NEW i \in ToolsOf(path'), i \notin ToolsOf(path)
        PROVE  CallsOf(path')[i] = Contract!Start
    <3>1. CallsOf(path')[i] = CallOf(path'[i])
      BY <2>3, CallsFacts
    <3> QED
      BY <1>2, <1>6, <2>3, <3>1
  <2> QED
    BY <1>6, <2>1, <2>2, <2>3
<1> QED
  BY <1>7, <1>10, <1>11 DEF Contract!Receive

\* One call is rewritten as the contract allows.
GoesOn(x, y) ==
    /\ x.kind = "tool" /\ y.kind = "tool"
    /\ CallOf(y) = CallOf(x) \/ Contract!Moves(CallOf(x), CallOf(y))

\* Calls of the open turn are rewritten in place.
LEMMA RewrittenMark ==
    ASSUME IInv, IInv', HasOpenTurn(path), DOMAIN path' = DOMAIN path,
           \A i \in DOMAIN path : path'[i] = path[i] \/ GoesOn(path[i], path'[i]),
           CancelIsPending(path) =>
               \A i \in ToolsOf(path) : Len(path'[i].attempts) = Len(path[i].attempts)
    PROVE  Contract!Advance
<1>1. path \in Seq(Entries) /\ path' \in Seq(Entries)
  BY DEF IInv, TypeOK
<1>2. \A i \in DOMAIN path : path'[i].kind = path[i].kind
  BY DEF GoesOn
<1>3. ToolsOf(path') = ToolsOf(path) /\ FinishesOf(path') = FinishesOf(path)
  BY <1>2 DEF ToolsOf, FinishesOf, Holds
<1>4. \A i \in FinishesOf(path) : path'[i] = path[i]
  BY DEF GoesOn, FinishesOf, Holds
<1>5. OutcomeOf(path') = OutcomeOf(path)
  BY <1>1, <1>3, <1>4, OutcomeSame
<1>6. (HasOpenTurn(path') <=> HasOpenTurn(path)) /\ (CancelIsPending(path') <=> CancelIsPending(path))
  BY <1>1, <1>2, RewriteOpenTurn
<1>7. HasOpenTurn(path') = HasOpenTurn(path) /\ CancelIsPending(path') = CancelIsPending(path)
  BY <1>6, Truths
<1>8. DOMAIN CallsOf(path') = DOMAIN CallsOf(path)
  BY <1>3, CallsFacts
<1>9. ASSUME NEW i \in DOMAIN CallsOf(path)
      PROVE  CallsOf(path')[i] = CallsOf(path)[i] \/ Contract!Moves(CallsOf(path)[i], CallsOf(path')[i])
  <2>1. i \in ToolsOf(path) /\ i \in DOMAIN path
    BY CallsFacts DEF ToolsOf
  <2>2. CallsOf(path)[i] = CallOf(path[i]) /\ CallsOf(path')[i] = CallOf(path'[i])
    BY <1>3, <2>1, CallsFacts
  <2> QED
    BY <2>1, <2>2 DEF GoesOn
<1>10. CancelIsPending(path) =>
         \A i \in DOMAIN CallsOf(path) : CallsOf(path')[i].tries = CallsOf(path)[i].tries
  <2>1. ASSUME CancelIsPending(path), NEW i \in DOMAIN CallsOf(path)
        PROVE  CallsOf(path')[i].tries = CallsOf(path)[i].tries
    <3>1. i \in ToolsOf(path)
      BY CallsFacts
    <3>2. CallsOf(path)[i] = CallOf(path[i]) /\ CallsOf(path')[i] = CallOf(path'[i])
      BY <1>3, <3>1, CallsFacts
    <3> QED
      BY <2>1, <3>1, <3>2 DEF CallOf
  <2> QED
    BY <2>1
<1> QED
  BY <1>5, <1>7, <1>8, <1>9, <1>10 DEF Contract!Advance, Contract!AllMoveOrStay

\* q is p with live calls settled and entries appended that are no calls.
Steady(p, q) ==
    /\ Kept(p, q)
    /\ \A i \in ToolsOf(p) : Len(q[i].attempts) = Len(p[i].attempts)
    /\ \A i \in DOMAIN q \ DOMAIN p : q[i].kind # "tool"

\* The open turn is closed over calls that are done.
LEMMA ClosedMark ==
    ASSUME IInv, IInv', HasOpenTurn(path), NEW s \in Seq(Entries), Steady(path, s),
           NEW o \in TurnOutcomes, CancelIsPending(path) => o # "completed",
           path' = Append(s, TurnFinish(o))
    PROVE  Contract!Close
<1>1. path \in Seq(Entries) /\ path' \in Seq(Entries)
  BY DEF IInv, TypeOK
<1>2. TurnFinish(o) \in Entries /\ TurnFinish(o).kind = "finish" /\ TurnFinish(o).outcome = o
  BY DEF Entries, TurnFinish
<1>3. /\ DOMAIN s = 1..Len(s) /\ DOMAIN path' = 1..(Len(s) + 1) /\ Len(s) \in Nat
      /\ \A i \in DOMAIN s : path'[i] = s[i]
      /\ path'[Len(s) + 1] = TurnFinish(o)
  BY <1>2, AppendFacts
<1>4. ~HasOpenTurn(path') /\ ~CancelIsPending(path')
  BY AppendFinish
<1>5. HasOpenTurn(path') = FALSE /\ CancelIsPending(path') = FALSE
  BY <1>4, Truths
<1>6. OutcomeOf(path') = o
  <2>1. Len(s) + 1 \in FinishesOf(path') /\ \A g \in FinishesOf(path') : g <= Len(s) + 1
    BY <1>2, <1>3 DEF FinishesOf, Holds
  <2>2. OutcomeOf(path') = path'[Len(s) + 1].outcome
    BY <1>1, <2>1, OutcomeFacts
  <2> QED
    BY <1>2, <1>3, <2>2
<1>7. ToolsOf(path') = ToolsOf(path)
  BY <1>2, <1>3 DEF ToolsOf, Steady, Kept, Holds
<1>8. ASSUME NEW i \in ToolsOf(path)
      PROVE  /\ CallOf(path'[i]).stage = "done"
             /\ CallOf(path'[i]).tries = CallOf(path[i]).tries
             /\ CallOf(path'[i]) = CallOf(path[i]) \/ Contract!Moves(CallOf(path[i]), CallOf(path'[i]))
  <2>1. i \in DOMAIN path /\ i \in DOMAIN path' /\ i \in DOMAIN s /\ path'[i] = s[i]
    BY <1>3 DEF ToolsOf, Steady, Kept
  <2>2. path[i] \in ToolExecutions /\ path'[i] \in ToolExecutions
    BY <1>1, <1>7, <2>1, PathEntry DEF ToolsOf
  <2>3. path'[i].status \in TerminalStatuses
    <3>1. ~InOpenTurn(path', i)
      BY <1>4, NoOpenTurn
    <3>2. path'[i].status \notin NonterminalStatuses
      BY <1>7, <2>1, <3>1 DEF IInv, SettledBehindClose, ToolsOf
    <3> QED
      BY <2>2, <3>2 DEF ToolExecutions, Statuses
  <2>4. CallOf(path'[i]).stage = "done" /\ CallOf(path'[i]).tries = CallOf(path[i]).tries
    BY <2>1, <2>3 DEF CallOf, StageOf, Steady
  <2>5. CASE s[i] = path[i]
    BY <2>1, <2>4, <2>5
  <2>6. CASE s[i] # path[i]
    <3>1. path[i].status \in NonterminalStatuses
      BY <2>1, <2>6 DEF Steady, Kept
    <3>2. CallOf(path[i]).stage \in {"asked", "waiting", "running", "parked"}
      BY <3>1 DEF CallOf, StageOf, NonterminalStatuses, TerminalStatuses
    <3> QED
      BY <2>4, <3>2 DEF Contract!Moves
  <2> QED
    BY <2>4, <2>5, <2>6
<1>9. DOMAIN CallsOf(path') = ToolsOf(path) /\ DOMAIN CallsOf(path) = ToolsOf(path)
  BY <1>7, CallsFacts
<1>10. \A i \in ToolsOf(path) : /\ CallsOf(path)[i] = CallOf(path[i])
                                /\ CallsOf(path')[i] = CallOf(path'[i])
  BY <1>7, CallsFacts
<1>11. o \in {"completed", "errored", "timed_out", "cancelled"}
  BY DEF TurnOutcomes
<1>12. Contract!AllMoveOrStay(DOMAIN CallsOf(path))
  BY <1>8, <1>9, <1>10 DEF Contract!AllMoveOrStay
<1>13. \A i \in DOMAIN CallsOf(path') :
         CallsOf(path')[i].stage = "done" /\ CallsOf(path')[i].tries = CallsOf(path)[i].tries
  <2> SUFFICES ASSUME NEW i \in ToolsOf(path)
               PROVE  CallsOf(path')[i].stage = "done" /\ CallsOf(path')[i].tries = CallsOf(path)[i].tries
    BY <1>9
  <2>1. CallOf(path'[i]).stage = "done" /\ CallOf(path'[i]).tries = CallOf(path[i]).tries
    BY <1>8
  <2>2. CallsOf(path)[i] = CallOf(path[i]) /\ CallsOf(path')[i] = CallOf(path'[i])
    BY <1>10
  <2> QED
    BY <2>1, <2>2
<1>14. /\ OutcomeOf(path') \in {"completed", "errored", "timed_out", "cancelled"}
       /\ CancelIsPending(path) => OutcomeOf(path') # "completed"
  BY <1>6, <1>11
<1>15. DOMAIN CallsOf(path') = DOMAIN CallsOf(path)
  BY <1>9
<1> QED
  BY <1>5, <1>12, <1>13, <1>14, <1>15 DEF Contract!Close

\* A path that stays as it is stays so to the contract.
LEMMA StillMark ==
    ASSUME path' = path
    PROVE  UNCHANGED Contract!contract
BY DEF Contract!contract

-----------------------------------------------------------------------------
(* What the writes do to one call and to a path.                           *)

\* Finalize keeps the tries.
LEMMA FinalizeTries ==
    ASSUME NEW x \in ToolExecutions, NEW s \in Statuses
    PROVE  Len(Finalize(x, s).attempts) = Len(x.attempts)
<1>1. AttemptOutcomeOf(s) \in AttemptOutcomes
  BY DEF AttemptOutcomeOf, AttemptOutcomes
<1> QED
  BY <1>1, FinalizeFacts, CloseAttemptFacts DEF ToolExecutions

\* The moves of a call that Finalize makes.
LEMMA FinalizeGoesOn ==
    ASSUME NEW x \in ToolExecutions, NEW s \in Statuses,
           \/ x.status \in NonterminalStatuses /\ s \in TerminalStatuses
           \/ x.status = "received" /\ s = "pending"
           \/ x.status = "running" /\ s = "awaiting_result"
    PROVE  GoesOn(x, Finalize(x, s)) /\ Len(Finalize(x, s).attempts) = Len(x.attempts)
<1>1. x.kind = "tool" /\ Finalize(x, s).kind = "tool" /\ Finalize(x, s).status = s
  BY FinalizeFacts DEF ToolExecutions
<1>2. Len(Finalize(x, s).attempts) = Len(x.attempts)
  BY FinalizeTries
<1>3. CallOf(Finalize(x, s)) = [stage |-> StageOf(s), tries |-> Len(x.attempts)]
  BY <1>1, <1>2 DEF CallOf
<1>4. Contract!Moves(CallOf(x), CallOf(Finalize(x, s)))
  BY <1>3 DEF Contract!Moves, CallOf, StageOf, NonterminalStatuses, TerminalStatuses
<1> QED
  BY <1>1, <1>2, <1>4 DEF GoesOn

\* The settle is steady.
LEMMA SettleSteady ==
    ASSUME NEW p \in Seq(Entries)
    PROVE  /\ Steady(p, SettleOpenExecutions(p)) /\ SettleOpenExecutions(p) \in Seq(Entries)
           /\ DOMAIN SettleOpenExecutions(p) = DOMAIN p
           /\ \A i \in DOMAIN p : \/ SettleOpenExecutions(p)[i] = p[i]
                                  \/ GoesOn(p[i], SettleOpenExecutions(p)[i])
<1> DEFINE q == SettleOpenExecutions(p)
<1>1. q = [i \in DOMAIN p |->
              IF i \in UndispatchedExecutions(p) THEN Finalize(p[i], "cancelled")
              ELSE IF i \in ParkedExecutions(p) THEN Finalize(p[i], "interrupted")
              ELSE p[i]]
  BY DEF SettleOpenExecutions
<1>2. Kept(p, q) /\ q = [i \in DOMAIN p |-> q[i]] /\ \A i \in DOMAIN p : q[i] \in Entries
  BY SettleGentle DEF Gentle
<1>3. q \in Seq(Entries) /\ DOMAIN q = DOMAIN p
  BY <1>2, RewriteFacts
<1>4. \A i \in UndispatchedExecutions(p) \cup ParkedExecutions(p) :
         i \in DOMAIN p /\ Holds(p, i, "tool") /\ p[i].status \in NonterminalStatuses
  BY DEF UndispatchedExecutions, ParkedExecutions, WithStatus, OpenTurnExecutions,
         OpenTurnEntries, NonterminalStatuses
<1> HIDE DEF q
<1>5. ASSUME NEW i \in DOMAIN p, q[i] # p[i]
      PROVE  GoesOn(p[i], q[i]) /\ Len(q[i].attempts) = Len(p[i].attempts)
  <2>1. PICK s \in {"cancelled", "interrupted"} : q[i] = Finalize(p[i], s)
    BY <1>1, <1>5
  <2>2. i \in UndispatchedExecutions(p) \cup ParkedExecutions(p)
    BY <1>1, <1>5
  <2>3. p[i] \in ToolExecutions /\ p[i].status \in NonterminalStatuses
    BY <1>4, <2>2, PathEntry
  <2>4. s \in Statuses /\ s \in TerminalStatuses
    BY DEF Statuses, TerminalStatuses
  <2> QED
    BY <2>1, <2>3, <2>4, FinalizeGoesOn
<1>6. Steady(p, q)
  BY <1>2, <1>3, <1>5 DEF Steady, ToolsOf
<1> QED
  BY <1>3, <1>5, <1>6 DEF q

\* An entry that is no call is steady, and what is steady to the grown path is so
\* to the path.
LEMMA GrownSteady ==
    ASSUME NEW p \in Seq(Entries), NEW a \in Entries, a.kind # "tool"
    PROVE  /\ Steady(p, p) /\ Steady(p, Append(p, a))
           /\ \A q : Steady(Append(p, a), q) => Steady(p, q)
<1>1. /\ DOMAIN p = 1..Len(p) /\ DOMAIN Append(p, a) = 1..(Len(p) + 1) /\ Len(p) \in Nat
      /\ \A i \in DOMAIN p : Append(p, a)[i] = p[i]
      /\ Append(p, a)[Len(p) + 1] = a
  BY AppendFacts
<1>2. Steady(p, p) /\ Steady(p, Append(p, a))
  BY <1>1 DEF Steady, Kept, ToolsOf
<1>3. ASSUME NEW q, Steady(Append(p, a), q)
      PROVE  Steady(p, q)
  <2>1. Kept(p, q)
    BY <1>1, <1>3 DEF Steady, Kept, Holds
  <2>2. \A i \in ToolsOf(p) : Len(q[i].attempts) = Len(p[i].attempts)
    BY <1>1, <1>3 DEF Steady, ToolsOf, Holds
  <2>3. ASSUME NEW i \in DOMAIN q \ DOMAIN p
        PROVE  q[i].kind # "tool"
    <3>1. CASE i \in DOMAIN Append(p, a)
      <4>1. Append(p, a)[i] = a
        BY <1>1, <2>3, <3>1
      <4> QED
        BY <1>3, <3>1, <4>1 DEF Steady, Kept, Holds
    <3>2. CASE i \notin DOMAIN Append(p, a)
      BY <1>3, <2>3, <3>2 DEF Steady
    <3> QED
      BY <3>1, <3>2
  <2> QED
    BY <2>1, <2>2, <2>3 DEF Steady
<1> QED
  BY <1>2, <1>3

-----------------------------------------------------------------------------
(* Every action leaves one of the marks.                                   *)

ContractStep == Contract!ContractNext \/ UNCHANGED Contract!contract

\* The engine is past its opening and before its end only inside an open turn.
LEMMA OpenHere ==
    ASSUME IInv, pc \in Engaged \ {"drive", "ending"}
    PROVE  HasOpenTurn(path)
BY DEF IInv, OpenInv

\* The doors say something, open the turn, or ask it to cancel.
LEMMA DoorsMark ==
    ASSUME IInv, Doors
    PROVE  ContractStep
<1>1. CASE Post
  <2>1. UserMessage \in Entries /\ UserMessage.kind = "user"
    BY DEF Entries, UserMessage
  <2> QED
    BY <1>1, <2>1, SaidMark DEF Post, ContractStep
<1>2. ASSUME NEW o \in CancelOutcomes, Cancel(o)
      PROVE  ContractStep
  <2>1. CancelRequested(o) \in Entries /\ CancelRequested(o).kind = "cancel"
    BY TurnAssumption DEF Entries, CancelRequested
  <2>2. Contract!AskCancel
    BY <1>2, <2>1, CancelledMark DEF Cancel
  <2> QED
    BY <2>2 DEF ContractStep, Contract!ContractNext
<1>3. ASSUME NEW eager \in BOOLEAN, Begin(eager)
      PROVE  ContractStep
  <2>1. CASE ~HasOpenTurn(path) /\ path' = Append(path, TurnStart)
    BY <2>1, OpenedMark DEF ContractStep, Contract!ContractNext
  <2>2. CASE path' = path
    BY <2>2, StillMark DEF ContractStep
  <2> QED
    BY <1>3, <2>1, <2>2 DEF Begin
<1>4. CASE Notify \/ Suspend \/ Crash
  BY <1>4, StillMark DEF Notify, Suspend, Crash, ContractStep
<1> QED
  BY <1>1, <1>2, <1>3, <1>4 DEF Doors

\* A fresh drive opens the turn, or discards the orphans of an open one.
LEMMA DriveMark ==
    ASSUME IInv, IInv', Drive
    PROVE  ContractStep
<1>1. path \in Seq(Entries) /\ TurnStart \in Entries
  BY DEF IInv, TypeOK, Entries
<1>2. CASE HasOpenTurn(path)
  <2>1. path' = [i \in DOMAIN path |->
                   IF i \in RunningExecutions(path) THEN Discard(path[i]) ELSE path[i]]
    BY <1>2 DEF Drive
  <2>2. ASSUME NEW i \in DOMAIN path, i \in RunningExecutions(path)
        PROVE  GoesOn(path[i], Discard(path[i])) /\ Len(Discard(path[i]).attempts) = Len(path[i].attempts)
    <3>1. Holds(path, i, "tool") /\ path[i].status = "running"
      BY <2>2 DEF RunningExecutions, WithStatus, OpenTurnExecutions, OpenTurnEntries
    <3>2. path[i] \in ToolExecutions
      BY <1>1, <3>1, PathEntry
    <3>3. /\ Discard(path[i]).kind = "tool" /\ Discard(path[i]).status = "interrupted"
          /\ Discard(path[i]).attempts = CloseAttempt(path[i].attempts, "discarded")
      BY <3>2 DEF Discard, ToolExecutions
    <3>4. Len(Discard(path[i]).attempts) = Len(path[i].attempts)
      BY <3>2, <3>3, CloseAttemptFacts DEF ToolExecutions, AttemptOutcomes
    <3>5. Contract!Moves(CallOf(path[i]), CallOf(Discard(path[i])))
      BY <3>1, <3>3, <3>4 DEF Contract!Moves, CallOf, StageOf, TerminalStatuses
    <3> QED
      BY <3>1, <3>3, <3>4, <3>5 DEF GoesOn, Holds
  <2>3. DOMAIN path' = DOMAIN path /\ \A i \in DOMAIN path : path'[i] = path[i] \/ GoesOn(path[i], path'[i])
    BY <2>1, <2>2
  <2>4. \A i \in ToolsOf(path) : Len(path'[i].attempts) = Len(path[i].attempts)
    BY <2>1, <2>2 DEF ToolsOf
  <2>5. Contract!Advance
    BY <1>2, <2>3, <2>4, RewrittenMark
  <2> QED
    BY <2>5 DEF ContractStep, Contract!ContractNext
<1>3. CASE ~HasOpenTurn(path)
  <2> DEFINE q == Append(path, TurnStart)
  <2>1. /\ q \in Seq(Entries) /\ DOMAIN q = 1..(Len(path) + 1) /\ DOMAIN path = 1..Len(path)
        /\ \A i \in DOMAIN path : ~InOpenTurn(q, i)
        /\ q[Len(path) + 1] = TurnStart /\ TurnStart.kind = "start" /\ Len(path) \in Nat
    BY <1>1, AppendFacts, AppendStart DEF TurnStart
  <2>2. path' = [i \in DOMAIN q |-> IF i \in RunningExecutions(q) THEN Discard(q[i]) ELSE q[i]]
    BY <1>3 DEF Drive
  <2> HIDE DEF q
  <2>3. RunningExecutions(q) = {}
    BY <2>1 DEF RunningExecutions, WithStatus, OpenTurnExecutions, OpenTurnEntries, Holds
  <2>4. path' = q
    BY <2>1, <2>2, <2>3
  <2>5. Contract!Open
    BY <1>3, <2>4, OpenedMark DEF q
  <2> QED
    BY <2>5 DEF ContractStep, Contract!ContractNext
<1> QED
  BY <1>2, <1>3

\* Births rewrite received calls.
LEMMA BirthMark ==
    ASSUME IInv, IInv', Birth
    PROVE  ContractStep
<1>1. PICK born \in [ReceivedExecutions(path) ->
                       BirthStatuses \cup (IF token THEN {"pending"} ELSE {})] :
        path' = [i \in DOMAIN path |->
                   IF i \in DOMAIN born THEN Finalize(path[i], born[i]) ELSE path[i]]
  BY DEF Birth
<1>2. path \in Seq(Entries) /\ HasOpenTurn(path)
  BY OpenHere DEF IInv, TypeOK, Birth, Engaged, Suspended, Raced
<1>3. ASSUME NEW i \in DOMAIN path, i \in ReceivedExecutions(path)
      PROVE  /\ GoesOn(path[i], Finalize(path[i], born[i]))
             /\ Len(Finalize(path[i], born[i]).attempts) = Len(path[i].attempts)
  <2>1. Holds(path, i, "tool") /\ path[i].status = "received"
    BY <1>3 DEF ReceivedExecutions, WithStatus, OpenTurnExecutions, OpenTurnEntries
  <2>2. path[i] \in ToolExecutions
    BY <1>2, <2>1, PathEntry
  <2>3. born[i] \in {"pending", "not_found", "invalid", "failed", "refused"}
    BY <1>3, TurnAssumption
  <2>4. born[i] \in Statuses /\ (born[i] = "pending" \/ born[i] \in TerminalStatuses)
    BY <2>3 DEF Statuses, TerminalStatuses, NonterminalStatuses
  <2> QED
    BY <2>1, <2>2, <2>4, FinalizeGoesOn DEF NonterminalStatuses
<1>4. DOMAIN path' = DOMAIN path /\ \A i \in DOMAIN path : path'[i] = path[i] \/ GoesOn(path[i], path'[i])
  BY <1>1, <1>3
<1>5. \A i \in ToolsOf(path) : Len(path'[i].attempts) = Len(path[i].attempts)
  BY <1>1, <1>3 DEF ToolsOf
<1>6. Contract!Advance
  BY <1>2, <1>4, <1>5, RewrittenMark
<1> QED
  BY <1>6 DEF ContractStep, Contract!ContractNext

\* A decision ends a waiting call or leaves it waiting.
LEMMA DecideMark ==
    ASSUME IInv, IInv', Decide
    PROVE  ContractStep
<1>1. PICK answered \in SUBSET UndecidedExecutions(path) :
        \E answer \in [answered -> {"allowed", "pending", "rejected"}] :
           path' = [i \in DOMAIN path |->
                      IF i \in answered THEN Decided(path[i], answer[i]) ELSE path[i]]
  BY DEF Decide
<1>2. PICK answer \in [answered -> {"allowed", "pending", "rejected"}] :
        path' = [i \in DOMAIN path |->
                   IF i \in answered THEN Decided(path[i], answer[i]) ELSE path[i]]
  BY <1>1
<1>3. path \in Seq(Entries) /\ HasOpenTurn(path)
  BY OpenHere DEF IInv, TypeOK, Decide, Engaged, Suspended, Raced
<1>4. ASSUME NEW i \in DOMAIN path, i \in answered
      PROVE  /\ GoesOn(path[i], Decided(path[i], answer[i]))
             /\ Len(Decided(path[i], answer[i]).attempts) = Len(path[i].attempts)
  <2>1. Holds(path, i, "tool") /\ path[i].status = "pending"
    BY <1>4 DEF UndecidedExecutions, WithStatus, OpenTurnExecutions, OpenTurnEntries
  <2>2. path[i] \in ToolExecutions
    BY <1>3, <2>1, PathEntry
  <2>3. /\ Decided(path[i], answer[i]).kind = "tool"
        /\ Decided(path[i], answer[i]).status \in {"pending", "rejected"}
        /\ Decided(path[i], answer[i]).attempts = path[i].attempts
    BY <2>1, <2>2 DEF Decided, ToolExecutions
  <2>4. \/ CallOf(Decided(path[i], answer[i])) = CallOf(path[i])
        \/ Contract!Moves(CallOf(path[i]), CallOf(Decided(path[i], answer[i])))
    BY <2>1, <2>3 DEF CallOf, StageOf, TerminalStatuses, Contract!Moves
  <2> QED
    BY <2>1, <2>3, <2>4 DEF GoesOn, Holds
<1>5. DOMAIN path' = DOMAIN path /\ \A i \in DOMAIN path : path'[i] = path[i] \/ GoesOn(path[i], path'[i])
  BY <1>2, <1>4
<1>6. \A i \in ToolsOf(path) : Len(path'[i].attempts) = Len(path[i].attempts)
  BY <1>2, <1>4 DEF ToolsOf
<1>7. Contract!Advance
  BY <1>3, <1>5, <1>6, RewrittenMark
<1> QED
  BY <1>7 DEF ContractStep, Contract!ContractNext

\* The current call ends or parks, and its tries stay.
LEMMA CallMark ==
    ASSUME IInv, IInv', NEW i,
           PrepareFails(i) \/ PrepareCancelled(i) \/ BodyEnds(i) \/ BodyDefers(i) \/ BodyKilled(i)
    PROVE  ContractStep
<1>1. IsCurrent(i) /\ pc \in {"prepare", "body"} /\ (BodyDefers(i) => pc = "body")
  BY DEF PrepareFails, PrepareCancelled, BodyEnds, BodyDefers, BodyKilled
<1>2. /\ i \in DOMAIN path /\ Holds(path, i, "tool") /\ path[i] \in ToolExecutions
      /\ path[i].status \in NonterminalStatuses
      /\ BodyDefers(i) => path[i].status = "running"
  BY <1>1, CurrentCall DEF NonterminalStatuses
<1>3. \E s \in TerminalStatuses \cup {"awaiting_result"} :
         /\ path' = [path EXCEPT ![i] = Finalize(path[i], s)]
         /\ s = "awaiting_result" => path[i].status = "running"
  <2>1. CASE BodyDefers(i)
    BY <1>2, <2>1 DEF BodyDefers, Settle
  <2>2. CASE PrepareFails(i) \/ PrepareCancelled(i) \/ BodyEnds(i) \/ BodyKilled(i)
    <3>1. \E s \in TerminalStatuses : path' = [path EXCEPT ![i] = Finalize(path[i], s)]
      BY <2>2, TurnAssumption DEF PrepareFails, PrepareCancelled, BodyEnds, BodyKilled, Settle,
         CancelledInPlace, TerminalStatuses
    <3> QED
      BY <3>1 DEF TerminalStatuses
  <2> QED
    BY <2>1, <2>2
<1>4. PICK s \in TerminalStatuses \cup {"awaiting_result"} :
         /\ path' = [path EXCEPT ![i] = Finalize(path[i], s)]
         /\ s = "awaiting_result" => path[i].status = "running"
  BY <1>3
<1>5. GoesOn(path[i], Finalize(path[i], s)) /\ Len(Finalize(path[i], s).attempts) = Len(path[i].attempts)
  <2>1. s \in Statuses
    BY DEF Statuses, NonterminalStatuses
  <2> QED
    BY <1>2, <1>4, <2>1, FinalizeGoesOn
<1>6. path \in Seq(Entries) /\ HasOpenTurn(path)
  BY <1>1, OpenHere DEF IInv, TypeOK, Engaged, Suspended, Raced
<1>7. /\ DOMAIN path' = DOMAIN path
      /\ \A j \in DOMAIN path : j # i => path'[j] = path[j]
      /\ path'[i] = Finalize(path[i], s)
  BY <1>2, <1>4, <1>6
<1>8. Contract!Advance
  BY <1>5, <1>6, <1>7, RewrittenMark DEF ToolsOf
<1> QED
  BY <1>8 DEF ContractStep, Contract!ContractNext

\* A body starts, one try more, in a turn nobody asked to cancel.
LEMMA StartMark ==
    ASSUME IInv, IInv', NEW i, StartBody(i)
    PROVE  ContractStep
<1>1. IsCurrent(i) /\ pc = "prepare" /\ path' = [path EXCEPT ![i] = Dispatched(path[i])]
  BY DEF StartBody
<1>2. /\ i \in DOMAIN path /\ Holds(path, i, "tool") /\ path[i] \in ToolExecutions
      /\ path[i].status \in {"pending", "awaiting_result"}
  BY <1>1, CurrentCall
<1>3. path \in Seq(Entries) /\ HasOpenTurn(path) /\ ~CancelIsPending(path)
  BY <1>1, OpenHere, StartBodyKept DEF IInv, TypeOK, Engaged, Suspended, Raced
<1>4. /\ DOMAIN path' = DOMAIN path
      /\ \A j \in DOMAIN path : j # i => path'[j] = path[j]
      /\ path'[i] = Dispatched(path[i])
  BY <1>1, <1>2, <1>3
<1>5. /\ Dispatched(path[i]).kind = "tool" /\ Dispatched(path[i]).status = "running"
      /\ Len(Dispatched(path[i]).attempts) = Len(path[i].attempts) + 1
  BY <1>2 DEF Dispatched, ToolExecutions
<1>6. Contract!Moves(CallOf(path[i]), CallOf(Dispatched(path[i])))
  BY <1>2, <1>5 DEF CallOf, StageOf, TerminalStatuses, Contract!Moves
<1>7. GoesOn(path[i], Dispatched(path[i]))
  BY <1>2, <1>5, <1>6 DEF GoesOn, Holds
<1>8. Contract!Advance
  BY <1>3, <1>4, <1>7, RewrittenMark
<1> QED
  BY <1>8 DEF ContractStep, Contract!ContractNext

\* A wind-down closes with what its cancel asks for, which is no completion.
LEMMA WindDownOutcome ==
    ASSUME NEW p \in Seq(Entries), CancelIsPending(p)
    PROVE  \E o \in TurnOutcomes \ {"completed"} :
              WindDown(p) = Append(SettleOpenExecutions(p), TurnFinish(o))
<1> DEFINE c == CHOOSE i \in PendingCancel(p) : TRUE
<1>1. OpenTurnEntries(p, "cancel") \in SUBSET Nat
  BY DEF OpenTurnEntries
<1>2. PendingCancel(p) # {}
  BY <1>1, Least DEF CancelIsPending, PendingCancel
<1>3. c \in DOMAIN p /\ p[c].kind = "cancel" /\ p[c] \in Entries
  BY <1>2, PathEntry DEF PendingCancel, OpenTurnEntries, Holds
<1>4. p[c].outcome # "completed" /\ p[c].outcome \in TurnOutcomes
  BY <1>3, PendingCancelOutcome DEF Entries, UserMessage, TurnStart, ToolExecutions
<1> QED
  BY <1>4 DEF WindDown

\* The closes without a response before them.
LEMMA CloseMark ==
    ASSUME IInv, IInv', ClosingInv,
           \/ LoopTopCancelled \/ GateCancelled \/ HardLimit \/ CloseSettled
           \/ \E o \in {"errored", "timed_out"} : ModelFails(o)
    PROVE  ContractStep
<1>1. path \in Seq(Entries) /\ UserMessage \in Entries
  BY DEF IInv, TypeOK, Entries
<1>2. HasOpenTurn(path)
  <2>1. pc \in {"loop", "top", "gate", "model", "llm", "settled"}
    BY DEF LoopTopCancelled, GateCancelled, HardLimit, CloseSettled, ModelFails
  <2> QED
    BY <2>1, OpenHere DEF Engaged, Suspended, Raced, Yielding, Running
<1>3. Steady(path, path)
  BY <1>1, GrownSteady DEF UserMessage
<1>4. /\ Steady(path, SettleOpenExecutions(path)) /\ SettleOpenExecutions(path) \in Seq(Entries)
      /\ DOMAIN SettleOpenExecutions(path) = DOMAIN path
      /\ \A i \in DOMAIN path : \/ SettleOpenExecutions(path)[i] = path[i]
                                 \/ GoesOn(path[i], SettleOpenExecutions(path)[i])
  BY <1>1, SettleSteady
<1>5. CASE CancelIsPending(path) /\ WindDownNow
  <2>1. PICK o \in TurnOutcomes \ {"completed"} :
           path' = Append(SettleOpenExecutions(path), TurnFinish(o))
    BY <1>1, <1>5, WindDownOutcome DEF WindDownNow
  <2>2. Contract!Close
    BY <1>2, <1>4, <2>1, ClosedMark
  <2> QED
    BY <2>2 DEF ContractStep, Contract!ContractNext
<1>6. CASE CloseSettled
  <2>1. closing \in TurnOutcomes /\ closing # "completed" /\ path' = Append(path, TurnFinish(closing))
    BY <1>6 DEF CloseSettled, EndDrive, IInv, OpenInv, ClosingInv
  <2>2. Contract!Close
    BY <1>1, <1>2, <1>3, <2>1, ClosedMark
  <2> QED
    BY <2>2 DEF ContractStep, Contract!ContractNext
<1>7. ASSUME NEW o \in {"errored", "timed_out"}, SettleThenClose(o)
      PROVE  ContractStep
  <2>1. CASE path' = Append(path, TurnFinish(o))
    <3>1. Contract!Close
      BY <1>1, <1>2, <1>3, <2>1, ClosedMark DEF TurnOutcomes
    <3> QED
      BY <3>1 DEF ContractStep, Contract!ContractNext
  <2>2. CASE path' = SettleOpenExecutions(path)
    <3>1. \A i \in ToolsOf(path) : Len(path'[i].attempts) = Len(path[i].attempts)
      BY <1>4, <2>2 DEF Steady
    <3>2. Contract!Advance
      BY <1>2, <1>4, <2>2, <3>1, RewrittenMark
    <3> QED
      BY <3>2 DEF ContractStep, Contract!ContractNext
  <2> QED
    BY <1>7, <2>1, <2>2 DEF SettleThenClose, EndDrive
<1>8. CASE LoopTopCancelled \/ GateCancelled
  BY <1>5, <1>8 DEF LoopTopCancelled, GateCancelled
<1>9. CASE HardLimit
  BY <1>7, <1>9 DEF HardLimit
<1>10. CASE \E o \in {"errored", "timed_out"} : ModelFails(o)
  BY <1>5, <1>7, <1>10 DEF ModelFails
<1> QED
  BY <1>6, <1>8, <1>9, <1>10

\* A response brings calls, is said, or closes the turn.
LEMMA ModelMark ==
    ASSUME IInv, IInv',
           \/ \E n \in 1..MaxCalls : ModelCalls(n)
           \/ ModelPauses
           \/ \E r \in {"stop", "non_answer"} : ModelAnswers(r)
    PROVE  ContractStep
<1>1. path \in Seq(Entries) /\ pc = "llm"
  BY DEF IInv, TypeOK, ModelCalls, ModelPauses, ModelAnswers
<1>2. HasOpenTurn(path)
  BY <1>1, OpenHere DEF Engaged, Suspended, Raced
<1>3. ASSUME NEW r \in StopReasons
      PROVE  /\ AssistantMessage(r, lastSeen) \in Entries
             /\ AssistantMessage(r, lastSeen).kind = "assistant"
             /\ Response(r) \in Seq(Entries) /\ Steady(path, Response(r))
             /\ Steady(path, SettleOpenExecutions(Response(r)))
             /\ SettleOpenExecutions(Response(r)) \in Seq(Entries)
             /\ CancelIsPending(Response(r)) <=> CancelIsPending(path)
  <2>1. AssistantMessage(r, lastSeen) \in Entries /\ AssistantMessage(r, lastSeen).kind = "assistant"
    BY DEF IInv, TypeOK, Entries, AssistantMessage
  <2>2. Response(r) = Append(path, AssistantMessage(r, lastSeen))
    BY DEF Response
  <2>3. Response(r) \in Seq(Entries)
    BY <1>1, <2>1, <2>2, AppendFacts
  <2>4. /\ Steady(path, Response(r))
        /\ \A q : Steady(Response(r), q) => Steady(path, q)
    BY <1>1, <2>1, <2>2, GrownSteady
  <2>5. /\ Steady(Response(r), SettleOpenExecutions(Response(r)))
        /\ SettleOpenExecutions(Response(r)) \in Seq(Entries)
    BY <2>3, SettleSteady
  <2>6. CancelIsPending(Response(r)) <=> CancelIsPending(path)
    BY <1>1, <2>1, <2>2, AppendOpenTurn
  <2> QED
    BY <2>1, <2>3, <2>4, <2>5, <2>6
<1>4. CASE \E n \in 1..MaxCalls : ModelCalls(n)
  <2>1. PICK n \in 1..MaxCalls :
           path' = Append(path, AssistantMessage("tool_use", lastSeen)) \o [k \in 1..n |-> ReceivedExecution]
    BY <1>4 DEF ModelCalls, Response
  <2>2. n \in Nat /\ "tool_use" \in StopReasons
    BY TurnAssumption DEF StopReasons
  <2>3. Contract!Receive
    BY <1>2, <1>3, <2>1, <2>2, CalledMark
  <2> QED
    BY <2>3 DEF ContractStep, Contract!ContractNext
<1>5. ASSUME NEW r \in StopReasons, path' = Response(r)
      PROVE  ContractStep
  BY <1>3, <1>5, SaidMark DEF Response, ContractStep
<1>6. CASE ModelPauses
  BY <1>5, <1>6 DEF ModelPauses, StopReasons
<1>7. CASE \E r \in {"stop", "non_answer"} : ModelAnswers(r)
  <2>1. PICK r \in {"stop", "non_answer"} : ModelAnswers(r)
    BY <1>7
  <2>2. r \in StopReasons
    BY DEF StopReasons
  <2>3. CASE CancelIsPending(path) /\ path' = WindDown(Response(r))
    <3>1. PICK o \in TurnOutcomes \ {"completed"} :
             path' = Append(SettleOpenExecutions(Response(r)), TurnFinish(o))
      BY <1>3, <2>2, <2>3, WindDownOutcome
    <3>2. Contract!Close
      BY <1>2, <1>3, <2>2, <3>1, ClosedMark
    <3> QED
      BY <3>2 DEF ContractStep, Contract!ContractNext
  <2>4. CASE path' = Response(r)
    BY <1>5, <2>2, <2>4
  <2>5. CASE ~CancelIsPending(path) /\ path' = Closed(r)
    <3>1. \E s \in Seq(Entries), o \in TurnOutcomes :
             Steady(path, s) /\ path' = Append(s, TurnFinish(o))
      <4>1. "completed" \in TurnOutcomes /\ "errored" \in TurnOutcomes
        BY DEF TurnOutcomes
      <4> QED
        BY <1>3, <2>2, <2>5, <4>1 DEF Closed
    <3>2. PICK s \in Seq(Entries), o \in TurnOutcomes :
             Steady(path, s) /\ path' = Append(s, TurnFinish(o))
      BY <3>1
    <3>3. Contract!Close
      BY <1>2, <2>5, <3>2, ClosedMark
    <3> QED
      BY <3>3 DEF ContractStep, Contract!ContractNext
  <2> QED
    BY <2>1, <2>3, <2>4, <2>5 DEF ModelAnswers
<1> QED
  BY <1>4, <1>6, <1>7

\* Every step of the drive is a step of the contract.
LEMMA StepMark ==
    ASSUME IInv, IInv', ClosingInv, [Next]_vars
    PROVE  ContractStep
<1>1. CASE Doors
  BY <1>1, DoorsMark
<1>2. ASSUME path' = path
      PROVE  ContractStep
  BY <1>2, StillMark DEF ContractStep
<1>3. CASE Engine
  BY <1>2, <1>3, DriveMark, CloseMark, MoveGentle DEF Engine
<1>4. CASE TokenWins
  BY <1>2, <1>4, DecideMark, CallMark, MoveGentle DEF TokenWins
<1>5. CASE Answers
  BY <1>2, <1>5, BirthMark, DecideMark, CallMark, StartMark, CloseMark, ModelMark, MoveGentle DEF Answers
<1>6. CASE ApplicationRaises \/ UNCHANGED vars
  BY <1>2, <1>6, MoveGentle
<1> QED
  BY <1>1, <1>3, <1>4, <1>5, <1>6 DEF Next

\* The drive, its doors and its crashes implement the contract of a turn: a call
\* never skips a stage, a body starts once per try, no close leaves a call live,
\* and a turn that was asked to cancel neither starts a body nor completes.
THEOREM DriveImplementsContract == Spec => TurnRefinement
<1>1. Init => Contract!ContractInit /\ ClosingInv
  <2> SUFFICES ASSUME Init
               PROVE  Contract!ContractInit /\ ClosingInv
    OBVIOUS
  <2>1. path = << >> /\ DOMAIN path = {} /\ ClosingInv
    BY DEF Init, ClosingInv
  <2>2. ~HasOpenTurn(path) /\ ~CancelIsPending(path)
    BY <2>1 DEF HasOpenTurn, CancelIsPending, OpenTurnEntries
  <2>3. CallsOf(path) = << >>
    BY <2>1 DEF CallsOf
  <2>4. OutcomeOf(path) = "none"
    BY <2>1 DEF OutcomeOf
  <2> QED
    BY <2>1, <2>2, <2>3, <2>4 DEF Contract!ContractInit
<1>2. ClosingInv /\ [Next]_vars => ClosingInv'
  BY ClosingStep
<1>3. IInv /\ IInv' /\ ClosingInv /\ [Next]_vars => [Contract!ContractNext]_(Contract!contract)
  BY StepMark DEF ContractStep
<1> QED
  BY <1>1, <1>2, <1>3, Inductive, PTL DEF Spec, TurnRefinement, Contract!ContractSpec

-----------------------------------------------------------------------------
(* The posts behind a call.                                                *)

Posted(p, i) == {u \in DOMAIN p : u > i /\ Holds(p, u, "user")}
Posts(p, i) == Cardinality(Posted(p, i))

\* They are finitely many.
LEMMA PostsFacts ==
    ASSUME NEW p \in Seq(Entries), NEW i
    PROVE  IsFiniteSet(Posted(p, i)) /\ Posts(p, i) \in Nat
<1>1. DOMAIN p = 1..Len(p) /\ 1 \in Int /\ Len(p) \in Int
  OBVIOUS
<1>2. IsFiniteSet(DOMAIN p)
  BY <1>1, FS_Interval
<1>3. Posted(p, i) \in SUBSET DOMAIN p
  BY DEF Posted
<1>4. IsFiniteSet(Posted(p, i))
  BY <1>2, <1>3, FS_Subset
<1> QED
  BY <1>4, FS_CardinalityType DEF Posts

\* A path that keeps its entries' kinds loses no post.
LEMMA PostsKept ==
    ASSUME NEW p \in Seq(Entries), NEW q \in Seq(Entries), NEW i,
           DOMAIN p \subseteq DOMAIN q, \A j \in DOMAIN p : q[j].kind = p[j].kind
    PROVE  Posts(p, i) <= Posts(q, i)
<1>1. Posted(p, i) \in SUBSET Posted(q, i)
  BY DEF Posted, Holds
<1> QED
  BY <1>1, PostsFacts, FS_Subset DEF Posts

\* A post is one more behind every call.
LEMMA PostsMore ==
    ASSUME NEW p \in Seq(Entries), NEW i \in DOMAIN p
    PROVE  Posts(Append(p, UserMessage), i) = Posts(p, i) + 1
<1> DEFINE q == Append(p, UserMessage)
<1>1. /\ DOMAIN p = 1..Len(p) /\ DOMAIN q = 1..(Len(p) + 1) /\ Len(p) \in Nat
      /\ \A j \in DOMAIN p : q[j] = p[j]
      /\ q[Len(p) + 1].kind = "user"
  BY DEF UserMessage
<1> HIDE DEF q
<1>2. Len(p) + 1 \notin Posted(p, i)
  BY <1>1 DEF Posted
<1>3. Posted(q, i) \subseteq Posted(p, i) \cup {Len(p) + 1}
  <2> SUFFICES ASSUME NEW u \in DOMAIN q, u > i, q[u].kind = "user", u # Len(p) + 1
               PROVE  u \in Posted(p, i)
    BY DEF Posted, Holds
  <2>1. u \in DOMAIN p
    BY <1>1, NextOnly
  <2> QED
    BY <1>1, <2>1 DEF Posted, Holds
<1>4. Posted(p, i) \cup {Len(p) + 1} \subseteq Posted(q, i)
  BY <1>1 DEF Posted, Holds
<1>5. Posted(q, i) = Posted(p, i) \cup {Len(p) + 1}
  BY <1>3, <1>4
<1> QED
  BY <1>2, <1>5, PostsFacts, FS_AddElement DEF Posts, q

-----------------------------------------------------------------------------
(* What a call has had, has in hand, and may still get without being asked *)
(* for again.                                                              *)

Bit(b) == IF b THEN 1 ELSE 0

\* Selected, and its body not yet started.
InHand(i) == i \in batch /\ ~(pc = "body" /\ IsCurrent(i))

\* The loop top is next, or nothing: a flag that is set there and a call that
\* was not polled come to the same poll.
AtTop == {"loop", "top", "ending"}

Due(i) ==
    IF pc \in AtTop THEN Bit(recheck \/ i \notin polled)
    ELSE Bit(recheck) + Bit(pc \notin Off /\ i \notin polled)

Tries(i) == Len(path[i].attempts)
Paid(i) == runs + notifies + Posts(path, i)

RunsInv == pc \notin Off => runs >= 1

PollInv == \A i \in ToolsOf(path) : Tries(i) + Bit(InHand(i)) + Due(i) <= Paid(i)

\* The numbers are numbers.
Counted ==
    \A i \in ToolsOf(path) :
        /\ Tries(i) \in Nat /\ Bit(InHand(i)) \in {0, 1} /\ Due(i) \in {0, 1, 2}
        /\ Posts(path, i) \in Nat /\ runs \in Nat /\ notifies \in Nat
        /\ Paid(i) = runs + notifies + Posts(path, i)

\* Types make them so.
LEMMA Numbers == TypeOK => Counted
<1> SUFFICES ASSUME TypeOK, NEW i \in ToolsOf(path)
             PROVE  /\ Tries(i) \in Nat /\ Bit(InHand(i)) \in {0, 1} /\ Due(i) \in {0, 1, 2}
                    /\ Posts(path, i) \in Nat /\ runs \in Nat /\ notifies \in Nat
                    /\ Paid(i) = runs + notifies + Posts(path, i)
  BY DEF Counted
<1>1. path \in Seq(Entries) /\ runs \in Nat /\ notifies \in Nat /\ i \in DOMAIN path
  BY DEF TypeOK, ToolsOf
<1>2. path[i] \in ToolExecutions
  BY <1>1, PathEntry DEF ToolsOf
<1>3. Tries(i) \in Nat
  BY <1>2 DEF Tries, ToolExecutions
<1>4. Posts(path, i) \in Nat
  BY <1>1, PostsFacts
<1> QED
  BY <1>1, <1>3, <1>4 DEF Bit, Due, Paid

\* And so after a step.
LEMMA NumbersNext == TypeOK' => Counted'
BY Numbers, PTL

\* A run is behind every drive.
LEMMA RunsStep == IInv /\ RunsInv /\ [Next]_vars => RunsInv'
<1> SUFFICES ASSUME IInv, RunsInv, [Next]_vars PROVE RunsInv'
  OBVIOUS
<1>0. runs \in Nat
  BY DEF IInv, TypeOK
<1> USE DEF RunsInv, Off, FreshDrive, EndDrive, WindDownNow, SettleThenClose, Settle, counters, vars
<1>1. CASE Doors
  BY <1>0, <1>1 DEF Doors, Post, Cancel, Notify, Begin, Suspend, Crash
<1>2. CASE Engine
  BY <1>2 DEF Engine, Drive, LoopTopCancelled, LoopTop, Select, NextCall, GateCancelled, Gate, GatePassed,
              GateRechecked, Park, NotBlocked, HardLimit, Resume, Project, CloseSettled, Ending
<1>3. CASE TokenWins
  BY <1>3 DEF TokenWins, BirthLost, Decide, PrepareCancelled, BodyKilled, ModelLost
<1>4. CASE Answers
  BY <1>4 DEF Answers, Birth, Decide, PrepareFails, StartBody, BodyEnds, BodyDefers,
              ToolsCollected, ModelCalls, ModelPauses, ModelAnswers, ModelFails
<1>5. CASE ApplicationRaises \/ UNCHANGED vars
  BY <1>5 DEF ApplicationRaises
<1> QED
  BY <1>1, <1>2, <1>3, <1>4, <1>5 DEF Next

-----------------------------------------------------------------------------
(* The tries, from the contract.                                           *)

\* A step that starts no body keeps the tries of every call, and a new call has
\* none.
LEMMA TriesKept ==
    ASSUME IInv, IInv', ClosingInv, [Next]_vars, Gentle(path, path')
    PROVE  /\ ToolsOf(path) \subseteq ToolsOf(path')
           /\ \A i \in ToolsOf(path) : Len(path'[i].attempts) = Len(path[i].attempts)
           /\ \A i \in ToolsOf(path') \ ToolsOf(path) : Len(path'[i].attempts) = 0
<1>1. ContractStep
  BY StepMark
<1>2. ToolsOf(path) \subseteq ToolsOf(path')
  BY EntriesStay DEF ToolsOf, Holds
<1>3. /\ DOMAIN CallsOf(path) = ToolsOf(path) /\ DOMAIN CallsOf(path') = ToolsOf(path')
      /\ \A i \in ToolsOf(path) : CallsOf(path)[i] = CallOf(path[i])
      /\ \A i \in ToolsOf(path') : CallsOf(path')[i] = CallOf(path'[i])
  BY CallsFacts
<1>4. ASSUME NEW i \in ToolsOf(path)
      PROVE  Len(path'[i].attempts) = Len(path[i].attempts)
  <2>1. CallOf(path'[i]) = CallOf(path[i]) \/ Contract!Moves(CallOf(path[i]), CallOf(path'[i]))
    BY <1>1, <1>2, <1>3, <1>4 DEF ContractStep, Contract!ContractNext, Contract!Open, Contract!AskCancel,
       Contract!Receive, Contract!Advance, Contract!Close, Contract!AllMoveOrStay, Contract!contract
  <2>2. CASE CallOf(path'[i]) = CallOf(path[i])
    BY <2>2 DEF CallOf
  <2>3. CASE Contract!Moves(CallOf(path[i]), CallOf(path'[i]))
    <3>1. path'[i].status = "running" => path[i].status = "running"
      BY <1>2, <1>4 DEF Gentle, NoneStarts, ToolsOf, Holds
    <3>2. StageOf(path'[i].status) = "running" => StageOf(path[i].status) = "running"
      BY <3>1 DEF StageOf, TerminalStatuses
    <3> QED
      BY <2>3, <3>2 DEF Contract!Moves, CallOf
  <2> QED
    BY <2>1, <2>2, <2>3
<1>5. ASSUME NEW i \in ToolsOf(path') \ ToolsOf(path)
      PROVE  Len(path'[i].attempts) = 0
  <2>1. CallOf(path'[i]) = Contract!Start
    BY <1>1, <1>3, <1>5 DEF ContractStep, Contract!ContractNext, Contract!Open, Contract!AskCancel,
       Contract!Receive, Contract!Advance, Contract!Close, Contract!contract
  <2> QED
    BY <2>1 DEF CallOf, Contract!Start
<1> QED
  BY <1>2, <1>4, <1>5

-----------------------------------------------------------------------------
(* What a step does to the budget.                                         *)

\* Nothing is asked for or taken up; new calls come only before a loop top.
Quietly ==
    /\ runs' = runs /\ notifies' = notifies
    /\ recheck' => recheck
    /\ pc' \in Off \/ (pc \notin Off /\ polled' = polled /\ (pc' \in AtTop \/ pc \notin AtTop))
    /\ \A i \in batch' : InHand(i)' => InHand(i)
    /\ \/ DOMAIN path' = DOMAIN path
       \/ \E o \in CancelOutcomes : path' = Append(path, CancelRequested(o))
       \/ pc \notin Off /\ pc' \in AtTop \cup Off

\* A call of path' that is no call of path is new.
LEMMA NewCall ==
    ASSUME IInv, IInv', [Next]_vars, Quietly, NEW i \in ToolsOf(path') \ ToolsOf(path)
    PROVE  pc \notin Off /\ pc' \in AtTop \cup Off /\ i \notin DOMAIN path
<1>1. i \in DOMAIN path' /\ path'[i].kind = "tool"
  BY DEF ToolsOf, Holds
<1>2. i \notin DOMAIN path
  BY <1>1, EntriesStay DEF ToolsOf, Holds
<1>3. \A o \in CancelOutcomes : path' # Append(path, CancelRequested(o))
  <2> SUFFICES ASSUME NEW o, path' = Append(path, CancelRequested(o)) PROVE FALSE
    OBVIOUS
  <2>1. path \in Seq(Entries)
    BY DEF IInv, TypeOK
  <2>2. /\ DOMAIN path = 1..Len(path) /\ Len(path) \in Nat /\ DOMAIN path' = 1..(Len(path) + 1)
        /\ path'[Len(path) + 1].kind = "cancel"
    BY <2>1 DEF CancelRequested
  <2>3. i = Len(path) + 1
    BY <1>1, <1>2, <2>2, NextOnly
  <2> QED
    BY <1>1, <2>2, <2>3
<1> QED
  BY <1>1, <1>2, <1>3 DEF Quietly

\* A quiet step keeps the budget.
LEMMA QuietStep ==
    ASSUME IInv, IInv', ClosingInv, RunsInv, PollInv, [Next]_vars, Gentle(path, path'), Quietly
    PROVE  PollInv'
<1> SUFFICES ASSUME NEW i \in ToolsOf(path')
             PROVE  (Tries(i) + Bit(InHand(i)) + Due(i) <= Paid(i))'
  BY DEF PollInv
<1>1. TypeOK /\ TypeOK' /\ path \in Seq(Entries) /\ path' \in Seq(Entries)
  BY DEF IInv, TypeOK
<1>2. /\ (Tries(i) \in Nat)' /\ (Bit(InHand(i)) \in {0, 1})' /\ (Due(i) \in {0, 1, 2})'
      /\ Posts(path', i) \in Nat /\ runs' \in Nat /\ notifies' \in Nat
      /\ (Paid(i) = runs + notifies + Posts(path, i))'
  BY <1>1, NumbersNext DEF Counted
<1>3. InHand(i)' => InHand(i)
  BY DEF Quietly, InHand
<1>4. CASE i \in ToolsOf(path)
  <2>1. /\ Tries(i) \in Nat /\ Bit(InHand(i)) \in {0, 1} /\ Due(i) \in {0, 1, 2}
        /\ Posts(path, i) \in Nat /\ runs \in Nat /\ notifies \in Nat
        /\ Paid(i) = runs + notifies + Posts(path, i)
    BY <1>1, <1>4, Numbers DEF Counted
  <2>2. Tries(i)' = Tries(i)
    BY <1>4, TriesKept DEF Tries
  <2>3. Bit(InHand(i))' <= Bit(InHand(i))
    BY <1>3 DEF Bit
  <2>4. Due(i)' <= Due(i)
    <3>1. CASE pc' \in Off
      BY <3>1 DEF Due, Bit, Quietly, AtTop, Off
    <3>2. CASE pc' \notin Off
      BY <3>2 DEF Due, Bit, Quietly
    <3> QED
      BY <3>1, <3>2
  <2>5. Posts(path, i) <= Posts(path', i)
    BY <1>1, EntriesStay, PostsKept
  <2>6. Tries(i) + Bit(InHand(i)) + Due(i) <= Paid(i)
    BY <1>4 DEF PollInv
  <2>7. runs' = runs /\ notifies' = notifies
    BY DEF Quietly
  <2> QED
    BY <1>2, <2>1, <2>2, <2>3, <2>4, <2>5, <2>6, <2>7
<1>5. CASE i \notin ToolsOf(path)
  <2>1. pc \notin Off /\ pc' \in AtTop \cup Off /\ i \notin DOMAIN path
    BY <1>5, NewCall
  <2>2. Tries(i)' = 0
    BY <1>5, TriesKept DEF Tries
  <2>3. Bit(InHand(i))' = 0
    BY <1>1, <1>3, <2>1 DEF Bit, InHand, TypeOK
  <2>4. Due(i)' <= 1
    BY <2>1 DEF Due, Bit, AtTop, Off
  <2>5. runs' >= 1
    BY <2>1 DEF RunsInv, Quietly
  <2> QED
    BY <1>2, <2>2, <2>3, <2>4, <2>5
<1> QED
  BY <1>4, <1>5

\* A step that leaves the path alone, keeps what is in hand, and adds to what is
\* owed no more than it pays.
LEMMA PaidStep ==
    ASSUME IInv, IInv', PollInv,
           DOMAIN path \subseteq DOMAIN path', ToolsOf(path') = ToolsOf(path),
           \A i \in ToolsOf(path) :
              /\ path'[i] = path[i]
              /\ Bit(InHand(i))' + Due(i)' + Paid(i) <= Bit(InHand(i)) + Due(i) + Paid(i)'
    PROVE  PollInv'
<1> SUFFICES ASSUME NEW i \in ToolsOf(path')
             PROVE  (Tries(i) + Bit(InHand(i)) + Due(i) <= Paid(i))'
  BY DEF PollInv
<1>1. TypeOK /\ TypeOK' /\ i \in ToolsOf(path)
  BY DEF IInv
<1>2. /\ (Tries(i) \in Nat)' /\ (Bit(InHand(i)) \in {0, 1})' /\ (Due(i) \in {0, 1, 2})'
      /\ Posts(path', i) \in Nat /\ runs' \in Nat /\ notifies' \in Nat
      /\ (Paid(i) = runs + notifies + Posts(path, i))'
  BY <1>1, NumbersNext DEF Counted
<1>3. /\ Tries(i) \in Nat /\ Bit(InHand(i)) \in {0, 1} /\ Due(i) \in {0, 1, 2}
      /\ Posts(path, i) \in Nat /\ runs \in Nat /\ notifies \in Nat
      /\ Paid(i) = runs + notifies + Posts(path, i)
  BY <1>1, Numbers DEF Counted
<1>4. Tries(i)' = Tries(i)
  BY <1>1 DEF Tries
<1>5. Tries(i) + Bit(InHand(i)) + Due(i) <= Paid(i)
  BY <1>1 DEF PollInv
<1>6. Bit(InHand(i))' + Due(i)' + Paid(i) <= Bit(InHand(i)) + Due(i) + Paid(i)'
  BY <1>1
<1> QED
  BY <1>2, <1>3, <1>4, <1>5, <1>6

-----------------------------------------------------------------------------
(* Which steps are quiet.                                                  *)

Loud ==
    \/ Post \/ Notify \/ LoopTop \/ Select
    \/ \E eager \in BOOLEAN : Begin(eager)
    \/ \E i \in DOMAIN path : StartBody(i)

\* What is in hand is what was, and less.
LEMMA HandKept ==
    ASSUME TypeOK,
           \/ batch' = {}
           \/ batch' \subseteq batch /\ pc # "body"
           \/ batch' = batch /\ pc' = pc
           \/ pc = "body" /\ \E i \in DOMAIN path : IsCurrent(i) /\ batch' = batch \ {i}
    PROVE  \A i \in batch' : InHand(i)' => InHand(i)
<1>1. CASE batch' = {}
  BY <1>1
<1>2. CASE batch' \subseteq batch /\ pc # "body"
  BY <1>2 DEF InHand
<1>3. CASE batch' = batch /\ pc' = pc
  BY <1>3 DEF InHand, IsCurrent
<1>4. CASE pc = "body" /\ \E i \in DOMAIN path : IsCurrent(i) /\ batch' = batch \ {i}
  <2>1. PICK i \in DOMAIN path : IsCurrent(i) /\ batch' = batch \ {i}
    BY <1>4
  <2>2. ASSUME NEW j \in batch'
        PROVE  InHand(j)
    <3>1. j \in batch /\ j # i
      BY <2>1, <2>2
    <3>2. j \in Int /\ i \in Int
      BY <3>1 DEF TypeOK
    <3>3. ~IsCurrent(j)
      BY <2>1, <3>1, <3>2 DEF IsCurrent
    <3> QED
      BY <3>1, <3>3 DEF InHand
  <2> QED
    BY <2>2
<1> QED
  BY <1>1, <1>2, <1>3, <1>4

\* The steps that leave the path alone, and the ones that drop the drive.
LEMMA MovesQuietly ==
    ASSUME IInv,
           \/ NextCall \/ Gate \/ GatePassed \/ GateRechecked \/ Park \/ NotBlocked \/ Resume
           \/ Project \/ Ending \/ BirthLost \/ ModelLost \/ ToolsCollected \/ ApplicationRaises
           \/ UNCHANGED vars \/ Suspend \/ Crash \/ \E o \in CancelOutcomes : Cancel(o)
    PROVE  Quietly
<1>1. TypeOK
  BY DEF IInv
<1> USE DEF EndDrive, FreshDrive, drive, counters, vars, Off, AtTop
<1>2. CASE NextCall
  <2>1. \A i \in batch' : InHand(i)' => InHand(i)
    BY <1>1, <1>2, HandKept DEF NextCall
  <2> QED
    BY <1>2, <2>1 DEF NextCall, Quietly
<1>3. CASE \/ Gate \/ GatePassed \/ GateRechecked \/ NotBlocked \/ Resume \/ Project
           \/ BirthLost \/ ModelLost \/ ToolsCollected
  <2>1. /\ batch' = batch /\ polled' = polled /\ path' = path /\ runs' = runs /\ notifies' = notifies
        /\ pc \notin {"off", "parked", "body", "loop", "top", "ending"}
        /\ recheck' = recheck
    BY <1>3 DEF Gate, GatePassed, GateRechecked, NotBlocked, Resume, Project, BirthLost,
                ModelLost, ToolsCollected
  <2>2. \A i \in batch' : InHand(i)' => InHand(i)
    BY <1>1, <2>1, HandKept
  <2> QED
    BY <2>1, <2>2 DEF Quietly
<1>4. CASE Park \/ Ending \/ ApplicationRaises \/ Suspend \/ Crash
  <2>1. /\ batch' = {} /\ path' = path /\ runs' = runs /\ notifies' = notifies
        /\ pc' \in {"off", "parked"}
        /\ recheck' = recheck \/ recheck' = FALSE
    BY <1>4 DEF Park, Ending, ApplicationRaises, Suspend, Crash
  <2>2. \A i \in batch' : InHand(i)' => InHand(i)
    BY <1>1, <2>1, HandKept
  <2>3. DOMAIN path' = DOMAIN path
    BY <2>1
  <2> QED
    BY <2>1, <2>2, <2>3 DEF Quietly
<1>5. CASE UNCHANGED vars \/ \E o \in CancelOutcomes : Cancel(o)
  <2>1. /\ batch' = batch /\ pc' = pc /\ polled' = polled /\ recheck' = recheck
        /\ runs' = runs /\ notifies' = notifies
        /\ path' = path \/ \E o \in CancelOutcomes : path' = Append(path, CancelRequested(o))
    BY <1>5 DEF Cancel
  <2>2. \A i \in batch' : InHand(i)' => InHand(i)
    BY <1>1, <2>1, HandKept
  <2> QED
    BY <2>1, <2>2 DEF Quietly
<1> QED
  BY <1>2, <1>3, <1>4, <1>5

\* The steps that write.
LEMMA WritesQuietly ==
    ASSUME IInv,
           \/ Drive \/ Birth \/ Decide \/ LoopTopCancelled \/ GateCancelled \/ HardLimit \/ CloseSettled
           \/ \E o \in {"errored", "timed_out"} : ModelFails(o)
           \/ \E n \in 1..MaxCalls : ModelCalls(n)
           \/ ModelPauses
           \/ \E r \in {"stop", "non_answer"} : ModelAnswers(r)
    PROVE  Quietly
<1>1. TypeOK /\ path \in Seq(Entries)
  BY DEF IInv, TypeOK
<1> USE DEF EndDrive, FreshDrive, drive, counters, Off, AtTop
<1>2. CASE Drive
  <2>1. /\ batch' = batch /\ polled' = polled /\ runs' = runs /\ notifies' = notifies
        /\ recheck' = recheck /\ pc \in {"begun", "drive"} /\ pc' \in {"loop", "top"}
    BY <1>2 DEF Drive
  <2>2. \A i \in batch' : InHand(i)' => InHand(i)
    BY <1>1, <2>1, HandKept
  <2> QED
    BY <2>1, <2>2 DEF Quietly
<1>3. CASE Birth \/ Decide
  <2>1. /\ batch' = batch /\ polled' = polled /\ runs' = runs /\ notifies' = notifies
        /\ recheck' = recheck /\ pc \in {"birth", "decide"} /\ DOMAIN path' = DOMAIN path
    BY <1>3 DEF Birth, Decide
  <2>2. \A i \in batch' : InHand(i)' => InHand(i)
    BY <1>1, <2>1, HandKept
  <2> QED
    BY <2>1, <2>2 DEF Quietly
<1>4. CASE WindDownNow /\ pc \in {"loop", "top", "gate", "llm"}
  <2>1. /\ batch' = batch /\ polled' = polled /\ runs' = runs /\ notifies' = notifies
        /\ recheck' = recheck /\ pc' = "ending"
    BY <1>4 DEF WindDownNow
  <2>2. \A i \in batch' : InHand(i)' => InHand(i)
    BY <1>1, <1>4, <2>1, HandKept
  <2> QED
    BY <1>4, <2>1, <2>2 DEF Quietly
<1>5. ASSUME NEW o, SettleThenClose(o), pc \in {"model", "llm"}
      PROVE  Quietly
  <2>1. CASE pc' = "off" /\ batch' = {} /\ runs' = runs /\ notifies' = notifies /\ recheck' = recheck
    BY <1>5, <2>1 DEF Quietly
  <2>2. CASE /\ path' = SettleOpenExecutions(path) /\ batch' = batch /\ polled' = polled /\ recheck' = recheck
             /\ runs' = runs /\ notifies' = notifies /\ pc' = "settled"
    <3>1. DOMAIN path' = DOMAIN path
      BY <1>1, <2>2, SettledCloseAdds
    <3>2. \A i \in batch' : InHand(i)' => InHand(i)
      BY <1>1, <1>5, <2>2, HandKept
    <3> QED
      BY <1>5, <2>2, <3>1, <3>2 DEF Quietly
  <2> QED
    BY <1>5, <2>1, <2>2 DEF SettleThenClose
<1>6. CASE CloseSettled
  <2>1. pc' = "off" /\ pc = "settled" /\ batch' = {} /\ runs' = runs /\ notifies' = notifies /\ recheck' = recheck
    BY <1>6 DEF CloseSettled
  <2> QED
    BY <2>1 DEF Quietly
<1>7. CASE \/ \E n \in 1..MaxCalls : ModelCalls(n)
           \/ ModelPauses
           \/ \E r \in {"stop", "non_answer"} : ModelAnswers(r)
  <2>1. /\ batch' = batch /\ polled' = polled /\ runs' = runs /\ notifies' = notifies
        /\ recheck' = recheck /\ pc = "llm" /\ pc' \in {"loop", "ending"}
    BY <1>7 DEF ModelCalls, ModelPauses, ModelAnswers
  <2>2. \A i \in batch' : InHand(i)' => InHand(i)
    BY <1>1, <2>1, HandKept
  <2> QED
    BY <2>1, <2>2 DEF Quietly
<1>8. CASE LoopTopCancelled \/ GateCancelled
  BY <1>4, <1>8 DEF LoopTopCancelled, GateCancelled
<1>9. CASE HardLimit \/ \E o \in {"errored", "timed_out"} : ModelFails(o)
  BY <1>4, <1>5, <1>9 DEF HardLimit, ModelFails
<1> QED
  BY <1>2, <1>3, <1>6, <1>7, <1>8, <1>9

\* The current call leaves the batch.
LEMMA CallsQuietly ==
    ASSUME IInv, NEW i \in DOMAIN path,
           PrepareFails(i) \/ PrepareCancelled(i) \/ BodyEnds(i) \/ BodyDefers(i) \/ BodyKilled(i)
    PROVE  Quietly
<1>1. TypeOK
  BY DEF IInv
<1>2. /\ IsCurrent(i) /\ pc \in {"prepare", "body"} /\ pc' \in {"executed", "dispatch"}
      /\ DOMAIN path' = DOMAIN path /\ batch' = batch \ {i} /\ polled' = polled
      /\ recheck' = recheck /\ runs' = runs /\ notifies' = notifies
  BY DEF PrepareFails, PrepareCancelled, BodyEnds, BodyDefers, BodyKilled, Settle, counters
<1>3. \A j \in batch' : InHand(j)' => InHand(j)
  BY <1>1, <1>2, HandKept
<1> QED
  BY <1>2, <1>3 DEF Quietly, Off, AtTop

\* Every step is loud (its own lemma follows its counts) or leaves the counts alone.
LEMMA StepQuietly ==
    ASSUME IInv, [Next]_vars
    PROVE  Loud \/ Quietly
<1>1. CASE Doors
  BY <1>1, MovesQuietly DEF Doors, Loud
<1>2. CASE Engine
  BY <1>2, MovesQuietly, WritesQuietly DEF Engine, Loud
<1>3. CASE TokenWins
  BY <1>3, MovesQuietly, WritesQuietly, CallsQuietly DEF TokenWins
<1>4. CASE Answers
  BY <1>4, MovesQuietly, WritesQuietly, CallsQuietly DEF Answers, Loud
<1>5. CASE ApplicationRaises \/ UNCHANGED vars
  BY <1>5, MovesQuietly
<1> QED
  BY <1>1, <1>2, <1>3, <1>4, <1>5 DEF Next

-----------------------------------------------------------------------------
(* The steps that ask, take up and start.                                  *)

\* Notify pays for the flag it sets.
LEMMA NotifyPays ==
    ASSUME IInv, IInv', PollInv, Notify
    PROVE  PollInv'
<1>1. /\ path' = path /\ pc' = pc /\ batch' = batch /\ polled' = polled
      /\ runs' = runs /\ notifies' = notifies + 1
  BY DEF Notify, drive
<1>2. TypeOK
  BY DEF IInv
<1>3. ASSUME NEW i \in ToolsOf(path)
      PROVE  Bit(InHand(i))' + Due(i)' + Paid(i) <= Bit(InHand(i)) + Due(i) + Paid(i)'
  <2>1. /\ Bit(InHand(i)) \in {0, 1} /\ Due(i) \in {0, 1, 2} /\ Posts(path, i) \in Nat
        /\ runs \in Nat /\ notifies \in Nat /\ Paid(i) = runs + notifies + Posts(path, i)
    BY <1>2, <1>3, Numbers DEF Counted
  <2>2. Bit(InHand(i))' = Bit(InHand(i))
    BY <1>1 DEF Bit, InHand, IsCurrent
  <2>3. Due(i)' <= Due(i) + 1 /\ Due(i)' \in Nat
    BY <1>1 DEF Due, Bit
  <2>4. Paid(i)' = Paid(i) + 1
    BY <1>1, <2>1 DEF Paid
  <2> QED
    BY <2>1, <2>2, <2>3, <2>4
<1> QED
  BY <1>1, <1>3, PaidStep

\* A run pays for the polls a fresh drive owes.
LEMMA BeginPays ==
    ASSUME IInv, IInv', PollInv, NEW eager \in BOOLEAN, Begin(eager)
    PROVE  PollInv'
<1>1. /\ path' = path \/ path' = Append(path, TurnStart)
      /\ pc \in Off /\ pc' \in {"begun", "drive"} /\ batch' = {} /\ recheck' = recheck
      /\ runs' = runs + 1 /\ notifies' = notifies
  BY DEF Begin, FreshDrive
<1>2. TypeOK /\ path \in Seq(Entries) /\ path' \in Seq(Entries)
  BY DEF IInv, TypeOK
<1>3. /\ DOMAIN path \subseteq DOMAIN path' /\ \A i \in DOMAIN path : path'[i] = path[i]
      /\ \A i \in DOMAIN path' \ DOMAIN path : path'[i].kind = "start"
  <2>1. DOMAIN path = 1..Len(path) /\ Len(path) \in Nat
    BY <1>2
  <2>2. CASE path' = Append(path, TurnStart)
    <3>1. /\ DOMAIN path' = 1..(Len(path) + 1) /\ path'[Len(path) + 1].kind = "start"
          /\ \A i \in DOMAIN path : path'[i] = path[i]
      BY <1>2, <2>1, <2>2 DEF TurnStart
    <3> QED
      BY <2>1, <3>1, NextOnly
  <2> QED
    BY <1>1, <2>2
<1>4. ToolsOf(path') = ToolsOf(path)
  BY <1>3 DEF ToolsOf, Holds
<1>5. ASSUME NEW i \in ToolsOf(path)
      PROVE  Bit(InHand(i))' + Due(i)' + Paid(i) <= Bit(InHand(i)) + Due(i) + Paid(i)'
  <2>1. /\ Bit(InHand(i)) \in {0, 1} /\ Due(i) \in {0, 1, 2} /\ Posts(path, i) \in Nat
        /\ runs \in Nat /\ notifies \in Nat /\ Paid(i) = runs + notifies + Posts(path, i)
    BY <1>2, <1>5, Numbers DEF Counted
  <2>2. Bit(InHand(i))' = 0
    BY <1>1 DEF Bit, InHand
  <2>3. Due(i)' <= Due(i) + 1 /\ Due(i)' \in Nat
    BY <1>1 DEF Due, Bit, Off, AtTop
  <2>4. Posts(path, i) <= Posts(path', i) /\ Posts(path', i) \in Nat
    BY <1>2, <1>3, PostsKept, PostsFacts
  <2>5. Paid(i)' = runs + 1 + notifies + Posts(path', i)
    BY <1>1 DEF Paid
  <2> QED
    BY <2>1, <2>2, <2>3, <2>4, <2>5
<1> QED
  BY <1>3, <1>4, <1>5, PaidStep DEF ToolsOf

\* The loop top turns the flag into a poll of every call, one for one.
LEMMA LoopTopPays ==
    ASSUME IInv, IInv', PollInv, LoopTop
    PROVE  PollInv'
<1>1. /\ path' = path /\ batch' = batch /\ runs' = runs /\ notifies' = notifies
      /\ pc \in {"loop", "top"} /\ pc' \in {"birth", "decide", "select"}
      /\ polled' = (IF recheck THEN {} ELSE polled) /\ recheck' = FALSE
  BY DEF LoopTop, counters
<1>2. TypeOK
  BY DEF IInv
<1>3. ASSUME NEW i \in ToolsOf(path)
      PROVE  Bit(InHand(i))' + Due(i)' + Paid(i) <= Bit(InHand(i)) + Due(i) + Paid(i)'
  <2>1. /\ Bit(InHand(i)) \in {0, 1} /\ Due(i) \in {0, 1, 2} /\ Posts(path, i) \in Nat
        /\ runs \in Nat /\ notifies \in Nat /\ Paid(i) = runs + notifies + Posts(path, i)
    BY <1>2, <1>3, Numbers DEF Counted
  <2>2. Bit(InHand(i))' = Bit(InHand(i))
    BY <1>1 DEF Bit, InHand
  <2>3. Due(i)' = Due(i)
    BY <1>1 DEF Due, Bit, AtTop, Off
  <2>4. Paid(i)' = Paid(i)
    BY <1>1, <2>1 DEF Paid
  <2> QED
    BY <2>1, <2>2, <2>3, <2>4
<1> QED
  BY <1>1, <1>3, PaidStep

\* Selecting a call takes its poll in hand.
LEMMA SelectPays ==
    ASSUME IInv, IInv', PollInv, Select
    PROVE  PollInv'
<1>1. /\ path' = path /\ batch' = ReadyExecutions(path) \ polled /\ polled' = polled \cup batch'
      /\ runs' = runs /\ notifies' = notifies /\ recheck' = recheck
      /\ pc \in {"denied", "select"} /\ pc' = "dispatch"
  BY DEF Select, counters
<1>2. TypeOK /\ batch = {}
  BY <1>1 DEF IInv, BatchInv
<1>3. ASSUME NEW i \in ToolsOf(path)
      PROVE  Bit(InHand(i))' + Due(i)' + Paid(i) <= Bit(InHand(i)) + Due(i) + Paid(i)'
  <2>1. /\ Bit(InHand(i)) \in {0, 1} /\ Due(i) \in {0, 1, 2} /\ Posts(path, i) \in Nat
        /\ runs \in Nat /\ notifies \in Nat /\ Paid(i) = runs + notifies + Posts(path, i)
    BY <1>2, <1>3, Numbers DEF Counted
  <2>2. InHand(i)' <=> i \in batch'
    BY <1>1 DEF InHand
  <2>3. Bit(InHand(i))' = (IF i \in batch' THEN 1 ELSE 0)
    BY <2>2 DEF Bit
  <2>4. Due(i) = Bit(recheck) + (IF i \in polled THEN 0 ELSE 1)
    BY <1>1 DEF Due, Bit, AtTop, Off
  <2>5. Due(i)' = Bit(recheck) + (IF i \in polled \/ i \in batch' THEN 0 ELSE 1)
    BY <1>1 DEF Due, Bit, AtTop, Off
  <2>6. i \in batch' => i \notin polled
    BY <1>1
  <2>7. Paid(i)' = Paid(i)
    BY <1>1, <2>1 DEF Paid
  <2>8. Bit(recheck) \in {0, 1}
    BY DEF Bit
  <2> QED
    BY <2>1, <2>3, <2>4, <2>5, <2>6, <2>7, <2>8
<1> QED
  BY <1>1, <1>3, PaidStep

\* A post pays for the flag it sets, for every call in front of it.
LEMMA PostPays ==
    ASSUME IInv, IInv', PollInv, Post
    PROVE  PollInv'
<1>1. /\ path' = Append(path, UserMessage) /\ pc' = pc /\ batch' = batch /\ polled' = polled
      /\ runs' = runs /\ notifies' = notifies
  BY DEF Post, drive
<1>2. TypeOK /\ path \in Seq(Entries) /\ DOMAIN path = 1..Len(path) /\ Len(path) \in Nat
  BY DEF IInv, TypeOK
<1>3. /\ DOMAIN path' = 1..(Len(path) + 1) /\ path'[Len(path) + 1].kind = "user"
      /\ \A i \in DOMAIN path : path'[i] = path[i]
  BY <1>1, <1>2 DEF UserMessage
<1>4. ToolsOf(path') = ToolsOf(path) /\ DOMAIN path \subseteq DOMAIN path'
  <2>1. DOMAIN path \subseteq DOMAIN path' /\ \A i \in DOMAIN path' \ DOMAIN path : path'[i].kind = "user"
    BY <1>2, <1>3, NextOnly
  <2> QED
    BY <1>3, <2>1 DEF ToolsOf, Holds
<1>5. ASSUME NEW i \in ToolsOf(path)
      PROVE  Bit(InHand(i))' + Due(i)' + Paid(i) <= Bit(InHand(i)) + Due(i) + Paid(i)'
  <2>1. /\ Bit(InHand(i)) \in {0, 1} /\ Due(i) \in {0, 1, 2} /\ Posts(path, i) \in Nat
        /\ runs \in Nat /\ notifies \in Nat /\ Paid(i) = runs + notifies + Posts(path, i)
    BY <1>2, <1>5, Numbers DEF Counted
  <2>2. Bit(InHand(i))' = Bit(InHand(i))
    BY <1>1 DEF Bit, InHand, IsCurrent
  <2>3. Due(i)' <= Due(i) + 1 /\ Due(i)' \in Nat
    BY <1>1 DEF Due, Bit
  <2>4. Posts(path', i) = Posts(path, i) + 1
    <3>1. i \in DOMAIN path
      BY <1>5 DEF ToolsOf
    <3> QED
      BY <1>1, <1>2, <3>1, PostsMore
  <2>5. Paid(i)' = runs + notifies + Posts(path', i)
    BY <1>1 DEF Paid
  <2> QED
    BY <2>1, <2>2, <2>3, <2>4, <2>5
<1> QED
  BY <1>3, <1>4, <1>5, PaidStep DEF ToolsOf

\* The start of a body spends what was in hand.
LEMMA StartBodyPays ==
    ASSUME IInv, IInv', PollInv, NEW k \in DOMAIN path, StartBody(k)
    PROVE  PollInv'
<1>1. /\ path' = [path EXCEPT ![k] = Dispatched(path[k])] /\ pc = "prepare" /\ pc' = "body"
      /\ batch' = batch /\ polled' = polled /\ recheck' = recheck
      /\ runs' = runs /\ notifies' = notifies /\ IsCurrent(k)
  BY DEF StartBody, drive, counters
<1>2. TypeOK /\ TypeOK' /\ path \in Seq(Entries) /\ path' \in Seq(Entries)
  BY DEF IInv, TypeOK
<1>3. Holds(path, k, "tool") /\ path[k] \in ToolExecutions /\ path[k].kind = "tool"
  BY <1>1, CurrentCall
<1>4. /\ DOMAIN path' = DOMAIN path /\ path'[k] = Dispatched(path[k])
      /\ \A i \in DOMAIN path \ {k} : path'[i] = path[i]
  BY <1>1, <1>2
<1>5. Dispatched(path[k]).kind = "tool" /\ Len(Dispatched(path[k]).attempts) = Len(path[k].attempts) + 1
  BY <1>3 DEF Dispatched, ToolExecutions
<1>6. /\ \A i \in DOMAIN path : path'[i].kind = path[i].kind
      /\ ToolsOf(path') = ToolsOf(path)
  BY <1>3, <1>4, <1>5 DEF ToolsOf, Holds
<1> SUFFICES ASSUME NEW i \in ToolsOf(path')
             PROVE  (Tries(i) + Bit(InHand(i)) + Due(i) <= Paid(i))'
  BY DEF PollInv
<1>7. i \in ToolsOf(path) /\ i \in DOMAIN path
  BY <1>6 DEF ToolsOf
<1>8. /\ Tries(i) \in Nat /\ Bit(InHand(i)) \in {0, 1} /\ Due(i) \in {0, 1, 2}
      /\ Posts(path, i) \in Nat /\ runs \in Nat /\ notifies \in Nat
      /\ Paid(i) = runs + notifies + Posts(path, i)
  BY <1>2, <1>7, Numbers DEF Counted
<1>9. Tries(i) + Bit(InHand(i)) + Due(i) <= Paid(i)
  BY <1>7 DEF PollInv
<1>10. Posts(path, i) <= Posts(path', i) /\ Posts(path', i) \in Nat
  BY <1>2, <1>4, <1>6, PostsKept, PostsFacts
<1>11. Paid(i)' = runs + notifies + Posts(path', i)
  BY <1>1 DEF Paid
<1>12. Due(i)' = Due(i)
  BY <1>1 DEF Due, AtTop, Off
<1>13. CASE i = k
  <2>1. Tries(i)' = Tries(i) + 1
    BY <1>4, <1>5, <1>13 DEF Tries
  <2>2. Bit(InHand(i)) = 1 /\ Bit(InHand(i))' = 0
    BY <1>1, <1>13 DEF Bit, InHand, IsCurrent
  <2> QED
    BY <1>8, <1>9, <1>10, <1>11, <1>12, <2>1, <2>2
<1>14. CASE i # k
  <2>1. Tries(i)' = Tries(i)
    BY <1>4, <1>7, <1>14 DEF Tries
  <2>2. Bit(InHand(i))' <= Bit(InHand(i)) /\ Bit(InHand(i))' \in {0, 1}
    BY <1>1 DEF Bit, InHand
  <2> QED
    BY <1>8, <1>9, <1>10, <1>11, <1>12, <2>1, <2>2
<1> QED
  BY <1>13, <1>14

-----------------------------------------------------------------------------
(* The theorem.                                                            *)

\* Every step keeps the polls paid for.
LEMMA PollStep ==
    ASSUME IInv, IInv', ClosingInv, RunsInv, PollInv, [Next]_vars
    PROVE  PollInv'
<1>1. CASE Quietly /\ Gentle(path, path')
  BY <1>1, QuietStep
<1>2. CASE \E i \in DOMAIN path : StartBody(i)
  BY <1>2, StartBodyPays
<1>3. CASE Post \/ Notify \/ LoopTop \/ Select \/ \E eager \in BOOLEAN : Begin(eager)
  BY <1>3, PostPays, NotifyPays, LoopTopPays, SelectPays, BeginPays
<1> QED
  BY <1>1, <1>2, <1>3, StepQuietly, StepGentle DEF Loud

\* A parked tool is polled again only when a run, a notify or a post behind the
\* call asked for it: every start of a body was in hand, everything in hand was
\* due, and what is due has been paid for.
THEOREM PollsAreAskedFor == Spec => []PollsArePaidFor
<1>1. Init => ClosingInv /\ RunsInv /\ PollInv
  BY DEF Init, ClosingInv, RunsInv, PollInv, ToolsOf, Off
<1>2. IInv /\ ClosingInv /\ RunsInv /\ PollInv /\ [Next]_vars => (ClosingInv /\ RunsInv /\ PollInv)'
  BY IInvNext, ClosingStep, RunsStep, PollStep
<1>3. IInv /\ PollInv => PollsArePaidFor
  <2> SUFFICES ASSUME IInv, PollInv, NEW i \in DOMAIN path, Holds(path, i, "tool")
               PROVE  Len(path[i].attempts) <=
                        runs + notifies
                        + Cardinality({u \in DOMAIN path : u > i /\ Holds(path, u, "user")})
    BY DEF PollsArePaidFor
  <2>1. i \in ToolsOf(path) /\ TypeOK
    BY DEF ToolsOf, IInv
  <2>2. /\ Tries(i) \in Nat /\ Bit(InHand(i)) \in {0, 1} /\ Due(i) \in {0, 1, 2}
        /\ Posts(path, i) \in Nat /\ runs \in Nat /\ notifies \in Nat
        /\ Paid(i) = runs + notifies + Posts(path, i)
    BY <2>1, Numbers DEF Counted
  <2>3. Tries(i) + Bit(InHand(i)) + Due(i) <= Paid(i)
    BY <2>1 DEF PollInv
  <2>4. Tries(i) <= runs + notifies + Posts(path, i)
    BY <2>2, <2>3
  <2> QED
    BY <2>4 DEF Tries, Posts, Posted
<1> QED
  BY <1>1, <1>2, <1>3, Inductive, PTL DEF Spec

=============================================================================
