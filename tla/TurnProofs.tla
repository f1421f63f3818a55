----------------------------- MODULE TurnProofs -----------------------------
(***************************************************************************)
(* Theorems about Turn, for every value of its constants.                  *)
(***************************************************************************)
EXTENDS Turn, TLAPS, SequenceTheorems, NaturalsInduction, WellFoundedInduction

-----------------------------------------------------------------------------
(* Lemmas about entries.                                                   *)

\* An entry that says it is a tool execution has an execution's fields.
LEMMA ToolEntry ==
    ASSUME NEW e \in Entries, e.kind = "tool"
    PROVE  e \in ToolExecutions
BY DEF Entries, UserMessage, TurnStart, ToolExecutions

\* Closing an attempt keeps the list's length and all but its last element.
LEMMA CloseAttemptFacts ==
    ASSUME NEW a \in Seq(AttemptOutcomes), NEW o \in AttemptOutcomes
    PROVE  /\ CloseAttempt(a, o) \in Seq(AttemptOutcomes)
           /\ Len(CloseAttempt(a, o)) = Len(a)
           /\ \A k \in 1..Len(a) :
                CloseAttempt(a, o)[k] =
                    IF k = Len(a) /\ a[k] = "open" THEN o ELSE a[k]
<1>1. CASE a # <<>> /\ a[Len(a)] = "open"
  <2>1. Len(a) \in 1..Len(a)
    BY <1>1, EmptySeq
  <2>2. CloseAttempt(a, o) = [a EXCEPT ![Len(a)] = o]
    BY <1>1 DEF CloseAttempt
  <2> QED
    BY <1>1, <2>1, <2>2, ExceptSeq
<1>2. CASE ~(a # <<>> /\ a[Len(a)] = "open")
  <2>1. CloseAttempt(a, o) = a
    BY <1>2 DEF CloseAttempt
  <2>2. \A k \in 1..Len(a) : ~(k = Len(a) /\ a[k] = "open")
    BY <1>2
  <2> QED
    BY <2>1, <2>2
<1> QED
  BY <1>1, <1>2

\* Finalize writes the status, closes the attempt and touches nothing else.
LEMMA FinalizeFacts ==
    ASSUME NEW x \in ToolExecutions, NEW s \in Statuses
    PROVE  /\ Finalize(x, s) \in ToolExecutions
           /\ Finalize(x, s).kind = "tool"
           /\ Finalize(x, s).status = s
           /\ Finalize(x, s).approval = x.approval
           /\ Finalize(x, s).attempts = CloseAttempt(x.attempts, AttemptOutcomeOf(s))
<1>1. AttemptOutcomeOf(s) \in AttemptOutcomes
  BY DEF AttemptOutcomeOf, AttemptOutcomes
<1>2. CloseAttempt(x.attempts, AttemptOutcomeOf(s)) \in Seq(AttemptOutcomes)
  BY <1>1, CloseAttemptFacts DEF ToolExecutions
<1> QED
  BY <1>2 DEF Finalize, ToolExecutions

-----------------------------------------------------------------------------
(* Lemmas about paths: the only writes are an append at the leaf and the    *)
(* in-place update of executions.                                          *)

\* What Append does to a path.
LEMMA AppendFacts ==
    ASSUME NEW p \in Seq(Entries), NEW e \in Entries
    PROVE  /\ Append(p, e) \in Seq(Entries)
           /\ Len(Append(p, e)) = Len(p) + 1
           /\ DOMAIN p = 1..Len(p)
           /\ DOMAIN Append(p, e) = 1..(Len(p) + 1)
           /\ \A i \in DOMAIN p : Append(p, e)[i] = p[i]
           /\ Append(p, e)[Len(p) + 1] = e
OBVIOUS

\* A path rewritten position by position is still a path.
LEMMA RewriteFacts ==
    ASSUME NEW p \in Seq(Entries), NEW q,
           q = [i \in DOMAIN p |-> q[i]],
           \A i \in DOMAIN p : q[i] \in Entries
    PROVE  q \in Seq(Entries) /\ Len(q) = Len(p) /\ DOMAIN q = DOMAIN p
<1>1. DOMAIN p = 1..Len(p) /\ Len(p) \in Nat
  OBVIOUS
<1>2. q \in [1..Len(p) -> Entries]
  BY <1>1
<1>3. q \in Seq(Entries)
  BY <1>1, <1>2, SeqDef
<1>4. Len(q) = Len(p)
  BY <1>1, <1>2, <1>3
<1> QED
  BY <1>3, <1>4, <1>1

\* Updating executions in place moves no bracket and no cancel.
LEMMA RewriteOpenTurn ==
    ASSUME NEW p \in Seq(Entries), NEW q \in Seq(Entries),
           DOMAIN q = DOMAIN p,
           \A i \in DOMAIN p : q[i].kind = p[i].kind
    PROVE  /\ HasOpenTurn(q) <=> HasOpenTurn(p)
           /\ CancelIsPending(q) <=> CancelIsPending(p)
           /\ \A i : InOpenTurn(q, i) <=> InOpenTurn(p, i)
<1>1. \A s : IsOpenTurn(q, s) <=> IsOpenTurn(p, s)
  BY DEF IsOpenTurn, Holds
<1>2. \A i : InOpenTurn(q, i) <=> InOpenTurn(p, i)
  BY <1>1 DEF InOpenTurn
<1>3. OpenTurnEntries(q, "cancel") = OpenTurnEntries(p, "cancel")
  BY <1>2 DEF OpenTurnEntries, Holds
<1> QED
  BY <1>1, <1>2, <1>3 DEF HasOpenTurn, CancelIsPending

\* New entries that are no brackets leave the open turn open and grow it.
LEMMA ExtendOpenTurn ==
    ASSUME NEW p \in Seq(Entries), NEW q \in Seq(Entries), Len(p) <= Len(q),
           \A i \in DOMAIN p : q[i] = p[i],
           \A i \in DOMAIN q \ DOMAIN p : q[i].kind \notin {"start", "finish"}
    PROVE  /\ HasOpenTurn(q) <=> HasOpenTurn(p)
           /\ \A i \in DOMAIN p : InOpenTurn(q, i) <=> InOpenTurn(p, i)
           /\ \A i \in DOMAIN q \ DOMAIN p : InOpenTurn(q, i) <=> HasOpenTurn(p)
           /\ CancelIsPending(q) <=>
                \/ CancelIsPending(p)
                \/ HasOpenTurn(p) /\ \E i \in DOMAIN q \ DOMAIN p : q[i].kind = "cancel"
<1>1. /\ DOMAIN p = 1..Len(p) /\ DOMAIN q = 1..Len(q)
      /\ Len(p) \in Nat /\ Len(q) \in Nat
      /\ DOMAIN p \subseteq DOMAIN q
  OBVIOUS
<1>2. \A s : IsOpenTurn(q, s) <=> IsOpenTurn(p, s)
  BY <1>1 DEF IsOpenTurn, Holds
<1>3. \A i \in DOMAIN p : InOpenTurn(q, i) <=> InOpenTurn(p, i)
  BY <1>1, <1>2 DEF InOpenTurn, IsOpenTurn
<1>4. \A i \in DOMAIN q \ DOMAIN p : InOpenTurn(q, i) <=> HasOpenTurn(p)
  BY <1>1, <1>2 DEF InOpenTurn, HasOpenTurn, IsOpenTurn
<1>5. CancelIsPending(q) <=>
        \/ CancelIsPending(p)
        \/ HasOpenTurn(p) /\ \E i \in DOMAIN q \ DOMAIN p : q[i].kind = "cancel"
  <2>1. CancelIsPending(q) <=> \E i \in DOMAIN q : InOpenTurn(q, i) /\ q[i].kind = "cancel"
    BY DEF CancelIsPending, OpenTurnEntries, Holds
  <2>2. CancelIsPending(p) <=> \E i \in DOMAIN p : InOpenTurn(p, i) /\ p[i].kind = "cancel"
    BY DEF CancelIsPending, OpenTurnEntries, Holds
  <2> QED
    BY <1>1, <1>3, <1>4, <2>1, <2>2
<1>6. HasOpenTurn(q) <=> HasOpenTurn(p)
  BY <1>1, <1>2 DEF HasOpenTurn, IsOpenTurn
<1> QED
  BY <1>3, <1>4, <1>5, <1>6

\* The same for one entry appended at the leaf.
LEMMA AppendOpenTurn ==
    ASSUME NEW p \in Seq(Entries), NEW e \in Entries, e.kind \notin {"start", "finish"}
    PROVE  /\ HasOpenTurn(Append(p, e)) <=> HasOpenTurn(p)
           /\ \A i \in DOMAIN p : InOpenTurn(Append(p, e), i) <=> InOpenTurn(p, i)
           /\ CancelIsPending(Append(p, e)) <=>
                CancelIsPending(p) \/ (HasOpenTurn(p) /\ e.kind = "cancel")
<1> DEFINE q == Append(p, e)
<1>1. /\ q \in Seq(Entries) /\ Len(p) <= Len(q)
      /\ \A i \in DOMAIN p : q[i] = p[i]
      /\ DOMAIN q \ DOMAIN p = {Len(p) + 1}
      /\ q[Len(p) + 1] = e
  BY AppendFacts
<1> HIDE DEF q
<1>2. /\ HasOpenTurn(q) <=> HasOpenTurn(p)
      /\ \A i \in DOMAIN p : InOpenTurn(q, i) <=> InOpenTurn(p, i)
      /\ CancelIsPending(q) <=>
           \/ CancelIsPending(p)
           \/ HasOpenTurn(p) /\ \E i \in DOMAIN q \ DOMAIN p : q[i].kind = "cancel"
  BY <1>1, ExtendOpenTurn
<1> QED
  BY <1>1, <1>2 DEF q

\* Opening a turn: it starts empty, with no cancel pending.
LEMMA AppendStart ==
    ASSUME NEW p \in Seq(Entries)
    PROVE  /\ HasOpenTurn(Append(p, TurnStart))
           /\ ~CancelIsPending(Append(p, TurnStart))
           /\ \A i \in DOMAIN p : ~InOpenTurn(Append(p, TurnStart), i)
<1> DEFINE q == Append(p, TurnStart)
<1>1. TurnStart \in Entries
  BY DEF Entries
<1>2. /\ q \in Seq(Entries) /\ DOMAIN p = 1..Len(p) /\ DOMAIN q = 1..(Len(p) + 1)
      /\ q[Len(p) + 1] = TurnStart
      /\ Len(p) \in Nat
  BY <1>1, AppendFacts
<1> HIDE DEF q
<1>3. q[Len(p) + 1].kind = "start"
  BY <1>2 DEF TurnStart
<1>4. \A s : IsOpenTurn(q, s) <=> s = Len(p) + 1
  BY <1>2, <1>3 DEF IsOpenTurn, Holds
<1>5. \A i : InOpenTurn(q, i) <=> i = Len(p) + 1
  BY <1>2, <1>4 DEF InOpenTurn
<1>6. OpenTurnEntries(q, "cancel") = {}
  BY <1>3, <1>5 DEF OpenTurnEntries, Holds
<1>7. HasOpenTurn(q) /\ ~CancelIsPending(q)
  BY <1>2, <1>4, <1>6 DEF HasOpenTurn, CancelIsPending
<1>8. \A i \in DOMAIN p : ~InOpenTurn(q, i)
  BY <1>2, <1>5
<1> QED
  BY <1>7, <1>8 DEF q

\* Closing a turn leaves none open.
LEMMA AppendFinish ==
    ASSUME NEW p \in Seq(Entries), NEW o \in TurnOutcomes
    PROVE  /\ ~HasOpenTurn(Append(p, TurnFinish(o)))
           /\ ~CancelIsPending(Append(p, TurnFinish(o)))
<1> DEFINE q == Append(p, TurnFinish(o))
<1>1. TurnFinish(o) \in Entries /\ TurnFinish(o).kind = "finish"
  BY DEF Entries, TurnFinish
<1>2. /\ q \in Seq(Entries) /\ DOMAIN p = 1..Len(p) /\ DOMAIN q = 1..(Len(p) + 1)
      /\ q[Len(p) + 1] = TurnFinish(o)
      /\ Len(p) \in Nat
  BY <1>1, AppendFacts
<1> HIDE DEF q
<1>3. \A s : ~IsOpenTurn(q, s)
  BY <1>1, <1>2 DEF IsOpenTurn, Holds
<1>4. OpenTurnEntries(q, "cancel") = {}
  BY <1>3 DEF OpenTurnEntries, InOpenTurn
<1> QED
  BY <1>3, <1>4 DEF HasOpenTurn, CancelIsPending, q

\* Nothing is in a turn that is not open.
LEMMA NoOpenTurn ==
    ASSUME NEW p, ~HasOpenTurn(p)
    PROVE  ~CancelIsPending(p) /\ \A i : ~InOpenTurn(p, i)
BY DEF HasOpenTurn, CancelIsPending, OpenTurnEntries, InOpenTurn

-----------------------------------------------------------------------------
(* The inductive invariant, by parts.  TypeOK, AttemptAudit and            *)
(* SettledBehindClose alone do not survive a step: they need to know what  *)
(* the dispatch batch holds, where a body may be running, and that the     *)
(* engine reaches the model only with every call settled, gated or parked. *)

Engaged == Suspended \cup Running

\* One call's audit list and approval agree with its status.
CallSound(x) ==
    /\ AttemptsAgree(x)
    /\ x.attempts # <<>> => x.approval = "allowed"
    /\ x.status = "received" => x.approval = "none"
    /\ x.approval = "rejected" => x.status = "rejected"

Sound(p) == \A i \in DOMAIN p : Holds(p, i, "tool") => CallSound(p[i])

CallsSound == Sound(path)

\* Every live call of path p is in its open turn.
LiveAreOpen(p) ==
    \A i \in DOMAIN p :
        Holds(p, i, "tool") /\ p[i].status \in NonterminalStatuses => InOpenTurn(p, i)

AllTerminal(p) ==
    \A i \in DOMAIN p : Holds(p, i, "tool") => p[i].status \in TerminalStatuses

\* The batch holds allowed calls whose body is not running, but for the one
\* whose body the engine is inside.
BatchInv ==
    /\ \A i \in batch :
         /\ Holds(path, i, "tool")
         /\ path[i].approval = "allowed"
         /\ IF pc = "body" /\ IsCurrent(i) THEN path[i].status = "running"
            ELSE path[i].status \in {"pending", "awaiting_result"}
    /\ batch # {} => pc \in {"dispatch", "executed", "prepare", "body"} /\ progress

\* A RUNNING call is the one being run, or an orphan no drive has seen yet.
RunningInv ==
    \A i \in DOMAIN path :
        Holds(path, i, "tool") /\ path[i].status = "running" =>
            \/ pc \in Off \cup {"begun", "drive"}
            \/ pc = "body" /\ IsCurrent(i)

\* The token stands for the open turn's CancelRequested.
TokenInv ==
    /\ pc \in Off => ~token
    /\ token /\ pc # "ending" => CancelIsPending(path)
    /\ CancelIsPending(path) => token \/ pc \in Off \cup {"begun", "drive", "loop", "top"}

OpenInv ==
    /\ pc \in Engaged \ {"drive", "ending"} => HasOpenTurn(path)
    /\ pc = "settled" => closing \in TurnOutcomes
    /\ pc = "ending" => ~HasOpenTurn(path)

\* Nothing the drive itself could still move.
Quiet(x) ==
    \/ x.status \in TerminalStatuses \cup {"awaiting_result"}
    \/ x.status = "pending" /\ x.approval = "pending"

PastTheGate == {"announced", "gateCheck", "model", "resumed", "project", "tools", "llm"}

QuietInv ==
    /\ pc = "decide" => progress
    /\ \A i \in DOMAIN path : Holds(path, i, "tool") =>
        /\ pc \in {"decide", "denied", "select"} => path[i].status # "received"
        /\ pc \in {"denied", "select"} /\ ~Quiet(path[i]) =>
             path[i].approval = "allowed" \/ (token /\ progress)
        /\ pc \in {"dispatch", "executed", "prepare", "body"} =>
             Quiet(path[i]) \/ i \in batch \/ (token /\ progress)
        /\ pc = "gate" => Quiet(path[i]) \/ (token /\ progress)
        /\ pc \in PastTheGate => Quiet(path[i])
        /\ pc = "settled" => path[i].status \in TerminalStatuses

\* What a drive polled was allowed, and unless a cancel stopped the batch it
\* has been dispatched or is about to be.
PolledInv ==
    \A i \in polled :
        /\ Holds(path, i, "tool")
        /\ path[i].approval = "allowed"
        /\ path[i].status = "pending" /\ (~token \/ pc \in {"decide", "denied", "select"})
             => i \in batch

IInv ==
    /\ TypeOK
    /\ CallsSound
    /\ BatchInv
    /\ RunningInv
    /\ TokenInv
    /\ OpenInv
    /\ QuietInv
    /\ PolledInv
    /\ SettledBehindClose

-----------------------------------------------------------------------------
(* What each kind of step does to one call: the audit list stays sound.    *)

\* A call that was never dispatched has an empty audit list.
LEMMA SoundWithoutAttempts ==
    ASSUME NEW x \in ToolExecutions, CallSound(x), x.status \in {"received", "pending"}
    PROVE  x.attempts = <<>> /\ Len(x.attempts) = 0
<1>1. x.attempts \in Seq(AttemptOutcomes)
  BY DEF ToolExecutions
<1> QED
  BY <1>1, EmptySeq DEF CallSound, AttemptsAgree

\* Closing an empty list is a no-op.
LEMMA CloseNothing == \A o : CloseAttempt(<<>>, o) = <<>>
BY DEF CloseAttempt

\* A call whose body never ran reaches a bodiless status.
LEMMA SettleUnstarted ==
    ASSUME NEW x \in ToolExecutions, CallSound(x), x.status \in {"received", "pending"},
           NEW s \in {"pending", "cancelled", "refused", "not_found", "invalid", "failed"}
    PROVE  Finalize(x, s) \in ToolExecutions /\ CallSound(Finalize(x, s))
<1>1. s \in Statuses
  BY DEF Statuses, TerminalStatuses, NonterminalStatuses
<1>2. /\ Finalize(x, s).attempts = <<>> /\ Finalize(x, s).status = s
      /\ Finalize(x, s).approval = x.approval
  BY <1>1, FinalizeFacts, SoundWithoutAttempts, CloseNothing
<1>3. Finalize(x, s) \in ToolExecutions
  BY <1>1, FinalizeFacts
<1> QED
  BY <1>2, <1>3, EmptySeq DEF CallSound, AttemptsAgree

\* A call parked on a deferral ends without another attempt.
LEMMA SettleParked ==
    ASSUME NEW x \in ToolExecutions, CallSound(x), x.status = "awaiting_result",
           NEW s \in {"interrupted", "not_found", "invalid", "failed"}
    PROVE  Finalize(x, s) \in ToolExecutions /\ CallSound(Finalize(x, s))
<1>1. s \in Statuses
  BY DEF Statuses, TerminalStatuses, NonterminalStatuses
<1>2. Len(x.attempts) > 0 /\ x.attempts[Len(x.attempts)] = "deferred"
  BY DEF CallSound, AttemptsAgree
<1>3. CloseAttempt(x.attempts, AttemptOutcomeOf(s)) = x.attempts
  BY <1>2 DEF CloseAttempt
<1>4. /\ Finalize(x, s) \in ToolExecutions
      /\ Finalize(x, s).attempts = x.attempts
      /\ Finalize(x, s).status = s
      /\ Finalize(x, s).approval = x.approval
  BY <1>1, <1>3, FinalizeFacts
<1> QED
  BY <1>2, <1>4 DEF CallSound, AttemptsAgree

\* The facts a running call brings to the outcome that closes its attempt.
LEMMA CloseRunning ==
    ASSUME NEW x \in ToolExecutions, CallSound(x), x.status = "running",
           NEW o \in AttemptOutcomes \ {"open"}
    PROVE  LET a == CloseAttempt(x.attempts, o)
           IN  /\ a \in Seq(AttemptOutcomes)
               /\ Len(a) = Len(x.attempts)
               /\ Len(a) > 0
               /\ a[Len(a)] = o
               /\ \A k \in 1..Len(a) : k < Len(a) => a[k] = "deferred"
               /\ x.approval = "allowed"
<1>1. x.attempts \in Seq(AttemptOutcomes)
  BY DEF ToolExecutions
<1>2. Len(x.attempts) > 0 /\ x.attempts[Len(x.attempts)] = "open"
  BY DEF CallSound, AttemptsAgree
<1>3. \A k \in 1..Len(x.attempts) : k < Len(x.attempts) => x.attempts[k] = "deferred"
  BY DEF CallSound, AttemptsAgree
<1>4. x.approval = "allowed"
  BY <1>1, <1>2, EmptySeq DEF CallSound
<1>5. Len(x.attempts) \in 1..Len(x.attempts)
  BY <1>1, <1>2
<1> QED
  BY <1>1, <1>2, <1>3, <1>4, <1>5, CloseAttemptFacts

\* A body that ended, deferred or was killed closes its attempt as its status.
LEMMA SettleRunning ==
    ASSUME NEW x \in ToolExecutions, CallSound(x), x.status = "running",
           NEW s \in {"completed", "failed", "timed_out", "interrupted", "awaiting_result"}
    PROVE  Finalize(x, s) \in ToolExecutions /\ CallSound(Finalize(x, s))
<1>1. s \in Statuses
  BY DEF Statuses, TerminalStatuses, NonterminalStatuses
<1>2. AttemptOutcomeOf(s) \in AttemptOutcomes \ {"open"}
  BY DEF AttemptOutcomeOf, AttemptOutcomes
<1>3. AttemptOutcomeOf(s) = IF s = "awaiting_result" THEN "deferred" ELSE s
  BY DEF AttemptOutcomeOf
<1> QED
  BY <1>1, <1>2, <1>3, FinalizeFacts, CloseRunning DEF CallSound, AttemptsAgree

\* Orphan recovery closes the attempt nobody saw the end of.
LEMMA DiscardRunning ==
    ASSUME NEW x \in ToolExecutions, CallSound(x), x.status = "running"
    PROVE  /\ Discard(x) \in ToolExecutions
           /\ Discard(x).status = "interrupted"
           /\ Discard(x).approval = x.approval
           /\ CallSound(Discard(x))
<1>1. "discarded" \in AttemptOutcomes \ {"open"}
  BY DEF AttemptOutcomes
<1>2. CloseAttempt(x.attempts, "discarded") \in Seq(AttemptOutcomes)
  BY <1>1, CloseRunning
<1>3. /\ Discard(x) \in ToolExecutions
      /\ Discard(x).attempts = CloseAttempt(x.attempts, "discarded")
      /\ Discard(x).status = "interrupted"
      /\ Discard(x).approval = x.approval
  BY <1>2 DEF Discard, ToolExecutions, Statuses, TerminalStatuses
<1> QED
  BY <1>1, <1>3, CloseRunning DEF CallSound, AttemptsAgree

\* A dispatch opens one attempt behind nothing but deferrals.
LEMMA DispatchSound ==
    ASSUME NEW x \in ToolExecutions, CallSound(x), x.approval = "allowed",
           x.status \in {"pending", "awaiting_result"}
    PROVE  /\ Dispatched(x) \in ToolExecutions
           /\ Dispatched(x).status = "running"
           /\ Dispatched(x).approval = "allowed"
           /\ CallSound(Dispatched(x))
<1>1. x.attempts \in Seq(AttemptOutcomes) /\ Len(x.attempts) \in Nat
  BY DEF ToolExecutions
<1>2. \A k \in 1..Len(x.attempts) : x.attempts[k] = "deferred"
  <2>1. CASE x.status = "pending"
    BY <2>1, SoundWithoutAttempts
  <2>2. CASE x.status = "awaiting_result"
    BY <1>1, <2>2 DEF CallSound, AttemptsAgree
  <2> QED
    BY <2>1, <2>2
<1>3. /\ Append(x.attempts, "open") \in Seq(AttemptOutcomes)
      /\ Len(Append(x.attempts, "open")) = Len(x.attempts) + 1
      /\ Append(x.attempts, "open")[Len(x.attempts) + 1] = "open"
      /\ \A k \in 1..Len(x.attempts) : Append(x.attempts, "open")[k] = x.attempts[k]
  BY <1>1 DEF AttemptOutcomes
<1>4. /\ Dispatched(x) \in ToolExecutions
      /\ Dispatched(x).attempts = Append(x.attempts, "open")
      /\ Dispatched(x).status = "running"
      /\ Dispatched(x).approval = "allowed"
  BY <1>3 DEF Dispatched, ToolExecutions, Statuses, NonterminalStatuses
<1> QED
  BY <1>1, <1>2, <1>3, <1>4 DEF CallSound, AttemptsAgree

\* A decision touches no attempt: an undecided call has none.
LEMMA DecideSound ==
    ASSUME NEW x \in ToolExecutions, CallSound(x), x.status = "pending",
           NEW a \in {"allowed", "pending", "rejected"}
    PROVE  /\ Decided(x, a) \in ToolExecutions
           /\ Decided(x, a).approval = a
           /\ Decided(x, a).status = IF a = "rejected" THEN "rejected" ELSE "pending"
           /\ CallSound(Decided(x, a))
<1>1. /\ Decided(x, a) \in ToolExecutions
      /\ Decided(x, a).approval = a
      /\ Decided(x, a).status = IF a = "rejected" THEN "rejected" ELSE "pending"
      /\ Decided(x, a).attempts = x.attempts
  BY DEF Decided, ToolExecutions, Statuses, TerminalStatuses, NonterminalStatuses, Approvals
<1>2. x.attempts = <<>> /\ Len(x.attempts) = 0
  BY SoundWithoutAttempts
<1> QED
  BY <1>1, <1>2 DEF CallSound, AttemptsAgree

-----------------------------------------------------------------------------
(* The derived sets, and what the shared settle does to a whole path.      *)

\* With every live call in the open turn, the derived sets are the calls with
\* those statuses, wherever they are.
LEMMA LiveSets ==
    ASSUME NEW p, LiveAreOpen(p), NEW S \in SUBSET NonterminalStatuses
    PROVE  \A i : i \in WithStatus(p, S) <=>
                    i \in DOMAIN p /\ Holds(p, i, "tool") /\ p[i].status \in S
BY DEF WithStatus, OpenTurnExecutions, OpenTurnEntries, LiveAreOpen

\* The same, set by set.
LEMMA DerivedSets ==
    ASSUME NEW p, LiveAreOpen(p)
    PROVE  \A i :
        /\ i \in ReceivedExecutions(p) <=>
             i \in DOMAIN p /\ Holds(p, i, "tool") /\ p[i].status = "received"
        /\ i \in UndispatchedExecutions(p) <=>
             i \in DOMAIN p /\ Holds(p, i, "tool") /\ p[i].status \in {"received", "pending"}
        /\ i \in RunningExecutions(p) <=>
             i \in DOMAIN p /\ Holds(p, i, "tool") /\ p[i].status = "running"
        /\ i \in ParkedExecutions(p) <=>
             i \in DOMAIN p /\ Holds(p, i, "tool") /\ p[i].status = "awaiting_result"
        /\ i \in UndecidedExecutions(p) <=>
             i \in DOMAIN p /\ Holds(p, i, "tool") /\ p[i].status = "pending"
               /\ p[i].approval \in {"none", "pending"}
        /\ i \in AwaitingExecutions(p) <=>
             i \in DOMAIN p /\ Holds(p, i, "tool") /\ p[i].status = "pending"
               /\ p[i].approval = "pending"
        /\ i \in ReadyExecutions(p) <=>
             i \in DOMAIN p /\ Holds(p, i, "tool")
               /\ p[i].status \in {"pending", "awaiting_result"}
               /\ p[i].approval = "allowed"
<1>1. \A S \in {{"received"}, {"received", "pending"}, {"running"}, {"awaiting_result"},
                {"pending"}, {"pending", "awaiting_result"}} :
        S \in SUBSET NonterminalStatuses
  BY DEF NonterminalStatuses
<1>2. \A S \in {{"received"}, {"received", "pending"}, {"running"}, {"awaiting_result"},
                {"pending"}, {"pending", "awaiting_result"}} :
        \A i : i \in WithStatus(p, S) <=>
                 i \in DOMAIN p /\ Holds(p, i, "tool") /\ p[i].status \in S
  BY <1>1, LiveSets
<1> QED
  BY <1>2 DEF ReceivedExecutions, UndispatchedExecutions, RunningExecutions,
     ParkedExecutions, UndecidedExecutions, AwaitingExecutions, ReadyExecutions

\* The derived sets hold positions of the path.
LEMMA AwaitingInPath ==
    ASSUME NEW p
    PROVE  AwaitingExecutions(p) \subseteq DOMAIN p /\ ReadyExecutions(p) \subseteq DOMAIN p
BY DEF AwaitingExecutions, ReadyExecutions, WithStatus, OpenTurnExecutions, OpenTurnEntries

\* A call of a path whose calls are sound has an execution's fields.
LEMMA PathEntry ==
    ASSUME NEW p \in Seq(Entries), NEW i \in DOMAIN p
    PROVE  /\ p[i] \in Entries
           /\ Holds(p, i, "tool") => p[i] \in ToolExecutions
<1>1. p[i] \in Entries
  OBVIOUS
<1> QED
  BY <1>1, ToolEntry DEF Holds

\* One call through the shared settle.
LEMMA SettleOne ==
    ASSUME NEW x \in ToolExecutions, CallSound(x), x.status # "running",
           NEW y,
           y = IF x.status \in {"received", "pending"} THEN Finalize(x, "cancelled")
               ELSE IF x.status = "awaiting_result" THEN Finalize(x, "interrupted")
               ELSE x
    PROVE  /\ y \in ToolExecutions
           /\ y.kind = "tool"
           /\ y.status \in TerminalStatuses
           /\ y.approval = x.approval
           /\ CallSound(y)
<1>1. CASE x.status \in {"received", "pending"}
  <2>1. "cancelled" \in Statuses
    BY DEF Statuses, TerminalStatuses
  <2> QED
    BY <1>1, <2>1, SettleUnstarted, FinalizeFacts DEF TerminalStatuses
<1>2. CASE x.status = "awaiting_result"
  <2>1. "interrupted" \in Statuses
    BY DEF Statuses, TerminalStatuses
  <2> QED
    BY <1>2, <2>1, SettleParked, FinalizeFacts DEF TerminalStatuses
<1>3. CASE x.status \notin {"received", "pending", "awaiting_result"}
  BY <1>3 DEF ToolExecutions, Statuses, NonterminalStatuses
<1> QED
  BY <1>1, <1>2, <1>3

\* With no body running the settle leaves every call terminal and sound, and
\* moves no other entry.
LEMMA SettleFacts ==
    ASSUME NEW p \in Seq(Entries), Sound(p), LiveAreOpen(p),
           \A i \in DOMAIN p : Holds(p, i, "tool") => p[i].status # "running"
    PROVE  LET q == SettleOpenExecutions(p)
           IN  /\ q \in Seq(Entries)
               /\ Len(q) = Len(p)
               /\ DOMAIN q = DOMAIN p
               /\ \A i \in DOMAIN p : q[i].kind = p[i].kind
               /\ \A i \in DOMAIN p : ~Holds(p, i, "tool") => q[i] = p[i]
               /\ \A i \in DOMAIN p : Holds(p, i, "tool") => q[i].approval = p[i].approval
               /\ Sound(q)
               /\ AllTerminal(q)
<1> DEFINE q == SettleOpenExecutions(p)
<1>1. q = [i \in DOMAIN p |->
              IF i \in UndispatchedExecutions(p) THEN Finalize(p[i], "cancelled")
              ELSE IF i \in ParkedExecutions(p) THEN Finalize(p[i], "interrupted")
              ELSE p[i]]
  BY DEF SettleOpenExecutions
<1> HIDE DEF q
<1>2. ASSUME NEW i \in DOMAIN p, Holds(p, i, "tool")
      PROVE  /\ q[i] \in ToolExecutions
             /\ q[i].kind = "tool"
             /\ q[i].status \in TerminalStatuses
             /\ q[i].approval = p[i].approval
             /\ CallSound(q[i])
  <2>1. p[i] \in ToolExecutions /\ CallSound(p[i]) /\ p[i].status # "running"
    BY <1>2, PathEntry DEF Sound
  <2>2. q[i] = IF p[i].status \in {"received", "pending"} THEN Finalize(p[i], "cancelled")
               ELSE IF p[i].status = "awaiting_result" THEN Finalize(p[i], "interrupted")
               ELSE p[i]
    BY <1>1, <1>2, DerivedSets
  <2> QED
    BY <2>1, <2>2, SettleOne
<1>3. ASSUME NEW i \in DOMAIN p, ~Holds(p, i, "tool")
      PROVE  q[i] = p[i]
  BY <1>1, <1>3, DerivedSets
<1>4. \A i \in DOMAIN p : q[i] \in Entries
  BY <1>2, <1>3, PathEntry DEF Entries
<1>5. q = [i \in DOMAIN p |-> q[i]]
  BY <1>1
<1>6. q \in Seq(Entries) /\ Len(q) = Len(p) /\ DOMAIN q = DOMAIN p
  BY <1>4, <1>5, RewriteFacts
<1>7. \A i \in DOMAIN p : q[i].kind = p[i].kind
  BY <1>2, <1>3 DEF Holds
<1>8. Sound(q) /\ AllTerminal(q)
  BY <1>2, <1>6, <1>7 DEF Sound, AllTerminal, Holds
<1>9. \A i \in DOMAIN p : Holds(p, i, "tool") => q[i].approval = p[i].approval
  BY <1>2
<1>10. \A i \in DOMAIN p : ~Holds(p, i, "tool") => q[i] = p[i]
  BY <1>3
<1> QED
  BY <1>6, <1>7, <1>8, <1>9, <1>10 DEF q

\* A nonempty set of positions has a least one.
LEMMA Least ==
    ASSUME NEW S \in SUBSET Nat, S # {}
    PROVE  \E i \in S : \A j \in S : i <= j
<1> DEFINE R == OpToRel(<, Nat)
<1>1. PICK i \in S : \A j \in S : ~(<<j, i>> \in R)
  <2>1. IsWellFoundedOn(R, Nat)
    BY NatLessThanWellFounded
  <2> QED
    BY <2>1, WFMin
<1>2. \A j \in S : ~(j < i)
  BY <1>1, Zenon DEF OpToRel
<1> QED
  BY <1>2

\* A pending cancel names the outcome its wind-down closes with.
LEMMA PendingCancelOutcome ==
    ASSUME NEW p \in Seq(Entries), CancelIsPending(p)
    PROVE  p[CHOOSE i \in PendingCancel(p) : TRUE].outcome \in TurnOutcomes
<1>1. OpenTurnEntries(p, "cancel") \in SUBSET Nat
  BY DEF OpenTurnEntries
<1>2. PendingCancel(p) # {}
  BY <1>1, Least DEF CancelIsPending, PendingCancel
<1>3. PICK c \in PendingCancel(p) : c = CHOOSE i \in PendingCancel(p) : TRUE
  BY <1>2
<1>4. c \in DOMAIN p /\ p[c].kind = "cancel" /\ p[c] \in Entries
  BY PathEntry DEF PendingCancel, OpenTurnEntries, Holds
<1>5. p[c].outcome \in TurnOutcomes
  BY <1>4 DEF Entries, UserMessage, TurnStart, ToolExecutions
<1> QED
  BY <1>3, <1>5

-----------------------------------------------------------------------------
(* The invariant is inductive: the ends of a drive, which several actions  *)
(* share.                                                                  *)

\* The empty session satisfies the invariant.
LEMMA IInvInit == Init => IInv
<1> SUFFICES ASSUME Init PROVE IInv
  OBVIOUS
<1>1. path = <<>> /\ DOMAIN path = {} /\ Len(path) = 0 /\ path \in Seq(Entries)
  BY EmptySeq DEF Init
<1>2. ~CancelIsPending(path) /\ ~HasOpenTurn(path)
  BY <1>1 DEF HasOpenTurn, CancelIsPending, OpenTurnEntries
<1>3. TypeOK
  <2>1. token \in BOOLEAN /\ progress \in BOOLEAN /\ recheck \in BOOLEAN
    BY DEF Init
  <2>2. pc \in Locations /\ closing \in TurnOutcomes \cup {"none"} /\ lastSeen \in 0..Len(path)
    BY <1>1 DEF Init, Locations, Off
  <2>3. /\ polled \subseteq DOMAIN path /\ announced \subseteq DOMAIN path
        /\ batch \subseteq DOMAIN path /\ {runs, posts, notifies} \subseteq Nat
    BY DEF Init
  <2> QED
    BY <1>1, <2>1, <2>2, <2>3 DEF TypeOK
<1>4. CallsSound /\ SettledBehindClose /\ RunningInv /\ QuietInv
  BY <1>1 DEF Init, CallsSound, Sound, SettledBehindClose, RunningInv, QuietInv
<1>5. BatchInv /\ PolledInv
  BY DEF Init, BatchInv, PolledInv
<1>6. TokenInv /\ OpenInv
  BY <1>2 DEF Init, TokenInv, OpenInv, Engaged, Suspended, Running, Raced, Yielding
<1> QED
  BY <1>3, <1>4, <1>5, <1>6 DEF IInv

\* The turn is closed behind the settled path q; the drive is over at once, or
\* its last events are still being delivered.
LEMMA ClosedStep ==
    ASSUME IInv, NEW q \in Seq(Entries), NEW o \in TurnOutcomes,
           Len(path) <= Len(q), Sound(q), AllTerminal(q),
           \A i \in DOMAIN path : q[i].kind = path[i].kind,
           \A i \in DOMAIN path : Holds(path, i, "tool") => q[i].approval = path[i].approval,
           path' = Append(q, TurnFinish(o)),
           UNCHANGED <<recheck, counters>>,
           \/ pc' = "off" /\ FreshDrive
           \/ pc' = "ending" /\ batch = {} /\ UNCHANGED drive
    PROVE  IInv'
<1>1. TurnFinish(o) \in Entries /\ TurnFinish(o).kind = "finish"
  BY DEF Entries, TurnFinish
<1>2. /\ path' \in Seq(Entries) /\ Len(path') = Len(q) + 1
      /\ DOMAIN q = 1..Len(q) /\ DOMAIN path' = 1..(Len(q) + 1)
      /\ DOMAIN path = 1..Len(path) /\ Len(path) \in Nat /\ Len(q) \in Nat
      /\ path \in Seq(Entries)
      /\ \A i \in DOMAIN q : path'[i] = q[i]
      /\ path'[Len(q) + 1].kind = "finish"
  BY <1>1, AppendFacts DEF IInv, TypeOK
<1>3. ~HasOpenTurn(path') /\ ~CancelIsPending(path')
  BY AppendFinish
<1>4. /\ batch' = {} /\ pc' \in {"off", "ending"}
      /\ (pc' = "off" => token' = FALSE)
      /\ (polled' = {} \/ polled' = polled)
      /\ recheck' = recheck /\ runs' = runs /\ posts' = posts /\ notifies' = notifies
  BY DEF FreshDrive, drive, counters
<1>5. \A i \in DOMAIN path' : Holds(path', i, "tool") =>
         path'[i].status \in TerminalStatuses /\ CallSound(path'[i])
  BY <1>2 DEF Holds, Sound, AllTerminal
<1>6. TypeOK'
  <2>1. pc' \in Locations
    BY <1>4 DEF Locations, Off, Suspended, Yielding
  <2>2. token' \in BOOLEAN /\ progress' \in BOOLEAN /\ recheck' \in BOOLEAN
    BY DEF FreshDrive, drive, IInv, TypeOK
  <2>3. announced' \subseteq DOMAIN path /\ polled' \subseteq DOMAIN path
    BY DEF FreshDrive, drive, IInv, TypeOK
  <2>4. lastSeen' \in 0..Len(path) /\ closing' \in TurnOutcomes \cup {"none"}
    BY <1>2 DEF FreshDrive, drive, IInv, TypeOK
  <2>5. {runs, posts, notifies}' \subseteq Nat
    BY <1>4 DEF IInv, TypeOK
  <2> QED
    BY <1>2, <1>4, <2>1, <2>2, <2>3, <2>4, <2>5 DEF TypeOK
<1>7. CallsSound'
  BY <1>5 DEF CallsSound, Sound
<1>8. BatchInv'
  BY <1>4 DEF BatchInv
<1>9. RunningInv' /\ QuietInv' /\ SettledBehindClose'
  <2>1. TerminalStatuses \cap NonterminalStatuses = {} /\ "running" \in NonterminalStatuses
    BY DEF TerminalStatuses, NonterminalStatuses
  <2> QED
    BY <1>4, <1>5, <2>1 DEF RunningInv, QuietInv, SettledBehindClose, PastTheGate
<1>10. TokenInv' /\ OpenInv'
  BY <1>3, <1>4 DEF TokenInv, OpenInv, Off, Engaged, Suspended, Running, Raced, Yielding
<1>11. PolledInv'
  <2>1. \A i \in polled' : i \in DOMAIN path /\ Holds(path, i, "tool")
                            /\ path[i].approval = "allowed"
    BY <1>4 DEF IInv, PolledInv, TypeOK
  <2> SUFFICES ASSUME NEW i \in polled'
               PROVE  Holds(path', i, "tool") /\ path'[i].approval = "allowed"
                        /\ path'[i].status # "pending"
    BY DEF PolledInv
  <2>2. Holds(path', i, "tool") /\ path'[i].approval = "allowed" /\ i \in DOMAIN path'
    BY <1>2, <2>1 DEF Holds
  <2> QED
    BY <1>5, <2>2 DEF TerminalStatuses
<1> QED
  BY <1>6, <1>7, <1>8, <1>9, <1>10, <1>11 DEF IInv

\* A drive that stops without writing leaves a path any later run may take up.
LEMMA StoppedStep ==
    ASSUME IInv, path' = path, pc' \in Off, FreshDrive, recheck' \in BOOLEAN,
           UNCHANGED counters
    PROVE  IInv'
<1>1. /\ pc' \notin Engaged
      /\ pc' \notin {"decide", "denied", "select", "dispatch", "executed", "prepare",
                     "body", "gate", "settled"} \cup PastTheGate
      /\ pc' \in Locations
  BY DEF Off, Engaged, Suspended, Running, Raced, Yielding, PastTheGate, Locations
<1>2. TypeOK'
  <2>1. token' \in BOOLEAN /\ progress' \in BOOLEAN /\ recheck' \in BOOLEAN
    BY DEF FreshDrive
  <2>2. /\ announced' \subseteq DOMAIN path' /\ polled' \subseteq DOMAIN path'
        /\ batch' \subseteq DOMAIN path'
    BY DEF FreshDrive
  <2>3. path' \in Seq(Entries) /\ lastSeen' \in 0..Len(path')
    BY DEF FreshDrive, IInv, TypeOK
  <2>4. closing' \in TurnOutcomes \cup {"none"} /\ {runs, posts, notifies}' \subseteq Nat
    BY DEF FreshDrive, IInv, TypeOK, counters
  <2> QED
    BY <1>1, <2>1, <2>2, <2>3, <2>4 DEF TypeOK
<1>3. CallsSound' /\ SettledBehindClose'
  BY DEF IInv, CallsSound, SettledBehindClose
<1>4. BatchInv' /\ PolledInv'
  BY DEF FreshDrive, BatchInv, PolledInv
<1>5. RunningInv' /\ QuietInv'
  BY <1>1 DEF RunningInv, QuietInv
<1>6. TokenInv' /\ OpenInv'
  BY <1>1 DEF TokenInv, OpenInv, FreshDrive, Off
<1> QED
  BY <1>2, <1>3, <1>4, <1>5, <1>6 DEF IInv

\* A step that keeps the drive's own variables keeps their types.
LEMMA DriveTypes ==
    ASSUME TypeOK, UNCHANGED drive, path' \in Seq(Entries), Len(path) <= Len(path'),
           pc' \in Locations, recheck' \in BOOLEAN, {runs', posts', notifies'} \subseteq Nat
    PROVE  TypeOK'
<1>1. /\ DOMAIN path = 1..Len(path) /\ DOMAIN path' = 1..Len(path')
      /\ Len(path) \in Nat /\ Len(path') \in Nat
  BY DEF TypeOK
<1>2. token' \in BOOLEAN /\ progress' \in BOOLEAN
  BY DEF drive, TypeOK
<1>3. polled' \subseteq DOMAIN path' /\ announced' \subseteq DOMAIN path' /\ batch' \subseteq DOMAIN path'
  BY <1>1 DEF drive, TypeOK
<1>4. lastSeen' \in 0..Len(path') /\ closing' \in TurnOutcomes \cup {"none"}
  BY <1>1 DEF drive, TypeOK
<1> QED
  BY <1>2, <1>3, <1>4 DEF TypeOK

\* Locations at which the engine holds an open turn and no batch.
Moving == {"loop", "top", "birth", "decide", "select", "denied", "gate"} \cup PastTheGate

\* The engine moves between such locations without writing the path.
LEMMA MovedStep ==
    ASSUME IInv, path' = path, token' = token, batch = {}, batch' = {},
           pc \in Moving, pc' \in Moving,
           polled' \subseteq polled, announced' \subseteq DOMAIN path,
           lastSeen' \in 0..Len(path), recheck' \in BOOLEAN, progress' \in BOOLEAN,
           closing' = closing, UNCHANGED counters,
           CancelIsPending(path) => token \/ pc' \in {"loop", "top"},
           token => pc' \notin {"decide", "denied", "select"},
           QuietInv'
    PROVE  IInv'
<1>1. /\ pc \in Engaged \ {"drive", "ending"} /\ pc' \in Engaged \ {"drive", "ending"}
      /\ pc' \in Locations /\ pc' \notin {"settled", "ending", "body"}
      /\ pc \notin Off \cup {"begun", "drive", "body", "ending"}
      /\ pc' \notin Off
  BY DEF Moving, PastTheGate, Engaged, Locations, Suspended, Running, Raced, Yielding, Off
<1>2. TypeOK'
  <2>1. token' \in BOOLEAN /\ recheck' \in BOOLEAN /\ progress' \in BOOLEAN
    BY DEF IInv, TypeOK
  <2>2. polled' \subseteq DOMAIN path' /\ announced' \subseteq DOMAIN path' /\ batch' \subseteq DOMAIN path'
    BY DEF IInv, TypeOK
  <2>3. /\ path' \in Seq(Entries) /\ lastSeen' \in 0..Len(path')
        /\ closing' \in TurnOutcomes \cup {"none"} /\ {runs', posts', notifies'} \subseteq Nat
    BY DEF IInv, TypeOK, counters
  <2> QED
    BY <1>1, <2>1, <2>2, <2>3 DEF TypeOK
<1>3. CallsSound' /\ SettledBehindClose'
  BY DEF IInv, CallsSound, SettledBehindClose
<1>4. BatchInv'
  BY DEF BatchInv
<1>5. RunningInv'
  BY <1>1 DEF IInv, RunningInv
<1>6. TokenInv' /\ OpenInv'
  BY <1>1 DEF IInv, TokenInv, OpenInv
<1>7. PolledInv'
  BY DEF IInv, PolledInv
<1> QED
  BY <1>2, <1>3, <1>4, <1>5, <1>6, <1>7 DEF IInv

\* Before a wind-down or a close no body runs, wherever it starts from.
LEMMA NothingRuns ==
    ASSUME IInv, pc \in Moving
    PROVE  /\ batch = {}
           /\ \A i \in DOMAIN path : Holds(path, i, "tool") => path[i].status # "running"
<1>1. pc \notin Off \cup {"begun", "drive", "dispatch", "executed", "prepare", "body"}
  BY DEF Moving, PastTheGate, Off
<1> QED
  BY <1>1 DEF IInv, BatchInv, RunningInv

\* Winding down closes the turn over settled calls.
LEMMA WindDownStep ==
    ASSUME IInv, pc \in Moving, CancelIsPending(path), WindDownNow
    PROVE  IInv'
<1> DEFINE q == SettleOpenExecutions(path)
           o == path[CHOOSE i \in PendingCancel(path) : TRUE].outcome
<1>1. path \in Seq(Entries) /\ Sound(path) /\ LiveAreOpen(path)
  BY DEF IInv, TypeOK, CallsSound, SettledBehindClose, LiveAreOpen
<1>2. /\ q \in Seq(Entries) /\ Len(q) = Len(path) /\ Len(path) \in Nat
      /\ \A i \in DOMAIN path : q[i].kind = path[i].kind
      /\ \A i \in DOMAIN path : Holds(path, i, "tool") => q[i].approval = path[i].approval
      /\ Sound(q) /\ AllTerminal(q)
  BY <1>1, NothingRuns, SettleFacts
<1>3. o \in TurnOutcomes
  BY <1>1, PendingCancelOutcome
<1>4. path' = Append(q, TurnFinish(o)) /\ pc' = "ending" /\ UNCHANGED <<recheck, drive, counters>>
  BY DEF WindDownNow, WindDown
<1> HIDE DEF q, o
<1> QED
  BY <1>2, <1>3, <1>4, NothingRuns, ClosedStep

\* A close at the step limit or on a failure: at once when nothing is live,
\* else behind the events of the settle.
LEMMA SettleThenCloseStep ==
    ASSUME IInv, pc \in {"model", "llm"}, NEW o \in TurnOutcomes, SettleThenClose(o)
    PROVE  IInv'
<1> DEFINE q == SettleOpenExecutions(path)
<1>1. path \in Seq(Entries) /\ Sound(path) /\ LiveAreOpen(path)
  BY DEF IInv, TypeOK, CallsSound, SettledBehindClose, LiveAreOpen
<1>2. pc \in Moving
  BY DEF Moving, PastTheGate
<1>3. /\ q \in Seq(Entries) /\ Len(q) = Len(path) /\ Len(path) \in Nat
      /\ DOMAIN q = DOMAIN path
      /\ \A i \in DOMAIN path : q[i].kind = path[i].kind
      /\ \A i \in DOMAIN path : Holds(path, i, "tool") => q[i].approval = path[i].approval
      /\ Sound(q) /\ AllTerminal(q)
  BY <1>1, <1>2, NothingRuns, SettleFacts
<1>4. CASE q = path
  <2>1. /\ path' = Append(q, TurnFinish(o)) /\ pc' = "off" /\ FreshDrive
        /\ UNCHANGED <<recheck, counters>>
    BY <1>4 DEF SettleThenClose, EndDrive
  <2> HIDE DEF q
  <2> QED
    BY <1>3, <2>1, ClosedStep
<1>5. CASE q # path
  <2>1. /\ path' = q /\ pc' = "settled" /\ closing' = o
        /\ UNCHANGED <<recheck, token, polled, announced, lastSeen, progress, batch>>
        /\ runs' = runs /\ posts' = posts /\ notifies' = notifies
    BY <1>5 DEF SettleThenClose, counters
  <2> HIDE DEF q
  <2>2. /\ HasOpenTurn(path') <=> HasOpenTurn(path)
        /\ CancelIsPending(path') <=> CancelIsPending(path)
    BY <1>1, <1>3, <2>1, RewriteOpenTurn
  <2>3. \A i \in DOMAIN path' : Holds(path', i, "tool") =>
           /\ path'[i].status \in TerminalStatuses
           /\ path'[i].status \notin NonterminalStatuses
           /\ path'[i].status \notin {"running", "pending"}
    BY <1>3, <2>1 DEF AllTerminal, TerminalStatuses, NonterminalStatuses
  <2>4. TypeOK'
    <3>1. token' \in BOOLEAN /\ recheck' \in BOOLEAN /\ progress' \in BOOLEAN
      BY <2>1 DEF IInv, TypeOK
    <3>2. polled' \subseteq DOMAIN path' /\ announced' \subseteq DOMAIN path' /\ batch' \subseteq DOMAIN path'
      BY <1>3, <2>1 DEF IInv, TypeOK
    <3>3. /\ path' \in Seq(Entries) /\ lastSeen' \in 0..Len(path')
          /\ closing' \in TurnOutcomes \cup {"none"} /\ {runs', posts', notifies'} \subseteq Nat
      BY <1>3, <2>1 DEF IInv, TypeOK
    <3>4. pc' \in Locations
      BY <2>1 DEF Locations, Suspended, Yielding
    <3> QED
      BY <3>1, <3>2, <3>3, <3>4 DEF TypeOK
  <2>5. CallsSound' /\ SettledBehindClose' /\ RunningInv'
    BY <1>3, <2>1, <2>3 DEF CallsSound, SettledBehindClose, RunningInv
  <2>6. BatchInv'
    BY <1>2, <2>1, NothingRuns DEF BatchInv
  <2>7. TokenInv' /\ OpenInv'
    BY <2>1, <2>2 DEF IInv, TokenInv, OpenInv, Engaged, Suspended, Raced, Yielding, Running, Off
  <2>8. QuietInv'
    BY <2>1, <2>3 DEF QuietInv, PastTheGate
  <2>9. PolledInv'
    <3>1. \A i \in polled' : Holds(path', i, "tool") /\ path'[i].approval = "allowed" /\ i \in DOMAIN path'
      BY <1>3, <2>1 DEF IInv, TypeOK, PolledInv, Holds
    <3> QED
      BY <2>3, <3>1 DEF PolledInv
  <2> QED
    BY <2>4, <2>5, <2>6, <2>7, <2>8, <2>9 DEF IInv
<1> QED
  BY <1>4, <1>5

\* The call being dispatched leaves the batch, settled or parked again.
LEMMA SettleStep ==
    ASSUME IInv, pc \in {"prepare", "body"}, NEW i, IsCurrent(i),
           NEW x \in ToolExecutions, CallSound(x), x.kind = "tool",
           x.approval = "allowed", x.status \in TerminalStatuses \cup {"awaiting_result"},
           NEW location \in {"executed", "dispatch"},
           Settle(i, x, location)
    PROVE  IInv'
<1>1. /\ path' = [path EXCEPT ![i] = x] /\ batch' = batch \ {i} /\ pc' = location
      /\ UNCHANGED <<recheck, token, polled, announced, lastSeen, progress, closing>>
      /\ runs' = runs /\ posts' = posts /\ notifies' = notifies
  BY DEF Settle, counters
<1>2. /\ i \in DOMAIN path /\ i \in batch /\ path \in Seq(Entries)
      /\ DOMAIN path = 1..Len(path) /\ Len(path) \in Nat
      /\ Holds(path, i, "tool") /\ path[i].kind = "tool"
      /\ \A j \in batch : j # i => ~IsCurrent(j)
  BY DEF IInv, TypeOK, BatchInv, IsCurrent, Holds
<1>3. x \in Entries
  BY DEF Entries
<1>4. /\ path' \in Seq(Entries) /\ Len(path') = Len(path) /\ DOMAIN path' = DOMAIN path
      /\ path'[i] = x
      /\ \A j \in DOMAIN path : j # i => path'[j] = path[j]
  BY <1>1, <1>2, <1>3, ExceptSeq
<1>5. \A j \in DOMAIN path : path'[j].kind = path[j].kind
  BY <1>2, <1>4
<1>6. /\ HasOpenTurn(path') <=> HasOpenTurn(path)
      /\ CancelIsPending(path') <=> CancelIsPending(path)
      /\ \A j : InOpenTurn(path', j) <=> InOpenTurn(path, j)
  BY <1>2, <1>4, <1>5, RewriteOpenTurn
<1>7. TypeOK'
  <2>1. token' \in BOOLEAN /\ recheck' \in BOOLEAN /\ progress' \in BOOLEAN
    BY <1>1 DEF IInv, TypeOK
  <2>2. polled' \subseteq DOMAIN path' /\ announced' \subseteq DOMAIN path' /\ batch' \subseteq DOMAIN path'
    BY <1>1, <1>4 DEF IInv, TypeOK
  <2>3. /\ lastSeen' \in 0..Len(path')
        /\ closing' \in TurnOutcomes \cup {"none"} /\ {runs', posts', notifies'} \subseteq Nat
    BY <1>1, <1>4 DEF IInv, TypeOK
  <2>4. pc' \in Locations
    BY <1>1 DEF Locations, Suspended, Yielding, Running
  <2> QED
    BY <1>4, <2>1, <2>2, <2>3, <2>4 DEF TypeOK
<1>8. CallsSound'
  BY <1>2, <1>4 DEF IInv, CallsSound, Sound, Holds
<1>9. BatchInv'
  <2>1. \A j \in batch' : /\ Holds(path', j, "tool") /\ path'[j].approval = "allowed"
                          /\ path'[j].status \in {"pending", "awaiting_result"}
    BY <1>1, <1>2, <1>4 DEF IInv, TypeOK, BatchInv, Holds
  <2>2. batch' # {} => progress' /\ pc' \in {"dispatch", "executed"}
    BY <1>1, <1>2 DEF IInv, BatchInv
  <2> QED
    BY <1>1, <2>1, <2>2 DEF BatchInv
<1>10. RunningInv'
  <2>1. \A j \in DOMAIN path' : Holds(path', j, "tool") => path'[j].status # "running"
    <3>1. x.status # "running"
      BY DEF TerminalStatuses
    <3>2. \A j \in DOMAIN path : IsCurrent(j) => j = i
      BY <1>2 DEF IsCurrent
    <3> QED
      BY <1>4, <3>1, <3>2 DEF IInv, RunningInv, Holds, Off
  <2> QED
    BY <2>1 DEF RunningInv
<1>11. TokenInv' /\ OpenInv'
  <2>1. pc \in Engaged \ {"drive", "ending"} /\ pc \notin Off /\ pc \notin {"begun", "loop", "top"}
    BY DEF Engaged, Suspended, Raced, Off
  <2> QED
    BY <1>1, <1>6, <2>1 DEF IInv, TokenInv, OpenInv, Off
<1>12. QuietInv'
  <2>1. Quiet(x)
    BY DEF Quiet
  <2>2. \A j \in DOMAIN path' : Holds(path', j, "tool") =>
          Quiet(path'[j]) \/ j \in batch' \/ (token' /\ progress')
    BY <1>1, <1>2, <1>4, <2>1 DEF IInv, QuietInv, Holds
  <2> QED
    BY <1>1, <2>2 DEF QuietInv, PastTheGate
<1>13. PolledInv'
  <2>1. x.status # "pending"
    BY DEF TerminalStatuses
  <2> QED
    BY <1>1, <1>2, <1>4, <2>1 DEF IInv, TypeOK, PolledInv, Holds
<1>14. SettledBehindClose'
  BY <1>2, <1>4, <1>5, <1>6 DEF IInv, SettledBehindClose, Holds, NonterminalStatuses, TerminalStatuses,
     BatchInv, IsCurrent
<1> QED
  BY <1>7, <1>8, <1>9, <1>10, <1>11, <1>12, <1>13, <1>14 DEF IInv

-----------------------------------------------------------------------------
(* The invariant is inductive: the doors.                                  *)

\* post_message appends at the leaf while the engine is suspended or off.
LEMMA PostStep == IInv /\ Post => IInv'
<1> SUFFICES ASSUME IInv, Post PROVE IInv'
  OBVIOUS
<1>1. /\ path' = Append(path, UserMessage)
      /\ pc' = pc /\ token' = token /\ polled' = polled /\ announced' = announced
      /\ lastSeen' = lastSeen /\ progress' = progress /\ batch' = batch
      /\ closing' = closing /\ recheck' = TRUE
      /\ runs' = runs /\ posts' = posts + 1 /\ notifies' = notifies
  BY DEF Post, drive
<1>2. UserMessage \in Entries /\ UserMessage.kind = "user"
  BY DEF Entries, UserMessage
<1>3. /\ path' \in Seq(Entries) /\ Len(path') = Len(path) + 1 /\ Len(path) \in Nat
      /\ DOMAIN path = 1..Len(path) /\ DOMAIN path' = 1..(Len(path) + 1)
      /\ \A i \in DOMAIN path : path'[i] = path[i]
      /\ path'[Len(path) + 1].kind = "user"
  BY <1>1, <1>2, AppendFacts DEF IInv, TypeOK
<1>4. /\ HasOpenTurn(path') <=> HasOpenTurn(path)
      /\ \A i \in DOMAIN path : InOpenTurn(path', i) <=> InOpenTurn(path, i)
      /\ CancelIsPending(path') <=> CancelIsPending(path)
  BY <1>1, <1>2, AppendOpenTurn DEF IInv, TypeOK
<1>5. TypeOK'
  BY <1>1, <1>3, DriveTypes DEF IInv, TypeOK, drive
<1>6. CallsSound'
  BY <1>3 DEF IInv, CallsSound, Sound, Holds
<1>7. BatchInv'
  BY <1>1, <1>3 DEF IInv, TypeOK, BatchInv, Holds, IsCurrent
<1>8. RunningInv'
  BY <1>1, <1>3 DEF IInv, TypeOK, RunningInv, Holds, IsCurrent
<1>9. TokenInv' /\ OpenInv'
  BY <1>1, <1>4 DEF IInv, TokenInv, OpenInv
<1>10. QuietInv'
  BY <1>1, <1>3 DEF IInv, QuietInv, Holds
<1>11. PolledInv'
  BY <1>1, <1>3 DEF IInv, TypeOK, PolledInv, Holds
<1>12. SettledBehindClose'
  BY <1>3, <1>4 DEF IInv, SettledBehindClose, Holds
<1> QED
  BY <1>5, <1>6, <1>7, <1>8, <1>9, <1>10, <1>11, <1>12 DEF IInv

\* cancel writes its entry and trips the live run's token in one step.
LEMMA CancelStep ==
    ASSUME IInv, NEW outcome \in CancelOutcomes, Cancel(outcome)
    PROVE  IInv'
<1>1. /\ path' = Append(path, CancelRequested(outcome))
      /\ pc' = pc /\ token' = (pc \in Suspended) /\ polled' = polled
      /\ announced' = announced
      /\ lastSeen' = lastSeen /\ progress' = progress /\ batch' = batch
      /\ closing' = closing /\ recheck' = recheck
      /\ pc \in Suspended \cup Off /\ ~CancelIsPending(path) /\ HasOpenTurn(path)
      /\ runs' = runs /\ posts' = posts /\ notifies' = notifies
  BY DEF Cancel, counters
<1>2. CancelRequested(outcome) \in Entries /\ CancelRequested(outcome).kind = "cancel"
  BY TurnAssumption DEF Entries, CancelRequested
<1>3. /\ path' \in Seq(Entries) /\ Len(path') = Len(path) + 1 /\ Len(path) \in Nat
      /\ DOMAIN path = 1..Len(path) /\ DOMAIN path' = 1..(Len(path) + 1)
      /\ \A i \in DOMAIN path : path'[i] = path[i]
      /\ path'[Len(path) + 1].kind = "cancel"
  BY <1>1, <1>2, AppendFacts DEF IInv, TypeOK
<1>4. /\ HasOpenTurn(path')
      /\ \A i \in DOMAIN path : InOpenTurn(path', i) <=> InOpenTurn(path, i)
      /\ CancelIsPending(path')
  BY <1>1, <1>2, AppendOpenTurn DEF IInv, TypeOK
<1>5. ~token
  <2>1. CASE pc = "ending"
    BY <1>1, <2>1 DEF IInv, OpenInv
  <2>2. CASE pc # "ending"
    BY <1>1, <2>2 DEF IInv, TokenInv
  <2> QED
    BY <2>1, <2>2
<1>6. TypeOK'
  <2>1. token' \in BOOLEAN /\ recheck' \in BOOLEAN /\ progress' \in BOOLEAN
    BY <1>1 DEF IInv, TypeOK
  <2>2. polled' \subseteq DOMAIN path' /\ announced' \subseteq DOMAIN path' /\ batch' \subseteq DOMAIN path'
    BY <1>1, <1>3 DEF IInv, TypeOK
  <2>3. /\ lastSeen' \in 0..Len(path') /\ pc' \in Locations
        /\ closing' \in TurnOutcomes \cup {"none"} /\ {runs', posts', notifies'} \subseteq Nat
    BY <1>1, <1>3 DEF IInv, TypeOK
  <2> QED
    BY <1>3, <2>1, <2>2, <2>3 DEF TypeOK
<1>7. CallsSound'
  BY <1>3 DEF IInv, CallsSound, Sound, Holds
<1>8. BatchInv'
  BY <1>1, <1>3 DEF IInv, TypeOK, BatchInv, Holds, IsCurrent
<1>9. RunningInv'
  BY <1>1, <1>3 DEF IInv, TypeOK, RunningInv, Holds, IsCurrent
<1>10. TokenInv' /\ OpenInv'
  <2>1. pc \in Suspended => pc \notin Off
    BY DEF Suspended, Raced, Yielding, Off
  <2> QED
    BY <1>1, <1>4, <2>1 DEF IInv, TokenInv, OpenInv
<1>11. QuietInv'
  BY <1>1, <1>3, <1>5 DEF IInv, QuietInv, Holds
<1>12. PolledInv'
  BY <1>1, <1>3, <1>5 DEF IInv, TypeOK, PolledInv, Holds
<1>13. SettledBehindClose'
  BY <1>3, <1>4 DEF IInv, SettledBehindClose, Holds
<1> QED
  BY <1>6, <1>7, <1>8, <1>9, <1>10, <1>11, <1>12, <1>13 DEF IInv

\* notify touches nothing but the flag, and a stuttering step nothing at all.
LEMMA NotifyStep == IInv /\ (Notify \/ UNCHANGED vars) => IInv'
<1> SUFFICES ASSUME IInv, Notify \/ UNCHANGED vars PROVE IInv'
  OBVIOUS
<1>1. /\ path' = path /\ pc' = pc /\ token' = token /\ polled' = polled
      /\ announced' = announced /\ lastSeen' = lastSeen /\ progress' = progress
      /\ batch' = batch /\ closing' = closing
  BY DEF Notify, drive, vars
<1>2. TypeOK'
  <2>1. recheck' \in BOOLEAN
    BY DEF Notify, vars, IInv, TypeOK
  <2>2. {runs', posts', notifies'} \subseteq Nat
    BY DEF Notify, vars, counters, IInv, TypeOK
  <2> QED
    BY <1>1, <2>1, <2>2, DriveTypes DEF IInv, TypeOK, drive
<1> QED
  BY <1>1, <1>2 DEF IInv, CallsSound, BatchInv, RunningInv, TokenInv, OpenInv, QuietInv,
     PolledInv, SettledBehindClose, IsCurrent

\* A run takes up any durable path; an eager one opens the turn it needs.
LEMMA BeginStep ==
    ASSUME IInv, NEW eager \in BOOLEAN, Begin(eager)
    PROVE  IInv'
<1>1. /\ path' = IF eager /\ ~HasOpenTurn(path) THEN Append(path, TurnStart) ELSE path
      /\ pc' = IF eager THEN "begun" ELSE "drive"
      /\ token' = FALSE /\ polled' = {} /\ announced' = {} /\ lastSeen' = 0
      /\ progress' = FALSE /\ batch' = {} /\ closing' = "none"
      /\ recheck' = recheck
      /\ runs' = runs + 1 /\ posts' = posts /\ notifies' = notifies
  BY DEF Begin, FreshDrive
<1>2. path \in Seq(Entries) /\ TurnStart \in Entries /\ TurnStart.kind = "start"
  BY DEF IInv, TypeOK, Entries, TurnStart
<1>3. /\ path' \in Seq(Entries) /\ Len(path') \in Nat
      /\ DOMAIN path \subseteq DOMAIN path'
      /\ \A i \in DOMAIN path : path'[i] = path[i]
      /\ \A i \in DOMAIN path' \ DOMAIN path : path'[i].kind = "start"
  BY <1>1, <1>2, AppendFacts
<1>4. eager => HasOpenTurn(path')
  BY <1>1, <1>2, AppendStart
<1>5. \A i \in DOMAIN path : InOpenTurn(path, i) => InOpenTurn(path', i)
  BY <1>1, NoOpenTurn
<1>6. pc' \in {"begun", "drive"}
  BY <1>1
<1>7. TypeOK'
  <2>1. token' \in BOOLEAN /\ recheck' \in BOOLEAN /\ progress' \in BOOLEAN
    BY <1>1 DEF IInv, TypeOK
  <2>2. polled' \subseteq DOMAIN path' /\ announced' \subseteq DOMAIN path' /\ batch' \subseteq DOMAIN path'
    BY <1>1
  <2>3. /\ lastSeen' \in 0..Len(path') /\ closing' \in TurnOutcomes \cup {"none"}
        /\ {runs', posts', notifies'} \subseteq Nat
    BY <1>1, <1>3 DEF IInv, TypeOK
  <2>4. pc' \in Locations
    BY <1>6 DEF Locations, Suspended, Yielding, Running
  <2> QED
    BY <1>3, <2>1, <2>2, <2>3, <2>4 DEF TypeOK
<1>8. CallsSound'
  BY <1>3 DEF IInv, CallsSound, Sound, Holds
<1>9. BatchInv' /\ PolledInv'
  BY <1>1 DEF BatchInv, PolledInv
<1>10. RunningInv'
  BY <1>6 DEF RunningInv
<1>11. QuietInv'
  BY <1>6 DEF QuietInv, PastTheGate
<1>12. TokenInv' /\ OpenInv'
  BY <1>1, <1>4, <1>6 DEF TokenInv, OpenInv, Off
<1>13. SettledBehindClose'
  BY <1>3, <1>5 DEF IInv, SettledBehindClose, Holds
<1> QED
  BY <1>7, <1>8, <1>9, <1>10, <1>11, <1>12, <1>13 DEF IInv

\* Every way a drive stops without a write of its own.
LEMMA StopStep ==
    ASSUME IInv, Suspend \/ Crash \/ Ending \/ ApplicationRaises \/ Park
    PROVE  IInv'
<1>1. path' = path /\ pc' \in {"off", "parked"} /\ FreshDrive /\ UNCHANGED counters
  BY DEF Suspend, Crash, Ending, ApplicationRaises, Park, EndDrive
<1>2. recheck' \in BOOLEAN
  BY DEF Suspend, Crash, Ending, ApplicationRaises, Park, EndDrive, IInv, TypeOK
<1> QED
  BY <1>1, <1>2, StoppedStep DEF Off

\* The close behind a settle whose events were delivered.
LEMMA CloseSettledStep == IInv /\ CloseSettled => IInv'
<1> SUFFICES ASSUME IInv, CloseSettled PROVE IInv'
  OBVIOUS
<1>1. /\ pc = "settled" /\ path' = Append(path, TurnFinish(closing)) /\ pc' = "off"
      /\ FreshDrive /\ UNCHANGED <<recheck, counters>>
  BY DEF CloseSettled, EndDrive
<1>2. closing \in TurnOutcomes
  BY <1>1 DEF IInv, OpenInv
<1>3. path \in Seq(Entries) /\ Sound(path) /\ AllTerminal(path) /\ Len(path) \in Nat
  BY <1>1 DEF IInv, TypeOK, CallsSound, QuietInv, AllTerminal
<1> QED
  BY <1>1, <1>2, <1>3, ClosedStep

-----------------------------------------------------------------------------
(* The invariant is inductive: the engine.                                 *)

\* The engine's moves that write no entry and hold no batch.
LEMMA MoveStep ==
    ASSUME IInv,
           \/ LoopTop \/ BirthLost \/ Gate \/ GatePassed \/ GateRechecked \/ NotBlocked
           \/ Resume \/ Project \/ ToolsCollected \/ ModelLost
    PROVE  IInv'
<1>1. path' = path /\ token' = token /\ batch' = batch /\ closing' = closing /\ UNCHANGED counters
  BY DEF LoopTop, BirthLost, Gate, GatePassed, GateRechecked, NotBlocked, Resume, Project,
     ToolsCollected, ModelLost, drive
<1>2. pc \in Moving /\ pc' \in Moving
  BY DEF LoopTop, BirthLost, Gate, GatePassed, GateRechecked, NotBlocked, Resume, Project,
     ToolsCollected, ModelLost, Moving, PastTheGate
<1>3. batch = {} /\ batch' = {}
  BY <1>1, <1>2, NothingRuns
<1>4. polled' \subseteq polled
  BY DEF LoopTop, BirthLost, Gate, GatePassed, GateRechecked, NotBlocked, Resume, Project,
     ToolsCollected, ModelLost, drive
<1>5. announced' \subseteq DOMAIN path
  <2>1. CASE Gate
    BY <2>1, AwaitingInPath DEF Gate, IInv, TypeOK
  <2>2. CASE ~Gate
    BY <2>2 DEF LoopTop, BirthLost, GatePassed, GateRechecked, NotBlocked, Resume, Project,
       ToolsCollected, ModelLost, drive, IInv, TypeOK
  <2> QED
    BY <2>1, <2>2
<1>6. lastSeen' \in 0..Len(path)
  <2>1. Len(path) \in 0..Len(path)
    BY DEF IInv, TypeOK
  <2> QED
    BY <2>1 DEF LoopTop, BirthLost, Gate, GatePassed, GateRechecked, NotBlocked, Resume, Project,
       ToolsCollected, ModelLost, drive, IInv, TypeOK
<1>7. recheck' \in BOOLEAN
  BY DEF LoopTop, BirthLost, Gate, GatePassed, GateRechecked, NotBlocked, Resume, Project,
     ToolsCollected, ModelLost, drive, IInv, TypeOK
<1>8. progress' \in BOOLEAN
  BY DEF LoopTop, BirthLost, Gate, GatePassed, GateRechecked, NotBlocked, Resume, Project,
     ToolsCollected, ModelLost, drive, IInv, TypeOK
<1>9. /\ path \in Seq(Entries) /\ LiveAreOpen(path)
      /\ pc # "ending" /\ pc \notin Off \cup {"begun", "drive"}
      /\ \A i \in DOMAIN path : Holds(path, i, "tool") =>
            path[i] \in ToolExecutions /\ path[i].status # "running"
  BY <1>2, NothingRuns, PathEntry DEF IInv, TypeOK, SettledBehindClose, LiveAreOpen, Moving,
     PastTheGate, Off
<1>10. CancelIsPending(path) => token \/ pc' \in {"loop", "top"}
  BY <1>9 DEF LoopTop, BirthLost, Gate, GatePassed, GateRechecked, NotBlocked, Resume, Project,
     ToolsCollected, ModelLost, IInv, TokenInv
<1>11. token => CancelIsPending(path)
  BY <1>9 DEF IInv, TokenInv
<1>12. token => pc' \notin {"decide", "denied", "select"}
  BY <1>11 DEF LoopTop, BirthLost, Gate, GatePassed, GateRechecked, NotBlocked, Resume, Project,
     ToolsCollected, ModelLost
<1>13. QuietInv'
  <2>1. CASE LoopTop
    <3>1. pc' = "decide" => progress'
      BY <2>1 DEF LoopTop
    <3>2. pc' \in {"birth", "decide", "select"}
      BY <2>1 DEF LoopTop
    <3>3. ASSUME NEW i \in DOMAIN path, Holds(path, i, "tool"), pc' \in {"decide", "select"}
          PROVE  path[i].status # "received"
      BY <1>9, <2>1, <3>3, DerivedSets DEF LoopTop
    <3>4. ASSUME NEW i \in DOMAIN path, Holds(path, i, "tool"), pc' = "select", ~Quiet(path[i])
          PROVE  path[i].approval = "allowed"
      <4>1. path[i].status = "pending" /\ path[i].approval # "pending"
        BY <1>9, <3>3, <3>4 DEF Quiet, ToolExecutions, Statuses, NonterminalStatuses
      <4>2. path[i].approval \in {"none", "allowed"}
        BY <1>9, <3>4, <4>1 DEF ToolExecutions, Approvals, IInv, CallsSound, Sound, CallSound
      <4>3. i \notin UndecidedExecutions(path)
        BY <2>1, <3>4 DEF LoopTop
      <4> QED
        BY <1>9, <3>4, <4>1, <4>2, <4>3, DerivedSets
    <3> QED
      BY <1>1, <3>1, <3>2, <3>3, <3>4 DEF QuietInv, PastTheGate
  <2>2. CASE Gate
    <3>1. ~token /\ pc' \in PastTheGate /\ pc' \in {"announced", "gateCheck"}
      BY <1>11, <2>2 DEF Gate, PastTheGate
    <3>2. \A i \in DOMAIN path : Holds(path, i, "tool") => Quiet(path[i])
      BY <2>2, <3>1 DEF Gate, IInv, QuietInv
    <3> QED
      BY <1>1, <3>1, <3>2 DEF QuietInv
  <2>3. CASE NotBlocked
    <3>1. pc' = "top" \/ (pc' = "model" /\ ~progress)
      BY <2>3 DEF NotBlocked
    <3>2. pc' = "model" => \A i \in DOMAIN path : Holds(path, i, "tool") => Quiet(path[i])
      BY <2>3, <3>1 DEF NotBlocked, IInv, QuietInv
    <3> QED
      BY <1>1, <3>1, <3>2 DEF QuietInv, PastTheGate
  <2>4. CASE BirthLost \/ GateRechecked \/ ModelLost
    BY <1>1, <2>4 DEF BirthLost, GateRechecked, ModelLost, QuietInv, PastTheGate
  <2>5. CASE GatePassed \/ Resume \/ Project \/ ToolsCollected
    <3>1. pc \in PastTheGate /\ pc' \in {"model", "resumed", "project", "tools", "llm"}
      BY <2>5 DEF GatePassed, Resume, Project, ToolsCollected, PastTheGate
    <3>2. \A i \in DOMAIN path : Holds(path, i, "tool") => Quiet(path[i])
      BY <3>1 DEF IInv, QuietInv
    <3> QED
      BY <1>1, <3>1, <3>2 DEF QuietInv
  <2> QED
    BY <2>1, <2>2, <2>3, <2>4, <2>5
<1> QED
  BY <1>1, <1>2, <1>3, <1>4, <1>5, <1>6, <1>7, <1>8, <1>10, <1>12, <1>13, MovedStep

\* A drive opens the turn it needs and closes what a dead one left running.
LEMMA DriveStep == IInv /\ Drive => IInv'
<1> SUFFICES ASSUME IInv, Drive PROVE IInv'
  OBVIOUS
<1> DEFINE opened == IF HasOpenTurn(path) THEN path ELSE Append(path, TurnStart)
<1>1. /\ pc \in {"begun", "drive"}
      /\ path' = [i \in DOMAIN opened |->
                    IF i \in RunningExecutions(opened) THEN Discard(opened[i]) ELSE opened[i]]
      /\ pc' \in {"top", "loop"}
      /\ UNCHANGED <<recheck, drive, counters>>
  BY DEF Drive
<1>2. path \in Seq(Entries) /\ TurnStart \in Entries /\ TurnStart.kind = "start"
  BY DEF IInv, TypeOK, Entries, TurnStart
<1>3. /\ opened \in Seq(Entries) /\ Len(opened) \in Nat /\ Len(path) <= Len(opened)
      /\ DOMAIN path \subseteq DOMAIN opened
      /\ \A i \in DOMAIN path : opened[i] = path[i]
      /\ \A i \in DOMAIN opened \ DOMAIN path : opened[i].kind = "start"
  BY <1>2, AppendFacts
<1>4. HasOpenTurn(opened)
  BY <1>2, AppendStart
<1>5. \A i \in DOMAIN path : InOpenTurn(path, i) => InOpenTurn(opened, i)
  BY NoOpenTurn
<1>6. token => CancelIsPending(opened)
  BY <1>1, NoOpenTurn DEF IInv, TokenInv
<1> HIDE DEF opened
<1>7. LiveAreOpen(opened) /\ Sound(opened)
  BY <1>3, <1>5 DEF IInv, SettledBehindClose, LiveAreOpen, CallsSound, Sound, Holds
<1>8. ASSUME NEW i \in DOMAIN opened
      PROVE  /\ Holds(opened, i, "tool") =>
                  /\ path'[i] \in ToolExecutions /\ path'[i].kind = "tool"
                  /\ CallSound(path'[i]) /\ path'[i].approval = opened[i].approval
                  /\ path'[i].status = IF opened[i].status = "running" THEN "interrupted"
                                       ELSE opened[i].status
             /\ ~Holds(opened, i, "tool") => path'[i] = opened[i]
  <2>1. CASE i \in RunningExecutions(opened)
    <3>1. Holds(opened, i, "tool") /\ opened[i].status = "running" /\ path'[i] = Discard(opened[i])
      BY <1>1, <1>7, <2>1, DerivedSets
    <3>2. opened[i] \in ToolExecutions /\ CallSound(opened[i])
      BY <1>3, <1>7, <3>1, PathEntry DEF Sound
    <3>3. Discard(opened[i]).kind = "tool"
      BY <3>2, DiscardRunning, <3>1 DEF ToolExecutions
    <3> QED
      BY <3>1, <3>2, <3>3, DiscardRunning
  <2>2. CASE i \notin RunningExecutions(opened)
    <3>1. path'[i] = opened[i] /\ (Holds(opened, i, "tool") => opened[i].status # "running")
      BY <1>1, <1>7, <2>2, DerivedSets
    <3> QED
      BY <1>3, <1>7, <3>1, PathEntry DEF Sound, Holds
  <2> QED
    BY <2>1, <2>2
<1>9. /\ path' \in Seq(Entries) /\ Len(path') = Len(opened) /\ DOMAIN path' = DOMAIN opened
      /\ \A i \in DOMAIN opened : path'[i].kind = opened[i].kind
  <2>1. \A i \in DOMAIN opened : path'[i] \in Entries
    BY <1>3, <1>8, PathEntry DEF Entries
  <2>2. path' = [i \in DOMAIN opened |-> path'[i]]
    BY <1>1
  <2>3. path' \in Seq(Entries) /\ Len(path') = Len(opened) /\ DOMAIN path' = DOMAIN opened
    BY <1>3, <2>1, <2>2, RewriteFacts
  <2> QED
    BY <1>8, <2>3 DEF Holds
<1>10. /\ HasOpenTurn(path')
       /\ CancelIsPending(path') <=> CancelIsPending(opened)
       /\ \A i : InOpenTurn(path', i) <=> InOpenTurn(opened, i)
  BY <1>3, <1>4, <1>9, RewriteOpenTurn
<1>11. /\ token' = token /\ polled' = polled /\ progress' = progress /\ batch' = batch
       /\ batch = {} /\ recheck' = recheck /\ runs' = runs /\ posts' = posts
       /\ notifies' = notifies /\ pc \notin {"decide", "denied", "select"}
  BY <1>1 DEF drive, counters, IInv, BatchInv
<1>12. TypeOK'
  <2>1. pc' \in Locations
    BY <1>1 DEF Locations, Suspended, Running, Yielding
  <2> QED
    BY <1>1, <1>3, <1>9, <1>11, <2>1, DriveTypes DEF IInv, TypeOK
<1>13. CallsSound'
  BY <1>8, <1>9 DEF CallsSound, Sound, Holds
<1>14. BatchInv'
  BY <1>11 DEF BatchInv
<1>15. RunningInv'
  BY <1>8, <1>9 DEF RunningInv, Holds
<1>16. TokenInv' /\ OpenInv'
  BY <1>1, <1>6, <1>10, <1>11 DEF TokenInv, OpenInv, Off
<1>17. QuietInv'
  BY <1>1 DEF QuietInv, PastTheGate
<1>18. PolledInv'
  BY <1>1, <1>3, <1>8, <1>9, <1>11 DEF IInv, TypeOK, PolledInv, Holds
<1>19. SettledBehindClose'
  BY <1>7, <1>8, <1>9, <1>10 DEF SettledBehindClose, LiveAreOpen, Holds, NonterminalStatuses
<1> QED
  BY <1>12, <1>13, <1>14, <1>15, <1>16, <1>17, <1>18, <1>19 DEF IInv

\* A batch of births: each received call gets a bodiless status.
LEMMA BirthStep == IInv /\ Birth => IInv'
<1> SUFFICES ASSUME IInv, Birth PROVE IInv'
  OBVIOUS
<1>1. PICK born \in [ReceivedExecutions(path) ->
                       BirthStatuses \cup (IF token THEN {"pending"} ELSE {})] :
        path' = [i \in DOMAIN path |->
                   IF i \in DOMAIN born THEN Finalize(path[i], born[i]) ELSE path[i]]
  BY DEF Birth
<1>2. pc = "birth" /\ pc' = "loop" /\ UNCHANGED <<recheck, drive, counters>>
  BY DEF Birth
<1>3. path \in Seq(Entries) /\ LiveAreOpen(path) /\ Sound(path) /\ batch = {}
  BY <1>2 DEF IInv, TypeOK, SettledBehindClose, LiveAreOpen, CallsSound, BatchInv
<1>4. ASSUME NEW i \in DOMAIN path
      PROVE  \/ /\ Holds(path, i, "tool") /\ path[i].status = "received"
                /\ path[i].approval = "none"
                /\ path'[i] \in ToolExecutions /\ path'[i].kind = "tool"
                /\ CallSound(path'[i]) /\ path'[i].status # "running"
             \/ path'[i] = path[i]
  <2>1. CASE i \in ReceivedExecutions(path)
    <3>1. Holds(path, i, "tool") /\ path[i].status = "received"
      BY <1>3, <2>1, DerivedSets
    <3>2. path[i] \in ToolExecutions /\ CallSound(path[i]) /\ path[i].approval = "none"
      BY <1>3, <3>1, PathEntry DEF Sound, CallSound
    <3>3. born[i] \in {"pending", "not_found", "invalid", "failed", "refused"}
      BY <2>1, TurnAssumption
    <3>4. path'[i] = Finalize(path[i], born[i])
      BY <1>1, <2>1
    <3>5. path'[i] \in ToolExecutions /\ CallSound(path'[i])
      BY <3>1, <3>2, <3>3, <3>4, SettleUnstarted
    <3>6. path'[i].status = born[i] /\ path'[i].kind = "tool"
      BY <3>2, <3>3, <3>4, FinalizeFacts DEF Statuses, NonterminalStatuses, TerminalStatuses
    <3> QED
      BY <3>1, <3>2, <3>3, <3>5, <3>6
  <2>2. CASE i \notin ReceivedExecutions(path)
    BY <1>1, <2>2
  <2> QED
    BY <2>1, <2>2
<1>5. /\ path' \in Seq(Entries) /\ Len(path') = Len(path) /\ DOMAIN path' = DOMAIN path
      /\ \A i \in DOMAIN path : path'[i].kind = path[i].kind
  <2>1. \A i \in DOMAIN path : path'[i] \in Entries
    BY <1>3, <1>4, PathEntry DEF Entries
  <2>2. path' = [i \in DOMAIN path |-> path'[i]]
    BY <1>1
  <2>3. path' \in Seq(Entries) /\ Len(path') = Len(path) /\ DOMAIN path' = DOMAIN path
    BY <1>3, <2>1, <2>2, RewriteFacts
  <2> QED
    BY <1>4, <2>3 DEF Holds
<1>6. /\ HasOpenTurn(path') <=> HasOpenTurn(path)
      /\ CancelIsPending(path') <=> CancelIsPending(path)
      /\ \A i : InOpenTurn(path', i) <=> InOpenTurn(path, i)
  BY <1>3, <1>5, RewriteOpenTurn
<1>7. /\ token' = token /\ polled' = polled /\ progress' = progress /\ batch' = {}
      /\ recheck' = recheck /\ runs' = runs /\ posts' = posts /\ notifies' = notifies
  BY <1>2, <1>3 DEF drive, counters
<1>8. TypeOK'
  <2>1. pc' \in Locations
    BY <1>2 DEF Locations, Suspended, Yielding
  <2>2. Len(path) <= Len(path')
    BY <1>3, <1>5
  <2> QED
    BY <1>2, <1>5, <1>7, <2>1, <2>2, DriveTypes DEF IInv, TypeOK
<1>9. CallsSound'
  BY <1>3, <1>4, <1>5 DEF CallsSound, Sound, Holds
<1>10. BatchInv'
  BY <1>7 DEF BatchInv
<1>11. RunningInv'
  BY <1>2, <1>4, <1>5 DEF IInv, RunningInv, Holds, Off
<1>12. TokenInv' /\ OpenInv'
  BY <1>2, <1>6, <1>7 DEF IInv, TokenInv, OpenInv, Off, Engaged, Suspended, Raced
<1>13. QuietInv'
  BY <1>2 DEF QuietInv, PastTheGate
<1>14. PolledInv'
  BY <1>2, <1>3, <1>4, <1>5, <1>7 DEF IInv, TypeOK, PolledInv, Holds
<1>15. SettledBehindClose'
  BY <1>3, <1>4, <1>5, <1>6 DEF SettledBehindClose, LiveAreOpen, Holds, NonterminalStatuses
<1> QED
  BY <1>8, <1>9, <1>10, <1>11, <1>12, <1>13, <1>14, <1>15 DEF IInv

\* A batch of decisions, of which a tripped token may have lost some.
LEMMA DecideStep == IInv /\ Decide => IInv'
<1> SUFFICES ASSUME IInv, Decide PROVE IInv'
  OBVIOUS
<1>1. PICK answered \in SUBSET UndecidedExecutions(path) :
        /\ token \/ answered = UndecidedExecutions(path)
        /\ \E answer \in [answered -> {"allowed", "pending", "rejected"}] :
             path' = [i \in DOMAIN path |->
                        IF i \in answered THEN Decided(path[i], answer[i]) ELSE path[i]]
  BY DEF Decide
<1>2. PICK answer \in [answered -> {"allowed", "pending", "rejected"}] :
        path' = [i \in DOMAIN path |->
                   IF i \in answered THEN Decided(path[i], answer[i]) ELSE path[i]]
  BY <1>1
<1>3. pc = "decide" /\ pc' \in {"denied", "select"} /\ UNCHANGED <<recheck, drive, counters>>
  BY DEF Decide
<1>4. path \in Seq(Entries) /\ LiveAreOpen(path) /\ Sound(path) /\ batch = {} /\ progress
  BY <1>3 DEF IInv, TypeOK, SettledBehindClose, LiveAreOpen, CallsSound, BatchInv, QuietInv
<1>5. ASSUME NEW i \in answered
      PROVE  /\ i \in DOMAIN path /\ Holds(path, i, "tool") /\ path[i].status = "pending"
             /\ path[i].approval \in {"none", "pending"}
             /\ path'[i] \in ToolExecutions /\ path'[i].kind = "tool" /\ CallSound(path'[i])
             /\ Quiet(path'[i]) \/ path'[i].approval = "allowed"
             /\ path'[i].status \in {"pending", "rejected"}
  <2>1. /\ i \in DOMAIN path /\ Holds(path, i, "tool") /\ path[i].status = "pending"
        /\ path[i].approval \in {"none", "pending"}
    BY <1>4, <1>5, DerivedSets
  <2>2. path[i] \in ToolExecutions /\ CallSound(path[i])
    BY <1>4, <2>1, PathEntry DEF Sound
  <2>3. path'[i] = Decided(path[i], answer[i])
    BY <1>2, <1>5, <2>1
  <2>4. PICK a \in {"allowed", "pending", "rejected"} : a = answer[i]
    BY <1>5
  <2>5. /\ path'[i] \in ToolExecutions /\ CallSound(path'[i]) /\ path'[i].approval = a
        /\ path'[i].status = IF a = "rejected" THEN "rejected" ELSE "pending"
    BY <2>1, <2>2, <2>3, <2>4, DecideSound
  <2>6. path'[i].kind = "tool"
    BY <2>5 DEF ToolExecutions
  <2>7. Quiet(path'[i]) \/ path'[i].approval = "allowed"
    BY <2>4, <2>5 DEF Quiet, TerminalStatuses
  <2> QED
    BY <2>1, <2>5, <2>6, <2>7
<1>6. ASSUME NEW i \in DOMAIN path, i \notin answered
      PROVE  path'[i] = path[i]
  BY <1>2, <1>6
<1>7. /\ path' \in Seq(Entries) /\ Len(path') = Len(path) /\ DOMAIN path' = DOMAIN path
      /\ \A i \in DOMAIN path : path'[i].kind = path[i].kind
  <2>1. \A i \in DOMAIN path : path'[i] \in Entries
    BY <1>4, <1>5, <1>6, PathEntry DEF Entries
  <2>2. path' = [i \in DOMAIN path |-> path'[i]]
    BY <1>2
  <2>3. path' \in Seq(Entries) /\ Len(path') = Len(path) /\ DOMAIN path' = DOMAIN path
    BY <1>4, <2>1, <2>2, RewriteFacts
  <2> QED
    BY <1>5, <1>6, <2>3 DEF Holds
<1>8. /\ HasOpenTurn(path') <=> HasOpenTurn(path)
      /\ CancelIsPending(path') <=> CancelIsPending(path)
      /\ \A i : InOpenTurn(path', i) <=> InOpenTurn(path, i)
  BY <1>4, <1>7, RewriteOpenTurn
<1>9. /\ token' = token /\ polled' = polled /\ progress' = progress /\ batch' = {}
      /\ recheck' = recheck /\ runs' = runs /\ posts' = posts /\ notifies' = notifies
  BY <1>3, <1>4 DEF drive, counters
<1>10. TypeOK'
  <2>1. pc' \in Locations
    BY <1>3 DEF Locations, Suspended, Yielding, Running
  <2>2. Len(path) <= Len(path')
    BY <1>4, <1>7
  <2> QED
    BY <1>3, <1>7, <1>9, <2>1, <2>2, DriveTypes DEF IInv, TypeOK
<1>11. CallsSound'
  BY <1>4, <1>5, <1>6, <1>7 DEF CallsSound, Sound, Holds
<1>12. BatchInv'
  BY <1>9 DEF BatchInv
<1>13. RunningInv'
  BY <1>3, <1>5, <1>6, <1>7 DEF IInv, RunningInv, Holds, Off
<1>14. TokenInv' /\ OpenInv'
  BY <1>3, <1>8, <1>9 DEF IInv, TokenInv, OpenInv, Off, Engaged, Suspended, Raced
<1>15. QuietInv'
  <2>1. ASSUME NEW i \in DOMAIN path', Holds(path', i, "tool")
        PROVE  /\ path'[i].status # "received"
               /\ Quiet(path'[i]) \/ path'[i].approval = "allowed" \/ (token' /\ progress')
    <3>1. CASE i \in answered
      BY <1>5, <3>1
    <3>2. CASE i \notin answered
      <4>1. /\ i \in DOMAIN path /\ Holds(path, i, "tool") /\ path'[i] = path[i]
            /\ path[i] \in ToolExecutions /\ CallSound(path[i])
        BY <1>4, <1>6, <1>7, <2>1, <3>2, PathEntry DEF Holds, Sound
      <4>2. path[i].status \notin {"received", "running"}
        BY <1>3, <4>1 DEF IInv, QuietInv, RunningInv, Off
      <4>3. ~token => i \notin UndecidedExecutions(path)
        BY <1>1, <3>2
      <4>4. ~token /\ path[i].status = "pending" => path[i].approval = "allowed"
        BY <1>4, <4>1, <4>3, DerivedSets DEF ToolExecutions, Approvals, CallSound
      <4> QED
        BY <1>4, <1>9, <4>1, <4>2, <4>4 DEF Quiet, ToolExecutions, Statuses, NonterminalStatuses
    <3> QED
      BY <3>1, <3>2
  <2> QED
    BY <1>3, <2>1 DEF QuietInv, PastTheGate
<1>16. PolledInv'
  <2>1. \A i \in polled : i \notin answered /\ i \in DOMAIN path
    BY <1>5 DEF IInv, PolledInv, TypeOK
  <2> QED
    BY <1>3, <1>4, <1>6, <1>7, <1>9, <2>1 DEF IInv, PolledInv, Holds
<1>17. SettledBehindClose'
  BY <1>4, <1>5, <1>6, <1>7, <1>8 DEF SettledBehindClose, LiveAreOpen, Holds, NonterminalStatuses
<1> QED
  BY <1>10, <1>11, <1>12, <1>13, <1>14, <1>15, <1>16, <1>17 DEF IInv

\* The batch is what is allowed and was not polled: nothing else can move.
LEMMA SelectStep == IInv /\ Select => IInv'
<1> SUFFICES ASSUME IInv, Select PROVE IInv'
  OBVIOUS
<1>1. /\ pc \in {"denied", "select"} /\ pc' = "dispatch"
      /\ batch' = ReadyExecutions(path) \ polled
      /\ polled' = polled \cup batch'
      /\ progress' = (progress \/ batch' # {})
      /\ path' = path /\ recheck' = recheck /\ token' = token /\ announced' = announced
      /\ lastSeen' = lastSeen /\ closing' = closing
      /\ runs' = runs /\ posts' = posts /\ notifies' = notifies
  BY DEF Select, counters
<1>2. path \in Seq(Entries) /\ LiveAreOpen(path) /\ batch = {} /\ pc \in Moving
  BY <1>1 DEF IInv, TypeOK, SettledBehindClose, LiveAreOpen, BatchInv, Moving
<1>3. TypeOK'
  <2>1. token' \in BOOLEAN /\ recheck' \in BOOLEAN
    BY <1>1 DEF IInv, TypeOK
  <2>2. progress' \in BOOLEAN
    BY <1>1
  <2>3. polled' \subseteq DOMAIN path' /\ announced' \subseteq DOMAIN path' /\ batch' \subseteq DOMAIN path'
    BY <1>1, AwaitingInPath DEF IInv, TypeOK
  <2>4. /\ path' \in Seq(Entries) /\ lastSeen' \in 0..Len(path')
        /\ closing' \in TurnOutcomes \cup {"none"} /\ {runs', posts', notifies'} \subseteq Nat
    BY <1>1 DEF IInv, TypeOK
  <2>5. pc' \in Locations
    BY <1>1 DEF Locations, Running
  <2> QED
    BY <2>1, <2>2, <2>3, <2>4, <2>5 DEF TypeOK
<1>4. CallsSound' /\ SettledBehindClose'
  BY <1>1 DEF IInv, CallsSound, SettledBehindClose
<1>5. \A i \in batch' : /\ i \in DOMAIN path /\ Holds(path, i, "tool")
                        /\ path[i].approval = "allowed"
                        /\ path[i].status \in {"pending", "awaiting_result"}
  BY <1>1, <1>2, DerivedSets
<1>6. BatchInv'
  BY <1>1, <1>5 DEF BatchInv
<1>7. RunningInv'
  BY <1>1, <1>2, NothingRuns DEF RunningInv
<1>8. TokenInv' /\ OpenInv'
  BY <1>1 DEF IInv, TokenInv, OpenInv, Off, Engaged, Suspended, Yielding, Running
<1>9. QuietInv'
  <2>1. ASSUME NEW i \in DOMAIN path, Holds(path, i, "tool")
        PROVE  Quiet(path[i]) \/ i \in batch' \/ (token' /\ progress')
    <3>1. /\ path[i] \in ToolExecutions /\ path[i].status \notin {"received", "running"}
          /\ Quiet(path[i]) \/ path[i].approval = "allowed" \/ (token /\ progress)
      BY <1>1, <1>2, <2>1, NothingRuns, PathEntry DEF IInv, QuietInv
    <3>2. path[i].status = "pending" /\ path[i].approval = "allowed" => i \in batch'
      BY <1>1, <1>2, <2>1, DerivedSets DEF IInv, PolledInv
    <3> QED
      BY <1>1, <3>1, <3>2 DEF Quiet, ToolExecutions, Statuses, NonterminalStatuses
  <2> QED
    BY <1>1, <2>1 DEF QuietInv, PastTheGate
<1>10. PolledInv'
  BY <1>1, <1>2, <1>5 DEF IInv, PolledInv
<1> QED
  BY <1>3, <1>4, <1>6, <1>7, <1>8, <1>9, <1>10 DEF IInv

\* Between two calls of the batch a tripped token drops the rest of it.
LEMMA NextCallStep == IInv /\ NextCall => IInv'
<1> SUFFICES ASSUME IInv, NextCall PROVE IInv'
  OBVIOUS
<1>1. /\ pc \in {"executed", "dispatch"}
      /\ pc' = IF token \/ batch = {} THEN "gate" ELSE "prepare"
      /\ batch' = IF token THEN {} ELSE batch
      /\ path' = path /\ recheck' = recheck /\ token' = token /\ polled' = polled
      /\ announced' = announced /\ lastSeen' = lastSeen /\ progress' = progress
      /\ closing' = closing
      /\ runs' = runs /\ posts' = posts /\ notifies' = notifies
  BY DEF NextCall, counters
<1>2. pc \notin Off /\ pc' \in {"gate", "prepare"}
  BY <1>1 DEF Off
<1>3. TypeOK'
  <2>1. token' \in BOOLEAN /\ recheck' \in BOOLEAN /\ progress' \in BOOLEAN
    BY <1>1 DEF IInv, TypeOK
  <2>2. polled' \subseteq DOMAIN path' /\ announced' \subseteq DOMAIN path' /\ batch' \subseteq DOMAIN path'
    BY <1>1 DEF IInv, TypeOK
  <2>3. /\ path' \in Seq(Entries) /\ lastSeen' \in 0..Len(path')
        /\ closing' \in TurnOutcomes \cup {"none"} /\ {runs', posts', notifies'} \subseteq Nat
    BY <1>1 DEF IInv, TypeOK
  <2>4. pc' \in Locations
    BY <1>2 DEF Locations, Running, Suspended, Raced
  <2> QED
    BY <2>1, <2>2, <2>3, <2>4 DEF TypeOK
<1>4. CallsSound' /\ SettledBehindClose'
  BY <1>1 DEF IInv, CallsSound, SettledBehindClose
<1>5. BatchInv'
  BY <1>1, <1>2 DEF IInv, BatchInv
<1>6. RunningInv'
  BY <1>1, <1>2 DEF IInv, RunningInv, Off
<1>7. TokenInv' /\ OpenInv'
  BY <1>1, <1>2 DEF IInv, TokenInv, OpenInv, Off, Engaged, Suspended, Raced, Yielding, Running
<1>8. QuietInv'
  <2>1. batch # {} => progress
    BY DEF IInv, BatchInv
  <2> QED
    BY <1>1, <1>2, <2>1 DEF IInv, QuietInv, PastTheGate
<1>9. PolledInv'
  BY <1>1, <1>2 DEF IInv, PolledInv
<1> QED
  BY <1>3, <1>4, <1>5, <1>6, <1>7, <1>8, <1>9 DEF IInv

\* The current call before its body and inside it.
LEMMA CurrentCall ==
    ASSUME IInv, NEW i, IsCurrent(i), pc \in {"prepare", "body"}
    PROVE  /\ i \in DOMAIN path /\ Holds(path, i, "tool")
           /\ path[i] \in ToolExecutions /\ path[i].kind = "tool" /\ CallSound(path[i])
           /\ path[i].approval = "allowed"
           /\ pc = "prepare" => path[i].status \in {"pending", "awaiting_result"}
           /\ pc = "body" => path[i].status = "running"
<1>1. i \in batch /\ i \in DOMAIN path /\ path \in Seq(Entries)
  BY DEF IsCurrent, IInv, TypeOK
<1>2. Holds(path, i, "tool") /\ path[i].approval = "allowed"
  BY <1>1 DEF IInv, BatchInv
<1>3. path[i] \in ToolExecutions /\ CallSound(path[i]) /\ path[i].kind = "tool"
  BY <1>1, <1>2, PathEntry DEF IInv, CallsSound, Sound, Holds
<1> QED
  BY <1>1, <1>2, <1>3 DEF IInv, BatchInv

\* The current call ends without its body, or its body ends.
LEMMA CallStep ==
    ASSUME IInv, NEW i,
           PrepareFails(i) \/ PrepareCancelled(i) \/ BodyEnds(i) \/ BodyDefers(i) \/ BodyKilled(i)
    PROVE  IInv'
<1>1. pc \in {"prepare", "body"} /\ IsCurrent(i)
  BY DEF PrepareFails, PrepareCancelled, BodyEnds, BodyDefers, BodyKilled
<1> DEFINE x == path[i]
<1>2. /\ x \in ToolExecutions /\ CallSound(x) /\ x.approval = "allowed"
      /\ pc = "prepare" => x.status \in {"pending", "awaiting_result"}
      /\ pc = "body" => x.status = "running"
  BY <1>1, CurrentCall
<1>3. PICK s \in TerminalStatuses \cup {"awaiting_result"}, location \in {"executed", "dispatch"} :
        /\ Settle(i, Finalize(x, s), location)
        /\ CallSound(Finalize(x, s))
  <2>1. CASE PrepareFails(i)
    <3>1. PICK s \in PrepareFailures : Settle(i, Finalize(x, s), "executed") /\ pc = "prepare"
      BY <2>1 DEF PrepareFails
    <3>2. s \in {"not_found", "invalid", "failed"} /\ s \in TerminalStatuses
      BY <3>1, TurnAssumption DEF TerminalStatuses
    <3>3. CallSound(Finalize(x, s))
      BY <1>2, <3>1, <3>2, SettleUnstarted, SettleParked
    <3> QED
      BY <3>1, <3>2, <3>3
  <2>2. CASE PrepareCancelled(i)
    <3>1. pc = "prepare" /\ Settle(i, CancelledInPlace(x), "executed")
      BY <2>2 DEF PrepareCancelled
    <3>2. CASE x.status = "pending"
      <4>1. CancelledInPlace(x) = Finalize(x, "cancelled")
        BY <1>2, <3>2, SoundWithoutAttempts DEF CancelledInPlace
      <4>2. CallSound(Finalize(x, "cancelled"))
        BY <1>2, <3>2, SettleUnstarted
      <4> QED
        BY <3>1, <4>1, <4>2 DEF TerminalStatuses
    <3>3. CASE x.status = "awaiting_result"
      <4>1. CancelledInPlace(x) = Finalize(x, "interrupted")
        BY <1>2, <3>3, EmptySeq DEF CancelledInPlace, CallSound, AttemptsAgree
      <4>2. CallSound(Finalize(x, "interrupted"))
        BY <1>2, <3>3, SettleParked
      <4> QED
        BY <3>1, <4>1, <4>2 DEF TerminalStatuses
    <3> QED
      BY <1>2, <3>1, <3>2, <3>3
  <2>3. CASE BodyEnds(i)
    <3>1. PICK s \in BodyOutcomes : Settle(i, Finalize(x, s), "executed") /\ pc = "body"
      BY <2>3 DEF BodyEnds
    <3>2. s \in {"completed", "failed", "timed_out"} /\ s \in TerminalStatuses
      BY <3>1, TurnAssumption DEF TerminalStatuses
    <3>3. CallSound(Finalize(x, s))
      BY <1>2, <3>1, <3>2, SettleRunning
    <3> QED
      BY <3>1, <3>2, <3>3
  <2>4. CASE BodyDefers(i)
    <3>1. Settle(i, Finalize(x, "awaiting_result"), "dispatch") /\ pc = "body"
      BY <2>4 DEF BodyDefers
    <3>2. CallSound(Finalize(x, "awaiting_result"))
      BY <1>2, <3>1, SettleRunning
    <3> QED
      BY <3>1, <3>2
  <2>5. CASE BodyKilled(i)
    <3>1. Settle(i, Finalize(x, "interrupted"), "executed") /\ pc = "body"
      BY <2>5 DEF BodyKilled
    <3>2. CallSound(Finalize(x, "interrupted"))
      BY <1>2, <3>1, SettleRunning
    <3> QED
      BY <3>1, <3>2 DEF TerminalStatuses
  <2> QED
    BY <2>1, <2>2, <2>3, <2>4, <2>5
<1>4. /\ Finalize(x, s) \in ToolExecutions /\ Finalize(x, s).kind = "tool"
      /\ Finalize(x, s).approval = "allowed" /\ Finalize(x, s).status = s
  BY <1>2, FinalizeFacts DEF Statuses, NonterminalStatuses
<1> HIDE DEF x
<1> QED
  BY <1>1, <1>3, <1>4, SettleStep

\* The body starts: the current call is the one that runs.
LEMMA StartBodyStep ==
    ASSUME IInv, NEW i, StartBody(i)
    PROVE  IInv'
<1>1. /\ pc = "prepare" /\ IsCurrent(i) /\ ~token /\ pc' = "body"
      /\ path' = [path EXCEPT ![i] = Dispatched(path[i])]
      /\ UNCHANGED <<recheck, drive, counters>>
  BY DEF StartBody
<1>2. /\ i \in DOMAIN path /\ path \in Seq(Entries) /\ i \in batch
      /\ path[i] \in ToolExecutions /\ path[i].kind = "tool" /\ CallSound(path[i])
      /\ path[i].approval = "allowed" /\ path[i].status \in {"pending", "awaiting_result"}
  BY <1>1, CurrentCall DEF IInv, TypeOK, IsCurrent
<1>3. /\ Dispatched(path[i]) \in ToolExecutions /\ Dispatched(path[i]).status = "running"
      /\ Dispatched(path[i]).approval = "allowed" /\ CallSound(Dispatched(path[i]))
      /\ Dispatched(path[i]) \in Entries /\ Dispatched(path[i]).kind = "tool"
  BY <1>2, DispatchSound DEF Entries, ToolExecutions
<1>4. /\ path' \in Seq(Entries) /\ Len(path') = Len(path) /\ DOMAIN path' = DOMAIN path
      /\ path'[i] = Dispatched(path[i])
      /\ \A j \in DOMAIN path : j # i => path'[j] = path[j]
  BY <1>1, <1>2, <1>3, ExceptSeq
<1>5. \A j \in DOMAIN path : path'[j].kind = path[j].kind
  BY <1>2, <1>3, <1>4
<1>6. /\ HasOpenTurn(path') <=> HasOpenTurn(path)
      /\ CancelIsPending(path') <=> CancelIsPending(path)
      /\ \A j : InOpenTurn(path', j) <=> InOpenTurn(path, j)
  BY <1>2, <1>4, <1>5, RewriteOpenTurn
<1>7. /\ token' = token /\ polled' = polled /\ progress' = progress /\ batch' = batch
      /\ recheck' = recheck /\ runs' = runs /\ posts' = posts /\ notifies' = notifies
      /\ \A j : IsCurrent(j)' <=> IsCurrent(j)
  BY <1>1 DEF drive, counters, IsCurrent
<1>8. TypeOK'
  <2>1. pc' \in Locations
    BY <1>1 DEF Locations, Suspended, Raced
  <2>2. Len(path) <= Len(path')
    BY <1>2, <1>4
  <2> QED
    BY <1>1, <1>4, <1>7, <2>1, <2>2, DriveTypes DEF IInv, TypeOK
<1>9. CallsSound'
  BY <1>2, <1>3, <1>4 DEF IInv, CallsSound, Sound, Holds
<1>10. \A j \in batch : j \in DOMAIN path /\ (IsCurrent(j) => j = i)
  BY <1>1, <1>2 DEF IInv, TypeOK, IsCurrent
<1>11. BatchInv'
  <2>1. \A j \in batch : /\ Holds(path', j, "tool")
                         /\ path'[j].approval = "allowed"
                         /\ j = i => path'[j].status = "running"
                         /\ j # i => path'[j].status \in {"pending", "awaiting_result"}
    BY <1>1, <1>3, <1>4, <1>10 DEF IInv, BatchInv, Holds
  <2> QED
    BY <1>1, <1>7, <1>10, <2>1 DEF IInv, BatchInv
<1>12. RunningInv'
  BY <1>1, <1>4, <1>7 DEF IInv, RunningInv, Holds, Off
<1>13. TokenInv' /\ OpenInv'
  BY <1>1, <1>6, <1>7 DEF IInv, TokenInv, OpenInv, Off, Engaged, Suspended, Raced
<1>14. QuietInv'
  BY <1>1, <1>2, <1>4, <1>7 DEF IInv, QuietInv, PastTheGate, Holds
<1>15. PolledInv'
  BY <1>1, <1>3, <1>4, <1>7 DEF IInv, TypeOK, PolledInv, Holds
<1>16. SettledBehindClose'
  BY <1>2, <1>4, <1>5, <1>6 DEF IInv, SettledBehindClose, Holds, NonterminalStatuses
<1> QED
  BY <1>8, <1>9, <1>11, <1>12, <1>13, <1>14, <1>15, <1>16 DEF IInv

\* What a recorded response does to the path: the turn stays as it was.
LEMMA ResponseFacts ==
    ASSUME IInv, pc = "llm", NEW r \in StopReasons
    PROVE  LET q == Response(r)
           IN  /\ q \in Seq(Entries) /\ Len(q) = Len(path) + 1 /\ Len(path) \in Nat
               /\ DOMAIN path = 1..Len(path) /\ DOMAIN q = 1..(Len(path) + 1)
               /\ \A i \in DOMAIN path : q[i] = path[i]
               /\ q[Len(path) + 1].kind = "assistant"
               /\ HasOpenTurn(q)
               /\ CancelIsPending(q) <=> CancelIsPending(path)
               /\ Sound(q) /\ LiveAreOpen(q)
               /\ \A i \in DOMAIN q : Holds(q, i, "tool") => q[i].status # "running"
<1> DEFINE e == AssistantMessage(r, lastSeen)
           q == Response(r)
<1>1. path \in Seq(Entries) /\ e \in Entries /\ e.kind = "assistant" /\ q = Append(path, e)
  BY DEF IInv, TypeOK, Entries, AssistantMessage, Response
<1>2. HasOpenTurn(path)
  BY DEF IInv, OpenInv, Engaged, Suspended, Raced
<1>3. \A i \in DOMAIN path : Holds(path, i, "tool") => path[i].status # "running"
  BY NothingRuns DEF Moving, PastTheGate
<1> HIDE DEF e
<1>4. /\ q \in Seq(Entries) /\ Len(q) = Len(path) + 1 /\ Len(path) \in Nat
      /\ DOMAIN path = 1..Len(path) /\ DOMAIN q = 1..(Len(path) + 1)
      /\ \A i \in DOMAIN path : q[i] = path[i]
      /\ q[Len(path) + 1].kind = "assistant"
  BY <1>1, AppendFacts
<1>5. /\ HasOpenTurn(q)
      /\ \A i \in DOMAIN path : InOpenTurn(q, i) <=> InOpenTurn(path, i)
      /\ CancelIsPending(q) <=> CancelIsPending(path)
  BY <1>1, <1>2, AppendOpenTurn
<1> HIDE DEF q
<1>6. Sound(q)
  BY <1>4 DEF IInv, CallsSound, Sound, Holds
<1>7. LiveAreOpen(q)
  BY <1>4, <1>5 DEF IInv, SettledBehindClose, LiveAreOpen, Holds
<1>8. \A i \in DOMAIN q : Holds(q, i, "tool") => q[i].status # "running"
  BY <1>3, <1>4 DEF Holds
<1> QED
  BY <1>4, <1>5, <1>6, <1>7, <1>8 DEF q

\* The loop goes on behind a response, with the calls the response made.
LEMMA SpokenStep ==
    ASSUME IInv, pc = "llm", NEW r \in StopReasons, NEW n \in Nat,
           path' = Response(r) \o [k \in 1..n |-> ReceivedExecution],
           pc' = "loop", UNCHANGED <<recheck, drive, counters>>
    PROVE  IInv'
<1> DEFINE q == Response(r)
           calls == [k \in 1..n |-> ReceivedExecution]
<1>1. /\ q \in Seq(Entries) /\ Len(q) = Len(path) + 1 /\ Len(path) \in Nat
      /\ DOMAIN path = 1..Len(path) /\ DOMAIN q = 1..(Len(path) + 1)
      /\ \A i \in DOMAIN path : q[i] = path[i]
      /\ q[Len(path) + 1].kind = "assistant"
      /\ HasOpenTurn(q)
      /\ CancelIsPending(q) <=> CancelIsPending(path)
      /\ Sound(q) /\ LiveAreOpen(q)
      /\ \A i \in DOMAIN q : Holds(q, i, "tool") => q[i].status # "running"
  BY ResponseFacts
<1>2. /\ ReceivedExecution \in ToolExecutions /\ ReceivedExecution \in Entries
      /\ ReceivedExecution.kind = "tool" /\ ReceivedExecution.status = "received"
      /\ CallSound(ReceivedExecution)
  <2>1. <<>> \in Seq(AttemptOutcomes) /\ Len(<<>>) = 0
    BY EmptySeq
  <2>2. ReceivedExecution \in ToolExecutions
    BY <2>1 DEF ReceivedExecution, ToolExecutions, Statuses, NonterminalStatuses, Approvals
  <2> QED
    BY <2>1, <2>2 DEF ReceivedExecution, CallSound, AttemptsAgree, Entries
<1>3. calls \in Seq(Entries) /\ Len(calls) = n
  <2>1. calls \in [1..n -> Entries]
    BY <1>2
  <2>2. calls \in Seq(Entries)
    BY <2>1, SeqDef
  <2> QED
    BY <2>1, <2>2
<1>4. \A k \in 1..n : calls[k] = ReceivedExecution
  OBVIOUS
<1>5. path' = q \o calls
  OBVIOUS
<1> HIDE DEF q, calls
<1>6. /\ path' \in Seq(Entries) /\ Len(path') = Len(path) + 1 + n
      /\ DOMAIN path' = 1..(Len(path) + 1 + n)
      /\ \A i \in DOMAIN q : path'[i] = q[i]
      /\ \A i \in DOMAIN path' \ DOMAIN q : path'[i] = ReceivedExecution
  <2>1. path' \in Seq(Entries) /\ Len(path') = Len(path) + 1 + n
    <3>1. q \o calls \in Seq(Entries) /\ Len(q \o calls) = Len(q) + Len(calls)
      BY <1>1, <1>3, ConcatProperties
    <3> QED
      BY <1>1, <1>3, <1>5, <3>1
  <2>2. \A i \in 1..(Len(path) + 1 + n) :
          path'[i] = IF i <= Len(path) + 1 THEN q[i] ELSE calls[i - (Len(path) + 1)]
    BY <1>1, <1>3, <1>5, ConcatProperties
  <2> QED
    BY <1>1, <1>3, <1>4, <2>1, <2>2
<1>7. /\ HasOpenTurn(path')
      /\ \A i \in DOMAIN q : InOpenTurn(path', i) <=> InOpenTurn(q, i)
      /\ \A i \in DOMAIN path' \ DOMAIN q : InOpenTurn(path', i)
      /\ CancelIsPending(path') <=> CancelIsPending(path)
  <2>1. Len(q) <= Len(path') /\ \A i \in DOMAIN path' \ DOMAIN q : path'[i].kind = "tool"
    BY <1>1, <1>2, <1>6
  <2>2. /\ HasOpenTurn(path') <=> HasOpenTurn(q)
        /\ \A i \in DOMAIN q : InOpenTurn(path', i) <=> InOpenTurn(q, i)
        /\ \A i \in DOMAIN path' \ DOMAIN q : InOpenTurn(path', i) <=> HasOpenTurn(q)
        /\ CancelIsPending(path') <=>
             \/ CancelIsPending(q)
             \/ HasOpenTurn(q) /\ \E i \in DOMAIN path' \ DOMAIN q : path'[i].kind = "cancel"
    BY <1>1, <1>6, <2>1, ExtendOpenTurn
  <2> QED
    BY <1>1, <2>1, <2>2
<1>8. /\ token' = token /\ polled' = polled /\ progress' = progress /\ batch' = batch
      /\ batch = {} /\ recheck' = recheck /\ runs' = runs /\ posts' = posts
      /\ notifies' = notifies
  BY NothingRuns DEF drive, counters, Moving, PastTheGate
<1>9. TypeOK'
  <2>1. pc' \in Locations
    BY DEF Locations, Suspended, Yielding
  <2>2. Len(path) <= Len(path')
    BY <1>1, <1>6
  <2> QED
    BY <1>6, <1>8, <2>1, <2>2, DriveTypes DEF IInv, TypeOK
<1>10. CallsSound'
  BY <1>1, <1>2, <1>6 DEF CallsSound, Sound, Holds
<1>11. BatchInv'
  BY <1>8 DEF BatchInv
<1>12. RunningInv'
  BY <1>1, <1>2, <1>6 DEF RunningInv, Holds
<1>13. TokenInv' /\ OpenInv'
  BY <1>7, <1>8 DEF IInv, TokenInv, OpenInv, Off
<1>14. QuietInv'
  BY DEF QuietInv, PastTheGate
<1>15. PolledInv'
  <2>1. DOMAIN path \subseteq DOMAIN q /\ \A i \in DOMAIN path : path'[i] = path[i]
    BY <1>1, <1>6
  <2> QED
    BY <1>8, <2>1 DEF IInv, TypeOK, PolledInv, Holds
<1>16. SettledBehindClose'
  BY <1>1, <1>6, <1>7 DEF SettledBehindClose, LiveAreOpen, Holds
<1> QED
  BY <1>9, <1>10, <1>11, <1>12, <1>13, <1>14, <1>15, <1>16 DEF IInv

\* A response without calls extends the path by nothing more.
LEMMA NoCalls ==
    ASSUME NEW q \in Seq(Entries)
    PROVE  q = q \o [k \in 1..0 |-> ReceivedExecution]
<1>1. [k \in 1..0 |-> ReceivedExecution] = <<>>
  BY EmptySeq
<1> QED
  BY <1>1, ConcatEmptySeq

\* A response with calls, or a pause.
LEMMA ModelSpeaksStep ==
    ASSUME IInv, ModelPauses \/ \E n \in 1..MaxCalls : ModelCalls(n)
    PROVE  IInv'
<1>1. CASE ModelPauses
  <2>1. pc = "llm" /\ path' = Response("pause") /\ pc' = "loop"
        /\ UNCHANGED <<recheck, drive, counters>>
    BY <1>1 DEF ModelPauses
  <2>2. "pause" \in StopReasons
    BY DEF StopReasons
  <2>3. path' = Response("pause") \o [k \in 1..0 |-> ReceivedExecution]
    BY <2>1, <2>2, ResponseFacts, NoCalls
  <2> QED
    BY <2>1, <2>2, <2>3, SpokenStep
<1>2. ASSUME NEW n \in 1..MaxCalls, ModelCalls(n) PROVE IInv'
  <2>1. /\ pc = "llm" /\ path' = Response("tool_use") \o [k \in 1..n |-> ReceivedExecution]
        /\ pc' = "loop" /\ UNCHANGED <<recheck, drive, counters>>
    BY <1>2 DEF ModelCalls
  <2>2. "tool_use" \in StopReasons /\ n \in Nat
    BY DEF StopReasons
  <2> QED
    BY <2>1, <2>2, SpokenStep
<1> QED
  BY <1>1, <1>2

\* An answer winds down under a cancel, goes on behind something newer, or
\* closes a turn in which no call is left.
LEMMA ModelAnswersStep ==
    ASSUME IInv, NEW r \in {"stop", "non_answer"}, ModelAnswers(r)
    PROVE  IInv'
<1> DEFINE q == Response(r)
<1>1. pc = "llm" /\ UNCHANGED <<recheck, drive, counters>> /\ pc \in Moving
  BY DEF ModelAnswers, Moving, PastTheGate
<1>2. /\ r \in StopReasons
      /\ q \in Seq(Entries) /\ Len(q) = Len(path) + 1 /\ Len(path) \in Nat
      /\ DOMAIN path = 1..Len(path) /\ DOMAIN q = 1..(Len(path) + 1)
      /\ \A i \in DOMAIN path : q[i] = path[i]
      /\ q[Len(path) + 1].kind = "assistant"
      /\ HasOpenTurn(q)
      /\ CancelIsPending(q) <=> CancelIsPending(path)
      /\ Sound(q) /\ LiveAreOpen(q)
      /\ \A i \in DOMAIN q : Holds(q, i, "tool") => q[i].status # "running"
  BY <1>1, ResponseFacts DEF StopReasons
<1>3. batch = {}
  BY <1>1, NothingRuns
<1>4. CASE CancelIsPending(path)
  <2>1. path' = WindDown(q) /\ pc' = "ending"
    BY <1>4 DEF ModelAnswers
  <2> HIDE DEF q
  <2> DEFINE settled == SettleOpenExecutions(q)
             o == q[CHOOSE i \in PendingCancel(q) : TRUE].outcome
  <2>2. o \in TurnOutcomes
    BY <1>2, <1>4, PendingCancelOutcome
  <2>3. path' = Append(settled, TurnFinish(o))
    BY <2>1 DEF WindDown
  <2>4. /\ settled \in Seq(Entries) /\ Len(settled) = Len(q)
        /\ \A i \in DOMAIN q : settled[i].kind = q[i].kind
        /\ \A i \in DOMAIN q : Holds(q, i, "tool") => settled[i].approval = q[i].approval
        /\ Sound(settled) /\ AllTerminal(settled)
    BY <1>2, SettleFacts
  <2> HIDE DEF settled, o
  <2>5. /\ Len(path) <= Len(settled)
        /\ \A i \in DOMAIN path : settled[i].kind = path[i].kind
        /\ \A i \in DOMAIN path : Holds(path, i, "tool") => settled[i].approval = path[i].approval
    BY <1>2, <2>4 DEF Holds
  <2> QED
    BY <1>1, <1>3, <2>1, <2>2, <2>3, <2>4, <2>5, ClosedStep
<1>5. CASE ~CancelIsPending(path) /\ MustContinue
  <2>1. path' = q /\ pc' = "loop"
    BY <1>5 DEF ModelAnswers
  <2>2. path' = q \o [k \in 1..0 |-> ReceivedExecution]
    BY <1>2, <2>1, NoCalls
  <2> QED
    BY <1>1, <1>2, <2>1, <2>2, SpokenStep
<1>6. CASE ~CancelIsPending(path) /\ ~MustContinue
  <2>1. path' = Closed(r) /\ pc' = "ending"
    BY <1>6 DEF ModelAnswers
  <2>2. AllTerminal(q)
    <3>1. ASSUME NEW i \in DOMAIN path, Holds(path, i, "tool")
          PROVE  path[i].status \in TerminalStatuses
      <4>1. Quiet(path[i])
        BY <1>1, <3>1 DEF IInv, QuietInv, PastTheGate
      <4>2. LiveAreOpen(path)
        BY DEF IInv, SettledBehindClose, LiveAreOpen
      <4>3. i \notin AwaitingExecutions(path) /\ i \notin ParkedExecutions(path)
        BY <1>6 DEF MustContinue, Blocked
      <4> QED
        BY <3>1, <4>1, <4>2, <4>3, DerivedSets DEF Quiet
    <3> HIDE DEF q
    <3> QED
      BY <1>2, <3>1 DEF AllTerminal, Holds
  <2>3. PICK p \in {q, SettleOpenExecutions(q)}, o \in TurnOutcomes :
          path' = Append(p, TurnFinish(o))
    <3>1. "completed" \in TurnOutcomes /\ "errored" \in TurnOutcomes
      BY DEF TurnOutcomes
    <3>2. CASE r = "stop"
      BY <2>1, <3>1, <3>2 DEF Closed
    <3>3. CASE r # "stop"
      BY <2>1, <3>1, <3>3 DEF Closed
    <3> QED
      BY <3>2, <3>3
  <2> HIDE DEF q
  <2>4. /\ p \in Seq(Entries) /\ Len(p) = Len(q)
        /\ \A i \in DOMAIN q : p[i].kind = q[i].kind
        /\ \A i \in DOMAIN q : Holds(q, i, "tool") => p[i].approval = q[i].approval
        /\ Sound(p) /\ AllTerminal(p)
    BY <1>2, <2>2, <2>3, SettleFacts
  <2>5. /\ Len(path) <= Len(p)
        /\ \A i \in DOMAIN path : p[i].kind = path[i].kind
        /\ \A i \in DOMAIN path : Holds(path, i, "tool") => p[i].approval = path[i].approval
    BY <1>2, <2>4 DEF Holds
  <2> QED
    BY <1>1, <1>3, <2>1, <2>3, <2>4, <2>5, ClosedStep
<1> QED
  BY <1>4, <1>5, <1>6

\* Every way the drive closes a turn without an answer.
LEMMA CloseStep ==
    ASSUME IInv,
           \/ LoopTopCancelled \/ GateCancelled \/ HardLimit
           \/ \E o \in {"errored", "timed_out"} : ModelFails(o)
    PROVE  IInv'
<1>1. CASE LoopTopCancelled \/ GateCancelled
  <2>1. pc \in Moving /\ CancelIsPending(path) /\ WindDownNow
    BY <1>1 DEF LoopTopCancelled, GateCancelled, Moving
  <2> QED
    BY <2>1, WindDownStep
<1>2. CASE HardLimit
  <2>1. pc \in {"model", "llm"} /\ SettleThenClose("errored") /\ "errored" \in TurnOutcomes
    BY <1>2 DEF HardLimit, TurnOutcomes
  <2> QED
    BY <2>1, SettleThenCloseStep
<1>3. ASSUME NEW o \in {"errored", "timed_out"}, ModelFails(o) PROVE IInv'
  <2>1. pc \in {"model", "llm"} /\ pc \in Moving /\ o \in TurnOutcomes
    BY <1>3 DEF ModelFails, TurnOutcomes, Moving, PastTheGate
  <2>2. CASE CancelIsPending(path)
    BY <1>3, <2>1, <2>2, WindDownStep DEF ModelFails
  <2>3. CASE ~CancelIsPending(path)
    BY <1>3, <2>1, <2>3, SettleThenCloseStep DEF ModelFails
  <2> QED
    BY <2>2, <2>3
<1> QED
  BY <1>1, <1>2, <1>3

-----------------------------------------------------------------------------
(* The invariant is inductive, and what follows from it.                   *)

\* No step of the drive, of a door or of a crash leaves the invariant.
LEMMA IInvNext == IInv /\ [Next]_vars => IInv'
<1> SUFFICES ASSUME IInv, [Next]_vars PROVE IInv'
  OBVIOUS
<1>1. CASE Post
  BY <1>1, PostStep
<1>2. CASE \E o \in CancelOutcomes : Cancel(o)
  BY <1>2, CancelStep
<1>3. CASE Notify \/ UNCHANGED vars
  BY <1>3, NotifyStep
<1>4. CASE \E eager \in BOOLEAN : Begin(eager)
  BY <1>4, BeginStep
<1>5. CASE Suspend \/ Crash \/ Ending \/ ApplicationRaises \/ Park
  BY <1>5, StopStep
<1>6. CASE CloseSettled
  BY <1>6, CloseSettledStep
<1>7. CASE Drive
  BY <1>7, DriveStep
<1>8. CASE \/ LoopTop \/ BirthLost \/ Gate \/ GatePassed \/ GateRechecked \/ NotBlocked
           \/ Resume \/ Project \/ ToolsCollected \/ ModelLost
  BY <1>8, MoveStep
<1>9. CASE Birth
  BY <1>9, BirthStep
<1>10. CASE Decide
  BY <1>10, DecideStep
<1>11. CASE Select
  BY <1>11, SelectStep
<1>12. CASE NextCall
  BY <1>12, NextCallStep
<1>13. ASSUME NEW i \in DOMAIN path,
              \/ PrepareFails(i) \/ PrepareCancelled(i) \/ StartBody(i)
              \/ BodyEnds(i) \/ BodyDefers(i) \/ BodyKilled(i)
       PROVE  IInv'
  BY <1>13, CallStep, StartBodyStep
<1>14. CASE ModelPauses \/ \E n \in 1..MaxCalls : ModelCalls(n)
  BY <1>14, ModelSpeaksStep
<1>15. CASE \E r \in {"stop", "non_answer"} : ModelAnswers(r)
  BY <1>15, ModelAnswersStep
<1>16. CASE \/ LoopTopCancelled \/ GateCancelled \/ HardLimit
            \/ \E o \in {"errored", "timed_out"} : ModelFails(o)
  BY <1>16, CloseStep
<1>17. CASE Next
  <2>1. CASE Doors
    BY <2>1, <1>1, <1>2, <1>3, <1>4, <1>5 DEF Doors
  <2>2. CASE Engine
    BY <2>2, <1>5, <1>6, <1>7, <1>8, <1>11, <1>12, <1>16 DEF Engine
  <2>3. CASE TokenWins
    BY <2>3, <1>8, <1>10, <1>13 DEF TokenWins
  <2>4. CASE Answers
    BY <2>4, <1>8, <1>9, <1>10, <1>13, <1>14, <1>15, <1>16 DEF Answers
  <2> QED
    BY <1>17, <2>1, <2>2, <2>3, <2>4, <1>5 DEF Next
<1> QED
  BY <1>3, <1>17

\* The inductive invariant holds in every reachable state.
THEOREM Inductive == Spec => []IInv
<1>1. Init => IInv
  BY IInvInit
<1>2. IInv /\ [Next]_vars => IInv'
  BY IInvNext
<1> QED
  BY <1>1, <1>2, PTL DEF Spec

\* Every variable keeps its type, whatever the doors and crashes do.
THEOREM TypeCorrect == Spec => []TypeOK
<1>1. IInv => TypeOK
  BY DEF IInv
<1> QED
  BY <1>1, Inductive, PTL

\* The attempt list is a true audit of the body's invocations: one attempt in
\* flight exactly while the call is RUNNING, only deferrals before the last.
THEOREM AttemptsAudited == Spec => []AttemptAudit
<1>1. IInv => AttemptAudit
  BY DEF IInv, CallsSound, Sound, CallSound, AttemptAudit
<1> QED
  BY <1>1, Inductive, PTL

\* No tool body was ever run without an ALLOW.
THEOREM BodiesAreApproved == Spec => []ApprovalBeforeBody
<1>1. IInv => ApprovalBeforeBody
  BY DEF IInv, CallsSound, Sound, CallSound, ApprovalBeforeBody
<1> QED
  BY <1>1, Inductive, PTL

\* At a model call nothing is left that the drive itself could still move.
THEOREM ModelCallsAreQuiet == Spec => []NothingLiveAtModel
<1>1. IInv => NothingLiveAtModel
  BY DEF IInv, QuietInv, PastTheGate, Quiet, NothingLiveAtModel
<1> QED
  BY <1>1, Inductive, PTL

\* No close of a turn leaves a live call behind it.
THEOREM ClosesAreSettled == Spec => []SettledBehindClose
<1>1. IInv => SettledBehindClose
  BY DEF IInv
<1> QED
  BY <1>1, Inductive, PTL

-----------------------------------------------------------------------------
(* What no step of the drive may do: the action properties of Turn, from   *)
(* the same inductive invariant.                                           *)

\* q is p grown at the leaf, with only live executions rewritten.
Kept(p, q) ==
    /\ DOMAIN p \subseteq DOMAIN q
    /\ \A i \in DOMAIN p :
         q[i] # p[i] =>
             Holds(p, i, "tool") /\ Holds(q, i, "tool") /\ p[i].status \in NonterminalStatuses

\* No body starts between p and q.
NoneStarts(p, q) ==
    \A i \in DOMAIN p :
        Holds(p, i, "tool") /\ q[i].status = "running" => p[i].status = "running"

Gentle(p, q) == Kept(p, q) /\ NoneStarts(p, q)

-----------------------------------------------------------------------------
(* The writes the actions share are gentle.                                *)

\* Appending rewrites nothing.
LEMMA AppendGentle ==
    ASSUME NEW p \in Seq(Entries), NEW e
    PROVE  Gentle(p, Append(p, e))
<1>1. /\ DOMAIN p \subseteq DOMAIN Append(p, e)
      /\ \A i \in DOMAIN p : Append(p, e)[i] = p[i]
  OBVIOUS
<1> QED
  BY <1>1 DEF Gentle, Kept, NoneStarts

\* The settle rewrites what is live and starts nothing.
LEMMA SettleGentle ==
    ASSUME NEW p \in Seq(Entries)
    PROVE  /\ Gentle(p, SettleOpenExecutions(p))
           /\ SettleOpenExecutions(p) = [i \in DOMAIN p |-> SettleOpenExecutions(p)[i]]
           /\ \A i \in DOMAIN p : SettleOpenExecutions(p)[i] \in Entries
<1> DEFINE q == SettleOpenExecutions(p)
<1>1. q = [i \in DOMAIN p |->
              IF i \in UndispatchedExecutions(p) THEN Finalize(p[i], "cancelled")
              ELSE IF i \in ParkedExecutions(p) THEN Finalize(p[i], "interrupted")
              ELSE p[i]]
  BY DEF SettleOpenExecutions
<1>2. \A i \in UndispatchedExecutions(p) \cup ParkedExecutions(p) :
         i \in DOMAIN p /\ Holds(p, i, "tool") /\ p[i].status \in NonterminalStatuses
  BY DEF UndispatchedExecutions, ParkedExecutions, WithStatus, OpenTurnExecutions,
         OpenTurnEntries, NonterminalStatuses
<1> HIDE DEF q
<1>3. ASSUME NEW i \in DOMAIN p
      PROVE  /\ q[i] \in Entries
             /\ q[i] # p[i] => /\ Holds(p, i, "tool") /\ p[i].status \in NonterminalStatuses
                               /\ q[i].kind = "tool" /\ q[i].status # "running"
  <2>1. CASE i \in UndispatchedExecutions(p)
    <3>1. p[i] \in ToolExecutions /\ q[i] = Finalize(p[i], "cancelled") /\ "cancelled" \in Statuses
      BY <1>1, <1>2, <2>1, PathEntry DEF Statuses, TerminalStatuses
    <3> QED
      BY <1>2, <2>1, <3>1, FinalizeFacts DEF Entries
  <2>2. CASE i \notin UndispatchedExecutions(p) /\ i \in ParkedExecutions(p)
    <3>1. p[i] \in ToolExecutions /\ q[i] = Finalize(p[i], "interrupted") /\ "interrupted" \in Statuses
      BY <1>1, <1>2, <2>2, PathEntry DEF Statuses, TerminalStatuses
    <3> QED
      BY <1>2, <2>2, <3>1, FinalizeFacts DEF Entries
  <2>3. CASE i \notin UndispatchedExecutions(p) \cup ParkedExecutions(p)
    BY <1>1, <2>3, PathEntry
  <2> QED
    BY <2>1, <2>2, <2>3
<1>4. DOMAIN q = DOMAIN p /\ q = [i \in DOMAIN p |-> q[i]]
  BY <1>1
<1>5. Gentle(p, q)
  BY <1>3, <1>4 DEF Gentle, Kept, NoneStarts, Holds
<1> QED
  BY <1>3, <1>4, <1>5 DEF q

\* A close behind the settle, of the path or of the path with a response.
LEMMA SettledCloseGentle ==
    ASSUME NEW p \in Seq(Entries), NEW e
    PROVE  Gentle(p, Append(SettleOpenExecutions(p), e))
<1> DEFINE q == SettleOpenExecutions(p)
<1>1. Gentle(p, q) /\ q = [i \in DOMAIN p |-> q[i]] /\ \A i \in DOMAIN p : q[i] \in Entries
  BY SettleGentle
<1> HIDE DEF q
<1>2. q \in Seq(Entries) /\ DOMAIN q = DOMAIN p
  BY <1>1, RewriteFacts
<1>3. DOMAIN p \subseteq DOMAIN Append(q, e) /\ \A i \in DOMAIN p : Append(q, e)[i] = q[i]
  BY <1>2
<1>4. Gentle(p, Append(q, e))
  BY <1>1, <1>3 DEF Gentle, Kept, NoneStarts, Holds
<1> QED
  BY <1>4 DEF q

\* What is gentle to a grown path is gentle to the path.
LEMMA GrownGentle ==
    ASSUME NEW p \in Seq(Entries), NEW a \in Entries, NEW q, Gentle(Append(p, a), q)
    PROVE  Gentle(p, q)
<1>1. DOMAIN p \subseteq DOMAIN Append(p, a) /\ \A i \in DOMAIN p : Append(p, a)[i] = p[i]
  OBVIOUS
<1> QED
  BY <1>1 DEF Gentle, Kept, NoneStarts, Holds

\* Rewriting live calls to something that does not run.
LEMMA RewriteGentle ==
    ASSUME NEW p, NEW q, DOMAIN q = DOMAIN p,
           \A i \in DOMAIN p :
              \/ q[i] = p[i]
              \/ /\ Holds(p, i, "tool") /\ p[i].status \in NonterminalStatuses
                 /\ q[i].kind = "tool" /\ q[i].status # "running"
    PROVE  Gentle(p, q)
BY DEF Gentle, Kept, NoneStarts, Holds

-----------------------------------------------------------------------------
(* Every action but the start of a body is gentle.                         *)

\* The doors append, or leave the path alone.
LEMMA DoorsGentle ==
    ASSUME IInv, Doors
    PROVE  Gentle(path, path')
<1>1. path \in Seq(Entries)
  BY DEF IInv, TypeOK
<1>2. (\E e : path' = Append(path, e)) \/ path' = path
  BY DEF Doors, Post, Cancel, Notify, Begin, Suspend, Crash
<1>3. CASE \E e : path' = Append(path, e)
  BY <1>1, <1>3, AppendGentle
<1>4. CASE path' = path
  BY <1>4 DEF Gentle, Kept, NoneStarts
<1> QED
  BY <1>2, <1>3, <1>4

\* A close, with the settle before it or behind it already.
LEMMA CloseGentle ==
    ASSUME IInv,
           \/ WindDownNow \/ CloseSettled
           \/ \E o \in {"errored", "timed_out"} : SettleThenClose(o)
    PROVE  Gentle(path, path')
<1>1. path \in Seq(Entries)
  BY DEF IInv, TypeOK
<1>2. CASE WindDownNow
  BY <1>1, <1>2, SettledCloseGentle DEF WindDownNow, WindDown
<1>3. CASE CloseSettled
  BY <1>1, <1>3, AppendGentle DEF CloseSettled, EndDrive
<1>4. CASE \E o \in {"errored", "timed_out"} : SettleThenClose(o)
  BY <1>1, <1>4, AppendGentle, SettleGentle DEF SettleThenClose, EndDrive
<1> QED
  BY <1>2, <1>3, <1>4

\* Steps of the engine that write nothing.
LEMMA MoveGentle ==
    ASSUME \/ LoopTop \/ Select \/ NextCall \/ Gate \/ GatePassed \/ GateRechecked \/ Park
           \/ NotBlocked \/ Resume \/ Project \/ Ending \/ BirthLost \/ ModelLost
           \/ ToolsCollected \/ ApplicationRaises \/ UNCHANGED vars
    PROVE  path' = path /\ Gentle(path, path')
<1>1. path' = path
  BY DEF LoopTop, Select, NextCall, Gate, GatePassed, GateRechecked, Park, NotBlocked, Resume,
         Project, Ending, BirthLost, ModelLost, ToolsCollected, ApplicationRaises, EndDrive, vars
<1> QED
  BY <1>1 DEF Gentle, Kept, NoneStarts

\* A fresh drive opens the turn and discards orphans.
LEMMA DriveGentle ==
    ASSUME IInv, Drive
    PROVE  Gentle(path, path')
<1> DEFINE opened == IF HasOpenTurn(path) THEN path ELSE Append(path, TurnStart)
<1>1. path' = [i \in DOMAIN opened |->
                 IF i \in RunningExecutions(opened) THEN Discard(opened[i]) ELSE opened[i]]
  BY DEF Drive
<1>2. path \in Seq(Entries) /\ TurnStart \in Entries
  BY DEF IInv, TypeOK, Entries
<1>3. /\ DOMAIN path \subseteq DOMAIN opened /\ opened \in Seq(Entries)
      /\ \A i \in DOMAIN path : opened[i] = path[i]
  BY <1>2, AppendFacts
<1> HIDE DEF opened
<1>4. ASSUME NEW i \in DOMAIN opened, i \in RunningExecutions(opened)
      PROVE  /\ Holds(opened, i, "tool") /\ opened[i].status \in NonterminalStatuses
             /\ Discard(opened[i]).kind = "tool" /\ Discard(opened[i]).status # "running"
  <2>1. Holds(opened, i, "tool") /\ opened[i].status = "running"
    BY <1>4 DEF RunningExecutions, WithStatus, OpenTurnExecutions, OpenTurnEntries
  <2>2. opened[i] \in ToolExecutions
    BY <1>3, <2>1, PathEntry
  <2> QED
    BY <2>1, <2>2 DEF NonterminalStatuses, Discard, ToolExecutions
<1>5. \A i \in DOMAIN path :
         \/ path'[i] = path[i]
         \/ /\ Holds(path, i, "tool") /\ path[i].status \in NonterminalStatuses
            /\ path'[i].kind = "tool" /\ path'[i].status # "running"
  BY <1>1, <1>3, <1>4 DEF Holds
<1>6. DOMAIN path \subseteq DOMAIN path'
  BY <1>1, <1>3
<1> QED
  BY <1>5, <1>6 DEF Gentle, Kept, NoneStarts, Holds

\* Births rewrite received calls, to a status a draft may carry.
LEMMA BirthGentle ==
    ASSUME IInv, Birth
    PROVE  Gentle(path, path')
<1>1. PICK born \in [ReceivedExecutions(path) ->
                       BirthStatuses \cup (IF token THEN {"pending"} ELSE {})] :
        path' = [i \in DOMAIN path |->
                   IF i \in DOMAIN born THEN Finalize(path[i], born[i]) ELSE path[i]]
  BY DEF Birth
<1>2. path \in Seq(Entries)
  BY DEF IInv, TypeOK
<1>3. ASSUME NEW i \in DOMAIN path, i \in ReceivedExecutions(path)
      PROVE  /\ Holds(path, i, "tool") /\ path[i].status \in NonterminalStatuses
             /\ Finalize(path[i], born[i]).kind = "tool"
             /\ Finalize(path[i], born[i]).status # "running"
  <2>1. Holds(path, i, "tool") /\ path[i].status = "received"
    BY <1>3 DEF ReceivedExecutions, WithStatus, OpenTurnExecutions, OpenTurnEntries
  <2>2. path[i] \in ToolExecutions
    BY <1>2, <2>1, PathEntry
  <2>3. born[i] \in {"pending", "not_found", "invalid", "failed", "refused"}
    BY <1>3, TurnAssumption
  <2>4. born[i] \in Statuses /\ born[i] # "running"
    BY <2>3 DEF Statuses, TerminalStatuses, NonterminalStatuses
  <2> QED
    BY <2>1, <2>2, <2>4, FinalizeFacts DEF NonterminalStatuses
<1>4. DOMAIN path' = DOMAIN path
  BY <1>1
<1>5. \A i \in DOMAIN path :
         \/ path'[i] = path[i]
         \/ /\ Holds(path, i, "tool") /\ path[i].status \in NonterminalStatuses
            /\ path'[i].kind = "tool" /\ path'[i].status # "running"
  BY <1>1, <1>3
<1> QED
  BY <1>4, <1>5, RewriteGentle

\* Decisions rewrite undecided calls.
LEMMA DecideGentle ==
    ASSUME IInv, Decide
    PROVE  Gentle(path, path')
<1>1. PICK answered \in SUBSET UndecidedExecutions(path) :
        \E answer \in [answered -> {"allowed", "pending", "rejected"}] :
           path' = [i \in DOMAIN path |->
                      IF i \in answered THEN Decided(path[i], answer[i]) ELSE path[i]]
  BY DEF Decide
<1>2. PICK answer \in [answered -> {"allowed", "pending", "rejected"}] :
        path' = [i \in DOMAIN path |->
                   IF i \in answered THEN Decided(path[i], answer[i]) ELSE path[i]]
  BY <1>1
<1>3. path \in Seq(Entries)
  BY DEF IInv, TypeOK
<1>4. ASSUME NEW i \in DOMAIN path, i \in answered
      PROVE  /\ Holds(path, i, "tool") /\ path[i].status \in NonterminalStatuses
             /\ Decided(path[i], answer[i]).kind = "tool"
             /\ Decided(path[i], answer[i]).status # "running"
  <2>1. Holds(path, i, "tool") /\ path[i].status = "pending"
    BY <1>4 DEF UndecidedExecutions, WithStatus, OpenTurnExecutions, OpenTurnEntries
  <2>2. path[i] \in ToolExecutions
    BY <1>3, <2>1, PathEntry
  <2> QED
    BY <2>1, <2>2 DEF Decided, NonterminalStatuses, ToolExecutions
<1>5. DOMAIN path' = DOMAIN path
  BY <1>2
<1>6. \A i \in DOMAIN path :
         \/ path'[i] = path[i]
         \/ /\ Holds(path, i, "tool") /\ path[i].status \in NonterminalStatuses
            /\ path'[i].kind = "tool" /\ path'[i].status # "running"
  BY <1>2, <1>4
<1> QED
  BY <1>5, <1>6, RewriteGentle

\* The current call ends without its body, or its body ends.
LEMMA CallGentle ==
    ASSUME IInv, NEW i,
           PrepareFails(i) \/ PrepareCancelled(i) \/ BodyEnds(i) \/ BodyDefers(i) \/ BodyKilled(i)
    PROVE  Gentle(path, path')
<1>1. IsCurrent(i) /\ pc \in {"prepare", "body"}
  BY DEF PrepareFails, PrepareCancelled, BodyEnds, BodyDefers, BodyKilled
<1>2. /\ i \in DOMAIN path /\ Holds(path, i, "tool") /\ path[i] \in ToolExecutions
      /\ path[i].status \in NonterminalStatuses
  BY <1>1, CurrentCall DEF NonterminalStatuses
<1>3. \E s \in TerminalStatuses \cup {"awaiting_result"} :
         path' = [path EXCEPT ![i] = Finalize(path[i], s)]
  BY TurnAssumption DEF PrepareFails, PrepareCancelled, BodyEnds, BodyDefers, BodyKilled, Settle,
         CancelledInPlace, TerminalStatuses
<1>4. PICK s \in TerminalStatuses \cup {"awaiting_result"} :
         path' = [path EXCEPT ![i] = Finalize(path[i], s)]
  BY <1>3
<1>5. s \in Statuses /\ s # "running"
  BY DEF Statuses, TerminalStatuses, NonterminalStatuses
<1>6. Finalize(path[i], s).kind = "tool" /\ Finalize(path[i], s).status # "running"
  BY <1>2, <1>5, FinalizeFacts
<1>7. path \in Seq(Entries)
  BY DEF IInv, TypeOK
<1>8. /\ DOMAIN path' = DOMAIN path
      /\ \A j \in DOMAIN path : j # i => path'[j] = path[j]
      /\ path'[i] = Finalize(path[i], s)
  BY <1>2, <1>4, <1>7
<1> QED
  BY <1>2, <1>6, <1>8, RewriteGentle

\* A response is appended, with its calls, its close or the wind-down behind it.
LEMMA ModelGentle ==
    ASSUME IInv,
           \/ \E n \in 1..MaxCalls : ModelCalls(n)
           \/ ModelPauses
           \/ \E r \in {"stop", "non_answer"} : ModelAnswers(r)
    PROVE  Gentle(path, path')
<1>1. path \in Seq(Entries) /\ pc = "llm"
  BY DEF IInv, TypeOK, ModelCalls, ModelPauses, ModelAnswers
<1>2. ASSUME NEW r \in StopReasons
      PROVE  AssistantMessage(r, lastSeen) \in Entries /\ Response(r) \in Seq(Entries)
  <2>1. AssistantMessage(r, lastSeen) \in Entries
    BY DEF IInv, TypeOK, Entries, AssistantMessage
  <2> QED
    BY <1>1, <2>1, AppendFacts DEF Response
<1>3. CASE \E n \in 1..MaxCalls : ModelCalls(n)
  <2>1. PICK n \in 1..MaxCalls : path' = Response("tool_use") \o [k \in 1..n |-> ReceivedExecution]
    BY <1>3 DEF ModelCalls
  <2>2. MaxCalls \in Nat /\ "tool_use" \in StopReasons
    BY TurnAssumption DEF StopReasons
  <2>3. [k \in 1..n |-> ReceivedExecution] \in Seq({ReceivedExecution})
    BY <2>2
  <2>4. /\ DOMAIN Response("tool_use") \subseteq DOMAIN path'
        /\ \A i \in DOMAIN Response("tool_use") : path'[i] = Response("tool_use")[i]
    BY <2>1, <2>2, <2>3, <1>2
  <2>5. Gentle(Response("tool_use"), path')
    BY <2>4 DEF Gentle, Kept, NoneStarts
  <2> QED
    BY <1>1, <1>2, <2>2, <2>5, GrownGentle DEF Response
<1>4. CASE ModelPauses
  BY <1>1, <1>4, AppendGentle DEF ModelPauses, Response
<1>5. CASE \E r \in {"stop", "non_answer"} : ModelAnswers(r)
  <2>1. PICK r \in {"stop", "non_answer"} : path' \in {WindDown(Response(r)), Response(r), Closed(r)}
    BY <1>5 DEF ModelAnswers
  <2>2. r \in StopReasons
    BY DEF StopReasons
  <2>3. CASE path' = Response(r)
    BY <1>1, <2>3, AppendGentle DEF Response
  <2>4. CASE path' = WindDown(Response(r))
    <3>1. Gentle(Response(r), path')
      BY <1>2, <2>2, <2>4, SettledCloseGentle DEF WindDown
    <3> QED
      BY <1>1, <1>2, <2>2, <3>1, GrownGentle DEF Response
  <2>5. CASE path' = Closed(r)
    <3>1. Gentle(Response(r), path')
      BY <1>2, <2>2, <2>5, SettledCloseGentle, AppendGentle DEF Closed
    <3> QED
      BY <1>1, <1>2, <2>2, <3>1, GrownGentle DEF Response
  <2> QED
    BY <2>1, <2>3, <2>4, <2>5
<1> QED
  BY <1>3, <1>4, <1>5

\* The start of a body rewrites the current call, which is live, and finds no
\* cancel: the token is looked at behind prepare().
LEMMA StartBodyKept ==
    ASSUME IInv, NEW i, StartBody(i)
    PROVE  Kept(path, path') /\ ~CancelIsPending(path)
<1>1. IsCurrent(i) /\ pc = "prepare" /\ ~token /\ path' = [path EXCEPT ![i] = Dispatched(path[i])]
  BY DEF StartBody
<1>2. /\ i \in DOMAIN path /\ Holds(path, i, "tool") /\ path[i].status \in NonterminalStatuses
      /\ path[i] \in ToolExecutions
  BY <1>1, CurrentCall DEF NonterminalStatuses
<1>3. path \in Seq(Entries)
  BY DEF IInv, TypeOK
<1>4. /\ DOMAIN path' = DOMAIN path /\ \A j \in DOMAIN path : j # i => path'[j] = path[j]
      /\ path'[i] = Dispatched(path[i]) /\ Dispatched(path[i]).kind = "tool"
  BY <1>1, <1>2, <1>3 DEF Dispatched, ToolExecutions
<1>5. ~CancelIsPending(path)
  BY <1>1 DEF IInv, TokenInv, Off
<1> QED
  BY <1>2, <1>4, <1>5 DEF Kept, Holds

\* Every step is gentle, or starts the body of the current call.
LEMMA StepGentle ==
    ASSUME IInv, [Next]_vars
    PROVE  Gentle(path, path') \/ \E i \in DOMAIN path : StartBody(i)
<1>1. CASE Doors
  BY <1>1, DoorsGentle
<1>2. CASE Engine
  <2>1. CASE LoopTopCancelled \/ GateCancelled \/ HardLimit \/ CloseSettled
    BY <2>1, CloseGentle DEF LoopTopCancelled, GateCancelled, HardLimit
  <2>2. CASE Drive
    BY <2>2, DriveGentle
  <2> QED
    BY <1>2, <2>1, <2>2, MoveGentle DEF Engine
<1>3. CASE TokenWins
  BY <1>3, MoveGentle, DecideGentle, CallGentle DEF TokenWins
<1>4. CASE Answers
  <2>1. ASSUME NEW o \in {"errored", "timed_out"}, ModelFails(o)
        PROVE  Gentle(path, path')
    BY <2>1, CloseGentle DEF ModelFails
  <2> QED
    BY <1>4, <2>1, BirthGentle, DecideGentle, CallGentle, MoveGentle, ModelGentle DEF Answers
<1>5. CASE ApplicationRaises \/ UNCHANGED vars
  BY <1>5, MoveGentle
<1> QED
  BY <1>1, <1>2, <1>3, <1>4, <1>5 DEF Next

-----------------------------------------------------------------------------
(* The gate.                                                               *)

\* Behind the gate, and before the decision to park, something is gated or parked.
GateInv == pc \in {"announced", "gateCheck"} => Blocked

\* A post, a cancel or a notify takes nothing out of the gate.
LEMMA GateStep ==
    ASSUME IInv, GateInv, [Next]_vars
    PROVE  GateInv'
<1> SUFFICES ASSUME pc' \in {"announced", "gateCheck"} PROVE Blocked'
  BY DEF GateInv
<1>1. path \in Seq(Entries)
  BY DEF IInv, TypeOK
<1>2. CASE Gate
  BY <1>2 DEF Gate, Blocked
<1>3. CASE pc \in {"announced", "gateCheck"} /\ \E e \in Entries :
             e.kind \notin {"start", "finish"} /\ path' = Append(path, e)
  <2>1. PICK e \in Entries : e.kind \notin {"start", "finish"} /\ path' = Append(path, e)
    BY <1>3
  <2>2. /\ \A i \in DOMAIN path : InOpenTurn(path', i) <=> InOpenTurn(path, i)
        /\ DOMAIN path \subseteq DOMAIN path' /\ \A i \in DOMAIN path : path'[i] = path[i]
    BY <1>1, <2>1, AppendOpenTurn, AppendFacts
  <2>3. /\ AwaitingExecutions(path) \subseteq AwaitingExecutions(path')
        /\ ParkedExecutions(path) \subseteq ParkedExecutions(path')
    BY <2>2 DEF AwaitingExecutions, ParkedExecutions, WithStatus, OpenTurnExecutions,
                OpenTurnEntries, Holds
  <2> QED
    BY <1>3, <2>3 DEF GateInv, Blocked
<1>4. CASE pc \in {"announced", "gateCheck"} /\ path' = path
  BY <1>4 DEF GateInv, Blocked
<1>5. \/ Gate
      \/ pc \in {"announced", "gateCheck"} /\ path' = path
      \/ pc \in {"announced", "gateCheck"} /\ \E e \in Entries :
           e.kind \notin {"start", "finish"} /\ path' = Append(path, e)
  <2>1. CASE Post
    <3>1. UserMessage \in Entries /\ UserMessage.kind = "user"
      BY DEF Entries, UserMessage
    <3> QED
      BY <2>1, <3>1 DEF Post
  <2>2. ASSUME NEW o \in CancelOutcomes, Cancel(o)
        PROVE  pc \in {"announced", "gateCheck"} /\ \E e \in Entries :
                 e.kind \notin {"start", "finish"} /\ path' = Append(path, e)
    <3>1. CancelRequested(o) \in Entries /\ CancelRequested(o).kind = "cancel"
      BY TurnAssumption DEF Entries, CancelRequested
    <3> QED
      BY <2>2, <3>1 DEF Cancel
  <2>3. CASE Notify \/ UNCHANGED vars
    BY <2>3 DEF Notify, vars
  <2>4. CASE Doors
    BY <2>1, <2>2, <2>3, <2>4 DEF Doors, Begin, Suspend, Crash
  <2>5. CASE Engine
    BY <2>5 DEF Engine, Drive, LoopTopCancelled, LoopTop, Select, NextCall, GateCancelled, GatePassed,
                GateRechecked, Park, NotBlocked, HardLimit, Resume, Project, CloseSettled, Ending,
                EndDrive, WindDownNow, SettleThenClose
  <2>6. CASE TokenWins
    BY <2>6 DEF TokenWins, BirthLost, Decide, PrepareCancelled, BodyKilled, Settle, ModelLost
  <2>7. CASE Answers
    BY <2>7 DEF Answers, Birth, Decide, PrepareFails, StartBody, BodyEnds, BodyDefers, Settle,
                ToolsCollected, ModelCalls, ModelPauses, ModelAnswers, ModelFails, WindDownNow,
                SettleThenClose, EndDrive
  <2>8. CASE ApplicationRaises
    BY <2>8 DEF ApplicationRaises, EndDrive
  <2> QED
    BY <2>3, <2>4, <2>5, <2>6, <2>7, <2>8 DEF Next
<1> QED
  BY <1>2, <1>3, <1>4, <1>5

\* A path that is quiet, blocked and without a post the model has not seen is
\* one the derived status calls stopped.
LEMMA StoppedStatus ==
    ASSUME HasOpenTurn(path), Blocked, ~UnseenPost(path),
           \A i \in DOMAIN path : Holds(path, i, "tool") => Quiet(path[i])
    PROVE  Status(path) \in {"blocked", "cancelling"}
<1>1. ~HasAdvanceableExecutions(path)
  BY DEF HasAdvanceableExecutions, OpenTurnExecutions, OpenTurnEntries, Quiet, TerminalStatuses
<1>2. WithStatus(path, {"pending", "awaiting_result"}) # {}
  BY DEF Blocked, AwaitingExecutions, ParkedExecutions, WithStatus
<1> QED
  BY <1>1, <1>2 DEF Status, IsRunnable

\* Only Park parks.
LEMMA OnlyParkParks ==
    ASSUME [Next]_vars, pc' = "parked", pc # "parked"
    PROVE  Park
<1>1. CASE Doors
  BY <1>1 DEF Doors, Post, Cancel, Notify, Begin, Suspend, Crash
<1>2. CASE Engine
  BY <1>2 DEF Engine, Drive, LoopTopCancelled, LoopTop, Select, NextCall, GateCancelled, Gate, GatePassed,
              GateRechecked, NotBlocked, HardLimit, Resume, Project, CloseSettled, Ending,
              EndDrive, WindDownNow, SettleThenClose
<1>3. CASE TokenWins
  BY <1>3 DEF TokenWins, BirthLost, Decide, PrepareCancelled, BodyKilled, Settle, ModelLost
<1>4. CASE Answers
  BY <1>4 DEF Answers, Birth, Decide, PrepareFails, StartBody, BodyEnds, BodyDefers, Settle,
              ToolsCollected, ModelCalls, ModelPauses, ModelAnswers, ModelFails, WindDownNow,
              SettleThenClose, EndDrive
<1>5. CASE ApplicationRaises \/ UNCHANGED vars
  BY <1>5 DEF ApplicationRaises, EndDrive, vars
<1> QED
  BY <1>1, <1>2, <1>3, <1>4, <1>5 DEF Next

-----------------------------------------------------------------------------
(* The action properties.                                                  *)

FinalStep ==
    /\ DOMAIN path \subseteq DOMAIN path'
    /\ \A i \in DOMAIN path :
         path'[i] # path[i] =>
             Holds(path, i, "tool") /\ path[i].status \in NonterminalStatuses

DispatchStep ==
    \A i \in DOMAIN path :
        Holds(path, i, "tool") /\ path'[i].status = "running" /\ path[i].status # "running"
            => ~CancelIsPending(path)

ParkStep ==
    pc' = "parked" /\ pc # "parked" =>
        Status(path) \in {"blocked", "cancelling"} /\ ~recheck

\* The path is append-only and a call's terminal outcome is never rewritten, by
\* cancels, recoveries, settles and crashes in any order.
THEOREM OutcomesAreFinal == Spec => TerminalIsFinal
<1>1. IInv /\ [Next]_vars => [FinalStep]_vars
  BY StepGentle, StartBodyKept DEF Gentle, Kept, FinalStep
<1>2. Spec => [][FinalStep]_vars
  BY <1>1, Inductive, PTL DEF Spec
<1> QED
  BY <1>2 DEF FinalStep, TerminalIsFinal

\* No body starts in a turn that was asked to cancel.
THEOREM CancelStopsDispatch == Spec => NoDispatchUnderCancel
<1>1. IInv /\ [Next]_vars => [DispatchStep]_vars
  BY StepGentle, StartBodyKept DEF Gentle, NoneStarts, DispatchStep
<1>2. Spec => [][DispatchStep]_vars
  BY <1>1, Inductive, PTL DEF Spec
<1> QED
  BY <1>2 DEF DispatchStep, NoDispatchUnderCancel

\* A drive parks only in a state the derived status calls stopped, with no notify
\* it has not looked at.
THEOREM ParkedIsStopped == Spec => ParksOnlyWhenBlocked
<1>1. Init => GateInv
  BY DEF Init, GateInv
<1>2. IInv /\ GateInv /\ [Next]_vars => GateInv'
  BY GateStep
<1>3. IInv /\ GateInv /\ [Next]_vars => [ParkStep]_vars
  <2> SUFFICES ASSUME IInv, GateInv, [Next]_vars, pc' = "parked", pc # "parked"
               PROVE  Status(path) \in {"blocked", "cancelling"} /\ ~recheck
    BY DEF ParkStep
  <2>1. pc \in {"announced", "gateCheck"} /\ ~HasUnseenPost /\ ~recheck
    BY OnlyParkParks DEF Park
  <2>2. HasOpenTurn(path)
    BY <2>1 DEF IInv, OpenInv, Engaged, Suspended, Running, Raced, Yielding
  <2>3. \A i \in DOMAIN path : Holds(path, i, "tool") => Quiet(path[i])
    BY <2>1 DEF IInv, QuietInv, PastTheGate
  <2> QED
    BY <2>1, <2>2, <2>3, StoppedStatus DEF GateInv, HasUnseenPost
<1>4. Spec => [][ParkStep]_vars
  BY <1>1, <1>2, <1>3, Inductive, PTL DEF Spec
<1> QED
  BY <1>4 DEF ParkStep, ParksOnlyWhenBlocked

-----------------------------------------------------------------------------
(* The answer that closes a turn.                                          *)

\* A close that waits for its settle's events is never a completion.
ClosingInv == closing # "completed"

\* No completion among the entries that q adds to p.
NoneCompletes(p, q) ==
    \A f \in DOMAIN q \ DOMAIN p : ~(Holds(q, f, "finish") /\ q[f].outcome = "completed")

\* The one step that completes a turn: a final answer, nothing unseen, no cancel.
Completes ==
    /\ pc = "llm" /\ ~CancelIsPending(path) /\ ~UserMessageBeyond(path, lastSeen)
    /\ path' = Append(Append(path, AssistantMessage("stop", lastSeen)), TurnFinish("completed"))

\* Only errors and timeouts settle before they close.
LEMMA ClosingStep == ClosingInv /\ [Next]_vars => ClosingInv'
<1> SUFFICES ASSUME ClosingInv, [Next]_vars PROVE ClosingInv'
  OBVIOUS
<1> USE DEF ClosingInv, FreshDrive, EndDrive, WindDownNow, SettleThenClose, Settle, drive, vars
<1>1. CASE Doors
  BY <1>1 DEF Doors, Post, Cancel, Notify, Begin, Suspend, Crash
<1>2. CASE Engine
  BY <1>2 DEF Engine, Drive, LoopTopCancelled, LoopTop, Select, NextCall, GateCancelled, Gate, GatePassed,
              GateRechecked, Park, NotBlocked, HardLimit, Resume, Project, CloseSettled, Ending
<1>3. CASE TokenWins
  BY <1>3 DEF TokenWins, BirthLost, Decide, PrepareCancelled, BodyKilled, ModelLost
<1>4. CASE Answers
  BY <1>4 DEF Answers, Birth, Decide, PrepareFails, StartBody, BodyEnds, BodyDefers,
              ToolsCollected, ModelCalls, ModelPauses, ModelAnswers, ModelFails
<1>5. CASE ApplicationRaises \/ UNCHANGED vars
  BY <1>5 DEF ApplicationRaises
<1> QED
  BY <1>1, <1>2, <1>3, <1>4, <1>5 DEF Next

\* The settle adds no entry, and an append behind it adds the one it names.
LEMMA SettledCloseAdds ==
    ASSUME NEW p \in Seq(Entries), NEW e
    PROVE  LET q == Append(SettleOpenExecutions(p), e)
           IN  /\ DOMAIN SettleOpenExecutions(p) = DOMAIN p
               /\ DOMAIN q = 1..(Len(p) + 1) /\ q[Len(p) + 1] = e
<1> DEFINE r == SettleOpenExecutions(p)
<1>1. r = [i \in DOMAIN p |-> r[i]] /\ \A i \in DOMAIN p : r[i] \in Entries
  BY SettleGentle
<1> HIDE DEF r
<1>2. r \in Seq(Entries) /\ Len(r) = Len(p) /\ DOMAIN r = DOMAIN p
  BY <1>1, RewriteFacts
<1>3. DOMAIN Append(r, e) = 1..(Len(p) + 1) /\ Append(r, e)[Len(p) + 1] = e
  BY <1>2
<1> QED
  BY <1>2, <1>3 DEF r

\* A wind-down closes with the outcome its cancel asks for, which is no completion.
LEMMA WindDownCompletesNot ==
    ASSUME NEW p \in Seq(Entries), CancelIsPending(p)
    PROVE  NoneCompletes(p, WindDown(p))
<1> DEFINE c == CHOOSE i \in PendingCancel(p) : TRUE
<1>1. OpenTurnEntries(p, "cancel") \in SUBSET Nat
  BY DEF OpenTurnEntries
<1>2. PendingCancel(p) # {}
  BY <1>1, Least DEF CancelIsPending, PendingCancel
<1>3. c \in DOMAIN p /\ p[c].kind = "cancel" /\ p[c] \in Entries
  BY <1>2, PathEntry DEF PendingCancel, OpenTurnEntries, Holds
<1>4. p[c].outcome # "completed"
  BY <1>3 DEF Entries, UserMessage, TurnStart, ToolExecutions
<1>5. DOMAIN p = 1..Len(p) /\ Len(p) \in Nat
  OBVIOUS
<1>6. /\ DOMAIN WindDown(p) = 1..(Len(p) + 1)
      /\ WindDown(p)[Len(p) + 1] = TurnFinish(p[c].outcome)
  BY SettledCloseAdds DEF WindDown
<1> QED
  BY <1>4, <1>5, <1>6 DEF NoneCompletes, TurnFinish

\* So does an error or a timeout.
LEMMA CloseCompletesNot ==
    ASSUME IInv, ClosingInv,
           \/ LoopTopCancelled \/ GateCancelled \/ HardLimit \/ CloseSettled
           \/ \E o \in {"errored", "timed_out"} : ModelFails(o)
    PROVE  NoneCompletes(path, path')
<1>1. path \in Seq(Entries) /\ DOMAIN path = 1..Len(path) /\ Len(path) \in Nat
  BY DEF IInv, TypeOK
<1>2. CASE CancelIsPending(path) /\ WindDownNow
  BY <1>1, <1>2, WindDownCompletesNot DEF WindDownNow
<1>3. CASE CloseSettled
  BY <1>1, <1>3 DEF CloseSettled, EndDrive, ClosingInv, NoneCompletes, TurnFinish
<1>4. ASSUME NEW o \in {"errored", "timed_out"}, SettleThenClose(o)
      PROVE  NoneCompletes(path, path')
  <2>1. CASE path' = SettleOpenExecutions(path)
    BY <1>1, <2>1, SettledCloseAdds DEF NoneCompletes
  <2>2. CASE path' = Append(path, TurnFinish(o))
    BY <1>1, <1>4, <2>2 DEF NoneCompletes, TurnFinish
  <2> QED
    BY <1>4, <2>1, <2>2 DEF SettleThenClose, EndDrive
<1>5. CASE LoopTopCancelled \/ GateCancelled
  BY <1>2, <1>5 DEF LoopTopCancelled, GateCancelled
<1>6. CASE HardLimit
  BY <1>4, <1>6 DEF HardLimit
<1>7. CASE \E o \in {"errored", "timed_out"} : ModelFails(o)
  BY <1>2, <1>4, <1>7 DEF ModelFails
<1> QED
  BY <1>3, <1>5, <1>6, <1>7

\* Where the entries of a concatenation come from.
LEMMA ConcatFacts ==
    ASSUME NEW S, NEW p \in Seq(S), NEW q \in Seq(S)
    PROVE  /\ DOMAIN (p \o q) = 1..(Len(p) + Len(q))
           /\ \A i \in 1..Len(p) : (p \o q)[i] = p[i]
           /\ \A i \in Len(p) + 1..Len(p) + Len(q) : (p \o q)[i] = q[i - Len(p)]
OBVIOUS

\* A response adds no completion but the one that answers everything.
LEMMA ResponseCompletes ==
    ASSUME IInv,
           \/ \E n \in 1..MaxCalls : ModelCalls(n)
           \/ ModelPauses
           \/ \E r \in {"stop", "non_answer"} : ModelAnswers(r)
    PROVE  NoneCompletes(path, path') \/ Completes
<1>0. path \in Seq(Entries) /\ pc = "llm"
  BY DEF IInv, TypeOK, ModelCalls, ModelPauses, ModelAnswers
<1>1. /\ path \in Seq(Entries) /\ pc = "llm"
      /\ DOMAIN path = 1..Len(path) /\ Len(path) \in Nat
  BY <1>0
<1>2. ASSUME NEW r \in StopReasons
      PROVE  /\ Response(r) \in Seq(Entries) /\ Len(Response(r)) = Len(path) + 1
             /\ DOMAIN Response(r) = 1..(Len(path) + 1)
             /\ Response(r)[Len(path) + 1].kind = "assistant"
             /\ CancelIsPending(Response(r)) <=> CancelIsPending(path)
  BY <1>1, ResponseFacts
<1>3. CASE \E n \in 1..MaxCalls : ModelCalls(n)
  <2>1. PICK n \in 1..MaxCalls : path' = Response("tool_use") \o [k \in 1..n |-> ReceivedExecution]
    BY <1>3 DEF ModelCalls
  <2>2. MaxCalls \in Nat /\ "tool_use" \in StopReasons /\ n \in Nat
    BY TurnAssumption DEF StopReasons
  <2>3. PICK calls : calls = [k \in 1..n |-> ReceivedExecution]
    OBVIOUS
  <2>4. ASSUME NEW f \in DOMAIN path' \ DOMAIN path
        PROVE  path'[f].kind \in {"assistant", "tool"}
    <3> DEFINE S == Entries \cup {ReceivedExecution}
               q == Response("tool_use")
    <3>1. /\ calls \in Seq(S) /\ Len(calls) = n /\ \A k \in 1..n : calls[k].kind = "tool"
      BY <2>2, <2>3 DEF ReceivedExecution
    <3>2. /\ q \in Seq(S) /\ Len(q) = Len(path) + 1 /\ q[Len(path) + 1].kind = "assistant"
          /\ path' = q \o calls
      BY <1>2, <2>1, <2>2, <2>3
    <3> HIDE DEF S, q
    <3>3. /\ DOMAIN path' = 1..(Len(path) + 1 + n)
          /\ \A i \in 1..(Len(path) + 1) : path'[i] = q[i]
          /\ \A i \in Len(path) + 2..Len(path) + 1 + n : path'[i] = calls[i - (Len(path) + 1)]
      <4>1. /\ DOMAIN (q \o calls) = 1..(Len(q) + Len(calls))
            /\ \A i \in 1..Len(q) : (q \o calls)[i] = q[i]
            /\ \A i \in Len(q) + 1..Len(q) + Len(calls) : (q \o calls)[i] = calls[i - Len(q)]
        <5>1. q \in Seq(S) /\ calls \in Seq(S)
          BY <3>1, <3>2
        <5> QED
          BY <5>1, ConcatFacts, Zenon
      <4> QED
        BY <1>1, <2>2, <3>1, <3>2, <4>1
    <3>4. CASE f = Len(path) + 1
      BY <1>1, <3>2, <3>3, <3>4
    <3>5. CASE f # Len(path) + 1
      <4>1. f \in Len(path) + 2..Len(path) + 1 + n /\ f - (Len(path) + 1) \in 1..n
        BY <1>1, <2>2, <3>3, <3>5
      <4> QED
        BY <3>1, <3>3, <4>1
    <3> QED
      BY <3>4, <3>5
  <2> QED
    BY <2>4 DEF NoneCompletes, Holds
<1>4. CASE ModelPauses
  BY <1>1, <1>2, <1>4 DEF ModelPauses, NoneCompletes, Holds, StopReasons
<1>5. CASE \E r \in {"stop", "non_answer"} : ModelAnswers(r)
  <2>1. PICK r \in {"stop", "non_answer"} : ModelAnswers(r)
    BY <1>5
  <2>2. r \in StopReasons
    BY DEF StopReasons
  <2>3. CASE path' = Response(r)
    BY <1>1, <1>2, <2>2, <2>3 DEF NoneCompletes, Holds
  <2>4. CASE CancelIsPending(path) /\ path' = WindDown(Response(r))
    <3>1. NoneCompletes(Response(r), path')
      BY <1>2, <2>2, <2>4, WindDownCompletesNot
    <3>2. path'[Len(path) + 1].kind = "assistant"
      <4>1. Gentle(Response(r), path')
        BY <1>2, <2>2, <2>4, SettledCloseGentle DEF WindDown
      <4>2. path'[Len(path) + 1] = Response(r)[Len(path) + 1]
        BY <1>1, <1>2, <2>2, <4>1 DEF Gentle, Kept, Holds
      <4> QED
        BY <1>2, <2>2, <4>2
    <3> QED
      BY <1>1, <1>2, <2>2, <3>1, <3>2 DEF NoneCompletes, Holds
  <2>5. CASE r = "non_answer" /\ path' = Closed(r)
    <3>1. path' = Append(SettleOpenExecutions(Response(r)), TurnFinish("errored"))
      BY <2>5 DEF Closed
    <3>2. DOMAIN path' = 1..(Len(path) + 2) /\ path'[Len(path) + 2] = TurnFinish("errored")
      <4>1. /\ DOMAIN path' = 1..(Len(Response(r)) + 1)
            /\ path'[Len(Response(r)) + 1] = TurnFinish("errored")
        BY <1>2, <2>2, <3>1, SettledCloseAdds
      <4> QED
        BY <1>1, <1>2, <2>2, <4>1
    <3>3. path'[Len(path) + 1].kind = "assistant"
      <4>1. Gentle(Response(r), path')
        BY <1>2, <2>2, <3>1, SettledCloseGentle
      <4>2. path'[Len(path) + 1] = Response(r)[Len(path) + 1]
        BY <1>1, <1>2, <2>2, <4>1 DEF Gentle, Kept, Holds
      <4> QED
        BY <1>2, <2>2, <4>2
    <3> QED
      BY <1>1, <3>2, <3>3 DEF NoneCompletes, Holds, TurnFinish
  <2>6. CASE r = "stop" /\ path' = Closed(r) /\ ~CancelIsPending(path) /\ ~MustContinue
    BY <1>1, <2>6 DEF Closed, Completes, MustContinue, Response
  <2> QED
    BY <2>1, <2>3, <2>4, <2>5, <2>6 DEF ModelAnswers
<1> QED
  BY <1>3, <1>4, <1>5

\* No step but that one completes a turn.
LEMMA OnlyAnswersComplete ==
    ASSUME IInv, ClosingInv, [Next]_vars
    PROVE  NoneCompletes(path, path') \/ Completes
<1>1. path \in Seq(Entries) /\ DOMAIN path = 1..Len(path) /\ Len(path) \in Nat
  BY DEF IInv, TypeOK
<1>2. CASE Doors
  <2>1. CASE path' = path
    BY <2>1 DEF NoneCompletes
  <2>2. CASE \E e : e.kind # "finish" /\ path' = Append(path, e)
    BY <1>1, <2>2 DEF NoneCompletes, Holds
  <2>3. path' = path \/ \E e : e.kind # "finish" /\ path' = Append(path, e)
    BY <1>2 DEF Doors, Post, Cancel, Notify, Begin, Suspend, Crash, UserMessage, CancelRequested, TurnStart
  <2> QED
    BY <2>1, <2>2, <2>3
<1>3. CASE Drive
  <2> DEFINE opened == IF HasOpenTurn(path) THEN path ELSE Append(path, TurnStart)
  <2>1. path' = [i \in DOMAIN opened |->
                   IF i \in RunningExecutions(opened) THEN Discard(opened[i]) ELSE opened[i]]
    BY <1>3 DEF Drive
  <2>2. \A f \in DOMAIN opened \ DOMAIN path : opened[f].kind = "start"
    BY <1>1 DEF TurnStart
  <2>3. \A f \in RunningExecutions(opened) : opened[f].kind = "tool"
    BY DEF RunningExecutions, WithStatus, OpenTurnExecutions, OpenTurnEntries, Holds
  <2> HIDE DEF opened
  <2>4. \A f \in DOMAIN path' \ DOMAIN path : path'[f].kind = "start"
    BY <2>1, <2>2, <2>3
  <2> QED
    BY <2>4 DEF NoneCompletes, Holds
<1>4. CASE \/ Birth \/ Decide
           \/ \E i \in DOMAIN path : \/ PrepareFails(i) \/ PrepareCancelled(i) \/ StartBody(i)
                                   \/ BodyEnds(i) \/ BodyDefers(i) \/ BodyKilled(i)
  <2>1. DOMAIN path' = DOMAIN path
    BY <1>4 DEF Birth, Decide, PrepareFails, PrepareCancelled, StartBody, BodyEnds, BodyDefers,
                BodyKilled, Settle
  <2> QED
    BY <2>1 DEF NoneCompletes
<1>5. CASE \/ LoopTopCancelled \/ GateCancelled \/ HardLimit \/ CloseSettled
           \/ \E o \in {"errored", "timed_out"} : ModelFails(o)
  BY <1>5, CloseCompletesNot
<1>6. CASE \/ \E n \in 1..MaxCalls : ModelCalls(n)
           \/ ModelPauses
           \/ \E r \in {"stop", "non_answer"} : ModelAnswers(r)
  BY <1>6, ResponseCompletes
<1>7. CASE path' = path
  BY <1>7 DEF NoneCompletes
<1>8. CASE Engine
  BY <1>3, <1>5, <1>7, <1>8, MoveGentle DEF Engine
<1>9. CASE TokenWins
  BY <1>4, <1>7, <1>9, MoveGentle DEF TokenWins
<1>10. CASE Answers
  BY <1>4, <1>5, <1>6, <1>7, <1>10, MoveGentle DEF Answers
<1>11. CASE ApplicationRaises \/ UNCHANGED vars
  BY <1>7, <1>11, MoveGentle
<1> QED
  BY <1>2, <1>8, <1>9, <1>10, <1>11 DEF Next

\* An entry that is no call is never rewritten, and a call stays one.
LEMMA EntriesStay ==
    ASSUME IInv, [Next]_vars
    PROVE  /\ DOMAIN path \subseteq DOMAIN path'
           /\ \A i \in DOMAIN path : path'[i].kind = path[i].kind
           /\ \A i \in DOMAIN path : ~Holds(path, i, "tool") => path'[i] = path[i]
<1>1. Kept(path, path')
  BY StepGentle, StartBodyKept DEF Gentle
<1> QED
  BY <1>1 DEF Kept, Holds

\* The completion that a step adds answers every post and no cancel.
LEMMA CompletesAnswered ==
    ASSUME IInv, Completes
    PROVE  /\ DOMAIN path' = 1..(Len(path) + 2) /\ Len(path) \in Nat
           /\ \A u \in DOMAIN path' :
                u < Len(path) + 2 /\ Holds(path', u, "user") => u <= lastSeen
           /\ Holds(path', Len(path) + 1, "assistant") /\ path'[Len(path) + 1].seen = lastSeen
           /\ \A c \in DOMAIN path' : Holds(path', c, "cancel") =>
                \E k \in DOMAIN path : c < k /\ path'[k].kind \in {"start", "finish"}
           /\ \A i \in DOMAIN path : path'[i] = path[i]
<1> DEFINE a == AssistantMessage("stop", lastSeen)
           z == TurnFinish("completed")
<1>1. /\ path \in Seq(Entries) /\ Len(path) \in Nat /\ DOMAIN path = 1..Len(path)
      /\ a.kind = "assistant" /\ a.seen = lastSeen /\ z.kind = "finish"
      /\ lastSeen \in 0..Len(path)
  BY DEF IInv, TypeOK, AssistantMessage, TurnFinish
<1>2. path' = Append(Append(path, a), z)
  BY DEF Completes
<1> HIDE DEF a, z
<1>3. /\ DOMAIN path' = 1..(Len(path) + 2)
      /\ \A i \in DOMAIN path : path'[i] = path[i]
      /\ path'[Len(path) + 1] = a /\ path'[Len(path) + 2] = z
  <2>1. path \in Seq(Entries \cup {a, z})
    BY <1>1
  <2> QED
    BY <1>1, <1>2, <2>1
<1>4. \A u \in DOMAIN path' : u < Len(path) + 2 /\ Holds(path', u, "user") => u <= lastSeen
  BY <1>1, <1>3 DEF Completes, UserMessageBeyond, Holds
<1>5. ASSUME NEW c \in DOMAIN path', Holds(path', c, "cancel")
      PROVE  \E k \in DOMAIN path : c < k /\ path'[k].kind \in {"start", "finish"}
  <2>1. c \in DOMAIN path /\ Holds(path, c, "cancel")
    BY <1>1, <1>3, <1>5 DEF Holds
  <2>2. PICK s \in DOMAIN path : IsOpenTurn(path, s)
    BY DEF IInv, OpenInv, Completes, Engaged, Suspended, Raced, HasOpenTurn
  <2>3. ~InOpenTurn(path, c)
    BY <2>1 DEF Completes, CancelIsPending, OpenTurnEntries
  <2>4. ~(s <= c)
    BY <2>1, <2>2, <2>3 DEF InOpenTurn
  <2>5. c < s /\ path'[s].kind = "start"
    BY <1>1, <1>3, <2>1, <2>2, <2>4 DEF IsOpenTurn, Holds
  <2> QED
    BY <2>2, <2>5
<1> QED
  BY <1>1, <1>3, <1>4, <1>5 DEF Holds

\* Every step keeps what completed turns promise.
LEMMA AnsweredStep ==
    ASSUME IInv, ClosingInv, CompletedIsAnswered, [Next]_vars
    PROVE  CompletedIsAnswered'
<1>1. /\ DOMAIN path \subseteq DOMAIN path'
      /\ \A i \in DOMAIN path : path'[i].kind = path[i].kind
      /\ \A i \in DOMAIN path : ~Holds(path, i, "tool") => path'[i] = path[i]
  BY EntriesStay
<1>2. /\ DOMAIN path = 1..Len(path) /\ Len(path) \in Nat
      /\ DOMAIN path' = 1..Len(path') /\ Len(path') \in Nat
  BY IInvNext DEF IInv, TypeOK
<1>3. ASSUME NEW f \in DOMAIN path', Holds(path', f, "finish"), path'[f].outcome = "completed"
      PROVE  /\ \A u \in DOMAIN path' : u < f /\ Holds(path', u, "user") =>
                  \E a \in DOMAIN path' : a < f /\ Holds(path', a, "assistant") /\ u <= path'[a].seen
             /\ \A c \in DOMAIN path' : Holds(path', c, "cancel") /\ c < f =>
                  \E k \in DOMAIN path' : c < k /\ k < f /\ path'[k].kind \in {"start", "finish"}
  <2>1. CASE f \in DOMAIN path
    <3>1. Holds(path, f, "finish") /\ path[f].outcome = "completed"
      BY <1>1, <1>3, <2>1 DEF Holds
    <3>2. ASSUME NEW u \in DOMAIN path', u < f
          PROVE  u \in DOMAIN path
      BY <1>2, <2>1, <3>2
    <3>3. ASSUME NEW u \in DOMAIN path', u < f, Holds(path', u, "user")
          PROVE  \E a \in DOMAIN path' : a < f /\ Holds(path', a, "assistant") /\ u <= path'[a].seen
      <4>1. u \in DOMAIN path /\ Holds(path, u, "user")
        BY <1>1, <3>2, <3>3 DEF Holds
      <4>2. PICK a \in DOMAIN path : a < f /\ Holds(path, a, "assistant") /\ u <= path[a].seen
        BY <2>1, <3>1, <3>3, <4>1 DEF CompletedIsAnswered, AnsweredBeforeComplete
      <4>3. path'[a] = path[a]
        BY <1>1, <4>2 DEF Holds
      <4> QED
        BY <1>1, <4>2, <4>3 DEF Holds
    <3>4. ASSUME NEW c \in DOMAIN path', c < f, Holds(path', c, "cancel")
          PROVE  \E k \in DOMAIN path' : c < k /\ k < f /\ path'[k].kind \in {"start", "finish"}
      <4>1. c \in DOMAIN path /\ Holds(path, c, "cancel")
        BY <1>1, <3>2, <3>4 DEF Holds
      <4>2. PICK k \in DOMAIN path : c < k /\ k < f /\ path[k].kind \in {"start", "finish"}
        BY <2>1, <3>1, <3>4, <4>1 DEF CompletedIsAnswered, CancelNeverCompletes, InBracketOf
      <4> QED
        BY <1>1, <4>2
    <3> QED
      BY <3>3, <3>4
  <2>2. CASE f \notin DOMAIN path
    <3>1. Completes
      BY <1>3, <2>2, OnlyAnswersComplete DEF NoneCompletes
    <3>2. f = Len(path) + 2
      <4>1. /\ DOMAIN path' = 1..(Len(path) + 2)
            /\ Holds(path', Len(path) + 1, "assistant")
        BY <3>1, CompletesAnswered
      <4>2. f # Len(path) + 1
        BY <1>3, <4>1 DEF Holds
      <4> QED
        BY <1>2, <2>2, <1>3, <4>1, <4>2
    <3>3. ASSUME NEW u \in DOMAIN path', u < f, Holds(path', u, "user")
          PROVE  \E a \in DOMAIN path' : a < f /\ Holds(path', a, "assistant") /\ u <= path'[a].seen
      <4>1. /\ u <= lastSeen /\ Len(path) + 1 \in DOMAIN path' /\ Len(path) + 1 < f
            /\ Holds(path', Len(path) + 1, "assistant") /\ path'[Len(path) + 1].seen = lastSeen
        <5>1. /\ DOMAIN path' = 1..(Len(path) + 2)
              /\ \A w \in DOMAIN path' :
                   w < Len(path) + 2 /\ Holds(path', w, "user") => w <= lastSeen
              /\ Holds(path', Len(path) + 1, "assistant")
              /\ path'[Len(path) + 1].seen = lastSeen
          BY <3>1, CompletesAnswered
        <5> QED
          BY <1>2, <3>2, <3>3, <5>1
      <4> QED
        BY <4>1
    <3>4. ASSUME NEW c \in DOMAIN path', c < f, Holds(path', c, "cancel")
          PROVE  \E k \in DOMAIN path' : c < k /\ k < f /\ path'[k].kind \in {"start", "finish"}
      <4>1. PICK k \in DOMAIN path : c < k /\ path'[k].kind \in {"start", "finish"}
        BY <3>1, <3>4, CompletesAnswered
      <4>2. k \in DOMAIN path' /\ k < f
        BY <1>1, <1>2, <3>2, <4>1
      <4> QED
        BY <4>1, <4>2
    <3> QED
      BY <3>3, <3>4
  <2> QED
    BY <2>1, <2>2
<1>4. AnsweredBeforeComplete'
  BY <1>3 DEF AnsweredBeforeComplete, Holds
<1>5. CancelNeverCompletes'
  <2> SUFFICES ASSUME NEW c \in DOMAIN path', NEW f \in DOMAIN path',
                      Holds(path', c, "cancel"), Holds(path', f, "finish"), c < f,
                      \A k \in DOMAIN path' : c < k /\ k < f => path'[k].kind \notin {"start", "finish"}
               PROVE  path'[f].outcome # "completed"
    BY DEF CancelNeverCompletes, InBracketOf, Holds
  <2> QED
    BY <1>3
<1> QED
  BY <1>4, <1>5 DEF CompletedIsAnswered

\* A turn that is closed as a complete answer has shown the model every message
\* posted before the close, and was never asked to cancel.
THEOREM CompletionsAreAnswers == Spec => []CompletedIsAnswered
<1>1. Init => ClosingInv /\ CompletedIsAnswered
  BY DEF Init, ClosingInv, CompletedIsAnswered, AnsweredBeforeComplete, CancelNeverCompletes
<1>2. IInv /\ ClosingInv /\ CompletedIsAnswered /\ [Next]_vars => ClosingInv' /\ CompletedIsAnswered'
  BY ClosingStep, AnsweredStep
<1> QED
  BY <1>1, <1>2, Inductive, PTL DEF Spec

-----------------------------------------------------------------------------
(* The brackets.                                                           *)

\* A nonempty set of positions has a greatest one.
LEMMA Greatest ==
    ASSUME NEW n \in Nat, NEW S \in SUBSET (1..n), S # {}
    PROVE  \E i \in S : \A j \in S : j <= i
<1> DEFINE T == {n - i : i \in S}
<1>1. T \in SUBSET Nat /\ T # {}
  <2>1. \A i \in S : i \in 1..n /\ n - i \in Nat
    OBVIOUS
  <2> QED
    BY <2>1
<1>2. PICK m \in T : \A k \in T : m <= k
  BY <1>1, Least
<1>3. PICK i \in S : m = n - i
  BY <1>2
<1>4. ASSUME NEW j \in S
      PROVE  j <= i
  <2>1. m <= n - j
    BY <1>2
  <2> QED
    BY <1>3, <2>1
<1> QED
  BY <1>4

\* A response with n calls behind it.
Called(p, a, n) == Append(p, a) \o [k \in 1..n |-> ReceivedExecution]

\* q is p with the response a and n calls behind it.
IsCalled(p, a, n, q) ==
    /\ q \in Seq(Entries) /\ Len(q) = Len(p) + 1 + n
    /\ DOMAIN q = 1..(Len(p) + 1 + n)
    /\ \A i \in DOMAIN p : q[i] = p[i]
    /\ q[Len(p) + 1] = a
    /\ \A i \in DOMAIN q : i > Len(p) + 1 => q[i] = ReceivedExecution

\* What a response with calls adds to the path.
LEMMA ResponseAdds ==
    ASSUME NEW p \in Seq(Entries), NEW a \in Entries, NEW n \in Nat
    PROVE  IsCalled(p, a, n, Called(p, a, n))
<1> DEFINE s == Append(p, a)
           c == [k \in 1..n |-> ReceivedExecution]
           q == Called(p, a, n)
<1>1. ReceivedExecution \in Entries
  BY DEF Entries, ToolExecutions, ReceivedExecution, Statuses, NonterminalStatuses, Approvals
<1>2. /\ s \in Seq(Entries) /\ Len(s) = Len(p) + 1
      /\ DOMAIN p = 1..Len(p) /\ Len(p) \in Nat
      /\ \A i \in DOMAIN p : s[i] = p[i]
      /\ s[Len(p) + 1] = a
  BY AppendFacts
<1>3. c \in Seq(Entries) /\ Len(c) = n /\ \A k \in 1..n : c[k] = ReceivedExecution
  BY <1>1
<1>4. q = s \o c
  BY DEF Called
<1> HIDE DEF s, c, q
<1>5. q \in Seq(Entries) /\ Len(q) = Len(p) + 1 + n
  <2>1. s \o c \in Seq(Entries) /\ Len(s \o c) = Len(s) + Len(c)
    BY <1>2, <1>3, ConcatProperties
  <2> QED
    BY <1>2, <1>3, <1>4, <2>1
<1>6. DOMAIN q = 1..(Len(p) + 1 + n)
  BY <1>5
<1>7. /\ \A i \in 1..Len(s) : q[i] = s[i]
      /\ \A i \in Len(s) + 1..Len(s) + Len(c) : q[i] = c[i - Len(s)]
  <2>1. /\ \A i \in 1..Len(s) : (s \o c)[i] = s[i]
        /\ \A i \in Len(s) + 1..Len(s) + Len(c) : (s \o c)[i] = c[i - Len(s)]
    BY <1>2, <1>3, ConcatFacts
  <2> QED
    BY <1>4, <2>1
<1>8. /\ \A i \in 1..(Len(p) + 1) : q[i] = s[i]
      /\ \A i \in 1..(Len(p) + 1 + n) : i > Len(p) + 1 => q[i] = ReceivedExecution
  BY <1>2, <1>3, <1>7
<1>9. /\ \A i \in DOMAIN p : i \in 1..(Len(p) + 1)
      /\ Len(p) + 1 \in 1..(Len(p) + 1)
  BY <1>2
<1>10. (\A i \in DOMAIN p : q[i] = p[i]) /\ q[Len(p) + 1] = a
  BY <1>2, <1>8, <1>9
<1> QED
  BY <1>5, <1>6, <1>8, <1>10 DEF IsCalled, q

\* Brackets do not nest and nothing but a message lies outside them.
Brackets(p) ==
    \A i \in DOMAIN p :
        /\ p[i].kind = "start" =>
             \A j \in DOMAIN p : j < i =>
                p[j].kind # "start" \/ \E k \in DOMAIN p : j < k /\ k < i /\ p[k].kind = "finish"
        /\ p[i].kind \notin {"start", "user"} =>
             \E s \in DOMAIN p : /\ s < i /\ p[s].kind = "start"
                                /\ \A k \in DOMAIN p : s < k /\ k < i => p[k].kind # "finish"

\* What a post adds.
Said(p, q) == \A i \in DOMAIN q \ DOMAIN p : q[i].kind = "user"

\* What the other steps may add: nothing, a start when no turn is open, or what
\* belongs to the open turn, of which a finish is the last.
Grows(p, q) ==
    \/ DOMAIN q = DOMAIN p
    \/ ~HasOpenTurn(p) /\ DOMAIN q = 1..(Len(p) + 1) /\ q[Len(p) + 1].kind = "start"
    \/ /\ HasOpenTurn(p)
       /\ \A i \in DOMAIN q \ DOMAIN p :
            /\ q[i].kind \notin {"start", "user"}
            /\ q[i].kind = "finish" => \A k \in DOMAIN q : k <= i

\* Where no turn is open every start has been closed.
LEMMA StartsAreClosed ==
    ASSUME NEW p \in Seq(Entries), ~HasOpenTurn(p), NEW j \in DOMAIN p, p[j].kind = "start"
    PROVE  \E k \in DOMAIN p : j < k /\ p[k].kind = "finish"
<1> SUFFICES ASSUME \A k \in DOMAIN p : j < k => p[k].kind # "finish" PROVE FALSE
  OBVIOUS
<1> DEFINE S == {i \in DOMAIN p : j <= i /\ p[i].kind = "start"}
<1>1. DOMAIN p = 1..Len(p) /\ Len(p) \in Nat /\ S \in SUBSET (1..Len(p)) /\ j \in S
  OBVIOUS
<1>2. PICK s \in S : \A i \in S : i <= s
  BY <1>1, Greatest
<1>3. s \in DOMAIN p /\ p[s].kind = "start" /\ j <= s
  BY <1>2
<1>4. ASSUME NEW i \in DOMAIN p, i > s
      PROVE  p[i].kind \notin {"start", "finish"}
  <2>1. j < i /\ j <= i
    BY <1>1, <1>3, <1>4
  <2>2. p[i].kind # "start"
    BY <1>1, <1>2, <1>3, <1>4, <2>1
  <2> QED
    BY <2>1, <2>2
<1> QED
  BY <1>3, <1>4 DEF HasOpenTurn, IsOpenTurn, Holds

\* The one position behind a path.
LEMMA NextOnly ==
    ASSUME NEW n \in Nat, NEW i \in 1..(n + 1), i \notin 1..n
    PROVE  i = n + 1
OBVIOUS

\* What is added so keeps the brackets.
LEMMA BracketsKept ==
    ASSUME NEW p \in Seq(Entries), NEW q \in Seq(Entries), Brackets(p), Said(p, q) \/ Grows(p, q),
           DOMAIN p \subseteq DOMAIN q, \A i \in DOMAIN p : q[i].kind = p[i].kind
    PROVE  Brackets(q)
<1>1. /\ DOMAIN p = 1..Len(p) /\ DOMAIN q = 1..Len(q) /\ Len(p) \in Nat /\ Len(q) \in Nat
  OBVIOUS
<1>2. ASSUME NEW i \in DOMAIN q, q[i].kind = "start", NEW j \in DOMAIN q, j < i, q[j].kind = "start"
      PROVE  \E k \in DOMAIN q : j < k /\ k < i /\ q[k].kind = "finish"
  <2>1. CASE i \in DOMAIN p
    <3>1. j \in DOMAIN p
      BY <1>1, <1>2, <2>1
    <3>2. PICK k \in DOMAIN p : j < k /\ k < i /\ p[k].kind = "finish"
      BY <1>2, <2>1, <3>1 DEF Brackets
    <3> QED
      BY <3>2
  <2>2. CASE i \notin DOMAIN p
    <3>1. ~HasOpenTurn(p) /\ DOMAIN q = 1..(Len(p) + 1) /\ i = Len(p) + 1
      <4>1. i \in DOMAIN q \ DOMAIN p /\ q[i].kind # "user"
        BY <1>2, <2>2
      <4>2. ~HasOpenTurn(p) /\ DOMAIN q = 1..(Len(p) + 1)
        BY <1>2, <4>1 DEF Grows, Said
      <4>3. i \in 1..(Len(p) + 1) /\ i \notin 1..Len(p)
        BY <1>1, <4>1, <4>2
      <4> QED
        BY <1>1, <4>2, <4>3, NextOnly
    <3>2. j \in DOMAIN p /\ p[j].kind = "start"
      BY <1>1, <1>2, <3>1
    <3>3. PICK k \in DOMAIN p : j < k /\ p[k].kind = "finish"
      BY <3>1, <3>2, StartsAreClosed
    <3>4. k < i /\ k \in DOMAIN q /\ q[k].kind = "finish"
      BY <1>1, <3>1, <3>3
    <3> QED
      BY <3>3, <3>4
  <2> QED
    BY <2>1, <2>2
<1>3. ASSUME NEW i \in DOMAIN q, q[i].kind \notin {"start", "user"}
      PROVE  \E s \in DOMAIN q : /\ s < i /\ q[s].kind = "start"
                               /\ \A k \in DOMAIN q : s < k /\ k < i => q[k].kind # "finish"
  <2>1. CASE i \in DOMAIN p
    <3>1. PICK s \in DOMAIN p : /\ s < i /\ p[s].kind = "start"
                               /\ \A k \in DOMAIN p : s < k /\ k < i => p[k].kind # "finish"
      BY <1>3, <2>1 DEF Brackets
    <3>2. \A k \in DOMAIN q : k < i => k \in DOMAIN p
      BY <1>1, <2>1
    <3> QED
      BY <3>1, <3>2
  <2>2. CASE i \notin DOMAIN p
    <3>1. /\ HasOpenTurn(p)
          /\ \A k \in DOMAIN q \ DOMAIN p :
               q[k].kind # "start" /\ (q[k].kind = "finish" => \A l \in DOMAIN q : l <= k)
      <4>1. i \in DOMAIN q \ DOMAIN p /\ q[i].kind # "user" /\ q[i].kind # "start"
        BY <1>3, <2>2
      <4>2. ~(DOMAIN q = 1..(Len(p) + 1) /\ q[Len(p) + 1].kind = "start")
        <5> SUFFICES ASSUME DOMAIN q = 1..(Len(p) + 1), q[Len(p) + 1].kind = "start" PROVE FALSE
          OBVIOUS
        <5>1. i \in 1..(Len(p) + 1) /\ i \notin 1..Len(p)
          BY <1>1, <4>1
        <5>2. i = Len(p) + 1
          BY <1>1, <5>1, NextOnly
        <5> QED
          BY <4>1, <5>2
      <4> QED
        BY <4>1, <4>2 DEF Grows, Said
    <3>2. PICK s \in DOMAIN p : /\ p[s].kind = "start"
                               /\ \A k \in DOMAIN p : k > s => p[k].kind # "finish"
      BY <3>1 DEF HasOpenTurn, IsOpenTurn, Holds
    <3>3. s \in DOMAIN q /\ s < i /\ q[s].kind = "start"
      BY <1>1, <2>2, <3>2
    <3>4. ASSUME NEW k \in DOMAIN q, s < k, k < i
          PROVE  q[k].kind # "finish"
      <4>1. CASE k \in DOMAIN p
        BY <1>1, <3>2, <3>4, <4>1
      <4>2. CASE k \notin DOMAIN p
        BY <1>1, <3>1, <3>4, <4>2
      <4> QED
        BY <4>1, <4>2
    <3> QED
      BY <3>3, <3>4
  <2> QED
    BY <2>1, <2>2
<1> QED
  BY <1>2, <1>3 DEF Brackets

\* One entry of the open turn more.
LEMMA GrowsByOne ==
    ASSUME NEW p \in Seq(Entries), NEW q, HasOpenTurn(p), DOMAIN q = 1..(Len(p) + 1),
           q[Len(p) + 1].kind \notin {"start", "user"}
    PROVE  Grows(p, q)
<1>1. DOMAIN p = 1..Len(p) /\ Len(p) \in Nat
  OBVIOUS
<1>2. ASSUME NEW i \in DOMAIN q \ DOMAIN p
      PROVE  i = Len(p) + 1
  BY <1>1, <1>2, NextOnly
<1>3. \A k \in DOMAIN q : k <= Len(p) + 1
  BY <1>1
<1> QED
  BY <1>2, <1>3 DEF Grows

\* Every step but a post adds to the path what belongs there.
LEMMA StepGrows ==
    ASSUME IInv, [Next]_vars
    PROVE  Post \/ Grows(path, path')
<1>1. path \in Seq(Entries) /\ DOMAIN path = 1..Len(path) /\ Len(path) \in Nat
  BY DEF IInv, TypeOK
<1>2. ASSUME DOMAIN path' = DOMAIN path
      PROVE  Grows(path, path')
  BY <1>2 DEF Grows
<1>3. ASSUME ~HasOpenTurn(path), path' = Append(path, TurnStart)
      PROVE  Grows(path, path')
  <2>1. DOMAIN path' = 1..(Len(path) + 1) /\ path'[Len(path) + 1].kind = "start"
    BY <1>1, <1>3 DEF TurnStart
  <2> QED
    BY <1>3, <2>1 DEF Grows
<1>4. ASSUME HasOpenTurn(path), NEW e, e.kind \notin {"start", "user"}, path' = Append(path, e)
      PROVE  Grows(path, path')
  <2>1. DOMAIN path' = 1..(Len(path) + 1) /\ path'[Len(path) + 1] = e
    BY <1>1, <1>4
  <2> QED
    BY <1>1, <1>4, <2>1, GrowsByOne
<1>5. CASE Doors
  <2>1. CASE Post
    BY <2>1
  <2>2. ASSUME NEW o \in CancelOutcomes, Cancel(o)
        PROVE  Grows(path, path')
    BY <1>4, <2>2 DEF Cancel, CancelRequested
  <2>3. ASSUME NEW eager \in BOOLEAN, Begin(eager)
        PROVE  Grows(path, path')
    BY <1>2, <1>3, <2>3 DEF Begin
  <2>4. CASE Notify \/ Suspend \/ Crash
    BY <1>2, <2>4 DEF Notify, Suspend, Crash
  <2> QED
    BY <1>5, <2>1, <2>2, <2>3, <2>4 DEF Doors
<1>6. CASE Drive
  <2>1. CASE HasOpenTurn(path)
    BY <1>2, <1>6, <2>1 DEF Drive
  <2>2. CASE ~HasOpenTurn(path)
    <3>1. path' = [i \in DOMAIN Append(path, TurnStart) |->
                     IF i \in RunningExecutions(Append(path, TurnStart))
                     THEN Discard(Append(path, TurnStart)[i]) ELSE Append(path, TurnStart)[i]]
      BY <1>6, <2>2 DEF Drive
    <3>2. DOMAIN path' = 1..(Len(path) + 1)
      BY <1>1, <3>1
    <3>3. Append(path, TurnStart)[Len(path) + 1].kind = "start"
      BY <1>1 DEF TurnStart
    <3>4. Len(path) + 1 \notin RunningExecutions(Append(path, TurnStart))
      BY <3>3 DEF RunningExecutions, WithStatus, OpenTurnExecutions, OpenTurnEntries, Holds
    <3>5. path'[Len(path) + 1].kind = "start"
      BY <1>1, <3>1, <3>2, <3>3, <3>4
    <3> QED
      BY <2>2, <3>2, <3>5 DEF Grows
  <2> QED
    BY <2>1, <2>2
<1>7. CASE \/ Birth \/ Decide
           \/ \E i \in DOMAIN path : \/ PrepareFails(i) \/ PrepareCancelled(i) \/ StartBody(i)
                                   \/ BodyEnds(i) \/ BodyDefers(i) \/ BodyKilled(i)
  BY <1>2, <1>7 DEF Birth, Decide, PrepareFails, PrepareCancelled, StartBody, BodyEnds, BodyDefers,
                BodyKilled, Settle
<1>8. CASE \/ LoopTopCancelled \/ GateCancelled \/ HardLimit \/ CloseSettled
           \/ \E o \in {"errored", "timed_out"} : ModelFails(o)
  <2>1. HasOpenTurn(path)
    <3>1. pc \in {"loop", "top", "gate", "model", "llm", "settled"}
      BY <1>8 DEF LoopTopCancelled, GateCancelled, HardLimit, CloseSettled, ModelFails
    <3> QED
      BY <3>1 DEF IInv, OpenInv, Engaged, Suspended, Raced, Yielding, Running
  <2>2. ASSUME NEW e, path' = Append(SettleOpenExecutions(path), e), e.kind = "finish"
        PROVE  Grows(path, path')
    <3>1. DOMAIN path' = 1..(Len(path) + 1) /\ path'[Len(path) + 1] = e
      BY <1>1, <2>2, SettledCloseAdds
    <3> QED
      BY <1>1, <2>1, <2>2, <3>1, GrowsByOne
  <2>3. CASE WindDownNow
    BY <2>2, <2>3 DEF WindDownNow, WindDown, TurnFinish
  <2>4. CASE CloseSettled
    BY <1>4, <2>1, <2>4 DEF CloseSettled, EndDrive, TurnFinish
  <2>5. ASSUME NEW o, SettleThenClose(o)
        PROVE  Grows(path, path')
    <3>1. CASE path' = SettleOpenExecutions(path)
      BY <1>1, <1>2, <3>1, SettledCloseAdds
    <3>2. CASE path' = Append(path, TurnFinish(o))
      BY <1>4, <2>1, <3>2 DEF TurnFinish
    <3> QED
      BY <2>5, <3>1, <3>2 DEF SettleThenClose, EndDrive
  <2> QED
    BY <1>8, <2>3, <2>4, <2>5 DEF LoopTopCancelled, GateCancelled, HardLimit, ModelFails
<1>9. CASE \/ \E n \in 1..MaxCalls : ModelCalls(n)
           \/ ModelPauses
           \/ \E r \in {"stop", "non_answer"} : ModelAnswers(r)
  <2>1. pc = "llm" /\ HasOpenTurn(path)
    <3>1. pc = "llm"
      BY <1>9 DEF ModelCalls, ModelPauses, ModelAnswers
    <3> QED
      BY <3>1 DEF IInv, OpenInv, Engaged, Suspended, Raced
  <2>2. ASSUME NEW r \in StopReasons
        PROVE  /\ AssistantMessage(r, lastSeen) \in Entries
               /\ Response(r) = Append(path, AssistantMessage(r, lastSeen))
               /\ Response(r) \in Seq(Entries) /\ Len(Response(r)) = Len(path) + 1
               /\ DOMAIN Response(r) = 1..(Len(path) + 1)
               /\ Response(r)[Len(path) + 1].kind = "assistant"
    <3>1. AssistantMessage(r, lastSeen) \in Entries
      BY DEF IInv, TypeOK, Entries, AssistantMessage
    <3> QED
      BY <2>1, <3>1, ResponseFacts DEF Response
  <2>3. ASSUME NEW r \in StopReasons, NEW e, e.kind = "finish",
               \/ path' = Append(Response(r), e)
               \/ path' = Append(SettleOpenExecutions(Response(r)), e)
        PROVE  Grows(path, path')
    <3>1. Gentle(Response(r), path') /\ DOMAIN path' = 1..(Len(path) + 2) /\ path'[Len(path) + 2] = e
      <4>1. CASE path' = Append(Response(r), e)
        BY <1>1, <2>2, <4>1, AppendGentle
      <4>2. CASE path' = Append(SettleOpenExecutions(Response(r)), e)
        <5>1. /\ DOMAIN path' = 1..(Len(Response(r)) + 1)
              /\ path'[Len(Response(r)) + 1] = e
          BY <2>2, <4>2, SettledCloseAdds
        <5>2. Gentle(Response(r), path')
          BY <2>2, <4>2, SettledCloseGentle
        <5> QED
          BY <1>1, <2>2, <5>1, <5>2
      <4> QED
        BY <2>3, <4>1, <4>2
    <3>2. path'[Len(path) + 1].kind = "assistant"
      <4>1. path'[Len(path) + 1] = Response(r)[Len(path) + 1]
        BY <1>1, <2>2, <3>1 DEF Gentle, Kept, Holds
      <4> QED
        BY <2>2, <4>1
    <3>3. \A i \in DOMAIN path' \ DOMAIN path : i = Len(path) + 1 \/ i = Len(path) + 2
      BY <1>1, <3>1
    <3>4. \A k \in DOMAIN path' : k <= Len(path) + 2
      BY <1>1, <3>1
    <3> QED
      BY <2>1, <2>3, <3>1, <3>2, <3>3, <3>4 DEF Grows
  <2>4. ASSUME NEW r \in StopReasons, path' = Response(r)
        PROVE  Grows(path, path')
    <3>1. AssistantMessage(r, lastSeen).kind = "assistant"
      BY DEF AssistantMessage
    <3> QED
      BY <1>4, <2>1, <2>2, <2>4, <3>1
  <2>5. CASE \E n \in 1..MaxCalls : ModelCalls(n)
    <3>1. PICK n \in 1..MaxCalls : path' = Response("tool_use") \o [k \in 1..n |-> ReceivedExecution]
      BY <2>5 DEF ModelCalls
    <3>2. n \in Nat /\ "tool_use" \in StopReasons
      BY TurnAssumption DEF StopReasons
    <3>3. PICK a \in Entries : a.kind = "assistant" /\ path' = Called(path, a, n)
      BY <2>2, <3>1, <3>2 DEF AssistantMessage, Called
    <3>4. /\ DOMAIN path' = 1..(Len(path) + 1 + n) /\ path'[Len(path) + 1] = a
          /\ \A i \in DOMAIN path' : i > Len(path) + 1 => path'[i] = ReceivedExecution
      <4>1. IsCalled(path, a, n, Called(path, a, n))
        BY <1>1, <3>2, ResponseAdds
      <4>2. IsCalled(path, a, n, path')
        BY <3>3, <4>1
      <4> QED
        BY <4>2 DEF IsCalled
    <3>5. \A i \in DOMAIN path' \ DOMAIN path : path'[i].kind \in {"assistant", "tool"}
      BY <1>1, <3>2, <3>3, <3>4 DEF ReceivedExecution
    <3> QED
      BY <2>1, <3>5 DEF Grows
  <2>6. CASE ModelPauses
    BY <2>4, <2>6 DEF ModelPauses, StopReasons
  <2>7. CASE \E r \in {"stop", "non_answer"} : ModelAnswers(r)
    <3>1. PICK r \in {"stop", "non_answer"} : path' \in {WindDown(Response(r)), Response(r), Closed(r)}
      BY <2>7 DEF ModelAnswers
    <3>2. r \in StopReasons
      BY DEF StopReasons
    <3> QED
      BY <2>3, <2>4, <3>1, <3>2 DEF WindDown, Closed, TurnFinish
  <2> QED
    BY <1>9, <2>5, <2>6, <2>7
<1>10. CASE path' = path
  BY <1>2, <1>10
<1>11. CASE Engine
  BY <1>6, <1>8, <1>10, <1>11, MoveGentle DEF Engine
<1>12. CASE TokenWins
  BY <1>7, <1>10, <1>12, MoveGentle DEF TokenWins
<1>13. CASE Answers
  BY <1>7, <1>8, <1>9, <1>10, <1>13, MoveGentle DEF Answers
<1>14. CASE ApplicationRaises \/ UNCHANGED vars
  BY <1>10, <1>14, MoveGentle
<1> QED
  BY <1>5, <1>11, <1>12, <1>13, <1>14 DEF Next

\* Turn brackets never nest and nothing but a message lies outside them, whichever
\* of start(), the drive, cancel() and a crash wrote last.
THEOREM BracketsHold == Spec => []WellBracketed
<1>1. Init => Brackets(path)
  BY DEF Init, Brackets
<1>2. IInv /\ Brackets(path) /\ [Next]_vars => Brackets(path)'
  <2> SUFFICES ASSUME IInv, Brackets(path), [Next]_vars
               PROVE  Brackets(path')
    OBVIOUS
  <2>1. path \in Seq(Entries) /\ path' \in Seq(Entries)
    BY IInvNext DEF IInv, TypeOK
  <2>2. Post => Said(path, path')
    BY <2>1 DEF Post, UserMessage, Said
  <2> QED
    BY <2>1, <2>2, StepGrows, EntriesStay, BracketsKept
<1>3. Brackets(path) => WellBracketed
  BY DEF Brackets, WellBracketed, Holds
<1> QED
  BY <1>1, <1>2, <1>3, Inductive, PTL DEF Spec

=============================================================================
