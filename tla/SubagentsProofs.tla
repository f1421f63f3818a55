--------------------------- MODULE SubagentsProofs ---------------------------
(***************************************************************************)
(* What module Subagents keeps for every tree, every cap and every bound.  *)
(*                                                                         *)
(* The worker pool holds its cap: `_pump_slots` is the only door to a      *)
(* slot.  Nothing else about the queue or the tree is needed for that.     *)
(*                                                                         *)
(* The rest rests on one inductive invariant, TreeInv: who holds a slot    *)
(* and where a drive that holds none may be, which subagents a drive is    *)
(* about to spawn or to resolve, and whom the queue may name.  A step has  *)
(* one actor, so most of the proof is about that one (Own) and about the   *)
(* little a step may do to anybody else (Other).                           *)
(***************************************************************************)
EXTENDS Subagents, FiniteSetTheorems, SequenceTheorems, WellFoundedInduction, TLAPS

-----------------------------------------------------------------------------
(* The cap.                                                                *)

\* The cap, with the finiteness its cardinality needs.
Capped == IsFiniteSet(working) /\ WithinCap

\* Giving slots back keeps the cap.
LEMMA ReleaseKeepsCap ==
    ASSUME Capped, working' \subseteq working
    PROVE  Capped'
<1>1. IsFiniteSet(working') /\ Cardinality(working') <= Cardinality(working)
  BY FS_Subset DEF Capped
<1>2. Cardinality(working) \in Nat /\ Cardinality(working') \in Nat /\ MaxWorkers \in Nat
  BY <1>1, FS_CardinalityType, PoolAssumption DEF Capped
<1> QED  BY <1>1, <1>2 DEF Capped, WithinCap

\* A grant takes at most one slot, and none where none is needed.
LEMMA GrantTakesOne ==
    ASSUME NEW w, NEW queue, NEW rest, Grant(w, queue, rest)
    PROVE  \/ working' = working
           \/ NeedsSlot(w.conv) /\ working' = working \cup {w.conv}
<1>1. CASE GrantStart(w, queue, rest)  BY <1>1 DEF GrantStart
<1>2. CASE GrantFails(w, queue, rest)  BY <1>2 DEF GrantFails
<1>3. CASE GrantRedrive(w, queue, rest)  BY <1>3 DEF GrantRedrive
<1>4. CASE GrantResume(w, queue, rest)  BY <1>4 DEF GrantResume
<1> QED  BY <1>1, <1>2, <1>3, <1>4 DEF Grant

\* The pump looks at the cap before each grant.
LEMMA PumpKeepsCap == ASSUME Capped, Pump PROVE Capped'
<1>1. CASE working' = working
  BY <1>1, ReleaseKeepsCap
<1>2. CASE \E k : working' = working \cup {k}
  <2>1. PICK k : working' = working \cup {k}
    BY <1>2
  <2>2. IsFiniteSet(working') /\ Cardinality(working') <= Cardinality(working) + 1
    <3>1. IsFiniteSet(working) /\ Cardinality(working) \in Nat
      BY FS_CardinalityType DEF Capped
    <3>2. /\ IsFiniteSet(working \cup {k})
          /\ \/ Cardinality(working \cup {k}) = Cardinality(working)
             \/ Cardinality(working \cup {k}) = Cardinality(working) + 1
      BY <3>1, FS_AddElement
    <3> QED  BY <2>1, <3>1, <3>2
  <2>3. Cardinality(working) < MaxWorkers
    BY DEF Pump, PumpReady
  <2>4. Cardinality(working) \in Nat /\ Cardinality(working') \in Nat /\ MaxWorkers \in Nat
    BY <2>2, FS_CardinalityType, PoolAssumption DEF Capped
  <2> QED  BY <2>2, <2>3, <2>4 DEF Capped, WithinCap
<1>3. working' = working \/ \E k : working' = working \cup {k}
  <2>1. CASE StillWants(Head(waiters))
    BY <2>1, GrantTakesOne DEF Pump
  <2>2. CASE ~StillWants(Head(waiters))
    BY <2>2 DEF Pump
  <2> QED  BY <2>1, <2>2
<1> QED  BY <1>1, <1>2, <1>3

\* A request that needs no slot is granted at once and takes none.
LEMMA RequestKeepsCap == ASSUME Capped, RequestSlot PROVE Capped'
<1> DEFINE request == Head(todo)
           w == Waiter(request.conv, request.op)
<1>1. CASE NeedsSlot(request.conv)
  BY <1>1, ReleaseKeepsCap DEF RequestSlot
<1>2. CASE ~NeedsSlot(request.conv)
  <2>1. Grant(w, waiters, Tail(todo))
    BY <1>2 DEF RequestSlot
  <2>2. w.conv = request.conv
    BY DEF Waiter
  <2>3. working' = working
    BY <1>2, <2>1, <2>2, GrantTakesOne
  <2> QED  BY <2>3, ReleaseKeepsCap
<1> QED  BY <1>1, <1>2

\* The engine of a drive only ever gives slots back.
LEMMA StepKeepsCap ==
    ASSUME Capped, NEW c \in Conversations, Step(c)
    PROVE  Capped'
<1>1. CASE TakeOff(c)  BY <1>1, ReleaseKeepsCap DEF TakeOff
<1>2. CASE TopCancelled(c)  BY <1>2, ReleaseKeepsCap DEF TopCancelled, WindDownTree, Settling
<1>3. CASE TopAdmissionError(c)  BY <1>3, ReleaseKeepsCap DEF TopAdmissionError
<1>4. CASE Top(c)  BY <1>4, ReleaseKeepsCap DEF Top
<1>5. CASE Again(c)  BY <1>5, ReleaseKeepsCap DEF Again
<1>6. CASE ToolsLost(c)  BY <1>6, ReleaseKeepsCap DEF ToolsLost
<1>7. CASE Reasked(c)  BY <1>7, ReleaseKeepsCap DEF Reasked
<1>8. CASE Dispatched(c)  BY <1>8, ReleaseKeepsCap DEF Dispatched
<1>9. CASE Spawn(c)  BY <1>9, ReleaseKeepsCap DEF Spawn
<1>10. CASE StopChildren(c)  BY <1>10, ReleaseKeepsCap DEF StopChildren
<1>11. CASE Flush(c)  BY <1>11, ReleaseKeepsCap DEF Flush
<1>12. CASE FlushYielded(c)  BY <1>12, ReleaseKeepsCap DEF FlushYielded
<1>13. CASE Resolve(c)  BY <1>13, ReleaseKeepsCap DEF Resolve
<1>14. CASE ResolvedAll(c)  BY <1>14, ReleaseKeepsCap DEF ResolvedAll
<1>15. CASE Resolved(c)  BY <1>15, ReleaseKeepsCap DEF Resolved
<1>16. CASE ResolveLost(c)  BY <1>16, ReleaseKeepsCap DEF ResolveLost
<1>17. CASE GateCancelled(c)  BY <1>17, ReleaseKeepsCap DEF GateCancelled, WindDownTree, Settling
<1>18. CASE Gated(c)  BY <1>18, ReleaseKeepsCap DEF Gated
<1>19. CASE Announced(c)  BY <1>19, ReleaseKeepsCap DEF Announced
<1>20. CASE Ungated(c)  BY <1>20, ReleaseKeepsCap DEF Ungated
<1>21. CASE Park(c)  BY <1>21, ReleaseKeepsCap DEF Park
<1>22. CASE Woken(c)  BY <1>22, ReleaseKeepsCap DEF Woken
<1>23. CASE AcquireLost(c)  BY <1>23, ReleaseKeepsCap DEF AcquireLost
<1>24. CASE HardLimit(c)  BY <1>24, ReleaseKeepsCap DEF HardLimit, CascadeAndSettle, CloseAlone, Settling
<1>25. CASE ModelLost(c)  BY <1>25, ReleaseKeepsCap DEF ModelLost
<1>26. CASE ModelCalls(c)  BY <1>26, ReleaseKeepsCap DEF ModelCalls
<1>27. CASE ModelAnswers(c)  BY <1>27, ReleaseKeepsCap DEF ModelAnswers, Settling
<1>28. CASE ModelFails(c)  BY <1>28, ReleaseKeepsCap DEF ModelFails, WindDownTree, CloseAlone, CascadeAndSettle, Settling
<1>29. CASE SettleAwaits(c)  BY <1>29, ReleaseKeepsCap DEF SettleAwaits
<1>30. CASE ChildSettled(c)  BY <1>30, ReleaseKeepsCap DEF ChildSettled
<1>31. CASE SettleEnds(c)  BY <1>31, ReleaseKeepsCap DEF SettleEnds
<1>32. CASE SettleYielded(c)  BY <1>32, ReleaseKeepsCap DEF SettleYielded
<1>33. CASE CloseSettled(c)  BY <1>33, ReleaseKeepsCap DEF CloseSettled, CloseAlone
<1>34. CASE Ending(c)  BY <1>34, ReleaseKeepsCap DEF Ending
<1>35. CASE FanIn(c)  BY <1>35, ReleaseKeepsCap DEF FanIn, EndRun
<1>36. CASE RunRaises(c)  BY <1>36, ReleaseKeepsCap DEF RunRaises, EndRun
<1> QED
  BY <1>1, <1>2, <1>3, <1>4, <1>5, <1>6, <1>7, <1>8, <1>9, <1>10, <1>11, <1>12,
     <1>13, <1>14, <1>15, <1>16, <1>17, <1>18, <1>19, <1>20, <1>21, <1>22, <1>23, <1>24,
     <1>25, <1>26, <1>27, <1>28, <1>29, <1>30, <1>31, <1>32, <1>33, <1>34, <1>35, <1>36 DEF Step

\* Worker pool: at most subagents_max_workers subagents work at any time,
\* whatever the tree, the restarts, the cancels, the failures and the crashes.
THEOREM CapHolds == Spec => []WithinCap
<1>1. Init => Capped
  <2> SUFFICES ASSUME Init PROVE Capped
    OBVIOUS
  <2>1. IsFiniteSet(working) /\ Cardinality(working) = 0
    BY FS_EmptySet DEF Init
  <2> QED  BY <2>1, PoolAssumption DEF Capped, WithinCap
<1>2. Capped /\ [Next]_vars => Capped'
  <2> SUFFICES ASSUME Capped, [Next]_vars PROVE Capped'
    OBVIOUS
  <2>1. CASE Pump  BY <2>1, PumpKeepsCap
  <2>2. CASE RequestSlot  BY <2>2, RequestKeepsCap
  <2>3. CASE EnsureDriven  BY <2>3, ReleaseKeepsCap DEF EnsureDriven
  <2>4. CASE StartRun  BY <2>4, ReleaseKeepsCap DEF StartRun
  <2>5. CASE Crash  BY <2>5, ReleaseKeepsCap DEF Crash
  <2>6. ASSUME NEW c \in Conversations, Cancel(c) PROVE Capped'
    BY <2>6, ReleaseKeepsCap DEF Cancel
  <2>7. ASSUME NEW c \in Conversations, Answer(c) PROVE Capped'
    BY <2>7, ReleaseKeepsCap DEF Answer
  <2>8. ASSUME NEW c \in Conversations, ToolsRaise(c) PROVE Capped'
    BY <2>8, ReleaseKeepsCap DEF ToolsRaise
  <2>9. ASSUME NEW c \in Conversations, Step(c) PROVE Capped'
    BY <2>9, StepKeepsCap
  <2>10. CASE UNCHANGED vars  BY <2>10, ReleaseKeepsCap DEF vars
  <2> QED
    BY <2>1, <2>2, <2>3, <2>4, <2>5, <2>6, <2>7, <2>8, <2>9, <2>10 DEF Next, Pool
<1>3. Capped => WithinCap
  BY DEF Capped
<1> QED  BY <1>1, <1>2, <1>3, PTL DEF Spec

-----------------------------------------------------------------------------
(* The tree and the operators on it.                                       *)

\* A subagent's parent is a conversation numbered before it.
LEMMA Numbered ==
    /\ Len(Parent) \in Nat /\ Subagents = 1..Len(Parent) /\ Conversations = 0..Len(Parent)
    /\ \A k \in Subagents : Parent[k] \in Conversations /\ Parent[k] < k /\ k \in Nat /\ k # Main
    /\ \A c \in Conversations : Kids(c) \subseteq Subagents /\ c \notin Kids(c)
<1>1. Len(Parent) \in Nat /\ DOMAIN Parent = 1..Len(Parent) /\ Parent \in [1..Len(Parent) -> Nat]
  BY LenProperties, TreeAssumption
<1>2. Subagents = 1..Len(Parent)
  BY <1>1 DEF Subagents
<1>3. Conversations = 0..Len(Parent)
  BY <1>1, <1>2 DEF Conversations, Main
<1>4. \A k \in Subagents : Parent[k] \in Conversations /\ Parent[k] < k /\ k \in Nat /\ k # Main
  BY <1>1, <1>2, <1>3, TreeAssumption DEF Main
<1>5. \A c \in Conversations : Kids(c) \subseteq Subagents /\ c \notin Kids(c)
  BY <1>4 DEF Kids
<1> QED  BY <1>1, <1>2, <1>3, <1>4, <1>5

\* The least of some numbers is one of them.
LEMMA FirstIsLeast ==
    ASSUME NEW S \in SUBSET Nat, S # {}
    PROVE  First(S) \in S /\ \A j \in S : First(S) <= j
<1> DEFINE R == OpToRel(<, Nat)
<1>1. PICK k \in S : \A j \in S : ~(<<j, k>> \in R)
  <2>1. IsWellFoundedOn(R, Nat)
    BY NatLessThanWellFounded
  <2> QED  BY <2>1, WFMin
<1>2. \A j \in S : ~(j < k)
  BY <1>1, Zenon DEF OpToRel
<1>3. \A j \in S : k <= j
  BY <1>2
<1> QED  BY <1>3 DEF First

\* A finite set of numbers is listed in order: the i-th has i - 1 below it.
LEMMA Ranked ==
    ASSUME NEW S \in SUBSET Nat, IsFiniteSet(S)
    PROVE  /\ Cardinality(S) \in Nat
           /\ \A i \in 1..Cardinality(S) :
                 InOrder(S)[i] \in S /\ Cardinality({j \in S : j < InOrder(S)[i]}) = i - 1
           /\ \A i, j \in 1..Cardinality(S) : InOrder(S)[i] = InOrder(S)[j] => i = j
<1> DEFINE Below(k) == {j \in S : j < k}
           n == Cardinality(S)
           ranks == 0..(n - 1)
           rank == [k \in S |-> Cardinality(Below(k))]
<1>1. n \in Nat
  BY FS_CardinalityType
<1>2. \A k \in S : IsFiniteSet(Below(k)) /\ Cardinality(Below(k)) \in ranks
  <2> TAKE k \in S
  <2>1. IsFiniteSet(Below(k)) /\ Cardinality(Below(k)) <= n /\ (n = Cardinality(Below(k)) => S = Below(k))
    BY FS_Subset
  <2>2. Cardinality(Below(k)) \in Nat
    BY <2>1, FS_CardinalityType
  <2>3. k \notin Below(k) /\ k \in S
    BY SMT
  <2> QED  BY <1>1, <2>1, <2>2, <2>3
<1>3. \A j, k \in S : j < k => Cardinality(Below(j)) < Cardinality(Below(k))
  <2> TAKE j, k \in S
  <2> HAVE j < k
  <2>1. Below(j) \subseteq Below(k) /\ j \in Below(k) /\ j \notin Below(j)
    <3>1. \A x, y, z \in Nat : (x < y /\ y < z => x < z) /\ ~(x < x)
      OBVIOUS
    <3>2. \A x \in S : x \in Nat
      OBVIOUS
    <3> QED  BY <3>1, <3>2
  <2>2. Cardinality(Below(j)) <= Cardinality(Below(k)) /\ Cardinality(Below(j)) # Cardinality(Below(k))
    BY <1>2, <2>1, FS_Subset
  <2>3. Cardinality(Below(j)) \in Nat /\ Cardinality(Below(k)) \in Nat
    BY <1>2, FS_CardinalityType
  <2> QED  BY <2>2, <2>3
<1>4. \A j, k \in S : Cardinality(Below(j)) = Cardinality(Below(k)) => j = k
  <2> TAKE j, k \in S
  <2> HAVE Cardinality(Below(j)) = Cardinality(Below(k))
  <2>1. Cardinality(Below(j)) \in Nat /\ Cardinality(Below(k)) \in Nat
    BY <1>2, FS_CardinalityType
  <2>2. ~(j < k) /\ ~(k < j)
    BY <1>3, <2>1
  <2> QED  BY <2>2
<1>5. rank \in Injection(S, ranks)
  <2>1. rank \in [S -> ranks]
    BY <1>2
  <2>2. \A j, k \in S : rank[j] = rank[k] => j = k
    BY <1>4
  <2> QED  BY <2>1, <2>2 DEF Injection, IsInjective
<1>6. IsFiniteSet(ranks) /\ Cardinality(ranks) = n
  <2>1. IsFiniteSet(ranks) /\ Cardinality(ranks) = IF 0 > n - 1 THEN 0 ELSE (n - 1) - 0 + 1
    BY <1>1, FS_Interval
  <2> QED  BY <1>1, <2>1
<1>7. rank \in Surjection(S, ranks)
  BY <1>5, <1>6, FS_Injection
<1>8. \A i \in 1..n : \E k \in S : Cardinality(Below(k)) = i - 1
  <2> TAKE i \in 1..n
  <2>1. i - 1 \in ranks
    BY <1>1
  <2> QED  BY <1>7, <2>1 DEF Surjection
<1>9. \A i \in 1..n : InOrder(S)[i] \in S /\ Cardinality(Below(InOrder(S)[i])) = i - 1
  BY <1>8 DEF InOrder
<1>10. \A i, j \in 1..n : InOrder(S)[i] = InOrder(S)[j] => i = j
  <2> TAKE i, j \in 1..n
  <2> HAVE InOrder(S)[i] = InOrder(S)[j]
  <2>1. i - 1 = j - 1
    BY <1>9
  <2> QED  BY <1>1, <2>1
<1> QED  BY <1>1, <1>9, <1>10

\* Any set of subagents is finite.
LEMMA FewSubagents ==
    ASSUME NEW S, S \subseteq Subagents
    PROVE  S \in SUBSET Nat /\ IsFiniteSet(S)
<1>1. Len(Parent) \in Nat /\ Subagents = 1..Len(Parent)
  BY Numbered
<1>2. IsFiniteSet(Subagents)
  BY <1>1, FS_Interval
<1>3. S \in SUBSET Subagents
  BY Zenon
<1>4. IsFiniteSet(S)
  BY <1>2, <1>3, FS_Subset
<1> QED  BY <1>1, <1>4

\* What `_derive_status` says of c when `known` is what it says of c's children.
Derived(s, known, c) ==
    LET e == s[c]
        children == Unresolved(s, c)
    IN  IF e.turn = "seeded" THEN "busy"
        ELSE IF e.turn # "open" THEN "idle"
        ELSE IF e.cancel THEN "cancelling"
        ELSE IF e.calls \/ \E k \in children : known[k] # "blocked" THEN "busy"
        ELSE IF e.ask # "none" THEN "blocked"
        ELSE IF children = {} \/ e.fresh THEN "busy"
        ELSE "blocked"

Statuses == {"busy", "idle", "cancelling", "blocked"}

\* The recursion of `_derive_status` is well founded: children are numbered
\* after their parent.
LEMMA StatusUnfolds ==
    ASSUME NEW s, NEW c \in Conversations
    PROVE  Status(s)[c] = Derived(s, Status(s), c)
<1> DEFINE N == Len(Parent)
           Right(f, n) == \A x \in Conversations : x >= n => f[x] = Derived(s, f, x)
           Good == {n \in 0..(N + 1) : \E f \in [Conversations -> Statuses] : Right(f, n)}
           D(f) == [x \in Conversations |-> Derived(s, f, x)]
<1> HIDE DEF Right
<1>1. N \in Nat /\ Conversations = 0..N
  BY Numbered
<1>2. \A f, x : Derived(s, f, x) \in Statuses
  BY DEF Derived, Statuses
<1>3. \A f, g : \A x \in Conversations :
         (\A k \in Unresolved(s, x) : f[k] = g[k]) => Derived(s, f, x) = Derived(s, g, x)
  BY DEF Derived
<1>4. \A x \in Conversations : \A k \in Unresolved(s, x) : k \in Conversations /\ k > x
  BY Numbered DEF Unresolved, Kids, Conversations
<1>5. N + 1 \in Good
  <2>1. [x \in Conversations |-> "idle"] \in [Conversations -> Statuses]
    BY DEF Statuses
  <2>2. \A f : Right(f, N + 1)
    BY <1>1 DEF Right
  <2>3. N + 1 \in 0..(N + 1)
    BY <1>1
  <2>4. \E f \in [Conversations -> Statuses] : Right(f, N + 1)
    BY <2>1, <2>2
  <2> QED  BY <2>3, <2>4
<1>6. \A n \in Good : n # 0 => n - 1 \in Good
  <2> TAKE n \in Good
  <2> HAVE n # 0
  <2>1. PICK f \in [Conversations -> Statuses] : Right(f, n)
    OBVIOUS
  <2> DEFINE m == n - 1
             g == [f EXCEPT ![m] = Derived(s, f, m)]
  <2>2. n \in Nat /\ m \in Nat /\ m \in 0..N
    BY <1>1
  <2>3. g \in [Conversations -> Statuses]
    BY <1>1, <1>2
  <2>4. \A x \in Conversations : x >= m => g[x] = Derived(s, f, x)
    BY <1>1, <2>1, <2>2 DEF Right
  <2>5. \A x \in Conversations : x >= m => Derived(s, g, x) = Derived(s, f, x)
    <3> TAKE x \in Conversations
    <3> HAVE x >= m
    <3>1. \A k \in Unresolved(s, x) : k # m /\ k \in Conversations
      BY <1>1, <1>4, <2>2
    <3>2. \A k \in Unresolved(s, x) : g[k] = f[k]
      BY <3>1
    <3> QED  BY <1>3, <3>2
  <2>6. Right(g, m)
    BY <2>4, <2>5 DEF Right
  <2>7. m \in 0..(N + 1)
    BY <1>1, <2>2
  <2> QED  BY <2>3, <2>6, <2>7
<1>7. 0 \in Good
  <2>1. Good \in SUBSET Nat
    OBVIOUS
  <2>2. First(Good) \in Good /\ \A j \in Good : First(Good) <= j
    BY <1>5, <2>1, FirstIsLeast
  <2> DEFINE least == First(Good)
  <2> HIDE DEF Good, least
  <2>3. least \in Nat
    BY <2>1, <2>2 DEF least
  <2>4. least # 0 => ~(least <= least - 1)
    BY <2>3
  <2>5. least = 0
    BY <1>6, <2>2, <2>4 DEF least
  <2> QED  BY <2>2, <2>5 DEF least
<1>8. PICK f \in [Conversations -> Statuses] : Right(f, 0)
  BY <1>7
<1>9. f = D(f)
  <2>1. \A x \in Conversations : f[x] = Derived(s, f, x)
    BY <1>1, <1>8 DEF Right
  <2> QED  BY <2>1
<1>10. Status(s) = CHOOSE status : status = D(status)
  BY DEF Status, Derived
<1>11. Status(s) = D(Status(s))
  BY <1>9, <1>10
<1> QED  BY <1>11

\* A conversation without an open or a seeded turn derives idle.
LEMMA OverIsIdle ==
    ASSUME NEW s, NEW c \in Conversations, s[c].turn \notin {"seeded", "open"}
    PROVE  Status(s)[c] = "idle"
BY StatusUnfolds DEF Derived

-----------------------------------------------------------------------------
(* The invariant.                                                          *)

WaiterRecords == [conv : Subagents, kind : {"start", "redrive", "resume"}, old : BOOLEAN]

SlotRequestRecords == [op : {"start", "redrive", "resume"}, conv : Subagents]

Requests == SlotRequestRecords \cup [op : {"drive"}, conv : Conversations]

Counters == [{"runs", "cancels", "gates", "failures", "crashes"} -> Nat]

TreeTypes ==
    /\ session \in [Conversations -> Entries]
    /\ drive \in [Conversations -> Drives]
    /\ working \subseteq Subagents
    /\ failed \subseteq Subagents
    /\ waiters \in Seq(WaiterRecords)
    /\ todo \in Seq(Requests)
    /\ used \in Counters

\* Where a drive that competes for slots holds one, and where it holds none.
Holders == {"created", "tools", "spawn", "stop", "flush", "flushed", "resolve", "resolving",
            "gate", "announced", "park", "limit", "model"}

Slotless == {"waiting", "acquiring", "settle", "settling", "settled", "closing"}

\* Between its close and its end a drive is past its turn.
InTurn == Looping \ {"ending"}

\* Where the children being resolved matter.
Resolvers == {"flushed", "resolve", "resolving"}

\* A drive is registered exactly while it is somewhere; a subagent that does
\* not exist yet has none, and one that does has a turn.
Placed(c, e, d) ==
    /\ d.runs # "none" <=> d.pc # "off"
    /\ c = Main => d.handle = "none"
    /\ c # Main /\ e.link = "unborn" => d.handle = "none" /\ d.pc = "off"
    /\ c = Main \/ e.link # "unborn" => e.turn # "none"
    /\ d.pc = "resolving" => d.pending # {}
    /\ d.pc = "model" => e.steps < HardMaxSteps
    /\ d.pc = "acquiring" => NeedsSlot(c)

\* Who holds a slot: the locations that work do, those that wait do not, and a
\* loop that goes on without one goes on to wind down.
Slotted(c, e, d, has) ==
    /\ has => c # Main /\ d.pc # "off" /\ d.pc \notin Slotless
    /\ NeedsSlot(c) =>
          /\ d.pc \in Holders => has
          /\ d.pc \in {"top", "again"} => has \/ e.cancel
          /\ d.pc = "created" => e.turn \in {"seeded", "open"}
          /\ d.token => e.cancel \/ e.turn \in ClosedTurns
          /\ d.pc \in InTurn => e.turn = "open"

Fine(c, e, d, has) == Placed(c, e, d) /\ Slotted(c, e, d, has)

FineInv == \A c \in Conversations : Fine(c, session[c], drive[c], c \in working)

\* A subagent to be spawned does not exist yet, and one being resolved has an open link.
FamilyInv ==
    \A c \in Conversations :
        /\ session[c].spawns \subseteq {k \in Kids(c) : session[k].link = "unborn"}
        /\ drive[c].pc \in Resolvers => drive[c].pending \subseteq Unresolved(session, c)

\* Slots are asked for subagents that exist.  A request to resume is made once,
\* by a drive that waits for it, and handled before anything else happens.
QueueInv ==
    /\ \A i \in DOMAIN waiters :
          /\ session[waiters[i].conv].link # "unborn"
          /\ waiters[i].kind = "resume" => drive[waiters[i].conv].pc = "acquiring"
    /\ \A i, j \in DOMAIN waiters :
          /\ waiters[i].kind = "resume" /\ waiters[j].kind = "resume"
          /\ waiters[i].conv = waiters[j].conv
          => i = j
    /\ \A i \in DOMAIN todo :
          /\ todo[i].op # "drive" => session[todo[i].conv].link # "unborn"
          /\ todo[i].op = "resume" =>
                /\ Len(todo) = 1 /\ ~PumpReady
                /\ drive[todo[i].conv].pc = "acquiring"
                /\ \A j \in DOMAIN waiters :
                      waiters[j].kind = "resume" => waiters[j].conv # todo[i].conv

TreeInv == TreeTypes /\ FineInv /\ FamilyInv /\ QueueInv

-----------------------------------------------------------------------------
(* What a step keeps.                                                      *)

\* What the actor of a step, c, owes the invariant.
Own(c) ==
    /\ session'[c].link = session[c].link
    /\ session'[c].spawns \subseteq {k \in Kids(c) : session'[k].link = "unborn"}
    /\ drive[c].pc # "acquiring"
    /\ drive'[c].pc \in Resolvers => drive'[c].pending \subseteq Unresolved(session', c)
    /\ Fine(c, session'[c], drive'[c], c \in working')

\* What a step of c does to another conversation k: only the link of a child
\* of c changes, and only before it is resolved.
Other(c, k) ==
    /\ \/ session'[k].link = session[k].link
       \/ k \in Kids(c) /\ session[k].link \in {"unborn", "open"} /\ session'[k].link # "unborn"
    /\ session'[k].spawns \subseteq session[k].spawns
    /\ drive'[k].pc = drive[k].pc
    /\ drive[k].pc \in Resolvers => drive'[k].pending = drive[k].pending
    /\ Fine(k, session'[k], drive'[k], k \in working')

\* The queue loses nothing but perhaps its head.
QueueMoves ==
    \E n \in {0, 1} :
        /\ Len(waiters') <= Len(waiters) - n
        /\ \A i \in DOMAIN waiters' :
              waiters'[i].conv = waiters[i + n].conv /\ waiters'[i].kind = waiters[i + n].kind

\* What a step leaves to do is about subagents that exist, and resumes nobody.
TodoIsFresh ==
    \A i \in DOMAIN todo' :
        /\ todo'[i].op # "resume"
        /\ todo'[i].op # "drive" => session'[todo'[i].conv].link # "unborn"

\* `LinksResolveOnce`, of one step.
LinksKept ==
    \A k \in Subagents : session[k].link \in {"result", "cancelled"} =>
        session'[k].link = session[k].link

\* No step makes a subagent that exists one that does not.
LEMMA BornStayBorn ==
    ASSUME NEW c \in Conversations, session'[c].link = session[c].link,
           \A k \in Conversations \ {c} : Other(c, k)
    PROVE  /\ \A k \in Subagents : session[k].link # "unborn" => session'[k].link # "unborn"
           /\ LinksKept
<1>1. Subagents \subseteq Conversations
  BY DEF Conversations
<1> QED  BY <1>1 DEF Other, LinksKept

\* The families of the others are as they were.
LEMMA FramedFamily ==
    ASSUME TreeInv, NEW c \in Conversations, Own(c), \A k \in Conversations \ {c} : Other(c, k)
    PROVE  FamilyInv'
<1> SUFFICES ASSUME NEW b \in Conversations
             PROVE  /\ session'[b].spawns \subseteq {k \in Kids(b) : session'[k].link = "unborn"}
                    /\ drive'[b].pc \in Resolvers => drive'[b].pending \subseteq Unresolved(session', b)
  BY DEF FamilyInv
<1>1. CASE b = c
  BY <1>1 DEF Own
<1>2. CASE b # c
  <2>1. Other(c, b)
    BY <1>2
  <2>2. \A k \in Kids(b) : session'[k].link = session[k].link
    <3> TAKE k \in Kids(b)
    <3>1. k \in Conversations /\ k \notin Kids(c)
      BY <1>2, Numbered DEF Kids, Conversations
    <3>2. CASE k = c
      BY <3>2 DEF Own
    <3>3. CASE k # c
      BY <3>1, <3>3 DEF Other
    <3> QED  BY <3>2, <3>3
  <2>3. session[b].spawns \subseteq {k \in Kids(b) : session[k].link = "unborn"}
    BY DEF TreeInv, FamilyInv
  <2>4. Unresolved(session', b) = Unresolved(session, b)
    BY <2>2 DEF Unresolved
  <2>5. drive[b].pc \in Resolvers => drive[b].pending \subseteq Unresolved(session, b)
    BY DEF TreeInv, FamilyInv
  <2> QED  BY <2>1, <2>2, <2>3, <2>4, <2>5 DEF Other
<1> QED  BY <1>1, <1>2

\* The members of the queue and of what is left to do.
LEMMA QueueTypes ==
    ASSUME TreeTypes
    PROVE  /\ Len(waiters) \in Nat /\ DOMAIN waiters = 1..Len(waiters)
           /\ \A i \in DOMAIN waiters : waiters[i] \in WaiterRecords
           /\ Len(todo) \in Nat /\ DOMAIN todo = 1..Len(todo)
           /\ \A i \in DOMAIN todo : todo[i] \in Requests
<1> DEFINE W == WaiterRecords
           R == Requests
<1> HIDE DEF W, R
<1>1. waiters \in Seq(W) /\ todo \in Seq(R)
  BY DEF TreeTypes, W, R
<1>2. /\ Len(waiters) \in Nat /\ DOMAIN waiters = 1..Len(waiters)
      /\ Len(todo) \in Nat /\ DOMAIN todo = 1..Len(todo)
  BY <1>1, LenProperties
<1>3. \A i \in DOMAIN waiters : waiters[i] \in W
  BY <1>1, <1>2, ElementOfSeq
<1>4. \A i \in DOMAIN todo : todo[i] \in R
  BY <1>1, <1>2, ElementOfSeq
<1> QED  BY <1>2, <1>3, <1>4 DEF W, R

\* The queue is as it was, less its head, and those it is about are where they were.
LEMMA MovedQueue ==
    ASSUME TreeInv, TreeTypes', QueueMoves, TodoIsFresh,
           \A k \in Subagents : session[k].link # "unborn" => session'[k].link # "unborn",
           \A k \in Subagents : drive[k].pc = "acquiring" => drive'[k].pc = "acquiring"
    PROVE  QueueInv'
<1>1. PICK n \in {0, 1} :
        /\ Len(waiters') <= Len(waiters) - n
        /\ \A i \in DOMAIN waiters' :
              waiters'[i].conv = waiters[i + n].conv /\ waiters'[i].kind = waiters[i + n].kind
  BY DEF QueueMoves
<1>2. \A i \in DOMAIN waiters' : i + n \in DOMAIN waiters /\ i \in Nat
  <2>1. /\ Len(waiters) \in Nat /\ DOMAIN waiters = 1..Len(waiters)
        /\ Len(waiters') \in Nat /\ DOMAIN waiters' = 1..Len(waiters')
    BY LenProperties DEF TreeInv, TreeTypes
  <2> QED  BY <1>1, <2>1
<1>3. \A i \in DOMAIN waiters : waiters[i].conv \in Subagents
  BY QueueTypes DEF TreeInv, WaiterRecords
<1>4. \A i \in DOMAIN waiters' :
        /\ session'[waiters'[i].conv].link # "unborn"
        /\ waiters'[i].kind = "resume" => drive'[waiters'[i].conv].pc = "acquiring"
  <2> TAKE i \in DOMAIN waiters'
  <2> DEFINE k == waiters[i + n].conv
  <2>1. waiters'[i].conv = k /\ waiters'[i].kind = waiters[i + n].kind /\ i + n \in DOMAIN waiters
    BY <1>1, <1>2
  <2>2. session[k].link # "unborn" /\ (waiters[i + n].kind = "resume" => drive[k].pc = "acquiring")
    BY <2>1 DEF TreeInv, QueueInv
  <2>3. k \in Subagents
    BY <1>3, <2>1
  <2> QED  BY <2>1, <2>2, <2>3
<1>5. \A i, j \in DOMAIN waiters' :
          /\ waiters'[i].kind = "resume" /\ waiters'[j].kind = "resume"
          /\ waiters'[i].conv = waiters'[j].conv
          => i = j
  <2> TAKE i, j \in DOMAIN waiters'
  <2> HAVE waiters'[i].kind = "resume" /\ waiters'[j].kind = "resume" /\ waiters'[i].conv = waiters'[j].conv
  <2>1. i + n = j + n
    BY <1>1, <1>2 DEF TreeInv, QueueInv
  <2> QED  BY <1>2, <2>1
<1>6. \A i \in DOMAIN todo' :
        /\ todo'[i].op # "drive" => session'[todo'[i].conv].link # "unborn"
        /\ todo'[i].op # "resume"
  BY DEF TodoIsFresh
<1> QED  BY <1>4, <1>5, <1>6 DEF QueueInv

\* Nor do the actor and the others disturb it.
LEMMA FramedQueue ==
    ASSUME TreeInv, TreeTypes', NEW c \in Conversations, Own(c),
           \A k \in Conversations \ {c} : Other(c, k), QueueMoves, TodoIsFresh
    PROVE  QueueInv'
<1>1. \A k \in Subagents : session[k].link # "unborn" => session'[k].link # "unborn"
  BY BornStayBorn DEF Own
<1>2. \A k \in Subagents : drive[k].pc = "acquiring" => drive'[k].pc = "acquiring"
  BY DEF Own, Other, Conversations
<1> QED  BY <1>1, <1>2, MovedQueue

\* A step keeps the invariant when its actor does and leaves the others what they need.
LEMMA Framed ==
    ASSUME TreeInv, TreeTypes', NEW c \in Conversations, Own(c),
           \A k \in Conversations \ {c} : Other(c, k), QueueMoves, TodoIsFresh
    PROVE  TreeInv' /\ LinksKept
<1>1. FineInv'
  BY DEF FineInv, Own, Other
<1>2. FamilyInv'
  BY FramedFamily
<1>3. QueueInv'
  BY FramedQueue
<1>4. LinksKept
  BY BornStayBorn DEF Own
<1> QED  BY <1>1, <1>2, <1>3, <1>4 DEF TreeInv

\* The others of a step that does not touch them.
LEMMA Untouched ==
    ASSUME TreeInv, NEW c, NEW k \in Conversations,
           session'[k] = session[k], drive'[k] = drive[k], k \in working' <=> k \in working
    PROVE  Other(c, k)
BY DEF TreeInv, FineInv, Other

\* A queue nobody touched.
LEMMA QueueStays == ASSUME TreeInv, waiters' = waiters PROVE QueueMoves
<1>1. Len(waiters) \in Nat /\ DOMAIN waiters = 1..Len(waiters)
  BY LenProperties DEF TreeInv, TreeTypes
<1>2. \A i \in DOMAIN waiters : i + 0 = i
  BY <1>1
<1>3. Len(waiters) <= Len(waiters) - 0
  BY <1>1
<1> QED  BY <1>2, <1>3 DEF QueueMoves

\* A drive's own step: nothing moves but c, which may give its slot back.
LEMMA OwnStep ==
    ASSUME TreeInv, NEW c \in Conversations,
           session' \in [Conversations -> Entries], drive' \in [Conversations -> Drives],
           \A k \in Conversations \ {c} : session'[k] = session[k] /\ drive'[k] = drive[k],
           working' = working \/ working' = working \ {c},
           failed' \subseteq failed, waiters' = waiters, todo' = <<>>, used' \in Counters,
           session'[c].link = session[c].link,
           session'[c].spawns \subseteq {k \in Kids(c) : session[k].link = "unborn"},
           drive[c].pc # "acquiring",
           drive'[c].pc \in Resolvers => drive'[c].pending \subseteq Unresolved(session, c),
           Fine(c, session'[c], drive'[c], c \in working')
    PROVE  TreeInv' /\ LinksKept
<1>1. TreeTypes'
  <2>1. <<>> \in Seq(Requests)
    BY EmptySeq
  <2> QED  BY <2>1 DEF TreeInv, TreeTypes
<1>2. \A k \in Conversations \ {c} : Other(c, k)
  BY Untouched
<1>3. \A k \in Kids(c) : session'[k] = session[k]
  BY Numbered DEF Conversations
<1>4. Unresolved(session', c) = Unresolved(session, c)
  BY <1>3 DEF Unresolved
<1>5. Own(c)
  BY <1>3, <1>4 DEF Own
<1>6. TodoIsFresh
  BY EmptySeq DEF TodoIsFresh
<1> QED  BY <1>1, <1>2, <1>5, <1>6, QueueStays, Framed

-----------------------------------------------------------------------------
(* What the writes do to an entry.                                         *)

\* Opening a turn.
LEMMA OpenedEntry ==
    ASSUME NEW e \in Entries
    PROVE  /\ Opened(e) \in Entries /\ Opened(e).turn = "open"
           /\ Opened(e).link = e.link /\ Opened(e).cancel = e.cancel
           /\ Opened(e).spawns = e.spawns /\ Opened(e).steps = e.steps
<1>1. [e EXCEPT !.turn = "open"] \in Entries
  BY DEF Entries, Turns
<1> QED  BY <1>1 DEF Opened, Entries

\* Closing a turn: no cancel is pending behind it.
LEMMA ClosedEntry ==
    ASSUME NEW e \in Entries, NEW outcome \in ClosedTurns
    PROVE  /\ Closed(e, outcome) \in Entries /\ Closed(e, outcome).turn = outcome
           /\ Closed(e, outcome).cancel = FALSE
           /\ Closed(e, outcome).link = e.link
           /\ Closed(e, outcome).spawns = e.spawns /\ Closed(e, outcome).steps = e.steps
BY DEF Closed, Entries, Turns, Asks

\* Recording a message below the limit.
LEMMA AnsweredEntry ==
    ASSUME NEW e \in Entries, e.steps < HardMaxSteps
    PROVE  /\ Answered(e) \in Entries /\ [Answered(e) EXCEPT !.calls = TRUE] \in Entries
           /\ Answered(e).turn = e.turn /\ Answered(e).link = e.link
           /\ Answered(e).cancel = e.cancel /\ Answered(e).spawns = e.spawns
<1>1. e.steps + 1 \in 0..HardMaxSteps
  BY TreeAssumption DEF Entries
<1> QED  BY <1>1 DEF Answered, Entries

\* Asking a turn to stop.
LEMMA CancelledEntry ==
    ASSUME NEW e \in Entries
    PROVE  LET f == [Opened(e) EXCEPT !.cancel = TRUE]
           IN  /\ f \in Entries /\ f.turn = "open" /\ f.cancel = TRUE
               /\ f.link = e.link /\ f.spawns = e.spawns /\ f.steps = e.steps
<1> DEFINE o == Opened(e)
<1>1. o \in Entries /\ o.turn = "open" /\ o.link = e.link /\ o.spawns = e.spawns /\ o.steps = e.steps
  BY OpenedEntry
<1> HIDE DEF o
<1>2. LET f == [o EXCEPT !.cancel = TRUE]
      IN  /\ f \in Entries /\ f.turn = "open" /\ f.cancel = TRUE
          /\ f.link = o.link /\ f.spawns = o.spawns /\ f.steps = o.steps
  BY <1>1 DEF Entries
<1> QED  BY <1>1, <1>2 DEF o

-----------------------------------------------------------------------------
(* The steps of a drive that move nothing but itself.                      *)

\* What is known when a drive is scheduled: no pool work is left.
LEMMA Scheduled ==
    ASSUME NEW c, NEW location, RunningAt(c, location) \/ SuspendedAt(c, location)
    PROVE  todo = <<>> /\ ~PumpReady /\ drive[c].pc = location
BY DEF RunningAt, SuspendedAt, Alone, Quiet

\* A drive that goes to another location and writes nothing.
LEMMA MoveStep ==
    ASSUME TreeInv, NEW c \in Conversations, NEW d \in Drives,
           drive' = [drive EXCEPT ![c] = d], session' = session,
           working' = working \/ working' = working \ {c},
           failed' \subseteq failed, waiters' = waiters, todo' = <<>>, used' \in Counters,
           drive[c].pc \notin {"off", "acquiring"}, d.pc # "off",
           d.runs = drive[c].runs, d.handle = drive[c].handle, d.token = drive[c].token,
           d.pc \in Resolvers => d.pending \subseteq Unresolved(session, c),
           d.pc = "resolving" => d.pending # {},
           d.pc = "model" => session[c].steps < HardMaxSteps,
           d.pc = "acquiring" => NeedsSlot(c),
           d.pc # "created",
           d.pc \in Slotless => c \notin working',
           NeedsSlot(c) =>
               /\ d.pc \in Holders => c \in working'
               /\ d.pc \in {"top", "again"} => c \in working' \/ session[c].cancel
               /\ d.pc \in InTurn => session[c].turn = "open"
    PROVE  TreeInv' /\ LinksKept
<1>1. /\ drive' \in [Conversations -> Drives] /\ drive'[c] = d
      /\ \A k \in Conversations \ {c} : drive'[k] = drive[k]
  BY DEF TreeInv, TreeTypes
<1>2. Fine(c, session[c], drive[c], c \in working)
  BY DEF TreeInv, FineInv
<1>3. Placed(c, session'[c], d)
  BY <1>2 DEF Fine, Placed
<1>4. Slotted(c, session'[c], d, c \in working')
  BY <1>2 DEF Fine, Slotted
<1>5. session[c].spawns \subseteq {k \in Kids(c) : session[k].link = "unborn"}
  BY DEF TreeInv, FamilyInv
<1>6. session \in [Conversations -> Entries]
  BY DEF TreeInv, TreeTypes
<1> QED  BY <1>1, <1>3, <1>4, <1>5, <1>6, OwnStep DEF Fine

\* A drive that writes its own path and goes on, at `location`, with its slot or not.
LEMMA WriteStep ==
    ASSUME TreeInv, NEW c \in Conversations, NEW e \in Entries, NEW d \in Drives,
           session' = [session EXCEPT ![c] = e], drive' = [drive EXCEPT ![c] = d],
           e.link = session[c].link,
           e.spawns \subseteq {k \in Kids(c) : session[k].link = "unborn"},
           working' = working \/ working' = working \ {c},
           failed' \subseteq failed, waiters' = waiters, todo' = <<>>, used' \in Counters,
           drive[c].pc \notin {"off", "acquiring"},
           d.pc \notin {"off", "created", "acquiring", "model"} \cup Resolvers,
           d.runs = drive[c].runs, d.handle = drive[c].handle, d.token = drive[c].token,
           e.turn # "none",
           d.pc \in Slotless => c \notin working',
           NeedsSlot(c) =>
               /\ d.pc \in Holders => c \in working'
               /\ d.pc \in {"top", "again"} => c \in working' \/ e.cancel
               /\ d.token => e.cancel \/ e.turn \in ClosedTurns
               /\ d.pc \in InTurn => e.turn = "open"
    PROVE  TreeInv' /\ LinksKept
<1>1. /\ drive' \in [Conversations -> Drives] /\ drive'[c] = d
      /\ session' \in [Conversations -> Entries] /\ session'[c] = e
      /\ \A k \in Conversations \ {c} : session'[k] = session[k] /\ drive'[k] = drive[k]
  BY DEF TreeInv, TreeTypes
<1>2. Fine(c, session[c], drive[c], c \in working)
  BY DEF TreeInv, FineInv
<1>3. Placed(c, e, d)
  BY <1>2 DEF Fine, Placed, Resolvers
<1>4. Slotted(c, e, d, c \in working')
  BY <1>2 DEF Fine, Slotted
<1> QED  BY <1>1, <1>3, <1>4, OwnStep DEF Fine

\* What the invariant says of one conversation.
LEMMA Stands ==
    ASSUME TreeInv, NEW c \in Conversations
    PROVE  /\ drive[c] \in Drives /\ session[c] \in Entries /\ used \in Counters
           /\ Fine(c, session[c], drive[c], c \in working)
           /\ session[c].spawns \subseteq {k \in Kids(c) : session[k].link = "unborn"}
           /\ drive[c].pc \in Resolvers => drive[c].pending \subseteq Unresolved(session, c)
           /\ Unresolved(session, c) \subseteq Subagents
<1>1. Unresolved(session, c) \subseteq Subagents
  BY DEF Unresolved, Kids
<1> QED  BY <1>1 DEF TreeInv, TreeTypes, FineInv, FamilyInv

\* Winding down gives the slot back.
LEMMA WindDownStep ==
    ASSUME TreeInv, NEW c \in Conversations, WindDownTree(c), todo = <<>>,
           drive[c].pc \in {"top", "gate", "model"}
    PROVE  TreeInv' /\ LinksKept
<1> DEFINE d == [drive[c] EXCEPT !.pc = "settle", !.why = "cancel", !.pending = Unresolved(session, c)]
<1>1. /\ d \in Drives /\ d.pc = "settle" /\ d.runs = drive[c].runs /\ d.handle = drive[c].handle
      /\ d.token = drive[c].token
  <2>1. drive[c] \in Drives /\ Unresolved(session, c) \in SUBSET Subagents
    BY Stands
  <2> QED  BY <2>1 DEF Drives, Locations, Looping, Synchronous
<1>2. drive' = [drive EXCEPT ![c] = d]
  BY DEF WindDownTree, SettlingDrive
<1> HIDE DEF d
<1> QED
  BY <1>1, <1>2, Stands, MoveStep
     DEF WindDownTree, Settling, Fine, Placed, Slotted, Holders, Slotless, InTurn, Looping, Synchronous, Resolvers

\* A drive that goes on as it stands: to no place that asks for more than where it was.
LEMMA GotoStep ==
    ASSUME TreeInv, NEW c \in Conversations, NEW location \in Locations,
           drive' = Goto(c, location), session' = session, working' = working,
           waiters' = waiters, todo' = <<>>, failed' \subseteq failed, used' \in Counters,
           drive[c].pc \notin {"off", "acquiring"},
           location \notin {"off", "created", "acquiring", "model", "resolving"},
           location \in Resolvers => drive[c].pc \in Resolvers,
           location \in Slotless => drive[c].pc \in Slotless,
           location \in Holders => drive[c].pc \in Holders,
           location \in {"top", "again"} => drive[c].pc \in Holders \cup {"top", "again"},
           location \in InTurn => drive[c].pc \in InTurn
    PROVE  TreeInv' /\ LinksKept
<1> DEFINE d == [drive[c] EXCEPT !.pc = location]
<1>1. /\ d \in Drives /\ d.pc = location /\ d.pending = drive[c].pending
      /\ d.runs = drive[c].runs /\ d.handle = drive[c].handle /\ d.token = drive[c].token
  BY Stands DEF Drives
<1>2. drive' = [drive EXCEPT ![c] = d]
  BY DEF Goto
<1> HIDE DEF d
<1>3. /\ location \in Slotless => c \notin working
      /\ NeedsSlot(c) =>
           /\ location \in Holders => c \in working
           /\ location \in {"top", "again"} => c \in working \/ session[c].cancel
           /\ location \in InTurn => session[c].turn = "open"
  BY Stands DEF Fine, Slotted
<1>4. location \in Resolvers => drive[c].pending \subseteq Unresolved(session, c)
  BY Stands
<1> QED  BY <1>1, <1>2, <1>3, <1>4, MoveStep

\* The top of the loop.
LEMMA TopSteps ==
    ASSUME TreeInv, NEW c \in Conversations,
           TopCancelled(c) \/ TopAdmissionError(c) \/ Top(c) \/ Again(c)
    PROVE  TreeInv' /\ LinksKept
<1> USE DEF Fine, Placed, Slotted, Holders, Slotless, InTurn, Looping, Synchronous, Resolvers
<1>1. CASE TopCancelled(c)
  BY <1>1, Scheduled, WindDownStep DEF TopCancelled
<1>2. CASE TopAdmissionError(c)
  BY <1>2, Scheduled, Stands, GotoStep DEF TopAdmissionError, Locations
<1>3. CASE Top(c)
  <2> DEFINE busy == session[c].calls \/ session[c].ask # "none"
             d == [drive[c] EXCEPT !.recheck = FALSE, !.wake = FALSE, !.progress = busy,
                                   !.pc = IF busy THEN "tools" ELSE "spawn"]
  <2>1. busy \in BOOLEAN
    OBVIOUS
  <2>2. drive' = [drive EXCEPT ![c] = d]
    BY <1>3 DEF Top
  <2> HIDE DEF busy
  <2>3. d.pc = "tools" \/ d.pc = "spawn"
    BY Stands DEF Drives
  <2>4. d \in Drives /\ d.runs = drive[c].runs /\ d.handle = drive[c].handle /\ d.token = drive[c].token
    <3>1. drive[c] \in Drives
      BY Stands
    <3>2. CASE busy = TRUE
      <4>1. d = [drive[c] EXCEPT !.recheck = FALSE, !.wake = FALSE, !.progress = TRUE, !.pc = "tools"]
        BY <3>2
      <4> HIDE DEF d
      <4> QED  BY <3>1, <4>1 DEF Drives, Locations
    <3>3. CASE busy = FALSE
      <4>1. d = [drive[c] EXCEPT !.recheck = FALSE, !.wake = FALSE, !.progress = FALSE, !.pc = "spawn"]
        BY <3>3
      <4> HIDE DEF d
      <4> QED  BY <3>1, <4>1 DEF Drives, Locations
    <3> QED  BY <2>1, <3>2, <3>3
  <2> HIDE DEF d
  <2>5. NeedsSlot(c) => c \in working /\ session[c].turn = "open"
    BY <1>3, Scheduled, Stands DEF Top
  <2>6. drive[c].pc = "top" /\ todo = <<>>
    BY <1>3, Scheduled DEF Top
  <2> QED  BY <1>3, <2>2, <2>3, <2>4, <2>5, <2>6, Stands, MoveStep DEF Top
<1>4. CASE Again(c)
  BY <1>4, Scheduled, Stands, GotoStep DEF Again, Locations
<1> QED  BY <1>1, <1>2, <1>3, <1>4

\* The steps that only go on: a race lost, a yield over, a raise.
LEMMA PlainSteps ==
    ASSUME TreeInv, NEW c \in Conversations,
           \/ ToolsLost(c) \/ ToolsRaise(c) \/ FlushYielded(c) \/ Announced(c) \/ ModelLost(c)
           \/ SettleYielded(c)
    PROVE  TreeInv' /\ LinksKept
<1> USE DEF Holders, Slotless, InTurn, Looping, Synchronous, Resolvers, Locations
<1>1. CASE ToolsLost(c)
  BY <1>1, Scheduled, Stands, GotoStep DEF ToolsLost
<1>2. CASE ToolsRaise(c)
  <2>1. used' \in Counters
    BY <1>2, Stands DEF ToolsRaise, Spend, Counters
  <2> QED  BY <1>2, <2>1, Scheduled, GotoStep DEF ToolsRaise
<1>3. CASE FlushYielded(c)
  BY <1>3, Scheduled, Stands, GotoStep DEF FlushYielded
<1>4. CASE Announced(c)
  BY <1>4, Scheduled, Stands, GotoStep DEF Announced
<1>5. CASE ModelLost(c)
  BY <1>5, Scheduled, Stands, GotoStep DEF ModelLost
<1>6. CASE SettleYielded(c)
  BY <1>6, Scheduled, Stands, GotoStep DEF SettleYielded
<1> QED  BY <1>1, <1>2, <1>3, <1>4, <1>5, <1>6

\* The finished among the children being resolved.
LEMMA FinishedChildren ==
    ASSUME TreeInv, NEW c \in Conversations, Finished(c) # {}, drive[c].pc = "resolve"
    PROVE  First(Finished(c)) \in drive[c].pending
<1>1. Finished(c) \subseteq drive[c].pending /\ drive[c].pending \subseteq Subagents
  BY Stands DEF Finished, Resolvers
<1>2. Finished(c) \in SUBSET Nat
  BY <1>1, FewSubagents
<1> QED  BY <1>1, <1>2, FirstIsLeast

\* A race the token won on a result tool, and the rounds of `_resolve_children`.
LEMMA ResolveSteps ==
    ASSUME TreeInv, NEW c \in Conversations,
           Resolve(c) \/ ResolvedAll(c) \/ ResolveLost(c)
    PROVE  TreeInv' /\ LinksKept
<1> USE DEF Fine, Placed, Slotted, Holders, Slotless, InTurn, Looping, Synchronous, Resolvers
<1>1. CASE Resolve(c)
  <2> DEFINE left == {j \in drive[c].pending : j >= First(Finished(c))}
             d == [drive[c] EXCEPT !.pc = "resolving", !.progress = TRUE, !.pending = left]
  <2>1. drive[c].pc = "resolve" /\ todo = <<>>
    BY <1>1, Scheduled DEF Resolve
  <2>2. left \subseteq drive[c].pending /\ left # {}
    <3>1. First(Finished(c)) \in drive[c].pending
      BY <1>1, <2>1, FinishedChildren DEF Resolve
    <3>2. drive[c].pending \in SUBSET Nat
      BY <2>1, Stands, FewSubagents
    <3>3. First(Finished(c)) \in Nat /\ First(Finished(c)) >= First(Finished(c))
      BY <3>1, <3>2
    <3> QED  BY <3>1, <3>3
  <2> HIDE DEF left
  <2>3. /\ d \in Drives /\ d.pc = "resolving" /\ d.pending = left
        /\ d.runs = drive[c].runs /\ d.handle = drive[c].handle /\ d.token = drive[c].token
    <3>1. drive[c] \in Drives /\ left \in SUBSET Subagents
      BY <2>1, <2>2, Stands
    <3> QED  BY <3>1 DEF Drives, Locations
  <2>4. drive' = [drive EXCEPT ![c] = d]
    BY <1>1 DEF Resolve, left
  <2> HIDE DEF d
  <2>5. NeedsSlot(c) => c \in working /\ session[c].turn = "open"
    BY <2>1, Stands
  <2>6. left \subseteq Unresolved(session, c)
    BY <2>1, <2>2, Stands
  <2> QED  BY <1>1, <2>1, <2>2, <2>3, <2>4, <2>5, <2>6, Stands, MoveStep DEF Resolve
<1>2. CASE ResolvedAll(c)
  <2> DEFINE d == [drive[c] EXCEPT !.pc = "gate", !.pending = {}]
  <2>1. /\ d \in Drives /\ d.pc = "gate"
        /\ d.runs = drive[c].runs /\ d.handle = drive[c].handle /\ d.token = drive[c].token
    <3>1. drive[c] \in Drives
      BY Stands
    <3> QED  BY <3>1 DEF Drives, Locations
  <2>2. drive' = [drive EXCEPT ![c] = d]
    BY <1>2 DEF ResolvedAll
  <2> HIDE DEF d
  <2>3. drive[c].pc = "resolve" /\ todo = <<>>
    BY <1>2, Scheduled DEF ResolvedAll
  <2>4. NeedsSlot(c) => c \in working /\ session[c].turn = "open"
    BY <2>3, Stands
  <2> QED  BY <1>2, <2>1, <2>2, <2>3, <2>4, Stands, MoveStep DEF ResolvedAll
<1>3. CASE ResolveLost(c)
  <2> DEFINE left == drive[c].pending \ {First(drive[c].pending)}
             d == [drive[c] EXCEPT !.pc = "resolve", !.pending = left]
  <2>1. left \subseteq drive[c].pending
    OBVIOUS
  <2> HIDE DEF left
  <2>2. /\ d \in Drives /\ d.pc = "resolve" /\ d.pending = left
        /\ d.runs = drive[c].runs /\ d.handle = drive[c].handle /\ d.token = drive[c].token
    <3>1. drive[c] \in Drives
      BY Stands
    <3>2. left \in SUBSET Subagents
      BY <2>1, <3>1 DEF Drives
    <3> QED  BY <3>1, <3>2 DEF Drives, Locations
  <2>3. drive' = [drive EXCEPT ![c] = d]
    BY <1>3 DEF ResolveLost, left
  <2> HIDE DEF d
  <2>4. drive[c].pc = "resolving" /\ todo = <<>>
    BY <1>3, Scheduled DEF ResolveLost
  <2> QED  BY <1>3, <2>1, <2>2, <2>3, <2>4, Stands, MoveStep DEF ResolveLost
<1> QED  BY <1>1, <1>2, <1>3

\* The gate, and the way to the model or to a park.
LEMMA GateSteps ==
    ASSUME TreeInv, NEW c \in Conversations,
           GateCancelled(c) \/ Gated(c) \/ Ungated(c)
    PROVE  TreeInv' /\ LinksKept
<1> USE DEF Fine, Placed, Slotted, Holders, Slotless, InTurn, Looping, Synchronous, Resolvers
<1>1. CASE GateCancelled(c)
  BY <1>1, Scheduled, WindDownStep DEF GateCancelled
<1>2. CASE Gated(c)
  <2> DEFINE d == [drive[c] EXCEPT !.announced = TRUE,
                                   !.pc = IF drive[c].announced THEN "park" ELSE "announced"]
  <2>1. d.pc = "park" \/ d.pc = "announced"
    BY Stands DEF Drives
  <2>2. d \in Drives /\ d.runs = drive[c].runs /\ d.handle = drive[c].handle /\ d.token = drive[c].token
    <3>1. drive[c] \in Drives
      BY Stands
    <3> QED  BY <3>1, ZenonT(30) DEF Drives, Locations
  <2>3. drive' = [drive EXCEPT ![c] = d]
    BY <1>2 DEF Gated
  <2> HIDE DEF d
  <2>4. drive[c].pc = "gate" /\ todo = <<>>
    BY <1>2, Scheduled DEF Gated
  <2>5. NeedsSlot(c) => c \in working /\ session[c].turn = "open"
    BY <2>4, Stands
  <2> QED  BY <1>2, <2>1, <2>2, <2>3, <2>4, <2>5, Stands, MoveStep DEF Gated
<1>3. CASE Ungated(c)
  <2> DEFINE place == IF drive[c].progress THEN "top"
                      ELSE IF Unresolved(session, c) # {} /\ ~session[c].fresh THEN "park"
                      ELSE IF AtHardLimit(c) THEN "limit"
                      ELSE "model"
             d == [drive[c] EXCEPT !.announced = FALSE, !.pc = place]
  <2>1. place \in {"top", "park", "limit", "model"} /\ (place = "model" => ~AtHardLimit(c))
    OBVIOUS
  <2>2. drive' = [drive EXCEPT ![c] = d]
    BY <1>3 DEF Ungated
  <2> HIDE DEF place
  <2>3. /\ d \in Drives /\ d.pc = place
        /\ d.runs = drive[c].runs /\ d.handle = drive[c].handle /\ d.token = drive[c].token
    <3>1. drive[c] \in Drives
      BY Stands
    <3>2. place \in Locations
      BY <2>1 DEF Locations
    <3> QED  BY <3>1, <3>2 DEF Drives
  <2> HIDE DEF d
  <2>4. drive[c].pc = "gate" /\ todo = <<>>
    BY <1>3, Scheduled DEF Ungated
  <2>5. NeedsSlot(c) => c \in working /\ session[c].turn = "open"
    BY <2>4, Stands
  <2>6. place = "model" => session[c].steps < HardMaxSteps
    <3>1. session[c].steps \in Nat /\ HardMaxSteps \in Nat
      BY Stands, TreeAssumption DEF Entries
    <3> QED  BY <2>1, <3>1 DEF AtHardLimit
  <2> QED  BY <1>3, <2>1, <2>2, <2>3, <2>4, <2>5, <2>6, Stands, MoveStep DEF Ungated
<1> QED  BY <1>1, <1>2, <1>3

\* A drive whose engine has finished.
LEMMA ReturnedRecord ==
    ASSUME TreeInv, NEW c \in Conversations
    PROVE  LET d == [drive[c] EXCEPT !.pc = "returned", !.stir = TRUE]
           IN  /\ d \in Drives /\ d.pc = "returned" /\ d.runs = drive[c].runs
               /\ d.handle = drive[c].handle /\ d.token = drive[c].token
               /\ Returned(c, drive) = [drive EXCEPT ![c] = d]
<1>1. drive[c] \in Drives
  BY Stands
<1> QED  BY <1>1 DEF Drives, Locations, Returned

\* Parking: look again, wait without the slot, or give up.
LEMMA ParkStep == ASSUME TreeInv, NEW c \in Conversations, Park(c) PROVE TreeInv' /\ LinksKept
<1> DEFINE loops == drive[c].recheck \/ (CanAdvance(c) /\ drive[c].token)
           waits == CanAdvance(c) /\ ~loops
<1>1. /\ RunningAt(c, "park")
      /\ drive' = IF loops THEN Goto(c, "top") ELSE IF waits THEN Goto(c, "waiting") ELSE Returned(c, drive)
      /\ working' = IF waits THEN working \ {c} ELSE working
      /\ UNCHANGED <<session, waiters, todo, failed, used>>
  BY DEF Park
<1> HIDE DEF loops
<1>2. drive[c].pc = "park" /\ todo = <<>>
  BY <1>1, Scheduled
<1>3. NeedsSlot(c) => c \in working /\ session[c].turn = "open"
  BY <1>2, Stands DEF Fine, Slotted, Holders, InTurn, Looping, Synchronous
<1>4. drive[c] \in Drives /\ used \in Counters
  BY Stands
<1>5. CASE loops
  BY <1>1, <1>2, <1>4, <1>5, GotoStep
     DEF Locations, Holders, Slotless, InTurn, Looping, Synchronous, Resolvers
<1>6. CASE ~loops /\ CanAdvance(c)
  <2> DEFINE d == [drive[c] EXCEPT !.pc = "waiting"]
  <2>1. /\ d \in Drives /\ d.pc = "waiting" /\ d.runs = drive[c].runs /\ d.handle = drive[c].handle
        /\ d.token = drive[c].token
    BY <1>4 DEF Drives, Locations, Looping
  <2>2. drive' = [drive EXCEPT ![c] = d] /\ working' = working \ {c}
    BY <1>1, <1>6 DEF Goto
  <2> HIDE DEF d
  <2> QED  BY <1>1, <1>2, <1>3, <1>4, <2>1, <2>2, MoveStep DEF Resolvers, Holders
<1>7. CASE ~loops /\ ~CanAdvance(c)
  <2> DEFINE d == [drive[c] EXCEPT !.pc = "returned", !.stir = TRUE]
  <2>1. /\ d \in Drives /\ d.pc = "returned" /\ d.runs = drive[c].runs /\ d.handle = drive[c].handle
        /\ d.token = drive[c].token /\ Returned(c, drive) = [drive EXCEPT ![c] = d]
    BY ReturnedRecord
  <2>2. drive' = [drive EXCEPT ![c] = d] /\ working' = working
    BY <1>1, <1>7, <2>1
  <2> HIDE DEF d
  <2> QED
    BY <1>1, <1>2, <1>4, <2>1, <2>2, MoveStep
       DEF Resolvers, Holders, Slotless, InTurn, Looping, Synchronous
<1> QED  BY <1>5, <1>6, <1>7

\* Awaiting the children of a cancelled turn, one by one.
LEMMA SettleSteps ==
    ASSUME TreeInv, NEW c \in Conversations, SettleAwaits(c) \/ ChildSettled(c)
    PROVE  TreeInv' /\ LinksKept
<1>1. drive[c] \in Drives /\ used \in Counters /\ drive[c].pending \in SUBSET Subagents
  BY Stands DEF Drives
<1>2. drive[c].pc \in {"settle", "settling"} => c \notin working /\ (NeedsSlot(c) => session[c].turn = "open")
  BY Stands DEF Fine, Slotted, Slotless, InTurn, Looping, Synchronous
<1>3. CASE SettleAwaits(c)
  <2> DEFINE left == StillToAwait(c)
             d == [drive[c] EXCEPT !.pc = "settling", !.pending = left, !.stir = FALSE]
  <2>1. left \in SUBSET Subagents
    BY <1>1 DEF StillToAwait
  <2>2. drive' = [drive EXCEPT ![c] = d]
    BY <1>3 DEF SettleAwaits
  <2> HIDE DEF left
  <2>3. /\ d \in Drives /\ d.pc = "settling" /\ d.runs = drive[c].runs /\ d.handle = drive[c].handle
        /\ d.token = drive[c].token
    BY <1>1, <2>1 DEF Drives, Locations, Looping
  <2> HIDE DEF d
  <2>4. drive[c].pc = "settle" /\ todo = <<>>
    BY <1>3, Scheduled DEF SettleAwaits
  <2> QED  BY <1>1, <1>2, <1>3, <2>2, <2>3, <2>4, MoveStep DEF SettleAwaits, Resolvers, Holders
<1>4. CASE ChildSettled(c)
  <2> DEFINE left == drive[c].pending \ {First(drive[c].pending)}
             d == [drive[c] EXCEPT !.pc = "settle", !.pending = left]
  <2>1. left \in SUBSET Subagents
    BY <1>1
  <2>2. drive' = [drive EXCEPT ![c] = d]
    BY <1>4 DEF ChildSettled
  <2> HIDE DEF left
  <2>3. /\ d \in Drives /\ d.pc = "settle" /\ d.runs = drive[c].runs /\ d.handle = drive[c].handle
        /\ d.token = drive[c].token
    BY <1>1, <2>1 DEF Drives, Locations, Looping, Synchronous
  <2> HIDE DEF d
  <2>4. drive[c].pc = "settling" /\ todo = <<>>
    BY <1>4, Scheduled DEF ChildSettled
  <2> QED  BY <1>1, <1>2, <1>4, <2>2, <2>3, <2>4, MoveStep DEF ChildSettled, Resolvers, Holders
<1> QED  BY <1>3, <1>4

\* A close with nothing below to settle.
LEMMA CloseStep ==
    ASSUME TreeInv, NEW c \in Conversations, NEW outcome \in ClosedTurns,
           NEW location \in {"ending", "raised"}, CloseAlone(c, outcome, location),
           todo = <<>>, drive[c].pc \notin {"off", "acquiring"}
    PROVE  TreeInv' /\ LinksKept
<1> DEFINE e == Closed(session[c], outcome)
           d == [drive[c] EXCEPT !.pc = location]
<1>1. drive[c] \in Drives /\ session[c] \in Entries /\ used \in Counters
  BY Stands
<1>2. /\ e \in Entries /\ e.turn = outcome /\ e.link = session[c].link /\ e.spawns = session[c].spawns
  BY <1>1, ClosedEntry
<1>3. /\ d \in Drives /\ d.pc = location /\ d.runs = drive[c].runs /\ d.handle = drive[c].handle
      /\ d.token = drive[c].token
  BY <1>1 DEF Drives, Locations, Looping
<1>4. session' = [session EXCEPT ![c] = e] /\ drive' = [drive EXCEPT ![c] = d]
  BY DEF CloseAlone, Goto
<1> HIDE DEF d, e
<1>5. session[c].spawns \subseteq {k \in Kids(c) : session[k].link = "unborn"}
  BY Stands
<1>6. d.pc \notin Slotless \cup Holders \cup Resolvers \cup InTurn \cup {"off", "created", "acquiring", "model", "top", "again"}
  BY <1>3 DEF Resolvers, Holders, Slotless, InTurn, Looping, Synchronous
<1>7. e.turn # "none" /\ e.turn \in ClosedTurns
  BY <1>2 DEF ClosedTurns
<1>8. /\ e.spawns \subseteq {k \in Kids(c) : session[k].link = "unborn"}
      /\ d.pc \notin {"off", "created", "acquiring", "model"} \cup Resolvers
      /\ d.pc \notin Slotless /\ d.pc \notin Holders /\ d.pc \notin {"top", "again"} /\ d.pc \notin InTurn
  BY <1>2, <1>5, <1>6
<1>9. working' = working /\ failed' = failed /\ waiters' = waiters /\ todo' = <<>> /\ used' = used
  BY DEF CloseAlone
<1> QED  BY <1>1, <1>2, <1>3, <1>4, <1>7, <1>8, <1>9, WriteStep

\* The closes of the limit and of what was settled, and the end of the engine.
LEMMA CloseSteps ==
    ASSUME TreeInv, NEW c \in Conversations, CloseSettled(c) \/ Ending(c)
    PROVE  TreeInv' /\ LinksKept
<1>1. CASE CloseSettled(c)
  <2>1. drive[c].pc = "closing" /\ todo = <<>>
    BY <1>1, Scheduled DEF CloseSettled
  <2>2. \E outcome \in ClosedTurns, location \in {"ending", "raised"} : CloseAlone(c, outcome, location)
    BY <1>1 DEF CloseSettled, ClosedTurns
  <2> QED  BY <2>1, <2>2, CloseStep
<1>2. CASE Ending(c)
  <2> DEFINE d == [drive[c] EXCEPT !.pc = "returned", !.stir = TRUE]
  <2>1. /\ d \in Drives /\ d.pc = "returned" /\ d.runs = drive[c].runs /\ d.handle = drive[c].handle
        /\ d.token = drive[c].token /\ Returned(c, drive) = [drive EXCEPT ![c] = d]
    BY ReturnedRecord
  <2>2. drive' = [drive EXCEPT ![c] = d]
    BY <1>2, <2>1 DEF Ending
  <2> HIDE DEF d
  <2>3. drive[c].pc = "ending" /\ todo = <<>> /\ used \in Counters
    BY <1>2, Scheduled, Stands DEF Ending
  <2> QED
    BY <1>2, <2>1, <2>2, <2>3, MoveStep
       DEF Ending, Resolvers, Holders, Slotless, InTurn, Looping, Synchronous
<1> QED  BY <1>1, <1>2

\* A drive that writes to its own path and keeps its slot and its place in the turn.
LEMMA WorkStep ==
    ASSUME TreeInv, NEW c \in Conversations, NEW e \in Entries, NEW location \in {"spawn", "again"},
           session' = [session EXCEPT ![c] = e], drive' = Goto(c, location),
           UNCHANGED <<working, waiters, todo, failed>>, used' \in Counters, todo = <<>>,
           drive[c].pc \in {"tools", "model"},
           e.link = session[c].link, e.turn = session[c].turn, e.cancel = session[c].cancel,
           e.spawns \subseteq {k \in Kids(c) : session[k].link = "unborn"},
           e.turn # "none"
    PROVE  TreeInv' /\ LinksKept
<1> DEFINE d == [drive[c] EXCEPT !.pc = location]
<1>1. drive[c] \in Drives
  BY Stands
<1>2. /\ d \in Drives /\ d.pc = location /\ d.runs = drive[c].runs /\ d.handle = drive[c].handle
      /\ d.token = drive[c].token
  BY <1>1 DEF Drives, Locations, Looping, Synchronous
<1>3. drive' = [drive EXCEPT ![c] = d]
  BY DEF Goto
<1> HIDE DEF d
<1>4. /\ NeedsSlot(c) => c \in working /\ session[c].turn = "open"
      /\ NeedsSlot(c) => (drive[c].token => session[c].cancel \/ session[c].turn \in ClosedTurns)
  BY Stands DEF Fine, Slotted, Holders, InTurn, Looping, Synchronous
<1>5. /\ d.pc \notin {"off", "created", "acquiring", "model"} \cup Resolvers
      /\ d.pc \notin Slotless
  BY <1>2 DEF Resolvers, Slotless
<1>6. NeedsSlot(c) =>
        /\ d.pc \in Holders => c \in working
        /\ d.pc \in {"top", "again"} => c \in working \/ e.cancel
        /\ d.token => e.cancel \/ e.turn \in ClosedTurns
        /\ d.pc \in InTurn => e.turn = "open"
  BY <1>2, <1>4
<1> QED  BY <1>2, <1>3, <1>5, <1>6, WriteStep, ZenonT(30)

\* A turn that is being driven is one.
LEMMA DrivenHasTurn ==
    ASSUME TreeInv, NEW c \in Conversations, drive[c].pc # "off"
    PROVE  session[c].turn # "none"
BY Stands DEF Fine, Placed

\* The first step of the task: the open turn is resumed, or one opened.
LEMMA TakeOffStep == ASSUME TreeInv, NEW c \in Conversations, TakeOff(c) PROVE TreeInv' /\ LinksKept
<1> DEFINE e == Opened(session[c])
           d == [drive[c] EXCEPT !.pc = "top", !.wake = FALSE, !.progress = FALSE, !.announced = FALSE]
<1>1. drive[c] \in Drives /\ session[c] \in Entries /\ used \in Counters
  BY Stands
<1>2. /\ e \in Entries /\ e.turn = "open" /\ e.link = session[c].link
      /\ e.cancel = session[c].cancel /\ e.spawns = session[c].spawns
  BY <1>1, OpenedEntry
<1>3. /\ d \in Drives /\ d.pc = "top" /\ d.runs = drive[c].runs /\ d.handle = drive[c].handle
      /\ d.token = drive[c].token
  BY <1>1 DEF Drives, Locations, Looping, Synchronous
<1>4. session' = [session EXCEPT ![c] = e] /\ drive' = [drive EXCEPT ![c] = d]
  BY DEF TakeOff
<1> HIDE DEF d, e
<1>5. drive[c].pc = "created" /\ todo = <<>>
  BY Scheduled DEF TakeOff
<1>6. /\ session[c].spawns \subseteq {k \in Kids(c) : session[k].link = "unborn"}
      /\ NeedsSlot(c) => c \in working
      /\ NeedsSlot(c) => (drive[c].token => session[c].cancel)
  BY <1>5, Stands DEF Fine, Slotted, Holders, ClosedTurns
<1>7. /\ d.pc \notin {"off", "created", "acquiring", "model"} \cup Resolvers
      /\ d.pc \notin Slotless /\ e.turn # "none"
  BY <1>2, <1>3 DEF Resolvers, Slotless
<1> QED  BY <1>1, <1>2, <1>3, <1>4, <1>5, <1>6, <1>7, WriteStep DEF TakeOff

\* The rounds of calls: asked again, or dispatched.
LEMMA ToolSteps ==
    ASSUME TreeInv, NEW c \in Conversations, session[c].turn # "none", Reasked(c) \/ Dispatched(c)
    PROVE  TreeInv' /\ LinksKept
<1>1. session[c] \in Entries /\ used \in Counters /\ session \in [Conversations -> Entries]
  BY Stands DEF TreeInv, TreeTypes
<1>2. session[c].spawns \subseteq {k \in Kids(c) : session[k].link = "unborn"}
  BY Stands
<1>3. CASE Reasked(c)
  <2> DEFINE e == IF session[c].ask = "answered"
                  THEN [session[c] EXCEPT !.ask = "none", !.fresh = TRUE]
                  ELSE session[c]
  <2>1. /\ e \in Entries /\ e.link = session[c].link /\ e.turn = session[c].turn
        /\ e.cancel = session[c].cancel /\ e.spawns = session[c].spawns
    BY <1>1 DEF Entries, Asks
  <2>2. session' = [session EXCEPT ![c] = e]
    BY <1>1, <1>3 DEF Reasked
  <2> HIDE DEF e
  <2>3. drive[c].pc = "tools" /\ todo = <<>>
    BY <1>3, Scheduled DEF Reasked
  <2> QED  BY <1>1, <1>2, <1>3, <2>1, <2>2, <2>3, WorkStep DEF Reasked
<1>4. CASE Dispatched(c)
  <2>1. PICK spawns \in SpawnBatches(c), stops \in StopBatches(c), gated \in BOOLEAN :
          /\ IF gated THEN Spend("gates", MaxGates) ELSE UNCHANGED used
          /\ session' = [session EXCEPT ![c] =
                [@ EXCEPT !.calls = FALSE,
                          !.spawns = session[c].spawns \cup spawns,
                          !.stops = session[c].stops \cup stops,
                          !.ask = IF gated THEN "waiting" ELSE session[c].ask,
                          !.fresh = session[c].fresh \/ stops # {} \/ (spawns = {} /\ ~gated)]]
    BY <1>4, ZenonT(30) DEF Dispatched
  <2> DEFINE fresh == session[c].fresh \/ stops # {} \/ (spawns = {} /\ ~gated)
             ask == IF gated THEN "waiting" ELSE session[c].ask
             more == session[c].spawns \cup spawns
             stopped == session[c].stops \cup stops
             e == [session[c] EXCEPT !.calls = FALSE, !.spawns = more, !.stops = stopped,
                                     !.ask = ask, !.fresh = fresh]
  <2>2. more \in SUBSET Subagents /\ more \subseteq {k \in Kids(c) : session[k].link = "unborn"}
    BY <1>1, <1>2 DEF SpawnBatches, Kids
  <2>3. stopped \in SUBSET Subagents
    BY <1>1 DEF StopBatches, Unresolved, Kids, Entries
  <2>4. ask \in Asks
    BY <1>1 DEF Entries, Asks
  <2>5. used' \in Counters
    <3>1. CASE gated
      BY <1>1, <2>1, <3>1 DEF Spend, Counters
    <3>2. CASE ~gated
      BY <1>1, <2>1, <3>2
    <3> QED  BY <3>1, <3>2
  <2>6. session' = [session EXCEPT ![c] = e]
    BY <2>1
  <2>7. fresh = TRUE \/ fresh = FALSE
    OBVIOUS
  <2> HIDE DEF fresh, ask, more, stopped
  <2>8. /\ e \in Entries /\ e.link = session[c].link /\ e.turn = session[c].turn
        /\ e.cancel = session[c].cancel /\ e.spawns = more
    <3>1. CASE fresh = TRUE
      <4>1. e = [session[c] EXCEPT !.calls = FALSE, !.spawns = more, !.stops = stopped,
                                     !.ask = ask, !.fresh = TRUE]
        BY <3>1
      <4> QED  BY <1>1, <2>2, <2>3, <2>4, <4>1 DEF Entries
    <3>2. CASE fresh = FALSE
      <4>1. e = [session[c] EXCEPT !.calls = FALSE, !.spawns = more, !.stops = stopped,
                                     !.ask = ask, !.fresh = FALSE]
        BY <3>2
      <4> QED  BY <1>1, <2>2, <2>3, <2>4, <4>1 DEF Entries
    <3> QED  BY <2>7, <3>1, <3>2
  <2> HIDE DEF e
  <2>9. drive[c].pc = "tools" /\ todo = <<>>
    BY <1>4, Scheduled DEF Dispatched
  <2> QED  BY <1>4, <2>2, <2>5, <2>6, <2>8, <2>9, WorkStep DEF Dispatched
<1> QED  BY <1>3, <1>4

\* The model's calls, and its answers that end no turn over a subagent.
LEMMA ModelSteps ==
    ASSUME TreeInv, NEW c \in Conversations, session[c].turn # "none", ModelCalls(c) \/ ModelAnswers(c)
    PROVE  TreeInv' /\ LinksKept
<1> DEFINE e == Answered(session[c])
<1>1. drive[c].pc = "model" /\ todo = <<>>
  BY Scheduled DEF ModelCalls, ModelAnswers
<1>2. /\ session[c] \in Entries /\ drive[c] \in Drives /\ used \in Counters
      /\ session[c].spawns \subseteq {k \in Kids(c) : session[k].link = "unborn"}
      /\ session[c].steps < HardMaxSteps
  BY <1>1, Stands DEF Fine, Placed
<1>3. /\ e \in Entries /\ [e EXCEPT !.calls = TRUE] \in Entries
      /\ e.turn = session[c].turn /\ e.link = session[c].link
      /\ e.cancel = session[c].cancel /\ e.spawns = session[c].spawns
  BY <1>2, AnsweredEntry
<1>4. CASE ModelCalls(c)
  <2> DEFINE f == [e EXCEPT !.calls = TRUE]
  <2>1. session' = [session EXCEPT ![c] = f]
    BY <1>4 DEF ModelCalls
  <2> HIDE DEF e
  <2>2. f.turn = e.turn /\ f.link = e.link /\ f.cancel = e.cancel /\ f.spawns = e.spawns
    BY <1>3 DEF Entries
  <2> HIDE DEF f
  <2> QED  BY <1>1, <1>2, <1>3, <1>4, <2>1, <2>2, WorkStep DEF ModelCalls, f
<1>5. CASE ModelAnswers(c) /\ session[c].cancel
  <2> DEFINE d == [drive[c] EXCEPT !.pc = "settle", !.why = "cancel", !.pending = Unresolved(session, c)]
  <2>1. session' = [session EXCEPT ![c] = e] /\ drive' = [drive EXCEPT ![c] = d]
    BY <1>5 DEF ModelAnswers, SettlingDrive
  <2>2. /\ d \in Drives /\ d.pc = "settle" /\ d.runs = drive[c].runs /\ d.handle = drive[c].handle
        /\ d.token = drive[c].token
    <3>1. Unresolved(session, c) \in SUBSET Subagents
      BY DEF Unresolved, Kids
    <3> QED  BY <1>2, <3>1, ZenonT(30) DEF Drives, Locations, Looping, Synchronous
  <2>3. /\ UNCHANGED <<waiters, todo, used>> /\ working' = working \ {c} /\ failed' \subseteq failed
    BY <1>5 DEF ModelAnswers, Settling
  <2> HIDE DEF d, e
  <2>4. /\ NeedsSlot(c) => session[c].turn = "open"
    BY <1>1, Stands DEF Fine, Slotted, InTurn, Looping, Synchronous
  <2>5. d.pc \notin {"off", "created", "acquiring", "model"} \cup Resolvers /\ d.pc \notin Holders
    BY <2>2 DEF Resolvers, Holders
  <2> QED  BY <1>1, <1>2, <1>3, <1>5, <2>1, <2>2, <2>3, <2>4, <2>5, WriteStep
<1>6. CASE ModelAnswers(c) /\ ~session[c].cancel /\ Unresolved(session, c) # {}
  <2>1. session' = [session EXCEPT ![c] = e] /\ drive' = Goto(c, "again")
        /\ UNCHANGED <<working, waiters, todo, failed, used>>
    BY <1>6 DEF ModelAnswers
  <2> HIDE DEF e
  <2> QED  BY <1>1, <1>2, <1>3, <2>1, WorkStep
<1>7. CASE ModelAnswers(c) /\ ~session[c].cancel /\ Unresolved(session, c) = {}
  <2> DEFINE f == Closed(e, "completed")
             d == [drive[c] EXCEPT !.pc = "ending"]
  <2>1. session' = [session EXCEPT ![c] = f] /\ drive' = [drive EXCEPT ![c] = d]
        /\ UNCHANGED <<working, waiters, todo, failed, used>>
    BY <1>7 DEF ModelAnswers, Goto
  <2> HIDE DEF e
  <2>2. f \in Entries /\ f.turn = "completed" /\ f.link = e.link /\ f.spawns = e.spawns
    BY <1>3, ClosedEntry DEF ClosedTurns
  <2>3. /\ d \in Drives /\ d.pc = "ending" /\ d.runs = drive[c].runs /\ d.handle = drive[c].handle
        /\ d.token = drive[c].token
    BY <1>2 DEF Drives, Locations, Looping
  <2> HIDE DEF d, f
  <2>4. /\ d.pc \notin {"off", "created", "acquiring", "model"} \cup Resolvers
        /\ d.pc \notin Slotless /\ d.pc \notin Holders /\ d.pc \notin {"top", "again"} /\ d.pc \notin InTurn
        /\ f.turn \in ClosedTurns /\ f.turn # "none"
    BY <2>2, <2>3 DEF Resolvers, Slotless, Holders, InTurn, ClosedTurns
  <2> QED  BY <1>1, <1>2, <1>3, <2>1, <2>2, <2>3, <2>4, WriteStep
<1> QED  BY <1>4, <1>5, <1>6, <1>7

-----------------------------------------------------------------------------
(* What a step asks the pool for.                                          *)

\* Requests for slots: one for each member of a set of subagents.
LEMMA SlotRequestsOf ==
    ASSUME NEW S, S \subseteq Subagents
    PROVE  /\ SlotRequests(S) \in Seq(Requests)
           /\ \A i \in DOMAIN SlotRequests(S) : SlotRequests(S)[i].op = "start" /\ SlotRequests(S)[i].conv \in S
<1> DEFINE n == Cardinality(S)
<1>1. n \in Nat /\ \A i \in 1..n : InOrder(S)[i] \in S
  BY FewSubagents, Ranked
<1>2. \A i \in 1..n :
        /\ SlotRequest("start", InOrder(S)[i]) \in Requests
        /\ SlotRequest("start", InOrder(S)[i]).op = "start"
        /\ SlotRequest("start", InOrder(S)[i]).conv \in S
  BY <1>1 DEF SlotRequest, Requests, SlotRequestRecords
<1>3. SlotRequests(S) = [i \in 1..n |-> SlotRequest("start", InOrder(S)[i])]
  BY DEF SlotRequests
<1> HIDE DEF n
<1>4. SlotRequests(S) \in [1..n -> Requests]
  BY <1>2, <1>3
<1>5. SlotRequests(S) \in Seq(Requests)
  BY <1>1, <1>4, IsASeq
<1> QED  BY <1>2, <1>3, <1>5

\* Requests to look again: one for the parent of each member.
LEMMA WakeRequestsOf ==
    ASSUME NEW S, S \subseteq Subagents
    PROVE  /\ WakeRequests(S) \in Seq(Requests)
           /\ \A i \in DOMAIN WakeRequests(S) : WakeRequests(S)[i].op = "drive"
<1> DEFINE n == Cardinality(S)
<1>1. n \in Nat /\ \A i \in 1..n : InOrder(S)[i] \in S
  BY FewSubagents, Ranked
<1>2. \A i \in 1..n : Parent[InOrder(S)[i]] \in Conversations
  BY <1>1, Numbered
<1>3. \A i \in 1..n :
        /\ WakeRequest(Parent[InOrder(S)[i]]) \in Requests
        /\ WakeRequest(Parent[InOrder(S)[i]]).op = "drive"
  BY <1>2 DEF WakeRequest, Requests
<1>4. WakeRequests(S) = [i \in 1..n |-> WakeRequest(Parent[InOrder(S)[i]])]
  BY DEF WakeRequests
<1> HIDE DEF n
<1>5. WakeRequests(S) \in [1..n -> Requests]
  BY <1>3, <1>4
<1>6. WakeRequests(S) \in Seq(Requests)
  BY <1>1, <1>5, IsASeq
<1> QED  BY <1>3, <1>4, <1>6

\* One request to look again.
LEMMA WakeRequestOf ==
    ASSUME NEW c \in Conversations
    PROVE  <<WakeRequest(c)>> \in Seq(Requests) /\ <<WakeRequest(c)>>[1].op = "drive"
           /\ DOMAIN <<WakeRequest(c)>> = {1}
<1>1. WakeRequest(c) \in Requests /\ WakeRequest(c).op = "drive"
  BY DEF WakeRequest, Requests
<1> QED  BY <1>1

-----------------------------------------------------------------------------
(* The steps that reach into the subtree.                                  *)

\* A cancel that reaches k: its turn is open and asked to stop, its drive told.
LEMMA Reaching ==
    ASSUME TreeInv, NEW reached \in SUBSET Conversations, NEW k \in Conversations
    PROVE  LET e == CancelRequested(session, reached)[k]
               d == Tripped(reached)[k]
           IN  /\ e \in Entries /\ e.link = session[k].link /\ e.spawns = session[k].spawns
               /\ d \in Drives /\ d.pc = drive[k].pc /\ d.pending = drive[k].pending
               /\ Fine(k, e, d, k \in working)
<1> DEFINE asked == [Opened(session[k]) EXCEPT !.cancel = TRUE]
           e == CancelRequested(session, reached)[k]
           d == Tripped(reached)[k]
<1>1. drive[k] \in Drives /\ session[k] \in Entries /\ Fine(k, session[k], drive[k], k \in working)
  BY Stands
<1>2. /\ asked \in Entries /\ asked.turn = "open" /\ asked.cancel = TRUE
      /\ asked.link = session[k].link /\ asked.spawns = session[k].spawns /\ asked.steps = session[k].steps
  BY <1>1, CancelledEntry
<1>3. e = IF k \in reached THEN asked ELSE session[k]
  BY DEF CancelRequested
<1>4. d = IF k \notin reached THEN drive[k]
          ELSE IF Live(k) THEN [drive[k] EXCEPT !.token = TRUE]
          ELSE IF Found[k] /\ drive[k].handle = "unstarted"
          THEN [drive[k] EXCEPT !.handle = "abandoned"]
          ELSE drive[k]
  BY DEF Tripped
<1> HIDE DEF asked, e, d
<1>5. CASE k \notin reached
  BY <1>1, <1>3, <1>4, <1>5 DEF e, d
<1>6. CASE k \in reached
  <2>1. e = asked
    BY <1>3, <1>6
  <2>2. /\ d \in Drives /\ d.pc = drive[k].pc /\ d.pending = drive[k].pending
        /\ d.runs = drive[k].runs
        /\ d.handle = drive[k].handle \/ drive[k].handle = "unstarted"
    <3>1. CASE d = drive[k]
      BY <1>1, <3>1 DEF Drives
    <3>2. CASE d = [drive[k] EXCEPT !.token = TRUE]
      BY <1>1, <3>2 DEF Drives
    <3>3. CASE d = [drive[k] EXCEPT !.handle = "abandoned"] /\ drive[k].handle = "unstarted"
      BY <1>1, <3>3 DEF Drives
    <3> QED  BY <1>4, <3>1, <3>2, <3>3
  <2>3. Placed(k, e, d)
    BY <1>1, <1>2, <2>1, <2>2 DEF Fine, Placed
  <2>4. Slotted(k, e, d, k \in working)
    BY <1>1, <1>2, <2>1, <2>2 DEF Fine, Slotted
  <2> QED  BY <1>2, <2>1, <2>2, <2>3, <2>4 DEF Fine, e, d
<1> QED  BY <1>5, <1>6

\* The parents of those no drive will wind down.
LEMMA FlushersFresh ==
    ASSUME NEW reached \in SUBSET Conversations
    PROVE  /\ Flushers(reached) \in Seq(Requests)
           /\ \A i \in DOMAIN Flushers(reached) : Flushers(reached)[i].op = "drive"
<1>1. {k \in reached \ {Main} : ~Live(k)} \subseteq Subagents
  BY DEF Conversations
<1> QED  BY <1>1, WakeRequestsOf DEF Flushers

\* Those a cancel reaches are conversations.
LEMMA ReachedConversations ==
    ASSUME NEW s, NEW targets
    PROVE  Reached(s, targets) \in SUBSET Conversations
BY DEF Reached

\* A call from outside, or the pool passing something over, moves nobody.
LEMMA CallStep ==
    ASSUME TreeInv, TreeTypes', working' = working, QueueMoves, TodoIsFresh,
           \A k \in Conversations :
              /\ session'[k].link = session[k].link /\ session'[k].spawns = session[k].spawns
              /\ drive'[k].pc = drive[k].pc /\ drive'[k].pending = drive[k].pending
              /\ Fine(k, session'[k], drive'[k], k \in working')
    PROVE  TreeInv' /\ LinksKept
<1>1. FineInv'
  BY DEF FineInv
<1>2. \A k \in Conversations : Unresolved(session', k) = Unresolved(session, k)
  BY Numbered DEF Unresolved, Conversations
<1>3. FamilyInv'
  BY <1>2, Numbered, Stands DEF FamilyInv, Conversations
<1>4. QueueInv'
  BY MovedQueue DEF Conversations
<1>5. LinksKept
  BY DEF LinksKept, Conversations
<1> QED  BY <1>1, <1>3, <1>4, <1>5 DEF TreeInv

\* cancel(), from outside.
LEMMA CancelStep == ASSUME TreeInv, NEW c \in Conversations, Cancel(c) PROVE TreeInv' /\ LinksKept
<1> DEFINE reached == Reached(session, {c})
<1>1. reached \in SUBSET Conversations
  BY ReachedConversations
<1>2. /\ session' = CancelRequested(session, reached) /\ drive' = Tripped(reached)
      /\ todo' = Flushers(reached) /\ UNCHANGED <<working, waiters, failed>>
      /\ Spend("cancels", MaxCancels)
  BY DEF Cancel
<1> HIDE DEF reached
<1>3. \A k \in Conversations :
        /\ session'[k] \in Entries /\ session'[k].link = session[k].link /\ session'[k].spawns = session[k].spawns
        /\ drive'[k] \in Drives /\ drive'[k].pc = drive[k].pc /\ drive'[k].pending = drive[k].pending
        /\ Fine(k, session'[k], drive'[k], k \in working')
  BY <1>1, <1>2, Reaching
<1>4. TreeTypes'
  <2>1. session' \in [Conversations -> Entries]
    <3>1. session' = [k \in Conversations |-> session'[k]]
      BY <1>2 DEF CancelRequested
    <3> QED  BY <1>3, <3>1
  <2>2. drive' \in [Conversations -> Drives]
    <3>1. drive' = [k \in Conversations |-> drive'[k]]
      BY <1>2 DEF Tripped
    <3> QED  BY <1>3, <3>1
  <2>3. todo' \in Seq(Requests)
    BY <1>1, <1>2, FlushersFresh
  <2>4. used' \in Counters
    BY <1>2, Stands DEF Spend, Counters
  <2> QED  BY <1>2, <2>1, <2>2, <2>3, <2>4 DEF TreeInv, TreeTypes
<1>5. TodoIsFresh
  BY <1>1, <1>2, FlushersFresh DEF TodoIsFresh
<1>6. QueueMoves
  BY <1>2, QueueStays
<1> QED  BY <1>2, <1>3, <1>4, <1>5, <1>6, CallStep

\* The writes of a wind-down from outside: the turn of a child without a drive is closed.
LEMMA FlushedChild ==
    ASSUME TreeInv, NEW flushed, NEW k \in Conversations, k \in flushed => ~Live(k)
    PROVE  LET e == Flushed(session, flushed)[k]
           IN  /\ e \in Entries /\ e.link = session[k].link /\ e.spawns = session[k].spawns
               /\ k \in flushed => e.turn = "cancelled" /\ e.cancel = FALSE
               /\ k \notin flushed => e = session[k]
               /\ Fine(k, e, drive[k], k \in working)
<1> DEFINE e == Flushed(session, flushed)[k]
           closed == Closed(session[k], "cancelled")
<1>1. drive[k] \in Drives /\ session[k] \in Entries /\ Fine(k, session[k], drive[k], k \in working)
  BY Stands
<1>2. /\ closed \in Entries /\ closed.turn = "cancelled" /\ closed.cancel = FALSE
      /\ closed.link = session[k].link /\ closed.spawns = session[k].spawns /\ closed.steps = session[k].steps
  BY <1>1, ClosedEntry DEF ClosedTurns
<1>3. e = IF k \in flushed THEN closed ELSE session[k]
  BY DEF Flushed
<1> HIDE DEF closed, e
<1>4. CASE k \notin flushed
  BY <1>1, <1>3, <1>4 DEF e
<1>5. CASE k \in flushed
  <2>1. e = closed /\ drive[k].pc = "off"
    BY <1>1, <1>3, <1>5 DEF Fine, Placed, Live
  <2>2. Fine(k, e, drive[k], k \in working)
    BY <1>1, <1>2, <2>1
       DEF Fine, Placed, Slotted, ClosedTurns, Holders, InTurn, Looping, Synchronous
  <2> QED  BY <1>2, <1>5, <2>1, <2>2 DEF e
<1> QED  BY <1>4, <1>5

\* Stopping children: the cancel of each, from inside the drive.
LEMMA StopStep == ASSUME TreeInv, NEW c \in Conversations, StopChildren(c) PROVE TreeInv' /\ LinksKept
<1> DEFINE reached == Reached(session, StopTargets(session, c))
           t == Tripped(reached)
           d == [t[c] EXCEPT !.pc = "flush"]
<1>1. reached \in SUBSET Conversations
  BY ReachedConversations
<1>2. /\ session' = CancelRequested(session, reached) /\ drive' = [t EXCEPT ![c].pc = "flush"]
      /\ todo' = Flushers(reached) /\ UNCHANGED <<working, waiters, failed, used>>
  BY DEF StopChildren
<1>3. drive[c].pc = "stop" /\ todo = <<>>
  BY Scheduled DEF StopChildren
<1>4. DOMAIN t = Conversations /\ t = [k \in Conversations |-> t[k]]
  BY DEF Tripped
<1> HIDE DEF reached
<1>5. \A k \in Conversations :
        /\ session'[k] \in Entries /\ session'[k].link = session[k].link /\ session'[k].spawns = session[k].spawns
        /\ t[k] \in Drives /\ t[k].pc = drive[k].pc /\ t[k].pending = drive[k].pending
        /\ Fine(k, session'[k], t[k], k \in working')
  BY <1>1, <1>2, Reaching
<1> HIDE DEF t
<1>6. /\ drive' = [t EXCEPT ![c] = d] /\ drive'[c] = d
      /\ \A k \in Conversations \ {c} : drive'[k] = t[k]
  BY <1>2, <1>4
<1>7. /\ d \in Drives /\ d.pc = "flush" /\ d.runs = t[c].runs /\ d.handle = t[c].handle /\ d.token = t[c].token
  BY <1>5 DEF Drives, Locations, Looping, Synchronous
<1> HIDE DEF d
<1>8. Fine(c, session'[c], d, c \in working')
  <2>1. Fine(c, session'[c], t[c], c \in working') /\ t[c].pc = "stop"
    BY <1>3, <1>5
  <2> QED
    BY <1>7, <2>1 DEF Fine, Placed, Slotted, Holders, Slotless, InTurn, Looping, Synchronous
<1>9. TreeTypes'
  <2>1. session' \in [Conversations -> Entries]
    <3>1. session' = [k \in Conversations |-> session'[k]]
      BY <1>2 DEF CancelRequested
    <3> QED  BY <1>5, <3>1
  <2>2. drive' \in [Conversations -> Drives]
    BY <1>4, <1>5, <1>6, <1>7
  <2>3. todo' \in Seq(Requests)
    BY <1>1, <1>2, FlushersFresh
  <2> QED  BY <1>2, <2>1, <2>2, <2>3 DEF TreeInv, TreeTypes
<1>10. \A k \in Conversations \ {c} : Other(c, k)
  BY <1>5, <1>6 DEF Other
<1>11. Own(c)
  <2>1. session[c].spawns \subseteq {k \in Kids(c) : session[k].link = "unborn"} /\ Kids(c) \subseteq Conversations
    BY Stands, Numbered DEF Conversations
  <2>2. session'[c].spawns \subseteq {k \in Kids(c) : session'[k].link = "unborn"}
    BY <1>5, <2>1
  <2> QED  BY <1>3, <1>5, <1>6, <1>7, <1>8, <2>2 DEF Own, Resolvers
<1>12. TodoIsFresh
  BY <1>1, <1>2, FlushersFresh DEF TodoIsFresh
<1>13. QueueMoves
  BY <1>2, QueueStays
<1> QED  BY <1>9, <1>10, <1>11, <1>12, <1>13, Framed

\* The limit, or a failure, over unresolved children.
LEMMA CascadeStep ==
    ASSUME TreeInv, NEW c \in Conversations, NEW why \in {"limit", "failure"},
           CascadeAndSettle(c, why), used' = used, drive[c].pc \in {"limit", "model"}
    PROVE  TreeInv' /\ LinksKept
<1> DEFINE reached == Cascaded(session, c)
           t == Tripped(reached)
           d == [t[c] EXCEPT !.pc = "settle", !.why = why, !.pending = Unresolved(session, c)]
<1>1. reached \in SUBSET Conversations
  BY ReachedConversations DEF Cascaded
<1>2. /\ session' = CancelRequested(session, reached) /\ drive' = [t EXCEPT ![c] = d]
      /\ todo' = Flushers(reached) /\ UNCHANGED <<waiters, used>>
      /\ working' = working \ {c} /\ failed' \subseteq failed
  BY DEF CascadeAndSettle, SettlingDrive, Settling
<1>3. DOMAIN t = Conversations /\ t = [k \in Conversations |-> t[k]]
  BY DEF Tripped
<1> HIDE DEF reached
<1>4. \A k \in Conversations :
        /\ session'[k] \in Entries /\ session'[k].link = session[k].link /\ session'[k].spawns = session[k].spawns
        /\ t[k] \in Drives /\ t[k].pc = drive[k].pc /\ t[k].pending = drive[k].pending
        /\ Fine(k, session'[k], t[k], k \in working)
  BY <1>1, <1>2, Reaching
<1> HIDE DEF t
<1>5. drive'[c] = d /\ \A k \in Conversations \ {c} : drive'[k] = t[k]
  BY <1>2, <1>3
<1>6. /\ d \in Drives /\ d.pc = "settle" /\ d.runs = t[c].runs /\ d.handle = t[c].handle /\ d.token = t[c].token
  <2>1. Unresolved(session, c) \in SUBSET Subagents /\ t[c] \in Drives
    BY <1>4, Stands
  <2> QED  BY <2>1, ZenonT(30) DEF Drives, Locations, Looping, Synchronous
<1> HIDE DEF d
<1>7. Fine(c, session'[c], d, c \in working')
  <2>1. Fine(c, session'[c], t[c], c \in working) /\ t[c].pc \in {"limit", "model"} /\ c \notin working'
    BY <1>2, <1>4
  <2> QED
    BY <1>6, <2>1 DEF Fine, Placed, Slotted, Holders, Slotless, InTurn, Looping, Synchronous
<1>8. TreeTypes'
  <2>1. session' \in [Conversations -> Entries]
    <3>1. session' = [k \in Conversations |-> session'[k]]
      BY <1>2 DEF CancelRequested
    <3> QED  BY <1>4, <3>1
  <2>2. drive' \in [Conversations -> Drives]
    BY <1>2, <1>3, <1>4, <1>6
  <2>3. todo' \in Seq(Requests)
    BY <1>1, <1>2, FlushersFresh
  <2> QED  BY <1>2, <2>1, <2>2, <2>3 DEF TreeInv, TreeTypes
<1>9. \A k \in Conversations \ {c} : Other(c, k)
  <2> TAKE k \in Conversations \ {c}
  <2>1. (k \in working') = (k \in working)
    BY <1>2
  <2> QED  BY <1>4, <1>5, <2>1 DEF Other
<1>10. Own(c)
  <2>1. session[c].spawns \subseteq {k \in Kids(c) : session[k].link = "unborn"} /\ Kids(c) \subseteq Conversations
    BY Stands, Numbered DEF Conversations
  <2>2. session'[c].spawns \subseteq {k \in Kids(c) : session'[k].link = "unborn"}
    BY <1>4, <2>1
  <2> QED  BY <1>4, <1>5, <1>6, <1>7, <2>2 DEF Own, Resolvers
<1>11. TodoIsFresh
  BY <1>1, <1>2, FlushersFresh DEF TodoIsFresh
<1>12. QueueMoves
  BY <1>2, QueueStays
<1> QED  BY <1>8, <1>9, <1>10, <1>11, <1>12, Framed

\* The flush of the cancelled children nobody drives.
LEMMA FlushStep == ASSUME TreeInv, NEW c \in Conversations, Flush(c) PROVE TreeInv' /\ LinksKept
<1> DEFINE flushed == IF session[c].cancel THEN {} ELSE Flushable(c)
           place == IF flushed = {} THEN "resolve" ELSE "flushed"
           open == Unresolved(session, c)
           d == [drive[c] EXCEPT !.pending = open, !.pc = place]
<1>1. /\ session' = Flushed(session, flushed) /\ drive' = [drive EXCEPT ![c] = d]
      /\ UNCHANGED <<working, waiters, todo, failed, used>>
  BY DEF Flush
<1>2. drive[c].pc = "flush" /\ todo = <<>>
  BY Scheduled DEF Flush
<1>3. place = "resolve" \/ place = "flushed"
  OBVIOUS
<1>4. flushed \subseteq Kids(c) /\ \A k \in flushed : ~Live(k)
  BY DEF Flushable, Unresolved
<1>5. open \in SUBSET Subagents /\ drive[c] \in Drives
  BY Stands
<1> HIDE DEF flushed, place, open
<1>6. \A k \in Conversations :
        /\ session'[k] \in Entries /\ session'[k].link = session[k].link /\ session'[k].spawns = session[k].spawns
        /\ k \notin flushed => session'[k] = session[k]
        /\ Fine(k, session'[k], drive[k], k \in working')
  BY <1>1, <1>4, FlushedChild
<1>7. /\ d \in Drives /\ d.pc = place /\ d.pending = open
      /\ d.runs = drive[c].runs /\ d.handle = drive[c].handle /\ d.token = drive[c].token
  BY <1>3, <1>5 DEF Drives, Locations, Looping, Synchronous
<1> HIDE DEF d
<1>8. /\ drive' \in [Conversations -> Drives] /\ drive'[c] = d
      /\ \A k \in Conversations \ {c} : drive'[k] = drive[k]
  BY <1>1, <1>7 DEF TreeInv, TreeTypes
<1>9. TreeTypes'
  <2>1. session' \in [Conversations -> Entries]
    <3>1. session' = [k \in Conversations |-> session'[k]]
      BY <1>1 DEF Flushed
    <3> QED  BY <1>6, <3>1
  <2> QED  BY <1>1, <1>8, <2>1 DEF TreeInv, TreeTypes
<1>10. \A k \in Conversations \ {c} : Other(c, k)
  BY <1>6, <1>8 DEF Other
<1>11. Own(c)
  <2>1. session[c].spawns \subseteq {k \in Kids(c) : session[k].link = "unborn"} /\ Kids(c) \subseteq Conversations
    BY Stands, Numbered DEF Conversations
  <2>2. session'[c].spawns \subseteq {k \in Kids(c) : session'[k].link = "unborn"} /\ Unresolved(session', c) = open
    BY <1>6, <2>1 DEF Unresolved, open
  <2>3. Fine(c, session'[c], d, c \in working')
    BY <1>2, <1>3, <1>6, <1>7 DEF Fine, Placed, Slotted, Holders, Slotless, InTurn, Looping, Synchronous
  <2> QED  BY <1>2, <1>6, <1>7, <1>8, <2>2, <2>3 DEF Own
<1>12. TodoIsFresh
  BY <1>1, <1>2, EmptySeq DEF TodoIsFresh
<1>13. QueueMoves
  BY <1>1, QueueStays
<1> QED  BY <1>9, <1>10, <1>11, <1>12, <1>13, Framed

\* Every link left is resolved at once, and a cancelled turn closed.
LEMMA SettledStep == ASSUME TreeInv, NEW c \in Conversations, SettleEnds(c) PROVE TreeInv' /\ LinksKept
<1> DEFINE flushed == Flushable(c)
           f == Flushed(session, flushed)
           settled == LinksSettled(f, c)
           cancelled == drive[c].why = "cancel"
           place == IF cancelled THEN "ending" ELSE IF flushed = {} THEN "closing" ELSE "settled"
           d == [drive[c] EXCEPT !.pending = {}, !.pc = place]
<1>1. /\ session' = IF cancelled THEN [settled EXCEPT ![c] = Closed(@, "cancelled")] ELSE settled
      /\ drive' = [drive EXCEPT ![c] = d]
      /\ UNCHANGED <<working, waiters, todo, failed, used>>
  BY DEF SettleEnds
<1>2. drive[c].pc = "settle" /\ todo = <<>>
  BY Scheduled DEF SettleEnds
<1>3. place \in {"ending", "closing", "settled"} /\ (place = "ending" <=> cancelled)
  OBVIOUS
<1>4. flushed \subseteq Kids(c) /\ c \notin Kids(c) /\ \A k \in flushed : ~Live(k)
  BY Numbered DEF Flushable, Unresolved
<1> HIDE DEF flushed, place, cancelled
<1>5. \A k \in Conversations :
        /\ f[k] \in Entries /\ f[k].link = session[k].link /\ f[k].spawns = session[k].spawns
        /\ k \notin flushed => f[k] = session[k]
        /\ Fine(k, f[k], drive[k], k \in working)
  BY <1>4, FlushedChild
<1> HIDE DEF f
<1>6. \A k \in Conversations :
        settled[k] = IF k \in Kids(c) /\ f[k].link = "open" THEN [f[k] EXCEPT !.link = "cancelled"] ELSE f[k]
  BY DEF LinksSettled, Unresolved
<1>7. settled = [k \in Conversations |-> settled[k]] /\ DOMAIN settled = Conversations
  BY DEF LinksSettled
<1> HIDE DEF settled
<1>8. \A k \in Conversations \ {c} :
        /\ session'[k] = settled[k] /\ settled[k] \in Entries /\ settled[k].spawns = session[k].spawns
        /\ settled[k].link = IF k \in Kids(c) /\ session[k].link = "open" THEN "cancelled" ELSE session[k].link
        /\ Fine(k, settled[k], drive[k], k \in working)
  <2> TAKE k \in Conversations \ {c}
  <2>1. session'[k] = settled[k]
    BY <1>1, <1>7
  <2>2. CASE settled[k] = f[k] /\ ~(k \in Kids(c) /\ f[k].link = "open")
    BY <1>5, <2>1, <2>2
  <2>3. CASE settled[k] = [f[k] EXCEPT !.link = "cancelled"] /\ k \in Kids(c) /\ f[k].link = "open"
    <3>1. /\ settled[k] \in Entries /\ settled[k].link = "cancelled" /\ settled[k].spawns = f[k].spawns
          /\ settled[k].turn = f[k].turn /\ settled[k].cancel = f[k].cancel /\ settled[k].steps = f[k].steps
      BY <1>5, <2>3 DEF Entries, Links
    <3>2. Fine(k, settled[k], drive[k], k \in working)
      BY <1>5, <2>3, <3>1 DEF Fine, Placed, Slotted
    <3> QED  BY <1>5, <2>1, <2>3, <3>1, <3>2
  <2> QED  BY <1>6, <2>2, <2>3
<1>9. settled[c] = session[c] /\ session[c] \in Entries /\ drive[c] \in Drives
  BY <1>4, <1>5, <1>6, Stands
<1>10. /\ session'[c] \in Entries /\ session'[c].link = session[c].link
       /\ session'[c].spawns = session[c].spawns
       /\ cancelled => session'[c].turn = "cancelled"
       /\ ~cancelled => session'[c] = session[c]
  <2>1. CASE cancelled
    <3>1. session'[c] = Closed(session[c], "cancelled")
      BY <1>1, <1>7, <1>9, <2>1
    <3> DEFINE e == Closed(session[c], "cancelled")
    <3>2. e \in Entries /\ e.turn = "cancelled" /\ e.link = session[c].link /\ e.spawns = session[c].spawns
      BY <1>9, ClosedEntry DEF ClosedTurns
    <3> HIDE DEF e
    <3> QED  BY <2>1, <3>1, <3>2 DEF e
  <2>2. CASE ~cancelled
    BY <1>1, <1>9, <2>2
  <2> QED  BY <2>1, <2>2
<1>11. /\ d \in Drives /\ d.pc = place
       /\ d.runs = drive[c].runs /\ d.handle = drive[c].handle /\ d.token = drive[c].token
  BY <1>3, <1>9 DEF Drives, Locations, Looping, Synchronous
<1> HIDE DEF d
<1>12. /\ drive' \in [Conversations -> Drives] /\ drive'[c] = d
       /\ \A k \in Conversations \ {c} : drive'[k] = drive[k]
  BY <1>1, <1>11 DEF TreeInv, TreeTypes
<1>13. TreeTypes'
  <2>1. session' \in [Conversations -> Entries]
    <3>1. session' = [k \in Conversations |-> session'[k]]
      BY <1>1, <1>7
    <3> QED  BY <1>8, <1>10, <3>1
  <2> QED  BY <1>1, <1>12, <2>1 DEF TreeInv, TreeTypes
<1>14. \A k \in Conversations \ {c} : Other(c, k)
  BY <1>1, <1>8, <1>12 DEF Other
<1>15. Own(c)
  <2>1. session[c].spawns \subseteq {k \in Kids(c) : session[k].link = "unborn"} /\ Kids(c) \subseteq Conversations \ {c}
    BY <1>4, Stands, Numbered DEF Conversations
  <2>2. session'[c].spawns \subseteq {k \in Kids(c) : session'[k].link = "unborn"}
    BY <1>8, <1>10, <2>1
  <2>3. Fine(c, session'[c], d, c \in working')
    <3>1. Fine(c, session[c], drive[c], c \in working) /\ working' = working
      BY <1>1, Stands
    <3>2. CASE cancelled
      BY <1>2, <1>3, <1>10, <1>11, <3>1, <3>2
         DEF Fine, Placed, Slotted, ClosedTurns, Holders, Slotless, InTurn, Looping, Synchronous
    <3>3. CASE ~cancelled
      BY <1>2, <1>3, <1>10, <1>11, <3>1, <3>3
         DEF Fine, Placed, Slotted, Holders, Slotless, InTurn, Looping, Synchronous
    <3> QED  BY <3>2, <3>3
  <2> QED  BY <1>2, <1>3, <1>10, <1>11, <1>12, <2>2, <2>3 DEF Own, Resolvers
<1>16. TodoIsFresh
  BY <1>1, <1>2, EmptySeq DEF TodoIsFresh
<1>17. QueueMoves
  BY <1>1, QueueStays
<1> QED  BY <1>13, <1>14, <1>15, <1>16, <1>17, Framed

\* A result tool's answer lands on the link of the child it was asked about.
LEMMA ResolvedStep == ASSUME TreeInv, NEW c \in Conversations, Resolved(c) PROVE TreeInv' /\ LinksKept
<1> DEFINE k == First(drive[c].pending)
           e == [session[k] EXCEPT !.link = "result"]
           g == [session[c] EXCEPT !.fresh = TRUE]
           left == drive[c].pending \ {k}
           d == [drive[c] EXCEPT !.pc = "resolve", !.pending = left]
<1>1. /\ session' = [session EXCEPT ![k].link = "result", ![c].fresh = TRUE]
      /\ drive' = [drive EXCEPT ![c] = d]
      /\ UNCHANGED <<working, waiters, todo, failed, used>>
  BY DEF Resolved
<1>2. drive[c].pc = "resolving" /\ todo = <<>>
  BY Scheduled DEF Resolved
<1>3. drive[c].pending # {} /\ drive[c].pending \subseteq Unresolved(session, c)
  BY <1>2, Stands DEF Fine, Placed, Resolvers
<1>4. k \in drive[c].pending
  <2>1. drive[c].pending \in SUBSET Nat
    BY <1>3, Stands, FewSubagents
  <2> QED  BY <1>3, <2>1, FirstIsLeast
<1>5. k \in Kids(c) /\ session[k].link = "open" /\ k \in Subagents /\ k \in Conversations /\ k # c
  BY <1>3, <1>4, Numbered DEF Unresolved, Conversations
<1> HIDE DEF k
<1>6. /\ session[k] \in Entries /\ session[c] \in Entries /\ drive[c] \in Drives
      /\ session \in [Conversations -> Entries] /\ drive \in [Conversations -> Drives]
  BY <1>5, Stands DEF TreeInv, TreeTypes
<1>7. /\ e \in Entries /\ e.link = "result" /\ e.spawns = session[k].spawns /\ e.turn = session[k].turn
      /\ e.cancel = session[k].cancel /\ e.steps = session[k].steps
  BY <1>6 DEF Entries, Links
<1>8. /\ g \in Entries /\ g.link = session[c].link /\ g.spawns = session[c].spawns /\ g.turn = session[c].turn
      /\ g.cancel = session[c].cancel /\ g.steps = session[c].steps
  BY <1>6 DEF Entries
<1>9. /\ session' = [session EXCEPT ![k] = e, ![c] = g]
  BY <1>1, <1>5, <1>6
<1> HIDE DEF e, g
<1>10. /\ session' \in [Conversations -> Entries] /\ session'[k] = e /\ session'[c] = g
       /\ \A j \in Conversations \ {c, k} : session'[j] = session[j]
  BY <1>5, <1>6, <1>7, <1>8, <1>9
<1>11. /\ d \in Drives /\ d.pc = "resolve" /\ d.pending = left
       /\ d.runs = drive[c].runs /\ d.handle = drive[c].handle /\ d.token = drive[c].token
  BY <1>6 DEF Drives, Locations, Looping, Synchronous
<1> HIDE DEF d
<1>12. /\ drive' \in [Conversations -> Drives] /\ drive'[c] = d
       /\ \A j \in Conversations \ {c} : drive'[j] = drive[j]
  BY <1>1, <1>6, <1>11
<1>13. TreeTypes'
  BY <1>1, <1>10, <1>12 DEF TreeInv, TreeTypes
<1>14. \A j \in Conversations \ {c} : Other(c, j)
  <2> TAKE j \in Conversations \ {c}
  <2>1. CASE j # k
    BY <1>1, <1>10, <1>12, <2>1, Untouched
  <2>2. CASE j = k
    <3>1. Fine(k, session[k], drive[k], k \in working)
      BY <1>5, Stands
    <3>2. Fine(k, e, drive[k], k \in working')
      BY <1>1, <1>5, <1>7, <3>1 DEF Fine, Placed, Slotted
    <3> QED  BY <1>5, <1>7, <1>10, <1>12, <2>2, <3>2 DEF Other
  <2> QED  BY <2>1, <2>2
<1>15. Own(c)
  <2>1. session[c].spawns \subseteq {j \in Kids(c) : session[j].link = "unborn"} /\ Kids(c) \subseteq Conversations \ {c}
    BY Stands, Numbered DEF Conversations
  <2>2. session'[c].spawns \subseteq {j \in Kids(c) : session'[j].link = "unborn"}
    BY <1>5, <1>8, <1>10, <2>1
  <2>3. left \subseteq Unresolved(session', c)
    BY <1>3, <1>10, <2>1 DEF Unresolved
  <2>4. Fine(c, g, d, c \in working')
    <3>1. Fine(c, session[c], drive[c], c \in working)
      BY Stands
    <3> QED
      BY <1>1, <1>2, <1>8, <1>11, <3>1
         DEF Fine, Placed, Slotted, Holders, Slotless, InTurn, Looping, Synchronous
  <2> QED  BY <1>2, <1>8, <1>10, <1>11, <1>12, <2>2, <2>3, <2>4 DEF Own
<1>16. TodoIsFresh
  BY <1>1, <1>2, EmptySeq DEF TodoIsFresh
<1>17. QueueMoves
  BY <1>1, QueueStays
<1> QED  BY <1>13, <1>14, <1>15, <1>16, <1>17, Framed

\* An answer to a gate.
LEMMA AnswerStep == ASSUME TreeInv, NEW c \in Conversations, Answer(c) PROVE TreeInv' /\ LinksKept
<1> DEFINE e == [session[c] EXCEPT !.ask = "answered"]
           d == [drive[c] EXCEPT !.recheck = TRUE]
<1>1. session' = [session EXCEPT ![c] = e] /\ drive' = [drive EXCEPT ![c] = d]
      /\ todo' = <<WakeRequest(c)>> /\ UNCHANGED <<working, waiters, failed, used>>
  BY DEF Answer
<1>2. session[c] \in Entries /\ drive[c] \in Drives /\ Fine(c, session[c], drive[c], c \in working)
  BY Stands
<1>3. /\ e \in Entries /\ e.link = session[c].link /\ e.spawns = session[c].spawns /\ e.turn = session[c].turn
      /\ e.cancel = session[c].cancel /\ e.steps = session[c].steps
  BY <1>2 DEF Entries, Asks
<1>4. /\ d \in Drives /\ d.pc = drive[c].pc /\ d.pending = drive[c].pending
      /\ d.runs = drive[c].runs /\ d.handle = drive[c].handle /\ d.token = drive[c].token
  BY <1>2 DEF Drives
<1> HIDE DEF d, e
<1>5. Fine(c, e, d, c \in working)
  BY <1>2, <1>3, <1>4 DEF Fine, Placed, Slotted
<1>6. /\ session' \in [Conversations -> Entries] /\ drive' \in [Conversations -> Drives]
      /\ session'[c] = e /\ drive'[c] = d
      /\ \A k \in Conversations \ {c} : session'[k] = session[k] /\ drive'[k] = drive[k]
  BY <1>1, <1>3, <1>4 DEF TreeInv, TreeTypes
<1>7. TreeTypes'
  BY <1>1, <1>6, WakeRequestOf DEF TreeInv, TreeTypes
<1>8. \A k \in Conversations :
        /\ session'[k].link = session[k].link /\ session'[k].spawns = session[k].spawns
        /\ drive'[k].pc = drive[k].pc /\ drive'[k].pending = drive[k].pending
        /\ Fine(k, session'[k], drive'[k], k \in working')
  BY <1>1, <1>3, <1>4, <1>5, <1>6, Stands
<1>9. TodoIsFresh
  BY <1>1, WakeRequestOf DEF TodoIsFresh
<1>10. QueueMoves
  BY <1>1, QueueStays
<1> QED  BY <1>1, <1>7, <1>8, <1>9, <1>10, CallStep

\* Spawning: the children of the batch come into being, and ask for slots.
LEMMA SpawnStep == ASSUME TreeInv, NEW c \in Conversations, Spawn(c) PROVE TreeInv' /\ LinksKept
<1> DEFINE spawned == session[c].spawns
           fresh == [Unborn EXCEPT !.turn = "seeded", !.link = "open"]
           born == [NoDrive EXCEPT !.handle = "unstarted", !.under = drive[c].runs]
           e == [session[c] EXCEPT !.spawns = {}]
           more == drive[c].progress \/ spawned # {}
           d == [drive[c] EXCEPT !.pc = "stop", !.progress = more]
<1>1. /\ \A k \in Conversations :
            session'[k] = IF k \in spawned THEN fresh ELSE IF k = c THEN e ELSE session[k]
      /\ \A k \in Conversations :
            drive'[k] = IF k \in spawned THEN born ELSE IF k = c THEN d ELSE drive[k]
      /\ session' = [k \in Conversations |-> session'[k]] /\ drive' = [k \in Conversations |-> drive'[k]]
      /\ todo' = SlotRequests(spawned) /\ UNCHANGED <<working, waiters, failed, used>>
  BY DEF Spawn, Spawned
<1>2. drive[c].pc = "spawn" /\ todo = <<>>
  BY Scheduled DEF Spawn
<1>3. session[c] \in Entries /\ drive[c] \in Drives /\ Fine(c, session[c], drive[c], c \in working)
  BY Stands
<1>4. spawned \subseteq {k \in Kids(c) : session[k].link = "unborn"} /\ Kids(c) \subseteq Subagents /\ c \notin Kids(c)
      /\ Kids(c) \subseteq Conversations
  BY Stands, Numbered DEF Conversations
<1>5. /\ fresh \in Entries /\ fresh.link = "open" /\ fresh.turn = "seeded" /\ fresh.spawns = {}
  <2>1. 0 \in 0..HardMaxSteps
    BY TreeAssumption
  <2>2. Unborn \in Entries /\ Unborn.spawns = {}
    BY <2>1 DEF Unborn, Entries, Turns, Links, Asks
  <2> QED  BY <2>2 DEF Entries, Turns, Links
<1>6. /\ born \in Drives /\ born.pc = "off" /\ born.runs = "none" /\ born.token = FALSE
  <2>1. drive[c].runs \in {"current", "old"}
    BY <1>2, <1>3 DEF Fine, Placed, Drives
  <2> QED  BY <2>1 DEF NoDrive, Drives, Locations
<1>7. /\ e \in Entries /\ e.link = session[c].link /\ e.turn = session[c].turn /\ e.spawns = {}
      /\ e.cancel = session[c].cancel /\ e.steps = session[c].steps
  BY <1>3 DEF Entries
<1>8. /\ d \in Drives /\ d.pc = "stop"
      /\ d.runs = drive[c].runs /\ d.handle = drive[c].handle /\ d.token = drive[c].token
  <2>1. more = TRUE \/ more = FALSE
    OBVIOUS
  <2>2. CASE more = TRUE
    <3>1. d = [drive[c] EXCEPT !.pc = "stop", !.progress = TRUE]
      BY <2>2
    <3> QED  BY <1>3, <3>1, ZenonT(30) DEF Drives, Locations, Looping, Synchronous
  <2>3. CASE more = FALSE
    <3>1. d = [drive[c] EXCEPT !.pc = "stop", !.progress = FALSE]
      BY <2>3
    <3> QED  BY <1>3, <3>1, ZenonT(30) DEF Drives, Locations, Looping, Synchronous
  <2> QED  BY <2>1, <2>2, <2>3
<1> HIDE DEF spawned, fresh, born, e, d
<1>9. /\ session'[c] = e /\ drive'[c] = d
      /\ \A k \in spawned : session'[k] = fresh /\ drive'[k] = born
      /\ \A k \in Conversations \ ({c} \cup spawned) : session'[k] = session[k] /\ drive'[k] = drive[k]
  BY <1>1, <1>4
<1>10. TreeTypes'
  <2>1. session' \in [Conversations -> Entries] /\ drive' \in [Conversations -> Drives]
    <3>1. \A k \in Conversations : session'[k] \in Entries /\ drive'[k] \in Drives
      BY <1>5, <1>6, <1>7, <1>8, <1>9, Stands
    <3> QED  BY <1>1, <3>1
  <2>2. todo' \in Seq(Requests)
    BY <1>1, <1>4, SlotRequestsOf
  <2> QED  BY <1>1, <2>1, <2>2 DEF TreeInv, TreeTypes
<1>11. \A k \in Conversations \ {c} : Other(c, k)
  <2> TAKE k \in Conversations \ {c}
  <2>1. CASE k \notin spawned
    BY <1>1, <1>9, <2>1, Untouched
  <2>2. CASE k \in spawned
    <3>1. k \in Kids(c) /\ session[k].link = "unborn" /\ k # Main
      BY <1>4, <2>2, Numbered
    <3>2. drive[k].pc = "off" /\ k \notin working'
      BY <1>1, <3>1, Stands DEF Fine, Placed, Slotted
    <3>3. Fine(k, fresh, born, k \in working')
      BY <1>5, <1>6, <3>1, <3>2 DEF Fine, Placed, Slotted, Holders, InTurn, Looping, Synchronous
    <3> QED  BY <1>5, <1>6, <1>9, <2>2, <3>1, <3>2, <3>3 DEF Other, Resolvers
  <2> QED  BY <2>1, <2>2
<1>12. Own(c)
  <2>1. Fine(c, e, d, c \in working')
    BY <1>1, <1>2, <1>3, <1>7, <1>8
       DEF Fine, Placed, Slotted, Holders, Slotless, InTurn, Looping, Synchronous
  <2> QED  BY <1>2, <1>7, <1>8, <1>9, <2>1 DEF Own, Resolvers
<1>13. TodoIsFresh
  BY <1>1, <1>4, <1>5, <1>9, SlotRequestsOf DEF TodoIsFresh
<1>14. QueueMoves
  BY <1>1, QueueStays
<1> QED  BY <1>10, <1>11, <1>12, <1>13, <1>14, Framed

\* The end of a run: the drive is gone, its slot too, and the parent hears of it.
LEMMA EndStep ==
    ASSUME TreeInv, NEW c \in Conversations, EndRun(c), drive[c].pc \in {"returned", "raised"}
    PROVE  TreeInv' /\ LinksKept
<1> DEFINE d == [drive[c] EXCEPT !.pc = "off", !.runs = "none"]
           ended == [drive EXCEPT ![c] = d]
<1>1. /\ drive' = IF c = Main THEN ended ELSE Stirred(c, ended)
      /\ working' = working \ {c}
      /\ todo' = IF c = Main THEN <<>> ELSE <<WakeRequest(Parent[c])>>
      /\ UNCHANGED <<session, waiters, failed, used>>
  BY DEF EndRun
<1>2. drive[c] \in Drives /\ Fine(c, session[c], drive[c], c \in working) /\ session[c] \in Entries
      /\ session \in [Conversations -> Entries] /\ drive \in [Conversations -> Drives]
  BY Stands DEF TreeInv, TreeTypes
<1>3. /\ d \in Drives /\ d.pc = "off" /\ d.runs = "none" /\ d.handle = drive[c].handle /\ d.token = drive[c].token
  BY <1>2 DEF Drives, Locations
<1> HIDE DEF d
<1>4. /\ ended \in [Conversations -> Drives] /\ ended[c] = d
      /\ \A k \in Conversations \ {c} : ended[k] = drive[k]
  BY <1>2, <1>3
<1>5. /\ drive' \in [Conversations -> Drives] /\ drive'[c] = d
      /\ \A k \in Conversations \ {c} : drive'[k] = drive[k] \/ drive'[k] = [drive[k] EXCEPT !.stir = TRUE]
  <2>1. CASE drive' = ended
    BY <1>4, <2>1
  <2>2. CASE drive' = [ended EXCEPT ![Parent[c]].stir = TRUE] /\ c # Main
    <3> DEFINE p == Parent[c]
               r == [drive[p] EXCEPT !.stir = TRUE]
    <3>1. p \in Conversations /\ p # c
      BY <2>2, Numbered DEF Conversations
    <3>2. r \in Drives
      BY <1>2, <3>1, ZenonT(30) DEF Drives
    <3>3. drive' = [ended EXCEPT ![p] = r]
      BY <1>4, <2>2, <3>1
    <3> HIDE DEF p, ended
    <3>4. drive' \in [Conversations -> Drives] /\ drive'[p] = r
          /\ \A k \in Conversations \ {p} : drive'[k] = ended[k]
      BY <1>4, <3>1, <3>2, <3>3
    <3> QED  BY <1>4, <3>1, <3>4
  <2> QED  BY <1>1, <2>1, <2>2 DEF Stirred
<1>6. /\ todo' \in Seq(Requests) /\ \A i \in DOMAIN todo' : todo'[i].op = "drive"
  <2>1. CASE c = Main
    <3>1. todo' = <<>>
      BY <1>1, <2>1
    <3> QED  BY <3>1, EmptySeq
  <2>2. CASE c # Main
    <3>1. Parent[c] \in Conversations
      BY <2>2, Numbered DEF Conversations
    <3> QED  BY <1>1, <2>2, <3>1, WakeRequestOf
  <2> QED  BY <2>1, <2>2
<1>7. TreeTypes'
  BY <1>1, <1>5, <1>6 DEF TreeInv, TreeTypes
<1>8. \A k \in Conversations \ {c} : Other(c, k)
  <2> TAKE k \in Conversations \ {c}
  <2>1. CASE drive'[k] = drive[k]
    BY <1>1, <2>1, Untouched
  <2>2. CASE drive'[k] = [drive[k] EXCEPT !.stir = TRUE]
    <3>1. drive[k] \in Drives /\ Fine(k, session[k], drive[k], k \in working)
      BY Stands
    <3>2. /\ drive'[k].pc = drive[k].pc /\ drive'[k].pending = drive[k].pending /\ drive'[k].runs = drive[k].runs
          /\ drive'[k].handle = drive[k].handle /\ drive'[k].token = drive[k].token
      BY <2>2, <3>1 DEF Drives
    <3>3. Fine(k, session'[k], drive'[k], k \in working')
      BY <1>1, <3>1, <3>2 DEF Fine, Placed, Slotted
    <3> QED  BY <1>1, <3>2, <3>3 DEF Other
  <2> QED  BY <1>5, <2>1, <2>2
<1>9. Own(c)
  <2>1. Fine(c, session[c], d, c \in working')
    BY <1>1, <1>2, <1>3 DEF Fine, Placed, Slotted, Holders, InTurn, Looping, Synchronous
  <2> QED  BY <1>1, <1>3, <1>5, <2>1, Stands DEF Own, Resolvers
<1>10. TodoIsFresh
  BY <1>6 DEF TodoIsFresh
<1>11. QueueMoves
  BY <1>1, QueueStays
<1> QED  BY <1>7, <1>8, <1>9, <1>10, <1>11, Framed

\* The fan-in of a finished engine.
LEMMA FanInSteps ==
    ASSUME TreeInv, NEW c \in Conversations, FanIn(c) \/ RunRaises(c)
    PROVE  TreeInv' /\ LinksKept
<1>1. CASE RunRaises(c)
  BY <1>1, Scheduled, EndStep DEF RunRaises
<1>2. CASE FanIn(c) /\ LiveChildren(c) = {}
  BY <1>2, Scheduled, EndStep DEF FanIn
<1>3. CASE FanIn(c) /\ LiveChildren(c) # {}
  <2> DEFINE d == [drive[c] EXCEPT !.stir = FALSE]
  <2>1. drive[c] \in Drives /\ drive[c].pc = "returned" /\ todo = <<>>
    BY <1>3, Scheduled, Stands DEF FanIn
  <2>2. /\ d \in Drives /\ d.pc = "returned" /\ d.runs = drive[c].runs /\ d.handle = drive[c].handle
        /\ d.token = drive[c].token
    BY <2>1 DEF Drives
  <2>3. drive' = [drive EXCEPT ![c] = d] /\ UNCHANGED <<session, working, waiters, todo, failed, used>>
    BY <1>3 DEF FanIn
  <2> HIDE DEF d
  <2> QED
    BY <2>1, <2>2, <2>3, Stands, MoveStep
       DEF Resolvers, Holders, Slotless, InTurn, Looping, Synchronous
<1> QED  BY <1>1, <1>2, <1>3

\* The wait is over: a drive that needs a slot asks for it once.
LEMMA WokenStep == ASSUME TreeInv, NEW c \in Conversations, Woken(c) PROVE TreeInv' /\ LinksKept
<1>1. drive[c].pc = "waiting" /\ todo = <<>> /\ ~PumpReady
  BY Scheduled DEF Woken
<1>2. /\ drive[c] \in Drives /\ session[c] \in Entries /\ used \in Counters
      /\ Fine(c, session[c], drive[c], c \in working)
      /\ session[c].spawns \subseteq {k \in Kids(c) : session[k].link = "unborn"}
  BY Stands
<1>3. UNCHANGED <<session, working, waiters, failed, used>>
  BY DEF Woken
<1>4. CASE ~NeedsSlot(c)
  <2> DEFINE d == [drive[c] EXCEPT !.pc = "again"]
  <2>1. /\ d \in Drives /\ d.pc = "again" /\ d.runs = drive[c].runs /\ d.handle = drive[c].handle
        /\ d.token = drive[c].token
    BY <1>2 DEF Drives, Locations, Looping
  <2>2. drive' = [drive EXCEPT ![c] = d] /\ todo' = <<>>
    BY <1>4 DEF Woken, Goto
  <2> HIDE DEF d
  <2> QED  BY <1>1, <1>2, <1>3, <1>4, <2>1, <2>2, MoveStep DEF Resolvers, Slotless
<1>5. CASE NeedsSlot(c)
  <2> DEFINE d == [drive[c] EXCEPT !.pc = "acquiring"]
             r == SlotRequest("resume", c)
  <2>1. /\ d \in Drives /\ d.pc = "acquiring" /\ d.runs = drive[c].runs /\ d.handle = drive[c].handle
        /\ d.token = drive[c].token /\ d.pending = drive[c].pending
    BY <1>2 DEF Drives, Locations, Looping
  <2>2. drive' = [drive EXCEPT ![c] = d] /\ todo' = <<r>>
    BY <1>5 DEF Woken, Goto
  <2>3. c \in Subagents /\ session[c].link # "unborn"
    BY <1>1, <1>2, <1>5 DEF NeedsSlot, Conversations, Fine, Placed
  <2>4. r \in Requests /\ r.op = "resume" /\ r.conv = c
    BY <2>3 DEF SlotRequest, Requests, SlotRequestRecords
  <2> HIDE DEF d, r
  <2>5. /\ drive' \in [Conversations -> Drives] /\ drive'[c] = d
        /\ \A k \in Conversations \ {c} : drive'[k] = drive[k]
    BY <2>1, <2>2 DEF TreeInv, TreeTypes
  <2>6. todo' \in Seq(Requests) /\ Len(todo') = 1 /\ DOMAIN todo' = {1} /\ todo'[1] = r
    BY <2>2, <2>4
  <2>7. TreeTypes'
    BY <1>3, <2>5, <2>6 DEF TreeInv, TreeTypes
  <2>8. \A k \in Conversations \ {c} : Other(c, k)
    BY <1>3, <2>5, Untouched
  <2>9. Own(c)
    <3>1. Fine(c, session[c], d, c \in working)
      BY <1>1, <1>2, <1>5, <2>1
         DEF Fine, Placed, Slotted, Holders, Slotless, InTurn, Looping, Synchronous
    <3> QED  BY <1>1, <1>2, <1>3, <2>1, <2>5, <3>1 DEF Own, Resolvers
  <2>10. FineInv'
    BY <2>8, <2>9 DEF FineInv, Own, Other
  <2>11. FamilyInv'
    BY <2>8, <2>9, FramedFamily
  <2>12. QueueInv'
    <3>1. \A i \in DOMAIN waiters :
            /\ session[waiters[i].conv].link # "unborn"
            /\ waiters[i].kind = "resume" => drive[waiters[i].conv].pc = "acquiring"
            /\ waiters[i].conv \in Conversations
      BY QueueTypes DEF TreeInv, QueueInv, WaiterRecords, Conversations
    <3>2. \A i \in DOMAIN waiters :
            waiters[i].kind = "resume" => waiters[i].conv # c /\ drive'[waiters[i].conv].pc = "acquiring"
      BY <1>1, <2>5, <3>1
    <3>3. \A i, j \in DOMAIN waiters :
            /\ waiters[i].kind = "resume" /\ waiters[j].kind = "resume"
            /\ waiters[i].conv = waiters[j].conv
            => i = j
      BY DEF TreeInv, QueueInv
    <3>4. ~PumpReady'
      BY <1>1, <1>3 DEF PumpReady
    <3> QED
      BY <1>3, <2>1, <2>3, <2>4, <2>5, <2>6, <3>1, <3>2, <3>3, <3>4 DEF QueueInv
  <2>13. LinksKept
    BY <1>3 DEF LinksKept
  <2> QED  BY <2>7, <2>10, <2>11, <2>12, <2>13 DEF TreeInv
<1> QED  BY <1>4, <1>5

\* A queue less the waiters of one conversation keeps the others, each once.
LEMMA WithoutOne ==
    ASSUME TreeTypes, NEW c
    PROVE  LET q == Without(waiters, c)
           IN  /\ q \in Seq(WaiterRecords)
               /\ \E at \in [DOMAIN q -> DOMAIN waiters] :
                     /\ \A i \in DOMAIN q : q[i] = waiters[at[i]] /\ waiters[at[i]].conv # c
                     /\ \A i, j \in DOMAIN q : at[i] = at[j] => i = j
<1> DEFINE kept == {i \in DOMAIN waiters : waiters[i].conv # c}
           n == Cardinality(kept)
           q == Without(waiters, c)
<1>1. /\ Len(waiters) \in Nat /\ DOMAIN waiters = 1..Len(waiters)
      /\ \A i \in DOMAIN waiters : waiters[i] \in WaiterRecords
  BY QueueTypes
<1>2. kept \in SUBSET Nat /\ IsFiniteSet(kept)
  <2>1. IsFiniteSet(1..Len(waiters))
    BY <1>1, FS_Interval
  <2>2. kept \in SUBSET (1..Len(waiters))
    BY <1>1
  <2> QED  BY <2>1, <2>2, FS_Subset
<1> HIDE DEF kept
<1>3. /\ n \in Nat
      /\ \A i \in 1..n : InOrder(kept)[i] \in kept
      /\ \A i, j \in 1..n : InOrder(kept)[i] = InOrder(kept)[j] => i = j
  BY <1>2, Ranked
<1>4. q = [i \in 1..n |-> waiters[InOrder(kept)[i]]]
  BY DEF Without, kept
<1>5. \A i \in kept : i \in DOMAIN waiters /\ waiters[i].conv # c
  BY DEF kept
<1> HIDE DEF n, q
<1>6. q \in [1..n -> WaiterRecords]
  BY <1>1, <1>3, <1>4, <1>5
<1>7. q \in Seq(WaiterRecords)
  BY <1>3, <1>6, IsASeq
<1> DEFINE at == [i \in 1..n |-> InOrder(kept)[i]]
<1>8. DOMAIN q = 1..n /\ at \in [DOMAIN q -> DOMAIN waiters]
  BY <1>3, <1>4, <1>5
<1>9. /\ \A i \in DOMAIN q : q[i] = waiters[at[i]] /\ waiters[at[i]].conv # c
      /\ \A i, j \in DOMAIN q : at[i] = at[j] => i = j
  BY <1>3, <1>4, <1>5
<1> QED  BY <1>7, <1>8, <1>9 DEF q

\* The token wins in the queue: the request is dropped with it.
LEMMA LostStep == ASSUME TreeInv, NEW c \in Conversations, AcquireLost(c) PROVE TreeInv' /\ LinksKept
<1> DEFINE d == [drive[c] EXCEPT !.pc = "again"]
<1>1. drive[c].pc = "acquiring" /\ todo = <<>> /\ drive[c].token
  BY Scheduled DEF AcquireLost
<1>2. drive[c] \in Drives /\ Fine(c, session[c], drive[c], c \in working)
  BY Stands
<1>3. /\ drive' = [drive EXCEPT ![c] = d] /\ waiters' = Without(waiters, c)
      /\ UNCHANGED <<session, working, todo, failed, used>>
  BY DEF AcquireLost, Goto
<1>4. /\ d \in Drives /\ d.pc = "again" /\ d.runs = drive[c].runs /\ d.handle = drive[c].handle
      /\ d.token = drive[c].token
  BY <1>2 DEF Drives, Locations, Looping
<1> HIDE DEF d
<1>5. /\ drive' \in [Conversations -> Drives] /\ drive'[c] = d
      /\ \A k \in Conversations \ {c} : drive'[k] = drive[k]
  BY <1>3, <1>4 DEF TreeInv, TreeTypes
<1>6. /\ waiters' \in Seq(WaiterRecords)
      /\ \E at \in [DOMAIN waiters' -> DOMAIN waiters] :
            /\ \A i \in DOMAIN waiters' : waiters'[i] = waiters[at[i]] /\ waiters[at[i]].conv # c
            /\ \A i, j \in DOMAIN waiters' : at[i] = at[j] => i = j
  BY <1>3, WithoutOne DEF TreeInv
<1>7. PICK at \in [DOMAIN waiters' -> DOMAIN waiters] :
            /\ \A i \in DOMAIN waiters' : waiters'[i] = waiters[at[i]] /\ waiters[at[i]].conv # c
            /\ \A i, j \in DOMAIN waiters' : at[i] = at[j] => i = j
  BY <1>6
<1>8. TreeTypes'
  BY <1>3, <1>5, <1>6 DEF TreeInv, TreeTypes
<1>9. FineInv'
  <2>1. Fine(c, session[c], d, c \in working)
    BY <1>1, <1>2, <1>4
       DEF Fine, Placed, Slotted, ClosedTurns, Holders, Slotless, InTurn, Looping, Synchronous
  <2>2. \A k \in Conversations : Fine(k, session[k], drive[k], k \in working)
    BY DEF TreeInv, FineInv
  <2>3. \A k \in Conversations : Fine(k, session[k], drive'[k], k \in working)
    <3> TAKE k \in Conversations
    <3>1. CASE k = c
      BY <1>5, <2>1, <3>1
    <3>2. CASE k # c
      BY <1>5, <2>2, <3>2
    <3> QED  BY <3>1, <3>2
  <2> QED  BY <1>3, <2>3 DEF FineInv
<1>10. FamilyInv'
  BY <1>3, <1>4, <1>5 DEF TreeInv, FamilyInv, Unresolved, Resolvers
<1>11. QueueInv'
  <2>1. \A i \in DOMAIN waiters :
          /\ session[waiters[i].conv].link # "unborn"
          /\ waiters[i].kind = "resume" => drive[waiters[i].conv].pc = "acquiring"
          /\ waiters[i].conv \in Conversations
    BY QueueTypes DEF TreeInv, QueueInv, WaiterRecords, Conversations
  <2>2. \A i, j \in DOMAIN waiters :
          /\ waiters[i].kind = "resume" /\ waiters[j].kind = "resume"
          /\ waiters[i].conv = waiters[j].conv
          => i = j
    BY DEF TreeInv, QueueInv
  <2>3. \A i \in DOMAIN waiters' :
          /\ session'[waiters'[i].conv].link # "unborn"
          /\ waiters'[i].kind = "resume" => drive'[waiters'[i].conv].pc = "acquiring"
    BY <1>3, <1>5, <1>7, <2>1
  <2>4. \A i, j \in DOMAIN waiters' :
          /\ waiters'[i].kind = "resume" /\ waiters'[j].kind = "resume"
          /\ waiters'[i].conv = waiters'[j].conv
          => i = j
    BY <1>7, <2>2
  <2>5. DOMAIN todo' = {}
    BY <1>1, <1>3
  <2> QED  BY <2>3, <2>4, <2>5 DEF QueueInv
<1>12. LinksKept
  BY <1>3 DEF LinksKept
<1> QED  BY <1>8, <1>9, <1>10, <1>11, <1>12 DEF TreeInv

\* A crash takes every drive, slot and request, and no entry.
LEMMA CrashStep == ASSUME TreeInv, Crash PROVE TreeInv' /\ LinksKept
<1>1. /\ drive' = [c \in Conversations |-> NoDrive] /\ working' = {} /\ waiters' = <<>> /\ todo' = <<>>
      /\ failed' = {} /\ session' = session /\ used' \in Counters
  BY DEF Crash, Spend, TreeInv, TreeTypes, Counters
<1>2. /\ NoDrive \in Drives /\ NoDrive.pc = "off" /\ NoDrive.runs = "none" /\ NoDrive.handle = "none"
      /\ NoDrive.token = FALSE
  BY DEF NoDrive, Drives, Locations
<1>3. \A c \in Conversations : drive'[c] = NoDrive
  BY <1>1
<1>4. TreeTypes'
  <2>1. <<>> \in Seq(WaiterRecords) /\ <<>> \in Seq(Requests)
    BY EmptySeq
  <2> QED  BY <1>1, <1>2, <2>1 DEF TreeInv, TreeTypes
<1>5. FineInv'
  <2>1. \A c \in Conversations : Fine(c, session[c], NoDrive, c \in working')
    <3> TAKE c \in Conversations
    <3>1. Fine(c, session[c], drive[c], c \in working) /\ c \notin working'
      BY <1>1, Stands
    <3> QED  BY <1>2, <3>1 DEF Fine, Placed, Slotted, Holders, InTurn, Looping, Synchronous
  <2> QED  BY <1>1, <1>3, <2>1 DEF FineInv
<1>6. FamilyInv'
  BY <1>1, <1>2, <1>3 DEF TreeInv, FamilyInv, Resolvers
<1>7. QueueInv'
  <2>1. DOMAIN waiters' = {} /\ DOMAIN todo' = {}
    BY <1>1
  <2> QED  BY <2>1 DEF QueueInv
<1>8. LinksKept
  BY <1>1 DEF LinksKept
<1> QED  BY <1>4, <1>5, <1>6, <1>7, <1>8 DEF TreeInv

-----------------------------------------------------------------------------
(* What a start does to the subtree and to the queue.                      *)

\* The same drive, in everything a slot or a family depends on.
Alike(r, d) == r.pc = d.pc /\ r.pending = d.pending /\ r.token = d.token

\* A new handle of c changes the handles of its open children, and registers
\* those that are live under the new one.
LEMMA AdoptedDrives ==
    ASSUME NEW c \in Conversations, NEW own \in {"current", "old"},
           NEW d \in [Conversations -> Drives]
    PROVE  /\ Adopted(c, own, d) \in [Conversations -> Drives]
           /\ \A k \in Conversations :
                 LET r == Adopted(c, own, d)[k]
                 IN  /\ Alike(r, d[k])
                     /\ r.runs = d[k].runs \/ (k \in Unresolved(session, c) /\ Live(k) /\ r.runs # "none")
                     /\ r.handle = d[k].handle \/ k \in Unresolved(session, c)
<1> DEFINE a == Adopted(c, own, d)
           flipped(k) == IF d[k].under = "old" THEN "current" ELSE "gone"
<1>1. \A k \in Conversations :
        \/ /\ a[k] = [d[k] EXCEPT !.under = own, !.runs = "current", !.handle = "started"]
           /\ k \in Unresolved(session, c) /\ Live(k)
        \/ a[k] = [d[k] EXCEPT !.under = own, !.handle = "unstarted"] /\ k \in Unresolved(session, c)
        \/ a[k] = [d[k] EXCEPT !.under = "gone"]
        \/ a[k] = [d[k] EXCEPT !.under = "old"]
        \/ a[k] = [d[k] EXCEPT !.under = flipped(k)]
        \/ a[k] = d[k]
  BY Zenon DEF Adopted, Restartable
<1>2. \A k \in Conversations : flipped(k) \in {"current", "old", "gone"}
  OBVIOUS
<1>3. a = [k \in Conversations |-> a[k]]
  BY DEF Adopted
<1> HIDE DEF a, flipped
<1>4. \A k \in Conversations :
        /\ a[k] \in Drives /\ Alike(a[k], d[k])
        /\ a[k].runs = d[k].runs \/ (k \in Unresolved(session, c) /\ Live(k) /\ a[k].runs # "none")
        /\ a[k].handle = d[k].handle \/ k \in Unresolved(session, c)
  <2> TAKE k \in Conversations
  <2>1. d[k] \in Drives
    OBVIOUS
  <2>2. CASE /\ a[k] = [d[k] EXCEPT !.under = own, !.runs = "current", !.handle = "started"]
             /\ k \in Unresolved(session, c) /\ Live(k)
    BY <2>1, <2>2, ZenonT(30) DEF Drives, Alike
  <2>3. CASE a[k] = [d[k] EXCEPT !.under = own, !.handle = "unstarted"] /\ k \in Unresolved(session, c)
    BY <2>1, <2>3 DEF Drives, Alike
  <2>4. CASE a[k] = [d[k] EXCEPT !.under = "gone"]
    BY <2>1, <2>4 DEF Drives, Alike
  <2>5. CASE a[k] = [d[k] EXCEPT !.under = "old"]
    BY <2>1, <2>5 DEF Drives, Alike
  <2>6. CASE a[k] = [d[k] EXCEPT !.under = flipped(k)]
    BY <1>2, <2>1, <2>6 DEF Drives, Alike
  <2>7. CASE a[k] = d[k]
    BY <2>1, <2>7 DEF Alike
  <2> QED  BY <1>1, <2>2, <2>3, <2>4, <2>5, <2>6, <2>7
<1>5. a \in [Conversations -> Drives]
  BY <1>3, <1>4
<1> QED  BY <1>4, <1>5 DEF a

\* Stirring a run only raises its flag.
LEMMA StirredDrives ==
    ASSUME NEW k \in Subagents, NEW d \in [Conversations -> Drives]
    PROVE  /\ Stirred(k, d) \in [Conversations -> Drives]
           /\ \A j \in Conversations :
                 LET r == Stirred(k, d)[j]
                 IN  Alike(r, d[j]) /\ r.runs = d[j].runs /\ r.handle = d[j].handle
<1> DEFINE p == Parent[k]
           r == [d[p] EXCEPT !.stir = TRUE]
<1>1. p \in Conversations
  BY Numbered
<1>2. d[p] \in Drives
  BY <1>1
<1>3. r \in Drives /\ Alike(r, d[p]) /\ r.runs = d[p].runs /\ r.handle = d[p].handle
  BY <1>2 DEF Drives, Alike
<1>4. [d EXCEPT ![p].stir = TRUE] = [d EXCEPT ![p] = r]
  BY <1>1
<1>5. Stirred(k, d) = d \/ Stirred(k, d) = [d EXCEPT ![p] = r]
  BY <1>4 DEF Stirred
<1> HIDE DEF p, r
<1>6. CASE Stirred(k, d) = d
  BY <1>6 DEF Alike
<1>7. CASE Stirred(k, d) = [d EXCEPT ![p] = r]
  <2>1. /\ Stirred(k, d) \in [Conversations -> Drives] /\ Stirred(k, d)[p] = r
        /\ \A j \in Conversations \ {p} : Stirred(k, d)[j] = d[j]
    BY <1>1, <1>3, <1>7
  <2> QED  BY <1>3, <2>1 DEF Alike
<1> QED  BY <1>5, <1>6, <1>7

\* A conversation a start of another does not drive: its registration and its
\* handle may be new, and it stands as it stood.
LEMMA Bystander ==
    ASSUME TreeInv, NEW c \in Conversations, NEW k \in Conversations \ {c},
           session'[k] = session[k], k \in working' <=> k \in working,
           Alike(drive'[k], drive[k]),
           drive'[k].runs = drive[k].runs \/ (Live(k) /\ drive'[k].runs # "none"),
           drive'[k].handle = drive[k].handle \/ k \in Unresolved(session, c)
    PROVE  Other(c, k)
<1>1. Fine(k, session[k], drive[k], k \in working)
  BY Stands
<1>2. k \in Unresolved(session, c) => k # Main /\ session[k].link # "unborn"
  BY Numbered DEF Unresolved, Kids
<1>3. Placed(k, session[k], drive'[k])
  BY <1>1, <1>2 DEF Fine, Placed, Alike, Live
<1>4. Slotted(k, session[k], drive'[k], k \in working')
  BY <1>1 DEF Fine, Slotted, Alike
<1> QED  BY <1>3, <1>4 DEF Other, Fine, Alike

\* The queue with some of its waiters marked.
LEMMA OutdatedQueue ==
    ASSUME NEW q \in Seq(WaiterRecords), NEW S
    PROVE  /\ Outdated(q, S) \in Seq(WaiterRecords) /\ Len(Outdated(q, S)) = Len(q)
           /\ \A i \in DOMAIN q :
                 Outdated(q, S)[i].conv = q[i].conv /\ Outdated(q, S)[i].kind = q[i].kind
<1> DEFINE W == WaiterRecords
           o == Outdated(q, S)
           marked(i) == [q[i] EXCEPT !.old = TRUE]
<1> HIDE DEF W
<1>1. q \in Seq(W)
  BY DEF W
<1>2. Len(q) \in Nat /\ DOMAIN q = 1..Len(q) /\ \A i \in DOMAIN q : q[i] \in W
  BY <1>1, LenProperties, ElementOfSeq
<1>3. \A i \in DOMAIN q : marked(i) \in W /\ marked(i).conv = q[i].conv /\ marked(i).kind = q[i].kind
  BY <1>2 DEF W, WaiterRecords
<1>4. o = [i \in DOMAIN q |-> IF q[i].conv \in S THEN marked(i) ELSE q[i]]
  BY DEF Outdated
<1> HIDE DEF marked, o
<1>5. o \in [1..Len(q) -> W]
  BY <1>2, <1>3, <1>4
<1>6. o \in Seq(W) /\ DOMAIN o = 1..Len(q)
  BY <1>2, <1>5, IsASeq
<1>7. Len(o) = Len(q)
  BY <1>2, <1>6, LenProperties
<1>8. \A i \in DOMAIN q : o[i].conv = q[i].conv /\ o[i].kind = q[i].kind
  BY <1>3, <1>4
<1> QED  BY <1>6, <1>7, <1>8 DEF o, W

\* The children a start restarts: open links.
LEMMA RestartableKids ==
    ASSUME NEW c \in Conversations
    PROVE  /\ Restartable(c) \subseteq Subagents
           /\ \A k \in Restartable(c) : session[k].link = "open"
BY DEF Restartable, Unresolved, Kids

-----------------------------------------------------------------------------
(* The grants.                                                             *)

\* Requests a grant may leave behind: of subagents that exist, and no resume.
Fresh(s, requests) ==
    /\ requests \in Seq(Requests)
    /\ \A i \in DOMAIN requests :
          /\ requests[i].op # "resume"
          /\ requests[i].op # "drive" => s[requests[i].conv].link # "unborn"

\* The queue, perhaps less its head.
QueueFrom(q) ==
    /\ q \in Seq(WaiterRecords)
    /\ \E n \in {0, 1} :
          /\ Len(q) <= Len(waiters) - n
          /\ \A i \in DOMAIN q : q[i].conv = waiters[i + n].conv /\ q[i].kind = waiters[i + n].kind

\* Two lists of requests, one after the other.
LEMMA FreshJoined ==
    ASSUME NEW s, NEW a, NEW b, Fresh(s, a), Fresh(s, b)
    PROVE  Fresh(s, a \o b)
<1> DEFINE R == Requests
           ok(r) == r.op # "resume" /\ (r.op # "drive" => s[r.conv].link # "unborn")
<1> HIDE DEF R
<1>1. a \in Seq(R) /\ b \in Seq(R)
  BY DEF Fresh, R
<1>2. (\A i \in DOMAIN a : ok(a[i])) /\ (\A i \in DOMAIN b : ok(b[i]))
  BY DEF Fresh
<1> HIDE DEF ok
<1>3. /\ a \o b \in Seq(R) /\ Len(a \o b) = Len(a) + Len(b)
      /\ \A i \in 1 .. Len(a) + Len(b) :
            (a \o b)[i] = IF i <= Len(a) THEN a[i] ELSE b[i - Len(a)]
  BY <1>1, ConcatProperties
<1>4. /\ Len(a) \in Nat /\ DOMAIN a = 1..Len(a) /\ Len(b) \in Nat /\ DOMAIN b = 1..Len(b)
      /\ DOMAIN (a \o b) = 1..(Len(a) + Len(b))
  BY <1>1, <1>3, LenProperties
<1>5. \A i \in DOMAIN (a \o b) : ok((a \o b)[i])
  <2> TAKE i \in DOMAIN (a \o b)
  <2>1. CASE i <= Len(a)
    <3>1. i \in DOMAIN a /\ (a \o b)[i] = a[i]
      BY <1>3, <1>4, <2>1
    <3> QED  BY <1>2, <3>1
  <2>2. CASE ~(i <= Len(a))
    <3>1. i - Len(a) \in DOMAIN b /\ (a \o b)[i] = b[i - Len(a)]
      BY <1>3, <1>4, <2>2
    <3> QED  BY <1>2, <3>1
  <2> QED  BY <2>1, <2>2
<1> QED  BY <1>3, <1>5 DEF Fresh, R, ok

\* The requests of the children a start restarts.
LEMMA FreshRestarts ==
    ASSUME NEW c \in Conversations PROVE Fresh(session, SlotRequests(Restartable(c)))
BY RestartableKids, SlotRequestsOf DEF Fresh

\* A request to look again.
LEMMA FreshWake ==
    ASSUME NEW s, NEW c \in Conversations PROVE Fresh(s, <<WakeRequest(c)>>)
<1>1. \A i \in DOMAIN <<WakeRequest(c)>> : i = 1
  OBVIOUS
<1> QED  BY <1>1, WakeRequestOf DEF Fresh

\* The links of every conversation are as they were: what is left to do stays fresh.
LEMMA FreshTodo ==
    ASSUME Fresh(session, todo'), \A k \in Conversations : session'[k].link = session[k].link
    PROVE  todo' \in Seq(Requests) /\ TodoIsFresh
<1> DEFINE R == Requests
<1> HIDE DEF R
<1>1. todo' \in Seq(R)
  BY DEF Fresh, R
<1>2. DOMAIN todo' = 1..Len(todo') /\ \A i \in DOMAIN todo' : todo'[i] \in R
  BY <1>1, LenProperties, ElementOfSeq
<1>3. \A r \in Requests : r.conv \in Conversations
  BY DEF Requests, SlotRequestRecords, Conversations
<1>4. \A i \in DOMAIN todo' : todo'[i].conv \in Conversations
  BY <1>2, <1>3 DEF R
<1> QED  BY <1>4 DEF Fresh, TodoIsFresh

\* Marked or not, the queue moves as the one the grant was given.
LEMMA GrantedQueue ==
    ASSUME NEW q, QueueFrom(q), NEW S, waiters' = q \/ waiters' = Outdated(q, S)
    PROVE  waiters' \in Seq(WaiterRecords) /\ QueueMoves
<1>1. PICK n \in {0, 1} :
          /\ Len(q) <= Len(waiters) - n
          /\ \A i \in DOMAIN q : q[i].conv = waiters[i + n].conv /\ q[i].kind = waiters[i + n].kind
  BY DEF QueueFrom
<1>2. q \in Seq(WaiterRecords)
  BY DEF QueueFrom
<1>3. /\ waiters' \in Seq(WaiterRecords) /\ Len(waiters') = Len(q)
      /\ \A i \in DOMAIN q : waiters'[i].conv = q[i].conv /\ waiters'[i].kind = q[i].kind
  BY <1>2, OutdatedQueue
<1> DEFINE W == WaiterRecords
<1> HIDE DEF W
<1>4. q \in Seq(W) /\ waiters' \in Seq(W)
  BY <1>2, <1>3 DEF W
<1>5. DOMAIN waiters' = DOMAIN q
  BY <1>3, <1>4, LenProperties
<1> QED  BY <1>1, <1>3, <1>5 DEF QueueMoves

\* start() on the main conversation.
LEMMA StartRunStep == ASSUME TreeInv, StartRun PROVE TreeInv' /\ LinksKept
<1> DEFINE o == Opened(session[Main])
           d0 == [NoDrive EXCEPT !.pc = "created", !.runs = "current", !.recheck = drive[Main].recheck]
           d == [drive EXCEPT ![Main] = d0]
           c == Main
<1>1. /\ session' = [session EXCEPT ![c] = o] /\ drive' = Adopted(c, "current", d)
      /\ waiters' = Outdated(waiters, Replaced(c)) /\ todo' = SlotRequests(Restartable(c))
      /\ UNCHANGED <<working, failed>> /\ Spend("runs", MaxRuns) /\ ~Live(c)
  BY DEF StartRun
<1>2. c \in Conversations
  BY DEF Conversations
<1>3. session[c] \in Entries /\ drive[c] \in Drives /\ Fine(c, session[c], drive[c], c \in working)
  BY <1>2, Stands
<1>4. /\ o \in Entries /\ o.turn = "open" /\ o.link = session[c].link /\ o.cancel = session[c].cancel
      /\ o.spawns = session[c].spawns /\ o.steps = session[c].steps
  BY <1>3, OpenedEntry
<1>5. /\ d0 \in Drives /\ d0.pc = "created" /\ d0.runs = "current" /\ d0.handle = "none"
  BY <1>3, ZenonT(30) DEF NoDrive, Drives, Locations
<1> HIDE DEF o, d0
<1>6. /\ d \in [Conversations -> Drives] /\ d[c] = d0
      /\ \A k \in Conversations \ {c} : d[k] = drive[k]
  BY <1>2, <1>5 DEF TreeInv, TreeTypes
<1>7. /\ session' \in [Conversations -> Entries] /\ session'[c] = o
      /\ \A k \in Conversations \ {c} : session'[k] = session[k]
  BY <1>1, <1>2, <1>4 DEF TreeInv, TreeTypes
<1> HIDE DEF d
<1>8. /\ drive' \in [Conversations -> Drives]
      /\ \A k \in Conversations :
            /\ Alike(drive'[k], d[k])
            /\ drive'[k].runs = d[k].runs \/ (k \in Unresolved(session, c) /\ Live(k) /\ drive'[k].runs # "none")
            /\ drive'[k].handle = d[k].handle \/ k \in Unresolved(session, c)
  BY <1>1, <1>2, <1>6, AdoptedDrives
<1>9. c \notin Unresolved(session, c) /\ ~NeedsSlot(c) /\ c \notin working
  BY <1>2, Numbered DEF Unresolved, NeedsSlot, TreeInv, TreeTypes
<1>10. \A k \in Conversations \ {c} : Other(c, k)
  BY <1>1, <1>2, <1>6, <1>7, <1>8, Bystander
<1>11. Own(c)
  <2>1. /\ drive'[c].pc = "created" /\ drive'[c].runs = "current" /\ drive'[c].handle = "none"
    BY <1>2, <1>5, <1>6, <1>8, <1>9 DEF Alike
  <2>2. Fine(c, o, drive'[c], c \in working')
    BY <1>1, <1>4, <1>9, <2>1 DEF Fine, Placed, Slotted
  <2>3. drive[c].pc = "off"
    BY <1>1, <1>3 DEF Fine, Placed, Live
  <2>4. o.spawns \subseteq {k \in Kids(c) : session'[k].link = "unborn"}
    <3>1. session[c].spawns \subseteq {k \in Kids(c) : session[k].link = "unborn"} /\ Kids(c) \subseteq Conversations
      BY <1>2, Stands, Numbered DEF Conversations
    <3>2. c \notin Kids(c)
      BY <1>2, Numbered
    <3> QED  BY <1>4, <1>7, <3>1, <3>2
  <2> QED  BY <1>4, <1>7, <2>1, <2>2, <2>3, <2>4 DEF Own, Resolvers
<1>12. QueueFrom(waiters)
  <2>2. Len(waiters) \in Nat /\ DOMAIN waiters = 1..Len(waiters)
    BY QueueTypes DEF TreeInv
  <2>3. Len(waiters) <= Len(waiters) - 0 /\ \A i \in DOMAIN waiters : i + 0 = i
    BY <2>2
  <2> QED  BY <2>3 DEF QueueFrom, TreeInv, TreeTypes
<1>13. waiters' \in Seq(WaiterRecords) /\ QueueMoves
  BY <1>1, <1>12, GrantedQueue
<1>14. \A k \in Conversations : session'[k].link = session[k].link
  BY <1>4, <1>7
<1>15. todo' \in Seq(Requests) /\ TodoIsFresh
  BY <1>1, <1>2, <1>14, FreshRestarts, FreshTodo
<1>16. TreeTypes'
  <2>1. used' \in Counters
    BY <1>1 DEF Spend, Counters, TreeInv, TreeTypes
  <2> QED  BY <1>1, <1>7, <1>8, <1>13, <1>15, <2>1 DEF TreeInv, TreeTypes
<1> QED  BY <1>2, <1>10, <1>11, <1>13, <1>15, <1>16, Framed

\* What a grant to k assumes: k exists and is not queued for its own slot, and
\* when slots are counted its turn is not over.
Grantable(k) ==
    /\ k \in Subagents
    /\ session[k].link # "unborn"
    /\ drive[k].pc # "acquiring"
    /\ NeedsSlot(k) => session[k].turn \in {"seeded", "open"}

\* A grant that starts k, or restarts its drive, keeps the invariant when k does.
LEMMA GrantedStep ==
    ASSUME TreeInv, NEW k \in Conversations, Grantable(k),
           session' \in [Conversations -> Entries], drive' \in [Conversations -> Drives],
           session'[k].link = session[k].link, session'[k].spawns = session[k].spawns,
           \A j \in Conversations \ {k} :
              /\ session'[j] = session[j]
              /\ Alike(drive'[j], drive[j])
              /\ drive'[j].runs = drive[j].runs \/ (Live(j) /\ drive'[j].runs # "none")
              /\ drive'[j].handle = drive[j].handle \/ j \in Unresolved(session, k),
           working' \subseteq working \cup {k}, working \subseteq working',
           failed' \subseteq Subagents, used' \in Counters,
           drive'[k].pc \in Resolvers => drive'[k].pc = drive[k].pc /\ drive'[k].pending = drive[k].pending,
           Fine(k, session'[k], drive'[k], k \in working'),
           waiters' \in Seq(WaiterRecords), QueueMoves, Fresh(session, todo')
    PROVE  TreeInv' /\ LinksKept
<1>1. \A j \in Conversations : session'[j].link = session[j].link
  OBVIOUS
<1>2. todo' \in Seq(Requests) /\ TodoIsFresh
  BY <1>1, FreshTodo
<1>3. TreeTypes'
  BY <1>2 DEF TreeInv, TreeTypes, Grantable
<1>4. \A j \in Conversations \ {k} : Other(k, j)
  BY Bystander
<1>5. Own(k)
  <2>1. Kids(k) \subseteq Conversations
    BY Numbered DEF Conversations
  <2>2. /\ session[k].spawns \subseteq {j \in Kids(k) : session[j].link = "unborn"}
        /\ drive[k].pc \in Resolvers => drive[k].pending \subseteq Unresolved(session, k)
    BY DEF TreeInv, FamilyInv
  <2>3. session'[k].spawns \subseteq {j \in Kids(k) : session'[j].link = "unborn"}
    BY <1>1, <2>1, <2>2
  <2>4. Unresolved(session', k) = Unresolved(session, k)
    BY <1>1, <2>1 DEF Unresolved
  <2> QED  BY <2>2, <2>3, <2>4 DEF Own, Grantable
<1> QED  BY <1>2, <1>3, <1>4, <1>5, Framed

\* A subagent's drive starts.
LEMMA GrantStartStep ==
    ASSUME TreeInv, NEW w \in WaiterRecords, NEW q, NEW rest, Grantable(w.conv),
           QueueFrom(q), Fresh(session, rest), GrantStart(w, q, rest)
    PROVE  TreeInv' /\ LinksKept
<1> DEFINE k == w.conv
           own == HandleOf(w)
           handle == IF w.old THEN drive[k].handle ELSE "started"
           o == Opened(session[k])
           d0 == [drive[k] EXCEPT !.pc = "created", !.token = FALSE, !.runs = own, !.handle = handle]
           d == [drive EXCEPT ![k] = d0]
           a == Adopted(k, own, d)
<1>1. /\ session' = [session EXCEPT ![k] = o] /\ drive' = Stirred(k, a)
      /\ working' = IF NeedsSlot(k) THEN working \cup {k} ELSE working
      /\ waiters' = Outdated(q, Replaced(k))
      /\ todo' = SlotRequests(Restartable(k)) \o rest
      /\ UNCHANGED <<failed, used>>
  BY DEF GrantStart
<1>2. k \in Subagents /\ k \in Conversations /\ k # Main /\ session[k].link # "unborn"
      /\ k \notin Unresolved(session, k)
  BY Numbered DEF Grantable, Conversations, Unresolved
<1>3. session[k] \in Entries /\ drive[k] \in Drives /\ Fine(k, session[k], drive[k], k \in working)
  BY <1>2, Stands
<1>4. own \in {"current", "old"} /\ handle \in {"none", "unstarted", "started", "abandoned"}
  BY <1>3 DEF HandleOf, Drives
<1> HIDE DEF own, handle
<1>5. /\ o \in Entries /\ o.turn = "open" /\ o.link = session[k].link /\ o.cancel = session[k].cancel
      /\ o.spawns = session[k].spawns /\ o.steps = session[k].steps
  BY <1>3, OpenedEntry
<1>6. /\ d0 \in Drives /\ d0.pc = "created" /\ d0.runs = own /\ d0.token = FALSE
  BY <1>3, <1>4, ZenonT(30) DEF Drives, Locations
<1> HIDE DEF o, d0
<1>7. /\ d \in [Conversations -> Drives] /\ d[k] = d0
      /\ \A j \in Conversations \ {k} : d[j] = drive[j]
  BY <1>2, <1>6 DEF TreeInv, TreeTypes
<1>8. /\ session' \in [Conversations -> Entries] /\ session'[k] = o
      /\ \A j \in Conversations \ {k} : session'[j] = session[j]
  BY <1>1, <1>2, <1>5 DEF TreeInv, TreeTypes
<1> HIDE DEF d
<1>9. /\ a \in [Conversations -> Drives]
      /\ \A j \in Conversations :
            /\ Alike(a[j], d[j])
            /\ a[j].runs = d[j].runs \/ (j \in Unresolved(session, k) /\ Live(j) /\ a[j].runs # "none")
            /\ a[j].handle = d[j].handle \/ j \in Unresolved(session, k)
  BY <1>2, <1>4, <1>7, AdoptedDrives
<1> HIDE DEF a
<1>10. /\ drive' \in [Conversations -> Drives]
       /\ \A j \in Conversations :
             Alike(drive'[j], a[j]) /\ drive'[j].runs = a[j].runs /\ drive'[j].handle = a[j].handle
  BY <1>1, <1>2, <1>9, StirredDrives
<1>11. \A j \in Conversations \ {k} :
              /\ session'[j] = session[j]
              /\ Alike(drive'[j], drive[j])
              /\ drive'[j].runs = drive[j].runs \/ (Live(j) /\ drive'[j].runs # "none")
              /\ drive'[j].handle = drive[j].handle \/ j \in Unresolved(session, k)
  BY <1>7, <1>8, <1>9, <1>10 DEF Alike
<1>12. drive'[k].pc = "created" /\ drive'[k].runs = own /\ drive'[k].token = FALSE
  BY <1>2, <1>6, <1>7, <1>9, <1>10 DEF Alike
<1>13. Fine(k, o, drive'[k], k \in working')
  <2>1. k \in working' \/ ~NeedsSlot(k)
    BY <1>1
  <2> QED  BY <1>2, <1>4, <1>5, <1>12, <2>1 DEF Fine, Placed, Slotted, InTurn, Looping, Synchronous, Slotless
<1>14. waiters' \in Seq(WaiterRecords) /\ QueueMoves
  BY <1>1, GrantedQueue
<1>15. Fresh(session, todo')
  BY <1>1, <1>2, FreshRestarts, FreshJoined
<1>16. /\ working' \subseteq working \cup {k} /\ working \subseteq working'
       /\ failed' \subseteq Subagents /\ used' \in Counters
  BY <1>1 DEF TreeInv, TreeTypes
<1>17. drive'[k].pc \in Resolvers => drive'[k].pc = drive[k].pc /\ drive'[k].pending = drive[k].pending
  BY <1>12 DEF Resolvers
<1> HIDE DEF k
<1>18. Grantable(k)
  BY DEF k
<1> QED
  BY <1>2, <1>5, <1>8, <1>10, <1>11, <1>13, <1>14, <1>15, <1>16, <1>17, <1>18, GrantedStep

\* A start that raises: the handle is abandoned and nothing else of k moves.
LEMMA GrantFailsStep ==
    ASSUME TreeInv, NEW w \in WaiterRecords, NEW q, NEW rest, Grantable(w.conv),
           QueueFrom(q), Fresh(session, rest), GrantFails(w, q, rest)
    PROVE  TreeInv' /\ LinksKept
<1> DEFINE k == w.conv
           own == HandleOf(w)
           handle == IF w.old THEN drive[k].handle ELSE "abandoned"
           d0 == [drive[k] EXCEPT !.handle = handle]
           d == [drive EXCEPT ![k] = d0]
           a == Adopted(k, own, d)
<1>1. /\ session' = session /\ drive' = Stirred(k, a) /\ working' = working
      /\ waiters' = Outdated(q, Replaced(k))
      /\ todo' = SlotRequests(Restartable(k)) \o <<WakeRequest(Parent[k])>> \o rest
      /\ failed' = failed \cup {k} /\ Spend("failures", MaxFailures)
  BY DEF GrantFails
<1>2. k \in Subagents /\ k \in Conversations /\ k # Main /\ session[k].link # "unborn"
      /\ k \notin Unresolved(session, k) /\ Parent[k] \in Conversations
  BY Numbered DEF Grantable, Conversations, Unresolved
<1>3. session[k] \in Entries /\ drive[k] \in Drives /\ Fine(k, session[k], drive[k], k \in working)
  BY <1>2, Stands
<1>4. own \in {"current", "old"} /\ handle \in {"none", "unstarted", "started", "abandoned"}
  BY <1>3 DEF HandleOf, Drives
<1> HIDE DEF own, handle
<1>5. /\ d0 \in Drives /\ Alike(d0, drive[k]) /\ d0.runs = drive[k].runs
  BY <1>3, <1>4 DEF Drives, Alike
<1> HIDE DEF d0
<1>6. /\ d \in [Conversations -> Drives] /\ d[k] = d0
      /\ \A j \in Conversations \ {k} : d[j] = drive[j]
  BY <1>2, <1>5 DEF TreeInv, TreeTypes
<1> HIDE DEF d
<1>7. /\ a \in [Conversations -> Drives]
      /\ \A j \in Conversations :
            /\ Alike(a[j], d[j])
            /\ a[j].runs = d[j].runs \/ (j \in Unresolved(session, k) /\ Live(j) /\ a[j].runs # "none")
            /\ a[j].handle = d[j].handle \/ j \in Unresolved(session, k)
  BY <1>2, <1>4, <1>6, AdoptedDrives
<1> HIDE DEF a
<1>8. /\ drive' \in [Conversations -> Drives]
      /\ \A j \in Conversations :
            Alike(drive'[j], a[j]) /\ drive'[j].runs = a[j].runs /\ drive'[j].handle = a[j].handle
  BY <1>1, <1>2, <1>7, StirredDrives
<1>9. \A j \in Conversations \ {k} :
              /\ session'[j] = session[j]
              /\ Alike(drive'[j], drive[j])
              /\ drive'[j].runs = drive[j].runs \/ (Live(j) /\ drive'[j].runs # "none")
              /\ drive'[j].handle = drive[j].handle \/ j \in Unresolved(session, k)
  BY <1>1, <1>6, <1>7, <1>8 DEF Alike
<1>10. Alike(drive'[k], drive[k]) /\ drive'[k].runs = drive[k].runs
  BY <1>2, <1>5, <1>6, <1>7, <1>8 DEF Alike
<1>11. Fine(k, session'[k], drive'[k], k \in working')
  BY <1>1, <1>2, <1>3, <1>10 DEF Fine, Placed, Slotted, Alike
<1>12. waiters' \in Seq(WaiterRecords) /\ QueueMoves
  BY <1>1, GrantedQueue
<1>13. Fresh(session, todo')
  BY <1>1, <1>2, FreshRestarts, FreshWake, FreshJoined
<1>14. /\ working' \subseteq working \cup {k} /\ working \subseteq working'
       /\ failed' \subseteq Subagents /\ used' \in Counters
       /\ session' \in [Conversations -> Entries]
       /\ session'[k].link = session[k].link /\ session'[k].spawns = session[k].spawns
  BY <1>1, <1>2 DEF TreeInv, TreeTypes, Spend, Counters
<1>15. drive'[k].pc \in Resolvers => drive'[k].pc = drive[k].pc /\ drive'[k].pending = drive[k].pending
  BY <1>10 DEF Alike
<1> HIDE DEF k
<1>16. Grantable(k)
  BY DEF k
<1> QED
  BY <1>2, <1>8, <1>9, <1>11, <1>12, <1>13, <1>14, <1>15, <1>16, GrantedStep

\* A drive that ended is started again on its handle.
LEMMA GrantRedriveStep ==
    ASSUME TreeInv, NEW w \in WaiterRecords, NEW q, NEW rest, Grantable(w.conv),
           QueueFrom(q), Fresh(session, rest), GrantRedrive(w, q, rest)
    PROVE  TreeInv' /\ LinksKept
<1> DEFINE k == w.conv
           own == HandleOf(w)
           d0 == [drive[k] EXCEPT !.pc = "created", !.runs = own]
           d == [drive EXCEPT ![k] = d0]
<1>1. /\ session' = session /\ drive' = Stirred(k, d)
      /\ working' = IF NeedsSlot(k) THEN working \cup {k} ELSE working
      /\ waiters' = q /\ todo' = rest /\ UNCHANGED <<failed, used>>
  BY DEF GrantRedrive
<1>2. k \in Subagents /\ k \in Conversations /\ k # Main /\ session[k].link # "unborn"
  BY Numbered DEF Grantable, Conversations
<1>3. session[k] \in Entries /\ drive[k] \in Drives /\ Fine(k, session[k], drive[k], k \in working)
  BY <1>2, Stands
<1>4. own \in {"current", "old"}
  BY DEF HandleOf
<1> HIDE DEF own
<1>5. /\ d0 \in Drives /\ d0.pc = "created" /\ d0.runs = own /\ d0.token = drive[k].token
  BY <1>3, <1>4 DEF Drives, Locations
<1> HIDE DEF d0
<1>6. /\ d \in [Conversations -> Drives] /\ d[k] = d0
      /\ \A j \in Conversations \ {k} : d[j] = drive[j]
  BY <1>2, <1>5 DEF TreeInv, TreeTypes
<1> HIDE DEF d
<1>7. /\ drive' \in [Conversations -> Drives]
      /\ \A j \in Conversations :
            Alike(drive'[j], d[j]) /\ drive'[j].runs = d[j].runs /\ drive'[j].handle = d[j].handle
  BY <1>1, <1>2, <1>6, StirredDrives
<1>8. \A j \in Conversations \ {k} :
              /\ session'[j] = session[j]
              /\ Alike(drive'[j], drive[j])
              /\ drive'[j].runs = drive[j].runs \/ (Live(j) /\ drive'[j].runs # "none")
              /\ drive'[j].handle = drive[j].handle \/ j \in Unresolved(session, k)
  BY <1>1, <1>6, <1>7
<1>9. drive'[k].pc = "created" /\ drive'[k].runs = own /\ drive'[k].token = drive[k].token
  BY <1>2, <1>5, <1>6, <1>7 DEF Alike
<1>10. Fine(k, session'[k], drive'[k], k \in working')
  <2>1. k \in working' \/ ~NeedsSlot(k)
    BY <1>1
  <2>2. NeedsSlot(k) => session[k].turn \in {"seeded", "open"}
    BY DEF Grantable
  <2> QED
    BY <1>1, <1>2, <1>3, <1>4, <1>9, <2>1, <2>2
       DEF Fine, Placed, Slotted, InTurn, Looping, Synchronous, Slotless
<1>11. waiters' \in Seq(WaiterRecords) /\ QueueMoves
  BY <1>1, GrantedQueue
<1>12. Fresh(session, todo')
  BY <1>1
<1>13. /\ working' \subseteq working \cup {k} /\ working \subseteq working'
       /\ failed' \subseteq Subagents /\ used' \in Counters
       /\ session' \in [Conversations -> Entries]
       /\ session'[k].link = session[k].link /\ session'[k].spawns = session[k].spawns
  BY <1>1, <1>2 DEF TreeInv, TreeTypes
<1>14. drive'[k].pc \in Resolvers => drive'[k].pc = drive[k].pc /\ drive'[k].pending = drive[k].pending
  BY <1>9 DEF Resolvers
<1> HIDE DEF k
<1>15. Grantable(k)
  BY DEF k
<1> QED
  BY <1>2, <1>7, <1>8, <1>10, <1>11, <1>12, <1>13, <1>14, <1>15, GrantedStep

-----------------------------------------------------------------------------
(* The pool.                                                               *)

\* The queue's head, and what is behind it.
LEMMA QueueHead ==
    ASSUME TreeInv, waiters # <<>>
    PROVE  /\ Head(waiters) = waiters[1] /\ 1 \in DOMAIN waiters /\ waiters[1] \in WaiterRecords
           /\ Tail(waiters) \in Seq(WaiterRecords)
           /\ \A i \in DOMAIN Tail(waiters) :
                 i \in Nat /\ i + 1 \in DOMAIN waiters /\ i + 1 # 1 /\ Tail(waiters)[i] = waiters[i + 1]
           /\ QueueFrom(Tail(waiters))
<1> DEFINE W == WaiterRecords
           t == Tail(waiters)
<1> HIDE DEF W
<1>1. waiters \in Seq(W)
  BY DEF TreeInv, TreeTypes, W
<1>2. /\ t \in Seq(W) /\ Len(t) = Len(waiters) - 1
      /\ \A i \in 1..Len(t) : t[i] = waiters[i + 1]
  BY <1>1, HeadTailProperties
<1>3. Len(waiters) \in Nat \ {0} /\ DOMAIN waiters = 1..Len(waiters)
  BY <1>1, EmptySeq, LenProperties
<1>4. DOMAIN t = 1..Len(t)
  BY <1>2, LenProperties
<1>5. Head(waiters) = waiters[1]
  BY <1>1
<1>6. 1 \in DOMAIN waiters /\ waiters[1] \in W
  BY <1>1, <1>3, ElementOfSeq
<1> HIDE DEF t
<1>7. \A i \in DOMAIN t : i \in Nat /\ i + 1 \in DOMAIN waiters /\ i + 1 # 1 /\ t[i] = waiters[i + 1]
  BY <1>2, <1>3, <1>4
<1>8. Len(t) <= Len(waiters) - 1
  BY <1>2, <1>3
<1>9. QueueFrom(t)
  BY <1>2, <1>7, <1>8 DEF QueueFrom, W
<1> QED  BY <1>2, <1>5, <1>6, <1>7, <1>9 DEF t, W

\* The first thing to do, and what comes after it.
LEMMA TodoHead ==
    ASSUME TreeInv, todo # <<>>
    PROVE  /\ Head(todo) = todo[1] /\ 1 \in DOMAIN todo /\ todo[1] \in Requests
           /\ Tail(todo) \in Seq(Requests)
           /\ Len(todo) = 1 => Tail(todo) = <<>>
           /\ \A i \in DOMAIN Tail(todo) :
                 i + 1 \in DOMAIN todo /\ Len(todo) # 1 /\ Tail(todo)[i] = todo[i + 1]
<1> DEFINE R == Requests
           t == Tail(todo)
<1> HIDE DEF R
<1>1. todo \in Seq(R)
  BY DEF TreeInv, TreeTypes, R
<1>2. /\ t \in Seq(R) /\ Len(t) = Len(todo) - 1
      /\ \A i \in 1..Len(t) : t[i] = todo[i + 1]
  BY <1>1, HeadTailProperties
<1>3. Len(todo) \in Nat \ {0} /\ DOMAIN todo = 1..Len(todo)
  BY <1>1, EmptySeq, LenProperties
<1>4. DOMAIN t = 1..Len(t)
  BY <1>2, LenProperties
<1>5. Head(todo) = todo[1]
  BY <1>1
<1>6. 1 \in DOMAIN todo /\ todo[1] \in R
  BY <1>1, <1>3, ElementOfSeq
<1> HIDE DEF t
<1>7. \A i \in DOMAIN t : i + 1 \in DOMAIN todo /\ Len(todo) # 1 /\ t[i] = todo[i + 1]
  BY <1>2, <1>3, <1>4
<1>8. Len(todo) = 1 => t = <<>>
  BY <1>2, EmptySeq
<1> QED  BY <1>2, <1>5, <1>6, <1>7, <1>8 DEF t, R

\* When nobody is to be resumed, what is left to do is fresh.
LEMMA TodoFresh ==
    ASSUME TreeInv, \A i \in DOMAIN todo : todo[i].op # "resume"
    PROVE  Fresh(session, todo) /\ (todo # <<>> => Fresh(session, Tail(todo)))
<1>1. Fresh(session, todo)
  BY DEF Fresh, TreeInv, TreeTypes, QueueInv
<1>2. todo # <<>> => Fresh(session, Tail(todo))
  BY <1>1, TodoHead DEF Fresh
<1> QED  BY <1>1, <1>2

\* The queue as it is.
LEMMA WholeQueue == ASSUME TreeInv PROVE QueueFrom(waiters)
<1>1. Len(waiters) \in Nat /\ DOMAIN waiters = 1..Len(waiters)
  BY QueueTypes DEF TreeInv
<1>2. Len(waiters) <= Len(waiters) - 0 /\ \A i \in DOMAIN waiters : i + 0 = i
  BY <1>1
<1> QED  BY <1>2 DEF QueueFrom, TreeInv, TreeTypes

\* A parked drive at the head of the queue gets its slot back.
LEMMA GrantResumeStep ==
    ASSUME TreeInv, PumpReady, GrantResume(Head(waiters), Tail(waiters), todo)
    PROVE  TreeInv' /\ LinksKept
<1> DEFINE w == waiters[1]
           k == w.conv
           d == [drive[k] EXCEPT !.pc = "again"]
<1>1. waiters # <<>> /\ Head(waiters) = w
  BY QueueHead DEF PumpReady
<1>2. /\ 1 \in DOMAIN waiters /\ w \in WaiterRecords
      /\ Tail(waiters) \in Seq(WaiterRecords)
      /\ \A i \in DOMAIN Tail(waiters) :
            i \in Nat /\ i + 1 \in DOMAIN waiters /\ i + 1 # 1 /\ Tail(waiters)[i] = waiters[i + 1]
  BY <1>1, QueueHead
<1>3. w.kind = "resume"
  BY <1>1 DEF GrantResume
<1>4. k \in Subagents /\ k \in Conversations
  BY <1>2 DEF WaiterRecords, Conversations
<1>5. drive[k].pc = "acquiring"
  BY <1>2, <1>3 DEF TreeInv, QueueInv
<1>6. drive[k] \in Drives /\ Fine(k, session[k], drive[k], k \in working) /\ k # Main
  BY <1>4, Stands, Numbered
<1>7. NeedsSlot(k)
  BY <1>5, <1>6 DEF Fine, Placed
<1>8. /\ drive' = [drive EXCEPT ![k] = d] /\ working' = working \cup {k} /\ waiters' = Tail(waiters)
      /\ UNCHANGED <<session, todo, failed, used>>
  BY <1>1, <1>5, <1>7 DEF GrantResume
<1>9. /\ d \in Drives /\ d.pc = "again" /\ d.runs = drive[k].runs /\ d.handle = drive[k].handle
      /\ d.token = drive[k].token
  BY <1>6 DEF Drives, Locations, Looping
<1> HIDE DEF d, w
<1>10. /\ drive' \in [Conversations -> Drives] /\ drive'[k] = d
       /\ \A j \in Conversations \ {k} : drive'[j] = drive[j]
  BY <1>4, <1>8, <1>9 DEF TreeInv, TreeTypes
<1>11. TreeTypes'
  BY <1>2, <1>4, <1>8, <1>10 DEF TreeInv, TreeTypes
<1>12. FineInv'
  <2>1. Fine(k, session[k], d, TRUE)
    BY <1>5, <1>6, <1>9
       DEF Fine, Placed, Slotted, Holders, Slotless, InTurn, Looping, Synchronous
  <2>2. \A j \in Conversations : Fine(j, session[j], drive'[j], j \in working')
    <3> TAKE j \in Conversations
    <3>1. CASE j = k
      BY <1>8, <1>10, <2>1, <3>1
    <3>2. CASE j # k
      <4>1. drive'[j] = drive[j] /\ (j \in working') = (j \in working)
        BY <1>8, <1>10, <3>2
      <4>2. Fine(j, session[j], drive[j], j \in working)
        BY Stands
      <4> QED  BY <4>1, <4>2
    <3> QED  BY <3>1, <3>2
  <2> QED  BY <1>8, <2>2 DEF FineInv
<1>13. FamilyInv'
  BY <1>8, <1>9, <1>10 DEF TreeInv, FamilyInv, Unresolved, Resolvers
<1>14. QueueInv'
  <2>1. \A i \in DOMAIN waiters :
          /\ session[waiters[i].conv].link # "unborn"
          /\ waiters[i].kind = "resume" => drive[waiters[i].conv].pc = "acquiring"
          /\ waiters[i].conv \in Conversations
    BY QueueTypes DEF TreeInv, QueueInv, WaiterRecords, Conversations
  <2>2. \A i, j \in DOMAIN waiters :
          /\ waiters[i].kind = "resume" /\ waiters[j].kind = "resume"
          /\ waiters[i].conv = waiters[j].conv
          => i = j
    BY DEF TreeInv, QueueInv
  <2>3. \A i \in DOMAIN waiters' :
          /\ session'[waiters'[i].conv].link # "unborn"
          /\ waiters'[i].kind = "resume" => drive'[waiters'[i].conv].pc = "acquiring"
    <3> TAKE i \in DOMAIN waiters'
    <3>1. i + 1 \in DOMAIN waiters /\ i + 1 # 1 /\ waiters'[i] = waiters[i + 1]
      BY <1>2, <1>8
    <3>2. waiters'[i].kind = "resume" => waiters'[i].conv # k
      BY <1>2, <1>3, <2>2, <3>1 DEF w
    <3> QED  BY <1>8, <1>10, <2>1, <3>1, <3>2
  <2>4. \A i, j \in DOMAIN waiters' :
          /\ waiters'[i].kind = "resume" /\ waiters'[j].kind = "resume"
          /\ waiters'[i].conv = waiters'[j].conv
          => i = j
    <3> TAKE i, j \in DOMAIN waiters'
    <3> HAVE waiters'[i].kind = "resume" /\ waiters'[j].kind = "resume" /\ waiters'[i].conv = waiters'[j].conv
    <3>1. i \in Nat /\ j \in Nat /\ i + 1 \in DOMAIN waiters /\ waiters'[i] = waiters[i + 1]
          /\ j + 1 \in DOMAIN waiters /\ waiters'[j] = waiters[j + 1]
      BY <1>2, <1>8
    <3>2. i + 1 = j + 1
      BY <2>2, <3>1
    <3> QED  BY <3>1, <3>2
  <2>5. \A i \in DOMAIN todo' :
          /\ todo'[i].op # "drive" => session'[todo'[i].conv].link # "unborn"
          /\ todo'[i].op # "resume"
    BY <1>8 DEF TreeInv, QueueInv
  <2> QED  BY <2>3, <2>4, <2>5 DEF QueueInv
<1>15. LinksKept
  BY <1>8 DEF LinksKept
<1> QED  BY <1>11, <1>12, <1>13, <1>14, <1>15 DEF TreeInv

\* A stale waiter is passed over.
LEMMA DroppedStep ==
    ASSUME TreeInv, PumpReady, waiters' = Tail(waiters),
           UNCHANGED <<session, drive, working, todo, failed, used>>
    PROVE  TreeInv' /\ LinksKept
<1>1. \A i \in DOMAIN todo : todo[i].op # "resume"
  BY DEF TreeInv, QueueInv
<1>2. QueueFrom(Tail(waiters))
  BY QueueHead DEF PumpReady
<1>3. waiters' \in Seq(WaiterRecords) /\ QueueMoves
  BY <1>2, GrantedQueue
<1>4. TodoIsFresh
  BY <1>1 DEF TodoIsFresh, TreeInv, QueueInv
<1>5. TreeTypes'
  BY <1>3 DEF TreeInv, TreeTypes
<1>6. \A k \in Conversations :
        /\ session'[k].link = session[k].link /\ session'[k].spawns = session[k].spawns
        /\ drive'[k].pc = drive[k].pc /\ drive'[k].pending = drive[k].pending
        /\ Fine(k, session'[k], drive'[k], k \in working')
  BY Stands
<1> QED  BY <1>3, <1>4, <1>5, <1>6, CallStep

\* A waiter that still wants its slot may be granted one.
LEMMA WantedIsGrantable ==
    ASSUME TreeInv, NEW w \in WaiterRecords, StillWants(w), w.kind # "resume",
           session[w.conv].link # "unborn"
    PROVE  Grantable(w.conv)
<1> DEFINE k == w.conv
<1>1. k \in Subagents /\ k \in Conversations
  BY DEF WaiterRecords, Conversations
<1>2. ~Live(k) /\ Status(session)[k] # "idle"
  BY DEF StillWants
<1>3. Fine(k, session[k], drive[k], k \in working)
  BY <1>1, Stands
<1>4. drive[k].pc = "off"
  BY <1>2, <1>3 DEF Fine, Placed, Live
<1>5. session[k].turn \in {"seeded", "open"}
  BY <1>1, <1>2, OverIsIdle
<1> QED  BY <1>1, <1>4, <1>5 DEF Grantable

\* One waiter is popped.
LEMMA PumpStep == ASSUME TreeInv, Pump PROVE TreeInv' /\ LinksKept
<1> DEFINE w == Head(waiters)
           q == Tail(waiters)
<1>1. PumpReady /\ waiters # <<>>
  BY DEF Pump, PumpReady
<1>2. /\ w \in WaiterRecords /\ QueueFrom(q) /\ session[w.conv].link # "unborn"
  <2>1. w = waiters[1] /\ 1 \in DOMAIN waiters
    BY <1>1, QueueHead
  <2> QED  BY <1>1, <2>1, QueueHead DEF TreeInv, QueueInv
<1>3. Fresh(session, todo)
  <2>1. \A i \in DOMAIN todo : todo[i].op # "resume"
    BY <1>1 DEF TreeInv, QueueInv
  <2> QED  BY <2>1, TodoFresh
<1>4. CASE ~StillWants(w)
  BY <1>1, <1>4, DroppedStep DEF Pump
<1>5. CASE StillWants(w)
  <2>1. Grant(w, q, todo)
    BY <1>5 DEF Pump
  <2>2. CASE GrantResume(w, q, todo)
    BY <1>1, <2>2, GrantResumeStep
  <2>3. CASE GrantStart(w, q, todo)
    <3>1. Grantable(w.conv)
      BY <1>2, <1>5, <2>3, WantedIsGrantable DEF GrantStart
    <3> HIDE DEF w, q
    <3> QED  BY <1>2, <1>3, <2>3, <3>1, GrantStartStep
  <2>4. CASE GrantFails(w, q, todo)
    <3>1. Grantable(w.conv)
      BY <1>2, <1>5, <2>4, WantedIsGrantable DEF GrantFails
    <3> HIDE DEF w, q
    <3> QED  BY <1>2, <1>3, <2>4, <3>1, GrantFailsStep
  <2>5. CASE GrantRedrive(w, q, todo)
    <3>1. Grantable(w.conv)
      BY <1>2, <1>5, <2>5, WantedIsGrantable DEF GrantRedrive
    <3> HIDE DEF w, q
    <3> QED  BY <1>2, <1>3, <2>5, <3>1, GrantRedriveStep
  <2> QED  BY <2>1, <2>2, <2>3, <2>4, <2>5 DEF Grant
<1> QED  BY <1>4, <1>5

\* The first request: of a subagent that exists, and the only one to resume.
LEMMA FirstRequest ==
    ASSUME TreeInv, todo # <<>>, Head(todo).op # "drive"
    PROVE  /\ Head(todo).op \in {"start", "redrive", "resume"} /\ Head(todo).conv \in Subagents
           /\ session[Head(todo).conv].link # "unborn"
           /\ Head(todo).op = "resume" =>
                 /\ Len(todo) = 1 /\ drive[Head(todo).conv].pc = "acquiring"
                 /\ \A j \in DOMAIN waiters :
                       waiters[j].kind = "resume" => waiters[j].conv # Head(todo).conv
           /\ Head(todo).op # "resume" => \A i \in DOMAIN todo : todo[i].op # "resume"
<1>1. Head(todo) = todo[1] /\ 1 \in DOMAIN todo /\ todo[1] \in Requests
  BY TodoHead
<1>2. todo[1] \in SlotRequestRecords
  BY <1>1 DEF Requests
<1>3. /\ session[todo[1].conv].link # "unborn"
      /\ todo[1].op = "resume" =>
            /\ Len(todo) = 1 /\ drive[todo[1].conv].pc = "acquiring"
            /\ \A j \in DOMAIN waiters : waiters[j].kind = "resume" => waiters[j].conv # todo[1].conv
  BY <1>1 DEF TreeInv, QueueInv
<1>4. \A i \in DOMAIN todo : todo[i].op = "resume" => i = 1
  <2>1. \A i \in DOMAIN todo : todo[i].op = "resume" => Len(todo) = 1
    BY DEF TreeInv, QueueInv
  <2>2. DOMAIN todo = 1..Len(todo)
    BY QueueTypes DEF TreeInv
  <2> QED  BY <2>1, <2>2
<1> QED  BY <1>1, <1>2, <1>3, <1>4 DEF SlotRequestRecords

\* A slot is asked for: the request joins the queue.
LEMMA QueuedStep ==
    ASSUME TreeInv, ~PumpReady, todo # <<>>, Head(todo).op # "drive", NeedsSlot(Head(todo).conv),
           waiters' = Append(waiters, Waiter(Head(todo).conv, Head(todo).op)),
           todo' = Tail(todo), UNCHANGED <<session, drive, working, failed, used>>
    PROVE  TreeInv' /\ LinksKept
<1> DEFINE W == WaiterRecords
           op == Head(todo).op
           k == Head(todo).conv
           w == Waiter(k, op)
           n == Len(waiters)
<1>1. /\ op \in {"start", "redrive", "resume"} /\ k \in Subagents
      /\ session[k].link # "unborn"
      /\ op = "resume" =>
            /\ Len(todo) = 1 /\ drive[k].pc = "acquiring"
            /\ \A j \in DOMAIN waiters : waiters[j].kind = "resume" => waiters[j].conv # k
      /\ op # "resume" => \A i \in DOMAIN todo : todo[i].op # "resume"
  BY FirstRequest
<1> HIDE DEF op, k
<1>2. w \in WaiterRecords /\ w.conv = k /\ w.kind = op
  BY <1>1 DEF Waiter, WaiterRecords
<1>3. waiters' = Append(waiters, w)
  BY DEF op, k
<1> HIDE DEF W, w
<1>4. waiters \in Seq(W) /\ w \in W
  BY <1>2 DEF TreeInv, TreeTypes, W
<1>5. /\ waiters' \in Seq(W) /\ Len(waiters') = n + 1
      /\ \A i \in 1..n : waiters'[i] = waiters[i]
      /\ waiters'[n + 1] = w
  BY <1>3, <1>4, AppendProperties
<1>6. n \in Nat /\ DOMAIN waiters = 1..n /\ DOMAIN waiters' = 1..(n + 1)
  BY <1>4, <1>5, LenProperties
<1> HIDE DEF n
<1>7. \A i \in DOMAIN waiters' : (i \in DOMAIN waiters /\ waiters'[i] = waiters[i]) \/ (i = n + 1 /\ waiters'[i] = w)
  BY <1>5, <1>6
<1>8. TreeTypes'
  <2>1. Tail(todo) \in Seq(Requests)
    BY TodoHead
  <2> QED  BY <1>5, <2>1 DEF TreeInv, TreeTypes, W
<1>9. FineInv' /\ FamilyInv'
  BY DEF TreeInv, FineInv, FamilyInv
<1>10. QueueInv'
  <2>1. \A i \in DOMAIN waiters' :
          /\ session'[waiters'[i].conv].link # "unborn"
          /\ waiters'[i].kind = "resume" => drive'[waiters'[i].conv].pc = "acquiring"
    BY <1>1, <1>2, <1>7 DEF TreeInv, QueueInv
  <2>2. \A i, j \in DOMAIN waiters' :
          /\ waiters'[i].kind = "resume" /\ waiters'[j].kind = "resume"
          /\ waiters'[i].conv = waiters'[j].conv
          => i = j
    BY <1>1, <1>2, <1>7 DEF TreeInv, QueueInv
  <2>3. \A i \in DOMAIN todo' :
          /\ todo'[i].op # "drive" => session'[todo'[i].conv].link # "unborn"
          /\ todo'[i].op # "resume"
    <3>1. CASE op = "resume"
      <4>1. todo' = <<>>
        BY <1>1, <3>1, TodoHead
      <4> QED  BY <4>1
    <3>2. CASE op # "resume"
      <4>1. Fresh(session, todo')
        BY <1>1, <3>2, TodoFresh
      <4> QED  BY <4>1 DEF Fresh
    <3> QED  BY <3>1, <3>2
  <2> QED  BY <2>1, <2>2, <2>3 DEF QueueInv
<1>11. LinksKept
  BY DEF LinksKept
<1> QED  BY <1>8, <1>9, <1>10, <1>11 DEF TreeInv

\* A request for a slot: queued, or granted at once where slots are not counted.
LEMMA RequestStep == ASSUME TreeInv, RequestSlot PROVE TreeInv' /\ LinksKept
<1> DEFINE request == Head(todo)
           k == request.conv
           w == Waiter(k, request.op)
           rest == Tail(todo)
<1>1. ~PumpReady /\ todo # <<>> /\ request.op # "drive"
  BY DEF RequestSlot
<1>2. CASE NeedsSlot(k)
  BY <1>1, <1>2, QueuedStep DEF RequestSlot
<1>3. CASE ~NeedsSlot(k)
  <2>1. Grant(w, waiters, rest)
    BY <1>3 DEF RequestSlot
  <2>2. k \in Subagents /\ session[k].link # "unborn" /\ request.op \in {"start", "redrive", "resume"}
    BY <1>1, FirstRequest
  <2>3. drive[k].pc # "acquiring"
    <3>1. k \in Conversations
      BY <2>2 DEF Conversations
    <3> QED  BY <1>3, <3>1, Stands DEF Fine, Placed
  <2>4. request.op # "resume" /\ \A i \in DOMAIN todo : todo[i].op # "resume"
    BY <1>1, <2>3, FirstRequest
  <2>5. w \in WaiterRecords /\ w.conv = k /\ w.kind # "resume"
    BY <2>2, <2>4 DEF Waiter, WaiterRecords
  <2>6. Fresh(session, rest) /\ QueueFrom(waiters)
    BY <1>1, <2>4, TodoFresh, WholeQueue
  <2> HIDE DEF w, rest, request
  <2>7. Grantable(w.conv)
    BY <1>3, <2>2, <2>3, <2>5 DEF Grantable
  <2>8. CASE GrantStart(w, waiters, rest)
    BY <2>5, <2>6, <2>7, <2>8, GrantStartStep
  <2>9. CASE GrantFails(w, waiters, rest)
    BY <2>5, <2>6, <2>7, <2>9, GrantFailsStep
  <2>10. CASE GrantRedrive(w, waiters, rest)
    BY <2>5, <2>6, <2>7, <2>10, GrantRedriveStep
  <2>11. CASE GrantResume(w, waiters, rest)
    BY <2>5, <2>11 DEF GrantResume
  <2> QED  BY <2>1, <2>8, <2>9, <2>10, <2>11 DEF Grant
<1> QED  BY <1>2, <1>3

\* A wake: a flag, or a request to drive again a subagent that exists.
LEMMA DrivenStep == ASSUME TreeInv, EnsureDriven PROVE TreeInv' /\ LinksKept
<1> DEFINE c == Head(todo).conv
           r == SlotRequest("redrive", c)
           d == [drive[c] EXCEPT !.wake = TRUE]
           asked == ~Live(c) /\ Found[c] /\ drive[c].handle = "started"
<1>1. /\ todo # <<>> /\ Head(todo).op = "drive"
      /\ UNCHANGED <<session, working, waiters, failed, used>>
      /\ drive' = [drive EXCEPT ![c].wake = TRUE] \/ drive' = drive
      /\ todo' = IF asked THEN <<r>> \o Tail(todo) ELSE Tail(todo)
  BY DEF EnsureDriven
<1>2. /\ Head(todo) = todo[1] /\ 1 \in DOMAIN todo /\ todo[1] \in Requests
      /\ DOMAIN todo = 1..Len(todo)
  BY <1>1, TodoHead, QueueTypes DEF TreeInv
<1>3. c \in Conversations
  BY <1>2 DEF Requests, SlotRequestRecords, Conversations
<1>4. \A i \in DOMAIN todo : todo[i].op # "resume"
  <2>1. \A i \in DOMAIN todo : todo[i].op = "resume" => Len(todo) = 1
    BY DEF TreeInv, QueueInv
  <2>2. todo[1].op # "resume"
    BY <1>1, <1>2
  <2> QED  BY <1>2, <2>1, <2>2
<1>5. Fresh(session, Tail(todo))
  BY <1>1, <1>4, TodoFresh
<1> HIDE DEF c
<1>6. asked => Fresh(session, <<r>>)
  <2> HAVE asked
  <2>1. Fine(c, session[c], drive[c], c \in working)
    BY <1>3, Stands
  <2>2. c \in Subagents /\ session[c].link # "unborn"
    BY <1>3, <2>1 DEF Fine, Placed, Conversations
  <2>3. r \in Requests /\ r.op = "redrive" /\ r.conv = c
    BY <2>2 DEF SlotRequest, Requests, SlotRequestRecords
  <2> HIDE DEF r
  <2>4. <<r>> \in Seq(Requests) /\ DOMAIN <<r>> = {1} /\ <<r>>[1] = r
    BY <2>3
  <2> QED  BY <2>2, <2>3, <2>4 DEF Fresh
<1>7. Fresh(session, todo')
  <2>1. CASE asked
    BY <1>1, <1>5, <1>6, <2>1, FreshJoined
  <2>2. CASE ~asked
    BY <1>1, <1>5, <2>2
  <2> QED  BY <2>1, <2>2
<1>8. todo' \in Seq(Requests) /\ TodoIsFresh
  BY <1>1, <1>7, FreshTodo
<1>9. /\ d \in Drives /\ Alike(d, drive[c]) /\ d.runs = drive[c].runs /\ d.handle = drive[c].handle
  <2>1. drive[c] \in Drives
    BY <1>3, Stands
  <2> QED  BY <2>1 DEF Drives, Alike
<1>10. /\ drive' \in [Conversations -> Drives]
       /\ \A k \in Conversations :
             Alike(drive'[k], drive[k]) /\ drive'[k].runs = drive[k].runs /\ drive'[k].handle = drive[k].handle
  <2>1. CASE drive' = drive
    BY <2>1 DEF TreeInv, TreeTypes, Alike
  <2>2. CASE drive' = [drive EXCEPT ![c].wake = TRUE]
    <3>1. drive \in [Conversations -> Drives]
      BY DEF TreeInv, TreeTypes
    <3>2. drive' = [drive EXCEPT ![c] = d]
      BY <2>2
    <3> HIDE DEF d
    <3>3. /\ drive' \in [Conversations -> Drives] /\ drive'[c] = d
          /\ \A k \in Conversations \ {c} : drive'[k] = drive[k]
      BY <1>3, <1>9, <3>1, <3>2
    <3> QED  BY <1>9, <3>3 DEF Alike
  <2> QED  BY <1>1, <2>1, <2>2
<1>11. TreeTypes'
  BY <1>1, <1>8, <1>10 DEF TreeInv, TreeTypes
<1>12. \A k \in Conversations :
        /\ session'[k].link = session[k].link /\ session'[k].spawns = session[k].spawns
        /\ drive'[k].pc = drive[k].pc /\ drive'[k].pending = drive[k].pending
        /\ Fine(k, session'[k], drive'[k], k \in working')
  <2> TAKE k \in Conversations
  <2>1. Fine(k, session[k], drive[k], k \in working)
    BY Stands
  <2> QED  BY <1>1, <1>10, <2>1 DEF Alike, Fine, Placed, Slotted
<1>13. QueueMoves
  BY <1>1, QueueStays
<1> QED  BY <1>1, <1>8, <1>11, <1>12, <1>13, CallStep

-----------------------------------------------------------------------------
(* Every step.                                                             *)

\* The hard limit, and a failed model call, over children or over none.
LEMMA CutShortSteps ==
    ASSUME TreeInv, NEW c \in Conversations, HardLimit(c) \/ ModelFails(c)
    PROVE  TreeInv' /\ LinksKept
<1>1. CASE HardLimit(c)
  <2>1. drive[c].pc = "limit" /\ todo = <<>>
    BY <1>1, Scheduled DEF HardLimit
  <2>2. CASE CascadeAndSettle(c, "limit")
    BY <2>1, <2>2, CascadeStep DEF CascadeAndSettle
  <2>3. CASE CloseAlone(c, "errored", "ending")
    BY <2>1, <2>3, CloseStep DEF ClosedTurns
  <2> QED  BY <1>1, <2>2, <2>3 DEF HardLimit
<1>2. CASE ModelFails(c)
  <2>1. drive[c].pc = "model" /\ todo = <<>>
    BY <1>2, Scheduled DEF ModelFails
  <2>2. CASE WindDownTree(c)
    BY <2>1, <2>2, WindDownStep
  <2>3. CASE CloseAlone(c, "errored", "raised")
    BY <2>1, <2>3, CloseStep DEF ClosedTurns
  <2>4. CASE drive' = Goto(c, "raised") /\ UNCHANGED <<session, working, waiters, todo, failed, used>>
    <3>1. "raised" \in Locations /\ used' \in Counters /\ todo' = <<>> /\ failed' \subseteq failed
      BY <2>1, <2>4, Stands DEF Locations
    <3> QED
      BY <2>1, <2>4, <3>1, GotoStep
         DEF Resolvers, Slotless, Holders, InTurn, Looping, Synchronous
  <2>5. CASE CascadeAndSettle(c, "failure")
    BY <2>1, <2>5, CascadeStep DEF CascadeAndSettle
  <2> QED  BY <1>2, <2>2, <2>3, <2>4, <2>5 DEF ModelFails
<1> QED  BY <1>1, <1>2

\* One task is scheduled.
LEMMA StepKeepsTree ==
    ASSUME TreeInv, NEW c \in Conversations, Step(c)
    PROVE  TreeInv' /\ LinksKept
<1>1. CASE TakeOff(c)  BY <1>1, TakeOffStep
<1>2. CASE TopCancelled(c) \/ TopAdmissionError(c) \/ Top(c) \/ Again(c)  BY <1>2, TopSteps
<1>3. CASE \/ ToolsLost(c) \/ FlushYielded(c) \/ Announced(c) \/ ModelLost(c) \/ SettleYielded(c)
  BY <1>3, PlainSteps
<1>4. CASE Reasked(c) \/ Dispatched(c)
  <2>1. drive[c].pc = "tools"
    BY <1>4 DEF Reasked, Dispatched, SuspendedAt
  <2>2. session[c].turn # "none"
    BY <2>1, DrivenHasTurn
  <2> QED  BY <1>4, <2>2, ToolSteps
<1>5. CASE Spawn(c)  BY <1>5, SpawnStep
<1>6. CASE StopChildren(c)  BY <1>6, StopStep
<1>7. CASE Flush(c)  BY <1>7, FlushStep
<1>8. CASE Resolve(c) \/ ResolvedAll(c) \/ ResolveLost(c)  BY <1>8, ResolveSteps
<1>9. CASE Resolved(c)  BY <1>9, ResolvedStep
<1>10. CASE GateCancelled(c) \/ Gated(c) \/ Ungated(c)  BY <1>10, GateSteps
<1>11. CASE Park(c)  BY <1>11, ParkStep
<1>12. CASE Woken(c)  BY <1>12, WokenStep
<1>13. CASE AcquireLost(c)  BY <1>13, LostStep
<1>14. CASE HardLimit(c) \/ ModelFails(c)  BY <1>14, CutShortSteps
<1>15. CASE ModelCalls(c) \/ ModelAnswers(c)
  <2>1. drive[c].pc = "model"
    BY <1>15 DEF ModelCalls, ModelAnswers, SuspendedAt
  <2>2. session[c].turn # "none"
    BY <2>1, DrivenHasTurn
  <2> QED  BY <1>15, <2>2, ModelSteps
<1>16. CASE SettleAwaits(c) \/ ChildSettled(c)  BY <1>16, SettleSteps
<1>17. CASE SettleEnds(c)  BY <1>17, SettledStep
<1>18. CASE CloseSettled(c) \/ Ending(c)  BY <1>18, CloseSteps
<1>19. CASE FanIn(c) \/ RunRaises(c)  BY <1>19, FanInSteps
<1> QED
  BY <1>1, <1>2, <1>3, <1>4, <1>5, <1>6, <1>7, <1>8, <1>9, <1>10, <1>11, <1>12,
     <1>13, <1>14, <1>15, <1>16, <1>17, <1>18, <1>19 DEF Step

\* Every step keeps the invariant, and no link that is resolved.
LEMMA NextKeepsTree == ASSUME TreeInv, [Next]_vars PROVE TreeInv' /\ LinksKept
<1>1. CASE Pump  BY <1>1, PumpStep
<1>2. CASE RequestSlot  BY <1>2, RequestStep
<1>3. CASE EnsureDriven  BY <1>3, DrivenStep
<1>4. CASE StartRun  BY <1>4, StartRunStep
<1>5. CASE Crash  BY <1>5, CrashStep
<1>6. ASSUME NEW c \in Conversations, Cancel(c) PROVE TreeInv' /\ LinksKept
  BY <1>6, CancelStep
<1>7. ASSUME NEW c \in Conversations, Answer(c) PROVE TreeInv' /\ LinksKept
  BY <1>7, AnswerStep
<1>8. ASSUME NEW c \in Conversations, ToolsRaise(c) PROVE TreeInv' /\ LinksKept
  BY <1>8, PlainSteps
<1>9. ASSUME NEW c \in Conversations, Step(c) PROVE TreeInv' /\ LinksKept
  BY <1>9, StepKeepsTree
<1>10. CASE UNCHANGED vars
  <2>1. UNCHANGED <<session, drive, working, waiters, todo, failed, used>>
    BY <1>10 DEF vars
  <2>2. TreeTypes' /\ FineInv' /\ FamilyInv'
    BY <2>1 DEF TreeInv, TreeTypes, FineInv, FamilyInv
  <2>3. QueueInv'
    BY <2>1 DEF TreeInv, QueueInv, PumpReady
  <2> QED  BY <2>1, <2>2, <2>3 DEF TreeInv, LinksKept
<1> QED
  BY <1>1, <1>2, <1>3, <1>4, <1>5, <1>6, <1>7, <1>8, <1>9, <1>10 DEF Next, Pool

\* Before the first run there is a question and nothing else.
LEMMA InitialTree == Init => TreeInv
<1> SUFFICES ASSUME Init PROVE TreeInv
  OBVIOUS
<1> DEFINE asked == [Unborn EXCEPT !.turn = "seeded"]
<1>1. /\ Unborn \in Entries /\ Unborn.turn = "none" /\ Unborn.link = "unborn" /\ Unborn.spawns = {}
      /\ asked \in Entries /\ asked.turn = "seeded" /\ asked.spawns = {}
  <2>1. 0 \in 0..HardMaxSteps
    BY TreeAssumption
  <2>2. Unborn \in Entries
    BY <2>1 DEF Unborn, Entries, Turns, Links, Asks
  <2>3. /\ Unborn.turn = "none" /\ Unborn.link = "unborn" /\ Unborn.spawns = {}
        /\ asked.turn = "seeded" /\ asked.spawns = {}
    BY DEF Unborn
  <2>4. asked \in Entries
    BY <2>2 DEF Entries, Turns
  <2> QED  BY <2>2, <2>3, <2>4
<1>2. /\ NoDrive \in Drives /\ NoDrive.pc = "off" /\ NoDrive.runs = "none" /\ NoDrive.handle = "none"
      /\ NoDrive.token = FALSE
  BY DEF NoDrive, Drives, Locations
<1>3. \A c \in Conversations : session[c] = IF c = Main THEN asked ELSE Unborn
  BY DEF Init, FirstQuestion
<1> HIDE DEF asked
<1>4. TreeTypes
  <2>1. <<>> \in Seq(WaiterRecords) /\ <<>> \in Seq(Requests)
    BY EmptySeq
  <2>2. session \in [Conversations -> Entries]
    <3>1. session = [c \in Conversations |-> session[c]]
      BY DEF Init, FirstQuestion
    <3> QED  BY <1>1, <1>3, <3>1
  <2> QED  BY <1>2, <2>1, <2>2 DEF Init, TreeTypes, Counters
<1>5. FineInv
  <2>1. \A c \in Conversations : Fine(c, session[c], NoDrive, c \in working)
    <3> TAKE c \in Conversations
    <3>1. c \notin working
      BY DEF Init
    <3> QED  BY <1>1, <1>2, <1>3, <3>1 DEF Fine, Placed, Slotted, Holders, InTurn, Looping, Synchronous
  <2> QED  BY <2>1 DEF Init, FineInv
<1>6. FamilyInv
  <2>1. \A c \in Conversations : session[c].spawns = {} /\ drive[c] = NoDrive
    BY <1>1, <1>3 DEF Init
  <2>2. \A c \in Conversations : drive[c].pc = "off"
    BY <1>2, <2>1
  <2> QED  BY <2>1, <2>2 DEF FamilyInv, Resolvers
<1>7. QueueInv
  <2>1. DOMAIN waiters = {} /\ DOMAIN todo = {}
    BY DEF Init
  <2> QED  BY <2>1 DEF QueueInv
<1> QED  BY <1>4, <1>5, <1>6, <1>7 DEF TreeInv

\* The invariant of the tree, for every tree, cap and bound.
THEOREM TreeHolds == Spec => []TreeInv
<1>1. Init => TreeInv
  BY InitialTree
<1>2. TreeInv /\ [Next]_vars => TreeInv'
  BY NextKeepsTree
<1> QED  BY <1>1, <1>2, PTL DEF Spec

\* What the invariant says of the runs' properties.
LEMMA TreeImplies ==
    TreeInv => TypeOK /\ NoStrandedSlot /\ WorkNeedsSlot /\ ParkedHoldsNoSlot
<1> SUFFICES ASSUME TreeInv PROVE TypeOK /\ NoStrandedSlot /\ WorkNeedsSlot /\ ParkedHoldsNoSlot
  OBVIOUS
<1>1. TypeOK
  <2>1. /\ \A i \in DOMAIN waiters : waiters[i] \in WaiterRecords
        /\ \A i \in DOMAIN todo : todo[i] \in Requests
    BY QueueTypes DEF TreeInv
  <2>2. \A r \in Requests : r \in [op : {"start", "redrive", "resume", "drive"}, conv : Conversations]
    BY DEF Requests, SlotRequestRecords, Conversations
  <2> QED  BY <2>1, <2>2 DEF TypeOK, TreeInv, TreeTypes, WaiterRecords, Counters
<1>2. working \subseteq Conversations
  BY DEF TreeInv, TreeTypes, Conversations
<1>3. NoStrandedSlot
  BY <1>2 DEF NoStrandedSlot, TreeInv, FineInv, Fine, Placed, Slotted, Live
<1>4. WorkNeedsSlot
  BY DEF WorkNeedsSlot, Productive, TreeInv, FineInv, Fine, Slotted, Holders
<1>5. ParkedHoldsNoSlot
  BY <1>2 DEF ParkedHoldsNoSlot, TreeInv, FineInv, Fine, Slotted, Slotless
<1> QED  BY <1>1, <1>3, <1>4, <1>5

\* Types: whatever is granted, started, cancelled or resolved, the queue and
\* what is left to do name subagents, and no turn exceeds its hard limit.
THEOREM TypesHold == Spec => []TypeOK
<1>1. TreeInv => TypeOK
  BY TreeImplies
<1> QED  BY <1>1, TreeHolds, PTL

\* Worker pool: every slot belongs to a live drive, so none is lost to a
\* request that went stale in the queue or to a start that raised.
THEOREM NoSlotStranded == Spec => []NoStrandedSlot
<1>1. TreeInv => NoStrandedSlot
  BY TreeImplies
<1> QED  BY <1>1, TreeHolds, PTL

\* Worker pool: a subagent at work holds a slot and one that waits holds none.
THEOREM SlotsFollowWork == Spec => [](WorkNeedsSlot /\ ParkedHoldsNoSlot)
<1>1. TreeInv => WorkNeedsSlot /\ ParkedHoldsNoSlot
  BY TreeImplies
<1> QED  BY <1>1, TreeHolds, PTL

\* Links: once a child's link carries a result or the cancelled text, no result
\* tool, settle, flush, cancel, later run or crash writes it again.
THEOREM LinksResolvedOnce == Spec => LinksResolveOnce
<1>1. TreeInv /\ [Next]_vars
      => [\A k \in Subagents : session[k].link \in {"result", "cancelled"} =>
             session'[k].link = session[k].link]_vars
  BY NextKeepsTree DEF LinksKept
<1> QED  BY <1>1, TreeHolds, PTL DEF Spec, LinksResolveOnce

-----------------------------------------------------------------------------
(* What a turn leaves behind.                                              *)

\* k is over, or was told to be.
OverIn(s, k) == s[k].turn \in ClosedTurns \/ s[k].cancel

\* The ends of a turn that its own drive writes; a subagent may also be
\* "cancelled" by its parent, which does not look at what that subagent owns.
OwnEnds(c) == IF c = Main THEN ClosedTurns ELSE {"completed", "errored"}

Settled(c) == drive[c].pc \in {"settled", "closing"}

\* A drive in its loop has its turn open, and closes it when it owns no child.
ClosesInv ==
    \A c \in Conversations :
        /\ drive[c].pc \in InTurn => session[c].turn = "open"
        /\ Settled(c) \/ session[c].turn \in OwnEnds(c) => Unresolved(session, c) = {}

\* A result tool is run for, and a result given to, a child that is over.
ResultsInv ==
    /\ \A k \in Subagents : session[k].link = "result" => OverIn(session, k)
    /\ \A c \in Conversations :
          drive[c].pc = "resolving" => OverIn(session, First(drive[c].pending))

\* What a step may do to the turn of k besides opening or closing it as its actor.
SameTurn(k) == session'[k].turn = session[k].turn /\ session'[k].cancel = session[k].cancel
ToldToStop(k) == session'[k].turn = "open" /\ session'[k].cancel = TRUE
WoundDown(k) == session'[k].turn = "cancelled" /\ k # Main /\ drive[k].pc = "off"
Seeded(k) == session'[k].turn = "seeded" /\ session[k].link = "unborn" /\ drive[k].pc = "off"

\* A step of c leaves k's drive where it is.
Aside(k) ==
    /\ drive'[k].pc = drive[k].pc
    /\ drive[k].pc = "resolving" => drive'[k].pending = drive[k].pending
    /\ SameTurn(k) \/ ToldToStop(k) \/ WoundDown(k) \/ Seeded(k)

\* What a step of c does to the tree, as far as closes go: links become open
\* below c only.
Closes(c) ==
    /\ \A k \in Conversations \ {c} : Aside(k)
    /\ \A k \in Subagents \ Kids(c) : session'[k].link = "open" => session[k].link = "open"
    /\ drive'[c].pc \in InTurn => session'[c].turn = "open"
    /\ drive'[c].pc \in {"settled", "closing"} \/ session'[c].turn \in OwnEnds(c)
         => Unresolved(session', c) = {}

\* And as far as results go.
Delivers(c) ==
    /\ \A k \in Subagents : session'[k].link = "result" =>
          session[k].link = "result" \/ (session[k].link = "open" /\ OverIn(session, k))
    /\ c # Main /\ OverIn(session, c) => OverIn(session', c)
    /\ drive'[c].pc = "resolving" => OverIn(session', First(drive'[c].pending))

\* A step whose actor closes as it should, and stands aside elsewhere, keeps the closes.
LEMMA ClosesKept ==
    ASSUME TreeInv, ClosesInv, NEW c \in Conversations, Closes(c)
    PROVE  ClosesInv'
<1>1. ASSUME NEW b \in Conversations
      PROVE  /\ drive'[b].pc \in InTurn => session'[b].turn = "open"
             /\ drive'[b].pc \in {"settled", "closing"} \/ session'[b].turn \in OwnEnds(b)
                  => Unresolved(session', b) = {}
  <2>1. CASE b = c
    BY <2>1 DEF Closes
  <2>2. CASE b # c
    <3>1. Aside(b)
      BY <2>2 DEF Closes
    <3>2. Kids(b) \subseteq Subagents \ Kids(c)
      BY <2>2, Numbered DEF Kids
    <3>3. Unresolved(session', b) \subseteq Unresolved(session, b)
      BY <3>2 DEF Closes, Unresolved
    <3>4. drive'[b].pc \in InTurn => session'[b].turn = "open"
      BY <3>1 DEF Aside, ClosesInv, SameTurn, ToldToStop, WoundDown, Seeded, InTurn, Looping, Synchronous
    <3>5. drive'[b].pc \in {"settled", "closing"} => Settled(b)
      BY <3>1 DEF Aside, Settled
    <3>6. session'[b].turn \in OwnEnds(b) => session[b].turn \in OwnEnds(b)
      BY <3>1 DEF Aside, SameTurn, ToldToStop, WoundDown, Seeded, OwnEnds, ClosedTurns
    <3> QED  BY <3>3, <3>4, <3>5, <3>6 DEF ClosesInv
  <2> QED  BY <2>1, <2>2
<1> QED  BY <1>1 DEF ClosesInv, Settled

\* One that also delivers as it should keeps the results.
LEMMA ResultsKept ==
    ASSUME TreeInv, TreeInv', ResultsInv, NEW c \in Conversations, Closes(c), Delivers(c)
    PROVE  ResultsInv'
<1>1. ASSUME NEW k \in Subagents, session[k].link # "unborn", OverIn(session, k)
      PROVE  OverIn(session', k)
  <2>1. k \in Conversations /\ k # Main
    BY Numbered DEF Conversations
  <2>2. CASE k = c
    BY <1>1, <2>1, <2>2 DEF Delivers
  <2>3. CASE k # c
    BY <1>1, <2>1, <2>3
       DEF Closes, Aside, SameTurn, ToldToStop, WoundDown, Seeded, OverIn, ClosedTurns
  <2> QED  BY <2>2, <2>3
<1>2. ASSUME NEW k \in Subagents, session'[k].link = "result" PROVE OverIn(session', k)
  <2>1. session[k].link = "result" => OverIn(session, k)
    BY DEF ResultsInv
  <2>2. OverIn(session, k)
    BY <1>2, <2>1 DEF Delivers
  <2>3. session[k].link # "unborn"
    BY <1>2 DEF Delivers
  <2> QED  BY <1>1, <2>2, <2>3
<1>3. ASSUME NEW b \in Conversations, drive'[b].pc = "resolving"
      PROVE  OverIn(session', First(drive'[b].pending))
  <2>1. CASE b = c
    BY <1>3, <2>1 DEF Delivers
  <2>2. CASE b # c
    <3>1. drive[b].pc = "resolving" /\ drive'[b].pending = drive[b].pending
      BY <1>3, <2>2 DEF Closes, Aside
    <3> DEFINE k == First(drive[b].pending)
    <3>2. drive[b].pending # {} /\ drive[b].pending \subseteq Unresolved(session, b)
      BY <3>1, Stands DEF Fine, Placed, Resolvers
    <3>3. k \in drive[b].pending
      <4>1. drive[b].pending \in SUBSET Nat
        BY <3>2, Stands, FewSubagents
      <4> QED  BY <3>2, <4>1, FirstIsLeast
    <3>4. k \in Subagents /\ session[k].link = "open"
      BY <3>2, <3>3 DEF Unresolved, Kids
    <3>5. OverIn(session, k)
      BY <3>1 DEF ResultsInv
    <3> HIDE DEF k
    <3>6. OverIn(session', k)
      BY <1>1, <3>4, <3>5
    <3> QED  BY <3>1, <3>6 DEF k
  <2> QED  BY <2>1, <2>2
<1> QED  BY <1>2, <1>3 DEF ResultsInv

\* A step that writes no turn and moves one drive.
LEMMA MovedCloses ==
    ASSUME TreeInv, ClosesInv, NEW c \in Conversations,
           \A k \in Conversations : SameTurn(k) /\ session'[k].link = session[k].link,
           \A k \in Conversations \ {c} : drive'[k].pc = drive[k].pc /\ drive'[k].pending = drive[k].pending,
           drive'[c].pc \in InTurn => drive[c].pc \in InTurn,
           drive'[c].pc \in {"settled", "closing"} => Settled(c)
    PROVE  /\ Closes(c)
           /\ (drive'[c].pc = "resolving" => OverIn(session', First(drive'[c].pending))) => Delivers(c)
<1>1. \A k \in Conversations \ {c} : Aside(k)
  BY DEF Aside
<1>2. \A k \in Subagents : session'[k].link = session[k].link
  BY DEF Conversations
<1>3. Unresolved(session', c) = Unresolved(session, c)
  BY <1>2 DEF Unresolved, Kids
<1>4. drive'[c].pc \in InTurn => session'[c].turn = "open"
  BY DEF ClosesInv, SameTurn
<1>5. drive'[c].pc \in {"settled", "closing"} \/ session'[c].turn \in OwnEnds(c)
         => Unresolved(session', c) = {}
  BY <1>3 DEF ClosesInv, SameTurn
<1>6. Closes(c)
  BY <1>1, <1>2, <1>4, <1>5 DEF Closes
<1>7. OverIn(session, c) => OverIn(session', c)
  BY DEF OverIn, SameTurn
<1> QED  BY <1>2, <1>6, <1>7 DEF Delivers

\* One that writes nothing, and stops at `location`.
LEMMA PlacedCloses ==
    ASSUME TreeInv, ClosesInv, NEW c \in Conversations, NEW location,
           session' = session,
           \A k \in Conversations \ {c} : drive'[k].pc = drive[k].pc /\ drive'[k].pending = drive[k].pending,
           drive'[c].pc = location,
           location \in InTurn => drive[c].pc \in InTurn,
           location \in {"settled", "closing"} => Settled(c),
           location # "resolving"
    PROVE  Closes(c) /\ Delivers(c)
BY MovedCloses DEF SameTurn

-----------------------------------------------------------------------------
(* The closes: every step.                                                 *)

\* The steps that write nothing.
LEMMA QuietCloses ==
    ASSUME TreeInv, ClosesInv, NEW c \in Conversations,
           \/ TopCancelled(c) \/ TopAdmissionError(c) \/ Top(c) \/ Again(c) \/ ToolsLost(c) \/ ToolsRaise(c)
           \/ FlushYielded(c) \/ ResolvedAll(c) \/ ResolveLost(c) \/ GateCancelled(c) \/ Gated(c)
           \/ Announced(c) \/ Ungated(c) \/ Park(c) \/ Woken(c) \/ AcquireLost(c) \/ ModelLost(c)
           \/ SettleAwaits(c) \/ ChildSettled(c) \/ SettleYielded(c) \/ Ending(c)
    PROVE  Closes(c) /\ Delivers(c)
<1>1. drive \in [Conversations -> Drives] /\ drive[c] \in Drives
  BY DEF TreeInv, TreeTypes
<1>2. DOMAIN drive = Conversations /\ "pc" \in DOMAIN drive[c]
  BY <1>1 DEF Drives
<1> USE DEF Drives, InTurn, Looping, Synchronous, Settled
<1>3. CASE TopCancelled(c) \/ GateCancelled(c)
  <2>1. session' = session /\ drive' = SettlingDrive(c, "cancel", drive) /\ drive[c].pc \in {"top", "gate"}
    BY <1>3, Scheduled DEF TopCancelled, GateCancelled, WindDownTree
  <2>2. drive'[c].pc = "settle" /\ \A k \in Conversations \ {c} : drive'[k] = drive[k]
    BY <1>1, <2>1 DEF SettlingDrive
  <2> QED  BY <2>1, <2>2, PlacedCloses
<1>4. CASE TopAdmissionError(c) \/ Again(c) \/ ToolsLost(c) \/ ToolsRaise(c) \/ FlushYielded(c)
  BY <1>1, <1>4, Scheduled, PlacedCloses DEF TopAdmissionError, Again, ToolsLost, ToolsRaise, FlushYielded, Goto
<1>5. CASE Announced(c) \/ ModelLost(c) \/ SettleYielded(c)
  BY <1>1, <1>5, Scheduled, PlacedCloses DEF Announced, ModelLost, SettleYielded, Goto
<1>6. CASE Top(c)
  <2>1. session' = session /\ drive[c].pc = "top" /\ \A k \in Conversations \ {c} : drive'[k] = drive[k]
    BY <1>1, <1>6, Scheduled DEF Top
  <2>2. drive'[c].pc = "tools" \/ drive'[c].pc = "spawn"
    BY <1>1, <1>6 DEF Top
  <2> QED  BY <2>1, <2>2, PlacedCloses
<1>7. CASE ResolvedAll(c) \/ ResolveLost(c)
  <2>1. /\ session' = session /\ drive[c].pc \in {"resolve", "resolving"}
        /\ \A k \in Conversations \ {c} : drive'[k] = drive[k]
    BY <1>1, <1>7, Scheduled DEF ResolvedAll, ResolveLost
  <2>2. ResolvedAll(c) => drive'[c].pc = "gate"
    BY <1>1 DEF ResolvedAll
  <2>3. ResolveLost(c) => drive'[c].pc = "resolve"
    BY <1>1 DEF ResolveLost
  <2> QED  BY <1>7, <2>1, <2>2, <2>3, PlacedCloses
<1>8. CASE Gated(c)
  <2>1. session' = session /\ drive[c].pc = "gate" /\ \A k \in Conversations \ {c} : drive'[k] = drive[k]
    BY <1>1, <1>8, Scheduled DEF Gated
  <2>2. drive'[c].pc \in {"park", "announced"}
    BY <1>1, <1>8 DEF Gated
  <2> QED  BY <2>1, <2>2, PlacedCloses
<1>9. CASE Ungated(c)
  <2>1. session' = session /\ drive[c].pc = "gate" /\ \A k \in Conversations \ {c} : drive'[k] = drive[k]
    BY <1>1, <1>9, Scheduled DEF Ungated
  <2>2. drive'[c].pc \in {"top", "park", "limit", "model"}
    BY <1>1, <1>9 DEF Ungated
  <2> QED  BY <2>1, <2>2, PlacedCloses
<1>10. CASE Park(c)
  <2>1. session' = session /\ drive[c].pc = "park" /\ \A k \in Conversations \ {c} : drive'[k] = drive[k]
    BY <1>1, <1>10, Scheduled DEF Park, Goto, Returned
  <2>2. drive'[c].pc \in {"top", "waiting", "returned"}
    BY <1>1, <1>10 DEF Park, Goto, Returned
  <2> QED  BY <2>1, <2>2, PlacedCloses
<1>11. CASE Woken(c)
  <2>1. session' = session /\ drive[c].pc = "waiting" /\ \A k \in Conversations \ {c} : drive'[k] = drive[k]
    BY <1>1, <1>11, Scheduled DEF Woken, Goto
  <2>2. drive'[c].pc \in {"acquiring", "again"}
    BY <1>1, <1>11 DEF Woken, Goto
  <2> QED  BY <2>1, <2>2, PlacedCloses
<1>12. CASE AcquireLost(c)
  BY <1>1, <1>12, Scheduled, PlacedCloses DEF AcquireLost, Goto
<1>13. CASE SettleAwaits(c)
  BY <1>1, <1>13, Scheduled, PlacedCloses DEF SettleAwaits
<1>14. CASE ChildSettled(c)
  BY <1>1, <1>14, Scheduled, PlacedCloses DEF ChildSettled
<1>15. CASE Ending(c)
  BY <1>1, <1>15, Scheduled, PlacedCloses DEF Ending, Returned
<1> QED
  BY <1>3, <1>4, <1>5, <1>6, <1>7, <1>8, <1>9, <1>10, <1>11, <1>12, <1>13, <1>14, <1>15

\* A result tool is run for the first child that is over.
LEMMA ResolveCloses ==
    ASSUME TreeInv, ClosesInv, NEW c \in Conversations, Resolve(c)
    PROVE  Closes(c) /\ Delivers(c)
<1> DEFINE done == Finished(c)
           k == First(done)
           left == {j \in drive[c].pending : j >= k}
<1>1. drive \in [Conversations -> Drives] /\ drive[c] \in Drives /\ drive[c].pc = "resolve"
  BY Scheduled DEF TreeInv, TreeTypes, Resolve
<1>2. session' = session /\ drive' = [drive EXCEPT ![c] = [@ EXCEPT !.pc = "resolving", !.progress = TRUE, !.pending = left]]
  BY DEF Resolve
<1>3. done # {} /\ done \subseteq drive[c].pending /\ drive[c].pending \subseteq Unresolved(session, c)
  BY <1>1, Stands DEF Resolve, Finished, Resolvers
<1>4. done \in SUBSET Nat /\ drive[c].pending \in SUBSET Nat
  BY <1>3, Stands, FewSubagents
<1>5. k \in done /\ \A j \in done : k <= j
  BY <1>3, <1>4, FirstIsLeast
<1> HIDE DEF k
<1>6. left \in SUBSET Nat /\ k \in left /\ \A j \in left : k <= j
  BY <1>3, <1>4, <1>5
<1>7. First(left) = k
  <2>1. First(left) \in left /\ \A j \in left : First(left) <= j
    BY <1>6, FirstIsLeast
  <2>2. First(left) <= k /\ k <= First(left) /\ k \in Nat /\ First(left) \in Nat
    BY <1>6, <2>1
  <2> QED  BY <2>2
<1> HIDE DEF left
<1>8. OverIn(session, k)
  <2>1. k \in Subagents /\ k \in Conversations /\ session[k].link = "open" /\ Status(session)[k] = "idle"
    BY <1>3, <1>5 DEF Unresolved, Kids, Conversations, Finished
  <2>2. session[k].turn \notin {"seeded", "open"}
    BY <2>1, StatusUnfolds DEF Derived
  <2>3. session[k].turn # "none" /\ session[k].turn \in Turns
    BY <2>1, Stands DEF Fine, Placed, Entries
  <2> QED  BY <2>2, <2>3 DEF OverIn, Turns
<1>9. /\ \A j \in Conversations \ {c} : drive'[j] = drive[j]
      /\ drive'[c].pc = "resolving" /\ drive'[c].pending = left
  BY <1>1, <1>2 DEF Drives
<1> QED
  BY <1>1, <1>2, <1>7, <1>8, <1>9, MovedCloses DEF SameTurn, InTurn, Looping, Synchronous

\* The end of a run, or its fan-in going on.
LEMMA EndCloses ==
    ASSUME TreeInv, ClosesInv, NEW c \in Conversations, FanIn(c) \/ RunRaises(c)
    PROVE  Closes(c) /\ Delivers(c)
<1>1. drive \in [Conversations -> Drives] /\ drive[c] \in Drives
  BY DEF TreeInv, TreeTypes
<1>2. CASE EndRun(c)
  <2> DEFINE d == [drive[c] EXCEPT !.pc = "off", !.runs = "none"]
             ended == [drive EXCEPT ![c] = d]
  <2>1. d \in Drives /\ d.pc = "off"
    BY <1>1 DEF Drives, Locations
  <2>2. session' = session /\ drive' = IF c = Main THEN ended ELSE Stirred(c, ended)
    BY <1>2 DEF EndRun
  <2> HIDE DEF d
  <2>3. ended \in [Conversations -> Drives] /\ ended[c] = d /\ \A k \in Conversations \ {c} : ended[k] = drive[k]
    BY <1>1, <2>1
  <2> HIDE DEF ended
  <2>4. \A k \in Conversations : Alike(drive'[k], ended[k])
    <3>1. CASE c = Main
      BY <2>2, <3>1 DEF Alike
    <3>2. CASE c # Main
      BY <2>2, <2>3, <3>2, StirredDrives DEF Conversations
    <3> QED  BY <3>1, <3>2
  <2> QED  BY <2>1, <2>2, <2>3, <2>4, PlacedCloses DEF Alike, InTurn, Looping, Synchronous
<1>3. CASE ~EndRun(c)
  <2>1. drive[c].pc = "returned" /\ drive' = [drive EXCEPT ![c].stir = FALSE] /\ session' = session
    BY <1>3, Scheduled DEF FanIn, RunRaises
  <2>2. drive'[c].pc = "returned" /\ \A k \in Conversations \ {c} : drive'[k] = drive[k]
    BY <1>1, <2>1 DEF Drives
  <2> QED  BY <2>1, <2>2, PlacedCloses DEF InTurn, Looping, Synchronous
<1> QED  BY <1>2, <1>3

\* A drive that writes its own path.
LEMMA WrittenCloses ==
    ASSUME TreeInv, ClosesInv, NEW c \in Conversations, NEW e, NEW location,
           session' = [session EXCEPT ![c] = e], e.link = session[c].link,
           \A k \in Conversations \ {c} : drive'[k].pc = drive[k].pc /\ drive'[k].pending = drive[k].pending,
           drive'[c].pc = location, location # "resolving",
           location \in InTurn => e.turn = "open",
           location \in {"settled", "closing"} => Settled(c),
           e.turn \in OwnEnds(c) => Unresolved(session, c) = {},
           e.turn = session[c].turn \/ e.turn \in ClosedTurns,
           e.cancel = session[c].cancel \/ e.turn \in ClosedTurns
    PROVE  Closes(c) /\ Delivers(c)
<1>1. session'[c] = e /\ \A k \in Conversations \ {c} : session'[k] = session[k]
  BY DEF TreeInv, TreeTypes
<1>2. \A k \in Subagents : session'[k].link = session[k].link
  BY <1>1 DEF Conversations
<1>3. Unresolved(session', c) = Unresolved(session, c)
  BY <1>2 DEF Unresolved, Kids
<1>4. \A k \in Conversations \ {c} : Aside(k)
  BY <1>1 DEF Aside, SameTurn
<1>5. Closes(c)
  BY <1>1, <1>2, <1>3, <1>4 DEF Closes, ClosesInv
<1>6. OverIn(session, c) => OverIn(session', c)
  BY <1>1 DEF OverIn
<1> QED  BY <1>2, <1>5, <1>6 DEF Delivers

\* A turn closed with nothing below it.
LEMMA CloseAloneCloses ==
    ASSUME TreeInv, ClosesInv, NEW c \in Conversations, NEW outcome \in ClosedTurns,
           NEW location \in {"ending", "raised"},
           CloseAlone(c, outcome, location), Unresolved(session, c) = {}
    PROVE  Closes(c) /\ Delivers(c)
<1> DEFINE e == Closed(session[c], outcome)
<1>1. session[c] \in Entries /\ drive \in [Conversations -> Drives] /\ drive[c] \in Drives
  BY DEF TreeInv, TreeTypes
<1>2. e.turn = outcome /\ e.link = session[c].link
  BY <1>1, ClosedEntry
<1>3. session' = [session EXCEPT ![c] = e] /\ drive' = Goto(c, location)
  BY <1>1 DEF CloseAlone, TreeInv, TreeTypes
<1> HIDE DEF e
<1>4. drive'[c].pc = location /\ \A k \in Conversations \ {c} : drive'[k] = drive[k]
  BY <1>1, <1>3 DEF Goto, Drives
<1> QED  BY <1>2, <1>3, <1>4, WrittenCloses DEF InTurn, Looping, Synchronous

\* What a step must do for both invariants; results need a cap on the pool.
Tidy(c) == Closes(c) /\ (MaxWorkers # 0 /\ ResultsInv => Delivers(c))

\* The tools, whose calls write the path and close nothing.
LEMMA ToolsTidy ==
    ASSUME TreeInv, ClosesInv, NEW c \in Conversations, Reasked(c) \/ Dispatched(c)
    PROVE  Tidy(c)
<1>1. /\ session \in [Conversations -> Entries] /\ session[c] \in Entries
      /\ drive \in [Conversations -> Drives] /\ drive[c] \in Drives
  BY DEF TreeInv, TreeTypes
<1>2. drive[c].pc = "tools" /\ drive' = Goto(c, "spawn")
  BY Scheduled DEF Reasked, Dispatched
<1>3. drive'[c].pc = "spawn" /\ \A k \in Conversations \ {c} : drive'[k] = drive[k]
  BY <1>1, <1>2 DEF Goto, Drives
<1>4. \A k \in Conversations : SameTurn(k) /\ session'[k].link = session[k].link
  <2>1. CASE Reasked(c)
    <3>1. session' = session \/ session' = [session EXCEPT ![c].ask = "none", ![c].fresh = TRUE]
      BY <2>1 DEF Reasked
    <3> QED  BY <1>1, <3>1 DEF SameTurn, Entries
  <2>2. CASE Dispatched(c)
    <3>1. PICK spawns \in SpawnBatches(c), stops \in StopBatches(c), gated \in BOOLEAN :
            session' = [session EXCEPT ![c] =
                [@ EXCEPT !.calls = FALSE,
                          !.spawns = session[c].spawns \cup spawns,
                          !.stops = session[c].stops \cup stops,
                          !.ask = IF gated THEN "waiting" ELSE session[c].ask,
                          !.fresh = session[c].fresh \/ stops # {} \/ (spawns = {} /\ ~gated)]]
      BY <2>2, ZenonT(30) DEF Dispatched
    <3> DEFINE made == session[c].spawns \cup spawns
               told == session[c].stops \cup stops
               ask == IF gated THEN "waiting" ELSE session[c].ask
               fresh == session[c].fresh \/ stops # {} \/ (spawns = {} /\ ~gated)
    <3>2. session' = [session EXCEPT ![c] =
             [@ EXCEPT !.calls = FALSE, !.spawns = made, !.stops = told, !.ask = ask, !.fresh = fresh]]
      BY <3>1
    <3> HIDE DEF made, told, ask, fresh
    <3> QED  BY <1>1, <3>2 DEF SameTurn, Entries
  <2> QED  BY <2>1, <2>2
<1> QED  BY <1>2, <1>3, <1>4, MovedCloses DEF Tidy, InTurn, Looping, Synchronous

\* The model: an answer, calls, a failure.  The children of a turn that goes on
\* stay its own, and one that closes has none.
LEMMA ModelTidy ==
    ASSUME TreeInv, ClosesInv, NEW c \in Conversations, ModelCalls(c) \/ ModelAnswers(c)
    PROVE  Tidy(c)
<1> DEFINE a == Answered(session[c])
           asked == [a EXCEPT !.calls = TRUE]
           over == Closed(a, "completed")
<1>1. /\ session \in [Conversations -> Entries] /\ session[c] \in Entries
      /\ drive \in [Conversations -> Drives] /\ drive[c] \in Drives /\ drive[c].pc = "model"
  BY Scheduled DEF TreeInv, TreeTypes, ModelCalls, ModelAnswers
<1>2. session[c].turn = "open"
  BY <1>1 DEF ClosesInv, InTurn, Looping, Synchronous
<1>3. /\ a \in Entries /\ a.turn = "open" /\ a.link = session[c].link /\ a.cancel = session[c].cancel
  <2>1. session[c].steps < HardMaxSteps
    BY <1>1, Stands DEF Fine, Placed
  <2> QED  BY <1>1, <1>2, <2>1, AnsweredEntry
<1>4. asked.turn = "open" /\ asked.link = session[c].link /\ asked.cancel = session[c].cancel
  BY <1>3 DEF Entries
<1>5. over.turn = "completed" /\ over.link = session[c].link
  BY <1>3, ClosedEntry DEF ClosedTurns
<1> HIDE DEF a, asked, over
<1>6. CASE ModelCalls(c)
  <2>1. session' = [session EXCEPT ![c] = asked] /\ drive' = Goto(c, "again")
    BY <1>1, <1>6 DEF ModelCalls, a, asked
  <2>2. drive'[c].pc = "again" /\ \A k \in Conversations \ {c} : drive'[k] = drive[k]
    BY <1>1, <2>1 DEF Goto, Drives
  <2> QED
    BY <1>2, <1>4, <2>1, <2>2, WrittenCloses DEF Tidy, OwnEnds, ClosedTurns
<1>7. CASE ModelAnswers(c) /\ session[c].cancel
  <2>1. session' = [session EXCEPT ![c] = a] /\ drive' = SettlingDrive(c, "cancel", drive)
    BY <1>1, <1>7 DEF ModelAnswers, a
  <2>2. drive'[c].pc = "settle" /\ \A k \in Conversations \ {c} : drive'[k] = drive[k]
    BY <1>1, <2>1 DEF SettlingDrive, Drives
  <2> QED
    BY <1>2, <1>3, <2>1, <2>2, WrittenCloses DEF Tidy, OwnEnds, ClosedTurns
<1>8. CASE ModelAnswers(c) /\ ~session[c].cancel /\ Unresolved(session, c) # {}
  <2>1. session' = [session EXCEPT ![c] = a] /\ drive' = Goto(c, "again")
    BY <1>1, <1>8 DEF ModelAnswers, a
  <2>2. drive'[c].pc = "again" /\ \A k \in Conversations \ {c} : drive'[k] = drive[k]
    BY <1>1, <2>1 DEF Goto, Drives
  <2> QED
    BY <1>2, <1>3, <2>1, <2>2, WrittenCloses DEF Tidy, OwnEnds, ClosedTurns
<1>9. CASE ModelAnswers(c) /\ ~session[c].cancel /\ Unresolved(session, c) = {}
  <2>1. session' = [session EXCEPT ![c] = over] /\ drive' = Goto(c, "ending")
    BY <1>1, <1>9 DEF ModelAnswers, a, over
  <2>2. drive'[c].pc = "ending" /\ \A k \in Conversations \ {c} : drive'[k] = drive[k]
    BY <1>1, <2>1 DEF Goto, Drives
  <2> QED
    BY <1>5, <1>9, <2>1, <2>2, WrittenCloses DEF Tidy, ClosedTurns, InTurn
<1> QED  BY <1>6, <1>7, <1>8, <1>9

\* A cancel writes no link, and no turn but of those it reaches.
LEMMA ToldTurns ==
    ASSUME TreeInv, NEW reached \in SUBSET Conversations, session' = CancelRequested(session, reached)
    PROVE  \A k \in Conversations :
             /\ session'[k].link = session[k].link /\ (SameTurn(k) \/ ToldToStop(k))
             /\ OverIn(session, k) => OverIn(session', k)
<1> TAKE k \in Conversations
<1> DEFINE f == [Opened(session[k]) EXCEPT !.cancel = TRUE]
<1>1. f.turn = "open" /\ f.cancel = TRUE /\ f.link = session[k].link
  BY CancelledEntry, Stands
<1>2. session'[k] = IF k \in reached THEN f ELSE session[k]
  BY DEF CancelRequested
<1> HIDE DEF f
<1>3. session'[k].link = session[k].link /\ (SameTurn(k) \/ ToldToStop(k))
  BY <1>1, <1>2 DEF SameTurn, ToldToStop
<1> QED  BY <1>3 DEF SameTurn, ToldToStop, OverIn

\* A close of c's own cascades a cancel to its open children, and waits for them.
LEMMA CascadeTidy ==
    ASSUME TreeInv, ClosesInv, NEW c \in Conversations, NEW why,
           CascadeAndSettle(c, why), drive[c].pc \in {"limit", "model"}
    PROVE  Tidy(c)
<1> DEFINE reached == Cascaded(session, c)
           t == Tripped(reached)
<1>1. reached \in SUBSET Conversations
  BY ReachedConversations DEF Cascaded
<1>2. session' = CancelRequested(session, reached) /\ drive' = SettlingDrive(c, why, t)
  BY DEF CascadeAndSettle
<1>3. session[c].turn = "open"
  BY DEF ClosesInv, InTurn, Looping, Synchronous
<1>4. DOMAIN t = Conversations
  BY DEF Tripped
<1> HIDE DEF reached
<1>5. \A k \in Conversations :
        /\ session'[k].link = session[k].link
        /\ t[k] \in Drives /\ t[k].pc = drive[k].pc /\ t[k].pending = drive[k].pending
        /\ SameTurn(k) \/ ToldToStop(k)
  <2> TAKE k \in Conversations
  <2>1. /\ session'[k].link = session[k].link /\ t[k] \in Drives
        /\ t[k].pc = drive[k].pc /\ t[k].pending = drive[k].pending
    BY <1>1, <1>2, Reaching
  <2> QED  BY <1>1, <1>2, <2>1, ToldTurns
<1> HIDE DEF t
<1>6. /\ drive'[c].pc = "settle"
      /\ \A k \in Conversations \ {c} : drive'[k] = t[k]
  BY <1>2, <1>4, <1>5 DEF SettlingDrive, Drives
<1>7. \A k \in Conversations \ {c} : Aside(k)
  BY <1>5, <1>6 DEF Aside
<1>8. session'[c].turn = "open" /\ (OverIn(session, c) => OverIn(session', c))
  BY <1>3, <1>5 DEF SameTurn, ToldToStop, OverIn, ClosedTurns
<1>9. Closes(c) /\ Delivers(c)
  BY <1>5, <1>6, <1>7, <1>8 DEF Closes, Delivers, OwnEnds, ClosedTurns, Conversations
<1> QED  BY <1>9 DEF Tidy

\* The closes of the limit, of a failed call and behind a settle.
LEMMA FailuresTidy ==
    ASSUME TreeInv, ClosesInv, NEW c \in Conversations, HardLimit(c) \/ ModelFails(c) \/ CloseSettled(c)
    PROVE  Tidy(c)
<1>1. /\ drive \in [Conversations -> Drives] /\ drive[c] \in Drives
  BY DEF TreeInv, TreeTypes
<1>2. ASSUME NEW outcome \in ClosedTurns, NEW location \in {"ending", "raised"},
             CloseAlone(c, outcome, location), Unresolved(session, c) = {}
      PROVE  Tidy(c)
  BY <1>2, CloseAloneCloses DEF Tidy
<1>3. CASE HardLimit(c)
  <2>1. drive[c].pc = "limit"
    BY <1>3, Scheduled DEF HardLimit
  <2> QED  BY <1>2, <1>3, <2>1, CascadeTidy DEF HardLimit, ClosedTurns
<1>4. CASE CloseSettled(c)
  <2>1. drive[c].pc = "closing"
    BY <1>4, Scheduled DEF CloseSettled
  <2>2. Unresolved(session, c) = {}
    BY <2>1 DEF ClosesInv, Settled
  <2> QED  BY <1>2, <1>4, <2>2 DEF CloseSettled, ClosedTurns
<1>5. CASE ModelFails(c)
  <2>1. drive[c].pc = "model"
    BY <1>5, Scheduled DEF ModelFails
  <2>2. CASE WindDownTree(c)
    <3>1. session' = session /\ drive' = SettlingDrive(c, "cancel", drive)
      BY <2>2 DEF WindDownTree
    <3>2. drive'[c].pc = "settle" /\ \A k \in Conversations \ {c} : drive'[k] = drive[k]
      BY <1>1, <3>1 DEF SettlingDrive, Drives
    <3> QED  BY <2>1, <3>1, <3>2, PlacedCloses DEF Tidy, InTurn, Looping, Synchronous
  <2>3. CASE session' = session /\ drive' = Goto(c, "raised")
    <3>1. drive'[c].pc = "raised" /\ \A k \in Conversations \ {c} : drive'[k] = drive[k]
      BY <1>1, <2>3 DEF Goto, Drives
    <3> QED  BY <2>3, <3>1, PlacedCloses DEF Tidy, InTurn, Looping, Synchronous
  <2> QED  BY <1>2, <1>5, <2>1, <2>2, <2>3, CascadeTidy DEF ModelFails, ClosedTurns
<1> QED  BY <1>3, <1>4, <1>5

\* A drive that starts, or takes off, opens the turn if it is not open.
LEMMA OpenedTidy ==
    ASSUME TreeInv, ClosesInv, NEW c \in Conversations,
           session' = [session EXCEPT ![c] = Opened(session[c])],
           drive'[c].pc \in {"created", "top"},
           \A k \in Conversations \ {c} : drive'[k].pc = drive[k].pc /\ drive'[k].pending = drive[k].pending,
           NeedsSlot(c) => session[c].turn \in {"seeded", "open"}
    PROVE  Tidy(c)
<1> DEFINE e == Opened(session[c])
<1>1. session \in [Conversations -> Entries] /\ session[c] \in Entries
  BY DEF TreeInv, TreeTypes
<1>2. e.turn = "open" /\ e.link = session[c].link /\ e.cancel = session[c].cancel
  BY <1>1, OpenedEntry
<1> HIDE DEF e
<1>3. session'[c] = e /\ \A k \in Conversations \ {c} : session'[k] = session[k]
  BY <1>1 DEF e
<1>4. \A k \in Subagents : session'[k].link = session[k].link
  BY <1>2, <1>3 DEF Conversations
<1>5. Closes(c)
  BY <1>2, <1>3, <1>4 DEF Closes, Aside, SameTurn, OwnEnds, ClosedTurns
<1>6. ASSUME MaxWorkers # 0 PROVE Delivers(c)
  <2>1. c # Main => session[c].turn \in {"seeded", "open"}
    BY <1>6 DEF NeedsSlot
  <2>2. c # Main /\ OverIn(session, c) => OverIn(session', c)
    BY <1>2, <1>3, <2>1 DEF OverIn, ClosedTurns
  <2> QED  BY <1>4, <2>2 DEF Delivers
<1> QED  BY <1>5, <1>6 DEF Tidy

\* The first step of a drive.
LEMMA TakeOffTidy == ASSUME TreeInv, ClosesInv, NEW c \in Conversations, TakeOff(c) PROVE Tidy(c)
<1>1. drive \in [Conversations -> Drives] /\ drive[c] \in Drives /\ drive[c].pc = "created"
  BY Scheduled DEF TreeInv, TreeTypes, TakeOff
<1>2. session' = [session EXCEPT ![c] = Opened(session[c])]
  BY DEF TakeOff
<1>3. drive'[c].pc = "top" /\ \A k \in Conversations \ {c} : drive'[k] = drive[k]
  BY <1>1 DEF TakeOff, Drives
<1>4. NeedsSlot(c) => session[c].turn \in {"seeded", "open"}
  BY <1>1, Stands DEF Fine, Slotted
<1> QED  BY <1>2, <1>3, <1>4, OpenedTidy

\* A step that moves no drive and closes nothing.
LEMMA StayingTidy ==
    ASSUME TreeInv, ClosesInv, NEW c \in Conversations,
           \A k \in Conversations :
              /\ drive'[k].pc = drive[k].pc /\ drive'[k].pending = drive[k].pending
              /\ session'[k].link = session[k].link
              /\ SameTurn(k) \/ ToldToStop(k)
    PROVE  Tidy(c)
<1>1. \A k \in Subagents : session'[k].link = session[k].link
  BY DEF Conversations
<1>2. Unresolved(session', c) = Unresolved(session, c)
  BY <1>1 DEF Unresolved, Kids
<1>3. \A k \in Conversations : OverIn(session, k) => OverIn(session', k)
  BY DEF SameTurn, ToldToStop, OverIn
<1>4. Closes(c)
  <2>1. drive'[c].pc \in InTurn => session'[c].turn = "open"
    BY DEF SameTurn, ToldToStop, ClosesInv
  <2>2. session'[c].turn \in OwnEnds(c) => session[c].turn \in OwnEnds(c)
    BY DEF SameTurn, ToldToStop, OwnEnds, ClosedTurns
  <2> QED  BY <1>1, <1>2, <2>1, <2>2 DEF Closes, Aside, ClosesInv, Settled
<1>5. ASSUME ResultsInv, drive'[c].pc = "resolving" PROVE OverIn(session', First(drive'[c].pending))
  <2> DEFINE k == First(drive[c].pending)
  <2>1. drive[c].pending # {} /\ drive[c].pending \subseteq Unresolved(session, c)
    BY <1>5, Stands DEF Fine, Placed, Resolvers
  <2>2. k \in drive[c].pending
    <3>1. drive[c].pending \in SUBSET Nat
      BY <2>1, Stands, FewSubagents
    <3> QED  BY <2>1, <3>1, FirstIsLeast
  <2>3. k \in Conversations
    BY <2>1, <2>2 DEF Unresolved, Kids, Conversations
  <2>4. OverIn(session, k)
    BY <1>5 DEF ResultsInv
  <2> HIDE DEF k
  <2>5. OverIn(session', k)
    BY <1>3, <2>3, <2>4
  <2> QED  BY <2>5 DEF k
<1> QED  BY <1>1, <1>3, <1>4, <1>5 DEF Tidy, Delivers

\* cancel(), and an answer to a gate, from outside.
LEMMA CallsTidy ==
    ASSUME TreeInv, ClosesInv, NEW c \in Conversations, Cancel(c) \/ Answer(c)
    PROVE  Tidy(c)
<1>1. /\ session \in [Conversations -> Entries] /\ session[c] \in Entries
      /\ drive \in [Conversations -> Drives] /\ drive[c] \in Drives
  BY DEF TreeInv, TreeTypes
<1>2. CASE Answer(c)
  <2>1. \A k \in Conversations : SameTurn(k) /\ session'[k].link = session[k].link
    BY <1>1, <1>2 DEF Answer, SameTurn, Entries
  <2>2. \A k \in Conversations : drive'[k].pc = drive[k].pc /\ drive'[k].pending = drive[k].pending
    BY <1>1, <1>2 DEF Answer, Drives
  <2> QED  BY <2>1, <2>2, StayingTidy
<1>3. CASE Cancel(c)
  <2> DEFINE reached == Reached(session, {c})
  <2>1. reached \in SUBSET Conversations
    BY ReachedConversations
  <2>2. session' = CancelRequested(session, reached) /\ drive' = Tripped(reached)
    BY <1>3 DEF Cancel
  <2> HIDE DEF reached
  <2>3. \A k \in Conversations : drive'[k].pc = drive[k].pc /\ drive'[k].pending = drive[k].pending
    BY <2>1, <2>2, Reaching
  <2> QED  BY <2>1, <2>2, <2>3, ToldTurns, StayingTidy
<1> QED  BY <1>2, <1>3

\* Stopping children tells them, and may tell nobody else.
LEMMA StopTidy == ASSUME TreeInv, ClosesInv, NEW c \in Conversations, StopChildren(c) PROVE Tidy(c)
<1> DEFINE reached == Reached(session, StopTargets(session, c))
           t == Tripped(reached)
<1>1. reached \in SUBSET Conversations
  BY ReachedConversations
<1>2. /\ session' = CancelRequested(session, reached) /\ drive' = [t EXCEPT ![c].pc = "flush"]
      /\ drive[c].pc = "stop"
  BY Scheduled DEF StopChildren
<1>3. DOMAIN t = Conversations
  BY DEF Tripped
<1> HIDE DEF reached
<1>4. \A k \in Conversations : t[k] \in Drives /\ t[k].pc = drive[k].pc /\ t[k].pending = drive[k].pending
  BY <1>1, Reaching
<1> HIDE DEF t
<1>5. drive'[c].pc = "flush" /\ \A k \in Conversations \ {c} : drive'[k] = t[k]
  BY <1>2, <1>3, <1>4 DEF Drives
<1>6. \A k \in Conversations :
        /\ session'[k].link = session[k].link /\ (SameTurn(k) \/ ToldToStop(k))
        /\ OverIn(session, k) => OverIn(session', k)
  BY <1>1, <1>2, ToldTurns
<1>7. session[c].turn = "open"
  BY <1>2 DEF ClosesInv, InTurn, Looping, Synchronous
<1>8. session'[c].turn = "open"
  BY <1>6, <1>7 DEF SameTurn, ToldToStop
<1>9. \A k \in Conversations \ {c} : Aside(k)
  BY <1>4, <1>5, <1>6 DEF Aside
<1>10. Closes(c) /\ Delivers(c)
  BY <1>5, <1>6, <1>8, <1>9 DEF Closes, Delivers, OwnEnds, ClosedTurns, Conversations
<1> QED  BY <1>10 DEF Tidy

\* The flush closes children that no drive is in.
LEMMA FlushTidy == ASSUME TreeInv, ClosesInv, NEW c \in Conversations, Flush(c) PROVE Tidy(c)
<1> DEFINE flushed == IF session[c].cancel THEN {} ELSE Flushable(c)
           place == IF flushed = {} THEN "resolve" ELSE "flushed"
<1>1. /\ session' = Flushed(session, flushed)
      /\ drive' = [drive EXCEPT ![c] = [@ EXCEPT !.pending = Unresolved(session, c), !.pc = place]]
      /\ drive[c].pc = "flush"
  BY Scheduled DEF Flush
<1>2. place = "resolve" \/ place = "flushed"
  OBVIOUS
<1>3. flushed \subseteq Kids(c) /\ \A k \in flushed : ~Live(k)
  BY DEF Flushable, Unresolved
<1> HIDE DEF flushed, place
<1>4. \A k \in Conversations :
        /\ session'[k].link = session[k].link
        /\ k \in flushed => session'[k].turn = "cancelled"
        /\ k \notin flushed => session'[k] = session[k]
  BY <1>1, <1>3, FlushedChild
<1>5. drive'[c].pc = place /\ \A k \in Conversations \ {c} : drive'[k] = drive[k]
  BY <1>1 DEF TreeInv, TreeTypes, Drives
<1>6. c \notin Kids(c) /\ \A k \in Kids(c) : k # Main /\ k \in Conversations
  BY Numbered DEF Conversations
<1>7. \A k \in Conversations \ {c} : Aside(k)
  <2> TAKE k \in Conversations \ {c}
  <2>1. CASE k \in flushed
    <3>1. drive[k].pc = "off"
      BY <1>3, <2>1, Stands DEF Fine, Placed, Live
    <3> QED  BY <1>3, <1>4, <1>5, <1>6, <2>1, <3>1 DEF Aside, WoundDown
  <2>2. CASE k \notin flushed
    BY <1>4, <1>5, <2>2 DEF Aside, SameTurn
  <2> QED  BY <2>1, <2>2
<1>8. session'[c] = session[c] /\ session[c].turn = "open"
  BY <1>1, <1>3, <1>4, <1>6 DEF ClosesInv, InTurn, Looping, Synchronous
<1>9. \A k \in Subagents : session'[k].link = session[k].link
  BY <1>4 DEF Conversations
<1>10. session'[c].turn \notin OwnEnds(c) /\ place \notin {"settled", "closing", "resolving"}
  BY <1>2, <1>8 DEF OwnEnds, ClosedTurns
<1>11. Closes(c)
  BY <1>5, <1>7, <1>8, <1>9, <1>10 DEF Closes
<1>12. OverIn(session, c) => OverIn(session', c)
  BY <1>8 DEF OverIn
<1>13. Delivers(c)
  BY <1>5, <1>9, <1>10, <1>12 DEF Delivers
<1> QED  BY <1>11, <1>13 DEF Tidy

\* The tail of a settle: every link left is resolved, so nothing is left behind.
LEMMA SettledTidy == ASSUME TreeInv, ClosesInv, NEW c \in Conversations, SettleEnds(c) PROVE Tidy(c)
<1> DEFINE flushed == Flushable(c)
           f == Flushed(session, flushed)
           settled == LinksSettled(f, c)
           cancelled == drive[c].why = "cancel"
           place == IF cancelled THEN "ending" ELSE IF flushed = {} THEN "closing" ELSE "settled"
           e == Closed(session[c], "cancelled")
<1>1. /\ session' = IF cancelled THEN [settled EXCEPT ![c] = Closed(@, "cancelled")] ELSE settled
      /\ drive' = [drive EXCEPT ![c] = [@ EXCEPT !.pending = {}, !.pc = place]]
      /\ drive[c].pc = "settle"
  BY Scheduled DEF SettleEnds
<1>2. place \in {"ending", "closing", "settled"} /\ (place = "ending" <=> cancelled)
  OBVIOUS
<1>3. flushed \subseteq Kids(c) /\ \A k \in flushed : ~Live(k)
  BY DEF Flushable, Unresolved
<1>4. c \notin Kids(c) /\ \A k \in Kids(c) : k # Main /\ k \in Conversations /\ k \in Subagents
  BY Numbered DEF Kids, Conversations
<1> HIDE DEF flushed, place, cancelled
<1>5. \A k \in Conversations :
        /\ f[k] \in Entries /\ f[k].link = session[k].link
        /\ k \in flushed => f[k].turn = "cancelled"
        /\ k \notin flushed => f[k] = session[k]
  BY <1>3, FlushedChild
<1> HIDE DEF f
<1>6. \A k \in Conversations :
        settled[k] = IF k \in Kids(c) /\ f[k].link = "open" THEN [f[k] EXCEPT !.link = "cancelled"] ELSE f[k]
  BY DEF LinksSettled, Unresolved
<1>7. DOMAIN settled = Conversations
  BY DEF LinksSettled
<1> HIDE DEF settled
<1>8. \A k \in Conversations :
        /\ settled[k].turn = f[k].turn /\ settled[k].cancel = f[k].cancel
        /\ settled[k].link = IF k \in Kids(c) /\ f[k].link = "open" THEN "cancelled" ELSE f[k].link
  BY <1>5, <1>6 DEF Entries
<1>9. settled[c] = session[c] /\ session[c] \in Entries
  BY <1>3, <1>4, <1>5, <1>6
<1>10. e.turn = "cancelled" /\ e.link = session[c].link
  BY <1>9, ClosedEntry DEF ClosedTurns
<1> HIDE DEF e
<1>11. /\ \A k \in Conversations \ {c} : session'[k] = settled[k]
       /\ session'[c] = IF cancelled THEN e ELSE session[c]
  BY <1>1, <1>7, <1>9 DEF e
<1>12. drive'[c].pc = place /\ \A k \in Conversations \ {c} : drive'[k] = drive[k]
  BY <1>1 DEF TreeInv, TreeTypes, Drives
<1>13. \A k \in Conversations \ {c} : Aside(k)
  <2> TAKE k \in Conversations \ {c}
  <2>1. CASE k \in flushed
    <3>1. drive[k].pc = "off"
      BY <1>3, <2>1, Stands DEF Fine, Placed, Live
    <3> QED  BY <1>3, <1>4, <1>5, <1>8, <1>11, <1>12, <2>1, <3>1 DEF Aside, WoundDown
  <2>2. CASE k \notin flushed
    BY <1>5, <1>8, <1>11, <1>12, <2>2 DEF Aside, SameTurn
  <2> QED  BY <2>1, <2>2
<1>14. \A k \in Subagents \ {c} :
         session'[k].link = IF k \in Kids(c) /\ session[k].link = "open" THEN "cancelled" ELSE session[k].link
  BY <1>5, <1>8, <1>11 DEF Conversations
<1>15. session'[c].link = session[c].link
  BY <1>10, <1>11
<1>16. Unresolved(session', c) = {}
  BY <1>4, <1>14 DEF Unresolved
<1>17. session[c].turn = "open"
  BY <1>1 DEF ClosesInv, InTurn, Looping, Synchronous
<1>18. drive'[c].pc \in InTurn => session'[c].turn = "open"
  BY <1>2, <1>11, <1>12, <1>17 DEF InTurn
<1>19. \A k \in Subagents : session'[k].link \in {"open", "result"} => session[k].link = session'[k].link
  BY <1>14, <1>15
<1>20. Closes(c)
  BY <1>13, <1>16, <1>18, <1>19 DEF Closes
<1>21. OverIn(session, c) => OverIn(session', c)
  BY <1>10, <1>11 DEF OverIn, ClosedTurns
<1>22. Delivers(c)
  BY <1>2, <1>12, <1>19, <1>21 DEF Delivers
<1> QED  BY <1>20, <1>22 DEF Tidy

\* A result lands on the link of the child its tool was run for.
LEMMA ResolvedTidy == ASSUME TreeInv, ClosesInv, NEW c \in Conversations, Resolved(c) PROVE Tidy(c)
<1> DEFINE k == First(drive[c].pending)
           e == [session[k] EXCEPT !.link = "result"]
           g == [session[c] EXCEPT !.fresh = TRUE]
<1>1. /\ session' = [session EXCEPT ![k].link = "result", ![c].fresh = TRUE]
      /\ drive' = [drive EXCEPT ![c] = [@ EXCEPT !.pc = "resolve", !.pending = drive[c].pending \ {k}]]
      /\ drive[c].pc = "resolving"
  BY Scheduled DEF Resolved
<1>2. drive[c].pending # {} /\ drive[c].pending \subseteq Unresolved(session, c)
  BY <1>1, Stands DEF Fine, Placed, Resolvers
<1>3. k \in drive[c].pending
  <2>1. drive[c].pending \in SUBSET Nat
    BY <1>2, Stands, FewSubagents
  <2> QED  BY <1>2, <2>1, FirstIsLeast
<1>4. k \in Kids(c) /\ session[k].link = "open" /\ k \in Subagents /\ k \in Conversations /\ k # c
  BY <1>2, <1>3, Numbered DEF Unresolved, Conversations
<1>5. ResultsInv => OverIn(session, k)
  BY <1>1 DEF ResultsInv
<1> HIDE DEF k
<1>6. session[k] \in Entries /\ session[c] \in Entries /\ session \in [Conversations -> Entries]
  BY <1>4, Stands DEF TreeInv, TreeTypes
<1>7. /\ e.link = "result" /\ e.turn = session[k].turn /\ e.cancel = session[k].cancel
      /\ g.link = session[c].link /\ g.turn = session[c].turn /\ g.cancel = session[c].cancel
  BY <1>6 DEF Entries
<1>8. session' = [session EXCEPT ![k] = e, ![c] = g]
  BY <1>1, <1>4, <1>6
<1> HIDE DEF e, g
<1>9. session'[k] = e /\ session'[c] = g /\ \A j \in Conversations \ {c, k} : session'[j] = session[j]
  BY <1>4, <1>6, <1>8
<1>10. drive'[c].pc = "resolve" /\ \A j \in Conversations \ {c} : drive'[j] = drive[j]
  BY <1>1 DEF TreeInv, TreeTypes, Drives
<1>11. \A j \in Conversations : SameTurn(j)
  BY <1>7, <1>9 DEF SameTurn
<1>12. \A j \in Subagents : session'[j].link = IF j = k THEN "result" ELSE session[j].link
  BY <1>4, <1>7, <1>9 DEF Conversations
<1>13. session[c].turn = "open"
  BY <1>1 DEF ClosesInv, InTurn, Looping, Synchronous
<1>14. session'[c].turn = "open"
  BY <1>11, <1>13 DEF SameTurn
<1>15. Closes(c)
  BY <1>10, <1>11, <1>12, <1>14 DEF Closes, Aside, OwnEnds, ClosedTurns
<1>16. OverIn(session, c) => OverIn(session', c)
  BY <1>11 DEF OverIn, SameTurn
<1>17. ResultsInv => Delivers(c)
  BY <1>4, <1>5, <1>10, <1>12, <1>16 DEF Delivers
<1> QED  BY <1>15, <1>17 DEF Tidy

\* A spawned child starts with its question, below an open turn.
LEMMA SpawnTidy == ASSUME TreeInv, ClosesInv, NEW c \in Conversations, Spawn(c) PROVE Tidy(c)
<1> DEFINE spawned == session[c].spawns
           fresh == [Unborn EXCEPT !.turn = "seeded", !.link = "open"]
           born == [NoDrive EXCEPT !.handle = "unstarted", !.under = drive[c].runs]
           e == [session[c] EXCEPT !.spawns = {}]
           more == drive[c].progress \/ spawned # {}
           d == [drive[c] EXCEPT !.pc = "stop", !.progress = more]
<1>1. /\ \A k \in Conversations :
            session'[k] = IF k \in spawned THEN fresh ELSE IF k = c THEN e ELSE session[k]
      /\ \A k \in Conversations :
            drive'[k] = IF k \in spawned THEN born ELSE IF k = c THEN d ELSE drive[k]
  BY DEF Spawn, Spawned
<1>2. drive[c].pc = "spawn"
  BY Scheduled DEF Spawn
<1>3. session[c] \in Entries /\ drive[c] \in Drives
  BY Stands
<1>4. /\ spawned \subseteq {k \in Kids(c) : session[k].link = "unborn"} /\ Kids(c) \subseteq Subagents
      /\ c \notin Kids(c) /\ \A k \in Kids(c) : k \in Conversations /\ k # Main
  BY Stands, Numbered DEF Conversations
<1>5. fresh.link = "open" /\ fresh.turn = "seeded" /\ born.pc = "off"
  BY DEF Unborn, NoDrive
<1>6. e.link = session[c].link /\ e.turn = session[c].turn /\ e.cancel = session[c].cancel
  BY <1>3 DEF Entries
<1>7. d.pc = "stop"
  BY <1>3 DEF Drives
<1> HIDE DEF spawned, fresh, born, e, d
<1>8. /\ session'[c] = e /\ drive'[c] = d
      /\ \A k \in spawned : session'[k] = fresh /\ drive'[k] = born
      /\ \A k \in Conversations \ ({c} \cup spawned) : session'[k] = session[k] /\ drive'[k] = drive[k]
  BY <1>1, <1>4
<1>9. \A k \in Conversations \ {c} : Aside(k)
  <2> TAKE k \in Conversations \ {c}
  <2>1. CASE k \in spawned
    <3>1. k \in Kids(c) /\ session[k].link = "unborn" /\ k # Main
      BY <1>4, <2>1
    <3>2. drive[k].pc = "off"
      BY <3>1, Stands DEF Fine, Placed
    <3> QED  BY <1>5, <1>8, <2>1, <3>1, <3>2 DEF Aside, Seeded
  <2>2. CASE k \notin spawned
    BY <1>8, <2>2 DEF Aside, SameTurn
  <2> QED  BY <2>1, <2>2
<1>10. session[c].turn = "open"
  BY <1>2 DEF ClosesInv, InTurn, Looping, Synchronous
<1>11. \A k \in Subagents : session'[k].link # session[k].link => k \in Kids(c) /\ session'[k].link = "open"
  BY <1>4, <1>5, <1>6, <1>8 DEF Conversations
<1>12. Closes(c)
  BY <1>6, <1>7, <1>8, <1>9, <1>10, <1>11 DEF Closes, OwnEnds, ClosedTurns
<1>13. OverIn(session, c) => OverIn(session', c)
  BY <1>6, <1>8 DEF OverIn
<1>14. Delivers(c)
  BY <1>7, <1>8, <1>11, <1>13 DEF Delivers
<1> QED  BY <1>12, <1>14 DEF Tidy

\* A grant starts a drive over an open turn, or starts nothing.
LEMMA GrantTidy ==
    ASSUME TreeInv, ClosesInv, NEW w \in WaiterRecords, NEW q, NEW rest, Grantable(w.conv),
           GrantStart(w, q, rest) \/ GrantFails(w, q, rest) \/ GrantRedrive(w, q, rest)
    PROVE  Tidy(w.conv)
<1> DEFINE k == w.conv
           own == HandleOf(w)
<1>1. k \in Subagents /\ k \in Conversations
  BY DEF Grantable, Conversations
<1>2. own \in {"current", "old"}
  BY DEF HandleOf
<1>3. /\ drive \in [Conversations -> Drives] /\ drive[k] \in Drives
      /\ session \in [Conversations -> Entries]
  BY <1>1 DEF TreeInv, TreeTypes
<1>4. NeedsSlot(k) => session[k].turn \in {"seeded", "open"}
  BY DEF Grantable
<1>5. CASE GrantStart(w, q, rest)
  <2> DEFINE handle == IF w.old THEN drive[k].handle ELSE "started"
             d0 == [drive[k] EXCEPT !.pc = "created", !.token = FALSE, !.runs = own, !.handle = handle]
             d == [drive EXCEPT ![k] = d0]
             a == Adopted(k, own, d)
  <2>1. session' = [session EXCEPT ![k] = Opened(session[k])] /\ drive' = Stirred(k, a)
    BY <1>5 DEF GrantStart
  <2>2. handle \in {"none", "unstarted", "started", "abandoned"}
    BY <1>3 DEF Drives
  <2> HIDE DEF handle, own
  <2>3. d0 \in Drives /\ d0.pc = "created"
    BY ZenonT(60), <1>2, <1>3, <2>2 DEF Drives, Locations
  <2> HIDE DEF d0
  <2>4. d \in [Conversations -> Drives] /\ d[k] = d0 /\ \A j \in Conversations \ {k} : d[j] = drive[j]
    BY <1>1, <1>3, <2>3
  <2> HIDE DEF d
  <2>5. a \in [Conversations -> Drives] /\ \A j \in Conversations : Alike(a[j], d[j])
    BY <1>1, <1>2, <2>4, AdoptedDrives
  <2> HIDE DEF a
  <2>6. \A j \in Conversations : Alike(drive'[j], a[j])
    BY <1>1, <2>1, <2>5, StirredDrives
  <2>7. /\ drive'[k].pc = "created"
        /\ \A j \in Conversations \ {k} : drive'[j].pc = drive[j].pc /\ drive'[j].pending = drive[j].pending
    BY <1>1, <2>3, <2>4, <2>5, <2>6 DEF Alike
  <2> HIDE DEF k
  <2>8. Tidy(k)
    BY <1>1, <1>4, <2>1, <2>7, OpenedTidy
  <2> QED  BY <2>8 DEF k
<1>6. CASE GrantFails(w, q, rest)
  <2> DEFINE handle == IF w.old THEN drive[k].handle ELSE "abandoned"
             d0 == [drive[k] EXCEPT !.handle = handle]
             d == [drive EXCEPT ![k] = d0]
             a == Adopted(k, own, d)
  <2>1. session' = session /\ drive' = Stirred(k, a)
    BY <1>6 DEF GrantFails
  <2>2. handle \in {"none", "unstarted", "started", "abandoned"}
    BY <1>3 DEF Drives
  <2> HIDE DEF handle, own
  <2>3. d0 \in Drives /\ Alike(d0, drive[k])
    BY <1>3, <2>2 DEF Drives, Alike
  <2> HIDE DEF d0
  <2>4. d \in [Conversations -> Drives] /\ d[k] = d0 /\ \A j \in Conversations \ {k} : d[j] = drive[j]
    BY <1>1, <1>3, <2>3
  <2> HIDE DEF d
  <2>5. a \in [Conversations -> Drives] /\ \A j \in Conversations : Alike(a[j], d[j])
    BY <1>1, <1>2, <2>4, AdoptedDrives
  <2> HIDE DEF a
  <2>6. \A j \in Conversations : Alike(drive'[j], a[j])
    BY <1>1, <2>1, <2>5, StirredDrives
  <2>7. \A j \in Conversations :
          /\ drive'[j].pc = drive[j].pc /\ drive'[j].pending = drive[j].pending
          /\ session'[j].link = session[j].link /\ (SameTurn(j) \/ ToldToStop(j))
    BY <1>1, <2>1, <2>3, <2>4, <2>5, <2>6 DEF Alike, SameTurn
  <2> HIDE DEF k
  <2>8. Tidy(k)
    BY <1>1, <2>7, StayingTidy
  <2> QED  BY <2>8 DEF k
<1>7. CASE GrantRedrive(w, q, rest)
  <2> DEFINE d0 == [drive[k] EXCEPT !.pc = "created", !.runs = own]
             d == [drive EXCEPT ![k] = d0]
  <2>1. session' = session /\ drive' = Stirred(k, d)
    BY <1>7 DEF GrantRedrive
  <2> HIDE DEF own
  <2>2. d0 \in Drives /\ d0.pc = "created"
    BY <1>2, <1>3 DEF Drives, Locations
  <2> HIDE DEF d0
  <2>3. d \in [Conversations -> Drives] /\ d[k] = d0 /\ \A j \in Conversations \ {k} : d[j] = drive[j]
    BY <1>1, <1>3, <2>2
  <2> HIDE DEF d
  <2>4. \A j \in Conversations : Alike(drive'[j], d[j])
    BY <1>1, <2>1, <2>3, StirredDrives
  <2>5. /\ drive'[k].pc = "created"
        /\ \A j \in Conversations \ {k} : drive'[j].pc = drive[j].pc /\ drive'[j].pending = drive[j].pending
    BY <1>1, <2>2, <2>3, <2>4 DEF Alike
  <2> HIDE DEF k
  <2>6. Closes(k) /\ Delivers(k)
    BY <1>1, <2>1, <2>5, PlacedCloses DEF InTurn, Looping, Synchronous
  <2> QED  BY <2>6 DEF k, Tidy
<1> QED  BY <1>5, <1>6, <1>7

\* start() on the main conversation.
LEMMA StartRunTidy == ASSUME TreeInv, ClosesInv, StartRun PROVE Tidy(Main)
<1> DEFINE d0 == [NoDrive EXCEPT !.pc = "created", !.runs = "current", !.recheck = drive[Main].recheck]
           d == [drive EXCEPT ![Main] = d0]
<1>1. session' = [session EXCEPT ![Main] = Opened(session[Main])] /\ drive' = Adopted(Main, "current", d)
  BY DEF StartRun
<1>2. Main \in Conversations /\ ~NeedsSlot(Main)
  BY DEF Conversations, NeedsSlot
<1>3. d0 \in Drives /\ d0.pc = "created"
  <2>1. drive[Main] \in Drives
    BY <1>2, Stands
  <2> QED  BY ZenonT(60), <2>1 DEF NoDrive, Drives, Locations
<1> HIDE DEF d0
<1>4. d \in [Conversations -> Drives] /\ d[Main] = d0 /\ \A j \in Conversations \ {Main} : d[j] = drive[j]
  BY <1>2, <1>3 DEF TreeInv, TreeTypes
<1> HIDE DEF d
<1>5. \A j \in Conversations : Alike(drive'[j], d[j])
  BY <1>1, <1>2, <1>4, AdoptedDrives
<1>6. /\ drive'[Main].pc = "created"
      /\ \A j \in Conversations \ {Main} : drive'[j].pc = drive[j].pc /\ drive'[j].pending = drive[j].pending
  BY <1>2, <1>3, <1>4, <1>5 DEF Alike
<1> QED  BY <1>1, <1>2, <1>6, OpenedTidy

\* A slot given back to a drive that waits for it.
LEMMA ResumeTidy ==
    ASSUME TreeInv, ClosesInv, PumpReady, GrantResume(Head(waiters), Tail(waiters), todo)
    PROVE  \E c \in Conversations : Tidy(c)
<1> DEFINE k == waiters[1].conv
<1>1. Head(waiters) = waiters[1] /\ 1 \in DOMAIN waiters /\ waiters[1] \in WaiterRecords
  BY QueueHead DEF PumpReady
<1>2. k \in Conversations /\ waiters[1].kind = "resume"
  BY <1>1 DEF WaiterRecords, Conversations, GrantResume
<1>3. drive[k].pc = "acquiring"
  BY <1>1, <1>2 DEF TreeInv, QueueInv
<1>4. session' = session /\ drive' = [drive EXCEPT ![k].pc = "again"]
  BY <1>1, <1>3 DEF GrantResume
<1> HIDE DEF k
<1>5. drive'[k].pc = "again" /\ \A j \in Conversations \ {k} : drive'[j] = drive[j]
  BY <1>2, <1>4 DEF TreeInv, TreeTypes, Drives
<1>6. Closes(k) /\ Delivers(k)
  BY <1>2, <1>3, <1>4, <1>5, PlacedCloses DEF InTurn, Looping, Synchronous
<1> QED  BY <1>2, <1>6 DEF Tidy

\* A step that leaves every path and every drive where it is.
LEMMA StillTidy ==
    ASSUME TreeInv, ClosesInv, session' = session,
           \A k \in Conversations : drive'[k].pc = drive[k].pc /\ drive'[k].pending = drive[k].pending
    PROVE  \E c \in Conversations : Tidy(c)
<1>1. Tidy(Main)
  BY StayingTidy DEF SameTurn, Conversations
<1> QED  BY <1>1 DEF Conversations

\* The pool.
LEMMA PoolTidy == ASSUME TreeInv, ClosesInv, Pool PROVE \E c \in Conversations : Tidy(c)
<1>1. CASE Pump
  <2> DEFINE w == Head(waiters)
             q == Tail(waiters)
  <2>1. PumpReady /\ waiters # <<>>
    BY <1>1 DEF Pump, PumpReady
  <2>2. w \in WaiterRecords /\ session[w.conv].link # "unborn"
    <3>1. w = waiters[1] /\ 1 \in DOMAIN waiters /\ waiters[1] \in WaiterRecords
      BY <2>1, QueueHead
    <3> QED  BY <3>1 DEF TreeInv, QueueInv
  <2>3. w.conv \in Conversations
    BY <2>2 DEF WaiterRecords, Conversations
  <2>4. CASE ~StillWants(w)
    <3>1. session' = session /\ drive' = drive
      BY <1>1, <2>4 DEF Pump
    <3> QED  BY <3>1, StillTidy
  <2>5. CASE StillWants(w)
    <3>1. Grant(w, q, todo)
      BY <1>1, <2>5 DEF Pump
    <3>2. CASE GrantResume(w, q, todo)
      BY <2>1, <3>2, ResumeTidy
    <3>3. CASE GrantStart(w, q, todo) \/ GrantFails(w, q, todo) \/ GrantRedrive(w, q, todo)
      <4>1. w.kind # "resume"
        BY <3>3 DEF GrantStart, GrantFails, GrantRedrive
      <4> HIDE DEF w, q
      <4>2. Grantable(w.conv)
        BY <2>2, <2>5, <4>1, WantedIsGrantable
      <4> QED  BY <2>2, <2>3, <3>3, <4>2, GrantTidy
    <3> QED  BY <3>1, <3>2, <3>3 DEF Grant
  <2> QED  BY <2>4, <2>5
<1>2. CASE RequestSlot
  <2> DEFINE request == Head(todo)
             k == request.conv
             w == Waiter(k, request.op)
             rest == Tail(todo)
  <2>1. todo # <<>> /\ request.op # "drive"
    BY <1>2 DEF RequestSlot
  <2>2. CASE NeedsSlot(k)
    <3>1. session' = session /\ drive' = drive
      BY <1>2, <2>2 DEF RequestSlot
    <3> QED  BY <3>1, StillTidy
  <2>3. CASE ~NeedsSlot(k)
    <3>1. Grant(w, waiters, rest)
      BY <1>2, <2>3 DEF RequestSlot
    <3>2. k \in Subagents /\ session[k].link # "unborn" /\ request.op \in {"start", "redrive", "resume"}
      BY <2>1, FirstRequest
    <3>3. k \in Conversations
      BY <3>2 DEF Conversations
    <3>4. drive[k].pc # "acquiring"
      BY <2>3, <3>3, Stands DEF Fine, Placed
    <3>5. request.op # "resume"
      BY <2>1, <3>4, FirstRequest
    <3>6. w \in WaiterRecords /\ w.conv = k /\ w.kind # "resume"
      BY <3>2, <3>5 DEF Waiter, WaiterRecords
    <3> HIDE DEF w, rest, request
    <3>7. Grantable(w.conv)
      BY <2>3, <3>2, <3>4, <3>6 DEF Grantable
    <3>8. GrantStart(w, waiters, rest) \/ GrantFails(w, waiters, rest) \/ GrantRedrive(w, waiters, rest)
      BY <3>1, <3>6 DEF Grant, GrantResume
    <3>9. Tidy(w.conv)
      BY <3>6, <3>7, <3>8, GrantTidy
    <3> QED  BY <3>3, <3>6, <3>9
  <2> QED  BY <2>2, <2>3
<1>3. CASE EnsureDriven
  <2> DEFINE c == Head(todo).conv
             d == [drive[c] EXCEPT !.wake = TRUE]
  <2>1. session' = session /\ (drive' = drive \/ drive' = [drive EXCEPT ![c] = d])
    BY <1>3 DEF EnsureDriven
  <2>2. \A k \in Conversations : drive[k] \in Drives
    BY Stands
  <2>3. drive \in [Conversations -> Drives]
    BY DEF TreeInv, TreeTypes
  <2> HIDE DEF c
  <2>4. c \in Conversations => d.pc = drive[c].pc /\ d.pending = drive[c].pending
    BY <2>2 DEF Drives
  <2> HIDE DEF d
  <2>5. \A k \in Conversations : drive'[k] = drive[k] \/ (k = c /\ drive'[k] = d)
    BY <2>1, <2>3
  <2>6. \A k \in Conversations : drive'[k].pc = drive[k].pc /\ drive'[k].pending = drive[k].pending
    BY <2>4, <2>5
  <2> QED  BY <2>1, <2>6, StillTidy
<1> QED  BY <1>1, <1>2, <1>3 DEF Pool

\* One task is scheduled.
LEMMA StepTidy == ASSUME TreeInv, ClosesInv, NEW c \in Conversations, Step(c) PROVE Tidy(c)
<1>1. CASE \/ TopCancelled(c) \/ TopAdmissionError(c) \/ Top(c) \/ Again(c) \/ ToolsLost(c)
           \/ FlushYielded(c) \/ ResolvedAll(c) \/ ResolveLost(c) \/ GateCancelled(c) \/ Gated(c)
           \/ Announced(c) \/ Ungated(c) \/ Park(c) \/ Woken(c) \/ AcquireLost(c) \/ ModelLost(c)
           \/ SettleAwaits(c) \/ ChildSettled(c) \/ SettleYielded(c) \/ Ending(c)
  BY <1>1, QuietCloses DEF Tidy
<1>2. CASE TakeOff(c)  BY <1>2, TakeOffTidy
<1>3. CASE Reasked(c) \/ Dispatched(c)  BY <1>3, ToolsTidy
<1>4. CASE Spawn(c)  BY <1>4, SpawnTidy
<1>5. CASE StopChildren(c)  BY <1>5, StopTidy
<1>6. CASE Flush(c)  BY <1>6, FlushTidy
<1>7. CASE Resolve(c)  BY <1>7, ResolveCloses DEF Tidy
<1>8. CASE Resolved(c)  BY <1>8, ResolvedTidy
<1>9. CASE HardLimit(c) \/ ModelFails(c) \/ CloseSettled(c)  BY <1>9, FailuresTidy
<1>10. CASE ModelCalls(c) \/ ModelAnswers(c)  BY <1>10, ModelTidy
<1>11. CASE SettleEnds(c)  BY <1>11, SettledTidy
<1>12. CASE FanIn(c) \/ RunRaises(c)  BY <1>12, EndCloses DEF Tidy
<1> QED
  BY <1>1, <1>2, <1>3, <1>4, <1>5, <1>6, <1>7, <1>8, <1>9, <1>10, <1>11, <1>12 DEF Step

\* Every step but a crash is tidy.
LEMMA NextTidy == ASSUME TreeInv, ClosesInv, [Next]_vars, ~Crash PROVE \E c \in Conversations : Tidy(c)
<1>1. CASE Pool  BY <1>1, PoolTidy
<1>2. CASE StartRun  BY <1>2, StartRunTidy DEF Conversations
<1>3. ASSUME NEW c \in Conversations, Cancel(c) \/ Answer(c) PROVE Tidy(c)
  BY <1>3, CallsTidy
<1>4. ASSUME NEW c \in Conversations, ToolsRaise(c) PROVE Tidy(c)
  BY <1>4, QuietCloses DEF Tidy
<1>5. ASSUME NEW c \in Conversations, Step(c) PROVE Tidy(c)
  BY <1>5, StepTidy
<1>6. CASE UNCHANGED vars
  BY <1>6, StillTidy DEF vars
<1> QED  BY <1>1, <1>2, <1>3, <1>4, <1>5, <1>6 DEF Next

\* After a crash there is no drive, and the session is what it was.
LEMMA CrashTidy ==
    ASSUME TreeInv, ClosesInv, Crash
    PROVE  ClosesInv' /\ (ResultsInv => ResultsInv')
<1>1. session' = session /\ \A c \in Conversations : drive'[c].pc = "off"
  BY DEF Crash, NoDrive
<1>2. ClosesInv'
  BY <1>1 DEF ClosesInv, InTurn, Looping, Synchronous, Settled, Unresolved
<1>3. ResultsInv => ResultsInv'
  BY <1>1 DEF ResultsInv, OverIn
<1> QED  BY <1>2, <1>3

\* The two invariants are kept.
LEMMA NextKeepsCloses == TreeInv /\ ClosesInv /\ [Next]_vars => ClosesInv'
<1> SUFFICES ASSUME TreeInv, ClosesInv, [Next]_vars PROVE ClosesInv'
  OBVIOUS
<1>1. CASE Crash  BY <1>1, CrashTidy
<1>2. CASE ~Crash
  <2>1. PICK c \in Conversations : Tidy(c)
    BY <1>2, NextTidy
  <2> QED  BY <2>1, ClosesKept DEF Tidy
<1> QED  BY <1>1, <1>2

\* And the results, where the pool looks at what it grants.
LEMMA NextKeepsResults ==
    ASSUME MaxWorkers # 0
    PROVE  TreeInv /\ TreeInv' /\ ClosesInv /\ ResultsInv /\ [Next]_vars => ResultsInv'
<1> SUFFICES ASSUME TreeInv, TreeInv', ClosesInv, ResultsInv, [Next]_vars PROVE ResultsInv'
  OBVIOUS
<1>1. CASE Crash  BY <1>1, CrashTidy
<1>2. CASE ~Crash
  <2>1. PICK c \in Conversations : Tidy(c)
    BY <1>2, NextTidy
  <2> QED  BY <2>1, ResultsKept DEF Tidy
<1> QED  BY <1>1, <1>2

\* Before the first run nothing is closed and nothing is resolved.
LEMMA InitialCloses == Init => ClosesInv /\ ResultsInv
<1> SUFFICES ASSUME Init PROVE ClosesInv /\ ResultsInv
  OBVIOUS
<1>1. \A c \in Conversations :
        /\ drive[c].pc = "off" /\ session[c].turn \in {"seeded", "none"} /\ session[c].link = "unborn"
  BY DEF Init, NoDrive, FirstQuestion, Unborn
<1>2. \A k \in Subagents : session[k].link = "unborn"
  BY <1>1 DEF Conversations
<1>3. ClosesInv
  BY <1>1 DEF ClosesInv, InTurn, Looping, Synchronous, Settled, OwnEnds, ClosedTurns
<1> QED  BY <1>1, <1>2, <1>3 DEF ResultsInv

\* Closes: for every tree, no end a drive writes itself (the main conversation's
\* any, a subagent's answer or failure) leaves an unresolved child behind, and
\* a drive that settled its children has none left.
THEOREM ClosesHold == Spec => []ClosesInv
<1>1. Init => ClosesInv
  BY InitialCloses
<1>2. TreeInv /\ ClosesInv /\ [Next]_vars => ClosesInv'
  BY NextKeepsCloses
<1> QED  BY <1>1, <1>2, TreeHolds, PTL DEF Spec

\* Closes: where subagents spawn none themselves, no closed turn at all owns an
\* unresolved child.  In deeper trees a parent's flush closes a cancelled child
\* over what that child owns.
THEOREM ClosedOwnNothing ==
    ASSUME \A k \in Subagents : Parent[k] = Main
    PROVE  Spec => []ClosedTurnsOwnNothing
<1>1. ClosesInv => ClosedTurnsOwnNothing
  <2>1. \A c \in Conversations : c # Main => Kids(c) = {}
    BY DEF Kids
  <2> QED  BY <2>1 DEF ClosesInv, ClosedTurnsOwnNothing, OwnEnds, Unresolved
<1> QED  BY <1>1, ClosesHold, PTL

\* Links: under a cap, a child whose result its parent took has closed its turn
\* or was told to stop, and never starts again: `_still_wants_slot` keeps a
\* child that is over from a slot.  Without a cap nobody asks that question.
THEOREM ResultsAreOver ==
    ASSUME MaxWorkers # 0
    PROVE  Spec => []ResolvedIsOver
<1>1. Init => ResultsInv
  BY InitialCloses
<1>2. TreeInv /\ TreeInv' /\ ClosesInv /\ ResultsInv /\ [Next]_vars => ResultsInv'
  BY NextKeepsResults
<1>3. ResultsInv => ResolvedIsOver
  BY DEF ResultsInv, ResolvedIsOver, OverIn
<1> QED  BY <1>1, <1>2, <1>3, TreeHolds, ClosesHold, PTL DEF Spec

=============================================================================
