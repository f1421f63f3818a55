--------------------------- MODULE CompactionProofs ---------------------------
(***************************************************************************)
(* The proofs about Compaction.  The invariant CompactionInv says what a   *)
(* path may be (turns bracketed, a compaction's bracket bare and without   *)
(* an answer, an open turn with something to answer), what a compaction    *)
(* left on its successor, and where the one drive may be in the runner's   *)
(* steps, given the conversation it works on and the path it finds there.  *)
(* The first half is about paths and about what an append, a rewind and a  *)
(* commit make of them; the second has one lemma per step of the runner.   *)
(***************************************************************************)
EXTENDS Compaction, SequenceTheorems, WellFoundedInduction, TLAPS

-----------------------------------------------------------------------------
(* What a path is made of, and the predicates on a path the invariant uses. *)

\* What a compaction entry may be.
Compactions ==
    [kind : {"compaction"}, source : {"user", "policy"}, summary : BOOLEAN, folded : SUBSET Nat]

\* The entries of this module: those of Conversation without tool calls, and
\* the compaction's.
Items ==
    {UserMessage, TurnStart}
    \cup [kind : {"finish"}, outcome : TurnOutcomes]
    \cup [kind : {"cancel"}, outcome : {"cancelled", "errored"}]
    \cup [kind : {"assistant"}, stop : {"stop"}, seen : Nat]
    \cup Compactions

\* Starts and finishes take turns.
Alternates(p) ==
    \A i, j \in DOMAIN p :
        /\ i < j /\ p[i].kind = p[j].kind /\ p[i].kind \in {"start", "finish"}
        => \E k \in i + 1 .. j - 1 : p[k].kind = (IF p[i].kind = "start" THEN "finish" ELSE "start")

\* The open turn, at s, is a compaction's.
OpensCompaction(p, s) == IsOpenTurn(p, s) /\ IsCompactionBracket(p, s)
\* Some open turn is one.
Compacting(p) == \E s \in DOMAIN p : OpensCompaction(p, s)

\* No model answers inside a compaction bracket.
CompactionsAreMute(p) ==
    \A s, j \in DOMAIN p :
        /\ Holds(p, s, "start") /\ IsCompactionBracket(p, s)
        /\ s < j /\ Holds(p, j, "assistant")
        => \E k \in s + 1 .. j - 1 : Holds(p, k, "finish")

\* An open compaction has no summary, and nothing but cancels behind it.
OpenCompactionIsBare(p) ==
    \A s \in DOMAIN p : OpensCompaction(p, s) =>
        /\ p[s + 1].summary = FALSE
        /\ \A j \in DOMAIN p : j > s + 1 => Holds(p, j, "cancel")

\* What every write keeps of a path.
Bracketed(p) == Alternates(p) /\ CompactionsAreMute(p) /\ OpenCompactionIsBare(p)

\* There is a user message no answer has seen.
HasInput(p) ==
    \E i \in DOMAIN p :
        /\ Holds(p, i, "user")
        /\ \A j \in DOMAIN p : Holds(p, j, "assistant") => p[j].seen < i \/ j < i

\* An open turn that may still call the model has what to answer.
TurnHasInput(p) ==
    HasOpenTurn(p) /\ ~Compacting(p) /\ ~CancelIsPending(p) => HasInput(p)

\* What the main conversation keeps besides.
PathOK(p) == Bracketed(p) /\ TurnHasInput(p)

\* Between turns, the conversation waits for the model.
Owed(p) ==
    LET end == EndBeforeClosedBrackets(p) IN end > 0 /\ Holds(p, end, "user")

\* q is p with x behind it.
Extends(p, q, x) ==
    /\ Len(p) \in Nat /\ DOMAIN p = 1 .. Len(p)
    /\ Len(q) = Len(p) + 1 /\ DOMAIN q = 1 .. Len(q)
    /\ \A i \in 1 .. Len(p) : q[i] = p[i]
    /\ q[Len(q)] = x

-----------------------------------------------------------------------------
(* One entry more.                                                         *)

\* A cancel is pending when the open turn holds one.
LEMMA CancelPendingIs ==
    ASSUME NEW p
    PROVE  CancelIsPending(p) <=>
             \E s, i \in DOMAIN p : IsOpenTurn(p, s) /\ s <= i /\ Holds(p, i, "cancel")
<1> QED  BY DEF CancelIsPending, OpenTurnEntries, InOpenTurn

\* Between two entries of kind a there is one of kind b.
Between(p, n, a, b) ==
    \A i, j \in 1 .. n : i < j /\ p[i].kind = a /\ p[j].kind = a
        => \E k \in 1 .. n : i < k /\ k < j /\ p[k].kind = b

\* Both ways, and the brackets take turns.
LEMMA AlternatesBetween ==
    ASSUME NEW p, NEW n \in Nat, DOMAIN p = 1 .. n
    PROVE  Alternates(p) <=> Between(p, n, "start", "finish") /\ Between(p, n, "finish", "start")
<1>1. ASSUME Alternates(p) PROVE Between(p, n, "start", "finish")
  <2> SUFFICES ASSUME NEW i \in 1 .. n, NEW j \in 1 .. n, i < j,
                      p[i].kind = "start", p[j].kind = "start"
               PROVE  \E k \in 1 .. n : i < k /\ k < j /\ p[k].kind = "finish"
    BY DEF Between
  <2>1. \E k \in i + 1 .. j - 1 : p[k].kind = (IF p[i].kind = "start" THEN "finish" ELSE "start")
    BY <1>1 DEF Alternates
  <2> QED  BY <2>1
<1>2. ASSUME Alternates(p) PROVE Between(p, n, "finish", "start")
  <2> SUFFICES ASSUME NEW i \in 1 .. n, NEW j \in 1 .. n, i < j,
                      p[i].kind = "finish", p[j].kind = "finish"
               PROVE  \E k \in 1 .. n : i < k /\ k < j /\ p[k].kind = "start"
    BY DEF Between
  <2>1. \E k \in i + 1 .. j - 1 : p[k].kind = (IF p[i].kind = "start" THEN "finish" ELSE "start")
    BY <1>2 DEF Alternates
  <2> QED  BY <2>1
<1>3. ASSUME Between(p, n, "start", "finish"), Between(p, n, "finish", "start")
      PROVE  Alternates(p)
  <2>1. ASSUME NEW i \in 1 .. n, NEW j \in 1 .. n, i < j, p[i].kind = p[j].kind,
               p[i].kind = "start"
        PROVE  \E k \in i + 1 .. j - 1 : p[k].kind = (IF p[i].kind = "start" THEN "finish" ELSE "start")
    <3>1. PICK k \in 1 .. n : i < k /\ k < j /\ p[k].kind = "finish"
      BY ZenonT(40), <1>3, <2>1 DEF Between
    <3> QED  BY <3>1, <2>1
  <2>2. ASSUME NEW i \in 1 .. n, NEW j \in 1 .. n, i < j, p[i].kind = p[j].kind,
               p[i].kind = "finish"
        PROVE  \E k \in i + 1 .. j - 1 : p[k].kind = (IF p[i].kind = "start" THEN "finish" ELSE "start")
    <3>1. PICK k \in 1 .. n : i < k /\ k < j /\ p[k].kind = "start"
      BY ZenonT(40), <1>3, <2>2 DEF Between
    <3> QED  BY <3>1, <2>2
  <2> QED  BY <2>1, <2>2, ZenonT(40) DEF Alternates
<1> QED  BY <1>1, <1>2, <1>3

\* A start between turns alternates, and opens a turn of its own.
LEMMA StartAlternates ==
    ASSUME NEW p, NEW q, Extends(p, q, TurnStart), Alternates(p), ~HasOpenTurn(p)
    PROVE  /\ Alternates(q)
           /\ \A s \in DOMAIN q : IsOpenTurn(q, s) <=> s = Len(q)
<1> DEFINE n == Len(p)
<1>0. n \in Nat /\ DOMAIN p = 1 .. n /\ Len(q) = n + 1 /\ DOMAIN q = 1 .. n + 1
      /\ (\A i \in 1 .. n : q[i] = p[i]) /\ q[n + 1].kind = "start"
  BY DEF Extends, TurnStart
<1> HIDE DEF n
<1>a. Between(p, n, "start", "finish") /\ Between(p, n, "finish", "start")
  BY <1>0, AlternatesBetween
<1>1. \A s \in DOMAIN q : IsOpenTurn(q, s) <=> s = Len(q)
  <2>1. \A s \in 1 .. n : ~IsOpenTurn(q, s)
    BY <1>0 DEF IsOpenTurn, Holds
  <2>2. IsOpenTurn(q, n + 1)
    BY <1>0 DEF IsOpenTurn, Holds
  <2> QED  BY <1>0, <2>1, <2>2
<1>2. ASSUME NEW i \in 1 .. n, p[i].kind = "start"
      PROVE  \E k \in i + 1 .. n : p[k].kind = "finish"
  <2>1. PICK j \in 1 .. n : j > i /\ p[j].kind \in {"start", "finish"}
    BY <1>0, <1>2 DEF HasOpenTurn, IsOpenTurn, Holds
  <2>2. CASE p[j].kind = "finish"
    BY <2>1, <2>2, <1>0
  <2>3. CASE p[j].kind = "start"
    <3>1. \E k \in i + 1 .. j - 1 : p[k].kind = "finish"
      BY <1>0, <1>2, <2>1, <2>3 DEF Alternates
    <3> QED  BY <3>1, <2>1, <1>0
  <2> QED  BY <2>1, <2>2, <2>3
<1>3. Between(q, n + 1, "start", "finish")
  <2> SUFFICES ASSUME NEW i \in 1 .. n + 1, NEW j \in 1 .. n + 1, i < j,
                      q[i].kind = "start", q[j].kind = "start"
               PROVE  \E k \in 1 .. n + 1 : i < k /\ k < j /\ q[k].kind = "finish"
    BY DEF Between
  <2>1. CASE j = n + 1
    BY <1>0, <1>2, <2>1
  <2>2. CASE j # n + 1
    BY <1>0, <1>a, <2>2 DEF Between
  <2> QED  BY <2>1, <2>2
<1>4. Between(q, n + 1, "finish", "start")
  BY <1>0, <1>a DEF Between
<1>5. Alternates(q)
  BY <1>0, <1>3, <1>4, AlternatesBetween
<1> QED  BY <1>1, <1>5

\* A finish over an open turn alternates, and leaves none open.
LEMMA FinishAlternates ==
    ASSUME NEW p, NEW q, NEW o, Extends(p, q, TurnFinish(o)), Alternates(p), HasOpenTurn(p)
    PROVE  Alternates(q) /\ ~HasOpenTurn(q)
<1> DEFINE n == Len(p)
<1>0. n \in Nat /\ DOMAIN p = 1 .. n /\ Len(q) = n + 1 /\ DOMAIN q = 1 .. n + 1
      /\ (\A i \in 1 .. n : q[i] = p[i]) /\ q[n + 1].kind = "finish"
  BY DEF Extends, TurnFinish
<1> HIDE DEF n
<1>1. PICK s \in 1 .. n : IsOpenTurn(p, s)
  BY <1>0 DEF HasOpenTurn
<1>2. p[s].kind = "start" /\ \A j \in 1 .. n : j > s => p[j].kind \notin {"start", "finish"}
  BY <1>0, <1>1 DEF IsOpenTurn, Holds
<1>3. ~HasOpenTurn(q)
  <2> SUFFICES ASSUME NEW t \in DOMAIN q, IsOpenTurn(q, t) PROVE FALSE
    BY DEF HasOpenTurn
  <2>1. q[t].kind = "start" /\ \A j \in 1 .. n + 1 : j > t => q[j].kind \notin {"start", "finish"}
    BY <1>0 DEF IsOpenTurn, Holds
  <2> QED  BY <2>1, <1>0
<1>4. Alternates(q)
  <2> SUFFICES ASSUME NEW i \in 1 .. n + 1, NEW j \in 1 .. n + 1, i < j,
                      q[i].kind = q[j].kind, q[i].kind \in {"start", "finish"}
               PROVE  \E k \in i + 1 .. j - 1 :
                         q[k].kind = (IF q[i].kind = "start" THEN "finish" ELSE "start")
    BY SMTT(30), <1>0 DEF Alternates
  <2>1. CASE j = n + 1
    <3>1. p[i].kind = "finish" /\ i \in 1 .. n
      BY <1>0, <2>1
    <3>2. i < s
      BY <3>1, <1>2, <1>0
    <3> QED  BY <3>1, <3>2, <2>1, <1>2, <1>0
  <2>2. CASE j # n + 1
    <3>1. \E k \in i + 1 .. j - 1 : p[k].kind = (IF p[i].kind = "start" THEN "finish" ELSE "start")
      BY <1>0, <2>2 DEF Alternates
    <3> QED  BY <3>1, <2>2, <1>0
  <2> QED  BY <2>1, <2>2
<1> QED  BY <1>3, <1>4

\* Any other entry leaves the brackets as they are.
LEMMA OthersAlternate ==
    ASSUME NEW p, NEW q, NEW x, Extends(p, q, x), Alternates(p), x.kind \notin {"start", "finish"}
    PROVE  /\ Alternates(q)
           /\ \A s \in DOMAIN q : IsOpenTurn(q, s) <=> s \in DOMAIN p /\ IsOpenTurn(p, s)
<1> DEFINE n == Len(p)
<1>0. n \in Nat /\ DOMAIN p = 1 .. n /\ Len(q) = n + 1 /\ DOMAIN q = 1 .. n + 1
      /\ (\A i \in 1 .. n : q[i] = p[i]) /\ q[n + 1].kind \notin {"start", "finish"}
  BY DEF Extends
<1> HIDE DEF n
<1>1. \A s \in DOMAIN q : IsOpenTurn(q, s) <=> s \in DOMAIN p /\ IsOpenTurn(p, s)
  <2>1. \A s \in 1 .. n : IsOpenTurn(q, s) <=> IsOpenTurn(p, s)
    BY <1>0 DEF IsOpenTurn, Holds
  <2>2. ~IsOpenTurn(q, n + 1)
    BY <1>0 DEF IsOpenTurn, Holds
  <2> QED  BY <1>0, <2>1, <2>2
<1>2. Alternates(q)
  <2> SUFFICES ASSUME NEW i \in 1 .. n + 1, NEW j \in 1 .. n + 1, i < j,
                      q[i].kind = q[j].kind, q[i].kind \in {"start", "finish"}
               PROVE  \E k \in i + 1 .. j - 1 :
                         q[k].kind = (IF q[i].kind = "start" THEN "finish" ELSE "start")
    BY SMTT(30), <1>0 DEF Alternates
  <2>1. j # n + 1 /\ i # n + 1
    BY <1>0
  <2>2. \E k \in i + 1 .. j - 1 : p[k].kind = (IF p[i].kind = "start" THEN "finish" ELSE "start")
    BY <1>0, <2>1 DEF Alternates
  <2> QED  BY <2>1, <2>2, <1>0
<1> QED  BY <1>1, <1>2

\* Whose bracket it is, with one entry more.
LEMMA BracketExtends ==
    ASSUME NEW p, NEW q, NEW x, Extends(p, q, x)
    PROVE  /\ \A s \in DOMAIN p : IsCompactionBracket(q, s) <=>
                 IsCompactionBracket(p, s) \/ (s = Len(p) /\ x.kind = "compaction")
           /\ ~IsCompactionBracket(q, Len(q))
           /\ \A s \in DOMAIN p : Holds(q, s, "start") <=> Holds(p, s, "start")
<1> DEFINE n == Len(p)
<1>0. n \in Nat /\ DOMAIN p = 1 .. n /\ Len(q) = n + 1 /\ DOMAIN q = 1 .. n + 1
      /\ (\A i \in 1 .. n : q[i] = p[i]) /\ q[n + 1] = x
  BY DEF Extends
<1> HIDE DEF n
<1>1. \A s \in 1 .. n : s < n => (IsCompactionBracket(q, s) <=> IsCompactionBracket(p, s))
  BY <1>0 DEF IsCompactionBracket, Holds
<1>2. n > 0 => ~IsCompactionBracket(p, n) /\ (IsCompactionBracket(q, n) <=> x.kind = "compaction")
  BY <1>0 DEF IsCompactionBracket, Holds
<1>3. ~IsCompactionBracket(q, n + 1)
  BY <1>0 DEF IsCompactionBracket
<1>4. \A s \in 1 .. n : s = n \/ s < n
  BY <1>0
<1>5. \A s \in 1 .. n : n > 0
  BY <1>0
<1>6. ASSUME NEW s \in 1 .. n
      PROVE  IsCompactionBracket(q, s) <=> IsCompactionBracket(p, s) \/ (s = n /\ x.kind = "compaction")
  <2>1. CASE s = n
    BY <1>2, <1>5, <2>1
  <2>2. CASE s < n
    <3>1. s # n
      BY <2>2, <1>0
    <3> QED  BY <1>1, <2>2, <3>1
  <2> QED  BY <2>1, <2>2, <1>4
<1>7. \A s \in 1 .. n : Holds(q, s, "start") <=> Holds(p, s, "start")
  BY <1>0 DEF Holds
<1> QED  BY <1>0, <1>3, <1>6, <1>7 DEF n

\* What is not an answer leaves the compactions mute.
LEMMA MuteKept ==
    ASSUME NEW p, NEW q, NEW x, Extends(p, q, x), CompactionsAreMute(p), x.kind # "assistant"
    PROVE  CompactionsAreMute(q)
<1> DEFINE n == Len(p)
<1>0. n \in Nat /\ DOMAIN p = 1 .. n /\ Len(q) = n + 1 /\ DOMAIN q = 1 .. n + 1
      /\ (\A i \in 1 .. n : q[i] = p[i]) /\ q[n + 1].kind # "assistant"
  BY DEF Extends
<1>1. /\ \A s \in 1 .. n : IsCompactionBracket(q, s) <=>
           IsCompactionBracket(p, s) \/ (s = n /\ x.kind = "compaction")
      /\ ~IsCompactionBracket(q, n + 1)
      /\ \A s \in 1 .. n : Holds(q, s, "start") <=> Holds(p, s, "start")
  BY <1>0, BracketExtends
<1> HIDE DEF n
<1> SUFFICES ASSUME NEW s \in 1 .. n + 1, NEW j \in 1 .. n + 1, Holds(q, s, "start"),
                    IsCompactionBracket(q, s), s < j, Holds(q, j, "assistant")
             PROVE  \E k \in s + 1 .. j - 1 : Holds(q, k, "finish")
  BY <1>0 DEF CompactionsAreMute
<1>2. j \in 1 .. n /\ s \in 1 .. n /\ s # n
  BY <1>0 DEF Holds
<1>3. IsCompactionBracket(p, s) /\ Holds(p, s, "start") /\ Holds(p, j, "assistant")
  BY <1>0, <1>1, <1>2 DEF Holds
<1>4. PICK k \in s + 1 .. j - 1 : Holds(p, k, "finish")
  BY <1>0, <1>2, <1>3 DEF CompactionsAreMute
<1>5. k \in 1 .. n
  BY <1>0, <1>2
<1> QED  BY <1>0, <1>4, <1>5 DEF Holds

\* Input stays input when no answer comes.
LEMMA InputKept ==
    ASSUME NEW p, NEW q, NEW x, Extends(p, q, x), HasInput(p), x.kind # "assistant"
    PROVE  HasInput(q)
<1> DEFINE n == Len(p)
<1>0. n \in Nat /\ DOMAIN p = 1 .. n /\ Len(q) = n + 1 /\ DOMAIN q = 1 .. n + 1
      /\ (\A i \in 1 .. n : q[i] = p[i]) /\ q[n + 1].kind # "assistant"
  BY DEF Extends
<1> HIDE DEF n
<1>1. PICK i \in 1 .. n : Holds(p, i, "user") /\
             \A j \in 1 .. n : Holds(p, j, "assistant") => p[j].seen < i \/ j < i
  BY <1>0 DEF HasInput
<1>2. i \in 1 .. n + 1 /\ Holds(q, i, "user")
  BY <1>0, <1>1 DEF Holds
<1>3. \A j \in 1 .. n + 1 : Holds(q, j, "assistant") => q[j].seen < i \/ j < i
  <2> SUFFICES ASSUME NEW j \in 1 .. n + 1, Holds(q, j, "assistant")
               PROVE  q[j].seen < i \/ j < i
    OBVIOUS
  <2>1. j \in 1 .. n
    BY <1>0 DEF Holds
  <2> QED  BY <2>1, <1>0, <1>1 DEF Holds
<1> QED  BY <1>0, <1>2, <1>3 DEF HasInput

\* A turn opened over input.
LEMMA TurnOpens ==
    ASSUME NEW p, NEW q, Extends(p, q, TurnStart), PathOK(p), ~HasOpenTurn(p), HasInput(p)
    PROVE  PathOK(q) /\ HasOpenTurn(q) /\ ~Compacting(q) /\ HasInput(q)
<1> DEFINE x == TurnStart
<1>0. x.kind = "start" /\ Len(p) \in Nat /\ Len(q) = Len(p) + 1 /\ DOMAIN q = 1 .. Len(q)
  BY DEF TurnStart, Extends
<1>1. Alternates(q) /\ \A s \in DOMAIN q : IsOpenTurn(q, s) <=> s = Len(q)
  BY StartAlternates DEF PathOK, Bracketed
<1>2. CompactionsAreMute(q)
  BY <1>0, MuteKept DEF PathOK, Bracketed
<1>3. HasInput(q)
  BY <1>0, InputKept
<1>4. ~IsCompactionBracket(q, Len(q))
  BY BracketExtends
<1>5. ~Compacting(q)
  BY <1>1, <1>4 DEF Compacting, OpensCompaction
<1>6. HasOpenTurn(q)
  <2>1. Len(q) \in DOMAIN q
    BY <1>0
  <2> QED  BY <1>1, <2>1 DEF HasOpenTurn
<1>7. OpenCompactionIsBare(q)
  BY <1>5 DEF OpenCompactionIsBare, Compacting
<1> QED  BY <1>1, <1>2, <1>3, <1>5, <1>6, <1>7 DEF PathOK, Bracketed, TurnHasInput

\* A compaction's bracket, opened between turns.
LEMMA CompactionOpens ==
    ASSUME NEW p, NEW m, NEW q, NEW source, Extends(p, m, TurnStart),
           Extends(m, q, CompactionEntry(source)), Bracketed(p), ~HasOpenTurn(p)
    PROVE  PathOK(q) /\ HasOpenTurn(q) /\ Compacting(q)
<1> DEFINE n == Len(p)
           x == CompactionEntry(source)
           y == TurnStart
<1>0. /\ n \in Nat /\ Len(m) = n + 1 /\ Len(q) = n + 2
      /\ DOMAIN q = 1 .. n + 2 /\ DOMAIN m = 1 .. n + 1
      /\ q[n + 2] = x
  BY DEF Extends
<1>1. x.kind = "compaction" /\ x.summary = FALSE /\ y.kind = "start"
  BY DEF CompactionEntry, TurnStart
<1> HIDE DEF x, y
<1>2. Alternates(m) /\ \A s \in DOMAIN m : IsOpenTurn(m, s) <=> s = n + 1
  BY <1>0, StartAlternates DEF Bracketed
<1>3. Alternates(q) /\ \A s \in DOMAIN q : IsOpenTurn(q, s) <=> s \in DOMAIN m /\ IsOpenTurn(m, s)
  <2>1. Extends(m, q, x) /\ x.kind \notin {"start", "finish"}
    BY <1>1 DEF x
  <2> QED  BY <1>2, <2>1, OthersAlternate
<1>4. \A s \in DOMAIN q : IsOpenTurn(q, s) <=> s = n + 1
  BY <1>0, <1>2, <1>3
<1>5. CompactionsAreMute(q)
  <2>1. CompactionsAreMute(m)
    <3>1. Extends(p, m, y) /\ y.kind # "assistant"
      BY <1>1 DEF y
    <3> QED  BY <3>1, MuteKept DEF Bracketed
  <2>2. Extends(m, q, x) /\ x.kind # "assistant"
    BY <1>1 DEF x
  <2> QED  BY <2>1, <2>2, MuteKept
<1>6. IsCompactionBracket(q, n + 1)
  BY <1>0, <1>1 DEF IsCompactionBracket, Holds
<1>7. HasOpenTurn(q) /\ Compacting(q)
  BY <1>0, <1>4, <1>6 DEF HasOpenTurn, Compacting, OpensCompaction
<1>8. OpenCompactionIsBare(q)
  <2> SUFFICES ASSUME NEW s \in DOMAIN q, OpensCompaction(q, s)
               PROVE  /\ q[s + 1].summary = FALSE
                      /\ \A j \in DOMAIN q : j > s + 1 => Holds(q, j, "cancel")
    BY DEF OpenCompactionIsBare
  <2>1. s = n + 1
    BY <1>4 DEF OpensCompaction
  <2> QED  BY <2>1, <1>0, <1>1
<1> QED  BY <1>3, <1>5, <1>7, <1>8 DEF PathOK, Bracketed, TurnHasInput

\* The open turn, whosever it is, is closed.
LEMMA TurnCloses ==
    ASSUME NEW p, NEW q, NEW o, Extends(p, q, TurnFinish(o)), Bracketed(p), HasOpenTurn(p)
    PROVE  PathOK(q) /\ ~HasOpenTurn(q) /\ ~Compacting(q)
<1> DEFINE x == TurnFinish(o)
<1>0. x.kind = "finish" /\ Extends(p, q, x)
  BY DEF TurnFinish
<1> HIDE DEF x
<1>1. Alternates(q) /\ ~HasOpenTurn(q)
  BY FinishAlternates DEF Bracketed
<1>2. CompactionsAreMute(q)
  BY <1>0, MuteKept DEF Bracketed
<1>3. ~Compacting(q)
  BY <1>1 DEF Compacting, HasOpenTurn, OpensCompaction
<1>4. OpenCompactionIsBare(q)
  BY <1>3 DEF OpenCompactionIsBare, Compacting
<1> QED  BY <1>1, <1>2, <1>3, <1>4 DEF PathOK, Bracketed, TurnHasInput

\* Whatever is neither a bracket nor an answer leaves the turn as it is.
LEMMA TurnKept ==
    ASSUME NEW p, NEW q, NEW x, Extends(p, q, x), x.kind \notin {"start", "finish", "compaction"}
    PROVE  Alternates(p) =>
             /\ HasOpenTurn(q) <=> HasOpenTurn(p)
             /\ \A s \in DOMAIN q : OpensCompaction(q, s) <=> s \in DOMAIN p /\ OpensCompaction(p, s)
             /\ Compacting(q) <=> Compacting(p)
<1> SUFFICES ASSUME Alternates(p)
             PROVE  /\ HasOpenTurn(q) <=> HasOpenTurn(p)
                    /\ \A s \in DOMAIN q : OpensCompaction(q, s) <=> s \in DOMAIN p /\ OpensCompaction(p, s)
                    /\ Compacting(q) <=> Compacting(p)
  OBVIOUS
<1>0. DOMAIN p \subseteq DOMAIN q
  BY DEF Extends
<1>1. \A s \in DOMAIN q : IsOpenTurn(q, s) <=> s \in DOMAIN p /\ IsOpenTurn(p, s)
  BY OthersAlternate
<1>2. \A s \in DOMAIN p : IsCompactionBracket(q, s) <=> IsCompactionBracket(p, s)
  BY BracketExtends
<1>3. HasOpenTurn(q) <=> HasOpenTurn(p)
  BY <1>0, <1>1 DEF HasOpenTurn
<1>4. \A s \in DOMAIN q : OpensCompaction(q, s) <=> s \in DOMAIN p /\ OpensCompaction(p, s)
  BY <1>1, <1>2 DEF OpensCompaction
<1>5. Compacting(q) <=> Compacting(p)
  BY <1>0, <1>4 DEF Compacting
<1> QED  BY <1>3, <1>4, <1>5

\* A post, which is not made into a compaction.
LEMMA PostKeeps ==
    ASSUME NEW p, NEW q, Extends(p, q, UserMessage), PathOK(p), ~Compacting(p)
    PROVE  /\ PathOK(q) /\ ~Compacting(q) /\ HasInput(q)
           /\ HasOpenTurn(q) <=> HasOpenTurn(p)
<1> DEFINE x == UserMessage
<1>0. x.kind = "user" /\ Extends(p, q, x)
  BY DEF UserMessage
<1>a. x.kind \notin {"start", "finish", "compaction", "assistant"}
  BY <1>0
<1>b. Len(p) \in Nat /\ Len(q) = Len(p) + 1 /\ DOMAIN q = 1 .. Len(p) + 1 /\ q[Len(q)] = x
  BY DEF Extends
<1> HIDE DEF x
<1>1. Alternates(q)
  BY <1>0, <1>a, OthersAlternate DEF PathOK, Bracketed
<1>2. (HasOpenTurn(q) <=> HasOpenTurn(p)) /\ ~Compacting(q)
  BY <1>0, <1>a, TurnKept DEF PathOK, Bracketed
<1>3. CompactionsAreMute(q)
  BY <1>0, <1>a, MuteKept DEF PathOK, Bracketed
<1>4. HasInput(q)
  <2> DEFINE i == Len(p) + 1
  <2>1. i \in DOMAIN q /\ Holds(q, i, "user")
    BY <1>b, <1>0 DEF Holds
  <2>2. \A j \in DOMAIN q : Holds(q, j, "assistant") => q[j].seen < i \/ j < i
    <3> SUFFICES ASSUME NEW j \in DOMAIN q, Holds(q, j, "assistant") PROVE j < i
      OBVIOUS
    <3>1. j # i
      BY <2>1 DEF Holds
    <3> QED  BY <3>1, <1>b
  <2> HIDE DEF i
  <2> QED  BY <2>1, <2>2 DEF HasInput
<1>5. OpenCompactionIsBare(q)
  BY <1>2 DEF OpenCompactionIsBare, Compacting
<1> QED  BY <1>1, <1>2, <1>3, <1>4, <1>5 DEF PathOK, Bracketed, TurnHasInput

\* A cancel, which is made over an open turn.
LEMMA CancelKeeps ==
    ASSUME NEW p, NEW q, NEW o, Extends(p, q, CancelRequested(o)), PathOK(p), HasOpenTurn(p)
    PROVE  /\ PathOK(q) /\ HasOpenTurn(q)
           /\ Compacting(q) <=> Compacting(p)
           /\ HasInput(p) => HasInput(q)
<1> DEFINE x == CancelRequested(o)
           n == Len(p)
<1>0. x.kind = "cancel" /\ Extends(p, q, x)
  BY DEF CancelRequested
<1>a. x.kind \notin {"start", "finish", "compaction", "assistant"}
  BY <1>0
<1>b. n \in Nat /\ Len(q) = n + 1 /\ DOMAIN p = 1 .. n /\ DOMAIN q = 1 .. n + 1 /\ q[n + 1] = x
      /\ \A i \in 1 .. n : q[i] = p[i]
  BY DEF Extends
<1> HIDE DEF x, n
<1>1. Alternates(q)
  BY <1>0, <1>a, OthersAlternate DEF PathOK, Bracketed
<1>2. /\ HasOpenTurn(q)
      /\ \A s \in DOMAIN q : OpensCompaction(q, s) <=> s \in DOMAIN p /\ OpensCompaction(p, s)
      /\ Compacting(q) <=> Compacting(p)
  BY <1>0, <1>a, TurnKept DEF PathOK, Bracketed
<1>3. CompactionsAreMute(q)
  BY <1>0, <1>a, MuteKept DEF PathOK, Bracketed
<1>4. HasInput(p) => HasInput(q)
  BY <1>0, <1>a, InputKept
<1>5. OpenCompactionIsBare(q)
  <2> SUFFICES ASSUME NEW s \in DOMAIN q, OpensCompaction(q, s)
               PROVE  /\ q[s + 1].summary = FALSE
                      /\ \A j \in DOMAIN q : j > s + 1 => Holds(q, j, "cancel")
    BY DEF OpenCompactionIsBare
  <2>1. s \in DOMAIN p /\ OpensCompaction(p, s)
    BY <1>2
  <2>2. s + 1 \in DOMAIN p
    BY <2>1 DEF OpensCompaction, IsCompactionBracket
  <2>3. p[s + 1].summary = FALSE /\ \A j \in DOMAIN p : j > s + 1 => Holds(p, j, "cancel")
    BY <2>1 DEF PathOK, Bracketed, OpenCompactionIsBare
  <2>4. q[s + 1].summary = FALSE
    BY <2>2, <2>3, <1>b
  <2>5. \A j \in DOMAIN q : j > s + 1 => Holds(q, j, "cancel")
    BY <2>3, <1>0, <1>b DEF Holds
  <2> QED  BY <2>4, <2>5
<1>6. CancelIsPending(q)
  <2>1. PICK s \in DOMAIN p : IsOpenTurn(p, s)
    BY DEF HasOpenTurn
  <2>2. s \in DOMAIN q /\ IsOpenTurn(q, s)
    BY <2>1, <1>0, <1>a, <1>b, OthersAlternate DEF PathOK, Bracketed
  <2>3. n + 1 \in DOMAIN q /\ s <= n + 1 /\ Holds(q, n + 1, "cancel")
    BY <2>1, <1>b, <1>0 DEF Holds
  <2> QED  BY <2>2, <2>3, CancelPendingIs
<1> QED  BY <1>1, <1>2, <1>3, <1>4, <1>5, <1>6 DEF PathOK, Bracketed, TurnHasInput

\* Answers are behind what they saw.
SeenBy(p, n) == \A j \in DOMAIN p : Holds(p, j, "assistant") => j <= n

\* An answer, which the model gives in a turn of the conversation.
LEMMA AnswerKeeps ==
    ASSUME NEW p, NEW q, NEW k \in Nat, Extends(p, q, AssistantMessage("stop", k)),
           Bracketed(p), HasOpenTurn(p), ~Compacting(p)
    PROVE  /\ Bracketed(q) /\ HasOpenTurn(q) /\ ~Compacting(q)
           /\ SeenBy(p, k) /\ UserMessageBeyond(p, k) => PathOK(q)
           /\ CancelIsPending(p) => PathOK(q)
<1> DEFINE x == AssistantMessage("stop", k)
           n == Len(p)
<1>0. x.kind = "assistant" /\ x.seen = k /\ Extends(p, q, x)
  BY DEF AssistantMessage
<1>a. x.kind \notin {"start", "finish", "compaction"}
  BY <1>0
<1>b. n \in Nat /\ Len(q) = n + 1 /\ DOMAIN p = 1 .. n /\ DOMAIN q = 1 .. n + 1 /\ q[n + 1] = x
      /\ \A i \in 1 .. n : q[i] = p[i]
  BY DEF Extends
<1> HIDE DEF x, n
<1>1. Alternates(q)
  BY <1>0, <1>a, OthersAlternate DEF Bracketed
<1>2. HasOpenTurn(q) /\ ~Compacting(q)
  BY <1>0, <1>a, TurnKept DEF Bracketed
<1>3. CompactionsAreMute(q)
  <2> SUFFICES ASSUME NEW s \in DOMAIN q, NEW j \in DOMAIN q, Holds(q, s, "start"),
                      IsCompactionBracket(q, s), s < j, Holds(q, j, "assistant")
               PROVE  \E i \in s + 1 .. j - 1 : Holds(q, i, "finish")
    BY DEF CompactionsAreMute
  <2>1. s \in 1 .. n /\ IsCompactionBracket(p, s) /\ Holds(p, s, "start")
    <3>1. s \in 1 .. n
      BY <1>b
    <3> QED  BY <3>1, <1>0, <1>a, <1>b, BracketExtends
  <2>2. CASE j \in 1 .. n
    <3>1. Holds(p, j, "assistant")
      BY <2>2, <1>b DEF Holds
    <3>2. PICK i \in s + 1 .. j - 1 : Holds(p, i, "finish")
      BY <2>1, <2>2, <3>1, <1>b DEF Bracketed, CompactionsAreMute
    <3>3. i \in 1 .. n
      BY <2>1, <2>2, <1>b
    <3> QED  BY <3>2, <3>3, <1>b DEF Holds
  <2>3. CASE j = n + 1
    <3>1. PICK t \in 1 .. n : IsOpenTurn(p, t)
      BY <1>b DEF HasOpenTurn
    <3>2. p[t].kind = "start" /\ \A i \in 1 .. n : i > t => p[i].kind \notin {"start", "finish"}
      BY <3>1, <1>b DEF IsOpenTurn, Holds
    <3>3. s # t
      BY <3>1, <2>1, <1>b DEF Compacting, OpensCompaction
    <3>4. s < t
      BY <3>2, <3>3, <2>1 DEF Holds
    <3>5. \E i \in 1 .. n : s < i /\ i < t /\ p[i].kind = "finish"
      <4>1. Between(p, n, "start", "finish")
        BY <1>b, AlternatesBetween DEF Bracketed
      <4> QED  BY <4>1, <2>1, <3>2, <3>4 DEF Between, Holds
    <3> QED  BY <3>5, <2>3, <1>b DEF Holds
  <2> QED  BY <2>2, <2>3, <1>b
<1>4. OpenCompactionIsBare(q)
  BY <1>2 DEF OpenCompactionIsBare, Compacting
<1>5. ASSUME SeenBy(p, k), UserMessageBeyond(p, k) PROVE HasInput(q)
  <2>1. PICK i \in 1 .. n : i > k /\ Holds(p, i, "user")
    BY <1>5, <1>b DEF UserMessageBeyond
  <2>2. i \in DOMAIN q /\ Holds(q, i, "user")
    BY <2>1, <1>b DEF Holds
  <2>3. \A j \in DOMAIN q : Holds(q, j, "assistant") => q[j].seen < i \/ j < i
    <3> SUFFICES ASSUME NEW j \in DOMAIN q, Holds(q, j, "assistant")
                 PROVE  q[j].seen < i \/ j < i
      OBVIOUS
    <3>1. CASE j = n + 1
      BY <3>1, <2>1, <1>0, <1>b
    <3>2. CASE j \in 1 .. n
      <4>1. j <= k
        BY <3>2, <1>5, <1>b DEF SeenBy, Holds
      <4> QED  BY <4>1, <3>2, <2>1
    <3> QED  BY <3>1, <3>2, <1>b
  <2> QED  BY <2>2, <2>3 DEF HasInput
<1>6. ASSUME CancelIsPending(p) PROVE CancelIsPending(q)
  <2>1. PICK s \in DOMAIN p, i \in DOMAIN p : IsOpenTurn(p, s) /\ s <= i /\ Holds(p, i, "cancel")
    BY <1>6, CancelPendingIs
  <2>2. s \in DOMAIN q /\ i \in DOMAIN q
    BY <1>b
  <2>3. IsOpenTurn(q, s)
    BY <2>1, <2>2, <1>0, <1>a, OthersAlternate DEF Bracketed
  <2>4. Holds(q, i, "cancel")
    BY <2>1, <1>b DEF Holds
  <2> QED  BY <2>1, <2>2, <2>3, <2>4, CancelPendingIs
<1>7. Bracketed(q)
  BY <1>1, <1>3, <1>4 DEF Bracketed
<1> QED  BY <1>2, <1>5, <1>6, <1>7 DEF PathOK, TurnHasInput

-----------------------------------------------------------------------------
(* Parts of a path, which a rewind and a commit carry on.                  *)

\* g is the m entries of p from position a on.
IsSegment(g, m, p, a) ==
    /\ m \in Nat /\ a \in Nat \ {0}
    /\ Len(p) \in Nat /\ DOMAIN p = 1 .. Len(p) /\ a + m - 1 <= Len(p)
    /\ Len(g) = m /\ DOMAIN g = 1 .. m
    /\ \A i \in 1 .. m : g[i] = p[a + i - 1]

\* A part of a path is bracketed as the path is.
LEMMA SegmentBracketed ==
    ASSUME NEW p, NEW g, NEW m, NEW a, IsSegment(g, m, p, a), Alternates(p), CompactionsAreMute(p)
    PROVE  Alternates(g) /\ CompactionsAreMute(g)
<1> DEFINE n == Len(p)
           at(i) == a + i - 1
<1>0. /\ m \in Nat /\ a \in Nat \ {0} /\ n \in Nat /\ DOMAIN p = 1 .. n
      /\ DOMAIN g = 1 .. m
      /\ \A i \in 1 .. m : g[i] = p[at(i)] /\ at(i) \in 1 .. n
  BY DEF IsSegment
<1>1. \A i, j \in 1 .. m : i < j <=> at(i) < at(j)
  BY <1>0
<1>2. \A i, j \in 1 .. m : \A k \in 1 .. n : at(i) < k /\ k < at(j) =>
         \E l \in 1 .. m : i < l /\ l < j /\ k = at(l)
  <2> SUFFICES ASSUME NEW i \in 1 .. m, NEW j \in 1 .. m, NEW k \in 1 .. n, at(i) < k, k < at(j)
               PROVE  \E l \in 1 .. m : i < l /\ l < j /\ k = at(l)
    OBVIOUS
  <2>1. k - a + 1 \in 1 .. m /\ i < k - a + 1 /\ k - a + 1 < j /\ k = at(k - a + 1)
    BY <1>0
  <2> HIDE DEF at
  <2> QED  BY <2>1
<1>3. \A i \in 1 .. m : i + 1 \in 1 .. m => at(i + 1) = at(i) + 1
  BY <1>0
<1>4. \A b, c : Between(p, n, b, c) => Between(g, m, b, c)
  <2> TAKE b, c
  <2> HIDE DEF at, n
  <2> SUFFICES ASSUME Between(p, n, b, c), NEW i \in 1 .. m, NEW j \in 1 .. m,
                      i < j, g[i].kind = b, g[j].kind = b
               PROVE  \E k \in 1 .. m : i < k /\ k < j /\ g[k].kind = c
    BY DEF Between
  <2>1. at(i) \in 1 .. n /\ at(j) \in 1 .. n /\ at(i) < at(j) /\ p[at(i)].kind = b /\ p[at(j)].kind = b
    BY <1>0, <1>1
  <2>2. PICK k \in 1 .. n : at(i) < k /\ k < at(j) /\ p[k].kind = c
    BY <2>1 DEF Between
  <2>3. PICK l \in 1 .. m : i < l /\ l < j /\ k = at(l)
    BY <2>2, <1>2
  <2> QED  BY <2>2, <2>3, <1>0
<1> HIDE DEF at, n
<1>5. Alternates(g)
  BY <1>0, <1>4, AlternatesBetween
<1>6. CompactionsAreMute(g)
  <2> SUFFICES ASSUME NEW s \in 1 .. m, NEW j \in 1 .. m, Holds(g, s, "start"),
                      IsCompactionBracket(g, s), s < j, Holds(g, j, "assistant")
               PROVE  \E k \in s + 1 .. j - 1 : Holds(g, k, "finish")
    BY <1>0 DEF CompactionsAreMute
  <2>1. at(s) \in 1 .. n /\ at(j) \in 1 .. n /\ at(s) < at(j) /\ Holds(p, at(s), "start")
        /\ Holds(p, at(j), "assistant")
    BY <1>0, <1>1 DEF Holds
  <2>2. IsCompactionBracket(p, at(s))
    BY <1>0, <1>3 DEF IsCompactionBracket, Holds
  <2>3. PICK k \in at(s) + 1 .. at(j) - 1 : Holds(p, k, "finish")
    BY <2>1, <2>2, <1>0 DEF CompactionsAreMute
  <2>4. k \in 1 .. n /\ at(s) < k /\ k < at(j)
    BY <2>1, <1>0
  <2>5. PICK l \in 1 .. m : s < l /\ l < j /\ k = at(l)
    BY <2>4, <1>2
  <2> QED  BY <2>3, <2>5, <1>0 DEF Holds
<1> QED  BY <1>5, <1>6

\* A path that was cut between turns.
LEMMA CutIsOK ==
    ASSUME NEW p, NEW g, NEW m, IsSegment(g, m, p, 1), Bracketed(p), ~HasOpenTurn(g)
    PROVE  PathOK(g) /\ ~Compacting(g)
<1>1. Alternates(g) /\ CompactionsAreMute(g)
  BY SegmentBracketed DEF Bracketed
<1>2. ~Compacting(g)
  BY DEF Compacting, HasOpenTurn, OpensCompaction
<1>3. OpenCompactionIsBare(g)
  BY <1>2 DEF OpenCompactionIsBare, Compacting
<1> QED  BY <1>1, <1>2, <1>3 DEF PathOK, Bracketed, TurnHasInput

\* What is before the open turn has no open turn.
LEMMA ClosedBefore ==
    ASSUME NEW p, NEW g, NEW m, NEW a, NEW s \in DOMAIN p, IsSegment(g, m, p, a), Alternates(p),
           IsOpenTurn(p, s), a + m = s
    PROVE  ~HasOpenTurn(g)
<1> DEFINE n == Len(p)
<1>0. /\ m \in Nat /\ a \in Nat \ {0} /\ n \in Nat /\ DOMAIN p = 1 .. n
      /\ DOMAIN g = 1 .. m
      /\ \A i \in 1 .. m : g[i] = p[a + i - 1]
  BY DEF IsSegment
<1> HIDE DEF n
<1> SUFFICES ASSUME NEW t \in 1 .. m, IsOpenTurn(g, t) PROVE FALSE
  BY <1>0 DEF HasOpenTurn
<1>1. a + t - 1 \in 1 .. n /\ a + t - 1 < s /\ p[a + t - 1].kind = "start" /\ s \in 1 .. n
  BY <1>0 DEF IsOpenTurn, Holds
<1>2. p[s].kind = "start"
  BY DEF IsOpenTurn, Holds
<1>3. Between(p, n, "start", "finish")
  BY <1>0, AlternatesBetween
<1>4. PICK k \in 1 .. n : a + t - 1 < k /\ k < s /\ p[k].kind = "finish"
  BY <1>1, <1>2, <1>3 DEF Between
<1>5. k - a + 1 \in 1 .. m /\ k - a + 1 > t /\ g[k - a + 1] = p[k]
  BY <1>0, <1>1, <1>4
<1> QED  BY <1>0, <1>4, <1>5 DEF IsOpenTurn, Holds

\* q is g behind a compaction's entry, as a successor is after a commit.
Fronted(q, g, m) ==
    /\ m \in Nat /\ DOMAIN g = 1 .. m
    /\ Len(q) = m + 1 /\ DOMAIN q = 1 .. m + 1
    /\ q[1].kind = "compaction"
    /\ \A i \in 1 .. m : q[i + 1] = g[i]

\* A successor has no open turn and is bracketed as what it carries.
LEMMA FrontedIsOK ==
    ASSUME NEW q, NEW g, NEW m, Fronted(q, g, m), Alternates(g), CompactionsAreMute(g), ~HasOpenTurn(g)
    PROVE  PathOK(q) /\ ~HasOpenTurn(q) /\ ~Compacting(q)
<1>0. /\ m \in Nat /\ DOMAIN g = 1 .. m /\ DOMAIN q = 1 .. m + 1
      /\ q[1].kind = "compaction"
      /\ \A i \in 1 .. m : q[i + 1] = g[i]
  BY DEF Fronted
<1>1. \A i \in 1 .. m + 1 : q[i].kind # "compaction" => i - 1 \in 1 .. m /\ q[i] = g[i - 1]
  BY <1>0
<1>2. \A b \in {"start", "finish"} : \A c :
         Between(g, m, b, c) => Between(q, m + 1, b, c)
  <2> TAKE b \in {"start", "finish"}
  <2> TAKE c
  <2> SUFFICES ASSUME Between(g, m, b, c), NEW i \in 1 .. m + 1, NEW j \in 1 .. m + 1, i < j,
                      q[i].kind = b, q[j].kind = b
               PROVE  \E k \in 1 .. m + 1 : i < k /\ k < j /\ q[k].kind = c
    BY DEF Between
  <2>1. i - 1 \in 1 .. m /\ g[i - 1].kind = b /\ j - 1 \in 1 .. m /\ g[j - 1].kind = b
    BY <1>1
  <2>2. PICK k \in 1 .. m : i - 1 < k /\ k < j - 1 /\ g[k].kind = c
    BY <2>1 DEF Between
  <2>3. k + 1 \in 1 .. m + 1 /\ i < k + 1 /\ k + 1 < j /\ q[k + 1].kind = c
    BY <2>2, <1>0
  <2> QED  BY <2>3
<1>3. Alternates(q)
  BY <1>0, <1>2, AlternatesBetween
<1>4. CompactionsAreMute(q)
  <2> SUFFICES ASSUME NEW s \in 1 .. m + 1, NEW j \in 1 .. m + 1, Holds(q, s, "start"),
                      IsCompactionBracket(q, s), s < j, Holds(q, j, "assistant")
               PROVE  \E k \in s + 1 .. j - 1 : Holds(q, k, "finish")
    BY <1>0 DEF CompactionsAreMute
  <2>1. s - 1 \in 1 .. m /\ Holds(g, s - 1, "start") /\ j - 1 \in 1 .. m /\ Holds(g, j - 1, "assistant")
    BY <1>1 DEF Holds
  <2>2. IsCompactionBracket(g, s - 1)
    <3>1. s + 1 \in 1 .. m + 1 /\ q[s + 1].kind = "compaction"
      BY <1>0 DEF IsCompactionBracket, Holds
    <3>2. s \in 1 .. m /\ q[s + 1] = g[s]
      BY <1>0, <2>1, <3>1
    <3>3. s - 1 + 1 = s
      BY <1>0
    <3> QED  BY <1>0, <3>1, <3>2, <3>3 DEF IsCompactionBracket, Holds
  <2>3. PICK k \in (s - 1) + 1 .. (j - 1) - 1 : Holds(g, k, "finish")
    BY <2>1, <2>2, <1>0 DEF CompactionsAreMute
  <2>4. k \in 1 .. m /\ k + 1 \in s + 1 .. j - 1
    BY <2>1, <1>0
  <2> QED  BY <2>3, <2>4, <1>0 DEF Holds
<1>5. ~HasOpenTurn(q)
  <2> SUFFICES ASSUME NEW t \in 1 .. m + 1, IsOpenTurn(q, t) PROVE FALSE
    BY <1>0 DEF HasOpenTurn
  <2>1. t - 1 \in 1 .. m /\ g[t - 1].kind = "start"
    BY <1>1 DEF IsOpenTurn, Holds
  <2>2. PICK j \in 1 .. m : j > t - 1 /\ g[j].kind \in {"start", "finish"}
    BY <2>1, <1>0 DEF HasOpenTurn, IsOpenTurn, Holds
  <2>3. j + 1 \in 1 .. m + 1 /\ j + 1 > t /\ q[j + 1] = g[j]
    BY <2>2, <1>0
  <2> QED  BY <2>2, <2>3, <1>0 DEF IsOpenTurn
<1>6. ~Compacting(q)
  BY <1>5 DEF Compacting, HasOpenTurn, OpensCompaction
<1>7. OpenCompactionIsBare(q)
  BY <1>6 DEF OpenCompactionIsBare, Compacting
<1> QED  BY <1>3, <1>4, <1>5, <1>6, <1>7 DEF PathOK, Bracketed, TurnHasInput

-----------------------------------------------------------------------------
(* Between turns.                                                          *)

\* Everything behind position n is in closed compaction brackets.
ClosedTail(p, n) ==
    \A i \in n + 1 .. Len(p) :
        \E s, e \in n + 1 .. Len(p) : s <= i /\ i <= e /\ ClosedBracket(p, s, e)

\* The end before the closed brackets is there, and is what it says.
LEMMA EndIsThere ==
    ASSUME NEW p, Len(p) \in Nat
    PROVE  EndBeforeClosedBrackets(p) \in 0 .. Len(p) /\ ClosedTail(p, EndBeforeClosedBrackets(p))
<1> DEFINE R == OpToRel(<, Nat)
           S == {n \in 0 .. Len(p) : ClosedTail(p, n)}
           end(n) == ClosedTail(p, n) /\ \A m \in 0 .. n - 1 : ~ClosedTail(p, m)
<1>1. Len(p) \in S
  BY DEF ClosedTail
<1>2. PICK k \in S : \A j \in S : ~(<<j, k>> \in R)
  <2>1. IsWellFoundedOn(R, Nat)
    BY NatLessThanWellFounded
  <2>2. S \subseteq Nat /\ S # {}
    BY <1>1
  <2> HIDE DEF R, S
  <2> QED  BY <2>1, <2>2, WFMin
<1>3. \A j \in S : ~(j < k)
  <2>1. S \subseteq Nat
    OBVIOUS
  <2> HIDE DEF S
  <2> QED  BY <1>2, <2>1, Zenon DEF OpToRel
<1>4. \A m \in 0 .. k - 1 : ~ClosedTail(p, m)
  <2> SUFFICES ASSUME NEW m \in 0 .. k - 1, ClosedTail(p, m) PROVE FALSE
    OBVIOUS
  <2>1. k \in 0 .. Len(p)
    OBVIOUS
  <2>2. m \in 0 .. Len(p) /\ m < k
    BY <2>1
  <2> QED  BY <1>3, <2>2
<1>5. k \in 0 .. Len(p) /\ end(k)
  BY <1>4
<1>6. EndBeforeClosedBrackets(p) = CHOOSE n \in 0 .. Len(p) : end(n)
  BY Zenon DEF EndBeforeClosedBrackets, ClosedTail
<1> HIDE DEF end
<1>7. EndBeforeClosedBrackets(p) \in 0 .. Len(p) /\ end(EndBeforeClosedBrackets(p))
  BY <1>5, <1>6
<1> QED  BY <1>7 DEF end

\* A conversation that waits for the model has what to answer.
LEMMA OwedIsInput ==
    ASSUME NEW p, Len(p) \in Nat, DOMAIN p = 1 .. Len(p), CompactionsAreMute(p), Owed(p)
    PROVE  HasInput(p)
<1> DEFINE n == Len(p)
           i == EndBeforeClosedBrackets(p)
<1>1. i \in 1 .. n /\ ClosedTail(p, i) /\ Holds(p, i, "user")
  BY EndIsThere DEF Owed
<1> HIDE DEF n, i
<1>2. \A j \in 1 .. n : Holds(p, j, "assistant") => j < i
  <2> SUFFICES ASSUME NEW j \in 1 .. n, Holds(p, j, "assistant"), ~(j < i) PROVE FALSE
    OBVIOUS
  <2>0. n \in Nat
    BY DEF n
  <2>1. j # i
    BY <1>1 DEF Holds
  <2>2. j \in i + 1 .. n
    BY <2>0, <2>1, <1>1
  <2>3. PICK s \in i + 1 .. n, e \in i + 1 .. n : s <= j /\ j <= e /\ ClosedBracket(p, s, e)
    BY <2>2, <1>1 DEF ClosedTail, n
  <2>4. s # j /\ j # e
    BY <2>3 DEF ClosedBracket, Holds
  <2>5. s < j /\ j < e /\ s \in 1 .. n /\ e \in 1 .. n
    BY <2>0, <2>3, <2>4, <1>1
  <2>6. Holds(p, s, "start") /\ IsCompactionBracket(p, s)
        /\ \A k \in s + 1 .. e - 1 : p[k].kind \notin {"start", "finish"}
    BY <2>3 DEF ClosedBracket
  <2>7. PICK k \in s + 1 .. j - 1 : Holds(p, k, "finish")
    BY <2>5, <2>6 DEF CompactionsAreMute, n
  <2>8. k \in s + 1 .. e - 1
    BY <2>5
  <2> QED  BY <2>6, <2>7, <2>8 DEF Holds
<1> QED  BY <1>1, <1>2 DEF HasInput, n

\* A post is waited for.
LEMMA PostIsOwed ==
    ASSUME NEW p, NEW q, Extends(p, q, UserMessage)
    PROVE  Owed(q)
<1> DEFINE n == Len(q)
           i == EndBeforeClosedBrackets(q)
<1>0. n \in Nat /\ n > 0 /\ Holds(q, n, "user") /\ ~Holds(q, n, "finish")
  BY DEF Extends, UserMessage, Holds
<1>1. i \in 0 .. n /\ ClosedTail(q, i)
  BY <1>0, EndIsThere
<1>2. ASSUME i # n PROVE FALSE
  <2>1. n \in i + 1 .. n
    BY <1>0, <1>1, <1>2
  <2>2. PICK s \in i + 1 .. n, e \in i + 1 .. n : s <= n /\ n <= e /\ ClosedBracket(q, s, e)
    BY <2>1, <1>1 DEF ClosedTail
  <2>3. e = n
    BY <2>2, <1>0, <1>1
  <2> QED  BY <2>2, <2>3, <1>0 DEF ClosedBracket
<1> QED  BY <1>0, <1>2 DEF Owed

\* What a status says between turns.
LEMMA StatusIsOwed ==
    ASSUME NEW p, ~HasOpenTurn(p)
    PROVE  RunStatus(p) # "idle" <=> Owed(p)
<1> QED  BY DEF RunStatus, Owed

-----------------------------------------------------------------------------
(* The entries and the nodes.                                              *)

\* Every entry is one of this module's, and a compaction lists known entries.
EntriesOK ==
    /\ entries \in Seq(Items)
    /\ \A id \in DOMAIN entries : entries[id].kind = "compaction" =>
          entries[id].folded \subseteq DOMAIN entries

\* Every node has its entry, and a path holds an entry once.
NodesOK ==
    /\ nodes \in Seq(Seq(Nat)) /\ Main \in Nat \ {0}
    /\ \A c \in Conversations : \A k \in DOMAIN nodes[c] : nodes[c][k] \in DOMAIN entries
    /\ \A c \in Conversations : \A k, l \in DOMAIN nodes[c] : nodes[c][k] = nodes[c][l] => k = l

StoreOK == EntriesOK /\ NodesOK

\* What the kinds say of an entry.
LEMMA ItemsAre ==
    ASSUME NEW x \in Items
    PROVE  /\ x.kind \in {"user", "start", "finish", "cancel", "assistant", "compaction"}
           /\ x.kind = "compaction" => x \in Compactions
           /\ x.kind = "cancel" => x.outcome \in {"cancelled", "errored"}
           /\ x.kind = "assistant" => x.seen \in Nat
<1> QED  BY DEF Items, UserMessage, TurnStart, Compactions

\* What the module writes are its entries.
LEMMA WrittenAreItems ==
    /\ UserMessage \in Items /\ TurnStart \in Items
    /\ \A o \in TurnOutcomes : TurnFinish(o) \in Items
    /\ \A o \in {"cancelled", "errored"} : CancelRequested(o) \in Items
    /\ \A n \in Nat : AssistantMessage("stop", n) \in Items
    /\ \A s \in {"user", "policy"} : CompactionEntry(s) \in Compactions /\ CompactionEntry(s) \in Items
<1>1. \A o \in TurnOutcomes : TurnFinish(o) \in [kind : {"finish"}, outcome : TurnOutcomes]
  BY DEF TurnFinish
<1>2. \A o \in {"cancelled", "errored"} :
         CancelRequested(o) \in [kind : {"cancel"}, outcome : {"cancelled", "errored"}]
  BY DEF CancelRequested
<1>3. \A n \in Nat : AssistantMessage("stop", n) \in [kind : {"assistant"}, stop : {"stop"}, seen : Nat]
  BY DEF AssistantMessage
<1>4. \A s \in {"user", "policy"} : CompactionEntry(s) \in Compactions
  BY DEF CompactionEntry, Compactions
<1> QED  BY <1>1, <1>2, <1>3, <1>4, Zenon DEF Items

\* The written entries' kinds.
LEMMA WrittenKinds ==
    /\ UserMessage.kind = "user" /\ TurnStart.kind = "start"
    /\ \A o : TurnFinish(o).kind = "finish"
    /\ \A o : CancelRequested(o).kind = "cancel"
    /\ \A n : AssistantMessage("stop", n).kind = "assistant"
    /\ \A s : CompactionEntry(s).kind = "compaction" /\ CompactionEntry(s).folded = {}
              /\ CompactionEntry(s).summary = FALSE
<1> QED  BY DEF UserMessage, TurnStart, TurnFinish, CancelRequested, AssistantMessage, CompactionEntry

\* A function on 1 .. n is a sequence of that length.
LEMMA FunctionIsSeq ==
    ASSUME NEW S, NEW n \in Nat, NEW f \in [1 .. n -> S]
    PROVE  f \in Seq(S) /\ Len(f) = n /\ DOMAIN f = 1 .. n
<1>1. f \in Seq(S) /\ DOMAIN f = 1 .. n
  BY SeqDef, Zenon
<1>2. Len(f) \in Nat /\ DOMAIN f = 1 .. Len(f)
  BY <1>1, LenProperties
<1> QED  BY <1>1, <1>2

\* A path, entry by entry.
LEMMA PathIs ==
    ASSUME StoreOK, NEW c \in Conversations
    PROVE  /\ nodes[c] \in Seq(Nat) /\ Len(nodes[c]) \in Nat /\ DOMAIN nodes[c] = 1 .. Len(nodes[c])
           /\ Len(Path(c)) = Len(nodes[c]) /\ DOMAIN Path(c) = 1 .. Len(nodes[c])
           /\ \A k \in 1 .. Len(nodes[c]) : /\ nodes[c][k] \in DOMAIN entries
                                            /\ Path(c)[k] = entries[nodes[c][k]]
                                            /\ Path(c)[k] \in Items
<1>1. nodes[c] \in Seq(Nat)
  BY LenProperties, ElementOfSeq DEF StoreOK, NodesOK, Conversations
<1>2. Len(nodes[c]) \in Nat /\ DOMAIN nodes[c] = 1 .. Len(nodes[c])
  BY <1>1, LenProperties
<1>3. \A id \in DOMAIN entries : entries[id] \in Items
  BY LenProperties, ElementOfSeq DEF StoreOK, EntriesOK
<1>4. \A k \in 1 .. Len(nodes[c]) : nodes[c][k] \in DOMAIN entries
  BY <1>2 DEF StoreOK, NodesOK
<1>5. Path(c) = [k \in 1 .. Len(nodes[c]) |-> entries[nodes[c][k]]]
  BY <1>2 DEF Path, Resolved
<1>6. Path(c) \in [1 .. Len(nodes[c]) -> Items]
  BY <1>3, <1>4, <1>5
<1>7. Len(Path(c)) = Len(nodes[c]) /\ DOMAIN Path(c) = 1 .. Len(nodes[c])
  BY <1>2, <1>6, FunctionIsSeq
<1>8. \A k \in 1 .. Len(nodes[c]) : Path(c)[k] = entries[nodes[c][k]] /\ Path(c)[k] \in Items
  BY <1>3, <1>4, <1>5
<1> QED  BY <1>1, <1>2, <1>4, <1>7, <1>8

\* The entries every node of the others knows are still there, and the others'
\* nodes are.
OthersKept(c) ==
    /\ Len(nodes') = Len(nodes)
    /\ \A d \in Conversations \ {c} : nodes'[d] = nodes[d]
    /\ \A id \in DOMAIN entries : id \in DOMAIN entries' /\ entries'[id] = entries[id]

\* Conversation c got fresh entries behind its nodes.
Grown(c) ==
    /\ OthersKept(c)
    /\ Len(nodes'[c]) >= Len(nodes[c])
    /\ \A k \in 1 .. Len(nodes[c]) : nodes'[c][k] = nodes[c][k]
    /\ \A k \in DOMAIN nodes'[c] \ DOMAIN nodes[c] : nodes'[c][k] \notin DOMAIN entries
    /\ nodes[c] = <<>> /\ nodes'[c] # <<>> => entries'[nodes'[c][1]].kind # "compaction"

\* One or two entries appended, as every writer does.
LEMMA Appends ==
    ASSUME StoreOK, NEW c \in Conversations, NEW new \in Seq(Items), AppendAll(c, new),
           \A k \in 1 .. Len(new) : new[k].kind = "compaction" => new[k].folded = {},
           new # <<>> => new[1].kind # "compaction"
    PROVE  /\ StoreOK' /\ Grown(c)
           /\ Len(Path(c)') = Len(Path(c)) + Len(new)
           /\ DOMAIN Path(c)' = 1 .. Len(Path(c)) + Len(new)
           /\ \A k \in 1 .. Len(Path(c)) : Path(c)'[k] = Path(c)[k]
           /\ \A k \in 1 .. Len(new) : Path(c)'[Len(Path(c)) + k] = new[k]
           /\ \A d \in Conversations \ {c} : Path(d)' = Path(d)
<1> DEFINE n == Len(nodes[c])
           m == Len(new)
           N == Len(entries)
           ids == [k \in 1 .. m |-> N + k]
<1>0. /\ entries \in Seq(Items) /\ N \in Nat /\ DOMAIN entries = 1 .. N
      /\ m \in Nat /\ DOMAIN new = 1 .. m
  BY LenProperties DEF StoreOK, EntriesOK
<1>a. /\ nodes[c] \in Seq(Nat) /\ n \in Nat /\ DOMAIN nodes[c] = 1 .. n
      /\ Len(Path(c)) = n /\ DOMAIN Path(c) = 1 .. n
      /\ \A k \in 1 .. n : nodes[c][k] \in 1 .. N /\ Path(c)[k] = entries[nodes[c][k]]
  BY <1>0, PathIs
<1>b. nodes \in Seq(Seq(Nat)) /\ Len(nodes) \in Nat \ {0} /\ DOMAIN nodes = 1 .. Len(nodes)
      /\ Main = Len(nodes) /\ Conversations = 1 .. Len(nodes)
  BY LenProperties DEF StoreOK, NodesOK, Main, Conversations
<1>1. entries' = entries \o new /\ nodes' = [nodes EXCEPT ![c] = nodes[c] \o ids]
  BY DEF AppendAll
<1>2. /\ entries' \in Seq(Items) /\ Len(entries') = N + m
      /\ \A k \in 1 .. N + m : entries'[k] = IF k <= N THEN entries[k] ELSE new[k - N]
  BY <1>0, <1>1, ConcatProperties
<1>3. DOMAIN entries' = 1 .. N + m
  BY <1>2, LenProperties
<1>4. ids \in Seq(Nat) /\ Len(ids) = m
  <2>1. ids \in [1 .. m -> Nat]
    BY <1>0
  <2> HIDE DEF ids
  <2> QED  BY <1>0, <2>1, FunctionIsSeq
<1>4a. \A k \in 1 .. m : ids[k] = N + k
  OBVIOUS
<1> DEFINE W == nodes[c] \o ids
<1>5. /\ W \in Seq(Nat) /\ Len(W) = n + m
      /\ \A k \in 1 .. n + m : W[k] = IF k <= n THEN nodes[c][k] ELSE ids[k - n]
  <2> HIDE DEF ids
  <2>1. /\ W \in Seq(Nat) /\ Len(W) = Len(nodes[c]) + Len(ids)
        /\ \A k \in 1 .. Len(nodes[c]) + Len(ids) :
              W[k] = IF k <= Len(nodes[c]) THEN nodes[c][k] ELSE ids[k - Len(nodes[c])]
    <3>1. nodes[c] \in Seq(Nat) /\ ids \in Seq(Nat)
      BY <1>a, <1>4
    <3> QED  BY <3>1, ConcatProperties, ZenonT(40)
  <2> QED  BY <2>1, <1>4
<1>6. DOMAIN W = 1 .. n + m
  BY <1>5, LenProperties
<1> HIDE DEF ids, W, n, m, N
<1>7. /\ \A k \in 1 .. n : k \in 1 .. n + m /\ W[k] = nodes[c][k] /\ W[k] \in 1 .. N
      /\ \A k \in n + 1 .. n + m : W[k] = N + (k - n) /\ W[k] \in N + 1 .. N + m
      /\ \A k \in 1 .. n + m : k \in 1 .. n \/ k \in n + 1 .. n + m
      /\ \A k \in 1 .. N : k \in 1 .. N + m /\ k \notin N + 1 .. N + m
      /\ \A k \in N + 1 .. N + m : k \in 1 .. N + m
  <2>1. \A k \in 1 .. n : k \in 1 .. n + m /\ k <= n
    BY <1>0, <1>a
  <2>2. \A k \in n + 1 .. n + m : k \in 1 .. n + m /\ ~(k <= n) /\ k - n \in 1 .. m
            /\ N + (k - n) \in N + 1 .. N + m
    BY <1>0, <1>a
  <2>3. \A k \in 1 .. n + m : k \in 1 .. n \/ k \in n + 1 .. n + m
    BY <1>0, <1>a
  <2>4. /\ \A k \in 1 .. N : k \in 1 .. N + m /\ k \notin N + 1 .. N + m
        /\ \A k \in N + 1 .. N + m : k \in 1 .. N + m
    BY <1>0
  <2>5. \A k \in 1 .. n : W[k] = nodes[c][k] /\ W[k] \in 1 .. N
    BY <2>1, <1>5, <1>a
  <2>6. \A k \in n + 1 .. n + m : W[k] = N + (k - n)
    BY <2>2, <1>5, <1>4a
  <2> QED  BY <2>1, <2>2, <2>3, <2>4, <2>5, <2>6
<1>8. nodes' \in Seq(Seq(Nat)) /\ Len(nodes') = Len(nodes) /\ nodes'[c] = W
      /\ \A d \in Conversations \ {c} : nodes'[d] = nodes[d]
  <2>1. c \in 1 .. Len(nodes) /\ nodes' = [nodes EXCEPT ![c] = W]
    BY <1>1, <1>b DEF W
  <2> QED  BY <2>1, <1>b, <1>5, ExceptSeq, ZenonT(40)
<1>9. DOMAIN nodes' = 1 .. Len(nodes)
  BY <1>8, LenProperties
<1>10. EntriesOK'
  <2> SUFFICES ASSUME NEW id \in 1 .. N + m, entries'[id].kind = "compaction"
               PROVE  entries'[id].folded \subseteq 1 .. N + m
    BY <1>2, <1>3 DEF EntriesOK
  <2>1. CASE id <= N
    <3>1. id \in 1 .. N /\ entries'[id] = entries[id]
      BY <2>1, <1>0, <1>2
    <3>2. entries[id].folded \subseteq 1 .. N
      BY <3>1, <1>0 DEF StoreOK, EntriesOK
    <3>3. 1 .. N \subseteq 1 .. N + m
      BY <1>0
    <3> QED  BY <3>1, <3>2, <3>3
  <2>2. CASE ~(id <= N)
    <3>1. id - N \in 1 .. m /\ entries'[id] = new[id - N]
      BY <2>2, <1>0, <1>2
    <3> QED  BY <3>1 DEF m
  <2> QED  BY <2>1, <2>2
<1>11. NodesOK'
  <2>1. \A d \in DOMAIN nodes' : \A k \in DOMAIN nodes'[d] : nodes'[d][k] \in DOMAIN entries'
    <3> SUFFICES ASSUME NEW d \in 1 .. Len(nodes), NEW k \in DOMAIN nodes'[d]
                 PROVE  nodes'[d][k] \in 1 .. N + m
      BY <1>3, <1>9
    <3>1. CASE d = c
      <4>1. k \in 1 .. n + m /\ nodes'[d][k] = W[k]
        BY <3>1, <1>6, <1>8
      <4> QED  BY <4>1, <1>7
    <3>2. CASE d # c
      <4>1. nodes'[d] = nodes[d]
        BY <3>2, <1>8, <1>b
      <4>2. nodes[d][k] \in 1 .. N
        BY <4>1, <1>b, <1>0 DEF StoreOK, NodesOK
      <4> QED  BY <4>1, <4>2, <1>0
    <3> QED  BY <3>1, <3>2
  <2>2. \A d \in DOMAIN nodes' : \A k, l \in DOMAIN nodes'[d] : nodes'[d][k] = nodes'[d][l] => k = l
    <3> SUFFICES ASSUME NEW d \in 1 .. Len(nodes), NEW k \in DOMAIN nodes'[d], NEW l \in DOMAIN nodes'[d],
                        nodes'[d][k] = nodes'[d][l]
                 PROVE  k = l
      BY <1>9
    <3>1. CASE d = c
      <4>1. k \in 1 .. n + m /\ l \in 1 .. n + m /\ W[k] = W[l]
        BY <3>1, <1>6, <1>8
      <4>2. \A i, j \in 1 .. n : nodes[c][i] = nodes[c][j] => i = j
        BY <1>a DEF StoreOK, NodesOK
      <4>3. CASE k \in 1 .. n /\ l \in 1 .. n
        BY <4>1, <4>2, <4>3, <1>7
      <4>4. CASE k \in n + 1 .. n + m /\ l \in n + 1 .. n + m
        <5>1. N + (k - n) = N + (l - n)
          BY <4>1, <4>4, <1>7
        <5> QED  BY <5>1, <4>4, <1>0, <1>a
      <4>5. CASE k \in 1 .. n /\ l \in n + 1 .. n + m
        BY <4>1, <4>5, <1>7
      <4>6. CASE k \in n + 1 .. n + m /\ l \in 1 .. n
        BY <4>1, <4>6, <1>7
      <4> QED  BY <4>1, <4>3, <4>4, <4>5, <4>6, <1>7
    <3>2. CASE d # c
      <4>1. nodes'[d] = nodes[d] /\ d \in Conversations
        BY <3>2, <1>8, <1>b
      <4> QED  BY <4>1 DEF StoreOK, NodesOK
    <3> QED  BY <3>1, <3>2
  <2> QED  BY <2>1, <2>2, <1>8, <1>b DEF NodesOK, Main, Conversations
<1>12. StoreOK'
  BY <1>10, <1>11 DEF StoreOK
<1>13. \A id \in 1 .. N : id \in DOMAIN entries' /\ entries'[id] = entries[id]
  BY <1>0, <1>2, <1>3
<1>14. Len(Path(c)') = n + m /\ DOMAIN Path(c)' = 1 .. n + m
       /\ \A k \in 1 .. n + m : Path(c)'[k] = entries'[W[k]]
  <2>1. Path(c)' = [k \in 1 .. n + m |-> entries'[W[k]]]
    BY <1>6, <1>8 DEF Path, Resolved
  <2>2. \A k \in 1 .. n + m : entries'[W[k]] \in Items
    <3>1. \A k \in 1 .. n + m : W[k] \in 1 .. N + m
      BY <1>7
    <3>2. \A i \in 1 .. N + m : entries'[i] \in Items
      BY <1>2, ElementOfSeq
    <3> QED  BY <3>1, <3>2
  <2>3. Path(c)' \in [1 .. n + m -> Items]
    BY <2>1, <2>2
  <2>4. n + m \in Nat
    BY <1>0, <1>a
  <2> QED  BY <2>1, <2>3, <2>4, FunctionIsSeq
<1>15. \A k \in 1 .. n : Path(c)'[k] = Path(c)[k]
  <2>1. \A k \in 1 .. n : k \in 1 .. n + m /\ W[k] = nodes[c][k]
    BY <1>7
  <2> QED  BY SMTT(30), <2>1, <1>14, <1>a, <1>13
<1>16. \A k \in 1 .. m : Path(c)'[n + k] = new[k]
  <2>1. \A k \in 1 .. m : n + k \in 1 .. n + m /\ W[n + k] = N + k /\ N + k \in 1 .. N + m
    <3>1. \A k \in 1 .. m : n + k \in n + 1 .. n + m /\ n + k \in 1 .. n + m
             /\ N + ((n + k) - n) = N + k /\ N + k \in 1 .. N + m
      BY <1>0, <1>a
    <3> QED  BY <3>1, <1>7
  <2>2. \A k \in 1 .. m : entries'[N + k] = new[k]
    <3>1. \A k \in 1 .. m : N + k \in 1 .. N + m /\ ~(N + k <= N) /\ (N + k) - N = k
      BY <1>0
    <3> QED  BY <3>1, <1>2
  <2> QED  BY <2>1, <2>2, <1>14
<1>17. \A d \in Conversations \ {c} : Path(d)' = Path(d)
  <2> SUFFICES ASSUME NEW d \in Conversations, d # c PROVE Path(d)' = Path(d)
    OBVIOUS
  <2>1. nodes'[d] = nodes[d]
    BY <1>8
  <2>2. \A k \in DOMAIN nodes[d] : entries'[nodes[d][k]] = entries[nodes[d][k]]
    BY <1>0, <1>13 DEF StoreOK, NodesOK
  <2> QED  BY <2>1, <2>2 DEF Path, Resolved
<1>18. Grown(c)
  <2>1. OthersKept(c)
    BY <1>0, <1>8, <1>13 DEF OthersKept
  <2>2. Len(nodes'[c]) >= n /\ \A k \in 1 .. n : nodes'[c][k] = nodes[c][k]
    <3>1. n + m >= n
      BY <1>0, <1>a
    <3> QED  BY <3>1, <1>5, <1>7, <1>8
  <2>3. \A k \in DOMAIN nodes'[c] \ DOMAIN nodes[c] : nodes'[c][k] \notin DOMAIN entries
    BY <1>0, <1>a, <1>6, <1>7, <1>8
  <2>4. ASSUME nodes[c] = <<>>, nodes'[c] # <<>> PROVE entries'[nodes'[c][1]].kind # "compaction"
    <3>1. n = 0
      BY <2>4 DEF n
    <3>2. m # 0
      <4>1. Len(W) = 0 => W = <<>>
        BY <1>5, EmptySeq
      <4> QED  BY <4>1, <2>4, <3>1, <1>0, <1>5, <1>8
    <3>3. 1 \in 1 .. m /\ n + 1 = 1
      BY <3>1, <3>2, <1>0
    <3>4. entries'[nodes'[c][1]] = new[1]
      <4>1. Path(c)'[1] = new[1]
        BY <3>3, <1>16
      <4>2. 1 \in 1 .. n + m
        BY <3>1, <3>3, <1>0
      <4>3. Path(c)'[1] = entries'[W[1]]
        BY <4>2, <1>14
      <4> QED  BY <4>1, <4>3, <1>8
    <3>5. new # <<>>
      BY <3>2, EmptySeq DEF m
    <3> QED  BY <3>4, <3>5
  <2> QED  BY <2>1, <2>2, <2>3, <2>4 DEF Grown, n
<1> QED  BY <1>12, <1>14, <1>15, <1>16, <1>17, <1>18, <1>a DEF n, m

-----------------------------------------------------------------------------
(* A new main conversation.                                                *)

\* A part of the nodes is a sequence of nodes.
LEMMA PartOfNodes ==
    ASSUME NEW ids \in Seq(Nat), NEW a \in Nat \ {0}, NEW b \in Nat, b <= Len(ids), a <= b + 1
    PROVE  /\ SubSeq(ids, a, b) \in Seq(Nat)
           /\ Len(SubSeq(ids, a, b)) = b + 1 - a
           /\ DOMAIN SubSeq(ids, a, b) = 1 .. b + 1 - a
           /\ \A k \in 1 .. b + 1 - a : SubSeq(ids, a, b)[k] = ids[a + k - 1]
<1> DEFINE g == SubSeq(ids, a, b)
<1>0. Len(ids) \in Nat
  BY LenProperties
<1>1. \A i \in a .. b : ids[i] \in Nat
  <2>1. \A i \in a .. b : i \in 1 .. Len(ids)
    BY <1>0
  <2> QED  BY <2>1, ElementOfSeq
<1>2. /\ g \in Seq(Nat)
      /\ Len(g) = IF a <= b THEN b - a + 1 ELSE 0
      /\ \A i \in 1 .. b - a + 1 : g[i] = ids[a + i - 1]
  <2>1. a \in Int /\ b \in Int
    OBVIOUS
  <2> QED  BY <1>1, <2>1, SubSeqProperties
<1>3. DOMAIN g = 1 .. Len(g)
  BY <1>2, LenProperties
<1>4. b - a + 1 = b + 1 - a /\ (a <= b \/ b + 1 - a = 0)
  OBVIOUS
<1> HIDE DEF g
<1>5. Len(g) = b + 1 - a
  BY <1>2, <1>4
<1> QED  BY <1>2, <1>3, <1>4, <1>5 DEF g

\* A rewind: the successor is what is before the cut.
LEMMA Rewinds ==
    ASSUME StoreOK, NEW c, c = Main, NEW cut \in Nat, cut < Len(nodes[c]),
           Transition(SubSeq(nodes[c], 1, cut)), entries' = entries
    PROVE  /\ StoreOK' /\ Main' = c + 1 /\ Conversations' = Conversations \cup {c + 1}
           /\ \A d \in Conversations : nodes'[d] = nodes[d] /\ Path(d)' = Path(d)
           /\ nodes'[c + 1] # <<>> => nodes'[c + 1][1] = nodes[c][1]
           /\ IsSegment(Path(c + 1)', cut, Path(c), 1)
           /\ Path(c + 1)' = SubSeq(Path(c), 1, cut)
<1> DEFINE ids == nodes[c]
           g == SubSeq(ids, 1, cut)
<1>0. c \in Conversations /\ c \in Nat \ {0}
      /\ nodes \in Seq(Seq(Nat)) /\ c = Len(nodes) /\ Conversations = 1 .. c
  BY LenProperties DEF StoreOK, NodesOK, Main, Conversations
<1>1. /\ ids \in Seq(Nat) /\ Len(ids) \in Nat /\ DOMAIN ids = 1 .. Len(ids)
      /\ Len(Path(c)) = Len(ids) /\ DOMAIN Path(c) = 1 .. Len(ids)
      /\ \A k \in 1 .. Len(ids) : /\ ids[k] \in DOMAIN entries /\ Path(c)[k] = entries[ids[k]]
                                  /\ Path(c)[k] \in Items
  BY <1>0, PathIs
<1> HIDE DEF ids
<1>2. g \in Seq(Nat) /\ Len(g) = cut /\ DOMAIN g = 1 .. cut /\ \A k \in 1 .. cut : g[k] = ids[k]
  <2>1. cut <= Len(ids) /\ 1 <= cut + 1 /\ cut + 1 - 1 = cut
    BY <1>1 DEF ids
  <2>2. \A k \in 1 .. cut : 1 + k - 1 = k
    OBVIOUS
  <2>3. /\ g \in Seq(Nat) /\ Len(g) = cut + 1 - 1 /\ DOMAIN g = 1 .. cut + 1 - 1
        /\ \A k \in 1 .. cut + 1 - 1 : g[k] = ids[1 + k - 1]
    BY <1>1, <2>1, PartOfNodes
  <2> HIDE DEF g
  <2> QED  BY <2>1, <2>2, <2>3
<1>3. nodes' = Append(nodes, g)
  BY DEF Transition, ids
<1> HIDE DEF g
<1>4. /\ nodes' \in Seq(Seq(Nat)) /\ Len(nodes') = c + 1
      /\ (\A d \in 1 .. c : nodes'[d] = nodes[d]) /\ nodes'[c + 1] = g
  BY <1>0, <1>2, <1>3, AppendProperties
<1>5. DOMAIN nodes' = 1 .. c + 1 /\ 1 .. c + 1 = 1 .. c \cup {c + 1}
  <2>1. DOMAIN nodes' = 1 .. c + 1
    BY <1>4, LenProperties
  <2> QED  BY <2>1, <1>0
<1>6. Main' = c + 1 /\ Conversations' = Conversations \cup {c + 1}
  BY <1>0, <1>4, <1>5 DEF Main, Conversations
<1>7. \A k \in 1 .. cut : k \in 1 .. Len(ids)
  BY <1>1 DEF ids
<1>8. StoreOK'
  <2>1. \A d \in 1 .. c \cup {c + 1} : \A k \in DOMAIN nodes'[d] : nodes'[d][k] \in DOMAIN entries
    <3>1. \A d \in 1 .. c : \A k \in DOMAIN nodes[d] : nodes[d][k] \in DOMAIN entries
      BY <1>0 DEF StoreOK, NodesOK
    <3>2. \A k \in 1 .. cut : g[k] \in DOMAIN entries
      BY <1>1, <1>2, <1>7
    <3> QED  BY <3>1, <3>2, <1>2, <1>4
  <2>2. \A d \in 1 .. c \cup {c + 1} : \A k, l \in DOMAIN nodes'[d] :
           nodes'[d][k] = nodes'[d][l] => k = l
    <3>1. \A d \in 1 .. c : \A k, l \in DOMAIN nodes[d] : nodes[d][k] = nodes[d][l] => k = l
      BY <1>0 DEF StoreOK, NodesOK
    <3>2. \A k, l \in 1 .. Len(ids) : ids[k] = ids[l] => k = l
      BY <1>0, <1>1 DEF StoreOK, NodesOK, ids
    <3>3. \A k, l \in 1 .. cut : g[k] = g[l] => k = l
      BY <3>2, <1>2, <1>7
    <3>4. ASSUME NEW d \in 1 .. c \cup {c + 1}, NEW k \in DOMAIN nodes'[d], NEW l \in DOMAIN nodes'[d],
                 nodes'[d][k] = nodes'[d][l]
          PROVE  k = l
      <4>1. CASE d = c + 1
        BY <4>1, <3>3, <3>4, <1>2, <1>4
      <4>2. CASE d \in 1 .. c
        <5>1. nodes'[d] = nodes[d]
          BY <4>2, <1>4
        <5> QED  BY <4>2, <5>1, <3>1, <3>4
      <4> QED  BY <4>1, <4>2
    <3> QED  BY <3>4
  <2>3. NodesOK'
    <3>1. c + 1 \in Nat \ {0} /\ Len(nodes') = c + 1
      BY <1>0, <1>4
    <3> QED  BY <2>1, <2>2, <3>1, <1>4, <1>5 DEF NodesOK, Main, Conversations
  <2>4. EntriesOK'
    BY DEF StoreOK, EntriesOK
  <2> QED  BY <2>3, <2>4 DEF StoreOK
<1>9. \A d \in Conversations : nodes'[d] = nodes[d] /\ Path(d)' = Path(d)
  BY <1>0, <1>4 DEF Path, Resolved
<1>10. nodes'[c + 1] # <<>> => nodes'[c + 1][1] = nodes[c][1]
  <2>1. cut = 0 => g = <<>>
    BY <1>2, EmptySeq
  <2>2. cut # 0 => 1 \in 1 .. cut
    OBVIOUS
  <2> QED  BY <2>1, <2>2, <1>2, <1>4 DEF ids
<1>11. Path(c + 1)' = [k \in 1 .. cut |-> entries[g[k]]]
  BY <1>2, <1>4 DEF Path, Resolved
<1>12. [k \in 1 .. cut |-> entries[g[k]]] \in [1 .. cut -> Items]
  BY <1>1, <1>2, <1>7
<1>13. Path(c + 1)' \in Seq(Items) /\ Len(Path(c + 1)') = cut /\ DOMAIN Path(c + 1)' = 1 .. cut
  BY <1>11, <1>12, FunctionIsSeq
<1>14. \A k \in 1 .. cut : Path(c + 1)'[k] = Path(c)[k]
  BY <1>1, <1>2, <1>7, <1>11
<1>15. IsSegment(Path(c + 1)', cut, Path(c), 1)
  <2>1. 1 \in Nat \ {0} /\ 1 + cut - 1 <= Len(ids) /\ \A k \in 1 .. cut : 1 + k - 1 = k
    BY <1>1 DEF ids
  <2> QED  BY <1>1, <1>13, <1>14, <2>1 DEF IsSegment
<1>16. Path(c + 1)' = SubSeq(Path(c), 1, cut)
  <2> DEFINE p == Path(c)
             h == SubSeq(p, 1, cut)
  <2>1. \A i \in 1 .. cut : p[i] \in Items
    BY <1>1, <1>7
  <2> HIDE DEF p
  <2>2. /\ h \in Seq(Items)
        /\ Len(h) = IF 1 <= cut THEN cut - 1 + 1 ELSE 0
        /\ \A i \in 1 .. cut - 1 + 1 : h[i] = p[1 + i - 1]
    <3>1. 1 \in Int /\ cut \in Int
      OBVIOUS
    <3> QED  BY <2>1, <3>1, SubSeqProperties
  <2> HIDE DEF h
  <2>3. Len(h) = cut /\ \A i \in 1 .. cut : h[i] = p[i]
    <3>1. cut - 1 + 1 = cut /\ (1 <= cut \/ cut = 0) /\ \A i \in 1 .. cut : 1 + i - 1 = i
      OBVIOUS
    <3> QED  BY <2>2, <3>1
  <2> DEFINE P == Path(c + 1)'
  <2>4. P \in Seq(Items) /\ Len(P) = cut /\ \A i \in 1 .. cut : P[i] = p[i]
    BY <1>13, <1>14 DEF p
  <2> HIDE DEF P
  <2>5. P = h
    BY <2>2, <2>3, <2>4, SeqEqual
  <2> QED  BY <2>5 DEF P, h, p
<1> QED  BY <1>6, <1>8, <1>9, <1>10, <1>15, <1>16

-----------------------------------------------------------------------------
(* A commit.                                                               *)

\* What the plan keeps is a tail of the nodes it was offered.
LEMMA KeptIsTail ==
    ASSUME NEW ids \in Seq(Nat)
    PROVE  /\ Kept(ids) \in Seq(Nat)
           /\ \E a \in Nat \ {0} : /\ a <= Len(ids) + 1
                                   /\ Len(Kept(ids)) = Len(ids) + 1 - a
                                   /\ \A k \in 1 .. Len(ids) + 1 - a : Kept(ids)[k] = ids[a + k - 1]
<1> DEFINE n == Len(ids)
           IsTail(g) == /\ g \in Seq(Nat)
                      /\ \E a \in Nat \ {0} : /\ a <= n + 1
                                              /\ Len(g) = n + 1 - a
                                              /\ \A k \in 1 .. n + 1 - a : g[k] = ids[a + k - 1]
<1>0. n \in Nat /\ DOMAIN ids = 1 .. n
  BY LenProperties
<1>1. IsTail(<<>>)
  <2>1. n + 1 \in Nat \ {0} /\ n + 1 <= n + 1 /\ n + 1 - (n + 1) = 0
    BY <1>0
  <2>2. <<>> \in Seq(Nat) /\ Len(<<>>) = 0
    BY EmptySeq
  <2> HIDE DEF n
  <2> QED  BY <2>1, <2>2
<1>2. IsTail(ids)
  <2>1. 1 \in Nat \ {0} /\ 1 <= n + 1 /\ n + 1 - 1 = n /\ \A k \in 1 .. n : 1 + k - 1 = k
    BY <1>0
  <2>2. Len(ids) = n
    OBVIOUS
  <2> HIDE DEF n
  <2> QED  BY <2>1, <2>2
<1>3. \A from \in 1 .. n : IsTail(SubSeq(ids, from, n))
  <2> SUFFICES ASSUME NEW from \in 1 .. n PROVE IsTail(SubSeq(ids, from, n))
    OBVIOUS
  <2>1. from \in Nat \ {0} /\ from <= n + 1 /\ n <= Len(ids)
    BY <1>0
  <2>2. /\ SubSeq(ids, from, n) \in Seq(Nat)
        /\ Len(SubSeq(ids, from, n)) = n + 1 - from
        /\ \A k \in 1 .. n + 1 - from : SubSeq(ids, from, n)[k] = ids[from + k - 1]
    <3> HIDE DEF n
    <3> QED  BY <1>0, <2>1, PartOfNodes
  <2> HIDE DEF n
  <2> QED  BY <2>1, <2>2
<1>4. n > 0 => IsTail(<<ids[n]>>)
  <2> SUFFICES ASSUME n > 0 PROVE IsTail(<<ids[n]>>)
    OBVIOUS
  <2>1. n \in Nat \ {0} /\ n <= n + 1 /\ n + 1 - n = 1 /\ n + 1 - 1 = n /\ n \in 1 .. n
    BY <1>0
  <2>2. ids[n] \in Nat
    BY <2>1, ElementOfSeq
  <2>3. <<ids[n]>> \in Seq(Nat) /\ Len(<<ids[n]>>) = 1 /\ <<ids[n]>>[1] = ids[n]
    BY <2>2
  <2>4. \A k \in 1 .. 1 : k = 1
    OBVIOUS
  <2> HIDE DEF n
  <2> QED  BY <2>1, <2>3, <2>4
<1> HIDE DEF IsTail
<1>5. IsTail(SelectKeep(ids))
  <2> DEFINE starts == {k \in DOMAIN ids : entries[ids[k]].kind = "start"}
             cut == {s \in starts : Cardinality({t \in starts : t >= s}) = KeepTurns}
             t == CHOOSE k \in cut : TRUE
             from == IF t > 1 /\ entries[ids[t - 1]].kind = "user" THEN t - 1 ELSE t
  <2>1. SelectKeep(ids) = IF KeepTurns = 0 THEN <<>> ELSE IF cut = {} THEN ids ELSE SubSeq(ids, from, n)
    BY Zenon DEF SelectKeep
  <2>2. cut \subseteq 1 .. n
    BY <1>0, Zenon
  <2> HIDE DEF cut
  <2>3. cut # {} => t \in 1 .. n
    BY <2>2
  <2> HIDE DEF t
  <2>4. t \in 1 .. n => from \in 1 .. n
    BY <1>0
  <2> HIDE DEF from, n
  <2> QED  BY <2>1, <2>3, <2>4, <1>1, <1>2, <1>3
<1>6. ids # <<>> => n > 0
  BY <1>0, EmptySeq
<1>7. IsTail(Kept(ids))
  <2>1. Kept(ids) = SelectKeep(ids) \/ (ids # <<>> /\ Kept(ids) = <<ids[n]>>)
    BY DEF Kept
  <2> QED  BY <2>1, <1>4, <1>5, <1>6
<1> QED  BY <1>7 DEF IsTail

\* With a bare bracket the candidates are what is before it.
LEMMA CandidatesAre ==
    ASSUME StoreOK, NEW c \in Conversations, NEW s \in DOMAIN Path(c), IsOpenTurn(Path(c), s),
           Len(nodes[c]) = s + 1
    PROVE  Candidates(nodes[c]) = SubSeq(nodes[c], 1, s - 1)
<1> DEFINE ids == nodes[c]
           n == Len(ids)
           t == CHOOSE k \in DOMAIN ids : IsOpenTurn(Resolved(ids), k)
<1>0. /\ ids \in Seq(Nat) /\ n \in Nat /\ DOMAIN ids = 1 .. n /\ DOMAIN Path(c) = 1 .. n
      /\ Path(c) = Resolved(ids)
  BY PathIs DEF Path
<1>1. s \in DOMAIN ids /\ IsOpenTurn(Resolved(ids), s)
  BY <1>0
<1>2. \A k \in DOMAIN ids : IsOpenTurn(Resolved(ids), k) => k = s
  <2>1. DOMAIN Resolved(ids) = 1 .. n
    BY <1>0
  <2> QED  BY <1>0, <1>1, <2>1 DEF IsOpenTurn, Holds
<1>3. t = s
  BY <1>1, <1>2
<1>4. Candidates(ids) = SubSeq(ids, 1, t - 1) \o SubSeq(ids, t + 2, n)
  BY DEF Candidates
<1> HIDE DEF t
<1>5. s \in 1 .. n /\ n = s + 1
  BY <1>0
<1> HIDE DEF ids, n
<1>6. SubSeq(ids, s + 2, n) = <<>>
  <2>1. s + 2 \in Int /\ n \in Int /\ n < s + 2
    BY <1>0, <1>5
  <2> QED  BY <2>1, SubSeqEmpty
<1>7. SubSeq(ids, 1, s - 1) \in Seq(Nat)
  <2>1. s - 1 \in Nat /\ s - 1 <= n /\ 1 <= s - 1 + 1 /\ 1 \in Nat \ {0}
    BY <1>0, <1>5
  <2> QED  BY <2>1, <1>0, PartOfNodes DEF n
<1>8. SubSeq(ids, 1, s - 1) \o <<>> = SubSeq(ids, 1, s - 1)
  BY <1>7, ConcatEmptySeq
<1> QED  BY <1>3, <1>4, <1>6, <1>8 DEF ids

\* What a commit of `kept`, the m nodes from a on, does to the store.
Committed(c, s, a, m) ==
    LET id == nodes[c][s + 1]
        last == Len(entries) + 1
        n == Len(nodes[c])
    IN  /\ id \in DOMAIN entries /\ entries[id].kind = "compaction"
        /\ DOMAIN entries' = 1 .. last
        /\ \A i \in DOMAIN entries : i # id => entries'[i] = entries[i]
        /\ entries'[id].kind = "compaction" /\ entries'[id].summary = TRUE
        /\ entries'[id].folded = {nodes[c][k] : k \in 1 .. s - 1}
                                    \ ({id} \cup {nodes[c][a + k - 1] : k \in 1 .. m})
        /\ entries'[last].kind = "finish"
        /\ Len(nodes') = c + 1
        /\ \A d \in 1 .. c - 1 : nodes'[d] = nodes[d]
        /\ Len(nodes'[c]) = n + 1 /\ nodes'[c][n + 1] = last
        /\ \A k \in 1 .. n : nodes'[c][k] = nodes[c][k]
        /\ Len(nodes'[c + 1]) = m + 1 /\ nodes'[c + 1][1] = id
        /\ \A k \in 1 .. m : nodes'[c + 1][k + 1] = nodes[c][a + k - 1]

\* A commit keeps the store sound.
LEMMA Commits ==
    ASSUME StoreOK, NEW c, c = Main, NEW s \in DOMAIN Path(c), OpensCompaction(Path(c), s),
           NEW r \in Runs, cid[r] = c, NEW kept \in Seq(Nat), NEW a \in Nat \ {0}, NEW m \in Nat,
           a + m = s, Len(kept) = m, \A k \in 1 .. m : kept[k] = nodes[c][a + k - 1],
           CommitOf(r, kept)
    PROVE  StoreOK' /\ Committed(c, s, a, m)
<1> DEFINE ids == nodes[c]
           n == Len(ids)
           N == Len(entries)
           id == ids[s + 1]
           t == CHOOSE k \in DOMAIN nodes[cid[r]] : IsOpenTurn(Path(cid[r]), k)
           id0 == nodes[cid[r]][t + 1]
           folded0 == {nodes[cid[r]][k] : k \in 1 .. t - 1}
                        \ ({id0} \cup {kept[k] : k \in DOMAIN kept})
           carried == {id} \cup {kept[k] : k \in DOMAIN kept}
           before == {ids[k] : k \in 1 .. s - 1}
           folded == before \ carried
           x == [entries[id] EXCEPT !.summary = TRUE, !.folded = folded]
           E == [entries EXCEPT ![id] = x]
<1>0. /\ c \in Nat \ {0} /\ c \in Conversations /\ nodes \in Seq(Seq(Nat)) /\ Len(nodes) = c
      /\ DOMAIN nodes = 1 .. c
  BY LenProperties DEF StoreOK, NodesOK, Main, Conversations
<1>1. /\ ids \in Seq(Nat) /\ n \in Nat /\ DOMAIN ids = 1 .. n
      /\ DOMAIN Path(c) = 1 .. n
      /\ \A k \in 1 .. n : ids[k] \in DOMAIN entries /\ Path(c)[k] = entries[ids[k]]
  BY <1>0, PathIs
<1>2. N \in Nat /\ DOMAIN entries = 1 .. N /\ entries \in Seq(Items)
      /\ \A i \in 1 .. N : entries[i] \in Items
  BY LenProperties, ElementOfSeq DEF StoreOK, EntriesOK
<1>3. s \in 1 .. n /\ s + 1 \in 1 .. n /\ Path(c)[s + 1].kind = "compaction" /\ IsOpenTurn(Path(c), s)
  BY <1>1 DEF OpensCompaction, IsCompactionBracket, Holds
<1>4. id \in 1 .. N /\ entries[id].kind = "compaction" /\ entries[id] \in Compactions
  BY <1>1, <1>2, <1>3, ItemsAre
<1>5. t = s
  <2>1. \A k \in DOMAIN ids : IsOpenTurn(Path(c), k) => k = s
    BY <1>1, <1>3 DEF IsOpenTurn, Holds
  <2> QED  BY <2>1, <1>1, <1>3
<1>6. DOMAIN kept = 1 .. m
  BY LenProperties
<1>7. \A k \in 1 .. s - 1 : k \in 1 .. n
  BY <1>1, <1>3
<1>8. \A k \in 1 .. m : a + k - 1 \in 1 .. s - 1
  BY <1>1, <1>3
<1>9. before \subseteq 1 .. N
  BY <1>1, <1>2, <1>7
<1>10. carried = {id} \cup {ids[a + k - 1] : k \in 1 .. m}
  <2>1. \A k \in 1 .. m : kept[k] = ids[a + k - 1]
    OBVIOUS
  <2> HIDE DEF ids, id
  <2>2. {kept[k] : k \in DOMAIN kept} = {ids[a + k - 1] : k \in 1 .. m}
    BY ZenonT(40), <2>1, <1>6
  <2> QED  BY <2>2
<1>c. entries' = Append([entries EXCEPT ![id0].summary = TRUE, ![id0].folded = folded0], TurnFinish("completed"))
      /\ nodes' = Append([nodes EXCEPT ![cid[r]] = Append(@, N + 1)], <<id0>> \o kept)
  BY Zenon DEF CommitOf
<1> HIDE DEF t
<1>d. id0 = id /\ folded0 = folded
  BY <1>5
<1> HIDE DEF id0, folded0
<1>11. entries' = Append([entries EXCEPT ![id].summary = TRUE, ![id].folded = folded], TurnFinish("completed"))
       /\ nodes' = Append([nodes EXCEPT ![c] = Append(@, N + 1)], <<id>> \o kept)
  BY <1>c, <1>d
<1>12. [entries EXCEPT ![id].summary = TRUE, ![id].folded = folded] = E
  BY <1>2, <1>4
<1> HIDE DEF before, carried
<1>13. x \in Compactions /\ x.kind = "compaction" /\ x.summary = TRUE /\ x.folded = folded
  <2>1. folded \in SUBSET Nat
    <3>1. folded \subseteq before /\ 1 .. N \subseteq Nat
      BY <1>2
    <3> HIDE DEF folded, N
    <3> QED  BY <3>1, <1>9
  <2> HIDE DEF folded
  <2>2. entries[id] \in [kind : {"compaction"}, source : {"user", "policy"}, summary : BOOLEAN, folded : SUBSET Nat]
    BY <1>4 DEF Compactions
  <2> QED  BY <2>1, <2>2 DEF Compactions
<1> HIDE DEF x
<1>14. x \in Items
  BY <1>13, Zenon DEF Items
<1>15. E \in Seq(Items) /\ Len(E) = N /\ \A i \in 1 .. N : E[i] = IF i = id THEN x ELSE entries[i]
  <2> HIDE DEF id
  <2> QED  BY <1>2, <1>4, <1>14, ExceptSeq
<1> HIDE DEF E
<1>16. /\ entries' \in Seq(Items) /\ Len(entries') = N + 1
       /\ \A i \in 1 .. N : entries'[i] = IF i = id THEN x ELSE entries[i]
       /\ entries'[N + 1] = TurnFinish("completed")
  <2>1. TurnFinish("completed") \in Items
    BY WrittenAreItems DEF TurnOutcomes
  <2>2. entries' = Append(E, TurnFinish("completed"))
    BY <1>11, <1>12
  <2> QED  BY <2>1, <2>2, <1>15, AppendProperties
<1>17. DOMAIN entries' = 1 .. N + 1
  BY <1>16, LenProperties
<1> DEFINE A == Append(ids, N + 1)
           B == <<id>> \o kept
           D == [nodes EXCEPT ![c] = A]
<1>18. A \in Seq(Nat) /\ Len(A) = n + 1 /\ (\A k \in 1 .. n : A[k] = ids[k]) /\ A[n + 1] = N + 1
  <2>1. N + 1 \in Nat
    BY <1>2
  <2> QED  BY <2>1, <1>1, AppendProperties
<1>19. B \in Seq(Nat) /\ Len(B) = m + 1 /\ B[1] = id /\ \A k \in 1 .. m : B[k + 1] = ids[a + k - 1]
  <2>1. <<id>> \in Seq(Nat) /\ Len(<<id>>) = 1 /\ <<id>>[1] = id
    BY <1>4
  <2> HIDE DEF id
  <2>2. /\ B \in Seq(Nat) /\ Len(B) = Len(<<id>>) + Len(kept)
        /\ \A i \in 1 .. Len(<<id>>) + Len(kept) : B[i] = IF i <= Len(<<id>>) THEN <<id>>[i] ELSE kept[i - Len(<<id>>)]
    BY <2>1, ConcatProperties, Zenon
  <2>3. 1 + m = m + 1 /\ 1 \in 1 .. m + 1 /\ 1 <= 1
        /\ \A k \in 1 .. m : k + 1 \in 1 .. m + 1 /\ ~(k + 1 <= 1) /\ (k + 1) - 1 = k
    OBVIOUS
  <2> HIDE DEF B
  <2>4. Len(B) = m + 1
    BY <2>1, <2>2, <2>3
  <2>5. B[1] = id
    BY <2>1, <2>2, <2>3
  <2>6. \A k \in 1 .. m : B[k + 1] = kept[k]
    BY <2>1, <2>2, <2>3
  <2> QED  BY <2>2, <2>4, <2>5, <2>6
<1> HIDE DEF A, B, id
<1>20. D \in Seq(Seq(Nat)) /\ Len(D) = c /\ \A d \in 1 .. c : D[d] = IF d = c THEN A ELSE nodes[d]
  <2>1. c \in 1 .. Len(nodes)
    BY <1>0
  <2> QED  BY <2>1, <1>0, <1>18, ExceptSeq
<1>21. nodes' = Append(D, B)
  BY <1>0, <1>11 DEF A, B
<1> HIDE DEF D
<1>22. /\ nodes' \in Seq(Seq(Nat)) /\ Len(nodes') = c + 1 /\ nodes'[c + 1] = B
       /\ \A d \in 1 .. c : nodes'[d] = IF d = c THEN A ELSE nodes[d]
  BY <1>19, <1>20, <1>21, AppendProperties
<1>23. DOMAIN nodes' = 1 .. c + 1
  BY <1>22, LenProperties
<1>24. nodes'[c] = A /\ (\A d \in 1 .. c - 1 : nodes'[d] = nodes[d])
       /\ \A d \in 1 .. c + 1 : d = c + 1 \/ d = c \/ d \in 1 .. c - 1
  <2>1. c \in 1 .. c /\ (\A d \in 1 .. c - 1 : d \in 1 .. c /\ d # c)
        /\ \A d \in 1 .. c + 1 : d = c + 1 \/ d = c \/ d \in 1 .. c - 1
    BY <1>0
  <2> QED  BY <2>1, <1>22
<1> DEFINE last == N + 1
<1>25. Committed(c, s, a, m)
  <2>1. \A i \in 1 .. N : i # id => entries'[i] = entries[i]
    BY <1>16
  <2>2. entries'[id] = x
    BY <1>4, <1>16
  <2>3. entries'[N + 1].kind = "finish"
    BY <1>16, WrittenKinds
  <2>4. folded = {ids[k] : k \in 1 .. s - 1} \ ({id} \cup {ids[a + k - 1] : k \in 1 .. m})
    BY <1>10 DEF before
  <2> HIDE DEF folded
  <2>5. id \in DOMAIN entries /\ entries[id].kind = "compaction" /\ DOMAIN entries' = 1 .. N + 1
    BY <1>2, <1>4, <1>17
  <2>6. /\ entries'[id].kind = "compaction" /\ entries'[id].summary = TRUE
        /\ entries'[id].folded = {ids[k] : k \in 1 .. s - 1} \ ({id} \cup {ids[a + k - 1] : k \in 1 .. m})
    BY <2>2, <2>4, <1>13
  <2>7. /\ Len(nodes'[c]) = n + 1 /\ nodes'[c][n + 1] = N + 1 /\ \A k \in 1 .. n : nodes'[c][k] = ids[k]
        /\ Len(nodes'[c + 1]) = m + 1 /\ nodes'[c + 1][1] = id
        /\ \A k \in 1 .. m : nodes'[c + 1][k + 1] = ids[a + k - 1]
    BY <1>18, <1>19, <1>22, <1>24
  <2>8. \A i \in DOMAIN entries : i # id => entries'[i] = entries[i]
    BY <2>1, <1>2
  <2> QED  BY <2>3, <2>5, <2>6, <2>7, <2>8, <1>22, <1>24 DEF Committed, id
<1>26. EntriesOK'
  <2> SUFFICES ASSUME NEW i \in 1 .. N + 1, entries'[i].kind = "compaction"
               PROVE  entries'[i].folded \subseteq 1 .. N + 1
    BY <1>16, <1>17 DEF EntriesOK
  <2>0. 1 .. N \subseteq 1 .. N + 1
    BY <1>2
  <2>1. i \in 1 .. N
    <3>1. i # N + 1
      BY <1>16, WrittenKinds
    <3> QED  BY <3>1, <1>2
  <2>2. CASE i = id
    <3>1. entries'[i].folded = folded
      BY <2>1, <2>2, <1>13, <1>16
    <3> QED  BY <3>1, <1>9, <2>0
  <2>3. CASE i # id
    <3>1. entries'[i] = entries[i]
      BY <2>1, <2>3, <1>16
    <3>2. entries[i].folded \subseteq 1 .. N
      BY <3>1, <2>1, <1>2 DEF StoreOK, EntriesOK
    <3> QED  BY <3>1, <3>2, <2>0
  <2> QED  BY <2>2, <2>3
<1>27. NodesOK'
  <2>0. /\ DOMAIN A = 1 .. n + 1 /\ DOMAIN B = 1 .. m + 1
        /\ (\A k \in 1 .. n + 1 : k = n + 1 \/ k \in 1 .. n)
        /\ (\A k \in 1 .. m + 1 : k = 1 \/ k - 1 \in 1 .. m)
        /\ (\A i \in 1 .. N : i \in 1 .. N + 1 /\ i # N + 1) /\ N + 1 \in 1 .. N + 1
        /\ (\A k \in 1 .. m : a + k - 1 \in 1 .. n /\ a + k - 1 # s + 1)
        /\ (\A k, l \in 1 .. m : a + k - 1 = a + l - 1 => k = l)
        /\ (\A k \in 1 .. m + 1 : k - 1 + 1 = k)
    <3>1. DOMAIN A = 1 .. n + 1 /\ DOMAIN B = 1 .. m + 1
      BY <1>18, <1>19, LenProperties
    <3>2. \A k \in 1 .. m : a + k - 1 \in 1 .. n /\ a + k - 1 # s + 1
      BY <1>3, <1>1
    <3>3. N \in Nat /\ n \in Nat
      BY <1>1, <1>2
    <3> HIDE DEF N, n
    <3>4. \A k \in 1 .. n + 1 : k = n + 1 \/ k \in 1 .. n
      BY <3>3
    <3>5. \A k \in 1 .. m + 1 : (k = 1 \/ k - 1 \in 1 .. m) /\ k - 1 + 1 = k
      OBVIOUS
    <3>6. (\A i \in 1 .. N : i \in 1 .. N + 1 /\ i # N + 1) /\ N + 1 \in 1 .. N + 1
      BY <3>3
    <3>7. \A k, l \in 1 .. m : a + k - 1 = a + l - 1 => k = l
      OBVIOUS
    <3> QED  BY <3>1, <3>2, <3>4, <3>5, <3>6, <3>7
  <2>a. \A k, l \in 1 .. n : ids[k] = ids[l] => k = l
    BY <1>0, <1>1 DEF StoreOK, NodesOK
  <2>b. id = ids[s + 1]
    BY DEF id
  <2> HIDE DEF ids, n, N
  <2>1. \A k \in 1 .. n + 1 : A[k] \in 1 .. N + 1
    BY <2>0, <1>1, <1>2, <1>18
  <2>2. \A k \in 1 .. m + 1 : B[k] \in 1 .. N + 1
    <3>1. \A k \in 1 .. m : B[k + 1] \in 1 .. N
      BY <2>0, <1>1, <1>2, <1>19
    <3> QED  BY <3>1, <2>0, <1>4, <1>19
  <2>3. \A k, l \in 1 .. n + 1 : A[k] = A[l] => k = l
    <3>1. \A k \in 1 .. n : A[k] = ids[k] /\ A[k] # N + 1
      BY <2>0, <1>1, <1>2, <1>18
    <3> QED  BY <3>1, <2>0, <2>a, <1>18
  <2>4. \A k, l \in 1 .. m + 1 : B[k] = B[l] => k = l
    <3>1. \A k \in 1 .. m : B[k + 1] = ids[a + k - 1] /\ B[k + 1] # id
      BY <2>0, <2>a, <2>b, <1>3, <1>19
    <3>2. ASSUME NEW k \in 1 .. m, NEW l \in 1 .. m, B[k + 1] = B[l + 1] PROVE k = l
      <4>1. ids[a + k - 1] = ids[a + l - 1]
        BY <3>1, <3>2
      <4>2. a + k - 1 \in 1 .. n /\ a + l - 1 \in 1 .. n
        BY <2>0
      <4>3. a + k - 1 = a + l - 1
        BY <4>1, <4>2, <2>a
      <4> QED  BY <4>3
    <3> SUFFICES ASSUME NEW k \in 1 .. m + 1, NEW l \in 1 .. m + 1, B[k] = B[l] PROVE k = l
      OBVIOUS
    <3>3. CASE k = 1 /\ l = 1
      BY <3>3
    <3>4. CASE k - 1 \in 1 .. m /\ l = 1
      BY <3>1, <3>4, <2>0, <1>19
    <3>5. CASE k = 1 /\ l - 1 \in 1 .. m
      BY <3>1, <3>5, <2>0, <1>19
    <3>6. CASE k - 1 \in 1 .. m /\ l - 1 \in 1 .. m
      <4>0. B[(k - 1) + 1] = B[(l - 1) + 1]
        BY <2>0
      <4>1. k - 1 = l - 1
        BY <3>2, <3>6, <4>0
      <4> QED  BY <4>1
    <3> QED  BY <3>3, <3>4, <3>5, <3>6, <2>0
  <2>5. \A d \in 1 .. c + 1 : \A k \in DOMAIN nodes'[d] : nodes'[d][k] \in 1 .. N + 1
    <3> SUFFICES ASSUME NEW d \in 1 .. c + 1, NEW k \in DOMAIN nodes'[d]
                 PROVE  nodes'[d][k] \in 1 .. N + 1
      OBVIOUS
    <3>1. CASE d \in 1 .. c - 1
      <4>1. nodes'[d] = nodes[d] /\ d \in 1 .. c
        BY <3>1, <1>0, <1>24
      <4>2. nodes[d][k] \in 1 .. N
        BY <4>1, <1>0, <1>2 DEF StoreOK, NodesOK, Conversations
      <4> QED  BY <4>1, <4>2, <2>0
    <3> QED  BY <3>1, <2>0, <2>1, <2>2, <1>22, <1>24
  <2>6. \A d \in 1 .. c + 1 : \A k, l \in DOMAIN nodes'[d] : nodes'[d][k] = nodes'[d][l] => k = l
    <3> SUFFICES ASSUME NEW d \in 1 .. c + 1, NEW k \in DOMAIN nodes'[d], NEW l \in DOMAIN nodes'[d],
                        nodes'[d][k] = nodes'[d][l]
                 PROVE  k = l
      OBVIOUS
    <3>1. CASE d \in 1 .. c - 1
      <4>1. nodes'[d] = nodes[d] /\ d \in 1 .. c
        BY <3>1, <1>0, <1>24
      <4> QED  BY <4>1, <1>0 DEF StoreOK, NodesOK, Conversations
    <3>2. CASE d = c
      BY <3>2, <2>0, <2>3, <1>24
    <3>3. CASE d = c + 1
      BY <3>3, <2>0, <2>4, <1>22
    <3> QED  BY <3>1, <3>2, <3>3, <1>24
  <2>7. Len(nodes') \in Nat \ {0}
    BY <1>0, <1>22
  <2> QED  BY <2>5, <2>6, <2>7, <1>17, <1>22, <1>23 DEF NodesOK, Main, Conversations
<1> QED  BY <1>25, <1>26, <1>27 DEF StoreOK

\* The shape of every path of a sound store.
PathsShaped ==
    \A c \in Conversations :
        /\ Len(nodes[c]) \in Nat /\ DOMAIN nodes[c] = 1 .. Len(nodes[c])
        /\ Len(Path(c)) = Len(nodes[c]) /\ DOMAIN Path(c) = 1 .. Len(nodes[c])
        /\ \A k \in 1 .. Len(nodes[c]) : /\ nodes[c][k] \in DOMAIN entries
                                         /\ Path(c)[k] = entries[nodes[c][k]]
                                         /\ Path(c)[k] \in Items

\* A sound store has such paths.
LEMMA StoreIsShaped == StoreOK => PathsShaped
<1> QED  BY PathIs DEF PathsShaped

\* The same of the state behind a step.
LEMMA StoreIsShapedNext == StoreOK' => PathsShaped'
<1> QED  BY StoreIsShaped, PTL

\* Only the kinds make the brackets.
LEMMA KindsAlternate ==
    ASSUME NEW p, NEW q, DOMAIN q = DOMAIN p, \A k \in DOMAIN p : q[k].kind = p[k].kind,
           NEW n \in Nat, DOMAIN p = 1 .. n, Alternates(p)
    PROVE  Alternates(q)
<1>1. Between(p, n, "start", "finish") /\ Between(p, n, "finish", "start")
  BY AlternatesBetween
<1>2. \A b, e : Between(p, n, b, e) => Between(q, n, b, e)
  <2> TAKE b, e
  <2> SUFFICES ASSUME Between(p, n, b, e), NEW i \in 1 .. n, NEW j \in 1 .. n, i < j,
                      q[i].kind = b, q[j].kind = b
               PROVE  \E k \in 1 .. n : i < k /\ k < j /\ q[k].kind = e
    BY DEF Between
  <2>1. p[i].kind = b /\ p[j].kind = b
    OBVIOUS
  <2>2. PICK k \in 1 .. n : i < k /\ k < j /\ p[k].kind = e
    BY <2>1 DEF Between
  <2> QED  BY <2>2
<1> QED  BY <1>1, <1>2, AlternatesBetween

\* The paths behind a commit: the archives alternate, and the new main path
\* is between turns.
LEMMA CommitPaths ==
    ASSUME StoreOK, StoreOK', NEW c, c = Main, NEW s \in DOMAIN Path(c), OpensCompaction(Path(c), s),
           NEW a \in Nat \ {0}, NEW m \in Nat, a + m = s, Committed(c, s, a, m), Bracketed(Path(c)),
           Len(nodes[c]) = s + 1
    PROVE  /\ Main' = c + 1 /\ Conversations' = Conversations \cup {c + 1}
           /\ \A d \in Conversations : Alternates(Path(d)) => Alternates(Path(d)')
           /\ PathOK(Path(c + 1)') /\ ~HasOpenTurn(Path(c + 1)') /\ ~Compacting(Path(c + 1)')
<1> DEFINE id == nodes[c][s + 1]
           last == Len(entries) + 1
           n == Len(nodes[c])
<1>0. c \in Nat \ {0} /\ c \in Conversations /\ Conversations = 1 .. c
  BY LenProperties DEF StoreOK, NodesOK, Main, Conversations
<1>1. /\ id \in DOMAIN entries /\ entries[id].kind = "compaction"
      /\ \A i \in DOMAIN entries : i # id => entries'[i] = entries[i]
      /\ entries'[id].kind = "compaction"
      /\ entries'[last].kind = "finish"
      /\ Len(nodes') = c + 1
      /\ \A d \in 1 .. c - 1 : nodes'[d] = nodes[d]
      /\ Len(nodes'[c]) = n + 1 /\ nodes'[c][n + 1] = last
      /\ \A k \in 1 .. n : nodes'[c][k] = nodes[c][k]
      /\ Len(nodes'[c + 1]) = m + 1 /\ nodes'[c + 1][1] = id
      /\ \A k \in 1 .. m : nodes'[c + 1][k + 1] = nodes[c][a + k - 1]
  BY DEF Committed
<1>2. Main' = c + 1 /\ Conversations' = 1 .. c + 1 /\ 1 .. c + 1 = 1 .. c \cup {c + 1}
  <2>1. DOMAIN nodes' = 1 .. Len(nodes')
    BY LenProperties DEF StoreOK, NodesOK
  <2>2. Len(nodes') = c + 1
    BY <1>1
  <2>3. 1 .. c + 1 = 1 .. c \cup {c + 1}
    BY <1>0
  <2> QED  BY <2>1, <2>2, <2>3 DEF Main, Conversations
<1>3. \A d \in 1 .. c :
         /\ Len(nodes[d]) \in Nat /\ DOMAIN nodes[d] = 1 .. Len(nodes[d])
         /\ Len(Path(d)) = Len(nodes[d]) /\ DOMAIN Path(d) = 1 .. Len(nodes[d])
         /\ \A k \in 1 .. Len(nodes[d]) : nodes[d][k] \in DOMAIN entries /\ Path(d)[k] = entries[nodes[d][k]]
  BY <1>0, StoreIsShaped DEF PathsShaped
<1>4. \A d \in 1 .. c + 1 :
         /\ DOMAIN Path(d)' = 1 .. Len(nodes'[d]) /\ Len(Path(d)') = Len(nodes'[d])
         /\ \A k \in 1 .. Len(nodes'[d]) : Path(d)'[k] = entries'[nodes'[d][k]]
  BY <1>2, StoreIsShapedNext DEF PathsShaped
<1>5. \A i \in DOMAIN entries : entries'[i].kind = entries[i].kind
  BY <1>1
<1>a. c \in 1 .. c /\ c + 1 \in 1 .. c + 1 /\ (\A d \in 1 .. c : d = c \/ d \in 1 .. c - 1)
      /\ (\A d \in 1 .. c : d \in 1 .. c + 1)
  BY <1>0
<1> DEFINE p == Path(c)
<1>b. n \in Nat /\ DOMAIN p = 1 .. n /\ Len(p) = n
      /\ (\A k \in 1 .. n + 1 : k = n + 1 \/ k \in 1 .. n) /\ (\A k \in 1 .. n : k \in 1 .. n + 1 /\ k # n + 1)
      /\ n + 1 \in 1 .. n + 1
  <2>1. n \in Nat /\ DOMAIN p = 1 .. n /\ Len(p) = n
    BY <1>3, <1>a
  <2> HIDE DEF n, p
  <2> QED  BY <2>1
<1>6. ASSUME NEW d \in 1 .. c, Alternates(Path(d)) PROVE Alternates(Path(d)')
  <2>1. CASE d \in 1 .. c - 1
    <3>1. nodes'[d] = nodes[d]
      BY <2>1, <1>1
    <3>2. DOMAIN Path(d)' = DOMAIN Path(d)
      BY <3>1, <1>3, <1>4, <1>a
    <3>3. \A k \in DOMAIN Path(d) : Path(d)'[k].kind = Path(d)[k].kind
      <4> SUFFICES ASSUME NEW k \in 1 .. Len(nodes[d]) PROVE Path(d)'[k].kind = Path(d)[k].kind
        BY <1>3
      <4>1. nodes[d][k] \in DOMAIN entries /\ Path(d)[k] = entries[nodes[d][k]]
        BY <1>3
      <4>2. Path(d)'[k] = entries'[nodes[d][k]]
        <5>1. d \in 1 .. c + 1
          BY <1>a
        <5>2. \A i \in 1 .. Len(nodes'[d]) : Path(d)'[i] = entries'[nodes'[d][i]]
          BY <5>1, <1>4
        <5> QED  BY <5>2, <3>1
      <4>3. entries'[nodes[d][k]].kind = entries[nodes[d][k]].kind
        BY <4>1, <1>5
      <4> QED  BY <4>1, <4>2, <4>3
    <3>4. Len(nodes[d]) \in Nat /\ DOMAIN Path(d) = 1 .. Len(nodes[d])
      BY <1>3
    <3> QED  BY <3>2, <3>3, <3>4, <1>6, KindsAlternate
  <2>2. CASE d = c
    <3> DEFINE z == TurnFinish("completed")
               q == [k \in 1 .. n + 1 |-> IF k = n + 1 THEN z ELSE p[k]]
               P == Path(c)'
    <3>1. z.kind = "finish" /\ z = TurnFinish("completed")
      BY WrittenKinds
    <3>2. q \in Seq({p[k] : k \in 1 .. n} \cup {z}) /\ Len(q) = n + 1 /\ DOMAIN q = 1 .. n + 1
      <4>1. q \in [1 .. n + 1 -> {p[k] : k \in 1 .. n} \cup {z}]
        BY <1>b
      <4>2. n + 1 \in Nat
        BY <1>b
      <4> HIDE DEF q, n, p, z
      <4> QED  BY <4>1, <4>2, FunctionIsSeq
    <3>3. (\A k \in 1 .. n : q[k] = p[k]) /\ q[n + 1] = z
      BY <1>b
    <3> HIDE DEF q, z
    <3>4. Extends(p, q, TurnFinish("completed"))
      BY <3>1, <3>2, <3>3, <1>b DEF Extends
    <3>5. HasOpenTurn(p) /\ Alternates(p)
      BY <1>6, <2>2 DEF HasOpenTurn, OpensCompaction
    <3>6. Alternates(q)
      <4> HIDE DEF p
      <4> QED  BY <3>4, <3>5, FinishAlternates
    <3>7. DOMAIN P = 1 .. n + 1 /\ \A k \in 1 .. n + 1 : P[k].kind = q[k].kind
      <4>0. /\ DOMAIN P = 1 .. Len(nodes'[c])
            /\ \A k \in 1 .. Len(nodes'[c]) : P[k] = entries'[nodes'[c][k]]
        BY <1>4, <1>a
      <4>a. Len(nodes'[c]) = n + 1 /\ nodes'[c][n + 1] = last /\ entries'[last].kind = "finish"
            /\ \A k \in 1 .. n : nodes'[c][k] = nodes[c][k]
        BY <1>1
      <4>b. \A k \in 1 .. n : nodes[c][k] \in DOMAIN entries /\ p[k] = entries[nodes[c][k]]
        BY <1>3, <1>a
      <4> HIDE DEF P, p, n, last
      <4>1. DOMAIN P = 1 .. n + 1 /\ \A k \in 1 .. n + 1 : P[k] = entries'[nodes'[c][k]]
        BY <4>0, <4>a
      <4>2. P[n + 1].kind = "finish"
        BY <4>1, <4>a, <1>b
      <4>3. \A k \in 1 .. n : P[k].kind = p[k].kind
        <5> SUFFICES ASSUME NEW k \in 1 .. n PROVE P[k].kind = p[k].kind
          OBVIOUS
        <5>1. k \in 1 .. n + 1
          BY <1>b
        <5>2. P[k] = entries'[nodes[c][k]]
          BY <5>1, <4>1, <4>a
        <5>3. entries'[nodes[c][k]].kind = entries[nodes[c][k]].kind
          BY <4>b, <1>5
        <5> QED  BY <5>2, <5>3, <4>b
      <4> QED  BY <4>1, <4>2, <4>3, <1>b, <3>1, <3>3
    <3> HIDE DEF P, p
    <3>8. n + 1 \in Nat
      BY <1>b
    <3>9. Alternates(P)
      BY <3>2, <3>6, <3>7, <3>8, KindsAlternate
    <3> QED  BY <3>9, <2>2 DEF P
  <2> QED  BY <2>1, <2>2, <1>a
<1> DEFINE g == [k \in 1 .. m |-> p[a + k - 1]]
           Q == Path(c + 1)'
<1>7. g \in Seq({p[k] : k \in 1 .. n}) /\ Len(g) = m /\ DOMAIN g = 1 .. m
  <2>1. \A k \in 1 .. m : a + k - 1 \in 1 .. n
    BY <1>b
  <2>2. g \in [1 .. m -> {p[k] : k \in 1 .. n}]
    BY <2>1
  <2> HIDE DEF g, n, p
  <2> QED  BY <2>2, FunctionIsSeq
<1>8. IsSegment(g, m, p, a)
  <2>1. a + m - 1 <= n
    BY <1>b
  <2>2. \A k \in 1 .. m : g[k] = p[a + k - 1]
    OBVIOUS
  <2> HIDE DEF g, p, n
  <2> QED  BY <2>1, <2>2, <1>7, <1>b DEF IsSegment
<1>d. /\ Len(Q) = m + 1 /\ DOMAIN Q = 1 .. m + 1
      /\ \A k \in 1 .. m + 1 : Q[k] = entries'[nodes'[c + 1][k]]
  <2>1. /\ Len(Q) = Len(nodes'[c + 1]) /\ DOMAIN Q = 1 .. Len(nodes'[c + 1])
        /\ \A k \in 1 .. Len(nodes'[c + 1]) : Q[k] = entries'[nodes'[c + 1][k]]
    BY <1>4, <1>a
  <2>2. Len(nodes'[c + 1]) = m + 1
    BY <1>1
  <2> HIDE DEF Q
  <2> QED  BY <2>1, <2>2
<1>9. \A k \in 1 .. m : Q[k + 1] = g[k]
  <2> SUFFICES ASSUME NEW k \in 1 .. m PROVE Q[k + 1] = p[a + k - 1]
    OBVIOUS
  <2>1. k + 1 \in 1 .. m + 1 /\ a + k - 1 \in 1 .. n /\ a + k - 1 # s + 1 /\ s + 1 \in 1 .. n
    BY <1>b
  <2>2. Q[k + 1] = entries'[nodes'[c + 1][k + 1]]
    BY <2>1, <1>d
  <2>3. nodes'[c + 1][k + 1] = nodes[c][a + k - 1]
    BY <1>1
  <2>4. nodes[c][a + k - 1] # id
    <3>1. \A i, j \in 1 .. n : nodes[c][i] = nodes[c][j] => i = j
      <4>1. \A i, j \in DOMAIN nodes[c] : nodes[c][i] = nodes[c][j] => i = j
        BY <1>0 DEF StoreOK, NodesOK
      <4>2. DOMAIN nodes[c] = 1 .. n
        BY <1>3, <1>a
      <4> QED  BY <4>1, <4>2
    <3> QED  BY <2>1, <3>1
  <2>5. \A i \in 1 .. n : nodes[c][i] \in DOMAIN entries /\ p[i] = entries[nodes[c][i]]
    BY <1>3, <1>a
  <2>6. nodes[c][a + k - 1] \in DOMAIN entries /\ p[a + k - 1] = entries[nodes[c][a + k - 1]]
    BY <2>1, <2>5
  <2>7. entries'[nodes[c][a + k - 1]] = entries[nodes[c][a + k - 1]]
    BY <2>4, <2>6, <1>1
  <2> QED  BY <2>2, <2>3, <2>6, <2>7
<1>10. Fronted(Q, g, m)
  <2>1. 1 \in 1 .. m + 1
    OBVIOUS
  <2>2. Q[1].kind = "compaction"
    <3>1. Q[1] = entries'[nodes'[c + 1][1]]
      BY <2>1, <1>d
    <3> QED  BY <3>1, <1>1
  <2> HIDE DEF Q, g
  <2> QED  BY <2>2, <1>d, <1>7, <1>9 DEF Fronted
<1>11. Alternates(p) /\ CompactionsAreMute(p) /\ IsOpenTurn(p, s)
  BY DEF Bracketed, OpensCompaction
<1> HIDE DEF p, g, Q
<1>12. Alternates(g) /\ CompactionsAreMute(g)
  BY <1>8, <1>11, SegmentBracketed
<1>13. ~HasOpenTurn(g)
  <2>1. s \in DOMAIN p
    BY DEF p
  <2> QED  BY <2>1, <1>8, <1>11, ClosedBefore
<1>14. PathOK(Q) /\ ~HasOpenTurn(Q) /\ ~Compacting(Q)
  BY <1>10, <1>12, <1>13, FrontedIsOK
<1> QED  BY <1>0, <1>2, <1>6, <1>14 DEF Q

-----------------------------------------------------------------------------
(* What the compactions account for.                                       *)

\* Conversation c was replaced by a compaction, not by a rewind.
Folded(c) ==
    /\ nodes[c + 1] # <<>>
    /\ entries[nodes[c + 1][1]].kind = "compaction"
    /\ nodes[c + 1][1] # nodes[c][1]

\* Its successor's first entry is the one of its bracket, with its summary, and
\* accounts for what was before the bracket.
Accounted(c) ==
    LET next == nodes[c + 1]
        x == entries[next[1]]
        carried == {next[k] : k \in DOMAIN next}
    IN  /\ x.summary = TRUE
        /\ x.folded \cap carried = {}
        /\ \E s \in DOMAIN nodes[c] :
              /\ s + 1 \in DOMAIN nodes[c] /\ nodes[c][s + 1] = next[1]
              /\ {nodes[c][k] : k \in 1 .. s - 1} \subseteq x.folded \cup carried

FoldsOK == \A c \in Conversations \ {Main} : Folded(c) => Accounted(c)

\* What is accounted for is what FoldedOrCarried says.
LEMMA FoldsAreFoldedOrCarried == NodesOK /\ FoldsOK => FoldedOrCarried
<1> SUFFICES ASSUME NodesOK, FoldsOK, NEW c \in Conversations \ {Main}, Folded(c)
             PROVE  LET next == nodes[c + 1]
                        s == CHOOSE k \in DOMAIN nodes[c] :
                                k + 1 \in DOMAIN nodes[c] /\ nodes[c][k + 1] = next[1]
                        carried == {next[k] : k \in DOMAIN next}
                        folded == entries[next[1]].folded
                    IN  /\ folded \cap carried = {}
                        /\ {nodes[c][k] : k \in 1 .. s - 1} \subseteq folded \cup carried
  BY Zenon DEF FoldedOrCarried, Folded
<1> DEFINE next == nodes[c + 1]
           at(k) == k \in DOMAIN nodes[c] /\ k + 1 \in DOMAIN nodes[c] /\ nodes[c][k + 1] = next[1]
           t == CHOOSE k \in DOMAIN nodes[c] : k + 1 \in DOMAIN nodes[c] /\ nodes[c][k + 1] = next[1]
           carried == {next[k] : k \in DOMAIN next}
           folded == entries[next[1]].folded
<1>1. Accounted(c)
  BY DEF FoldsOK
<1>2. PICK s \in DOMAIN nodes[c] : at(s) /\ {nodes[c][k] : k \in 1 .. s - 1} \subseteq folded \cup carried
  BY <1>1 DEF Accounted
<1>3. at(t)
  BY <1>2
<1>4. t = s
  <2>1. \A k, l \in DOMAIN nodes[c] : nodes[c][k] = nodes[c][l] => k = l
    BY DEF NodesOK
  <2>2. nodes[c] \in Seq(Nat)
    BY LenProperties, ElementOfSeq DEF NodesOK, Conversations
  <2>3. \A k \in DOMAIN nodes[c] : k \in Nat
    BY <2>2, LenProperties
  <2> HIDE DEF t
  <2>4. t + 1 = s + 1
    BY <1>2, <1>3, <2>1
  <2> QED  BY <2>3, <2>4, <1>2, <1>3
<1>5. folded \cap carried = {}
  BY <1>1 DEF Accounted
<1> QED  BY <1>2, <1>4, <1>5

\* An entry behind the main path's nodes leaves the accounts as they are.
LEMMA FoldsGrow ==
    ASSUME StoreOK, StoreOK', FoldsOK, NEW c, c = Main, Grown(c)
    PROVE  FoldsOK'
<1>0. c \in Nat \ {0} /\ Conversations = 1 .. c /\ c \in Conversations
  BY LenProperties DEF StoreOK, NodesOK, Main, Conversations
<1>1. Main' = c /\ Conversations' = 1 .. c
  <2>1. DOMAIN nodes' = 1 .. Len(nodes')
    BY LenProperties DEF StoreOK, NodesOK
  <2> QED  BY <2>1, <1>0 DEF Grown, OthersKept, Main, Conversations
<1> SUFFICES ASSUME NEW d \in 1 .. c \ {c}, Folded(d)' PROVE Accounted(d)'
  BY <1>1 DEF FoldsOK
<1>2. d \in Conversations \ {c} /\ d + 1 \in Conversations
  BY <1>0
<1>3. nodes'[d] = nodes[d]
  BY <1>2 DEF Grown, OthersKept
<1>4. /\ DOMAIN nodes[d + 1] = 1 .. Len(nodes[d + 1]) /\ Len(nodes[d + 1]) \in Nat
      /\ \A k \in DOMAIN nodes[d + 1] : nodes[d + 1][k] \in DOMAIN entries
      /\ nodes[d + 1] \in Seq(Nat)
  <2>1. nodes[d + 1] \in Seq(Nat)
    BY <1>2, PathIs
  <2> QED  BY <2>1, <1>2, StoreIsShaped DEF PathsShaped
<1>a. nodes[d + 1] # <<>> => 1 \in DOMAIN nodes[d + 1]
  <2>1. nodes[d + 1] # <<>> => Len(nodes[d + 1]) \in Nat \ {0}
    BY <1>4, EmptySeq
  <2> QED  BY <2>1, <1>4
<1>5. nodes[d + 1] # <<>> /\ nodes'[d + 1][1] = nodes[d + 1][1]
  <2>1. CASE d + 1 = c
    <3>1. nodes[c] # <<>>
      BY <2>1 DEF Folded, Grown
    <3>2. 1 \in 1 .. Len(nodes[c])
      BY <3>1, <2>1, <1>4, <1>a
    <3> QED  BY <3>1, <3>2, <2>1 DEF Grown
  <2>2. CASE d + 1 # c
    <3>1. nodes'[d + 1] = nodes[d + 1]
      BY <2>2, <1>2 DEF Grown, OthersKept
    <3> QED  BY <3>1 DEF Folded
  <2> QED  BY <2>1, <2>2
<1>6. nodes[d + 1][1] \in DOMAIN entries /\ entries'[nodes[d + 1][1]] = entries[nodes[d + 1][1]]
  BY <1>4, <1>5, <1>a DEF Grown, OthersKept
<1>7. Folded(d)
  BY <1>3, <1>5, <1>6 DEF Folded
<1>8. Accounted(d)
  BY <1>2, <1>7 DEF FoldsOK
<1> DEFINE x == entries[nodes[d + 1][1]]
           old == {nodes[d + 1][k] : k \in DOMAIN nodes[d + 1]}
           new == {nodes'[d + 1][k] : k \in DOMAIN nodes'[d + 1]}
<1>9. x.folded \subseteq DOMAIN entries
  BY <1>6, <1>7 DEF StoreOK, EntriesOK, Folded
<1>10. old \subseteq new /\ \A i \in new : i \in old \/ i \notin DOMAIN entries
  <2>1. CASE d + 1 = c
    <3>1. DOMAIN nodes'[c] = 1 .. Len(nodes'[c]) /\ Len(nodes'[c]) \in Nat
      BY <1>0, <1>1, StoreIsShapedNext DEF PathsShaped
    <3>2. DOMAIN nodes[c] \subseteq DOMAIN nodes'[c]
      BY <3>1, <2>1, <1>4 DEF Grown
    <3>3. \A k \in DOMAIN nodes[c] : nodes'[c][k] = nodes[c][k]
      BY <2>1, <1>4 DEF Grown
    <3>4. \A k \in DOMAIN nodes'[c] \ DOMAIN nodes[c] : nodes'[c][k] \notin DOMAIN entries
      BY DEF Grown
    <3> QED  BY <3>2, <3>3, <3>4, <2>1
  <2>2. CASE d + 1 # c
    BY <2>2, <1>2 DEF Grown, OthersKept
  <2> QED  BY <2>1, <2>2
<1>11. x.summary = TRUE /\ x.folded \cap old = {}
  BY <1>8 DEF Accounted
<1>12. PICK s \in DOMAIN nodes[d] :
          /\ s + 1 \in DOMAIN nodes[d] /\ nodes[d][s + 1] = nodes[d + 1][1]
          /\ {nodes[d][k] : k \in 1 .. s - 1} \subseteq x.folded \cup old
  BY <1>8 DEF Accounted
<1> HIDE DEF old, new
<1>13. x.folded \cap new = {} /\ {nodes[d][k] : k \in 1 .. s - 1} \subseteq x.folded \cup new
  BY <1>9, <1>10, <1>11, <1>12
<1>14. entries'[nodes'[d + 1][1]] = x
  BY <1>5, <1>6
<1> QED  BY <1>3, <1>5, <1>11, <1>12, <1>13, <1>14 DEF Accounted, new

\* A rewind is no compaction.
LEMMA FoldsRewind ==
    ASSUME StoreOK, FoldsOK, NEW c, c = Main, Main' = c + 1, Conversations' = Conversations \cup {c + 1},
           \A d \in Conversations : nodes'[d] = nodes[d], entries' = entries,
           nodes'[c + 1] # <<>> => nodes'[c + 1][1] = nodes[c][1]
    PROVE  FoldsOK'
<1>0. c \in Nat \ {0} /\ Conversations = 1 .. c
  BY LenProperties DEF StoreOK, NodesOK, Main, Conversations
<1> SUFFICES ASSUME NEW d \in 1 .. c, Folded(d)' PROVE Accounted(d)'
  BY <1>0 DEF FoldsOK
<1>1. nodes'[d] = nodes[d]
  BY <1>0
<1>2. d # c
  BY <1>0 DEF Folded
<1>3. nodes'[d + 1] = nodes[d + 1] /\ d \in Conversations \ {Main}
  BY <1>0, <1>2
<1>4. Folded(d)
  BY <1>1, <1>3 DEF Folded
<1>5. Accounted(d)
  BY <1>3, <1>4 DEF FoldsOK
<1> QED  BY <1>1, <1>3, <1>5 DEF Accounted

\* A commit accounts for what it replaced, and touches no other's account: no
\* account is the entry of an open bracket, which has no summary.
LEMMA FoldsCommit ==
    ASSUME StoreOK, StoreOK', FoldsOK, NEW c, c = Main, NEW s \in DOMAIN Path(c),
           OpensCompaction(Path(c), s), Bracketed(Path(c)),
           NEW a \in Nat \ {0}, NEW m \in Nat, a + m = s, Committed(c, s, a, m)
    PROVE  FoldsOK'
<1> DEFINE id == nodes[c][s + 1]
           n == Len(nodes[c])
           last == Len(entries) + 1
<1>0. c \in Nat \ {0} /\ Conversations = 1 .. c /\ c \in Conversations
  BY LenProperties DEF StoreOK, NodesOK, Main, Conversations
<1>a. Len(entries) \in Nat /\ DOMAIN entries = 1 .. Len(entries)
  BY LenProperties DEF StoreOK, EntriesOK
<1>1. /\ id \in DOMAIN entries /\ entries[id].kind = "compaction"
      /\ \A i \in DOMAIN entries : i # id => entries'[i] = entries[i]
      /\ entries'[id].kind = "compaction" /\ entries'[id].summary = TRUE
      /\ entries'[id].folded = {nodes[c][k] : k \in 1 .. s - 1}
                                  \ ({id} \cup {nodes[c][a + k - 1] : k \in 1 .. m})
      /\ Len(nodes') = c + 1
      /\ \A d \in 1 .. c - 1 : nodes'[d] = nodes[d]
      /\ Len(nodes'[c]) = n + 1 /\ nodes'[c][n + 1] = last
      /\ \A k \in 1 .. n : nodes'[c][k] = nodes[c][k]
      /\ Len(nodes'[c + 1]) = m + 1 /\ nodes'[c + 1][1] = id
      /\ \A k \in 1 .. m : nodes'[c + 1][k + 1] = nodes[c][a + k - 1]
  BY DEF Committed
<1>2. Main' = c + 1 /\ Conversations' = 1 .. c + 1 /\ 1 .. c + 1 = 1 .. c \cup {c + 1}
  <2>1. DOMAIN nodes' = 1 .. Len(nodes')
    BY LenProperties DEF StoreOK, NodesOK
  <2>2. Len(nodes') = c + 1
    BY <1>1
  <2>3. 1 .. c + 1 = 1 .. c \cup {c + 1}
    BY <1>0
  <2> QED  BY <2>1, <2>2, <2>3 DEF Main, Conversations
<1>3. \A d \in 1 .. c :
         /\ Len(nodes[d]) \in Nat /\ DOMAIN nodes[d] = 1 .. Len(nodes[d])
         /\ Len(Path(d)) = Len(nodes[d]) /\ DOMAIN Path(d) = 1 .. Len(nodes[d])
         /\ \A k \in 1 .. Len(nodes[d]) : nodes[d][k] \in DOMAIN entries /\ Path(d)[k] = entries[nodes[d][k]]
  BY <1>0, StoreIsShaped DEF PathsShaped
<1>4. \A d \in 1 .. c + 1 : DOMAIN nodes'[d] = 1 .. Len(nodes'[d])
  BY <1>2, StoreIsShapedNext DEF PathsShaped
<1>b. c \in 1 .. c /\ c + 1 \in 1 .. c + 1
  BY <1>0
<1>c. s \in 1 .. n /\ s + 1 \in 1 .. n /\ n \in Nat
  BY <1>3, <1>b DEF OpensCompaction, IsCompactionBracket
<1>5. entries[id].summary = FALSE
  <2>1. Path(c)[s + 1].summary = FALSE
    BY DEF Bracketed, OpenCompactionIsBare
  <2> QED  BY <2>1, <1>3, <1>b, <1>c
<1> SUFFICES ASSUME NEW d \in 1 .. c, Folded(d)' PROVE Accounted(d)'
  BY <1>2 DEF FoldsOK
<1>6. CASE d = c
  <2> DEFINE next == nodes'[c + 1]
             carried == {next[k] : k \in DOMAIN next}
             kept == {nodes[c][a + k - 1] : k \in 1 .. m}
             before == {nodes[c][k] : k \in 1 .. s - 1}
  <2>1. carried = {id} \cup kept
    <3>1. DOMAIN next = 1 .. m + 1
      BY <1>1, <1>4, <1>b
    <3>2. \A k \in 1 .. m + 1 : k = 1 \/ (k - 1 \in 1 .. m /\ (k - 1) + 1 = k)
      OBVIOUS
    <3>3. 1 \in 1 .. m + 1 /\ \A k \in 1 .. m : k + 1 \in 1 .. m + 1
      OBVIOUS
    <3>4. next[1] = id /\ \A k \in 1 .. m : next[k + 1] = nodes[c][a + k - 1]
      BY <1>1
    <3> HIDE DEF next, id
    <3>5. \A i \in carried : i \in {id} \cup kept
      <4> SUFFICES ASSUME NEW k \in 1 .. m + 1 PROVE next[k] \in {id} \cup kept
        BY <3>1
      <4>1. CASE k = 1
        BY <4>1, <3>4
      <4>2. CASE k - 1 \in 1 .. m /\ (k - 1) + 1 = k
        <5>1. next[(k - 1) + 1] = nodes[c][a + (k - 1) - 1]
          BY <4>2, <3>4
        <5> QED  BY <5>1, <4>2
      <4> QED  BY <4>1, <4>2, <3>2
    <3>6. \A i \in {id} \cup kept : i \in carried
      <4>1. id \in carried
        BY <3>1, <3>3, <3>4
      <4>2. \A k \in 1 .. m : nodes[c][a + k - 1] \in carried
        <5> SUFFICES ASSUME NEW k \in 1 .. m PROVE nodes[c][a + k - 1] \in carried
          OBVIOUS
        <5>1. k + 1 \in DOMAIN next /\ next[k + 1] = nodes[c][a + k - 1]
          BY <3>1, <3>3, <3>4
        <5> QED  BY <5>1
      <4> QED  BY <4>1, <4>2
    <3> HIDE DEF carried, kept
    <3> QED  BY <3>5, <3>6
  <2>2. entries'[id].folded = before \ ({id} \cup kept)
    BY <1>1
  <2>3. next[1] = id
    BY <1>1
  <2>4. /\ DOMAIN nodes'[c] = 1 .. n + 1 /\ s \in 1 .. n + 1 /\ s + 1 \in 1 .. n + 1
        /\ nodes'[c][s + 1] = id
    <3>1. DOMAIN nodes'[c] = 1 .. Len(nodes'[c]) /\ Len(nodes'[c]) = n + 1
      BY <1>1, <1>4, <1>b
    <3>2. nodes'[c][s + 1] = nodes[c][s + 1]
      BY <1>1, <1>c
    <3> HIDE DEF n
    <3>3. s \in 1 .. n + 1 /\ s + 1 \in 1 .. n + 1
      BY <1>c
    <3> QED  BY <3>1, <3>2, <3>3
  <2>5. {nodes'[c][k] : k \in 1 .. s - 1} = before
    <3>1. \A k \in 1 .. s - 1 : k \in 1 .. n
      BY <1>c
    <3>2. \A k \in 1 .. s - 1 : nodes'[c][k] = nodes[c][k]
      BY <3>1, <1>1
    <3> QED  BY <3>2
  <2> HIDE DEF carried, kept, before, next, id
  <2>6. entries'[id].folded \cap carried = {} /\ before \subseteq entries'[id].folded \cup carried
    BY <2>1, <2>2
  <2>7. entries'[id].summary = TRUE
    BY <1>1 DEF id
  <2> QED  BY SMTT(30), <1>6, <2>3, <2>4, <2>5, <2>6, <2>7 DEF Accounted, carried, next
<1>7. CASE d # c
  <2>1. d \in 1 .. c - 1 /\ d \in Conversations \ {Main} /\ nodes'[d] = nodes[d] /\ d + 1 \in 1 .. c
    BY SMTT(30), <1>0, <1>1, <1>7
  <2>2. /\ nodes[d + 1] # <<>> => 1 \in DOMAIN nodes[d + 1]
        /\ DOMAIN nodes[d + 1] = 1 .. Len(nodes[d + 1])
    <3>1. nodes[d + 1] \in Seq(Nat) /\ Len(nodes[d + 1]) \in Nat /\ DOMAIN nodes[d + 1] = 1 .. Len(nodes[d + 1])
      BY <2>1, <1>0, PathIs
    <3>2. nodes[d + 1] # <<>> => Len(nodes[d + 1]) \in Nat \ {0}
      BY <3>1, EmptySeq
    <3> QED  BY <3>1, <3>2
  <2>3. \/ d + 1 = c
        \/ d + 1 \in 1 .. c - 1 /\ nodes'[d + 1] = nodes[d + 1]
    BY <2>1, <1>0, <1>1
  <2>4. nodes[d + 1] # <<>> /\ nodes'[d + 1][1] = nodes[d + 1][1]
    <3>1. CASE d + 1 = c
      <4>1. 1 \in 1 .. n
        BY <1>c
      <4>2. nodes[c] # <<>>
        <5>1. nodes[c] = <<>> => n = 0
          BY EmptySeq
        <5> QED  BY <5>1, <1>c
      <4> QED  BY SMTT(30), <4>1, <4>2, <3>1, <1>1
    <3>2. CASE d + 1 \in 1 .. c - 1 /\ nodes'[d + 1] = nodes[d + 1]
      BY <3>2 DEF Folded
    <3> QED  BY <2>3, <3>1, <3>2
  <2> DEFINE f == nodes[d + 1][1]
  <2>5. f \in DOMAIN entries
    BY <2>1, <2>2, <2>4, <1>3
  <2>6. entries'[f].kind = entries[f].kind
    BY ZenonT(40), <2>5, <1>1
  <2>7. Folded(d)
    BY <2>1, <2>4, <2>6 DEF Folded
  <2>8. Accounted(d)
    BY <2>1, <2>7 DEF FoldsOK
  <2>9. f # id
    BY <2>8, <1>5 DEF Accounted
  <2>10. entries'[f] = entries[f]
    BY <2>5, <2>9, <1>1
  <2> DEFINE old == {nodes[d + 1][k] : k \in DOMAIN nodes[d + 1]}
             new == {nodes'[d + 1][k] : k \in DOMAIN nodes'[d + 1]}
  <2>11. entries[f].folded \subseteq DOMAIN entries
    BY <2>5, <2>7 DEF StoreOK, EntriesOK, Folded
  <2>12. old \subseteq new /\ \A i \in new : i \in old \/ i \notin DOMAIN entries
    <3>1. CASE d + 1 = c
      <4>1. DOMAIN nodes[c] = 1 .. n /\ DOMAIN nodes'[c] = 1 .. n + 1
            /\ (\A k \in 1 .. n : k \in 1 .. n + 1) /\ (\A k \in 1 .. n + 1 : k \in 1 .. n \/ k = n + 1)
        <5>1. DOMAIN nodes[c] = 1 .. n
          BY <1>3, <1>b
        <5>2. DOMAIN nodes'[c] = 1 .. Len(nodes'[c]) /\ Len(nodes'[c]) = n + 1
          BY <1>1, <1>4, <1>b
        <5> HIDE DEF n
        <5>3. (\A k \in 1 .. n : k \in 1 .. n + 1) /\ (\A k \in 1 .. n + 1 : k \in 1 .. n \/ k = n + 1)
          BY <1>c
        <5> QED  BY <5>1, <5>2, <5>3
      <4>2. last \notin DOMAIN entries
        BY <1>a
      <4>3. nodes'[c][n + 1] = last /\ \A k \in 1 .. n : nodes'[c][k] = nodes[c][k]
        BY <1>1
      <4> HIDE DEF n, last
      <4> QED  BY <4>1, <4>2, <4>3, <3>1
    <3>2. CASE d + 1 \in 1 .. c - 1 /\ nodes'[d + 1] = nodes[d + 1]
      BY <3>2
    <3> QED  BY <2>3, <3>1, <3>2
  <2>13. entries[f].summary = TRUE /\ entries[f].folded \cap old = {}
    BY <2>8 DEF Accounted
  <2>14. PICK t \in DOMAIN nodes[d] :
            /\ t + 1 \in DOMAIN nodes[d] /\ nodes[d][t + 1] = f
            /\ {nodes[d][k] : k \in 1 .. t - 1} \subseteq entries[f].folded \cup old
    BY <2>8 DEF Accounted
  <2> HIDE DEF old, new
  <2>15. /\ entries[f].folded \cap new = {}
         /\ {nodes[d][k] : k \in 1 .. t - 1} \subseteq entries[f].folded \cup new
    BY <2>11, <2>12, <2>13, <2>14
  <2> QED  BY <2>1, <2>4, <2>10, <2>13, <2>14, <2>15 DEF Accounted, new
<1> QED  BY <1>6, <1>7

-----------------------------------------------------------------------------
(* The inductive invariant.                                                *)

\* The types of what is not a store.
DrivesTyped ==
    /\ registry \in [Slots -> Runs \cup {NoRun}]
    /\ didRun \subseteq Slots /\ cancelled \subseteq Slots
    /\ pc \in [Runs -> Waiting \cup {"skipped", "turn"}]
    /\ cid \in [Runs -> Slots]
    /\ token \in [Runs -> BOOLEAN]
    /\ plan \in [Runs -> {"none", "plan", "nothing", "raised", "invalid", "drive", "raise"}]
    /\ seen \in [Runs -> Nat]

\* The store, with every path bracketed and every compaction accounted for.
PathsOK ==
    /\ StoreOK /\ FoldsOK
    /\ \A c \in Conversations : Alternates(Path(c))
    /\ \A c \in Conversations : c = Main => PathOK(Path(c))

\* Every successor was paid for by a rewind or by a compaction's bracket, and
\* an open bracket still has its successor to come.
Brackets == counters.rewinds + counters.schedules + counters.brackets

\* The bounds pay for every conversation there is, so that it has a slot.
Budget ==
    /\ {counters.rewinds, counters.schedules, counters.brackets} \subseteq Nat
    /\ counters.rewinds <= MaxRewinds /\ counters.schedules <= MaxSchedules
    /\ counters.brackets <= MaxBrackets
    /\ counters \in [{"posts", "cancels", "schedules", "rewinds", "faults", "begins", "brackets"} -> Nat]
    /\ Main <= 1 + Brackets
    /\ \A c \in Conversations : c = Main /\ Compacting(Path(c)) => Main <= Brackets

\* One drive at a time.
OneDrive == \A r, t \in Runs : pc[r] # "off" /\ pc[t] # "off" => r = t

\* The drive of r works on c, the main conversation, whose path is p.
At(r, c, p) ==
    /\ registry[c] = r /\ cid[r] = c
    /\ pc[r] = "begun" => c \notin didRun /\ c \notin cancelled /\ (HasOpenTurn(p) \/ Owed(p))
    /\ pc[r] \in {"started", "compact", "planned"} => c \in didRun /\ c \notin cancelled /\ Compacting(p)
    /\ pc[r] = "skipped" => /\ c \notin didRun /\ c \notin cancelled /\ plan[r] = "drive"
                            /\ ~Compacting(p) /\ (HasOpenTurn(p) \/ Owed(p))
    /\ pc[r] = "finished" => /\ plan[r] \in {"drive", "raise"} /\ ~HasOpenTurn(p)
                             /\ plan[r] = "drive" => c \in didRun \cup cancelled
    /\ pc[r] \in {"turn", "llm"} => HasOpenTurn(p) /\ ~Compacting(p)
    /\ pc[r] = "llm" => /\ SeenBy(p, seen[r]) /\ HasInput(p)
                        /\ CancelIsPending(p) => token[r] = TRUE

\* The drive of r has replaced its conversation, and has yet to follow it to c.
Behind(r, c, p) ==
    /\ pc[r] = "finished" /\ plan[r] = "drive"
    /\ cid[r] < c /\ cid[r] \in didRun /\ cid[r] \notin cancelled
    /\ ~HasOpenTurn(p)

\* A drive is in the one place or in the other.
DrivesOK ==
    \A r \in Runs, c \in Conversations :
        pc[r] # "off" /\ c = Main => At(r, c, Path(c)) \/ Behind(r, c, Path(c))

CompactionInv == DrivesTyped /\ PathsOK /\ Budget /\ OneDrive /\ DrivesOK

-----------------------------------------------------------------------------
(* The writes, as the steps make them.                                     *)

\* What a write leaves: the store is sound and no conversation but c changed.
Wrote(c) ==
    /\ StoreOK' /\ FoldsOK' /\ Main' = c /\ Conversations' = Conversations
    /\ \A d \in Conversations \ {c} : Path(d)' = Path(d)
    /\ \A d \in Conversations \ {c} : nodes'[d] = nodes[d]

\* Entries are appended to the main conversation.
LEMMA Writes ==
    ASSUME StoreOK, FoldsOK, NEW c, c = Main, NEW new \in Seq(Items), AppendAll(c, new),
           \A k \in 1 .. Len(new) : new[k].kind = "compaction" => new[k].folded = {},
           new # <<>> => new[1].kind # "compaction"
    PROVE  /\ Wrote(c)
           /\ Len(Path(c)) \in Nat /\ DOMAIN Path(c) = 1 .. Len(Path(c))
           /\ Len(Path(c)') = Len(Path(c)) + Len(new)
           /\ DOMAIN Path(c)' = 1 .. Len(Path(c)) + Len(new)
           /\ \A k \in 1 .. Len(Path(c)) : Path(c)'[k] = Path(c)[k]
           /\ \A k \in 1 .. Len(new) : Path(c)'[Len(Path(c)) + k] = new[k]
<1>1. c \in Conversations /\ Len(nodes) = c
  BY LenProperties DEF StoreOK, NodesOK, Main, Conversations
<1>2. /\ StoreOK' /\ Grown(c)
      /\ Len(Path(c)') = Len(Path(c)) + Len(new)
      /\ DOMAIN Path(c)' = 1 .. Len(Path(c)) + Len(new)
      /\ \A k \in 1 .. Len(Path(c)) : Path(c)'[k] = Path(c)[k]
      /\ \A k \in 1 .. Len(new) : Path(c)'[Len(Path(c)) + k] = new[k]
      /\ \A d \in Conversations \ {c} : Path(d)' = Path(d)
  BY <1>1, Appends
<1>3. FoldsOK'
  BY <1>2, FoldsGrow
<1>4. Main' = c /\ Conversations' = Conversations
      /\ \A d \in Conversations \ {c} : nodes'[d] = nodes[d]
  <2>1. Len(nodes') = Len(nodes) /\ \A d \in Conversations \ {c} : nodes'[d] = nodes[d]
    BY <1>2 DEF Grown, OthersKept
  <2>2. nodes \in Seq(Seq(Nat)) /\ nodes' \in Seq(Seq(Nat))
    BY <1>2 DEF StoreOK, NodesOK
  <2>3. DOMAIN nodes = 1 .. Len(nodes) /\ DOMAIN nodes' = 1 .. Len(nodes')
    BY <2>2, LenProperties
  <2> QED  BY <2>1, <2>3, <1>1 DEF Main, Conversations
<1>5. Len(Path(c)) \in Nat /\ DOMAIN Path(c) = 1 .. Len(Path(c))
  BY <1>1, PathIs
<1> QED  BY <1>2, <1>3, <1>4, <1>5 DEF Wrote

\* One entry is.
LEMMA WritesOne ==
    ASSUME StoreOK, FoldsOK, NEW c, c = Main, NEW x \in Items, x.kind # "compaction",
           AppendAll(c, <<x>>)
    PROVE  Wrote(c) /\ Extends(Path(c), Path(c)', x)
<1> DEFINE new == <<x>>
           p == Path(c)
           q == Path(c)'
           n == Len(p)
<1>1. new \in Seq(Items) /\ Len(new) = 1 /\ new[1] = x /\ AppendAll(c, new)
  OBVIOUS
<1> HIDE DEF new
<1>2. \A k \in 1 .. Len(new) : new[k].kind = "compaction" => new[k].folded = {}
  BY <1>1
<1>3. new # <<>> => new[1].kind # "compaction"
  BY <1>1
<1>4. /\ Wrote(c)
      /\ n \in Nat /\ DOMAIN p = 1 .. n
      /\ Len(q) = n + Len(new) /\ DOMAIN q = 1 .. n + Len(new)
      /\ \A k \in 1 .. n : q[k] = p[k]
      /\ \A k \in 1 .. Len(new) : q[n + k] = new[k]
  BY <1>1, <1>2, <1>3, Writes
<1>5. Len(q) = n + 1 /\ DOMAIN q = 1 .. n + 1 /\ q[n + 1] = x
  BY <1>1, <1>4
<1> QED  BY <1>4, <1>5 DEF Extends

\* Two entries are: the path in between has the first of them.
LEMMA WritesTwo ==
    ASSUME StoreOK, FoldsOK, NEW c, c = Main, NEW x \in Items, NEW y \in Items,
           x.kind # "compaction", y.kind = "compaction" => y.folded = {},
           AppendAll(c, <<x, y>>)
    PROVE  Wrote(c) /\ \E m : Extends(Path(c), m, x) /\ Extends(m, Path(c)', y)
<1> DEFINE new == <<x, y>>
           p == Path(c)
           q == Path(c)'
           n == Len(p)
           m == [k \in 1 .. n + 1 |-> q[k]]
<1>1. new \in Seq(Items) /\ Len(new) = 2 /\ new[1] = x /\ new[2] = y /\ AppendAll(c, new)
  OBVIOUS
<1> HIDE DEF new
<1>2. \A k \in 1 .. Len(new) : new[k].kind = "compaction" => new[k].folded = {}
  BY <1>1
<1>3. new # <<>> => new[1].kind # "compaction"
  BY <1>1
<1>4. /\ Wrote(c)
      /\ n \in Nat /\ DOMAIN p = 1 .. n
      /\ Len(q) = n + Len(new) /\ DOMAIN q = 1 .. n + Len(new)
      /\ \A k \in 1 .. n : q[k] = p[k]
      /\ \A k \in 1 .. Len(new) : q[n + k] = new[k]
  BY ZenonT(40), <1>1, <1>2, <1>3, Writes
<1>5. Len(q) = n + 2 /\ DOMAIN q = 1 .. n + 2 /\ q[n + 1] = x /\ q[n + 2] = y
  BY <1>1, <1>4
<1>6. DOMAIN m = 1 .. n + 1 /\ \A k \in 1 .. n + 1 : m[k] = q[k]
  OBVIOUS
<1>7. Len(m) = n + 1
  <2>1. m \in [1 .. n + 1 -> {q[k] : k \in 1 .. n + 1}] /\ n + 1 \in Nat
    BY <1>4
  <2> HIDE DEF m, n, q
  <2> QED  BY <2>1, FunctionIsSeq
<1>8. n = Len(p)
  OBVIOUS
<1> HIDE DEF m, n, p, q
<1>9. Extends(p, m, x)
  BY <1>4, <1>5, <1>6, <1>7, <1>8 DEF Extends
<1>10. Extends(m, q, y)
  BY <1>4, <1>5, <1>6, <1>7 DEF Extends
<1> QED  BY <1>4, <1>9, <1>10 DEF p, q

\* Nothing is.
LEMMA WritesNothing ==
    ASSUME StoreOK, NEW c, c = Main, AppendAll(c, <<>>)
    PROVE  entries' = entries /\ nodes' = nodes
<1>1. entries \in Seq(Items) /\ nodes \in Seq(Seq(Nat)) /\ c \in DOMAIN nodes
  BY LenProperties DEF StoreOK, EntriesOK, NodesOK, Main
<1>2. entries \o <<>> = entries
  BY <1>1, ConcatEmptySeq
<1>3. nodes[c] \in Seq(Nat)
  BY <1>1, ElementOfSeq, LenProperties
<1>4. nodes[c] \o <<>> = nodes[c]
  BY <1>3, ConcatEmptySeq
<1>5. [k \in 1 .. Len(<<>>) |-> Len(entries) + k] = <<>>
  OBVIOUS
<1>6. nodes' = [nodes EXCEPT ![c] = @ \o <<>>]
  BY <1>5 DEF AppendAll
<1>7. nodes' = [nodes EXCEPT ![c] = nodes[c]]
  BY <1>1, <1>4, <1>6
<1>8. nodes' = nodes
  <2>1. DOMAIN nodes = 1 .. Len(nodes) /\ nodes = [d \in DOMAIN nodes |-> nodes[d]]
    BY <1>1
  <2> QED  BY <1>7, <2>1
<1> QED  BY <1>2, <1>8 DEF AppendAll

\* The paths after a write to the main conversation.
LEMMA PathsAfterWrite ==
    ASSUME PathsOK, NEW c, c = Main, Wrote(c), PathOK(Path(c)')
    PROVE  PathsOK'
<1>1. \A d \in Conversations : Alternates(Path(d))
  BY DEF PathsOK
<1>2. \A d \in Conversations \ {c} : Alternates(Path(d)')
  BY <1>1 DEF Wrote
<1>3. Alternates(Path(c)')
  BY DEF PathOK, Bracketed
<1>4. Main' = c /\ Conversations' = Conversations /\ StoreOK' /\ FoldsOK'
  BY DEF Wrote
<1>5. (\A d \in Conversations : Alternates(Path(d)))'
  BY <1>2, <1>3, <1>4
<1>6. (\A d \in Conversations : d = Main => PathOK(Path(d)))'
  BY <1>4
<1> QED  BY <1>4, <1>5, <1>6 DEF PathsOK

\* A step that writes no store leaves the paths.
LEMMA PathsStay ==
    ASSUME PathsOK, entries' = entries, nodes' = nodes
    PROVE  /\ PathsOK' /\ Main' = Main /\ Conversations' = Conversations
           /\ \A d : Path(d)' = Path(d)
<1>1. Main' = Main /\ Conversations' = Conversations
  BY DEF Main, Conversations
<1>2. \A d : Path(d)' = Path(d)
  BY DEF Path, Resolved
<1>3. StoreOK' /\ FoldsOK'
  <2>1. EntriesOK' /\ NodesOK'
    BY <1>1 DEF PathsOK, StoreOK, EntriesOK, NodesOK
  <2>2. ASSUME NEW d \in Conversations \ {Main}, Folded(d)' PROVE Accounted(d)'
    <3>1. Folded(d)' <=> Folded(d)
      BY DEF Folded
    <3>2. Accounted(d)' <=> Accounted(d)
      BY DEF Accounted
    <3> QED  BY <2>2, <3>1, <3>2 DEF PathsOK, FoldsOK
  <2> QED  BY <1>1, <2>1, <2>2 DEF StoreOK, FoldsOK
<1>4. (\A d \in Conversations : Alternates(Path(d)))'
  BY <1>1, <1>2 DEF PathsOK
<1>5. (\A d \in Conversations : d = Main => PathOK(Path(d)))'
  BY <1>1, <1>2 DEF PathsOK
<1> QED  BY <1>1, <1>2, <1>3, <1>4, <1>5 DEF PathsOK

-----------------------------------------------------------------------------
(* What the drives' conditions make of one entry more.                     *)

\* A cancel is pending as before, unless the entry is one.
LEMMA PendingKept ==
    ASSUME NEW p, NEW q, NEW x, Extends(p, q, x), Alternates(p),
           x.kind \notin {"start", "finish", "cancel"}
    PROVE  CancelIsPending(q) <=> CancelIsPending(p)
<1> DEFINE n == Len(p)
<1>0. n \in Nat /\ DOMAIN p = 1 .. n /\ Len(q) = n + 1 /\ DOMAIN q = 1 .. n + 1
      /\ (\A i \in 1 .. n : q[i] = p[i]) /\ q[n + 1] = x
  BY DEF Extends
<1> HIDE DEF n
<1>1. \A s \in DOMAIN q : IsOpenTurn(q, s) <=> s \in DOMAIN p /\ IsOpenTurn(p, s)
  BY OthersAlternate
<1>2. \A i \in DOMAIN q : Holds(q, i, "cancel") <=> i \in DOMAIN p /\ Holds(p, i, "cancel")
  BY <1>0 DEF Holds
<1>3. ASSUME CancelIsPending(q) PROVE CancelIsPending(p)
  <2>1. PICK s \in DOMAIN q, i \in DOMAIN q : IsOpenTurn(q, s) /\ s <= i /\ Holds(q, i, "cancel")
    BY <1>3, CancelPendingIs
  <2> QED  BY <2>1, <1>1, <1>2, CancelPendingIs
<1>4. ASSUME CancelIsPending(p) PROVE CancelIsPending(q)
  <2>1. PICK s \in DOMAIN p, i \in DOMAIN p : IsOpenTurn(p, s) /\ s <= i /\ Holds(p, i, "cancel")
    BY <1>4, CancelPendingIs
  <2>2. s \in DOMAIN q /\ i \in DOMAIN q
    BY <1>0
  <2> QED  BY <2>1, <2>2, <1>1, <1>2, CancelPendingIs
<1> QED  BY <1>3, <1>4

\* What an answer saw stays seen.
LEMMA SeenKept ==
    ASSUME NEW p, NEW q, NEW x, NEW n, Extends(p, q, x), SeenBy(p, n), x.kind # "assistant"
    PROVE  SeenBy(q, n)
BY DEF Extends, SeenBy, Holds

\* The runner finds an open compaction where there is one.
LEMMA OpenCompactionIs ==
    ASSUME NEW p, NEW n \in Nat, DOMAIN p = 1 .. n, OpenCompactionIsBare(p)
    PROVE  OpenCompaction(p) # {} <=> Compacting(p)
<1>1. ASSUME NEW s \in DOMAIN p, OpensCompaction(p, s) PROVE s + 1 \in OpenCompaction(p)
  BY <1>1 DEF OpenCompaction, OpenCompactionIsBare, OpensCompaction, IsCompactionBracket
<1>2. ASSUME NEW i \in OpenCompaction(p) PROVE Compacting(p)
  BY DEF OpenCompaction, Compacting, OpensCompaction, IsCompactionBracket
<1> QED  BY <1>1, <1>2 DEF Compacting

\* The drives after a step, when the main conversation is c and its path q.
LEMMA DrivesAfter ==
    ASSUME NEW c, NEW q, Main' = c, q = Path(c)',
           \A t \in Runs : pc'[t] # "off" => At(t, c, q)' \/ Behind(t, c, q)'
    PROVE  DrivesOK'
BY DEF DrivesOK, At, Behind

\* The main conversation, as the steps find it.
LEMMA MainIs ==
    ASSUME CompactionInv, NEW c, c = Main
    PROVE  /\ c \in Conversations /\ c \in Nat \ {0} /\ c \in Slots
           /\ Len(nodes) = c /\ Conversations = 1 .. c
           /\ PathOK(Path(c)) /\ Bracketed(Path(c)) /\ Alternates(Path(c))
           /\ Len(Path(c)) \in Nat /\ DOMAIN Path(c) = 1 .. Len(Path(c))
           /\ OpenCompaction(Path(c)) # {} <=> Compacting(Path(c))
<1>1. nodes \in Seq(Seq(Nat)) /\ c \in Nat \ {0}
  BY DEF CompactionInv, PathsOK, StoreOK, NodesOK
<1>2. Len(nodes) = c /\ Conversations = 1 .. c
  BY <1>1, LenProperties DEF Main, Conversations
<1>3. c \in Conversations
  BY <1>1, <1>2
<1>4. c \in Slots
  <2>1. /\ counters.rewinds \in Nat /\ counters.schedules \in Nat /\ counters.brackets \in Nat
        /\ counters.rewinds <= MaxRewinds /\ counters.schedules <= MaxSchedules
        /\ counters.brackets <= MaxBrackets
        /\ c <= 1 + (counters.rewinds + counters.schedules + counters.brackets)
    BY DEF CompactionInv, Budget, Brackets
  <2>2. MaxRewinds \in Nat /\ MaxSchedules \in Nat /\ MaxBrackets \in Nat
    BY CompactionAssumption
  <2> QED  BY <1>1, <2>1, <2>2 DEF Slots
<1>5. PathOK(Path(c)) /\ Bracketed(Path(c)) /\ Alternates(Path(c)) /\ OpenCompactionIsBare(Path(c))
  BY <1>3 DEF CompactionInv, PathsOK, PathOK, Bracketed
<1>6. Len(Path(c)) \in Nat /\ DOMAIN Path(c) = 1 .. Len(Path(c))
  BY <1>3, PathIs DEF CompactionInv, PathsOK
<1> QED  BY <1>1, <1>2, <1>3, <1>4, <1>5, <1>6, OpenCompactionIs

-----------------------------------------------------------------------------
(* The frame of a step: c is the main conversation, p its path, q its path *)
(* after the step.                                                         *)

\* Every conversation but the main one is what it was.
Frozen == \A d \in Conversations \ {Main} : nodes'[d] = nodes[d]

\* The state a step starts from.
Before(c, p) == CompactionInv /\ c = Main /\ p = Path(c)

\* What the steps know of the main conversation.
Known(c, p) ==
    /\ c \in Conversations /\ c \in Nat \ {0} /\ c \in Slots
    /\ PathOK(p) /\ Bracketed(p) /\ Alternates(p)
    /\ Len(p) \in Nat /\ DOMAIN p = 1 .. Len(p)
    /\ OpenCompaction(p) # {} <=> Compacting(p)

\* It is so before every step.
LEMMA KnownBefore ==
    ASSUME NEW c, NEW p, Before(c, p)
    PROVE  Known(c, p)
BY MainIs DEF Before, Known

\* The bounds, after a step that opens no compaction and replaces nothing.
LEMMA BudgetKept ==
    ASSUME Budget, NEW c, c = Main, c \in Conversations, Main' = c, c \in Conversations',
           Compacting(Path(c)') => Compacting(Path(c)),
           counters' = counters \/ \E k \in {"posts", "cancels", "faults", "begins"} : Bump(k)
    PROVE  Budget'
<1>1. CASE counters' = counters
  BY <1>1 DEF Budget, Brackets
<1>2. CASE \E k \in {"posts", "cancels", "faults", "begins"} : Bump(k)
  <2>1. PICK k \in {"posts", "cancels", "faults", "begins"} : Bump(k)
    BY <1>2
  <2>2. counters \in [{"posts", "cancels", "schedules", "rewinds", "faults", "begins", "brackets"} -> Nat]
    BY DEF Budget
  <2>3. counters' \in [{"posts", "cancels", "schedules", "rewinds", "faults", "begins", "brackets"} -> Nat]
    BY <2>1, <2>2 DEF Bump
  <2>4. /\ counters'.rewinds = counters.rewinds /\ counters'.schedules = counters.schedules
        /\ counters'.brackets = counters.brackets
    BY <2>1, <2>2 DEF Bump
  <2> QED  BY <2>3, <2>4 DEF Budget, Brackets
<1> QED  BY <1>1, <1>2

\* The bounds, after a step that pays for a successor or a compaction.
LEMMA BudgetPays ==
    ASSUME Budget, NEW c, c = Main, c \in Nat,
           NEW k \in {"rewinds", "schedules", "brackets"},
           counters'[k] = counters[k] + 1,
           \A l \in {"rewinds", "schedules", "brackets"} \ {k} : counters'[l] = counters[l],
           counters' \in [{"posts", "cancels", "schedules", "rewinds", "faults", "begins", "brackets"} -> Nat],
           k = "rewinds" => counters.rewinds < MaxRewinds,
           k = "schedules" => counters.schedules < MaxSchedules,
           k = "brackets" => counters.brackets < MaxBrackets,
           \/ Main' = c
           \/ Main' = c + 1 /\ ~Compacting(Path(c + 1)')
    PROVE  Budget'
<1>1. /\ counters.rewinds \in Nat /\ counters.schedules \in Nat /\ counters.brackets \in Nat
      /\ counters.rewinds <= MaxRewinds /\ counters.schedules <= MaxSchedules
      /\ counters.brackets <= MaxBrackets
      /\ c <= 1 + (counters.rewinds + counters.schedules + counters.brackets)
  BY DEF Budget, Brackets
<1>2. MaxRewinds \in Nat /\ MaxSchedules \in Nat /\ MaxBrackets \in Nat
  BY CompactionAssumption
<1>3. \/ /\ counters'.rewinds = counters.rewinds + 1 /\ counters'.schedules = counters.schedules
         /\ counters'.brackets = counters.brackets /\ counters.rewinds < MaxRewinds
      \/ /\ counters'.rewinds = counters.rewinds /\ counters'.schedules = counters.schedules + 1
         /\ counters'.brackets = counters.brackets /\ counters.schedules < MaxSchedules
      \/ /\ counters'.rewinds = counters.rewinds /\ counters'.schedules = counters.schedules
         /\ counters'.brackets = counters.brackets + 1 /\ counters.brackets < MaxBrackets
  OBVIOUS
<1>4. /\ counters'.rewinds + counters'.schedules + counters'.brackets
           = counters.rewinds + counters.schedules + counters.brackets + 1
      /\ counters'.rewinds <= MaxRewinds /\ counters'.schedules <= MaxSchedules
      /\ counters'.brackets <= MaxBrackets
      /\ counters'.rewinds \in Nat /\ counters'.schedules \in Nat /\ counters'.brackets \in Nat
  BY <1>1, <1>2, <1>3
<1>5. Main' <= 1 + Brackets'
  BY <1>1, <1>4 DEF Brackets
<1>6. ASSUME NEW d \in Conversations', d = Main', Compacting(Path(d)') PROVE Main' <= Brackets'
  <2>1. Main' = c
    BY <1>6
  <2> QED  BY <2>1, <1>1, <1>4 DEF Brackets
<1> QED  BY <1>4, <1>5, <1>6 DEF Budget

\* One drive: what r does next is all there is.
LEMMA OneDriveGoes ==
    ASSUME DrivesTyped, OneDrive, NEW r \in Runs, pc[r] # "off", NEW w, Goes(r, w)
    PROVE  OneDrive' /\ pc'[r] = w /\ \A t \in Runs : pc'[t] # "off" => t = r
<1>1. pc \in [Runs -> Waiting \cup {"skipped", "turn"}]
  BY DEF DrivesTyped
<1>2. pc'[r] = w /\ \A t \in Runs \ {r} : pc'[t] = pc[t]
  BY <1>1 DEF Goes
<1> QED  BY <1>2 DEF OneDrive

\* A drive's next place is one there is.
LEMMA GoesTyped ==
    ASSUME DrivesTyped, NEW r \in Runs, NEW w \in Waiting \cup {"skipped", "turn"}, Goes(r, w)
    PROVE  pc' \in [Runs -> Waiting \cup {"skipped", "turn"}]
BY DEF DrivesTyped, Goes

\* So is its plan.
LEMMA PlanTyped ==
    ASSUME DrivesTyped, NEW r \in Runs,
           NEW x \in {"none", "plan", "nothing", "raised", "invalid", "drive", "raise"}, NewPlan(r, x)
    PROVE  /\ plan' \in [Runs -> {"none", "plan", "nothing", "raised", "invalid", "drive", "raise"}]
           /\ plan'[r] = x
BY DEF DrivesTyped, NewPlan

\* The drive of r, which is not behind.
LEMMA DriveIsAt ==
    ASSUME NEW c, NEW p, Before(c, p), NEW r \in Runs, pc[r] # "off", pc[r] # "finished"
    PROVE  At(r, c, p) /\ cid[r] = c /\ registry[c] = r
<1>1. c \in Conversations
  BY KnownBefore DEF Known
<1>2. At(r, c, p) \/ Behind(r, c, p)
  BY <1>1 DEF Before, CompactionInv, DrivesOK
<1> QED  BY <1>2 DEF At, Behind

\* The assembly of a step that writes to the main conversation.
LEMMA AfterWrite ==
    ASSUME NEW c, NEW p, Before(c, p), NEW q, q = Path(c)', Wrote(c), PathOK(q),
           DrivesTyped', Budget', OneDrive',
           \A t \in Runs : pc'[t] # "off" => At(t, c, q)' \/ Behind(t, c, q)'
    PROVE  CompactionInv' /\ Frozen
<1>1. PathsOK'
  BY PathsAfterWrite DEF Before, CompactionInv
<1>2. Main' = c
  BY DEF Wrote
<1>3. DrivesOK'
  BY <1>2, DrivesAfter
<1>4. Frozen
  BY DEF Wrote, Frozen, Before
<1> QED  BY <1>1, <1>3, <1>4 DEF CompactionInv

\* The assembly of a step that writes to no conversation.
LEMMA AfterNoWrite ==
    ASSUME NEW c, NEW p, Before(c, p), entries' = entries, nodes' = nodes,
           DrivesTyped', OneDrive',
           counters' = counters \/ \E k \in {"posts", "cancels", "faults", "begins"} : Bump(k),
           \A t \in Runs : pc'[t] # "off" => At(t, c, p)' \/ Behind(t, c, p)'
    PROVE  CompactionInv' /\ Frozen
<1>1. PathsOK' /\ Main' = c /\ Conversations' = Conversations /\ Path(c)' = p
  BY PathsStay DEF Before, CompactionInv
<1>2. c \in Conversations
  BY KnownBefore DEF Known
<1>3. Budget'
  BY <1>1, <1>2, BudgetKept DEF Before, CompactionInv
<1>4. DrivesOK'
  BY <1>1, DrivesAfter
<1> QED  BY <1>1, <1>3, <1>4 DEF CompactionInv, Frozen

-----------------------------------------------------------------------------
(* The doors.                                                              *)

\* A door leaves the drives alone, but for the tokens a cancel trips.
LEMMA DrivesRest ==
    ASSUME DrivesTyped, OneDrive, UNCHANGED drives
    PROVE  DrivesTyped' /\ OneDrive'
BY DEF DrivesTyped, OneDrive, drives

\* `post_message`.
LEMMA PostSteps ==
    ASSUME NEW c, NEW p, Before(c, p), NEW q, q = Path(c)', NEW d \in Conversations, Post(d)
    PROVE  CompactionInv' /\ Frozen
<1>1. /\ d = c /\ ~CancelIsPending(p) /\ ~Compacting(p) /\ AppendAll(c, <<UserMessage>>)
      /\ Bump("posts") /\ UNCHANGED drives
  BY DEF Post, Before, Compacting, OpensCompaction
<1>2. Known(c, p)
  BY KnownBefore
<1>3. Wrote(c) /\ Extends(p, q, UserMessage)
  BY <1>1, WritesOne, WrittenAreItems, WrittenKinds DEF Before, CompactionInv, PathsOK
<1>4. /\ PathOK(q) /\ ~Compacting(q) /\ HasInput(q) /\ Owed(q)
      /\ HasOpenTurn(q) <=> HasOpenTurn(p)
  BY <1>1, <1>2, <1>3, PostKeeps, PostIsOwed DEF Known
<1>5. ~CancelIsPending(q)
  BY <1>1, <1>2, <1>3, PendingKept, WrittenKinds DEF Known
<1>6. DrivesTyped' /\ OneDrive'
  BY <1>1, DrivesRest DEF Before, CompactionInv
<1>7. Budget'
  <2>1. Main' = c /\ c \in Conversations'
    BY <1>2, <1>3 DEF Wrote, Known
  <2> QED  BY <2>1, <1>1, <1>2, <1>4, BudgetKept DEF Before, CompactionInv, Known
<1>8. ASSUME NEW t \in Runs, pc'[t] # "off" PROVE At(t, c, q)' \/ Behind(t, c, q)'
  <2>1. pc[t] # "off"
    BY <1>1, <1>8 DEF drives
  <2>2. At(t, c, p) \/ Behind(t, c, p)
    BY <2>1, <1>2 DEF Before, CompactionInv, DrivesOK, Known
  <2>3. ASSUME Behind(t, c, p) PROVE Behind(t, c, q)'
    BY <2>3, <1>1, <1>4 DEF Behind, drives
  <2>4. ASSUME At(t, c, p) PROVE At(t, c, q)'
    <3>1. SeenBy(p, seen[t]) => SeenBy(q, seen[t])
      BY <1>3, SeenKept, WrittenKinds
    <3> QED  BY <2>4, <3>1, <1>1, <1>4, <1>5 DEF At, drives
  <2> QED  BY <2>2, <2>3, <2>4
<1> QED  BY <1>3, <1>4, <1>6, <1>7, <1>8, AfterWrite

\* `cancel`.
LEMMA CancelSteps ==
    ASSUME NEW c, NEW p, Before(c, p), NEW q, q = Path(c)', NEW o \in {"cancelled", "errored"}, Cancel(o)
    PROVE  CompactionInv' /\ Frozen
<1>1. /\ HasOpenTurn(p) /\ AppendAll(c, <<CancelRequested(o)>>)
      /\ token' = [r \in Runs |-> token[r] \/ registry[c] = r]
      /\ Bump("cancels")
      /\ UNCHANGED <<registry, didRun, cancelled, pc, cid, snapshot, plan, seen>>
  BY DEF Cancel, Before
<1>2. Known(c, p)
  BY KnownBefore
<1>3. Wrote(c) /\ Extends(p, q, CancelRequested(o))
  BY <1>1, WritesOne, WrittenAreItems, WrittenKinds DEF Before, CompactionInv, PathsOK
<1>4. /\ PathOK(q) /\ HasOpenTurn(q)
      /\ Compacting(q) <=> Compacting(p)
      /\ HasInput(p) => HasInput(q)
  BY <1>1, <1>2, <1>3, CancelKeeps DEF Known
<1>5. OneDrive'
  BY <1>1 DEF OneDrive, Before, CompactionInv
<1>6. DrivesTyped'
  <2>1. token' \in [Runs -> BOOLEAN]
    <3>1. \A r \in Runs : (token[r] \/ registry[c] = r) \in BOOLEAN
      OBVIOUS
    <3> QED  BY <1>1, <3>1
  <2> QED  BY <2>1, <1>1 DEF DrivesTyped, Before, CompactionInv
<1>7. Budget'
  <2>1. Main' = c /\ c \in Conversations'
    BY <1>2, <1>3 DEF Wrote, Known
  <2> QED  BY <2>1, <1>1, <1>2, <1>4, BudgetKept DEF Before, CompactionInv, Known
<1>8. ASSUME NEW t \in Runs, pc'[t] # "off" PROVE At(t, c, q)' \/ Behind(t, c, q)'
  <2>1. pc[t] # "off"
    BY <1>1, <1>8
  <2>2. At(t, c, p) \/ Behind(t, c, p)
    BY <2>1, <1>2 DEF Before, CompactionInv, DrivesOK, Known
  <2>3. At(t, c, p)
    BY <2>2, <1>1 DEF Behind
  <2>4. SeenBy(p, seen[t]) => SeenBy(q, seen[t])
    BY <1>3, SeenKept, WrittenKinds
  <2>5. registry[c] = t
    BY <2>3 DEF At
  <2>6. token'[t] = TRUE
    BY <2>5, <1>1
  <2> QED  BY <2>3, <2>4, <2>6, <1>1, <1>4 DEF At
<1> QED  BY <1>3, <1>4, <1>5, <1>6, <1>7, <1>8, AfterWrite

\* A compaction's bracket, opened on a path without an open turn.
LEMMA BracketOpens ==
    ASSUME NEW c, NEW p, Before(c, p), NEW q, q = Path(c)', NEW source \in {"user", "policy"},
           ~HasOpenTurn(p), AppendAll(c, NewBracket(source))
    PROVE  Wrote(c) /\ PathOK(q) /\ HasOpenTurn(q) /\ Compacting(q)
<1>1. AppendAll(c, <<TurnStart, CompactionEntry(source)>>)
  BY DEF NewBracket
<1>2. /\ TurnStart \in Items /\ CompactionEntry(source) \in Items
      /\ TurnStart.kind # "compaction" /\ CompactionEntry(source).folded = {}
  BY WrittenAreItems, WrittenKinds
<1>3. Wrote(c) /\ \E m : Extends(p, m, TurnStart) /\ Extends(m, q, CompactionEntry(source))
  BY <1>1, <1>2, WritesTwo DEF Before, CompactionInv, PathsOK
<1>4. PICK m : Extends(p, m, TurnStart) /\ Extends(m, q, CompactionEntry(source))
  BY <1>3
<1>5. Bracketed(p)
  BY KnownBefore DEF Known
<1> QED  BY <1>3, <1>4, <1>5, CompactionOpens

\* `schedule_compaction`, which comes at a suspension of the drive it finds.
LEMMA ScheduleSteps ==
    ASSUME NEW c, NEW p, Before(c, p), NEW q, q = Path(c)', Held = FALSE, Schedule
    PROVE  CompactionInv' /\ Frozen
<1>1. /\ Doors /\ ~InTheWindow /\ counters.schedules < MaxSchedules
      /\ ~HasOpenTurn(p) /\ AppendAll(c, NewBracket("user"))
      /\ Bump("schedules") /\ UNCHANGED drives
  BY DEF Schedule, Before
<1>2. Known(c, p)
  BY KnownBefore
<1>3. Wrote(c) /\ PathOK(q) /\ HasOpenTurn(q) /\ Compacting(q)
  BY <1>1, BracketOpens
<1>4. DrivesTyped' /\ OneDrive'
  BY <1>1, DrivesRest DEF Before, CompactionInv
<1>5. Budget'
  <2>1. counters \in [{"posts", "cancels", "schedules", "rewinds", "faults", "begins", "brackets"} -> Nat]
    BY DEF Before, CompactionInv, Budget
  <2>2. counters' = [counters EXCEPT !["schedules"] = @ + 1]
    BY <1>1 DEF Bump
  <2>3. /\ counters' \in [{"posts", "cancels", "schedules", "rewinds", "faults", "begins", "brackets"} -> Nat]
        /\ counters'["schedules"] = counters["schedules"] + 1
        /\ \A l \in {"rewinds", "schedules", "brackets"} \ {"schedules"} : counters'[l] = counters[l]
    BY <2>1, <2>2
  <2>4. Main' = c /\ c \in Nat
    BY <1>2, <1>3 DEF Wrote, Known
  <2> QED  BY <2>3, <2>4, <1>1, BudgetPays DEF Before, CompactionInv
<1>6. ASSUME NEW t \in Runs, pc'[t] # "off" PROVE At(t, c, q)' \/ Behind(t, c, q)'
  <2>1. pc[t] # "off" /\ pc[t] # "finished" /\ pc[t] \in Waiting
    BY <1>1, <1>6 DEF drives, Doors, InTheWindow
  <2>2. At(t, c, p)
    BY <2>1, DriveIsAt
  <2>3. ~Compacting(p)
    BY <1>1 DEF Compacting, OpensCompaction, HasOpenTurn
  <2>4. pc[t] \in {"begun", "ended"}
    BY <2>1, <2>2, <2>3, <1>1 DEF At, Waiting
  <2> QED  BY <2>2, <2>4, <1>1, <1>3 DEF At, drives
<1> QED  BY <1>3, <1>4, <1>5, <1>6, AfterWrite

\* The assembly of a step that replaces the main conversation.
LEMMA AfterTransition ==
    ASSUME NEW c, NEW p, Before(c, p), NEW q, q = Path(c + 1)',
           Main' = c + 1, Conversations' = Conversations \cup {c + 1}, StoreOK', FoldsOK',
           \A d \in Conversations : Alternates(Path(d)'), \A d \in Conversations \ {c} : nodes'[d] = nodes[d],
           PathOK(q), DrivesTyped', Budget', OneDrive',
           \A t \in Runs : pc'[t] # "off" => At(t, c + 1, q)' \/ Behind(t, c + 1, q)'
    PROVE  CompactionInv' /\ Frozen
<1>1. Known(c, p)
  BY KnownBefore
<1>2. PICK e : e = c + 1
  OBVIOUS
<1>3. PathsOK'
  <2>1. Alternates(Path(e)')
    BY <1>2 DEF PathOK, Bracketed
  <2>2. (\A d \in Conversations : Alternates(Path(d)))'
    BY <2>1, <1>2
  <2>3. (\A d \in Conversations : d = Main => PathOK(Path(d)))'
    BY <1>2
  <2> QED  BY <2>2, <2>3 DEF PathsOK
<1>4. DrivesOK'
  BY <1>2, DrivesAfter
<1>5. Frozen
  BY DEF Frozen, Before
<1> QED  BY <1>3, <1>4, <1>5 DEF CompactionInv

\* `rewind_to`, which no registered run may have the conversation under.
LEMMA RewindSteps ==
    ASSUME NEW c, NEW p, Before(c, p), NEW q, q = Path(c + 1)', NEW cut \in 0 .. Len(nodes[Main]), Rewind(cut)
    PROVE  CompactionInv' /\ Frozen
<1>1. /\ counters.rewinds < MaxRewinds /\ registry[c] = NoRun
      /\ cut < Len(nodes[c]) /\ ~HasOpenTurn(SubSeq(p, 1, cut))
      /\ Transition(SubSeq(nodes[c], 1, cut))
      /\ Bump("rewinds") /\ UNCHANGED <<entries, drives>>
  BY DEF Rewind, Before
<1>2. Known(c, p)
  BY KnownBefore
<1>3. cut \in Nat
  BY MainIs, PathIs DEF Before
<1>4. /\ StoreOK' /\ Main' = c + 1 /\ Conversations' = Conversations \cup {c + 1}
      /\ \A d \in Conversations : nodes'[d] = nodes[d] /\ Path(d)' = Path(d)
      /\ nodes'[c + 1] # <<>> => nodes'[c + 1][1] = nodes[c][1]
      /\ IsSegment(q, cut, p, 1)
      /\ q = SubSeq(p, 1, cut)
  BY <1>1, <1>3, Rewinds DEF Before, CompactionInv, PathsOK
<1>5. PathOK(q) /\ ~HasOpenTurn(q) /\ ~Compacting(q)
  BY <1>1, <1>2, <1>4, CutIsOK DEF Known
<1>6. FoldsOK'
  BY <1>1, <1>4, FoldsRewind DEF Before, CompactionInv, PathsOK
<1>7. \A d \in Conversations : Alternates(Path(d)')
  BY <1>4 DEF Before, CompactionInv, PathsOK
<1>8. DrivesTyped' /\ OneDrive'
  BY <1>1, DrivesRest DEF Before, CompactionInv
<1>9. Budget'
  <2>1. counters \in [{"posts", "cancels", "schedules", "rewinds", "faults", "begins", "brackets"} -> Nat]
    BY DEF Before, CompactionInv, Budget
  <2>2. counters' = [counters EXCEPT !["rewinds"] = @ + 1]
    BY <1>1 DEF Bump
  <2>3. /\ counters' \in [{"posts", "cancels", "schedules", "rewinds", "faults", "begins", "brackets"} -> Nat]
        /\ counters'["rewinds"] = counters["rewinds"] + 1
        /\ \A l \in {"rewinds", "schedules", "brackets"} \ {"rewinds"} : counters'[l] = counters[l]
    BY <2>1, <2>2
  <2>4. c \in Nat
    BY <1>2 DEF Known
  <2> QED  BY <2>3, <2>4, <1>1, <1>4, <1>5, BudgetPays DEF Before, CompactionInv
<1>10. ASSUME NEW t \in Runs, pc'[t] # "off" PROVE At(t, c + 1, q)' \/ Behind(t, c + 1, q)'
  <2>1. pc[t] # "off"
    BY <1>1, <1>10 DEF drives
  <2>2. At(t, c, p) \/ Behind(t, c, p)
    BY <2>1, <1>2 DEF Before, CompactionInv, DrivesOK, Known
  <2>3. Behind(t, c, p)
    BY <2>2, <1>1, CompactionAssumption DEF At
  <2>4. cid[t] \in Nat /\ c \in Nat
    BY <1>2 DEF Before, CompactionInv, DrivesTyped, Slots, Known
  <2> QED  BY <2>3, <2>4, <1>1, <1>5 DEF Behind, drives
<1> QED  BY <1>4, <1>5, <1>6, <1>7, <1>8, <1>9, <1>10, AfterTransition

-----------------------------------------------------------------------------
(* A run begins and ends.                                                  *)

\* A turn of the conversation is opened when it waits for the model.
LEMMA TurnIsOpened ==
    ASSUME NEW c, NEW p, Before(c, p), NEW q, q = Path(c)', ~HasOpenTurn(p), Owed(p),
           AppendAll(c, <<TurnStart>>)
    PROVE  Wrote(c) /\ PathOK(q) /\ HasOpenTurn(q) /\ ~Compacting(q)
<1>1. Known(c, p)
  BY KnownBefore
<1>2. Wrote(c) /\ Extends(p, q, TurnStart)
  BY WritesOne, WrittenAreItems, WrittenKinds DEF Before, CompactionInv, PathsOK
<1>3. HasInput(p)
  BY <1>1, OwedIsInput DEF Known, Bracketed
<1> QED  BY <1>1, <1>2, <1>3, TurnOpens DEF Known

\* No run has the conversation when another one begins.
LEMMA NobodyDrives ==
    ASSUME NEW c, NEW p, Before(c, p), registry[c] = NoRun, ~InTheWindow
    PROVE  \A t \in Runs : pc[t] = "off"
<1>1. c \in Conversations
  BY KnownBefore DEF Known
<1>2. ASSUME NEW t \in Runs, pc[t] # "off" PROVE FALSE
  <2>1. At(t, c, p) \/ Behind(t, c, p)
    BY <1>1, <1>2 DEF Before, CompactionInv, DrivesOK
  <2> QED  BY <2>1, CompactionAssumption DEF At, Behind, InTheWindow
<1> QED  BY <1>2

\* `_begin_run`.
LEMMA BeginSteps ==
    ASSUME NEW c, NEW p, Before(c, p), NEW q, q = Path(c)', Held = FALSE,
           NEW r \in Runs, NEW eager \in BOOLEAN, NEW due \in BOOLEAN, Begin(r, eager, due)
    PROVE  CompactionInv' /\ Frozen
<1>1. /\ ~InTheWindow /\ registry[c] = NoRun /\ RunStatus(p) # "idle"
      /\ due => eager /\ ~HasOpenTurn(p) /\ counters.brackets < MaxBrackets
      /\ IF eager THEN AppendAll(c, StartBracket(due)) ELSE UNCHANGED <<entries, nodes>>
  BY DEF Begin, Before
<1>2. /\ pc' = [pc EXCEPT ![r] = "begun"] /\ cid' = [cid EXCEPT ![r] = c]
      /\ token' = [token EXCEPT ![r] = FALSE] /\ registry' = [registry EXCEPT ![c] = r]
      /\ didRun' = didRun \ {c} /\ cancelled' = cancelled \ {c}
      /\ counters' = [counters EXCEPT !.begins = @ + 1, !.brackets = @ + (IF due THEN 1 ELSE 0)]
      /\ UNCHANGED <<snapshot, plan, seen>>
  BY DEF Begin, Before
<1>3. Known(c, p) /\ DrivesTyped
  BY KnownBefore DEF Before, CompactionInv
<1>4. \A t \in Runs : pc[t] = "off"
  BY <1>1, NobodyDrives
<1>5. DrivesTyped'
  <2>1. registry' \in [Slots -> Runs \cup {NoRun}] /\ cid' \in [Runs -> Slots]
    BY <1>2, <1>3 DEF DrivesTyped, Known
  <2>2. pc' \in [Runs -> Waiting \cup {"skipped", "turn"}]
    BY <1>2, <1>3 DEF DrivesTyped, Waiting
  <2>3. token' \in [Runs -> BOOLEAN]
    BY <1>2, <1>3 DEF DrivesTyped
  <2> QED  BY <2>1, <2>2, <2>3, <1>2, <1>3 DEF DrivesTyped
<1>6. pc'[r] = "begun" /\ cid'[r] = c /\ registry'[c] = r /\ \A t \in Runs : pc'[t] # "off" => t = r
  BY <1>2, <1>3, <1>4 DEF DrivesTyped, Known
<1>7. OneDrive'
  BY <1>6 DEF OneDrive
<1>8. HasOpenTurn(p) \/ Owed(p)
  BY <1>1, StatusIsOwed
<1>9. ASSUME HasOpenTurn(q) \/ Owed(q)
      PROVE  \A t \in Runs : pc'[t] # "off" => At(t, c, q)' \/ Behind(t, c, q)'
  <2>1. At(r, c, q)'
    BY <1>6, <1>9, <1>2 DEF At
  <2> QED  BY <2>1, <1>6
<1>10. counters \in [{"posts", "cancels", "schedules", "rewinds", "faults", "begins", "brackets"} -> Nat]
  BY DEF Before, CompactionInv, Budget
<1>11. CASE due
  <2>1. ~HasOpenTurn(p) /\ AppendAll(c, NewBracket("policy"))
    BY <1>1, <1>11 DEF StartBracket, Before
  <2>2. Wrote(c) /\ PathOK(q) /\ HasOpenTurn(q) /\ Compacting(q)
    BY <2>1, BracketOpens
  <2>3. Budget'
    <3>1. counters' = [counters EXCEPT !["begins"] = @ + 1, !["brackets"] = @ + 1]
      BY <1>2, <1>11
    <3>2. /\ counters' \in [{"posts", "cancels", "schedules", "rewinds", "faults", "begins", "brackets"} -> Nat]
          /\ counters'["brackets"] = counters["brackets"] + 1
          /\ \A l \in {"rewinds", "schedules", "brackets"} \ {"brackets"} : counters'[l] = counters[l]
      BY <3>1, <1>10
    <3>3. Main' = c /\ c \in Nat
      BY <1>3, <2>2 DEF Wrote, Known
    <3> QED  BY <3>2, <3>3, <1>1, <1>11, BudgetPays DEF Before, CompactionInv
  <2> QED  BY <2>2, <2>3, <1>5, <1>7, <1>9, AfterWrite
<1>12. CASE ~due
  <2>1. Bump("begins")
    <3> DEFINE D == {"posts", "cancels", "schedules", "rewinds", "faults", "begins", "brackets"}
               e == [counters EXCEPT !["begins"] = @ + 1]
    <3>1. counters' = [counters EXCEPT !["begins"] = @ + 1, !["brackets"] = @ + 0]
      BY <1>2, <1>12
    <3>2. counters' \in [D -> Nat] /\ e \in [D -> Nat] /\ \A k \in D : counters'[k] = e[k]
      BY <3>1, <1>10
    <3> HIDE DEF e, D
    <3>3. counters' = e
      BY <3>2
    <3> QED  BY <3>3 DEF Bump, e
  <2>2. CASE ~eager \/ HasOpenTurn(p)
    <3>1. entries' = entries /\ nodes' = nodes
      <4>1. CASE ~eager
        BY <1>1, <4>1
      <4>2. CASE eager /\ HasOpenTurn(p)
        <5>1. AppendAll(c, <<>>)
          BY <4>2, <1>1 DEF StartBracket, Before
        <5> QED  BY <5>1, WritesNothing DEF Before, CompactionInv, PathsOK
      <4> QED  BY <2>2, <4>1, <4>2
    <3>2. q = p
      BY <3>1, PathsStay DEF Before, CompactionInv
    <3>3. \A t \in Runs : pc'[t] # "off" => At(t, c, p)' \/ Behind(t, c, p)'
      <4>1. At(r, c, p)'
        BY <1>6, <1>8, <1>2 DEF At
      <4> QED  BY <4>1, <1>6
    <3> QED  BY <3>1, <3>3, <2>1, <1>5, <1>7, AfterNoWrite
  <2>3. CASE eager /\ ~HasOpenTurn(p)
    <3>1. AppendAll(c, <<TurnStart>>)
      BY <2>3, <1>1, <1>12 DEF StartBracket, Before
    <3>2. Wrote(c) /\ PathOK(q) /\ HasOpenTurn(q) /\ ~Compacting(q)
      BY <2>3, <3>1, <1>8, TurnIsOpened
    <3>3. Budget'
      <4>1. Main' = c /\ c \in Conversations'
        BY <1>3, <3>2 DEF Wrote, Known
      <4> QED  BY <4>1, <2>1, <1>3, <3>2, BudgetKept DEF Before, CompactionInv, Known
    <3> QED  BY <3>2, <3>3, <1>5, <1>7, <1>9, AfterWrite
  <2> QED  BY <2>2, <2>3
<1> QED  BY <1>11, <1>12

\* A handle that is let go of leaves no drive.
LEMMA ReleasedRests ==
    ASSUME DrivesTyped, OneDrive, NEW r \in Runs, pc[r] # "off", Released(r),
           UNCHANGED <<didRun, cancelled, cid>>
    PROVE  DrivesTyped' /\ OneDrive' /\ \A t \in Runs : pc'[t] = "off"
<1>1. pc \in [Runs -> Waiting \cup {"skipped", "turn"}]
  BY DEF DrivesTyped
<1>2. pc'[r] = "off" /\ \A t \in Runs \ {r} : pc'[t] = pc[t]
  BY <1>1 DEF Released
<1>3. \A t \in Runs : pc'[t] = "off"
  BY <1>2 DEF OneDrive
<1>4. pc' \in [Runs -> Waiting \cup {"skipped", "turn"}]
  BY <1>1 DEF Released, Waiting
<1>5. registry' \in [Slots -> Runs \cup {NoRun}]
  BY DEF Released, DrivesTyped
<1>6. token' \in [Runs -> BOOLEAN]
  BY DEF Released, DrivesTyped
<1>7. plan' \in [Runs -> {"none", "plan", "nothing", "raised", "invalid", "drive", "raise"}]
  BY DEF Released, DrivesTyped
<1>8. seen' \in [Runs -> Nat]
  BY DEF Released, DrivesTyped
<1>9. DrivesTyped'
  BY <1>4, <1>5, <1>6, <1>7, <1>8 DEF DrivesTyped
<1> QED  BY <1>3, <1>9 DEF OneDrive

\* A run that ends, and one that is lost.
LEMMA EndSteps ==
    ASSUME NEW c, NEW p, Before(c, p), NEW r \in Runs, EndRun(r) \/ Fault(r)
    PROVE  CompactionInv' /\ Frozen
<1>1. pc[r] # "off" /\ Released(r) /\ UNCHANGED <<entries, nodes, didRun, cancelled, cid>>
  BY DEF EndRun, Fault
<1>2. counters' = counters \/ Bump("faults")
  BY DEF EndRun, Fault
<1>3. DrivesTyped' /\ OneDrive' /\ \A t \in Runs : pc'[t] = "off"
  BY <1>1, ReleasedRests DEF Before, CompactionInv
<1> QED  BY <1>1, <1>2, <1>3, AfterNoWrite

-----------------------------------------------------------------------------
(* `_compaction_step`.                                                     *)

\* Without a bracket, or with one.
LEMMA BracketOfIs ==
    ASSUME NEW c, NEW p, Before(c, p), NEW r \in Runs, cid[r] = c
    PROVE  /\ BracketOf(r) # {} <=> Compacting(p)
           /\ Path(cid[r]) = p
BY KnownBefore DEF BracketOf, Before, Known

\* A close asks for an outcome there is.
LEMMA CancelOutcomes ==
    ASSUME NEW c, NEW p, Before(c, p), NEW i \in PendingCancel(p)
    PROVE  p[i].outcome \in TurnOutcomes
<1>1. c \in Conversations
  BY KnownBefore DEF Known
<1>2. i \in DOMAIN p /\ p[i].kind = "cancel"
  BY DEF PendingCancel, OpenTurnEntries, Holds
<1>3. p[i] \in Items
  BY <1>1, <1>2, PathIs DEF Before, CompactionInv, PathsOK
<1> QED  BY <1>2, <1>3, ItemsAre DEF TurnOutcomes

\* The bracket is closed, and the drive goes to hand over its event.
LEMMA CloseSteps ==
    ASSUME NEW c, NEW p, Before(c, p), NEW q, q = Path(c)', NEW r \in Runs,
           pc[r] \in {"begun", "started", "compact", "planned"}, Compacting(p),
           NEW outcome \in TurnOutcomes, NEW after \in {"drive", "raise"}, Closes(r, outcome, after),
           UNCHANGED <<registry, cid, token, seen>>,
           cancelled' \subseteq Slots, didRun' = didRun, c \in didRun' \cup cancelled',
           counters' = counters \/ Bump("faults")
    PROVE  CompactionInv' /\ Frozen
<1>1. Known(c, p) /\ DrivesTyped /\ OneDrive
  BY KnownBefore DEF Before, CompactionInv
<1>2. cid[r] = c /\ registry[c] = r
  BY DriveIsAt
<1>3. AppendAll(c, <<TurnFinish(outcome)>>) /\ Goes(r, "finished") /\ NewPlan(r, after)
  BY <1>2 DEF Closes, CloseCompaction
<1>4. Wrote(c) /\ Extends(p, q, TurnFinish(outcome))
  BY <1>3, WritesOne, WrittenAreItems, WrittenKinds DEF Before, CompactionInv, PathsOK
<1>5. HasOpenTurn(p)
  BY DEF Compacting, OpensCompaction, HasOpenTurn
<1>6. PathOK(q) /\ ~HasOpenTurn(q) /\ ~Compacting(q)
  BY <1>1, <1>4, <1>5, TurnCloses DEF Known
<1>7. OneDrive' /\ pc'[r] = "finished" /\ \A t \in Runs : pc'[t] # "off" => t = r
  BY <1>1, <1>3, OneDriveGoes
<1>8. pc' \in [Runs -> Waiting \cup {"skipped", "turn"}]
  BY <1>1, <1>3, GoesTyped DEF Waiting
<1>9. /\ plan' \in [Runs -> {"none", "plan", "nothing", "raised", "invalid", "drive", "raise"}]
      /\ plan'[r] = after
  BY <1>1, <1>3, PlanTyped
<1>10. DrivesTyped'
  BY <1>1, <1>8, <1>9 DEF DrivesTyped
<1>11. Budget'
  <2>1. Main' = c /\ c \in Conversations'
    BY <1>1, <1>4 DEF Wrote, Known
  <2> QED  BY <2>1, <1>1, <1>6, BudgetKept DEF Before, CompactionInv, Known
<1>12. At(r, c, q)'
  BY <1>2, <1>6, <1>7, <1>9 DEF At
<1>13. \A t \in Runs : pc'[t] # "off" => At(t, c, q)' \/ Behind(t, c, q)'
  BY <1>7, <1>12
<1> QED  BY <1>4, <1>6, <1>7, <1>10, <1>11, <1>13, AfterWrite

\* It is closed as its cancel asks.
LEMMA CloseAsCancelledSteps ==
    ASSUME NEW c, NEW p, Before(c, p), NEW q, q = Path(c)', NEW r \in Runs,
           pc[r] \in {"begun", "started", "compact", "planned"}, Compacting(p),
           ClosesAsCancelled(r), UNCHANGED <<registry, didRun, cid, token, seen>>,
           counters' = counters \/ Bump("faults")
    PROVE  CompactionInv' /\ Frozen
<1>1. cid[r] = c
  BY DriveIsAt
<1>2. Path(cid[r]) = p /\ Known(c, p) /\ DrivesTyped
  BY <1>1, KnownBefore DEF Before, CompactionInv
<1>3. PICK i \in PendingCancel(p) : Closes(r, p[i].outcome, "drive")
  BY <1>2 DEF ClosesAsCancelled
<1>4. cancelled' = cancelled \cup {c}
  BY <1>1 DEF ClosesAsCancelled
<1>5. cancelled' \subseteq Slots /\ c \in didRun' \cup cancelled'
  BY <1>2, <1>4 DEF Known, DrivesTyped
<1>6. p[i].outcome \in TurnOutcomes
  BY CancelOutcomes
<1> QED  BY <1>3, <1>5, <1>6, CloseSteps

\* A compaction that is closed without a plan, whichever way.
LEMMA ClosingSteps ==
    ASSUME NEW c, NEW p, Before(c, p), NEW q, q = Path(c)', NEW r \in Runs,
           \/ CompactionCancelledBefore(r)
           \/ \E timedOut \in BOOLEAN : CompactionEnds(r, timedOut)
           \/ PlanFails(r) \/ PlanDiscarded(r) \/ NothingToCompact(r) \/ CommitFails(r)
    PROVE  CompactionInv' /\ Frozen
<1>1. pc[r] \in {"begun", "compact", "planned"}
  BY DEF CompactionCancelledBefore, CompactionEnds, PlanFails, PlanDiscarded, NothingToCompact, CommitFails
<1>2. At(r, c, p) /\ cid[r] = c
  BY <1>1, DriveIsAt
<1>3. /\ BracketOf(r) # {} <=> Compacting(p)
      /\ Path(cid[r]) = p
  BY <1>2, BracketOfIs
<1>4. FailureOf(r) \in {"drive", "raise"}
  BY DEF FailureOf
<1>5. pc[r] \in {"compact", "planned"} => c \in didRun /\ Compacting(p)
  BY <1>2 DEF At
<1>6. CASE CompactionCancelledBefore(r)
  <2>1. Compacting(p)
    BY <1>3, <1>6 DEF CompactionCancelledBefore
  <2> QED  BY <1>1, <1>6, <2>1, CloseAsCancelledSteps DEF CompactionCancelledBefore
<1>7. cancelled \subseteq Slots
  BY DEF Before, CompactionInv, DrivesTyped
<1>8. ASSUME NEW timedOut \in BOOLEAN, CompactionEnds(r, timedOut) PROVE CompactionInv' /\ Frozen
  <2>1. pc[r] = "compact" /\ UNCHANGED <<registry, didRun, cid, token, snapshot, seen>>
    BY <1>8 DEF CompactionEnds
  <2>2. counters' = counters \/ Bump("faults")
    BY <1>8 DEF CompactionEnds
  <2>3. CASE CancelIsPending(p)
    <3>1. ClosesAsCancelled(r)
      BY <1>3, <1>8, <2>3 DEF CompactionEnds
    <3> QED  BY <3>1, <2>1, <2>2, <1>5, CloseAsCancelledSteps
  <2>4. CASE ~CancelIsPending(p)
    <3>1. Closes(r, "timed_out", FailureOf(r)) /\ cancelled' = cancelled
      BY <1>3, <1>8, <2>4 DEF CompactionEnds
    <3>2. "timed_out" \in TurnOutcomes
      BY DEF TurnOutcomes
    <3>3. c \in didRun' \cup cancelled' /\ cancelled' \subseteq Slots
      BY <3>1, <2>1, <1>5, <1>7
    <3> QED  BY <3>1, <3>2, <3>3, <2>1, <2>2, <1>4, <1>5, CloseSteps
  <2> QED  BY <2>3, <2>4
<1>9. ASSUME NEW outcome \in {"errored", "completed"}, NEW after \in {"drive", "raise"},
             Closes(r, outcome, after), pc[r] = "planned",
             UNCHANGED <<registry, didRun, cancelled, cid, token, snapshot, seen, counters>>
      PROVE  CompactionInv' /\ Frozen
  <2>1. outcome \in TurnOutcomes
    BY DEF TurnOutcomes
  <2>2. c \in didRun' \cup cancelled' /\ cancelled' \subseteq Slots
    BY <1>9, <1>5, <1>7
  <2> QED  BY <1>9, <2>1, <2>2, <1>5, CloseSteps
<1>10. CASE PlanFails(r)
  BY <1>10, <1>4, <1>9 DEF PlanFails
<1>11. CASE PlanDiscarded(r)
  BY <1>11, <1>5, CloseAsCancelledSteps DEF PlanDiscarded
<1>12. CASE NothingToCompact(r)
  BY <1>12, <1>9 DEF NothingToCompact
<1>13. CASE CommitFails(r)
  BY <1>13, <1>4, <1>9 DEF CommitFails
<1> QED  BY <1>6, <1>8, <1>10, <1>11, <1>12, <1>13

\* The bracket is opened, or found open.
LEMMA StartSteps ==
    ASSUME NEW c, NEW p, Before(c, p), NEW q, q = Path(c)', NEW r \in Runs,
           NEW due \in BOOLEAN, CompactionStarts(r, due)
    PROVE  CompactionInv' /\ Frozen
<1>1. /\ pc[r] = "begun" /\ didRun' = didRun \cup {cid[r]} /\ Goes(r, "started")
      /\ UNCHANGED <<registry, cancelled, cid, token, snapshot, plan, seen>>
  BY DEF CompactionStarts
<1>2. Known(c, p) /\ DrivesTyped /\ OneDrive
  BY KnownBefore DEF Before, CompactionInv
<1>3. At(r, c, p) /\ cid[r] = c /\ registry[c] = r
  BY <1>1, DriveIsAt
<1>4. OneDrive' /\ pc'[r] = "started" /\ \A t \in Runs : pc'[t] # "off" => t = r
  BY <1>1, <1>2, OneDriveGoes
<1>5. pc' \in [Runs -> Waiting \cup {"skipped", "turn"}]
  BY <1>1, <1>2, GoesTyped DEF Waiting
<1>6. DrivesTyped'
  BY <1>1, <1>2, <1>3, <1>5 DEF DrivesTyped, Known
<1>7. c \in didRun' /\ c \notin cancelled'
  BY <1>1, <1>3 DEF At
<1>8. CASE due
  <2>1. ~HasOpenTurn(p) /\ counters.brackets < MaxBrackets /\ AppendAll(c, NewBracket("policy"))
        /\ Bump("brackets")
    BY <1>3, <1>8 DEF CompactionStarts, Before
  <2>2. Wrote(c) /\ PathOK(q) /\ HasOpenTurn(q) /\ Compacting(q)
    BY <2>1, BracketOpens
  <2>3. Budget'
    <3>1. counters \in [{"posts", "cancels", "schedules", "rewinds", "faults", "begins", "brackets"} -> Nat]
      BY DEF Before, CompactionInv, Budget
    <3>2. counters' = [counters EXCEPT !["brackets"] = @ + 1]
      BY <2>1 DEF Bump
    <3>3. /\ counters' \in [{"posts", "cancels", "schedules", "rewinds", "faults", "begins", "brackets"} -> Nat]
          /\ counters'["brackets"] = counters["brackets"] + 1
          /\ \A l \in {"rewinds", "schedules", "brackets"} \ {"brackets"} : counters'[l] = counters[l]
      BY <3>1, <3>2
    <3>4. Main' = c /\ c \in Nat
      BY <1>2, <2>2 DEF Wrote, Known
    <3> QED  BY <3>3, <3>4, <2>1, BudgetPays DEF Before, CompactionInv
  <2>4. At(r, c, q)'
    BY <2>2, <1>1, <1>3, <1>4, <1>7 DEF At
  <2>5. \A t \in Runs : pc'[t] # "off" => At(t, c, q)' \/ Behind(t, c, q)'
    BY <1>4, <2>4
  <2> QED  BY <2>2, <2>3, <2>5, <1>4, <1>6, AfterWrite
<1>9. CASE ~due
  <2>1. Compacting(p)
    BY <1>3, <1>9, BracketOfIs DEF CompactionStarts
  <2>2. entries' = entries /\ nodes' = nodes /\ counters' = counters
    BY <1>9 DEF CompactionStarts
  <2>3. At(r, c, p)'
    BY <2>1, <1>1, <1>3, <1>4, <1>7 DEF At
  <2>4. \A t \in Runs : pc'[t] # "off" => At(t, c, p)' \/ Behind(t, c, p)'
    BY <1>4, <2>3
  <2> QED  BY <2>2, <2>4, <1>4, <1>6, AfterNoWrite
<1> QED  BY <1>8, <1>9

\* The steps of a compaction that write to no conversation.
LEMMA WaitSteps ==
    ASSUME NEW c, NEW p, Before(c, p), NEW r \in Runs,
           \/ CompactionSkipped(r) \/ TakeSnapshot(r)
           \/ \E bad \in {"no", "raised", "invalid"} : Compacted(r, bad)
    PROVE  CompactionInv' /\ Frozen
<1>1. /\ pc[r] \in {"begun", "started", "compact"}
      /\ UNCHANGED <<entries, nodes, registry, didRun, cancelled, cid, token, seen>>
      /\ counters' = counters \/ Bump("faults")
  BY DEF CompactionSkipped, TakeSnapshot, Compacted
<1>2. Known(c, p) /\ DrivesTyped /\ OneDrive
  BY KnownBefore DEF Before, CompactionInv
<1>3. At(r, c, p) /\ cid[r] = c /\ registry[c] = r
  BY <1>1, DriveIsAt
<1>4. CASE CompactionSkipped(r)
  <2>1. Goes(r, "skipped") /\ NewPlan(r, "drive") /\ pc[r] = "begun" /\ ~Compacting(p)
    BY <1>3, <1>4, BracketOfIs DEF CompactionSkipped
  <2>2. OneDrive' /\ pc'[r] = "skipped" /\ \A t \in Runs : pc'[t] # "off" => t = r
    BY <1>2, <2>1, <1>1, OneDriveGoes
  <2>3. /\ pc' \in [Runs -> Waiting \cup {"skipped", "turn"}]
        /\ plan' \in [Runs -> {"none", "plan", "nothing", "raised", "invalid", "drive", "raise"}]
        /\ plan'[r] = "drive"
    BY <1>2, <2>1, GoesTyped, PlanTyped
  <2>4. DrivesTyped'
    BY <1>1, <1>2, <2>3 DEF DrivesTyped
  <2>5. At(r, c, p)'
    BY <1>1, <1>3, <2>1, <2>2, <2>3 DEF At
  <2> QED  BY <1>1, <2>2, <2>4, <2>5, AfterNoWrite
<1>5. CASE TakeSnapshot(r)
  <2>1. Goes(r, "compact") /\ plan' = plan /\ pc[r] = "started"
    BY <1>5 DEF TakeSnapshot
  <2>2. OneDrive' /\ pc'[r] = "compact" /\ \A t \in Runs : pc'[t] # "off" => t = r
    BY <1>2, <2>1, <1>1, OneDriveGoes
  <2>3. pc' \in [Runs -> Waiting \cup {"skipped", "turn"}]
    BY <1>2, <2>1, GoesTyped DEF Waiting
  <2>4. DrivesTyped'
    BY <1>1, <1>2, <2>1, <2>3 DEF DrivesTyped
  <2>5. At(r, c, p)'
    BY <1>1, <1>3, <2>1, <2>2 DEF At
  <2> QED  BY <1>1, <2>2, <2>4, <2>5, AfterNoWrite
<1>6. ASSUME NEW bad \in {"no", "raised", "invalid"}, Compacted(r, bad)
      PROVE  CompactionInv' /\ Frozen
  <2>1. Goes(r, "planned") /\ pc[r] = "compact"
    BY <1>6 DEF Compacted
  <2>2. OneDrive' /\ pc'[r] = "planned" /\ \A t \in Runs : pc'[t] # "off" => t = r
    BY <1>2, <2>1, <1>1, OneDriveGoes
  <2>3. pc' \in [Runs -> Waiting \cup {"skipped", "turn"}]
    BY <1>2, <2>1, GoesTyped DEF Waiting
  <2>4. plan' \in [Runs -> {"none", "plan", "nothing", "raised", "invalid", "drive", "raise"}]
    <3>1. CASE bad = "no"
      <4>1. NewPlan(r, PlanFor(snapshot[r]))
        BY <1>6, <3>1 DEF Compacted
      <4>2. PlanFor(snapshot[r]) \in {"none", "plan", "nothing", "raised", "invalid", "drive", "raise"}
        BY DEF PlanFor
      <4> QED  BY <1>2, <4>1, <4>2, PlanTyped
    <3>2. CASE bad # "no"
      <4>1. NewPlan(r, bad) /\ bad \in {"none", "plan", "nothing", "raised", "invalid", "drive", "raise"}
        BY <1>6, <3>2 DEF Compacted
      <4> QED  BY <1>2, <4>1, PlanTyped
    <3> QED  BY <3>1, <3>2
  <2>5. DrivesTyped'
    BY <1>1, <1>2, <2>3, <2>4 DEF DrivesTyped
  <2>6. At(r, c, p)'
    BY <1>1, <1>3, <2>1, <2>2 DEF At
  <2> QED  BY <1>1, <2>2, <2>5, <2>6, AfterNoWrite
<1> QED  BY <1>4, <1>5, <1>6

\* `_commit`.
LEMMA CommitSteps ==
    ASSUME NEW c, NEW p, Before(c, p), NEW q, q = Path(c + 1)', NEW r \in Runs, Commit(r)
    PROVE  CompactionInv' /\ Frozen
<1>1. /\ pc[r] = "planned" /\ SnapshotHolds(r) /\ Goes(r, "finished") /\ NewPlan(r, "drive")
      /\ CommitOf(r, Kept(Candidates(snapshot[r]))) /\ ~CancelIsPending(Path(cid[r]))
      /\ UNCHANGED <<registry, didRun, cancelled, cid, token, snapshot, seen, counters>>
  BY DEF Commit
<1>2. Known(c, p) /\ DrivesTyped /\ OneDrive /\ StoreOK /\ FoldsOK /\ Budget
  BY KnownBefore DEF Before, CompactionInv, PathsOK
<1>3. At(r, c, p) /\ cid[r] = c /\ registry[c] = r
  BY <1>1, DriveIsAt
<1>4. c \in didRun /\ c \notin cancelled /\ Compacting(p)
  BY <1>1, <1>3 DEF At
<1>5. ~CancelIsPending(p) /\ snapshot[r] = nodes[c] /\ p = Path(c)
  BY <1>1, <1>3 DEF SnapshotHolds, Before
<1>6. PICK s \in DOMAIN p : OpensCompaction(p, s)
  BY <1>4 DEF Compacting
<1>7. s + 1 \in DOMAIN p /\ IsOpenTurn(p, s) /\ p[s].kind = "start" /\ s \in Nat \ {0}
  BY <1>2, <1>6 DEF OpensCompaction, IsCompactionBracket, IsOpenTurn, Holds, Known
<1>8. Len(p) = s + 1
  <2>1. \A j \in DOMAIN p : j > s + 1 => Holds(p, j, "cancel")
    BY <1>2, <1>6 DEF Known, Bracketed, OpenCompactionIsBare
  <2>2. \A j \in DOMAIN p : ~(j > s + 1)
    <3> SUFFICES ASSUME NEW j \in DOMAIN p, j > s + 1 PROVE FALSE
      OBVIOUS
    <3>1. Holds(p, j, "cancel")
      BY <2>1
    <3>2. s <= j
      BY <1>2, <1>7 DEF Known
    <3> QED  BY <3>1, <3>2, <1>5, <1>7, CancelPendingIs
  <2>3. Len(p) \in Nat /\ DOMAIN p = 1 .. Len(p)
    BY <1>2 DEF Known
  <2>4. PICK n \in Nat : n = Len(p)
    BY <2>3
  <2>5. s + 1 \in 1 .. n /\ \A j \in 1 .. n : ~(j > s + 1)
    BY <2>2, <2>3, <2>4, <1>7
  <2>6. n = s + 1
    BY <2>5, <1>7
  <2> QED  BY <2>4, <2>6
<1>9. c \in Conversations /\ Len(nodes[c]) = s + 1 /\ nodes[c] \in Seq(Nat)
  BY <1>2, <1>5, <1>8, PathIs DEF Known
<1>10. Candidates(nodes[c]) = SubSeq(nodes[c], 1, s - 1)
  BY <1>2, <1>5, <1>7, <1>9, CandidatesAre
<1> DEFINE ids == SubSeq(nodes[c], 1, s - 1)
           kept == Kept(ids)
<1>11. /\ ids \in Seq(Nat) /\ Len(ids) = s - 1
       /\ \A k \in 1 .. s - 1 : ids[k] = nodes[c][k]
  <2>1. s - 1 \in Nat /\ s - 1 <= Len(nodes[c]) /\ 1 \in Nat \ {0} /\ 1 <= (s - 1) + 1
    BY <1>7, <1>9
  <2>2. \E b \in Nat : b = s - 1
    BY <2>1
  <2>3. PICK b \in Nat : b = s - 1
    BY <2>2
  <2>4. /\ SubSeq(nodes[c], 1, b) \in Seq(Nat)
        /\ Len(SubSeq(nodes[c], 1, b)) = b + 1 - 1
        /\ \A k \in 1 .. b + 1 - 1 : SubSeq(nodes[c], 1, b)[k] = nodes[c][1 + k - 1]
    BY <2>1, <2>3, <1>9, PartOfNodes
  <2>5. b + 1 - 1 = s - 1 /\ \A k \in 1 .. s - 1 : 1 + k - 1 = k
    BY <2>3, <1>7
  <2> QED  BY <2>3, <2>4, <2>5
<1>12. CommitOf(r, kept)
  BY <1>1, <1>5, <1>10
<1> HIDE DEF ids
<1>13. /\ kept \in Seq(Nat)
       /\ \E a \in Nat \ {0} : /\ a <= Len(ids) + 1
                               /\ Len(kept) = Len(ids) + 1 - a
                               /\ \A k \in 1 .. Len(ids) + 1 - a : kept[k] = ids[a + k - 1]
  BY <1>11, KeptIsTail
<1> HIDE DEF kept
<1>14. PICK a \in Nat \ {0} : /\ a <= Len(ids) + 1
                              /\ Len(kept) = Len(ids) + 1 - a
                              /\ \A k \in 1 .. Len(ids) + 1 - a : kept[k] = ids[a + k - 1]
  BY <1>13
<1>15. PICK m \in Nat : m = s - a
  BY <1>7, <1>11, <1>14
<1>16. a + m = s /\ Len(kept) = m /\ \A k \in 1 .. m : kept[k] = nodes[c][a + k - 1]
  <2>1. a + m = s /\ Len(kept) = m /\ Len(ids) + 1 - a = m
    BY <1>7, <1>11, <1>14, <1>15
  <2>2. \A k \in 1 .. m : a + k - 1 \in 1 .. s - 1
    BY <1>7, <1>15
  <2> QED  BY <2>1, <2>2, <1>11, <1>14
<1>17. c = Main /\ s \in DOMAIN Path(c) /\ OpensCompaction(Path(c), s) /\ Bracketed(Path(c))
  BY <1>2, <1>5, <1>6 DEF Before, Known
<1>18. StoreOK' /\ Committed(c, s, a, m)
  <2>1. StoreOK /\ c = Main /\ s \in DOMAIN Path(c) /\ OpensCompaction(Path(c), s) /\ cid[r] = c
    BY <1>2, <1>3, <1>17
  <2>2. kept \in Seq(Nat) /\ a + m = s /\ Len(kept) = m
    BY <1>13, <1>16
  <2>3. \A k \in 1 .. m : kept[k] = nodes[c][a + k - 1]
    BY <1>16
  <2> QED  BY <2>1, <2>2, <2>3, <1>12, Commits
<1>19. /\ Main' = c + 1 /\ Conversations' = Conversations \cup {c + 1}
       /\ \A d \in Conversations : Alternates(Path(d)) => Alternates(Path(d)')
       /\ PathOK(q) /\ ~HasOpenTurn(q) /\ ~Compacting(q)
  BY <1>2, <1>9, <1>16, <1>17, <1>18, CommitPaths
<1>20. \A d \in Conversations : Alternates(Path(d)')
  BY <1>19 DEF Before, CompactionInv, PathsOK
<1>21. FoldsOK'
  BY <1>2, <1>16, <1>17, <1>18, FoldsCommit
<1>22. OneDrive' /\ pc'[r] = "finished" /\ \A t \in Runs : pc'[t] # "off" => t = r
  BY <1>1, <1>2, OneDriveGoes
<1>23. /\ pc' \in [Runs -> Waiting \cup {"skipped", "turn"}]
       /\ plan' \in [Runs -> {"none", "plan", "nothing", "raised", "invalid", "drive", "raise"}]
       /\ plan'[r] = "drive"
  BY <1>1, <1>2, GoesTyped, PlanTyped DEF Waiting
<1>24. DrivesTyped'
  BY <1>1, <1>2, <1>23 DEF DrivesTyped
<1>25. Budget'
  <2>1. c <= Brackets
    BY <1>2, <1>4, <1>5, <1>17 DEF Budget, Known
  <2>2. counters' = counters /\ Brackets' = Brackets
    BY <1>1 DEF Brackets
  <2>3. Brackets \in Nat
    BY <1>2 DEF Budget, Brackets
  <2>4. Main' <= 1 + Brackets'
    BY <2>1, <2>2, <2>3, <1>2, <1>19 DEF Known
  <2>5. ASSUME NEW d \in Conversations', d = Main', Compacting(Path(d)') PROVE FALSE
    BY <2>5, <1>19
  <2> QED  BY <2>2, <2>4, <2>5, <1>2 DEF Budget
<1>26. Behind(r, c + 1, q)'
  <2>1. c < c + 1
    BY <1>2 DEF Known
  <2> QED  BY <2>1, <1>1, <1>3, <1>4, <1>19, <1>22, <1>23 DEF Behind
<1>27. \A t \in Runs : pc'[t] # "off" => At(t, c + 1, q)' \/ Behind(t, c + 1, q)'
  BY <1>22, <1>26
<1>28. \A d \in Conversations \ {c} : nodes'[d] = nodes[d]
  <2>1. \A d \in 1 .. c - 1 : nodes'[d] = nodes[d]
    BY <1>18 DEF Committed
  <2>2. Conversations = 1 .. c /\ c \in Nat
    BY MainIs DEF Before
  <2> QED  BY <2>1, <2>2
<1> QED  BY <1>18, <1>19, <1>20, <1>21, <1>22, <1>24, <1>25, <1>27, <1>28, AfterTransition

-----------------------------------------------------------------------------
(* The rest of `_drive`.                                                   *)

\* A drive stops at its event, and a model call that lost goes back.
LEMMA StopSteps ==
    ASSUME NEW c, NEW p, Before(c, p), NEW r \in Runs, DriveStops(r) \/ ModelLost(r)
    PROVE  CompactionInv' /\ Frozen
<1>1. /\ pc[r] # "off"
      /\ UNCHANGED <<entries, nodes, registry, didRun, cancelled, cid, token, snapshot, plan, seen, counters>>
  BY DEF DriveStops, ModelLost, Ended
<1>2. Known(c, p) /\ DrivesTyped /\ OneDrive
  BY KnownBefore DEF Before, CompactionInv
<1>3. At(r, c, p) \/ Behind(r, c, p)
  BY <1>1, <1>2 DEF Before, CompactionInv, DrivesOK, Known
<1>4. ~Behind(r, c, p)
  BY DEF Behind, DriveStops, ModelLost
<1>5. At(r, c, p) /\ registry[c] = r /\ cid[r] = c
  BY <1>3, <1>4 DEF At
<1>6. CASE DriveStops(r)
  <2>1. Goes(r, "ended")
    BY <1>6 DEF DriveStops, Ended
  <2>2. OneDrive' /\ pc'[r] = "ended" /\ \A t \in Runs : pc'[t] # "off" => t = r
    BY <1>1, <1>2, <2>1, OneDriveGoes
  <2>3. pc' \in [Runs -> Waiting \cup {"skipped", "turn"}]
    BY <1>2, <2>1, GoesTyped DEF Waiting
  <2>4. DrivesTyped'
    BY <1>1, <1>2, <2>3 DEF DrivesTyped
  <2>5. At(r, c, p)'
    BY <1>1, <1>5, <2>2 DEF At
  <2> QED  BY <1>1, <2>2, <2>4, <2>5, AfterNoWrite
<1>7. CASE ModelLost(r)
  <2>1. Goes(r, "turn") /\ pc[r] = "llm"
    BY <1>7 DEF ModelLost
  <2>2. OneDrive' /\ pc'[r] = "turn" /\ \A t \in Runs : pc'[t] # "off" => t = r
    BY <1>1, <1>2, <2>1, OneDriveGoes
  <2>3. pc' \in [Runs -> Waiting \cup {"skipped", "turn"}]
    BY <1>2, <2>1, GoesTyped
  <2>4. DrivesTyped'
    BY <1>1, <1>2, <2>3 DEF DrivesTyped
  <2>5. At(r, c, p)'
    BY <1>1, <1>5, <2>1, <2>2 DEF At
  <2> QED  BY <1>1, <2>2, <2>4, <2>5, AfterNoWrite
<1> QED  BY <1>6, <1>7

\* The drive goes on with the main conversation, which may be a new one.
LEMMA GoOnSteps ==
    ASSUME NEW c, NEW p, Before(c, p), NEW q, q = Path(c)', NEW r \in Runs, DriveGoesOn(r)
    PROVE  CompactionInv' /\ Frozen
<1> DEFINE compacted == cid[r] \in didRun
           target == IF compacted THEN c ELSE cid[r]
           over == compacted /\ RunStatus(p) = "idle"
<1>1. pc[r] \in {"finished", "skipped"} /\ plan[r] = "drive" /\ cid[r] \notin cancelled
  BY DEF DriveGoesOn
<1>2. Known(c, p) /\ DrivesTyped /\ OneDrive
  BY KnownBefore DEF Before, CompactionInv
<1>3. At(r, c, p) \/ Behind(r, c, p)
  BY <1>1, <1>2 DEF Before, CompactionInv, DrivesOK, Known
<1>4. target = c
  BY <1>3 DEF At, Behind
<1>5. /\ cid' = [cid EXCEPT ![r] = c]
      /\ registry' = IF c # cid[r] THEN Rebound(r) ELSE registry
      /\ didRun' = IF compacted THEN didRun \cup {c} ELSE didRun
      /\ IF over \/ HasOpenTurn(p) THEN UNCHANGED <<entries, nodes>> ELSE AppendAll(c, <<TurnStart>>)
      /\ Goes(r, IF over THEN "ended" ELSE "turn")
      /\ NewPlan(r, "none")
      /\ UNCHANGED <<cancelled, token, seen, counters>>
  <2>1. target = (IF cid[r] \in didRun THEN Main ELSE cid[r])
    BY DEF Before
  <2>2. over <=> cid[r] \in didRun /\ RunStatus(Path(Main)) = "idle"
    BY DEF Before
  <2>3. Path(target) = p
    BY <1>4 DEF Before
  <2> HIDE DEF target, over
  <2> QED  BY <1>4, <2>1, <2>2, <2>3 DEF DriveGoesOn
<1>6. ~Compacting(p) /\ (HasOpenTurn(p) => ~over) /\ (~HasOpenTurn(p) /\ ~over => Owed(p))
  <2>1. CASE pc[r] = "skipped"
    <3>1. At(r, c, p)
      BY <1>3, <2>1 DEF Behind
    <3> QED  BY <3>1, <2>1 DEF At
  <2>2. CASE pc[r] = "finished"
    <3>1. ~HasOpenTurn(p)
      BY <1>3, <2>2 DEF At, Behind
    <3>2. compacted
      BY <1>1, <1>3, <2>2 DEF At, Behind
    <3>3. ~Compacting(p)
      BY <3>1 DEF Compacting, OpensCompaction, HasOpenTurn
    <3> QED  BY <3>1, <3>2, <3>3, StatusIsOwed
  <2> QED  BY <1>1, <2>1, <2>2
<1>7. cid'[r] = c /\ cid' \in [Runs -> Slots]
  BY <1>2, <1>5 DEF DrivesTyped, Known
<1>8. registry'[c] = r /\ registry' \in [Slots -> Runs \cup {NoRun}]
  <2>1. CASE c # cid[r]
    <3>1. registry' = Rebound(r)
      BY <1>5, <2>1
    <3> QED  BY <3>1, <1>2 DEF Rebound, Before, Known, DrivesTyped
  <2>2. CASE c = cid[r]
    <3>1. At(r, c, p) /\ registry' = registry
      BY <1>2, <1>3, <1>5, <2>2 DEF Behind, Known
    <3> QED  BY <3>1, <1>2 DEF At, DrivesTyped
  <2> QED  BY <2>1, <2>2
<1>9. /\ plan' \in [Runs -> {"none", "plan", "nothing", "raised", "invalid", "drive", "raise"}]
      /\ plan'[r] = "none"
  BY <1>2, <1>5, PlanTyped
<1> DEFINE w == IF over THEN "ended" ELSE "turn"
<1>10. Goes(r, w) /\ w \in Waiting \cup {"skipped", "turn"} /\ pc[r] # "off"
  BY <1>1, <1>5 DEF Waiting
<1>11. w = (IF over THEN "ended" ELSE "turn")
  OBVIOUS
<1> HIDE DEF w
<1>12. OneDrive' /\ pc'[r] = w /\ \A t \in Runs : pc'[t] # "off" => t = r
  BY <1>2, <1>10, OneDriveGoes
<1>13. pc' \in [Runs -> Waiting \cup {"skipped", "turn"}]
  BY <1>2, <1>10, GoesTyped
<1>14. didRun' \subseteq Slots
  BY <1>2, <1>5 DEF DrivesTyped, Known
<1>15. DrivesTyped'
  BY <1>2, <1>5, <1>7, <1>8, <1>9, <1>13, <1>14 DEF DrivesTyped
<1> HIDE DEF over
<1>16. CASE over \/ HasOpenTurn(p)
  <2>1. entries' = entries /\ nodes' = nodes
    BY <1>5, <1>16
  <2>2. At(r, c, p)'
    BY <1>6, <1>7, <1>8, <1>11, <1>12, <1>16 DEF At
  <2>3. \A t \in Runs : pc'[t] # "off" => At(t, c, p)' \/ Behind(t, c, p)'
    BY <1>12, <2>2
  <2> QED  BY <1>5, <1>12, <1>15, <2>1, <2>3, AfterNoWrite
<1>17. CASE ~over /\ ~HasOpenTurn(p)
  <2>1. AppendAll(c, <<TurnStart>>) /\ Owed(p)
    BY <1>5, <1>6, <1>17
  <2>2. Wrote(c) /\ PathOK(q) /\ HasOpenTurn(q) /\ ~Compacting(q)
    BY <2>1, <1>17, TurnIsOpened
  <2>3. Budget'
    <3>1. Main' = c /\ c \in Conversations'
      BY <1>2, <2>2 DEF Wrote, Known
    <3> QED  BY <3>1, <1>2, <1>5, <2>2, BudgetKept DEF Before, CompactionInv, Known
  <2>4. At(r, c, q)'
    BY <2>2, <1>7, <1>8, <1>11, <1>12, <1>17 DEF At
  <2>5. \A t \in Runs : pc'[t] # "off" => At(t, c, q)' \/ Behind(t, c, q)'
    BY <1>12, <2>4
  <2> QED  BY <2>2, <2>3, <2>5, <1>12, <1>15, AfterWrite
<1> QED  BY <1>16, <1>17

\* The loop top.
LEMMA LoopSteps ==
    ASSUME NEW c, NEW p, Before(c, p), NEW q, q = Path(c)', NEW r \in Runs, LoopTop(r)
    PROVE  CompactionInv' /\ Frozen
<1>1. pc[r] = "turn" /\ UNCHANGED <<registry, didRun, cancelled, cid, token, snapshot, plan, counters>>
  BY DEF LoopTop
<1>2. Known(c, p) /\ DrivesTyped /\ OneDrive
  BY KnownBefore DEF Before, CompactionInv
<1>3. At(r, c, p) /\ cid[r] = c /\ registry[c] = r
  BY <1>1, DriveIsAt
<1>4. HasOpenTurn(p) /\ ~Compacting(p)
  BY <1>1, <1>3 DEF At
<1>5. IF CancelIsPending(p)
      THEN /\ \E i \in PendingCancel(p) : AppendAll(c, <<TurnFinish(p[i].outcome)>>)
           /\ Goes(r, "ended") /\ UNCHANGED seen
      ELSE /\ Goes(r, "llm") /\ seen' = [seen EXCEPT ![r] = Len(p)]
           /\ UNCHANGED <<entries, nodes>>
  BY <1>3 DEF LoopTop, Before
<1>6. CASE CancelIsPending(p)
  <2>1. PICK i \in PendingCancel(p) : AppendAll(c, <<TurnFinish(p[i].outcome)>>)
    BY <1>5, <1>6
  <2>2. Goes(r, "ended") /\ seen' = seen
    BY <1>5, <1>6
  <2>3. p[i].outcome \in TurnOutcomes
    BY CancelOutcomes
  <2>4. Wrote(c) /\ Extends(p, q, TurnFinish(p[i].outcome))
    BY <2>1, <2>3, WritesOne, WrittenAreItems, WrittenKinds DEF Before, CompactionInv, PathsOK
  <2>5. PathOK(q) /\ ~HasOpenTurn(q) /\ ~Compacting(q)
    BY <1>2, <1>4, <2>4, TurnCloses DEF Known
  <2>6. OneDrive' /\ pc'[r] = "ended" /\ \A t \in Runs : pc'[t] # "off" => t = r
    BY <1>1, <1>2, <2>2, OneDriveGoes
  <2>7. pc' \in [Runs -> Waiting \cup {"skipped", "turn"}]
    BY <1>2, <2>2, GoesTyped DEF Waiting
  <2>8. DrivesTyped'
    BY <1>1, <1>2, <2>2, <2>7 DEF DrivesTyped
  <2>9. Budget'
    <3>1. Main' = c /\ c \in Conversations'
      BY <1>2, <2>4 DEF Wrote, Known
    <3> QED  BY <3>1, <1>1, <1>2, <2>5, BudgetKept DEF Before, CompactionInv, Known
  <2>10. At(r, c, q)'
    BY <1>1, <1>3, <2>6 DEF At
  <2>11. \A t \in Runs : pc'[t] # "off" => At(t, c, q)' \/ Behind(t, c, q)'
    BY <2>6, <2>10
  <2> QED  BY <2>4, <2>5, <2>6, <2>8, <2>9, <2>11, AfterWrite
<1>7. CASE ~CancelIsPending(p)
  <2>1. Goes(r, "llm") /\ seen' = [seen EXCEPT ![r] = Len(p)] /\ entries' = entries /\ nodes' = nodes
    BY <1>5, <1>7
  <2>2. OneDrive' /\ pc'[r] = "llm" /\ \A t \in Runs : pc'[t] # "off" => t = r
    BY <1>1, <1>2, <2>1, OneDriveGoes
  <2>3. pc' \in [Runs -> Waiting \cup {"skipped", "turn"}]
    BY <1>2, <2>1, GoesTyped DEF Waiting
  <2>4. seen' \in [Runs -> Nat] /\ seen'[r] = Len(p)
    BY <1>2, <2>1 DEF DrivesTyped, Known
  <2>5. DrivesTyped'
    BY <1>1, <1>2, <2>3, <2>4 DEF DrivesTyped
  <2>6. SeenBy(p, seen'[r])
    BY <1>2, <2>4 DEF SeenBy, Known
  <2>7. HasInput(p)
    BY <1>2, <1>4, <1>7 DEF Known, PathOK, TurnHasInput
  <2>8. At(r, c, p)'
    BY <1>1, <1>3, <1>4, <1>7, <2>2, <2>6, <2>7 DEF At
  <2>9. \A t \in Runs : pc'[t] # "off" => At(t, c, p)' \/ Behind(t, c, p)'
    BY <2>2, <2>8
  <2> QED  BY <1>1, <2>1, <2>2, <2>5, <2>9, AfterNoWrite
<1> QED  BY <1>6, <1>7

\* The model answers.
LEMMA AnswerSteps ==
    ASSUME NEW c, NEW p, Before(c, p), NEW q, q = Path(c)', NEW r \in Runs, ModelAnswers(r)
    PROVE  CompactionInv' /\ Frozen
<1> DEFINE last == ~UserMessageBeyond(p, seen[r]) /\ ~CancelIsPending(p)
           answer == AssistantMessage("stop", seen[r])
           w == IF last THEN "ended" ELSE "turn"
<1>1. pc[r] = "llm" /\ UNCHANGED <<registry, didRun, cancelled, cid, token, snapshot, plan, seen, counters>>
  BY DEF ModelAnswers
<1>2. Known(c, p) /\ DrivesTyped /\ OneDrive
  BY KnownBefore DEF Before, CompactionInv
<1>3. At(r, c, p) /\ cid[r] = c /\ registry[c] = r
  BY <1>1, DriveIsAt
<1>4. HasOpenTurn(p) /\ ~Compacting(p) /\ SeenBy(p, seen[r])
  BY <1>1, <1>3 DEF At
<1>5. /\ AppendAll(c, IF last THEN <<answer, TurnFinish("completed")>> ELSE <<answer>>)
      /\ Goes(r, w)
  BY <1>3 DEF ModelAnswers, Before
<1>6. seen[r] \in Nat /\ "completed" \in TurnOutcomes
  BY <1>2 DEF DrivesTyped, TurnOutcomes
<1>7. answer \in Items /\ answer.kind = "assistant" /\ TurnFinish("completed") \in Items
      /\ TurnFinish("completed").kind = "finish"
  BY <1>6, WrittenAreItems, WrittenKinds
<1>8. w \in Waiting \cup {"skipped", "turn"}
  BY DEF Waiting
<1>9. (last => w = "ended") /\ (~last => w = "turn")
  OBVIOUS
<1> HIDE DEF w
<1>10. OneDrive' /\ pc'[r] = w /\ \A t \in Runs : pc'[t] # "off" => t = r
  BY <1>1, <1>2, <1>5, OneDriveGoes
<1>11. pc' \in [Runs -> Waiting \cup {"skipped", "turn"}]
  BY <1>2, <1>5, <1>8, GoesTyped
<1>12. DrivesTyped'
  BY <1>1, <1>2, <1>11 DEF DrivesTyped
<1>13. ASSUME Wrote(c), PathOK(q), ~Compacting(q), At(r, c, q)' PROVE CompactionInv' /\ Frozen
  <2>1. Budget'
    <3>1. Main' = c /\ c \in Conversations'
      BY <1>2, <1>13 DEF Wrote, Known
    <3> QED  BY <3>1, <1>1, <1>2, <1>13, BudgetKept DEF Before, CompactionInv, Known
  <2>2. \A t \in Runs : pc'[t] # "off" => At(t, c, q)' \/ Behind(t, c, q)'
    BY <1>10, <1>13
  <2> QED  BY <1>10, <1>12, <1>13, <2>1, <2>2, AfterWrite
<1>14. CASE last
  <2>1. AppendAll(c, <<answer, TurnFinish("completed")>>)
    BY <1>5, <1>14
  <2> HIDE DEF answer, last
  <2>2. Wrote(c) /\ \E m : Extends(p, m, answer) /\ Extends(m, q, TurnFinish("completed"))
    BY <2>1, <1>7, WritesTwo DEF Before, CompactionInv, PathsOK
  <2>3. PICK m : Extends(p, m, answer) /\ Extends(m, q, TurnFinish("completed"))
    BY <2>2
  <2>4. Bracketed(m) /\ HasOpenTurn(m)
    BY <2>3, <1>2, <1>4, <1>6, AnswerKeeps DEF answer, Known
  <2>5. PathOK(q) /\ ~HasOpenTurn(q) /\ ~Compacting(q)
    BY <2>3, <2>4, TurnCloses
  <2>6. At(r, c, q)'
    BY <1>1, <1>3, <1>9, <1>10, <1>14 DEF At
  <2> QED  BY <2>2, <2>5, <2>6, <1>13
<1>15. CASE ~last
  <2>1. AppendAll(c, <<answer>>)
    BY <1>5, <1>15
  <2>2. UserMessageBeyond(p, seen[r]) \/ CancelIsPending(p)
    BY <1>15
  <2> HIDE DEF answer, last
  <2>3. Wrote(c) /\ Extends(p, q, answer)
    BY <2>1, <1>7, WritesOne DEF Before, CompactionInv, PathsOK
  <2>4. /\ Bracketed(q) /\ HasOpenTurn(q) /\ ~Compacting(q)
        /\ SeenBy(p, seen[r]) /\ UserMessageBeyond(p, seen[r]) => PathOK(q)
        /\ CancelIsPending(p) => PathOK(q)
    BY <2>3, <1>2, <1>4, <1>6, AnswerKeeps DEF answer, Known
  <2>5. PathOK(q)
    BY <2>2, <2>4, <1>4
  <2>6. At(r, c, q)'
    BY <2>4, <1>1, <1>3, <1>9, <1>10, <1>15 DEF At
  <2> QED  BY <2>3, <2>4, <2>5, <2>6, <1>13
<1> QED  BY <1>14, <1>15

-----------------------------------------------------------------------------
(* The invariant holds.                                                    *)

\* The initial state.
LEMMA InvStarts == CompactionInit => CompactionInv
<1> SUFFICES ASSUME CompactionInit PROVE CompactionInv
  OBVIOUS
<1>1. nodes = << <<>> >> /\ entries = <<>> /\ Main = 1 /\ Conversations = {1} /\ nodes[1] = <<>>
  BY DEF CompactionInit, Main, Conversations
<1>2. MaxRewinds \in Nat /\ MaxSchedules \in Nat /\ MaxBrackets \in Nat
  BY CompactionAssumption
<1>3. 1 \in Slots
  BY <1>2 DEF Slots
<1>4. DrivesTyped
  <2>1. registry \in [Slots -> Runs \cup {NoRun}] /\ didRun = {} /\ cancelled = {}
    BY DEF CompactionInit
  <2>2. pc \in [Runs -> Waiting \cup {"skipped", "turn"}]
    BY DEF CompactionInit, Waiting
  <2>3. cid \in [Runs -> Slots]
    BY <1>3 DEF CompactionInit
  <2>4. token \in [Runs -> BOOLEAN] /\ seen \in [Runs -> Nat]
    BY DEF CompactionInit
  <2>5. plan \in [Runs -> {"none", "plan", "nothing", "raised", "invalid", "drive", "raise"}]
    BY DEF CompactionInit
  <2> QED  BY <2>1, <2>2, <2>3, <2>4, <2>5 DEF DrivesTyped
<1>5. entries \in Seq(Items) /\ DOMAIN entries = {}
  BY <1>1
<1>6. nodes \in Seq(Seq(Nat))
  BY <1>1
<1>7. DOMAIN nodes[1] = {}
  BY <1>1
<1>8. Path(1) = <<>>
  BY <1>1 DEF Path, Resolved
<1>9. DOMAIN Path(1) = {}
  BY <1>8
<1>10. StoreOK
  BY <1>1, <1>5, <1>6, <1>7 DEF StoreOK, EntriesOK, NodesOK
<1>11. FoldsOK
  BY <1>1 DEF FoldsOK
<1>12. Alternates(Path(1)) /\ PathOK(Path(1)) /\ ~Compacting(Path(1))
  BY <1>9 DEF Alternates, PathOK, Bracketed, CompactionsAreMute, OpenCompactionIsBare, TurnHasInput,
              HasOpenTurn, Compacting
<1>13. PathsOK
  BY <1>1, <1>10, <1>11, <1>12 DEF PathsOK
<1>14. counters = [posts |-> 0, cancels |-> 0, schedules |-> 0, rewinds |-> 0,
                   faults |-> 0, begins |-> 0, brackets |-> 0]
  BY DEF CompactionInit
<1>15. counters \in [{"posts", "cancels", "schedules", "rewinds", "faults", "begins", "brackets"} -> Nat]
  BY <1>14
<1>16. counters.rewinds = 0 /\ counters.schedules = 0 /\ counters.brackets = 0
  BY <1>14
<1>17. Budget
  <2>1. Main <= 1 + Brackets
    BY <1>1, <1>16 DEF Brackets
  <2>2. ~\E c \in Conversations : Compacting(Path(c))
    BY <1>1, <1>12
  <2> QED  BY <2>1, <2>2, <1>2, <1>15, <1>16 DEF Budget
<1>18. \A r \in Runs : pc[r] = "off"
  BY DEF CompactionInit
<1>19. OneDrive /\ DrivesOK
  BY <1>18 DEF OneDrive, DrivesOK
<1> QED  BY <1>4, <1>13, <1>17, <1>19 DEF CompactionInv

\* A step that changes nothing.
LEMMA InvRests == CompactionInv /\ UNCHANGED compactionVars => CompactionInv' /\ Frozen
<1> SUFFICES ASSUME CompactionInv, UNCHANGED compactionVars PROVE CompactionInv' /\ Frozen
  OBVIOUS
<1>1. UNCHANGED <<entries, nodes, registry, didRun, cancelled, pc, cid, token, snapshot, plan, seen, counters>>
  BY DEF compactionVars, drives
<1>2. PICK c : c = Main
  OBVIOUS
<1>3. PICK p : p = Path(c)
  OBVIOUS
<1>4. Before(c, p)
  BY <1>2, <1>3 DEF Before
<1>5. Known(c, p)
  BY <1>4, KnownBefore
<1>6. DrivesTyped' /\ OneDrive'
  BY <1>1 DEF CompactionInv, DrivesTyped, OneDrive
<1>7. ASSUME NEW t \in Runs, pc'[t] # "off" PROVE At(t, c, p)' \/ Behind(t, c, p)'
  <2>1. At(t, c, p) \/ Behind(t, c, p)
    BY <1>1, <1>2, <1>3, <1>5, <1>7 DEF CompactionInv, DrivesOK, Known
  <2> QED  BY <2>1, <1>1 DEF At, Behind
<1> QED  BY <1>1, <1>4, <1>6, <1>7, AfterNoWrite

\* Every step, whoever takes it.
LEMMA InvSteps ==
    ASSUME Held = FALSE, CompactionInv, CompactionNext
    PROVE  CompactionInv' /\ Frozen
<1>1. PICK c : c = Main
  OBVIOUS
<1>2. PICK p : p = Path(c)
  OBVIOUS
<1>3. PICK q : q = Path(c)'
  OBVIOUS
<1>4. PICK n : n = Path(c + 1)'
  OBVIOUS
<1>5. Before(c, p)
  BY <1>1, <1>2 DEF Before
<1>6. ASSUME NEW d \in Conversations, Post(d) PROVE CompactionInv' /\ Frozen
  BY <1>3, <1>5, <1>6, PostSteps
<1>7. ASSUME Schedule PROVE CompactionInv' /\ Frozen
  BY <1>3, <1>5, <1>7, ScheduleSteps
<1>8. ASSUME NEW cut \in 0 .. Len(nodes[Main]), Rewind(cut) PROVE CompactionInv' /\ Frozen
  BY <1>4, <1>5, <1>8, RewindSteps
<1>9. ASSUME NEW o \in {"cancelled", "errored"}, Cancel(o) PROVE CompactionInv' /\ Frozen
  BY <1>3, <1>5, <1>9, CancelSteps
<1>10. ASSUME NEW r \in Runs, Fault(r) \/ EndRun(r) PROVE CompactionInv' /\ Frozen
  BY <1>5, <1>10, EndSteps
<1>11. ASSUME NEW r \in Runs, NEW eager \in BOOLEAN, NEW due \in BOOLEAN, Begin(r, eager, due)
       PROVE  CompactionInv' /\ Frozen
  BY <1>3, <1>5, <1>11, BeginSteps
<1>12. ASSUME NEW r \in Runs,
              \/ CompactionCancelledBefore(r)
              \/ \E timedOut \in BOOLEAN : CompactionEnds(r, timedOut)
              \/ PlanFails(r) \/ PlanDiscarded(r) \/ NothingToCompact(r) \/ CommitFails(r)
       PROVE  CompactionInv' /\ Frozen
  BY <1>3, <1>5, <1>12, ClosingSteps
<1>13. ASSUME NEW r \in Runs, NEW due \in BOOLEAN, CompactionStarts(r, due) PROVE CompactionInv' /\ Frozen
  BY <1>3, <1>5, <1>13, StartSteps
<1>14. ASSUME NEW r \in Runs,
              \/ CompactionSkipped(r) \/ TakeSnapshot(r)
              \/ \E bad \in {"no", "raised", "invalid"} : Compacted(r, bad)
       PROVE  CompactionInv' /\ Frozen
  BY <1>5, <1>14, WaitSteps
<1>15. ASSUME NEW r \in Runs, Commit(r) PROVE CompactionInv' /\ Frozen
  BY <1>4, <1>5, <1>15, CommitSteps
<1>16. ASSUME NEW r \in Runs, DriveStops(r) \/ ModelLost(r) PROVE CompactionInv' /\ Frozen
  BY <1>5, <1>16, StopSteps
<1>17. ASSUME NEW r \in Runs, DriveGoesOn(r) PROVE CompactionInv' /\ Frozen
  BY <1>3, <1>5, <1>17, GoOnSteps
<1>18. ASSUME NEW r \in Runs, LoopTop(r) PROVE CompactionInv' /\ Frozen
  BY <1>3, <1>5, <1>18, LoopSteps
<1>19. ASSUME NEW r \in Runs, ModelAnswers(r) PROVE CompactionInv' /\ Frozen
  BY <1>3, <1>5, <1>19, AnswerSteps
<1>20. ASSUME Environment PROVE CompactionInv' /\ Frozen
  BY <1>6, <1>7, <1>8, <1>9, <1>10, <1>11, <1>20 DEF Environment
<1>21. ASSUME NEW r \in Runs, Step(r) PROVE CompactionInv' /\ Frozen
  BY <1>10, <1>12, <1>13, <1>14, <1>15, <1>16, <1>17, <1>18, <1>21 DEF Step
<1>22. ASSUME NEW r \in Runs, Answers(r) PROVE CompactionInv' /\ Frozen
  BY <1>12, <1>14, <1>19, <1>22 DEF Answers
<1> QED  BY <1>20, <1>21, <1>22 DEF CompactionNext

\* Two runs, and whoever drives, posts, cancels, schedules, rewinds or
\* compacts: as long as nobody begins a run or schedules a compaction while
\* CompactionFinished is held, the invariant holds.
THEOREM CompactionHolds ==
    ASSUME Held = FALSE
    PROVE  CompactionSpec => []CompactionInv
<1>1. CompactionInit => CompactionInv
  BY InvStarts
<1>2. CompactionInv /\ [CompactionNext]_compactionVars => CompactionInv'
  BY InvSteps, InvRests
<1> QED  BY <1>1, <1>2, PTL DEF CompactionSpec

\* What the invariant says of the properties.
LEMMA InvIsSound == CompactionInv => CompactionSound
<1> SUFFICES ASSUME CompactionInv PROVE CompactionSound
  OBVIOUS
<1>1. PICK c : c = Main
  OBVIOUS
<1>2. PICK p : p = Path(c)
  OBVIOUS
<1>3. Before(c, p) /\ Known(c, p)
  BY <1>1, <1>2, KnownBefore DEF Before
<1>4. CompactionTypeOK
  <2>1. \A d \in Conversations : \A k \in DOMAIN nodes[d] : nodes[d][k] \in DOMAIN entries
    BY DEF CompactionInv, PathsOK, StoreOK, NodesOK
  <2> QED  BY <1>1, <1>3, <2>1 DEF CompactionTypeOK, CompactionInv, DrivesTyped, Known
<1>5. BracketsNeverNest
  BY DEF BracketsNeverNest, CompactionInv, PathsOK, Alternates
<1>6. ASSUME NEW r \in Runs, pc[r] \in {"turn", "llm"} PROVE At(r, c, p) /\ cid[r] = c /\ registry[c] = r
  BY <1>3, <1>6, DriveIsAt
<1>7. CancelReachesTheDrive
  <2>1. ASSUME NEW r \in Runs, pc[r] \in {"turn", "llm"}
        PROVE  /\ cid[r] = Main /\ registry[Main] = r
               /\ CancelIsPending(Path(Main)) /\ pc[r] = "llm" => token[r]
    BY <2>1, <1>1, <1>2, <1>6 DEF At
  <2> QED  BY <2>1 DEF CancelReachesTheDrive
<1>8. FoldedOrCarried
  BY FoldsAreFoldedOrCarried DEF CompactionInv, PathsOK, StoreOK
<1>9. ModelCallHasInput
  <2>1. ASSUME NEW r \in Runs, pc[r] = "llm" PROVE HasInput(Path(cid[r]))
    BY <2>1, <1>2, <1>6 DEF At
  <2> QED  BY <2>1 DEF ModelCallHasInput, HasInput
<1> QED  BY <1>4, <1>5, <1>7, <1>8, <1>9 DEF CompactionSound

\* Turns are bracketed on every path, a cancel reaches the drive it is meant
\* for, a compaction accounts for every entry it replaced, and the model is
\* never called without a user message it has not answered (`_compaction_step`,
\* `_commit`, `_drive`, `rewind_to`, `schedule_compaction`).
THEOREM CompactionIsSound ==
    ASSUME Held = FALSE
    PROVE  CompactionSpec => []CompactionSound
<1>1. CompactionSpec => []CompactionInv
  BY CompactionHolds
<1>2. CompactionInv => CompactionSound
  BY InvIsSound
<1> QED  BY <1>1, <1>2, PTL

\* A conversation that was replaced is never written to again (`_require_live`).
THEOREM ReplacedIsFrozen ==
    ASSUME Held = FALSE
    PROVE  CompactionSpec => ArchivesAreFrozen
<1>1. CompactionInv /\ [CompactionNext]_compactionVars =>
         [\A c \in Conversations \ {Main} : nodes'[c] = nodes[c]]_compactionVars
  BY InvSteps DEF Frozen
<1>2. CompactionSpec => []CompactionInv
  BY CompactionHolds
<1> QED  BY <1>1, <1>2, PTL DEF CompactionSpec, ArchivesAreFrozen
=============================================================================
