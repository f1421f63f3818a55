--------------------------- MODULE StreamerProofs ---------------------------
(***************************************************************************)
(* Theorems about Streamer, for every number of raw events and blocks: the *)
(* contract of `stream()` holds on every wire, whatever ends a read.       *)
(*                                                                         *)
(* The argument has three layers.  A block of the message and what was     *)
(* said about it agree, and each thing a handler can do, open, add, close, *)
(* keeps the two in step (Tells).  What the provider has said so far and   *)
(* the maps a wire keeps agree (InStep), so that a handler never adds to a *)
(* block that is closed and leaves none open behind the end.  And what was *)
(* said, told and pending in one, begins once and ends once.               *)
(***************************************************************************)
EXTENDS Streamer, FiniteSetTheorems, SequenceTheorems, TLAPS

-----------------------------------------------------------------------------
(* Types.                                                                  *)

Kinds == {"text", "thinking", "call", "web", "result"}
Blocks == [kind : Kinds, text : Nat, done : BOOLEAN]
Words == {"start", "usage", "open", "web_start", "delta", "close", "web_end", "finish", "cancelled", "error"}
Events == [what : Words, at : Nat]
Maps == UNION {[D -> Nat] : D \in SUBSET Nat}

Messages == [content : Seq(Blocks), idx : Maps, run : Nat, held : Maps,
             started : BOOLEAN, stop : BOOLEAN, usage : BOOLEAN]

\* The maps of a wire lead into the message; a hosted result is whole from birth.
Leads(m) ==
    /\ \A k \in DOMAIN m.idx : m.idx[k] \in 1 .. Len(m.content)
    /\ m.run \in 0 .. Len(m.content)
    /\ \A n \in 1 .. Len(m.content) : m.content[n].kind = "result" => m.content[n].done

Stages == {"begin", "body", "reason", "usage", "over"}
Servers == [stage : Stages, blocks : [1 .. MaxBlocks -> {"none", "text", "thinking", "call", "web"}],
            open : 0 .. MaxBlocks, said : Nat]

-----------------------------------------------------------------------------
(* What was said about a block.                                            *)

Heard(q, n) == {i \in DOMAIN q : q[i].at = n}
Opening(e) == e.what \in {"open", "web_start"}
Closing(e) == e.what \in {"close", "web_end"}

Unheard(q, n) == Heard(q, n) = {}

\* Opened, with k events so far and no end.
Speaking(q, n, k) ==
    /\ Cardinality(Heard(q, n)) = k
    /\ \E f \in Heard(q, n) : \A i \in Heard(q, n) :
          f <= i /\ (Opening(q[i]) <=> i = f) /\ ~Closing(q[i])

\* Opened and closed, with k events in all.
Spoken(q, n, k, end) ==
    /\ Cardinality(Heard(q, n)) = k
    /\ \E f, l \in Heard(q, n) : /\ q[l].what = end
                                 /\ \A i \in Heard(q, n) : /\ f <= i /\ i <= l
                                                           /\ Opening(q[i]) <=> i = f
                                                           /\ Closing(q[i]) => i = l

EndOf(b) == IF b.kind = "web" THEN "web_end" ELSE "close"

\* Block n is what was said about it.
Narrates(b, q, n) ==
    IF b.kind = "result" THEN Unheard(q, n)
    ELSE IF b.done THEN Spoken(q, n, b.text + 2, EndOf(b))
    ELSE Speaking(q, n, b.text + 1)

Tells(c, q) == \A n \in Nat \ {0} : IF n \in 1 .. Len(c) THEN Narrates(c[n], q, n) ELSE Unheard(q, n)

\* Nothing is missing from c.
Whole(c) == \A n \in 1 .. Len(c) : c[n].kind \in {"text", "thinking", "call"} => c[n].done

-----------------------------------------------------------------------------
(* What the provider has said, and the maps of the wire.                   *)

Underway(s) == s.stage \in {"begin", "body"}
OpenKey(m, n) == \E k \in DOMAIN m.idx : m.idx[k] = n
Unhosted(m) == \A n \in 1 .. Len(m.content) : m.content[n].kind \notin {"web", "result"}

MessagesInStep(s, m) ==
    /\ ~Underway(s) => s.open = 0
    /\ m.run # 0 => m.content[m.run].kind = "text" /\ ~m.content[m.run].done
    /\ s.open # 0 =>
          /\ s.open \in DOMAIN m.idx /\ ~m.content[m.idx[s.open]].done
          /\ m.content[m.idx[s.open]].kind = "text" => m.idx[s.open] = m.run
    /\ \A n \in 1 .. Len(m.content) :
          ~m.content[n].done => n = m.run \/ (s.open # 0 /\ n = m.idx[s.open])

ChatInStep(s, m) ==
    /\ \A n \in 1 .. Len(m.content) : ~m.content[n].done <=> OpenKey(m, n)
    /\ m.stop => ~Underway(s) /\ DOMAIN m.idx = {}
    /\ Unhosted(m) /\ \A k \in 1 .. MaxBlocks : s.blocks[k] \notin {"web", "thinking"}

ResponsesInStep(s, m) ==
    s.open # 0 /\ s.open \in DOMAIN m.idx => ~m.content[m.idx[s.open]].done

ConverseInStep(s, m) ==
    /\ ~Underway(s) => s.open = 0
    /\ DOMAIN m.idx \subseteq {s.open} \ {0}
    /\ \A n \in 1 .. Len(m.content) : ~m.content[n].done <=> OpenKey(m, n)
    /\ m.stop => ~Underway(s)
    /\ Unhosted(m) /\ \A k \in 1 .. MaxBlocks : s.blocks[k] # "web"

InStep(s, m) ==
    CASE wire = "messages" -> MessagesInStep(s, m)
      [] wire = "chat" -> ChatInStep(s, m)
      [] wire = "responses" -> ResponsesInStep(s, m)
      [] wire = "converse" -> ConverseInStep(s, m)

\* The start is still to be said when a wire is about to say it.
Unbegun(s, m) == IF wire \in {"messages", "converse"} THEN s.stage = "begin" ELSE ~m.started
-----------------------------------------------------------------------------
(* What was said about a block when more is said.                          *)

\* Two speeches in a row are one speech.
LEMMA Joined ==
    ASSUME NEW q \in Seq(Events), NEW out \in Seq(Events)
    PROVE  /\ q \o out \in Seq(Events) /\ Len(q \o out) = Len(q) + Len(out)
           /\ \A i \in 1 .. Len(q) : (q \o out)[i] = q[i]
           /\ \A i \in 1 .. Len(out) : (q \o out)[Len(q) + i] = out[i]
           /\ \A i \in 1 .. Len(q) + Len(out) : i \in 1 .. Len(q) \/ i - Len(q) \in 1 .. Len(out)
<1>1. q \o out \in Seq(Events) /\ Len(q \o out) = Len(q) + Len(out)
  BY ConcatProperties, Zenon
<1>2. \A i \in 1 .. Len(q) + Len(out) : (q \o out)[i] = IF i <= Len(q) THEN q[i] ELSE out[i - Len(q)]
  BY ConcatProperties, Zenon
<1>3. Len(q) \in Nat /\ Len(out) \in Nat
  BY LenProperties
<1>4. \A i \in 1 .. Len(q) : (q \o out)[i] = q[i]
  BY <1>2, <1>3
<1>5. \A i \in 1 .. Len(out) : (q \o out)[Len(q) + i] = out[i]
  BY <1>2, <1>3
<1> QED  BY <1>1, <1>3, <1>4, <1>5

\* What is said about a block lies within the speech.
LEMMA HeardWithin ==
    ASSUME NEW q \in Seq(Events), NEW n
    PROVE  /\ Heard(q, n) \subseteq 1 .. Len(q) /\ IsFiniteSet(Heard(q, n))
           /\ Cardinality(Heard(q, n)) \in Nat
           /\ \A i : i \in Heard(q, n) <=> i \in 1 .. Len(q) /\ q[i].at = n
<1>1. DOMAIN q = 1 .. Len(q) /\ Len(q) \in Nat
  BY LenProperties
<1>2. Heard(q, n) \subseteq 1 .. Len(q) /\ \A i : i \in Heard(q, n) <=> i \in 1 .. Len(q) /\ q[i].at = n
  BY <1>1 DEF Heard
<1>3. IsFiniteSet(1 .. Len(q))
  <2>1. 1 \in Int /\ Len(q) \in Int
    BY <1>1
  <2> QED  BY <2>1, FS_Interval, Zenon
<1>4. IsFiniteSet(Heard(q, n))
  BY <1>2, <1>3, FS_Subset
<1> QED  BY <1>2, <1>4, FS_CardinalityType

\* What is heard of a speech in two parts.
LEMMA HeardJoined ==
    ASSUME NEW q \in Seq(Events), NEW out \in Seq(Events), NEW n
    PROVE  /\ \A i : i \in Heard(q \o out, n) <=>
                       i \in Heard(q, n) \/ \E j \in Heard(out, n) : i = Len(q) + j
           /\ Cardinality(Heard(q \o out, n)) = Cardinality(Heard(q, n)) + Cardinality(Heard(out, n))
<1> DEFINE shifted == {Len(q) + j : j \in Heard(out, n)}
           shift == [j \in Heard(out, n) |-> Len(q) + j]
<1>1. Len(q) \in Nat /\ Len(out) \in Nat
  BY LenProperties
<1>2. \A i : i \in Heard(q, n) <=> i \in 1 .. Len(q) /\ q[i].at = n
  BY HeardWithin
<1>3. \A i : i \in Heard(out, n) <=> i \in 1 .. Len(out) /\ out[i].at = n
  BY HeardWithin
<1>4. \A i : i \in Heard(q \o out, n) <=> i \in 1 .. Len(q) + Len(out) /\ (q \o out)[i].at = n
  <2>1. q \o out \in Seq(Events) /\ Len(q \o out) = Len(q) + Len(out)
    BY Joined
  <2> QED  BY <2>1, HeardWithin
<1>5. ASSUME NEW i
      PROVE  i \in Heard(q \o out, n) <=> i \in Heard(q, n) \/ \E j \in Heard(out, n) : i = Len(q) + j
  <2>1. ASSUME i \in Heard(q \o out, n)
        PROVE  i \in Heard(q, n) \/ \E j \in Heard(out, n) : i = Len(q) + j
    <3>1. i \in 1 .. Len(q) + Len(out) /\ (q \o out)[i].at = n
      BY <1>4, <2>1
    <3>2. CASE i \in 1 .. Len(q)
      BY <1>2, <3>1, <3>2, Joined
    <3>3. CASE i - Len(q) \in 1 .. Len(out)
      <4>1. i = Len(q) + (i - Len(q))
        BY <1>1, <3>1
      <4>2. (q \o out)[i] = out[i - Len(q)]
        <5>1. (q \o out)[Len(q) + (i - Len(q))] = out[i - Len(q)]
          BY <3>3, Joined, Zenon
        <5> QED  BY <4>1, <5>1, Zenon
      <4>3. i - Len(q) \in Heard(out, n)
        BY <1>3, <3>1, <3>3, <4>2
      <4> QED  BY <4>1, <4>3
    <3> QED  BY <3>1, <3>2, <3>3, Joined
  <2>2. ASSUME i \in Heard(q, n)
        PROVE  i \in Heard(q \o out, n)
    <3>1. i \in 1 .. Len(q) /\ q[i].at = n
      BY <1>2, <2>2
    <3>2. (q \o out)[i] = q[i]
      BY <3>1, Joined
    <3>3. i \in 1 .. Len(q) + Len(out)
      BY <1>1, <3>1
    <3> QED  BY <1>4, <3>1, <3>2, <3>3
  <2>3. ASSUME NEW j \in Heard(out, n), i = Len(q) + j
        PROVE  i \in Heard(q \o out, n)
    <3>1. j \in 1 .. Len(out) /\ out[j].at = n
      BY <1>3, <2>3
    <3>2. (q \o out)[i] = out[j]
      BY <2>3, <3>1, Joined
    <3>3. i \in 1 .. Len(q) + Len(out)
      BY <1>1, <2>3, <3>1
    <3> QED  BY <1>4, <3>1, <3>2, <3>3
  <2> QED  BY <2>1, <2>2, <2>3
<1>6. Heard(q \o out, n) = Heard(q, n) \cup shifted
  BY <1>5
<1>7. IsFiniteSet(Heard(q, n)) /\ IsFiniteSet(Heard(out, n)) /\ Cardinality(Heard(out, n)) \in Nat
  BY HeardWithin
<1>8. shift \in Bijection(Heard(out, n), shifted)
  <2>1. shift \in [Heard(out, n) -> shifted]
    OBVIOUS
  <2>2. \A a, b \in Heard(out, n) : shift[a] = shift[b] => a = b
    BY <1>1, <1>3
  <2>3. \A t \in shifted : \E a \in Heard(out, n) : shift[a] = t
    OBVIOUS
  <2>4. shift \in Injection(Heard(out, n), shifted)
    BY <2>1, <2>2 DEF Injection, IsInjective
  <2>5. shift \in Surjection(Heard(out, n), shifted)
    BY <2>1, <2>3 DEF Surjection
  <2> QED  BY <2>4, <2>5 DEF Bijection
<1>9. IsFiniteSet(shifted) /\ Cardinality(shifted) = Cardinality(Heard(out, n))
  <2>1. ExistsBijection(Heard(out, n), shifted)
    BY <1>8 DEF ExistsBijection
  <2> QED  BY <1>7, <2>1, FS_Bijection
<1>10. Heard(q, n) \cap shifted = {}
  BY <1>1, <1>2, <1>3
<1>11. Cardinality(Heard(q, n) \cup shifted) =
          Cardinality(Heard(q, n)) + Cardinality(shifted) - Cardinality(Heard(q, n) \cap shifted)
  BY <1>7, <1>9, FS_Union
<1>12. Cardinality(Heard(q, n)) \in Nat
  BY HeardWithin
<1>13. Cardinality(Heard(q \o out, n)) = Cardinality(Heard(q, n)) + Cardinality(Heard(out, n))
  <2>1. Cardinality(Heard(q \o out, n)) =
           Cardinality(Heard(q, n)) + Cardinality(Heard(out, n)) - Cardinality(Heard(q, n) \cap shifted)
    BY <1>6, <1>9, <1>11, Zenon
  <2>2. Cardinality(Heard(q, n) \cap shifted) = 0
    BY <1>10, FS_EmptySet, Zenon
  <2> QED  BY <1>7, <1>12, <2>1, <2>2
<1> QED  BY <1>5, <1>13

\* A speech in two parts, seen from a block of the first part, and of the second.
LEMMA HeardFirst ==
    ASSUME NEW q \in Seq(Events), NEW out \in Seq(Events), NEW n, Unheard(out, n)
    PROVE  /\ \A i : i \in Heard(q \o out, n) <=> i \in Heard(q, n)
           /\ \A i \in Heard(q, n) : (q \o out)[i] = q[i]
           /\ Cardinality(Heard(q \o out, n)) = Cardinality(Heard(q, n))
<1>1. Heard(out, n) = {}
  BY DEF Unheard
<1>2. Cardinality(Heard(out, n)) = 0
  BY <1>1, FS_EmptySet, Zenon
<1>3. \A i : i \in Heard(q \o out, n) <=> i \in Heard(q, n)
  BY <1>1, HeardJoined
<1>4. \A i \in Heard(q, n) : (q \o out)[i] = q[i]
  <2>1. Heard(q, n) \subseteq 1 .. Len(q)
    BY HeardWithin
  <2> QED  BY <2>1, Joined
<1>5. Cardinality(Heard(q, n)) \in Nat
  BY HeardWithin
<1>6. Cardinality(Heard(q \o out, n)) = Cardinality(Heard(q, n)) + Cardinality(Heard(out, n))
  BY HeardJoined
<1> QED  BY <1>2, <1>3, <1>4, <1>5, <1>6

\* Nothing more about a block leaves it as it was told.
LEMMA StaysTold ==
    ASSUME NEW q \in Seq(Events), NEW out \in Seq(Events), NEW n, Unheard(out, n), NEW b,
           Narrates(b, q, n)
    PROVE  Narrates(b, q \o out, n)
<1>1. /\ \A i : i \in Heard(q \o out, n) <=> i \in Heard(q, n)
      /\ \A i \in Heard(q, n) : (q \o out)[i] = q[i]
      /\ Cardinality(Heard(q \o out, n)) = Cardinality(Heard(q, n))
  BY HeardFirst
<1>2. Unheard(q, n) => Unheard(q \o out, n)
  BY <1>1 DEF Unheard
<1>3. \A k : Speaking(q, n, k) => Speaking(q \o out, n, k)
  BY <1>1 DEF Speaking
<1>4. \A k, end : Spoken(q, n, k, end) => Spoken(q \o out, n, k, end)
  <2> TAKE k, end
  <2> HAVE Spoken(q, n, k, end)
  <2>1. \E f, l \in Heard(q, n) : /\ q[l].what = end
                                  /\ \A i \in Heard(q, n) : /\ f <= i /\ i <= l
                                                            /\ Opening(q[i]) <=> i = f
                                                            /\ Closing(q[i]) => i = l
    BY DEF Spoken
  <2>2. PICK f, l \in Heard(q, n) : /\ q[l].what = end
                                    /\ \A i \in Heard(q, n) : /\ f <= i /\ i <= l
                                                              /\ Opening(q[i]) <=> i = f
                                                              /\ Closing(q[i]) => i = l
    BY <2>1
  <2>3. \A i \in Heard(q \o out, n) : /\ f <= i /\ i <= l
                                      /\ Opening((q \o out)[i]) <=> i = f
                                      /\ Closing((q \o out)[i]) => i = l
    BY <1>1, <2>2
  <2>4. (q \o out)[l].what = end /\ f \in Heard(q \o out, n) /\ l \in Heard(q \o out, n)
    BY <1>1, <2>2
  <2>5. Cardinality(Heard(q \o out, n)) = k
    BY <1>1 DEF Spoken
  <2> QED  BY <2>3, <2>4, <2>5 DEF Spoken
<1> QED  BY <1>2, <1>3, <1>4 DEF Narrates

\* What is told for the first time is told as it is told now.
LEMMA NewlyTold ==
    ASSUME NEW q \in Seq(Events), NEW out \in Seq(Events), NEW n, Unheard(q, n), NEW b,
           Narrates(b, out, n)
    PROVE  Narrates(b, q \o out, n)
<1>1. Heard(q, n) = {} /\ Cardinality(Heard(q, n)) = 0
  BY FS_EmptySet, Zenon DEF Unheard
<1>2. /\ \A i : i \in Heard(q \o out, n) <=> \E j \in Heard(out, n) : i = Len(q) + j
      /\ Cardinality(Heard(q \o out, n)) = Cardinality(Heard(q, n)) + Cardinality(Heard(out, n))
  <2>1. /\ \A i : i \in Heard(q \o out, n) <=>
                    i \in Heard(q, n) \/ \E j \in Heard(out, n) : i = Len(q) + j
        /\ Cardinality(Heard(q \o out, n)) = Cardinality(Heard(q, n)) + Cardinality(Heard(out, n))
    BY HeardJoined, Zenon
  <2> QED  BY <1>1, <2>1, Zenon
<1>3. Cardinality(Heard(out, n)) \in Nat /\ Heard(out, n) \subseteq 1 .. Len(out)
  BY HeardWithin
<1>4. Cardinality(Heard(q \o out, n)) = Cardinality(Heard(out, n))
  BY <1>1, <1>2, <1>3
<1>5. \A j \in Heard(out, n) : (q \o out)[Len(q) + j] = out[j]
  BY <1>3, Joined
<1>6. Len(q) \in Nat /\ \A j \in Heard(out, n) : j \in Nat
  BY <1>3, LenProperties
<1>7. \A i, j \in Heard(out, n) : (Len(q) + i <= Len(q) + j <=> i <= j) /\ (Len(q) + i = Len(q) + j <=> i = j)
  BY <1>6
<1>8. \A j \in Heard(out, n) : Len(q) + j \in Heard(q \o out, n)
  BY <1>2
<1>9. Unheard(out, n) => Unheard(q \o out, n)
  BY <1>2 DEF Unheard
<1>10. ASSUME NEW k, Speaking(out, n, k)
       PROVE  Speaking(q \o out, n, k)
  <2>1. PICK f \in Heard(out, n) : \A i \in Heard(out, n) :
               f <= i /\ (Opening(out[i]) <=> i = f) /\ ~Closing(out[i])
    BY <1>10 DEF Speaking
  <2>2. \A i \in Heard(q \o out, n) :
           /\ Len(q) + f <= i /\ (Opening((q \o out)[i]) <=> i = Len(q) + f)
           /\ ~Closing((q \o out)[i])
    <3> TAKE i \in Heard(q \o out, n)
    <3>1. PICK j \in Heard(out, n) : i = Len(q) + j
      BY <1>2
    <3>2. (q \o out)[i] = out[j]
      BY <1>5, <3>1
    <3>3. f <= j /\ (Opening(out[j]) <=> j = f) /\ ~Closing(out[j])
      BY <2>1
    <3>4. Len(q) + f <= i /\ (i = Len(q) + f <=> j = f)
      BY <1>7, <3>1, <3>3
    <3> QED  BY <3>2, <3>3, <3>4, Zenon
  <2> QED  BY <1>4, <1>8, <1>10, <2>2 DEF Speaking
<1>11. ASSUME NEW k, NEW end, Spoken(out, n, k, end)
       PROVE  Spoken(q \o out, n, k, end)
  <2>1. \E f, l \in Heard(out, n) : /\ out[l].what = end
                                    /\ \A i \in Heard(out, n) : /\ f <= i /\ i <= l
                                                                /\ Opening(out[i]) <=> i = f
                                                                /\ Closing(out[i]) => i = l
    BY <1>11 DEF Spoken
  <2>2. PICK f, l \in Heard(out, n) : /\ out[l].what = end
                                      /\ \A i \in Heard(out, n) : /\ f <= i /\ i <= l
                                                                  /\ Opening(out[i]) <=> i = f
                                                                  /\ Closing(out[i]) => i = l
    BY <2>1
  <2>3. \A i \in Heard(q \o out, n) :
           /\ Len(q) + f <= i /\ i <= Len(q) + l
           /\ Opening((q \o out)[i]) <=> i = Len(q) + f
           /\ Closing((q \o out)[i]) => i = Len(q) + l
    <3> TAKE i \in Heard(q \o out, n)
    <3>1. PICK j \in Heard(out, n) : i = Len(q) + j
      BY <1>2
    <3>2. (q \o out)[i] = out[j]
      BY <1>5, <3>1
    <3>3. f <= j /\ j <= l /\ (Opening(out[j]) <=> j = f) /\ (Closing(out[j]) => j = l)
      BY <2>2
    <3>4. Len(q) + f <= i /\ i <= Len(q) + l /\ (i = Len(q) + f <=> j = f) /\ (i = Len(q) + l <=> j = l)
      BY <1>7, <3>1, <3>3
    <3> QED  BY <3>2, <3>3, <3>4, Zenon
  <2>4. (q \o out)[Len(q) + l].what = end /\ Len(q) + f \in Heard(q \o out, n) /\ Len(q) + l \in Heard(q \o out, n)
    BY <1>5, <1>8, <2>2
  <2> QED  BY <1>4, <1>11, <2>3, <2>4 DEF Spoken
<1> QED  BY <1>9, <1>10, <1>11 DEF Narrates

\* Pieces are added to what is being said.
Adding(out, n, k) ==
    /\ Cardinality(Heard(out, n)) = k
    /\ \A i \in Heard(out, n) : ~Opening(out[i]) /\ ~Closing(out[i])

\* Pieces added to what is being said leave it being said.
LEMMA GoesOnTelling ==
    ASSUME NEW q \in Seq(Events), NEW out \in Seq(Events), NEW n, NEW j \in Nat, NEW k \in Nat,
           Speaking(q, n, j), Adding(out, n, k)
    PROVE  Speaking(q \o out, n, j + k)
<1>1. PICK f \in Heard(q, n) : \A i \in Heard(q, n) : f <= i /\ (Opening(q[i]) <=> i = f) /\ ~Closing(q[i])
  BY DEF Speaking
<1>2. /\ \A i : i \in Heard(q \o out, n) <=> i \in Heard(q, n) \/ \E l \in Heard(out, n) : i = Len(q) + l
      /\ Cardinality(Heard(q \o out, n)) = Cardinality(Heard(q, n)) + Cardinality(Heard(out, n))
  BY HeardJoined
<1>3. Heard(q, n) \subseteq 1 .. Len(q) /\ Heard(out, n) \subseteq 1 .. Len(out) /\ Len(q) \in Nat
  BY HeardWithin, LenProperties
<1>4. \A i \in Heard(q, n) : (q \o out)[i] = q[i]
  BY <1>3, Joined
<1>5. \A l \in Heard(out, n) : (q \o out)[Len(q) + l] = out[l]
  BY <1>3, Joined
<1>6. \A l \in Heard(out, n) : f <= Len(q) + l /\ Len(q) + l # f
  BY <1>3
<1>7. \A i \in Heard(q, n) :
         f <= i /\ (Opening((q \o out)[i]) <=> i = f) /\ ~Closing((q \o out)[i])
  BY <1>1, <1>4
<1>8. \A l \in Heard(out, n) :
         /\ f <= Len(q) + l /\ (Opening((q \o out)[Len(q) + l]) <=> Len(q) + l = f)
         /\ ~Closing((q \o out)[Len(q) + l])
  BY <1>5, <1>6 DEF Adding
<1>9. \A i \in Heard(q \o out, n) :
         f <= i /\ (Opening((q \o out)[i]) <=> i = f) /\ ~Closing((q \o out)[i])
  <2> TAKE i \in Heard(q \o out, n)
  <2>1. CASE i \in Heard(q, n)
    BY <1>7, <2>1
  <2>2. ASSUME NEW l \in Heard(out, n), i = Len(q) + l
        PROVE  f <= i /\ (Opening((q \o out)[i]) <=> i = f) /\ ~Closing((q \o out)[i])
    BY <1>8, <2>2, Zenon
  <2> QED  BY <1>2, <2>1, <2>2, Zenon
<1>10. Cardinality(Heard(q \o out, n)) = j + k
  BY <1>2 DEF Speaking, Adding
<1> QED  BY <1>2, <1>9, <1>10 DEF Speaking

\* One event ends what is being said.
Ending(out, n, end) == \E i \in Heard(out, n) : Heard(out, n) = {i} /\ out[i].what = end

\* An end of what is being said leaves it said.
LEMMA EndsTelling ==
    ASSUME NEW q \in Seq(Events), NEW out \in Seq(Events), NEW n, NEW j \in Nat,
           Speaking(q, n, j), NEW end \in {"close", "web_end"}, Ending(out, n, end)
    PROVE  Spoken(q \o out, n, j + 1, end)
<1>1. PICK f \in Heard(q, n) : \A i \in Heard(q, n) : f <= i /\ (Opening(q[i]) <=> i = f) /\ ~Closing(q[i])
  BY DEF Speaking
<1>2. PICK e \in Heard(out, n) : Heard(out, n) = {e} /\ out[e].what = end
  BY DEF Ending
<1>3. /\ \A i : i \in Heard(q \o out, n) <=> i \in Heard(q, n) \/ \E l \in Heard(out, n) : i = Len(q) + l
      /\ Cardinality(Heard(q \o out, n)) = Cardinality(Heard(q, n)) + Cardinality(Heard(out, n))
  BY HeardJoined
<1>4. Heard(q, n) \subseteq 1 .. Len(q) /\ e \in 1 .. Len(out) /\ Len(q) \in Nat
  BY HeardWithin, LenProperties
<1>5. \A i \in Heard(q, n) : (q \o out)[i] = q[i] /\ i <= Len(q) + e /\ i # Len(q) + e
  BY <1>4, Joined
<1>6. (q \o out)[Len(q) + e] = out[e] /\ f <= Len(q) + e
  BY <1>4, Joined
<1>7. \A i : i \in Heard(q \o out, n) <=> i \in Heard(q, n) \/ i = Len(q) + e
  BY <1>2, <1>3
<1>8. ~Opening((q \o out)[Len(q) + e]) /\ (q \o out)[Len(q) + e].what = end
  BY <1>2, <1>6 DEF Opening
<1>9. \A i \in Heard(q \o out, n) : /\ f <= i /\ i <= Len(q) + e
                                    /\ Opening((q \o out)[i]) <=> i = f
                                    /\ Closing((q \o out)[i]) => i = Len(q) + e
  <2>1. \A i \in Heard(q, n) : /\ f <= i /\ i <= Len(q) + e
                               /\ Opening((q \o out)[i]) <=> i = f
                               /\ Closing((q \o out)[i]) => i = Len(q) + e
    BY <1>1, <1>5
  <2>2. Len(q) + e <= Len(q) + e /\ Len(q) + e # f
    BY <1>4, <1>5
  <2> QED  BY <1>6, <1>7, <1>8, <2>1, <2>2
<1>10. Cardinality(Heard(q \o out, n)) = j + 1
  <2>1. Cardinality(Heard(out, n)) = 1
    BY <1>2, FS_Singleton, Zenon
  <2> QED  BY <1>3, <2>1 DEF Speaking
<1> QED  BY <1>7, <1>8, <1>9, <1>10 DEF Spoken

-----------------------------------------------------------------------------
(* What a handler may do to the blocks of a message, and what it says of it. *)

\* A block stays, grows by what is said about it, or ends as it is said to.
Grows(b, d, out, n) ==
    /\ d.kind = b.kind
    /\ \/ d.done = b.done /\ d.text = b.text /\ Unheard(out, n)
       \/ ~b.done /\ ~d.done /\ b.kind # "result" /\ \E k \in Nat : d.text = b.text + k /\ Adding(out, n, k)
       \/ ~b.done /\ d.done /\ b.kind # "result" /\ d.text = b.text /\ Ending(out, n, EndOf(b))

Says(c, out, d) ==
    /\ Len(c) <= Len(d)
    /\ \A n \in 1 .. Len(c) : Grows(c[n], d[n], out, n)
    /\ \A n \in 1 .. Len(d) : n > Len(c) => Narrates(d[n], out, n)
    /\ \A n \in Nat \ {0} : n > Len(d) => Unheard(out, n)

\* Whatever told c, and out after it, tells d.
Carries(c, out, d) == \A q \in Seq(Events) : Tells(c, q) => Tells(d, q \o out)

\* A block that grows by what is said about it is still told.
LEMMA GrownIsTold ==
    ASSUME NEW q \in Seq(Events), NEW out \in Seq(Events), NEW n, NEW b \in Blocks, NEW d \in Blocks,
           Narrates(b, q, n), Grows(b, d, out, n)
    PROVE  Narrates(d, q \o out, n)
<1>1. CASE d.done = b.done /\ d.text = b.text /\ Unheard(out, n)
  <2>1. Narrates(b, q \o out, n)
    BY <1>1, StaysTold
  <2>2. d.kind = b.kind
    BY DEF Grows
  <2> QED  BY <1>1, <2>1, <2>2 DEF Narrates, EndOf
<1>2. ASSUME ~b.done, ~d.done, b.kind # "result", NEW k \in Nat, d.text = b.text + k, Adding(out, n, k)
      PROVE  Narrates(d, q \o out, n)
  <2>1. Speaking(q, n, b.text + 1) /\ b.text \in Nat
    BY <1>2 DEF Narrates, Blocks
  <2>2. Speaking(q \o out, n, b.text + 1 + k)
    BY <1>2, <2>1, GoesOnTelling
  <2>3. b.text + 1 + k = d.text + 1 /\ d.kind = b.kind
    BY <1>2, <2>1 DEF Grows
  <2>4. Speaking(q \o out, n, d.text + 1)
    BY <2>2, <2>3
  <2> QED  BY <1>2, <2>3, <2>4 DEF Narrates
<1>3. CASE ~b.done /\ d.done /\ b.kind # "result" /\ d.text = b.text /\ Ending(out, n, EndOf(b))
  <2>1. Speaking(q, n, b.text + 1) /\ b.text \in Nat
    BY <1>3 DEF Narrates, Blocks
  <2>2. EndOf(b) \in {"close", "web_end"} /\ b.text + 1 \in Nat
    BY <2>1 DEF EndOf
  <2>3. Spoken(q \o out, n, b.text + 1 + 1, EndOf(b))
    BY <1>3, <2>1, <2>2, EndsTelling
  <2>4. b.text + 1 + 1 = d.text + 2 /\ d.kind = b.kind /\ EndOf(b) = EndOf(d)
    BY <1>3, <2>1 DEF Grows, EndOf
  <2>5. Spoken(q \o out, n, d.text + 2, EndOf(d))
    BY <2>3, <2>4
  <2> QED  BY <1>3, <2>4, <2>5 DEF Narrates
<1> QED  BY <1>1, <1>2, <1>3 DEF Grows

\* What a handler says of what it does carries the message on.
LEMMA SaidIsCarried ==
    ASSUME NEW c \in Seq(Blocks), NEW d \in Seq(Blocks), NEW out \in Seq(Events), Says(c, out, d)
    PROVE  Carries(c, out, d)
<1> SUFFICES ASSUME NEW q \in Seq(Events), Tells(c, q)
             PROVE  Tells(d, q \o out)
  BY DEF Carries
<1>1. Len(c) \in Nat /\ Len(d) \in Nat /\ Len(c) <= Len(d)
  BY LenProperties DEF Says
<1>2. ASSUME NEW n \in 1 .. Len(d)
      PROVE  Narrates(d[n], q \o out, n)
  <2>1. n \in Nat \ {0} /\ d[n] \in Blocks
    BY <1>1, ElementOfSeq
  <2>2. CASE n \in 1 .. Len(c)
    <3>1. c[n] \in Blocks /\ Narrates(c[n], q, n) /\ Grows(c[n], d[n], out, n)
      BY <2>1, <2>2, ElementOfSeq DEF Tells, Says
    <3> QED  BY <2>1, <3>1, GrownIsTold
  <2>3. CASE n \notin 1 .. Len(c)
    <3>1. Unheard(q, n) /\ Narrates(d[n], out, n)
      BY <1>1, <2>1, <2>3 DEF Tells, Says
    <3> QED  BY <3>1, NewlyTold
  <2> QED  BY <2>2, <2>3
<1>3. ASSUME NEW n \in Nat \ {0}, n \notin 1 .. Len(d)
      PROVE  Unheard(q \o out, n)
  <2>1. Unheard(q, n) /\ Unheard(out, n)
    BY <1>1, <1>3 DEF Tells, Says
  <2> QED  BY <2>1, HeardFirst DEF Unheard
<1> QED  BY <1>2, <1>3 DEF Tells

\* One thing after another.
LEMMA CarriedOn ==
    ASSUME NEW c, NEW d, NEW e, NEW out \in Seq(Events), NEW more \in Seq(Events),
           Carries(c, out, d), Carries(d, more, e)
    PROVE  Carries(c, out \o more, e) /\ out \o more \in Seq(Events)
<1>1. out \o more \in Seq(Events)
  BY Joined
<1>2. ASSUME NEW q \in Seq(Events), Tells(c, q)
      PROVE  Tells(e, q \o (out \o more))
  <2>1. Tells(d, q \o out) /\ q \o out \in Seq(Events)
    BY <1>2, Joined DEF Carries
  <2>2. Tells(e, (q \o out) \o more)
    BY <2>1 DEF Carries
  <2>3. (q \o out) \o more = q \o (out \o more)
    BY ConcatAssociative
  <2> QED  BY <2>2, <2>3
<1> QED  BY <1>1, <1>2 DEF Carries

-----------------------------------------------------------------------------
(* The things a handler says.                                              *)

Quiet(out) == \A n \in Nat \ {0} : Unheard(out, n)

\* One event, and what it is about.
LEMMA OneEvent ==
    ASSUME NEW e \in Events
    PROVE  /\ <<e>> \in Seq(Events) /\ Len(<<e>>) = 1 /\ <<e>>[1] = e
           /\ \A n : Heard(<<e>>, n) = IF e.at = n THEN {1} ELSE {}
BY DEF Heard

\* Nothing said, or nothing about a block.
LEMMA NothingSaid ==
    /\ <<>> \in Seq(Events) /\ Quiet(<<>>)
    /\ \A e \in Events : e.at = 0 => Quiet(<<e>>)
<1>1. Quiet(<<>>)
  BY DEF Quiet, Unheard, Heard
<1>2. \A e \in Events : e.at = 0 => Quiet(<<e>>)
  BY OneEvent DEF Quiet, Unheard
<1> QED  BY <1>1, <1>2, EmptySeq

\* Events about no block leave the message as it is.
LEMMA QuietCarries ==
    ASSUME NEW c \in Seq(Blocks), NEW out \in Seq(Events), Quiet(out)
    PROVE  Carries(c, out, c)
<1>1. Len(c) \in Nat
  BY LenProperties
<1>2. \A n \in 1 .. Len(c) : n \in Nat \ {0}
  BY <1>1
<1>3. Says(c, out, c)
  BY <1>1, <1>2 DEF Says, Grows, Quiet
<1> QED  BY <1>3, SaidIsCarried

\* The blocks of c, the n-th apart.
Besides(c, d, n) ==
    Len(d) = Len(c) /\ \A j \in 1 .. Len(c) : j # n => d[j] = c[j]

\* A piece is added to a block that is not over.
LEMMA DeltaCarries ==
    ASSUME NEW c \in Seq(Blocks), NEW d \in Seq(Blocks), NEW n \in 1 .. Len(c),
           Besides(c, d, n), ~c[n].done, ~d[n].done, c[n].kind # "result", d[n].kind = c[n].kind,
           d[n].text = c[n].text + 1
    PROVE  Carries(c, <<Ev("delta", n)>>, d) /\ <<Ev("delta", n)>> \in Seq(Events)
<1> DEFINE out == <<Ev("delta", n)>>
<1>1. Len(c) \in Nat /\ n \in Nat
  BY LenProperties
<1>2. Ev("delta", n) \in Events /\ Ev("delta", n).at = n /\ Ev("delta", n).what = "delta"
  BY <1>1 DEF Ev, Events, Words
<1>3. out \in Seq(Events) /\ out[1].what = "delta" /\ \A j : Heard(out, j) = IF n = j THEN {1} ELSE {}
  BY <1>2, OneEvent
<1>4. \A j : j # n => Unheard(out, j)
  BY <1>3 DEF Unheard
<1>5. Adding(out, n, 1)
  <2>1. Heard(out, n) = {1}
    BY <1>3
  <2>2. Cardinality(Heard(out, n)) = 1
    BY <2>1, FS_Singleton, Zenon
  <2> QED  BY <1>3, <2>1, <2>2 DEF Adding, Opening, Closing
<1>6. \A j \in 1 .. Len(c) : Grows(c[j], d[j], out, j)
  BY <1>4, <1>5 DEF Grows, Besides
<1>7. Says(c, out, d)
  <2>1. Len(d) = Len(c)
    BY DEF Besides
  <2>2. \A j \in Nat \ {0} : j > Len(d) => Unheard(out, j)
    BY <1>1, <1>4, <2>1
  <2>3. \A j \in 1 .. Len(d) : ~(j > Len(c)) /\ Len(c) <= Len(d)
    BY <1>1, <2>1
  <2> QED  BY <1>1, <1>6, <2>1, <2>2, <2>3 DEF Says
<1> QED  BY <1>3, <1>7, SaidIsCarried

\* A block that is not over ends.
LEMMA EndCarries ==
    ASSUME NEW c \in Seq(Blocks), NEW d \in Seq(Blocks), NEW n \in 1 .. Len(c),
           Besides(c, d, n), ~c[n].done, d[n].done, c[n].kind # "result", d[n].kind = c[n].kind,
           d[n].text = c[n].text
    PROVE  Carries(c, <<Ev(EndOf(c[n]), n)>>, d) /\ <<Ev(EndOf(c[n]), n)>> \in Seq(Events)
<1> DEFINE end == EndOf(c[n])
           out == <<Ev(end, n)>>
<1>1. Len(c) \in Nat /\ n \in Nat
  BY LenProperties
<1>2. Ev(end, n) \in Events /\ Ev(end, n).at = n /\ Ev(end, n).what = end
  BY <1>1 DEF Ev, Events, Words, EndOf
<1> HIDE DEF end
<1>3. out \in Seq(Events) /\ out[1].what = end /\ \A j : Heard(out, j) = IF n = j THEN {1} ELSE {}
  BY <1>2, OneEvent
<1>4. \A j : j # n => Unheard(out, j)
  BY <1>3 DEF Unheard
<1>5. Ending(out, n, end)
  BY <1>3 DEF Ending
<1>6. \A j \in 1 .. Len(c) : Grows(c[j], d[j], out, j)
  BY <1>4, <1>5 DEF Grows, Besides, end
<1>7. Says(c, out, d)
  <2>1. Len(d) = Len(c)
    BY DEF Besides
  <2>2. \A j \in Nat \ {0} : j > Len(d) => Unheard(out, j)
    BY <1>1, <1>4, <2>1
  <2>3. \A j \in 1 .. Len(d) : ~(j > Len(c)) /\ Len(c) <= Len(d)
    BY <1>1, <2>1
  <2> QED  BY <1>1, <1>6, <2>1, <2>2, <2>3 DEF Says
<1> QED  BY <1>3, <1>7, SaidIsCarried DEF end

\* A block opens, with what was held back for it.
LEMMA OpenCarries ==
    ASSUME NEW c \in Seq(Blocks), NEW kind \in Kinds \ {"result"}, NEW what \in {"open", "web_start"},
           NEW held \in Seq(Events), \A i \in 1 .. Len(held) : held[i] = Ev("delta", Len(c) + 1)
    PROVE  LET e == Ev(what, Len(c) + 1)
               d == Append(c, [kind |-> kind, text |-> Len(held), done |-> FALSE])
           IN  d \in Seq(Blocks) /\ <<e>> \o held \in Seq(Events) /\ Carries(c, <<e>> \o held, d)
<1> DEFINE n == Len(c) + 1
           e == Ev(what, n)
           h == Len(held)
           out == <<e>> \o held
           b == [kind |-> kind, text |-> h, done |-> FALSE]
           d == Append(c, b)
<1>1. Len(c) \in Nat /\ h \in Nat /\ n \in Nat \ {0}
  BY LenProperties
<1>2. b \in Blocks /\ b.kind = kind /\ b.text = h /\ ~b.done
  BY <1>1 DEF Blocks
<1>3. e \in Events /\ e.at = n /\ e.what = what
  BY <1>1 DEF Ev, Events, Words
<1>4. \A i \in 1 .. h : held[i].at = n /\ held[i].what = "delta"
  BY <1>1 DEF Ev
<1> HIDE DEF b, e
<1>5. d \in Seq(Blocks) /\ Len(d) = Len(c) + 1 /\ d[n] = b /\ \A j \in 1 .. Len(c) : d[j] = c[j]
  BY <1>1, <1>2, AppendProperties
<1>6. /\ <<e>> \in Seq(Events) /\ Len(<<e>>) = 1 /\ <<e>>[1] = e
      /\ \A j : Heard(<<e>>, j) = IF n = j THEN {1} ELSE {}
  BY <1>3, OneEvent
<1>7. /\ out \in Seq(Events) /\ out[1] = e
      /\ \A i \in 1 .. h : out[1 + i] = held[i]
  <2>1. 1 \in 1 .. 1
    OBVIOUS
  <2> QED  BY <1>6, <2>1, Joined
<1>8. \A j, i : i \in Heard(held, j) <=> i \in 1 .. h /\ n = j
  BY <1>4, HeardWithin
<1>9. \A j : /\ \A i : i \in Heard(out, j) <=> n = j /\ (i = 1 \/ \E k \in 1 .. h : i = 1 + k)
             /\ Cardinality(Heard(out, j)) = Cardinality(Heard(<<e>>, j)) + Cardinality(Heard(held, j))
  <2> TAKE j
  <2>1. /\ \A i : i \in Heard(out, j) <=>
                    i \in Heard(<<e>>, j) \/ \E k \in Heard(held, j) : i = Len(<<e>>) + k
        /\ Cardinality(Heard(out, j)) = Cardinality(Heard(<<e>>, j)) + Cardinality(Heard(held, j))
    BY <1>6, HeardJoined
  <2>2. \A i : i \in Heard(<<e>>, j) <=> n = j /\ i = 1
    BY <1>6
  <2>3. \A i : (\E k \in Heard(held, j) : i = Len(<<e>>) + k) <=> n = j /\ \E k \in 1 .. h : i = 1 + k
    BY <1>6, <1>8
  <2> QED  BY <2>1, <2>2, <2>3
<1>10. \A j : j # n => Unheard(out, j)
  BY <1>9 DEF Unheard
<1>11. Cardinality(Heard(out, n)) = h + 1
  <2>1. Heard(<<e>>, n) = {1} /\ Heard(held, n) = 1 .. h
    BY <1>6, <1>8
  <2>2. Cardinality({1}) = 1
    BY FS_Singleton, Zenon
  <2>3. Cardinality(1 .. h) = h
    <3>1. 1 \in Int /\ h \in Int
      BY <1>1
    <3>2. Cardinality(1 .. h) = IF 1 > h THEN 0 ELSE h - 1 + 1
      BY <3>1, FS_Interval, Zenon
    <3> QED  BY <1>1, <3>2
  <2>4. Cardinality(Heard(out, n)) = Cardinality(Heard(<<e>>, n)) + Cardinality(Heard(held, n))
    BY <1>9
  <2>5. Cardinality(Heard(<<e>>, n)) = 1 /\ Cardinality(Heard(held, n)) = h
    BY <2>1, <2>2, <2>3, Zenon
  <2> QED  BY <1>1, <2>4, <2>5
<1>12. \A i \in Heard(out, n) : 1 <= i /\ (Opening(out[i]) <=> i = 1) /\ ~Closing(out[i])
  <2> TAKE i \in Heard(out, n)
  <2>1. CASE i = 1
    <3>1. out[i].what \in {"open", "web_start"}
      BY <1>3, <1>7, <2>1
    <3> QED  BY <2>1, <3>1 DEF Opening, Closing
  <2>2. ASSUME NEW k \in 1 .. h, i = 1 + k
        PROVE  1 <= i /\ (Opening(out[i]) <=> i = 1) /\ ~Closing(out[i])
    <3>1. out[i].what = "delta" /\ 1 <= i /\ i # 1
      BY <1>1, <1>4, <1>7, <2>2
    <3> QED  BY <3>1 DEF Opening, Closing
  <2> QED  BY <1>9, <2>1, <2>2
<1>13. Narrates(b, out, n)
  <2>1. Speaking(out, n, h + 1)
    <3>1. 1 \in Heard(out, n)
      BY <1>9
    <3> QED  BY <1>11, <1>12, <3>1 DEF Speaking
  <2> QED  BY <1>2, <2>1 DEF Narrates
<1>14. Says(c, out, d)
  <2>1. Len(c) <= Len(d)
    BY <1>1, <1>5
  <2>2. \A j \in 1 .. Len(c) : Grows(c[j], d[j], out, j)
    BY <1>1, <1>5, <1>10 DEF Grows
  <2>3. \A j \in 1 .. Len(d) : j > Len(c) => Narrates(d[j], out, j)
    <3>1. \A j \in 1 .. Len(d) : j > Len(c) => j = n
      BY <1>1, <1>5
    <3> QED  BY <1>5, <1>13, <3>1
  <2>4. \A j \in Nat \ {0} : j > Len(d) => Unheard(out, j)
    BY <1>1, <1>5, <1>10
  <2> QED  BY <2>1, <2>2, <2>3, <2>4 DEF Says
<1>15. Carries(c, out, d)
  BY <1>5, <1>7, <1>14, SaidIsCarried
<1> QED  BY <1>5, <1>7, <1>15 DEF b, e

\* A hosted result is never spoken of.
LEMMA ResultCarries ==
    ASSUME NEW c \in Seq(Blocks)
    PROVE  LET d == Append(c, [kind |-> "result", text |-> 0, done |-> TRUE])
           IN  d \in Seq(Blocks) /\ Carries(c, <<>>, d)
<1> DEFINE b == [kind |-> "result", text |-> 0, done |-> TRUE]
           d == Append(c, b)
<1>1. b \in Blocks /\ b.kind = "result"
  BY DEF Blocks, Kinds
<1> HIDE DEF b
<1>2. d \in Seq(Blocks) /\ Len(d) = Len(c) + 1 /\ d[Len(c) + 1] = b /\ \A j \in 1 .. Len(c) : d[j] = c[j]
  BY <1>1, AppendProperties
<1>3. Len(c) \in Nat
  BY LenProperties
<1>4. \A j : Unheard(<<>>, j)
  BY DEF Unheard, Heard
<1>5. Says(c, <<>>, d)
  <2>1. \A j \in 1 .. Len(d) : j > Len(c) => j = Len(c) + 1
    BY <1>2, <1>3
  <2>2. Narrates(b, <<>>, Len(c) + 1)
    BY <1>1, <1>4 DEF Narrates
  <2>3. \A j \in 1 .. Len(c) : Grows(c[j], d[j], <<>>, j)
    BY <1>2, <1>4 DEF Grows
  <2> QED  BY <1>2, <1>3, <1>4, <2>1, <2>2, <2>3 DEF Says
<1>6. Carries(c, <<>>, d)
  BY <1>2, <1>5, EmptySeq, SaidIsCarried
<1> QED  BY <1>2, <1>6 DEF b

\* A finite set of numbers is listed in order: the i-th has i - 1 below it.
LEMMA Ranked ==
    ASSUME NEW S \in SUBSET Nat, IsFiniteSet(S)
    PROVE  /\ Cardinality(S) \in Nat
           /\ \A i \in 1 .. Cardinality(S) :
                 InMessageOrder(S)[i] \in S /\ Cardinality({j \in S : j < InMessageOrder(S)[i]}) = i - 1
           /\ \A i, j \in 1 .. Cardinality(S) : InMessageOrder(S)[i] = InMessageOrder(S)[j] => i = j
           /\ \A k \in S : \E i \in 1 .. Cardinality(S) : InMessageOrder(S)[i] = k
<1> DEFINE Below(k) == {j \in S : j < k}
           n == Cardinality(S)
           ranks == 0 .. (n - 1)
           rank == [k \in S |-> Cardinality(Below(k))]
<1>1. n \in Nat
  BY FS_CardinalityType
<1>2. \A k \in S : IsFiniteSet(Below(k)) /\ Cardinality(Below(k)) \in ranks
  <2> TAKE k \in S
  <2>1. IsFiniteSet(Below(k)) /\ Cardinality(Below(k)) <= n /\ (n = Cardinality(Below(k)) => S = Below(k))
    BY FS_Subset
  <2>2. Cardinality(Below(k)) \in Nat
    BY <2>1, FS_CardinalityType
  <2>3. k \notin Below(k) /\ k \in S
    BY SMT
  <2> QED  BY <1>1, <2>1, <2>2, <2>3
<1>3. \A j, k \in S : j < k => Cardinality(Below(j)) < Cardinality(Below(k))
  <2> TAKE j, k \in S
  <2> HAVE j < k
  <2>1. Below(j) \subseteq Below(k) /\ j \in Below(k) /\ j \notin Below(j)
    <3>1. \A x, y, z \in Nat : (x < y /\ y < z => x < z) /\ ~(x < x)
      OBVIOUS
    <3>2. \A x \in S : x \in Nat
      OBVIOUS
    <3> QED  BY <3>1, <3>2
  <2>2. Cardinality(Below(j)) <= Cardinality(Below(k)) /\ Cardinality(Below(j)) # Cardinality(Below(k))
    BY <1>2, <2>1, FS_Subset
  <2>3. Cardinality(Below(j)) \in Nat /\ Cardinality(Below(k)) \in Nat
    BY <1>2, FS_CardinalityType
  <2> QED  BY <2>2, <2>3
<1>4. \A j, k \in S : Cardinality(Below(j)) = Cardinality(Below(k)) => j = k
  <2> TAKE j, k \in S
  <2> HAVE Cardinality(Below(j)) = Cardinality(Below(k))
  <2>1. Cardinality(Below(j)) \in Nat /\ Cardinality(Below(k)) \in Nat
    BY <1>2, FS_CardinalityType
  <2>2. ~(j < k) /\ ~(k < j)
    BY <1>3, <2>1
  <2> QED  BY <2>2
<1>5. rank \in Injection(S, ranks)
  <2>1. rank \in [S -> ranks]
    BY <1>2
  <2>2. \A j, k \in S : rank[j] = rank[k] => j = k
    BY <1>4
  <2> QED  BY <2>1, <2>2 DEF Injection, IsInjective
<1>6. IsFiniteSet(ranks) /\ Cardinality(ranks) = n
  <2>1. IsFiniteSet(ranks) /\ Cardinality(ranks) = IF 0 > n - 1 THEN 0 ELSE (n - 1) - 0 + 1
    BY <1>1, FS_Interval
  <2> QED  BY <1>1, <2>1
<1>7. rank \in Surjection(S, ranks)
  BY <1>5, <1>6, FS_Injection
<1>8. \A i \in 1 .. n : \E k \in S : Cardinality(Below(k)) = i - 1
  <2> TAKE i \in 1 .. n
  <2>1. i - 1 \in ranks
    BY <1>1
  <2> QED  BY <1>7, <2>1 DEF Surjection
<1>9. \A i \in 1 .. n : InMessageOrder(S)[i] \in S /\ Cardinality(Below(InMessageOrder(S)[i])) = i - 1
  BY <1>8 DEF InMessageOrder
<1>10. \A i, j \in 1 .. n : InMessageOrder(S)[i] = InMessageOrder(S)[j] => i = j
  <2> TAKE i, j \in 1 .. n
  <2> HAVE InMessageOrder(S)[i] = InMessageOrder(S)[j]
  <2>1. i - 1 = j - 1
    BY <1>9
  <2> QED  BY <1>1, <2>1
<1>11. \A k \in S : \E i \in 1 .. n : InMessageOrder(S)[i] = k
  <2> TAKE k \in S
  <2>1. PICK r \in ranks : r = Cardinality(Below(k))
    BY <1>2
  <2>2. r + 1 \in 1 .. n /\ r + 1 - 1 = r
    BY <1>1
  <2>3. InMessageOrder(S)[r + 1] \in S /\ Cardinality(Below(InMessageOrder(S)[r + 1])) = r + 1 - 1
    BY <1>9, <2>2
  <2>4. InMessageOrder(S)[r + 1] = k
    BY <1>4, <2>1, <2>2, <2>3
  <2> QED  BY <2>2, <2>4
<1> QED  BY <1>1, <1>9, <1>10, <1>11

\* What is open is closed, each block with one event.
LEMMA ClosesEach ==
    ASSUME NEW S \in SUBSET (Nat \ {0}), IsFiniteSet(S)
    PROVE  /\ Closes(S) \in Seq(Events)
           /\ \A i \in 1 .. Len(Closes(S)) : Closes(S)[i].what = "close"
           /\ \A n \in S : Ending(Closes(S), n, "close")
           /\ \A n : n \notin S => Unheard(Closes(S), n)
<1> DEFINE c == Cardinality(S)
           out == Closes(S)
<1>1. /\ c \in Nat
      /\ \A i \in 1 .. c : InMessageOrder(S)[i] \in S
      /\ \A i, j \in 1 .. c : InMessageOrder(S)[i] = InMessageOrder(S)[j] => i = j
      /\ \A k \in S : \E i \in 1 .. c : InMessageOrder(S)[i] = k
  <2>1. S \in SUBSET Nat
    OBVIOUS
  <2> QED  BY <2>1, Ranked
<1>2. out = [i \in 1 .. c |-> Ev("close", InMessageOrder(S)[i])]
  BY DEF Closes
<1>3. \A i \in 1 .. c : out[i] = Ev("close", InMessageOrder(S)[i])
  BY <1>2
<1>4. \A i \in 1 .. c : out[i] \in Events /\ out[i].what = "close" /\ out[i].at = InMessageOrder(S)[i]
  <2> TAKE i \in 1 .. c
  <2>1. InMessageOrder(S)[i] \in Nat
    BY <1>1
  <2>2. \A n \in Nat : Ev("close", n) \in Events /\ Ev("close", n).what = "close" /\ Ev("close", n).at = n
    BY DEF Ev, Events, Words
  <2>3. out[i] = Ev("close", InMessageOrder(S)[i])
    BY <1>3
  <2> HIDE DEF out
  <2> QED  BY <2>1, <2>2, <2>3, Zenon
<1>5. out \in Seq(Events) /\ Len(out) = c
  <2>1. out \in [1 .. c -> Events]
    BY <1>2, <1>4
  <2>2. out \in Seq(Events)
    BY <1>1, <2>1, SeqDef
  <2> QED  BY <1>1, <2>1, <2>2, LenProperties
<1> HIDE DEF out, c
<1>6. \A n, i : i \in Heard(out, n) <=> i \in 1 .. c /\ InMessageOrder(S)[i] = n
  BY <1>4, <1>5, HeardWithin
<1>7. ASSUME NEW n \in S
      PROVE  Ending(out, n, "close")
  <2>1. PICK i \in 1 .. c : InMessageOrder(S)[i] = n
    BY <1>1
  <2>2. i \in Heard(out, n) /\ \A j : j \in Heard(out, n) => j = i
    BY <1>1, <1>6, <2>1
  <2>3. Heard(out, n) = {i}
    BY <2>2
  <2> QED  BY <1>4, <2>2, <2>3 DEF Ending
<1>8. ASSUME NEW n, n \notin S
      PROVE  Unheard(out, n)
  <2>1. \A i : i \notin Heard(out, n)
    BY <1>1, <1>6, <1>8
  <2> QED  BY <2>1 DEF Unheard
<1> QED  BY <1>4, <1>5, <1>7, <1>8 DEF out

\* The blocks of S end together.
LEMMA ClosesCarry ==
    ASSUME NEW c \in Seq(Blocks), NEW d \in Seq(Blocks), NEW S \in SUBSET (1 .. Len(c)),
           Len(d) = Len(c), \A n \in 1 .. Len(c) : n \notin S => d[n] = c[n],
           \A n \in S : /\ ~c[n].done /\ c[n].kind \notin {"web", "result"}
                        /\ d[n].done /\ d[n].kind = c[n].kind /\ d[n].text = c[n].text
    PROVE  /\ Closes(S) \in Seq(Events) /\ Carries(c, Closes(S), d)
           /\ \A i \in 1 .. Len(Closes(S)) : Closes(S)[i].what = "close"
<1> DEFINE out == Closes(S)
<1>1. Len(c) \in Nat /\ S \in SUBSET (Nat \ {0}) /\ \A n \in S : n \in 1 .. Len(c)
  BY LenProperties
<1>2. IsFiniteSet(S)
  <2>1. 1 \in Int /\ Len(c) \in Int
    BY <1>1
  <2>2. IsFiniteSet(1 .. Len(c))
    BY <2>1, FS_Interval, Zenon
  <2> QED  BY <2>2, FS_Subset
<1>3. /\ out \in Seq(Events)
      /\ \A i \in 1 .. Len(out) : out[i].what = "close"
      /\ \A n \in S : Ending(out, n, "close")
      /\ \A n : n \notin S => Unheard(out, n)
  BY <1>1, <1>2, ClosesEach
<1> HIDE DEF out
<1>4. \A n \in 1 .. Len(c) : Grows(c[n], d[n], out, n)
  <2> TAKE n \in 1 .. Len(c)
  <2>1. CASE n \in S
    BY <1>3, <2>1 DEF Grows, EndOf
  <2>2. CASE n \notin S
    BY <1>3, <2>2 DEF Grows
  <2> QED  BY <2>1, <2>2
<1>5. Says(c, out, d)
  <2>1. \A n \in Nat \ {0} : n > Len(d) => Unheard(out, n)
    BY <1>1, <1>3
  <2>2. \A n \in 1 .. Len(d) : ~(n > Len(c)) /\ Len(c) <= Len(d)
    BY <1>1
  <2>3. Len(c) <= Len(d)
    BY <1>1
  <2> QED  BY <1>4, <2>1, <2>2, <2>3 DEF Says
<1>6. Carries(c, out, d)
  BY <1>3, <1>5, SaidIsCarried
<1> QED  BY <1>3, <1>6 DEF out

-----------------------------------------------------------------------------
(* The provider.                                                           *)

\* The fields of a raw event.
LEMMA RawIs ==
    ASSUME NEW type, NEW key, NEW kind, NEW r \in Raw(type, key, kind)
    PROVE  /\ r.type = type /\ r.key = key /\ r.kind = kind
           /\ r.named \in BOOLEAN /\ r.broken \in BOOLEAN
BY DEF Raw

\* What may come, wire by wire.
MessagesComes(s, r) ==
    \/ s.stage = "begin" /\ r.type = "begin"
    \/ s.stage = "body" /\ r.type = "open" /\ s.open = 0 /\ r.key \in 1 .. MaxBlocks /\ r.kind \in {"text", "call", "web"}
    \/ s.stage = "body" /\ r.type \in {"delta", "close"} /\ s.open # 0 /\ r.key = s.open /\ r.kind = s.blocks[s.open]
    \/ s.stage = "body" /\ (r.type = "error" \/ (r.type = "reason" /\ s.open = 0))
    \/ s.stage = "reason" /\ r.type = "end"

ChatComes(s, r) ==
    \/ /\ s.stage \in {"begin", "body"} /\ r.type = "delta"
       /\ \E i \in 1 .. MaxBlocks :
             r.key = i /\ r.kind = IF s.blocks[i] = "none" THEN IF i = 1 THEN "text" ELSE "call" ELSE s.blocks[i]
    \/ s.stage = "body" /\ r.type \in {"reason", "error"}
    \/ s.stage = "reason" /\ r.type = "usage"
    \/ s.stage = "usage" /\ r.type = "end"

ResponsesComes(s, r) ==
    \/ s.stage = "begin" /\ r.type = "created"
    \/ s.stage = "body" /\ r.type = "open" /\ s.open = 0 /\ r.key \in 1 .. MaxBlocks /\ r.kind \in {"text", "call", "web"}
    \/ s.stage = "body" /\ r.type \in {"delta", "close"} /\ s.open # 0 /\ r.key = s.open /\ r.kind = s.blocks[s.open]
    \/ s.stage = "body" /\ r.type = "close" /\ s.open = 0 /\ r.key \in 1 .. MaxBlocks
    \/ s.stage = "body" /\ r.type \in {"error", "end"}
    \/ s.stage = "reason" /\ r.type = "usage"

ConverseComes(s, r) ==
    \/ s.stage = "begin" /\ r.type = "begin"
    \/ s.stage = "body" /\ r.type = "open" /\ s.open = 0 /\ r.key \in 1 .. MaxBlocks /\ r.kind \in {"thinking", "text", "call"}
    \/ s.stage = "body" /\ r.type \in {"delta", "close"} /\ s.open # 0 /\ r.key = s.open /\ r.kind = s.blocks[s.open]
    \/ s.stage = "body" /\ (r.type = "error" \/ (r.type = "reason" /\ s.open = 0))
    \/ s.stage = "reason" /\ r.type = "usage"

Comes(s, r) ==
    CASE wire = "messages" -> MessagesComes(s, r)
      [] wire = "chat" -> ChatComes(s, r)
      [] wire = "responses" -> ResponsesComes(s, r)
      [] wire = "converse" -> ConverseComes(s, r)

\* The blocks that were begun are as many as there are at most.
LEMMA BegunBlocks ==
    ASSUME NEW s \in Servers
    PROVE  /\ Cardinality({i \in 1 .. MaxBlocks : s.blocks[i] # "none"}) \in Nat
           /\ Cardinality({i \in 1 .. MaxBlocks : s.blocks[i] # "none"}) <= MaxBlocks
<1> DEFINE begun == {i \in 1 .. MaxBlocks : s.blocks[i] # "none"}
<1>1. MaxBlocks \in Nat
  BY StreamerAssumption
<1>2. IsFiniteSet(1 .. MaxBlocks) /\ Cardinality(1 .. MaxBlocks) = MaxBlocks
  <2>1. 1 \in Int /\ MaxBlocks \in Int
    BY <1>1
  <2>2. IsFiniteSet(1 .. MaxBlocks) /\ Cardinality(1 .. MaxBlocks) = IF 1 > MaxBlocks THEN 0 ELSE MaxBlocks - 1 + 1
    BY <2>1, FS_Interval, Zenon
  <2> QED  BY <1>1, <2>2
<1>3. begun \in SUBSET (1 .. MaxBlocks)
  OBVIOUS
<1> HIDE DEF begun
<1>4. IsFiniteSet(begun) /\ Cardinality(begun) <= Cardinality(1 .. MaxBlocks)
  BY <1>2, <1>3, FS_Subset
<1> QED  BY <1>2, <1>4, FS_CardinalityType DEF begun

\* What comes is what the wire allows.
LEMMA WhatComes ==
    ASSUME wire \in {"messages", "chat", "responses", "converse"}, NEW s \in Servers, NEW r \in NextRaws(s)
    PROVE  Comes(s, r) /\ r.named \in BOOLEAN /\ r.broken \in BOOLEAN
<1> DEFINE b == s.blocks
           n == Cardinality({i \in 1 .. MaxBlocks : b[i] # "none"})
           opens == IF n < MaxBlocks /\ s.open = 0 THEN UNION {Raw("open", n + 1, k) : k \in BlockKinds} ELSE {}
           deltas == IF s.open # 0 THEN Raw("delta", s.open, b[s.open]) ELSE {}
           closes == IF s.open # 0 THEN Raw("close", s.open, b[s.open])
                     ELSE IF wire = "responses" /\ n > 0 THEN Raw("close", n, b[n]) ELSE {}
           kindOf(i) == IF b[i] = "none" THEN IF i = 1 THEN "text" ELSE "call" ELSE b[i]
           parts == UNION {Raw("delta", i, kindOf(i)) : i \in 1 .. MaxBlocks}
           next == CASE s.stage = "begin" -> IF wire \in {"messages", "converse"} THEN Raw("begin", 0, "none")
                                             ELSE IF wire = "responses" THEN Raw("created", 0, "none") ELSE parts
                     [] s.stage = "body" ->
                           IF wire = "chat" THEN parts \cup Raw("reason", 0, CallKind(s)) \cup Raw("error", 0, "none")
                           ELSE opens \cup deltas \cup closes \cup Raw("error", 0, "none") \cup
                                (IF wire = "responses" THEN Raw("end", 0, CallKind(s))
                                 ELSE IF s.open = 0 THEN Raw("reason", 0, "none") ELSE {})
                     [] s.stage = "reason" -> IF wire = "messages" THEN Raw("end", 0, "none") ELSE Raw("usage", 0, "none")
                     [] s.stage = "usage" -> IF wire = "chat" THEN Raw("end", 0, "none") ELSE {}
                     [] OTHER -> {}
<1>1. r \in next
  BY DEF NextRaws
<1>2. n \in Nat /\ n <= MaxBlocks /\ MaxBlocks \in Nat
  BY BegunBlocks, StreamerAssumption
<1>3. s.stage \in Stages /\ s.open \in 0 .. MaxBlocks
  BY DEF Servers
<1> HIDE DEF n
<1>4. ASSUME r \in opens
      PROVE  /\ r.type = "open" /\ s.open = 0 /\ r.key \in 1 .. MaxBlocks /\ r.kind \in BlockKinds
             /\ r.named \in BOOLEAN /\ r.broken \in BOOLEAN
  <2>1. n < MaxBlocks /\ s.open = 0 /\ \E k \in BlockKinds : r \in Raw("open", n + 1, k)
    BY <1>4
  <2>2. PICK k \in BlockKinds : r \in Raw("open", n + 1, k)
    BY <2>1
  <2>3. r.type = "open" /\ r.key = n + 1 /\ r.kind = k /\ r.named \in BOOLEAN /\ r.broken \in BOOLEAN
    BY <2>2, RawIs
  <2> QED  BY <1>2, <2>1, <2>3
<1>5. ASSUME r \in deltas
      PROVE  /\ r.type = "delta" /\ s.open # 0 /\ r.key = s.open /\ r.kind = s.blocks[s.open]
             /\ r.named \in BOOLEAN /\ r.broken \in BOOLEAN
  <2>1. s.open # 0 /\ r \in Raw("delta", s.open, b[s.open])
    BY <1>5
  <2> QED  BY <2>1, RawIs
<1>6. ASSUME r \in closes
      PROVE  /\ r.type = "close" /\ r.named \in BOOLEAN /\ r.broken \in BOOLEAN
             /\ \/ s.open # 0 /\ r.key = s.open /\ r.kind = s.blocks[s.open]
                \/ wire = "responses" /\ s.open = 0 /\ r.key \in 1 .. MaxBlocks
  <2>1. CASE s.open # 0 /\ r \in Raw("close", s.open, b[s.open])
    BY <2>1, RawIs
  <2>2. CASE s.open = 0 /\ wire = "responses" /\ n > 0 /\ r \in Raw("close", n, b[n])
    <3>1. r.type = "close" /\ r.key = n /\ r.named \in BOOLEAN /\ r.broken \in BOOLEAN
      BY <2>2, RawIs
    <3> QED  BY <1>2, <2>2, <3>1
  <2> QED  BY <1>6, <2>1, <2>2
<1>7. ASSUME r \in parts
      PROVE  /\ r.type = "delta" /\ r.named \in BOOLEAN /\ r.broken \in BOOLEAN
             /\ \E i \in 1 .. MaxBlocks : r.key = i /\ r.kind = kindOf(i)
  <2>1. PICK i \in 1 .. MaxBlocks : r \in Raw("delta", i, kindOf(i))
    BY <1>7
  <2> QED  BY <2>1, RawIs
<1>8. \A k : /\ r \in Raw("error", 0, k) => r.type = "error" /\ r.named \in BOOLEAN /\ r.broken \in BOOLEAN
             /\ r \in Raw("reason", 0, k) => r.type = "reason" /\ r.named \in BOOLEAN /\ r.broken \in BOOLEAN
             /\ r \in Raw("end", 0, k) => r.type = "end" /\ r.named \in BOOLEAN /\ r.broken \in BOOLEAN
             /\ r \in Raw("usage", 0, k) => r.type = "usage" /\ r.named \in BOOLEAN /\ r.broken \in BOOLEAN
             /\ r \in Raw("begin", 0, k) => r.type = "begin" /\ r.named \in BOOLEAN /\ r.broken \in BOOLEAN
             /\ r \in Raw("created", 0, k) => r.type = "created" /\ r.named \in BOOLEAN /\ r.broken \in BOOLEAN
  BY RawIs
<1> HIDE DEF opens, deltas, closes, parts
<1>9. CASE wire = "messages"
  <2>1. BlockKinds = {"text", "call", "web"}
    BY <1>9 DEF BlockKinds
  <2>2. \/ s.stage = "begin" /\ r \in Raw("begin", 0, "none")
        \/ s.stage = "body" /\ (r \in opens \/ r \in deltas \/ r \in closes \/ r \in Raw("error", 0, "none")
                                  \/ (s.open = 0 /\ r \in Raw("reason", 0, "none")))
        \/ s.stage = "reason" /\ r \in Raw("end", 0, "none")
    BY <1>1, <1>3, <1>9 DEF Stages
  <2>3. MessagesComes(s, r) /\ r.named \in BOOLEAN /\ r.broken \in BOOLEAN
    BY <1>4, <1>5, <1>6, <1>8, <1>9, <2>1, <2>2 DEF MessagesComes
  <2> QED  BY <1>9, <2>3 DEF Comes
<1>10. CASE wire = "chat"
  <2>1. \/ s.stage = "begin" /\ r \in parts
        \/ s.stage = "body" /\ (r \in parts \/ r \in Raw("reason", 0, CallKind(s)) \/ r \in Raw("error", 0, "none"))
        \/ s.stage = "reason" /\ r \in Raw("usage", 0, "none")
        \/ s.stage = "usage" /\ r \in Raw("end", 0, "none")
    BY <1>1, <1>3, <1>10 DEF Stages
  <2>2. ChatComes(s, r) /\ r.named \in BOOLEAN /\ r.broken \in BOOLEAN
    BY <1>7, <1>8, <2>1 DEF ChatComes
  <2> QED  BY <1>10, <2>2 DEF Comes
<1>11. CASE wire = "responses"
  <2>1. BlockKinds = {"text", "call", "web"}
    BY <1>11 DEF BlockKinds
  <2>2. \/ s.stage = "begin" /\ r \in Raw("created", 0, "none")
        \/ s.stage = "body" /\ (r \in opens \/ r \in deltas \/ r \in closes \/ r \in Raw("error", 0, "none")
                                  \/ r \in Raw("end", 0, CallKind(s)))
        \/ s.stage = "reason" /\ r \in Raw("usage", 0, "none")
    BY <1>1, <1>3, <1>11 DEF Stages
  <2>3. ResponsesComes(s, r) /\ r.named \in BOOLEAN /\ r.broken \in BOOLEAN
    BY <1>4, <1>5, <1>6, <1>8, <2>1, <2>2 DEF ResponsesComes
  <2> QED  BY <1>11, <2>3 DEF Comes
<1>12. CASE wire = "converse"
  <2>1. BlockKinds = {"thinking", "text", "call"}
    BY <1>12 DEF BlockKinds
  <2>2. \/ s.stage = "begin" /\ r \in Raw("begin", 0, "none")
        \/ s.stage = "body" /\ (r \in opens \/ r \in deltas \/ r \in closes \/ r \in Raw("error", 0, "none")
                                  \/ (s.open = 0 /\ r \in Raw("reason", 0, "none")))
        \/ s.stage = "reason" /\ r \in Raw("usage", 0, "none")
    BY <1>1, <1>3, <1>12 DEF Stages
  <2>3. ConverseComes(s, r) /\ r.named \in BOOLEAN /\ r.broken \in BOOLEAN
    BY <1>4, <1>5, <1>6, <1>8, <1>12, <2>1, <2>2 DEF ConverseComes
  <2> QED  BY <1>12, <2>3 DEF Comes
<1> QED  BY <1>9, <1>10, <1>11, <1>12

\* What was said is a state of the provider, and an open block has its kind.
LEMMA SaidFits ==
    ASSUME wire \in {"messages", "chat", "responses", "converse"}, NEW s \in Servers, NEW r, Comes(s, r),
           s.open # 0 => s.blocks[s.open] # "none"
    PROVE  /\ Said(s, r) \in Servers
           /\ Said(s, r).open # 0 => Said(s, r).blocks[Said(s, r).open] # "none"
<1> DEFINE kinds == {"none", "text", "thinking", "call", "web"}
           stage1 == CASE r.type \in {"begin", "created", "open", "delta", "close"} -> "body"
                       [] r.type \in {"reason", "usage"} -> r.type
                       [] OTHER -> "over"
           blocks1 == IF r.type \in {"open", "delta"} THEN [s.blocks EXCEPT ![r.key] = r.kind] ELSE s.blocks
           open1 == IF wire = "chat" THEN 0
                    ELSE IF r.type = "open" THEN r.key ELSE IF r.type = "close" THEN 0 ELSE s.open
<1>1. Said(s, r) = [stage |-> stage1, blocks |-> blocks1, open |-> open1, said |-> s.said + 1]
  BY DEF Said
<1>2. Comes(s, r)
  OBVIOUS
<1>3. s.blocks \in [1 .. MaxBlocks -> kinds] /\ s.open \in 0 .. MaxBlocks /\ s.said \in Nat /\ MaxBlocks \in Nat
  BY StreamerAssumption DEF Servers
<1>4. \A i \in 1 .. MaxBlocks : s.blocks[i] \in kinds
  BY <1>3
<1>5. r.type \in {"open", "delta"} =>
         /\ r.key \in 1 .. MaxBlocks /\ r.kind \in kinds \ {"none"}
         /\ wire # "chat" /\ r.type = "delta" => r.key = s.open
  <2>1. CASE wire = "messages"
    BY <1>2, <1>3, <1>4, <2>1 DEF Comes, MessagesComes
  <2>2. CASE wire = "chat"
    BY <1>2, <1>3, <1>4, <2>2 DEF Comes, ChatComes
  <2>3. CASE wire = "responses"
    BY <1>2, <1>3, <1>4, <2>3 DEF Comes, ResponsesComes
  <2>4. CASE wire = "converse"
    BY <1>2, <1>3, <1>4, <2>4 DEF Comes, ConverseComes
  <2> QED  BY <2>1, <2>2, <2>3, <2>4
<1>6. stage1 \in Stages
  BY DEF Stages
<1>7. blocks1 \in [1 .. MaxBlocks -> kinds]
  BY <1>3, <1>5
<1>8. open1 \in 0 .. MaxBlocks
  BY <1>3, <1>5
<1>9. open1 # 0 => blocks1[open1] # "none"
  BY <1>3, <1>5
<1> HIDE DEF stage1, blocks1, open1
<1>10. Said(s, r) \in Servers
  BY <1>1, <1>3, <1>6, <1>7, <1>8 DEF Servers
<1>11. Said(s, r).open = open1 /\ Said(s, r).blocks = blocks1
  BY <1>1
<1> QED  BY <1>9, <1>10, <1>11

-----------------------------------------------------------------------------
(* The operators on a message.                                             *)

\* A map from numbers to numbers.
LEMMA MapIs ==
    ASSUME NEW f
    PROVE  f \in Maps <=> f = [k \in DOMAIN f |-> f[k]] /\ DOMAIN f \subseteq Nat /\ \A k \in DOMAIN f : f[k] \in Nat
<1>1. ASSUME f \in Maps
      PROVE  f = [k \in DOMAIN f |-> f[k]] /\ DOMAIN f \subseteq Nat /\ \A k \in DOMAIN f : f[k] \in Nat
  <2>1. PICK D \in SUBSET Nat : f \in [D -> Nat]
    BY <1>1 DEF Maps
  <2> QED  BY <2>1
<1>2. ASSUME f = [k \in DOMAIN f |-> f[k]], DOMAIN f \subseteq Nat, \A k \in DOMAIN f : f[k] \in Nat
      PROVE  f \in Maps
  <2>1. f \in [DOMAIN f -> Nat]
    BY <1>2
  <2> QED  BY <1>2, <2>1 DEF Maps
<1> QED  BY <1>1, <1>2

\* All but the content is as it was.
SameMaps(m, n) == /\ n.idx = m.idx /\ n.run = m.run /\ n.held = m.held
                  /\ n.started = m.started /\ n.stop = m.stop /\ n.usage = m.usage

\* A new block goes behind the others and leaves the maps alone.
LEMMA NewBlockIs ==
    ASSUME NEW m \in Messages, NEW kind \in Kinds
    PROVE  /\ NewBlock(m, kind) \in Messages /\ SameMaps(m, NewBlock(m, kind))
           /\ NewBlock(m, kind).content = Append(m.content, [kind |-> kind, text |-> 0, done |-> FALSE])
           /\ Len(NewBlock(m, kind).content) = Len(m.content) + 1
<1> DEFINE b == [kind |-> kind, text |-> 0, done |-> FALSE]
<1>1. b \in Blocks /\ m.content \in Seq(Blocks)
  BY DEF Blocks, Messages
<1>2. NewBlock(m, kind) = [m EXCEPT !.content = Append(m.content, b)]
  BY DEF NewBlock
<1> HIDE DEF b
<1>3. Append(m.content, b) \in Seq(Blocks) /\ Len(Append(m.content, b)) = Len(m.content) + 1
  BY <1>1, AppendProperties
<1> QED  BY <1>2, <1>3 DEF Messages, SameMaps, b

\* A wire key leads to block n.
IsAt(m, key, n, a) ==
    /\ a \in Messages /\ a.content = m.content /\ a.run = m.run /\ a.held = m.held
    /\ a.started = m.started /\ a.stop = m.stop
    /\ DOMAIN a.idx = DOMAIN m.idx \cup {key} /\ a.idx[key] = n
    /\ \A k \in DOMAIN m.idx : k # key => a.idx[k] = m.idx[k]

\* `At` adds one key.
LEMMA AtIs ==
    ASSUME NEW m \in Messages, NEW key \in Nat, NEW n \in Nat
    PROVE  IsAt(m, key, n, At(m, key, n))
<1> DEFINE f == [k \in DOMAIN m.idx \cup {key} |-> IF k = key THEN n ELSE m.idx[k]]
<1>1. At(m, key, n) = [m EXCEPT !.idx = f]
  BY DEF At
<1>2. m.idx \in Maps
  BY DEF Messages
<1>3. DOMAIN m.idx \subseteq Nat /\ \A k \in DOMAIN m.idx : m.idx[k] \in Nat
  BY <1>2, MapIs
<1>4. DOMAIN f = DOMAIN m.idx \cup {key} /\ f[key] = n /\ \A k \in DOMAIN m.idx : k # key => f[k] = m.idx[k]
  OBVIOUS
<1>5. f \in [DOMAIN m.idx \cup {key} -> Nat]
  BY <1>3
<1>6. f \in Maps
  BY <1>3, <1>5 DEF Maps
<1> HIDE DEF f
<1> QED  BY <1>1, <1>4, <1>6 DEF Messages, IsAt

\* A wire key is forgotten.
IsDropped(m, key, a) ==
    /\ a \in Messages /\ a.content = m.content /\ a.run = m.run /\ a.held = m.held
    /\ a.started = m.started /\ a.stop = m.stop
    /\ DOMAIN a.idx = DOMAIN m.idx \ {key}
    /\ \A k \in DOMAIN a.idx : a.idx[k] = m.idx[k]

\* `Drop` takes one key away.
LEMMA DropIs ==
    ASSUME NEW m \in Messages, NEW key
    PROVE  IsDropped(m, key, Drop(m, key))
<1> DEFINE f == [k \in DOMAIN m.idx \ {key} |-> m.idx[k]]
<1>1. Drop(m, key) = [m EXCEPT !.idx = f]
  BY DEF Drop
<1>2. m.idx \in Maps
  BY DEF Messages
<1>3. DOMAIN m.idx \subseteq Nat /\ \A k \in DOMAIN m.idx : m.idx[k] \in Nat
  BY <1>2, MapIs
<1>4. DOMAIN f = DOMAIN m.idx \ {key} /\ \A k \in DOMAIN f : f[k] = m.idx[k]
  OBVIOUS
<1>5. f \in [DOMAIN m.idx \ {key} -> Nat]
  BY <1>3
<1>6. f \in Maps
  BY <1>3, <1>5 DEF Maps
<1> HIDE DEF f
<1> QED  BY <1>1, <1>4, <1>6 DEF Messages, IsDropped

\* One block grows by a piece.
LEMMA GrowIs ==
    ASSUME NEW m \in Messages, NEW n \in 1 .. Len(m.content)
    PROVE  LET g == Grow(m, n)
           IN  /\ g \in Messages /\ SameMaps(m, g) /\ Besides(m.content, g.content, n)
               /\ g.content[n].kind = m.content[n].kind /\ g.content[n].done = m.content[n].done
               /\ g.content[n].text = m.content[n].text + 1
<1> DEFINE b == [m.content[n] EXCEPT !.text = m.content[n].text + 1]
           d == [m.content EXCEPT ![n] = b]
<1>1. m.content \in Seq(Blocks) /\ m.content[n] \in Blocks
  BY ElementOfSeq DEF Messages
<1>2. b \in Blocks /\ b.kind = m.content[n].kind /\ b.done = m.content[n].done /\ b.text = m.content[n].text + 1
  BY <1>1 DEF Blocks
<1>3. Grow(m, n) = [m EXCEPT !.content = d]
  BY DEF Grow
<1> HIDE DEF b
<1>4. d \in Seq(Blocks) /\ Len(d) = Len(m.content) /\ d[n] = b /\ \A j \in 1 .. Len(m.content) : j # n => d[j] = m.content[j]
  BY <1>1, <1>2, ExceptSeq
<1> HIDE DEF d
<1>5. Grow(m, n).content = d /\ Grow(m, n) \in Messages /\ SameMaps(m, Grow(m, n))
  BY <1>3, <1>4 DEF Messages, SameMaps
<1> QED  BY <1>2, <1>4, <1>5 DEF Besides

\* One block is closed.
LEMMA SealedIs ==
    ASSUME NEW m \in Messages, NEW n \in 1 .. Len(m.content)
    PROVE  LET g == Sealed(m, n)
           IN  /\ g \in Messages /\ SameMaps(m, g) /\ Besides(m.content, g.content, n)
               /\ g.content[n].kind = m.content[n].kind /\ g.content[n].done
               /\ g.content[n].text = m.content[n].text
<1> DEFINE b == [m.content[n] EXCEPT !.done = TRUE]
           d == [m.content EXCEPT ![n] = b]
<1>1. m.content \in Seq(Blocks) /\ m.content[n] \in Blocks
  BY ElementOfSeq DEF Messages
<1>2. b \in Blocks /\ b.kind = m.content[n].kind /\ b.done /\ b.text = m.content[n].text
  BY <1>1 DEF Blocks
<1>3. Sealed(m, n) = [m EXCEPT !.content = d]
  BY DEF Sealed
<1> HIDE DEF b
<1>4. d \in Seq(Blocks) /\ Len(d) = Len(m.content) /\ d[n] = b /\ \A j \in 1 .. Len(m.content) : j # n => d[j] = m.content[j]
  BY <1>1, <1>2, ExceptSeq
<1> HIDE DEF d
<1>5. Sealed(m, n).content = d /\ Sealed(m, n) \in Messages /\ SameMaps(m, Sealed(m, n))
  BY <1>3, <1>4 DEF Messages, SameMaps
<1> QED  BY <1>2, <1>4, <1>5 DEF Besides

\* A set of blocks is closed.
LEMMA AllSealedIs ==
    ASSUME NEW m \in Messages, NEW S \in SUBSET (1 .. Len(m.content))
    PROVE  LET g == AllSealed(m, S)
           IN  /\ g \in Messages /\ SameMaps(m, g) /\ Len(g.content) = Len(m.content)
               /\ \A n \in 1 .. Len(m.content) : n \notin S => g.content[n] = m.content[n]
               /\ \A n \in S : /\ g.content[n].done /\ g.content[n].kind = m.content[n].kind
                               /\ g.content[n].text = m.content[n].text
<1> DEFINE d == [n \in DOMAIN m.content |-> IF n \in S THEN [m.content[n] EXCEPT !.done = TRUE] ELSE m.content[n]]
<1>1. m.content \in Seq(Blocks) /\ DOMAIN m.content = 1 .. Len(m.content) /\ Len(m.content) \in Nat
  BY LenProperties DEF Messages
<1>2. AllSealed(m, S) = [m EXCEPT !.content = d]
  BY DEF AllSealed
<1>3. \A n \in 1 .. Len(m.content) : m.content[n] \in Blocks
  BY <1>1, ElementOfSeq
<1>4. ASSUME NEW n \in 1 .. Len(m.content)
      PROVE  /\ d[n] \in Blocks /\ (n \notin S => d[n] = m.content[n])
             /\ n \in S => d[n].done /\ d[n].kind = m.content[n].kind /\ d[n].text = m.content[n].text
  <2>1. d[n] = IF n \in S THEN [m.content[n] EXCEPT !.done = TRUE] ELSE m.content[n]
    BY <1>1
  <2>2. m.content[n] \in Blocks
    BY <1>3
  <2>3. \A b \in Blocks : /\ [b EXCEPT !.done = TRUE] \in Blocks /\ [b EXCEPT !.done = TRUE].done
                          /\ [b EXCEPT !.done = TRUE].kind = b.kind /\ [b EXCEPT !.done = TRUE].text = b.text
    BY DEF Blocks
  <2> HIDE DEF d
  <2>4. CASE n \in S
    <3>1. d[n] = [m.content[n] EXCEPT !.done = TRUE]
      BY <2>1, <2>4
    <3> QED  BY <2>2, <2>3, <2>4, <3>1
  <2>5. CASE n \notin S
    BY <2>1, <2>2, <2>5
  <2> QED  BY <2>4, <2>5
<1>5. DOMAIN d = 1 .. Len(m.content)
  BY <1>1
<1>6. d \in [1 .. Len(m.content) -> Blocks]
  <2>1. d = [n \in 1 .. Len(m.content) |-> d[n]]
    BY <1>1
  <2> HIDE DEF d
  <2> QED  BY <1>4, <2>1
<1> HIDE DEF d
<1>7. d \in Seq(Blocks) /\ Len(d) = Len(m.content)
  <2>1. d \in Seq(Blocks)
    BY <1>1, <1>6, SeqDef
  <2> QED  BY <1>1, <1>6, <2>1, LenProperties
<1>8. AllSealed(m, S).content = d /\ AllSealed(m, S) \in Messages /\ SameMaps(m, AllSealed(m, S))
  BY <1>2, <1>7 DEF Messages, SameMaps
<1> QED  BY <1>4, <1>7, <1>8

-----------------------------------------------------------------------------
(* What the handlers share.                                                *)

\* Nothing of a start or an end.
Plain(out) == \A i \in 1 .. Len(out) : out[i].what \in {"usage", "open", "web_start", "delta", "close", "web_end"}

\* A part of a response: it carries the message on.
Parted(m, p) ==
    /\ p.m \in Messages /\ Leads(p.m) /\ p.bad \in BOOLEAN
    /\ ~p.bad => p.out \in Seq(Events) /\ Plain(p.out) /\ Carries(m.content, p.out, p.m.content)

\* The three kinds of outcome.
LEMMA OutcomeIs ==
    /\ \A m, out : Gives(m, out).m = m /\ Gives(m, out).out = out /\ Gives(m, out).bad = FALSE
    /\ \A m : Silent(m).m = m /\ Silent(m).out = <<>> /\ Silent(m).bad = FALSE
    /\ \A m : Raises(m).m = m /\ Raises(m).bad = TRUE
BY DEF Gives, Silent, Raises

\* What a handler gives.
LEMMA GivesIs ==
    ASSUME NEW p, NEW m, NEW out, p = Gives(m, out)
    PROVE  p.m = m /\ p.out = out /\ p.bad = FALSE
  BY DEF Gives

\* Nothing of a start is in what is plain, joined or alone.
LEMMA PlainOnes ==
    /\ Plain(<<>>)
    /\ \A e \in Events : e.what \in {"usage", "open", "web_start", "delta", "close", "web_end"} => Plain(<<e>>)
BY DEF Plain

\* Two plain sequences are a plain one.
LEMMA PlainJoined ==
    ASSUME NEW out \in Seq(Events), NEW more \in Seq(Events), Plain(out), Plain(more)
    PROVE  Plain(out \o more)
<1>1. Len(out) \in Nat /\ Len(more) \in Nat /\ Len(out \o more) = Len(out) + Len(more)
  BY LenProperties, Joined
<1>2. ASSUME NEW i \in 1 .. Len(out) + Len(more)
      PROVE  (out \o more)[i].what \in {"usage", "open", "web_start", "delta", "close", "web_end"}
  <2>1. CASE i \in 1 .. Len(out)
    <3>1. (out \o more)[i] = out[i]
      BY <2>1, Joined
    <3> QED  BY <2>1, <3>1 DEF Plain
  <2>2. CASE i - Len(out) \in 1 .. Len(more)
    <3>1. (out \o more)[Len(out) + (i - Len(out))] = more[i - Len(out)]
      BY <2>2, Joined, Zenon
    <3>2. Len(out) + (i - Len(out)) = i
      BY <1>1
    <3>3. (out \o more)[i] = more[i - Len(out)]
      BY <3>1, <3>2, Zenon
    <3> QED  BY <2>2, <3>3 DEF Plain
  <2> QED  BY <2>1, <2>2, Joined
<1> QED  BY <1>1, <1>2 DEF Plain

\* The events of the handlers are events.
LEMMA Evs ==
    /\ \A n \in Nat : \A w \in Words : Ev(w, n) \in Events /\ Ev(w, n).at = n /\ Ev(w, n).what = w
    /\ StartEvent \in Events /\ StartEvent.at = 0 /\ StartEvent.what = "start"
    /\ FinishEv \in Events /\ FinishEv.at = 0 /\ FinishEv.what = "finish"
    /\ CancelledFinish \in Events /\ CancelledFinish.at = 0 /\ CancelledFinish.what = "cancelled"
    /\ Failure \in Events /\ Failure.at = 0 /\ Failure.what = "error"
BY DEF Ev, Events, Words, StartEvent, FinishEv, CancelledFinish, Failure

\* The content of a message is a sequence of blocks, its maps lead into it.
LEMMA ContentIs ==
    ASSUME NEW m \in Messages, Leads(m)
    PROVE  /\ m.content \in Seq(Blocks) /\ Len(m.content) \in Nat /\ m.run \in 0 .. Len(m.content)
           /\ DOMAIN m.idx \subseteq Nat /\ \A k \in DOMAIN m.idx : m.idx[k] \in 1 .. Len(m.content)
           /\ \A n \in 1 .. Len(m.content) : m.content[n] \in Blocks /\ (m.content[n].kind = "result" => m.content[n].done)
<1>1. m.content \in Seq(Blocks) /\ m.idx \in Maps
  BY DEF Messages
<1>2. Len(m.content) \in Nat /\ \A n \in 1 .. Len(m.content) : m.content[n] \in Blocks
  BY <1>1, LenProperties, ElementOfSeq
<1>3. DOMAIN m.idx \subseteq Nat
  BY <1>1, MapIs
<1> QED  BY <1>1, <1>2, <1>3 DEF Leads

\* The maps still lead into a message of the same maps and kinds.
LEMMA StillLeads ==
    ASSUME NEW m \in Messages, NEW g \in Messages, Leads(m), g.idx = m.idx, g.run \in {0, m.run},
           Len(g.content) = Len(m.content),
           \A n \in 1 .. Len(m.content) : g.content[n].kind = m.content[n].kind /\ (m.content[n].done => g.content[n].done)
    PROVE  Leads(g)
BY ContentIs DEF Leads

\* Nothing happens to the blocks.
LEMMA SilentParts ==
    ASSUME NEW m \in Messages, NEW g \in Messages, Leads(g), g.content = m.content
    PROVE  Parted(m, Silent(g))
<1>1. m.content \in Seq(Blocks)
  BY DEF Messages
<1>2. Carries(m.content, <<>>, g.content)
  BY <1>1, NothingSaid, QuietCarries
<1>3. Silent(g).m = g /\ Silent(g).out = <<>> /\ Silent(g).bad = FALSE
  BY OutcomeIs
<1> QED  BY <1>2, <1>3, NothingSaid, PlainOnes DEF Parted

\* A handler that raises says nothing.
LEMMA RaisesParts ==
    ASSUME NEW m, NEW g \in Messages, Leads(g)
    PROVE  Parted(m, Raises(g))
BY OutcomeIs DEF Parted

\* A delta to a block that is not over.
LEMMA DeltaParts ==
    ASSUME NEW m \in Messages, Leads(m), NEW n \in 1 .. Len(m.content), ~m.content[n].done
    PROVE  /\ Parted(m, Gives(Grow(m, n), <<Ev("delta", n)>>))
           /\ SameMaps(m, Grow(m, n)) /\ Besides(m.content, Grow(m, n).content, n)
           /\ Grow(m, n).content[n].kind = m.content[n].kind /\ ~Grow(m, n).content[n].done
<1> DEFINE g == Grow(m, n)
           out == <<Ev("delta", n)>>
<1>1. /\ g \in Messages /\ SameMaps(m, g) /\ Besides(m.content, g.content, n)
      /\ g.content[n].kind = m.content[n].kind /\ g.content[n].done = m.content[n].done
      /\ g.content[n].text = m.content[n].text + 1
  BY GrowIs
<1>2. m.content \in Seq(Blocks) /\ g.content \in Seq(Blocks) /\ m.content[n].kind # "result" /\ n \in Nat
  BY <1>1, ContentIs DEF Messages
<1> HIDE DEF g
<1>3. Carries(m.content, out, g.content) /\ out \in Seq(Events)
  BY <1>1, <1>2, DeltaCarries
<1>4. Plain(out)
  <2>1. Ev("delta", n) \in Events /\ Ev("delta", n).what = "delta"
    BY <1>2, Evs DEF Words
  <2> QED  BY <2>1, PlainOnes
<1>5. Leads(g)
  <2>1. /\ g.idx = m.idx /\ g.run = m.run /\ Len(g.content) = Len(m.content)
        /\ \A j \in 1 .. Len(m.content) : g.content[j].kind = m.content[j].kind /\ (m.content[j].done => g.content[j].done)
    BY <1>1 DEF SameMaps, Besides
  <2> QED  BY <1>1, <2>1, StillLeads
<1>6. Gives(g, out).m = g /\ Gives(g, out).out = out /\ Gives(g, out).bad = FALSE
  BY OutcomeIs, Zenon
<1>7. Parted(m, Gives(g, out))
  BY <1>1, <1>3, <1>4, <1>5, <1>6 DEF Parted
<1> QED  BY <1>1, <1>7 DEF g

\* A block ends, with the event of its kind.
LEMMA EndParts ==
    ASSUME NEW m \in Messages, Leads(m), NEW n \in 1 .. Len(m.content), ~m.content[n].done
    PROVE  /\ Sealed(m, n) \in Messages /\ Leads(Sealed(m, n)) /\ SameMaps(m, Sealed(m, n))
           /\ Besides(m.content, Sealed(m, n).content, n)
           /\ Sealed(m, n).content[n].kind = m.content[n].kind /\ Sealed(m, n).content[n].done
           /\ Carries(m.content, <<Ev(EndOf(m.content[n]), n)>>, Sealed(m, n).content)
           /\ <<Ev(EndOf(m.content[n]), n)>> \in Seq(Events) /\ Plain(<<Ev(EndOf(m.content[n]), n)>>)
<1> DEFINE g == Sealed(m, n)
           out == <<Ev(EndOf(m.content[n]), n)>>
<1>1. /\ g \in Messages /\ SameMaps(m, g) /\ Besides(m.content, g.content, n)
      /\ g.content[n].kind = m.content[n].kind /\ g.content[n].done
      /\ g.content[n].text = m.content[n].text
  BY SealedIs
<1>2. m.content \in Seq(Blocks) /\ g.content \in Seq(Blocks) /\ m.content[n].kind # "result" /\ n \in Nat
  BY <1>1, ContentIs DEF Messages
<1> HIDE DEF g
<1>3. Carries(m.content, out, g.content) /\ out \in Seq(Events)
  BY <1>1, <1>2, EndCarries
<1>4. Plain(out)
  <2>1. EndOf(m.content[n]) \in {"close", "web_end"}
    BY DEF EndOf
  <2>2. \A w \in {"close", "web_end"} : Ev(w, n) \in Events /\ Ev(w, n).what = w
    BY <1>2, Evs DEF Words
  <2> QED  BY <2>1, <2>2, PlainOnes
<1>5. Leads(g)
  <2>1. /\ g.idx = m.idx /\ g.run = m.run /\ Len(g.content) = Len(m.content)
        /\ \A j \in 1 .. Len(m.content) : g.content[j].kind = m.content[j].kind /\ (m.content[j].done => g.content[j].done)
    BY <1>1 DEF SameMaps, Besides
  <2> QED  BY <1>1, <2>1, StillLeads
<1> QED  BY <1>1, <1>3, <1>4, <1>5 DEF g

\* `close`: of a block that is no web search.
LEMMA CloseParts ==
    ASSUME NEW m \in Messages, Leads(m), NEW n \in 1 .. Len(m.content), ~m.content[n].done,
           m.content[n].kind # "web", NEW r
    PROVE  /\ Parted(m, CloseBlock(m, n, r)) /\ SameMaps(m, CloseBlock(m, n, r).m)
           /\ ~CloseBlock(m, n, r).bad =>
                 /\ Besides(m.content, CloseBlock(m, n, r).m.content, n)
                 /\ CloseBlock(m, n, r).m.content[n].kind = m.content[n].kind
                 /\ CloseBlock(m, n, r).m.content[n].done
<1> DEFINE g == Sealed(m, n)
           out == <<Ev("close", n)>>
<1>1. /\ g \in Messages /\ Leads(g) /\ SameMaps(m, g) /\ Besides(m.content, g.content, n)
      /\ g.content[n].kind = m.content[n].kind /\ g.content[n].done
      /\ Carries(m.content, out, g.content) /\ out \in Seq(Events) /\ Plain(out)
  <2>1. EndOf(m.content[n]) = "close"
    BY DEF EndOf
  <2> QED  BY <2>1, EndParts
<1> HIDE DEF g, out
<1>2. CASE CloseBlock(m, n, r) = Raises(m)
  <2>1. CloseBlock(m, n, r).m = m /\ CloseBlock(m, n, r).bad = TRUE
    BY <1>2, OutcomeIs, Zenon
  <2>2. Parted(m, CloseBlock(m, n, r))
    BY <1>2, RaisesParts, Zenon
  <2> QED  BY <2>1, <2>2 DEF SameMaps
<1>3. CASE CloseBlock(m, n, r) = Gives(g, out)
  <2>1. CloseBlock(m, n, r).m = g /\ CloseBlock(m, n, r).out = out /\ CloseBlock(m, n, r).bad = FALSE
    <3>1. Gives(g, out).m = g /\ Gives(g, out).out = out /\ Gives(g, out).bad = FALSE
      BY OutcomeIs, Zenon
    <3> QED  BY <1>3, <3>1
  <2> QED  BY <1>1, <2>1 DEF Parted
<1> QED  BY <1>2, <1>3 DEF CloseBlock, g, out

\* A block behind the others.
LEMMA AppendIs ==
    ASSUME NEW c \in Seq(Blocks), NEW b \in Blocks
    PROVE  /\ Append(c, b) \in Seq(Blocks) /\ Len(Append(c, b)) = Len(c) + 1
           /\ Append(c, b)[Len(c) + 1] = b /\ \A j \in 1 .. Len(c) : Append(c, b)[j] = c[j]
<1>1. Len(c) \in Nat
  BY LenProperties
<1> QED  BY <1>1, AppendProperties

\* A block of its own under a wire key.
IsOpened(m, key, kind, o) ==
    LET n == Len(m.content) + 1
    IN  /\ o.m \in Messages /\ Leads(o.m) /\ o.bad = FALSE /\ o.out = <<Ev("open", n)>>
        /\ o.m.content = Append(m.content, [kind |-> kind, text |-> 0, done |-> FALSE])
        /\ Len(o.m.content) = n /\ o.m.content[n].kind = kind /\ ~o.m.content[n].done
        /\ \A j \in 1 .. Len(m.content) : o.m.content[j] = m.content[j]
        /\ o.m.run = m.run /\ o.m.held = m.held /\ o.m.started = m.started /\ o.m.stop = m.stop
        /\ DOMAIN o.m.idx = DOMAIN m.idx \cup {key} /\ o.m.idx[key] = n
        /\ \A k \in DOMAIN m.idx : k # key => o.m.idx[k] = m.idx[k]

\* `Opens` opens one block, under its key.
LEMMA OpensIs ==
    ASSUME NEW m \in Messages, Leads(m), NEW key \in Nat, NEW kind \in Kinds \ {"result"}
    PROVE  IsOpened(m, key, kind, Opens(m, key, kind))
<1> DEFINE b == [kind |-> kind, text |-> 0, done |-> FALSE]
           n == Len(m.content) + 1
           x == NewBlock(m, kind)
           a == At(x, key, n)
           o == Opens(m, key, kind)
<1>1. /\ m.content \in Seq(Blocks) /\ Len(m.content) \in Nat /\ m.run \in 0 .. Len(m.content)
      /\ \A k \in DOMAIN m.idx : m.idx[k] \in 1 .. Len(m.content)
      /\ \A j \in 1 .. Len(m.content) : m.content[j].kind = "result" => m.content[j].done
  BY ContentIs
<1>2. /\ x \in Messages /\ SameMaps(m, x) /\ x.content = Append(m.content, b) /\ Len(x.content) = n
  BY NewBlockIs
<1>3. b \in Blocks /\ b.kind = kind /\ ~b.done
  BY DEF Blocks
<1> HIDE DEF x, b
<1>4. x.content[n] = b /\ \A j \in 1 .. Len(m.content) : x.content[j] = m.content[j]
  BY <1>1, <1>2, <1>3, AppendProperties
<1>5. /\ a \in Messages /\ a.content = x.content /\ a.run = x.run /\ a.held = x.held
      /\ a.started = x.started /\ a.stop = x.stop
      /\ DOMAIN a.idx = DOMAIN x.idx \cup {key} /\ a.idx[key] = n
      /\ \A k \in DOMAIN x.idx : k # key => a.idx[k] = x.idx[k]
  <2>1. x \in Messages /\ key \in Nat /\ n \in Nat
    BY <1>1, <1>2
  <2>2. IsAt(x, key, n, a)
    BY <2>1, AtIs
  <2> HIDE DEF a
  <2> QED  BY <2>2 DEF IsAt
<1>6. o = Gives(a, <<Ev("open", Len(a.content))>>)
  BY DEF Opens, x
<1> HIDE DEF a, o
<1>7. o.m = a /\ o.bad = FALSE /\ o.out = <<Ev("open", Len(a.content))>>
  <2> DEFINE out == <<Ev("open", Len(a.content))>>
  <2>1. o = Gives(a, out)
    BY <1>6
  <2> HIDE DEF out
  <2>2. Gives(a, out).m = a /\ Gives(a, out).out = out /\ Gives(a, out).bad = FALSE
    BY OutcomeIs, Zenon
  <2>3. o.m = a /\ o.bad = FALSE /\ o.out = out
    BY <2>1, <2>2
  <2> QED  BY <2>3 DEF out
<1>8. o.m = a /\ o.bad = FALSE /\ o.out = <<Ev("open", n)>>
  BY <1>2, <1>5, <1>7
<1>9. Leads(a)
  <2>1. a.run = m.run /\ Len(a.content) = n /\ DOMAIN a.idx = DOMAIN m.idx \cup {key}
    BY <1>2, <1>5 DEF SameMaps
  <2>2. \A k \in DOMAIN a.idx : a.idx[k] \in 1 .. n
    BY <1>1, <1>2, <1>5 DEF SameMaps
  <2>3. \A j \in 1 .. n : a.content[j].kind = "result" => a.content[j].done
    <3>1. a.content[n].kind # "result"
      BY <1>3, <1>4, <1>5
    <3>2. \A j \in 1 .. Len(m.content) : a.content[j] = m.content[j]
      BY <1>4, <1>5
    <3>3. \A j \in 1 .. n : j = n \/ j \in 1 .. Len(m.content)
      BY <1>1
    <3> QED  BY <1>1, <3>1, <3>2, <3>3
  <2> QED  BY <1>1, <2>1, <2>2, <2>3 DEF Leads
<1>10. /\ a.content = Append(m.content, b) /\ Len(a.content) = n /\ a.content[n].kind = kind /\ ~a.content[n].done
       /\ \A j \in 1 .. Len(m.content) : a.content[j] = m.content[j]
       /\ a.run = m.run /\ a.held = m.held /\ a.started = m.started /\ a.stop = m.stop
       /\ DOMAIN a.idx = DOMAIN m.idx \cup {key} /\ a.idx[key] = n
       /\ \A k \in DOMAIN m.idx : k # key => a.idx[k] = m.idx[k]
  BY <1>2, <1>3, <1>4, <1>5 DEF SameMaps
<1>11. IsOpened(m, key, kind, o)
  BY <1>5, <1>8, <1>9, <1>10 DEF b, IsOpened
<1> QED  BY <1>11 DEF o

\* The event that announces a block.
LEMMA OpenParts ==
    ASSUME NEW c \in Seq(Blocks), NEW kind \in Kinds \ {"result"}, NEW what \in {"open", "web_start"}
    PROVE  /\ <<Ev(what, Len(c) + 1)>> \in Seq(Events) /\ Plain(<<Ev(what, Len(c) + 1)>>)
           /\ Carries(c, <<Ev(what, Len(c) + 1)>>, Append(c, [kind |-> kind, text |-> 0, done |-> FALSE]))
<1> DEFINE e == Ev(what, Len(c) + 1)
<1>1. Len(c) + 1 \in Nat
  BY LenProperties
<1>2. e \in Events /\ e.what = what
  BY <1>1, Evs DEF Words
<1> HIDE DEF e
<1>3. <<e>> \in Seq(Events) /\ Plain(<<e>>)
  BY <1>2, PlainOnes
<1>4. <<>> \in Seq(Events) /\ Len(<<>>) = 0 /\ \A i \in 1 .. Len(<<>>) : <<>>[i] = Ev("delta", Len(c) + 1)
  BY EmptySeq
<1>5. Carries(c, <<e>> \o <<>>, Append(c, [kind |-> kind, text |-> Len(<<>>), done |-> FALSE]))
  BY <1>4, OpenCarries, Zenon DEF e
<1>6. <<e>> \o <<>> = <<e>>
  BY <1>3, ConcatEmptySeq
<1>7. Carries(c, <<e>>, Append(c, [kind |-> kind, text |-> 0, done |-> FALSE]))
  BY <1>4, <1>5, <1>6
<1> QED  BY <1>3, <1>7 DEF e

\* A web search ends, and its result takes a place beside it.
Searched(m, n) == Sealed(NewBlock(Sealed(m, n), "result"), Len(m.content) + 1)

IsSearched(m, n, b) ==
    /\ b \in Messages /\ Leads(b) /\ SameMaps(m, b) /\ Len(b.content) = Len(m.content) + 1
    /\ \A j \in 1 .. Len(m.content) : j # n => b.content[j] = m.content[j]
    /\ b.content[n].done /\ b.content[n].kind = "web"
    /\ b.content[Len(m.content) + 1].done /\ b.content[Len(m.content) + 1].kind = "result"
    /\ Carries(m.content, <<Ev("web_end", n)>>, b.content)
    /\ <<Ev("web_end", n)>> \in Seq(Events) /\ Plain(<<Ev("web_end", n)>>)

\* The end of a web search is said of the search alone.
LEMMA WebParts ==
    ASSUME NEW m \in Messages, Leads(m), NEW n \in 1 .. Len(m.content), ~m.content[n].done, m.content[n].kind = "web"
    PROVE  IsSearched(m, n, Searched(m, n))
<1> DEFINE x == Sealed(m, n)
           l == Len(m.content) + 1
           y == NewBlock(x, "result")
           b == Sealed(y, l)
           out == <<Ev("web_end", n)>>
<1>1. /\ x \in Messages /\ Leads(x) /\ SameMaps(m, x) /\ Besides(m.content, x.content, n)
      /\ x.content[n].kind = "web" /\ x.content[n].done
      /\ Carries(m.content, out, x.content) /\ out \in Seq(Events) /\ Plain(out)
  <2>1. EndOf(m.content[n]) = "web_end"
    BY DEF EndOf
  <2> QED  BY <2>1, EndParts
<1> HIDE DEF x, out
<1>2. /\ m.content \in Seq(Blocks) /\ x.content \in Seq(Blocks) /\ Len(m.content) \in Nat
      /\ Len(x.content) = Len(m.content)
  BY <1>1, ContentIs DEF Besides
<1>3. /\ y \in Messages /\ SameMaps(x, y) /\ Len(y.content) = l
      /\ y.content = Append(x.content, [kind |-> "result", text |-> 0, done |-> FALSE])
  BY <1>1, <1>2, NewBlockIs DEF Kinds
<1>4. /\ y.content[l] = [kind |-> "result", text |-> 0, done |-> FALSE]
      /\ \A j \in 1 .. Len(m.content) : y.content[j] = x.content[j]
  <2> DEFINE r == [kind |-> "result", text |-> 0, done |-> FALSE]
  <2>1. r \in Blocks
    BY DEF Blocks, Kinds
  <2>2. y.content = Append(x.content, r)
    BY <1>3
  <2> HIDE DEF r, y
  <2>3. y.content[Len(x.content) + 1] = r /\ \A j \in 1 .. Len(x.content) : y.content[j] = x.content[j]
    <3>1. /\ Append(x.content, r)[Len(x.content) + 1] = r
          /\ \A j \in 1 .. Len(x.content) : Append(x.content, r)[j] = x.content[j]
      BY <1>2, <2>1, AppendIs
    <3> QED  BY <2>2, <3>1
  <2> QED  BY <1>2, <2>3 DEF r
<1> HIDE DEF y
<1>5. l \in 1 .. Len(y.content)
  BY <1>2, <1>3
<1>6. /\ b \in Messages /\ SameMaps(y, b) /\ Besides(y.content, b.content, l)
      /\ b.content[l].kind = y.content[l].kind /\ b.content[l].done /\ b.content[l].text = y.content[l].text
  BY <1>3, <1>5, SealedIs
<1> HIDE DEF b
<1>7. b.content[l] = [kind |-> "result", text |-> 0, done |-> TRUE]
  <2>1. b.content[l] \in Blocks
    BY <1>3, <1>5, <1>6, ElementOfSeq DEF Messages, Besides
  <2>2. \A z \in Blocks : z = [kind |-> z.kind, text |-> z.text, done |-> z.done] /\ (z.done => z.done = TRUE)
    BY DEF Blocks
  <2>3. b.content[l].kind = "result" /\ b.content[l].text = 0 /\ b.content[l].done
    BY <1>4, <1>6
  <2>4. b.content[l] = [kind |-> b.content[l].kind, text |-> b.content[l].text, done |-> b.content[l].done]
        /\ b.content[l].done = TRUE
    BY <2>1, <2>2, <2>3
  <2> QED  BY <2>3, <2>4
<1>8. /\ Len(b.content) = l /\ b.content \in Seq(Blocks)
      /\ \A j \in 1 .. Len(m.content) : b.content[j] = x.content[j]
  BY <1>2, <1>3, <1>4, <1>6 DEF Besides, Messages
<1>9. b.content = Append(x.content, [kind |-> "result", text |-> 0, done |-> TRUE])
  <2> DEFINE r == [kind |-> "result", text |-> 0, done |-> TRUE]
             z == Append(x.content, r)
  <2>1. r \in Blocks
    BY DEF Blocks, Kinds
  <2> HIDE DEF r
  <2>2. z \in Seq(Blocks) /\ Len(z) = l /\ z[l] = r /\ \A j \in 1 .. Len(m.content) : z[j] = x.content[j]
    BY <1>2, <2>1, AppendProperties
  <2>3. \A j \in 1 .. l : b.content[j] = z[j]
    BY <1>2, <1>7, <1>8, <2>2 DEF r
  <2> HIDE DEF z
  <2>4. b.content = z
    BY <1>8, <2>2, <2>3, SeqEqual
  <2> QED  BY <2>4 DEF z, r
<1>10. Carries(m.content, out, b.content)
  <2>1. Carries(x.content, <<>>, b.content)
    BY <1>2, <1>9, ResultCarries
  <2>2. Carries(m.content, out \o <<>>, b.content)
    BY <1>1, <2>1, CarriedOn, EmptySeq
  <2>3. out \o <<>> = out
    BY <1>1, ConcatEmptySeq
  <2> QED  BY <2>2, <2>3
<1>11. SameMaps(m, b)
  BY <1>1, <1>3, <1>6 DEF SameMaps
<1>12. \A j \in 1 .. Len(m.content) : j # n => b.content[j] = m.content[j]
  BY <1>1, <1>8 DEF Besides
<1>13. b.content[n].done /\ b.content[n].kind = "web"
  BY <1>1, <1>8
<1>14. Leads(b)
  <2>1. \A j \in 1 .. l : b.content[j].kind = "result" => b.content[j].done
    <3>1. \A j \in 1 .. Len(m.content) : x.content[j].kind = "result" => x.content[j].done
      BY <1>1, <1>2, ContentIs
    <3>2. b.content[l].done
      BY <1>7
    <3>3. \A j \in 1 .. l : j = l \/ j \in 1 .. Len(m.content)
      BY <1>2
    <3> QED  BY <1>8, <3>1, <3>2, <3>3
  <2> QED  BY <1>2, <1>8, <1>11, <2>1, ContentIs DEF Leads, SameMaps
<1>15. IsSearched(m, n, b)
  BY <1>1, <1>6, <1>7, <1>8, <1>10, <1>11, <1>12, <1>13, <1>14 DEF IsSearched, out
<1> QED  BY <1>15 DEF Searched, b, y, x

-----------------------------------------------------------------------------
(* Anthropic Messages.                                                     *)

\* The end of a response: what was begun is whole.
Ended(m, p) ==
    /\ p.m \in Messages /\ Leads(p.m) /\ p.bad \in BOOLEAN
    /\ ~p.bad => /\ p.m.stop /\ Whole(p.m.content)
                 /\ \E body \in Seq(Events) : /\ Plain(body) /\ Carries(m.content, body, p.m.content)
                                              /\ p.out = body \o <<FinishEv>>

\* The text run is closed, if there is one.
IsRunClosed(m, c) ==
    /\ c.m \in Messages /\ Leads(c.m) /\ c.bad = FALSE /\ c.m.content \in Seq(Blocks)
    /\ c.out \in Seq(Events) /\ Plain(c.out) /\ Carries(m.content, c.out, c.m.content)
    /\ c.m.run = 0 /\ c.m.idx = m.idx /\ c.m.held = m.held /\ c.m.started = m.started /\ c.m.stop = m.stop
    /\ Len(c.m.content) = Len(m.content)
    /\ \A j \in 1 .. Len(m.content) : IF j = m.run THEN c.m.content[j].done ELSE c.m.content[j] = m.content[j]

\* `_close_text_run` closes the run and nothing else.
LEMMA RunCloses ==
    ASSUME NEW m \in Messages, Leads(m),
           m.run # 0 => m.content[m.run].kind = "text" /\ ~m.content[m.run].done
    PROVE  IsRunClosed(m, CloseTextRun(m))
<1> DEFINE c == CloseTextRun(m)
<1>1. m.content \in Seq(Blocks) /\ Len(m.content) \in Nat /\ m.run \in 0 .. Len(m.content)
  BY ContentIs
<1>2. CASE m.run = 0
  <2>1. c = Silent(m)
    BY <1>2 DEF CloseTextRun
  <2>2. Silent(m).m = m /\ Silent(m).bad = FALSE
    BY OutcomeIs
  <2>3. Parted(m, Silent(m))
    BY SilentParts
  <2>4. Silent(m).out = <<>>
    BY OutcomeIs
  <2> HIDE DEF c
  <2>5. c.m = m /\ c.bad = FALSE /\ c.out = <<>>
    BY <2>1, <2>2, <2>4
  <2>6. IsRunClosed(m, c)
    BY <1>1, <1>2, <2>1, <2>3, <2>5 DEF IsRunClosed, Parted
  <2> QED  BY <2>6 DEF c
<1>3. CASE m.run # 0
  <2> DEFINE n == m.run
             x == Sealed(m, n)
             y == [x EXCEPT !.run = 0]
             out == <<Ev("close", n)>>
  <2>1. n \in 1 .. Len(m.content) /\ ~m.content[n].done /\ EndOf(m.content[n]) = "close"
    BY <1>1, <1>3 DEF EndOf
  <2>2. /\ x \in Messages /\ Leads(x) /\ SameMaps(m, x) /\ Besides(m.content, x.content, n)
        /\ x.content[n].kind = m.content[n].kind /\ x.content[n].done
        /\ Carries(m.content, out, x.content) /\ out \in Seq(Events) /\ Plain(out)
    BY <2>1, EndParts
  <2>3. c = Gives(y, out)
    BY <1>3 DEF CloseTextRun
  <2> HIDE DEF x, out, c
  <2>4. y \in Messages /\ y.content = x.content /\ y.run = 0 /\ y.idx = x.idx /\ y.held = x.held
        /\ y.started = x.started /\ y.stop = x.stop
    BY <2>2 DEF Messages
  <2> HIDE DEF y
  <2>5. Leads(y)
    BY <2>2, <2>4, ContentIs DEF Leads
  <2>6. c.m = y /\ c.out = out /\ c.bad = FALSE
    <3>1. Gives(y, out).m = y /\ Gives(y, out).out = out /\ Gives(y, out).bad = FALSE
      BY OutcomeIs, Zenon
    <3> QED  BY <2>3, <3>1
  <2>7. Parted(m, c)
    BY <2>2, <2>4, <2>5, <2>6 DEF Parted
  <2>8. /\ c.m.run = 0 /\ c.m.idx = m.idx /\ c.m.held = m.held /\ c.m.started = m.started /\ c.m.stop = m.stop
        /\ Len(c.m.content) = Len(m.content)
    BY <2>2, <2>4, <2>6 DEF SameMaps, Besides
  <2>9. \A j \in 1 .. Len(m.content) : IF j = m.run THEN c.m.content[j].done ELSE c.m.content[j] = m.content[j]
    BY <2>2, <2>4, <2>6 DEF Besides
  <2>10. c.m.content \in Seq(Blocks) /\ c.m \in Messages
    BY <2>4, <2>6 DEF Messages
  <2>11. IsRunClosed(m, c)
    BY <2>6, <2>7, <2>8, <2>9, <2>10 DEF IsRunClosed, Parted
  <2> QED  BY <2>11 DEF c
<1> QED  BY <1>2, <1>3

\* A block opens: a text joins the run, anything else ends it.
LEMMA MessagesOpenIs ==
    ASSUME NEW m \in Messages, Leads(m), NEW s, s.open = 0, MessagesInStep(s, m),
           NEW t, Underway(t), NEW r, r.key \in Nat \ {0}, t.open = r.key, r.kind \in {"text", "call", "web"}
    PROVE  Parted(m, MessagesOpen(m, r)) /\ MessagesInStep(t, MessagesOpen(m, r).m)
<1> DEFINE p == MessagesOpen(m, r)
           l == Len(m.content) + 1
<1>1. /\ m.content \in Seq(Blocks) /\ Len(m.content) \in Nat /\ m.run \in 0 .. Len(m.content)
      /\ \A k \in DOMAIN m.idx : m.idx[k] \in 1 .. Len(m.content)
  BY ContentIs
<1>2. /\ m.run # 0 => m.content[m.run].kind = "text" /\ ~m.content[m.run].done
      /\ \A n \in 1 .. Len(m.content) : ~m.content[n].done => n = m.run
  BY DEF MessagesInStep
<1>3. CASE r.kind = "text" /\ m.run # 0
  <2> DEFINE a == At(m, r.key, m.run)
  <2>1. m.run \in Nat /\ r.key \in Nat
    BY <1>1
  <2>2. /\ a \in Messages /\ a.content = m.content /\ a.run = m.run
        /\ DOMAIN a.idx = DOMAIN m.idx \cup {r.key} /\ a.idx[r.key] = m.run
        /\ \A k \in DOMAIN m.idx : k # r.key => a.idx[k] = m.idx[k]
    <3>1. IsAt(m, r.key, m.run, a)
      BY <2>1, AtIs
    <3> HIDE DEF a
    <3> QED  BY <3>1 DEF IsAt
  <2>3. p = Silent(a)
    BY <1>3 DEF MessagesOpen
  <2> HIDE DEF a, p
  <2>4. Leads(a)
    BY <1>1, <1>3, <2>2 DEF Leads
  <2>5. Parted(m, Silent(a)) /\ Silent(a).m = a
    BY <2>2, <2>4, SilentParts, OutcomeIs
  <2>6. MessagesInStep(t, a)
    BY <1>1, <1>2, <1>3, <2>2 DEF MessagesInStep
  <2>7. Parted(m, p) /\ MessagesInStep(t, p.m)
    BY <2>3, <2>5, <2>6
  <2> QED  BY <2>7 DEF p
<1>4. CASE r.kind = "text" /\ m.run = 0
  <2> DEFINE o == Opens(m, r.key, "text")
             y == [o.m EXCEPT !.run = l]
  <2>1. "text" \in Kinds \ {"result"} /\ r.key \in Nat
    BY DEF Kinds
  <2>2. /\ o.m \in Messages /\ Leads(o.m) /\ o.bad = FALSE /\ o.out = <<Ev("open", l)>>
        /\ o.m.content = Append(m.content, [kind |-> "text", text |-> 0, done |-> FALSE])
        /\ Len(o.m.content) = l /\ o.m.content[l].kind = "text" /\ ~o.m.content[l].done
        /\ \A j \in 1 .. Len(m.content) : o.m.content[j] = m.content[j]
        /\ DOMAIN o.m.idx = DOMAIN m.idx \cup {r.key} /\ o.m.idx[r.key] = l
    <3>1. IsOpened(m, r.key, "text", o)
      BY <2>1, OpensIs
    <3> HIDE DEF o
    <3> QED  BY <3>1 DEF IsOpened
  <2>3. p = [o EXCEPT !.m.run = l]
    BY <1>4 DEF MessagesOpen
  <2>4. o = [m |-> o.m, out |-> o.out, bad |-> o.bad]
    BY DEF Opens, Gives
  <2> HIDE DEF o, p
  <2>5. p.m = y /\ p.out = o.out /\ p.bad = o.bad
    BY <2>3, <2>4
  <2>6. y \in Messages /\ y.content = o.m.content /\ y.idx = o.m.idx /\ y.run = l
    BY <1>1, <2>2 DEF Messages
  <2> HIDE DEF y
  <2>7. Leads(y)
    BY <1>1, <2>2, <2>6 DEF Leads
  <2>8. Carries(m.content, o.out, y.content) /\ o.out \in Seq(Events) /\ Plain(o.out)
    <3>1. "open" \in {"open", "web_start"}
      OBVIOUS
    <3>2. /\ <<Ev("open", l)>> \in Seq(Events) /\ Plain(<<Ev("open", l)>>)
          /\ Carries(m.content, <<Ev("open", l)>>, Append(m.content, [kind |-> "text", text |-> 0, done |-> FALSE]))
      BY <1>1, <2>1, <3>1, OpenParts, Zenon
    <3> QED  BY <2>2, <2>6, <3>2
  <2>9. Parted(m, p)
    BY <2>2, <2>5, <2>6, <2>7, <2>8 DEF Parted
  <2>10. MessagesInStep(t, y)
    <3>1. \A n \in 1 .. l : n = l \/ n \in 1 .. Len(m.content)
      BY <1>1
    <3>2. \A n \in 1 .. l : ~y.content[n].done => n = l
      <4>1. \A n \in 1 .. Len(m.content) : m.content[n].done
        BY <1>1, <1>2, <1>4
      <4>2. \A n \in 1 .. Len(m.content) : y.content[n].done
        BY <2>2, <2>6, <4>1
      <4> QED  BY <3>1, <4>2
    <3> QED  BY <1>1, <2>2, <2>6, <3>2 DEF MessagesInStep
  <2> QED  BY <2>5, <2>9, <2>10 DEF p
<1>5. CASE r.kind # "text"
  <2> DEFINE c == CloseTextRun(m)
             o == Opens(c.m, r.key, r.kind)
             what == IF r.kind = "web" THEN "web_start" ELSE "open"
             e == <<Ev(what, l)>>
  <2>1. IsRunClosed(m, c)
    BY <1>2, RunCloses
  <2> HIDE DEF c
  <2>2. /\ c.m \in Messages /\ Leads(c.m) /\ c.out \in Seq(Events) /\ Plain(c.out)
        /\ Carries(m.content, c.out, c.m.content) /\ c.m.content \in Seq(Blocks)
        /\ c.bad = FALSE /\ c.m.run = 0 /\ c.m.idx = m.idx /\ Len(c.m.content) = Len(m.content)
        /\ \A j \in 1 .. Len(m.content) : IF j = m.run THEN c.m.content[j].done ELSE c.m.content[j] = m.content[j]
    BY <2>1 DEF IsRunClosed
  <2>3. r.kind \in Kinds \ {"result"} /\ r.key \in Nat /\ Len(c.m.content) + 1 = l
    BY <1>5, <2>2 DEF Kinds
  <2>4. /\ o.m \in Messages /\ Leads(o.m) /\ o.bad = FALSE /\ o.out = <<Ev("open", Len(c.m.content) + 1)>>
        /\ o.m.content = Append(c.m.content, [kind |-> r.kind, text |-> 0, done |-> FALSE])
        /\ Len(o.m.content) = Len(c.m.content) + 1 /\ o.m.content[Len(c.m.content) + 1].kind = r.kind
        /\ ~o.m.content[Len(c.m.content) + 1].done
        /\ \A j \in 1 .. Len(c.m.content) : o.m.content[j] = c.m.content[j]
        /\ DOMAIN o.m.idx = DOMAIN c.m.idx \cup {r.key} /\ o.m.idx[r.key] = Len(c.m.content) + 1
        /\ o.m.run = c.m.run
    <3>1. IsOpened(c.m, r.key, r.kind, o)
      BY <2>2, <2>3, OpensIs
    <3> HIDE DEF o
    <3> QED  BY <3>1 DEF IsOpened
  <2>5. p = Gives(o.m, c.out \o e)
    <3>1. p = IF r.kind = "web" THEN Gives(o.m, c.out \o <<Ev("web_start", Len(o.m.content))>>)
              ELSE Gives(o.m, c.out \o o.out)
      BY <1>5 DEF MessagesOpen, c
    <3> QED  BY <2>3, <2>4, <3>1
  <2>6. e \in Seq(Events) /\ Plain(e) /\ Carries(c.m.content, e, o.m.content)
    <3>1. what \in {"open", "web_start"}
      OBVIOUS
    <3> HIDE DEF what
    <3>2. /\ <<Ev(what, Len(c.m.content) + 1)>> \in Seq(Events) /\ Plain(<<Ev(what, Len(c.m.content) + 1)>>)
          /\ Carries(c.m.content, <<Ev(what, Len(c.m.content) + 1)>>,
                     Append(c.m.content, [kind |-> r.kind, text |-> 0, done |-> FALSE]))
      BY <2>2, <2>3, <3>1, OpenParts, Zenon
    <3> QED  BY <2>3, <2>4, <3>2
  <2> HIDE DEF o, e, p
  <2>7. Carries(m.content, c.out \o e, o.m.content) /\ c.out \o e \in Seq(Events) /\ Plain(c.out \o e)
    BY <2>2, <2>6, CarriedOn, PlainJoined
  <2>8. p.m = o.m /\ p.out = c.out \o e /\ p.bad = FALSE
    BY <2>5 DEF Gives
  <2>9. Parted(m, p)
    BY <2>4, <2>7, <2>8 DEF Parted
  <2>10. MessagesInStep(t, o.m)
    <3>1. \A n \in 1 .. l : n = l \/ n \in 1 .. Len(m.content)
      BY <1>1
    <3>2. \A n \in 1 .. Len(m.content) : c.m.content[n].done
      BY <1>1, <1>2, <2>2
    <3>3. \A n \in 1 .. l : ~o.m.content[n].done => n = l
      BY <1>1, <2>2, <2>4, <3>1, <3>2
    <3>4. o.m.idx[r.key] = l /\ r.key \in DOMAIN o.m.idx /\ ~o.m.content[l].done /\ o.m.content[l].kind # "text"
      BY <1>5, <2>2, <2>4
    <3>5. o.m.run = 0 /\ Len(o.m.content) = l
      BY <2>2, <2>4
    <3> QED  BY <3>3, <3>4, <3>5 DEF MessagesInStep
  <2> QED  BY <2>8, <2>9, <2>10 DEF p
<1> QED  BY <1>3, <1>4, <1>5


\* A piece of the block that is open.
LEMMA MessagesDeltaIs ==
    ASSUME NEW m \in Messages, Leads(m), NEW s, s.open # 0, MessagesInStep(s, m),
           NEW t, Underway(t), NEW r, r.key = s.open, t.open = s.open
    PROVE  Parted(m, MessagesDelta(m, r)) /\ MessagesInStep(t, MessagesDelta(m, r).m)
<1> DEFINE p == MessagesDelta(m, r)
           n == m.idx[r.key]
           g == Grow(m, n)
           out == <<Ev("delta", n)>>
<1>1. /\ m.content \in Seq(Blocks) /\ Len(m.content) \in Nat /\ m.run \in 0 .. Len(m.content)
      /\ \A k \in DOMAIN m.idx : m.idx[k] \in 1 .. Len(m.content)
  BY ContentIs
<1>2. /\ r.key \in DOMAIN m.idx /\ n \in 1 .. Len(m.content) /\ ~m.content[n].done
      /\ m.content[n].kind = "text" => n = m.run
      /\ m.run # 0 => m.content[m.run].kind = "text" /\ ~m.content[m.run].done
      /\ \A j \in 1 .. Len(m.content) : ~m.content[j].done => j = m.run \/ j = n
  BY <1>1 DEF MessagesInStep
<1>3. MessagesInStep(t, m)
  BY <1>2 DEF MessagesInStep
<1>4. CASE m.content[n].kind = "web"
  <2>1. p = Silent(m)
    BY <1>2, <1>4 DEF MessagesDelta, Known
  <2>2. Parted(m, Silent(m)) /\ Silent(m).m = m
    BY SilentParts, OutcomeIs
  <2> QED  BY <1>3, <2>1, <2>2
<1>5. CASE m.content[n].kind # "web"
  <2>1. p = Gives(g, out)
    BY <1>2, <1>5 DEF MessagesDelta, Known, Delta
  <2>2. /\ Parted(m, Gives(g, out)) /\ SameMaps(m, g) /\ Besides(m.content, g.content, n)
        /\ g.content[n].kind = m.content[n].kind /\ ~g.content[n].done
    BY <1>2, DeltaParts
  <2> HIDE DEF p, g, out
  <2>3. p.m = g
    BY <2>1 DEF Gives
  <2>4. \A j \in 1 .. Len(m.content) : g.content[j].kind = m.content[j].kind /\ g.content[j].done = m.content[j].done
    <3>1. \A j \in 1 .. Len(m.content) : m.content[j].done \in BOOLEAN
      BY ContentIs DEF Blocks
    <3>2. g.content[n].done \in BOOLEAN
      <4>1. g \in Messages
        BY <2>1, <2>2, <2>3 DEF Parted
      <4>2. g.content \in Seq(Blocks) /\ n \in 1 .. Len(g.content)
        BY <1>2, <2>2, <4>1 DEF Messages, Besides
      <4>3. g.content[n] \in Blocks
        BY <4>2, ElementOfSeq
      <4> QED  BY <4>3 DEF Blocks
    <3>3. \A j \in 1 .. Len(m.content) : j # n => g.content[j] = m.content[j]
      BY <2>2 DEF Besides
    <3> HIDE DEF n
    <3> QED  BY <1>2, <2>2, <3>1, <3>2, <3>3
  <2>5. g.idx = m.idx /\ g.run = m.run /\ Len(g.content) = Len(m.content)
    BY <2>2 DEF SameMaps, Besides
  <2>6. MessagesInStep(t, g)
    BY <1>1, <1>2, <2>4, <2>5 DEF MessagesInStep
  <2> QED  BY <2>1, <2>2, <2>3, <2>6 DEF p
<1> QED  BY <1>4, <1>5

\* The block that is open ends.
LEMMA MessagesStopIs ==
    ASSUME NEW m \in Messages, Leads(m), NEW s, s.open # 0, MessagesInStep(s, m),
           NEW t, Underway(t), NEW r, r.key = s.open, t.open = 0
    PROVE  /\ Parted(m, MessagesStop(m, r))
           /\ ~MessagesStop(m, r).bad => MessagesInStep(t, MessagesStop(m, r).m)
<1> DEFINE p == MessagesStop(m, r)
           n == m.idx[r.key]
<1>1. /\ m.content \in Seq(Blocks) /\ Len(m.content) \in Nat /\ m.run \in 0 .. Len(m.content)
      /\ \A k \in DOMAIN m.idx : m.idx[k] \in 1 .. Len(m.content)
  BY ContentIs
<1>2. /\ r.key \in DOMAIN m.idx /\ n \in 1 .. Len(m.content) /\ ~m.content[n].done
      /\ m.content[n].kind = "text" => n = m.run
      /\ m.run # 0 => m.content[m.run].kind = "text" /\ ~m.content[m.run].done
      /\ \A j \in 1 .. Len(m.content) : ~m.content[j].done => j = m.run \/ j = n
  BY <1>1 DEF MessagesInStep
<1>3. CASE m.content[n].kind = "text"
  <2>1. p = Silent(m)
    BY <1>2, <1>3 DEF MessagesStop, Known
  <2>2. Parted(m, Silent(m)) /\ Silent(m).m = m
    BY SilentParts, OutcomeIs
  <2>3. MessagesInStep(t, m)
    BY <1>2, <1>3 DEF MessagesInStep
  <2> QED  BY <2>1, <2>2, <2>3
<1>4. CASE m.content[n].kind = "web"
  <2> DEFINE b == Searched(m, n)
             out == <<Ev("web_end", n)>>
  <2>1. p = Gives(b, out)
    BY <1>2, <1>4 DEF MessagesStop, Known, Searched
  <2>2. IsSearched(m, n, b)
    BY <1>2, <1>4, WebParts
  <2> HIDE DEF p, b
  <2>3. /\ b \in Messages /\ Leads(b) /\ b.run = m.run /\ b.idx = m.idx /\ Len(b.content) = Len(m.content) + 1
        /\ \A j \in 1 .. Len(m.content) : j # n => b.content[j] = m.content[j]
        /\ b.content[n].done /\ b.content[Len(m.content) + 1].done
    BY <2>2 DEF IsSearched, SameMaps
  <2>4. p.m = b /\ p.out = out /\ p.bad = FALSE
    BY <2>1 DEF Gives
  <2>5. Parted(m, p)
    BY <2>2, <2>4 DEF Parted, IsSearched
  <2>6. MessagesInStep(t, b)
    <3>1. n # m.run
      BY <1>1, <1>2, <1>4
    <3>2. \A j \in 1 .. Len(m.content) + 1 : j = Len(m.content) + 1 \/ j = n \/ (j \in 1 .. Len(m.content) /\ j # n)
      BY <1>1
    <3>3. \A j \in 1 .. Len(m.content) + 1 : ~b.content[j].done => j = m.run
      <4> HIDE DEF n
      <4>1. \A j \in 1 .. Len(m.content) : j # n /\ ~b.content[j].done => j = m.run
        BY <1>2, <2>3
      <4> QED  BY <2>3, <3>2, <4>1
    <3>4. m.run # 0 => b.content[m.run].kind = "text" /\ ~b.content[m.run].done
      <4>1. m.run # 0 => m.run \in 1 .. Len(m.content) /\ b.content[m.run] = m.content[m.run]
        BY <1>1, <2>3, <3>1
      <4> QED  BY <1>2, <4>1
    <3> QED  BY <2>3, <3>3, <3>4 DEF MessagesInStep
  <2> QED  BY <2>4, <2>5, <2>6 DEF p
<1>5. CASE m.content[n].kind \notin {"text", "web"}
  <2> DEFINE c == CloseBlock(m, n, r)
  <2>1. p = c
    BY <1>2, <1>5 DEF MessagesStop, Known
  <2>2. /\ Parted(m, c) /\ SameMaps(m, c.m)
        /\ ~c.bad => /\ Besides(m.content, c.m.content, n)
                     /\ c.m.content[n].kind = m.content[n].kind
                     /\ c.m.content[n].done
    BY <1>2, <1>5, CloseParts
  <2> HIDE DEF c, p
  <2>3. ~c.bad => MessagesInStep(t, c.m)
    <3>1. n # m.run
      BY <1>1, <1>2, <1>5
    <3>2. SUFFICES ASSUME ~c.bad
                   PROVE  MessagesInStep(t, c.m)
      OBVIOUS
    <3>3. /\ c.m.idx = m.idx /\ c.m.run = m.run /\ Len(c.m.content) = Len(m.content)
          /\ \A j \in 1 .. Len(m.content) : j # n => c.m.content[j] = m.content[j]
      BY <2>2, <3>2 DEF SameMaps, Besides
    <3> HIDE DEF n
    <3>4. \A j \in 1 .. Len(m.content) : ~c.m.content[j].done => j = m.run
      BY <1>2, <2>2, <3>2, <3>3
    <3>5. m.run # 0 => c.m.content[m.run].kind = "text" /\ ~c.m.content[m.run].done
      <4>1. m.run # 0 => m.run \in 1 .. Len(m.content) /\ c.m.content[m.run] = m.content[m.run]
        BY <1>1, <3>1, <3>3
      <4> QED  BY <1>2, <4>1
    <3> QED  BY <3>3, <3>4, <3>5 DEF MessagesInStep
  <2> QED  BY <2>1, <2>2, <2>3 DEF p
<1> QED  BY <1>3, <1>4, <1>5

\* The response ends: the run is closed and the usage told, and, if a reason
\* was given, the finish.
LEMMA MessagesEndIs ==
    ASSUME NEW m \in Messages, Leads(m), NEW s, s.open = 0, MessagesInStep(s, m), NEW t, t.open = 0
    PROVE  IF m.stop THEN Ended(m, MessagesEnd(m))
           ELSE Parted(m, MessagesEnd(m)) /\ MessagesInStep(t, MessagesEnd(m).m)
<1> DEFINE p == MessagesEnd(m)
           c == CloseTextRun(m)
           u == [c.m EXCEPT !.usage = TRUE]
           usage == <<Ev("usage", 0)>>
           body == c.out \o usage
           last == IF m.stop THEN <<FinishEv>> ELSE <<>>
<1>1. /\ m.content \in Seq(Blocks) /\ Len(m.content) \in Nat /\ m.run \in 0 .. Len(m.content)
      /\ m.run # 0 => m.content[m.run].kind = "text" /\ ~m.content[m.run].done
      /\ \A n \in 1 .. Len(m.content) : ~m.content[n].done => n = m.run
  BY ContentIs DEF MessagesInStep
<1>2. IsRunClosed(m, c)
  BY <1>1, RunCloses
<1>3. p = Gives(u, body \o last)
  BY DEF MessagesEnd
<1> HIDE DEF c, p
<1>4. /\ c.m \in Messages /\ Leads(c.m) /\ c.m.content \in Seq(Blocks)
      /\ c.out \in Seq(Events) /\ Plain(c.out) /\ Carries(m.content, c.out, c.m.content)
      /\ c.m.run = 0 /\ c.m.idx = m.idx /\ c.m.stop = m.stop /\ Len(c.m.content) = Len(m.content)
      /\ \A j \in 1 .. Len(m.content) : IF j = m.run THEN c.m.content[j].done ELSE c.m.content[j] = m.content[j]
  BY <1>2 DEF IsRunClosed
<1>5. /\ u \in Messages /\ u.content = c.m.content /\ u.run = 0 /\ u.idx = c.m.idx /\ u.stop = m.stop
  BY <1>4 DEF Messages
<1>6. usage \in Seq(Events) /\ Plain(usage) /\ Quiet(usage)
  BY Evs, PlainOnes, NothingSaid, OneEvent DEF Words
<1> HIDE DEF u, usage
<1>7. body \in Seq(Events) /\ Plain(body) /\ Carries(m.content, body, u.content)
  BY <1>4, <1>5, <1>6, QuietCarries, CarriedOn, PlainJoined
<1>8. Leads(u)
  BY <1>4, <1>5 DEF Leads
<1>9. \A j \in 1 .. Len(u.content) : u.content[j].done
  BY <1>1, <1>4, <1>5
<1> HIDE DEF body
<1>10. p.m = u /\ p.out = body \o last /\ p.bad = FALSE
  BY <1>3 DEF Gives
<1>11. CASE m.stop
  <2>1. p.out = body \o <<FinishEv>>
    BY <1>10, <1>11
  <2>2. Whole(u.content)
    BY <1>9 DEF Whole
  <2>3. Ended(m, p)
    BY <1>5, <1>7, <1>8, <1>10, <1>11, <2>1, <2>2 DEF Ended
  <2> QED  BY <1>11, <2>3 DEF p
<1>12. CASE ~m.stop
  <2>1. p.out = body \o <<>>
    BY <1>10, <1>12
  <2>2. p.out = body
    BY <1>7, <2>1, ConcatEmptySeq
  <2>3. Parted(m, p)
    BY <1>5, <1>7, <1>8, <1>10, <2>2 DEF Parted
  <2>4. MessagesInStep(t, u)
    BY <1>5, <1>9 DEF MessagesInStep
  <2> QED  BY <1>10, <1>12, <2>3, <2>4 DEF p
<1> QED  BY <1>11, <1>12

-----------------------------------------------------------------------------
(* One raw event, on any wire.                                             *)

\* The response goes on, announced when it had not begun.
Continues(s, t, m, h, body) ==
    /\ InStep(t, h.m)
    /\ \/ h.out = body /\ (Unbegun(t, h.m) => Unbegun(s, m) /\ body = <<>>)
       \/ h.out = <<StartEvent>> \o body /\ Unbegun(s, m) /\ ~Unbegun(t, h.m)

\* The response is over and nothing is missing.
Finishes(s, m, h, body) ==
    /\ h.m.stop /\ Whole(h.m.content)
    /\ \/ h.out = body \o <<FinishEv>>
       \/ h.out = <<StartEvent>> \o (body \o <<FinishEv>>) /\ Unbegun(s, m)

\* The outcome of a raw event that takes the provider from s to t.
Handled(s, t, m, h) ==
    /\ h.m \in Messages /\ Leads(h.m) /\ h.bad \in BOOLEAN
    /\ ~h.bad => \E body \in Seq(Events) :
                    /\ Plain(body) /\ Carries(m.content, body, h.m.content)
                    /\ Continues(s, t, m, h, body) \/ Finishes(s, m, h, body)

\* A part, with or without the start, goes on.
LEMMA PartHandled ==
    ASSUME NEW m, NEW s, NEW t, NEW p, NEW h, Parted(m, p), h.m = p.m, h.bad = p.bad,
           ~p.bad => /\ InStep(t, h.m)
                     /\ \/ h.out = p.out /\ (Unbegun(t, h.m) => Unbegun(s, m) /\ p.out = <<>>)
                        \/ h.out = <<StartEvent>> \o p.out /\ Unbegun(s, m) /\ ~Unbegun(t, h.m)
    PROVE  Handled(s, t, m, h)
  BY DEF Parted, Handled, Continues

\* An end, with or without the start, finishes.
LEMMA EndHandled ==
    ASSUME NEW m, NEW s, NEW t, NEW p, NEW h, Ended(m, p), h.m = p.m, h.bad = p.bad,
           ~p.bad => h.out = p.out \/ (h.out = <<StartEvent>> \o p.out /\ Unbegun(s, m))
    PROVE  Handled(s, t, m, h)
<1>1. /\ h.m \in Messages /\ Leads(h.m) /\ h.bad \in BOOLEAN
      /\ ~h.bad => /\ h.m.stop /\ Whole(h.m.content)
                   /\ \E body \in Seq(Events) : /\ Plain(body) /\ Carries(m.content, body, h.m.content)
                                                /\ p.out = body \o <<FinishEv>>
  BY DEF Ended
<1>2. SUFFICES ASSUME ~h.bad
               PROVE  \E body \in Seq(Events) :
                         /\ Plain(body) /\ Carries(m.content, body, h.m.content)
                         /\ Finishes(s, m, h, body)
  BY <1>1, <1>2 DEF Handled
<1>3. PICK body \in Seq(Events) : /\ Plain(body) /\ Carries(m.content, body, h.m.content)
                                  /\ p.out = body \o <<FinishEv>>
  BY <1>1, <1>2
<1>4. Finishes(s, m, h, body)
  BY <1>1, <1>2, <1>3 DEF Finishes
<1> QED  BY <1>3, <1>4

\* What raised is handled, whatever was in step.
LEMMA RaisedHandled ==
    ASSUME NEW m \in Messages, Leads(m), NEW s, NEW t
    PROVE  Handled(s, t, m, Raises(m))
<1>1. Raises(m).m = m /\ Raises(m).bad = TRUE
  BY OutcomeIs
<1> QED  BY <1>1 DEF Handled

\* Every event of the Messages wire.
LEMMA MessagesHandled ==
    ASSUME wire = "messages", NEW s \in Servers, s.open # 0 => s.blocks[s.open] # "none",
           NEW r, Comes(s, r), NEW m \in Messages, Leads(m), InStep(s, m)
    PROVE  Handled(s, Said(s, r), m, HandleMessages(m, r))
<1> DEFINE t == Said(s, r)
           h == HandleMessages(m, r)
<1>1. MessagesComes(s, r)
  BY DEF Comes
<1>2. /\ t.open = IF r.type = "open" THEN r.key ELSE IF r.type = "close" THEN 0 ELSE s.open
      /\ r.type \in {"begin", "open", "delta", "close"} => t.stage = "body"
      /\ r.type = "reason" => t.stage = "reason"
      /\ r.type \in {"end", "error"} => t.stage = "over"
  BY DEF Said
<1>3. s.open \in Nat /\ s.stage \in Stages
  BY DEF Servers
<1> HIDE DEF t
<1>4. MessagesInStep(s, m) /\ (Unbegun(s, m) <=> s.stage = "begin")
  BY DEF InStep, Unbegun
<1>5. \A g : (InStep(t, g) <=> MessagesInStep(t, g)) /\ (Unbegun(t, g) <=> t.stage = "begin")
  BY DEF InStep, Unbegun
<1>6. CASE r.type = "begin"
  <2> DEFINE p == Silent(m)
  <2>1. h = Gives(m, <<StartEvent>>)
    BY <1>6 DEF HandleMessages
  <2> HIDE DEF h
  <2>2. h.m = m /\ h.out = <<StartEvent>> /\ h.bad = FALSE
    BY <2>1 DEF Gives
  <2>3. p.m = m /\ p.out = <<>> /\ p.bad = FALSE /\ Parted(m, p)
    BY SilentParts, OutcomeIs
  <2> HIDE DEF p
  <2>4. <<StartEvent>> \o <<>> = <<StartEvent>>
    BY Evs, OneEvent, ConcatEmptySeq
  <2>5. MessagesInStep(t, m)
    BY <1>1, <1>2, <1>4, <1>6 DEF MessagesInStep, MessagesComes, Underway
  <2>6. Unbegun(s, m) /\ ~Unbegun(t, m) /\ InStep(t, m)
    BY <1>1, <1>2, <1>4, <1>5, <1>6, <2>5 DEF MessagesComes
  <2>7. Handled(s, t, m, h)
    BY <2>2, <2>3, <2>4, <2>6, PartHandled
  <2> QED  BY <2>7 DEF h, t
<1>7. CASE r.type = "open"
  <2>1. h = MessagesOpen(m, r)
    BY <1>7 DEF HandleMessages
  <2>2. s.open = 0 /\ r.key \in Nat \ {0} /\ t.open = r.key /\ Underway(t) /\ r.kind \in {"text", "call", "web"}
    BY <1>1, <1>2, <1>7 DEF MessagesComes, Underway
  <2>3. Parted(m, MessagesOpen(m, r)) /\ MessagesInStep(t, MessagesOpen(m, r).m)
    BY <1>4, <2>2, MessagesOpenIs
  <2> HIDE DEF h
  <2>4. InStep(t, h.m) /\ ~Unbegun(t, h.m)
    BY <1>2, <1>5, <1>7, <2>1, <2>3
  <2>5. Handled(s, t, m, h)
    BY <2>1, <2>3, <2>4, PartHandled
  <2> QED  BY <2>5 DEF h, t
<1>8. CASE r.type = "delta"
  <2>1. h = MessagesDelta(m, r)
    BY <1>8 DEF HandleMessages
  <2>2. s.open # 0 /\ r.key = s.open /\ t.open = s.open /\ Underway(t)
    BY <1>1, <1>2, <1>8 DEF MessagesComes, Underway
  <2>3. Parted(m, MessagesDelta(m, r)) /\ MessagesInStep(t, MessagesDelta(m, r).m)
    BY <1>4, <2>2, MessagesDeltaIs
  <2> HIDE DEF h
  <2>4. InStep(t, h.m) /\ ~Unbegun(t, h.m)
    BY <1>2, <1>5, <1>8, <2>1, <2>3
  <2>5. Handled(s, t, m, h)
    BY <2>1, <2>3, <2>4, PartHandled
  <2> QED  BY <2>5 DEF h, t
<1>9. CASE r.type = "close"
  <2>1. h = MessagesStop(m, r)
    BY <1>9 DEF HandleMessages
  <2>2. s.open # 0 /\ r.key = s.open /\ t.open = 0 /\ Underway(t)
    BY <1>1, <1>2, <1>9 DEF MessagesComes, Underway
  <2>3. /\ Parted(m, MessagesStop(m, r))
        /\ ~MessagesStop(m, r).bad => MessagesInStep(t, MessagesStop(m, r).m)
    BY <1>4, <2>2, MessagesStopIs
  <2> HIDE DEF h
  <2>4. ~h.bad => InStep(t, h.m) /\ ~Unbegun(t, h.m)
    BY <1>2, <1>5, <1>9, <2>1, <2>3
  <2>5. Handled(s, t, m, h)
    BY <2>1, <2>3, <2>4, PartHandled
  <2> QED  BY <2>5 DEF h, t
<1>10. CASE r.type = "reason"
  <2> DEFINE g == [m EXCEPT !.stop = TRUE]
             p == Silent(g)
  <2>1. h = p
    BY <1>10 DEF HandleMessages
  <2>2. g \in Messages /\ g.content = m.content /\ g.idx = m.idx /\ g.run = m.run
    BY DEF Messages
  <2> HIDE DEF g, h
  <2>3. Leads(g)
    BY <2>2 DEF Leads
  <2>4. Parted(m, p) /\ p.m = g
    BY <2>2, <2>3, SilentParts, OutcomeIs
  <2>5. s.open = 0 /\ t.open = 0 /\ t.stage = "reason"
    BY <1>1, <1>2, <1>10 DEF MessagesComes
  <2>6. MessagesInStep(t, g)
    BY <1>4, <2>2, <2>5 DEF MessagesInStep
  <2> HIDE DEF p
  <2>7. InStep(t, h.m) /\ ~Unbegun(t, h.m)
    BY <1>5, <2>1, <2>4, <2>5, <2>6
  <2>8. Handled(s, t, m, h)
    BY <2>1, <2>4, <2>7, PartHandled
  <2> QED  BY <2>8 DEF h, t
<1>11. CASE r.type = "end"
  <2>1. h = MessagesEnd(m)
    BY <1>11 DEF HandleMessages
  <2>2. s.open = 0 /\ t.open = 0
    BY <1>1, <1>2, <1>4, <1>11 DEF MessagesComes, MessagesInStep, Underway
  <2>3. IF m.stop THEN Ended(m, MessagesEnd(m))
        ELSE Parted(m, MessagesEnd(m)) /\ MessagesInStep(t, MessagesEnd(m).m)
    BY <1>4, <2>2, MessagesEndIs
  <2> HIDE DEF h
  <2>4. CASE m.stop
    <3>1. Handled(s, t, m, h)
      BY <2>1, <2>3, <2>4, EndHandled
    <3> QED  BY <3>1 DEF h, t
  <2>5. CASE ~m.stop
    <3>1. InStep(t, h.m) /\ ~Unbegun(t, h.m)
      BY <1>2, <1>5, <1>11, <2>1, <2>3, <2>5
    <3>2. Handled(s, t, m, h)
      BY <2>1, <2>3, <2>5, <3>1, PartHandled
    <3> QED  BY <3>2 DEF h, t
  <2> QED  BY <2>4, <2>5
<1>12. CASE r.type = "error"
  <2>1. h = Raises(m)
    BY <1>12 DEF HandleMessages
  <2> QED  BY <2>1, RaisedHandled DEF t
<1> QED  BY <1>1, <1>6, <1>7, <1>8, <1>9, <1>10, <1>11, <1>12 DEF MessagesComes

-----------------------------------------------------------------------------
(* What two wires share: a delta may open its block, and a block is open as *)
(* long as a key leads to it.                                              *)

Mapped(m) ==
    /\ \A n \in 1 .. Len(m.content) : ~m.content[n].done <=> OpenKey(m, n)
    /\ Unhosted(m)

\* A block of a mapped message that grows or stays, and its keys, stays mapped.
LEMMA StaysMapped ==
    ASSUME NEW m \in Messages, Leads(m), Mapped(m), NEW g \in Messages, g.idx = m.idx,
           Len(g.content) = Len(m.content),
           \A n \in 1 .. Len(m.content) : g.content[n].kind = m.content[n].kind /\ (g.content[n].done <=> m.content[n].done)
    PROVE  Mapped(g)
  BY DEF Mapped, OpenKey, Unhosted

\* A block opened under a key of its own keeps the message mapped.
LEMMA OpenedIsMapped ==
    ASSUME NEW m \in Messages, Leads(m), Mapped(m), NEW key \in Nat, key \notin DOMAIN m.idx,
           NEW kind \in {"text", "thinking", "call"}, NEW o, IsOpened(m, key, kind, o)
    PROVE  Mapped(o.m)
<1> DEFINE l == Len(m.content) + 1
<1>1. /\ Len(m.content) \in Nat /\ \A k \in DOMAIN m.idx : m.idx[k] \in 1 .. Len(m.content)
  BY ContentIs
<1>2. /\ Len(o.m.content) = l /\ o.m.content[l].kind = kind /\ ~o.m.content[l].done
      /\ \A j \in 1 .. Len(m.content) : o.m.content[j] = m.content[j]
      /\ DOMAIN o.m.idx = DOMAIN m.idx \cup {key} /\ o.m.idx[key] = l
      /\ \A k \in DOMAIN m.idx : o.m.idx[k] = m.idx[k]
  BY DEF IsOpened
<1>3. \A j \in 1 .. l : j = l \/ (j \in 1 .. Len(m.content) /\ j # l)
  BY <1>1
<1> HIDE DEF l
<1>4. \A j \in 1 .. Len(m.content) : j # l => (OpenKey(o.m, j) <=> OpenKey(m, j))
  BY <1>1, <1>2 DEF OpenKey
<1>5. OpenKey(o.m, l)
  BY <1>2 DEF OpenKey
<1>6. \A j \in 1 .. l : ~o.m.content[j].done <=> OpenKey(o.m, j)
  BY <1>2, <1>3, <1>4, <1>5 DEF Mapped
<1>7. \A j \in 1 .. l : o.m.content[j].kind \notin {"web", "result"}
  BY <1>2, <1>3 DEF Mapped, Unhosted
<1> QED  BY <1>2, <1>6, <1>7 DEF Mapped, Unhosted

\* The events of a new block that carries its first piece.
LEMMA ChatDeltaIs ==
    ASSUME NEW m \in Messages, Leads(m), Mapped(m), NEW r, r.key \in Nat, r.kind \in {"text", "thinking", "call"}
    PROVE  LET p == ChatDelta(m, r)
           IN  /\ Parted(m, p) /\ p.bad = FALSE /\ p = Gives(p.m, p.out) /\ Mapped(p.m)
               /\ DOMAIN p.m.idx = DOMAIN m.idx \cup {r.key} /\ p.m.held = m.held
               /\ p.m.started = m.started /\ p.m.stop = m.stop
<1> DEFINE p == ChatDelta(m, r)
           n == m.idx[r.key]
<1>1. /\ m.content \in Seq(Blocks) /\ Len(m.content) \in Nat
      /\ \A k \in DOMAIN m.idx : m.idx[k] \in 1 .. Len(m.content)
  BY ContentIs
<1>2. CASE Known(m, r)
  <2> DEFINE g == Grow(m, n)
             out == <<Ev("delta", n)>>
  <2>1. n \in 1 .. Len(m.content) /\ ~m.content[n].done
    BY <1>1, <1>2 DEF Known, Mapped, OpenKey
  <2>2. p = Gives(g, out)
    BY <1>2 DEF ChatDelta, Delta
  <2>3. /\ Parted(m, Gives(g, out)) /\ SameMaps(m, g) /\ Besides(m.content, g.content, n)
        /\ g.content[n].kind = m.content[n].kind /\ ~g.content[n].done
    BY <2>1, DeltaParts
  <2> HIDE DEF p, g, out, n
  <2>4. p.m = g /\ p.out = out /\ p.bad = FALSE
    BY <2>2 DEF Gives
  <2>5. g.idx = m.idx /\ g.held = m.held /\ g.started = m.started /\ g.stop = m.stop
        /\ Len(g.content) = Len(m.content) /\ \A j \in 1 .. Len(m.content) : j # n => g.content[j] = m.content[j]
    BY <2>3 DEF SameMaps, Besides
  <2>6. g \in Messages
    BY <2>2, <2>3, <2>4 DEF Parted
  <2>7. \A j \in 1 .. Len(m.content) : g.content[j].kind = m.content[j].kind /\ (g.content[j].done <=> m.content[j].done)
    BY <2>1, <2>3, <2>5
  <2>8. Mapped(g)
    BY <2>5, <2>6, <2>7, StaysMapped
  <2>9. DOMAIN g.idx = DOMAIN m.idx \cup {r.key}
    BY <1>2, <2>5 DEF Known
  <2>10. p = Gives(p.m, p.out)
    BY <2>2, <2>4
  <2> QED  BY <2>2, <2>3, <2>4, <2>5, <2>8, <2>9, <2>10 DEF p
<1>3. CASE ~Known(m, r)
  <2> DEFINE o == Opens(m, r.key, r.kind)
             l == Len(m.content) + 1
             g == Grow(o.m, l)
             first == <<Ev("open", l)>>
             out == <<Ev("delta", l)>>
  <2>1. r.kind \in Kinds \ {"result"} /\ r.key \notin DOMAIN m.idx
    BY <1>3 DEF Kinds, Known
  <2>2. IsOpened(m, r.key, r.kind, o)
    BY <2>1, OpensIs
  <2>3. p = Gives(Delta(o.m, r).m, o.out \o Delta(o.m, r).out)
    BY <1>3 DEF ChatDelta
  <2> HIDE DEF o, p
  <2>4. /\ o.m \in Messages /\ Leads(o.m) /\ o.out = first
        /\ o.m.content = Append(m.content, [kind |-> r.kind, text |-> 0, done |-> FALSE])
        /\ Len(o.m.content) = l /\ ~o.m.content[l].done /\ o.m.held = m.held
        /\ o.m.started = m.started /\ o.m.stop = m.stop
        /\ DOMAIN o.m.idx = DOMAIN m.idx \cup {r.key} /\ o.m.idx[r.key] = l
    BY <2>2 DEF IsOpened
  <2>5. Delta(o.m, r) = Gives(g, out)
    BY <2>4 DEF Delta
  <2>6. Mapped(o.m)
    BY <2>1, <2>2, OpenedIsMapped
  <2>7. l \in 1 .. Len(o.m.content)
    BY <1>1, <2>4
  <2>8. /\ Parted(o.m, Gives(g, out)) /\ SameMaps(o.m, g) /\ Besides(o.m.content, g.content, l)
        /\ g.content[l].kind = o.m.content[l].kind /\ ~g.content[l].done
    BY <2>4, <2>7, DeltaParts
  <2>9. first \in Seq(Events) /\ Plain(first) /\ Carries(m.content, first, o.m.content)
    <3>1. "open" \in {"open", "web_start"}
      OBVIOUS
    <3>2. /\ first \in Seq(Events) /\ Plain(first)
          /\ Carries(m.content, first, Append(m.content, [kind |-> r.kind, text |-> 0, done |-> FALSE]))
      BY <1>1, <2>1, <3>1, OpenParts, Zenon
    <3> QED  BY <2>4, <3>2
  <2> HIDE DEF g, out, l, first
  <2>10. Gives(g, out).m = g /\ Gives(g, out).out = out /\ Gives(g, out).bad = FALSE
    BY DEF Gives
  <2>11. p = Gives(g, first \o out)
    BY <2>3, <2>4, <2>5, <2>10
  <2>12. p.m = g /\ p.out = first \o out /\ p.bad = FALSE
    BY <2>11 DEF Gives
  <2>13. /\ g \in Messages /\ Leads(g) /\ out \in Seq(Events) /\ Plain(out) /\ Carries(o.m.content, out, g.content)
    BY <2>8, <2>10 DEF Parted
  <2>14. first \o out \in Seq(Events) /\ Plain(first \o out) /\ Carries(m.content, first \o out, g.content)
    BY <2>9, <2>13, CarriedOn, PlainJoined
  <2>15. Parted(m, p)
    BY <2>12, <2>13, <2>14 DEF Parted
  <2>16. g.idx = o.m.idx /\ g.held = o.m.held /\ g.started = o.m.started /\ g.stop = o.m.stop
         /\ Len(g.content) = Len(o.m.content)
         /\ \A j \in 1 .. Len(o.m.content) : j # l => g.content[j] = o.m.content[j]
    BY <2>8 DEF SameMaps, Besides
  <2>17. \A j \in 1 .. Len(o.m.content) : g.content[j].kind = o.m.content[j].kind /\ (g.content[j].done <=> o.m.content[j].done)
    BY <2>4, <2>8, <2>16
  <2>18. Mapped(g)
    BY <2>4, <2>6, <2>13, <2>16, <2>17, StaysMapped
  <2>19. p = Gives(p.m, p.out)
    BY <2>11, <2>12
  <2> QED  BY <2>4, <2>12, <2>15, <2>16, <2>18, <2>19 DEF p
<1> QED  BY <1>2, <1>3

-----------------------------------------------------------------------------
(* OpenAI chat completions.                                                *)

\* What is held back for a call, counted.
MoreHeld(m, key, held) ==
    [m EXCEPT !.held = [k \in DOMAIN m.held \cup {key} |-> IF k = key THEN held ELSE m.held[k]]]
Flushed(m, key, held) == [MoreHeld(m, key, held) EXCEPT !.held[key] = 0]
ButHeld(m, g) == /\ g \in Messages /\ Leads(g) /\ g.content = m.content /\ g.idx = m.idx
                 /\ g.started = m.started /\ g.stop = m.stop

\* What is held back is no part of the content.
LEMMA HeldIs ==
    ASSUME NEW m \in Messages, Leads(m), NEW key \in Nat, NEW held \in Nat
    PROVE  ButHeld(m, MoreHeld(m, key, held)) /\ ButHeld(m, Flushed(m, key, held))
<1> DEFINE f == [k \in DOMAIN m.held \cup {key} |-> IF k = key THEN held ELSE m.held[k]]
           more == [m EXCEPT !.held = f]
           e == [f EXCEPT ![key] = 0]
           z == [more EXCEPT !.held = e]
<1>1. DOMAIN m.held \subseteq Nat /\ \A k \in DOMAIN m.held : m.held[k] \in Nat
  <2>1. m.held \in Maps
    BY DEF Messages
  <2> QED  BY <2>1, MapIs
<1>2. f \in [DOMAIN m.held \cup {key} -> Nat] /\ DOMAIN f \in SUBSET Nat /\ DOMAIN f = DOMAIN m.held \cup {key}
  BY <1>1
<1> HIDE DEF f
<1>3. e \in [DOMAIN f -> Nat]
  BY <1>2
<1>4. f \in Maps /\ e \in Maps
  BY <1>2, <1>3 DEF Maps
<1> HIDE DEF e
<1>5. /\ more \in Messages /\ more.content = m.content /\ more.idx = m.idx /\ more.run = m.run
      /\ more.started = m.started /\ more.stop = m.stop /\ more.held = f
  BY <1>4 DEF Messages
<1> HIDE DEF more
<1>6. /\ z \in Messages /\ z.content = m.content /\ z.idx = m.idx /\ z.run = m.run
      /\ z.started = m.started /\ z.stop = m.stop
  BY <1>4, <1>5 DEF Messages
<1>7. [more EXCEPT !.held[key] = 0] = z
  BY <1>5 DEF e
<1> HIDE DEF z
<1>8. Leads(more) /\ Leads(z)
  BY <1>5, <1>6 DEF Leads
<1>9. ButHeld(m, more) /\ ButHeld(m, z)
  BY <1>5, <1>6, <1>8 DEF ButHeld
<1>10. MoreHeld(m, key, held) = more
  BY DEF MoreHeld, more, f
<1>11. Flushed(m, key, held) = z
  BY <1>7, <1>10 DEF Flushed
<1> QED  BY <1>9, <1>10, <1>11

\* As many deltas of a block as there are pieces.
LEMMA DeltasAre ==
    ASSUME NEW n \in Nat, NEW k \in Nat
    PROVE  LET ds == [i \in 1 .. k |-> Ev("delta", n)]
           IN  /\ ds \in Seq(Events) /\ Len(ds) = k /\ Plain(ds)
               /\ \A i \in 1 .. Len(ds) : ds[i] = Ev("delta", n)
<1> DEFINE e == Ev("delta", n)
           ds == [i \in 1 .. k |-> e]
<1>1. e \in Events /\ e.what = "delta"
  BY Evs DEF Words
<1> HIDE DEF e
<1>2. ds \in Seq(Events) /\ Len(ds) = k
  BY <1>1
<1>3. \A i \in 1 .. Len(ds) : ds[i] = e
  BY <1>2
<1>4. Plain(ds)
  BY <1>1, <1>3 DEF Plain
<1> QED  BY <1>2, <1>3, <1>4 DEF e

\* A fragment of a call, held back, flushed with its block, or told.
LEMMA ChatFragmentIs ==
    ASSUME NEW m \in Messages, Leads(m), Mapped(m), NEW r, r.key \in Nat
    PROVE  LET p == ChatFragment(m, r)
           IN  /\ Parted(m, p) /\ p.bad = FALSE /\ p = Gives(p.m, p.out) /\ Mapped(p.m)
               /\ p.m.started = m.started /\ p.m.stop = m.stop
<1> DEFINE p == ChatFragment(m, r)
           held == IF r.key \in DOMAIN m.held THEN m.held[r.key] ELSE 0
           more == MoreHeld(m, r.key, held + 1)
           z == Flushed(m, r.key, held + 1)
<1>1. m.content \in Seq(Blocks) /\ Len(m.content) \in Nat
  BY ContentIs
<1>2. held \in Nat /\ held + 1 \in Nat
  <2>1. m.held \in Maps
    BY DEF Messages
  <2>2. \A k \in DOMAIN m.held : m.held[k] \in Nat
    BY <2>1, MapIs
  <2>3. held \in Nat
    BY <2>2
  <2> HIDE DEF held
  <2> QED  BY <2>3
<1>3. CASE Known(m, r)
  <2>1. p = Delta(m, r)
    BY <1>3 DEF ChatFragment
  <2> DEFINE s == [key |-> r.key, kind |-> "call"]
  <2>2. ChatDelta(m, s) = Delta(m, s) /\ Delta(m, s) = Delta(m, r)
    BY <1>3 DEF ChatDelta, Known, Delta
  <2>3. s.key \in Nat /\ s.kind \in {"text", "thinking", "call"}
    OBVIOUS
  <2> HIDE DEF s
  <2> DEFINE d == ChatDelta(m, s)
  <2>4. /\ Parted(m, d) /\ d.bad = FALSE /\ d = Gives(d.m, d.out) /\ Mapped(d.m)
        /\ d.m.started = m.started /\ d.m.stop = m.stop
    BY <2>3, ChatDeltaIs
  <2>5. p = d
    BY <2>1, <2>2
  <2> HIDE DEF p, d
  <2> QED  BY <2>4, <2>5 DEF p
<1>4. CASE ~Known(m, r) /\ ~r.named
  <2>1. p = Silent(more)
    BY <1>4 DEF ChatFragment, MoreHeld
  <2> HIDE DEF held, p
  <2>2. more \in Messages /\ Leads(more) /\ more.content = m.content /\ more.idx = m.idx
        /\ more.started = m.started /\ more.stop = m.stop
    BY <1>2, HeldIs DEF ButHeld
  <2> HIDE DEF more
  <2>3. Parted(m, Silent(more))
    BY <2>2, SilentParts
  <2>4. p = Gives(more, <<>>) /\ p.m = more /\ p.bad = FALSE /\ p.out = <<>>
    BY <2>1 DEF Silent, Gives
  <2>5. Mapped(more)
    BY <2>2, StaysMapped
  <2>6. p = Gives(p.m, p.out)
    BY <2>4
  <2> QED  BY <2>1, <2>2, <2>3, <2>4, <2>5, <2>6 DEF p
<1>5. CASE ~Known(m, r) /\ r.named
  <2> DEFINE o == Opens(z, r.key, "call")
             n == Len(o.m.content)
             l == Len(m.content) + 1
             ds == [i \in 1 .. held + 1 |-> Ev("delta", n)]
             y == [o.m EXCEPT !.content[n].text = held + 1]
  <2>1. p = Gives(y, o.out \o ds)
    BY <1>5 DEF ChatFragment, Flushed, MoreHeld
  <2> HIDE DEF held, p
  <2>2. z \in Messages /\ Leads(z) /\ z.content = m.content /\ z.idx = m.idx
        /\ z.started = m.started /\ z.stop = m.stop
    BY <1>2, HeldIs DEF ButHeld
  <2> HIDE DEF z
  <2>3. "call" \in Kinds \ {"result"} /\ r.key \notin DOMAIN z.idx /\ Mapped(z)
    BY <1>5, <2>2, StaysMapped DEF Kinds, Known
  <2>4. IsOpened(z, r.key, "call", o)
    BY <2>2, <2>3, OpensIs
  <2>5. Mapped(o.m)
    BY <2>2, <2>3, <2>4, OpenedIsMapped
  <2> DEFINE first == <<Ev("open", l)>>
             b == [kind |-> "call", text |-> 0, done |-> FALSE]
             b1 == [kind |-> "call", text |-> held + 1, done |-> FALSE]
             d == Append(m.content, b1)
  <2> HIDE DEF o
  <2>6. /\ o.m \in Messages /\ Leads(o.m) /\ o.out = first
        /\ Len(o.m.content) = l /\ o.m.content = Append(m.content, b)
        /\ \A j \in 1 .. Len(m.content) : o.m.content[j] = m.content[j]
        /\ o.m.started = m.started /\ o.m.stop = m.stop
    BY <2>2, <2>4 DEF IsOpened
  <2>7. b \in Blocks /\ b1 \in Blocks /\ b1 = [b EXCEPT !.text = held + 1]
    <3>1. b \in Blocks
      BY DEF Blocks, Kinds
    <3>2. b1 \in Blocks
      BY <1>2 DEF Blocks, Kinds
    <3>3. b1 = [b EXCEPT !.text = held + 1]
      <4> DEFINE e == [b EXCEPT !.text = held + 1]
      <4>1. e \in Blocks /\ e.kind = "call" /\ e.text = held + 1 /\ e.done = FALSE
        BY <1>2, <3>1 DEF Blocks
      <4>2. b1.kind = "call" /\ b1.text = held + 1 /\ b1.done = FALSE
        OBVIOUS
      <4>3. \A x, w \in Blocks : x.kind = w.kind /\ x.text = w.text /\ x.done = w.done => x = w
        BY DEF Blocks
      <4> HIDE DEF e, b1
      <4>4. b1 = e
        BY <3>2, <4>1, <4>2, <4>3
      <4> QED  BY <4>4 DEF e
    <3> HIDE DEF b, b1
    <3> QED  BY <3>1, <3>2, <3>3
  <2>8. ds \in Seq(Events) /\ Len(ds) = held + 1 /\ Plain(ds) /\ \A i \in 1 .. Len(ds) : ds[i] = Ev("delta", l)
    <3>1. n \in Nat /\ n = l
      BY <1>1, <2>6
    <3> HIDE DEF n
    <3> QED  BY <1>2, <3>1, DeltasAre
  <2> HIDE DEF b, ds
  <2>9. d \in Seq(Blocks) /\ first \o ds \in Seq(Events) /\ Carries(m.content, first \o ds, d)
    <3>1. "open" \in {"open", "web_start"}
      OBVIOUS
    <3>2. /\ Append(m.content, [kind |-> "call", text |-> Len(ds), done |-> FALSE]) \in Seq(Blocks)
          /\ first \o ds \in Seq(Events)
          /\ Carries(m.content, first \o ds, Append(m.content, [kind |-> "call", text |-> Len(ds), done |-> FALSE]))
      BY <1>1, <2>3, <2>8, <3>1, OpenCarries
    <3> QED  BY <2>8, <3>2
  <2>10. Plain(first \o ds)
    <3>1. l \in Nat
      BY <1>1
    <3>2. first \in Seq(Events) /\ Plain(first)
      BY <3>1, Evs, PlainOnes, OneEvent DEF Words
    <3> HIDE DEF first
    <3> QED  BY <2>8, <3>2, PlainJoined
  <2> HIDE DEF b1, first
  <2> DEFINE x == [o.m.content EXCEPT ![n] = b1]
  <2>11. o.m.content[l] = b /\ o.m.content \in Seq(Blocks) /\ n = l /\ l \in 1 .. Len(o.m.content) /\ l \in Nat
    <3>1. Append(m.content, b)[Len(m.content) + 1] = b
      BY <1>1, <2>7, AppendIs
    <3> QED  BY <1>1, <2>6, <3>1 DEF Messages
  <2>12. y = [o.m EXCEPT !.content = x]
    <3>1. [o.m.content[n] EXCEPT !.text = held + 1] = b1
      BY <2>7, <2>11
    <3> QED  BY <2>6, <3>1 DEF Messages
  <2>13. x \in Seq(Blocks) /\ Len(x) = l /\ x[l] = b1 /\ \A j \in 1 .. Len(m.content) : x[j] = m.content[j]
    <3>1. x \in Seq(Blocks) /\ Len(x) = Len(o.m.content) /\ \A j \in 1 .. Len(o.m.content) : x[j] = IF j = l THEN b1 ELSE o.m.content[j]
      BY <2>7, <2>11, ExceptSeq
    <3>2. \A j \in 1 .. Len(m.content) : j \in 1 .. Len(o.m.content) /\ j # l
      BY <1>1, <2>6
    <3> HIDE DEF x, l, n
    <3> QED  BY <2>6, <2>11, <3>1, <3>2
  <2>14. x = d
    <3>1. d \in Seq(Blocks) /\ Len(d) = l /\ d[l] = b1 /\ \A j \in 1 .. Len(m.content) : d[j] = m.content[j]
      BY <1>1, <2>7, AppendIs
    <3>2. \A j \in 1 .. l : j = l \/ j \in 1 .. Len(m.content)
      BY <1>1
    <3> HIDE DEF x, d, l
    <3>3. \A j \in 1 .. l : x[j] = d[j]
      BY <2>13, <3>1, <3>2
    <3> QED  BY <2>13, <3>1, <3>3, SeqEqual
  <2> HIDE DEF x, d
  <2>15. /\ y \in Messages /\ y.content = x /\ y.idx = o.m.idx /\ y.run = o.m.run
         /\ y.started = m.started /\ y.stop = m.stop
    BY <2>6, <2>12, <2>13 DEF Messages
  <2> HIDE DEF y
  <2>16. \A j \in 1 .. Len(o.m.content) : y.content[j].kind = o.m.content[j].kind /\ (y.content[j].done <=> o.m.content[j].done)
    <3>1. \A j \in 1 .. l : j = l \/ j \in 1 .. Len(m.content)
      BY <1>1
    <3>2. b1.kind = b.kind /\ b1.done = b.done
      BY DEF b1, b
    <3> HIDE DEF l
    <3> QED  BY <2>6, <2>11, <2>13, <2>15, <3>1, <3>2
  <2>17. Mapped(y) /\ Len(y.content) = Len(o.m.content)
    BY <2>5, <2>6, <2>13, <2>15, <2>16, StaysMapped
  <2>18. Leads(y)
    <3>1. \A j \in 1 .. Len(y.content) : y.content[j].kind # "result"
      BY <2>17 DEF Mapped, Unhosted
    <3> QED  BY <2>6, <2>15, <2>17, <3>1 DEF Leads
  <2>19. p = Gives(y, first \o ds)
    BY <2>1, <2>6
  <2>20. p.m = y /\ p.out = first \o ds /\ p.bad = FALSE
    BY <2>19 DEF Gives
  <2>21. Parted(m, p)
    BY <2>9, <2>10, <2>14, <2>15, <2>18, <2>20 DEF Parted
  <2>22. p = Gives(p.m, p.out)
    BY <2>19, <2>20
  <2> QED  BY <2>15, <2>17, <2>20, <2>21, <2>22 DEF p
<1> QED  BY <1>3, <1>4, <1>5

\* No key, no number.
LEMMA EmptyMap == <<>> \in Maps /\ DOMAIN <<>> = {}
<1>1. <<>> \in [{} -> Nat] /\ DOMAIN <<>> = {}
  OBVIOUS
<1>2. {} \in SUBSET Nat
  OBVIOUS
<1> QED  BY <1>1, <1>2 DEF Maps

\* The reason closes what is open, or raises.
LEMMA ChatReasonIs ==
    ASSUME NEW m \in Messages, Leads(m), Mapped(m), NEW r
    PROVE  LET p == ChatReason(m, r)
           IN  /\ Parted(m, p) /\ p.m.started = m.started
               /\ p = Raises(p.m) \/ p = Gives(p.m, p.out)
               /\ ~p.bad => Mapped(p.m) /\ DOMAIN p.m.idx = {}
<1> DEFINE p == ChatReason(m, r)
           S == {m.idx[k] : k \in DOMAIN m.idx}
           x == [m EXCEPT !.stop = TRUE]
           y == [AllSealed(m, S) EXCEPT !.stop = TRUE, !.idx = <<>>, !.held = <<>>]
           fails == \/ DOMAIN m.held \ DOMAIN m.idx # {}
                    \/ r.broken /\ \E n \in S : m.content[n].kind = "call"
<1>1. /\ m.content \in Seq(Blocks) /\ Len(m.content) \in Nat
      /\ \A k \in DOMAIN m.idx : m.idx[k] \in 1 .. Len(m.content)
  BY ContentIs
<1>2. p = IF fails THEN Raises(x) ELSE Gives(y, Closes(S))
  BY DEF ChatReason
<1> HIDE DEF fails, p
<1>3. CASE fails
  <2>1. x \in Messages /\ x.content = m.content /\ x.idx = m.idx /\ x.run = m.run /\ x.started = m.started
    BY DEF Messages
  <2> HIDE DEF x
  <2>2. Leads(x)
    BY <2>1 DEF Leads
  <2>3. p = Raises(x)
    BY <1>2, <1>3
  <2>4. p.m = x /\ p.bad = TRUE
    BY <2>3 DEF Raises
  <2>5. Parted(m, p)
    BY <2>1, <2>2, <2>3, RaisesParts
  <2> QED  BY <2>1, <2>3, <2>4, <2>5 DEF p
<1>4. CASE ~fails
  <2> DEFINE a == AllSealed(m, S)
  <2>1. p = Gives(y, Closes(S))
    BY <1>2, <1>4
  <2>2. S \in SUBSET (1 .. Len(m.content))
    BY <1>1
  <2>3. \A n \in 1 .. Len(m.content) : n \in S <=> OpenKey(m, n)
    BY DEF OpenKey
  <2> HIDE DEF S
  <2>4. /\ a \in Messages /\ SameMaps(m, a) /\ Len(a.content) = Len(m.content)
        /\ \A n \in 1 .. Len(m.content) : n \notin S => a.content[n] = m.content[n]
        /\ \A n \in S : /\ a.content[n].done /\ a.content[n].kind = m.content[n].kind
                        /\ a.content[n].text = m.content[n].text
    BY <2>2, AllSealedIs
  <2> HIDE DEF a
  <2>5. /\ y \in Messages /\ y.content = a.content /\ y.idx = <<>> /\ y.run = m.run /\ y.started = m.started
    BY <2>4, EmptyMap DEF Messages, SameMaps, a
  <2> HIDE DEF y
  <2>6. \A n \in S : ~m.content[n].done /\ m.content[n].kind \notin {"web", "result"}
    BY <2>2, <2>3 DEF Mapped, Unhosted
  <2>7. a.content \in Seq(Blocks)
    BY <2>4 DEF Messages
  <2>8. /\ Closes(S) \in Seq(Events) /\ Carries(m.content, Closes(S), a.content)
        /\ \A i \in 1 .. Len(Closes(S)) : Closes(S)[i].what = "close"
    <3> DEFINE c == m.content
               d == a.content
    <3>1. c \in Seq(Blocks) /\ d \in Seq(Blocks) /\ S \in SUBSET (1 .. Len(c)) /\ Len(d) = Len(c)
      BY <1>1, <2>2, <2>4, <2>7
    <3>2. \A n \in 1 .. Len(c) : n \notin S => d[n] = c[n]
      BY <2>4
    <3>3. \A n \in S : /\ ~c[n].done /\ c[n].kind \notin {"web", "result"}
                       /\ d[n].done /\ d[n].kind = c[n].kind /\ d[n].text = c[n].text
      BY <2>4, <2>6
    <3> HIDE DEF c, d
    <3>4. /\ Closes(S) \in Seq(Events) /\ Carries(c, Closes(S), d)
          /\ \A i \in 1 .. Len(Closes(S)) : Closes(S)[i].what = "close"
      BY <3>1, <3>2, <3>3, ClosesCarry
    <3> QED  BY <3>4 DEF c, d
  <2>9. Plain(Closes(S))
    BY <2>8 DEF Plain
  <2>10. \A n \in 1 .. Len(m.content) : a.content[n].done /\ a.content[n].kind = m.content[n].kind
    BY <2>2, <2>3, <2>4 DEF Mapped
  <2>11. Mapped(y) /\ DOMAIN y.idx = {}
    BY <2>4, <2>5, <2>10, EmptyMap DEF Mapped, Unhosted, OpenKey
  <2>12. Leads(y)
    BY <1>1, <2>4, <2>5, <2>10, EmptyMap DEF Leads
  <2> DEFINE out == Closes(S)
  <2> HIDE DEF out
  <2>13. p = Gives(y, out)
    BY <2>1 DEF out
  <2>14. p.m = y /\ p.out = out /\ p.bad = FALSE
    BY <2>13 DEF Gives
  <2>15. out \in Seq(Events) /\ Plain(out) /\ Carries(m.content, out, y.content)
    BY <2>5, <2>8, <2>9 DEF out
  <2>16. Parted(m, p)
    BY <2>5, <2>12, <2>14, <2>15 DEF Parted
  <2>17. p = Gives(p.m, p.out)
    BY <2>13, <2>14
  <2> QED  BY <2>5, <2>11, <2>14, <2>16, <2>17 DEF p
<1> QED  BY <1>3, <1>4

\* The usage comes by itself.
UsageTold(m) == Gives([m EXCEPT !.usage = TRUE], <<Ev("usage", 0)>>)

\* Usage carries the message on unchanged.
LEMMA UsageIs ==
    ASSUME NEW m \in Messages, Leads(m)
    PROVE  LET p == UsageTold(m)
           IN  /\ Parted(m, p) /\ p.bad = FALSE /\ p = Gives(p.m, p.out) /\ p.m.content = m.content
               /\ p.m.idx = m.idx /\ p.m.started = m.started /\ p.m.stop = m.stop
<1> DEFINE p == UsageTold(m)
           u == [m EXCEPT !.usage = TRUE]
           usage == <<Ev("usage", 0)>>
<1>1. u \in Messages /\ u.content = m.content /\ u.idx = m.idx /\ u.run = m.run /\ u.started = m.started /\ u.stop = m.stop
  BY DEF Messages
<1>2. p = Gives(u, usage)
  BY DEF UsageTold
<1>3. usage \in Seq(Events) /\ Plain(usage) /\ Quiet(usage)
  BY Evs, PlainOnes, NothingSaid, OneEvent DEF Words
<1> HIDE DEF u, usage, p
<1>4. Leads(u)
  BY <1>1 DEF Leads
<1>5. p.m = u /\ p.out = usage /\ p.bad = FALSE
  BY <1>2 DEF Gives
<1>6. Carries(m.content, usage, u.content)
  BY <1>1, <1>3, ContentIs, QuietCarries
<1>7. Parted(m, p)
  BY <1>1, <1>3, <1>4, <1>5, <1>6 DEF Parted
<1>8. p = Gives(p.m, p.out)
  BY <1>2, <1>5
<1> QED  BY <1>1, <1>5, <1>7, <1>8 DEF p

\* The finish by itself.
LEMMA FinishIs ==
    ASSUME NEW m \in Messages, Leads(m), m.stop, Whole(m.content)
    PROVE  Ended(m, FinishEvent(m))
<1> DEFINE p == FinishEvent(m)
           last == <<FinishEv>>
<1>1. p = Gives(m, last)
  BY DEF FinishEvent
<1>2. last \in Seq(Events) /\ <<>> \in Seq(Events) /\ Plain(<<>>) /\ Carries(m.content, <<>>, m.content)
  BY Evs, OneEvent, NothingSaid, PlainOnes, ContentIs, QuietCarries
<1>3. last = <<>> \o last
  BY <1>2, ConcatEmptySeq
<1> HIDE DEF p, last
<1>4. p.m = m /\ p.out = last /\ p.bad = FALSE
  BY <1>1 DEF Gives
<1>5. p.out = <<>> \o <<FinishEv>>
  BY <1>3, <1>4 DEF last
<1>6. Ended(m, p)
  BY <1>2, <1>4, <1>5 DEF Ended
<1> QED  BY <1>6 DEF p

\* The start before the events of a part.
LEMMA AnnouncedIs ==
    ASSUME NEW b, NEW p, p = Raises(p.m) \/ p = Gives(p.m, p.out)
    PROVE  LET h == [p EXCEPT !.out = IF b THEN p.out ELSE <<StartEvent>> \o p.out]
           IN  h.m = p.m /\ h.bad = p.bad /\ h.out = IF b THEN p.out ELSE <<StartEvent>> \o p.out
  BY DEF Gives, Raises

\* A message that has begun is otherwise the same.
Begun(m) == [m EXCEPT !.started = TRUE]

\* What is so of a message is so of it begun.
LEMMA BegunIs ==
    ASSUME NEW m \in Messages, Leads(m)
    PROVE  /\ Begun(m) \in Messages /\ Leads(Begun(m)) /\ Begun(m).content = m.content /\ Begun(m).idx = m.idx
           /\ Begun(m).run = m.run /\ Begun(m).held = m.held /\ Begun(m).started = TRUE /\ Begun(m).stop = m.stop
           /\ \A p : Parted(Begun(m), p) => Parted(m, p)
           /\ \A p : Ended(Begun(m), p) => Ended(m, p)
<1> DEFINE g == Begun(m)
<1>1. /\ g \in Messages /\ g.content = m.content /\ g.idx = m.idx /\ g.run = m.run
      /\ g.held = m.held /\ g.started = TRUE /\ g.stop = m.stop
  BY DEF Messages, Begun
<1> HIDE DEF g
<1>2. Leads(g)
  BY <1>1 DEF Leads
<1>3. \A p : Parted(g, p) => Parted(m, p)
  BY <1>1 DEF Parted
<1>4. \A p : Ended(g, p) => Ended(m, p)
  BY <1>1 DEF Ended
<1> QED  BY <1>1, <1>2, <1>3, <1>4 DEF g

\* Every event of the chat wire.
LEMMA ChatHandled ==
    ASSUME wire = "chat", NEW s \in Servers, NEW r, Comes(s, r), NEW m \in Messages, Leads(m), InStep(s, m)
    PROVE  Handled(s, Said(s, r), m, HandleChat(m, r))
<1> DEFINE t == Said(s, r)
           h == HandleChat(m, r)
           g == Begun(m)
           p == ChatPart(g, r)
<1>1. ChatComes(s, r)
  BY DEF Comes
<1>2. /\ t.blocks = IF r.type \in {"open", "delta"} THEN [s.blocks EXCEPT ![r.key] = r.kind] ELSE s.blocks
      /\ r.type = "delta" => t.stage = "body"
      /\ r.type = "reason" => t.stage = "reason"
      /\ r.type = "usage" => t.stage = "usage"
      /\ r.type \in {"end", "error"} => t.stage = "over"
  BY DEF Said
<1>3. s.blocks \in [1 .. MaxBlocks -> {"none", "text", "thinking", "call", "web"}]
  BY DEF Servers
<1> HIDE DEF t
<1>4. ChatInStep(s, m) /\ Mapped(m) /\ (Unbegun(s, m) <=> ~m.started)
  BY DEF InStep, Unbegun, ChatInStep, Mapped
<1>5. \A x : (InStep(t, x) <=> ChatInStep(t, x)) /\ (Unbegun(t, x) <=> ~x.started)
  BY DEF InStep, Unbegun
<1>6. r.type = "delta" => r.key \in 1 .. MaxBlocks /\ r.kind \in {"text", "call"} /\ Underway(s)
  BY <1>1, <1>3, <1>4 DEF ChatComes, ChatInStep, Underway
<1>7. \A k \in 1 .. MaxBlocks : t.blocks[k] \notin {"web", "thinking"}
  <2>1. \A k \in 1 .. MaxBlocks : s.blocks[k] \notin {"web", "thinking"}
    BY <1>4 DEF ChatInStep
  <2>2. CASE r.type = "delta"
    BY <1>2, <1>3, <1>6, <2>1, <2>2
  <2>3. CASE r.type # "delta"
    <3>1. t.blocks = s.blocks
      BY <1>1, <1>2, <2>3 DEF ChatComes
    <3> QED  BY <2>1, <3>1
  <2> QED  BY <2>2, <2>3
<1>8. /\ g \in Messages /\ Leads(g) /\ g.content = m.content /\ g.idx = m.idx
      /\ g.started = TRUE /\ g.stop = m.stop /\ \A x : Parted(g, x) => Parted(m, x)
  BY BegunIs
<1>9. r.type \notin {"end", "error"} => h = [p EXCEPT !.out = IF m.started THEN p.out ELSE <<StartEvent>> \o p.out]
  BY DEF HandleChat, Begun
<1> HIDE DEF g, h
<1>10. Mapped(g)
  BY <1>4, <1>8 DEF Mapped, Unhosted, OpenKey
<1>11. ASSUME Parted(g, p), p = Raises(p.m) \/ p = Gives(p.m, p.out), p.m.started = TRUE,
              ~p.bad => ChatInStep(t, p.m), r.type \notin {"end", "error"}
       PROVE  Handled(s, t, m, h)
  <2> HIDE DEF p
  <2>1. h.m = p.m /\ h.bad = p.bad /\ h.out = IF m.started THEN p.out ELSE <<StartEvent>> \o p.out
    <3>1. h = [p EXCEPT !.out = IF m.started THEN p.out ELSE <<StartEvent>> \o p.out]
      BY <1>9, <1>11
    <3>2. p = Raises(p.m) \/ p = Gives(p.m, p.out)
      BY <1>11
    <3> QED  BY <3>1, <3>2, AnnouncedIs
  <2>2. Parted(m, p)
    BY <1>8, <1>11
  <2>3. ~p.bad => InStep(t, h.m) /\ ~Unbegun(t, h.m)
    BY <1>5, <1>11, <2>1
  <2>4. h.out = p.out \/ (h.out = <<StartEvent>> \o p.out /\ Unbegun(s, m))
    BY <1>4, <2>1
  <2> QED  BY <2>1, <2>2, <2>3, <2>4, PartHandled
<1>12. CASE r.type = "delta"
  <2>1. /\ Parted(g, p) /\ p = Gives(p.m, p.out) /\ Mapped(p.m)
        /\ p.m.started = TRUE /\ p.m.stop = m.stop
    <3>1. CASE r.kind = "call"
      <4>1. p = ChatFragment(g, r)
        BY <1>12, <3>1 DEF ChatPart
      <4>2. r.key \in Nat
        BY <1>6, <1>12
      <4> HIDE DEF p
      <4> QED  BY <1>8, <1>10, <4>1, <4>2, ChatFragmentIs
    <3>2. CASE r.kind # "call"
      <4>1. p = ChatDelta(g, r)
        BY <1>12, <3>2 DEF ChatPart
      <4>2. r.key \in Nat /\ r.kind \in {"text", "thinking", "call"}
        BY <1>6, <1>12
      <4> HIDE DEF p
      <4> QED  BY <1>8, <1>10, <4>1, <4>2, ChatDeltaIs
    <3> QED  BY <3>1, <3>2
  <2> HIDE DEF p
  <2>2. ~m.stop
    BY <1>4, <1>6, <1>12 DEF ChatInStep
  <2>3. ChatInStep(t, p.m)
    BY <1>7, <2>1, <2>2 DEF ChatInStep, Mapped
  <2> QED  BY <1>11, <1>12, <2>1, <2>3 DEF t, h
<1>13. CASE r.type = "reason"
  <2>1. p = ChatReason(g, r)
    BY <1>13 DEF ChatPart
  <2> HIDE DEF p
  <2>2. /\ Parted(g, p) /\ p.m.started = TRUE
        /\ p = Raises(p.m) \/ p = Gives(p.m, p.out)
        /\ ~p.bad => Mapped(p.m) /\ DOMAIN p.m.idx = {}
    BY <1>8, <1>10, <2>1, ChatReasonIs
  <2>3. ~p.bad => ChatInStep(t, p.m)
    BY <1>2, <1>7, <1>13, <2>2 DEF ChatInStep, Mapped, Underway
  <2> QED  BY <1>11, <1>13, <2>2, <2>3 DEF t, h
<1>14. CASE r.type = "usage"
  <2>1. p = UsageTold(g)
    BY <1>14 DEF ChatPart, UsageTold
  <2> HIDE DEF p
  <2>2. /\ Parted(g, p) /\ p.bad = FALSE /\ p = Gives(p.m, p.out) /\ p.m.content = g.content
        /\ p.m.idx = g.idx /\ p.m.started = g.started /\ p.m.stop = g.stop
    BY <1>8, <2>1, UsageIs
  <2>3. ChatInStep(t, p.m)
    <3>1. Mapped(p.m)
      BY <1>10, <2>2 DEF Mapped, Unhosted, OpenKey
    <3>2. m.stop => DOMAIN m.idx = {}
      BY <1>4 DEF ChatInStep
    <3> QED  BY <1>2, <1>7, <1>8, <1>14, <2>2, <3>1, <3>2 DEF ChatInStep, Mapped, Underway
  <2> QED  BY <1>8, <1>11, <1>14, <2>2, <2>3 DEF t, h
<1>15. CASE r.type = "end"
  <2>1. h = ChatDone(m)
    BY <1>15 DEF HandleChat, h
  <2>2. CASE m.stop
    <3>1. h = FinishEvent(m)
      BY <2>1, <2>2 DEF ChatDone
    <3>2. Whole(m.content)
      BY <1>4, <2>2 DEF ChatInStep, OpenKey, Whole
    <3>3. Ended(m, h)
      BY <2>2, <3>1, <3>2, FinishIs
    <3>4. Handled(s, t, m, h)
      BY <3>3, EndHandled
    <3> QED  BY <3>4 DEF t, h
  <2>3. CASE ~m.stop
    <3> DEFINE x == Silent(m)
    <3>1. h = x
      BY <2>1, <2>3 DEF ChatDone
    <3>2. Parted(m, x) /\ x.m = m /\ x.out = <<>> /\ x.bad = FALSE
      BY SilentParts, OutcomeIs
    <3>3. ChatInStep(t, m)
      BY <1>4, <1>7, <2>3 DEF ChatInStep, Mapped
    <3> HIDE DEF x
    <3>4. InStep(t, h.m) /\ (Unbegun(t, h.m) => Unbegun(s, m))
      BY <1>4, <1>5, <3>1, <3>2, <3>3
    <3>5. Handled(s, t, m, h)
      BY <3>1, <3>2, <3>4, PartHandled
    <3> QED  BY <3>5 DEF t, h
  <2> QED  BY <2>2, <2>3
<1>16. CASE r.type = "error"
  <2>1. h = Raises(m)
    BY <1>16 DEF HandleChat, h
  <2> QED  BY <2>1, RaisedHandled DEF t, h
<1> QED  BY <1>1, <1>12, <1>13, <1>14, <1>15, <1>16 DEF ChatComes

-----------------------------------------------------------------------------
(* OpenAI responses.                                                       *)

\* An item or a part opens.
LEMMA ResponsesOpenIs ==
    ASSUME NEW m \in Messages, Leads(m), NEW t, NEW r, r.key \in Nat, t.open = r.key, r.kind \in {"text", "call", "web"}
    PROVE  LET p == ResponsesOpen(m, r)
           IN  /\ Parted(m, p) /\ p = Gives(p.m, p.out) /\ p.m.started = m.started /\ ResponsesInStep(t, p.m)
<1> DEFINE p == ResponsesOpen(m, r)
           o == Opens(m, r.key, r.kind)
           l == Len(m.content) + 1
           what == IF r.kind = "web" THEN "web_start" ELSE "open"
           out == <<Ev(what, l)>>
<1>1. m.content \in Seq(Blocks) /\ Len(m.content) \in Nat
  BY ContentIs
<1>2. r.kind \in Kinds \ {"result"} /\ what \in {"open", "web_start"}
  BY DEF Kinds
<1>3. IsOpened(m, r.key, r.kind, o)
  BY <1>2, OpensIs
<1>4. p = IF r.kind = "web" THEN Gives(o.m, <<Ev("web_start", Len(o.m.content))>>) ELSE o
  BY DEF ResponsesOpen
<1>5. o = Gives(o.m, o.out)
  BY DEF Opens, Gives
<1> HIDE DEF o, p
<1>6. /\ o.m \in Messages /\ Leads(o.m) /\ o.out = <<Ev("open", l)>>
      /\ o.m.content = Append(m.content, [kind |-> r.kind, text |-> 0, done |-> FALSE])
      /\ Len(o.m.content) = l /\ ~o.m.content[l].done /\ o.m.started = m.started
      /\ DOMAIN o.m.idx = DOMAIN m.idx \cup {r.key} /\ o.m.idx[r.key] = l
  BY <1>3 DEF IsOpened
<1>7. p = Gives(o.m, out)
  BY <1>4, <1>5, <1>6
<1> HIDE DEF what
<1>8. /\ out \in Seq(Events) /\ Plain(out)
      /\ Carries(m.content, out, Append(m.content, [kind |-> r.kind, text |-> 0, done |-> FALSE]))
  BY <1>1, <1>2, OpenParts, Zenon
<1> HIDE DEF out
<1>9. p.m = o.m /\ p.out = out /\ p.bad = FALSE
  BY <1>7 DEF Gives
<1>10. Parted(m, p)
  BY <1>6, <1>8, <1>9 DEF Parted
<1>11. ResponsesInStep(t, o.m)
  BY <1>6 DEF ResponsesInStep
<1>12. p = Gives(p.m, p.out)
  BY <1>7, <1>9
<1> QED  BY <1>6, <1>9, <1>10, <1>11, <1>12 DEF p

\* A piece of an item that is open; what a web search streams is not told.
LEMMA ResponsesDeltaIs ==
    ASSUME NEW m \in Messages, Leads(m), NEW s, s.open # 0, ResponsesInStep(s, m),
           NEW t, t.open = s.open, NEW r, r.key = s.open
    PROVE  LET p == ResponsesDelta(m, r)
           IN  /\ Parted(m, p) /\ p = Gives(p.m, p.out) /\ p.m.started = m.started /\ ResponsesInStep(t, p.m)
<1> DEFINE p == ResponsesDelta(m, r)
           n == m.idx[r.key]
<1>1. /\ m.content \in Seq(Blocks) /\ Len(m.content) \in Nat
      /\ \A k \in DOMAIN m.idx : m.idx[k] \in 1 .. Len(m.content)
  BY ContentIs
<1>2. CASE ~Known(m, r) \/ m.content[n].kind = "web"
  <2> DEFINE x == Silent(m)
  <2>1. p = x
    BY <1>2 DEF ResponsesDelta
  <2>2. Parted(m, x) /\ x.m = m /\ x = Gives(m, <<>>) /\ x.out = <<>>
    BY SilentParts, OutcomeIs DEF Silent
  <2>3. ResponsesInStep(t, m)
    BY DEF ResponsesInStep
  <2> HIDE DEF x, p
  <2> QED  BY <2>1, <2>2, <2>3 DEF p
<1>3. CASE Known(m, r) /\ m.content[n].kind # "web"
  <2> DEFINE g == Grow(m, n)
             out == <<Ev("delta", n)>>
  <2>1. n \in 1 .. Len(m.content) /\ ~m.content[n].done /\ r.key \in DOMAIN m.idx
    BY <1>1, <1>3 DEF Known, ResponsesInStep
  <2>2. p = Gives(g, out)
    BY <1>3 DEF ResponsesDelta, Delta
  <2>3. Parted(m, Gives(g, out)) /\ SameMaps(m, g) /\ ~g.content[n].done
    BY <2>1, DeltaParts
  <2> HIDE DEF p, g, out
  <2>4. p.m = g /\ p.out = out
    BY <2>2 DEF Gives
  <2>5. g.idx = m.idx /\ g.started = m.started
    BY <2>3 DEF SameMaps
  <2>6. ResponsesInStep(t, g)
    BY <2>3, <2>5 DEF ResponsesInStep
  <2>7. p = Gives(p.m, p.out)
    BY <2>2, <2>4
  <2> QED  BY <2>2, <2>3, <2>4, <2>5, <2>6, <2>7 DEF p
<1> QED  BY <1>2, <1>3

\* A done closes its block, or is a duplicate.
LEMMA ResponsesDoneIs ==
    ASSUME NEW m \in Messages, Leads(m), NEW r, r.key \in Nat, NEW t, t.open = 0
    PROVE  LET p == ResponsesDone(m, r)
           IN  /\ Parted(m, p)
               /\ p = Raises(p.m) \/ p = Gives(p.m, p.out)
               /\ p.m.started = m.started /\ ResponsesInStep(t, p.m)
<1> DEFINE p == ResponsesDone(m, r)
           n == m.idx[r.key]
<1>1. /\ m.content \in Seq(Blocks) /\ Len(m.content) \in Nat
      /\ \A k \in DOMAIN m.idx : m.idx[k] \in 1 .. Len(m.content)
  BY ContentIs
<1>2. \A x : ResponsesInStep(t, x)
  BY DEF ResponsesInStep
<1>3. CASE ~Known(m, r) \/ m.content[n].done
  <2> DEFINE x == Silent(m)
  <2>1. p = x
    BY <1>3 DEF ResponsesDone
  <2>2. Parted(m, x) /\ x.m = m /\ x = Gives(m, <<>>) /\ x.out = <<>>
    BY SilentParts, OutcomeIs DEF Silent
  <2> HIDE DEF x, p
  <2> QED  BY <1>2, <2>1, <2>2 DEF p
<1>4. CASE Known(m, r) /\ ~m.content[n].done /\ m.content[n].kind # "web"
  <2> DEFINE c == CloseBlock(m, n, r)
  <2>1. n \in 1 .. Len(m.content)
    BY <1>1, <1>4 DEF Known
  <2>2. p = c
    BY <1>4 DEF ResponsesDone
  <2>3. Parted(m, c) /\ SameMaps(m, c.m)
    BY <1>4, <2>1, CloseParts
  <2>4. c = Raises(c.m) \/ c = Gives(c.m, c.out)
    BY DEF CloseBlock, Raises, Gives
  <2> HIDE DEF c, p
  <2> QED  BY <1>2, <2>2, <2>3, <2>4 DEF p, SameMaps
<1>5. CASE Known(m, r) /\ ~m.content[n].done /\ m.content[n].kind = "web"
  <2> DEFINE b == Searched(m, n)
             d == Drop(b, r.key)
             out == <<Ev("web_end", n)>>
  <2>1. n \in 1 .. Len(m.content)
    BY <1>1, <1>5 DEF Known
  <2>2. p = Gives(d, out)
    BY <1>5 DEF ResponsesDone, Searched
  <2>3. IsSearched(m, n, b)
    BY <1>5, <2>1, WebParts
  <2> HIDE DEF b, p
  <2>4. /\ b \in Messages /\ Leads(b) /\ b.started = m.started
        /\ Carries(m.content, out, b.content) /\ out \in Seq(Events) /\ Plain(out)
    BY <2>3 DEF IsSearched, SameMaps
  <2>5. IsDropped(b, r.key, d)
    BY <2>4, DropIs
  <2> HIDE DEF d, out
  <2>6. /\ d \in Messages /\ d.content = b.content /\ d.run = b.run /\ d.started = b.started
        /\ DOMAIN d.idx = DOMAIN b.idx \ {r.key} /\ \A k \in DOMAIN d.idx : d.idx[k] = b.idx[k]
    BY <2>5 DEF IsDropped
  <2>7. Leads(d)
    BY <2>4, <2>6 DEF Leads
  <2>8. p.m = d /\ p.out = out /\ p.bad = FALSE
    BY <2>2 DEF Gives
  <2>9. Parted(m, p)
    BY <2>4, <2>6, <2>7, <2>8 DEF Parted
  <2>10. p = Gives(p.m, p.out)
    BY <2>2, <2>8
  <2> QED  BY <1>2, <2>4, <2>6, <2>8, <2>9, <2>10 DEF p
<1> QED  BY <1>3, <1>4, <1>5

\* Two events behind the others are said one after the other.
LEMMA TwoMore ==
    ASSUME NEW c \in Seq(Events), NEW a \in Events, NEW b \in Events
    PROVE  c \o <<a, b>> = (c \o <<a>>) \o <<b>>
<1> DEFINE x == <<a, b>>
           y == <<a>>
           z == <<b>>
<1>1. /\ x \in Seq(Events) /\ Len(x) = 2 /\ x[1] = a /\ x[2] = b
      /\ y \in Seq(Events) /\ Len(y) = 1 /\ y[1] = a /\ z \in Seq(Events) /\ Len(z) = 1 /\ z[1] = b
  OBVIOUS
<1> HIDE DEF x, y, z
<1>2. (c \o y) \o z = c \o (y \o z)
  <2>1. c \in Seq(Events) /\ y \in Seq(Events) /\ z \in Seq(Events)
    BY <1>1
  <2> QED  BY <2>1, ConcatAssociative
<1> DEFINE w == y \o z
<1>3. w \in Seq(Events) /\ Len(w) = Len(y) + Len(z)
  BY <1>1, ConcatProperties, Zenon
<1>4. \A i \in 1 .. Len(y) + Len(z) : w[i] = IF i <= Len(y) THEN y[i] ELSE z[i - Len(y)]
  BY <1>1, ConcatProperties, Zenon
<1> HIDE DEF w
<1>5. Len(w) = 2 /\ w[1] = a /\ w[2] = b
  BY <1>1, <1>3, <1>4
<1>6. \A i \in 1 .. 2 : w[i] = x[i]
  BY <1>1, <1>5
<1>7. w = x
  BY <1>1, <1>3, <1>5, <1>6, SeqEqual
<1> QED  BY <1>2, <1>7 DEF w, x, y, z

\* The response ends: what is open is closed first.
LEMMA ResponsesEndIs ==
    ASSUME NEW m \in Messages, Leads(m), NEW r
    PROVE  LET p == ResponsesEnd(m, r)
           IN  /\ Ended(m, p)
               /\ p = Raises(p.m) \/ p = Gives(p.m, p.out)
<1> DEFINE p == ResponsesEnd(m, r)
           S == {n \in 1 .. Len(m.content) : ~m.content[n].done /\ m.content[n].kind # "web"}
           fails == r.broken /\ \E n \in S : m.content[n].kind = "call"
           a == AllSealed(m, S)
           y == [a EXCEPT !.stop = TRUE, !.usage = TRUE]
           usage == Ev("usage", 0)
           out == Closes(S)
<1>1. /\ m.content \in Seq(Blocks) /\ Len(m.content) \in Nat
      /\ \A k \in DOMAIN m.idx : m.idx[k] \in 1 .. Len(m.content)
      /\ \A n \in 1 .. Len(m.content) : m.content[n].kind = "result" => m.content[n].done
  BY ContentIs
<1>2. p = IF fails THEN Raises(m) ELSE Gives(y, out \o <<usage, FinishEv>>)
  BY DEF ResponsesEnd
<1> HIDE DEF fails, p
<1>3. CASE fails
  <2>1. p = Raises(m) /\ p.m = m /\ p.bad = TRUE
    BY <1>2, <1>3 DEF Raises
  <2>2. Ended(m, p)
    BY <2>1 DEF Ended
  <2> QED  BY <2>1, <2>2 DEF p
<1>4. CASE ~fails
  <2>1. S \in SUBSET (1 .. Len(m.content))
    OBVIOUS
  <2>2. \A n \in S : ~m.content[n].done /\ m.content[n].kind \notin {"web", "result"}
    BY <1>1
  <2>3. \A n \in 1 .. Len(m.content) : n \notin S => m.content[n].done \/ m.content[n].kind = "web"
    OBVIOUS
  <2> HIDE DEF S
  <2>4. /\ a \in Messages /\ SameMaps(m, a) /\ Len(a.content) = Len(m.content)
        /\ \A n \in 1 .. Len(m.content) : n \notin S => a.content[n] = m.content[n]
        /\ \A n \in S : /\ a.content[n].done /\ a.content[n].kind = m.content[n].kind
                        /\ a.content[n].text = m.content[n].text
    BY <2>1, AllSealedIs
  <2> HIDE DEF a
  <2>5. y \in Messages /\ y.content = a.content /\ y.idx = m.idx /\ y.run = m.run /\ y.stop
    BY <2>4 DEF Messages, SameMaps
  <2>6. a.content \in Seq(Blocks)
    BY <2>4 DEF Messages
  <2>7. /\ out \in Seq(Events) /\ Carries(m.content, out, a.content)
        /\ \A i \in 1 .. Len(out) : out[i].what = "close"
    BY <1>1, <2>1, <2>2, <2>4, <2>6, ClosesCarry
  <2> HIDE DEF out, y
  <2>8. Plain(out)
    BY <2>7 DEF Plain
  <2>9. \A n \in 1 .. Len(m.content) : a.content[n].kind = m.content[n].kind /\ (m.content[n].done => a.content[n].done)
    BY <2>1, <2>4
  <2>10. Leads(y)
    BY <2>4, <2>5, <2>9, StillLeads
  <2>11. Whole(y.content)
    <3>1. \A n \in 1 .. Len(m.content) : a.content[n].done \/ a.content[n].kind = "web"
      BY <2>3, <2>4
    <3> QED  BY <2>4, <2>5, <3>1 DEF Whole
  <2>12. usage \in Events /\ FinishEv \in Events /\ Plain(<<usage>>) /\ Quiet(<<usage>>) /\ <<usage>> \in Seq(Events)
    BY Evs, PlainOnes, NothingSaid, OneEvent DEF Words
  <2> HIDE DEF usage
  <2> DEFINE body == out \o <<usage>>
             told1 == body \o <<FinishEv>>
  <2>13. body \in Seq(Events) /\ Plain(body) /\ Carries(m.content, body, y.content)
    BY <2>5, <2>6, <2>7, <2>8, <2>12, QuietCarries, CarriedOn, PlainJoined
  <2>14. out \o <<usage, FinishEv>> = told1
    BY <2>7, <2>12, TwoMore
  <2> HIDE DEF body, told1
  <2>15. p = Gives(y, told1)
    BY <1>2, <1>4, <2>14
  <2>16. p.m = y /\ p.out = told1 /\ p.bad = FALSE
    BY <2>15 DEF Gives
  <2>17. p.out = body \o <<FinishEv>>
    BY <2>16 DEF told1
  <2>18. Ended(m, p)
    BY <2>5, <2>10, <2>11, <2>13, <2>16, <2>17 DEF Ended
  <2>19. p = Gives(p.m, p.out)
    BY <2>15, <2>16
  <2> QED  BY <2>18, <2>19 DEF p
<1> QED  BY <1>3, <1>4

\* Every event of the responses wire.
LEMMA ResponsesHandled ==
    ASSUME wire = "responses", NEW s \in Servers, NEW r, Comes(s, r), NEW m \in Messages, Leads(m), InStep(s, m)
    PROVE  Handled(s, Said(s, r), m, HandleResponses(m, r))
<1> DEFINE t == Said(s, r)
           h == HandleResponses(m, r)
           g == Begun(m)
           p == ResponsesRaw(g, r)
           b == m.started \/ p.bad
<1>1. ResponsesComes(s, r)
  BY DEF Comes
<1>2. t.open = IF r.type = "open" THEN r.key ELSE IF r.type = "close" THEN 0 ELSE s.open
  BY DEF Said
<1>3. s.open \in 0 .. MaxBlocks
  BY DEF Servers
<1> HIDE DEF t
<1>4. ResponsesInStep(s, m) /\ (Unbegun(s, m) <=> ~m.started)
  BY DEF InStep, Unbegun
<1>5. \A x : (InStep(t, x) <=> ResponsesInStep(t, x)) /\ (Unbegun(t, x) <=> ~x.started)
  BY DEF InStep, Unbegun
<1>6. /\ g \in Messages /\ Leads(g) /\ g.content = m.content /\ g.idx = m.idx
      /\ g.started = TRUE /\ \A x : Parted(g, x) => Parted(m, x)
      /\ \A x : Ended(g, x) => Ended(m, x)
  BY BegunIs
<1>7. h = [p EXCEPT !.out = IF b THEN p.out ELSE <<StartEvent>> \o p.out]
  BY DEF HandleResponses, Begun
<1> HIDE DEF g, h
<1>8. ResponsesInStep(s, g)
  BY <1>4, <1>6 DEF ResponsesInStep
<1>9. ASSUME p = Raises(p.m) \/ p = Gives(p.m, p.out)
      PROVE  /\ h.m = p.m /\ h.bad = p.bad
             /\ ~p.bad => h.out = p.out \/ (h.out = <<StartEvent>> \o p.out /\ Unbegun(s, m))
  <2>1. h.m = p.m /\ h.bad = p.bad /\ h.out = IF b THEN p.out ELSE <<StartEvent>> \o p.out
    <3> HIDE DEF p, b
    <3> QED  BY <1>7, <1>9, AnnouncedIs
  <2> QED  BY <1>4, <2>1
<1>10. ASSUME Parted(g, p), p = Raises(p.m) \/ p = Gives(p.m, p.out), p.m.started = TRUE, ResponsesInStep(t, p.m)
       PROVE  Handled(s, t, m, h)
  <2> HIDE DEF p
  <2>1. Parted(m, p)
    BY <1>6, <1>10
  <2>2. InStep(t, h.m) /\ ~Unbegun(t, h.m)
    BY <1>5, <1>9, <1>10
  <2> QED  BY <1>9, <1>10, <2>1, <2>2, PartHandled
<1>11. CASE r.type = "open"
  <2>1. p = ResponsesOpen(g, r)
    BY <1>11 DEF ResponsesRaw
  <2>2. r.key \in Nat /\ t.open = r.key /\ r.kind \in {"text", "call", "web"}
    BY <1>1, <1>2, <1>11 DEF ResponsesComes
  <2> HIDE DEF p
  <2>3. Parted(g, p) /\ p = Gives(p.m, p.out) /\ p.m.started = g.started /\ ResponsesInStep(t, p.m)
    BY <1>6, <2>1, <2>2, ResponsesOpenIs
  <2> QED  BY <1>6, <1>10, <2>3 DEF t, h
<1>12. CASE r.type = "delta"
  <2>1. p = ResponsesDelta(g, r)
    BY <1>12 DEF ResponsesRaw
  <2>2. s.open # 0 /\ t.open = s.open /\ r.key = s.open
    BY <1>1, <1>2, <1>12 DEF ResponsesComes
  <2> HIDE DEF p
  <2>3. Parted(g, p) /\ p = Gives(p.m, p.out) /\ p.m.started = g.started /\ ResponsesInStep(t, p.m)
    BY <1>6, <1>8, <2>1, <2>2, ResponsesDeltaIs
  <2> QED  BY <1>6, <1>10, <2>3 DEF t, h
<1>13. CASE r.type = "close"
  <2>1. p = ResponsesDone(g, r)
    BY <1>13 DEF ResponsesRaw
  <2>2. t.open = 0 /\ r.key \in Nat
    BY <1>1, <1>2, <1>3, <1>13 DEF ResponsesComes
  <2> HIDE DEF p
  <2>3. /\ Parted(g, p) /\ p.m.started = g.started /\ ResponsesInStep(t, p.m)
        /\ p = Raises(p.m) \/ p = Gives(p.m, p.out)
    BY <1>6, <2>1, <2>2, ResponsesDoneIs
  <2> QED  BY <1>6, <1>10, <2>3 DEF t, h
<1>14. CASE r.type = "end"
  <2>1. p = ResponsesEnd(g, r)
    BY <1>14 DEF ResponsesRaw
  <2> HIDE DEF p
  <2>2. /\ Ended(g, p)
        /\ p = Raises(p.m) \/ p = Gives(p.m, p.out)
    BY <1>6, <2>1, ResponsesEndIs
  <2>3. Ended(m, p)
    BY <1>6, <2>2
  <2>4. Handled(s, t, m, h)
    BY <1>9, <2>2, <2>3, EndHandled
  <2> QED  BY <2>4 DEF t, h
<1>15. CASE r.type = "error"
  <2>1. p = Raises(g)
    BY <1>15 DEF ResponsesRaw
  <2> HIDE DEF p
  <2>2. p.m = g /\ p.bad = TRUE /\ p = Raises(p.m)
    BY <2>1 DEF Raises
  <2>3. h.m = g /\ h.bad = TRUE
    BY <1>9, <2>2
  <2>4. Handled(s, t, m, h)
    BY <1>6, <2>3 DEF Handled
  <2> QED  BY <2>4 DEF t, h
<1>16. CASE r.type \in {"created", "usage"}
  <2>1. p = Silent(g)
    BY <1>16 DEF ResponsesRaw
  <2> DEFINE x == Silent(g)
  <2>2. Parted(g, x) /\ x.m = g /\ x.out = <<>> /\ x = Gives(g, <<>>)
    BY <1>6, SilentParts, OutcomeIs DEF Silent
  <2>3. ResponsesInStep(t, g)
    BY <1>2, <1>8, <1>16 DEF ResponsesInStep
  <2> HIDE DEF p, x
  <2>4. p = x
    BY <2>1 DEF x
  <2> QED  BY <1>6, <1>10, <2>2, <2>3, <2>4 DEF t, h
<1> QED  BY <1>1, <1>11, <1>12, <1>13, <1>14, <1>15, <1>16 DEF ResponsesComes

-----------------------------------------------------------------------------
(* Bedrock Converse.                                                       *)

\* The block that is open ends, and its key is forgotten.
LEMMA ConverseStopIs ==
    ASSUME NEW m \in Messages, Leads(m), Mapped(m), NEW r, DOMAIN m.idx \subseteq {r.key}
    PROVE  LET p == ConverseStop(m, r)
           IN  /\ Parted(m, p)
               /\ ~p.bad => Mapped(p.m) /\ DOMAIN p.m.idx = {} /\ p.m.stop = m.stop
<1> DEFINE p == ConverseStop(m, r)
           n == m.idx[r.key]
<1>1. /\ m.content \in Seq(Blocks) /\ Len(m.content) \in Nat
      /\ \A k \in DOMAIN m.idx : m.idx[k] \in 1 .. Len(m.content)
  BY ContentIs
<1>2. CASE ~Known(m, r)
  <2> DEFINE x == Silent(m)
  <2>1. p = x
    BY <1>2 DEF ConverseStop
  <2>2. Parted(m, x) /\ x.m = m
    BY SilentParts, OutcomeIs
  <2>3. DOMAIN m.idx = {}
    BY <1>2 DEF Known
  <2> HIDE DEF x, p
  <2> QED  BY <2>1, <2>2, <2>3 DEF p
<1>3. CASE Known(m, r)
  <2> DEFINE d == Drop(m, r.key)
             c == CloseBlock(d, n, r)
  <2>1. p = c
    BY <1>3 DEF ConverseStop
  <2>2. r.key \in DOMAIN m.idx /\ n \in 1 .. Len(m.content) /\ ~m.content[n].done /\ m.content[n].kind # "web"
    BY <1>1, <1>3 DEF Known, Mapped, OpenKey, Unhosted
  <2>3. \A j \in 1 .. Len(m.content) : j # n => m.content[j].done
    BY <1>1, <1>3 DEF Mapped, OpenKey
  <2>4. IsDropped(m, r.key, d)
    BY DropIs
  <2> HIDE DEF d, n
  <2>5. /\ d \in Messages /\ d.content = m.content /\ d.run = m.run /\ d.stop = m.stop
        /\ DOMAIN d.idx = {} /\ \A k \in DOMAIN d.idx : d.idx[k] = m.idx[k]
    BY <2>4 DEF IsDropped
  <2>6. Leads(d)
    BY <2>5 DEF Leads
  <2>7. /\ Parted(d, c) /\ SameMaps(d, c.m)
        /\ ~c.bad => /\ Besides(d.content, c.m.content, n)
                     /\ c.m.content[n].kind = d.content[n].kind
                     /\ c.m.content[n].done
    BY <2>2, <2>5, <2>6, CloseParts
  <2> HIDE DEF c
  <2>8. Parted(m, c)
    BY <2>5, <2>7 DEF Parted
  <2>9. ASSUME ~c.bad
        PROVE  Mapped(c.m)
    <3>1. /\ Len(c.m.content) = Len(m.content)
          /\ \A j \in 1 .. Len(m.content) : j # n => c.m.content[j] = m.content[j]
      BY <2>5, <2>7, <2>9 DEF Besides
    <3>2. \A j \in 1 .. Len(m.content) : c.m.content[j].done /\ c.m.content[j].kind = m.content[j].kind
      BY <2>3, <2>5, <2>7, <2>9, <3>1
    <3>3. DOMAIN c.m.idx = {}
      BY <2>5, <2>7 DEF SameMaps
    <3> QED  BY <3>1, <3>2, <3>3 DEF Mapped, OpenKey, Unhosted
  <2>10. DOMAIN c.m.idx = {} /\ c.m.stop = m.stop
    BY <2>5, <2>7 DEF SameMaps
  <2> HIDE DEF p
  <2> QED  BY <2>1, <2>8, <2>9, <2>10 DEF p
<1> QED  BY <1>2, <1>3

\* Every event of the Converse wire.
LEMMA ConverseHandled ==
    ASSUME wire = "converse", NEW s \in Servers, s.open # 0 => s.blocks[s.open] # "none",
           NEW r, Comes(s, r), NEW m \in Messages, Leads(m), InStep(s, m)
    PROVE  Handled(s, Said(s, r), m, HandleConverse(m, r))
<1> DEFINE t == Said(s, r)
           h == HandleConverse(m, r)
<1>1. ConverseComes(s, r)
  BY DEF Comes
<1>2. /\ t.open = IF r.type = "open" THEN r.key ELSE IF r.type = "close" THEN 0 ELSE s.open
      /\ t.blocks = IF r.type \in {"open", "delta"} THEN [s.blocks EXCEPT ![r.key] = r.kind] ELSE s.blocks
      /\ r.type \in {"begin", "open", "delta", "close"} => t.stage = "body"
      /\ r.type = "reason" => t.stage = "reason"
      /\ r.type = "usage" => t.stage = "usage"
  BY DEF Said
<1>3. s.open \in 0 .. MaxBlocks /\ s.blocks \in [1 .. MaxBlocks -> {"none", "text", "thinking", "call", "web"}]
  BY DEF Servers
<1> HIDE DEF t
<1>4. /\ ConverseInStep(s, m) /\ Mapped(m) /\ DOMAIN m.idx \subseteq {s.open} \ {0}
      /\ (Unbegun(s, m) <=> s.stage = "begin") /\ (Underway(s) => ~m.stop) /\ (~Underway(s) => s.open = 0)
  BY DEF InStep, Unbegun, ConverseInStep, Mapped
<1>5. \A x : (InStep(t, x) <=> ConverseInStep(t, x)) /\ (Unbegun(t, x) <=> t.stage = "begin")
  BY DEF InStep, Unbegun
<1>6. /\ r.type \in {"open", "delta"} => r.key \in 1 .. MaxBlocks /\ r.kind \in {"text", "thinking", "call"}
      /\ r.type = "delta" => r.key = s.open
  <2>1. \A k \in 1 .. MaxBlocks : s.blocks[k] # "web"
    BY <1>4 DEF ConverseInStep
  <2>2. CASE r.type = "open"
    BY <1>1, <2>2 DEF ConverseComes
  <2>3. CASE r.type = "delta"
    <3>1. s.open # 0 /\ r.key = s.open /\ r.kind = s.blocks[s.open]
      BY <1>1, <2>3 DEF ConverseComes
    <3>2. MaxBlocks \in Nat
      BY StreamerAssumption
    <3>3. s.open \in 1 .. MaxBlocks
      BY <1>3, <3>1, <3>2
    <3>4. s.blocks[s.open] \in {"none", "text", "thinking", "call", "web"}
      BY <1>3, <3>3
    <3>5. s.blocks[s.open] # "none" /\ s.blocks[s.open] # "web"
      BY <2>1, <3>1, <3>3
    <3> QED  BY <2>3, <3>1, <3>3, <3>4, <3>5
  <2> QED  BY <2>2, <2>3
<1>7. \A k \in 1 .. MaxBlocks : t.blocks[k] # "web"
  <2>1. \A k \in 1 .. MaxBlocks : s.blocks[k] # "web"
    BY <1>4 DEF ConverseInStep
  <2>2. CASE r.type \in {"open", "delta"}
    BY <1>2, <1>3, <1>6, <2>1, <2>2
  <2>3. CASE r.type \notin {"open", "delta"}
    BY <1>2, <2>1, <2>3
  <2> QED  BY <2>2, <2>3
<1>8. \A x : /\ Mapped(x) /\ DOMAIN x.idx \subseteq {t.open} \ {0}
             /\ (x.stop => ~Underway(t)) /\ (~Underway(t) => t.open = 0)
             => ConverseInStep(t, x)
  BY <1>7 DEF ConverseInStep, Mapped
<1>9. r.type \in {"begin", "open", "delta", "close"} => Underway(s) /\ Underway(t) /\ t.stage # "begin" /\ ~m.stop
  BY <1>1, <1>2, <1>4 DEF ConverseComes, Underway
<1>10. r.type \in {"reason", "usage"} => ~Underway(t) /\ t.stage # "begin" /\ s.open = 0 /\ t.open = 0
  BY <1>1, <1>2, <1>4 DEF ConverseComes, Underway
<1>11. ASSUME NEW p, Parted(m, p), h = p, ~p.bad => ConverseInStep(t, p.m), t.stage # "begin"
       PROVE  Handled(s, t, m, h)
  <2> HIDE DEF h
  <2>1. ~p.bad => InStep(t, h.m) /\ ~Unbegun(t, h.m)
    BY <1>5, <1>11
  <2> QED  BY <1>11, <2>1, PartHandled
<1>12. CASE r.type = "begin"
  <2> DEFINE p == Silent(m)
  <2>1. h = Gives(m, <<StartEvent>>)
    BY <1>12 DEF HandleConverse
  <2> HIDE DEF h
  <2>2. h.m = m /\ h.out = <<StartEvent>> /\ h.bad = FALSE
    BY <2>1 DEF Gives
  <2>3. p.m = m /\ p.out = <<>> /\ p.bad = FALSE /\ Parted(m, p)
    BY SilentParts, OutcomeIs
  <2> HIDE DEF p
  <2>4. <<StartEvent>> \o <<>> = <<StartEvent>>
    BY Evs, OneEvent, ConcatEmptySeq
  <2>5. ConverseInStep(t, m)
    BY <1>2, <1>4, <1>8, <1>9, <1>12
  <2>6. Unbegun(s, m) /\ ~Unbegun(t, m) /\ InStep(t, m)
    BY <1>1, <1>4, <1>5, <1>9, <1>12, <2>5 DEF ConverseComes
  <2>7. Handled(s, t, m, h)
    BY <2>2, <2>3, <2>4, <2>6, PartHandled
  <2> QED  BY <2>7 DEF h, t
<1>13. CASE r.type = "open"
  <2>1. h = ConverseOpen(m, r)
    BY <1>13 DEF HandleConverse
  <2>2. s.open = 0 /\ DOMAIN m.idx = {} /\ t.open = r.key /\ r.key # 0 /\ r.key \in Nat
    BY <1>1, <1>2, <1>4, <1>6, <1>13 DEF ConverseComes
  <2>3. CASE r.kind = "call"
    <3> DEFINE o == Opens(m, r.key, "call")
               l == Len(m.content) + 1
               out == <<Ev("open", l)>>
    <3>1. h = o
      BY <2>1, <2>3 DEF ConverseOpen
    <3>2. "call" \in Kinds \ {"result"} /\ "call" \in {"text", "thinking", "call"} /\ r.key \notin DOMAIN m.idx
      BY <2>2 DEF Kinds
    <3>3. IsOpened(m, r.key, "call", o)
      BY <2>2, <3>2, OpensIs
    <3> HIDE DEF o, h
    <3>4. Mapped(o.m)
      BY <1>4, <2>2, <3>2, <3>3, OpenedIsMapped
    <3>5. /\ o.m \in Messages /\ Leads(o.m) /\ o.out = out /\ o.bad = FALSE
          /\ o.m.content = Append(m.content, [kind |-> "call", text |-> 0, done |-> FALSE])
          /\ DOMAIN o.m.idx = DOMAIN m.idx \cup {r.key} /\ o.m.stop = m.stop
      BY <3>3 DEF IsOpened
    <3>6. /\ out \in Seq(Events) /\ Plain(out)
          /\ Carries(m.content, out, Append(m.content, [kind |-> "call", text |-> 0, done |-> FALSE]))
      <4>1. "open" \in {"open", "web_start"} /\ m.content \in Seq(Blocks)
        BY ContentIs
      <4> QED  BY <3>2, <4>1, OpenParts, Zenon
    <3>7. Parted(m, o)
      BY <3>5, <3>6 DEF Parted
    <3>8. ConverseInStep(t, o.m)
      BY <1>8, <1>9, <1>13, <2>2, <3>4, <3>5
    <3>9. Handled(s, t, m, h)
      BY <1>9, <1>11, <1>13, <3>1, <3>7, <3>8
    <3> QED  BY <3>9 DEF h, t
  <2>4. CASE r.kind # "call"
    <3> DEFINE x == Silent(m)
    <3>1. h = x
      BY <2>1, <2>4 DEF ConverseOpen
    <3>2. Parted(m, x) /\ x.m = m
      BY SilentParts, OutcomeIs
    <3>3. ConverseInStep(t, m)
      BY <1>4, <1>8, <1>9, <1>13, <2>2
    <3> HIDE DEF h, x
    <3>4. Handled(s, t, m, h)
      BY <1>9, <1>11, <1>13, <3>1, <3>2, <3>3
    <3> QED  BY <3>4 DEF h, t
  <2> QED  BY <2>3, <2>4
<1>14. CASE r.type = "delta"
  <2>1. h = ConverseDelta(m, r)
    BY <1>14 DEF HandleConverse
  <2>2. t.open = s.open /\ r.key = s.open /\ r.key # 0 /\ r.key \in Nat /\ r.kind \in {"text", "thinking", "call"}
    BY <1>2, <1>6, <1>14
  <2>3. CASE r.kind = "call" /\ ~Known(m, r)
    <3> DEFINE x == Silent(m)
    <3>1. h = x
      BY <2>1, <2>3 DEF ConverseDelta
    <3>2. Parted(m, x) /\ x.m = m
      BY SilentParts, OutcomeIs
    <3>3. ConverseInStep(t, m)
      BY <1>4, <1>8, <1>9, <1>14, <2>2
    <3> HIDE DEF h, x
    <3>4. Handled(s, t, m, h)
      BY <1>9, <1>11, <1>14, <3>1, <3>2, <3>3
    <3> QED  BY <3>4 DEF h, t
  <2>4. CASE ~(r.kind = "call" /\ ~Known(m, r))
    <3> DEFINE p == ChatDelta(m, r)
    <3>1. h = p
      BY <2>1, <2>4 DEF ConverseDelta
    <3>2. Parted(m, p) /\ Mapped(p.m) /\ DOMAIN p.m.idx = DOMAIN m.idx \cup {r.key} /\ p.m.stop = m.stop
      BY <1>4, <2>2, ChatDeltaIs
    <3> HIDE DEF h, p
    <3>3. ConverseInStep(t, p.m)
      BY <1>4, <1>8, <1>9, <1>14, <2>2, <3>2
    <3>4. Handled(s, t, m, h)
      BY <1>9, <1>11, <1>14, <3>1, <3>2, <3>3
    <3> QED  BY <3>4 DEF h, t
  <2> QED  BY <2>3, <2>4
<1>15. CASE r.type = "close"
  <2> DEFINE p == ConverseStop(m, r)
  <2>1. h = p
    BY <1>15 DEF HandleConverse
  <2>2. r.key = s.open /\ t.open = 0
    BY <1>1, <1>2, <1>15 DEF ConverseComes
  <2>3. /\ Parted(m, p)
        /\ ~p.bad => Mapped(p.m) /\ DOMAIN p.m.idx = {} /\ p.m.stop = m.stop
    BY <1>4, <2>2, ConverseStopIs
  <2> HIDE DEF h, p
  <2>4. ~p.bad => ConverseInStep(t, p.m)
    BY <1>8, <1>9, <1>15, <2>2, <2>3
  <2>5. Handled(s, t, m, h)
    BY <1>9, <1>11, <1>15, <2>1, <2>3, <2>4
  <2> QED  BY <2>5 DEF h, t
<1>16. CASE r.type = "reason"
  <2> DEFINE g == [m EXCEPT !.stop = TRUE]
             p == Silent(g)
  <2>1. h = p
    BY <1>16 DEF HandleConverse
  <2>2. g \in Messages /\ g.content = m.content /\ g.idx = m.idx /\ g.run = m.run
    BY DEF Messages
  <2> HIDE DEF g
  <2>3. Leads(g) /\ Mapped(g)
    BY <1>4, <2>2 DEF Leads, Mapped, Unhosted, OpenKey
  <2>4. Parted(m, p) /\ p.m = g
    BY <2>2, <2>3, SilentParts, OutcomeIs
  <2>5. ConverseInStep(t, g)
    BY <1>4, <1>8, <1>10, <1>16, <2>2, <2>3
  <2> HIDE DEF h, p
  <2>6. Handled(s, t, m, h)
    BY <1>10, <1>11, <1>16, <2>1, <2>4, <2>5
  <2> QED  BY <2>6 DEF h, t
<1>17. CASE r.type = "usage"
  <2> DEFINE p == UsageTold(m)
  <2>1. h = p
    BY <1>17 DEF HandleConverse, UsageTold
  <2>2. /\ Parted(m, p) /\ p.m.content = m.content
        /\ p.m.idx = m.idx /\ p.m.stop = m.stop
    BY UsageIs
  <2> HIDE DEF h, p
  <2>3. ConverseInStep(t, p.m)
    <3>1. Mapped(p.m)
      BY <1>4, <2>2 DEF Mapped, Unhosted, OpenKey
    <3> QED  BY <1>4, <1>8, <1>10, <1>17, <2>2, <3>1
  <2>4. Handled(s, t, m, h)
    BY <1>10, <1>11, <1>17, <2>1, <2>2, <2>3
  <2> QED  BY <2>4 DEF h, t
<1>18. CASE r.type = "error"
  <2>1. h = Raises(m)
    BY <1>18 DEF HandleConverse
  <2> QED  BY <2>1, RaisedHandled DEF t
<1> QED  BY <1>1, <1>12, <1>13, <1>14, <1>15, <1>16, <1>17, <1>18 DEF ConverseComes

-----------------------------------------------------------------------------
(* One read.                                                               *)

\* s is where the provider was before the chunk in hand.
Follows(s) ==
    \/ chunk = <<>> /\ server = [s EXCEPT !.said = @ + 1]
    \/ \E r : Comes(s, r) /\ chunk = <<r>> /\ server = Said(s, r)
    \/ wire = "converse" /\ \E r : Comes(s, r) /\ chunk = <<r, [r EXCEPT !.type = "error"]>>

\* Whatever the wire, an event is handled.
LEMMA EventHandled ==
    ASSUME wire \in {"messages", "chat", "responses", "converse"}, NEW s \in Servers,
           s.open # 0 => s.blocks[s.open] # "none", NEW r, Comes(s, r), NEW m \in Messages, Leads(m), InStep(s, m)
    PROVE  Handled(s, Said(s, r), m, HandleEvent(m, r))
<1>1. CASE wire = "messages"
  <2>1. HandleEvent(m, r) = HandleMessages(m, r)
    BY <1>1 DEF HandleEvent
  <2>2. Handled(s, Said(s, r), m, HandleMessages(m, r))
    BY <1>1, MessagesHandled
  <2> QED  BY <2>1, <2>2
<1>2. CASE wire = "chat"
  <2>1. HandleEvent(m, r) = HandleChat(m, r)
    BY <1>2 DEF HandleEvent
  <2>2. Handled(s, Said(s, r), m, HandleChat(m, r))
    BY <1>2, ChatHandled
  <2> QED  BY <2>1, <2>2
<1>3. CASE wire = "responses"
  <2>1. HandleEvent(m, r) = HandleResponses(m, r)
    BY <1>3 DEF HandleEvent
  <2>2. Handled(s, Said(s, r), m, HandleResponses(m, r))
    BY <1>3, ResponsesHandled
  <2> QED  BY <2>1, <2>2
<1>4. CASE wire = "converse"
  <2>1. HandleEvent(m, r) = HandleConverse(m, r)
    BY <1>4 DEF HandleEvent
  <2>2. Handled(s, Said(s, r), m, HandleConverse(m, r))
    BY <1>4, ConverseHandled
  <2> QED  BY <2>1, <2>2
<1> QED  BY <1>1, <1>2, <1>3, <1>4

\* A provider that only said nothing more is where it was.
LEMMA SameStep ==
    ASSUME wire \in {"messages", "chat", "responses", "converse"}, NEW s \in Servers, NEW t, NEW m,
           t = [s EXCEPT !.said = s.said + 1]
    PROVE  /\ t.open = s.open /\ t.blocks = s.blocks /\ t.stage = s.stage
           /\ InStep(s, m) => InStep(t, m)
           /\ Unbegun(t, m) <=> Unbegun(s, m)
<1>1. t.open = s.open /\ t.blocks = s.blocks /\ t.stage = s.stage
  BY DEF Servers
<1>2. MessagesInStep(s, m) => MessagesInStep(t, m)
  BY <1>1 DEF MessagesInStep, Underway
<1>3. ChatInStep(s, m) => ChatInStep(t, m)
  BY <1>1 DEF ChatInStep, Underway
<1>4. ResponsesInStep(s, m) => ResponsesInStep(t, m)
  BY <1>1 DEF ResponsesInStep
<1>5. ConverseInStep(s, m) => ConverseInStep(t, m)
  BY <1>1 DEF ConverseInStep, Underway
<1>6. InStep(s, m) => InStep(t, m)
  BY <1>2, <1>3, <1>4, <1>5 DEF InStep
<1>7. Unbegun(t, m) <=> Unbegun(s, m)
  BY <1>1 DEF Unbegun
<1> QED  BY <1>1, <1>6, <1>7

\* A chunk is handled, and where the provider is now it can be.
LEMMA ChunkHandled ==
    ASSUME wire \in {"messages", "chat", "responses", "converse"}, NEW s \in Servers,
           s.open # 0 => s.blocks[s.open] # "none", Follows(s), NEW m \in Messages, Leads(m), InStep(s, m)
    PROVE  /\ Handled(s, server, m, HandleAll(m, chunk))
           /\ ~HandleAll(m, chunk).bad => (server.open # 0 => server.blocks[server.open] # "none")
<1> DEFINE h == HandleAll(m, chunk)
<1>1. CASE chunk = <<>> /\ server = [s EXCEPT !.said = @ + 1]
  <2>1. h = Silent(m)
    BY <1>1 DEF HandleAll
  <2>2. /\ server.open = s.open /\ server.blocks = s.blocks
        /\ InStep(server, m) /\ (Unbegun(server, m) <=> Unbegun(s, m))
    <3>1. server = [s EXCEPT !.said = s.said + 1]
      BY <1>1
    <3> QED  BY <3>1, SameStep
  <2>3. Parted(m, Silent(m)) /\ Silent(m).m = m /\ Silent(m).out = <<>>
    BY SilentParts, OutcomeIs
  <2> HIDE DEF h
  <2>4. h.m = m /\ h.out = <<>> /\ Parted(m, h)
    BY <2>1, <2>3
  <2>5. Handled(s, server, m, h)
    BY <2>2, <2>4, PartHandled
  <2> QED  BY <2>2, <2>5 DEF h
<1>2. ASSUME NEW r, Comes(s, r), chunk = <<r>>, server = Said(s, r)
      PROVE  /\ Handled(s, server, m, h)
             /\ server.open # 0 => server.blocks[server.open] # "none"
  <2>1. Len(chunk) = 1 /\ chunk[1] = r /\ chunk # <<>>
    BY <1>2
  <2>2. h = HandleEvent(m, r)
    BY <2>1 DEF HandleAll
  <2>3. Handled(s, Said(s, r), m, HandleEvent(m, r))
    BY <1>2, EventHandled
  <2>4. Said(s, r).open # 0 => Said(s, r).blocks[Said(s, r).open] # "none"
    BY <1>2, SaidFits
  <2> QED  BY <1>2, <2>2, <2>3, <2>4
<1>3. ASSUME wire = "converse", NEW r, Comes(s, r), chunk = <<r, [r EXCEPT !.type = "error"]>>
      PROVE  Handled(s, server, m, h) /\ h.bad
  <2> DEFINE f == HandleEvent(m, r)
             e == [r EXCEPT !.type = "error"]
             d == HandleEvent(f.m, e)
  <2>1. Len(chunk) = 2 /\ chunk[1] = r /\ chunk[2] = e /\ chunk # <<>>
    BY <1>3
  <2>2. Handled(s, Said(s, r), m, f)
    BY <1>3, EventHandled
  <2>3. f.m \in Messages /\ Leads(f.m) /\ f.bad \in BOOLEAN
    BY <2>2 DEF Handled
  <2>4. e.type = "error"
    BY <1>3 DEF Comes, ConverseComes
  <2>5. h = IF f.bad THEN f ELSE [d EXCEPT !.out = f.out \o d.out]
    BY <2>1 DEF HandleAll
  <2> HIDE DEF e
  <2>6. d = Raises(f.m)
    BY <1>3, <2>4 DEF HandleEvent, HandleConverse
  <2> HIDE DEF f, h
  <2>7. CASE f.bad
    <3>1. h = f
      BY <2>5, <2>7
    <3> QED  BY <2>3, <2>7, <3>1 DEF Handled
  <2>8. CASE ~f.bad
    <3>1. h.m = f.m /\ h.bad = TRUE
      BY <2>5, <2>6, <2>8 DEF Raises
    <3> QED  BY <2>3, <3>1 DEF Handled
  <2> QED  BY <2>7, <2>8
<1> QED  BY <1>1, <1>2, <1>3 DEF Follows

-----------------------------------------------------------------------------
(* What is said, told and pending in one.                                  *)

Ordered(q) ==
    /\ \A i \in 1 .. Len(q) : q[i] = StartEvent <=> i = 1
    /\ \A i \in 1 .. Len(q) : q[i] \in Terminals => i = Len(q)

Unended(q) == \A i \in 1 .. Len(q) : q[i] \notin Terminals

\* The events about a block open it first and close it last.
Bracketed(q) ==
    \A n \in Nat \ {0} : \A i \in Heard(q, n) :
        /\ Opening(q[i]) <=> \A j \in Heard(q, n) : i <= j
        /\ Closing(q[i]) => \A j \in Heard(q, n) : j <= i

\* What a finish is said of is whole, and was told in full.
Justified(q, m) ==
    \A i \in 1 .. Len(q) : q[i] = FinishEv => m.stop /\ Whole(m.content) /\ Tells(m.content, q)

\* The start comes first.
Lead(q) == IF q = <<>> THEN <<StartEvent>> ELSE q

\* A sequence is its head and its tail.
LEMMA HeadAgain ==
    ASSUME NEW y \in Seq(Events), y # <<>>
    PROVE  /\ Head(y) \in Events /\ Tail(y) \in Seq(Events) /\ <<Head(y)>> \o Tail(y) = y
           /\ Len(y) \in Nat /\ Len(y) > 0 /\ Head(y) = y[1]
<1> DEFINE a == <<Head(y)>>
           t == Tail(y)
<1>1. Head(y) \in Events /\ t \in Seq(Events) /\ Len(t) = Len(y) - 1 /\ \A i \in 1 .. Len(t) : t[i] = y[i + 1]
  BY HeadTailProperties, Zenon
<1>2. Len(y) \in Nat /\ Len(y) > 0
  BY EmptySeq, LenProperties
<1>3. Head(y) = y[1]
  OBVIOUS
<1>4. a \in Seq(Events) /\ Len(a) = 1 /\ a[1] = y[1]
  BY <1>1, <1>3
<1> HIDE DEF a, t
<1>5. /\ a \o t \in Seq(Events) /\ Len(a \o t) = Len(a) + Len(t)
      /\ \A i \in 1 .. Len(a) : (a \o t)[i] = a[i]
      /\ \A i \in 1 .. Len(t) : (a \o t)[Len(a) + i] = t[i]
  <2>1. a \in Seq(Events) /\ t \in Seq(Events)
    BY <1>1, <1>4
  <2> QED  BY <2>1, Joined, Zenon
<1>6. a \o t \in Seq(Events) /\ Len(a \o t) = Len(y)
  BY <1>1, <1>2, <1>4, <1>5
<1>7. ASSUME NEW i \in 1 .. Len(y)
      PROVE  (a \o t)[i] = y[i]
  <2>1. CASE i = 1
    BY <1>4, <2>1, <1>5
  <2>2. CASE i # 1
    <3>1. i - 1 \in 1 .. Len(t) /\ i = Len(a) + (i - 1)
      BY <1>1, <1>2, <1>4, <2>2
    <3>2. (a \o t)[Len(a) + (i - 1)] = t[i - 1]
      BY <3>1, <1>5
    <3>3. t[i - 1] = y[(i - 1) + 1] /\ (i - 1) + 1 = i
      BY <1>1, <3>1
    <3> QED  BY <3>1, <3>2, <3>3
  <2> QED  BY <2>1, <2>2
<1>8. a \o t = y
  BY <1>6, <1>7, SeqEqual
<1> QED  BY <1>1, <1>2, <1>3, <1>8 DEF a, t

\* One more told, and what is pending behind it.
LEMMA ToldAndPending ==
    ASSUME NEW q \in Seq(Events), NEW e \in Events, NEW y \in Seq(Events)
    PROVE  /\ Append(q, e) \o y = q \o (<<e>> \o y) /\ Append(q, e) \in Seq(Events) /\ Append(q, e) # <<>>
           /\ <<e>> \o y \in Seq(Events) /\ <<e>> \o <<>> = <<e>>
<1> DEFINE a == <<e>>
           p == Append(q, e)
<1>1. a \in Seq(Events) /\ Len(a) = 1 /\ a[1] = e
  OBVIOUS
<1>2. p \in Seq(Events) /\ Len(p) = Len(q) + 1 /\ p[Len(q) + 1] = e /\ \A j \in 1 .. Len(q) : p[j] = q[j]
  BY AppendProperties
<1>3. Len(q) \in Nat
  BY LenProperties
<1> HIDE DEF a, p
<1>4. p = q \o a
  BY AppendIsConcat DEF a, p
<1>5. q \in Seq(Events) /\ a \in Seq(Events) /\ y \in Seq(Events)
  BY <1>1
<1>6. (q \o a) \o y = q \o (a \o y)
  BY <1>5, ConcatAssociative
<1>7. p # <<>>
  BY <1>2, <1>3
<1>8. a \o y \in Seq(Events) /\ a \o <<>> = a
  BY <1>5, Joined, ConcatEmptySeq
<1> QED  BY <1>2, <1>4, <1>6, <1>7, <1>8 DEF a, p

\* Something before the end, and the end.
LEMMA EndLast ==
    ASSUME NEW q \in Seq(Events), NEW e \in Events
    PROVE  /\ q \o <<e>> \in Seq(Events) /\ Len(q \o <<e>>) = Len(q) + 1 /\ (q \o <<e>>)[Len(q) + 1] = e
           /\ \A i \in 1 .. Len(q) : (q \o <<e>>)[i] = q[i]
           /\ \A i \in 1 .. Len(q) + 1 : i \in 1 .. Len(q) \/ i = Len(q) + 1
           /\ Len(q) \in Nat
<1> DEFINE a == <<e>>
<1>1. a \in Seq(Events) /\ Len(a) = 1 /\ a[1] = e
  OBVIOUS
<1>2. Len(q) \in Nat
  BY LenProperties
<1> HIDE DEF a
<1>3. /\ q \o a \in Seq(Events) /\ Len(q \o a) = Len(q) + 1 /\ (q \o a)[Len(q) + 1] = e
      /\ \A i \in 1 .. Len(q) : (q \o a)[i] = q[i]
  <2>1. /\ q \o a \in Seq(Events) /\ Len(q \o a) = Len(q) + Len(a)
        /\ \A i \in 1 .. Len(q) : (q \o a)[i] = q[i]
        /\ \A i \in 1 .. Len(a) : (q \o a)[Len(q) + i] = a[i]
    <3>1. a \in Seq(Events)
      BY <1>1
    <3> QED  BY <3>1, Joined, Zenon
  <2> QED  BY <1>1, <1>2, <2>1
<1> QED  BY <1>2, <1>3 DEF a

\* With the start in front, the same is told.
LEMMA LeadIs ==
    ASSUME NEW q \in Seq(Events), Ordered(q), Unended(q)
    PROVE  /\ Lead(q) \in Seq(Events) /\ Lead(q) # <<>> /\ Ordered(Lead(q)) /\ Unended(Lead(q))
           /\ Bracketed(q) => Bracketed(Lead(q))
           /\ \A c \in Seq(Blocks) : Tells(c, q) => Tells(c, Lead(q))
<1> DEFINE a == <<StartEvent>>
<1>1. /\ a \in Seq(Events) /\ Len(a) = 1 /\ a[1] = StartEvent /\ Quiet(a) /\ StartEvent \notin Terminals
      /\ \A n : Heard(a, n) = IF StartEvent.at = n THEN {1} ELSE {}
  <2>1. StartEvent \in Events /\ StartEvent.at = 0
    BY Evs
  <2>2. StartEvent \notin Terminals
    BY DEF StartEvent, Terminals, FinishEv, CancelledFinish, Failure, Ev
  <2> QED  BY <2>1, <2>2, OneEvent, NothingSaid
<1>2. a # <<>>
  OBVIOUS
<1> HIDE DEF a
<1>3. CASE q # <<>>
  BY <1>3 DEF Lead
<1>4. CASE q = <<>>
  <2>1. Lead(q) = a
    BY <1>4 DEF Lead, a
  <2>2. Ordered(a) /\ Unended(a)
    BY <1>1 DEF Ordered, Unended
  <2>3. Bracketed(a)
    BY <1>1 DEF Bracketed, Quiet, Unheard
  <2>4. ASSUME NEW c \in Seq(Blocks), Tells(c, q)
        PROVE  Tells(c, a)
    <3>1. Carries(c, a, c)
      BY <1>1, QuietCarries
    <3>2. Tells(c, <<>> \o a) /\ <<>> \o a = a
      BY <1>1, <1>4, <2>4, <3>1, EmptySeq, ConcatEmptySeq DEF Carries
    <3> QED  BY <3>2
  <2> QED  BY <1>1, <1>2, <2>1, <2>2, <2>3, <2>4
<1> QED  BY <1>3, <1>4

\* What is plain neither begins a stream nor ends it.
LEMMA PlainIs ==
    ASSUME NEW out, Plain(out)
    PROVE  \A i \in 1 .. Len(out) : out[i] # StartEvent /\ out[i] \notin Terminals
  BY DEF Plain, StartEvent, Terminals, FinishEv, CancelledFinish, Failure, Ev

\* What is plain follows.
LEMMA PlainFollows ==
    ASSUME NEW q \in Seq(Events), q # <<>>, Ordered(q), Unended(q), NEW out \in Seq(Events), Plain(out)
    PROVE  q \o out \in Seq(Events) /\ q \o out # <<>> /\ Ordered(q \o out) /\ Unended(q \o out)
<1>1. Len(q) \in Nat /\ Len(q) > 0 /\ Len(out) \in Nat
  BY EmptySeq, LenProperties
<1>2. /\ q \o out \in Seq(Events) /\ Len(q \o out) = Len(q) + Len(out)
      /\ \A i \in 1 .. Len(q) : (q \o out)[i] = q[i]
      /\ \A i \in 1 .. Len(out) : (q \o out)[Len(q) + i] = out[i]
      /\ \A i \in 1 .. Len(q) + Len(out) : i \in 1 .. Len(q) \/ i - Len(q) \in 1 .. Len(out)
  BY Joined, Zenon
<1>3. \A i \in 1 .. Len(out) : out[i] # StartEvent /\ out[i] \notin Terminals
  BY PlainIs
<1>4. ASSUME NEW i \in 1 .. Len(q \o out)
      PROVE  ((q \o out)[i] = StartEvent <=> i = 1) /\ (q \o out)[i] \notin Terminals
  <2>1. CASE i \in 1 .. Len(q)
    BY <1>2, <2>1 DEF Ordered, Unended
  <2>2. CASE i \notin 1 .. Len(q)
    <3>1. i - Len(q) \in 1 .. Len(out) /\ i = Len(q) + (i - Len(q))
      BY <1>1, <1>2, <2>2
    <3>2. (q \o out)[i] = out[i - Len(q)]
      BY <1>2, <3>1
    <3>3. i # 1
      BY <1>1, <2>2
    <3> QED  BY <1>3, <3>1, <3>2, <3>3
  <2> QED  BY <2>1, <2>2
<1>5. q \o out # <<>>
  BY <1>1, <1>2, EmptySeq
<1> QED  BY <1>2, <1>4, <1>5 DEF Ordered, Unended

\* A terminal comes last.
LEMMA TerminalFollows ==
    ASSUME NEW q \in Seq(Events), q # <<>>, Ordered(q), Unended(q), NEW e \in Terminals
    PROVE  /\ q \o <<e>> \in Seq(Events) /\ Ordered(q \o <<e>>) /\ ~Unended(q \o <<e>>)
           /\ e # FinishEv => \A i \in 1 .. Len(q \o <<e>>) : (q \o <<e>>)[i] # FinishEv
<1>1. e \in Events /\ e # StartEvent /\ FinishEv \in Terminals
  BY Evs DEF Terminals, StartEvent, FinishEv, CancelledFinish, Failure, Ev
<1>2. Len(q) \in Nat /\ Len(q) > 0
  BY EmptySeq, LenProperties
<1> DEFINE x == q \o <<e>>
<1>3. /\ x \in Seq(Events) /\ Len(x) = Len(q) + 1 /\ x[Len(q) + 1] = e
      /\ \A i \in 1 .. Len(q) : x[i] = q[i]
      /\ \A i \in 1 .. Len(q) + 1 : i \in 1 .. Len(q) \/ i = Len(q) + 1
  BY <1>1, EndLast
<1> HIDE DEF x
<1>4. \A i \in 1 .. Len(q) : x[i] \notin Terminals /\ (x[i] = StartEvent <=> i = 1)
  BY <1>3 DEF Ordered, Unended
<1>5. Ordered(x)
  BY <1>1, <1>2, <1>3, <1>4 DEF Ordered
<1>6. ~Unended(x)
  BY <1>2, <1>3 DEF Unended
<1>7. e # FinishEv => \A i \in 1 .. Len(x) : x[i] # FinishEv
  BY <1>1, <1>3, <1>4
<1> QED  BY <1>3, <1>5, <1>6, <1>7 DEF x

\* What is told of blocks is bracketed.
LEMMA ToldIsBracketed ==
    ASSUME NEW c \in Seq(Blocks), NEW q \in Seq(Events), Tells(c, q)
    PROVE  Bracketed(q)
<1>1. ASSUME NEW n \in Nat \ {0}, NEW i \in Heard(q, n)
      PROVE  /\ Opening(q[i]) <=> \A j \in Heard(q, n) : i <= j
             /\ Closing(q[i]) => \A j \in Heard(q, n) : j <= i
  <2>1. Heard(q, n) \subseteq Nat
    BY HeardWithin
  <2>2. CASE Unheard(q, n)
    BY <1>1, <2>2 DEF Unheard
  <2>3. ASSUME NEW k, Speaking(q, n, k)
        PROVE  /\ Opening(q[i]) <=> \A j \in Heard(q, n) : i <= j
               /\ Closing(q[i]) => \A j \in Heard(q, n) : j <= i
    <3>1. PICK f \in Heard(q, n) : \A j \in Heard(q, n) : f <= j /\ (Opening(q[j]) <=> j = f) /\ ~Closing(q[j])
      BY <2>3 DEF Speaking
    <3> QED  BY <2>1, <3>1
  <2>4. ASSUME NEW k, NEW end, Spoken(q, n, k, end)
        PROVE  /\ Opening(q[i]) <=> \A j \in Heard(q, n) : i <= j
               /\ Closing(q[i]) => \A j \in Heard(q, n) : j <= i
    <3>1. \E f, l \in Heard(q, n) :
             \A j \in Heard(q, n) : /\ f <= j /\ j <= l
                                    /\ Opening(q[j]) <=> j = f
                                    /\ Closing(q[j]) => j = l
      BY <2>4 DEF Spoken
    <3>2. PICK f \in Heard(q, n), l \in Heard(q, n) :
             \A j \in Heard(q, n) : /\ f <= j /\ j <= l
                                    /\ Opening(q[j]) <=> j = f
                                    /\ Closing(q[j]) => j = l
      BY <3>1
    <3> QED  BY <2>1, <3>2
  <2>5. CASE n \in 1 .. Len(c)
    <3>1. Narrates(c[n], q, n)
      BY <1>1, <2>5 DEF Tells
    <3> QED  BY <2>2, <2>3, <2>4, <3>1 DEF Narrates
  <2>6. CASE n \notin 1 .. Len(c)
    <3>1. Unheard(q, n)
      BY <1>1, <2>6 DEF Tells
    <3> QED  BY <2>2, <3>1
  <2> QED  BY <2>5, <2>6
<1> QED  BY <1>1 DEF Bracketed

\* What is about no block leaves the brackets alone.
LEMMA QuietIsBracketed ==
    ASSUME NEW q \in Seq(Events), Bracketed(q), NEW out \in Seq(Events), Quiet(out)
    PROVE  Bracketed(q \o out)
<1>1. ASSUME NEW n \in Nat \ {0}, NEW i \in Heard(q \o out, n)
      PROVE  /\ Opening((q \o out)[i]) <=> \A j \in Heard(q \o out, n) : i <= j
             /\ Closing((q \o out)[i]) => \A j \in Heard(q \o out, n) : j <= i
  <2>1. Unheard(out, n)
    BY <1>1 DEF Quiet
  <2>2. /\ \A j : j \in Heard(q \o out, n) <=> j \in Heard(q, n)
        /\ \A j \in Heard(q, n) : (q \o out)[j] = q[j]
    BY <2>1, HeardFirst
  <2>3. i \in Heard(q, n) /\ (q \o out)[i] = q[i]
    BY <1>1, <2>2
  <2>4. /\ Opening(q[i]) <=> \A j \in Heard(q, n) : i <= j
        /\ Closing(q[i]) => \A j \in Heard(q, n) : j <= i
    BY <1>1, <2>3 DEF Bracketed
  <2> QED  BY <2>2, <2>3, <2>4
<1> QED  BY <1>1 DEF Bracketed

\* No terminal in the whole: none in the parts.
LEMMA UnendedJoined ==
    ASSUME NEW q \in Seq(Events), NEW y \in Seq(Events)
    PROVE  Unended(q \o y) <=> Unended(q) /\ Unended(y)
<1>1. Len(q) \in Nat /\ Len(y) \in Nat
  BY LenProperties
<1>2. /\ Len(q \o y) = Len(q) + Len(y)
      /\ \A i \in 1 .. Len(q) : (q \o y)[i] = q[i]
      /\ \A i \in 1 .. Len(y) : (q \o y)[Len(q) + i] = y[i]
      /\ \A i \in 1 .. Len(q) + Len(y) : i \in 1 .. Len(q) \/ i - Len(q) \in 1 .. Len(y)
  BY Joined, Zenon
<1>3. ASSUME Unended(q \o y)
      PROVE  Unended(q) /\ Unended(y)
  <2>1. \A i \in 1 .. Len(q) : i \in 1 .. Len(q) + Len(y)
    BY <1>1
  <2>2. \A i \in 1 .. Len(y) : Len(q) + i \in 1 .. Len(q) + Len(y)
    BY <1>1
  <2> QED  BY <1>2, <1>3, <2>1, <2>2 DEF Unended
<1>4. ASSUME Unended(q), Unended(y), NEW i \in 1 .. Len(q) + Len(y)
      PROVE  (q \o y)[i] \notin Terminals
  <2>1. CASE i \in 1 .. Len(q)
    BY <1>2, <1>4, <2>1 DEF Unended
  <2>2. CASE i \notin 1 .. Len(q)
    <3>1. i - Len(q) \in 1 .. Len(y) /\ i = Len(q) + (i - Len(q))
      BY <1>1, <1>2, <2>2
    <3>2. (q \o y)[i] = y[i - Len(q)]
      BY <1>2, <3>1
    <3> QED  BY <1>4, <3>1, <3>2 DEF Unended
  <2> QED  BY <2>1, <2>2
<1>5. Unended(q) /\ Unended(y) => Unended(q \o y)
  BY <1>2, <1>4 DEF Unended
<1> QED  BY <1>3, <1>5

-----------------------------------------------------------------------------
(* The invariant.                                                          *)

Synced(s, m, q) ==
    /\ s \in Servers /\ (s.open # 0 => s.blocks[s.open] # "none")
    /\ InStep(s, m) /\ Tells(m.content, q) /\ (Unbegun(s, m) => q = <<>>)

Speech == told \o pending

GoesOn == stage # "exited" /\ ~finished /\ consumer # "raised"

InSync == Synced(server, msg, Speech)
HasChunk == \E s \in Servers : Synced(s, msg, Speech) /\ Follows(s)
HasEnd == \E s \in Servers : Synced(s, msg, Speech)

\* While the stream goes on, what was said tells the message, and the message
\* is in step with the provider, or with where it was before the chunk in hand.
ReadInv ==
    GoesOn =>
        IF stage # "open" \/ reading \in {"none", "running"} THEN InSync
        ELSE (reading = "chunk" => HasChunk) /\ (reading = "end" => HasEnd)

StreamTypes ==
    /\ wire \in {"messages", "chat", "responses", "converse"}
    /\ reading \in {"none", "running", "chunk", "end", "failed", "cancelled"}
    /\ stage \in {"new", "opening", "open", "exited"}
    /\ consumer \in {"idle", "pulling", "looping", "raised", "over"}
    /\ response \in {"none", "open", "closed"}
    /\ msg \in Messages /\ Leads(msg)
    /\ server \in Servers
    /\ told \in Seq(Events) /\ pending \in Seq(Events) /\ finished \in BOOLEAN

\* A pull has nothing left to hand out; nobody reads but a pull.
PullInv ==
    /\ consumer \in {"pulling", "looping"} => stage = "open" /\ pending = <<>> /\ ~finished
    /\ stage \in {"new", "opening"} => consumer = "idle" /\ told = <<>>
    /\ stage = "open" /\ consumer # "pulling" => reading = "none"
    /\ consumer = "over" => pending = <<>> /\ finished
    /\ stage = "new" => reading = "none"

\* Begun once and ended once, each block in order, and no finish said too soon.
SpeechInv ==
    /\ told = <<>> => pending = <<>>
    /\ Ordered(Speech) /\ (finished <=> ~Unended(Speech))
    /\ Bracketed(Speech) /\ Justified(Speech, msg)

StreamInv == StreamTypes /\ PullInv /\ SpeechInv /\ ReadInv /\ NothingLeaks

-----------------------------------------------------------------------------
(* What a pull answers.                                                    *)

\* What is answered goes behind what was told, and the start before it.
LEMMA AnswersGoOn ==
    ASSUME told \in Seq(Events), pending = <<>>, finished = FALSE, NEW z \in Seq(Events),
           \A i \in 1 .. Len(z) : z[i] # StartEvent, NEW out,
           (out = z /\ z # <<>>) \/ (out = <<StartEvent>> \o z /\ told = <<>>),
           Answers(Head(out), Tail(out))
    PROVE  /\ Speech' = Lead(told) \o z /\ (finished' <=> ~Unended(z)) /\ finished' \in BOOLEAN
           /\ told' \in Seq(Events) /\ told' # <<>> /\ pending' \in Seq(Events) /\ consumer' = "idle"
<1> DEFINE a == <<StartEvent>>
           e == Head(out)
           y == Tail(out)
<1>1. /\ a \in Seq(Events) /\ Len(a) = 1 /\ a[1] = StartEvent /\ StartEvent \in Events
      /\ StartEvent \notin Terminals /\ a # <<>>
  <2>1. StartEvent \in Events
    BY Evs
  <2>2. StartEvent \notin Terminals
    BY DEF StartEvent, Terminals, FinishEv, CancelledFinish, Failure, Ev
  <2> QED  BY <2>1, <2>2
<1>2. Unended(a)
  BY <1>1 DEF Unended
<1> HIDE DEF a
<1>3. /\ a \o z \in Seq(Events) /\ a \o z # <<>> /\ (a \o z)[1] = StartEvent /\ (Unended(a \o z) <=> Unended(z))
  <2>1. a \o z \in Seq(Events) /\ Len(a \o z) = Len(a) + Len(z) /\ Len(z) \in Nat
    BY <1>1, Joined, LenProperties
  <2>2. (a \o z)[1] = a[1]
    BY <1>1, Joined
  <2>3. Unended(a \o z) <=> Unended(z)
    BY <1>1, <1>2, UnendedJoined
  <2>4. Len(a \o z) # 0
    BY <1>1, <2>1
  <2> QED  BY <1>1, <2>1, <2>2, <2>3, <2>4, EmptySeq
<1>4. (out = z /\ z # <<>>) \/ (out = a \o z /\ told = <<>>)
  BY DEF a
<1>5. out \in Seq(Events) /\ out # <<>> /\ (Unended(out) <=> Unended(z))
  BY <1>3, <1>4
<1>6. /\ e \in Events /\ y \in Seq(Events) /\ <<e>> \o y = out /\ e = out[1]
      /\ Len(y) \in Nat /\ DOMAIN y = 1 .. Len(y) /\ 1 \in 1 .. Len(out)
  <2>1. e \in Events /\ y \in Seq(Events) /\ <<e>> \o y = out /\ e = out[1] /\ Len(out) \in Nat /\ Len(out) > 0
    BY <1>5, HeadAgain
  <2>2. Len(y) \in Nat /\ DOMAIN y = 1 .. Len(y)
    BY <2>1, LenProperties
  <2> HIDE DEF e, y
  <2> QED  BY <2>1, <2>2
<1>7. /\ IF told = <<>> /\ e # StartEvent THEN told' = a /\ pending' = <<e>> \o y
         ELSE told' = Append(told, e) /\ pending' = y
      /\ finished' = (e \in Terminals \/ \E i \in DOMAIN y : y[i] \in Terminals)
      /\ consumer' = "idle"
  BY DEF Answers, Emit, a
<1> HIDE DEF e, y
<1>8. finished' <=> ~Unended(z)
  <2>1. Unended(<<e>>) <=> e \notin Terminals
    BY DEF Unended
  <2>2. <<e>> \in Seq(Events)
    BY <1>6
  <2>3. Unended(<<e>> \o y) <=> Unended(<<e>>) /\ Unended(y)
    BY <1>6, <2>2, UnendedJoined
  <2>4. Unended(y) <=> ~\E i \in DOMAIN y : y[i] \in Terminals
    BY <1>6 DEF Unended
  <2> QED  BY <1>5, <1>6, <1>7, <2>1, <2>3, <2>4
<1>9. CASE told = <<>> /\ e # StartEvent
  <2>1. out = z
    BY <1>3, <1>4, <1>6, <1>9
  <2>2. told' = a /\ pending' = z
    BY <1>6, <1>7, <1>9, <2>1
  <2>3. Lead(told) = a
    BY <1>9 DEF Lead, a
  <2>4. Speech' = a \o z
    BY <2>2 DEF Speech
  <2> QED  BY <1>1, <1>7, <1>8, <2>2, <2>3, <2>4
<1>10. CASE ~(told = <<>> /\ e # StartEvent)
  <2>1. told' = Append(told, e) /\ pending' = y
    BY <1>7, <1>10
  <2>2. Append(told, e) \o y = told \o (<<e>> \o y) /\ told' \in Seq(Events) /\ told' # <<>>
    BY <1>6, <2>1, ToldAndPending
  <2>3. Speech' = told \o out
    BY <1>6, <2>1, <2>2 DEF Speech
  <2>4. CASE told # <<>>
    <3>1. out = z /\ Lead(told) = told
      BY <1>4, <2>4 DEF Lead
    <3> QED  BY <1>6, <1>7, <1>8, <2>1, <2>2, <2>3, <3>1
  <2>5. CASE told = <<>>
    <3>1. out # z
      BY <1>6, <1>10, <2>5
    <3>2. out = a \o z
      BY <1>4, <3>1
    <3>3. Lead(told) = a
      BY <2>5 DEF Lead, a
    <3>4. told \o out = out
      BY <1>5, <2>5, ConcatEmptySeq
    <3> QED  BY <1>6, <1>7, <1>8, <2>1, <2>2, <2>3, <3>2, <3>3, <3>4
  <2> QED  BY <2>4, <2>5
<1> QED  BY <1>9, <1>10

\* The message is carried on, and the stream goes on.
LEMMA TellsOn ==
    ASSUME told \in Seq(Events), pending = <<>>, finished = FALSE, Ordered(told), Unended(told),
           NEW c \in Seq(Blocks), Tells(c, told), msg' \in Messages,
           NEW body \in Seq(Events), Plain(body), Carries(c, body, msg'.content), NEW out,
           (out = body /\ body # <<>>) \/ (out = <<StartEvent>> \o body /\ told = <<>>),
           Answers(Head(out), Tail(out))
    PROVE  /\ SpeechInv' /\ Tells(msg'.content, Speech') /\ finished' = FALSE /\ consumer' = "idle"
           /\ told' \in Seq(Events) /\ told' # <<>> /\ pending' \in Seq(Events)
<1>1. \A i \in 1 .. Len(body) : body[i] # StartEvent /\ body[i] \notin Terminals
  BY PlainIs
<1>2. /\ Speech' = Lead(told) \o body /\ (finished' <=> ~Unended(body)) /\ finished' \in BOOLEAN
      /\ told' \in Seq(Events) /\ told' # <<>> /\ pending' \in Seq(Events) /\ consumer' = "idle"
  BY <1>1, AnswersGoOn
<1>3. finished' = FALSE
  BY <1>1, <1>2 DEF Unended
<1> DEFINE l == Lead(told)
           q == l \o body
<1>4. l \in Seq(Events) /\ l # <<>> /\ Ordered(l) /\ Unended(l) /\ Tells(c, l)
  BY LeadIs
<1> HIDE DEF l
<1>5. q \in Seq(Events) /\ Ordered(q) /\ Unended(q)
  BY <1>4, PlainFollows
<1>6. Tells(msg'.content, q)
  BY <1>4 DEF Carries
<1> HIDE DEF q
<1>7. msg'.content \in Seq(Blocks)
  BY DEF Messages
<1>8. Bracketed(q)
  BY <1>5, <1>6, <1>7, ToldIsBracketed
<1>9. Justified(q, msg')
  BY <1>5 DEF Justified, Unended, Terminals
<1>10. Speech' = q
  BY <1>2 DEF q, l
<1>11. SpeechInv'
  BY <1>2, <1>3, <1>5, <1>8, <1>9, <1>10 DEF SpeechInv
<1> QED  BY <1>2, <1>3, <1>6, <1>10, <1>11

\* A terminal behind a sequence that is in order.
LEMMA EndsWell ==
    ASSUME NEW q \in Seq(Events), q # <<>>, Ordered(q), Unended(q), Bracketed(q), NEW e \in Terminals, NEW m,
           m.content \in Seq(Blocks), e = FinishEv => m.stop /\ Whole(m.content) /\ Tells(m.content, q)
    PROVE  /\ q \o <<e>> \in Seq(Events) /\ Ordered(q \o <<e>>) /\ ~Unended(q \o <<e>>)
           /\ Bracketed(q \o <<e>>) /\ Justified(q \o <<e>>, m)
<1> DEFINE a == <<e>>
           x == q \o a
<1>1. e \in Events /\ e.at = 0
  BY Evs DEF Terminals
<1>2. a \in Seq(Events) /\ Quiet(a)
  BY <1>1, NothingSaid
<1>3. x \in Seq(Events) /\ Ordered(x) /\ ~Unended(x) /\ (e # FinishEv => \A i \in 1 .. Len(x) : x[i] # FinishEv)
  BY TerminalFollows
<1> HIDE DEF a
<1>4. Bracketed(x)
  BY <1>2, QuietIsBracketed
<1>5. ASSUME e = FinishEv
      PROVE  m.stop /\ Whole(m.content) /\ Tells(m.content, x)
  <2>1. Carries(m.content, a, m.content)
    BY <1>2, QuietCarries
  <2>2. Tells(m.content, x)
    BY <1>5, <2>1 DEF Carries
  <2> QED  BY <1>5, <2>2
<1> HIDE DEF x
<1>6. Justified(x, m)
  BY <1>3, <1>5 DEF Justified
<1> QED  BY <1>3, <1>4, <1>6 DEF x, a

\* The message is carried to its end.
LEMMA FinishesOn ==
    ASSUME told \in Seq(Events), pending = <<>>, finished = FALSE, Ordered(told), Unended(told),
           NEW c \in Seq(Blocks), Tells(c, told), msg' \in Messages, msg'.stop, Whole(msg'.content),
           NEW body \in Seq(Events), Plain(body), Carries(c, body, msg'.content), NEW out,
           out = body \o <<FinishEv>> \/ (out = <<StartEvent>> \o (body \o <<FinishEv>>) /\ told = <<>>),
           Answers(Head(out), Tail(out))
    PROVE  /\ SpeechInv' /\ finished' = TRUE /\ consumer' = "idle"
           /\ told' \in Seq(Events) /\ told' # <<>> /\ pending' \in Seq(Events)
<1> DEFINE a == <<FinishEv>>
           z == body \o a
<1>1. FinishEv \in Events /\ FinishEv \in Terminals /\ FinishEv # StartEvent
  BY Evs DEF Terminals, StartEvent, FinishEv, Ev
<1>2. /\ z \in Seq(Events) /\ Len(z) = Len(body) + 1 /\ z[Len(body) + 1] = FinishEv /\ Len(body) \in Nat
      /\ \A i \in 1 .. Len(body) : z[i] = body[i]
      /\ \A i \in 1 .. Len(body) + 1 : i \in 1 .. Len(body) \/ i = Len(body) + 1
  BY <1>1, EndLast
<1>3. a \in Seq(Events)
  BY <1>1
<1>4. out = z \/ (out = <<StartEvent>> \o z /\ told = <<>>)
  OBVIOUS
<1> HIDE DEF a, z
<1>5. \A i \in 1 .. Len(body) : body[i] # StartEvent
  BY PlainIs
<1>6. \A i \in 1 .. Len(z) : z[i] # StartEvent
  BY <1>1, <1>2, <1>5
<1>7. z # <<>>
  BY <1>2, EmptySeq
<1>8. /\ Speech' = Lead(told) \o z /\ (finished' <=> ~Unended(z)) /\ finished' \in BOOLEAN
      /\ told' \in Seq(Events) /\ told' # <<>> /\ pending' \in Seq(Events) /\ consumer' = "idle"
  BY <1>2, <1>4, <1>6, <1>7, AnswersGoOn
<1>9. finished' = TRUE
  <2>1. Len(body) + 1 \in 1 .. Len(z)
    BY <1>2
  <2> QED  BY <1>1, <1>2, <1>8, <2>1 DEF Unended
<1> DEFINE l == Lead(told)
           q == l \o body
<1>10. l \in Seq(Events) /\ l # <<>> /\ Ordered(l) /\ Unended(l) /\ Tells(c, l)
  BY LeadIs
<1> HIDE DEF l
<1>11. q \in Seq(Events) /\ q # <<>> /\ Ordered(q) /\ Unended(q)
  BY <1>10, PlainFollows
<1>12. Tells(msg'.content, q)
  BY <1>10 DEF Carries
<1>13. l \o z = q \o a
  <2>1. l \in Seq(Events) /\ body \in Seq(Events) /\ a \in Seq(Events)
    BY <1>3, <1>10
  <2>2. (l \o body) \o a = l \o (body \o a)
    BY <2>1, ConcatAssociative
  <2> QED  BY <2>2 DEF z
<1> HIDE DEF q
<1>14. msg'.content \in Seq(Blocks)
  BY DEF Messages
<1>15. Bracketed(q)
  BY <1>11, <1>12, <1>14, ToldIsBracketed
<1>16. /\ q \o <<FinishEv>> \in Seq(Events) /\ Ordered(q \o <<FinishEv>>) /\ ~Unended(q \o <<FinishEv>>)
       /\ Bracketed(q \o <<FinishEv>>) /\ Justified(q \o <<FinishEv>>, msg')
  BY <1>1, <1>11, <1>12, <1>14, <1>15, EndsWell
<1>17. Speech' = q \o <<FinishEv>>
  BY <1>8, <1>13 DEF l, a
<1>18. SpeechInv'
  BY <1>8, <1>9, <1>16, <1>17 DEF SpeechInv
<1> QED  BY <1>8, <1>9, <1>18

\* The stream is ended, by whatever ends it.
LEMMA StopsOn ==
    ASSUME told \in Seq(Events), pending = <<>>, finished = FALSE, Ordered(told), Unended(told), Bracketed(told),
           msg' \in Messages, NEW e \in Terminals,
           e = FinishEv => msg'.stop /\ Whole(msg'.content) /\ Tells(msg'.content, told),
           Answers(e, <<>>)
    PROVE  /\ SpeechInv' /\ finished' = TRUE /\ consumer' = "idle"
           /\ told' \in Seq(Events) /\ told' # <<>> /\ pending' \in Seq(Events)
<1> DEFINE z == <<e>>
<1>1. e \in Events /\ e # StartEvent
  BY Evs DEF Terminals, StartEvent, FinishEv, CancelledFinish, Failure, Ev
<1>2. z \in Seq(Events) /\ Len(z) = 1 /\ z[1] = e /\ Head(z) = e /\ Tail(z) = <<>> /\ z # <<>>
  BY <1>1
<1> HIDE DEF z
<1>3. Answers(Head(z), Tail(z))
  BY <1>2
<1>4. \A i \in 1 .. Len(z) : z[i] # StartEvent
  BY <1>1, <1>2
<1>5. /\ Speech' = Lead(told) \o z /\ (finished' <=> ~Unended(z)) /\ finished' \in BOOLEAN
      /\ told' \in Seq(Events) /\ told' # <<>> /\ pending' \in Seq(Events) /\ consumer' = "idle"
  BY <1>2, <1>3, <1>4, AnswersGoOn
<1>6. finished' = TRUE
  <2>1. ~Unended(z)
    BY <1>2 DEF Unended
  <2> QED  BY <1>5, <2>1
<1> DEFINE l == Lead(told)
<1>7. l \in Seq(Events) /\ l # <<>> /\ Ordered(l) /\ Unended(l) /\ Bracketed(l)
  BY LeadIs
<1>8. msg'.content \in Seq(Blocks)
  BY DEF Messages
<1>9. e = FinishEv => msg'.stop /\ Whole(msg'.content) /\ Tells(msg'.content, l)
  BY <1>8, LeadIs
<1> HIDE DEF l
<1>10. /\ l \o <<e>> \in Seq(Events) /\ Ordered(l \o <<e>>) /\ ~Unended(l \o <<e>>)
       /\ Bracketed(l \o <<e>>) /\ Justified(l \o <<e>>, msg')
  BY <1>7, <1>8, <1>9, EndsWell
<1>11. Speech' = l \o <<e>>
  BY <1>5 DEF l, z
<1>12. SpeechInv'
  BY <1>5, <1>6, <1>10, <1>11 DEF SpeechInv
<1> QED  BY <1>5, <1>6, <1>12

-----------------------------------------------------------------------------
(* The steps.                                                              *)

\* What is neither read nor said stays in sync.
LEMMA SyncKept ==
    ASSUME UNCHANGED <<wire, msg, server, chunk, told, pending>>
    PROVE  (InSync' <=> InSync) /\ (HasChunk' <=> HasChunk) /\ (HasEnd' <=> HasEnd)
<1>1. Speech' = Speech
  BY DEF Speech
<1>2. \A s : InStep(s, msg)' <=> InStep(s, msg)
  BY DEF InStep
<1>3. \A s : Unbegun(s, msg)' <=> Unbegun(s, msg)
  BY DEF Unbegun
<1>4. \A s : Synced(s, msg, Speech)' <=> Synced(s, msg, Speech)
  BY <1>1, <1>2, <1>3 DEF Synced
<1>5. \A s, r : Comes(s, r)' <=> Comes(s, r)
  BY DEF Comes
<1>6. \A s : Follows(s)' <=> Follows(s)
  <2>1. \A s, r : Said(s, r)' = Said(s, r)
    BY DEF Said
  <2> QED  BY <1>5, <2>1 DEF Follows
<1>7. InSync' <=> InSync
  BY <1>1, <1>2, <1>3 DEF InSync, Synced, InStep, Unbegun
<1> QED  BY <1>4, <1>6, <1>7 DEF HasChunk, HasEnd

\* What says nothing leaves what was said in order.
LEMMA SpeechKept ==
    ASSUME SpeechInv, UNCHANGED <<msg, told, pending, finished>>
    PROVE  SpeechInv'
<1>1. Speech' = Speech
  BY DEF Speech
<1> QED  BY <1>1 DEF SpeechInv

\* Steps that say nothing and bring nothing of the provider.
LEMMA QuietStep ==
    ASSUME StreamInv, UNCHANGED <<wire, msg, server, chunk, told, pending, finished>>, StreamTypes', PullInv', NothingLeaks',
           GoesOn' => GoesOn,
           GoesOn' => \/ (stage # "open" \/ reading \in {"none", "running"}) /\ (stage # "open" \/ reading \in {"none", "running"})'
                      \/ reading' \notin {"none", "running", "chunk", "end"} /\ stage' = "open"
                      \/ reading' = reading /\ stage' = stage
    PROVE  StreamInv'
<1>1. (InSync' <=> InSync) /\ (HasChunk' <=> HasChunk) /\ (HasEnd' <=> HasEnd)
  BY SyncKept
<1>2. SpeechInv'
  BY SpeechKept DEF StreamInv
<1>3. ReadInv'
  BY <1>1 DEF StreamInv, ReadInv
<1> QED  BY <1>2, <1>3 DEF StreamInv

\* Entering.
LEMMA EnterSteps ==
    ASSUME StreamInv, EnterStream \/ Opened(TRUE) \/ Opened(FALSE) \/ Entered
    PROVE  StreamInv'
<1> USE DEF StreamInv, StreamTypes, PullInv, NothingLeaks, GoesOn, talk, flags, life
<1>1. CASE EnterStream
  BY <1>1, QuietStep DEF EnterStream
<1>2. CASE Opened(TRUE) \/ Opened(FALSE)
  BY <1>2, QuietStep DEF Opened
<1>3. CASE Entered
  BY <1>3, QuietStep DEF Entered
<1> QED  BY <1>1, <1>2, <1>3

\* What comes from outside, and leaving.
LEMMA OutsideSteps ==
    ASSUME StreamInv, Expire \/ Cancel \/ Interrupt \/ Exit \/ PullOver
    PROVE  StreamInv'
<1> USE DEF StreamInv, StreamTypes, PullInv, NothingLeaks, GoesOn, talk, flags, life
<1>1. CASE Expire
  BY <1>1, QuietStep DEF Expire, Abort
<1>2. CASE Cancel
  BY <1>2, QuietStep DEF Cancel, Abort
<1>3. CASE Interrupt
  BY <1>3, QuietStep DEF Interrupt, Abort
<1>4. CASE Exit
  BY <1>4, QuietStep DEF Exit
<1>5. CASE PullOver
  BY <1>5, QuietStep DEF PullOver
<1> QED  BY <1>1, <1>2, <1>3, <1>4, <1>5

\* A pull that may answer: nothing is pending, and what was told is in order.
LEMMA Answerable ==
    ASSUME StreamInv, stage = "open", pending = <<>>, ~finished
    PROVE  /\ told \in Seq(Events) /\ finished = FALSE /\ Speech = told /\ Ordered(told) /\ Unended(told)
           /\ Bracketed(told) /\ msg \in Messages /\ Leads(msg) /\ msg.content \in Seq(Blocks)
<1>1. told \in Seq(Events) /\ finished = FALSE /\ msg \in Messages /\ Leads(msg)
  BY DEF StreamInv, StreamTypes
<1>2. Speech = told
  BY <1>1, ConcatEmptySeq DEF Speech
<1>3. Ordered(Speech) /\ Unended(Speech) /\ Bracketed(Speech)
  BY DEF StreamInv, SpeechInv
<1>4. msg.content \in Seq(Blocks)
  BY <1>1 DEF Messages
<1> QED  BY <1>1, <1>2, <1>3, <1>4

\* A pull that ends the stream.
LEMMA StopStep ==
    ASSUME StreamInv, stage = "open", pending = <<>>, ~finished, NEW e \in Terminals, Answers(e, <<>>),
           msg' \in Messages, Leads(msg'), e = FinishEv => msg'.stop /\ Whole(msg'.content) /\ Tells(msg'.content, told),
           reading' = "none", UNCHANGED <<wire, server, stage, response>>
    PROVE  StreamInv'
<1>1. /\ told \in Seq(Events) /\ finished = FALSE /\ Ordered(told) /\ Unended(told) /\ Bracketed(told)
  BY Answerable
<1>2. /\ SpeechInv' /\ finished' = TRUE /\ consumer' = "idle"
      /\ told' \in Seq(Events) /\ told' # <<>> /\ pending' \in Seq(Events)
  BY <1>1, StopsOn
<1>3. StreamTypes'
  BY <1>2 DEF StreamInv, StreamTypes
<1>4. PullInv'
  BY <1>2 DEF PullInv
<1>5. ReadInv'
  BY <1>2 DEF ReadInv, GoesOn
<1>6. NothingLeaks'
  BY DEF NothingLeaks
<1> QED  BY <1>2, <1>3, <1>4, <1>5, <1>6 DEF StreamInv

\* The ways a stream is ended that give no finish.
LEMMA BadEnds ==
    /\ Failure \in Terminals /\ CancelledFinish \in Terminals /\ FinishEv \in Terminals
    /\ Failure # FinishEv /\ CancelledFinish # FinishEv
BY DEF Terminals, Failure, CancelledFinish, FinishEv, Ev

\* What is pending is handed out: nothing more is said.
LEMMA PendingStep ==
    ASSUME StreamInv, PullPending
    PROVE  StreamInv'
<1> DEFINE e == Head(pending)
           y == Tail(pending)
<1>1. /\ stage = "open" /\ consumer = "idle" /\ pending # <<>>
      /\ Answers(e, y)
      /\ UNCHANGED <<wire, msg, server, reading, chunk, stage, response>>
  BY DEF PullPending
<1>2. told \in Seq(Events) /\ pending \in Seq(Events) /\ told # <<>> /\ reading = "none"
  BY <1>1 DEF StreamInv, StreamTypes, SpeechInv, PullInv
<1>3. /\ e \in Events /\ y \in Seq(Events) /\ <<e>> \o y = pending /\ DOMAIN y = 1 .. Len(y)
  <2>1. e \in Events /\ y \in Seq(Events) /\ <<e>> \o y = pending
    BY <1>1, <1>2, HeadAgain
  <2> HIDE DEF e, y
  <2>2. DOMAIN y = 1 .. Len(y)
    BY <2>1, LenProperties
  <2> QED  BY <2>1, <2>2
<1> HIDE DEF e, y
<1>4. /\ told' = Append(told, e) /\ pending' = y /\ consumer' = "idle"
      /\ finished' = (finished \/ e \in Terminals \/ \E i \in DOMAIN y : y[i] \in Terminals)
  BY <1>1, <1>2 DEF Answers, Emit
<1>5. /\ Append(told, e) \o y = told \o pending /\ told' \in Seq(Events) /\ told' # <<>>
  BY <1>2, <1>3, <1>4, ToldAndPending
<1>6. Speech' = Speech
  BY <1>4, <1>5 DEF Speech
<1>7. finished' = finished
  <2>1. e \in Terminals \/ (\E i \in DOMAIN y : y[i] \in Terminals) => finished
    <3>1. Unended(pending) <=> Unended(<<e>>) /\ Unended(y)
      <4>1. <<e>> \in Seq(Events)
        BY <1>3
      <4> QED  BY <1>3, <4>1, UnendedJoined
    <3>2. Unended(Speech) <=> Unended(told) /\ Unended(pending)
      BY <1>2, UnendedJoined DEF Speech
    <3>3. Unended(<<e>>) => e \notin Terminals
      BY DEF Unended
    <3>4. Unended(y) => \A i \in DOMAIN y : y[i] \notin Terminals
      BY <1>3 DEF Unended
    <3>5. finished <=> ~Unended(Speech)
      BY DEF StreamInv, SpeechInv
    <3> QED  BY <3>1, <3>2, <3>3, <3>4, <3>5
  <2>2. finished \in BOOLEAN
    BY DEF StreamInv, StreamTypes
  <2> QED  BY <1>4, <2>1, <2>2
<1>8. SpeechInv'
  BY <1>1, <1>5, <1>6, <1>7 DEF StreamInv, SpeechInv
<1>9. StreamTypes'
  BY <1>1, <1>3, <1>4, <1>5, <1>7 DEF StreamInv, StreamTypes
<1>10. PullInv'
  BY <1>1, <1>2, <1>4 DEF PullInv
<1>11. ReadInv'
  <2>1. InSync' <=> InSync
    BY <1>1, <1>6 DEF InSync, Synced, InStep, Unbegun
  <2>2. GoesOn' => GoesOn
    BY <1>1, <1>4, <1>7 DEF GoesOn
  <2> QED  BY <1>1, <1>2, <2>1, <2>2 DEF StreamInv, ReadInv
<1>12. NothingLeaks'
  BY <1>1 DEF NothingLeaks
<1> QED  BY <1>8, <1>9, <1>10, <1>11, <1>12 DEF StreamInv

\* Before a read the flags are looked at.
LEMMA ReadsStep ==
    ASSUME StreamInv, PullReads
    PROVE  StreamInv'
<1>1. /\ stage = "open" /\ pending = <<>> /\ ~finished /\ reading = "none"
      /\ consumer \in {"idle", "looping"}
  BY DEF StreamInv, PullInv, PullReads
<1>2. UNCHANGED <<wire, msg, server, chunk, stage, response, cancelled, expired, interrupted>>
  BY DEF PullReads
<1>3. msg \in Messages /\ Leads(msg)
  BY <1>1, Answerable
<1>4. CASE expired
  <2>1. Answers(Failure, <<>>) /\ reading' = reading
    BY <1>4 DEF PullReads
  <2> QED  BY <1>1, <1>2, <1>3, <2>1, BadEnds, StopStep
<1>5. CASE ~expired /\ cancelled
  <2>1. Answers(CancelledFinish, <<>>) /\ reading' = reading
    BY <1>5 DEF PullReads
  <2> QED  BY <1>1, <1>2, <1>3, <2>1, BadEnds, StopStep
<1>6. CASE ~expired /\ ~cancelled
  <2>1. consumer' = "pulling" /\ reading' = "running" /\ UNCHANGED <<told, pending, finished>>
    BY <1>6 DEF PullReads, talk
  <2>2. StreamTypes'
    BY <1>2, <2>1 DEF StreamInv, StreamTypes
  <2>3. PullInv'
    BY <1>1, <1>2, <2>1 DEF PullInv
  <2>4. NothingLeaks'
    BY <1>1, <1>2 DEF NothingLeaks
  <2>5. GoesOn' => GoesOn
    BY <1>1, <1>2, <2>1 DEF GoesOn
  <2> QED  BY <1>1, <1>2, <2>1, <2>2, <2>3, <2>4, <2>5, QuietStep
<1> QED  BY <1>4, <1>5, <1>6

\* What a resumed pull finds.
LEMMA ResumingIs ==
    ASSUME StreamInv, Resuming
    PROVE  /\ stage = "open" /\ consumer = "pulling" /\ reading # "running" /\ pending = <<>> /\ ~finished /\ GoesOn
           /\ Speech = told /\ told \in Seq(Events) /\ finished = FALSE /\ Ordered(told) /\ Unended(told)
           /\ Bracketed(told) /\ msg \in Messages /\ Leads(msg) /\ msg.content \in Seq(Blocks)
           /\ wire \in {"messages", "chat", "responses", "converse"}
<1>1. /\ stage = "open" /\ consumer = "pulling" /\ reading # "running" /\ pending = <<>> /\ ~finished
  BY DEF StreamInv, PullInv, Resuming
<1>2. GoesOn /\ wire \in {"messages", "chat", "responses", "converse"}
  BY <1>1 DEF GoesOn, StreamInv, StreamTypes
<1> QED  BY <1>1, <1>2, Answerable

\* A read that failed, or was cancelled, ends the pull, and but for the consumer's
\* own cancellation the stream.
LEMMA BrokenSteps ==
    ASSUME StreamInv, ResumeFailed \/ ResumeCancelled
    PROVE  StreamInv'
<1>1. Resuming /\ Resumed /\ msg' = msg
  BY DEF ResumeFailed, ResumeCancelled
<1>2. /\ stage = "open" /\ consumer = "pulling" /\ pending = <<>> /\ ~finished /\ GoesOn
      /\ msg \in Messages /\ Leads(msg)
  BY <1>1, ResumingIs
<1>3. reading' = "none" /\ UNCHANGED <<wire, server, chunk, stage, response>>
  BY <1>1 DEF Resumed
<1>4. CASE Answers(Failure, <<>>)
  BY <1>1, <1>2, <1>3, <1>4, BadEnds, StopStep
<1>5. CASE Answers(CancelledFinish, <<>>)
  BY <1>1, <1>2, <1>3, <1>5, BadEnds, StopStep
<1>6. CASE consumer' = "raised" /\ UNCHANGED <<talk, finished>>
  <2>1. UNCHANGED <<told, pending, finished>> /\ consumer' = "raised"
    BY <1>6 DEF talk
  <2>2. ~GoesOn'
    BY <2>1 DEF GoesOn
  <2>3. StreamTypes'
    BY <1>1, <1>3, <2>1 DEF StreamInv, StreamTypes
  <2>4. PullInv'
    BY <1>2, <1>3, <2>1 DEF PullInv
  <2>5. NothingLeaks'
    BY <1>2, <1>3 DEF NothingLeaks
  <2> QED  BY <1>1, <1>3, <2>1, <2>2, <2>3, <2>4, <2>5, QuietStep
<1>7. Answers(Failure, <<>>) \/ Answers(CancelledFinish, <<>>) \/ (consumer' = "raised" /\ UNCHANGED <<talk, finished>>)
  <2>1. CASE ResumeFailed
    BY <2>1 DEF ResumeFailed
  <2>2. CASE ResumeCancelled
    BY <2>2 DEF ResumeCancelled
  <2> QED  BY <2>1, <2>2
<1> QED  BY <1>4, <1>5, <1>6, <1>7

\* A wire that ends behind its reason is a finish, and without one a failure.
LEMMA EndStep ==
    ASSUME StreamInv, ResumeEnd
    PROVE  StreamInv'
<1>1. Resuming /\ Resumed /\ msg' = msg /\ reading = "end"
  BY DEF ResumeEnd
<1>2. /\ stage = "open" /\ consumer = "pulling" /\ pending = <<>> /\ ~finished /\ GoesOn /\ Speech = told
      /\ msg \in Messages /\ Leads(msg)
  BY <1>1, ResumingIs
<1>3. reading' = "none" /\ UNCHANGED <<wire, server, chunk, stage, response>>
  BY <1>1 DEF Resumed
<1>4. PICK s \in Servers : Synced(s, msg, told)
  BY <1>1, <1>2 DEF StreamInv, ReadInv, HasEnd
<1>5. CASE HandleWireEnd(msg) = <<>>
  <2>1. Answers(Failure, <<>>)
    BY <1>5 DEF ResumeEnd
  <2> QED  BY <1>1, <1>2, <1>3, <2>1, BadEnds, StopStep
<1>6. CASE HandleWireEnd(msg) # <<>>
  <2>1. Answers(FinishEv, <<>>)
    BY <1>6 DEF ResumeEnd
  <2>2. wire \in {"chat", "converse"} /\ msg.stop
    BY <1>6 DEF HandleWireEnd
  <2>3. InStep(s, msg) /\ Tells(msg.content, told)
    BY <1>4 DEF Synced
  <2>4. CASE wire = "chat"
    <3>1. ChatInStep(s, msg)
      BY <2>3, <2>4 DEF InStep
    <3>2. Whole(msg.content)
      BY <2>2, <3>1 DEF ChatInStep, OpenKey, Whole
    <3> QED  BY <1>1, <1>2, <1>3, <2>1, <2>2, <2>3, <3>2, BadEnds, StopStep
  <2>5. CASE wire = "converse"
    <3>1. ConverseInStep(s, msg)
      BY <2>3, <2>5 DEF InStep
    <3>2. Whole(msg.content)
      BY <2>2, <3>1 DEF ConverseInStep, OpenKey, Whole
    <3> QED  BY <1>1, <1>2, <1>3, <2>1, <2>2, <2>3, <3>2, BadEnds, StopStep
  <2> QED  BY <2>2, <2>4, <2>5
<1> QED  BY <1>5, <1>6

\* A chunk is handled: the stream goes on, or is ended.
LEMMA ChunkStep ==
    ASSUME StreamInv, ResumeChunk
    PROVE  StreamInv'
<1> DEFINE h == HandleAll(msg, chunk)
<1>1. Resuming /\ Resumed /\ msg' = h.m /\ reading = "chunk"
  BY DEF ResumeChunk
<1>2. /\ IF h.bad THEN Answers(IF cancelled THEN CancelledFinish ELSE Failure, <<>>)
         ELSE IF h.out = <<>> THEN consumer' = "looping" /\ UNCHANGED <<talk, finished>>
         ELSE Answers(Head(h.out), Tail(h.out))
  BY DEF ResumeChunk
<1>3. /\ stage = "open" /\ consumer = "pulling" /\ pending = <<>> /\ ~finished /\ GoesOn
      /\ Speech = told /\ told \in Seq(Events) /\ finished = FALSE /\ Ordered(told) /\ Unended(told)
      /\ Bracketed(told) /\ msg \in Messages /\ Leads(msg) /\ msg.content \in Seq(Blocks)
      /\ wire \in {"messages", "chat", "responses", "converse"}
  BY <1>1, ResumingIs
<1>4. reading' = "none" /\ UNCHANGED <<wire, server, chunk, stage, response>>
  BY <1>1 DEF Resumed
<1>5. PICK s \in Servers : Synced(s, msg, told) /\ Follows(s)
  BY <1>1, <1>3 DEF StreamInv, ReadInv, HasChunk
<1>6. /\ s.open # 0 => s.blocks[s.open] # "none"
      /\ InStep(s, msg) /\ Tells(msg.content, told) /\ (Unbegun(s, msg) => told = <<>>)
  BY <1>5 DEF Synced
<1>7. /\ Handled(s, server, msg, h)
      /\ ~h.bad => (server.open # 0 => server.blocks[server.open] # "none")
  BY <1>3, <1>5, <1>6, ChunkHandled
<1> HIDE DEF h
<1>8. msg' \in Messages /\ Leads(msg') /\ h.bad \in BOOLEAN
  BY <1>1, <1>7 DEF Handled
<1>9. CASE h.bad
  <2>1. Answers(CancelledFinish, <<>>) \/ Answers(Failure, <<>>)
    BY <1>2, <1>9
  <2> QED  BY <1>3, <1>4, <1>8, <2>1, BadEnds, StopStep
<1>10. CASE ~h.bad
  <2>1. PICK body \in Seq(Events) :
           /\ Plain(body) /\ Carries(msg.content, body, msg'.content)
           /\ Continues(s, server, msg, h, body) \/ Finishes(s, msg, h, body)
    BY <1>1, <1>7, <1>10 DEF Handled
  <2>2. server \in Servers /\ (server.open # 0 => server.blocks[server.open] # "none")
    BY <1>7, <1>10 DEF StreamInv, StreamTypes
  <2>3. (InStep(server, h.m) => InStep(server, msg)') /\ (Unbegun(server, msg)' => Unbegun(server, h.m))
    BY <1>1, <1>4 DEF InStep, Unbegun
  <2>4. ASSUME SpeechInv', finished' = FALSE, Tells(msg'.content, Speech'), InStep(server, h.m),
               Unbegun(server, h.m) => Speech' = <<>>, consumer' \in {"idle", "looping"},
               consumer' = "looping" => pending' = <<>>, told' \in Seq(Events), pending' \in Seq(Events)
        PROVE  StreamInv'
    <3>1. InSync'
      BY <1>4, <2>2, <2>3, <2>4 DEF InSync, Synced
    <3>2. StreamTypes'
      BY <1>3, <1>4, <1>8, <2>4 DEF StreamInv, StreamTypes
    <3>3. PullInv'
      BY <1>3, <1>4, <2>4 DEF PullInv
    <3>4. ReadInv'
      BY <1>4, <3>1 DEF ReadInv
    <3>5. NothingLeaks'
      BY <1>3, <1>4 DEF NothingLeaks
    <3> QED  BY <2>4, <3>2, <3>3, <3>4, <3>5 DEF StreamInv
  <2>5. CASE h.out = <<>>
    <3>1. consumer' = "looping" /\ UNCHANGED <<told, pending, finished>>
      BY <1>2, <1>10, <2>5 DEF talk
    <3>2. /\ InStep(server, h.m) /\ body = <<>> /\ (Unbegun(server, h.m) => Unbegun(s, msg))
      <4>1. body \o <<FinishEv>> # <<>>
        <5>1. FinishEv \in Events
          BY Evs
        <5>2. Len(body \o <<FinishEv>>) = Len(body) + 1 /\ Len(body) \in Nat
          BY <5>1, EndLast
        <5> QED  BY <5>2, EmptySeq
      <4>2. ASSUME NEW z \in Seq(Events)
            PROVE  <<StartEvent>> \o z # <<>>
        <5>1. <<StartEvent>> \in Seq(Events) /\ <<StartEvent>> # <<>>
          BY Evs
        <5> QED  BY <4>2, <5>1, ConcatEqualIffEmpty
      <4>3. body \o <<FinishEv>> \in Seq(Events)
        <5>1. FinishEv \in Events
          BY Evs
        <5> QED  BY <5>1, EndLast
      <4>4. ~Finishes(s, msg, h, body)
        BY <2>5, <4>1, <4>2, <4>3 DEF Finishes
      <4> QED  BY <2>1, <2>5, <4>2, <4>4 DEF Continues
    <3>3. Speech' = told
      BY <1>3, <3>1 DEF Speech
    <3>4. Tells(msg'.content, told)
      <4>1. Tells(msg'.content, told \o <<>>)
        BY <1>3, <1>6, <2>1, <3>2 DEF Carries
      <4> QED  BY <1>3, <4>1, ConcatEmptySeq
    <3>5. Justified(told, msg')
      BY <1>3 DEF Justified, Unended, Terminals
    <3>6. SpeechInv'
      BY <1>3, <3>1, <3>3, <3>5 DEF SpeechInv
    <3> QED  BY <1>3, <1>6, <2>4, <3>1, <3>2, <3>3, <3>4, <3>6
  <2>6. CASE h.out # <<>> /\ Continues(s, server, msg, h, body)
    <3>1. Answers(Head(h.out), Tail(h.out))
      BY <1>2, <1>10, <2>6
    <3>2. /\ InStep(server, h.m) /\ ~Unbegun(server, h.m)
          /\ (h.out = body /\ body # <<>>) \/ (h.out = <<StartEvent>> \o body /\ told = <<>>)
      BY <1>6, <2>6 DEF Continues
    <3>3. /\ SpeechInv' /\ Tells(msg'.content, Speech') /\ finished' = FALSE /\ consumer' = "idle"
          /\ told' \in Seq(Events) /\ told' # <<>> /\ pending' \in Seq(Events)
      BY <1>3, <1>6, <1>8, <2>1, <3>1, <3>2, TellsOn
    <3> QED  BY <2>4, <3>2, <3>3
  <2>7. CASE h.out # <<>> /\ Finishes(s, msg, h, body)
    <3>1. Answers(Head(h.out), Tail(h.out))
      BY <1>2, <1>10, <2>7
    <3>2. /\ msg'.stop /\ Whole(msg'.content)
          /\ h.out = body \o <<FinishEv>> \/ (h.out = <<StartEvent>> \o (body \o <<FinishEv>>) /\ told = <<>>)
      BY <1>1, <1>6, <2>7 DEF Finishes
    <3>3. /\ SpeechInv' /\ finished' = TRUE /\ consumer' = "idle"
          /\ told' \in Seq(Events) /\ told' # <<>> /\ pending' \in Seq(Events)
      BY <1>3, <1>6, <1>8, <2>1, <3>1, <3>2, FinishesOn
    <3>4. StreamTypes'
      BY <1>3, <1>4, <1>8, <3>3 DEF StreamInv, StreamTypes
    <3>5. PullInv'
      BY <1>3, <1>4, <3>3 DEF PullInv
    <3>6. ReadInv'
      BY <3>3 DEF ReadInv, GoesOn
    <3>7. NothingLeaks'
      BY <1>3, <1>4 DEF NothingLeaks
    <3> QED  BY <3>3, <3>4, <3>5, <3>6, <3>7 DEF StreamInv
  <2> QED  BY <2>1, <2>5, <2>6, <2>7
<1> QED  BY <1>8, <1>9, <1>10

\* What a read brings, and where the provider is then.
Brings(how, raws, t) ==
    /\ how \in {"chunk", "end", "failed"} /\ t \in Servers
    /\ how = "chunk" =>
          \/ raws = <<>> /\ t = [server EXCEPT !.said = @ + 1]
          \/ \E r : Comes(server, r) /\ raws = <<r>> /\ t = Said(server, r)
          \/ wire = "converse" /\ \E r : Comes(server, r) /\ raws = <<r, [r EXCEPT !.type = "error"]>>

\* A read brings it: the message is where it was.
LEMMA GivesStep ==
    ASSUME StreamInv, NEW how, NEW raws, NEW t, WireGives(how, raws, t), Brings(how, raws, t)
    PROVE  StreamInv'
<1>1. /\ stage = "open" /\ reading = "running" /\ reading' = how /\ chunk' = raws /\ server' = t
      /\ UNCHANGED <<wire, msg, stage, consumer, response, told, pending, finished>>
  BY DEF WireGives, life, talk, flags
<1>2. how \in {"chunk", "end", "failed"} /\ t \in Servers
  BY DEF Brings
<1>3. consumer = "pulling" /\ ~finished /\ GoesOn /\ InSync
  BY <1>1 DEF StreamInv, PullInv, ReadInv, GoesOn
<1>4. server \in Servers /\ Synced(server, msg, Speech)
  BY <1>3 DEF InSync, StreamInv, StreamTypes
<1>5. PICK s \in Servers : s = server
  BY <1>4
<1>6. Synced(s, msg, Speech)'
  <2>1. Speech' = Speech
    BY <1>1 DEF Speech
  <2>2. (InStep(s, msg)' <=> InStep(s, msg)) /\ (Unbegun(s, msg)' <=> Unbegun(s, msg))
    BY <1>1 DEF InStep, Unbegun
  <2>3. Synced(s, msg, Speech)
    BY <1>4, <1>5
  <2> QED  BY <1>1, <2>1, <2>2, <2>3 DEF Synced
<1>7. how = "chunk" => Follows(s)'
  <2>1. \A r : Comes(s, r)' <=> Comes(s, r)
    BY <1>1 DEF Comes
  <2>2. \A r : Said(s, r)' = Said(s, r)
    BY <1>1 DEF Said
  <2>3. how = "chunk" =>
          \/ raws = <<>> /\ t = [s EXCEPT !.said = s.said + 1]
          \/ \E r : Comes(s, r) /\ raws = <<r>> /\ t = Said(s, r)
          \/ wire = "converse" /\ \E r : Comes(s, r) /\ raws = <<r, [r EXCEPT !.type = "error"]>>
    BY <1>5 DEF Brings
  <2> QED  BY <1>1, <2>1, <2>2, <2>3 DEF Follows
<1>8. how = "chunk" => HasChunk'
  BY <1>6, <1>7 DEF HasChunk
<1>9. HasEnd'
  BY <1>6 DEF HasEnd
<1>10. ReadInv'
  BY <1>1, <1>2, <1>8, <1>9 DEF ReadInv
<1>11. StreamTypes'
  BY <1>1, <1>2 DEF StreamInv, StreamTypes
<1>12. PullInv'
  BY <1>1, <1>3 DEF StreamInv, PullInv
<1>13. SpeechInv'
  BY <1>1, SpeechKept DEF StreamInv
<1>14. NothingLeaks'
  BY <1>1 DEF NothingLeaks
<1> QED  BY <1>10, <1>11, <1>12, <1>13, <1>14 DEF StreamInv

\* The provider speaks, or the wire ends.
LEMMA WireSteps ==
    ASSUME StreamInv, ReadsChunk \/ ReadsTwo \/ WireEnds \/ ReadFails
    PROVE  StreamInv'
<1>1. stage = "open" /\ reading = "running"
  BY DEF ReadsChunk, ReadsTwo, WireEnds, ReadFails, WireGives
<1>2. consumer = "pulling" /\ ~finished /\ GoesOn /\ InSync
  BY <1>1 DEF StreamInv, PullInv, ReadInv, GoesOn
<1>3. /\ server \in Servers /\ (server.open # 0 => server.blocks[server.open] # "none")
      /\ wire \in {"messages", "chat", "responses", "converse"}
  BY <1>2 DEF InSync, Synced, StreamInv, StreamTypes
<1>4. ASSUME NEW t \in Servers
      PROVE  [t EXCEPT !.stage = "over"] \in Servers /\ [t EXCEPT !.said = t.said + 1] \in Servers
  BY <1>4 DEF Servers, Stages
<1>5. ASSUME NEW r \in NextRaws(server)
      PROVE  Comes(server, r) /\ Said(server, r) \in Servers
  <2>1. Comes(server, r)
    BY <1>3, WhatComes
  <2> QED  BY <1>3, <2>1, SaidFits
<1>6. CASE WireEnds \/ ReadFails
  <2> DEFINE t == [server EXCEPT !.stage = "over"]
  <2>1. t \in Servers
    BY <1>3, <1>4
  <2>2. WireGives("end", <<>>, t) \/ WireGives("failed", <<>>, t)
    BY <1>6 DEF WireEnds, ReadFails
  <2> HIDE DEF t
  <2>3. Brings("end", <<>>, t) /\ Brings("failed", <<>>, t)
    BY <2>1 DEF Brings
  <2> QED  BY <2>2, <2>3, GivesStep
<1>7. CASE ReadsChunk
  <2>1. CASE WireGives("chunk", <<>>, [server EXCEPT !.said = @ + 1])
    <3> DEFINE t == [server EXCEPT !.said = @ + 1]
    <3>1. t \in Servers
      BY <1>3, <1>4
    <3>2. Brings("chunk", <<>>, t)
      BY <3>1 DEF Brings
    <3>3. WireGives("chunk", <<>>, t)
      BY <2>1
    <3> HIDE DEF t
    <3> QED  BY <3>2, <3>3, GivesStep
  <2>2. CASE \E r \in NextRaws(server) : WireGives("chunk", <<r>>, Said(server, r))
    <3>1. PICK r \in NextRaws(server) : WireGives("chunk", <<r>>, Said(server, r))
      BY <2>2
    <3>2. Brings("chunk", <<r>>, Said(server, r))
      BY <1>5 DEF Brings
    <3> QED  BY <3>1, <3>2, GivesStep
  <2> QED  BY <1>7, <2>1, <2>2 DEF ReadsChunk
<1>8. CASE ReadsTwo
  <2>1. PICK r \in NextRaws(server) :
           WireGives("chunk", <<r, [r EXCEPT !.type = "error"]>>, [Said(server, r) EXCEPT !.stage = "over"])
    BY <1>8 DEF ReadsTwo
  <2> DEFINE t == [Said(server, r) EXCEPT !.stage = "over"]
             raws == <<r, [r EXCEPT !.type = "error"]>>
  <2>2. t \in Servers
    BY <1>4, <1>5
  <2>3. wire = "converse"
    BY <1>8 DEF ReadsTwo
  <2>4. Brings("chunk", raws, t)
    BY <1>5, <2>2, <2>3 DEF Brings
  <2>5. WireGives("chunk", raws, t)
    BY <2>1
  <2> HIDE DEF t, raws
  <2> QED  BY <2>4, <2>5, GivesStep
<1> QED  BY <1>6, <1>7, <1>8

-----------------------------------------------------------------------------
(* The theorem.                                                            *)

\* Nothing is said before the stream is entered.
LEMMA StreamInit ==
    ASSUME StreamerInit
    PROVE  StreamInv
<1>1. /\ msg = Empty /\ told = <<>> /\ pending = <<>> /\ finished = FALSE /\ stage = "new" /\ consumer = "idle"
      /\ reading = "none" /\ response = "none"
      /\ server = [stage |-> "begin", blocks |-> [n \in 1 .. MaxBlocks |-> "none"], open |-> 0, said |-> 0]
      /\ wire \in {"messages", "chat", "responses", "converse"}
  BY StreamerAssumption DEF StreamerInit
<1>2. /\ Empty.content = <<>> /\ Empty.idx = <<>> /\ Empty.held = <<>> /\ Empty.run = 0
      /\ Empty.started = FALSE /\ Empty.stop = FALSE /\ Empty \in Messages /\ Leads(Empty)
      /\ DOMAIN Empty.idx = {} /\ Len(Empty.content) = 0
  <2>1. <<>> \in Maps /\ DOMAIN <<>> = {}
    BY EmptyMap
  <2>2. <<>> \in Seq(Blocks) /\ Len(<<>>) = 0
    BY EmptySeq
  <2> QED  BY <2>1, <2>2 DEF Empty, Messages, Leads
<1>3. server \in Servers /\ server.stage = "begin" /\ server.open = 0 /\ \A k \in 1 .. MaxBlocks : server.blocks[k] = "none"
  BY <1>1, StreamerAssumption DEF Servers, Stages
<1> DEFINE m == Empty
<1> HIDE DEF m
<1>4. /\ msg = m /\ m.content = <<>> /\ m.run = 0 /\ m.started = FALSE /\ m.stop = FALSE /\ DOMAIN m.idx = {}
      /\ Len(m.content) = 0 /\ m \in Messages /\ Leads(m)
  BY <1>1, <1>2 DEF m
<1>5. Speech = <<>> /\ Speech \in Seq(Events) /\ Len(Speech) = 0 /\ \A n : Heard(Speech, n) = {}
  <2>1. <<>> \in Seq(Events) /\ Len(<<>>) = 0
    BY EmptySeq
  <2>2. Speech = <<>>
    BY <1>1, <2>1, ConcatEmptySeq DEF Speech
  <2>3. \A n : Heard(<<>>, n) = {}
    BY DEF Heard
  <2> QED  BY <2>1, <2>2, <2>3
<1>6. InStep(server, m)
  <2>1. 1 .. Len(m.content) = {}
    BY <1>4
  <2>2. MessagesInStep(server, m)
    BY <1>3, <1>4, <2>1 DEF MessagesInStep
  <2>3. ChatInStep(server, m)
    BY <1>3, <1>4, <2>1 DEF ChatInStep, Unhosted
  <2>4. ResponsesInStep(server, m)
    BY <1>3 DEF ResponsesInStep
  <2>5. ConverseInStep(server, m)
    BY <1>3, <1>4, <2>1 DEF ConverseInStep, Unhosted
  <2> QED  BY <1>1, <2>2, <2>3, <2>4, <2>5 DEF InStep
<1>7. Tells(m.content, Speech)
  BY <1>4, <1>5 DEF Tells, Unheard
<1>8. InSync
  BY <1>3, <1>4, <1>5, <1>6, <1>7 DEF InSync, Synced
<1>9. SpeechInv
  BY <1>1, <1>5 DEF SpeechInv, Ordered, Unended, Bracketed, Justified
<1>10. StreamTypes
  BY <1>1, <1>3, <1>4, <1>5, EmptySeq DEF StreamTypes
<1>11. PullInv
  BY <1>1 DEF PullInv
<1>12. ReadInv /\ NothingLeaks
  BY <1>1, <1>8 DEF ReadInv, NothingLeaks
<1> QED  BY <1>9, <1>10, <1>11, <1>12 DEF StreamInv

\* Every step keeps the invariant.
LEMMA StreamStep ==
    ASSUME StreamInv, [StreamerNext]_streamerVars
    PROVE  StreamInv'
<1>1. CASE UNCHANGED streamerVars
  <2>1. UNCHANGED <<wire, msg, server, chunk, told, pending, finished, stage, consumer, response, reading>>
    BY <1>1 DEF streamerVars, life, talk, flags
  <2>2. StreamTypes' /\ PullInv' /\ NothingLeaks' /\ (GoesOn' => GoesOn)
    BY <2>1 DEF StreamInv, StreamTypes, PullInv, NothingLeaks, GoesOn
  <2> QED  BY <2>1, <2>2, QuietStep
<1>2. CASE StreamerNext
  BY <1>2, EnterSteps, OutsideSteps, PendingStep, ReadsStep, ChunkStep, EndStep, BrokenSteps, WireSteps
     DEF StreamerNext, Resume
<1> QED  BY <1>1, <1>2

\* What was told is the front of what was said.
LEMMA ToldIsSaid ==
    ASSUME StreamInv
    PROVE  /\ told \in Seq(Events) /\ pending \in Seq(Events) /\ Speech \in Seq(Events)
           /\ Len(told) \in Nat /\ Len(pending) \in Nat /\ Len(Speech) = Len(told) + Len(pending)
           /\ DOMAIN told = 1 .. Len(told)
           /\ \A i \in DOMAIN told : i \in 1 .. Len(Speech) /\ Speech[i] = told[i]
           /\ \A n : About(n) = Heard(told, n)
<1>1. told \in Seq(Events) /\ pending \in Seq(Events)
  BY DEF StreamInv, StreamTypes
<1>2. Len(told) \in Nat /\ Len(pending) \in Nat /\ DOMAIN told = 1 .. Len(told)
  BY <1>1, LenProperties
<1>3. /\ Speech \in Seq(Events) /\ Len(Speech) = Len(told) + Len(pending)
      /\ \A i \in 1 .. Len(told) : Speech[i] = told[i]
  BY <1>1, Joined DEF Speech
<1>4. \A i \in DOMAIN told : i \in 1 .. Len(Speech) /\ Speech[i] = told[i]
  BY <1>2, <1>3
<1>5. \A n : About(n) = Heard(told, n)
  BY DEF About, Heard
<1> QED  BY <1>1, <1>2, <1>3, <1>4, <1>5

\* A terminal that was told was the last thing to say.
LEMMA ToldTerminal ==
    ASSUME StreamInv, NEW i \in DOMAIN told, told[i] \in Terminals
    PROVE  i = Len(told) /\ pending = <<>> /\ Speech = told
<1>1. /\ told \in Seq(Events) /\ pending \in Seq(Events) /\ Len(told) \in Nat /\ Len(pending) \in Nat
      /\ Len(Speech) = Len(told) + Len(pending) /\ DOMAIN told = 1 .. Len(told)
      /\ i \in 1 .. Len(Speech) /\ Speech[i] = told[i]
  BY ToldIsSaid
<1>2. i = Len(Speech)
  BY <1>1 DEF StreamInv, SpeechInv, Ordered
<1>3. i = Len(told) /\ Len(pending) = 0
  <2>1. i \in 1 .. Len(told)
    BY <1>1
  <2>2. i \in Nat /\ i <= Len(told) /\ i = Len(told) + Len(pending)
    BY <1>1, <1>2, <2>1
  <2>3. Len(told) \in Nat /\ Len(pending) \in Nat
    BY <1>1
  <2> HIDE <1>1, <1>2
  <2> QED  BY <2>2, <2>3
<1>4. pending = <<>>
  BY <1>1, <1>3, EmptySeq
<1>5. Speech = told
  BY <1>1, <1>4, ConcatEmptySeq DEF Speech
<1> QED  BY <1>3, <1>4, <1>5

\* One start and one terminal.
LEMMA StartsAndEnds ==
    ASSUME StreamInv
    PROVE  OneStartOneTerminal
<1>1. ASSUME NEW i \in DOMAIN told
      PROVE  told[i] = StartEvent <=> i = 1
  BY <1>1, ToldIsSaid DEF StreamInv, SpeechInv, Ordered
<1>2. ASSUME NEW i \in DOMAIN told, told[i] \in Terminals
      PROVE  i = Len(told) /\ pending = <<>>
  BY <1>2, ToldTerminal
<1>3. ASSUME consumer = "over"
      PROVE  told # <<>> /\ told[Len(told)] \in Terminals
  <2>1. pending = <<>> /\ finished
    BY <1>3 DEF StreamInv, PullInv
  <2>2. told \in Seq(Events) /\ DOMAIN told = 1 .. Len(told) /\ Len(told) \in Nat
    BY ToldIsSaid
  <2>3. Speech = told
    BY <2>1, <2>2, ConcatEmptySeq DEF Speech
  <2>4. ~Unended(told)
    BY <2>1, <2>3 DEF StreamInv, SpeechInv
  <2>5. PICK i \in 1 .. Len(told) : told[i] \in Terminals
    BY <2>4 DEF Unended
  <2>6. i = Len(told)
    BY <2>2, <2>5, <1>2
  <2>7. told # <<>>
    BY <2>5, EmptySeq
  <2> QED  BY <2>5, <2>6, <2>7
<1> QED  BY <1>1, <1>2, <1>3 DEF OneStartOneTerminal

\* The blocks of what was told are bracketed, as those of what was said.
LEMMA BlocksBracketed ==
    ASSUME StreamInv
    PROVE  BlocksAreBracketed
<1>1. ASSUME NEW n \in 1 .. Len(msg.content), NEW i \in About(n)
      PROVE  /\ told[i].what \in {"open", "web_start"} <=> \A j \in About(n) : i <= j
             /\ told[i].what \in {"close", "web_end"} => \A j \in About(n) : j <= i
  <2>1. n \in Nat \ {0}
    <3>1. Len(msg.content) \in Nat
      BY ContentIs DEF StreamInv, StreamTypes
    <3> QED  BY <3>1
  <2>2. /\ \A j \in About(n) : j \in 1 .. Len(told) /\ told[j].at = n
        /\ \A j \in 1 .. Len(told) : told[j].at = n => j \in About(n)
        /\ Len(told) \in Nat /\ Len(pending) \in Nat /\ Len(Speech) = Len(told) + Len(pending) /\ Speech \in Seq(Events)
        /\ \A j \in 1 .. Len(told) : j \in 1 .. Len(Speech) /\ Speech[j] = told[j]
    BY ToldIsSaid DEF About
  <2>3. \A j : j \in Heard(Speech, n) <=> j \in 1 .. Len(Speech) /\ Speech[j].at = n
    BY <2>2, HeardWithin
  <2>4. About(n) \subseteq Heard(Speech, n)
    BY <2>2, <2>3
  <2>5. /\ Opening(told[i]) <=> \A j \in Heard(Speech, n) : i <= j
        /\ Closing(told[i]) => \A j \in Heard(Speech, n) : j <= i
    BY <1>1, <2>1, <2>2, <2>4 DEF StreamInv, SpeechInv, Bracketed
  <2>6. ASSUME \A j \in About(n) : i <= j
        PROVE  \A j \in Heard(Speech, n) : i <= j
    <3>1. ASSUME NEW j \in Heard(Speech, n), j \notin 1 .. Len(told)
          PROVE  i <= j
      BY <1>1, <2>2, <2>3, <3>1
    <3>2. ASSUME NEW j \in Heard(Speech, n), j \in 1 .. Len(told)
          PROVE  j \in About(n)
      BY <2>2, <2>3, <3>2
    <3> QED  BY <2>6, <3>1, <3>2
  <2> QED  BY <2>4, <2>5, <2>6 DEF Opening, Closing
<1> QED  BY <1>1 DEF BlocksAreBracketed

\* A finish that was told is of a message that is whole, and has its reason.
LEMMA FinishesWhole ==
    ASSUME StreamInv
    PROVE  FinishedIsWhole /\ FinishHasReason
<1>1. ASSUME NEW i \in DOMAIN told, told[i] = FinishEv
      PROVE  msg.stop /\ Whole(msg.content) /\ Tells(msg.content, told)
  <2>1. FinishEv \in Terminals
    BY BadEnds
  <2>2. Speech = told
    BY <1>1, <2>1, ToldTerminal
  <2>3. DOMAIN told = 1 .. Len(told)
    BY ToldIsSaid
  <2> QED  BY <1>1, <2>2, <2>3 DEF StreamInv, SpeechInv, Justified
<1>2. FinishHasReason
  BY <1>1 DEF FinishHasReason
<1>3. ASSUME told # <<>>, told[Len(told)] = FinishEv, NEW n \in 1 .. Len(msg.content)
      PROVE  /\ msg.content[n].kind = "call" => msg.content[n].done
             /\ msg.content[n].kind \in {"text", "thinking", "call"} =>
                    /\ \E i \in About(n) : told[i].what = "close"
                    /\ Cardinality(About(n)) = msg.content[n].text + 2
  <2>1. told \in Seq(Events) /\ DOMAIN told = 1 .. Len(told) /\ Len(told) \in Nat /\ About(n) = Heard(told, n)
    BY ToldIsSaid
  <2>2. Len(told) \in DOMAIN told
    BY <1>3, <2>1, EmptySeq
  <2>3. Whole(msg.content) /\ Tells(msg.content, told)
    BY <1>1, <1>3, <2>2
  <2>4. n \in Nat \ {0}
    <3>1. Len(msg.content) \in Nat
      BY ContentIs DEF StreamInv, StreamTypes
    <3> QED  BY <3>1
  <2>5. ASSUME msg.content[n].kind \in {"text", "thinking", "call"}
        PROVE  /\ msg.content[n].done /\ \E i \in About(n) : told[i].what = "close"
               /\ Cardinality(About(n)) = msg.content[n].text + 2
    <3>1. msg.content[n].done
      BY <1>3, <2>3, <2>5 DEF Whole
    <3>2. Narrates(msg.content[n], told, n)
      BY <1>3, <2>3, <2>4 DEF Tells
    <3>3. Spoken(told, n, msg.content[n].text + 2, "close")
      BY <2>5, <3>1, <3>2 DEF Narrates, EndOf
    <3> QED  BY <2>1, <3>1, <3>3 DEF Spoken
  <2> QED  BY <2>5
<1>4. FinishedIsWhole
  BY <1>3 DEF FinishedIsWhole
<1> QED  BY <1>2, <1>4

\* The invariant gives the contract of `stream()`.
LEMMA StreamIsSound ==
    ASSUME StreamInv
    PROVE  StreamerSound
<1>1. StreamerTypeOK
  BY DEF StreamInv, StreamTypes, StreamerTypeOK, Leads
<1>2. NothingLeaks
  BY DEF StreamInv
<1> QED  BY <1>1, <1>2, StartsAndEnds, BlocksBracketed, FinishesWhole DEF StreamerSound

\* Whatever the wire, and whatever ends a read, `stream()` gives one start and one
\* terminal, brackets every block, finishes no message that is not whole, and
\* leaves no read and no response open (streamer.py).
THEOREM StreamsAreSound == StreamerSpec => []StreamerSound
<1>1. StreamerInit => StreamInv
  BY StreamInit
<1>2. StreamInv /\ [StreamerNext]_streamerVars => StreamInv'
  BY StreamStep
<1>3. StreamInv => StreamerSound
  BY StreamIsSound
<1> QED  BY <1>1, <1>2, <1>3, PTL DEF StreamerSpec
=============================================================================
