----------------------------- MODULE HandleProofs -----------------------------
(***************************************************************************)
(* The handles of a run, for every finite tree of them: what is said in    *)
(* the tree comes out of the root in the order it was said and, where      *)
(* everything ended well, in full.                                         *)
(*                                                                         *)
(* The invariant follows every event from the moment it is said: it is the *)
(* step in hand, or in the inbox of one of the handle's ancestors, or it   *)
(* has come out.  The inboxes on the way from a handle to the root are one *)
(* queue: the nearer to the root, the earlier.                             *)
(***************************************************************************)
EXTENDS RunHandle, FiniteSetTheorems, SequenceTheorems, WellFoundedInduction, TLAPS

-----------------------------------------------------------------------------
(* The invariant.                                                          *)

\* The ancestors of h: what is in every set of handles that is closed upwards.
Above(h) ==
  {a \in Handles : \A S \in SUBSET Handles :
                      (\A c \in Kids : c \in S \cup {h} => Parent[c] \in S) => a \in S}

Event == [of : Handles, what : Kinds, n : Nat \ {0}]

TypesInv ==
  /\ HandleTypeOK /\ made \in [Handles -> Nat]
  /\ inbox \in [Handles -> Seq(Event)] /\ stream \in [Handles -> Seq(Event)]
  /\ story \in [Handles -> Seq(Kinds)]
  /\ registered \in [Handles -> BOOLEAN]
  /\ owed \in [Handles -> BOOLEAN] /\ awake \in [Handles -> BOOLEAN]
  /\ approvals \in Seq({"gate", "end"}) /\ result \in BOOLEAN

Over(t) == t \in {"done", "failed", "cancelled"}

\* Who drives: an eager handle is registered as long as its task runs, its engine
\* is on only then, and a result belongs to a root that is over.
LifeInv ==
  /\ \A h \in Handles : IsEager(h) => /\ registered[h] <=> tasks[h] \in {"running", "cancelling"}
                                      /\ engine[h] = "on" => registered[h]
  /\ \A c \in Kids : tasks[c] = "none" <=> kid[c] # "admitted"
  /\ mode = "lazy" => tasks[Root] = "none"
  /\ mode = "eager" => client \in {"idle", "stopped"} /\ tasks[Root] # "none"
  /\ \A c \in Kids : tasks[c] \in {"cancelling", "cancelled"} => client = "left"
  /\ result => /\ IF mode = "lazy" THEN client \in {"stopped", "left"} ELSE tasks[Root] = "done"
               /\ engine[Root] = "none" /\ ~registered[Root]
  /\ mode = "lazy" /\ client = "stopped" => result

\* The approvals stream of a root that is over is closed.
ApprovalsInv ==
  /\ SentinelLast
  /\ mode = "eager" /\ Over(tasks[Root]) => ApprovalsClosed
  /\ mode = "eager" /\ client = "stopped" => Over(tasks[Root])

\* What may be said of a subagent after what.
Last(s) == s[Len(s)]
FollowsAt(s, i) ==
  /\ s[i] = "spawned" => i = 1
  /\ s[i] = "started" => i > 1 /\ s[i - 1] \in {"spawned", "ended"}
  /\ s[i] \in {"own", "ended"} => i > 1 /\ s[i - 1] \in {"started", "own"}
Follows(s) == \A i \in DOMAIN s : FollowsAt(s, i)

\* What was said of a subagent last tells where it is.
SaidInv ==
  /\ \A c \in Kids : /\ Follows(story[c])
                     /\ kid[c] = "unborn" <=> story[c] = <<>>
                     /\ kid[c] = "queued" => Last(story[c]) = "spawned"
                     /\ registered[c] => Last(story[c]) \in {"started", "own"}
                     /\ kid[c] = "admitted" /\ ~registered[c] => Last(story[c]) = "ended"
  /\ \A h \in Handles : step[h] = "event" => story[h] # <<>> /\ Last(story[h]) = "own"

\* The root is being driven, or waits to be: an event may still come out of it.
Running == IF mode = "lazy" THEN client \in {"idle", "pulling"} ELSE tasks[Root] = "running"

\* An event in the inbox of x was said, has not come out, and is about a handle
\* below x; the step in hand is behind it.
Fit(x, e) ==
  /\ x \in Above(e.of) /\ e.n > Len(stream[e.of]) /\ e.n \in DOMAIN story[e.of]
  /\ e.what = story[e.of][e.n] /\ (step[e.of] = "event" => e.n < Len(story[e.of]))
Located == \A x \in Handles : \A i \in DOMAIN inbox[x] : Fit(x, inbox[x][i])

\* Of two events about one handle the earlier is nearer to the root, or before the
\* later in one box.
OrderedIn(box) == \A x, y \in Handles : \A i \in DOMAIN box[x], j \in DOMAIN box[y] :
  box[x][i].of = box[y][j].of /\ (x \in Above(y) \/ (x = y /\ i < j)) => box[x][i].n < box[y][j].n

\* What was said and has not come out is in a box, or in hand.
HoldsIn(box, o, k) == \E x \in Handles : \E i \in DOMAIN box[x] : box[x][i].of = o /\ box[x][i].n = k
Complete == \A h \in Handles : \A k \in DOMAIN story[h] :
  k > Len(stream[h]) => (step[h] = "event" /\ k = Len(story[h])) \/ HoldsIn(inbox, h, k)

\* The step in hand has not come out.
Handy == \A h \in Handles : step[h] = "event" => Len(stream[h]) < Len(story[h])

InFlight == Located /\ OrderedIn(inbox) /\ Complete /\ Handy
FlowInv == StreamInOrder /\ (Running => InFlight)

\* A handle that ended well has nothing left and no child that may still speak.
Settled(x) == IF x = Root THEN result ELSE tasks[x] = "done"
SettledInv == \A x \in Handles : Settled(x) => inbox[x] = <<>> /\ ~LiveChildren(x)
EndInv == ~DeepRestarts => SettledInv /\ NothingLost

-----------------------------------------------------------------------------
(* Types.                                                                      *)

\* Putting an event into a box, and taking the first one out, leave boxes.
LEMMA PutType ==
  ASSUME NEW box \in [Handles -> Seq(Event)], NEW h \in Handles, NEW e \in Event
  PROVE  Put(box, h, e) \in [Handles -> Seq(Event)]
BY AppendProperties DEF Put

\* An event taken from a box is one, and the rest of the box is a box.
LEMMA HeadType ==
  ASSUME NEW box \in [Handles -> Seq(Event)], NEW h \in Handles, box[h] # <<>>
  PROVE  Head(box[h]) \in Event /\ [box EXCEPT ![h] = Tail(@)] \in [Handles -> Seq(Event)]
<1>1. box[h] \in Seq(Event)
  OBVIOUS
<1>2. Head(box[h]) \in Event /\ Tail(box[h]) \in Seq(Event)
  BY <1>1, HeadTailProperties
<1> QED
  BY <1>2

\* What is news of a handle, or in its hand, is an event.
LEMMA NewsType ==
  ASSUME TypesInv, NEW h \in Handles, NEW k \in Kinds
  PROVE  /\ News(h, k) \in Event
         /\ [story EXCEPT ![h] = Append(@, k)] \in [Handles -> Seq(Kinds)]
<1>1. story[h] \in Seq(Kinds)
  BY DEF TypesInv
<1>2. Len(story[h]) \in Nat /\ Append(story[h], k) \in Seq(Kinds)
  BY <1>1, LenProperties, AppendProperties
<1> QED
  BY <1>2 DEF News, Event, TypesInv

\* The own event in hand was said.
LEMMA InHandType ==
  ASSUME TypesInv, SaidInv, NEW h \in Handles, step[h] = "event"
  PROVE  InHand(h) \in Event
<1>1. story[h] \in Seq(Kinds) /\ story[h] # <<>>
  BY DEF TypesInv, SaidInv
<1>2. Len(story[h]) \in Nat \ {0}
  BY <1>1, LenProperties, EmptySeq
<1> QED
  BY <1>2 DEF InHand, Event, Kinds

\* The parent of a subagent is a handle, and not that subagent.
LEMMA ParentIs ==
  ASSUME NEW c \in Kids
  PROVE  Parent[c] \in Handles /\ Parent[c] # c /\ c \in Handles /\ c # Root
<1>1. PICK depth \in [Handles -> 0 .. Cardinality(Kids)] : \A k \in Kids : depth[Parent[k]] < depth[k]
  BY RunHandleAssumption
<1>2. Parent[c] \in Handles /\ c \in Handles /\ c # Root
  BY RunHandleAssumption DEF Handles
<1> QED
  BY <1>1, <1>2

\* The end of a drive leaves every variable its type.
LEMMA DriveEndsType ==
  ASSUME TypesInv, NEW h \in Handles, NEW how \in {"done", "failed", "cancelled"},
         NEW box \in [Handles -> Seq(Event)], stream' \in [Handles -> Seq(Event)], 
         DriveEnds(h, how, box)
  PROVE  TypesInv'
<1>1. News(h, "ended") \in Event /\ [story EXCEPT ![h] = Append(@, "ended")] \in [Handles -> Seq(Kinds)]
  BY NewsType DEF Kinds
<1>2. h # Root => Parent[h] \in Handles /\ h \in Kids
  BY ParentIs DEF Handles
<1>3. h # Root => Put(box, Parent[h], News(h, "ended")) \in [Handles -> Seq(Event)]
  BY <1>1, <1>2, PutType
<1>4. Append(approvals, "end") \in Seq({"gate", "end"})
  BY AppendProperties DEF TypesInv
<1>5. Root \in Handles
  BY DEF Handles
<1>6. inbox' \in [Handles -> Seq(Event)] /\ story' \in [Handles -> Seq(Kinds)] /\ registered' \in [Handles -> BOOLEAN]
  BY <1>1, <1>3, <1>5 DEF DriveEnds, TaskEnds, PullEnds, Unregister, Says, TypesInv
<1>7. approvals' \in Seq({"gate", "end"})
  BY <1>4 DEF DriveEnds, TaskEnds, PullEnds, CloseApprovals, TypesInv
<1>8. HandleTypeOK'
  <2>1. CloseEngine(h) /\ UNCHANGED <<mode, made, kid, owed>>
    BY DEF DriveEnds, TaskEnds, pool
  <2>2. tasks' \in [Handles -> {"none", "running", "cancelling", "done", "failed", "cancelled"}]
    BY DEF DriveEnds, TaskEnds, TypesInv, HandleTypeOK
  <2>3. client' \in {"idle", "pulling", "stopped", "error", "refused", "left"}
    BY DEF DriveEnds, PullEnds, TypesInv, HandleTypeOK
  <2>4. /\ step' \in [Handles -> {"none", "running", "event", "over", "failed"}]
        /\ engine' \in [Handles -> {"none", "on"}]
        /\ \A x \in Handles : step'[x] # "none" => engine'[x] = "on"
    BY <2>1 DEF CloseEngine, TypesInv, HandleTypeOK
  <2> QED
    BY <2>1, <2>2, <2>3, <2>4 DEF TypesInv, HandleTypeOK
<1>9. awake' \in [Handles -> BOOLEAN] /\ result' \in BOOLEAN /\ owed' \in [Handles -> BOOLEAN] /\ made' \in [Handles -> Nat]
  BY DEF DriveEnds, TaskEnds, PullEnds, TypesInv, pool
<1> QED
  BY <1>6, <1>7, <1>8, <1>9 DEF TypesInv

\* Handing an event on leaves the boxes, the stream and the reader their types.
LEMMA HandOnType ==
  ASSUME TypesInv, NEW h \in Handles, NEW e \in Event, NEW box \in [Handles -> Seq(Event)],
         HandOn(h, e, box)
  PROVE  /\ inbox' \in [Handles -> Seq(Event)] /\ stream' \in [Handles -> Seq(Event)]
         /\ client' \in {"idle", "pulling", "stopped", "error", "refused", "left"}
<1>1. h # Root => Parent[h] \in Handles
  BY ParentIs DEF Handles
<1>2. h # Root => Put(box, Parent[h], e) \in [Handles -> Seq(Event)]
  BY <1>1, PutType
<1>3. e.of \in Handles
  BY DEF Event
<1>4. Put(stream, e.of, e) \in [Handles -> Seq(Event)]
  BY <1>3, PutType DEF TypesInv
<1> QED
  BY <1>2, <1>4 DEF HandOn, TypesInv, HandleTypeOK, reader

\* The initial states have their types.
LEMMA TypesInit == HandleInit => TypesInv
<1> SUFFICES ASSUME HandleInit PROVE TypesInv
  OBVIOUS
<1>1. <<>> \in Seq(Event) /\ <<>> \in Seq(Kinds) /\ approvals \in Seq({"gate", "end"})
  BY DEF HandleInit
<1>2. HandleTypeOK
  BY RunHandleAssumption DEF HandleInit, HandleTypeOK
<1> QED
  BY <1>1, <1>2 DEF HandleInit, TypesInv

\* A start leaves every variable it changes its type.
LEMMA StartType ==
  ASSUME TypesInv, NEW c \in Kids, StartEager(c)
  PROVE  /\ inbox' \in [Handles -> Seq(Event)] /\ story' \in [Handles -> Seq(Kinds)]
         /\ registered' \in [Handles -> BOOLEAN] /\ awake' \in [Handles -> BOOLEAN]
         /\ tasks' \in [Handles -> {"none", "running", "cancelling", "done", "failed", "cancelled"}]
         /\ engine' \in [Handles -> {"none", "on"}]
         /\ kid' \in [Kids -> {"unborn", "queued", "abandoned", "admitted"}]
         /\ \A h \in Handles : engine[h] = "on" => engine'[h] = "on"
<1>1. c \in Handles /\ Parent[c] \in Handles
  BY ParentIs
<1>2. News(c, "started") \in Event /\ [story EXCEPT ![c] = Append(@, "started")] \in [Handles -> Seq(Kinds)]
  BY <1>1, NewsType DEF Kinds
<1>3. Put(inbox, Parent[c], News(c, "started")) \in [Handles -> Seq(Event)]
  BY <1>1, <1>2, PutType DEF TypesInv
<1> QED
  BY <1>1, <1>2, <1>3 DEF StartEager, Says, TypesInv, HandleTypeOK

\* Every step leaves every variable its type.
LEMMA TypesStep ==
  ASSUME TypesInv, LifeInv, SaidInv, [HandleNext]_handleVars
  PROVE  TypesInv'
<1> USE DEF pulls, pool, handles, reader
<1>1. CASE UNCHANGED handleVars
  BY <1>1 DEF handleVars, TypesInv, HandleTypeOK
<1>2. ASSUME NEW h \in Handles, FanIn(h)
      PROVE  TypesInv'
  <2>1. CASE Sleep(h)
    <3>1. HandleTypeOK'
      BY <2>1 DEF Sleep, TypesInv, HandleTypeOK
    <3> QED
      BY <2>1, <3>1 DEF Sleep, TypesInv
  <2>2. CASE TakeForwarded(h)
    <3>1. Head(inbox[h]) \in Event /\ [inbox EXCEPT ![h] = Tail(@)] \in [Handles -> Seq(Event)]
      BY <2>2, HeadType DEF TypesInv, TakeForwarded
    <3>2. /\ inbox' \in [Handles -> Seq(Event)] /\ stream' \in [Handles -> Seq(Event)]
          /\ client' \in {"idle", "pulling", "stopped", "error", "refused", "left"}
      BY <2>2, <3>1, HandOnType DEF TakeForwarded
    <3> QED
      BY <2>2, <3>2 DEF TakeForwarded, TypesInv, HandleTypeOK
  <2>3. CASE TakeOwn(h)
    <3>1. InHand(h) \in Event
      BY <2>3, InHandType DEF TakeOwn
    <3>2. /\ inbox' \in [Handles -> Seq(Event)] /\ stream' \in [Handles -> Seq(Event)]
          /\ client' \in {"idle", "pulling", "stopped", "error", "refused", "left"}
      BY <2>3, <3>1, HandOnType DEF TakeOwn, TypesInv
    <3>3. HandleTypeOK'
      BY <2>3, <3>2 DEF TakeOwn, TypesInv, HandleTypeOK
    <3> QED
      BY <2>3, <3>2, <3>3 DEF TakeOwn, TypesInv
  <2>4. CASE OwnOver(h)
    <3>1. HandleTypeOK'
      BY <2>4 DEF OwnOver, CloseEngine, TypesInv, HandleTypeOK
    <3> QED
      BY <2>4, <3>1 DEF OwnOver, TypesInv
  <2>5. CASE OwnFailed(h)
    BY <2>5, DriveEndsType DEF OwnFailed, TypesInv
  <2>6. CASE Stop(h)
    BY <2>6, DriveEndsType DEF Stop, TypesInv
  <2> QED
    BY <1>2, <2>1, <2>2, <2>3, <2>4, <2>5, <2>6 DEF FanIn
<1>3. ASSUME NEW h \in Handles, Engine(h)
      PROVE  TypesInv'
  <2>1. ASSUME EngineYields(h) \/ EngineGates(h)
        PROVE  TypesInv'
    <3>1. story' \in [Handles -> Seq(Kinds)]
      BY <2>1, NewsType DEF EngineYields, EngineGates, Says, Kinds
    <3>2. approvals' \in Seq({"gate", "end"})
      <4>1. Append(approvals, "gate") \in Seq({"gate", "end"})
        BY AppendProperties DEF TypesInv
      <4> QED
        BY <2>1, <4>1 DEF EngineYields, EngineGates, TypesInv
    <3>3. made' \in [Handles -> Nat] /\ \A x \in Handles : made'[x] \in 0 .. MaxEvents[x]
      <4>1. made' = [made EXCEPT ![h] = @ + 1] /\ made[h] < MaxEvents[h]
        BY <2>1 DEF EngineYields, EngineGates
      <4>2. made \in [Handles -> Nat] /\ \A x \in Handles : made[x] \in 0 .. MaxEvents[x] /\ MaxEvents[x] \in Nat
        BY RunHandleAssumption DEF TypesInv, HandleTypeOK
      <4> QED
        BY <4>1, <4>2
    <3>4. HandleTypeOK'
      BY <2>1, <3>3 DEF EngineYields, EngineGates, Ready, TypesInv, HandleTypeOK
    <3> QED
      BY <2>1, <3>1, <3>2, <3>3, <3>4 DEF EngineYields, EngineGates, TypesInv
  <2>2. CASE EngineEnds(h)
    BY <2>2 DEF EngineEnds, Ready, TypesInv, HandleTypeOK
  <2>3. CASE EngineFails(h)
    BY <2>3 DEF EngineFails, Ready, TypesInv, HandleTypeOK
  <2>4. ASSUME NEW c \in Kids, EngineSpawns(h, c)
        PROVE  TypesInv'
    <3>1. c \in Handles
      BY ParentIs
    <3>2. News(c, "spawned") \in Event /\ story' \in [Handles -> Seq(Kinds)]
      BY <2>4, <3>1, NewsType DEF EngineSpawns, Says, Kinds
    <3>3. inbox' \in [Handles -> Seq(Event)]
      BY <2>4, <3>2, PutType DEF EngineSpawns, TypesInv
    <3> QED
      BY <2>4, <3>2, <3>3 DEF EngineSpawns, TypesInv, HandleTypeOK
  <2> QED
    BY <1>3, <2>1, <2>2, <2>3, <2>4 DEF Engine
<1>4. ASSUME NEW h \in Handles, Unwinds(h)
      PROVE  TypesInv'
  <2>1. IsEager(h)
    BY <1>4, RunHandleAssumption DEF Unwinds, IsEager, TypesInv, HandleTypeOK, LifeInv
  <2> QED
    BY <1>4, <2>1, DriveEndsType DEF Unwinds, DriveEnds, TypesInv
<1>5. ASSUME NEW c \in Kids, Grant(c) \/ Redrive(c)
      PROVE  TypesInv'
  <2>1. StartEager(c) /\ UNCHANGED <<mode, step, made, owed, approvals, stream, reader, result>>
    BY <1>5 DEF Grant, Redrive
  <2> QED
    BY <2>1, StartType DEF TypesInv, HandleTypeOK
<1>6. ASSUME NEW c \in Kids, GrantFails(c)
      PROVE  TypesInv'
  BY <1>6, ParentIs DEF GrantFails, TypesInv, HandleTypeOK
<1>7. CASE DeliveryRaises
  <2> DEFINE forwarded == inbox[Root] # <<>>
  <2>1. Root \in Handles
    BY DEF Handles
  <2>2. forwarded => Head(inbox[Root]) \in Event /\ [inbox EXCEPT ![Root] = Tail(@)] \in [Handles -> Seq(Event)]
    BY <2>1, HeadType DEF TypesInv
  <2>3. ~forwarded => InHand(Root) \in Event
    BY <1>7, <2>1, InHandType DEF DeliveryRaises
  <2>4. stream' \in [Handles -> Seq(Event)]
    <3>1. ASSUME NEW e \in Event PROVE Put(stream, e.of, e) \in [Handles -> Seq(Event)]
      BY PutType DEF TypesInv, Event
    <3> QED
      BY <1>7, <2>2, <2>3, <3>1 DEF DeliveryRaises, TypesInv
  <2>5. PICK box \in [Handles -> Seq(Event)] : DriveEnds(Root, "failed", box)
    BY <1>7, <2>2 DEF DeliveryRaises, TypesInv
  <2> QED
    BY <2>1, <2>4, <2>5, DriveEndsType
<1>8. CASE Pull
  BY <1>8 DEF Pull, TypesInv, HandleTypeOK, Handles
<1>9. CASE PullCancelled
  <2>1. Append(approvals, "end") \in Seq({"gate", "end"})
    BY AppendProperties DEF TypesInv
  <2>2. inbox' = inbox /\ story' = story /\ registered' \in [Handles -> BOOLEAN]
    BY <1>9 DEF PullCancelled, PullEnds, Unregister, TypesInv
  <2> QED
    BY <1>9, <2>1, <2>2 DEF PullCancelled, PullEnds, CloseApprovals, TypesInv, HandleTypeOK
<1>10. CASE Leave
  <2>1. Append(approvals, "end") \in Seq({"gate", "end"})
    BY AppendProperties DEF TypesInv
  <2>2. inbox' = inbox /\ story' = story /\ registered' \in [Handles -> BOOLEAN] /\ approvals' \in Seq({"gate", "end"})
    BY <1>10, <2>1 DEF Leave, Unregister, CloseApprovals, TypesInv
  <2>3. tasks' \in [Handles -> {"none", "running", "cancelling", "done", "failed", "cancelled"}]
        /\ kid' \in [Kids -> {"unborn", "queued", "abandoned", "admitted"}]
    BY <1>10 DEF Leave, CancelDrives, TypesInv, HandleTypeOK
  <2>4. HandleTypeOK'
    <3>1. /\ step' \in [Handles -> {"none", "running", "event", "over", "failed"}]
          /\ engine' \in [Handles -> {"none", "on"}]
          /\ \A x \in Handles : step'[x] # "none" => engine'[x] = "on"
      <4>1. CASE CloseEngine(Root)
        BY <4>1 DEF CloseEngine, TypesInv, HandleTypeOK
      <4>2. CASE UNCHANGED <<engine, step>>
        BY <4>2 DEF TypesInv, HandleTypeOK
      <4> QED
        BY <1>10, <4>1, <4>2 DEF Leave
    <3> QED
      BY <1>10, <2>3, <3>1 DEF Leave, TypesInv, HandleTypeOK
  <2> QED
    BY <1>10, <2>2, <2>3, <2>4 DEF Leave, TypesInv
<1>11. CASE JoinCancelled
  BY <1>11 DEF JoinCancelled, TypesInv, HandleTypeOK, Handles
<1>12. CASE Read
  BY <1>12 DEF Read, TypesInv, HandleTypeOK
<1> QED
  BY <1>1, <1>2, <1>3, <1>4, <1>5, <1>6, <1>7, <1>8, <1>9, <1>10, <1>11, <1>12 DEF HandleNext

-----------------------------------------------------------------------------
(* Lives.                                                                      *)

\* The end of a drive that was going keeps track of who drives.
LEMMA DriveEndsLife ==
  ASSUME TypesInv, LifeInv, NEW h \in Handles, NEW how \in {"done", "failed", "cancelled"}, NEW box,
         IsEager(h) => tasks[h] \in {"running", "cancelling"},
         ~IsEager(h) => client = "pulling" /\ how # "cancelled",
         how = "cancelled" /\ h \in Kids => client = "left",
         DriveEnds(h, how, box)
  PROVE  LifeInv'
<1> USE DEF IsEager
<1>1. h # Root => h \in Kids
  BY DEF Handles
<1>2. UNCHANGED <<mode, kid>> /\ registered' = [registered EXCEPT ![h] = FALSE] /\ CloseEngine(h)
  BY DEF DriveEnds, TaskEnds, PullEnds, Unregister, pool
<1>3. CASE IsEager(h)
  <2>1. /\ tasks' = [tasks EXCEPT ![h] = how] /\ UNCHANGED client
        /\ result' = IF h = Root THEN how = "done" ELSE result
    BY <1>3 DEF DriveEnds, TaskEnds
  <2>2. \A x \in Handles : (x # Root \/ mode' = "eager") =>
            /\ registered'[x] <=> tasks'[x] \in {"running", "cancelling"}
            /\ engine'[x] = "on" => registered'[x]
    BY <1>2, <2>1 DEF TypesInv, HandleTypeOK, LifeInv, CloseEngine
  <2>3. \A c \in Kids : tasks'[c] = "none" <=> kid'[c] # "admitted"
    BY <1>2, <1>3, <2>1, ParentIs DEF TypesInv, HandleTypeOK, LifeInv
  <2>4. \A c \in Kids : tasks'[c] \in {"cancelling", "cancelled"} => client' = "left"
    BY <1>2, <2>1, ParentIs DEF TypesInv, HandleTypeOK, LifeInv
  <2>5. mode' = "lazy" => tasks'[Root] = "none"
    BY <1>2, <1>3, <2>1 DEF TypesInv, HandleTypeOK, LifeInv
  <2>6. mode' = "eager" => client' \in {"idle", "stopped"} /\ tasks'[Root] # "none"
    BY <1>2, <1>3, <2>1 DEF TypesInv, HandleTypeOK, LifeInv
  <2>7. result' => /\ IF mode' = "lazy" THEN client' \in {"stopped", "left"} ELSE tasks'[Root] = "done"
                   /\ engine'[Root] = "none" /\ ~registered'[Root]
    <3>1. CASE h = Root
      BY <1>2, <1>3, <2>1, <3>1, RunHandleAssumption DEF TypesInv, HandleTypeOK, LifeInv, CloseEngine
    <3>2. CASE h # Root
      BY <1>2, <2>1, <3>2 DEF TypesInv, HandleTypeOK, LifeInv, CloseEngine
    <3> QED
      BY <3>1, <3>2
  <2>8. mode' = "lazy" /\ client' = "stopped" => result'
    BY <1>2, <1>3, <2>1 DEF LifeInv
  <2> QED
    BY <2>2, <2>3, <2>4, <2>5, <2>6, <2>7, <2>8 DEF LifeInv
<1>4. CASE ~IsEager(h)
  <2>1. h = Root /\ mode = "lazy" /\ UNCHANGED tasks
    BY <1>4, RunHandleAssumption DEF DriveEnds, TypesInv, HandleTypeOK
  <2>2. client' = (IF how = "done" THEN "stopped" ELSE "error") /\ result' = (client' = "stopped")
    BY <1>4 DEF DriveEnds, PullEnds
  <2>3. \A c \in Kids : tasks[c] \notin {"cancelling", "cancelled"}
    BY <1>4 DEF LifeInv
  <2>4. engine'[Root] = "none" /\ ~registered'[Root]
    BY <1>2, <2>1 DEF TypesInv, HandleTypeOK, CloseEngine, Handles
  <2>5. \A c \in Kids : engine'[c] = engine[c] /\ registered'[c] = registered[c]
    BY <1>2, <2>1, ParentIs DEF TypesInv, HandleTypeOK, CloseEngine
  <2> QED
    BY <1>2, <2>1, <2>2, <2>3, <2>4, <2>5 DEF LifeInv, Handles
<1> QED
  BY <1>3, <1>4

\* A fan-in that is pulled belongs to a task that runs, or to a pull.
LEMMA PumpingIs ==
  ASSUME TypesInv, LifeInv, NEW h \in Handles, Pumping(h)
  PROVE  IF IsEager(h) THEN tasks[h] = "running" /\ registered[h]
         ELSE h = Root /\ mode = "lazy" /\ client = "pulling"
BY RunHandleAssumption DEF Pumping, IsEager, LifeInv, TypesInv, HandleTypeOK

\* A task that is cancelled is the task of an eager handle.
LEMMA CancellingIs ==
  ASSUME TypesInv, LifeInv, NEW h \in Handles, tasks[h] = "cancelling"
  PROVE  IsEager(h) /\ registered[h]
BY RunHandleAssumption DEF IsEager, LifeInv, TypesInv, HandleTypeOK

\* A step of the engine of an eager handle is one of a handle that drives.
LEMMA SteppingIs ==
  ASSUME TypesInv, LifeInv, NEW h \in Handles, step[h] # "none"
  PROVE  engine[h] = "on" /\ (IsEager(h) => registered[h] /\ tasks[h] \in {"running", "cancelling"})
BY DEF LifeInv, TypesInv, HandleTypeOK

\* Who drives is told right from the beginning.
LEMMA LifeInit == HandleInit => LifeInv
<1> SUFFICES ASSUME HandleInit
             PROVE  LifeInv
  OBVIOUS
<1>1. mode \in {"lazy", "eager"} /\ Root \notin Kids /\ Root \in Handles /\ Kids \subseteq Handles
  BY RunHandleAssumption DEF HandleInit, Handles
<1>2. \A h \in Handles : /\ tasks[h] = (IF h = Root /\ mode = "eager" THEN "running" ELSE "none")
                         /\ registered[h] = (h = Root /\ mode = "eager")
                         /\ engine[h] = (IF h = Root /\ mode = "eager" THEN "on" ELSE "none")
  BY DEF HandleInit
<1>3. \A c \in Kids : kid[c] = "unborn"
  BY DEF HandleInit
<1>4. client = "idle" /\ ~result
  BY DEF HandleInit
<1>5. \A h \in Handles :
         IsEager(h) => /\ registered[h] <=> tasks[h] \in {"running", "cancelling"}
                       /\ engine[h] = "on" => registered[h]
  BY <1>1, <1>2
<1>6. \A c \in Kids : tasks[c] = "none" /\ kid[c] # "admitted"
  BY <1>1, <1>2, <1>3
<1>7. (mode = "lazy" => tasks[Root] = "none") /\ (mode = "eager" => tasks[Root] # "none")
  BY <1>1, <1>2
<1>8. \A c \in Kids : tasks[c] = "none" <=> kid[c] # "admitted"
  BY <1>6
<1>9. mode = "eager" => client \in {"idle", "stopped"} /\ tasks[Root] # "none"
  BY <1>4, <1>7
<1>10. \A c \in Kids : tasks[c] \in {"cancelling", "cancelled"} => client = "left"
  BY <1>6
<1>11. result => /\ IF mode = "lazy" THEN client \in {"stopped", "left"} ELSE tasks[Root] = "done"
                 /\ engine[Root] = "none" /\ ~registered[Root]
  BY <1>4
<1>12. mode = "lazy" /\ client = "stopped" => result
  BY <1>4
<1> QED
  BY <1>5, <1>7, <1>8, <1>9, <1>10, <1>11, <1>12 DEF LifeInv

\* A step of nobody's task, task-wise: the lives are as they were.
LEMMA LifeSame ==
  ASSUME TypesInv, LifeInv, UNCHANGED <<mode, kid, tasks, registered, result>>,
         \A h \in Handles : engine'[h] = "on" => engine[h] = "on",
         client' = client \/ (mode = "lazy" /\ client = "pulling" /\ client' = "idle"),
         engine' \in [Handles -> {"none", "on"}]
  PROVE  LifeInv'
<1>1. \A h \in Handles : IsEager(h)' = IsEager(h)
  BY DEF IsEager
<1>2. Root \in Handles
  BY DEF Handles
<1>3. \A c \in Kids : tasks[c] \in {"cancelling", "cancelled"} => client' = "left"
  BY DEF LifeInv
<1> QED
  BY <1>1, <1>2, <1>3 DEF LifeInv

\* A start keeps track of who drives.
LEMMA StartLife ==
  ASSUME TypesInv, LifeInv, NEW c \in Kids, StartEager(c), UNCHANGED <<mode, client, result>>,
         tasks[c] \notin {"cancelling", "cancelled"}
  PROVE  LifeInv'
<1>1. c \in Handles /\ c # Root
  BY ParentIs
<1>2. /\ tasks' = [tasks EXCEPT ![c] = "running"] /\ engine' = [engine EXCEPT ![c] = "on"]
      /\ registered' = [registered EXCEPT ![c] = TRUE] /\ kid' = [kid EXCEPT ![c] = "admitted"]
  BY DEF StartEager
<1>3. \A h \in Handles : IsEager(h)' = IsEager(h)
  BY DEF IsEager
<1>4. \A h \in Handles : IsEager(h) => /\ registered'[h] <=> tasks'[h] \in {"running", "cancelling"}
                                       /\ engine'[h] = "on" => registered'[h]
  BY <1>1, <1>2 DEF LifeInv, TypesInv, HandleTypeOK
<1>5. tasks'[Root] = tasks[Root] /\ engine'[Root] = engine[Root] /\ registered'[Root] = registered[Root]
  BY <1>1, <1>2 DEF TypesInv, HandleTypeOK, Handles
<1>6. \A k \in Kids : /\ tasks'[k] = "none" <=> kid'[k] # "admitted"
                      /\ tasks'[k] \in {"cancelling", "cancelled"} => client' = "left"
  BY <1>1, <1>2 DEF LifeInv, TypesInv, HandleTypeOK, Handles
<1> QED
  BY <1>3, <1>4, <1>5, <1>6 DEF LifeInv

\* Every step keeps track of who drives.
LEMMA LifeStep ==
  ASSUME TypesInv, LifeInv, [HandleNext]_handleVars, TypesInv'
  PROVE  LifeInv'
<1> USE DEF pulls, pool, handles, reader
<1>1. CASE UNCHANGED handleVars
  BY <1>1 DEF handleVars, LifeInv, IsEager
<1>2. ASSUME NEW h \in Handles, FanIn(h)
      PROVE  LifeInv'
  <2>1. CASE Sleep(h)
    BY <2>1, LifeSame DEF Sleep, TypesInv, HandleTypeOK
  <2>2. ASSUME TakeForwarded(h) \/ TakeOwn(h) PROVE LifeInv'
    <3>1. Pumping(h) /\ UNCHANGED <<mode, kid, tasks, registered, result, engine>>
      BY <2>2 DEF TakeForwarded, TakeOwn, Idle
    <3>2. client' = client \/ (mode = "lazy" /\ client = "pulling" /\ client' = "idle")
      <4>1. CASE h = Root /\ mode # "eager"
        BY <2>2, <3>1, <4>1, PumpingIs DEF TakeForwarded, TakeOwn, HandOn, IsEager
      <4>2. CASE ~(h = Root /\ mode # "eager")
        BY <2>2, <4>2 DEF TakeForwarded, TakeOwn, HandOn
      <4> QED
        BY <4>1, <4>2
    <3> QED
      BY <3>1, <3>2, LifeSame DEF TypesInv, HandleTypeOK
  <2>3. CASE OwnOver(h)
    BY <2>3, LifeSame DEF OwnOver, CloseEngine, TypesInv, HandleTypeOK
  <2>4. ASSUME OwnFailed(h) \/ Stop(h) PROVE LifeInv'
    <3>1. Pumping(h)
      BY <2>4 DEF OwnFailed, Stop, Idle
    <3> QED
      BY <2>4, <3>1, PumpingIs, DriveEndsLife DEF OwnFailed, Stop
  <2> QED
    BY <1>2, <2>1, <2>2, <2>3, <2>4 DEF FanIn
<1>3. ASSUME NEW h \in Handles, Engine(h)
      PROVE  LifeInv'
  <2>1. CASE EngineYields(h) \/ EngineGates(h) \/ EngineEnds(h) \/ EngineFails(h)
    BY <2>1, LifeSame DEF EngineYields, EngineGates, EngineEnds, EngineFails, TypesInv, HandleTypeOK
  <2>2. ASSUME NEW c \in Kids, EngineSpawns(h, c)
        PROVE  LifeInv'
    <3>1. UNCHANGED <<mode, engine, tasks, registered, client, result>>
      BY <2>2 DEF EngineSpawns
    <3>2. \A k \in Kids : tasks'[k] = "none" <=> kid'[k] # "admitted"
      BY <2>2, <3>1 DEF EngineSpawns, LifeInv, TypesInv, HandleTypeOK
    <3> QED
      BY <3>1, <3>2 DEF LifeInv, IsEager
  <2> QED
    BY <1>3, <2>1, <2>2 DEF Engine
<1>4. ASSUME NEW h \in Handles, Unwinds(h)
      PROVE  LifeInv'
  <2>1. IsEager(h) /\ tasks[h] = "cancelling"
    BY <1>4, CancellingIs DEF Unwinds
  <2>2. DriveEnds(h, "cancelled", inbox)
    BY <1>4, <2>1 DEF Unwinds, DriveEnds
  <2>3. h \in Kids => client = "left"
    BY <2>1 DEF LifeInv
  <2> QED
    BY <2>1, <2>2, <2>3, DriveEndsLife
<1>5. ASSUME NEW c \in Kids, Grant(c) \/ Redrive(c)
      PROVE  LifeInv'
  <2>1. StartEager(c) /\ UNCHANGED <<mode, step, made, owed, approvals, stream, reader, result>>
    BY <1>5 DEF Grant, Redrive
  <2>2. tasks[c] \notin {"cancelling", "cancelled"}
    BY <1>5 DEF Grant, Redrive, LifeInv
  <2> QED
    BY <2>1, <2>2, StartLife
<1>6. ASSUME NEW c \in Kids, GrantFails(c)
      PROVE  LifeInv'
  <2>1. UNCHANGED <<mode, engine, tasks, registered, client, result>>
    BY <1>6 DEF GrantFails
  <2>2. \A k \in Kids : tasks'[k] = "none" <=> kid'[k] # "admitted"
    BY <1>6, <2>1 DEF GrantFails, LifeInv, TypesInv, HandleTypeOK
  <2> QED
    BY <2>1, <2>2 DEF LifeInv, IsEager
<1>7. CASE DeliveryRaises
  <2>1. Root \in Handles /\ Pumping(Root)
    BY <1>7 DEF Handles, DeliveryRaises
  <2>2. PICK box : DriveEnds(Root, "failed", box)
    BY <1>7 DEF DeliveryRaises
  <2> QED
    BY <2>1, <2>2, PumpingIs, DriveEndsLife
<1>8. CASE Pull
  <2>1. \A c \in Kids : c # Root /\ c \in Handles
    BY ParentIs
  <2>2. \A c \in Kids : engine'[c] = engine[c] /\ registered'[c] = registered[c]
    BY <1>8, <2>1 DEF Pull, TypesInv, HandleTypeOK
  <2> QED
    BY <1>8, <2>1, <2>2 DEF Pull, LifeInv, IsEager, Handles
<1>9. CASE PullCancelled
  <2>1. UNCHANGED <<mode, kid, tasks, engine>> /\ registered' = [registered EXCEPT ![Root] = FALSE]
        /\ mode = "lazy" /\ client = "pulling" /\ client' = "error" /\ result' = FALSE
    BY <1>9 DEF PullCancelled, PullEnds, Unregister
  <2>2. \A c \in Kids : c # Root /\ c \in Handles
    BY ParentIs
  <2> QED
    BY <2>1, <2>2 DEF LifeInv, IsEager, TypesInv, Handles
<1>10. CASE Leave
  <2>1. UNCHANGED <<mode, result>> /\ mode = "lazy" /\ client' = "left" /\ client \in {"idle", "stopped", "error", "refused"}
    BY <1>10 DEF Leave
  <2>2. \A c \in Kids : /\ tasks'[c] = IF tasks[c] = "running" THEN "cancelling" ELSE tasks[c]
                        /\ kid'[c] = IF kid[c] = "queued" THEN "abandoned" ELSE kid[c]
    BY <1>10, ParentIs DEF Leave, CancelDrives, Handles
  <2>3. tasks'[Root] = tasks[Root]
    BY <1>10 DEF Leave, CancelDrives, Handles
  <2>4. \A c \in Kids : engine'[c] = engine[c] /\ registered'[c] = registered[c]
    BY <1>10, ParentIs DEF Leave, CloseEngine, Unregister, TypesInv, HandleTypeOK
  <2>5. (engine[Root] = "none" => engine'[Root] = "none") /\ (~registered[Root] => ~registered'[Root])
    BY <1>10 DEF Leave, CloseEngine, Unregister, TypesInv, HandleTypeOK, Handles
  <2>6. \A c \in Kids : c \in Handles /\ c # Root
    BY ParentIs
  <2>7. \A c \in Kids : tasks'[c] = "none" <=> kid'[c] # "admitted"
    BY <2>2 DEF LifeInv
  <2>8. \A h \in Handles : IsEager(h)' => /\ registered'[h] <=> tasks'[h] \in {"running", "cancelling"}
                                          /\ engine'[h] = "on" => registered'[h]
    BY <2>1, <2>2, <2>4, <2>6 DEF LifeInv, IsEager, Handles
  <2> QED
    BY <2>1, <2>2, <2>3, <2>5, <2>6, <2>7, <2>8 DEF LifeInv
<1>11. CASE JoinCancelled
  <2>1. \A c \in Kids : c # Root /\ c \in Handles
    BY ParentIs
  <2>2. UNCHANGED <<mode, kid, client, engine, registered, result>> /\ mode = "eager" /\ tasks[Root] = "running"
    BY <1>11 DEF JoinCancelled
  <2>3. tasks'[Root] = "cancelling" /\ \A c \in Kids : tasks'[c] = tasks[c]
    BY <1>11, <2>1 DEF JoinCancelled, TypesInv, HandleTypeOK, Handles
  <2> QED
    BY <2>1, <2>2, <2>3 DEF LifeInv, IsEager, Handles
<1>12. CASE Read
  <2>1. UNCHANGED <<mode, kid, tasks, registered, result, engine>> /\ mode = "eager" /\ client' \in {"idle", "stopped"}
    BY <1>12 DEF Read
  <2>2. \A c \in Kids : tasks[c] \notin {"cancelling", "cancelled"}
    BY <1>12 DEF Read, LifeInv
  <2>3. mode # "lazy"
    BY <2>1
  <2> QED
    BY <2>1, <2>2, <2>3 DEF LifeInv, IsEager
<1> QED
  BY <1>1, <1>2, <1>3, <1>4, <1>5, <1>6, <1>7, <1>8, <1>9, <1>10, <1>11, <1>12 DEF HandleNext

-----------------------------------------------------------------------------
(* The approvals stream.                                                       *)

\* The sentinel, where there is one, is the last thing in the stream.
EndLast == \A i \in DOMAIN approvals : approvals[i] = "end" => i = Len(approvals)

\* What is put into a stream that is open stays behind what is there.
LEMMA ApprovalsGrow ==
  ASSUME TypesInv, EndLast, ~ApprovalsClosed, NEW x \in {"gate", "end"},
         approvals' = Append(approvals, x)
  PROVE  EndLast' /\ (x = "end" => ApprovalsClosed')
<1>1. approvals \in Seq({"gate", "end"})
  BY DEF TypesInv
<1>2. /\ Len(approvals') = Len(approvals) + 1 /\ Len(approvals) \in Nat
      /\ approvals'[Len(approvals) + 1] = x
      /\ \A i \in 1 .. Len(approvals) : approvals'[i] = approvals[i]
  BY <1>1, AppendProperties, LenProperties
<1>3. \A i \in 1 .. Len(approvals) : approvals[i] # "end"
  BY <1>1, EmptySeq DEF EndLast, ApprovalsClosed
<1>4. DOMAIN approvals' = 1 .. Len(approvals')
  BY <1>1, AppendProperties, LenProperties
<1>5. approvals' # <<>>
  BY <1>1, AppendProperties
<1> QED
  BY <1>2, <1>3, <1>4, <1>5 DEF EndLast, ApprovalsClosed

\* The sentinel of the root closes its stream; other handles leave it.
LEMMA ApprovalsClose ==
  ASSUME TypesInv, EndLast, NEW h \in Handles, CloseApprovals(h)
  PROVE  /\ EndLast' /\ (ApprovalsClosed => ApprovalsClosed') /\ (h = Root => ApprovalsClosed')
<1>1. CASE h # Root \/ ApprovalsClosed
  BY <1>1 DEF CloseApprovals, EndLast, ApprovalsClosed
<1>2. CASE ~(h # Root \/ ApprovalsClosed)
  BY <1>2, ApprovalsGrow DEF CloseApprovals
<1> QED
  BY <1>1, <1>2

\* The end of a drive closes the stream of the root, and no other.
LEMMA DriveEndsApprovals ==
  ASSUME TypesInv, EndLast, NEW h \in Handles, NEW how, NEW box, DriveEnds(h, how, box)
  PROVE  /\ EndLast' /\ (ApprovalsClosed => ApprovalsClosed') /\ (h = Root => ApprovalsClosed')
<1>1. CASE IsEager(h)
  BY <1>1, ApprovalsClose DEF DriveEnds, TaskEnds
<1>2. CASE ~IsEager(h)
  BY <1>2, ApprovalsClose DEF DriveEnds, PullEnds, IsEager, Handles
<1> QED
  BY <1>1, <1>2

\* Before any step the stream is empty.
LEMMA ApprovalsInit == HandleInit => ApprovalsInv
<1> SUFFICES ASSUME HandleInit PROVE ApprovalsInv
  OBVIOUS
<1>1. client = "idle" /\ DOMAIN approvals = {}
  BY DEF HandleInit
<1>2. mode = "eager" => tasks[Root] = "running"
  BY DEF HandleInit, Handles
<1> QED
  BY <1>1, <1>2 DEF ApprovalsInv, SentinelLast, Over

\* What a step does to the approvals stream.
LEMMA ApprovalsKept ==
  ASSUME TypesInv, LifeInv, EndLast, [HandleNext]_handleVars
  PROVE  /\ EndLast' /\ (ApprovalsClosed => ApprovalsClosed')
<1> USE DEF pulls, pool, handles, reader
<1>1. CASE UNCHANGED approvals
  BY <1>1 DEF EndLast, ApprovalsClosed
<1>2. ASSUME NEW h \in Handles, EngineGates(h)
      PROVE  EndLast' /\ (ApprovalsClosed => ApprovalsClosed')
  BY <1>1, <1>2, ApprovalsGrow DEF EngineGates
<1>3. ASSUME NEW h \in Handles, OwnFailed(h) \/ Stop(h) \/ Unwinds(h)
      PROVE  EndLast' /\ (ApprovalsClosed => ApprovalsClosed')
  <2>1. CASE OwnFailed(h) \/ Stop(h)
    BY <2>1, DriveEndsApprovals DEF OwnFailed, Stop
  <2>2. CASE Unwinds(h)
    BY <2>2, ApprovalsClose DEF Unwinds, TaskEnds
  <2> QED
    BY <1>3, <2>1, <2>2
<1>4. CASE DeliveryRaises
  <2>1. PICK box : DriveEnds(Root, "failed", box)
    BY <1>4 DEF DeliveryRaises
  <2> QED
    BY <2>1, DriveEndsApprovals DEF Handles
<1>5. CASE PullCancelled \/ Leave
  <2>1. CASE CloseApprovals(Root)
    BY <2>1, ApprovalsClose DEF Handles
  <2> QED
    BY <1>1, <1>5, <2>1 DEF PullCancelled, PullEnds, Leave
<1>6. ASSUME NEW h \in Handles, Sleep(h) \/ TakeForwarded(h) \/ TakeOwn(h) \/ OwnOver(h)
      PROVE  UNCHANGED approvals
  BY <1>6 DEF Sleep, TakeForwarded, TakeOwn, OwnOver
<1>7. ASSUME NEW h \in Handles, EngineYields(h) \/ EngineEnds(h) \/ EngineFails(h)
                                \/ \E c \in Kids : EngineSpawns(h, c)
      PROVE  UNCHANGED approvals
  BY <1>7 DEF EngineYields, EngineEnds, EngineFails, EngineSpawns
<1>8. ASSUME NEW c \in Kids, Grant(c) \/ GrantFails(c) \/ Redrive(c)
      PROVE  UNCHANGED approvals
  BY <1>8 DEF Grant, GrantFails, Redrive
<1>9. CASE Pull \/ JoinCancelled \/ Read \/ UNCHANGED handleVars
  BY <1>1, <1>9 DEF Pull, JoinCancelled, Read, handleVars
<1> QED
  BY <1>1, <1>2, <1>3, <1>4, <1>5, <1>6, <1>7, <1>8, <1>9 DEF HandleNext, FanIn, Engine

\* A drive that is over closed the approvals stream, and stays over.
LEMMA ApprovalsStep ==
  ASSUME TypesInv, LifeInv, ApprovalsInv, [HandleNext]_handleVars, TypesInv', LifeInv'
  PROVE  ApprovalsInv'
<1> USE DEF pulls, pool, handles, reader
<1> DEFINE Ended == client \in {"stopped", "error"} \/ (mode = "eager" /\ Over(tasks[Root]))
           Stopped == mode = "eager" /\ client = "stopped" => Over(tasks[Root])
<1>1. EndLast /\ (Ended => ApprovalsClosed) /\ Stopped
  BY DEF ApprovalsInv, SentinelLast, EndLast
<1>2. EndLast' /\ (ApprovalsClosed => ApprovalsClosed')
  BY <1>1, ApprovalsKept
<1>3. mode \in {"lazy", "eager"} /\ Root \in Handles /\ \A c \in Kids : c # Root /\ c \in Handles
  BY RunHandleAssumption, ParentIs DEF TypesInv, HandleTypeOK, Handles
<1>4. (Ended' => ApprovalsClosed') /\ Stopped'
  <2>1. CASE UNCHANGED <<mode, client>> /\ tasks'[Root] = tasks[Root]
    BY <1>1, <1>2, <2>1 DEF Over
  <2>2. ASSUME NEW h \in Handles, NEW how \in {"done", "failed", "cancelled"}, NEW box,
               DriveEnds(h, how, box), Pumping(h) \/ tasks[h] = "cancelling"
        PROVE  (Ended' => ApprovalsClosed') /\ Stopped'
    <3>1. UNCHANGED mode
      BY <2>2 DEF DriveEnds
    <3>2. CASE h = Root
      <4>1. ApprovalsClosed'
        BY <1>1, <2>2, <3>2, DriveEndsApprovals
      <4>2. mode = "eager" => UNCHANGED client /\ tasks'[Root] = how
        BY <2>2, <3>2, <1>3 DEF DriveEnds, TaskEnds, IsEager, TypesInv, HandleTypeOK
      <4> QED
        BY <3>1, <4>1, <4>2 DEF Over
    <3>3. CASE h # Root
      <4>1. UNCHANGED client /\ tasks'[Root] = tasks[Root]
        BY <2>2, <3>3, <1>3 DEF DriveEnds, TaskEnds, IsEager, TypesInv, HandleTypeOK
      <4> QED
        BY <2>1, <3>1, <4>1
    <3> QED
      BY <3>2, <3>3
  <2>3. ASSUME NEW h \in Handles, FanIn(h) \/ Unwinds(h)
        PROVE  (Ended' => ApprovalsClosed') /\ Stopped'
    <3>1. CASE Sleep(h) \/ OwnOver(h)
      BY <2>1, <3>1 DEF Sleep, OwnOver
    <3>2. CASE TakeForwarded(h) \/ TakeOwn(h)
      <4>1. UNCHANGED <<mode, tasks>> /\ Pumping(h)
        BY <3>2 DEF TakeForwarded, TakeOwn, Idle
      <4>2. client' = client \/ (mode = "lazy" /\ client' = "idle")
        BY <1>3, <3>2 DEF TakeForwarded, TakeOwn, HandOn
      <4> QED
        BY <2>1, <4>1, <4>2
    <3>3. CASE OwnFailed(h) \/ Stop(h)
      BY <2>2, <3>3 DEF OwnFailed, Stop, Idle
    <3>4. CASE Unwinds(h)
      <4>1. IsEager(h) /\ tasks[h] = "cancelling"
        BY <3>4, CancellingIs DEF Unwinds
      <4>2. DriveEnds(h, "cancelled", inbox)
        BY <3>4, <4>1 DEF Unwinds, DriveEnds
      <4> QED
        BY <2>2, <4>1, <4>2
    <3> QED
      BY <2>3, <3>1, <3>2, <3>3, <3>4 DEF FanIn
  <2>4. ASSUME NEW h \in Handles, Engine(h)
        PROVE  (Ended' => ApprovalsClosed') /\ Stopped'
    BY <2>1, <2>4 DEF Engine, EngineYields, EngineGates, EngineEnds, EngineFails, EngineSpawns
  <2>5. ASSUME NEW c \in Kids, Grant(c) \/ GrantFails(c) \/ Redrive(c)
        PROVE  (Ended' => ApprovalsClosed') /\ Stopped'
    <3>1. UNCHANGED <<mode, client>>
      BY <2>5 DEF Grant, GrantFails, Redrive
    <3>2. tasks' = tasks \/ tasks' = [tasks EXCEPT ![c] = "running"]
      BY <2>5 DEF Grant, GrantFails, Redrive, StartEager
    <3>3. tasks'[Root] = tasks[Root]
      <4>1. c # Root /\ Root \in DOMAIN tasks
        BY <1>3, RunHandleAssumption DEF TypesInv, HandleTypeOK, Handles
      <4> QED
        BY <3>2, <4>1
    <3> QED
      BY <2>1, <3>1, <3>3
  <2>6. CASE DeliveryRaises
    BY <1>3, <2>2, <2>6 DEF DeliveryRaises
  <2>7. CASE PullCancelled
    <3>1. ApprovalsClosed' /\ UNCHANGED mode /\ mode = "lazy"
      BY <1>1, <1>3, <2>7, ApprovalsClose DEF PullCancelled, PullEnds
    <3> QED
      BY <3>1
  <2>8. CASE Pull \/ Leave
    <3>1. mode = "lazy" /\ UNCHANGED mode /\ client' \notin {"stopped", "error"}
      BY <2>8 DEF Pull, Leave
    <3> QED
      BY <3>1
  <2>9. CASE JoinCancelled
    BY <1>1, <1>2, <1>3, <2>9 DEF JoinCancelled, Over, TypesInv, HandleTypeOK
  <2>10. CASE Read
    BY <1>1, <1>2, <2>10 DEF Read, Over
  <2>11. CASE UNCHANGED handleVars
    BY <2>1, <2>11 DEF handleVars
  <2> QED
    BY <2>3, <2>4, <2>5, <2>6, <2>7, <2>8, <2>9, <2>10, <2>11 DEF HandleNext
<1> QED
  BY <1>2, <1>4 DEF ApprovalsInv, SentinelLast, EndLast

-----------------------------------------------------------------------------
(* What is said.                                                               *)

\* What is said last, and what was said before it.
LEMMA AppendIs ==
  ASSUME NEW S, NEW s \in Seq(S), NEW k \in S
  PROVE  /\ Append(s, k) \in Seq(S) /\ Append(s, k) # <<>> /\ Last(Append(s, k)) = k
         /\ Len(s) \in Nat /\ Len(Append(s, k)) = Len(s) + 1
         /\ DOMAIN s = 1 .. Len(s) /\ DOMAIN Append(s, k) = 1 .. (Len(s) + 1)
         /\ Append(s, k)[Len(s) + 1] = k
         /\ \A i \in 1 .. Len(s) : Append(s, k)[i] = s[i]
<1>1. /\ Append(s, k) \in Seq(S) /\ Append(s, k) # <<>> /\ Len(Append(s, k)) = Len(s) + 1
      /\ Append(s, k)[Len(s) + 1] = k /\ \A i \in 1 .. Len(s) : Append(s, k)[i] = s[i]
  BY AppendProperties
<1>2. Len(s) \in Nat /\ DOMAIN s = 1 .. Len(s)
  BY LenProperties
<1>3. DOMAIN Append(s, k) = 1 .. Len(Append(s, k))
  BY <1>1, LenProperties
<1> QED
  BY <1>1, <1>2, <1>3 DEF Last

\* A story goes on: a spawn begins it, a start follows a spawn or an end, and an
\* own event or an end follows a start.
LEMMA FollowsOn ==
  ASSUME NEW s \in Seq(Kinds), Follows(s), NEW k \in Kinds,
         k = "spawned" => s = <<>>,
         k = "started" => s # <<>> /\ Last(s) \in {"spawned", "ended"},
         k \in {"own", "ended"} => s # <<>> /\ Last(s) \in {"started", "own"}
  PROVE  Follows(Append(s, k))
<1> DEFINE t == Append(s, k)
<1>1. /\ Len(s) \in Nat /\ DOMAIN s = 1 .. Len(s) /\ DOMAIN t = 1 .. (Len(s) + 1)
      /\ t[Len(s) + 1] = k /\ \A i \in 1 .. Len(s) : t[i] = s[i]
  BY AppendIs
<1>2. s = <<>> <=> Len(s) = 0
  BY EmptySeq, LenProperties
<1>3. k \in {"spawned", "started", "own", "ended"}
  BY DEF Kinds
<1> HIDE DEF t
<1>4. ASSUME NEW i \in 1 .. Len(s)
      PROVE  FollowsAt(t, i)
  <2>1. t[i] = s[i] /\ (i > 1 => i - 1 \in 1 .. Len(s) /\ t[i - 1] = s[i - 1])
    BY <1>1
  <2> QED
    BY <1>1, <2>1 DEF Follows, FollowsAt
<1>5. CASE Len(s) = 0
  <2>1. k = "spawned"
    BY <1>2, <1>3, <1>5
  <2> QED
    BY <1>1, <1>5, <2>1 DEF Follows, FollowsAt, t
<1>6. CASE Len(s) # 0
  <2>1. Len(s) \in 1 .. Len(s) /\ Len(s) + 1 > 1 /\ (Len(s) + 1) - 1 = Len(s) /\ t[Len(s)] = Last(s)
    BY <1>1, <1>6 DEF Last
  <2>2. k # "spawned"
    BY <1>2, <1>6
  <2>3. FollowsAt(t, Len(s) + 1)
    BY <1>1, <1>2, <1>3, <1>6, <2>1, <2>2 DEF FollowsAt
  <2>4. \A i \in DOMAIN t : i \in 1 .. Len(s) \/ i = Len(s) + 1
    BY <1>1
  <2>5. \A i \in DOMAIN t : FollowsAt(t, i)
    BY <1>4, <2>3, <2>4
  <2> QED
    BY <2>5 DEF Follows, t
<1> QED
  BY <1>1, <1>5, <1>6

\* What has been said of a subagent agrees with where it is.
StoryOf(c) ==
  /\ Follows(story[c])
  /\ kid[c] = "unborn" <=> story[c] = <<>>
  /\ kid[c] = "queued" => Last(story[c]) = "spawned"
  /\ registered[c] => Last(story[c]) \in {"started", "own"}
  /\ kid[c] = "admitted" /\ ~registered[c] => Last(story[c]) = "ended"

\* The step in hand is the last thing said.
HandOf(h) == step[h] = "event" => story[h] # <<>> /\ Last(story[h]) = "own"

\* A subagent that is registered was spawned and started.
LEMMA RegisteredIs ==
  ASSUME TypesInv, LifeInv, SaidInv, NEW c \in Kids, registered[c]
  PROVE  kid[c] = "admitted" /\ story[c] # <<>> /\ Last(story[c]) \in {"started", "own"} /\ Follows(story[c])
<1>1. c \in Handles /\ c # Root
  BY ParentIs
<1>2. tasks[c] \in {"running", "cancelling"}
  BY <1>1 DEF LifeInv, IsEager
<1> QED
  BY <1>2 DEF LifeInv, SaidInv

\* The end of a drive is said, once, of the subagent it is the end of.
LEMMA DriveEndsSaid ==
  ASSUME TypesInv, LifeInv, SaidInv, NEW h \in Handles, NEW how, NEW box,
         IsEager(h) => registered[h], DriveEnds(h, how, box)
  PROVE  SaidInv'
<1>1. UNCHANGED kid /\ registered' = [registered EXCEPT ![h] = FALSE] /\ CloseEngine(h)
  BY DEF DriveEnds, TaskEnds, PullEnds, Unregister, IsEager, pool
<1>2. Unregister(h, box)
  <2>1. CASE IsEager(h)
    BY <2>1 DEF DriveEnds, TaskEnds
  <2>2. CASE ~IsEager(h)
    BY <2>2 DEF DriveEnds, PullEnds, IsEager
  <2> QED
    BY <2>1, <2>2
<1>3. \A c \in Kids : c # Root /\ c \in Handles
  BY ParentIs
<1>4. story' = IF h = Root THEN story ELSE [story EXCEPT ![h] = Append(@, "ended")]
  BY <1>2 DEF Unregister, Says, IsEager
<1>5. \A x \in Handles : story[x] \in Seq(Kinds)
  BY DEF TypesInv
<1>6. ASSUME NEW c \in Kids, c # h PROVE StoryOf(c)'
  <2>1. story'[c] = story[c] /\ registered'[c] = registered[c] /\ kid'[c] = kid[c]
    BY <1>1, <1>3, <1>4, <1>6 DEF TypesInv
  <2> QED
    BY <2>1 DEF StoryOf, SaidInv
<1>7. ASSUME NEW c \in Kids, c = h PROVE StoryOf(c)'
  <2>1. registered[c] /\ story'[c] = Append(story[c], "ended") /\ ~registered'[c] /\ kid'[c] = kid[c]
    BY <1>1, <1>3, <1>4, <1>7 DEF TypesInv, IsEager
  <2>2. kid[c] = "admitted" /\ story[c] # <<>> /\ Last(story[c]) \in {"started", "own"} /\ Follows(story[c])
    BY <2>1, RegisteredIs
  <2>3. "ended" \in Kinds /\ story[c] \in Seq(Kinds)
    BY <1>3, <1>5 DEF Kinds
  <2>4. Follows(Append(story[c], "ended"))
    BY <2>2, <2>3, FollowsOn
  <2>5. Append(story[c], "ended") # <<>> /\ Last(Append(story[c], "ended")) = "ended"
    BY <2>3, AppendIs
  <2> QED
    BY <2>1, <2>2, <2>4, <2>5 DEF StoryOf
<1>8. \A x \in Handles : HandOf(x)'
  <2>1. \A x \in Handles : x # h => story'[x] = story[x] /\ step'[x] = step[x]
    BY <1>1, <1>4 DEF CloseEngine, TypesInv, HandleTypeOK
  <2>2. step'[h] = "none"
    BY <1>1 DEF CloseEngine, TypesInv, HandleTypeOK
  <2> QED
    BY <2>1, <2>2 DEF HandOf, SaidInv
<1> QED
  BY <1>6, <1>7, <1>8 DEF SaidInv, StoryOf, HandOf

\* A start is said of a subagent that was spawned or ended.
LEMMA StartSaid ==
  ASSUME TypesInv, LifeInv, SaidInv, NEW c \in Kids, StartEager(c), UNCHANGED step,
         kid[c] = "queued" \/ (kid[c] = "admitted" /\ ~registered[c])
  PROVE  SaidInv'
<1>1. c \in Handles /\ \A k \in Kids : k # Root /\ k \in Handles
  BY ParentIs
<1>2. /\ story' = [story EXCEPT ![c] = Append(@, "started")]
      /\ registered' = [registered EXCEPT ![c] = TRUE] /\ kid' = [kid EXCEPT ![c] = "admitted"]
  BY DEF StartEager, Says
<1>3. \A x \in Handles : story[x] \in Seq(Kinds)
  BY DEF TypesInv
<1>4. \A k \in Kids : k # c => StoryOf(k)'
  <2>1. \A k \in Kids : k # c => story'[k] = story[k] /\ registered'[k] = registered[k] /\ kid'[k] = kid[k]
    BY <1>1, <1>2 DEF TypesInv, HandleTypeOK
  <2> QED
    BY <2>1 DEF StoryOf, SaidInv
<1>5. "started" \in Kinds
  BY DEF Kinds
<1>6. story[c] # <<>> /\ Last(story[c]) \in {"spawned", "ended"} /\ Follows(story[c])
  BY DEF SaidInv
<1>7. Follows(Append(story[c], "started"))
  BY <1>1, <1>3, <1>5, <1>6, FollowsOn
<1>8. Append(story[c], "started") # <<>> /\ Last(Append(story[c], "started")) = "started"
  BY <1>1, <1>3, <1>5, AppendIs
<1>9. story'[c] = Append(story[c], "started") /\ registered'[c] /\ kid'[c] = "admitted"
  BY <1>1, <1>2 DEF TypesInv, HandleTypeOK
<1>10. StoryOf(c)'
  BY <1>7, <1>8, <1>9 DEF StoryOf
<1>11. ~registered[c]
  BY <1>1 DEF LifeInv, IsEager
<1>12. step[c] = "none"
  BY <1>1, <1>11 DEF LifeInv, IsEager, TypesInv, HandleTypeOK
<1>13. \A x \in Handles : HandOf(x)'
  <2>1. \A x \in Handles : x # c => story'[x] = story[x]
    BY <1>1, <1>2 DEF TypesInv
  <2> QED
    BY <1>12, <2>1 DEF HandOf, SaidInv
<1> QED
  BY <1>4, <1>10, <1>13 DEF SaidInv, StoryOf, HandOf

\* Where nothing is said, nothing queued is started and nobody is registered anew,
\* the stories are as they were.
LEMMA SaidSame ==
  ASSUME TypesInv, SaidInv, UNCHANGED story,
         \A c \in Kids : /\ registered'[c] = registered[c]
                         /\ kid'[c] = kid[c] \/ (kid[c] = "queued" /\ kid'[c] = "abandoned"),
         \A h \in Handles : step'[h] = "event" => step[h] = "event"
  PROVE  SaidInv'
<1>1. \A c \in Kids : StoryOf(c)'
  BY DEF StoryOf, SaidInv
<1>2. \A h \in Handles : HandOf(h)'
  BY DEF HandOf, SaidInv
<1> QED
  BY <1>1, <1>2 DEF SaidInv, StoryOf, HandOf

\* Nothing has been said of anybody.
LEMMA SaidInit == HandleInit => SaidInv
<1> SUFFICES ASSUME HandleInit PROVE SaidInv
  OBVIOUS
<1>1. \A c \in Kids : c \in Handles /\ c # Root /\ story[c] = <<>> /\ kid[c] = "unborn" /\ ~registered[c]
  BY ParentIs DEF HandleInit
<1>2. Follows(<<>>)
  BY DEF Follows
<1>3. \A h \in Handles : step[h] = "none"
  BY DEF HandleInit
<1> QED
  BY <1>1, <1>2, <1>3 DEF SaidInv

\* Every step keeps the stories.
LEMMA SaidStep ==
  ASSUME TypesInv, LifeInv, SaidInv, [HandleNext]_handleVars
  PROVE  SaidInv'
<1> USE DEF pulls, pool, handles, reader
<1>1. \A c \in Kids : c # Root /\ c \in Handles
  BY ParentIs
<1>2. \A x \in Handles : story[x] \in Seq(Kinds)
  BY DEF TypesInv
<1>3. CASE UNCHANGED handleVars
  BY <1>3, SaidSame DEF handleVars
<1>4. ASSUME NEW h \in Handles, FanIn(h)
      PROVE  SaidInv'
  <2>1. CASE Sleep(h)
    BY <2>1, SaidSame DEF Sleep, TypesInv, HandleTypeOK
  <2>2. CASE TakeForwarded(h)
    BY <2>2, SaidSame DEF TakeForwarded
  <2>3. CASE TakeOwn(h)
    BY <2>3, SaidSame DEF TakeOwn, TypesInv, HandleTypeOK
  <2>4. CASE OwnOver(h)
    BY <2>4, SaidSame DEF OwnOver, CloseEngine, TypesInv, HandleTypeOK
  <2>5. CASE OwnFailed(h) \/ Stop(h)
    BY <2>5, PumpingIs, DriveEndsSaid DEF OwnFailed, Stop, Idle
  <2> QED
    BY <1>4, <2>1, <2>2, <2>3, <2>4, <2>5 DEF FanIn
<1>5. ASSUME NEW h \in Handles, EngineYields(h) \/ EngineGates(h)
      PROVE  SaidInv'
  <2>1. /\ story' = [story EXCEPT ![h] = Append(@, "own")] /\ step' = [step EXCEPT ![h] = "event"]
        /\ UNCHANGED <<kid, registered>> /\ step[h] = "running"
    BY <1>5 DEF EngineYields, EngineGates, Ready, Says
  <2>2. "own" \in Kinds
    BY DEF Kinds
  <2>3. Append(story[h], "own") # <<>> /\ Last(Append(story[h], "own")) = "own"
    BY <1>2, <2>2, AppendIs
  <2>4. story'[h] = Append(story[h], "own") /\ \A x \in Handles : x # h => story'[x] = story[x]
    BY <2>1 DEF TypesInv
  <2>5. ASSUME NEW c \in Kids PROVE StoryOf(c)'
    <3>1. CASE c # h
      BY <1>1, <2>1, <2>4, <3>1 DEF StoryOf, SaidInv
    <3>2. CASE c = h
      <4>1. registered[c]
        BY <1>1, <2>1, <3>2, SteppingIs DEF IsEager
      <4>2. kid[c] = "admitted" /\ story[c] # <<>> /\ Last(story[c]) \in {"started", "own"} /\ Follows(story[c])
        BY <4>1, RegisteredIs
      <4>3. Follows(Append(story[c], "own"))
        BY <1>1, <1>2, <2>2, <4>2, FollowsOn
      <4> QED
        BY <2>1, <2>3, <2>4, <3>2, <4>1, <4>2, <4>3 DEF StoryOf
    <3> QED
      BY <3>1, <3>2
  <2>6. \A x \in Handles : HandOf(x)'
    BY <2>1, <2>3, <2>4 DEF HandOf, SaidInv, TypesInv, HandleTypeOK
  <2> QED
    BY <2>5, <2>6 DEF SaidInv, StoryOf, HandOf
<1>6. ASSUME NEW h \in Handles, EngineEnds(h) \/ EngineFails(h)
      PROVE  SaidInv'
  BY <1>6, SaidSame DEF EngineEnds, EngineFails, Ready, TypesInv, HandleTypeOK
<1>7. ASSUME NEW h \in Handles, NEW c \in Kids, EngineSpawns(h, c)
      PROVE  SaidInv'
  <2>1. /\ story' = [story EXCEPT ![c] = Append(@, "spawned")] /\ kid' = [kid EXCEPT ![c] = "queued"]
        /\ kid[c] = "unborn" /\ UNCHANGED <<step, registered>>
    BY <1>7 DEF EngineSpawns, Says
  <2>2. story[c] = <<>>
    BY <2>1 DEF SaidInv
  <2> "spawned" \in Kinds
    BY DEF Kinds
  <2>3. Append(story[c], "spawned") # <<>> /\ Last(Append(story[c], "spawned")) = "spawned"
    BY <1>1, <1>2, AppendIs
  <2>4. Follows(Append(story[c], "spawned"))
    BY <1>1, <1>2, <2>2, FollowsOn DEF SaidInv
  <2>5. story'[c] = Append(story[c], "spawned") /\ \A x \in Handles : x # c => story'[x] = story[x]
    BY <1>1, <2>1 DEF TypesInv
  <2>6. ~registered[c]
    BY <2>1, RegisteredIs
  <2>7. kid'[c] = "queued" /\ \A k \in Kids : k # c => kid'[k] = kid[k]
    BY <2>1 DEF TypesInv, HandleTypeOK
  <2>8. StoryOf(c)'
    BY <2>1, <2>3, <2>4, <2>5, <2>6, <2>7 DEF StoryOf
  <2>9. \A k \in Kids : k # c => StoryOf(k)'
    BY <1>1, <2>1, <2>5, <2>7 DEF StoryOf, SaidInv
  <2>10. step[c] # "event"
    BY <1>1, <2>2 DEF SaidInv
  <2>11. \A x \in Handles : HandOf(x)'
    BY <2>1, <2>5, <2>10 DEF HandOf, SaidInv
  <2> QED
    BY <2>8, <2>9, <2>11 DEF SaidInv, StoryOf, HandOf
<1>8. ASSUME NEW h \in Handles, Unwinds(h)
      PROVE  SaidInv'
  <2>1. IsEager(h) /\ registered[h]
    BY <1>8, CancellingIs DEF Unwinds
  <2>2. DriveEnds(h, "cancelled", inbox)
    BY <1>8, <2>1 DEF Unwinds, DriveEnds
  <2> QED
    BY <2>1, <2>2, DriveEndsSaid
<1>9. ASSUME NEW c \in Kids, Grant(c) \/ Redrive(c)
      PROVE  SaidInv'
  <2>1. StartEager(c) /\ UNCHANGED step
    BY <1>9 DEF Grant, Redrive
  <2>2. kid[c] = "queued" \/ (kid[c] = "admitted" /\ ~registered[c])
    BY <1>1, <1>9 DEF Grant, Redrive, LifeInv, IsEager
  <2> QED
    BY <2>1, <2>2, StartSaid
<1>10. ASSUME NEW c \in Kids, GrantFails(c)
       PROVE  SaidInv'
  <2>1. \A k \in Kids : kid'[k] = kid[k] \/ (kid[k] = "queued" /\ kid'[k] = "abandoned")
    BY <1>10 DEF GrantFails, TypesInv, HandleTypeOK
  <2> QED
    BY <1>10, <2>1, SaidSame DEF GrantFails
<1>11. CASE DeliveryRaises
  <2>1. Root \in Handles /\ Pumping(Root)
    BY <1>11 DEF Handles, DeliveryRaises
  <2>2. PICK box : DriveEnds(Root, "failed", box)
    BY <1>11 DEF DeliveryRaises
  <2> QED
    BY <2>1, <2>2, PumpingIs, DriveEndsSaid
<1>12. CASE Pull
  <2>1. \A c \in Kids : registered'[c] = registered[c]
    BY <1>1, <1>12 DEF Pull, TypesInv
  <2> QED
    BY <1>12, <2>1, SaidSame DEF Pull
<1>13. CASE PullCancelled
  <2>1. UNCHANGED <<story, kid, step>> /\ registered' = [registered EXCEPT ![Root] = FALSE]
    BY <1>13 DEF PullCancelled, PullEnds, Unregister
  <2>2. \A c \in Kids : registered'[c] = registered[c]
    BY <1>1, <2>1 DEF TypesInv
  <2> QED
    BY <2>1, <2>2, SaidSame
<1>14. CASE Leave
  <2>1. UNCHANGED story /\ (UNCHANGED registered \/ registered' = [registered EXCEPT ![Root] = FALSE])
        /\ (UNCHANGED step \/ step' = [step EXCEPT ![Root] = "none"])
    BY <1>14 DEF Leave, Unregister, CloseEngine
  <2>2. \A c \in Kids : registered'[c] = registered[c]
    BY <1>1, <2>1 DEF TypesInv
  <2>3. \A c \in Kids : kid'[c] = kid[c] \/ (kid[c] = "queued" /\ kid'[c] = "abandoned")
    BY <1>14 DEF Leave, CancelDrives
  <2>4. \A h \in Handles : step'[h] = "event" => step[h] = "event"
    BY <2>1 DEF TypesInv, HandleTypeOK
  <2> QED
    BY <2>1, <2>2, <2>3, <2>4, SaidSame
<1>15. CASE JoinCancelled \/ Read
  BY <1>15, SaidSame DEF JoinCancelled, Read
<1> QED
  BY <1>3, <1>4, <1>5, <1>6, <1>7, <1>8, <1>9, <1>10, <1>11, <1>12, <1>13, <1>14, <1>15 DEF HandleNext, Engine

-----------------------------------------------------------------------------
(* Ancestors.                                                                  *)

\* A set that holds the parent of h and the parents of what it holds.
UpFrom(S, h) == \A c \in Kids : c \in S \cup {h} => Parent[c] \in S

\* The ancestors of h are in every such set, and are one.
LEMMA AboveIsLeast ==
  ASSUME NEW h \in Handles
  PROVE  /\ \A S \in SUBSET Handles : UpFrom(S, h) => Above(h) \subseteq S
         /\ UpFrom(Above(h), h)
<1>1. \A S \in SUBSET Handles : UpFrom(S, h) => Above(h) \subseteq S
  BY DEF Above, UpFrom
<1>2. ASSUME NEW c \in Kids, c \in Above(h) \cup {h} PROVE Parent[c] \in Above(h)
  <2>1. Parent[c] \in Handles
    BY ParentIs
  <2>2. ASSUME NEW S \in SUBSET Handles, \A k \in Kids : k \in S \cup {h} => Parent[k] \in S
        PROVE  Parent[c] \in S
    BY <1>2, <2>2 DEF Above
  <2> QED
    BY <2>1, <2>2 DEF Above
<1> QED
  BY <1>1, <1>2 DEF UpFrom

\* Ancestors of ancestors are ancestors.
LEMMA AboveTransitive ==
  ASSUME NEW a, NEW b \in Handles, NEW c \in Handles, a \in Above(b), b \in Above(c)
  PROVE  a \in Above(c)
<1>1. Above(c) \in SUBSET Handles /\ UpFrom(Above(c), c)
  BY AboveIsLeast DEF Above
<1>2. UpFrom(Above(c), b)
  BY <1>1 DEF UpFrom
<1> QED
  BY <1>1, <1>2, AboveIsLeast

\* The ancestors of a subagent are its parent and the parent's.
LEMMA AboveUnfolds ==
  ASSUME NEW c \in Kids
  PROVE  Above(c) = {Parent[c]} \cup Above(Parent[c]) /\ Above(c) \subseteq Handles
<1>1. c \in Handles /\ Parent[c] \in Handles
  BY ParentIs
<1>2. Parent[c] \in Above(c)
  BY <1>1, AboveIsLeast DEF UpFrom
<1>3. Above(Parent[c]) \subseteq Above(c)
  BY <1>1, <1>2, AboveTransitive
<1> DEFINE S == {Parent[c]} \cup Above(Parent[c])
<1>4. S \in SUBSET Handles
  BY <1>1 DEF Above
<1>5. UpFrom(S, c)
  <2>1. UpFrom(Above(Parent[c]), Parent[c])
    BY <1>1, AboveIsLeast
  <2> QED
    BY <2>1 DEF UpFrom
<1>6. Above(c) \subseteq S
  BY <1>1, <1>4, <1>5, AboveIsLeast
<1> QED
  BY <1>2, <1>3, <1>6 DEF Above

\* The root has no ancestor.
LEMMA AboveRoot == Above(Root) = {}
<1>1. UpFrom({}, Root) /\ Root \in Handles
  BY RunHandleAssumption DEF UpFrom, Handles
<1> QED
  BY <1>1, AboveIsLeast

\* Nobody is above itself, and no two are above each other.
LEMMA AboveIsStrict ==
  ASSUME NEW a \in Handles, NEW b \in Handles, a \in Above(b)
  PROVE  a # b /\ b \notin Above(a)
<1>1. PICK depth \in [Handles -> 0 .. Cardinality(Kids)] : \A k \in Kids : depth[Parent[k]] < depth[k]
  BY RunHandleAssumption
<1>2. \A x \in Handles : depth[x] \in Int
  BY <1>1
<1>3. ASSUME NEW h \in Handles PROVE \A x \in Above(h) : x \in Handles /\ depth[x] < depth[h]
  <2> DEFINE S == {x \in Handles : depth[x] < depth[h]}
  <2>1. UpFrom(S, h)
    <3> SUFFICES ASSUME NEW k \in Kids, k \in S \cup {h} PROVE Parent[k] \in S
      BY DEF UpFrom
    <3>1. k \in Handles /\ Parent[k] \in Handles
      BY ParentIs
    <3>2. depth[Parent[k]] < depth[k] /\ depth[k] <= depth[h]
      BY <1>1, <1>2, <3>1
    <3> QED
      BY <1>2, <3>1, <3>2
  <2>2. Above(h) \subseteq S
    BY <2>1, AboveIsLeast
  <2> QED
    BY <2>2
<1>4. depth[a] < depth[b]
  BY <1>3
<1>5. b \in Above(a) => depth[b] < depth[a]
  BY <1>3
<1> QED
  BY <1>2, <1>4, <1>5

\* The root is above every subagent.
LEMMA RootAbove ==
  ASSUME NEW c \in Kids
  PROVE  Root \in Above(c)
<1>1. PICK depth \in [Handles -> 0 .. Cardinality(Kids)] : \A k \in Kids : depth[Parent[k]] < depth[k]
  BY RunHandleAssumption
<1>2. \A x \in Handles : depth[x] \in Nat
  BY <1>1
<1>3. c \in Handles /\ Above(c) \subseteq Handles /\ Parent[c] \in Above(c)
  BY ParentIs, AboveUnfolds
<1> DEFINE D == {depth[x] : x \in Above(c)}
<1>4. D \subseteq Nat /\ D # {}
  BY <1>2, <1>3
<1>5. PICK d \in D : \A e \in D : <<e, d>> \notin OpToRel(<, Nat)
  BY <1>4, NatLessThanWellFounded, WFMin
<1>6. PICK x \in Above(c) : depth[x] = d
  OBVIOUS
<1>7. \A y \in Above(c) : ~(depth[y] < depth[x])
  BY <1>2, <1>3, <1>5, <1>6 DEF OpToRel
<1>8. x \notin Kids
  <2> SUFFICES ASSUME x \in Kids PROVE FALSE
    OBVIOUS
  <2>1. Parent[x] \in Above(c)
    BY <1>3, <1>6, AboveIsLeast DEF UpFrom
  <2> QED
    BY <1>1, <1>7, <2>1
<1> QED
  BY <1>3, <1>6, <1>8 DEF Handles

\* Of two ancestors of one handle, one is above the other.
LEMMA AboveIsALine ==
  ASSUME NEW o \in Handles, NEW x \in Above(o), NEW y \in Above(o)
  PROVE  x = y \/ x \in Above(y) \/ y \in Above(x)
<1> DEFINE Comparable(a, b) == a = b \/ a \in Above(b) \/ b \in Above(a)
           S == {a \in Above(o) : \A b \in Above(o) : Comparable(a, b)}
<1>1. Above(o) \subseteq Handles /\ UpFrom(Above(o), o)
  BY AboveIsLeast DEF Above
<1>2. UpFrom(S, o)
  <2> SUFFICES ASSUME NEW k \in Kids, k \in S \cup {o}, NEW b \in Above(o)
               PROVE  Comparable(Parent[k], b) /\ Parent[k] \in Above(o)
    BY <1>1 DEF UpFrom
  <2>1. Parent[k] \in Above(o) /\ Above(k) = {Parent[k]} \cup Above(Parent[k]) /\ k \in Handles
    BY <1>1, AboveUnfolds, ParentIs DEF UpFrom
  <2>2. CASE k = o
    BY <2>1, <2>2
  <2>3. CASE k # o
    <3>1. Comparable(k, b)
      BY <2>3
    <3>2. k = b \/ b \in Above(k) => Comparable(Parent[k], b)
      BY <2>1
    <3>3. k \in Above(b) => Parent[k] \in Above(b)
      BY <1>1, <2>1, AboveTransitive
    <3> QED
      BY <2>1, <3>1, <3>2, <3>3
  <2> QED
    BY <2>2, <2>3
<1>3. Above(o) \subseteq S
  BY <1>1, <1>2, AboveIsLeast
<1> QED
  BY <1>3

-----------------------------------------------------------------------------
(* Boxes.                                                                      *)

\* Where the events of a box are after one more was put into it.
LEMMA PutSlots ==
  ASSUME NEW box \in [Handles -> Seq(Event)], NEW p \in Handles, NEW e \in Event
  PROVE  /\ \A x \in Handles : \A i \in DOMAIN Put(box, p, e)[x] :
              \/ i \in DOMAIN box[x] /\ Put(box, p, e)[x][i] = box[x][i]
              \/ x = p /\ i = Len(box[p]) + 1 /\ Put(box, p, e)[x][i] = e
         /\ \A x \in Handles : \A i \in DOMAIN box[x] :
              i \in DOMAIN Put(box, p, e)[x] /\ Put(box, p, e)[x][i] = box[x][i]
         /\ Len(box[p]) + 1 \in DOMAIN Put(box, p, e)[p] /\ Put(box, p, e)[p][Len(box[p]) + 1] = e
         /\ \A x \in Handles : Len(box[x]) \in Nat /\ DOMAIN box[x] = 1 .. Len(box[x])
<1> DEFINE b == Put(box, p, e)
<1>1. b[p] = Append(box[p], e) /\ \A x \in Handles : x # p => b[x] = box[x]
  BY DEF Put
<1>2. \A x \in Handles : Len(box[x]) \in Nat /\ DOMAIN box[x] = 1 .. Len(box[x])
  BY LenProperties
<1>3. /\ DOMAIN Append(box[p], e) = 1 .. (Len(box[p]) + 1)
      /\ Append(box[p], e)[Len(box[p]) + 1] = e
      /\ \A i \in 1 .. Len(box[p]) : Append(box[p], e)[i] = box[p][i]
  <2>1. box[p] \in Seq(Event)
    OBVIOUS
  <2> QED
    BY <2>1, AppendIs
<1> HIDE DEF b
<1>4. \A x \in Handles : \A i \in DOMAIN b[x] :
        \/ i \in DOMAIN box[x] /\ b[x][i] = box[x][i]
        \/ x = p /\ i = Len(box[p]) + 1 /\ b[x][i] = e
  <2> SUFFICES ASSUME NEW i \in DOMAIN b[p]
               PROVE  (i \in DOMAIN box[p] /\ b[p][i] = box[p][i]) \/ (i = Len(box[p]) + 1 /\ b[p][i] = e)
    BY <1>1
  <2>1. i \in 1 .. Len(box[p]) \/ i = Len(box[p]) + 1
    BY <1>1, <1>2, <1>3
  <2> QED
    BY <1>1, <1>2, <1>3, <2>1
<1>5. \A x \in Handles : \A i \in DOMAIN box[x] : i \in DOMAIN b[x] /\ b[x][i] = box[x][i]
  BY <1>1, <1>2, <1>3
<1>6. Len(box[p]) + 1 \in DOMAIN b[p] /\ b[p][Len(box[p]) + 1] = e
  BY <1>1, <1>2, <1>3
<1> QED
  BY <1>2, <1>4, <1>5, <1>6 DEF b

\* An event of a box was there before one was put into it, or is that one.
LEMMA PutBack ==
  ASSUME NEW box \in [Handles -> Seq(Event)], NEW p \in Handles, NEW e \in Event,
         NEW x \in Handles, NEW i \in DOMAIN Put(box, p, e)[x]
  PROVE  \/ i \in DOMAIN box[x] /\ Put(box, p, e)[x][i] = box[x][i]
         \/ x = p /\ i = Len(box[p]) + 1 /\ Put(box, p, e)[x][i] = e
BY PutSlots

\* Where the events of a box are after its first was taken.
LEMMA TailSlots ==
  ASSUME NEW box \in [Handles -> Seq(Event)], NEW h \in Handles, box[h] # <<>>
  PROVE  /\ \A x \in Handles : x # h => [box EXCEPT ![h] = Tail(@)][x] = box[x]
         /\ DOMAIN [box EXCEPT ![h] = Tail(@)][h] = 1 .. (Len(box[h]) - 1)
         /\ \A i \in 1 .. (Len(box[h]) - 1) : [box EXCEPT ![h] = Tail(@)][h][i] = box[h][i + 1]
         /\ Head(box[h]) = box[h][1] /\ Len(box[h]) \in Nat \ {0} /\ DOMAIN box[h] = 1 .. Len(box[h])
<1>1. box[h] \in Seq(Event)
  OBVIOUS
<1>2. /\ Head(box[h]) = box[h][1] /\ Tail(box[h]) \in Seq(Event)
      /\ Len(Tail(box[h])) = Len(box[h]) - 1
      /\ \A i \in 1 .. Len(Tail(box[h])) : Tail(box[h])[i] = box[h][i + 1]
  BY <1>1, HeadTailProperties
<1>3. Len(box[h]) \in Nat /\ DOMAIN box[h] = 1 .. Len(box[h]) /\ DOMAIN Tail(box[h]) = 1 .. Len(Tail(box[h]))
  BY <1>1, <1>2, LenProperties
<1>4. Len(box[h]) # 0
  BY <1>1, EmptySeq, LenProperties
<1> QED
  BY <1>2, <1>3, <1>4

\* What a box holds it still holds, with what is put into it.
LEMMA HoldsPut ==
  ASSUME NEW box \in [Handles -> Seq(Event)], NEW p \in Handles, NEW e \in Event
  PROVE  /\ \A o, k : HoldsIn(box, o, k) => HoldsIn(Put(box, p, e), o, k)
         /\ HoldsIn(Put(box, p, e), e.of, e.n)
<1> DEFINE b == Put(box, p, e)
<1>1. \A x \in Handles : \A i \in DOMAIN box[x] : i \in DOMAIN b[x] /\ b[x][i] = box[x][i]
  BY PutSlots
<1>2. Len(box[p]) + 1 \in DOMAIN b[p] /\ b[p][Len(box[p]) + 1] = e
  BY PutSlots
<1> HIDE DEF b
<1>3. \A o, k : HoldsIn(box, o, k) => HoldsIn(b, o, k)
  BY <1>1 DEF HoldsIn
<1>4. HoldsIn(b, e.of, e.n)
  BY <1>2 DEF HoldsIn
<1> QED
  BY <1>3, <1>4 DEF b

\* A box that is read from holds what it held but for the first event.
LEMMA HoldsTail ==
  ASSUME NEW box \in [Handles -> Seq(Event)], NEW h \in Handles, box[h] # <<>>, NEW o, NEW k,
         HoldsIn(box, o, k)
  PROVE  HoldsIn([box EXCEPT ![h] = Tail(@)], o, k) \/ (o = Head(box[h]).of /\ k = Head(box[h]).n)
<1> DEFINE b == [box EXCEPT ![h] = Tail(@)]
<1>1. /\ \A x \in Handles : x # h => b[x] = box[x]
      /\ DOMAIN b[h] = 1 .. (Len(box[h]) - 1)
      /\ \A i \in 1 .. (Len(box[h]) - 1) : b[h][i] = box[h][i + 1]
      /\ Head(box[h]) = box[h][1] /\ Len(box[h]) \in Nat \ {0} /\ DOMAIN box[h] = 1 .. Len(box[h])
  BY TailSlots
<1> HIDE DEF b
<1>6. PICK x \in Handles : \E i \in DOMAIN box[x] : box[x][i].of = o /\ box[x][i].n = k
  BY DEF HoldsIn
<1>2. PICK i \in DOMAIN box[x] : box[x][i].of = o /\ box[x][i].n = k
  BY <1>6
<1>3. CASE x # h
  BY <1>1, <1>2, <1>3 DEF HoldsIn, b
<1>4. CASE x = h /\ i = 1
  BY <1>1, <1>2, <1>4
<1>5. CASE x = h /\ i # 1
  <2>1. i - 1 \in DOMAIN b[h] /\ b[h][i - 1] = box[h][i]
    BY <1>1, <1>2, <1>5
  <2> QED
    BY <1>2, <1>5, <2>1 DEF HoldsIn, b
<1> QED
  BY <1>3, <1>4, <1>5

\* A box stays ordered when its first event is taken.
LEMMA OrderedTail ==
  ASSUME NEW box \in [Handles -> Seq(Event)], NEW h \in Handles, box[h] # <<>>, OrderedIn(box)
  PROVE  OrderedIn([box EXCEPT ![h] = Tail(@)])
<1> DEFINE b == [box EXCEPT ![h] = Tail(@)]
           at(x, i) == IF x = h THEN i + 1 ELSE i
<1>1. /\ \A x \in Handles : x # h => b[x] = box[x]
      /\ DOMAIN b[h] = 1 .. (Len(box[h]) - 1)
      /\ \A i \in 1 .. (Len(box[h]) - 1) : b[h][i] = box[h][i + 1]
      /\ Len(box[h]) \in Nat \ {0} /\ DOMAIN box[h] = 1 .. Len(box[h])
  BY TailSlots
<1>2. \A x \in Handles : DOMAIN box[x] \subseteq Int
  <2>1. \A x \in Handles : box[x] \in Seq(Event)
    OBVIOUS
  <2> QED
    BY <2>1, LenProperties
<1> HIDE DEF b
<1>3. \A x \in Handles : \A i \in DOMAIN b[x] : at(x, i) \in DOMAIN box[x] /\ b[x][i] = box[x][at(x, i)] /\ i \in Int
  BY <1>1, <1>2
<1>4. SUFFICES ASSUME NEW x \in Handles, NEW y \in Handles, NEW i \in DOMAIN b[x], NEW j \in DOMAIN b[y],
                      b[x][i].of = b[y][j].of, x \in Above(y) \/ (x = y /\ i < j)
               PROVE  b[x][i].n < b[y][j].n
  BY DEF OrderedIn, b
<1>5. x = y /\ i < j => at(x, i) < at(y, j)
  BY <1>3
<1> HIDE DEF at
<1>6. PICK k \in DOMAIN box[x] : k = at(x, i) /\ b[x][i] = box[x][k]
  BY <1>3
<1>7. PICK l \in DOMAIN box[y] : l = at(y, j) /\ b[y][j] = box[y][l]
  BY <1>3
<1>8. box[x][k].of = box[y][l].of /\ (x \in Above(y) \/ (x = y /\ k < l))
  BY <1>4, <1>5, <1>6, <1>7
<1>9. box[x][k].n < box[y][l].n
  BY <1>8 DEF OrderedIn
<1> QED
  BY <1>6, <1>7, <1>9

\* A box stays ordered when an event is put where it is behind the earlier news of
\* its handle, and before the later.
LEMMA OrderedPut ==
  ASSUME NEW box \in [Handles -> Seq(Event)], NEW p \in Handles, NEW e \in Event, OrderedIn(box),
         \A x \in Handles : \A i \in DOMAIN box[x] :
            box[x][i].of = e.of /\ (x = p \/ x \in Above(p)) => box[x][i].n < e.n,
         \A y \in Handles : \A j \in DOMAIN box[y] :
            box[y][j].of = e.of /\ p \in Above(y) => e.n < box[y][j].n
  PROVE  OrderedIn(Put(box, p, e))
<1> DEFINE b == Put(box, p, e)
<1>1. \A x \in Handles : \A i \in DOMAIN b[x] :
        \/ i \in DOMAIN box[x] /\ b[x][i] = box[x][i]
        \/ x = p /\ i = Len(box[p]) + 1 /\ b[x][i] = e
  BY PutSlots
<1>2. \A x \in Handles : Len(box[x]) \in Nat /\ DOMAIN box[x] = 1 .. Len(box[x])
  BY PutSlots
<1> HIDE DEF b
<1>3. SUFFICES ASSUME NEW x \in Handles, NEW y \in Handles, NEW i \in DOMAIN b[x], NEW j \in DOMAIN b[y],
                      b[x][i].of = b[y][j].of, x \in Above(y) \/ (x = y /\ i < j)
               PROVE  b[x][i].n < b[y][j].n
  BY DEF OrderedIn, b
<1>4. CASE (i \in DOMAIN box[x] /\ b[x][i] = box[x][i]) /\ (j \in DOMAIN box[y] /\ b[y][j] = box[y][j])
  BY <1>3, <1>4 DEF OrderedIn
<1>5. CASE (i \in DOMAIN box[x] /\ b[x][i] = box[x][i]) /\ (y = p /\ b[y][j] = e)
  BY <1>3, <1>5
<1>6. CASE (x = p /\ i = Len(box[p]) + 1 /\ b[x][i] = e) /\ (j \in DOMAIN box[y] /\ b[y][j] = box[y][j])
  <2>1. ~(x = y /\ i < j)
    BY <1>2, <1>6
  <2> QED
    BY <1>3, <1>6, <2>1
<1>7. CASE (x = p /\ i = Len(box[p]) + 1) /\ (y = p /\ j = Len(box[p]) + 1)
  BY <1>2, <1>3, <1>7, AboveIsStrict
<1> QED
  BY <1>1, <1>4, <1>5, <1>6, <1>7

-----------------------------------------------------------------------------
(* What is in flight.                                                          *)

\* What was said of a handle stays as it was.
SaidGrows == \A h \in Handles :
  /\ Len(story[h]) <= Len(story'[h])
  /\ \A k \in DOMAIN story[h] : k \in DOMAIN story'[h] /\ story'[h][k] = story[h][k]

\* The lengths of what is said and what came out.
LEMMA Lengths ==
  ASSUME TypesInv, NEW h \in Handles
  PROVE  /\ Len(story[h]) \in Nat /\ DOMAIN story[h] = 1 .. Len(story[h]) /\ story[h] \in Seq(Kinds)
         /\ Len(stream[h]) \in Nat /\ DOMAIN stream[h] = 1 .. Len(stream[h]) /\ stream[h] \in Seq(Event)
<1>1. story[h] \in Seq(Kinds) /\ stream[h] \in Seq(Event)
  BY DEF TypesInv
<1> QED
  BY <1>1, LenProperties

\* An event in a box is one, of a handle, with its place.
LEMMA SlotIs ==
  ASSUME NEW box \in [Handles -> Seq(Event)], NEW x \in Handles, NEW i \in DOMAIN box[x]
  PROVE  box[x][i] \in Event /\ box[x][i].of \in Handles /\ box[x][i].n \in Nat
<1>1. box[x] \in Seq(Event)
  OBVIOUS
<1>2. i \in 1 .. Len(box[x])
  BY <1>1, LenProperties
<1>3. box[x][i] \in Event
  BY <1>1, <1>2, ElementOfSeq
<1> QED
  BY <1>3 DEF Event

\* Saying a thing of one handle leaves what was said of it, and of the others.
LEMMA SayingGrows ==
  ASSUME TypesInv, NEW h \in Handles, NEW k \in Kinds, Says(h, k)
  PROVE  /\ SaidGrows /\ Len(story'[h]) = Len(story[h]) + 1 /\ story'[h][Len(story[h]) + 1] = k
         /\ DOMAIN story'[h] = 1 .. (Len(story[h]) + 1)
         /\ \A x \in Handles : x # h => story'[x] = story[x]
<1>1. story'[h] = Append(story[h], k) /\ \A x \in Handles : x # h => story'[x] = story[x]
  BY DEF Says, TypesInv
<1>2. /\ Len(story[h]) \in Nat /\ Len(Append(story[h], k)) = Len(story[h]) + 1
      /\ DOMAIN story[h] = 1 .. Len(story[h]) /\ DOMAIN Append(story[h], k) = 1 .. (Len(story[h]) + 1)
      /\ Append(story[h], k)[Len(story[h]) + 1] = k
      /\ \A i \in 1 .. Len(story[h]) : Append(story[h], k)[i] = story[h][i]
  BY Lengths, AppendIs
<1>3. \A x \in Handles : Len(story[x]) \in Nat
  BY Lengths
<1> QED
  BY <1>1, <1>2, <1>3 DEF SaidGrows

\* What came out stays in order when nothing comes out.
LEMMA StreamSame ==
  ASSUME TypesInv, StreamInOrder, UNCHANGED stream, UNCHANGED story \/ SaidGrows, story' \in [Handles -> Seq(Kinds)]
  PROVE  StreamInOrder'
<1>1. CASE UNCHANGED story
  BY <1>1 DEF StreamInOrder
<1>2. CASE SaidGrows
  <2> SUFFICES ASSUME NEW h \in Handles
               PROVE  /\ Len(stream[h]) <= Len(story'[h])
                      /\ \A i \in DOMAIN stream[h] : stream[h][i] = [of |-> h, what |-> story'[h][i], n |-> i]
    BY DEF StreamInOrder
  <2>1. Len(story'[h]) \in Nat
    BY LenProperties
  <2>2. DOMAIN stream[h] \subseteq DOMAIN story[h]
    BY Lengths DEF StreamInOrder
  <2> QED
    BY <1>2, <2>1, <2>2, Lengths DEF StreamInOrder, SaidGrows
<1> QED
  BY <1>1, <1>2

\* What is in flight stays so when nothing moves.
LEMMA FlightSame ==
  ASSUME TypesInv, InFlight, UNCHANGED <<inbox, stream, story>>,
         \A h \in Handles : step'[h] = "event" <=> step[h] = "event"
  PROVE  InFlight'
<1>1. Located'
  <2> SUFFICES ASSUME NEW x \in Handles, NEW i \in DOMAIN inbox[x] PROVE Fit(x, inbox[x][i])'
    BY DEF Located
  <2>1. Fit(x, inbox[x][i]) /\ inbox[x][i].of \in Handles
    BY SlotIs DEF InFlight, Located, TypesInv
  <2> QED
    BY <2>1 DEF Fit
<1>2. OrderedIn(inbox)'
  BY DEF InFlight, OrderedIn
<1>3. Complete'
  BY DEF InFlight, Complete, HoldsIn
<1>4. Handy'
  BY DEF InFlight, Handy
<1> QED
  BY <1>1, <1>2, <1>3, <1>4 DEF InFlight

\* A thing that is said of a subagent, and put before its parent, is in flight.
LEMMA FlightSays ==
  ASSUME TypesInv, StreamInOrder, InFlight, NEW c \in Kids, NEW k \in Kinds, Says(c, k),
         inbox' = Put(inbox, Parent[c], News(c, k)), UNCHANGED stream, step[c] # "event",
         \A h \in Handles : step'[h] = "event" <=> step[h] = "event"
  PROVE  InFlight'
<1>1. c \in Handles /\ Parent[c] \in Handles /\ c # Root
  BY ParentIs
<1>2. /\ SaidGrows /\ Len(story'[c]) = Len(story[c]) + 1 /\ story'[c][Len(story[c]) + 1] = k
      /\ DOMAIN story'[c] = 1 .. (Len(story[c]) + 1) /\ \A x \in Handles : x # c => story'[x] = story[x]
  BY <1>1, SayingGrows
<1> DEFINE e == News(c, k)
           p == Parent[c]
<1>3. e \in Event /\ e.of = c /\ e.what = k /\ e.n = Len(story[c]) + 1 /\ inbox \in [Handles -> Seq(Event)]
  BY <1>1, NewsType DEF News, TypesInv
<1>4. \A h \in Handles : Len(story[h]) \in Nat /\ DOMAIN story[h] = 1 .. Len(story[h]) /\ Len(stream[h]) \in Nat
  BY Lengths
<1>5. \A h \in Handles : Len(stream[h]) <= Len(story[h])
  BY DEF StreamInOrder
<1>11. inbox' = Put(inbox, p, e)
  OBVIOUS
<1> HIDE DEF e, p
<1>12. p \in Handles /\ p = Parent[c]
  BY <1>1 DEF p
<1>6. \A x \in Handles : \A i \in DOMAIN inbox'[x] :
           \/ i \in DOMAIN inbox[x] /\ inbox'[x][i] = inbox[x][i]
           \/ x = p /\ i = Len(inbox[p]) + 1 /\ inbox'[x][i] = e
  BY <1>3, <1>11, <1>12, PutSlots
<1>7. Located'
  <2> SUFFICES ASSUME NEW x \in Handles, NEW i \in DOMAIN inbox'[x] PROVE Fit(x, inbox[x][i])'
    BY DEF Located
  <2>1. CASE i \in DOMAIN inbox[x] /\ inbox'[x][i] = inbox[x][i]
    <3>1. Fit(x, inbox[x][i]) /\ inbox[x][i].of \in Handles /\ inbox[x][i].n \in Nat
      BY <1>3, <2>1, SlotIs DEF InFlight, Located
    <3> DEFINE f == inbox[x][i]
    <3>2. f.n \in DOMAIN story'[f.of] /\ story'[f.of][f.n] = story[f.of][f.n] /\ Len(story[f.of]) <= Len(story'[f.of])
      BY <1>2, <3>1 DEF SaidGrows, Fit
    <3>3. step'[f.of] = "event" => f.n < Len(story'[f.of])
      BY <1>1, <1>2, <3>1 DEF Fit
    <3> QED
      BY <2>1, <3>1, <3>2, <3>3 DEF Fit
  <2>2. CASE x = p /\ inbox'[x][i] = e
    <3>1. p \in Above(c)
      BY <1>12, AboveUnfolds
    <3>2. Len(story[c]) + 1 > Len(stream[c]) /\ Len(story[c]) + 1 \in 1 .. (Len(story[c]) + 1)
      BY <1>1, <1>4, <1>5
    <3> QED
      BY <1>1, <1>2, <1>3, <2>2, <3>1, <3>2 DEF Fit
  <2> QED
    BY <1>6, <2>1, <2>2
<1>8. OrderedIn(inbox)'
  <2>1. ASSUME NEW x \in Handles, NEW i \in DOMAIN inbox[x], inbox[x][i].of = c
        PROVE  inbox[x][i].n < e.n /\ x \in Above(c)
    <3>1. Fit(x, inbox[x][i])
      BY DEF InFlight, Located
    <3> QED
      BY <1>1, <1>3, <1>4, <2>1, <3>1 DEF Fit
  <2>2. ASSUME NEW y \in Handles, y \in Above(c) PROVE p \notin Above(y)
    <3>1. y = p \/ y \in Above(p)
      BY <1>12, <2>2, AboveUnfolds
    <3> QED
      BY <1>12, <3>1, AboveIsStrict
  <2>3. OrderedIn(Put(inbox, p, e))
    BY <1>3, <1>12, <2>1, <2>2, OrderedPut DEF InFlight
  <2> QED
    BY <1>11, <2>3 DEF OrderedIn
<1>9. Complete'
  <2> SUFFICES ASSUME NEW h \in Handles, NEW m \in DOMAIN story'[h], m > Len(stream[h])
               PROVE  (step'[h] = "event" /\ m = Len(story'[h])) \/ HoldsIn(inbox', h, m)
    BY DEF Complete, HoldsIn
  <2>1. \A o, l : HoldsIn(inbox, o, l) => HoldsIn(inbox', o, l)
    BY <1>3, <1>11, <1>12, HoldsPut
  <2>2. HoldsIn(inbox', c, Len(story[c]) + 1)
    BY <1>3, <1>11, <1>12, HoldsPut
  <2>3. CASE m \in DOMAIN story[h] /\ h # c
    BY <1>2, <2>1, <2>3 DEF InFlight, Complete
  <2>4. CASE m \in DOMAIN story[h] /\ h = c
    BY <2>1, <2>4 DEF InFlight, Complete
  <2>5. CASE h = c /\ m = Len(story[c]) + 1
    BY <2>2, <2>5
  <2>6. h # c \/ m \in DOMAIN story[h] \/ m = Len(story[c]) + 1
    BY <1>1, <1>2, <1>4
  <2> QED
    BY <1>2, <2>3, <2>4, <2>5, <2>6
<1>10. Handy'
  BY <1>2 DEF InFlight, Handy
<1> QED
  BY <1>7, <1>8, <1>9, <1>10 DEF InFlight

\* A step that yields an event has it in hand, behind all that was said before.
LEMMA FlightYields ==
  ASSUME TypesInv, StreamInOrder, InFlight, NEW h \in Handles, Says(h, "own"), step[h] # "event",
         step' = [step EXCEPT ![h] = "event"], UNCHANGED <<inbox, stream>>
  PROVE  InFlight'
<1>1. "own" \in Kinds
  BY DEF Kinds
<1>2. /\ SaidGrows /\ Len(story'[h]) = Len(story[h]) + 1
      /\ DOMAIN story'[h] = 1 .. (Len(story[h]) + 1) /\ \A x \in Handles : x # h => story'[x] = story[x]
  BY <1>1, SayingGrows
<1>3. \A x \in Handles : Len(story[x]) \in Nat /\ DOMAIN story[x] = 1 .. Len(story[x]) /\ Len(stream[x]) \in Nat
  BY Lengths
<1>4. step'[h] = "event" /\ \A x \in Handles : x # h => step'[x] = step[x]
  BY DEF TypesInv, HandleTypeOK
<1>5. Located'
  <2> SUFFICES ASSUME NEW x \in Handles, NEW i \in DOMAIN inbox[x] PROVE Fit(x, inbox[x][i])'
    BY DEF Located
  <2> DEFINE f == inbox[x][i]
  <2>1. Fit(x, f) /\ f.of \in Handles /\ f.n \in Nat
    BY SlotIs DEF InFlight, Located, TypesInv
  <2>2. f.n \in DOMAIN story'[f.of] /\ story'[f.of][f.n] = story[f.of][f.n]
    BY <1>2, <2>1 DEF SaidGrows, Fit
  <2>3. step'[f.of] = "event" => f.n < Len(story'[f.of])
    BY <1>2, <1>3, <1>4, <2>1 DEF Fit
  <2> QED
    BY <2>1, <2>2, <2>3 DEF Fit
<1>6. Complete'
  <2> SUFFICES ASSUME NEW x \in Handles, NEW m \in DOMAIN story'[x], m > Len(stream[x])
               PROVE  (step'[x] = "event" /\ m = Len(story'[x])) \/ HoldsIn(inbox, x, m)
    BY DEF Complete, HoldsIn
  <2>1. CASE x # h
    BY <1>2, <1>4, <2>1 DEF InFlight, Complete
  <2>2. CASE x = h
    <3>1. m \in DOMAIN story[h] \/ m = Len(story'[h])
      BY <1>2, <1>3, <2>2
    <3> QED
      BY <1>4, <2>2, <3>1 DEF InFlight, Complete
  <2> QED
    BY <2>1, <2>2
<1>7. Handy'
  <2>1. Len(stream[h]) <= Len(story[h])
    BY DEF StreamInOrder
  <2> QED
    BY <1>2, <1>3, <1>4, <2>1 DEF InFlight, Handy
<1> QED
  BY <1>5, <1>6, <1>7 DEF InFlight, OrderedIn

\* An event that was said is handed up to the parent of its handle.
LEMMA FlightHandsUp ==
  ASSUME TypesInv, SaidInv, StreamInOrder, InFlight, NEW c \in Kids, step[c] = "event",
         inbox' = Put(inbox, Parent[c], InHand(c)), UNCHANGED <<stream, story>>,
         step' = [step EXCEPT ![c] = "none"]
  PROVE  InFlight'
<1> DEFINE e == InHand(c)
           p == Parent[c]
<1>1. c \in Handles /\ p \in Handles
  BY ParentIs
<1>2. e \in Event /\ e.of = c /\ e.what = "own" /\ e.n = Len(story[c]) /\ inbox \in [Handles -> Seq(Event)]
  BY <1>1, InHandType DEF InHand, TypesInv
<1>3. story[c] # <<>> /\ story[c][Len(story[c])] = "own"
  BY <1>1 DEF SaidInv, Last
<1>4. \A h \in Handles : Len(story[h]) \in Nat /\ DOMAIN story[h] = 1 .. Len(story[h]) /\ Len(stream[h]) \in Nat
  BY Lengths
<1>5. Len(story[c]) \in DOMAIN story[c]
  BY <1>1, <1>3, <1>4, EmptySeq, Lengths
<1>6. inbox' = Put(inbox, p, e) /\ p \in Above(c) /\ p = Parent[c]
  BY AboveUnfolds
<1>7. step'[c] = "none" /\ \A h \in Handles : h # c => step'[h] = step[h]
  BY <1>1 DEF TypesInv, HandleTypeOK
<1> HIDE DEF e, p
<1>8. \A x \in Handles : \A i \in DOMAIN inbox'[x] :
           \/ i \in DOMAIN inbox[x] /\ inbox'[x][i] = inbox[x][i]
           \/ x = p /\ i = Len(inbox[p]) + 1 /\ inbox'[x][i] = e
  <2>1. \A x \in Handles : \A i \in DOMAIN Put(inbox, p, e)[x] :
           \/ i \in DOMAIN inbox[x] /\ Put(inbox, p, e)[x][i] = inbox[x][i]
           \/ x = p /\ i = Len(inbox[p]) + 1 /\ Put(inbox, p, e)[x][i] = e
    BY <1>1, <1>2, PutSlots
  <2> QED
    BY <1>6, <2>1
<1>9. Located'
  <2> SUFFICES ASSUME NEW x \in Handles, NEW i \in DOMAIN inbox'[x] PROVE Fit(x, inbox[x][i])'
    BY DEF Located
  <2>1. CASE i \in DOMAIN inbox[x] /\ inbox'[x][i] = inbox[x][i]
    <3>1. Fit(x, inbox[x][i]) /\ inbox[x][i].of \in Handles
      BY <1>2, <2>1, SlotIs DEF InFlight, Located
    <3> QED
      BY <1>7, <2>1, <3>1 DEF Fit
  <2>2. CASE x = p /\ inbox'[x][i] = e
    BY <1>1, <1>2, <1>3, <1>5, <1>6, <1>7, <2>2 DEF Fit, InFlight, Handy
  <2> QED
    BY <1>8, <2>1, <2>2
<1>10. OrderedIn(inbox)'
  <2>1. ASSUME NEW x \in Handles, NEW i \in DOMAIN inbox[x], inbox[x][i].of = c
        PROVE  inbox[x][i].n < e.n /\ x \in Above(c)
    <3>1. Fit(x, inbox[x][i])
      BY DEF InFlight, Located
    <3> QED
      BY <1>2, <2>1, <3>1 DEF Fit
  <2>2. ASSUME NEW y \in Handles, y \in Above(c) PROVE p \notin Above(y)
    <3>1. y = p \/ y \in Above(p)
      BY <1>6, <2>2, AboveUnfolds
    <3> QED
      BY <1>1, <3>1, AboveIsStrict
  <2>3. OrderedIn(Put(inbox, p, e))
    BY <1>1, <1>2, <2>1, <2>2, OrderedPut DEF InFlight
  <2> QED
    BY <1>6, <2>3 DEF OrderedIn
<1>11. Complete'
  <2> SUFFICES ASSUME NEW h \in Handles, NEW m \in DOMAIN story[h], m > Len(stream[h])
               PROVE  (step'[h] = "event" /\ m = Len(story[h])) \/ HoldsIn(inbox', h, m)
    BY DEF Complete, HoldsIn
  <2>1. (\A o, l : HoldsIn(inbox, o, l) => HoldsIn(inbox', o, l)) /\ HoldsIn(inbox', c, Len(story[c]))
    BY <1>1, <1>2, <1>6, HoldsPut
  <2>2. (step[h] = "event" /\ m = Len(story[h])) \/ HoldsIn(inbox, h, m)
    BY DEF InFlight, Complete
  <2> QED
    BY <1>7, <2>1, <2>2
<1>12. Handy'
  BY <1>7 DEF InFlight, Handy
<1> QED
  BY <1>9, <1>10, <1>11, <1>12 DEF InFlight

\* The first event of a subagent's box moves into its parent's.
LEMMA FlightMovesUp ==
  ASSUME TypesInv, InFlight, NEW h \in Kids, inbox[h] # <<>>,
         inbox' = Put([inbox EXCEPT ![h] = Tail(@)], Parent[h], Head(inbox[h])),
         UNCHANGED <<stream, story, step>>
  PROVE  InFlight'
<1> DEFINE box == [inbox EXCEPT ![h] = Tail(@)]
           e == Head(inbox[h])
           p == Parent[h]
<1>1. h \in Handles /\ p \in Handles /\ inbox \in [Handles -> Seq(Event)]
  BY ParentIs DEF TypesInv
<1>2. e \in Event /\ box \in [Handles -> Seq(Event)] /\ e.of \in Handles /\ e.n \in Nat
  BY <1>1, HeadType DEF Event
<1>3. /\ \A x \in Handles : x # h => box[x] = inbox[x]
      /\ DOMAIN box[h] = 1 .. (Len(inbox[h]) - 1)
      /\ \A i \in 1 .. (Len(inbox[h]) - 1) : box[h][i] = inbox[h][i + 1]
      /\ e = inbox[h][1] /\ Len(inbox[h]) \in Nat \ {0} /\ DOMAIN inbox[h] = 1 .. Len(inbox[h])
  BY <1>1, TailSlots
<1>4. inbox' = Put(box, p, e)
  OBVIOUS
<1>5. 1 \in DOMAIN inbox[h] /\ Fit(h, e)
  BY <1>1, <1>3 DEF InFlight, Located
<1>6. Above(h) = {p} \cup Above(p)
  BY AboveUnfolds
<1>7. OrderedIn(box)
  BY <1>1, OrderedTail DEF InFlight
<1>8. \A o, k : HoldsIn(inbox, o, k) => HoldsIn(box, o, k) \/ (o = e.of /\ k = e.n)
  BY <1>1, HoldsTail
<1> HIDE DEF box, e, p
<1>9. \A x \in Handles : \A i \in DOMAIN inbox'[x] :
           \/ i \in DOMAIN box[x] /\ inbox'[x][i] = box[x][i]
           \/ x = p /\ inbox'[x][i] = e
  <2>1. \A x \in Handles : \A i \in DOMAIN Put(box, p, e)[x] :
           \/ i \in DOMAIN box[x] /\ Put(box, p, e)[x][i] = box[x][i]
           \/ x = p /\ i = Len(box[p]) + 1 /\ Put(box, p, e)[x][i] = e
    <3>1. p \in Handles /\ box \in [Handles -> Seq(Event)] /\ e \in Event
      BY <1>1, <1>2
    <3> QED
      BY <3>1, PutBack
  <2> QED
    BY <1>4, <2>1
<1>10. \A x \in Handles : \A i \in DOMAIN box[x] : Fit(x, box[x][i]) /\ box[x][i].of \in Handles /\ box[x][i].n \in Nat
  <2> SUFFICES ASSUME NEW x \in Handles, NEW i \in DOMAIN box[x] PROVE Fit(x, box[x][i])
    BY <1>2, SlotIs
  <2>1. CASE x # h
    BY <1>3, <2>1 DEF InFlight, Located
  <2>2. CASE x = h
    <3>1. i + 1 \in DOMAIN inbox[h] /\ box[h][i] = inbox[h][i + 1]
      BY <1>3, <2>2
    <3> QED
      BY <1>1, <2>2, <3>1 DEF InFlight, Located
  <2> QED
    BY <2>1, <2>2
<1>11. Fit(p, e)
  <2>1. p \in Above(e.of)
    BY <1>1, <1>2, <1>5, <1>6, AboveTransitive DEF Fit
  <2> QED
    BY <1>5, <2>1 DEF Fit
<1>12. Located'
  <2> SUFFICES ASSUME NEW x \in Handles, NEW i \in DOMAIN inbox'[x] PROVE Fit(x, inbox[x][i])'
    BY DEF Located
  <2>1. Fit(x, inbox'[x][i])
    BY <1>9, <1>10, <1>11
  <2> QED
    BY <2>1 DEF Fit
<1>13. ASSUME NEW x \in Handles, NEW i \in DOMAIN box[x], box[x][i].of = e.of, x = p \/ x \in Above(p)
       PROVE  box[x][i].n < e.n
  <2>1. x \in Above(h) /\ x # h
    BY <1>1, <1>6, <1>13, AboveIsStrict
  <2>2. box[x] = inbox[x]
    BY <1>3, <2>1
  <2> QED
    BY <1>1, <1>3, <1>5, <1>13, <2>1, <2>2 DEF InFlight, OrderedIn
<1>14. ASSUME NEW y \in Handles, NEW j \in DOMAIN box[y], box[y][j].of = e.of, p \in Above(y)
       PROVE  e.n < box[y][j].n
  <2>1. CASE y = h
    <3>1. j + 1 \in DOMAIN inbox[h] /\ box[h][j] = inbox[h][j + 1] /\ 1 < j + 1
      BY <1>3, <2>1
    <3>2. inbox[h][1].of = inbox[h][j + 1].of
      BY <1>3, <1>14, <2>1, <3>1
    <3>3. inbox[h][1].n < inbox[h][j + 1].n
      BY <1>1, <1>5, <3>1, <3>2 DEF InFlight, OrderedIn
    <3> QED
      BY <1>3, <2>1, <3>1, <3>3
  <2>2. CASE y # h
    <3>1. box[y] = inbox[y] /\ y \in Above(e.of) /\ h \in Above(e.of)
      BY <1>3, <1>5, <1>10, <1>14, <2>2 DEF Fit
    <3>2. y \notin Above(h)
      BY <1>1, <1>6, <1>14, AboveIsStrict
    <3>3. h \in Above(y)
      BY <1>2, <2>2, <3>1, <3>2, AboveIsALine
    <3>4. j \in DOMAIN inbox[y] /\ inbox[h][1].of = inbox[y][j].of
      BY <1>3, <1>14, <3>1
    <3>5. inbox[h][1].n < inbox[y][j].n
      BY <1>1, <1>5, <1>14, <3>3, <3>4 DEF InFlight, OrderedIn
    <3> QED
      BY <1>3, <3>1, <3>5
  <2> QED
    BY <2>1, <2>2
<1>15. OrderedIn(inbox)'
  <2>1. OrderedIn(Put(box, p, e))
    BY <1>1, <1>2, <1>7, <1>13, <1>14, OrderedPut
  <2> QED
    BY <1>4, <2>1 DEF OrderedIn
<1>16. Complete'
  <2>1. \A o, k : HoldsIn(inbox, o, k) => HoldsIn(inbox', o, k)
    BY <1>1, <1>2, <1>4, <1>8, HoldsPut
  <2> SUFFICES ASSUME NEW o \in Handles, NEW m \in DOMAIN story'[o], m > Len(stream'[o])
               PROVE  ((step[o] = "event" /\ m = Len(story[o])) \/ HoldsIn(inbox, o, m))'
    BY DEF Complete
  <2>2. (step[o] = "event" /\ m = Len(story[o])) \/ HoldsIn(inbox, o, m)
    BY DEF InFlight, Complete
  <2>3. HoldsIn(inbox, o, m) => HoldsIn(inbox', o, m)
    BY <2>1
  <2> QED
    BY <2>2, <2>3 DEF HoldsIn
<1>17. Handy'
  BY DEF InFlight, Handy
<1> QED
  BY <1>12, <1>15, <1>16, <1>17 DEF InFlight

\* The first event of the root's box is the next of its handle to come out.
LEMMA NextIsNext ==
  ASSUME TypesInv, StreamInOrder, InFlight, inbox[Root] # <<>>
  PROVE  LET e == Head(inbox[Root]) IN
           /\ e \in Event /\ e.of \in Kids /\ e.n = Len(stream[e.of]) + 1 /\ e.n \in DOMAIN story[e.of]
           /\ e.what = story[e.of][e.n] /\ (step[e.of] = "event" => e.n < Len(story[e.of]))
<1> DEFINE e == Head(inbox[Root])
<1>1. Root \in Handles /\ inbox \in [Handles -> Seq(Event)]
  BY DEF Handles, TypesInv
<1>2. e \in Event /\ e.of \in Handles /\ e.n \in Nat
  BY <1>1, HeadType DEF Event
<1>3. e = inbox[Root][1] /\ Len(inbox[Root]) \in Nat \ {0} /\ DOMAIN inbox[Root] = 1 .. Len(inbox[Root])
  BY <1>1, TailSlots
<1> HIDE DEF e
<1>4. 1 \in DOMAIN inbox[Root] /\ Fit(Root, e)
  BY <1>1, <1>3 DEF InFlight, Located
<1>5. e.of \in Kids
  BY <1>2, <1>4, AboveRoot DEF Fit, Handles
<1> DEFINE o == e.of
           k == Len(stream[o]) + 1
<1>6. k <= e.n /\ k \in DOMAIN story[o] /\ Len(stream[o]) \in Nat /\ k > Len(stream[o])
  BY <1>2, <1>4, Lengths DEF Fit
<1>7. ASSUME step[o] = "event", k = Len(story[o]) PROVE FALSE
  BY <1>2, <1>4, <1>6, <1>7 DEF Fit
<1>8. PICK x \in Handles : \E i \in DOMAIN inbox[x] : inbox[x][i].of = o /\ inbox[x][i].n = k
  BY <1>2, <1>6, <1>7 DEF InFlight, Complete, HoldsIn
<1>9. PICK i \in DOMAIN inbox[x] : inbox[x][i].of = o /\ inbox[x][i].n = k
  BY <1>8
<1>10. CASE x = Root /\ i = 1
  BY <1>2, <1>3, <1>4, <1>5, <1>9, <1>10 DEF Fit, e
<1>11. CASE ~(x = Root /\ i = 1)
  <2>1. Root \in Above(x) \/ (x = Root /\ 1 < i)
    <3>1. CASE x = Root
      BY <1>3, <1>11, <3>1
    <3>2. CASE x # Root
      BY <3>2, RootAbove DEF Handles
    <3> QED
      BY <3>1, <3>2
  <2>2. e.n < inbox[x][i].n
    BY <1>1, <1>3, <1>4, <1>9, <2>1 DEF InFlight, OrderedIn
  <2> QED
    BY <1>2, <1>6, <1>9, <2>2
<1> QED
  BY <1>10, <1>11

\* What comes out next of a handle's story keeps what came out in order.
LEMMA StreamOut ==
  ASSUME TypesInv, StreamInOrder, NEW o \in Handles, NEW e \in Event, e.of = o, e.n = Len(stream[o]) + 1,
         e.n \in DOMAIN story[o], e.what = story[o][e.n], stream' = Put(stream, o, e), UNCHANGED story
  PROVE  /\ StreamInOrder' /\ Len(stream'[o]) = e.n
         /\ \A h \in Handles : h # o => stream'[h] = stream[h]
<1>1. stream'[o] = Append(stream[o], e) /\ \A h \in Handles : h # o => stream'[h] = stream[h]
  BY DEF Put, TypesInv
<1>2. /\ Len(stream[o]) \in Nat /\ Len(Append(stream[o], e)) = Len(stream[o]) + 1
      /\ DOMAIN stream[o] = 1 .. Len(stream[o]) /\ DOMAIN Append(stream[o], e) = 1 .. (Len(stream[o]) + 1)
      /\ Append(stream[o], e)[Len(stream[o]) + 1] = e
      /\ \A i \in 1 .. Len(stream[o]) : Append(stream[o], e)[i] = stream[o][i]
  BY Lengths, AppendIs
<1>3. Len(story[o]) \in Nat /\ DOMAIN story[o] = 1 .. Len(story[o])
  BY Lengths
<1>4. e = [of |-> o, what |-> story[o][e.n], n |-> e.n]
  BY DEF Event
<1>5. Len(stream'[o]) <= Len(story[o]) /\ \A i \in DOMAIN stream'[o] : stream'[o][i] = [of |-> o, what |-> story[o][i], n |-> i]
  <2>1. Len(stream'[o]) <= Len(story[o])
    BY <1>1, <1>2, <1>3
  <2> SUFFICES ASSUME NEW i \in 1 .. (Len(stream[o]) + 1)
               PROVE  Append(stream[o], e)[i] = [of |-> o, what |-> story[o][i], n |-> i]
    BY <1>1, <1>2, <2>1
  <2>2. CASE i = Len(stream[o]) + 1
    BY <1>2, <1>4, <2>2
  <2>3. CASE i # Len(stream[o]) + 1
    <3>1. i \in DOMAIN stream[o] /\ Append(stream[o], e)[i] = stream[o][i]
      BY <1>2, <2>3
    <3> QED
      BY <3>1 DEF StreamInOrder
  <2> QED
    BY <2>2, <2>3
<1>6. \A h \in Handles : h # o => /\ Len(stream'[h]) <= Len(story[h])
                                  /\ \A i \in DOMAIN stream'[h] : stream'[h][i] = [of |-> h, what |-> story[h][i], n |-> i]
  BY <1>1 DEF StreamInOrder
<1>7. StreamInOrder'
  BY <1>5, <1>6 DEF StreamInOrder
<1> QED
  BY <1>1, <1>2, <1>7

\* What is left in flight when the first event of the root's box comes out.
LEMMA FlightOut ==
  ASSUME TypesInv, StreamInOrder, InFlight, inbox[Root] # <<>>,
         inbox' = [inbox EXCEPT ![Root] = Tail(@)],
         stream' = Put(stream, Head(inbox[Root]).of, Head(inbox[Root])),
         UNCHANGED <<story, step>>
  PROVE  StreamInOrder' /\ InFlight'
<1> DEFINE e == Head(inbox[Root])
           o == e.of
<1>1. Root \in Handles /\ inbox \in [Handles -> Seq(Event)]
  BY DEF Handles, TypesInv
<1>2. /\ e \in Event /\ o \in Kids /\ e.n = Len(stream[o]) + 1 /\ e.n \in DOMAIN story[o]
      /\ e.what = story[o][e.n] /\ (step[o] = "event" => e.n < Len(story[o]))
  BY NextIsNext
<1>3. /\ \A x \in Handles : x # Root => inbox'[x] = inbox[x]
      /\ DOMAIN inbox'[Root] = 1 .. (Len(inbox[Root]) - 1)
      /\ \A i \in 1 .. (Len(inbox[Root]) - 1) : inbox'[Root][i] = inbox[Root][i + 1]
      /\ e = inbox[Root][1] /\ Len(inbox[Root]) \in Nat \ {0} /\ DOMAIN inbox[Root] = 1 .. Len(inbox[Root])
  BY <1>1, TailSlots
<1>4. o \in Handles
  BY <1>2 DEF Handles
<1>5. OrderedIn(inbox)'
  <2>1. OrderedIn([inbox EXCEPT ![Root] = Tail(@)])
    BY <1>1, OrderedTail DEF InFlight
  <2> QED
    BY <2>1 DEF OrderedIn
<1>6. \A h, k : HoldsIn(inbox, h, k) => HoldsIn(inbox', h, k) \/ (h = o /\ k = e.n)
  BY <1>1, HoldsTail
<1>7. StreamInOrder' /\ Len(stream'[o]) = e.n /\ \A h \in Handles : h # o => stream'[h] = stream[h]
  <2>1. stream' = Put(stream, o, e)
    OBVIOUS
  <2> HIDE DEF e, o
  <2>2. e.of = o
    BY DEF o
  <2> QED
    BY <1>2, <1>4, <2>1, <2>2, StreamOut
<1> HIDE DEF e
<1>8. Located'
  <2> SUFFICES ASSUME NEW x \in Handles, NEW i \in DOMAIN inbox'[x] PROVE Fit(x, inbox[x][i])'
    BY DEF Located
  <2>1. PICK j \in DOMAIN inbox[x] : /\ inbox'[x][i] = inbox[x][j]
                                     /\ Root \in Above(x) \/ (x = Root /\ 1 < j)
    <3>1. CASE x = Root
      <4>1. i + 1 \in DOMAIN inbox[Root] /\ inbox'[Root][i] = inbox[Root][i + 1] /\ 1 < i + 1
        BY <1>3, <3>1
      <4> QED
        BY <3>1, <4>1
    <3>2. CASE x # Root
      BY <1>3, <3>2, RootAbove DEF Handles
    <3> QED
      BY <3>1, <3>2
  <2>2. Fit(x, inbox[x][j]) /\ inbox[x][j].of \in Handles /\ inbox[x][j].n \in Nat
    BY <1>1, SlotIs DEF InFlight, Located
  <2>3. inbox[x][j].of = o => e.n < inbox[x][j].n
    BY <1>1, <1>3, <2>1 DEF InFlight, OrderedIn
  <2>4. inbox[x][j].n > Len(stream'[inbox[x][j].of])
    <3>1. CASE inbox[x][j].of = o
      BY <1>2, <1>7, <2>2, <2>3, <3>1 DEF Event
    <3>2. CASE inbox[x][j].of # o
      BY <1>7, <2>2, <3>2 DEF Fit
    <3> QED
      BY <3>1, <3>2
  <2> QED
    BY <2>1, <2>2, <2>4 DEF Fit
<1>9. Complete'
  <2> SUFFICES ASSUME NEW h \in Handles, NEW m \in DOMAIN story[h], m > Len(stream'[h])
               PROVE  (step[h] = "event" /\ m = Len(story[h])) \/ HoldsIn(inbox', h, m)
    BY DEF Complete, HoldsIn
  <2>1. m > Len(stream[h]) /\ ~(h = o /\ m = e.n)
    <3>1. m \in Int /\ Len(stream[h]) \in Nat /\ Len(stream[o]) \in Nat
      BY <1>4, Lengths
    <3> QED
      BY <1>2, <1>7, <3>1
  <2> QED
    BY <1>6, <2>1 DEF InFlight, Complete
<1>10. Handy'
  BY <1>2, <1>7 DEF InFlight, Handy
<1> QED
  BY <1>5, <1>7, <1>8, <1>9, <1>10 DEF InFlight

\* The own event of the root is the next of the root to come out.
LEMMA OwnIsNext ==
  ASSUME TypesInv, SaidInv, StreamInOrder, InFlight, step[Root] = "event"
  PROVE  LET e == InHand(Root) IN
           /\ e \in Event /\ e.of = Root /\ e.n = Len(stream[Root]) + 1 /\ e.n \in DOMAIN story[Root]
           /\ e.what = story[Root][e.n] /\ e.n = Len(story[Root])
<1>1. Root \in Handles
  BY DEF Handles
<1>2. InHand(Root) \in Event /\ InHand(Root).of = Root /\ InHand(Root).n = Len(story[Root]) /\ InHand(Root).what = "own"
  BY <1>1, InHandType DEF InHand
<1>3. story[Root] # <<>> /\ story[Root][Len(story[Root])] = "own"
  BY <1>1 DEF SaidInv, Last
<1>4. /\ Len(story[Root]) \in Nat /\ DOMAIN story[Root] = 1 .. Len(story[Root]) /\ Len(stream[Root]) \in Nat
      /\ Len(stream[Root]) < Len(story[Root])
  BY <1>1, Lengths DEF InFlight, Handy
<1> DEFINE k == Len(stream[Root]) + 1
<1>5. k \in DOMAIN story[Root] /\ k > Len(stream[Root]) /\ Len(story[Root]) \in DOMAIN story[Root]
  BY <1>4
<1>6. ~HoldsIn(inbox, Root, k)
  BY AboveRoot DEF HoldsIn, InFlight, Located, Fit
<1>7. k = Len(story[Root])
  BY <1>1, <1>5, <1>6 DEF InFlight, Complete
<1> QED
  BY <1>2, <1>3, <1>5, <1>7

\* What is left in flight when the own event of the root comes out.
LEMMA FlightOwnOut ==
  ASSUME TypesInv, SaidInv, StreamInOrder, InFlight, step[Root] = "event",
         stream' = Put(stream, Root, InHand(Root)), step' = [step EXCEPT ![Root] = "none"],
         UNCHANGED <<inbox, story>>
  PROVE  StreamInOrder' /\ InFlight'
<1> DEFINE e == InHand(Root)
<1>1. Root \in Handles
  BY DEF Handles
<1>2. /\ e \in Event /\ e.of = Root /\ e.n = Len(stream[Root]) + 1 /\ e.n \in DOMAIN story[Root]
      /\ e.what = story[Root][e.n] /\ e.n = Len(story[Root])
  BY OwnIsNext
<1>3. StreamInOrder' /\ Len(stream'[Root]) = e.n /\ \A h \in Handles : h # Root => stream'[h] = stream[h]
  <2>1. stream' = Put(stream, Root, e)
    OBVIOUS
  <2> HIDE DEF e
  <2> QED
    BY <1>1, <1>2, <2>1, StreamOut
<1> HIDE DEF e
<1>4. step'[Root] = "none" /\ \A h \in Handles : h # Root => step'[h] = step[h]
  BY <1>1 DEF TypesInv, HandleTypeOK
<1>5. Located'
  <2> SUFFICES ASSUME NEW x \in Handles, NEW i \in DOMAIN inbox[x] PROVE Fit(x, inbox[x][i])'
    BY DEF Located
  <2>1. Fit(x, inbox[x][i]) /\ inbox[x][i].of \in Handles
    BY SlotIs DEF InFlight, Located, TypesInv
  <2>2. inbox[x][i].of # Root
    BY <2>1, AboveRoot DEF Fit
  <2> QED
    BY <1>3, <1>4, <2>1, <2>2 DEF Fit
<1>6. Complete'
  <2> SUFFICES ASSUME NEW h \in Handles, NEW m \in DOMAIN story[h], m > Len(stream'[h])
               PROVE  (step'[h] = "event" /\ m = Len(story[h])) \/ HoldsIn(inbox, h, m)
    BY DEF Complete, HoldsIn
  <2>1. h # Root
    <3>1. Len(story[Root]) \in Nat /\ DOMAIN story[Root] = 1 .. Len(story[Root])
      BY <1>1, Lengths
    <3> QED
      BY <1>2, <1>3, <3>1
  <2> QED
    BY <1>3, <1>4, <2>1 DEF InFlight, Complete
<1>7. Handy'
  BY <1>3, <1>4 DEF InFlight, Handy
<1>8. OrderedIn(inbox)'
  BY DEF InFlight, OrderedIn
<1> QED
  BY <1>3, <1>5, <1>6, <1>7, <1>8 DEF InFlight

\* Where nothing moves, the flow is as it was.
LEMMA FlowSame ==
  ASSUME TypesInv, FlowInv, UNCHANGED <<inbox, stream, story>>,
         \A h \in Handles : step'[h] = "event" <=> step[h] = "event",
         Running' => Running
  PROVE  FlowInv'
BY FlightSame DEF FlowInv, StreamInOrder

\* Where the run is over and nothing comes out, what came out is in order.
LEMMA FlowEnds ==
  ASSUME TypesInv, TypesInv', FlowInv, UNCHANGED stream, UNCHANGED story \/ SaidGrows, ~Running'
  PROVE  FlowInv'
BY StreamSame DEF FlowInv, TypesInv

\* The fan-in of the root is pulled only while the run goes on.
LEMMA PumpingRuns ==
  ASSUME TypesInv, LifeInv, Pumping(Root)
  PROVE  Running
BY PumpingIs DEF Running, Handles, IsEager

\* An event that a fan-in hands on keeps the flow.
LEMMA TakesFlow ==
  ASSUME TypesInv, LifeInv, SaidInv, FlowInv, TypesInv', NEW h \in Handles, TakeForwarded(h) \/ TakeOwn(h)
  PROVE  FlowInv'
<1> USE DEF pulls, pool, handles, reader
<1>1. Pumping(h) /\ UNCHANGED <<mode, tasks, story>>
  BY DEF TakeForwarded, TakeOwn, Idle
<1>2. CASE h = Root
  <2>1. InFlight /\ StreamInOrder
    BY <1>1, <1>2, PumpingRuns DEF FlowInv
  <2>2. CASE TakeForwarded(h)
    <3>1. /\ inbox[Root] # <<>> /\ inbox' = [inbox EXCEPT ![Root] = Tail(@)] /\ UNCHANGED <<story, step>>
          /\ stream' = Put(stream, Head(inbox[Root]).of, Head(inbox[Root]))
      BY <1>2, <2>2 DEF TakeForwarded, HandOn
    <3> QED
      BY <2>1, <3>1, FlightOut DEF FlowInv
  <2>3. CASE TakeOwn(h)
    <3>1. /\ step[Root] = "event" /\ step' = [step EXCEPT ![Root] = "none"] /\ UNCHANGED <<inbox, story>>
          /\ stream' = Put(stream, InHand(Root).of, InHand(Root))
      BY <1>2, <2>3 DEF TakeOwn, HandOn
    <3>2. InHand(Root).of = Root
      BY DEF InHand
    <3> QED
      BY <2>1, <3>1, <3>2, FlightOwnOut DEF FlowInv
  <2> QED
    BY <2>2, <2>3
<1>3. CASE h # Root
  <2>1. h \in Kids /\ UNCHANGED <<stream, client>>
    BY <1>3 DEF TakeForwarded, TakeOwn, HandOn, Handles
  <2>2. Running' => Running
    BY <1>1, <2>1 DEF Running
  <2>3. StreamInOrder'
    BY <1>1, <2>1, StreamSame DEF FlowInv, TypesInv
  <2>4. ASSUME Running PROVE InFlight'
    <3>1. InFlight /\ StreamInOrder
      BY <2>4 DEF FlowInv
    <3>2. CASE TakeForwarded(h)
      <4>1. /\ inbox[h] # <<>> /\ UNCHANGED <<stream, story, step>>
            /\ inbox' = Put([inbox EXCEPT ![h] = Tail(@)], Parent[h], Head(inbox[h]))
        BY <1>3, <2>1, <3>2 DEF TakeForwarded, HandOn
      <4> QED
        BY <2>1, <3>1, <4>1, FlightMovesUp
    <3>3. CASE TakeOwn(h)
      <4>1. /\ step[h] = "event" /\ step' = [step EXCEPT ![h] = "none"] /\ UNCHANGED <<stream, story>>
            /\ inbox' = Put(inbox, Parent[h], InHand(h))
        BY <1>3, <2>1, <3>3 DEF TakeOwn, HandOn
      <4> QED
        BY <2>1, <3>1, <4>1, FlightHandsUp
    <3> QED
      BY <3>2, <3>3
  <2> QED
    BY <2>2, <2>3, <2>4 DEF FlowInv
<1> QED
  BY <1>2, <1>3

\* The end of a drive keeps the flow: of a subagent it is said, with the root's the
\* run is over.
LEMMA DriveEndsFlow ==
  ASSUME TypesInv, LifeInv, SaidInv, FlowInv, TypesInv', NEW h \in Handles,
         NEW how \in {"done", "failed"}, DriveEnds(h, how, inbox), Pumping(h), step[h] # "event", UNCHANGED stream
  PROVE  FlowInv'
<1>1. Root \in Handles /\ mode \in {"lazy", "eager"} /\ UNCHANGED mode
  BY RunHandleAssumption DEF DriveEnds, Handles, TypesInv, HandleTypeOK
<1>2. CASE h = Root
  <2>1. UNCHANGED story
    <3>1. Unregister(Root, inbox)
      BY <1>2 DEF DriveEnds, TaskEnds, PullEnds
    <3> QED
      BY <3>1 DEF Unregister
  <2>2. ~Running'
    <3>1. CASE mode = "eager"
      <4>1. tasks' = [tasks EXCEPT ![Root] = how]
        BY <1>2, <3>1 DEF DriveEnds, TaskEnds, IsEager
      <4> QED
        BY <1>1, <3>1, <4>1 DEF Running, TypesInv, HandleTypeOK
    <3>2. CASE mode = "lazy"
      BY <1>1, <1>2, <3>2 DEF DriveEnds, PullEnds, IsEager, Running
    <3> QED
      BY <1>1, <3>1, <3>2
  <2> QED
    BY <2>1, <2>2, FlowEnds
<1>3. CASE h # Root
  <2>1. h \in Kids /\ IsEager(h) /\ registered[h] /\ TaskEnds(h, how, inbox) /\ UNCHANGED client
    BY <1>3, PumpingIs DEF IsEager, DriveEnds, Handles
  <2>2. /\ inbox' = Put(inbox, Parent[h], News(h, "ended")) /\ Says(h, "ended")
        /\ tasks' = [tasks EXCEPT ![h] = how] /\ step' = [step EXCEPT ![h] = "none"]
    BY <1>3, <2>1 DEF TaskEnds, Unregister, CloseEngine
  <2>3. Running' => Running
    <3>1. tasks'[Root] = tasks[Root]
      <4>1. Root \in DOMAIN tasks
        BY <1>1 DEF TypesInv, HandleTypeOK
      <4> QED
        BY <1>3, <2>2, <4>1
    <3> QED
      BY <1>1, <2>1, <3>1 DEF Running
  <2>4. "ended" \in Kinds
    BY DEF Kinds
  <2>5. StreamInOrder'
    BY <2>2, <2>4, SayingGrows, StreamSame DEF FlowInv, TypesInv
  <2>6. \A x \in Handles : step'[x] = "event" <=> step[x] = "event"
    BY <2>2 DEF TypesInv, HandleTypeOK
  <2>7. Running => InFlight'
    BY <2>1, <2>2, <2>4, <2>6, FlightSays DEF FlowInv
  <2> QED
    BY <2>3, <2>5, <2>7 DEF FlowInv
<1> QED
  BY <1>2, <1>3

\* A subagent that unwinds does so when the consumer has left, and the root when
\* its task is cancelled: the run is over.
LEMMA UnwindsFlow ==
  ASSUME TypesInv, LifeInv, FlowInv, TypesInv', NEW h \in Handles, Unwinds(h)
  PROVE  FlowInv'
<1>1. tasks[h] = "cancelling" /\ TaskEnds(h, "cancelled", inbox) /\ UNCHANGED <<mode, stream, client>>
  BY DEF Unwinds
<1>2. UNCHANGED story \/ SaidGrows
  <2>1. "ended" \in Kinds
    BY DEF Kinds
  <2>2. UNCHANGED story \/ Says(h, "ended")
    BY <1>1 DEF TaskEnds, Unregister
  <2> QED
    BY <2>1, <2>2, SayingGrows
<1>3. mode \in {"lazy", "eager"} /\ Root \in Handles
  BY RunHandleAssumption DEF TypesInv, HandleTypeOK, Handles
<1>4. ~Running'
  <2>1. CASE h = Root
    <3>1. mode = "eager"
      BY <1>1, <1>3, <2>1 DEF LifeInv
    <3>2. tasks'[Root] = "cancelled"
      BY <1>1, <1>3, <2>1 DEF TaskEnds, TypesInv, HandleTypeOK
    <3> QED
      BY <1>1, <3>1, <3>2 DEF Running
  <2>2. CASE h # Root
    <3>1. client = "left" /\ mode = "lazy"
      BY <1>1, <1>3, <2>2 DEF LifeInv, Handles
    <3> QED
      BY <1>1, <3>1 DEF Running
  <2> QED
    BY <2>1, <2>2
<1> QED
  BY <1>1, <1>2, <1>4, FlowEnds

\* A start keeps the flow.
LEMMA StartFlow ==
  ASSUME TypesInv, LifeInv, FlowInv, TypesInv', NEW c \in Kids, StartEager(c), ~registered[c],
         UNCHANGED <<mode, step, stream, client>>
  PROVE  FlowInv'
<1>1. c \in Handles /\ c # Root
  BY ParentIs
<1>2. step[c] # "event"
  BY <1>1 DEF LifeInv, IsEager, TypesInv, HandleTypeOK
<1>3. /\ inbox' = Put(inbox, Parent[c], News(c, "started")) /\ Says(c, "started")
      /\ tasks' = [tasks EXCEPT ![c] = "running"]
  BY DEF StartEager
<1>4. "started" \in Kinds
  BY DEF Kinds
<1>5. Running' => Running
  BY <1>1, <1>3 DEF Running, TypesInv, HandleTypeOK
<1>6. StreamInOrder'
  BY <1>1, <1>3, <1>4, SayingGrows, StreamSame DEF FlowInv, TypesInv
<1>7. Running => InFlight'
  BY <1>2, <1>3, <1>4, FlightSays DEF FlowInv
<1> QED
  BY <1>5, <1>6, <1>7 DEF FlowInv

\* What an engine does keeps the flow.
LEMMA EngineFlow ==
  ASSUME TypesInv, LifeInv, SaidInv, FlowInv, TypesInv', NEW h \in Handles, Engine(h)
  PROVE  FlowInv'
<1> USE DEF pulls, pool, handles, reader
<1>1. CASE EngineEnds(h) \/ EngineFails(h)
  <2>1. UNCHANGED <<inbox, stream, story>> /\ Running' = Running
    BY <1>1 DEF EngineEnds, EngineFails, Running
  <2>2. \A x \in Handles : step'[x] = "event" <=> step[x] = "event"
    BY <1>1 DEF EngineEnds, EngineFails, Ready, TypesInv, HandleTypeOK
  <2> QED
    BY <2>1, <2>2, FlowSame
<1>2. CASE EngineYields(h) \/ EngineGates(h)
  <2>1. /\ Says(h, "own") /\ step[h] = "running" /\ step' = [step EXCEPT ![h] = "event"]
        /\ UNCHANGED <<inbox, stream, mode, client, tasks>>
    BY <1>2 DEF EngineYields, EngineGates, Ready
  <2>2. "own" \in Kinds
    BY DEF Kinds
  <2>3. StreamInOrder'
    BY <2>1, <2>2, SayingGrows, StreamSame DEF FlowInv, TypesInv
  <2>4. Running => InFlight'
    BY <2>1, FlightYields DEF FlowInv
  <2>5. Running' => Running
    BY <2>1 DEF Running
  <2> QED
    BY <2>3, <2>4, <2>5 DEF FlowInv
<1>3. ASSUME NEW c \in Kids, EngineSpawns(h, c)
      PROVE  FlowInv'
  <2>1. /\ Says(c, "spawned") /\ inbox' = Put(inbox, Parent[c], News(c, "spawned")) /\ kid[c] = "unborn"
        /\ UNCHANGED <<step, stream, mode, client, tasks>>
    BY <1>3 DEF EngineSpawns
  <2>2. "spawned" \in Kinds /\ c \in Handles
    BY ParentIs DEF Kinds
  <2>3. step[c] # "event"
    BY <2>1, <2>2 DEF SaidInv
  <2>4. StreamInOrder'
    BY <2>1, <2>2, SayingGrows, StreamSame DEF FlowInv, TypesInv
  <2>5. Running => InFlight'
    BY <2>1, <2>2, <2>3, FlightSays DEF FlowInv
  <2>6. Running' => Running
    BY <2>1 DEF Running
  <2> QED
    BY <2>4, <2>5, <2>6 DEF FlowInv
<1> QED
  BY <1>1, <1>2, <1>3 DEF Engine

\* A delivery that raises ends the run; what it buffered is the next that was due.
LEMMA RaisesFlow ==
  ASSUME TypesInv, LifeInv, SaidInv, FlowInv, TypesInv', DeliveryRaises
  PROVE  FlowInv'
<1>1. Root \in Handles /\ mode \in {"lazy", "eager"} /\ Pumping(Root)
  BY RunHandleAssumption DEF Handles, TypesInv, HandleTypeOK, DeliveryRaises
<1>2. InFlight /\ StreamInOrder
  BY <1>1, PumpingRuns DEF FlowInv
<1>3. PICK box : DriveEnds(Root, "failed", box)
  BY DEF DeliveryRaises
<1>4. UNCHANGED <<mode, story>>
  <2>1. Unregister(Root, box) /\ UNCHANGED mode
    BY <1>3 DEF DriveEnds, TaskEnds, PullEnds
  <2> QED
    BY <2>1 DEF Unregister
<1>5. ~Running'
  <2>1. CASE mode = "eager"
    <3>1. tasks' = [tasks EXCEPT ![Root] = "failed"]
      BY <1>3, <2>1 DEF DriveEnds, TaskEnds, IsEager
    <3> QED
      BY <1>1, <1>4, <2>1, <3>1 DEF Running, TypesInv, HandleTypeOK
  <2>2. CASE mode = "lazy"
    BY <1>3, <1>4, <2>2 DEF DriveEnds, PullEnds, IsEager, Running
  <2> QED
    BY <1>1, <2>1, <2>2
<1>6. CASE UNCHANGED stream
  BY <1>4, <1>5, <1>6, FlowEnds
<1>7. CASE mode = "eager" /\ inbox[Root] # <<>>
  <2> DEFINE e == Head(inbox[Root])
             o == e.of
  <2>1. stream' = Put(stream, o, e)
    BY <1>7 DEF DeliveryRaises
  <2>2. /\ e \in Event /\ o \in Kids /\ e.n = Len(stream[o]) + 1 /\ e.n \in DOMAIN story[o]
        /\ e.what = story[o][e.n]
    BY <1>2, <1>7, NextIsNext
  <2>3. o \in Handles /\ e.of = o
    BY <2>2 DEF Handles
  <2> HIDE DEF e, o
  <2> QED
    BY <1>2, <1>4, <1>5, <2>1, <2>2, <2>3, StreamOut DEF FlowInv
<1>8. CASE mode = "eager" /\ inbox[Root] = <<>>
  <2> DEFINE e == InHand(Root)
  <2>1. stream' = Put(stream, e.of, e) /\ step[Root] = "event"
    BY <1>8 DEF DeliveryRaises
  <2>2. /\ e \in Event /\ e.of = Root /\ e.n = Len(stream[Root]) + 1 /\ e.n \in DOMAIN story[Root]
        /\ e.what = story[Root][e.n]
    BY <1>2, <2>1, OwnIsNext
  <2> HIDE DEF e
  <2> QED
    BY <1>1, <1>2, <1>4, <1>5, <2>1, <2>2, StreamOut DEF FlowInv
<1>9. mode # "eager" => UNCHANGED stream
  BY DEF DeliveryRaises
<1> QED
  BY <1>6, <1>7, <1>8, <1>9

\* Every step keeps the flow.
LEMMA FlowStep ==
  ASSUME TypesInv, LifeInv, SaidInv, FlowInv, [HandleNext]_handleVars, TypesInv'
  PROVE  FlowInv'
<1> USE DEF pulls, pool, handles, reader
<1>1. CASE UNCHANGED handleVars
  BY <1>1, FlowSame DEF handleVars, Running
<1>2. ASSUME NEW h \in Handles, FanIn(h)
      PROVE  FlowInv'
  <2>1. CASE Sleep(h)
    <3>1. \A x \in Handles : step'[x] = "event" <=> step[x] = "event"
      BY <2>1 DEF Sleep, TypesInv, HandleTypeOK
    <3> QED
      BY <2>1, <3>1, FlowSame DEF Sleep, Running
  <2>2. CASE TakeForwarded(h) \/ TakeOwn(h)
    BY <2>2, TakesFlow
  <2>3. CASE OwnOver(h)
    <3>1. \A x \in Handles : step'[x] = "event" <=> step[x] = "event"
      BY <2>3 DEF OwnOver, CloseEngine, TypesInv, HandleTypeOK
    <3> QED
      BY <2>3, <3>1, FlowSame DEF OwnOver, Running
  <2>4. CASE OwnFailed(h) \/ Stop(h)
    BY <2>4, DriveEndsFlow DEF OwnFailed, Stop, Idle
  <2> QED
    BY <1>2, <2>1, <2>2, <2>3, <2>4 DEF FanIn
<1>3. ASSUME NEW h \in Handles, Engine(h) \/ Unwinds(h)
      PROVE  FlowInv'
  BY <1>3, EngineFlow, UnwindsFlow
<1>4. ASSUME NEW c \in Kids, Grant(c) \/ Redrive(c)
      PROVE  FlowInv'
  <2>1. StartEager(c) /\ UNCHANGED <<mode, step, stream, client>>
    BY <1>4 DEF Grant, Redrive
  <2>2. ~registered[c]
    BY <1>4, ParentIs DEF Grant, Redrive, LifeInv, IsEager
  <2> QED
    BY <2>1, <2>2, StartFlow
<1>5. ASSUME NEW c \in Kids, GrantFails(c)
      PROVE  FlowInv'
  BY <1>5, FlowSame DEF GrantFails, Running
<1>6. CASE DeliveryRaises
  BY <1>6, RaisesFlow
<1>7. CASE Pull
  <2>1. Running
    BY <1>7 DEF Pull, Running
  <2> QED
    BY <1>7, <2>1, FlowSame DEF Pull
<1>8. CASE PullCancelled
  <2>1. UNCHANGED <<stream, story>> /\ ~Running'
    BY <1>8 DEF PullCancelled, PullEnds, Unregister, Running
  <2> QED
    BY <2>1, FlowEnds
<1>9. CASE Leave
  <2>1. UNCHANGED <<stream, story>> /\ ~Running'
    BY <1>9 DEF Leave, Unregister, Running
  <2> QED
    BY <2>1, FlowEnds
<1>10. CASE JoinCancelled
  <2>1. UNCHANGED <<stream, story>> /\ ~Running'
    BY <1>10 DEF JoinCancelled, Running, TypesInv, HandleTypeOK, Handles
  <2> QED
    BY <2>1, FlowEnds
<1>11. CASE Read
  BY <1>11, FlowSame DEF Read, Running
<1> QED
  BY <1>1, <1>2, <1>3, <1>4, <1>5, <1>6, <1>7, <1>8, <1>9, <1>10, <1>11 DEF HandleNext

\* Nothing was said and nothing came out.
LEMMA FlowInit == HandleInit => FlowInv
<1> SUFFICES ASSUME HandleInit PROVE FlowInv
  OBVIOUS
<1>1. \A h \in Handles : story[h] = <<>> /\ stream[h] = <<>> /\ inbox[h] = <<>> /\ step[h] = "none"
  BY DEF HandleInit
<1>2. Len(<<>>) = 0 /\ DOMAIN <<>> = {}
  OBVIOUS
<1> QED
  BY <1>1, <1>2 DEF FlowInv, StreamInOrder, InFlight, Located, OrderedIn, Complete, Handy

-----------------------------------------------------------------------------
(* Ends.                                                                       *)

\* A handle that does nothing, and whose fan-in nobody pulls.
Quiet(h) ==
  /\ ~registered[h] /\ engine[h] = "none" /\ step[h] = "none" /\ ~Pumping(h)
  /\ tasks[h] \notin {"running", "cancelling"}

\* A handle that ended well is quiet.
LEMMA SettledIsQuiet ==
  ASSUME TypesInv, LifeInv, NEW x \in Handles, Settled(x)
  PROVE  Quiet(x)
<1>1. mode \in {"lazy", "eager"}
  BY RunHandleAssumption DEF TypesInv, HandleTypeOK
<1>2. engine[x] = "none" => step[x] = "none"
  BY DEF TypesInv, HandleTypeOK
<1>3. engine[x] # "on" => engine[x] = "none"
  BY DEF TypesInv, HandleTypeOK
<1> QED
  BY <1>1, <1>2, <1>3 DEF Settled, Quiet, Pumping, IsEager, LifeInv

\* So are its children, and none of them is queued.
LEMMA ChildIsQuiet ==
  ASSUME TypesInv, LifeInv, SettledInv, NEW c \in Kids, Settled(Parent[c])
  PROVE  Quiet(c) /\ kid[c] # "queued"
<1>1. c \in Handles /\ c # Root /\ Parent[c] \in Handles
  BY ParentIs
<1>2. tasks[c] \notin {"running", "cancelling"} /\ kid[c] # "queued"
  BY <1>1 DEF SettledInv, LiveChildren
<1>3. engine[c] # "on" => engine[c] = "none" /\ step[c] = "none"
  BY <1>1 DEF TypesInv, HandleTypeOK
<1> QED
  BY <1>1, <1>2, <1>3 DEF Quiet, Pumping, IsEager, LifeInv

\* Of a quiet handle nothing is said, and a quiet child of a quiet parent stays so.
LEMMA QuietStays ==
  ASSUME TypesInv, [HandleNext]_handleVars, ~DeepRestarts, NEW h \in Handles, Quiet(h),
         h \in Kids => Quiet(Parent[h]) /\ kid[h] # "queued"
  PROVE  /\ story'[h] = story[h]
         /\ h \in Kids => tasks'[h] \notin {"running", "cancelling"} /\ kid'[h] # "queued"
<1> USE DEF pulls, pool, handles, reader
<1> DEFINE Goal == /\ story'[h] = story[h]
                   /\ h \in Kids => tasks'[h] \notin {"running", "cancelling"} /\ kid'[h] # "queued"
<1>1. ~registered[h] /\ step[h] = "none" /\ tasks[h] \notin {"running", "cancelling"} /\ ~Pumping(h)
  BY DEF Quiet
<1>2. ASSUME UNCHANGED story, UNCHANGED tasks \/ CancelDrives, UNCHANGED kid \/ CancelDrives
             \/ \E c \in Kids : kid' = [kid EXCEPT ![c] = "abandoned"]
      PROVE  Goal
  <2>1. h \in Kids => tasks'[h] \notin {"running", "cancelling"}
    BY <1>1, <1>2 DEF CancelDrives
  <2>2. h \in Kids => kid'[h] # "queued"
    BY <1>2 DEF CancelDrives, TypesInv, HandleTypeOK
  <2> QED
    BY <1>2, <2>1, <2>2
<1>3. ASSUME NEW x \in Handles, x # h, NEW k, Says(x, k) \/ UNCHANGED story, UNCHANGED kid,
             UNCHANGED tasks \/ \E how \in {"done", "failed", "cancelled"} : tasks' = [tasks EXCEPT ![x] = how]
      PROVE  Goal
  BY <1>1, <1>3 DEF Says, TypesInv, HandleTypeOK
<1>4. ASSUME NEW x \in Handles, x # h, NEW how \in {"done", "failed", "cancelled"}, NEW box, DriveEnds(x, how, box)
      PROVE  Goal
  <2>1. /\ Says(x, "ended") \/ UNCHANGED story
        /\ UNCHANGED kid /\ (UNCHANGED tasks \/ tasks' = [tasks EXCEPT ![x] = how])
    BY <1>4 DEF DriveEnds, TaskEnds, PullEnds, Unregister
  <2> QED
    BY <1>3, <1>4, <2>1
<1>5. CASE UNCHANGED handleVars
  BY <1>2, <1>5 DEF handleVars
<1>6. ASSUME NEW x \in Handles, FanIn(x)
      PROVE  Goal
  <2>1. x # h
    BY <1>1, <1>6 DEF FanIn, Sleep, TakeForwarded, TakeOwn, OwnOver, OwnFailed, Stop, Idle
  <2>2. CASE Sleep(x) \/ TakeForwarded(x) \/ TakeOwn(x) \/ OwnOver(x)
    BY <1>2, <2>2 DEF Sleep, TakeForwarded, TakeOwn, OwnOver
  <2>3. CASE OwnFailed(x) \/ Stop(x)
    BY <1>4, <2>1, <2>3 DEF OwnFailed, Stop
  <2> QED
    BY <1>6, <2>2, <2>3 DEF FanIn
<1>7. ASSUME NEW x \in Handles, Engine(x)
      PROVE  Goal
  <2>1. x # h
    BY <1>1, <1>7 DEF Engine, EngineYields, EngineGates, EngineEnds, EngineFails, EngineSpawns, Ready
  <2>2. CASE EngineEnds(x) \/ EngineFails(x)
    BY <1>2, <2>2 DEF EngineEnds, EngineFails
  <2>3. CASE EngineYields(x) \/ EngineGates(x)
    BY <1>3, <2>1, <2>3 DEF EngineYields, EngineGates
  <2>4. ASSUME NEW c \in Kids, EngineSpawns(x, c)
        PROVE  Goal
    <3>1. c # h
      BY <2>4 DEF EngineSpawns, Quiet
    <3> QED
      BY <1>1, <2>4, <3>1, ParentIs DEF EngineSpawns, Says, TypesInv, HandleTypeOK
  <2> QED
    BY <1>7, <2>2, <2>3, <2>4 DEF Engine
<1>8. ASSUME NEW x \in Handles, Unwinds(x)
      PROVE  Goal
  <2>1. x # h /\ TaskEnds(x, "cancelled", inbox) /\ UNCHANGED kid
    BY <1>1, <1>8 DEF Unwinds
  <2>2. (Says(x, "ended") \/ UNCHANGED story) /\ tasks' = [tasks EXCEPT ![x] = "cancelled"]
    BY <2>1 DEF TaskEnds, Unregister
  <2> QED
    BY <1>3, <2>1, <2>2
<1>9. ASSUME NEW c \in Kids, Grant(c) \/ Redrive(c)
      PROVE  Goal
  <2>1. StartEager(c) /\ c # h
    BY <1>9 DEF Grant, Redrive, Quiet
  <2> QED
    BY <1>1, <2>1, ParentIs DEF StartEager, Says, TypesInv, HandleTypeOK
<1>10. ASSUME NEW c \in Kids, GrantFails(c)
       PROVE  Goal
  BY <1>2, <1>10 DEF GrantFails
<1>11. CASE DeliveryRaises
  <2>1. Root # h /\ Root \in Handles
    BY <1>1, <1>11 DEF DeliveryRaises, Handles
  <2>2. PICK box : DriveEnds(Root, "failed", box)
    BY <1>11 DEF DeliveryRaises
  <2> QED
    BY <1>4, <2>1, <2>2
<1>12. CASE Pull \/ PullCancelled \/ Leave \/ Read
  BY <1>2, <1>12 DEF Pull, PullCancelled, PullEnds, Unregister, Leave, Read
<1>13. CASE JoinCancelled
  <2>1. Root # h
    BY <1>1, <1>13 DEF JoinCancelled
  <2> QED
    BY <1>1, <1>13, <2>1 DEF JoinCancelled, TypesInv, HandleTypeOK
<1> QED
  BY <1>5, <1>6, <1>7, <1>8, <1>9, <1>10, <1>11, <1>12, <1>13 DEF HandleNext

\* Into the inbox of a quiet handle with quiet children nothing is put.
LEMMA QuietBox ==
  ASSUME TypesInv, [HandleNext]_handleVars, ~DeepRestarts, NEW x \in Handles, Quiet(x),
         \A c \in Kids : Parent[c] = x => Quiet(c) /\ kid[c] # "queued"
  PROVE  inbox'[x] = inbox[x]
<1> USE DEF pulls, pool, handles, reader
<1>1. ASSUME NEW h \in Handles, NEW e, h # x, h \in Kids => Parent[h] # x,
             inbox' = inbox \/ inbox' = Put(inbox, Parent[h], e) \/ inbox' = [inbox EXCEPT ![h] = Tail(@)]
             \/ inbox' = Put([inbox EXCEPT ![h] = Tail(@)], Parent[h], e), h = Root => inbox' = inbox \/ inbox' = [inbox EXCEPT ![h] = Tail(@)]
      PROVE  inbox'[x] = inbox[x]
  BY <1>1 DEF Put, TypesInv, Handles
<1>2. ASSUME NEW h \in Handles, ~Quiet(h)
      PROVE  h # x /\ (h \in Kids => Parent[h] # x)
  BY <1>2
<1>3. ASSUME NEW h \in Handles, FanIn(h)
      PROVE  inbox'[x] = inbox[x]
  <2>1. ~Quiet(h)
    BY <1>3 DEF Quiet, FanIn, Sleep, TakeForwarded, TakeOwn, OwnOver, OwnFailed, Stop, Idle
  <2>2. CASE Sleep(h) \/ OwnOver(h)
    BY <2>2 DEF Sleep, OwnOver
  <2>3. CASE TakeForwarded(h) \/ TakeOwn(h)
    BY <1>1, <1>2, <2>1, <2>3 DEF TakeForwarded, TakeOwn, HandOn
  <2>4. CASE OwnFailed(h) \/ Stop(h)
    <3>1. inbox' = inbox \/ (h # Root /\ inbox' = Put(inbox, Parent[h], News(h, "ended")))
      BY <2>4 DEF OwnFailed, Stop, DriveEnds, TaskEnds, PullEnds, Unregister
    <3> QED
      BY <1>1, <1>2, <2>1, <3>1
  <2> QED
    BY <1>3, <2>2, <2>3, <2>4 DEF FanIn
<1>4. ASSUME NEW h \in Handles, Engine(h)
      PROVE  inbox'[x] = inbox[x]
  <2>1. CASE EngineYields(h) \/ EngineGates(h) \/ EngineEnds(h) \/ EngineFails(h)
    BY <2>1 DEF EngineYields, EngineGates, EngineEnds, EngineFails
  <2>2. ASSUME NEW c \in Kids, EngineSpawns(h, c)
        PROVE  inbox'[x] = inbox[x]
    BY <2>2 DEF EngineSpawns, Quiet, Put, TypesInv
  <2> QED
    BY <1>4, <2>1, <2>2 DEF Engine
<1>5. ASSUME NEW h \in Handles, Unwinds(h)
      PROVE  inbox'[x] = inbox[x]
  <2>1. ~Quiet(h)
    BY <1>5 DEF Unwinds, Quiet
  <2>2. inbox' = inbox \/ (h # Root /\ inbox' = Put(inbox, Parent[h], News(h, "ended")))
    BY <1>5 DEF Unwinds, TaskEnds, Unregister
  <2> QED
    BY <1>1, <1>2, <2>1, <2>2
<1>6. ASSUME NEW c \in Kids, Grant(c) \/ Redrive(c)
      PROVE  inbox'[x] = inbox[x]
  <2>1. StartEager(c) /\ Parent[c] # x
    BY <1>6 DEF Grant, Redrive, Quiet
  <2> QED
    BY <2>1 DEF StartEager, Put, TypesInv
<1>7. CASE DeliveryRaises
  <2>1. Root # x
    BY <1>7 DEF DeliveryRaises, Quiet
  <2>2. inbox' = inbox \/ inbox' = [inbox EXCEPT ![Root] = Tail(@)]
    BY <1>7 DEF DeliveryRaises, DriveEnds, TaskEnds, PullEnds, Unregister
  <2> QED
    BY <2>1, <2>2 DEF TypesInv
<1>8. CASE UNCHANGED inbox
  BY <1>8
<1>9. CASE PullCancelled \/ Leave
  BY <1>9 DEF PullCancelled, PullEnds, Leave, Unregister
<1> QED
  BY <1>3, <1>4, <1>5, <1>6, <1>7, <1>8, <1>9 DEF HandleNext, handleVars, GrantFails, Pull, JoinCancelled, Read

\* A handle comes to have ended well only by the stop of its own fan-in.
LEMMA NewlySettled ==
  ASSUME TypesInv, LifeInv, [HandleNext]_handleVars, NEW x \in Handles, Settled(x)', ~Settled(x)
  PROVE  Stop(x)
<1> USE DEF pulls, pool, handles, reader
<1>1. ~(UNCHANGED <<tasks, result>>)
  BY DEF Settled
<1>2. ASSUME NEW h \in Handles, NEW how \in {"done", "failed", "cancelled"}, NEW box,
             DriveEnds(h, how, box), h # x \/ how # "done"
      PROVE  FALSE
  <2>1. CASE IsEager(h)
    BY <1>2, <2>1 DEF DriveEnds, TaskEnds, Settled, TypesInv, HandleTypeOK
  <2>2. CASE ~IsEager(h)
    BY <1>2, <2>2 DEF DriveEnds, PullEnds, Settled, IsEager
  <2> QED
    BY <2>1, <2>2
<1>3. ASSUME NEW h \in Handles, FanIn(h)
      PROVE  Stop(x)
  <2>1. ~Sleep(h) /\ ~TakeForwarded(h) /\ ~TakeOwn(h) /\ ~OwnOver(h)
    BY <1>1 DEF Sleep, TakeForwarded, TakeOwn, OwnOver
  <2>2. ~OwnFailed(h)
    BY <1>2 DEF OwnFailed
  <2>3. Stop(h)
    BY <1>3, <2>1, <2>2 DEF FanIn
  <2> QED
    BY <1>2, <2>3 DEF Stop
<1>4. ASSUME NEW h \in Handles, Engine(h)
      PROVE  FALSE
  BY <1>1, <1>4 DEF Engine, EngineYields, EngineGates, EngineEnds, EngineFails, EngineSpawns
<1>5. ASSUME NEW h \in Handles, Unwinds(h)
      PROVE  FALSE
  BY <1>5 DEF Unwinds, TaskEnds, Settled, TypesInv, HandleTypeOK
<1>6. ASSUME NEW c \in Kids, Grant(c) \/ GrantFails(c) \/ Redrive(c)
      PROVE  FALSE
  BY <1>6, ParentIs DEF Grant, GrantFails, Redrive, StartEager, Settled, TypesInv, HandleTypeOK
<1>7. ~DeliveryRaises
  BY <1>2 DEF DeliveryRaises, Handles
<1>8. ~Pull /\ ~Read
  BY <1>1 DEF Pull, Read
<1>9. ~PullCancelled
  BY DEF PullCancelled, PullEnds, Settled
<1>10. ~Leave /\ ~JoinCancelled
  BY DEF Leave, CancelDrives, JoinCancelled, Settled, TypesInv, HandleTypeOK
<1> QED
  BY <1>1, <1>3, <1>4, <1>5, <1>6, <1>7, <1>8, <1>9, <1>10 DEF HandleNext, handleVars

\* A handle that ended well leaves nothing behind: its inbox is empty, none of its
\* children drives or is queued, and none ever will.
LEMMA SettledStep ==
  ASSUME TypesInv, LifeInv, SettledInv, ~DeepRestarts, [HandleNext]_handleVars
  PROVE  SettledInv'
<1> USE DEF pulls, pool, handles, reader
<1> SUFFICES ASSUME NEW x \in Handles, Settled(x)'
             PROVE  inbox'[x] = <<>> /\ ~LiveChildren(x)'
  BY DEF SettledInv
<1>1. CASE Settled(x)
  <2>1. Quiet(x) /\ \A c \in Kids : Parent[c] = x => Quiet(c) /\ kid[c] # "queued"
    BY <1>1, SettledIsQuiet, ChildIsQuiet
  <2>2. inbox'[x] = inbox[x] /\ inbox[x] = <<>>
    BY <1>1, <2>1, QuietBox DEF SettledInv
  <2>3. \A c \in Kids : Parent[c] = x => tasks'[c] \notin {"running", "cancelling"} /\ kid'[c] # "queued"
    BY <2>1, QuietStays, ParentIs
  <2> QED
    BY <2>2, <2>3 DEF LiveChildren
<1>2. CASE ~Settled(x)
  <2>1. Stop(x)
    BY <1>2, NewlySettled
  <2>2. inbox[x] = <<>> /\ ~LiveChildren(x) /\ DriveEnds(x, "done", inbox)
    BY <2>1 DEF Stop, Idle
  <2>3. inbox' = inbox \/ (x # Root /\ inbox' = Put(inbox, Parent[x], News(x, "ended")))
    BY <2>2 DEF DriveEnds, TaskEnds, PullEnds, Unregister
  <2>4. x # Root => Parent[x] # x
    BY ParentIs DEF Handles
  <2>5. inbox'[x] = inbox[x]
    BY <2>3, <2>4 DEF Put, TypesInv
  <2>6. UNCHANGED kid /\ (UNCHANGED tasks \/ tasks' = [tasks EXCEPT ![x] = "done"])
    BY <2>2 DEF DriveEnds, TaskEnds
  <2>7. \A c \in Kids : Parent[c] = x => tasks'[c] = tasks[c] /\ kid'[c] = kid[c]
    BY <2>6, ParentIs DEF TypesInv, HandleTypeOK
  <2> QED
    BY <2>2, <2>5, <2>7 DEF LiveChildren
<1> QED
  BY <1>1, <1>2

\* Where every ancestor ended well and the root's fan-in has nothing left, all that
\* was said has come out.
LEMMA AllCameOut ==
  ASSUME TypesInv, LifeInv, SettledInv, StreamInOrder, InFlight, Idle(Root), step[Root] = "none",
         ~LiveChildren(Root), NEW S \in Branches, NEW h \in S
  PROVE  /\ Len(stream[h]) = Len(story[h])
         /\ h \in Kids => tasks[h] \notin {"running", "cancelling"}
<1> DEFINE T == {x \in S : x = Root \/ tasks[x] = "done"}
<1>1. S \subseteq Handles /\ h \in Handles /\ Root \notin Kids
  BY RunHandleAssumption DEF Branches
<1>2. \A c \in Kids : c \in S => Parent[c] \in T
  BY <1>1 DEF Branches
<1>3. UpFrom(T, h) /\ T \in SUBSET Handles
  BY <1>1, <1>2 DEF UpFrom
<1>4. Above(h) \subseteq T
  BY <1>1, <1>3, AboveIsLeast
<1>5. \A x \in T : inbox[x] = <<>> /\ ~LiveChildren(x)
  BY <1>1 DEF SettledInv, Settled, Idle
<1> HIDE DEF T
<1>6. h \in Kids => tasks[h] \notin {"running", "cancelling"}
  BY <1>2, <1>5 DEF LiveChildren
<1>7. step[h] # "event"
  BY <1>1, <1>6, SteppingIs DEF Handles, IsEager
<1>8. Len(stream[h]) \in Nat /\ Len(story[h]) \in Nat /\ Len(stream[h]) <= Len(story[h])
      /\ DOMAIN story[h] = 1 .. Len(story[h])
  BY <1>1, Lengths DEF StreamInOrder
<1>9. ASSUME Len(stream[h]) # Len(story[h]) PROVE FALSE
  <2>1. Len(story[h]) \in DOMAIN story[h] /\ Len(story[h]) > Len(stream[h])
    BY <1>8, <1>9
  <2>2. HoldsIn(inbox, h, Len(story[h]))
    BY <1>1, <1>7, <2>1 DEF InFlight, Complete
  <2>3. PICK x \in Handles : \E i \in DOMAIN inbox[x] : inbox[x][i].of = h
    BY <2>2 DEF HoldsIn
  <2>4. PICK i \in DOMAIN inbox[x] : inbox[x][i].of = h
    BY <2>3
  <2>5. x \in Above(h)
    BY <2>4 DEF InFlight, Located, Fit
  <2>6. inbox[x] = <<>>
    BY <1>4, <1>5, <2>5
  <2> QED
    BY <2>4, <2>6
<1> QED
  BY <1>6, <1>9

\* A branch stays one backwards: in a tree whose root ended well nobody in a branch
\* ends anew.
LEMMA BranchWasOne ==
  ASSUME TypesInv, LifeInv, SettledInv, result, [HandleNext]_handleVars, NEW S \in Branches'
  PROVE  S \in Branches
<1>1. S \in SUBSET Handles /\ Root \in S
      /\ \A c \in S \ {Root} : Parent[c] \in S /\ (Parent[c] = Root \/ tasks'[Parent[c]] = "done")
  BY DEF Branches
<1> SUFFICES ASSUME NEW c \in S \ {Root}, Parent[c] # Root PROVE tasks[Parent[c]] = "done"
  BY <1>1 DEF Branches
<1> DEFINE p == Parent[c]
<1>2. p \in S /\ tasks'[p] = "done" /\ p \in Kids /\ p # Root
  BY <1>1 DEF Handles
<1>3. p \in Handles /\ Parent[p] # p /\ Parent[p] \in Handles
  BY <1>2, ParentIs
<1> HIDE DEF p
<1>4. ASSUME tasks[p] # "done" PROVE FALSE
  <2>1. Stop(p)
    BY <1>2, <1>3, <1>4, NewlySettled DEF Settled
  <2>2. DriveEnds(p, "done", inbox) /\ Pumping(p)
    BY <2>1 DEF Stop, Idle
  <2>3. tasks' = [tasks EXCEPT ![p] = "done"]
    BY <1>2, <2>2 DEF DriveEnds, TaskEnds, IsEager
  <2>4. Settled(Parent[p])
    <3>1. Parent[p] = Root \/ tasks'[Parent[p]] = "done"
      BY <1>1, <1>2
    <3> QED
      BY <1>3, <2>3, <3>1 DEF Settled, TypesInv, HandleTypeOK
  <2> QED
    BY <1>2, <2>2, <2>4, ChildIsQuiet DEF Quiet
<1> QED
  BY <1>4 DEF p

\* Once the root has its result nothing more comes out of it.
LEMMA ResultIsLast ==
  ASSUME TypesInv, LifeInv, result, [HandleNext]_handleVars
  PROVE  UNCHANGED stream
<1> USE DEF pulls, pool, handles, reader
<1>1. Root \in Handles
  BY DEF Handles
<1>2. ~Pumping(Root)
  BY <1>1, SettledIsQuiet DEF Settled, Quiet
<1>3. ASSUME NEW h \in Handles, FanIn(h)
      PROVE  UNCHANGED stream
  <2>1. h # Root
    BY <1>2, <1>3 DEF FanIn, Sleep, TakeForwarded, TakeOwn, OwnOver, OwnFailed, Stop, Idle
  <2> QED
    BY <1>3, <2>1 DEF FanIn, Sleep, TakeForwarded, TakeOwn, OwnOver, OwnFailed, Stop, HandOn
<1>4. ~DeliveryRaises
  BY <1>2 DEF DeliveryRaises
<1>5. ASSUME NEW h \in Handles, Engine(h) \/ Unwinds(h)
      PROVE  UNCHANGED stream
  BY <1>5 DEF Engine, EngineYields, EngineGates, EngineEnds, EngineFails, EngineSpawns, Unwinds
<1>6. ASSUME NEW c \in Kids, Grant(c) \/ GrantFails(c) \/ Redrive(c)
      PROVE  UNCHANGED stream
  BY <1>6 DEF Grant, GrantFails, Redrive
<1> QED
  BY <1>3, <1>4, <1>5, <1>6 DEF HandleNext, handleVars, Pull, PullCancelled, Leave, JoinCancelled, Read

\* Every step keeps what a result promises.
LEMMA EndStep ==
  ASSUME TypesInv, LifeInv, FlowInv, EndInv, [HandleNext]_handleVars
  PROVE  EndInv'
<1> SUFFICES ASSUME ~DeepRestarts PROVE SettledInv' /\ NothingLost'
  BY DEF EndInv
<1>1. SettledInv /\ NothingLost
  BY DEF EndInv
<1>2. SettledInv'
  BY <1>1, SettledStep
<1>3. Root \in Handles
  BY DEF Handles
<1>4. ASSUME result', NEW S \in Branches', NEW h \in S
      PROVE  /\ Len(stream'[h]) = Len(story'[h])
             /\ h \in Kids => tasks'[h] \notin {"running", "cancelling"}
  <2>1. h \in Handles /\ S \in SUBSET Handles
    BY <1>4 DEF Branches
  <2>2. CASE ~result
    <3>1. Stop(Root)
      BY <1>3, <1>4, <2>2, NewlySettled DEF Settled
    <3>2. Idle(Root) /\ step[Root] = "none" /\ ~LiveChildren(Root) /\ DriveEnds(Root, "done", inbox) /\ UNCHANGED stream
      BY <3>1 DEF Stop
    <3>3. StreamInOrder /\ InFlight
      BY <3>2, PumpingRuns DEF FlowInv, Idle
    <3>4. UNCHANGED story /\ (UNCHANGED tasks \/ tasks' = [tasks EXCEPT ![Root] = "done"])
      BY <3>2 DEF DriveEnds, TaskEnds, PullEnds, Unregister
    <3>5. \A c \in Kids : c # Root /\ tasks'[c] = tasks[c]
      BY <3>4, ParentIs DEF TypesInv, HandleTypeOK
    <3>6. S \in Branches
      <4>1. \A c \in S \ {Root} : Parent[c] \in S /\ (Parent[c] = Root \/ tasks'[Parent[c]] = "done")
        BY DEF Branches
      <4>2. \A c \in S \ {Root} : Parent[c] = Root \/ tasks[Parent[c]] = "done"
        BY <2>1, <3>5, <4>1 DEF Handles
      <4>3. Root \in S
        BY DEF Branches
      <4> QED
        BY <2>1, <4>1, <4>2, <4>3 DEF Branches
    <3> QED
      BY <1>1, <3>2, <3>3, <3>4, <3>5, <3>6, AllCameOut
  <2>3. CASE result
    <3>1. S \in Branches /\ UNCHANGED stream
      BY <1>1, <2>3, BranchWasOne, ResultIsLast
    <3>2. /\ Len(stream[h]) = Len(story[h])
          /\ h \in Kids => tasks[h] \notin {"running", "cancelling"}
      BY <1>1, <2>3, <3>1 DEF NothingLost
    <3>3. h # Root => h \in Kids /\ Settled(Parent[h])
      BY <2>1, <2>3, <3>1 DEF Branches, Settled, Handles
    <3>4. Quiet(h)
      BY <1>1, <1>3, <2>3, <3>3, ChildIsQuiet, SettledIsQuiet DEF Settled
    <3>5. h \in Kids => Quiet(Parent[h]) /\ kid[h] # "queued"
      BY <1>1, <3>3, ParentIs, ChildIsQuiet, SettledIsQuiet
    <3> QED
      BY <2>1, <3>1, <3>2, <3>4, <3>5, QuietStays
  <2> QED
    BY <2>2, <2>3
<1> QED
  BY <1>2, <1>4 DEF NothingLost

\* Nothing has ended at the beginning.
LEMMA EndInit == HandleInit => EndInv
<1> SUFFICES ASSUME HandleInit PROVE EndInv
  OBVIOUS
<1>1. ~result /\ \A x \in Handles : tasks[x] # "done"
  BY DEF HandleInit
<1> QED
  BY <1>1 DEF EndInv, SettledInv, Settled, NothingLost

-----------------------------------------------------------------------------
(* The theorems.                                                               *)

HandleInv == TypesInv /\ LifeInv /\ SaidInv /\ ApprovalsInv /\ FlowInv /\ EndInv

\* The invariant holds in the initial states, and every step keeps it.
LEMMA HandleInvInductive ==
  /\ HandleInit => HandleInv
  /\ HandleInv /\ [HandleNext]_handleVars => HandleInv'
<1>1. HandleInit => HandleInv
  BY TypesInit, LifeInit, SaidInit, ApprovalsInit, FlowInit, EndInit DEF HandleInv
<1>2. ASSUME HandleInv, [HandleNext]_handleVars PROVE HandleInv'
  <2>1. TypesInv /\ LifeInv /\ SaidInv /\ ApprovalsInv /\ FlowInv /\ EndInv
    BY <1>2 DEF HandleInv
  <2>2. TypesInv'
    BY <1>2, <2>1, TypesStep
  <2>3. LifeInv'
    BY <1>2, <2>1, <2>2, LifeStep
  <2>4. SaidInv'
    BY <1>2, <2>1, <2>2, <2>3, SaidStep
  <2>5. ApprovalsInv'
    BY <1>2, <2>1, <2>2, <2>3, ApprovalsStep
  <2>6. FlowInv'
    BY <1>2, <2>1, <2>2, FlowStep
  <2>7. EndInv'
    BY <1>2, <2>1, EndStep
  <2> QED
    BY <2>2, <2>3, <2>4, <2>5, <2>6, <2>7 DEF HandleInv
<1> QED
  BY <1>1, <1>2

\* What came out of a handle was said in its order, so its kinds follow each other.
LEMMA AnnouncedFollows ==
  ASSUME TypesInv, SaidInv, StreamInOrder
  PROVE  Announced
<1> SUFFICES ASSUME NEW c \in Kids, NEW i \in DOMAIN stream[c]
             PROVE  CASE stream[c][i].what = "spawned" -> i = 1
                      [] stream[c][i].what = "started" -> i > 1 /\ stream[c][i - 1].what \in {"spawned", "ended"}
                      [] OTHER -> i > 1 /\ stream[c][i - 1].what \in {"started", "own"}
  BY DEF Announced
<1>1. c \in Handles
  BY ParentIs
<1>2. /\ Len(story[c]) \in Nat /\ DOMAIN story[c] = 1 .. Len(story[c]) /\ story[c] \in Seq(Kinds)
      /\ Len(stream[c]) \in Nat /\ DOMAIN stream[c] = 1 .. Len(stream[c]) /\ Len(stream[c]) <= Len(story[c])
  BY <1>1, Lengths DEF StreamInOrder
<1>3. ASSUME NEW j \in DOMAIN stream[c] PROVE stream[c][j].what = story[c][j]
  <2>1. stream[c][j] = [of |-> c, what |-> story[c][j], n |-> j]
    BY <1>1 DEF StreamInOrder
  <2> QED
    BY <2>1
<1>4. i \in DOMAIN story[c] /\ (i > 1 => i - 1 \in DOMAIN stream[c])
  BY <1>2
<1>5. story[c][i] \in {"spawned", "started", "own", "ended"}
  BY <1>2, <1>4, ElementOfSeq DEF Kinds
<1>6. FollowsAt(story[c], i)
  BY <1>4 DEF SaidInv, Follows
<1> QED
  BY <1>3, <1>4, <1>5, <1>6 DEF FollowsAt

\* The invariant implies what the properties say.
LEMMA HandleInvImplies ==
  HandleInv => /\ HandleTypeOK /\ StreamInOrder /\ Announced /\ NoWorkAfterEnd /\ SentinelLast
               /\ (~DeepRestarts => NothingLost)
<1> SUFFICES ASSUME HandleInv
             PROVE  /\ HandleTypeOK /\ StreamInOrder /\ Announced /\ NoWorkAfterEnd /\ SentinelLast
                    /\ (~DeepRestarts => NothingLost)
  OBVIOUS
<1>1. TypesInv /\ LifeInv /\ SaidInv /\ ApprovalsInv /\ FlowInv /\ EndInv
  BY DEF HandleInv
<1>2. HandleTypeOK /\ StreamInOrder /\ SentinelLast /\ (~DeepRestarts => NothingLost)
  BY <1>1 DEF TypesInv, FlowInv, ApprovalsInv, EndInv
<1>3. NoWorkAfterEnd
  BY <1>1, SteppingIs DEF NoWorkAfterEnd
<1>4. Announced
  BY <1>1, <1>2, AnnouncedFollows
<1> QED
  BY <1>2, <1>3, <1>4

\* In any finite tree of handles, driven either way, restarted and cancelled at any
\* moment: what comes out of the root about a handle comes in the order it was
\* said, without a gap and without a repetition, its announcements first; no engine
\* works behind an ended handle, and the approvals of an ended run end with the
\* sentinel.
THEOREM StreamsAreOrdered ==
  HandleSpec => [](HandleTypeOK /\ StreamInOrder /\ Announced /\ NoWorkAfterEnd /\ SentinelLast)
<1>1. HandleInv => HandleTypeOK /\ StreamInOrder /\ Announced /\ NoWorkAfterEnd /\ SentinelLast
  BY HandleInvImplies
<1> QED
  BY HandleInvInductive, <1>1, PTL DEF HandleSpec

\* Where a subagent is restarted only under a parent that drives, the consumer of
\* any such tree has, when the result is there, also heard all of it: every event
\* of every branch whose drives ended well.
THEOREM HandlesAreSound ==
  ASSUME ~DeepRestarts
  PROVE  HandleSpec => []HandleSound
<1>1. HandleInv => HandleSound
  BY HandleInvImplies DEF HandleSound
<1> QED
  BY HandleInvInductive, <1>1, PTL DEF HandleSpec

=============================================================================
