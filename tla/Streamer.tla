------------------------------ MODULE Streamer -------------------------------
(***************************************************************************)
(* A streamed completion: the streaming core (BaseStreamer and its sync    *)
(* and async mixins) over the four wires a provider may speak.             *)
(*                                                                         *)
(* A pull reads one chunk of the wire on a task the streamer owns; the     *)
(* chunk's raw events go through the handlers of the wire, which build the *)
(* message and the public events that narrate it.  The deadline, `cancel`  *)
(* and the cancellation of the consumer's own task all end a read; the     *)
(* flags tell them apart.                                                  *)
(***************************************************************************)
EXTENDS Naturals, Sequences, FiniteSets

CONSTANTS
    Wires,      \* of "messages", "chat", "responses", "converse"
    Clients,    \* of "sync", "async"
    MaxRaw,     \* bound: raw events of a response
    MaxBlocks   \* bound: wire blocks of a response

ASSUME StreamerAssumption ==
    /\ Wires \subseteq {"messages", "chat", "responses", "converse"}
    /\ Clients \subseteq {"sync", "async"}
    /\ {MaxRaw, MaxBlocks} \subseteq Nat

VARIABLES
    wire, caller,
    msg,          \* the message under construction and the wire's own maps
    server,       \* what the provider has said: its stage, blocks, count
    reading,      \* the read: none, running, chunk, end, failed, cancelled
    chunk,        \* the raw events it brought
    stage,        \* new, opening, open, exited
    consumer,     \* idle, pulling, looping, raised, over
    pending, told,
    finished, cancelled, expired, interrupted,
    response      \* none, open, closed

flags == <<finished, cancelled, expired, interrupted>>
life == <<stage, consumer, response>>
talk == <<pending, told>>
streamerVars == <<wire, caller, msg, server, reading, chunk, life, talk, flags>>

-----------------------------------------------------------------------------
(* The message: blocks [kind, text, done], where text counts pieces.       *)

Ev(what, at) == [what |-> what, at |-> at]
StartEvent == Ev("start", 0)
FinishEv == Ev("finish", 0)
CancelledFinish == Ev("cancelled", 0)
Failure == Ev("error", 0)
Terminals == {FinishEv, CancelledFinish, Failure}

Empty == [content |-> <<>>, idx |-> <<>>, run |-> 0, held |-> <<>>, started |-> FALSE,
          stop |-> FALSE, usage |-> FALSE]

\* The outcome of a handler: a message, public events, and whether it raised.
Gives(m, events) == [m |-> m, out |-> events, bad |-> FALSE]
Silent(m) == Gives(m, <<>>)
Raises(m) == [m |-> m, out |-> <<>>, bad |-> TRUE]

NewBlock(m, kind) == [m EXCEPT !.content = Append(@, [kind |-> kind, text |-> 0, done |-> FALSE])]
At(m, key, n) == [m EXCEPT !.idx = [k \in DOMAIN @ \cup {key} |-> IF k = key THEN n ELSE @[k]]]
Drop(m, key) == [m EXCEPT !.idx = [k \in DOMAIN @ \ {key} |-> @[k]]]
Grow(m, n) == [m EXCEPT !.content[n].text = @ + 1]
Sealed(m, n) == [m EXCEPT !.content[n].done = TRUE]

\* A new block under a wire key, and its start event.
Opens(m, key, kind) ==
    LET new == At(NewBlock(m, kind), key, Len(m.content) + 1) IN Gives(new, <<Ev("open", Len(new.content))>>)

Known(m, r) == r.key \in DOMAIN m.idx
Delta(m, r) == Gives(Grow(m, m.idx[r.key]), <<Ev("delta", m.idx[r.key])>>)

\* A block ends; a tool call whose arguments do not parse ends the stream.
CloseBlock(m, n, r) ==
    IF m.content[n].kind = "call" /\ r.broken THEN Raises(m) ELSE Gives(Sealed(m, n), <<Ev("close", n)>>)

FinishEvent(m) == Gives(m, <<FinishEv>>)

\* The blocks of S in the order of the message, their ends, and S with all of them
\* done: what becomes of the blocks that are open when a response ends.
InMessageOrder(S) ==
    [i \in 1 .. Cardinality(S) |-> CHOOSE n \in S : Cardinality({j \in S : j < n}) = i - 1]
Closes(S) == [i \in 1 .. Cardinality(S) |-> Ev("close", InMessageOrder(S)[i])]
AllSealed(m, S) ==
    [m EXCEPT !.content = [n \in DOMAIN @ |-> IF n \in S THEN [@[n] EXCEPT !.done = TRUE] ELSE @[n]]]

-----------------------------------------------------------------------------
(* Anthropic Messages.                                                     *)

\* `_close_text_run`: adjacent text blocks are one run until something else.
CloseTextRun(m) ==
    IF m.run = 0 THEN Silent(m) ELSE Gives([Sealed(m, m.run) EXCEPT !.run = 0], <<Ev("close", m.run)>>)

MessagesOpen(m, r) ==
    IF r.kind = "text" THEN
        IF m.run # 0 THEN Silent(At(m, r.key, m.run))
        ELSE LET o == Opens(m, r.key, "text") IN [o EXCEPT !.m.run = Len(m.content) + 1]
    ELSE LET c == CloseTextRun(m)
             o == Opens(c.m, r.key, r.kind)
         IN  IF r.kind = "web" THEN Gives(o.m, c.out \o <<Ev("web_start", Len(o.m.content))>>)
             ELSE Gives(o.m, c.out \o o.out)

\* The input of a server tool streams without public events.
MessagesDelta(m, r) ==
    IF ~Known(m, r) THEN Silent(m)
    ELSE IF m.content[m.idx[r.key]].kind = "web" THEN Silent(m)
    ELSE Delta(m, r)

\* A text block ends within its run; a server tool's result becomes a block of
\* its own beside the private one.
MessagesStop(m, r) ==
    IF ~Known(m, r) THEN Silent(m)
    ELSE LET n == m.idx[r.key]
         IN  CASE m.content[n].kind = "text" -> Silent(m)
               [] m.content[n].kind = "web" ->
                    LET b == Sealed(NewBlock(Sealed(m, n), "result"), Len(m.content) + 1)
                    IN  Gives(b, <<Ev("web_end", n)>>)
               [] OTHER -> CloseBlock(m, n, r)

MessagesEnd(m) ==
    LET c == CloseTextRun(m)
        u == [c.m EXCEPT !.usage = TRUE]
    IN  Gives(u, c.out \o <<Ev("usage", 0)>> \o (IF m.stop THEN <<FinishEv>> ELSE <<>>))

HandleMessages(m, r) ==
    CASE r.type = "begin" -> Gives(m, <<StartEvent>>)
      [] r.type = "open" -> MessagesOpen(m, r)
      [] r.type = "delta" -> MessagesDelta(m, r)
      [] r.type = "close" -> MessagesStop(m, r)
      [] r.type = "reason" -> Silent([m EXCEPT !.stop = TRUE])
      [] r.type = "end" -> MessagesEnd(m)
      [] r.type = "error" -> Raises(m)

-----------------------------------------------------------------------------
(* OpenAI chat completions: blocks are known by their kind, calls by index. *)

ChatDelta(m, r) ==
    IF Known(m, r) THEN Delta(m, r)
    ELSE LET o == Opens(m, r.key, r.kind)
             d == Delta(o.m, r)
         IN  Gives(d.m, o.out \o d.out)

\* Fragments of a call that has no id or name yet are held, and flushed when
\* it opens.
ChatFragment(m, r) ==
    LET held == IF r.key \in DOMAIN m.held THEN m.held[r.key] ELSE 0
        more == [m EXCEPT !.held = [k \in DOMAIN @ \cup {r.key} |-> IF k = r.key THEN held + 1 ELSE @[k]]]
    IN  IF Known(m, r) THEN Delta(m, r)
        ELSE IF ~r.named THEN Silent(more)
        ELSE LET o == Opens([more EXCEPT !.held[r.key] = 0], r.key, "call")
                 n == Len(o.m.content)
             IN  Gives([o.m EXCEPT !.content[n].text = held + 1], o.out \o [i \in 1 .. held + 1 |-> Ev("delta", n)])

\* `close_open_blocks`: all of them.  The source takes reasoning and text before
\* the calls; here they go in the order of the message, since no property is about
\* the order of two blocks.
ChatReason(m, r) ==
    LET open == {m.idx[k] : k \in DOMAIN m.idx}
    IN  IF \/ DOMAIN m.held \ DOMAIN m.idx # {}
           \/ r.broken /\ \E n \in open : m.content[n].kind = "call"
        THEN Raises([m EXCEPT !.stop = TRUE])
        ELSE Gives([AllSealed(m, open) EXCEPT !.stop = TRUE, !.idx = <<>>, !.held = <<>>], Closes(open))

\* The finish is built at the [DONE] marker, or when the wire ends without it.
ChatDone(m) == IF m.stop THEN FinishEvent(m) ELSE Silent(m)

ChatPart(m, r) ==
    CASE r.type = "delta" -> IF r.kind = "call" THEN ChatFragment(m, r) ELSE ChatDelta(m, r)
      [] r.type = "reason" -> ChatReason(m, r)
      [] r.type = "usage" -> Gives([m EXCEPT !.usage = TRUE], <<Ev("usage", 0)>>)

HandleChat(m, r) ==
    CASE r.type = "end" -> ChatDone(m)
      [] r.type = "error" -> Raises(m)
      [] OTHER -> LET p == ChatPart([m EXCEPT !.started = TRUE], r)
                  IN  [p EXCEPT !.out = IF m.started THEN @ ELSE <<StartEvent>> \o @]

-----------------------------------------------------------------------------
(* OpenAI responses: items and their parts.                                *)

ResponsesOpen(m, r) ==
    LET o == Opens(m, r.key, r.kind)
    IN  IF r.kind = "web" THEN Gives(o.m, <<Ev("web_start", Len(o.m.content))>>) ELSE o

ResponsesDelta(m, r) ==
    IF ~Known(m, r) \/ m.content[m.idx[r.key]].kind = "web" THEN Silent(m) ELSE Delta(m, r)

\* `close` tells whether the block was open: a duplicate done is ignored.  The
\* key of a web call is forgotten with its done.
ResponsesDone(m, r) ==
    IF ~Known(m, r) \/ m.content[m.idx[r.key]].done THEN Silent(m)
    ELSE IF m.content[m.idx[r.key]].kind # "web" THEN CloseBlock(m, m.idx[r.key], r)
    ELSE LET n == m.idx[r.key]
             b == Sealed(NewBlock(Sealed(m, n), "result"), Len(m.content) + 1)
         IN  Gives(Drop(b, r.key), <<Ev("web_end", n)>>)

\* Mutant: what is open at the terminal stays open.
ResponsesEndOpen(m, r) == Gives([m EXCEPT !.stop = TRUE, !.usage = TRUE], <<Ev("usage", 0), FinishEv>>)

\* A truncated response goes terminal with blocks open: they are closed first.
ResponsesEnd(m, r) ==
    LET open == {n \in 1 .. Len(m.content) : ~m.content[n].done /\ m.content[n].kind # "web"}
    IN  IF r.broken /\ \E n \in open : m.content[n].kind = "call" THEN Raises(m)
        ELSE Gives([AllSealed(m, open) EXCEPT !.stop = TRUE, !.usage = TRUE],
                   Closes(open) \o <<Ev("usage", 0), FinishEv>>)

ResponsesRaw(m, r) ==
    CASE r.type = "open" -> ResponsesOpen(m, r)
      [] r.type = "delta" -> ResponsesDelta(m, r)
      [] r.type = "close" -> ResponsesDone(m, r)
      [] r.type = "end" -> ResponsesEnd(m, r)
      [] r.type = "error" -> Raises(m)
      [] OTHER -> Silent(m)

\* Whatever comes first is announced by the start.
HandleResponses(m, r) ==
    LET p == ResponsesRaw([m EXCEPT !.started = TRUE], r)
    IN  [p EXCEPT !.out = IF m.started \/ p.bad THEN @ ELSE <<StartEvent>> \o @]

-----------------------------------------------------------------------------
(* Bedrock Converse: only tool use announces its block.                    *)

ConverseOpen(m, r) == IF r.kind = "call" THEN Opens(m, r.key, "call") ELSE Silent(m)

ConverseDelta(m, r) ==
    IF r.kind = "call" /\ ~Known(m, r) THEN Silent(m) ELSE ChatDelta(m, r)

ConverseStop(m, r) == IF Known(m, r) THEN CloseBlock(Drop(m, r.key), m.idx[r.key], r) ELSE Silent(m)

HandleConverse(m, r) ==
    CASE r.type = "begin" -> Gives(m, <<StartEvent>>)
      [] r.type = "open" -> ConverseOpen(m, r)
      [] r.type = "delta" -> ConverseDelta(m, r)
      [] r.type = "close" -> ConverseStop(m, r)
      [] r.type = "reason" -> Silent([m EXCEPT !.stop = TRUE])
      [] r.type = "usage" -> Gives([m EXCEPT !.usage = TRUE], <<Ev("usage", 0)>>)
      [] r.type = "error" -> Raises(m)

-----------------------------------------------------------------------------
HandleEvent(m, r) ==
    CASE wire = "messages" -> HandleMessages(m, r)
      [] wire = "chat" -> HandleChat(m, r)
      [] wire = "responses" -> HandleResponses(m, r)
      [] wire = "converse" -> HandleConverse(m, r)

\* `handle_wire_end`: two wires deliver their usage behind the finish marker.
HandleWireEnd(m) == IF wire \in {"chat", "converse"} /\ m.stop THEN <<FinishEv>> ELSE <<>>

\* A chunk's raw events, at most two, one after the other, up to the one that
\* raises.
HandleAll(m, raws) ==
    IF raws = <<>> THEN Silent(m)
    ELSE LET h == HandleEvent(m, raws[1])
         IN  IF Len(raws) = 1 \/ h.bad THEN h
             ELSE LET g == HandleEvent(h.m, raws[2]) IN [g EXCEPT !.out = h.out \o @]

-----------------------------------------------------------------------------
(* The provider.                                                           *)

\* Only a fragment of a call may lack its name, and only a call be cut short.
Raw(type, key, kind) ==
    {r \in [type : {type}, key : {key}, kind : {kind}, named : BOOLEAN, broken : BOOLEAN] :
        /\ ~r.named => wire = "chat" /\ kind = "call"
        /\ r.broken => kind = "call" /\ type \in {"close", "end", "reason"}}

BlockKinds == CASE wire = "chat" -> {"text", "call"}
                [] wire = "converse" -> {"thinking", "text", "call"}
                [] OTHER -> {"text", "call", "web"}

\* A call may be cut short: its arguments do not parse.
CallKind(s) == IF \E n \in 1 .. MaxBlocks : s.blocks[n] = "call" THEN "call" ELSE "text"

\* What may come next, given what was said.  A response ends with a reason and
\* an end marker; blocks follow one another, or, for chat, interleave.
NextRaws(s) ==
    LET b == s.blocks
        n == Cardinality({i \in 1 .. MaxBlocks : b[i] # "none"})
        opens == IF n < MaxBlocks /\ s.open = 0 THEN UNION {Raw("open", n + 1, k) : k \in BlockKinds} ELSE {}
        deltas == IF s.open # 0 THEN Raw("delta", s.open, b[s.open]) ELSE {}
        closes == IF s.open # 0 THEN Raw("close", s.open, b[s.open])
                  ELSE IF wire = "responses" /\ n > 0 THEN Raw("close", n, b[n]) ELSE {}
        parts == UNION {Raw("delta", i, IF b[i] = "none" THEN IF i = 1 THEN "text" ELSE "call" ELSE b[i]) : i \in 1 .. MaxBlocks}
    IN  CASE s.stage = "begin" -> IF wire \in {"messages", "converse"} THEN Raw("begin", 0, "none")
                                       ELSE IF wire = "responses" THEN Raw("created", 0, "none") ELSE parts
          [] s.stage = "body" ->
                IF wire = "chat" THEN parts \cup Raw("reason", 0, CallKind(s)) \cup Raw("error", 0, "none")
                ELSE opens \cup deltas \cup closes \cup Raw("error", 0, "none") \cup
                     (IF wire = "responses" THEN Raw("end", 0, CallKind(s))
                      ELSE IF s.open = 0 THEN Raw("reason", 0, "none") ELSE {})
          [] s.stage = "reason" -> IF wire = "messages" THEN Raw("end", 0, "none") ELSE Raw("usage", 0, "none")
          [] s.stage = "usage" -> IF wire = "chat" THEN Raw("end", 0, "none") ELSE {}
          [] OTHER -> {}

Said(s, r) ==
    [stage |-> CASE r.type \in {"begin", "created", "open", "delta", "close"} -> "body"
                 [] r.type \in {"reason", "usage"} -> r.type
                 [] OTHER -> "over",
     blocks |-> IF r.type \in {"open", "delta"} THEN [s.blocks EXCEPT ![r.key] = r.kind] ELSE s.blocks,
     open |-> IF wire = "chat" THEN 0 ELSE IF r.type = "open" THEN r.key ELSE IF r.type = "close" THEN 0 ELSE s.open,
     said |-> s.said + 1]

\* The read in flight ends: with a chunk, at the end of the wire, or in an error.
WireGives(how, raws, s) ==
    /\ stage = "open" /\ reading = "running"
    /\ reading' = how /\ chunk' = raws /\ server' = s
    /\ UNCHANGED <<wire, caller, msg, life, talk, flags>>

\* A line that carries no event, one event, or two frames in one read.
ReadsChunk ==
    \/ WireGives("chunk", <<>>, [server EXCEPT !.said = @ + 1]) /\ server.said < MaxRaw
    \/ server.said < MaxRaw /\ \E r \in NextRaws(server) : WireGives("chunk", <<r>>, Said(server, r))

ReadsTwo ==
    /\ wire = "converse" /\ server.stage \in {"begin", "reason"} /\ server.said + 1 < MaxRaw
    /\ \E r \in NextRaws(server) : WireGives("chunk", <<r, [r EXCEPT !.type = "error"]>>, [Said(server, r) EXCEPT !.stage = "over"])

WireEnds == WireGives("end", <<>>, [server EXCEPT !.stage = "over"])
ReadFails == WireGives("failed", <<>>, [server EXCEPT !.stage = "over"])

-----------------------------------------------------------------------------
(* Entering.                                                               *)

EnterStream ==
    /\ stage = "new"
    /\ stage' = "opening" /\ reading' = "running"
    /\ UNCHANGED <<wire, caller, msg, server, chunk, consumer, response, talk, flags>>

\* `open_response`: a rejected request is read, closed and raised.
Opened(ok) ==
    /\ stage = "opening" /\ reading = "running"
    /\ reading' = (IF ok THEN "chunk" ELSE "failed")
    /\ response' = (IF ok THEN "open" ELSE "closed")
    /\ UNCHANGED <<wire, caller, msg, server, chunk, stage, consumer, talk, flags>>

\* The sync open looks at the clock once the headers are there.
Entered ==
    /\ stage = "opening" /\ reading # "running"
    /\ IF reading = "chunk" /\ ~interrupted /\ (caller = "async" \/ ~expired)
       THEN stage' = "open" /\ UNCHANGED <<consumer, response>>
       ELSE /\ stage' = "exited" /\ consumer' = "raised"
            /\ response' = (IF response = "open" THEN "closed" ELSE response)
    /\ reading' = "none"
    /\ UNCHANGED <<wire, caller, msg, server, chunk, talk, flags>>

-----------------------------------------------------------------------------
(* Iterating.                                                              *)

\* `emit`: the start comes first, whatever the wire began with.
Emit(e, rest) ==
    IF told = <<>> /\ e # StartEvent
    THEN told' = <<StartEvent>> /\ pending' = <<e>> \o rest
    ELSE told' = Append(told, e) /\ pending' = rest

Answers(e, rest) ==
    /\ Emit(e, rest)
    /\ finished' = (finished \/ e \in Terminals \/ \E i \in DOMAIN rest : rest[i] \in Terminals)
    /\ consumer' = "idle"

PullPending ==
    /\ stage = "open" /\ consumer = "idle" /\ pending # <<>>
    /\ Answers(Head(pending), Tail(pending))
    /\ UNCHANGED <<wire, caller, msg, server, reading, chunk, stage, response, cancelled, expired, interrupted>>

PullOver ==
    /\ stage = "open" /\ consumer = "idle" /\ pending = <<>> /\ finished
    /\ consumer' = "over"
    /\ UNCHANGED <<wire, caller, msg, server, reading, chunk, stage, response, talk, flags>>

\* The flags are looked at before each read.
PullReads ==
    /\ stage = "open"
    /\ consumer = "looping" \/ (consumer = "idle" /\ pending = <<>> /\ ~finished)
    /\ IF expired THEN Answers(Failure, <<>>) /\ UNCHANGED reading
       ELSE IF cancelled THEN Answers(CancelledFinish, <<>>) /\ UNCHANGED reading
       ELSE consumer' = "pulling" /\ reading' = "running" /\ UNCHANGED <<talk, finished>>
    /\ UNCHANGED <<wire, caller, msg, server, chunk, stage, response, cancelled, expired, interrupted>>

Resuming == stage = "open" /\ consumer = "pulling" /\ reading # "running"
Resumed == reading' = "none" /\ UNCHANGED <<wire, caller, server, chunk, stage, response, cancelled, expired, interrupted>>

\* The chunk is parsed and handled; events of a chunk that raises are dropped.
ResumeChunk ==
    /\ Resuming /\ reading = "chunk" /\ ~interrupted
    /\ LET h == HandleAll(msg, chunk)
       IN  /\ msg' = h.m
           /\ IF h.bad THEN Answers(IF cancelled THEN CancelledFinish ELSE Failure, <<>>)
              ELSE IF h.out = <<>> THEN consumer' = "looping" /\ UNCHANGED <<talk, finished>>
              ELSE Answers(Head(h.out), Tail(h.out))
    /\ Resumed

ResumeEnd ==
    /\ Resuming /\ reading = "end" /\ ~interrupted
    /\ Answers(IF HandleWireEnd(msg) = <<>> THEN Failure ELSE FinishEv, <<>>)
    /\ UNCHANGED msg /\ Resumed

ResumeFailed ==
    /\ Resuming /\ reading = "failed" /\ ~interrupted
    /\ Answers(IF cancelled THEN CancelledFinish ELSE Failure, <<>>)
    /\ UNCHANGED msg /\ Resumed

\* A cancelled read: the deadline's, `cancel`'s, or the consumer's own.
ResumeCancelled ==
    /\ Resuming
    /\ reading = "cancelled" \/ interrupted
    /\ IF expired THEN Answers(Failure, <<>>)
       ELSE IF cancelled THEN Answers(CancelledFinish, <<>>)
       ELSE consumer' = "raised" /\ UNCHANGED <<talk, finished>>
    /\ UNCHANGED msg /\ Resumed

-----------------------------------------------------------------------------
(* What ends a read from outside.                                          *)

Abort == IF reading = "running" THEN "cancelled" ELSE reading

\* The timer; a sync read goes on, its deadline is looked at after it.
Expire ==
    /\ ~expired /\ stage \in {"opening", "open"}
    /\ expired' = TRUE
    /\ reading' = (IF caller = "async" THEN Abort ELSE reading)
    /\ UNCHANGED <<wire, caller, msg, server, chunk, life, talk, finished, cancelled, interrupted>>

\* `cancel`, from another task or thread: the response is closed, which ends a
\* sync read with an error.
Cancel ==
    /\ ~cancelled /\ stage \in {"opening", "open"}
    /\ cancelled' = TRUE
    /\ reading' = IF caller = "async" THEN Abort
               ELSE IF reading = "running" /\ response = "open" THEN "failed" ELSE reading
    /\ response' = (IF response = "open" THEN "closed" ELSE response)
    /\ UNCHANGED <<wire, caller, msg, server, chunk, stage, consumer, talk, finished, expired, interrupted>>

\* The consumer's own task is cancelled in a pull or in the open.
Interrupt ==
    /\ caller = "async" /\ ~interrupted
    /\ stage = "opening" \/ consumer = "pulling"
    /\ interrupted' = TRUE
    /\ reading' = Abort
    /\ UNCHANGED <<wire, caller, msg, server, chunk, life, talk, finished, cancelled, expired>>

\* Leaving the block: the read is reaped, the response closed.
Exit ==
    /\ stage = "open" /\ consumer \in {"idle", "raised", "over"}
    /\ stage' = "exited" /\ response' = "closed"
    /\ reading' = (IF reading = "none" THEN "none" ELSE "cancelled")
    /\ UNCHANGED <<wire, caller, msg, server, chunk, consumer, talk, flags>>

-----------------------------------------------------------------------------
StreamerInit ==
    /\ wire \in Wires /\ caller \in Clients
    /\ msg = Empty
    /\ server = [stage |-> "begin", blocks |-> [n \in 1 .. MaxBlocks |-> "none"], open |-> 0, said |-> 0]
    /\ reading = "none" /\ chunk = <<>>
    /\ stage = "new" /\ consumer = "idle" /\ response = "none"
    /\ pending = <<>> /\ told = <<>>
    /\ finished = FALSE /\ cancelled = FALSE /\ expired = FALSE /\ interrupted = FALSE

Resume == Entered \/ ResumeChunk \/ ResumeEnd \/ ResumeFailed \/ ResumeCancelled

StreamerNext ==
    \/ EnterStream \/ Opened(TRUE) \/ Opened(FALSE)
    \/ PullPending \/ PullOver \/ PullReads \/ Resume
    \/ ReadsChunk \/ ReadsTwo \/ WireEnds \/ ReadFails
    \/ Expire \/ Cancel \/ Interrupt \/ Exit

\* The event loop resumes what is ready and fires the timer; the provider and
\* the socket of a sync read owe nothing.
StreamerFairness ==
    WF_streamerVars(Resume) /\ WF_streamerVars(PullReads) /\ WF_streamerVars(Expire)

StreamerSpec == StreamerInit /\ [][StreamerNext]_streamerVars /\ StreamerFairness

-----------------------------------------------------------------------------
(* Properties.                                                             *)

\* Every variable has its type, and the maps of a wire lead into the message.
StreamerTypeOK ==
    /\ reading \in {"none", "running", "chunk", "end", "failed", "cancelled"}
    /\ stage \in {"new", "opening", "open", "exited"}
    /\ consumer \in {"idle", "pulling", "looping", "raised", "over"}
    /\ response \in {"none", "open", "closed"}
    /\ \A k \in DOMAIN msg.idx : msg.idx[k] \in 1 .. Len(msg.content)
    /\ msg.run \in 0 .. Len(msg.content)

\* The stream begins with its one start, and its one terminal is the last thing
\* said (streamer.py:15).
OneStartOneTerminal ==
    /\ \A i \in DOMAIN told : told[i] = StartEvent <=> i = 1
    /\ \A i \in DOMAIN told : told[i] \in Terminals => i = Len(told) /\ pending = <<>>
    /\ consumer = "over" => told # <<>> /\ told[Len(told)] \in Terminals

About(n) == {i \in DOMAIN told : told[i].at = n}

\* The events about a block open it, then add to it, then close it, each block
\* once, on every wire (types/streaming.py).
BlocksAreBracketed ==
    \A n \in 1 .. Len(msg.content) : \A i \in About(n) :
        /\ told[i].what \in {"open", "web_start"} <=> \A j \in About(n) : i <= j
        /\ told[i].what \in {"close", "web_end"} => \A j \in About(n) : j <= i

\* A message that finished was told in full: every block that was opened is
\* closed, every call has its arguments, and the deltas add up to the text
\* (openai_responses/streamer.py:331, "dispatched with its arguments erased").
FinishedIsWhole ==
    told # <<>> /\ told[Len(told)] = FinishEv =>
        \A n \in 1 .. Len(msg.content) :
            /\ msg.content[n].kind = "call" => msg.content[n].done
            /\ msg.content[n].kind \in {"text", "thinking", "call"} =>
                   /\ \E i \in About(n) : told[i].what = "close"
                   /\ Cardinality(About(n)) = msg.content[n].text + 2

\* A finish is one the provider gave a reason for: a wire that just ends is an
\* error (streamer.py:46).
FinishHasReason == (\E i \in DOMAIN told : told[i] = FinishEv) => msg.stop

\* What was left holds nothing: no read in flight and no open response
\* (streamer.py:488).
NothingLeaks == stage = "exited" => reading # "running" /\ response # "open"

\* With a deadline, an async pull is answered whatever the provider does: the
\* timer cancels the read it waits on (streamer.py:20).
PullAnswered == (caller = "async" /\ consumer = "pulling") ~> consumer # "pulling"

\* The contract of `stream()` on every wire: one start, one terminal, bracketed
\* blocks, nothing missing from a message that finished, nothing left open.
StreamerSound ==
    /\ StreamerTypeOK /\ OneStartOneTerminal /\ BlocksAreBracketed
    /\ FinishedIsWhole /\ FinishHasReason /\ NothingLeaks

=============================================================================
