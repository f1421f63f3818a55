------------------------------- MODULE MCParts --------------------------------
(* Ten parts of the system, one instance each: the history and its wire forms, *)
(* the handles and the event stream of a run, the tools that edit files and    *)
(* the way to them, and what the terminal and its plugins keep.  They share no *)
(* state here, so a behaviour moves one of them and the others rest.           *)
EXTENDS History, RunHandle, Streamer, Files, Edits, Routing, Questions, Terminal,
        Checkpoints, Memory, TLC

-------------------------------------------------------------------------------
(* History: five settings over four wires, native tools on and off.            *)

Config(provider, model, of, natives) ==
    [provider |-> provider, model |-> model, wire |-> of, natives |-> natives]

Claude(model) == Config("anthropic", model, "anthropic",
                        {"anthropic_text_editor_20250728", "anthropic_bash_20250124"})
GPT == Config("openai", "gpt", "responses", {"openai_apply_patch", "openai_shell"})
Completions == Config("other", "chat", "openai", {})
Bedrock == Config("bedrock", "nova", "bedrock", {})

On(cfg) == [cfg |-> cfg, native |-> TRUE]
Off(cfg) == [cfg |-> cfg, native |-> FALSE]

MCSetting == {On(Claude("opus")), Off(Claude("sonnet")), On(GPT), Off(Completions), Off(Bedrock)}

\* A gateway that speaks chat completions under the name of OpenAI.
MCStrangers ==
    {[provider |-> "openai", model |-> "gpt", wire |-> "openai", native |-> GPT.natives]}

MCMediaOf(n) == IF n = 0 THEN "text" ELSE "image_url"

Words == [w |-> "text", cited |-> FALSE]
Cited == [w |-> "text", cited |-> TRUE]
Thought == [w |-> "thinking", id |-> TRUE, signed |-> TRUE, redacted |-> FALSE]
CallOf(name, ct) == [w |-> "call", name |-> name, ct |-> ct]
WebResult == [w |-> "web_result", failed |-> TRUE]
WebCall(done) == [w |-> "web_call", action |-> done, in_progress |-> ~done, failed |-> FALSE]

ResponseOf(blocks, value) == [blocks |-> blocks, value |-> value]

MCResponses(target) ==
    CASE target.wire = "anthropic" ->
            {ResponseOf(<<Thought, Words, CallOf("bash", "")>>, "tool_use"),
             ResponseOf(<<Thought, [w |-> "server_tool"], WebResult, Words, Cited>>, "pause_turn")}
      [] target.wire = "responses" ->
            {ResponseOf(<<Thought, CallOf("shell", "shell_call")>>, "completed"),
             ResponseOf(<<WebCall(TRUE), WebCall(FALSE), CallOf("task", "")>>, "completed")}
      [] target.wire = "openai" -> {ResponseOf(<<Thought, Words, [w |-> "refusal"]>>, "stop")}
      [] target.wire = "bedrock" ->
            {ResponseOf(<<Thought, CallOf("read", ""), CallOf("read", "")>>, "tool_use")}

-------------------------------------------------------------------------------
(* RunHandle: a root with a subagent that has a subagent of its own.           *)

CONSTANTS main0, sub1, sub2

Chain == [c \in {sub1, sub2} |-> IF c = sub1 THEN main0 ELSE sub1]
KidEvents == [h \in {main0, sub1, sub2} |-> IF h = sub2 THEN 1 ELSE 0]

-------------------------------------------------------------------------------
(* Files: two conversations with one call each.                                *)

CONSTANTS c1, c2, p1, p2

MCConv == c1 :> "x" @@ c2 :> "y"
One(t, p, to) == [tool |-> t, path |-> p, to |-> to, ops |-> <<>>]
Op(kind, p, to) == [kind |-> kind, path |-> p, to |-> to]
Patched(ops) == [tool |-> "apply_patch", path |-> None, to |-> None, ops |-> ops]
MCInitialReads == {{}, {p1}}
MCRequests ==
    {One(t, p1, None) : t \in {"read", "edit", "str_replace", "edit_new", "write", "delete_file",
                               "native_create", "native_delete"}}
    \cup {One("update_file", p1, p2), One("update_file", p2, p1), One("update_file", p1, None)}
    \cup {Patched(<<Op("update", p1, p2)>>), Patched(<<Op("update", p1, None), Op("delete", p2, None)>>),
          Patched(<<Op("add", p1, None)>>), Patched(<<Op("delete", p1, None), Op("delete", p1, None)>>)}

-------------------------------------------------------------------------------
(* Edits: "q" is a typographic form of "a" and near "b", "e" an escaped "a";   *)
(* "m" holds an "a" and a "b" with a blank between them, "w" with two.         *)

Line(lead, body, trail) == [lead |-> lead, body |-> body, trail |-> trail]
MCBodies == {"", "a", "b", "q", "e", "n", "m", "w"}
MCPieces == [x \in MCBodies |-> CASE x = "" -> <<>>
                                   [] x = "m" -> <<"a", " ", "b">>
                                   [] x = "w" -> <<"a", " ", " ", "b">>
                                   [] OTHER -> <<x>>]
MCGlyphs == [x \in MCBodies |-> IF x = "q" THEN "a" ELSE x]
MCSpaces == [x \in MCBodies |-> IF x = "w" THEN "m" ELSE x]
MCEscapes == [x \in MCBodies |-> IF x = "e" THEN "a" ELSE x]
MCSimilar == {<<"b", "q">>, <<"q", "b">>}
MCBulky == {"q"}
MCNew == <<Line(0, "n", 0)>>
PatchLines == {Line(0, "a", 0), Line(1, "a", 0), Line(0, "b", 0)}
EditLines == PatchLines \cup {Line(0, "q", 0)}
Texts(S, n) == UNION {[1 .. k -> S] : k \in 0 .. n}
PatchEntries == [op : {" ", "-", "+"}, line : PatchLines]
SmallHunks == [context : {<<>>, <<Line(0, "a", 0)>>}, lines : [1 .. 1 -> PatchEntries], eof : {FALSE}]
LargeHunks == [context : {<<>>, <<Line(0, "b", 0)>>},
               lines : UNION {[1 .. k -> PatchEntries] : k \in 1 .. 2}, eof : BOOLEAN]
PatchCases == [tool : {"apply_patch"}, lines : Texts(PatchLines, 3),
               hunks : {<<h>> : h \in LargeHunks} \cup {<<g, h>> : g, h \in SmallHunks}]
EditInputs == [tool : {"edit"}, lines : Texts(EditLines, 3),
               old : UNION {[1 .. k -> EditLines \cup {Line(0, "e", 0)}] : k \in 1 .. 3}, all : BOOLEAN]
\* Texts inside texts, and blank lines; old_string is not empty.
NestedLines == {Line(0, "a", 0), Line(1, "a", 0), Line(0, "a", 1), Line(0, "m", 0), Line(0, "w", 0), Blank}
NestedInputs == [tool : {"edit"}, lines : Texts(NestedLines, 3),
                 old : UNION {[1 .. k -> NestedLines] : k \in 1 .. 2} \ {<<Blank>>}, all : BOOLEAN]
GapLines == {Line(0, "a", 0), Line(1, "a", 0), Line(0, "b", 0), Blank}
GappedInputs == [tool : {"edit"}, lines : [1 .. 3 -> GapLines], old : [1 .. 3 -> GapLines], all : BOOLEAN]
MCEditCases == PatchCases \cup EditInputs \cup NestedInputs \cup GappedInputs

-------------------------------------------------------------------------------
(* Routing: the same tool asked for by a conversation and its subagent, two    *)
(* child registries that offer it to one of them, to the other, or to both.    *)

CONSTANTS r1, r2, t1, t2, g1, g2, edit, peek

MCRequestOf == (r1 :> [thread |-> t1, name |-> edit, born |-> "PENDING"]) @@
               (r2 :> [thread |-> t2, name |-> edit, born |-> "PENDING"])
Offer(one, two) == (g1 :> one) @@ (g2 :> two)
MCOfferings ==
    {(t1 :> Offer({edit, peek}, {})) @@ (t2 :> Offer({}, {edit})),
     (t1 :> Offer({peek}, {edit})) @@ (t2 :> Offer({}, {peek})),
     (t1 :> Offer({edit}, {peek})) @@ (t2 :> Offer({edit}, {edit}))}
MCChildren == <<g1, g2>>

-------------------------------------------------------------------------------
(* Questions: two questions, the second with several picks; sheets of at most  *)
(* two entries that name a question, or none.                                  *)

MCTitles == <<t1, t2>>
EntryOf(title, chat) == [title |-> title, chat |-> chat, custom |-> FALSE, picks |-> {}]
Plainly(t) == EntryOf(t, FALSE)
MCSheets == {<<>>, <<EntryOf(t2, TRUE)>>}
            \cup {<<Plainly(t)>> : t \in {t1, t2, NoSet}}
            \cup {<<Plainly(t), Plainly(u)>> : t, u \in {t1, NoSet}}
            \cup {<<Plainly(t2), Plainly(t1)>>}

-------------------------------------------------------------------------------
CONSTANT Parts  \* those that move
VARIABLE part

\* A part at rest is in one of its initial states; the history rests at a call
\* just received, where it has no projection to look at.
HistoryRests ==
    /\ path = <<[k |-> "start"], NewExec([id |-> <<1, 1>>, name |-> "read", ct |-> ""], FALSE)>>
    /\ asked = Off(Completions) /\ active = asked
    /\ phase = "rest" /\ sent = << >> /\ rewritten = FALSE
    /\ used = [posts |-> 0, calls |-> 1, switches |-> 0, changes |-> 0]
HandleRests == mode = "lazy" /\ HandleInit
StreamerRests == wire = "chat" /\ caller = "sync" /\ StreamerInit
FilesRest ==
    /\ files = [p \in Paths |-> None] /\ read = [c \in Convs |-> {}]
    /\ FilesInit
EditsRest ==
    /\ input = [tool |-> "edit", lines |-> <<>>, old |-> <<Line(0, "a", 0)>>, all |-> FALSE]
    /\ returned = Pending
RoutingRests ==
    /\ offered = (t1 :> Offer({edit}, {peek})) @@ (t2 :> Offer({edit}, {edit}))
    /\ composed = 1 /\ RoutingInit

PartsInit ==
    /\ part \in Parts
    /\ IF part = "history" THEN HistoryInit ELSE HistoryRests
    /\ IF part = "handle" THEN HandleInit ELSE HandleRests
    /\ IF part = "streamer" THEN StreamerInit ELSE StreamerRests
    /\ IF part = "files" THEN FilesInit ELSE FilesRest
    /\ IF part = "edits" THEN EditsInit ELSE EditsRest
    /\ IF part = "routing" THEN RoutingInit ELSE RoutingRests
    /\ QuestionInit /\ TerminalInit /\ CheckpointInit /\ MemoryInit

tools == <<fileVars, editVars, routingVars>>
streams == <<handleVars, streamerVars>>
keeps == <<questionVars, terminalVars, checkpointVars, memoryVars>>
partsVars == <<part, historyVars, streams, tools, keeps>>

PartsNext ==
    \/ part = "history" /\ HistoryNext /\ UNCHANGED <<part, streams, tools, keeps>>
    \/ part = "handle" /\ HandleNext /\ UNCHANGED <<part, historyVars, streamerVars, tools, keeps>>
    \/ part = "streamer" /\ StreamerNext /\ UNCHANGED <<part, historyVars, handleVars, tools, keeps>>
    \/ /\ part = "files" /\ FilesNext
       /\ UNCHANGED <<part, historyVars, streams, editVars, routingVars, keeps>>
    \/ /\ part = "edits" /\ EditsNext
       /\ UNCHANGED <<part, historyVars, streams, fileVars, routingVars, keeps>>
    \/ /\ part = "routing" /\ RoutingNext
       /\ UNCHANGED <<part, historyVars, streams, fileVars, editVars, keeps>>
    \/ /\ part = "questions" /\ QuestionNext
       /\ UNCHANGED <<part, historyVars, streams, tools, terminalVars, checkpointVars, memoryVars>>
    \/ /\ part = "terminal" /\ TerminalNext
       /\ UNCHANGED <<part, historyVars, streams, tools, questionVars, checkpointVars, memoryVars>>
    \/ /\ part = "checkpoints" /\ CheckpointNext
       /\ UNCHANGED <<part, historyVars, streams, tools, questionVars, terminalVars, memoryVars>>
    \/ /\ part = "memory" /\ MemoryNext
       /\ UNCHANGED <<part, historyVars, streams, tools, questionVars, terminalVars, checkpointVars>>

PartsSpec == PartsInit /\ [][PartsNext]_partsVars

===============================================================================
