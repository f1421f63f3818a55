------------------------------- MODULE History -------------------------------
(***************************************************************************)
(* One conversation's history on its way to the model and back.            *)
(*                                                                         *)
(* The path of a conversation is provider-neutral: responses of any model  *)
(* are stored on it, and every call of any model is built from it.  Here   *)
(* are the steps that write the path (what the drive of module Turn does   *)
(* around its awaits, reduced to what it appends and settles), the         *)
(* projector that turns the path into messages, the middleware that adopts *)
(* native calls on the way in and restores them on the way out, and, from  *)
(* module Wire, the request that results.                                  *)
(***************************************************************************)
EXTENDS Wire, FiniteSets

CONSTANTS
    Setting,        \* what the application switches between: a configuration
                    \* [provider, model, wire, natives] and the native flag
    Strangers,      \* targets effective_messages() may be asked about besides
    Responses(_),   \* the responses a target brings: [blocks, value]
    MediaOf(_),     \* what the nth post holds
    MaxCalls,       \* model calls
    MaxUses         \* posts, switches, prunings and compactions, together

VARIABLES
    path,           \* the entries, in order
    active,         \* session.llm_config and use_native_tools: [cfg, native]
    asked,          \* what the last call was made with
    phase,          \* "rest" | "call"
    sent,           \* the messages of the last request
    rewritten,      \* ghost: an earlier part of the history was replaced since
    used            \* bounds: how often each bounded input happened

historyVars == <<path, active, asked, phase, sent, rewritten, used>>

\* active_natives(): nothing while the flag is off.
ActiveNatives(s) == IF s.native THEN s.cfg.natives ELSE {}

Target(s) == [provider |-> s.cfg.provider, model |-> s.cfg.model, wire |-> s.cfg.wire,
              native |-> ActiveNatives(s)]

Nonterminal == {"RECEIVED", "PENDING", "GATED", "AWAITING_RESULT"}
Open(e) == e.k = "exec" /\ e.status \in Nonterminal

(***************************************************************************)
(* Entries.  orig is what a pruned entry stands for.                       *)
(***************************************************************************)

NewExec(call, private) ==
    [k |-> "exec", call |-> call.id, name |-> call.name, ct |-> call.ct, private |-> private,
     status |-> "RECEIVED", extras |-> "", resolves |-> << >>]

Entry(e) == IF e.k = "pruned" THEN e.orig ELSE e

ExecsOf(p) == {i \in DOMAIN p : p[i].k = "exec"}

OpenTurn(p) ==
    LET starts == {i \in DOMAIN p : p[i].k = "start"}
        finishes == {i \in DOMAIN p : p[i].k = "finish"}
    IN  {i \in starts : ~\E j \in finishes : j > i}

UnresolvedLinks(p) == {i \in DOMAIN p : p[i].k = "link" /\ p[i].result = "none"}

(***************************************************************************)
(* The projector.                                                          *)
(***************************************************************************)

IsCompactionStart(p, i) == p[i].k = "start" /\ i < Len(p) /\ p[i + 1].k = "compaction"

\* i lies in the span of a compaction bracket, its close included.
InCompactionBracket(p, i) ==
    \E s \in 1 .. i : /\ IsCompactionStart(p, s)
                      /\ \A j \in s .. i - 1 : p[j].k # "finish"

User(body) == <<[role |-> "user", body |-> body, media |-> "text"]>>
Tool(e, body) == <<[role |-> "tool", call |-> e.call, ct |-> "", body |-> body]>>

ProjectExecution(e) ==
    CASE e.private -> << >>
      [] e.status = "GATED" -> Tool(e, "awaiting approval")
      [] e.status = "AWAITING_RESULT" -> Tool(e, "awaiting result")
      [] e.status = "COMPLETED" ->
             <<[role |-> "tool", call |-> e.call, ct |-> "", body |-> "output"]>>
      [] OTHER -> Tool(e, "derived")

ProjectPruned(e) ==
    IF e.orig.k = "exec"
    THEN IF e.orig.private THEN << >> ELSE Tool(e.orig, "pruned")
    ELSE <<[role |-> "assistant", from |-> e.orig.from, content |-> <<Text(<< << >> >>)>>]>>

\* Mutant: every settled link is rendered in its place.
ProjectLinkEarly(p, i) ==
    IF p[i].result # "none" THEN User(<<"task settled", p[i].spawn>>) ELSE << >>

\* A link renders where its result execution stands, or, settled by a close
\* without one, at its own position.
ProjectLink(p, i) ==
    IF p[i].result = "settled" THEN User(<<"task settled", p[i].spawn>>) ELSE << >>

ProjectUpdate(p, i) ==
    IF p[i].resolves = << >>
    THEN ProjectExecution(p[i])
    ELSE User(<<"task done", p[i].resolves>>)

ProjectEntry(p, i) ==
    LET e == p[i]
    IN  CASE e.k = "user" -> <<[role |-> "user", body |-> <<"post", <<e.n>>>>, media |-> e.media]>>
          [] e.k = "assistant" ->
                 <<[role |-> "assistant", from |-> e.from,
                    content |-> [j \in DOMAIN e.parts |->
                                    IF e.parts[j].t = "call"
                                    THEN [e.parts[j] EXCEPT !.ct = ""]
                                    ELSE e.parts[j]]]>>
          [] e.k = "exec" -> ProjectUpdate(p, i)
          [] e.k = "compaction" -> User(<<"summary", << >>>>)
          [] e.k = "link" -> ProjectLink(p, i)
          [] e.k = "pruned" -> ProjectPruned(e)
          [] e.k = "finish" -> IF e.outcome = "CANCELLED" THEN User(<<"interrupted", << >>>>) ELSE << >>
          [] OTHER -> << >>

Project(p) ==
    FlattenSeq([i \in DOMAIN p |-> IF InCompactionBracket(p, i) THEN << >> ELSE ProjectEntry(p, i)])

\* The projector raises on a runtime in flight, and on an unresolved link
\* outside the open turn.
IsProjectable(p) ==
    /\ \A i \in ExecsOf(p) : ~p[i].private => p[i].status \notin {"RECEIVED", "PENDING"}
    /\ \A i \in UnresolvedLinks(p) : \E s \in OpenTurn(p) : s < i

(***************************************************************************)
(* The native tools of the shell plugin.                                   *)
(***************************************************************************)

WireName == [openai_apply_patch |-> "apply_patch", openai_shell |-> "shell",
             anthropic_text_editor_20250728 |-> "str_replace_based_edit_tool",
             anthropic_bash_20250124 |-> "bash"]

\* Typed calls are adopted always, a plain wire name only while its native is
\* active.
Adopt(b, natives) ==
    IF b.t # "call"
    THEN b
    ELSE CASE b.ct = "apply_patch_call" -> [b EXCEPT !.name = "openai_apply_patch"]
           [] b.ct = "shell_call" -> [b EXCEPT !.name = "openai_shell"]
           [] OTHER ->
                LET mine == {x \in natives : b.ct = "" /\ WireName[x] = b.name
                                             /\ x \notin {"openai_apply_patch", "openai_shell"}}
                IN  IF mine = {} THEN b ELSE [b EXCEPT !.name = CHOOSE x \in mine : TRUE]

\* get_tool_execution(): any entry of the session, on the path or pruned off it.
ExecutionOf(p, call) ==
    LET holders == {i \in DOMAIN p : Entry(p[i]).k = "exec" /\ Entry(p[i]).call = call}
    IN  IF holders = {} THEN << >> ELSE <<CHOOSE i \in holders : TRUE>>

\* The stored call comes back with its wire name and its extras.
UpgradeCall(p, b, natives) ==
    IF b.t = "call" /\ b.name \in natives
    THEN [b EXCEPT !.name = WireName[b.name], !.ct = Entry(p[Head(ExecutionOf(p, b.id))]).ct]
    ELSE b

\* Only the result of a shell call has a structure of its own.
Structured(m, name) ==
    IF name = "openai_shell" THEN [m EXCEPT !.ct = "shell_call_output"] ELSE m

UpgradeResult(p, m, natives) ==
    LET found == ExecutionOf(p, m.call)
    IN  IF found = << >> \/ Entry(p[Head(found)]).name \notin natives
        THEN m
        ELSE LET e == Entry(p[Head(found)])
             IN  CASE p[Head(found)].k = "pruned" -> Structured(m, e.name)
                   [] e.status = "COMPLETED" /\ e.extras # "" ->
                          [m EXCEPT !.ct = e.extras, !.body = "output"]
                   [] OTHER -> Structured(m, e.name)

\* before_llm_call
Upgrade(p, messages, natives) ==
    [i \in DOMAIN messages |->
        CASE messages[i].role = "assistant" ->
                 [messages[i] EXCEPT !.content =
                     [j \in DOMAIN @ |-> UpgradeCall(p, @[j], natives)]]
          [] messages[i].role = "tool" -> UpgradeResult(p, messages[i], natives)
          [] OTHER -> messages[i]]

\* prepare_llm_call() for a target, and the request it becomes.
Messages(p, target) == Upgrade(p, Project(p), target.native)
Request(p, target) == Build(Messages(p, target), target)

-----------------------------------------------------------------------------

HistoryInit ==
    /\ path = << >>
    /\ asked \in Setting
    /\ active = asked
    /\ phase = "rest"
    /\ sent = << >>
    /\ rewritten = FALSE
    /\ used = [posts |-> 0, calls |-> 0, switches |-> 0, changes |-> 0]

Uses == used.posts + used.switches + used.changes

Use(what) == Uses < MaxUses /\ used' = [used EXCEPT ![what] = @ + 1]

\* post_message()
Post ==
    /\ Use("posts")
    /\ path' = Append(path, [k |-> "user", n |-> used.posts, media |-> MediaOf(used.posts)])
    /\ UNCHANGED <<active, asked, phase, sent, rewritten>>

\* Another conversation of the session makes a call of its own, perhaps with
\* another model: it stamps the session.
StampByOther(s) ==
    /\ phase = "call"
    /\ s # active
    /\ Use("switches")
    /\ active' = s
    /\ UNCHANGED <<path, asked, phase, sent, rewritten>>

\* Posts of the running turn that the last request did not hold.
UnseenPost(p) ==
    \E i \in DOMAIN p : /\ p[i].k = "user"
                        /\ \A j \in i + 1 .. Len(p) : p[j].k # "finish"
                        /\ \A m \in DOMAIN sent : sent[m].role = "user" => sent[m].body # <<"post", <<p[i].n>>>>

\* open_turn_unseen_material(): what came after the last answer, the outcomes of
\* spawn calls and of hosted operations aside.
FreshMaterial(p) ==
    \E i \in DOMAIN p : /\ \A j \in i + 1 .. Len(p) : p[j].k # "assistant"
                        /\ \/ p[i].k = "user"
                           \/ p[i].k = "exec" /\ p[i].name \notin {"task", "web"}

\* What lets the drive call the model: past a gate or a parked tool only a post;
\* past running children, something new; otherwise whatever is open.
OwesCall(p) ==
    IF \E i \in DOMAIN p : Open(p[i]) THEN UnseenPost(p)
    ELSE IF UnresolvedLinks(p) # {} THEN FreshMaterial(p) \/ UnseenPost(p)
    ELSE OpenTurn(p) # {} \/ UnseenPost(p)

\* Every open execution of a close gets an outcome, every open link its text.
Settled(p) ==
    [i \in DOMAIN p |->
        IF Open(p[i]) THEN [p[i] EXCEPT !.status = "CANCELLED"]
        ELSE IF i \in UnresolvedLinks(p) THEN [p[i] EXCEPT !.result = "settled"]
        ELSE p[i]]

Replaces(p) == (\E i \in DOMAIN p : Open(p[i])) \/ UnresolvedLinks(p) # {}

Closed(p, outcome) == Append(Settled(p), [k |-> "finish", outcome |-> outcome])

\* The drive stamps the session with what is configured by now, projects, and
\* asks the model.  What the wire has no shape for fails before anything is sent
\* and closes the turn.
Ask(s) ==
    LET p == IF OpenTurn(path) = {} THEN Append(path, [k |-> "start"]) ELSE path
        target == Target(s)
        messages == Messages(p, target)
    IN  /\ phase = "rest"
        /\ OwesCall(path)
        /\ IsProjectable(p)
        /\ used.calls < MaxCalls
        /\ s # asked => Uses < MaxUses
        /\ used' = [used EXCEPT !.calls = @ + 1, !.switches = IF s = asked THEN @ ELSE @ + 1]
        /\ active' = s
        /\ asked' = s
        /\ \/ /\ IsSendable(messages, target)
              /\ phase' = "call"
              /\ path' = p
              /\ sent' = messages
              /\ rewritten' = FALSE
           \/ /\ ~IsSendable(messages, target)
              /\ path' = Closed(p, "ERRORED")
              /\ rewritten' = (rewritten \/ Replaces(p))
              /\ UNCHANGED <<phase, sent>>

\* The call fails: the turn closes with its error.
CallFails ==
    /\ phase = "call"
    /\ phase' = "rest"
    /\ path' = Closed(path, "ERRORED")
    /\ rewritten' = (rewritten \/ Replaces(path))
    /\ UNCHANGED <<active, asked, sent, used>>

\* The entry an answer becomes, stamped with what the session says is active.
Recorded(content, reason, raw) ==
    [k |-> "assistant", parts |-> content, from |-> Stamp(Target(active)), reason |-> reason,
     raw |-> raw, by |-> asked, as |-> active]

\* A hosted web operation leaves a private, terminal execution beside it.
Template(web) ==
    [NewExec(ToolCall(web.op, "web", ""), TRUE)
        EXCEPT !.status = IF web.failed THEN "FAILED" ELSE "COMPLETED"]

Synthetics(content) ==
    LET webs == SelectSeq(content, LAMBDA b : b.t = "web")
    IN  [i \in DOMAIN webs |-> Template(webs[i])]

\* A refusal is stored as the text it is.
Stored(b) == IF b.t = "refusal" THEN Text(b.v) ELSE b

\* The answer, its executions and, if it is final, the close: one block without
\* an await.
\* (A cancel that got in before it controls the close.)
Answer(r, cancelled) ==
    LET raw == [i \in DOMAIN r.blocks |->
                   r.blocks[i] @@ [n |-> <<used.calls, i>>, op |-> <<used.calls, 0>>,
                                   by |-> Stamp(Target(asked))]]
        message == Parse(asked.cfg.wire, raw)
        adopted == [i \in DOMAIN message |-> Adopt(message[i], ActiveNatives(active))]
        content == [i \in DOMAIN adopted |-> Stored(adopted[i])]
        calls == CallsOf(content)
        finish == ClassifyFinish(asked.cfg.wire, r.value, message)
        p == path \o <<Recorded(content, finish, raw)>> \o Synthetics(content)
                  \o [i \in DOMAIN calls |-> NewExec(calls[i], FALSE)]
        goesOn == \/ UnseenPost(path)
                  \/ \E i \in DOMAIN path : Open(path[i])
                  \/ UnresolvedLinks(path) # {}
    IN  /\ phase = "call"
        /\ phase' = "rest"
        /\ path' = IF calls # << >> \/ finish = "pause" \/ (goesOn /\ ~cancelled) THEN p
                   ELSE Closed(p, IF cancelled THEN "CANCELLED"
                                  ELSE IF finish \in {"error", "length"} THEN "ERRORED"
                                  ELSE "COMPLETED")
        /\ UNCHANGED <<active, asked, sent, rewritten, used>>

\* The received calls are born together, each pending or refused.
Birth(refused) ==
    LET received == {i \in ExecsOf(path) : path[i].status = "RECEIVED"}
    IN  /\ phase = "rest"
        /\ received # {} /\ refused \subseteq received
        /\ path' = [i \in DOMAIN path |->
                       IF i \notin received THEN path[i]
                       ELSE [path[i] EXCEPT !.status = IF i \in refused THEN "FAILED" ELSE "PENDING"]]
        /\ UNCHANGED <<active, asked, phase, sent, rewritten, used>>

\* The policy defers, or the body does.
Wait(i, status) ==
    /\ phase = "rest"
    /\ i \in ExecsOf(path) /\ path[i].status = "PENDING"
    /\ path' = [path EXCEPT ![i].status = status]
    /\ UNCHANGED <<active, asked, phase, sent, rewritten, used>>

\* An outcome: a result, plain or structured, or a failure with its derived text.
\* A spawn that completes leaves a link to its child.
Settle(i, status, extras) ==
    /\ phase = "rest"
    /\ i \in ExecsOf(path) /\ path[i].status \in Nonterminal \ {"RECEIVED"}
    /\ (extras # "") = (status = "COMPLETED" /\ path[i].name = "openai_shell")
    /\ LET p == [path EXCEPT ![i].status = status, ![i].extras = extras]
       IN  path' = IF path[i].name = "task" /\ status = "COMPLETED"
                   THEN Append(p, [k |-> "link", spawn |-> path[i].call, result |-> "none"])
                   ELSE p
    /\ rewritten' = (rewritten \/ path[i].status # "PENDING")
    /\ UNCHANGED <<active, asked, phase, sent, used>>

\* The child is over: its result tool runs as a private execution, and the link
\* names it in the same write.
Resolve(i) ==
    /\ phase = "rest"
    /\ i \in UnresolvedLinks(path)
    /\ path' = Append([path EXCEPT ![i].result = "done"],
                      [NewExec(ToolCall(Append(path[i].spawn, 0), "result", ""), TRUE)
                          EXCEPT !.status = "COMPLETED", !.resolves = path[i].spawn])
    /\ UNCHANGED <<active, asked, phase, sent, rewritten, used>>

\* A cancel or the step limit, at any await.
Close(outcome) ==
    /\ OpenTurn(path) # {}
    /\ phase' = "rest"
    /\ path' = Closed(path, outcome)
    /\ rewritten' = (rewritten \/ Replaces(path))
    /\ UNCHANGED <<active, asked, sent, used>>

\* ledger.prune() with the template of the context manager.
Prune(i) ==
    /\ Use("changes")
    /\ i \in DOMAIN path
    /\ \/ path[i].k = "exec" /\ ~Open(path[i])
       \/ path[i].k = "assistant" /\ CallsOf(path[i].parts) = << >>
    /\ path' = [path EXCEPT ![i] = [k |-> "pruned", orig |-> path[i]]]
    /\ rewritten' = TRUE
    /\ UNCHANGED <<active, asked, phase, sent>>

\* A compaction that comes to nothing leaves its bracket on the path.
FailedCompaction(outcome) ==
    /\ phase = "rest" /\ path # << >> /\ OpenTurn(path) = {}
    /\ Use("changes")
    /\ path' = path \o <<[k |-> "start"], [k |-> "compaction"], [k |-> "finish", outcome |-> outcome]>>
    /\ UNCHANGED <<active, asked, phase, sent, rewritten>>

\* One that commits starts a path with its summary; everything from turn i on is
\* carried.
Transition(i) ==
    /\ phase = "rest" /\ OpenTurn(path) = {}
    /\ Use("changes")
    /\ i \in 2 .. Len(path) + 1
    /\ path[i - 1].k = "finish"
    /\ path' = <<[k |-> "compaction"]>> \o SubSeq(path, i, Len(path))
    /\ rewritten' = TRUE
    /\ UNCHANGED <<active, asked, phase, sent>>

HistoryNext ==
    \/ Post
    \/ \E s \in Setting : StampByOther(s)
    \/ \E s \in Setting : Ask(s)
    \/ CallFails
    \/ \E r \in Responses(Target(asked)), c \in BOOLEAN : Answer(r, c)
    \/ \E refused \in SUBSET ExecsOf(path) : Birth(refused)
    \/ \E i \in DOMAIN path :
           \/ \E s \in {"GATED", "AWAITING_RESULT"} : Wait(i, s)
           \/ \E s \in {"COMPLETED", "FAILED"}, x \in {"", "shell_call_output"} : Settle(i, s, x)
           \/ Resolve(i)
           \/ Prune(i)
    \/ \E i \in 2 .. Len(path) + 1 : Transition(i)
    \/ \E o \in {"CANCELLED", "ERRORED"} : Close(o)
    \/ FailedCompaction("CANCELLED")

HistorySpec == HistoryInit /\ [][HistoryNext]_historyVars

-----------------------------------------------------------------------------

(***************************************************************************)
(* Properties.  All of them look at what the path would become for every   *)
(* target, not only for the one that is asked next.                        *)
(***************************************************************************)

Targets == {Target(s) : s \in Setting}

\* Entries whose stamp names the setting they were asked under.
Truthful(e) == e.k = "assistant" => e.as = e.by

\* The blocks of a request, each with the item it is in.
Blocks(request) ==
    FlattenSeq([m \in DOMAIN request |->
                   [k \in DOMAIN request[m].content |->
                       [m |-> m, role |-> request[m].role, b |-> request[m].content[k]]]])

\* Kinds and statuses, and that a call is only in flight inside an open turn,
\* over a path that has a projection.
HistoryTypeOK ==
    /\ \A i \in DOMAIN path :
          path[i].k \in {"user", "assistant", "exec", "start", "finish", "compaction", "link", "pruned"}
    /\ \A i \in ExecsOf(path) : path[i].status \in Nonterminal \cup {"COMPLETED", "FAILED", "CANCELLED"}
    /\ active \in Setting /\ asked \in Setting
    /\ phase \in {"rest", "call"}
    /\ rewritten \in BOOLEAN
    /\ phase = "call" => IsProjectable(path) /\ OpenTurn(path) # {}

\* Whatever model the conversation is continued with, and whatever was gated,
\* cancelled, pruned or compacted before: every tool call in the request is
\* followed, with nothing but results and the rest of its own message between,
\* by exactly one result of its kind, and no result is without its call.  The
\* providers refuse anything else, on every retry.
CallsAnswered ==
    IsProjectable(path) =>
        \A t \in Targets \cup Strangers :
            LET f == Blocks(Request(path, t))
                calls == {i \in DOMAIN f : f[i].b.w = "call"}
                results == {i \in DOMAIN f : f[i].b.w = "result"}
                answers(i) == {j \in results : j > i /\ f[j].b.id = f[i].b.id}
            IN  /\ \A i \in calls :
                      \E j \in answers(i) :
                          /\ answers(i) = {j}
                          /\ f[j].b.kind = f[i].b.kind
                          /\ \A k \in i + 1 .. j : f[k].m = f[i].m \/ f[k].b.w = "result"
                /\ \A j \in results : \E i \in calls : j \in answers(i)

\* The signed reasoning of one model is never sent to another, as long as the
\* entries say truly who wrote them.
AttestationsStayHome ==
    IsProjectable(path) => \A t \in Targets :
        LET f == Blocks(Request(path, t))
        IN  \A i \in DOMAIN f :
                f[i].b.w = "thinking" =>
                    \/ f[i].b.by = Stamp(t)
                    \/ \E j \in DOMAIN path :
                          /\ ~Truthful(path[j])
                          /\ \E k \in DOMAIN path[j].raw : path[j].raw[k].n = f[i].b.n

\* What a block of a response has to come back as, to the model it came from.
Atoms(b, wire) ==
    CASE b.w \in {"text", "refusal"} -> <<<<"text", b.n>>>>
      [] b.w = "thinking" ->
             IF wire # "openai" /\ b.signed /\ (wire = "responses" => b.id)
             THEN <<<<"thinking", b.n>>>> ELSE << >>
      [] b.w = "call" -> <<<<b.ct, IF b.ct = "" THEN b.name ELSE "none", b.n>>>>
      [] b.w = "web_call" -> IF b.in_progress THEN << >> ELSE <<<<"raw", b.n>>>>
      [] OTHER -> <<<<"raw", b.n>>>>

SentAtoms(b) ==
    CASE b.w = "text" -> [i \in DOMAIN b.v |-> <<"text", b.v[i]>>]
      [] b.w = "refusal" -> <<<<"text", b.v[1]>>>>
      [] b.w = "thinking" -> <<<<"thinking", b.n>>>>
      [] b.w = "call" -> <<<<b.kind, b.name, b.id>>>>
      [] b.w = "raw" -> <<<<IF b.data.w = "text" THEN "text" ELSE "raw", b.data.n>>>>

\* A response is replayed to the setting that produced it block for block: once
\* each, in order, under the provider's own names and types.  (A paused response
\* is continued from exactly this.)
ReplayIsFaithful ==
    \A i \in DOMAIN path :
        path[i].k = "assistant" /\ Truthful(path[i]) =>
            LET e == path[i]
                t == Target(e.by)
                item == Item(Upgrade(path, ProjectEntry(path, i), t.native), 1, t)
                out == IF item = << >> THEN << >> ELSE item[1].content
            IN  FlattenSeq([j \in DOMAIN out |-> SentAtoms(out[j])])
                = FlattenSeq([j \in DOMAIN e.raw |-> Atoms(e.raw[j], t.wire)])

\* effective_messages() answers what a call would send: building from it sends
\* the same.
EffectiveIsSent ==
    IsProjectable(path) =>
        \A t \in Targets \cup Strangers :
            LET messages == Messages(path, t)
            IN  Build(EffectiveMessages(messages, t), t) = Build(messages, t)

\* The conversation can be continued with any model whose wire has a shape for
\* the media posted: no denied, cancelled, pruned or waiting call of another wire
\* makes the payload unbuildable.
NothingRefused ==
    IsProjectable(path) =>
        \A t \in Targets :
            (\A i \in DOMAIN path : path[i].k = "user" => path[i].media \in TakesMedia(t.wire))
                => IsSendable(Messages(path, t), t)

\* What was pruned is not sent again, natively or otherwise.
PrunedStaysPruned ==
    LET gone == {path[i].orig.call : i \in {j \in DOMAIN path : /\ path[j].k = "pruned"
                                                               /\ path[j].orig.k = "exec"}}
    IN  gone # {} /\ IsProjectable(path) =>
            \A t \in Targets :
                LET f == Blocks(Request(path, t))
                IN  \A i \in DOMAIN f :
                        f[i].b.w = "result" /\ f[i].b.id \in gone => f[i].b.body # "output"

\* Unless a part of the history was replaced since the last request (an outcome
\* in place of a placeholder, a pruning, a compaction), whatever is asked next
\* under the same setting begins with that request: what the provider cached
\* stays a prefix.
PrefixStable ==
    ~rewritten /\ IsProjectable(path) => IsPrefix(sent, Messages(path, Target(asked)))

\* An answer is recorded as the work of the model that was asked.
ProvenanceIsTrue == \A i \in DOMAIN path : Truthful(path[i])

\* Every request built from the path is one the provider it goes to accepts, and
\* carries nobody else's attestations.
HistoryIsAccepted ==
    HistoryTypeOK /\ CallsAnswered /\ NothingRefused /\ AttestationsStayHome

\* Every request says what was said: replay, preview, pruning and prefix.
HistoryIsKept ==
    ReplayIsFaithful /\ EffectiveIsSent /\ PrunedStaysPruned /\ PrefixStable

=============================================================================
