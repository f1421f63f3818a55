-------------------------------- MODULE Wire --------------------------------
(***************************************************************************)
(* What luca.client makes of a response, and what it makes of a history.   *)
(*                                                                         *)
(* Four transports speak four wire formats: Anthropic Messages, OpenAI     *)
(* Responses, OpenAI chat completions and Bedrock Converse.  Each parses a *)
(* response into blocks that mean the same on all of them (text, thinking, *)
(* tool calls, private blocks of a provider, a web search or fetch) and    *)
(* builds a request out of messages that any of them may have produced.    *)
(* The operators below are pure: Parse, EffectiveMessages and Build.       *)
(*                                                                         *)
(* A raw block, one element of a response as the provider sends it, is a   *)
(* record with its kind w, its identity n and what the transports look at. *)
(* by is who produced it: the contents of a signature.                     *)
(***************************************************************************)
EXTENDS Naturals, Sequences, SequencesExt

(***************************************************************************)
(* Client blocks.                                                          *)
(***************************************************************************)

\* A text block: the pieces it was joined from.
Text(pieces) == [t |-> "text", v |-> pieces]

Thinking(b) == [t |-> "thinking", n |-> b.n, id |-> b.id, signed |-> b.signed,
                redacted |-> b.redacted, by |-> b.by]

\* ct is extras["custom_type"], "" on a plain call.
ToolCall(id, name, ct) == [t |-> "call", id |-> id, name |-> name, ct |-> ct]

Private(format, b) == [t |-> "private", format |-> format, data |-> b]

\* The synthetic block of a hosted web operation, never sent anywhere.
Web(b) == [t |-> "web", op |-> b.op, failed |-> b.failed]

Refusal(b) == [t |-> "refusal", v |-> <<b.n>>]

\* The calls of a content sequence.
CallsOf(content) == SelectSeq(content, LAMBDA b : b.t = "call")

(***************************************************************************)
(* Parsing.                                                                *)
(***************************************************************************)

\* A run of adjacent text blocks is one block, followed by the originals if any
\* of them carries a citation.
TextRun(run) ==
    IF run = << >>
    THEN << >>
    ELSE <<Text([i \in DOMAIN run |-> run[i].n])>>
         \o IF \E i \in DOMAIN run : run[i].cited
            THEN [i \in DOMAIN run |-> Private("anthropic.messages", run[i])]
            ELSE << >>

AnthropicBlocks(b) ==
    CASE b.w = "thinking" -> <<Thinking(b)>>
      [] b.w = "call" -> <<ToolCall(b.n, b.name, "")>>
      [] b.w = "server_tool" -> <<Private("anthropic.messages", b)>>
      [] b.w = "web_result" -> <<Private("anthropic.messages", b), Web(b)>>
      [] OTHER -> << >>

\* Scans a response with the pending text run at hand.
AnthropicStep(acc, b) ==
    IF b.w = "text"
    THEN [acc EXCEPT !.run = Append(@, b)]
    ELSE [out |-> acc.out \o TextRun(acc.run) \o AnthropicBlocks(b), run |-> << >>]

ParseAnthropic(raw) ==
    LET scan == FoldLeft(AnthropicStep, [out |-> << >>, run |-> << >>], raw)
    IN  scan.out \o TextRun(scan.run)

ParseResponses(raw) ==
    LET blocks(b) ==
            CASE b.w = "thinking" -> <<Thinking(b)>>
              [] b.w = "text" -> <<Text(<<b.n>>)>>
              [] b.w = "refusal" -> <<Refusal(b)>>
              [] b.w = "call" -> <<ToolCall(b.n, b.name, b.ct)>>
              [] b.w = "web_call" -> <<Private("openai.responses", b)>>
                                     \o IF b.action THEN <<Web(b)>> ELSE << >>
              [] OTHER -> << >>
    IN  FlattenSeq([i \in DOMAIN raw |-> blocks(raw[i])])

\* The chat message has one field per kind: reasoning, text, refusal, calls.
ParseOpenAI(raw) ==
    LET those(w) == SelectSeq(raw, LAMBDA b : b.w = w)
        each(s, Op(_)) == [i \in DOMAIN s |-> Op(s[i])]
    IN  each(those("thinking"), LAMBDA b : [Thinking(b) EXCEPT !.id = FALSE, !.signed = FALSE])
        \o each(those("text"), LAMBDA b : Text(<<b.n>>))
        \o each(those("refusal"), Refusal)
        \o each(those("call"), LAMBDA b : ToolCall(b.n, b.name, ""))

ParseBedrock(raw) ==
    LET blocks(b) ==
            CASE b.w = "text" -> <<Text(<<b.n>>)>>
              [] b.w = "call" -> <<ToolCall(b.n, b.name, "")>>
              [] b.w = "thinking" -> <<[Thinking(b) EXCEPT !.id = FALSE]>>
              [] OTHER -> << >>
    IN  FlattenSeq([i \in DOMAIN raw |-> blocks(raw[i])])

Parse(wire, raw) == CASE wire = "anthropic" -> ParseAnthropic(raw)
                      [] wire = "responses" -> ParseResponses(raw)
                      [] wire = "openai" -> ParseOpenAI(raw)
                      [] wire = "bedrock" -> ParseBedrock(raw)

\* The reason a response ends with, as the client names it.  One the client does
\* not know passes through; the Responses API has no reason of its own for a call
\* or a refusal, and what it does not finish is an error.
Named(table, value) == IF value \in DOMAIN table THEN table[value] ELSE value

Has(content, t) == \E i \in DOMAIN content : content[i].t = t

FinishMessages(value, content) ==
    Named([end_turn |-> "stop", stop_sequence |-> "stop", max_tokens |-> "length",
           tool_use |-> "tool_use", pause_turn |-> "pause", refusal |-> "error",
           sensitive |-> "error"], value)

FinishResponses(value, content) ==
    CASE value = "completed" -> IF Has(content, "call") THEN "tool_use"
                                ELSE IF Has(content, "refusal") THEN "error" ELSE "stop"
      [] value = "incomplete:max_output_tokens" -> "length"
      [] value \in {"incomplete:content_filter", "incomplete", "failed"} -> "error"
      [] OTHER -> "none"

FinishChat(value, content) ==
    IF value = "stop" /\ Has(content, "refusal")
    THEN "error"
    ELSE Named([tool_calls |-> "tool_use", function_call |-> "tool_use",
                content_filter |-> "error"], value)

FinishConverse(value, content) ==
    Named([end_turn |-> "stop", stop_sequence |-> "stop", max_tokens |-> "length",
           content_filtered |-> "error", guardrail_intervened |-> "error"], value)

ClassifyFinish(wire, value, content) ==
    CASE wire = "anthropic" -> FinishMessages(value, content)
      [] wire = "responses" -> FinishResponses(value, content)
      [] wire = "openai" -> FinishChat(value, content)
      [] wire = "bedrock" -> FinishConverse(value, content)

(***************************************************************************)
(* What a target takes.  A target is a provider, a model, the wire its     *)
(* transport speaks and the native tools the shell plugin has active there.*)
(***************************************************************************)

Stamp(target) == [provider |-> target.provider, model |-> target.model]

\* A signature is good for the model that made it.  An unstamped message is the
\* caller's own responsibility.
AttestationIsReplayable(from, target) == from = << >> \/ from = Stamp(target)

\* Native calls resolve only where a projector of their own transport is.
ResolvesCall(call, wire) == call.ct = "" \/ wire = "responses"

\* The text at i is followed by the very blocks it was merged from.
TextReplaysPrivately(content, i) ==
    LET isText(b) == b.t = "private" /\ b.format = "anthropic.messages" /\ b.data.w = "text"
        end == CHOOSE j \in i .. Len(content) :
                   /\ \A k \in i + 1 .. j : isText(content[k])
                   /\ j = Len(content) \/ ~isText(content[j + 1])
        texts == [k \in 1 .. end - i |-> content[i + k].data.n]
    IN  texts # << >> /\ content[i].v = texts

MessagesKeeps(content, i, from, target) ==
    LET b == content[i]
    IN  CASE b.t = "text" -> ~TextReplaysPrivately(content, i)
          [] b.t = "thinking" -> b.signed /\ AttestationIsReplayable(from, target)
          [] b.t = "call" -> ResolvesCall(b, "anthropic")
          [] b.t = "private" -> b.format = "anthropic.messages"
          [] OTHER -> FALSE

\* An item still in progress belongs to a response that was cut off.
ResponsesKeeps(content, i, from, target) ==
    LET b == content[i]
    IN  CASE b.t = "text" -> TRUE
          [] b.t = "thinking" -> b.id /\ b.signed /\ AttestationIsReplayable(from, target)
          [] b.t = "call" -> ResolvesCall(b, "responses")
          [] b.t = "private" -> b.format = "openai.responses" /\ ~b.data.in_progress
          [] OTHER -> FALSE

ChatKeeps(content, i, from, target) ==
    LET b == content[i]
    IN  b.t \in {"text", "refusal"} \/ (b.t = "call" /\ ResolvesCall(b, "openai"))

ConverseKeeps(content, i, from, target) ==
    LET b == content[i]
    IN  CASE b.t = "text" -> TRUE
          [] b.t = "thinking" -> b.signed /\ AttestationIsReplayable(from, target)
          [] b.t = "call" -> ResolvesCall(b, "bedrock")
          [] OTHER -> FALSE

Keeps(content, i, from, target) ==
    CASE target.wire = "anthropic" -> MessagesKeeps(content, i, from, target)
      [] target.wire = "responses" -> ResponsesKeeps(content, i, from, target)
      [] target.wire = "openai" -> ChatKeeps(content, i, from, target)
      [] target.wire = "bedrock" -> ConverseKeeps(content, i, from, target)

SelectAssistantBlocks(message, target) ==
    LET c == message.content
        kept == SetToSortSeq({i \in DOMAIN c : Keeps(c, i, message.from, target)}, <)
    IN  [k \in DOMAIN kept |-> c[kept[k]]]

\* The call a tool message answers, among the messages before it.
CallBefore(messages, i) ==
    LET id == messages[i].call
        holders == {j \in 1 .. i - 1 : /\ messages[j].role = "assistant"
                                       /\ \E k \in DOMAIN messages[j].content :
                                             LET b == messages[j].content[k]
                                             IN  b.t = "call" /\ b.id = id}
    IN  IF holders = {}
        THEN << >>
        ELSE LET j == CHOOSE j \in holders : \A h \in holders : h <= j
             IN  SelectSeq(messages[j].content, LAMBDA b : b.t = "call" /\ b.id = id)

\* Mutant: a result stays when its call goes.
SurvivesAlone(messages, i, target) == TRUE

\* A result goes with its call; one whose call is not in the list stays.
Survives(messages, i, target) ==
    LET call == CallBefore(messages, i)
    IN  call = << >> \/ ResolvesCall(Last(call), target.wire)

\* The messages that will serialize for a target.
EffectiveMessages(messages, target) ==
    FlattenSeq([i \in DOMAIN messages |->
        CASE messages[i].role = "assistant" ->
                 <<[messages[i] EXCEPT !.content = SelectAssistantBlocks(messages[i], target)]>>
          [] messages[i].role = "tool" ->
                 IF Survives(messages, i, target) THEN <<messages[i]>> ELSE << >>
          [] OTHER -> <<messages[i]>>])

(***************************************************************************)
(* Building a request: a sequence of [role, content], content being the    *)
(* blocks of the wire.                                                     *)
(***************************************************************************)

WireBlock(b) ==
    CASE b.t = "text" -> [w |-> "text", v |-> b.v]
      [] b.t = "refusal" -> [w |-> "refusal", v |-> b.v]
      [] b.t = "thinking" -> [w |-> "thinking", n |-> b.n, by |-> b.by, redacted |-> b.redacted]
      [] b.t = "call" -> [w |-> "call", id |-> b.id, kind |-> b.ct,
                          name |-> IF b.ct = "" THEN b.name ELSE "none"]
      [] b.t = "private" -> [w |-> "raw", data |-> b.data]

\* A result takes the shape of the call it answers.
WireResult(message, call) ==
    [w |-> "result", id |-> message.call, body |-> message.body,
     kind |-> IF call = << >> THEN "" ELSE Last(call).ct]

\* Adjacent messages of one role are one message on Bedrock.
CoalesceRoles(items) ==
    FoldLeft(LAMBDA acc, m :
                 IF acc # << >> /\ Last(acc).role = m.role
                 THEN Front(acc) \o <<[role |-> m.role, content |-> Last(acc).content \o m.content]>>
                 ELSE Append(acc, m),
             << >>, items)

\* The chat message has one field per kind again.
InWireOrder(blocks, wire) ==
    IF wire = "openai"
    THEN SelectSeq(blocks, LAMBDA b : b.t # "call") \o CallsOf(blocks)
    ELSE blocks

\* Two of the wires have a role for results, two give them to the user.
ItemRole(wire) == IF wire \in {"openai", "responses"} THEN "tool" ELSE "user"

\* An assistant message with nothing left is not sent.
Item(messages, i, target) ==
    LET m == messages[i]
        kept == InWireOrder(SelectAssistantBlocks(m, target), target.wire)
    IN  CASE m.role = "user" -> <<[role |-> "user", content |-> <<[w |-> "user", body |-> m.body]>>]>>
          [] m.role = "assistant" ->
                 IF kept = << >>
                 THEN << >>
                 ELSE <<[role |-> "assistant", content |-> [k \in DOMAIN kept |-> WireBlock(kept[k])]]>>
          [] m.role = "tool" ->
                 IF Survives(messages, i, target)
                 THEN <<[role |-> ItemRole(target.wire),
                         content |-> <<WireResult(m, CallBefore(messages, i))>>]>>
                 ELSE << >>

Build(messages, target) ==
    LET items == FlattenSeq([i \in DOMAIN messages |-> Item(messages, i, target)])
    IN  IF target.wire = "bedrock" THEN CoalesceRoles(items) ELSE items

\* The user content a wire has a shape for.
MediaMessages == {"text", "image_base64", "image_url", "image_id", "file_base64", "file_url", "file_id"}
MediaResponses == {"text", "image_base64", "image_url", "image_id", "file_base64", "file_url", "file_id"}
MediaChat == {"text", "image_base64", "image_url", "audio_base64", "file_base64", "file_id"}
MediaConverse == {"text", "image_base64", "file_base64"}

TakesMedia(wire) ==
    CASE wire = "anthropic" -> MediaMessages
      [] wire = "responses" -> MediaResponses
      [] wire = "openai" -> MediaChat
      [] wire = "bedrock" -> MediaConverse

\* The payload build raises nothing: every block has a shape on this wire, a
\* shell call gets its per-command results, and every declared tool is of it.
IsSendable(messages, target) ==
    /\ target.native \cap {"openai_apply_patch", "openai_shell"} # {} => target.wire = "responses"
    /\ target.native \cap {"anthropic_text_editor_20250728", "anthropic_bash_20250124"} # {}
           => target.wire = "anthropic"
    /\ \A i \in DOMAIN messages :
           LET m == messages[i]
               call == CallBefore(messages, i)
           IN  /\ m.role = "user" => m.media \in TakesMedia(target.wire)
               /\ (m.role = "tool" /\ Survives(messages, i, target)) =>
                      (call # << >> /\ Last(call).ct = "shell_call" => m.ct = "shell_call_output")
=============================================================================
