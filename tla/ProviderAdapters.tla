-------------------------- MODULE ProviderAdapters --------------------------
(***************************************************************************)
(* internal/proxy: the adapters between the OpenAI shape the proxy speaks  *)
(* to its clients and the shape of a provider - adapter.go, anthropic.go,  *)
(* gemini.go, openai_responses.go, azure.go.  An adapter serves one        *)
(* request: it translates the body, then the lines of the event stream one *)
(* by one (or the whole answer), keeping what it needs from line to line.  *)
(*                                                                         *)
(* Identifiers are texts of one symbol.  Ids are those the character check *)
(* of the adapters admits (anthropicToolIDRe); NotObjects are texts that   *)
(* are not the encoding of a JSON object.                                  *)
(***************************************************************************)
EXTENDS StreamRestorer, TLC

CONSTANTS
    Ids,            \* texts made of the characters of a tool id or name
    NotObjects,     \* texts that do not encode a JSON object
    CallIds,        \* CallIds[n]: the id Gemini's adapter gives the n-th call
    MaxToolBlocks   \* maxAnthropicToolBlocks, maxGeminiToolBlocks

Providers == {"openai", "azure", "anthropic", "gemini", "openai_responses"}

(* GetAdapter; AzureAdapter changes neither bodies nor lines. *)
Adapted(provider) == provider \notin {"openai", "azure"}

IsForwardedPseudonym(s) == HasMarker(s) \/ HasPseudonym(s)

-----------------------------------------------------------------------------
(* Reading a decoded body: an absent member and null are the zero value.    *)
Given(v, k) == Has(v, k) /\ v.m[k].t # "null"
TextOf(v, k) == IF Given(v, k) THEN v.m[k].s ELSE <<>>
ItemsOf(v, k) == IF Given(v, k) THEN v.m[k].items ELSE <<>>
MemberOf(v, k) == IF Given(v, k) THEN v.m[k] ELSE Obj(EmptyMap)

Role(msg) == TextOf(msg, "role")
TextParts(parts) == SelectSeq(parts, LAMBDA p : TextOf(p, "type") = <<"text">>)
PartsToText(parts) == [i \in DOMAIN parts |-> Obj([text |-> Str(TextOf(parts[i], "text"))])]
TextBlock(s) == Obj([text |-> Str(s)])

ToolNames(body) ==
    LET tools == ItemsOf(body, "tools")
    IN  {TextOf(MemberOf(tools[i], "function"), "name") : i \in DOMAIN tools}

(* A declared tool of the body, as both adapters require it. *)
ToolOk(tool) ==
    LET fn == MemberOf(tool, "function")
    IN  /\ TextOf(tool, "type") \in {<<>>, <<"function">>}
        /\ TextOf(fn, "name") \in Ids
        /\ Has(fn, "parameters") => fn.m["parameters"].t = "obj"

ToolsOk(body) ==
    LET tools == ItemsOf(body, "tools") IN \A i \in DOMAIN tools : ToolOk(tools[i])

(* translateToolChoice, geminiTranslateToolChoice: "auto", "any" (required), *)
(* a named tool, none, or not valid.                                         *)
ToolChoice(body) ==
    IF ~Has(body, "tool_choice") THEN "absent"
    ELSE LET c == body.m["tool_choice"]
             name == TextOf(MemberOf(c, "function"), "name")
         IN  CASE c = Str(<<"auto">>) -> "auto"
               [] c = Str(<<"required">>) -> "any"
               [] c = Str(<<"none">>) -> "none"
               [] c.t = "obj" ->
                      IF TextOf(c, "type") = <<"function">> /\ name \in Ids \cap ToolNames(body)
                      THEN "tool" ELSE "invalid"
               [] OTHER -> "invalid"

(* parseArgumentsToObject: an empty string is the empty object. *)
ArgumentsOk(call) == TextOf(MemberOf(call, "function"), "arguments") \notin NotObjects

Translated(body) == [ok |-> TRUE, body |-> body]
Rejected == [ok |-> FALSE, body |-> Null]

-----------------------------------------------------------------------------
(* Anthropic: system messages move to a member of their own, the results of *)
(* consecutive tool messages are gathered in one user message.              *)

(* buildTextMessage *)
TextMessageOk(msg) ==
    ~Has(msg, "content")
    \/ CASE msg.m["content"].t \in {"null", "str"} -> TRUE
         [] msg.m["content"].t = "arr" ->
                \A i \in DOMAIN msg.m["content"].items :
                    TextOf(msg.m["content"].items[i], "type") = <<"text">>
         [] OTHER -> FALSE

TextMessage(msg) ==
    LET blocks == IF ~Given(msg, "content") THEN <<>>
                  ELSE IF msg.m["content"].t = "str" THEN <<TextBlock(msg.m["content"].s)>>
                  ELSE PartsToText(msg.m["content"].items)
    IN  Obj([role |-> Str(Role(msg)),
             content |-> Arr(IF blocks = <<>> THEN <<TextBlock(<<>>)>> ELSE blocks)])

AnthropicCallOk(call) ==
    /\ TextOf(call, "id") \in Ids \cup {<<>>}
    /\ TextOf(MemberOf(call, "function"), "name") \in Ids \cup {<<>>}
    /\ ArgumentsOk(call)

LeadingText(msg) ==
    IF Given(msg, "content") /\ msg.m["content"].t = "str" /\ msg.m["content"].s # <<>>
    THEN <<TextBlock(msg.m["content"].s)>> ELSE <<>>

ToolUse(call) ==
    LET fn == MemberOf(call, "function")
    IN  Obj([id |-> Str(TextOf(call, "id")), name |-> Str(TextOf(fn, "name")),
             input |-> Str(TextOf(fn, "arguments"))])

ToolResult(msg) ==
    LET content == IF ~Has(msg, "content") THEN <<>>
                   ELSE IF msg.m["content"].t = "arr" THEN PartsToText(TextParts(msg.m["content"].items))
                   ELSE <<TextBlock(TextOf(msg, "content"))>>
    IN  Obj([tool_use_id |-> Str(TextOf(msg, "tool_call_id")), content |-> Arr(content)])

Flush(acc) ==
    IF acc.pending = <<>> THEN acc
    ELSE [acc EXCEPT !.pending = <<>>,
                     !.out = Append(@, Obj([role |-> Str(<<"user">>), content |-> Arr(acc.pending)]))]

AnthropicMessage(acc, msg) ==
    LET calls == ItemsOf(msg, "tool_calls")
        flushed == Flush(acc)
        used == Obj([role |-> Str(<<"assistant">>),
                     content |-> Arr(LeadingText(msg) \o [i \in DOMAIN calls |-> ToolUse(calls[i])])])
    IN  CASE Role(msg) = <<"system">> ->
                 IF ~Has(msg, "content") \/ msg.m["content"].t \notin {"null", "str"} THEN flushed
                 ELSE [flushed EXCEPT !.system = Append(@, TextBlock(TextOf(msg, "content")))]
          [] Role(msg) = <<"tool">> ->
                 [acc EXCEPT !.ok = @ /\ TextOf(msg, "tool_call_id") \in Ids \cup {<<>>},
                             !.pending = Append(@, ToolResult(msg))]
          [] Role(msg) = <<"assistant">> /\ calls # <<>> ->
                 [flushed EXCEPT !.ok = @ /\ \A i \in DOMAIN calls : AnthropicCallOk(calls[i]),
                                 !.out = Append(@, used)]
          [] OTHER ->
                 IF TextMessageOk(msg) THEN [flushed EXCEPT !.out = Append(@, TextMessage(msg))]
                 ELSE [flushed EXCEPT !.ok = FALSE]

OpenAIOnlyFields == {"n", "frequency_penalty", "presence_penalty", "logprobs", "top_logprobs",
    "logit_bias", "response_format", "seed", "service_tier", "store", "user", "stream_options",
    "max_completion_tokens"}

AnthropicTransformRequest(body) ==
    LET start == [ok |-> TRUE, out |-> <<>>, pending |-> <<>>, system |-> <<>>]
        end == Flush(FoldLeft(AnthropicMessage, start, ItemsOf(body, "messages")))
        choice == ToolChoice(body)
        maxTokens == IF Has(body, "max_tokens") THEN body.m["max_tokens"]
                     ELSE IF Has(body, "max_completion_tokens") THEN body.m["max_completion_tokens"]
                     ELSE Int64
        kept == {k \in DOMAIN body.m : k \notin OpenAIOnlyFields
                     /\ (choice = "none" => k \notin {"tools", "tool_choice"})}
        system == IF end.system = <<>> THEN {} ELSE {"system"}
        member(k) == CASE k = "messages" -> Arr(end.out)
                       [] k = "system" -> Arr(end.system)
                       [] k = "max_tokens" -> maxTokens
                       [] OTHER -> body.m[k]
    IN  IF ToolsOk(body) /\ choice # "invalid" /\ end.ok
        THEN Translated(Obj([k \in kept \cup system \cup {"max_tokens"} |-> member(k)]))
        ELSE Rejected

-----------------------------------------------------------------------------
(* Gemini: calls have no ids there, so a tool's result is sent back under    *)
(* the name its id was seen with earlier in the conversation.                *)

GeminiParts(msg) ==
    LET c == msg.m["content"]
    IN  IF ~Has(msg, "content") THEN <<>>
        ELSE CASE c.t = "arr" -> SelectSeq(PartsToText(TextParts(c.items)), LAMBDA p : p.m.text.s # <<>>)
               [] c.t \in {"null", "str"} -> <<TextBlock(TextOf(msg, "content"))>>
               [] OTHER -> <<>>

GeminiTextParts(msg) == IF GeminiParts(msg) = <<>> THEN <<TextBlock(<<>>)>> ELSE GeminiParts(msg)

FunctionCall(call) ==
    LET fn == MemberOf(call, "function")
    IN  Obj([functionCall |-> Str(TextOf(fn, "name")), args |-> Str(TextOf(fn, "arguments"))])

GeminiCallOk(call) ==
    LET name == TextOf(MemberOf(call, "function"), "name")
    IN  TextOf(call, "id") \in Ids /\ name \in Ids /\ ~IsForwardedPseudonym(name) /\ ArgumentsOk(call)

GeminiCall(acc, call) ==
    LET id == TextOf(call, "id")
        name == TextOf(MemberOf(call, "function"), "name")
    IN  [acc EXCEPT !.ok = @ /\ GeminiCallOk(call) /\ (id \in DOMAIN acc.names => acc.names[id] = name),
                    !.names = With(@, id, name)]

ResultParts(content) ==
    IF content.role # Str(<<"user">>) THEN FALSE
    ELSE \A i \in DOMAIN content.parts.items : Has(content.parts.items[i], "functionResponse")

GeminiToolMessage(acc, msg) ==
    LET id == TextOf(msg, "tool_call_id")
        known == id \in Ids /\ id \in DOMAIN acc.names
        shape == IF Has(msg, "content") THEN msg.m["content"].t ELSE "null"
        result == IF shape = "arr" THEN PartsToText(TextParts(msg.m["content"].items))
                  ELSE <<TextBlock(TextOf(msg, "content"))>>
        part == Obj([functionResponse |-> Str(acc.names[id]), response |-> Arr(result)])
        n == Len(acc.out)
    IN  IF ~known \/ shape \notin {"null", "str", "arr"} THEN [acc EXCEPT !.ok = FALSE]
        ELSE IF n > 0 /\ ResultParts(acc.out[n].m)
        THEN [acc EXCEPT !.out[n].m.parts.items = Append(@, part)]
        ELSE [acc EXCEPT !.out = Append(@, Obj([role |-> Str(<<"user">>), parts |-> Arr(<<part>>)]))]

GeminiMessage(acc, msg) ==
    LET calls == ItemsOf(msg, "tool_calls")
        used == LeadingText(msg) \o [i \in DOMAIN calls |-> FunctionCall(calls[i])]
        content(role, parts) == Obj([role |-> Str(role), parts |-> Arr(parts)])
    IN  CASE Role(msg) = <<"system">> -> [acc EXCEPT !.system = @ \o GeminiParts(msg)]
          [] Role(msg) = <<"tool">> -> GeminiToolMessage(acc, msg)
          [] Role(msg) = <<"assistant">> ->
                 [FoldLeft(GeminiCall, acc, calls) EXCEPT
                     !.out = Append(@, content(<<"model">>, IF calls = <<>> THEN GeminiTextParts(msg) ELSE used))]
          [] OTHER -> [acc EXCEPT !.out = Append(@, content(Role(msg), GeminiTextParts(msg)))]

GeminiTransformRequest(body) ==
    LET start == [ok |-> TRUE, out |-> <<>>, system |-> <<>>, names |-> EmptyMap]
        end == FoldLeft(GeminiMessage, start, ItemsOf(body, "messages"))
        choice == ToolChoice(body)
        config == DOMAIN body.m \cap {"temperature", "top_p", "stop", "n", "response_format"}
        limit == DOMAIN body.m \cap {"max_completion_tokens", "max_tokens"}
        tools == IF choice = "none" THEN {} ELSE DOMAIN body.m \cap {"tools", "tool_choice"}
        member(k) == CASE k = "contents" -> Arr(end.out)
                       [] k = "systemInstruction" -> Arr(end.system)
                       [] k = "maxOutputTokens" ->
                              body.m[IF "max_completion_tokens" \in limit
                                     THEN "max_completion_tokens" ELSE "max_tokens"]
                       [] OTHER -> body.m[k]
        kept == {"contents"} \cup config \cup tools
                \cup (IF end.system = <<>> THEN {} ELSE {"systemInstruction"})
                \cup (IF limit = {} THEN {} ELSE {"maxOutputTokens"})
    IN  IF ToolsOk(body) /\ choice # "invalid" /\ end.ok
        THEN Translated(Obj([k \in kept |-> member(k)])) ELSE Rejected

-----------------------------------------------------------------------------
(* OpenAI Responses: a body that already has an input passes; tools and     *)
(* tool calls are not carried over.                                         *)

JoinLines(texts) ==
    FlattenSeq([i \in DOMAIN texts |-> IF i = 1 THEN texts[i] ELSE <<"\n">> \o texts[i]])

RawContentText(msg) ==
    LET c == msg.m["content"]
    IN  IF ~Has(msg, "content") THEN <<>>
        ELSE CASE c.t = "arr" -> JoinLines(SelectSeq([i \in DOMAIN c.items |-> TextOf(c.items[i], "text")],
                                                LAMBDA text : text # <<>>))
               [] c.t = "str" -> c.s
               [] OTHER -> <<>>

ResponsesTransformRequest(body) ==
    LET messages == ItemsOf(body, "messages")
        instructs(msg) == Role(msg) \in {<<"system">>, <<"developer">>}
        instructions == SelectSeq(SelectSeq(messages, instructs), LAMBDA m : RawContentText(m) # <<>>)
        texts == [i \in DOMAIN instructions |-> TextBlock(RawContentText(instructions[i]))]
        others == SelectSeq(messages, LAMBDA m : ~instructs(m))
        item(m) == Obj([role |-> Str(IF Role(m) = <<>> THEN <<"user">> ELSE Role(m)),
                        content |-> IF Has(m, "content") THEN m.m["content"] ELSE Str(<<>>)])
        input == IF others = <<>> THEN <<Obj([role |-> Str(<<"user">>), content |-> Arr(texts)])>>
                 ELSE [i \in DOMAIN others |-> item(others[i])]
        kept == DOMAIN body.m \cap {"model", "stream", "temperature", "top_p"}
        member(k) == CASE k = "input" -> Arr(input)
                       [] k = "instructions" -> Arr(IF others = <<>> THEN <<>> ELSE texts)
                       [] OTHER -> body.m[k]
    IN  IF Has(body, "input") THEN Translated(body)
        ELSE IF TextOf(body, "model") = <<>> \/ messages = <<>> THEN Rejected
        ELSE Translated(Obj([k \in kept \cup {"input", "instructions"} |-> member(k)]))

TransformRequest(provider, body) ==
    CASE provider = "anthropic" -> AnthropicTransformRequest(body)
      [] provider = "gemini" -> GeminiTransformRequest(body)
      [] provider = "openai_responses" -> ResponsesTransformRequest(body)
      [] OTHER -> Translated(body)

=============================================================================
