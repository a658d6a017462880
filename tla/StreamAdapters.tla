--------------------------- MODULE StreamAdapters ---------------------------
(***************************************************************************)
(* TransformStreamLine and TransformResponse of the adapters: what a line  *)
(* of the provider's event stream, or its whole answer, becomes in the     *)
(* OpenAI shape.                                                           *)
(*                                                                         *)
(* A line is "blank", an "event" line or a comment, "malformed" data,      *)
(* "done" ([DONE]), a chunk that already has the OpenAI shape ("choices",  *)
(* "usage", "error", "other": the kinds of StreamRestorer), or "data" of   *)
(* the provider, with the fields its type has.                             *)
(***************************************************************************)
EXTENDS ProviderAdapters

Blank == [kind |-> "blank"]
Done == [kind |-> "done"]
NoDelta == [index |-> 0, content |-> None, refusal |-> None, text |-> None, role |-> FALSE,
            tools |-> None, call |-> FALSE, finish |-> None]
Chunk(delta) == [kind |-> "choices", choices |-> <<delta>>]

Omitted(s) == IF s = <<>> THEN None ELSE s
RoleChunk == Chunk([NoDelta EXCEPT !.role = TRUE])
TextDelta(s) == Chunk([NoDelta EXCEPT !.content = Omitted(s)])
FinishDelta(reason) == Chunk([NoDelta EXCEPT !.finish = reason])
ToolDelta(elements) == Chunk([NoDelta EXCEPT !.tools = elements])
NewCall(i, id, name, args) ==
    [index |-> i, id |-> Omitted(id), type |-> "function", name |-> Omitted(name), args |-> args]
MoreArgs(i, args) == [index |-> i, id |-> None, type |-> None, name |-> None, args |-> args]

(* An adapter's memory: the calls it has seen, and for Anthropic by block,  *)
(* for Gemini whether [DONE] has to follow.                                 *)
NewAdapter == [calls |-> 0, blocks |-> <<>>, done |-> FALSE]

Lines(a, out) == [ok |-> TRUE, a |-> a, out |-> out]
Drop(a) == Lines(a, <<>>)
StreamTransformAborted(a) == [ok |-> FALSE, a |-> a, out |-> <<>>]

-----------------------------------------------------------------------------
MapStopReason(reason) ==
    CASE reason = "max_tokens" -> "length"
      [] reason = "tool_use" -> "tool_calls"
      [] OTHER -> "stop"

AnthropicBlockStart(a, d) ==
    IF d.block # "tool_use" THEN Drop(a)
    ELSE IF /\ d.index >= 0 /\ d.index \notin DOMAIN a.blocks
            /\ a.calls < MaxToolBlocks
            /\ d.id \in Ids \cup {<<>>} /\ d.name \in Ids \cup {<<>>}
         THEN Lines([a EXCEPT !.calls = @ + 1, !.blocks = With(@, d.index, a.calls)],
                    <<ToolDelta(<<NewCall(a.calls, d.id, d.name, <<>>)>>)>>)
         ELSE StreamTransformAborted(a)

AnthropicBlockDelta(a, d) ==
    CASE d.delta = "text_delta" -> Lines(a, <<TextDelta(d.text)>>)
      [] d.delta = "input_json_delta" ->
             IF d.index \in DOMAIN a.blocks
             THEN Lines(a, <<ToolDelta(<<MoreArgs(a.blocks[d.index], d.text)>>)>>)
             ELSE StreamTransformAborted(a)
      [] OTHER -> Drop(a)

AnthropicData(a, d) ==
    CASE d.type = "message_start" -> Lines(a, <<RoleChunk>>)
      [] d.type = "content_block_start" -> AnthropicBlockStart(a, d)
      [] d.type = "content_block_delta" -> AnthropicBlockDelta(a, d)
      [] d.type = "message_delta" -> Lines(a, <<FinishDelta(MapStopReason(d.reason))>>)
      [] d.type = "message_stop" -> Lines(a, <<Done>>)
      [] OTHER -> Drop(a)

AnthropicStreamLine(a, line) ==
    CASE line.kind \in {"event", "choices", "usage", "error", "other"} -> Drop(a)
      [] line.kind = "data" -> AnthropicData(a, line)
      [] OTHER -> Lines(a, <<line>>)

-----------------------------------------------------------------------------
GeminiFinishReason(reason) ==
    CASE reason = "MAX_TOKENS" -> "length"
      [] reason \in {"SAFETY", "RECITATION"} -> "content_filter"
      [] OTHER -> "stop"

AddCall(calls, p) == IF p.call # None THEN Append(calls, p) ELSE calls
AddText(text, p) == IF p.call = None THEN text \o p.text ELSE text
CallParts(parts) == FoldLeft(AddCall, <<>>, parts)
JoinText(parts) == FoldLeft(AddText, <<>>, parts)

(* A finish reason after a call of the stream is always "tool_calls"; it     *)
(* goes with the calls of its line, or else with the text.                   *)
GeminiData(a, d) ==
    LET calls == CallParts(d.parts)
        text == JoinText(d.parts)
        finish == IF d.finish = None THEN None
                  ELSE IF calls # <<>> \/ a.calls > 0 THEN "tool_calls"
                  ELSE GeminiFinishReason(d.finish)
        elements == [i \in DOMAIN calls |->
                        NewCall(a.calls + i - 1, CallIds[a.calls + i], calls[i].call, calls[i].text)]
        textDelta == Chunk([NoDelta EXCEPT !.content = text,
                                           !.finish = IF calls = <<>> THEN finish ELSE None])
        toolDelta == Chunk([NoDelta EXCEPT !.tools = elements, !.finish = finish])
        next == [a EXCEPT !.calls = @ + Len(calls), !.done = @ \/ finish # None]
    IN  IF \/ a.calls + Len(calls) > MaxToolBlocks
           \/ \E i \in DOMAIN calls : calls[i].call \notin Ids
        THEN StreamTransformAborted(a)
        ELSE Lines(next, CASE text # <<>> /\ calls # <<>> -> <<textDelta, toolDelta>>
                           [] text # <<>> -> <<textDelta>>
                           [] calls # <<>> -> <<toolDelta>>
                           [] finish # None -> <<FinishDelta(finish)>>
                           [] OTHER -> <<>>)

GeminiStreamLine(a, line) ==
    CASE line.kind = "blank" ->
             IF a.done THEN Lines([a EXCEPT !.done = FALSE], <<Done>>) ELSE Lines(a, <<line>>)
      [] line.kind = "done" -> Lines(a, <<line>>)
      [] line.kind = "data" -> GeminiData(a, line)
      [] OTHER -> Drop(a)

-----------------------------------------------------------------------------
ResponsesData(a, d) ==
    CASE d.type = "response.created" -> Lines(a, <<RoleChunk>>)
      [] d.type = "response.output_text.delta" ->
             IF d.text = <<>> THEN Drop(a) ELSE Lines(a, <<TextDelta(d.text)>>)
      [] d.type = "response.completed" -> Lines(a, <<FinishDelta("stop"), Done>>)
      [] d.type \in {"response.failed", "response.incomplete"} -> StreamTransformAborted(a)
      [] OTHER -> Drop(a)

ResponsesStreamLine(a, line) ==
    CASE line.kind = "done" -> Lines(a, <<Done>>)
      [] line.kind = "malformed" -> StreamTransformAborted(a)
      [] line.kind = "data" -> ResponsesData(a, line)
      [] OTHER -> Drop(a)

TransformStreamLine(provider, a, line) ==
    CASE provider = "anthropic" -> AnthropicStreamLine(a, line)
      [] provider = "gemini" -> GeminiStreamLine(a, line)
      [] provider = "openai_responses" -> ResponsesStreamLine(a, line)
      [] OTHER -> Lines(a, <<line>>)

-----------------------------------------------------------------------------
(* A whole answer: the provider's parts - a text, or a call with its id,     *)
(* name and arguments - in order, and its reason to stop.                    *)
Texts(parts) == FlattenSeq([i \in DOMAIN parts |-> IF parts[i].name = None THEN parts[i].text ELSE <<>>])
Calls(parts) == SelectSeq(parts, LAMBDA p : p.name # None)

Message(content, calls, finish) == [ok |-> TRUE, content |-> content, calls |-> calls, finish |-> finish]
NoMessage == [ok |-> FALSE, content |-> <<>>, calls |-> <<>>, finish |-> None]

AnthropicResponse(parts, reason) ==
    LET calls == Calls(parts)
        ok(c) == /\ c.id \in Ids \cup {<<>>} /\ c.name \in Ids \cup {<<>>}
                 /\ ~IsForwardedPseudonym(c.id) /\ ~IsForwardedPseudonym(c.name)
    IN  IF \E i \in DOMAIN calls : ~ok(calls[i]) THEN NoMessage
        ELSE Message(Texts(parts), calls, MapStopReason(reason))

GeminiResponse(parts, reason) ==
    LET calls == Calls(parts)
        named == [i \in DOMAIN calls |-> [calls[i] EXCEPT !.id = CallIds[i]]]
    IN  IF \E i \in DOMAIN calls : calls[i].name \notin Ids \/ IsForwardedPseudonym(calls[i].name) THEN NoMessage
        ELSE Message(Texts(parts), named, IF calls # <<>> THEN "tool_calls" ELSE GeminiFinishReason(reason))

TransformResponse(provider, parts, reason) ==
    CASE provider = "anthropic" -> AnthropicResponse(parts, reason)
      [] provider = "gemini" -> GeminiResponse(parts, reason)
      [] provider = "openai_responses" -> Message(Texts(parts), <<>>, "stop")
      [] OTHER -> Message(Texts(parts), Calls(parts), reason)

=============================================================================
