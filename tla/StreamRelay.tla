---------------------------- MODULE StreamRelay ----------------------------
(***************************************************************************)
(* internal/proxy/handler.go, seen as what happens to the text of one      *)
(* conversation: the body is freed of personal data and translated for the *)
(* provider, the provider's lines (or its whole answer) are translated     *)
(* back and the personal data restored, line by line, as they arrive.      *)
(*                                                                         *)
(* The provider says fragments of text and of tool arguments; Encode gives *)
(* the lines by which it says them.  It may also put a line that does not  *)
(* follow its protocol, and stop at any time.                              *)
(***************************************************************************)
EXTENDS StreamAdapters

CONSTANTS
    Cases,         \* [provider, streaming, private, body, events, odd, fragments]: the
                   \* requests of this instance, with the bounds on what the provider
                   \* puts out: events made of fragments, and lines of no protocol
    Tools,         \* the tools it may call
    OddLines,      \* lines that do not follow the protocol
    ProviderIds,   \* the ids providers give the calls of an answer
    Results,       \* what a tool may answer
    Anonymize(_, _) \* Filter.AnonymizeJSON: the filter and the body after the scan

(* Every line that is not a provider's own is of a kind Push tells apart,   *)
(* with its choices and their tool calls in sequences.                      *)
IsSequence(s) == DOMAIN s = 1..Len(s) /\ Len(s) \in Nat
Pushable(line) ==
    /\ line.kind \in {"blank", "event", "malformed", "done", "error", "other", "usage", "choices"}
    /\ line.kind = "choices" =>
          /\ IsSequence(line.choices)
          /\ \A i \in DOMAIN line.choices : line.choices[i].tools # None => IsSequence(line.choices[i].tools)

ASSUME OddLinesAssumption == \A line \in OddLines : Pushable(line)

VARIABLES
    provider, streaming, private,   \* the deployment and the kind of request
    body,                           \* the client's body
    phase,                          \* "received", "open", "refused", "ended", "continued", "rejected"
    filter, sent,                   \* the filter of the answered request; the body that went out
    up,                             \* what the provider has said
    budget,                         \* what it may still say
    wire,                           \* its lines that are not read yet
    adapter, restorer,
    got,                            \* what the client has received
    books                           \* breaker outcome and status of the usage event

vars == <<provider, streaming, private, body, phase, filter, sent, up, budget, wire, adapter, restorer, got, books>>

(* Lane 0 is the content, lane k + 1 the arguments of call k. *)
Lanes == 0..(MaxToolBlocks + 1)
Silence == [l \in Lanes |-> <<>>]

Init ==
    /\ \E c \in Cases :
          /\ provider = c.provider /\ streaming = c.streaming /\ private = c.private
          /\ body = c.body
          /\ budget = [events |-> c.events, odd |-> c.odd, fragments |-> c.fragments]
    /\ phase = "received"
    /\ filter = NewFilter
    /\ sent = None
    /\ up = [said |-> Silence, calls |-> <<>>, lane |-> 0, started |-> FALSE, finished |-> FALSE,
             dangling |-> FALSE, cut |-> FALSE, odd |-> 0]
    /\ wire = <<>>
    /\ adapter = NewAdapter
    /\ restorer = None
    /\ got = [lanes |-> Silence, calls |-> <<>>, end |-> "none"]
    /\ books = [breaker |-> "none", status |-> None]

Restoring == Touched(filter)

-----------------------------------------------------------------------------
(* Handle, up to buildUpstreamRequest: the body is anonymised once, whatever *)
(* deployment is chosen; a private deployment gets the body as it came       *)
(* (pickBody).                                                               *)
Forwarded(raw, clean) == TransformRequest(provider, IF private THEN raw ELSE clean)

Prepared(raw, clean) ==
    [filter |-> clean.f, out |-> IF clean.ok THEN Forwarded(raw, clean.v) ELSE Rejected]

Send ==
    /\ phase = "received"
    /\ \E p \in {Prepared(body, Anonymize(NewFilter, body))} :
          /\ filter' = p.filter
          /\ IF p.out.ok
             THEN phase' = "open" /\ sent' = p.out.body /\ restorer' = NewStreamRestorer(p.filter)
             ELSE phase' = "refused" /\ UNCHANGED <<sent, restorer>>
    /\ UNCHANGED <<provider, streaming, private, body, up, budget, wire, adapter, got, books>>

-----------------------------------------------------------------------------
(* The provider's side of the stream.                                       *)

Native(type, fields) == With(With(fields, "type", type), "kind", "data")
Event(line) == <<[kind |-> "event"], line, Blank>>

Start ==
    CASE provider = "anthropic" -> Event(Native("message_start", EmptyMap))
      [] provider = "openai_responses" -> Event(Native("response.created", EmptyMap))
      [] OTHER -> <<RoleChunk, Blank>>

Text(s) ==
    CASE provider = "anthropic" ->
             Event(Native("content_block_delta", [index |-> 0, delta |-> "text_delta", text |-> s]))
      [] provider = "openai_responses" -> Event(Native("response.output_text.delta", [text |-> s]))
      [] OTHER -> <<TextDelta(s), Blank>>

Call(k, name) ==
    IF provider = "anthropic"
    THEN Event(Native("content_block_start",
                      [index |-> k, block |-> "tool_use", id |-> ProviderIds[k], name |-> name]))
    ELSE <<ToolDelta(<<NewCall(k - 1, ProviderIds[k], name, <<>>)>>), Blank>>

Arguments(k, s) ==
    IF provider = "anthropic"
    THEN Event(Native("content_block_delta", [index |-> k, delta |-> "input_json_delta", text |-> s]))
    ELSE <<ToolDelta(<<MoreArgs(k - 1, s)>>), Blank>>

Stop(cut) ==
    LET calls == up.calls # <<>>
        reason == IF cut THEN "max_tokens" ELSE IF calls THEN "tool_use" ELSE "end_turn"
    IN  CASE provider = "anthropic" ->
                 Event(Native("message_delta", [reason |-> reason])) \o Event(Native("message_stop", EmptyMap))
          [] provider = "openai_responses" -> Event(Native("response.completed", EmptyMap))
          [] OTHER -> <<FinishDelta(MapStopReason(reason)), Blank, [kind |-> "usage"], Blank, Done>>

(* Gemini says a text, a whole call and its reason to stop in one line.      *)
Candidate(s, calls, stop) ==
    <<Native("candidates", [parts |-> (IF s = <<>> THEN <<>> ELSE <<[call |-> None, text |-> s]>>) \o calls,
                            finish |-> stop]), Blank>>

Speaking == phase = "open" /\ streaming /\ wire = <<>> /\ ~up.finished

Unfinished(u) == u.dangling \/ Held(u.said[u.lane], DOMAIN filter.rev) > 0

(* Lane l goes on with s.  When the provider moves on to another lane, what  *)
(* could be the beginning of a pseudonym stays unfinished in the one before. *)
Said(u, l, s) ==
    [u EXCEPT !.said[l] = @ \o s, !.lane = l, !.started = TRUE,
              !.dangling = IF l = u.lane THEN u.dangling ELSE Unfinished(u)]
Stopped(u, cut) == [u EXCEPT !.finished = TRUE, !.cut = cut, !.dangling = Unfinished(u)]

Emits(lines) ==
    /\ budget.events > 0
    /\ budget' = [budget EXCEPT !.events = @ - 1]
    /\ wire' = (IF up.started \/ provider = "gemini" THEN <<>> ELSE Start) \o lines
    /\ UNCHANGED <<provider, streaming, private, body, phase, filter, sent, adapter, restorer, got, books>>

SaysText ==
    /\ Speaking /\ provider # "gemini"
    /\ \E s \in budget.fragments : up' = Said(up, 0, s) /\ Emits(Text(s))

BeginsCall ==
    /\ Speaking /\ provider \notin {"gemini", "openai_responses"} /\ Len(up.calls) <= MaxToolBlocks
    /\ \E name \in Tools :
          LET k == Len(up.calls) + 1
          IN  /\ up' = Said([up EXCEPT !.calls = Append(@, name)], k, <<>>)
              /\ Emits(Call(k, name))

SaysArguments ==
    /\ Speaking /\ provider # "gemini"
    /\ \E k \in DOMAIN up.calls, s \in budget.fragments : up' = Said(up, k, s) /\ Emits(Arguments(k, s))

(* The answer is complete, or cut at the token limit. *)
Stops ==
    /\ Speaking /\ up.started /\ provider # "gemini"
    /\ \E cut \in BOOLEAN : up' = Stopped(up, cut) /\ Emits(Stop(cut))

(* A text, if it says one, and then a call, if it makes one. *)
SaidAndCalled(s, name, args) ==
    LET spoken == IF s = <<>> THEN up ELSE Said(up, 0, s)
    IN  IF name = None THEN spoken
        ELSE Said([spoken EXCEPT !.calls = Append(@, name)], Len(up.calls) + 1, args)

GeminiSays ==
    /\ Speaking /\ provider = "gemini"
    /\ \E s \in budget.fragments \cup {<<>>}, stop \in {None, "STOP", "MAX_TOKENS"} :
       \E name \in IF Len(up.calls) <= MaxToolBlocks THEN Tools \cup {None} ELSE {None} :
       \E args \in IF name = None THEN {<<>>} ELSE budget.fragments :
          LET called == SaidAndCalled(s, name, args)
              calls == IF name = None THEN <<>> ELSE <<[call |-> name, text |-> args]>>
          IN  /\ up # called \/ stop # None
              /\ up' = IF stop = None THEN called ELSE Stopped(called, stop = "MAX_TOKENS")
              /\ Emits(Candidate(s, calls, stop))

PutsOddLine ==
    /\ phase = "open" /\ streaming /\ budget.odd > 0 /\ wire = <<>>
    /\ budget' = [budget EXCEPT !.odd = @ - 1]
    /\ up' = [up EXCEPT !.odd = @ + 1]
    /\ \E line \in OddLines : wire' = <<line>>
    /\ UNCHANGED <<provider, streaming, private, body, phase, filter, sent, adapter, restorer, got, books>>

-----------------------------------------------------------------------------
(* What the client makes of the lines it is sent.                           *)

Received(g, line) ==
    CASE line.kind = "text" -> [g EXCEPT !.lanes[0] = @ \o line.text]
      [] line.kind = "tool" ->
             [g EXCEPT !.lanes[line.tool + 1] = @ \o line.text,
                       !.calls = IF line.header THEN Append(@, [id |-> line.id, name |-> line.name]) ELSE @]
      [] line.kind = "done" -> [g EXCEPT !.end = "done"]
      [] OTHER -> g

(* An OpenAI-shaped line the relay passes on untouched. *)
ReceivedAsIs(g, line) ==
    LET d == line.choices[1]
        element(h, e) == Received(h, [kind |-> "tool", tool |-> e.index, header |-> e.id # None,
                                      id |-> e.id, name |-> e.name, text |-> e.args])
        content == IF d.content = None THEN g ELSE Received(g, [kind |-> "text", text |-> d.content])
    IN  IF line.kind # "choices" THEN Received(g, line)
        ELSE IF d.tools = None THEN content ELSE FoldLeft(element, content, d.tools)

(* handleStreamingResponse with a restorer: the lines an adapter makes of     *)
(* one line are events of their own, so a blank line goes in between.  Lines  *)
(* put out before a violation have been sent.                                 *)
RunTogether(s, i, line) == s
Separated(s, i, line) ==
    IF i > 1 /\ line.kind # "blank" /\ Adapted(provider) THEN EndEvent(s) ELSE s

PushAll(lines) ==
    LET joined(acc, r) == [s |-> r.s, out |-> acc.out \o r.out, ok |-> r.ok, terminal |-> r.terminal]
        push(acc, i) == IF ~acc.ok \/ acc.terminal THEN acc
                        ELSE joined(acc, Push(Separated(acc.s, i, lines[i]), lines[i]))
    IN  FoldLeft(push, [s |-> restorer, out |-> <<>>, ok |-> TRUE, terminal |-> FALSE],
                 [i \in DOMAIN lines |-> i])

Outcome(breaker, status, end) ==
    /\ phase' = "ended"
    /\ books' = [breaker |-> breaker, status |-> status]
    /\ got' = [got EXCEPT !.end = end]

Reading == phase = "open" /\ streaming /\ wire # <<>>
Adapt == TransformStreamLine(provider, adapter, Head(wire))

(* The adapter gives up: the client is told, with or without a restorer. *)
TransformAborts ==
    /\ Reading
    /\ ~Adapt.ok
    /\ Outcome("failure", 502, "stream_transform_aborted")
    /\ UNCHANGED <<provider, streaming, private, body, filter, sent, up, budget, wire, adapter, restorer>>

(* A line that the restorer accepts; the client is there, or it is not and   *)
(* the write fails.                                                          *)
RestoresLine ==
    /\ Reading /\ Restoring
    /\ \E t \in {Adapt} :
          /\ t.ok
          /\ adapter' = t.a
          /\ \E r \in {PushAll(t.out)} :
                /\ restorer' = r.s
                /\ \/ /\ got' = [FoldLeft(Received, got, r.out) EXCEPT
                                  !.end = IF r.ok THEN @ ELSE "pii_restore_aborted"]
                      /\ phase' = IF r.ok /\ ~r.terminal THEN phase ELSE "ended"
                      /\ books' = CASE ~r.ok -> [breaker |-> "failure", status |-> 502]
                                    [] r.terminal -> [breaker |-> "success", status |-> 200]
                                    [] OTHER -> books
                   \/ r.out # <<>> /\ Outcome("none", 200, "gone")
    /\ wire' = Tail(wire)
    /\ UNCHANGED <<provider, streaming, private, body, filter, sent, up, budget>>

(* Without a restorer: lines pass as the adapter gives them. *)
PassesLine ==
    /\ Reading /\ ~Restoring
    /\ \E t \in {Adapt} :
          /\ t.ok
          /\ adapter' = t.a
          /\ \/ got' = FoldLeft(ReceivedAsIs, got, t.out) /\ UNCHANGED <<phase, books>>
             \/ (\E i \in DOMAIN t.out : t.out[i].kind # "blank") /\ Outcome("success", 200, "gone")
    /\ wire' = Tail(wire)
    /\ UNCHANGED <<provider, streaming, private, body, filter, sent, up, budget, restorer>>

(* The provider's stream is over, or it broke or took too long (scanner.Err). *)
EndedAsItMay(failed) == Outcome(IF failed THEN "failure" ELSE "success", 200, got.end)
EndedBefore(failed) ==
    IF Restoring THEN Outcome("failure", 502, "pii_restore_aborted")
    ELSE Outcome(IF failed THEN "failure" ELSE "success", 200, got.end)

StreamStops ==
    /\ phase = "open" /\ streaming
    /\ \E failed \in BOOLEAN : (failed \/ wire = <<>>) /\ EndedBefore(failed)
    /\ UNCHANGED <<provider, streaming, private, body, filter, sent, up, budget, wire, adapter, restorer>>

(* handleBufferedResponse: a text and perhaps a call, restored as a whole.   *)
WholeAnswer(s, name, args) ==
    LET call == IF name = None THEN <<>> ELSE <<[id |-> ProviderIds[1], name |-> name, text |-> args]>>
    IN  TransformResponse(provider, <<[id |-> None, name |-> None, text |-> s]>> \o call,
                          IF name = None THEN "end_turn" ELSE "tool_use")

LanesOf(m) == [l \in Lanes |-> CASE l = 0 -> m.content
                                [] l \in DOMAIN m.calls -> m.calls[l].text
                                [] OTHER -> <<>>]

Answers ==
    /\ phase = "open" /\ ~streaming
    /\ \E s, args \in budget.fragments, name \in Tools \cup {None} :
          LET m == WholeAnswer(s, name, args)
          IN  /\ up' = [up EXCEPT !.said = LanesOf(m), !.calls = IF name = None THEN <<>> ELSE <<name>>,
                                  !.started = TRUE, !.finished = TRUE]
              /\ IF m.ok
                 THEN got' = [lanes |-> [l \in Lanes |-> Restore(LanesOf(m)[l], filter.rev)], end |-> "done",
                              calls |-> [i \in DOMAIN m.calls |-> [id |-> m.calls[i].id, name |-> m.calls[i].name]]]
                 ELSE got' = [got EXCEPT !.end = "upstream_error"]
              /\ books' = [books EXCEPT !.status = IF m.ok THEN 200 ELSE None]
    /\ phase' = "ended"
    /\ UNCHANGED <<provider, streaming, private, body, filter, sent, budget, wire, adapter, restorer>>

-----------------------------------------------------------------------------
(* The conversation goes on: the client sends the answer back, with the      *)
(* results of the calls it asked for, or with the next question.             *)
Reply(result) ==
    LET call(i) == Obj([id |-> Str(got.calls[i].id),
                        function |-> Obj([name |-> Str(got.calls[i].name), arguments |-> Str(got.lanes[i])])])
        answer == [role |-> Str(<<"assistant">>),
                   content |-> IF got.lanes[0] = <<>> /\ got.calls # <<>> THEN Null ELSE Str(got.lanes[0])]
        calls == Arr([i \in DOMAIN got.calls |-> call(i)])
        message == Obj(IF got.calls = <<>> THEN answer ELSE answer @@ [tool_calls |-> calls])
        results == [i \in DOMAIN got.calls |-> Obj([role |-> Str(<<"tool">>), content |-> Str(result),
                                                    tool_call_id |-> Str(got.calls[i].id)])]
        question == <<Obj([role |-> Str(<<"user">>), content |-> Str(result)])>>
    IN  <<message>> \o IF got.calls = <<>> THEN question ELSE results

Continues ==
    /\ phase = "ended" /\ got.end = "done" /\ Has(body, "messages")
    /\ \E result \in Results : body' = [body EXCEPT !.m["messages"].items = @ \o Reply(result)]
    /\ \E p \in {Prepared(body', Anonymize(NewFilter, body'))} :
          IF p.out.ok THEN phase' = "continued" /\ sent' = p.out.body
          ELSE phase' = "rejected" /\ sent' = sent
    /\ UNCHANGED <<provider, streaming, private, filter, up, budget, wire, adapter, restorer, got, books>>

Next ==
    \/ Send
    \/ SaysText \/ BeginsCall \/ SaysArguments \/ Stops \/ GeminiSays \/ PutsOddLine
    \/ TransformAborts \/ RestoresLine \/ PassesLine \/ StreamStops
    \/ Answers \/ Continues

Spec == Init /\ [][Next]_vars

-----------------------------------------------------------------------------
(* The client sees what the provider said with the values in place of the    *)
(* pseudonyms, however the provider cut them into fragments and lanes: never *)
(* a pseudonym of the request, whatever the provider's lines; never anything *)
(* but a beginning of the restored text while it goes on, all of it when the *)
(* stream ends with [DONE] (stream.go Push, pii.go Restore).                 *)
DeliveredRestored ==
    \A l \in Lanes :
        LET restored == Restore(up.said[l], filter.rev)
        IN  /\ Windows(got.lanes[l], PseudonymLen) \cap DOMAIN filter.rev = {}
            /\ up.odd = 0 => IsPrefix(got.lanes[l], restored)
            /\ up.odd = 0 /\ got.end = "done" => got.lanes[l] = restored

(* An answer with restored values ends in exactly one way, and the client,   *)
(* the breaker and the usage event agree on it: [DONE] only when the         *)
(* provider had finished, and then a success; an error event is a failure    *)
(* and a 502; a client that left is neither.                                 *)
HonestEnd ==
    streaming /\ Restoring /\ phase \in {"ended", "continued", "rejected"} =>
        /\ got.end = "done" /\ up.odd = 0 => up.finished
        /\ books = CASE got.end = "done" -> [breaker |-> "success", status |-> 200]
                     [] got.end = "gone" -> [breaker |-> "none", status |-> 200]
                     [] OTHER -> [breaker |-> "failure", status |-> 502]
        /\ got.end # "none"

(* A provider that follows its protocol is not cut off without a cause: the  *)
(* restorer gives up only when a lane was left on the beginning of a         *)
(* pseudonym, when the answer shows a pseudonym the request does not have    *)
(* (or in a tool's arguments the marker of one), or when it was cut short    *)
(* after a tool call.  The Responses adapter is the exception: it drops the  *)
(* blank lines between events (openai_responses.go:201).                     *)
Cause ==
    \/ up.dangling
    \/ \E l \in Lanes : LET text == Restore(up.said[l], filter.rev)
                         IN  HasPseudonym(text) \/ (l > 0 /\ HasMarker(text))
    \/ up.cut /\ up.calls # <<>>
    \/ Len(up.calls) > MaxToolBlocks
WithheldForCause ==
    up.odd = 0 /\ streaming =>
        /\ got.end = "stream_transform_aborted" => Len(up.calls) > MaxToolBlocks
        /\ restorer # None /\ provider # "openai_responses" /\ restorer.aborted => Cause

(* What the proxy delivered can be sent back to it with the results of the   *)
(* tools: the next request of the conversation is accepted, unless calls of  *)
(* different tools carry one id, which only Gemini's adapter hands out, as   *)
(* it numbers the calls of every answer from zero (gemini.go:166, :351).     *)
CallsOf(b) ==
    LET messages == ItemsOf(b, "messages")
    IN  UNION {ToSet(ItemsOf(messages[i], "tool_calls")) : i \in DOMAIN messages}
SameIdTwice(b) ==
    \E c, d \in CallsOf(b) :
        /\ TextOf(c, "id") = TextOf(d, "id")
        /\ TextOf(MemberOf(c, "function"), "name") # TextOf(MemberOf(d, "function"), "name")
ConversationGoesOn ==
    phase = "rejected" => provider = "gemini" /\ SameIdTwice(body)

=============================================================================
