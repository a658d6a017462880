--------------------------- MODULE StreamRestorer ---------------------------
(***************************************************************************)
(* internal/pii/stream.go: StreamRestorer.  It is pushed one line of an    *)
(* OpenAI-shaped event stream at a time and answers with the lines for the *)
(* client, pseudonyms put back into the values they stand for.  Characters *)
(* with which a pseudonym may begin wait in the carry of their lane - the  *)
(* content of a choice, or the arguments of one of its tool calls - and    *)
(* whatever does not follow the protocol aborts the stream for good.       *)
(*                                                                         *)
(* The restorer is called by one goroutine; each method is an operator     *)
(* that returns the restorer after the call, the lines put out, whether    *)
(* the stream has ended, and whether it went well.                         *)
(***************************************************************************)
EXTENDS PiiText

CONSTANTS
    None,          \* an absent field
    PlainNames,    \* tool ids and names of the allowed characters, short, with no marker
    MaxChoices,    \* maxStreamChoices
    MaxTools,      \* maxToolCallsPerChoice
    MaxToolsTotal  \* maxToolCallsTotal

Fields == {"content", "refusal", "text"}
AllowedFinishReasons == {"stop", "length", "content_filter", "tool_calls"}

NewChoice == [carry |-> <<>>, tail |-> <<>>, format |-> None, role |-> FALSE, roleSent |-> FALSE,
              finished |-> FALSE, tools |-> <<>>, sawTool |-> FALSE]
NewTool(e) == [carry |-> <<>>, tail |-> <<>>, headerSent |-> FALSE, id |-> e.id, name |-> e.name]

NewStreamRestorer(f) ==
    [choices |-> <<>>, inEvent |-> FALSE, terminal |-> FALSE, aborted |-> FALSE, rev |-> f.rev]

Result(s, out, terminal, ok) == [s |-> s, out |-> out, terminal |-> terminal, ok |-> ok]
Abort(s) == Result([s EXCEPT !.aborted = TRUE], <<>>, FALSE, FALSE)

With(fun, k, v) == [x \in DOMAIN fun \cup {k} |-> IF x = k THEN v ELSE fun[x]]

-----------------------------------------------------------------------------
(* One lane (a choice or a tool call) receives a fragment: what can no       *)
(* longer belong to a pseudonym is restored and goes out, unless that and    *)
(* what went out before (the tail) would show a pseudonym - in the arguments *)
(* of a tool even the marker of one.                                         *)
Emit(lane, fragment, rev, inToolArgs) ==
    LET all == lane.carry \o fragment
        safe == Len(all) - Held(all, DOMAIN rev)
        text == Restore(SubSeq(all, 1, safe), rev)
        check == lane.tail \o text
        keep == IF Len(check) < PseudonymLen THEN Len(check) ELSE PseudonymLen - 1
    IN  IF safe = 0 THEN [ok |-> TRUE, lane |-> [lane EXCEPT !.carry = all], text |-> <<>>, any |-> FALSE]
        ELSE [ok |-> ~HasPseudonym(check) /\ ~(inToolArgs /\ HasMarker(check)),
              lane |-> [lane EXCEPT !.carry = SubSeq(all, safe + 1, Len(all)),
                                    !.tail = SubSeq(check, Len(check) - keep + 1, Len(check))],
              text |-> text, any |-> TRUE]

ContentChunk(i, cc, text) ==
    [kind |-> "text", choice |-> i, field |-> cc.format,
     role |-> cc.role /\ ~cc.roleSent /\ cc.format # "text", text |-> text]
ToolChunk(i, k, cc, tc, args) ==
    [kind |-> "tool", choice |-> i, tool |-> k, header |-> ~tc.headerSent,
     id |-> tc.id, name |-> tc.name, role |-> ~cc.roleSent, text |-> args]
FinishChunk(i, reason) == [kind |-> "finish", choice |-> i, reason |-> reason]

(* pushContent *)
PushContent(i, cc, fragment, rev) ==
    LET e == Emit(cc, fragment, rev, FALSE)
    IN  IF ~e.any THEN [ok |-> TRUE, cc |-> e.lane, out |-> <<>>]
        ELSE [ok |-> e.ok, cc |-> [e.lane EXCEPT !.roleSent = TRUE],
              out |-> <<ContentChunk(i, e.lane, e.text)>>]

(* What is asked of one element of delta.tool_calls: the first of a call     *)
(* names it, the later ones repeat its id and name or leave them out.        *)
ElementOk(cc, e) ==
    /\ e.index \in 0..(MaxTools - 1)
    /\ IF e.index \in DOMAIN cc.tools
       THEN /\ e.id \in {None, cc.tools[e.index].id}
            /\ e.name \in {None, cc.tools[e.index].name}
            /\ e.type \in {None, "function"}
       ELSE e.id \in PlainNames /\ e.name \in PlainNames /\ e.type = "function"
    /\ e.args # "null"

PushTool(i, acc, e, rev) ==
    LET cc == acc.cc
        tc == cc.tools[e.index]
        r == IF e.args = None THEN [ok |-> TRUE, lane |-> tc, text |-> <<>>, any |-> FALSE]
             ELSE Emit(tc, e.args, rev, TRUE)
        out == r.any \/ ~tc.headerSent
    IN  IF ~acc.ok THEN acc
        ELSE [ok |-> r.ok,
              out |-> IF out THEN Append(acc.out, ToolChunk(i, e.index, cc, tc, r.text)) ELSE acc.out,
              cc |-> [cc EXCEPT !.tools[e.index] = [r.lane EXCEPT !.headerSent = @ \/ out],
                                !.roleSent = @ \/ out, !.sawTool = @ \/ out]]

ToolsOf(choices) == UNION {{<<i, k>> : k \in DOMAIN choices[i].tools} : i \in DOMAIN choices}
HeldByTool(cc) == {k \in DOMAIN cc.tools : cc.tools[k].carry # <<>>}

(* handleToolCallsDelta: every element is checked and every new call        *)
(* recorded before anything is put out; a call that is not in the chunk may  *)
(* not be holding anything.                                                  *)
PushTools(i, cc, elements, rev, others) ==
    LET indices == {elements[n].index : n \in DOMAIN elements}
        new == indices \ DOMAIN cc.tools
        first(k) == CHOOSE n \in DOMAIN elements : elements[n].index = k
        named == [k \in DOMAIN cc.tools \cup new |->
                     IF k \in DOMAIN cc.tools THEN cc.tools[k] ELSE NewTool(elements[first(k)])]
        valid == /\ elements # <<>>
                 /\ Cardinality(indices) = Len(elements)
                 /\ \A n \in DOMAIN elements : ElementOk(cc, elements[n])
                 /\ Cardinality(DOMAIN cc.tools \cup new) <= MaxTools
                 /\ others + Cardinality(new) <= MaxToolsTotal
                 /\ HeldByTool(cc) \subseteq indices
        push(acc, e) == PushTool(i, acc, e, rev)
    IN  IF valid THEN FoldLeft(push, [ok |-> TRUE, out |-> <<>>, cc |-> [cc EXCEPT !.tools = named]], elements)
        ELSE [ok |-> FALSE, out |-> <<>>, cc |-> cc]

-----------------------------------------------------------------------------
(* handleChoices: one choice of a chunk.  The checks before anything is put  *)
(* out: the fields exclude each other, a choice keeps its format, nothing    *)
(* follows its finish reason, and a pseudonym lies within one lane.          *)
Acceptable(s, c, cc, seen) ==
    LET given == {k \in Fields : c[k] # None}
        tools == c.tools # None
    IN  /\ c.index \in Nat /\ c.index \notin seen
        /\ ~c.call
        /\ Cardinality(given) <= 1
        /\ ~(tools /\ given # {})
        /\ c.index \in DOMAIN s.choices \/ Cardinality(DOMAIN s.choices) < MaxChoices
        /\ tools \/ given # {} => ~cc.finished
        /\ tools => cc.format \in {None, "content"} /\ cc.carry = <<>>
        /\ given # {} => cc.format \in given \cup {None} /\ HeldByTool(cc) = {}

CanFinish(cc, reason) ==
    /\ reason \in AllowedFinishReasons
    /\ ~cc.finished
    /\ reason = "tool_calls" <=> cc.sawTool
    /\ cc.carry = <<>> /\ HeldByTool(cc) = {}

(* What the parts of a choice gave, r, and the reason with which it ends. *)
Handled(acc, c, r) ==
    LET ends == c.finish # None
        finish == IF ends THEN <<FinishChunk(c.index, c.finish)>> ELSE <<>>
    IN  IF r.ok /\ (ends => CanFinish(r.cc, c.finish))
        THEN [ok |-> TRUE, seen |-> acc.seen \cup {c.index}, out |-> acc.out \o r.out \o finish,
              s |-> [acc.s EXCEPT !.choices = With(@, c.index, [r.cc EXCEPT !.finished = @ \/ ends])]]
        ELSE [acc EXCEPT !.ok = FALSE]

HandleParts(s, c, cc) ==
    LET given == {k \in Fields : c[k] # None}
        field == CHOOSE k \in given : TRUE
        described == [cc EXCEPT !.role = @ \/ (c.role /\ ~cc.roleSent), !.format = IF given # {} THEN field ELSE @]
    IN  CASE given # {} -> PushContent(c.index, described, c[field], s.rev)
          [] c.tools # None -> PushTools(c.index, described, c.tools, s.rev, Cardinality(ToolsOf(s.choices)))
          [] OTHER -> [ok |-> TRUE, cc |-> described, out |-> <<>>]

HandleChoice(acc, c) ==
    LET known == IF c.index \in DOMAIN acc.s.choices THEN acc.s.choices[c.index] ELSE NewChoice
    IN  IF acc.ok /\ Acceptable(acc.s, c, known, acc.seen)
        THEN Handled(acc, c, HandleParts(acc.s, c, known))
        ELSE [acc EXCEPT !.ok = FALSE]

HandleChoices(s, choices) ==
    LET end(r) == IF r.ok THEN Result(r.s, r.out, FALSE, TRUE) ELSE Abort(s)
    IN  end(FoldLeft(HandleChoice, [ok |-> TRUE, seen |-> {}, s |-> s, out |-> <<>>], choices))

(* handleDone: [DONE] ends the stream, unless a lane still holds characters  *)
(* or a choice with tool calls has not finished.                             *)
HandleDone(s) ==
    IF \E i \in DOMAIN s.choices :
           LET cc == s.choices[i]
           IN  cc.carry # <<>> \/ HeldByTool(cc) # {} \/ (cc.sawTool /\ ~cc.finished)
    THEN Abort(s)
    ELSE Result([s EXCEPT !.terminal = TRUE], <<[kind |-> "done"]>>, TRUE, TRUE)

EndEvent(s) == [s EXCEPT !.inEvent = FALSE]

(* Push: blank lines end an event, other lines that carry no data are        *)
(* skipped, and two lines of data in one event are a violation.              *)
Push(s, line) ==
    LET alone(r) == IF s.inEvent THEN Abort(s) ELSE r
        inside == [s EXCEPT !.inEvent = TRUE]
    IN  IF s.aborted \/ s.terminal THEN Result(s, <<>>, FALSE, FALSE)
        ELSE CASE line.kind = "blank" -> Result(EndEvent(s), <<>>, FALSE, TRUE)
               [] line.kind = "event" -> Result(s, <<>>, FALSE, TRUE)
               [] line.kind = "done" -> HandleDone(s)
               [] line.kind \in {"malformed", "error"} -> Abort(s)
               [] line.kind = "other" -> alone(Result(inside, <<>>, FALSE, TRUE))
               [] line.kind = "usage" -> alone(Result(inside, <<[kind |-> "usage"]>>, FALSE, TRUE))
               [] line.kind = "choices" -> alone(HandleChoices(inside, line.choices))

=============================================================================
