------------------------- MODULE StreamRelay_proofs -------------------------
(***************************************************************************)
(* For any provider, requests, anonymiser and lines of no protocol: a      *)
(* stream of restored values ends in one way, and the client, the breaker  *)
(* and the usage event agree on it (HonestEnd).                            *)
(***************************************************************************)
EXTENDS StreamRelay, SequenceTheorems, TLAPS

-----------------------------------------------------------------------------
(* Sequences of lines, by the set of the lines in them.                     *)
LinesOf(s) == {s[i] : i \in DOMAIN s}
IsLines(s) == s \in Seq(LinesOf(s))

LEMMA LinesFrom ==
    ASSUME NEW S, NEW s \in Seq(S)
    PROVE  IsLines(s) /\ LinesOf(s) \subseteq S /\ IsSequence(s)
<1>1. s \in [1..Len(s) -> S] /\ Len(s) \in Nat
  OBVIOUS
<1>2. s \in [1..Len(s) -> LinesOf(s)]
  BY <1>1 DEF LinesOf
<1> QED BY <1>1, <1>2, IsASeq DEF IsLines, LinesOf, IsSequence

LEMMA LinesJoined ==
    ASSUME NEW s, NEW t, IsLines(s), IsLines(t)
    PROVE  IsLines(s \o t) /\ LinesOf(s \o t) = LinesOf(s) \cup LinesOf(t)
<1> DEFINE S == LinesOf(s)
           T == LinesOf(t)
<1>1. s \in Seq(S \cup T) /\ t \in Seq(S \cup T)
  BY SeqMonotonic DEF IsLines
<1>2. IsLines(s \o t) /\ LinesOf(s \o t) \subseteq S \cup T
  BY <1>1, ConcatProperties, LinesFrom
<1>3. \A x \in S : x \in LinesOf(s \o t)
  <2> TAKE x \in S
  <2>1. PICK i \in DOMAIN s : x = s[i]
    BY DEF LinesOf
  <2>2. i \in DOMAIN (s \o t) /\ (s \o t)[i] = x
    BY <1>1, <2>1, ConcatProperties
  <2> QED BY <2>2 DEF LinesOf
<1>4. \A x \in T : x \in LinesOf(s \o t)
  <2> TAKE x \in T
  <2>1. PICK i \in DOMAIN t : x = t[i]
    BY DEF LinesOf
  <2>2. Len(s) + i \in DOMAIN (s \o t) /\ (s \o t)[Len(s) + i] = x
    BY <1>1, <2>1, ConcatProperties
  <2> QED BY <2>2 DEF LinesOf
<1> QED BY <1>2, <1>3, <1>4

LEMMA LinesListed ==
    /\ IsLines(<<>>) /\ LinesOf(<<>>) = {}
    /\ \A x : IsLines(<<x>>) /\ LinesOf(<<x>>) = {x}
    /\ \A x, y : IsLines(<<x, y>>) /\ LinesOf(<<x, y>>) = {x, y}
    /\ \A x, y, z : IsLines(<<x, y, z>>) /\ LinesOf(<<x, y, z>>) = {x, y, z}
<1>1. IsLines(<<>>) /\ LinesOf(<<>>) = {}
  BY DEF IsLines, LinesOf
<1>2. ASSUME NEW x PROVE IsLines(<<x>>) /\ LinesOf(<<x>>) = {x}
  <2>1. LinesOf(<<x>>) = {x}
    BY DEF LinesOf
  <2> QED BY <2>1 DEF IsLines
<1>3. ASSUME NEW x, NEW y PROVE IsLines(<<x, y>>) /\ LinesOf(<<x, y>>) = {x, y}
  <2>1. LinesOf(<<x, y>>) = {x, y}
    BY DEF LinesOf
  <2> QED BY <2>1 DEF IsLines
<1>4. ASSUME NEW x, NEW y, NEW z PROVE IsLines(<<x, y, z>>) /\ LinesOf(<<x, y, z>>) = {x, y, z}
  <2>1. LinesOf(<<x, y, z>>) = {x, y, z}
    BY DEF LinesOf
  <2> QED BY <2>1 DEF IsLines
<1> QED BY <1>1, <1>2, <1>3, <1>4

LEMMA LinesAppended ==
    ASSUME NEW s, IsLines(s), NEW x
    PROVE  IsLines(Append(s, x)) /\ LinesOf(Append(s, x)) = LinesOf(s) \cup {x}
<1>1. s \in Seq(LinesOf(s) \cup {x})
  BY SeqMonotonic DEF IsLines
<1>2. Append(s, x) = s \o <<x>>
  BY <1>1, AppendIsConcat
<1> QED BY <1>2, LinesJoined, LinesListed

-----------------------------------------------------------------------------
(* The end the client sees: [DONE] among the lines it is sent, or else what *)
(* it had seen before.                                                      *)
ReceiveLine(end, lines, g, line) == Received(g, line)
EndSeen(end, lines, i, g) ==
    /\ "end" \in DOMAIN g
    /\ g.end = IF \E j \in 1..i : lines[j].kind = "done" THEN "done" ELSE end

Receiving == INSTANCE FoldFacts WITH Op <- ReceiveLine, Inv <- EndSeen

LEMMA ReceivedEnd ==
    ASSUME NEW g, "end" \in DOMAIN g, NEW lines, IsLines(lines)
    PROVE  LET h == FoldLeft(Received, g, lines)
           IN  /\ "end" \in DOMAIN h
               /\ h.end = IF \E x \in LinesOf(lines) : x.kind = "done" THEN "done" ELSE g.end
<1>1. DOMAIN lines = 1..Len(lines) /\ Len(lines) \in Nat
  BY DEF IsLines
<1>2. EndSeen(g.end, lines, 0, g)
  BY DEF EndSeen
<1>3. ASSUME NEW i \in 1..Len(lines), NEW h, EndSeen(g.end, lines, i - 1, h)
      PROVE  EndSeen(g.end, lines, i, ReceiveLine(g.end, lines, h, lines[i]))
  <2> DEFINE line == lines[i]
             r == Received(h, line)
  <2>1. \A j \in 1..i : j = i \/ j \in 1..(i - 1)
    OBVIOUS
  <2>2. "end" \in DOMAIN r /\ r.end = IF line.kind = "done" THEN "done" ELSE h.end
    <3>1. CASE line.kind = "text"
      BY <1>3, <3>1 DEF Received, EndSeen
    <3>2. CASE line.kind = "tool"
      BY <1>3, <3>2 DEF Received, EndSeen
    <3>3. CASE line.kind = "done"
      BY <1>3, <3>3 DEF Received, EndSeen
    <3>4. CASE line.kind \notin {"text", "tool", "done"}
      BY <1>3, <3>4 DEF Received, EndSeen
    <3> QED BY <3>1, <3>2, <3>3, <3>4
  <2> HIDE DEF r
  <2>3. EndSeen(g.end, lines, i, r)
    BY <1>3, <2>1, <2>2 DEF EndSeen
  <2> QED BY <2>3 DEF r, ReceiveLine
<1>4. EndSeen(g.end, lines, Len(lines), Receiving!Fold(g.end, lines, g, lines))
  BY <1>1, <1>2, <1>3, Receiving!FoldKeeps
<1>5. FoldLeft(Received, g, lines) = Receiving!Fold(g.end, lines, g, lines)
  BY DEF FoldLeft, MapThenFoldSet, Max, ReceiveLine,
         Receiving!Fold, Receiving!Iter, Receiving!IsIter, Receiving!Max
<1> QED BY <1>1, <1>4, <1>5 DEF EndSeen, LinesOf


-----------------------------------------------------------------------------
(* What the restorer puts out of a chunk never ends the stream: [DONE] is   *)
(* the answer to [DONE] alone.                                              *)
Quiet(out) == IsLines(out) /\ \A x \in LinesOf(out) : x.kind \in {"text", "tool", "finish", "usage"}

LEMMA QuietJoined ==
    ASSUME NEW a, NEW b, Quiet(a), Quiet(b)
    PROVE  Quiet(a \o b)
  BY LinesJoined DEF Quiet

PushElement(i, rev, acc, e) == PushTool(i, acc, e, rev)
QuietTools(i, rev, n, acc) == Quiet(acc.out)

PushingTools == INSTANCE FoldFacts WITH Op <- PushElement, Inv <- QuietTools

LEMMA PushToolsQuiet ==
    ASSUME NEW i, NEW cc, NEW elements, IsSequence(elements), NEW rev, NEW others
    PROVE  Quiet(PushTools(i, cc, elements, rev, others).out)
<1>1. ASSUME NEW acc, Quiet(acc.out), NEW e PROVE Quiet(PushTool(i, acc, e, rev).out)
  <2> DEFINE r == IF e.args = None THEN [ok |-> TRUE, lane |-> acc.cc.tools[e.index], text |-> <<>>, any |-> FALSE]
                  ELSE Emit(acc.cc.tools[e.index], e.args, rev, TRUE)
             chunk == ToolChunk(i, e.index, acc.cc, acc.cc.tools[e.index], r.text)
  <2>1. chunk.kind = "tool"
    BY DEF ToolChunk
  <2> HIDE DEF chunk, r
  <2>2. Quiet(Append(acc.out, chunk))
    BY <1>1, <2>1, LinesAppended DEF Quiet
  <2>3. PushTool(i, acc, e, rev).out \in {acc.out, Append(acc.out, chunk)}
    BY DEF PushTool, chunk, r
  <2> QED BY <1>1, <2>2, <2>3
<1>2. Quiet(<<>>)
  BY LinesListed DEF Quiet
<1>3. ASSUME NEW base, base.out = <<>> PROVE Quiet(PushingTools!Fold(i, rev, base, elements).out)
  <2>1. QuietTools(i, rev, 0, base)
    BY <1>2, <1>3 DEF QuietTools
  <2>2. \A n \in 1..Len(elements) : \A acc :
           QuietTools(i, rev, n - 1, acc) => QuietTools(i, rev, n, PushElement(i, rev, acc, elements[n]))
    BY <1>1 DEF QuietTools, PushElement
  <2>3. QuietTools(i, rev, Len(elements), PushingTools!Fold(i, rev, base, elements))
    BY <2>1, <2>2, PushingTools!FoldKeeps DEF IsSequence
  <2> QED BY <2>3 DEF QuietTools
<1>4. \/ PushTools(i, cc, elements, rev, others).out = <<>>
      \/ \E base : /\ base.out = <<>>
                   /\ PushTools(i, cc, elements, rev, others) = PushingTools!Fold(i, rev, base, elements)
  BY DEF PushTools, FoldLeft, MapThenFoldSet, Max, PushElement,
         PushingTools!Fold, PushingTools!Iter, PushingTools!IsIter, PushingTools!Max
<1> QED BY <1>2, <1>3, <1>4

LEMMA HandlePartsQuiet ==
    ASSUME NEW s, NEW c, NEW cc, c.tools # None => IsSequence(c.tools)
    PROVE  Quiet(HandleParts(s, c, cc).out)
<1>1. Quiet(<<>>)
  BY LinesListed DEF Quiet
<1>2. ASSUME NEW i, NEW dd, NEW fragment, NEW rev PROVE Quiet(PushContent(i, dd, fragment, rev).out)
  <2>1. ASSUME NEW lane, NEW text PROVE Quiet(<<ContentChunk(i, lane, text)>>)
    <3>1. ContentChunk(i, lane, text).kind = "text"
      BY DEF ContentChunk
    <3> QED BY <3>1, LinesListed DEF Quiet
  <2> QED BY <1>1, <2>1 DEF PushContent
<1>3. ASSUME c.tools # None, NEW i, NEW dd, NEW rev, NEW others
      PROVE  Quiet(PushTools(i, dd, c.tools, rev, others).out)
  BY <1>3, PushToolsQuiet
<1> QED BY <1>1, <1>2, <1>3 DEF HandleParts

HandleEach(x, y, acc, c) == HandleChoice(acc, c)
QuietChoices(x, y, n, acc) == "out" \in DOMAIN acc /\ Quiet(acc.out)

HandlingChoices == INSTANCE FoldFacts WITH Op <- HandleEach, Inv <- QuietChoices

LEMMA HandleChoicesQuiet ==
    ASSUME NEW s, NEW choices, IsSequence(choices),
           \A i \in DOMAIN choices : choices[i].tools # None => IsSequence(choices[i].tools)
    PROVE  LET r == HandleChoices(s, choices)
           IN  r.ok \in BOOLEAN /\ r.terminal = FALSE /\ Quiet(r.out)
<1> DEFINE base == [ok |-> TRUE, seen |-> {}, s |-> s, out |-> <<>>]
           end == FoldLeft(HandleChoice, base, choices)
<1>1. Quiet(<<>>)
  BY LinesListed DEF Quiet
<1>2. ASSUME NEW n \in 1..Len(choices), NEW acc, QuietChoices(0, 0, n - 1, acc)
      PROVE  QuietChoices(0, 0, n, HandleChoice(acc, choices[n]))
  <2> DEFINE c == choices[n]
  <2>1. n \in DOMAIN choices
    BY DEF IsSequence
  <2>2. ASSUME NEW known PROVE Quiet(HandleParts(acc.s, c, known).out)
    BY <2>1, HandlePartsQuiet
  <2>3. FinishChunk(c.index, c.finish).kind = "finish"
    BY DEF FinishChunk
  <2>4. Quiet(<<FinishChunk(c.index, c.finish)>>)
    BY <2>3, LinesListed DEF Quiet
  <2>5. ASSUME NEW r, Quiet(r.out)
        PROVE  "out" \in DOMAIN Handled(acc, c, r) /\ Quiet(Handled(acc, c, r).out)
    <3> DEFINE finish == IF c.finish # None THEN <<FinishChunk(c.index, c.finish)>> ELSE <<>>
    <3>1. Quiet(acc.out \o r.out)
      BY <1>2, <2>5, QuietJoined DEF QuietChoices
    <3>2. Quiet(finish)
      BY <1>1, <2>4
    <3>3. Quiet((acc.out \o r.out) \o finish)
      BY <3>1, <3>2, QuietJoined
    <3> QED BY <1>2, <3>3 DEF Handled, QuietChoices
  <2> QED BY <1>2, <2>2, <2>5 DEF HandleChoice, QuietChoices
<1>3. QuietChoices(0, 0, 0, base)
  BY <1>1 DEF QuietChoices
<1>4. \A n \in 1..Len(choices) : \A acc :
         QuietChoices(0, 0, n - 1, acc) => QuietChoices(0, 0, n, HandleEach(0, 0, acc, choices[n]))
  BY <1>2 DEF HandleEach
<1>5. QuietChoices(0, 0, Len(choices), HandlingChoices!Fold(0, 0, base, choices))
  BY <1>3, <1>4, HandlingChoices!FoldKeeps DEF IsSequence
<1>6. end = HandlingChoices!Fold(0, 0, base, choices)
  BY DEF FoldLeft, MapThenFoldSet, Max, HandleEach,
         HandlingChoices!Fold, HandlingChoices!Iter, HandlingChoices!IsIter, HandlingChoices!Max
<1>7. Quiet(end.out)
  BY <1>5, <1>6 DEF QuietChoices
<1> HIDE DEF end
<1>8. HandleChoices(s, choices) = IF end.ok THEN Result(end.s, end.out, FALSE, TRUE) ELSE Abort(s)
  BY DEF HandleChoices, end
<1> QED BY <1>1, <1>7, <1>8 DEF Result, Abort

LEMMA PushEnds ==
    ASSUME NEW s, NEW line, Pushable(line)
    PROVE  LET r == Push(s, line)
           IN  /\ r.ok \in BOOLEAN /\ r.terminal \in BOOLEAN
               /\ r.terminal => r.ok /\ line.kind = "done" /\ r.out = <<[kind |-> "done"]>>
               /\ ~r.terminal => Quiet(r.out)
<1> DEFINE inside == [s EXCEPT !.inEvent = TRUE]
<1>1. Quiet(<<>>) /\ Quiet(<<[kind |-> "usage"]>>)
  BY LinesListed DEF Quiet
<1>2. CASE s.aborted \/ s.terminal
  BY <1>1, <1>2 DEF Push, Result
<1>3. CASE ~(s.aborted \/ s.terminal) /\ line.kind = "choices"
  <2>1. PICK h : h = HandleChoices(inside, line.choices)
    OBVIOUS
  <2>2. h.ok \in BOOLEAN /\ h.terminal = FALSE /\ Quiet(h.out)
    BY <1>3, <2>1, HandleChoicesQuiet DEF Pushable
  <2>3. CASE s.inEvent
    <3>1. Push(s, line) = Abort(s)
      BY <1>3, <2>3 DEF Push
    <3> QED BY <1>1, <3>1 DEF Abort, Result
  <2>4. CASE ~s.inEvent
    <3>1. Push(s, line) = h
      BY <1>3, <2>1, <2>4 DEF Push
    <3> QED BY <2>2, <3>1
  <2> QED BY <2>3, <2>4
<1>4. CASE ~(s.aborted \/ s.terminal) /\ line.kind = "done"
  <2>1. Push(s, line) = HandleDone(s)
    BY <1>4 DEF Push
  <2>2. CASE Push(s, line) = Abort(s)
    BY <1>1, <2>2 DEF Abort, Result
  <2>3. CASE Push(s, line) = Result([s EXCEPT !.terminal = TRUE], <<[kind |-> "done"]>>, TRUE, TRUE)
    BY <1>4, <2>3 DEF Result
  <2> QED BY <2>1, <2>2, <2>3 DEF HandleDone
<1>5. CASE ~(s.aborted \/ s.terminal) /\ line.kind \in {"blank", "event", "malformed", "error", "other", "usage"}
  BY <1>1, <1>5 DEF Push, Abort, Result
<1> QED BY <1>2, <1>3, <1>4, <1>5 DEF Pushable

PushEach(p, lines, acc, i) ==
    LET s == IF i > 1 /\ lines[i].kind # "blank" /\ Adapted(p) THEN EndEvent(acc.s) ELSE acc.s
        r == Push(s, lines[i])
    IN  IF ~acc.ok \/ acc.terminal THEN acc
        ELSE [s |-> r.s, out |-> acc.out \o r.out, ok |-> r.ok, terminal |-> r.terminal]

(* Of all the lines an adapter made of one.                                 *)
Ended(lines, n, acc) ==
    /\ acc.ok \in BOOLEAN /\ acc.terminal \in BOOLEAN
    /\ IsLines(acc.out)
    /\ acc.terminal => /\ acc.ok
                       /\ \E x \in LinesOf(acc.out) : x.kind = "done"
                       /\ \E j \in 1..n : lines[j].kind = "done"
    /\ ~acc.terminal => Quiet(acc.out)
PushEnded(p, lines, n, acc) == Ended(lines, n, acc)

PushingLines == INSTANCE FoldFacts WITH Op <- PushEach, Inv <- PushEnded

LEMMA PushAllEnds ==
    ASSUME NEW lines, IsLines(lines), \A x \in LinesOf(lines) : Pushable(x)
    PROVE  Ended(lines, Len(lines), PushAll(lines))
<1> DEFINE base == [s |-> restorer, out |-> <<>>, ok |-> TRUE, terminal |-> FALSE]
           seq == [i \in DOMAIN lines |-> i]
<1>1. DOMAIN lines = 1..Len(lines) /\ Len(lines) \in Nat
  BY DEF IsLines
<1>2. PushEnded(provider, lines, 0, base)
  BY LinesListed DEF PushEnded, Ended, Quiet
<1>3. ASSUME NEW n \in 1..Len(lines), NEW acc, PushEnded(provider, lines, n - 1, acc)
      PROVE  PushEnded(provider, lines, n, PushEach(provider, lines, acc, n))
  <2>1. \A j \in 1..(n - 1) : j \in 1..n
    OBVIOUS
  <2>2. CASE ~acc.ok \/ acc.terminal
    <3>1. PushEach(provider, lines, acc, n) = acc
      BY <2>2 DEF PushEach
    <3> QED BY <1>3, <2>1, <3>1 DEF PushEnded, Ended
  <2>3. CASE ~(~acc.ok \/ acc.terminal)
    <3>1. PICK s : PushEach(provider, lines, acc, n) =
                      [s |-> Push(s, lines[n]).s, out |-> acc.out \o Push(s, lines[n]).out,
                       ok |-> Push(s, lines[n]).ok, terminal |-> Push(s, lines[n]).terminal]
      BY <2>3 DEF PushEach
    <3>2. Pushable(lines[n])
      BY <1>1 DEF LinesOf
    <3>3. PICK r : r = Push(s, lines[n])
      OBVIOUS
    <3>4. /\ r.ok \in BOOLEAN /\ r.terminal \in BOOLEAN
          /\ r.terminal => r.ok /\ lines[n].kind = "done" /\ r.out = <<[kind |-> "done"]>>
          /\ ~r.terminal => Quiet(r.out)
      BY <3>2, <3>3, PushEnds
    <3>5. IsLines(acc.out) /\ Quiet(acc.out)
      BY <1>3, <2>3 DEF PushEnded, Ended
    <3>6. CASE r.terminal
      <4>1. r.out = <<[kind |-> "done"]>> /\ IsLines(r.out) /\ LinesOf(r.out) = {[kind |-> "done"]}
        BY <3>4, <3>6, LinesListed
      <4>2. IsLines(acc.out \o r.out) /\ [kind |-> "done"] \in LinesOf(acc.out \o r.out)
        BY <3>5, <4>1, LinesJoined
      <4>3. \E x \in LinesOf(acc.out \o r.out) : x.kind = "done"
        BY <4>2
      <4>4. \E j \in 1..n : lines[j].kind = "done"
        BY <3>4, <3>6
      <4> QED BY <3>1, <3>3, <3>4, <3>6, <4>2, <4>3, <4>4 DEF PushEnded, Ended
    <3>7. CASE ~r.terminal
      <4>1. Quiet(acc.out \o r.out)
        BY <3>4, <3>5, <3>7, QuietJoined
      <4> QED BY <3>1, <3>3, <3>4, <3>7, <4>1 DEF PushEnded, Ended, Quiet
    <3> QED BY <3>4, <3>6, <3>7
  <2> QED BY <2>2, <2>3
<1>4. DOMAIN seq = 1..Len(lines) /\ \A n \in 1..Len(lines) : seq[n] = n
  BY <1>1
<1> HIDE DEF seq
<1>5. PushEnded(provider, lines, Len(lines), PushingLines!Fold(provider, lines, base, seq))
  BY <1>1, <1>2, <1>3, <1>4, PushingLines!FoldKeeps
<1>6. PushAll(lines) = PushingLines!Fold(provider, lines, base, seq)
  BY DEF PushAll, Separated, seq, FoldLeft, MapThenFoldSet, Max, PushEach,
         PushingLines!Fold, PushingLines!Iter, PushingLines!IsIter, PushingLines!Max
<1> QED BY <1>5, <1>6 DEF PushEnded

-----------------------------------------------------------------------------
(* What the adapters make of a line of the provider.  For the other         *)
(* providers a line is passed on as it is, so it has to be one that Push    *)
(* knows.                                                                   *)
OfProvider(p, line) ==
    \/ Pushable(line)
    \/ /\ line.kind = "data" /\ p \in {"anthropic", "gemini", "openai_responses"}
       /\ p = "gemini" => IsSequence(line.parts)

(* The lines of which an adapter makes [DONE], at once or with the next.    *)
Finishes(p, line) ==
    \/ line.kind = "done"
    \/ line.kind = "data" /\ IF p = "gemini" THEN line.finish # None
                             ELSE line.type \in {"message_stop", "response.completed"}

IsAdapter(a) == DOMAIN a = {"calls", "blocks", "done"} /\ a.done \in BOOLEAN

Adaptation(p, a, line, t) ==
    /\ t.ok \in BOOLEAN
    /\ IsAdapter(t.a)
    /\ IsLines(t.out) /\ \A x \in LinesOf(t.out) : Pushable(x)
    /\ t.a.done => a.done \/ Finishes(p, line)
    /\ (\E x \in LinesOf(t.out) : x.kind = "done") => a.done \/ Finishes(p, line)

LEMMA ChunksPushable ==
    ASSUME NEW delta, delta.tools # None => IsSequence(delta.tools)
    PROVE  Pushable(Chunk(delta)) /\ Chunk(delta).kind # "done"
<1>1. Chunk(delta).kind = "choices" /\ Chunk(delta).choices = <<delta>>
  BY DEF Chunk
<1> QED BY <1>1 DEF Pushable, IsSequence

LEMMA LinesPushable ==
    /\ Pushable(Done) /\ Pushable(Blank) /\ Blank.kind # "done"
    /\ Pushable(RoleChunk) /\ RoleChunk.kind # "done"
    /\ \A s : Pushable(TextDelta(s)) /\ TextDelta(s).kind # "done"
    /\ \A reason : Pushable(FinishDelta(reason)) /\ FinishDelta(reason).kind # "done"
    /\ \A e : Pushable(ToolDelta(<<e>>)) /\ ToolDelta(<<e>>).kind # "done"
<1>1. Pushable(Done) /\ Pushable(Blank) /\ Blank.kind # "done"
  BY DEF Pushable, Done, Blank
<1>2. \A e : IsSequence(<<e>>)
  BY DEF IsSequence
<1> QED BY <1>1, <1>2, ChunksPushable DEF RoleChunk, TextDelta, FinishDelta, ToolDelta, NoDelta

LEMMA AnthropicLines ==
    ASSUME NEW a, IsAdapter(a), NEW line, OfProvider("anthropic", line)
    PROVE  Adaptation("anthropic", a, line, AnthropicStreamLine(a, line))
<1> DEFINE t == AnthropicStreamLine(a, line)
<1>1. Adaptation("anthropic", a, line, Drop(a))
  BY LinesListed DEF Adaptation, Drop, Lines, IsAdapter
<1>2. Adaptation("anthropic", a, line, StreamTransformAborted(a))
  BY LinesListed DEF Adaptation, StreamTransformAborted, IsAdapter
<1>3. ASSUME NEW x, Pushable(x), x.kind # "done", NEW b, IsAdapter(b), b.done = a.done
      PROVE  Adaptation("anthropic", a, line, Lines(b, <<x>>))
  BY <1>3, LinesListed DEF Adaptation, Lines, IsAdapter
<1>4. CASE line.kind = "data"
  <2>1. ASSUME NEW b, b = [a EXCEPT !.calls = @ + 1, !.blocks = With(@, line.index, a.calls)]
        PROVE  IsAdapter(b) /\ b.done = a.done
    BY <2>1 DEF IsAdapter
  <2>2. Adaptation("anthropic", a, line, AnthropicBlockStart(a, line))
    BY <1>1, <1>2, <1>3, <2>1, LinesPushable DEF AnthropicBlockStart
  <2>3. Adaptation("anthropic", a, line, AnthropicBlockDelta(a, line))
    BY <1>1, <1>2, <1>3, LinesPushable DEF AnthropicBlockDelta
  <2>4. CASE line.type = "message_stop"
    <3>1. t = Lines(a, <<Done>>)
      BY <1>4, <2>4 DEF AnthropicStreamLine, AnthropicData
    <3>2. Finishes("anthropic", line)
      BY <1>4, <2>4 DEF Finishes
    <3> QED BY <3>1, <3>2, LinesListed, LinesPushable DEF Adaptation, Lines, IsAdapter
  <2>5. CASE line.type # "message_stop"
    BY <1>1, <1>3, <1>4, <2>2, <2>3, <2>5, LinesPushable DEF AnthropicStreamLine, AnthropicData
  <2> QED BY <2>4, <2>5
<1>5. CASE line.kind # "data"
  <2>1. Pushable(line)
    BY <1>5 DEF OfProvider
  <2>2. t \in {Drop(a), Lines(a, <<line>>)}
    BY <1>5 DEF AnthropicStreamLine
  <2>3. Adaptation("anthropic", a, line, Lines(a, <<line>>))
    BY <2>1, LinesListed DEF Adaptation, Lines, IsAdapter, Finishes
  <2> QED BY <1>1, <2>2, <2>3
<1> QED BY <1>4, <1>5

AddEach(x, y, calls, p) == AddCall(calls, p)
CallsListed(x, y, n, calls) == IsLines(calls)

AddingCalls == INSTANCE FoldFacts WITH Op <- AddEach, Inv <- CallsListed

LEMMA CallPartsListed ==
    ASSUME NEW parts, IsSequence(parts)
    PROVE  IsLines(CallParts(parts))
<1>1. CallsListed(0, 0, 0, <<>>)
  BY LinesListed DEF CallsListed
<1>2. \A n \in 1..Len(parts) : \A calls :
         CallsListed(0, 0, n - 1, calls) => CallsListed(0, 0, n, AddEach(0, 0, calls, parts[n]))
  BY LinesAppended DEF CallsListed, AddEach, AddCall
<1>3. CallsListed(0, 0, Len(parts), AddingCalls!Fold(0, 0, <<>>, parts))
  BY <1>1, <1>2, AddingCalls!FoldKeeps DEF IsSequence
<1>4. CallParts(parts) = AddingCalls!Fold(0, 0, <<>>, parts)
  BY DEF CallParts, FoldLeft, MapThenFoldSet, Max, AddEach,
         AddingCalls!Fold, AddingCalls!Iter, AddingCalls!IsIter, AddingCalls!Max
<1> QED BY <1>3, <1>4 DEF CallsListed

LEMMA GeminiLines ==
    ASSUME NEW a, IsAdapter(a), NEW line, OfProvider("gemini", line)
    PROVE  Adaptation("gemini", a, line, GeminiStreamLine(a, line))
<1> DEFINE t == GeminiStreamLine(a, line)
<1>1. CASE line.kind = "data"
  <2> DEFINE calls == CallParts(line.parts)
             text == JoinText(line.parts)
             finish == IF line.finish = None THEN None
                       ELSE IF calls # <<>> \/ a.calls > 0 THEN "tool_calls"
                       ELSE GeminiFinishReason(line.finish)
             elements == [i \in DOMAIN calls |->
                             NewCall(a.calls + i - 1, CallIds[a.calls + i], calls[i].call, calls[i].text)]
             textDelta == Chunk([NoDelta EXCEPT !.content = text,
                                                !.finish = IF calls = <<>> THEN finish ELSE None])
             toolDelta == Chunk([NoDelta EXCEPT !.tools = elements, !.finish = finish])
             next == [a EXCEPT !.calls = @ + Len(calls), !.done = @ \/ finish # None]
  <2>1. IsLines(calls)
    BY <1>1, CallPartsListed DEF OfProvider, Pushable
  <2>2. IsSequence(elements)
    <3> HIDE DEF calls
    <3> QED BY <2>1 DEF IsLines, IsSequence
  <2>3. Pushable(textDelta) /\ textDelta.kind # "done"
    BY ChunksPushable DEF NoDelta
  <2>4. Pushable(toolDelta) /\ toolDelta.kind # "done"
    BY <2>2, ChunksPushable DEF NoDelta
  <2>5. finish # None => Finishes("gemini", line)
    BY <1>1 DEF Finishes
  <2>6. t \in {StreamTransformAborted(a), Lines(next, <<textDelta, toolDelta>>), Lines(next, <<textDelta>>),
               Lines(next, <<toolDelta>>), Lines(next, <<FinishDelta(finish)>>), Lines(next, <<>>)}
    <3>1. t = GeminiData(a, line)
      BY <1>1 DEF GeminiStreamLine
    <3> QED BY <3>1 DEF GeminiData
  <2> HIDE DEF calls, text, finish, elements, textDelta, toolDelta
  <2>7. IsAdapter(next) /\ (next.done => a.done \/ Finishes("gemini", line))
    BY <2>5 DEF IsAdapter
  <2> HIDE DEF next, t
  <2>8. Adaptation("gemini", a, line, StreamTransformAborted(a))
    BY LinesListed DEF Adaptation, StreamTransformAborted, IsAdapter
  <2>9. ASSUME NEW out, IsLines(out), \A x \in LinesOf(out) : Pushable(x) /\ x.kind # "done"
        PROVE  Adaptation("gemini", a, line, Lines(next, out))
    BY <2>7, <2>9 DEF Adaptation, Lines
  <2>10. Adaptation("gemini", a, line, t)
    BY <2>3, <2>4, <2>6, <2>8, <2>9, LinesListed, LinesPushable
  <2> QED BY <2>10 DEF t
<1>2. CASE line.kind = "blank"
  <2>1. Adaptation("gemini", a, line, Lines(a, <<line>>))
    BY <1>2, LinesListed DEF Adaptation, Lines, IsAdapter, OfProvider
  <2>2. ASSUME a.done, NEW b, b = [a EXCEPT !.done = FALSE]
        PROVE  Adaptation("gemini", a, line, Lines(b, <<Done>>))
    <3>1. IsAdapter(b) /\ ~b.done
      BY <2>2 DEF IsAdapter
    <3> QED BY <2>2, <3>1, LinesListed, LinesPushable DEF Adaptation, Lines
  <2> QED BY <1>2, <2>1, <2>2 DEF GeminiStreamLine
<1>3. CASE line.kind = "done"
  <2>1. Adaptation("gemini", a, line, Lines(a, <<line>>))
    BY <1>3, LinesListed DEF Adaptation, Lines, IsAdapter, OfProvider, Finishes
  <2> QED BY <1>3, <2>1 DEF GeminiStreamLine
<1>4. CASE line.kind \notin {"blank", "done", "data"}
  <2>1. Adaptation("gemini", a, line, Drop(a))
    BY LinesListed DEF Adaptation, Drop, Lines, IsAdapter
  <2> QED BY <1>4, <2>1 DEF GeminiStreamLine
<1> QED BY <1>1, <1>2, <1>3, <1>4

LEMMA ResponsesLines ==
    ASSUME NEW a, IsAdapter(a), NEW line, OfProvider("openai_responses", line)
    PROVE  Adaptation("openai_responses", a, line, ResponsesStreamLine(a, line))
<1> DEFINE t == ResponsesStreamLine(a, line)
<1>1. Adaptation("openai_responses", a, line, Drop(a))
  BY LinesListed DEF Adaptation, Drop, Lines, IsAdapter
<1>2. Adaptation("openai_responses", a, line, StreamTransformAborted(a))
  BY LinesListed DEF Adaptation, StreamTransformAborted, IsAdapter
<1>3. ASSUME NEW x, Pushable(x), x.kind # "done"
      PROVE  Adaptation("openai_responses", a, line, Lines(a, <<x>>))
  BY <1>3, LinesListed DEF Adaptation, Lines, IsAdapter
<1>4. Finishes("openai_responses", line) => Adaptation("openai_responses", a, line, Lines(a, <<Done>>))
  BY LinesListed, LinesPushable DEF Adaptation, Lines, IsAdapter
<1>5. Finishes("openai_responses", line) =>
         Adaptation("openai_responses", a, line, Lines(a, <<FinishDelta("stop"), Done>>))
  BY LinesListed, LinesPushable DEF Adaptation, Lines, IsAdapter
<1>6. CASE line.kind = "data"
  <2>1. t = ResponsesData(a, line)
    BY <1>6 DEF ResponsesStreamLine
  <2>2. line.type = "response.completed" => Finishes("openai_responses", line)
    BY <1>6 DEF Finishes
  <2> QED BY <1>1, <1>2, <1>3, <1>5, <2>1, <2>2, LinesPushable DEF ResponsesData
<1>7. CASE line.kind # "data"
  <2>1. line.kind = "done" => Finishes("openai_responses", line)
    BY DEF Finishes
  <2> QED BY <1>1, <1>2, <1>4, <1>7, <2>1 DEF ResponsesStreamLine
<1> QED BY <1>6, <1>7

LEMMA AdaptedLines ==
    ASSUME NEW p, NEW a, IsAdapter(a), NEW line, OfProvider(p, line)
    PROVE  Adaptation(p, a, line, TransformStreamLine(p, a, line))
<1>1. CASE p \in {"anthropic", "gemini", "openai_responses"}
  BY <1>1, AnthropicLines, GeminiLines, ResponsesLines DEF TransformStreamLine
<1>2. CASE p \notin {"anthropic", "gemini", "openai_responses"}
  <2>1. TransformStreamLine(p, a, line) = Lines(a, <<line>>)
    BY <1>2 DEF TransformStreamLine
  <2>2. CASE Pushable(line)
    BY <2>1, <2>2, LinesListed DEF Adaptation, Lines, Finishes
  <2>3. CASE p \in {"anthropic", "gemini", "openai_responses"}
    BY <1>2, <2>1, <2>3
  <2> QED BY <2>2, <2>3 DEF OfProvider
<1> QED BY <1>1, <1>2

-----------------------------------------------------------------------------
(* What the provider puts out: lines its adapter understands, none of which *)
(* finishes the stream before the provider stops.                           *)
Spoken(lines) == IsLines(lines) /\ \A x \in LinesOf(lines) : OfProvider(provider, x)
Open(lines) == Spoken(lines) /\ \A x \in LinesOf(lines) : ~Finishes(provider, x)

LEMMA SpokenJoined ==
    ASSUME NEW a, NEW b
    PROVE  /\ Spoken(a) /\ Spoken(b) => Spoken(a \o b)
           /\ Open(a) /\ Open(b) => Open(a \o b)
  BY LinesJoined DEF Spoken, Open

LEMMA NativeFields ==
    ASSUME NEW type, NEW fields
    PROVE  /\ Native(type, fields).kind = "data"
           /\ Native(type, fields).type = type
           /\ \A k \in DOMAIN fields \ {"kind", "type"} : Native(type, fields)[k] = fields[k]
  BY DEF Native, With

LEMMA EventSpoken ==
    ASSUME provider \in {"anthropic", "openai_responses"}, NEW type, NEW fields
    PROVE  /\ Spoken(Event(Native(type, fields)))
           /\ type \notin {"message_stop", "response.completed"} => Open(Event(Native(type, fields)))
<1> DEFINE line == Native(type, fields)
           event == [kind |-> "event"]
<1>1. line.kind = "data" /\ line.type = type
  BY NativeFields
<1>2. OfProvider(provider, line) /\ (type \notin {"message_stop", "response.completed"} => ~Finishes(provider, line))
  BY <1>1 DEF OfProvider, Finishes
<1>3. Pushable(event) /\ event.kind = "event"
  BY DEF Pushable
<1>4. OfProvider(provider, event) /\ ~Finishes(provider, event)
  BY <1>3 DEF OfProvider, Finishes
<1>5. OfProvider(provider, Blank) /\ ~Finishes(provider, Blank)
  BY LinesPushable DEF OfProvider, Finishes, Blank
<1> HIDE DEF line, event
<1>6. IsLines(<<event, line, Blank>>) /\ LinesOf(<<event, line, Blank>>) = {event, line, Blank}
  BY LinesListed
<1>7. Event(line) = <<event, line, Blank>>
  BY DEF Event, event
<1>8. Spoken(Event(line)) /\ (type \notin {"message_stop", "response.completed"} => Open(Event(line)))
  BY <1>2, <1>4, <1>5, <1>6, <1>7 DEF Spoken, Open
<1> QED BY <1>8 DEF line

LEMMA ChunkSpoken ==
    ASSUME NEW line, Pushable(line), line.kind # "done", line.kind # "data"
    PROVE  Open(<<line, Blank>>)
<1>1. IsLines(<<line, Blank>>) /\ LinesOf(<<line, Blank>>) = {line, Blank}
  BY LinesListed
<1> QED BY <1>1, LinesPushable DEF Spoken, Open, OfProvider, Finishes, Blank

LEMMA ChunksAreChoices ==
    /\ RoleChunk.kind = "choices"
    /\ \A s : TextDelta(s).kind = "choices"
    /\ \A reason : FinishDelta(reason).kind = "choices"
    /\ \A e : ToolDelta(<<e>>).kind = "choices"
  BY DEF RoleChunk, TextDelta, FinishDelta, ToolDelta, Chunk

LEMMA StartOpen == Open(Start)
<1>1. CASE provider \in {"anthropic", "openai_responses"}
  BY <1>1, EventSpoken DEF Start
<1>2. CASE provider \notin {"anthropic", "openai_responses"}
  BY <1>2, ChunkSpoken, ChunksAreChoices, LinesPushable DEF Start
<1> QED BY <1>1, <1>2

LEMMA TextOpen == ASSUME NEW s PROVE Open(Text(s))
<1>1. CASE provider \in {"anthropic", "openai_responses"}
  BY <1>1, EventSpoken DEF Text
<1>2. CASE provider \notin {"anthropic", "openai_responses"}
  BY <1>2, ChunkSpoken, ChunksAreChoices, LinesPushable DEF Text
<1> QED BY <1>1, <1>2

LEMMA CallOpen == ASSUME NEW k, NEW name PROVE Open(Call(k, name))
<1>1. CASE provider = "anthropic"
  BY <1>1, EventSpoken DEF Call
<1>2. CASE provider # "anthropic"
  BY <1>2, ChunkSpoken, ChunksAreChoices, LinesPushable DEF Call
<1> QED BY <1>1, <1>2

LEMMA ArgumentsOpen == ASSUME NEW k, NEW s PROVE Open(Arguments(k, s))
<1>1. CASE provider = "anthropic"
  BY <1>1, EventSpoken DEF Arguments
<1>2. CASE provider # "anthropic"
  BY <1>2, ChunkSpoken, ChunksAreChoices, LinesPushable DEF Arguments
<1> QED BY <1>1, <1>2

LEMMA StopSpoken == ASSUME NEW cut PROVE Spoken(Stop(cut))
<1>1. CASE provider = "anthropic"
  <2>1. PICK reason : Stop(cut) = Event(Native("message_delta", [reason |-> reason]))
                                  \o Event(Native("message_stop", EmptyMap))
    BY <1>1 DEF Stop
  <2> QED BY <1>1, <2>1, EventSpoken, SpokenJoined
<1>2. CASE provider = "openai_responses"
  BY <1>2, EventSpoken DEF Stop
<1>3. CASE provider \notin {"anthropic", "openai_responses"}
  <2> DEFINE usage == [kind |-> "usage"]
  <2>1. PICK reason : Stop(cut) = <<FinishDelta(reason), Blank, usage, Blank, Done>>
    BY <1>3 DEF Stop
  <2>2. Pushable(usage) /\ usage.kind = "usage"
    BY DEF Pushable
  <2> HIDE DEF usage
  <2>3. <<FinishDelta(reason), Blank, usage, Blank, Done>> = (<<FinishDelta(reason), Blank>> \o <<usage, Blank>>) \o <<Done>>
    OBVIOUS
  <2>4. Spoken(<<FinishDelta(reason), Blank>>) /\ Spoken(<<usage, Blank>>)
    BY <2>2, ChunkSpoken, ChunksAreChoices, LinesPushable DEF Open
  <2>5. Spoken(<<Done>>)
    BY LinesListed, LinesPushable DEF Spoken, OfProvider
  <2>6. Spoken((<<FinishDelta(reason), Blank>> \o <<usage, Blank>>) \o <<Done>>)
    BY <2>4, <2>5, SpokenJoined
  <2> QED BY <2>1, <2>3, <2>6
<1> QED BY <1>1, <1>2, <1>3

LEMMA CandidateSpoken ==
    ASSUME provider = "gemini", NEW s, NEW call, NEW calls \in {<<>>, <<call>>}, NEW stop
    PROVE  /\ Spoken(Candidate(s, calls, stop))
           /\ stop = None => Open(Candidate(s, calls, stop))
<1> DEFINE parts == (IF s = <<>> THEN <<>> ELSE <<[call |-> None, text |-> s]>>) \o calls
           line == Native("candidates", [parts |-> parts, finish |-> stop])
<1>1. IsSequence(parts)
  <2>1. IsLines(parts)
    BY LinesListed, LinesJoined
  <2> HIDE DEF parts
  <2> QED BY <2>1, LinesFrom DEF IsLines
<1> HIDE DEF parts
<1>2. line.kind = "data" /\ line.parts = parts /\ line.finish = stop
  BY NativeFields
<1> HIDE DEF line
<1>3. OfProvider(provider, line) /\ (stop = None => ~Finishes(provider, line))
  BY <1>1, <1>2 DEF OfProvider, Finishes
<1>4. Candidate(s, calls, stop) = <<line, Blank>>
  BY DEF Candidate, line, parts
<1>5. IsLines(<<line, Blank>>) /\ LinesOf(<<line, Blank>>) = {line, Blank}
  BY LinesListed
<1>6. OfProvider(provider, Blank) /\ ~Finishes(provider, Blank)
  BY LinesPushable DEF OfProvider, Finishes, Blank
<1> QED BY <1>3, <1>4, <1>5, <1>6 DEF Spoken, Open

-----------------------------------------------------------------------------
(* The invariant: the lines that are not read yet are the provider's; as    *)
(* long as they all follow its protocol, none finishes the stream, and the  *)
(* adapter owes no [DONE], unless the provider has stopped; and a stream of *)
(* restored values that is open has neither an end nor an outcome.          *)
UpFields == {"said", "calls", "lane", "started", "finished", "dangling", "cut", "odd"}

WireSpoken ==
    /\ Spoken(wire)
    /\ DOMAIN up = UpFields /\ up.odd \in Nat
    /\ IsAdapter(adapter)
    /\ up.odd = 0 /\ ~up.finished =>
          /\ ~adapter.done
          /\ \A x \in LinesOf(wire) : ~Finishes(provider, x)

StillOpen ==
    streaming /\ (phase = "received" \/ Restoring) =>
        /\ "end" \in DOMAIN got
        /\ phase \in {"received", "open"} =>
              /\ got.end = "none"
              /\ books = [breaker |-> "none", status |-> None]

EndInv == WireSpoken /\ StillOpen /\ HonestEnd

LEMMA EndInit == Init => EndInv
<1> SUFFICES ASSUME Init PROVE EndInv
  OBVIOUS
<1>1. WireSpoken
  <2>1. Spoken(wire) /\ LinesOf(wire) = {}
    BY LinesListed DEF Init, Spoken
  <2>2. DOMAIN up = UpFields /\ up.odd \in Nat
    BY DEF Init, UpFields
  <2>3. IsAdapter(adapter) /\ ~adapter.done
    BY DEF Init, NewAdapter, IsAdapter
  <2> QED BY <2>1, <2>2, <2>3 DEF WireSpoken
<1>2. StillOpen
  BY DEF Init, StillOpen
<1>3. HonestEnd
  BY DEF Init, HonestEnd
<1> QED BY <1>1, <1>2, <1>3 DEF EndInv

LEMMA HeadSpoken ==
    ASSUME NEW lines, IsLines(lines), lines # <<>>
    PROVE  /\ Head(lines) \in LinesOf(lines)
           /\ IsLines(Tail(lines)) /\ LinesOf(Tail(lines)) \subseteq LinesOf(lines)
<1>1. lines \in Seq(LinesOf(lines))
  BY DEF IsLines
<1>2. Head(lines) = lines[1] /\ 1 \in DOMAIN lines
  BY <1>1
<1>3. Tail(lines) \in Seq(LinesOf(lines))
  BY <1>1
<1> QED BY <1>2, <1>3, LinesFrom DEF LinesOf

LEMMA SaidFields ==
    ASSUME NEW u, DOMAIN u = UpFields, NEW l, NEW s
    PROVE  /\ DOMAIN Said(u, l, s) = UpFields
           /\ Said(u, l, s).odd = u.odd
           /\ Said(u, l, s).finished = u.finished
  BY DEF Said, UpFields

LEMMA StoppedFields ==
    ASSUME NEW u, DOMAIN u = UpFields, NEW cut
    PROVE  /\ DOMAIN Stopped(u, cut) = UpFields
           /\ Stopped(u, cut).odd = u.odd
           /\ Stopped(u, cut).finished = TRUE
  BY DEF Stopped, UpFields

(* The provider says something, and finishes the stream only if it stops.   *)
LEMMA EmitsKeeps ==
    ASSUME EndInv, Speaking, NEW lines, Spoken(lines), Emits(lines),
           DOMAIN up' = UpFields, up'.odd = up.odd, Open(lines) \/ up'.finished
    PROVE  EndInv'
<1>1. DEFINE all == (IF up.started \/ provider = "gemini" THEN <<>> ELSE Start) \o lines
<1>2. Open(<<>>)
  BY LinesListed DEF Spoken, Open
<1>3. Spoken(all) /\ (Open(lines) => Open(all))
  BY <1>2, StartOpen, SpokenJoined DEF Open
<1> HIDE DEF all
<1>4. wire' = all /\ UNCHANGED <<provider, streaming, phase, filter, adapter, got, books>>
  BY DEF Emits, all
<1>5. WireSpoken'
  <2>1. Spoken(wire)'
    BY <1>3, <1>4 DEF Spoken, OfProvider
  <2>2. up'.odd \in Nat /\ IsAdapter(adapter)'
    BY <1>4 DEF EndInv, WireSpoken
  <2>3. ASSUME up'.odd = 0, ~up'.finished
        PROVE  ~adapter'.done /\ \A x \in LinesOf(wire') : ~Finishes(provider', x)
    BY <1>3, <1>4, <2>3 DEF EndInv, WireSpoken, Speaking, Open
  <2> QED BY <2>1, <2>2, <2>3 DEF WireSpoken
<1>6. StillOpen'
  BY <1>4 DEF EndInv, StillOpen, Restoring
<1>7. HonestEnd'
  BY <1>4 DEF Speaking, HonestEnd
<1> QED BY <1>5, <1>6, <1>7 DEF EndInv

(* An outcome ends the answer, and agrees with itself.                      *)
Agree(breaker, status, end) ==
    \/ breaker = "none" /\ status = 200 /\ end = "gone"
    \/ breaker = "failure" /\ status = 502 /\ end \in {"stream_transform_aborted", "pii_restore_aborted"}

LEMMA OutcomeKeeps ==
    ASSUME EndInv, streaming, Restoring => phase = "open",
           UNCHANGED <<provider, streaming, filter, up>>, WireSpoken',
           NEW breaker, NEW status, NEW end,
           Outcome(breaker, status, end), Restoring => Agree(breaker, status, end)
    PROVE  EndInv'
<1>1. phase' = "ended" /\ Restoring' = Restoring /\ streaming'
  BY DEF Outcome, Restoring
<1>2. CASE Restoring
  <2>1. "end" \in DOMAIN got
    BY <1>2 DEF EndInv, StillOpen
  <2>2. "end" \in DOMAIN got' /\ got'.end = end /\ books' = [breaker |-> breaker, status |-> status]
    BY <2>1 DEF Outcome
  <2>3. StillOpen'
    BY <1>1, <2>2 DEF StillOpen
  <2>4. HonestEnd'
    BY <1>2, <2>2 DEF HonestEnd, Agree
  <2> QED BY <2>3, <2>4 DEF EndInv
<1>3. CASE ~Restoring
  BY <1>1, <1>3 DEF EndInv, StillOpen, HonestEnd
<1> QED BY <1>2, <1>3

LEMMA SendKeeps == ASSUME EndInv, Send PROVE EndInv'
<1>1. UNCHANGED <<provider, streaming, up, wire, adapter, got, books>> /\ phase = "received" /\ phase' \in {"open", "refused"}
  BY DEF Send
<1>2. WireSpoken'
  BY <1>1 DEF EndInv, WireSpoken, Spoken, OfProvider, Finishes
<1>3. StillOpen'
  BY <1>1 DEF EndInv, StillOpen
<1>4. HonestEnd'
  BY <1>1 DEF HonestEnd
<1> QED BY <1>2, <1>3, <1>4 DEF EndInv

LEMMA GeminiSaysKeeps == ASSUME EndInv, GeminiSays PROVE EndInv'
<1>0. DOMAIN up = UpFields
  BY DEF EndInv, WireSpoken
<1>1. \E s \in budget.fragments \cup {<<>>}, stop \in {None, "STOP", "MAX_TOKENS"} :
      \E name \in IF Len(up.calls) <= MaxToolBlocks THEN Tools \cup {None} ELSE {None} :
      \E args \in IF name = None THEN {<<>>} ELSE budget.fragments :
         LET called == SaidAndCalled(s, name, args)
             calls == IF name = None THEN <<>> ELSE <<[call |-> name, text |-> args]>>
         IN  /\ up # called \/ stop # None
             /\ up' = IF stop = None THEN called ELSE Stopped(called, stop = "MAX_TOKENS")
             /\ Emits(Candidate(s, calls, stop))
  BY DEF GeminiSays
<1>2. PICK s, stop, name, args :
         LET called == SaidAndCalled(s, name, args)
             calls == IF name = None THEN <<>> ELSE <<[call |-> name, text |-> args]>>
         IN  /\ up' = IF stop = None THEN called ELSE Stopped(called, stop = "MAX_TOKENS")
             /\ Emits(Candidate(s, calls, stop))
  BY <1>1
<1> DEFINE spoken == IF s = <<>> THEN up ELSE Said(up, 0, s)
           more == [spoken EXCEPT !.calls = Append(@, name)]
           called == IF name = None THEN spoken ELSE Said(more, Len(up.calls) + 1, args)
<1>3. SaidAndCalled(s, name, args) = called
  BY DEF SaidAndCalled
<1>4. DOMAIN spoken = UpFields /\ spoken.odd = up.odd
  BY <1>0, SaidFields
<1> HIDE DEF spoken
<1>5. DOMAIN more = UpFields /\ more.odd = up.odd
  BY <1>4 DEF UpFields
<1> HIDE DEF more
<1>6. DOMAIN called = UpFields /\ called.odd = up.odd
  BY <1>4, <1>5, SaidFields
<1> HIDE DEF called
<1>7. DOMAIN up' = UpFields /\ up'.odd = up.odd /\ (stop # None => up'.finished)
  BY <1>6, <1>2, <1>3, StoppedFields
<1>8. PICK calls : /\ calls \in {<<>>, <<[call |-> name, text |-> args]>>}
                    /\ Emits(Candidate(s, calls, stop))
  BY <1>2
<1>9. Spoken(Candidate(s, calls, stop)) /\ (stop = None => Open(Candidate(s, calls, stop)))
  BY <1>8, CandidateSpoken DEF GeminiSays, Speaking
<1> QED BY <1>7, <1>8, <1>9, EmitsKeeps DEF GeminiSays

LEMMA SpeechKeeps ==
    ASSUME EndInv, SaysText \/ BeginsCall \/ SaysArguments \/ Stops \/ GeminiSays
    PROVE  EndInv'
<1>1. DOMAIN up = UpFields
  BY DEF EndInv, WireSpoken
<1>2. CASE SaysText
  <2>1. PICK s : up' = Said(up, 0, s) /\ Emits(Text(s))
    BY <1>2 DEF SaysText
  <2>2. DOMAIN up' = UpFields /\ up'.odd = up.odd
    BY <1>1, <2>1, SaidFields
  <2>5. Open(Text(s)) /\ Spoken(Text(s)) /\ Speaking
    BY <1>2, TextOpen DEF SaysText, Open
  <2>6. Emits(Text(s))
    BY <2>1
  <2> QED BY <2>2, <2>5, <2>6, EmitsKeeps
<1>3. CASE BeginsCall
  <2>1. PICK name : /\ up' = Said([up EXCEPT !.calls = Append(@, name)], Len(up.calls) + 1, <<>>)
                    /\ Emits(Call(Len(up.calls) + 1, name))
    BY <1>3 DEF BeginsCall
  <2> DEFINE u == [up EXCEPT !.calls = Append(@, name)]
  <2>2. up' = Said(u, Len(up.calls) + 1, <<>>)
    BY <2>1
  <2>3. DOMAIN u = UpFields /\ u.odd = up.odd
    BY <1>1 DEF UpFields
  <2> HIDE DEF u
  <2>4. DOMAIN up' = UpFields /\ up'.odd = up.odd
    BY <2>2, <2>3, SaidFields
  <2>5. Open(Call(Len(up.calls) + 1, name)) /\ Spoken(Call(Len(up.calls) + 1, name)) /\ Speaking
    BY <1>3, CallOpen DEF BeginsCall, Open
  <2>6. Emits(Call(Len(up.calls) + 1, name))
    BY <2>1
  <2> QED BY <2>4, <2>5, <2>6, EmitsKeeps
<1>4. CASE SaysArguments
  <2>1. PICK k, s : up' = Said(up, k, s) /\ Emits(Arguments(k, s))
    BY <1>4 DEF SaysArguments
  <2>2. DOMAIN up' = UpFields /\ up'.odd = up.odd
    BY <1>1, <2>1, SaidFields
  <2>5. Open(Arguments(k, s)) /\ Spoken(Arguments(k, s)) /\ Speaking
    BY <1>4, ArgumentsOpen DEF SaysArguments, Open
  <2>6. Emits(Arguments(k, s))
    BY <2>1
  <2> QED BY <2>2, <2>5, <2>6, EmitsKeeps
<1>5. CASE Stops
  <2>1. PICK cut : up' = Stopped(up, cut) /\ Emits(Stop(cut))
    BY <1>5 DEF Stops
  <2> QED BY <1>1, <1>5, <2>1, StoppedFields, StopSpoken, EmitsKeeps DEF Stops
<1>6. CASE GeminiSays
  BY <1>6, GeminiSaysKeeps
<1> QED BY <1>2, <1>3, <1>4, <1>5, <1>6

LEMMA OddLineKeeps == ASSUME EndInv, PutsOddLine PROVE EndInv'
<1>1. PICK line \in OddLines : wire' = <<line>>
  BY DEF PutsOddLine
<1>2. /\ UNCHANGED <<provider, streaming, phase, filter, adapter, got, books>>
      /\ phase = "open"
      /\ up' = [up EXCEPT !.odd = @ + 1]
  BY DEF PutsOddLine
<1>3. Spoken(wire)'
  BY <1>1, LinesListed, OddLinesAssumption DEF Spoken, OfProvider
<1>4. DOMAIN up' = UpFields /\ up'.odd \in Nat /\ up'.odd # 0
  BY <1>2 DEF EndInv, WireSpoken, UpFields
<1>5. WireSpoken'
  BY <1>2, <1>3, <1>4 DEF EndInv, WireSpoken
<1>6. StillOpen'
  BY <1>2 DEF EndInv, StillOpen, Restoring
<1>7. HonestEnd'
  BY <1>2 DEF HonestEnd
<1> QED BY <1>5, <1>6, <1>7 DEF EndInv

(* One line is read and the adapter does not give up.                       *)
LEMMA ReadingKeeps ==
    ASSUME EndInv, Reading, Adapt.ok, adapter' = Adapt.a, wire' = Tail(wire), UNCHANGED <<provider, up>>
    PROVE  /\ Adaptation(provider, adapter, Head(wire), Adapt)
           /\ WireSpoken'
           /\ up.odd = 0 /\ (\E x \in LinesOf(Adapt.out) : x.kind = "done") => up.finished
<1>1. Head(wire) \in LinesOf(wire) /\ IsLines(Tail(wire)) /\ LinesOf(Tail(wire)) \subseteq LinesOf(wire)
  BY HeadSpoken DEF EndInv, WireSpoken, Spoken, Reading
<1>2. Adaptation(provider, adapter, Head(wire), Adapt)
  BY <1>1, AdaptedLines DEF EndInv, WireSpoken, Spoken, Adapt
<1> HIDE DEF Adapt
<1>3. Spoken(wire)'
  BY <1>1 DEF EndInv, WireSpoken, Spoken, OfProvider
<1>4. WireSpoken'
  BY <1>1, <1>2, <1>3 DEF EndInv, WireSpoken, Adaptation, Finishes
<1> QED BY <1>1, <1>2, <1>4 DEF EndInv, WireSpoken, Adaptation

LEMMA RestoresLineKeeps == ASSUME EndInv, RestoresLine PROVE EndInv'
<1>1. PICK t : t = Adapt
  OBVIOUS
<1>2. PICK r : r = PushAll(t.out)
  OBVIOUS
<1>3. /\ t.ok /\ adapter' = t.a /\ wire' = Tail(wire)
      /\ Reading /\ Restoring
      /\ UNCHANGED <<provider, streaming, private, body, filter, sent, up, budget>>
      /\ \/ /\ got' = [FoldLeft(Received, got, r.out) EXCEPT !.end = IF r.ok THEN @ ELSE "pii_restore_aborted"]
            /\ phase' = IF r.ok /\ ~r.terminal THEN phase ELSE "ended"
            /\ books' = CASE ~r.ok -> [breaker |-> "failure", status |-> 502]
                          [] r.terminal -> [breaker |-> "success", status |-> 200]
                          [] OTHER -> books
         \/ r.out # <<>> /\ Outcome("none", 200, "gone")
  BY <1>1, <1>2 DEF RestoresLine
<1>4. /\ Adaptation(provider, adapter, Head(wire), t)
      /\ WireSpoken'
      /\ up.odd = 0 /\ (\E x \in LinesOf(t.out) : x.kind = "done") => up.finished
  BY <1>1, <1>3, ReadingKeeps
<1>5. IsLines(t.out) /\ Ended(t.out, Len(t.out), r)
  BY <1>2, <1>4, PushAllEnds DEF Adaptation
<1>6. /\ streaming /\ phase = "open" /\ "end" \in DOMAIN got /\ got.end = "none"
      /\ books = [breaker |-> "none", status |-> None]
  BY <1>3 DEF EndInv, StillOpen, Reading
<1>7. CASE r.out # <<>> /\ Outcome("none", 200, "gone")
  BY <1>3, <1>4, <1>6, <1>7, OutcomeKeeps DEF Agree
<1>8. CASE ~(r.out # <<>> /\ Outcome("none", 200, "gone"))
  <2>1. PICK h : h = FoldLeft(Received, got, r.out)
    OBVIOUS
  <2>2. /\ "end" \in DOMAIN h
        /\ h.end = IF \E x \in LinesOf(r.out) : x.kind = "done" THEN "done" ELSE got.end
    BY <1>5, <1>6, <2>1, ReceivedEnd DEF Ended
  <2>3. /\ "end" \in DOMAIN got' /\ got'.end = IF r.ok THEN h.end ELSE "pii_restore_aborted"
        /\ phase' = IF r.ok /\ ~r.terminal THEN phase ELSE "ended"
        /\ books' = CASE ~r.ok -> [breaker |-> "failure", status |-> 502]
                      [] r.terminal -> [breaker |-> "success", status |-> 200]
                      [] OTHER -> books
    BY <1>3, <1>8, <2>1, <2>2
  <2>4. r.ok \in BOOLEAN /\ r.terminal \in BOOLEAN /\ (r.terminal => r.ok)
    BY <1>5 DEF Ended
  <2>5. CASE ~r.ok
    BY <1>4, <2>3, <2>4, <2>5 DEF EndInv, StillOpen, HonestEnd
  <2>6. CASE r.terminal
    <3>1. h.end = "done" /\ r.ok
      BY <1>5, <2>2, <2>6 DEF Ended
    <3>2. \E x \in LinesOf(t.out) : x.kind = "done"
      BY <1>5, <2>6 DEF Ended, LinesOf, IsLines
    <3>3. up.odd = 0 => up.finished
      BY <1>4, <3>2
    <3>4. got'.end = "done" /\ phase' = "ended" /\ books' = [breaker |-> "success", status |-> 200]
      BY <2>3, <2>6, <3>1
    <3>5. HonestEnd'
      BY <1>3, <3>3, <3>4 DEF HonestEnd
    <3> QED BY <1>4, <2>3, <3>4, <3>5 DEF EndInv, StillOpen
  <2>7. CASE r.ok /\ ~r.terminal
    <3>1. h.end = "none"
      BY <1>5, <1>6, <2>2, <2>7 DEF Ended, Quiet
    <3>2. got'.end = "none" /\ phase' = "open" /\ books' = [breaker |-> "none", status |-> None]
      BY <1>6, <2>3, <2>7, <3>1
    <3> QED BY <1>4, <2>3, <3>2 DEF EndInv, StillOpen, HonestEnd
  <2> QED BY <2>4, <2>5, <2>6, <2>7
<1> QED BY <1>7, <1>8

LEMMA PassesLineKeeps == ASSUME EndInv, PassesLine PROVE EndInv'
<1>1. /\ Adapt.ok /\ adapter' = Adapt.a /\ wire' = Tail(wire)
      /\ Reading /\ ~Restoring
      /\ UNCHANGED <<provider, streaming, private, body, filter, sent, up, budget, restorer>>
      /\ (UNCHANGED phase \/ phase' = "ended")
  BY DEF PassesLine, Outcome
<1>2. WireSpoken'
  BY <1>1, ReadingKeeps
<1> QED BY <1>1, <1>2 DEF EndInv, StillOpen, HonestEnd, Restoring, Reading

LEMMA StopsKeep ==
    ASSUME EndInv, TransformAborts \/ StreamStops
    PROVE  EndInv'
<1>1. /\ UNCHANGED <<provider, streaming, filter, up, wire, adapter>>
      /\ phase = "open" /\ streaming
  BY DEF TransformAborts, StreamStops, Reading
<1>2. WireSpoken'
  BY <1>1 DEF EndInv, WireSpoken, Spoken, OfProvider, Finishes
<1>3. PICK breaker, status, end : Outcome(breaker, status, end) /\ (Restoring => Agree(breaker, status, end))
  <2>1. CASE TransformAborts
    BY <2>1 DEF TransformAborts, Agree
  <2>2. CASE StreamStops
    <3>1. PICK failed : EndedBefore(failed)
      BY <2>2 DEF StreamStops
    <3>2. CASE Restoring
      BY <3>1, <3>2 DEF EndedBefore, Agree
    <3>3. CASE ~Restoring
      BY <3>1, <3>3 DEF EndedBefore
    <3> QED BY <3>2, <3>3
  <2> QED BY <2>1, <2>2
<1> QED BY <1>1, <1>2, <1>3, OutcomeKeeps

LEMMA AnswersKeeps == ASSUME EndInv, Answers PROVE EndInv'
<1>1. /\ UNCHANGED <<provider, streaming, filter, wire, adapter>>
      /\ ~streaming
  BY DEF Answers
<1>2. PICK lanes, calls : up' = [up EXCEPT !.said = lanes, !.calls = calls, !.started = TRUE, !.finished = TRUE]
  BY DEF Answers
<1>3. DOMAIN up' = UpFields /\ up'.odd = up.odd /\ up'.finished
  BY <1>2 DEF EndInv, WireSpoken, UpFields
<1>4. WireSpoken'
  BY <1>1, <1>3 DEF EndInv, WireSpoken, Spoken, OfProvider, Finishes
<1> QED BY <1>1, <1>4 DEF EndInv, StillOpen, HonestEnd

LEMMA ContinuesKeeps == ASSUME EndInv, Continues PROVE EndInv'
<1>1. /\ UNCHANGED <<provider, streaming, filter, up, wire, adapter, got, books>>
      /\ phase = "ended" /\ phase' \in {"continued", "rejected"}
  BY DEF Continues
<1>2. WireSpoken'
  BY <1>1 DEF EndInv, WireSpoken, Spoken, OfProvider, Finishes
<1> QED BY <1>1, <1>2 DEF EndInv, StillOpen, HonestEnd, Restoring

(* The end of a stream of restored values is honest: what the client sees,  *)
(* the breaker and the usage event agree, and [DONE] of a provider that     *)
(* follows its protocol means that it had finished (handler.go              *)
(* handleStreamingResponse, stream.go handleDone).                          *)
THEOREM StreamEndsHonestly == Spec => []HonestEnd
<1>1. EndInv /\ [Next]_vars => EndInv'
  <2> SUFFICES ASSUME EndInv, [Next]_vars PROVE EndInv'
    OBVIOUS
  <2>1. CASE Send
    BY <2>1, SendKeeps
  <2>2. CASE SaysText \/ BeginsCall \/ SaysArguments \/ Stops \/ GeminiSays
    BY <2>2, SpeechKeeps
  <2>3. CASE PutsOddLine
    BY <2>3, OddLineKeeps
  <2>4. CASE TransformAborts \/ StreamStops
    BY <2>4, StopsKeep
  <2>5. CASE RestoresLine
    BY <2>5, RestoresLineKeeps
  <2>6. CASE PassesLine
    BY <2>6, PassesLineKeeps
  <2>7. CASE Answers
    BY <2>7, AnswersKeeps
  <2>8. CASE Continues
    BY <2>8, ContinuesKeeps
  <2>9. CASE UNCHANGED vars
    BY <2>9 DEF vars, EndInv, WireSpoken, Spoken, OfProvider, Finishes, StillOpen, HonestEnd, Restoring
  <2> QED BY <2>1, <2>2, <2>3, <2>4, <2>5, <2>6, <2>7, <2>8, <2>9 DEF Next
<1>2. EndInv => HonestEnd
  BY DEF EndInv
<1> QED BY <1>1, <1>2, EndInit, PTL DEF Spec
=============================================================================
