----------------------------- MODULE Anonymizer -----------------------------
(***************************************************************************)
(* internal/pii/json.go: the personal data of a request body is replaced   *)
(* by pseudonyms before the body leaves.                                   *)
(*                                                                         *)
(* A scan takes the filter and a value and returns both as they are after  *)
(* it; ok = FALSE refuses the whole request.                               *)
(***************************************************************************)
EXTENDS PiiText

CONSTANTS
    Detectable,    \* [type, text]: what the detectors find in a text
    TypeOrder,     \* the alphabetical rank of a type
    KeyText,       \* the text of a member's name in a tool's parameters
    MaxScanDepth   \* maxScanDepth

KnownContentPartTypes == {<<"image_url">>, <<"input_audio">>, <<"input_image">>, <<"file">>,
                          <<"image">>, <<"audio">>, <<"document">>, <<"video">>}

RECURSIVE HasDuplicateKeys(_)
HasDuplicateKeys(v) ==
    \/ v.t = "dup"
    \/ v.t = "obj" /\ \E k \in DOMAIN v.m : HasDuplicateKeys(v.m[k])
    \/ v.t = "arr" /\ \E i \in DOMAIN v.items : HasDuplicateKeys(v.items[i])

-----------------------------------------------------------------------------
(* What the detectors find, and the pieces that are replaced: findings that *)
(* share a character become one piece, of the type of the longest of them. *)

Spans(text) ==
    UNION {{[type |-> d.type, first |-> i, last |-> i + Len(d.text) - 1] :
              i \in {j \in 1..(Len(text) - Len(d.text) + 1) :
                        SubSeq(text, j, j + Len(d.text) - 1) = d.text}} : d \in Detectable}

Before(s, u) ==
    LET ls == s.last - s.first
        lu == u.last - u.first
    IN  \/ ls > lu
        \/ ls = lu /\ s.first < u.first
        \/ ls = lu /\ s.first = u.first /\ TypeOrder[s.type] <= TypeOrder[u.type]

KeepsBest(spans) ==
    {s \in spans : \A u \in spans : s.first..s.last \cap u.first..u.last # {} => Before(s, u)}
DeOverlap(spans) ==
    LET covered == UNION {s.first..s.last : s \in spans}
        joined(i) == \E s \in spans : s.first <= i /\ i < s.last
        ends(a, b) == ~joined(a - 1) /\ ~joined(b) /\ \A i \in a..(b - 1) : joined(i)
        inside(a, b) == {s \in spans : a <= s.first /\ s.last <= b}
        type(a, b) == (CHOOSE s \in inside(a, b) : \A u \in inside(a, b) : Before(s, u)).type
    IN  {[type |-> type(p[1], p[2]), first |-> p[1], last |-> p[2]] :
            p \in {q \in covered \X covered : q[1] <= q[2] /\ ends(q[1], q[2])}}

ReplaceSpans(f, text, pieces) ==
    LET replace(acc, p) ==
            LET r == PseudonymFor(acc.f, p.type, SubSeq(text, p.first, p.last))
            IN  IF ~acc.ok THEN acc
                ELSE [ok |-> r.ok, f |-> r.f, next |-> p.last + 1,
                      out |-> acc.out \o SubSeq(text, acc.next, p.first - 1) \o r.v]
        end == FoldLeft(replace, [ok |-> TRUE, f |-> f, next |-> 1, out |-> <<>>],
                        SetToSortSeq(pieces, LAMBDA p, q : p.first < q.first))
    IN  [ok |-> end.ok, f |-> end.f, v |-> Str(end.out \o SubSeq(text, end.next, Len(text)))]

Detect(f, text) == ReplaceSpans(f, text, DeOverlap(Spans(text)))

-----------------------------------------------------------------------------
Scanned(f, v) == [ok |-> TRUE, f |-> f, v |-> v]
Refuse(f, v) == [ok |-> FALSE, f |-> f, v |-> v]

(* A member that has to be a string; null decodes to the empty string. *)
ScanStringOnly(f, v) == IF v.t = "str" THEN Detect(f, v.s) ELSE Refuse(f, v)
ScanString(f, v) ==
    CASE v.t = "null" -> Scanned(f, v)
      [] v.t = "str" -> Detect(f, v.s)
      [] OTHER -> Refuse(f, v)

(* The members of an object that are named, one after the other, each if it *)
(* is there; every element of an array.                                      *)
Replace(acc, k, r) == [r EXCEPT !.v = [acc.v EXCEPT !.m[k] = r.v]]

InMembers(f, v, names, Scan(_, _, _)) ==
    LET member(acc, k) ==
            IF ~acc.ok \/ ~Has(acc.v, k) THEN acc ELSE Replace(acc, k, Scan(k, acc.f, acc.v.m[k]))
    IN  IF v.t = "obj" THEN FoldLeft(member, Scanned(f, v), names) ELSE Refuse(f, v)

InMember(f, v, name, Scan(_, _)) == InMembers(f, v, <<name>>, LAMBDA k, g, x : Scan(g, x))

InEach(f, v, Scan(_, _)) ==
    LET each(acc, x) ==
            IF ~acc.ok THEN acc
            ELSE LET r == Scan(acc.f, x) IN [r EXCEPT !.v = Append(acc.v, r.v)]
        end == FoldLeft(each, [ok |-> TRUE, f |-> f, v |-> <<>>], v.items)
    IN  IF v.t = "arr" THEN [end EXCEPT !.v = Arr(end.v)] ELSE Refuse(f, v)

(* isTokenElement: token ids, or arrays of them. *)
RECURSIVE IsTokenElement(_, _)
IsTokenElement(v, depth) ==
    /\ depth <= MaxScanDepth
    /\ \/ v.t \in {"int", "null"}
       \/ v.t = "arr" /\ \A i \in DOMAIN v.items : IsTokenElement(v.items[i], depth + 1)

(* prompt and input: a text, or an array of texts and token ids. *)
ScanTextOrTokens(f, v) ==
    LET element(g, e) == IF e.t \in {"null", "str"} THEN ScanString(g, e)
                         ELSE IF IsTokenElement(e, 0) THEN Scanned(g, e) ELSE Refuse(g, e)
    IN  IF v.t = "arr" THEN InEach(f, v, element) ELSE ScanString(f, v)

(* scanStringLeaves: every string of a tool's parameters; a member whose    *)
(* name itself holds personal data cannot be renamed.  The order in which   *)
(* the members of an object are visited is not specified.                   *)
RECURSIVE ScanLeaves(_, _, _)
ScanLeaves(f, v, depth) ==
    LET below(g, x) == ScanLeaves(g, x, depth + 1)
        member(k, acc) == IF ~acc.ok THEN acc
                          ELSE IF Spans(KeyText[k]) # {} THEN Refuse(acc.f, acc.v)
                          ELSE InMember(acc.f, acc.v, k, below)
    IN  IF depth > MaxScanDepth THEN Refuse(f, v)
        ELSE CASE v.t = "str" -> Detect(f, v.s)
               [] v.t = "obj" -> FoldSet(member, Scanned(f, v), DOMAIN v.m)
               [] v.t = "arr" -> InEach(f, v, below)
               [] OTHER -> Scanned(f, v)

ScanFunction(f, fn) ==
    LET scan(k, g, x) == IF k = "parameters" THEN ScanLeaves(g, x, 0) ELSE ScanString(g, x)
    IN  InMembers(f, fn, <<"description", "parameters">>, scan)

ScanTool(f, tool) == InMember(f, tool, "function", ScanFunction)
ScanTools(f, tools) == InEach(f, tools, ScanTool)

-----------------------------------------------------------------------------
(* One part of a message's content; a part of an unknown type is refused.   *)
ScanPart(f, part) ==
    IF part.t # "obj" \/ ~Has(part, "type") \/ part.m["type"].t # "str" THEN Refuse(f, part)
    ELSE CASE part.m["type"].s = <<"text">> -> InMember(f, part, "text", ScanString)
           [] part.m["type"].s \in KnownContentPartTypes -> Scanned(f, part)
           [] OTHER -> Refuse(f, part)

ScanContent(f, v) == IF v.t = "arr" THEN InEach(f, v, ScanPart) ELSE ScanString(f, v)

ScanArguments(f, fn) == InMember(f, fn, "arguments", ScanString)
ScanToolCall(f, call) == InMember(f, call, "function", ScanArguments)
ScanToolCalls(f, calls) == InEach(f, calls, ScanToolCall)

ScanMessage(f, msg) ==
    LET scan(k, g, x) == CASE k = "name" -> ScanString(g, x)
                           [] k = "content" -> ScanContent(g, x)
                           [] k = "function_call" -> ScanArguments(g, x)
                           [] k = "tool_calls" -> ScanToolCalls(g, x)
    IN  InMembers(f, msg, <<"name", "content", "function_call", "tool_calls">>, scan)

ScanMessages(f, messages) == InEach(f, messages, ScanMessage)

(* Filter.AnonymizeJSON *)
AnonymizeJSON(f, body) ==
    LET scan(k, g, x) == CASE k = "user" -> ScanString(g, x)
                           [] k \in {"prompt", "input"} -> ScanTextOrTokens(g, x)
                           [] k = "tools" -> ScanTools(g, x)
                           [] k = "messages" -> ScanMessages(g, x)
    IN  IF HasDuplicateKeys(body) THEN Refuse(f, body)
        ELSE InMembers(f, body, <<"user", "prompt", "input", "tools", "messages">>, scan)

=============================================================================
