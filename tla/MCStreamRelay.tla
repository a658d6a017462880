--------------------------- MODULE MCStreamRelay ---------------------------
(***************************************************************************)
(* An instance of StreamRelay.  Characters are strings of one letter; the  *)
(* marker is "PI", a type's letter is P (a letter of the marker) or E, the *)
(* hash one digit.  The detectors find the e-mail addresses "e" and "q"    *)
(* (its upper case), the name "mn" and the number "no", which overlap.     *)
(***************************************************************************)
EXTENDS StreamRelay, Anonymizer

MCMarker == <<"P", "I">>
MCLetters == {"P", "E"}
MCDigits == {"1", "2"}
PIE1 == <<"P", "I", "E", "1">>
PIP1 == <<"P", "I", "P", "1">>
PIP2 == <<"P", "I", "P", "2">>
PIE2 == <<"P", "I", "E", "2">>

MCLower == [c \in {"e", "q"} |-> "e"]
MCToken == (<<"EMAIL", <<"e">>>> :> PIE1) @@ (<<"NAME", <<"m", "n">>>> :> PIP1)
           @@ (<<"NAME", <<"m", "n", "o">>>> :> PIP2) @@ (<<"ID", <<"n", "o">>>> :> PIE2)
MCDetectable == {[type |-> "EMAIL", text |-> <<"e">>], [type |-> "EMAIL", text |-> <<"q">>],
                 [type |-> "NAME", text |-> <<"m", "n">>], [type |-> "ID", text |-> <<"n", "o">>]}
MCTypeOrder == [EMAIL |-> 1, ID |-> 2, NAME |-> 3]
MCKeyText == [type |-> <<"z">>, title |-> <<"z">>, e |-> <<"e">>, enum |-> <<"z">>]

t1 == <<"t1">>
t2 == <<"t2">>
MCTools == {t1, t2}
MCCallIds == <<<<"call_g0">>, <<"call_g1">>, <<"call_g2">>, <<"call_g3">>>>
MCProviderIds == <<<<"call_a">>, <<"call_b">>, <<"call_c">>, <<"call_d">>>>
MCPlainNames == {t1, t2} \cup ToSet(MCCallIds) \cup ToSet(MCProviderIds)
MCIds == MCPlainNames \cup {PIE1}
MCNotObjects == {<<"!">>}

z == <<"z">>
User(s) == Obj([role |-> Str(<<"user">>), content |-> Str(s)])
System(s) == Obj([role |-> Str(<<"system">>), content |-> Str(s)])
Assistant(s) == Obj([role |-> Str(<<"assistant">>), content |-> Str(s)])
CallOf(id, name, args) ==
    Obj([id |-> Str(id), function |-> Obj([name |-> Str(name), arguments |-> Str(args)])])
Asks(calls) == Obj([role |-> Str(<<"assistant">>), content |-> Null, tool_calls |-> Arr(calls)])
Answered(id, s) == Obj([role |-> Str(<<"tool">>), tool_call_id |-> Str(id), content |-> Str(s)])
Part(type, s) == Obj([type |-> Str(type), text |-> Str(s)])
ToolOf(name, description, parameters) ==
    Obj([type |-> Str(<<"function">>),
         function |-> Obj([name |-> Str(name), description |-> Str(description), parameters |-> parameters])])
Chat(messages) == Obj([model |-> Str(<<"gpt">>), messages |-> Arr(messages)])
ChatWith(messages, more) == Obj([model |-> Str(<<"gpt">>), messages |-> Arr(messages)] @@ more)

Plain == Chat(<<User(z)>>)
Overlap == Chat(<<System(<<"q">>), User(<<"m", "n", "o", "e">>)>>)
WithTools ==
    ChatWith(<<User(<<"z", "e">>)>>,
             [user |-> Str(<<"m", "n">>), tool_choice |-> Str(<<"auto">>), max_completion_tokens |-> Int64,
              tools |-> Arr(<<ToolOf(t1, <<"n", "o">>, Obj([title |-> Str(<<"e">>), enum |-> Arr(<<Str(<<"q">>), Null>>)]))>>)])
SecondTurn ==
    Chat(<<User(<<"e">>), Asks(<<CallOf(<<"call_g0">>, t1, <<"e">>)>>), Answered(<<"call_g0">>, <<"m", "n">>),
           Answered(<<"call_g0">>, z)>>)
Parts ==
    Chat(<<Obj([role |-> Str(<<"user">>), name |-> Str(<<"m", "n">>),
                content |-> Arr(<<Part(<<"text">>, <<"n", "o">>), Part(<<"text">>, <<"e">>)>>)])>>)

Refusable == {
    Chat(<<[t |-> "dup"]>>),
    Chat(<<Obj([role |-> Str(<<"user">>), content |-> Arr(<<Part(<<"image_url">>, z), Part(<<"text">>, <<"e">>)>>)])>>),
    Chat(<<Obj([role |-> Str(<<"user">>), content |-> Arr(<<Part(<<"unknown">>, <<"e">>)>>)])>>),
    Chat(<<Obj([role |-> Str(<<"assistant">>), content |-> Str(z), tool_calls |-> Null])>>),
    Chat(<<Asks(<<CallOf(<<"call_a">>, t1, <<"!">>)>>), Answered(<<"call_b">>, z)>>),
    Chat(<<User(<<"m", "n", "z", "n", "o", "z", "e", "z", "m", "n", "o">>)>>),
    ChatWith(<<User(z)>>, [tools |-> Arr(<<ToolOf(t1, z, Obj([e |-> Null]))>>)]),
    ChatWith(<<User(z)>>, [tools |-> Arr(<<ToolOf(PIE1, z, Null)>>)]),
    ChatWith(<<User(z)>>, [tools |-> Arr(<<ToolOf(t1, <<"e">>, Obj([type |-> Str(z)]))>>),
                           tool_choice |-> Obj([type |-> Str(<<"function">>), function |-> Obj([name |-> Str(t2)])])]),
    Obj([model |-> Str(<<"gpt">>), prompt |-> Arr(<<Str(<<"e">>), Int64, Arr(<<Int64>>)>>), n |-> Int64]),
    Obj([model |-> Str(<<"gpt">>), input |-> Arr(<<[t |-> "num"]>>)]),
    Obj([model |-> Str(<<"gpt">>), input |-> Str(<<"q">>)])}

(* Every body is answered as a whole by every provider, of either kind; the *)
(* streams are those of a few bodies, with the longest answers in pieces of *)
(* the pseudonym of one value, the widest in pieces of several.             *)
AllBodies == {Plain, Overlap, WithTools, SecondTurn, Parts} \cup Refusable
Wide == {z, <<"P">>, <<"P", "I">>, <<"I", "E", "1">>, <<"P", "1", "z">>, <<"E", "2", "P">>}
Narrow == {<<"P", "I">>, <<"P">>, <<"E", "1">>}

Case(p, streams, home, b, events, odd, fragments) ==
    [provider |-> p, streaming |-> streams, private |-> home, body |-> b,
     events |-> events, odd |-> odd, fragments |-> fragments]

Whole == {Case(p, FALSE, home, b, 0, 0, Wide) : p \in Providers, home \in BOOLEAN, b \in AllBodies}
Streams ==
    {Case(p, TRUE, FALSE, b, 3, 0, Wide) : p \in {"openai", "anthropic", "openai_responses"}, b \in {Overlap, SecondTurn}}
    \cup {Case(p, TRUE, FALSE, WithTools, 4, 0, Narrow) : p \in {"azure", "anthropic"}}
    \cup {Case("gemini", TRUE, FALSE, SecondTurn, 2, 0, Wide), Case("gemini", TRUE, FALSE, Overlap, 3, 0, Narrow)}
    \cup {Case(p, TRUE, TRUE, WithTools, 2, 0, Narrow) : p \in Providers}
    \cup {Case(p, TRUE, FALSE, Plain, 2, 1, Narrow) : p \in Providers}
    \cup {Case(p, TRUE, FALSE, SecondTurn, 2, 2, Narrow) : p \in Providers}
MCCases == Whole \cup Streams

MCResults == {<<"e">>}

MCOddLines == {
    [kind |-> "malformed"], [kind |-> "error"], [kind |-> "other"], [kind |-> "event"], Blank, Done,
    Chunk([NoDelta EXCEPT !.content = PIE1, !.index = 1]),
    Chunk([NoDelta EXCEPT !.text = <<"P">>]),
    ToolDelta(<<NewCall(0, <<"call_a">>, PIE1, <<"P", "I">>)>>),
    FinishDelta("stop")}

-----------------------------------------------------------------------------
RECURSIVE Strings(_)
Strings(v) ==
    CASE v.t = "str" -> {v.s}
      [] v.t = "arr" -> UNION {Strings(v.items[i]) : i \in DOMAIN v.items}
      [] v.t = "obj" -> UNION {Strings(v.m[k]) : k \in DOMAIN v.m}
      [] OTHER -> {}

PersonalCharacters == UNION {ToSet(d.text) : d \in Detectable}

(* No character of what the detectors find leaves for a deployment that is   *)
(* not private, in whatever field of the body and whichever turn of the      *)
(* conversation it was, restored by an earlier answer or typed by the user:  *)
(* findings that overlap are replaced together (json.go deOverlap).          *)
ForwardedClean ==
    sent # None /\ ~private => \A s \in Strings(sent) : ToSet(s) \cap PersonalCharacters = {}

=============================================================================
