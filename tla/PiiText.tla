------------------------------- MODULE PiiText -------------------------------
(***************************************************************************)
(* Text, pseudonyms and the per-request filter of internal/pii             *)
(* (pii.go, pseudonym.go, the text helpers of stream.go).                  *)
(*                                                                         *)
(* A text is a sequence of abstract characters.  A pseudonym keeps its     *)
(* shape - the marker, the letters of the type, hexadecimal digits of a    *)
(* keyed hash - with one letter and one digit instead of 2 and 24.  The    *)
(* type's letter may itself be a letter of the marker ("PII_PH_..."), so   *)
(* a pseudonym can hold the beginning of another one.                      *)
(***************************************************************************)
EXTENDS Integers, Sequences, FiniteSets, SequencesExt

CONSTANTS
    Marker,        \* the sequence of characters every pseudonym begins with
    Letters,       \* the characters that may name a type
    Digits,        \* the characters of the hash
    Token,         \* the pseudonym of a type and a normalised value
    Lower,         \* the lower-case form of a character
    MaxMappings    \* pseudonyms one request may use

(***************************************************************************)
(* A JSON value is a record tagged with its kind t: "null", "int", "num"   *)
(* (a number with a fraction or an exponent), "str" with the text s, "arr" *)
(* with the sequence items, "obj" with the members m, and "dup", an object *)
(* in which a member occurs twice.  The body of a request and its objects  *)
(* are re-encoded with the same members, so encoding is left out.          *)
(***************************************************************************)
Null == [t |-> "null"]
Int64 == [t |-> "int"]
Str(s) == [t |-> "str", s |-> s]
Arr(items) == [t |-> "arr", items |-> items]
Obj(m) == [t |-> "obj", m |-> m]

Has(v, k) == k \in DOMAIN v.m

PseudonymLen == Len(Marker) + 2

Windows(s, n) == {SubSeq(s, i, i + n - 1) : i \in 1..(Len(s) - n + 1)}

IsPseudonym(w) ==
    /\ Len(w) = PseudonymLen
    /\ IsPrefix(Marker, w)
    /\ w[PseudonymLen - 1] \in Letters
    /\ w[PseudonymLen] \in Digits

HasPseudonym(s) == \E w \in Windows(s, PseudonymLen) : IsPseudonym(w)
HasMarker(s) == Marker \in Windows(s, Len(Marker))

(* The longest end of s with which some known pseudonym begins: the number  *)
(* of characters that have to wait for the next fragment.                   *)
EndsInPrefix(s, l, known) ==
    \E p \in known : l < Len(p) /\ SubSeq(s, Len(s) - l + 1, Len(s)) = SubSeq(p, 1, l)

HeldFromMarker(s, known) ==
    LET lengths == {l \in Len(Marker)..Len(s) : l < PseudonymLen /\ EndsInPrefix(s, l, known)}
    IN  IF lengths = {} THEN 0 ELSE CHOOSE l \in lengths : \A k \in lengths : k <= l
Held(s, known) ==
    LET lengths == {l \in 1..Len(s) : l < PseudonymLen /\ EndsInPrefix(s, l, known)}
    IN  IF lengths = {} THEN 0 ELSE CHOOSE l \in lengths : \A k \in lengths : k <= l

-----------------------------------------------------------------------------
(* The filter of one request: fwd from <<type, normalised value>> to its    *)
(* pseudonym, rev from a pseudonym to the value as it was seen first.       *)

EmptyMap == [x \in {} |-> x]

NewFilter == [fwd |-> EmptyMap, rev |-> EmptyMap]

Touched(f) == DOMAIN f.rev # {}

NormalizeValue(typ, value) ==
    IF typ = "EMAIL" THEN [i \in DOMAIN value |-> Lower[value[i]]] ELSE value

HasRoom(f) == Cardinality(DOMAIN f.fwd) < MaxMappings

(* pseudonymFor: the filter with the pseudonym of the value, ok unless the  *)
(* request uses too many of them.                                           *)
PseudonymFor(f, typ, value) ==
    LET key == <<typ, NormalizeValue(typ, value)>>
        p == Token[key]
    IN  IF key \in DOMAIN f.fwd THEN [ok |-> TRUE, f |-> f, v |-> f.fwd[key]]
        ELSE IF ~HasRoom(f) THEN [ok |-> FALSE, f |-> f, v |-> value]
        ELSE [ok |-> TRUE, v |-> p,
              f |-> [fwd |-> [k \in DOMAIN f.fwd \cup {key} |-> IF k = key THEN p ELSE f.fwd[k]],
                     rev |-> [q \in DOMAIN f.rev \cup {p} |-> IF q = p THEN value ELSE f.rev[q]]]]

(* Filter.Restore: from left to right every pseudonym of the filter gives   *)
(* way to its value; what has been put in is not looked at again.           *)
Restore(s, rev) ==
    LET at(i) == SubSeq(s, i, i + PseudonymLen - 1)
        rest[i \in 1..(Len(s) + PseudonymLen)] ==
            IF i > Len(s) THEN <<>>
            ELSE IF i + PseudonymLen - 1 <= Len(s) /\ at(i) \in DOMAIN rev
                 THEN rev[at(i)] \o rest[i + PseudonymLen]
                 ELSE <<s[i]>> \o rest[i + 1]
    IN  rest[1]

=============================================================================
