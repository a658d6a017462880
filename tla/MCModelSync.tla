----------------------------- MODULE MCModelSync -----------------------------
(***************************************************************************)
(* Two instances that started from a file with two models, and two         *)
(* handlers.                                                               *)
(***************************************************************************)
EXTENDS ModelSync, TLC

CONSTANTS a, b, x, y, c1, c2, i1, i2, d1

TwoModels ==
    (a :> [content |-> 1, aliases |-> {}, fallback |-> b, deployments |-> [d \in Deployments |-> 1]]) @@
    (b :> [content |-> 1, aliases |-> {x}, fallback |-> None, deployments |-> [d \in Deployments |-> None]])

Request(n, c, al, f) == [name |-> n, content |-> c, aliases |-> al, fallback |-> f]

OneCreate == {Request(y, 1, {}, a)}

OneFieldEach == {Request(Keep, 2, Keep, Keep), Request(y, Keep, Keep, Keep),
                 Request(Keep, Keep, {x}, Keep), Request(Keep, Keep, {}, None),
                 Request(Keep, Keep, Keep, a), Request(Keep, Keep, Keep, b)}

OneImport == {{a, y}}

\* One handler runs where fallbacks are administered, the other anywhere.
CallerAt == (c1 :> {i1}) @@ (c2 :> {i1, i2})
=============================================================================
