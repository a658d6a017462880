------------------------------ MODULE FoldFacts ------------------------------
(***************************************************************************)
(* What a fold preserves, for any operator: the loops of the stream code   *)
(* (over the lines an adapter made, the choices of a chunk, the elements   *)
(* of its tool calls, the characters of a text) are folds, and what they   *)
(* keep is shown with an instance of this module.                          *)
(***************************************************************************)
EXTENDS Integers, Sequences, SequencesExt, WellFoundedInduction, TLAPS

CONSTANTS
    Op(_, _, _, _),    \* Op(c, d, acc, x): one step, where c and d are what it reads besides
    Inv(_, _, _, _)    \* Inv(c, d, i, acc): what holds of acc after i steps

(* FoldLeft(op, base, seq), with its definitions expanded. *)
IsIter(f, c, d, base, seq, D) ==
    f = [s \in SUBSET D |-> IF s = {} THEN base ELSE Op(c, d, f[s \ {Max(s)}], seq[Max(s)])]

Iter(c, d, base, seq, D) == CHOOSE f : IsIter(f, c, d, base, seq, D)

Fold(c, d, base, seq) == Iter(c, d, base, seq, DOMAIN seq)[DOMAIN seq]

-----------------------------------------------------------------------------
\* A set of naturals that is not empty has a least one.
LEMMA LeastNat ==
    ASSUME NEW S \in SUBSET Nat, S # {}
    PROVE  \E n \in S : \A m \in S : n <= m
<1>1. PICK n \in S : \A m \in S : <<m, n>> \notin OpToRel(<, Nat)
  BY WFMin, NatLessThanWellFounded
<1>2. \A m \in S : ~(m < n)
  BY <1>1 DEF OpToRel
<1> QED BY <1>2

\* Induction over the naturals, for a set.
LEMMA Induction ==
    ASSUME NEW S, 0 \in S, \A n \in Nat : n \in S => n + 1 \in S
    PROVE  \A n \in Nat : n \in S
<1>1. SUFFICES ASSUME Nat \ S # {} PROVE FALSE
  OBVIOUS
<1>2. PICK n \in Nat \ S : \A m \in Nat \ S : n <= m
  BY <1>1, LeastNat
<1>3. n # 0 /\ n - 1 \in Nat
  BY <1>2
<1> QED BY <1>2, <1>3

LEMMA MaxOf ==
    ASSUME NEW n \in Nat, NEW s \in SUBSET (1..(n + 1)), n + 1 \in s
    PROVE  Max(s) = n + 1
<1>1. \A y \in s : n + 1 >= y
  OBVIOUS
<1>2. \A x \in s : (\A y \in s : x >= y) => x = n + 1
  OBVIOUS
<1> QED BY <1>1, <1>2 DEF Max

\* The recursive function of a fold over 1..n exists: to that of 1..k it
\* adds the sets that hold k + 1, which is their maximum.
LEMMA IterExists ==
    ASSUME NEW c, NEW d, NEW base, NEW seq, NEW n \in Nat
    PROVE  \E f : IsIter(f, c, d, base, seq, 1..n)
<1> DEFINE S == {k \in Nat : \E f : IsIter(f, c, d, base, seq, 1..k)}
<1>1. 0 \in S
  <2> DEFINE f == [s \in SUBSET (1..0) |-> base]
  <2>1. \A s \in SUBSET (1..0) : s = {}
    OBVIOUS
  <2>2. f = [s \in SUBSET (1..0) |-> IF s = {} THEN base ELSE Op(c, d, f[s \ {Max(s)}], seq[Max(s)])]
    BY <2>1
  <2> QED BY <2>2 DEF IsIter
<1>2. ASSUME NEW k \in Nat, k \in S PROVE k + 1 \in S
  <2>1. PICK f : IsIter(f, c, d, base, seq, 1..k)
    BY <1>2
  <2> DEFINE g == [s \in SUBSET (1..(k + 1)) |->
                      IF k + 1 \in s THEN Op(c, d, f[s \ {k + 1}], seq[k + 1]) ELSE f[s]]
  <2>2. ASSUME NEW s \in SUBSET (1..(k + 1))
        PROVE  g[s] = IF s = {} THEN base ELSE Op(c, d, g[s \ {Max(s)}], seq[Max(s)])
    <3>1. CASE k + 1 \in s
      <4>1. Max(s) = k + 1
        BY <3>1, MaxOf
      <4>2. s \ {k + 1} \in SUBSET (1..(k + 1)) /\ k + 1 \notin s \ {k + 1}
        OBVIOUS
      <4> QED BY <3>1, <4>1, <4>2
    <3>2. CASE k + 1 \notin s
      <4>1. s \in SUBSET (1..k)
        BY <3>2
      <4>2. s \ {Max(s)} \in SUBSET (1..(k + 1)) /\ k + 1 \notin s \ {Max(s)}
        BY <3>2
      <4>3. f[s] = IF s = {} THEN base ELSE Op(c, d, f[s \ {Max(s)}], seq[Max(s)])
        BY <2>1, <4>1 DEF IsIter
      <4> QED BY <3>2, <4>2, <4>3
    <3> QED BY <3>1, <3>2
  <2>3. g = [s \in SUBSET (1..(k + 1)) |-> IF s = {} THEN base ELSE Op(c, d, g[s \ {Max(s)}], seq[Max(s)])]
    <3> HIDE DEF g
    <3>1. g = [s \in SUBSET (1..(k + 1)) |-> g[s]]
      BY DEF g
    <3> QED BY <2>2, <3>1
  <2>4. \E h : IsIter(h, c, d, base, seq, 1..(k + 1))
    <3> HIDE DEF g
    <3> QED BY <2>3 DEF IsIter
  <2> QED BY <2>4
<1> HIDE DEF S
<1>3. \A k \in Nat : k \in S
  BY <1>1, <1>2, Induction
<1> QED BY <1>3 DEF S

\* What one step of the fold preserves holds of the fold.
LEMMA IterKeeps ==
    ASSUME NEW c, NEW d, NEW base, NEW seq, NEW n \in Nat, Inv(c, d, 0, base),
           \A i \in 1..n : \A acc : Inv(c, d, i - 1, acc) => Inv(c, d, i, Op(c, d, acc, seq[i]))
    PROVE  Inv(c, d, n, Iter(c, d, base, seq, 1..n)[1..n])
<1> DEFINE f == Iter(c, d, base, seq, 1..n)
<1>1. IsIter(f, c, d, base, seq, 1..n)
  BY IterExists DEF Iter
<1>2. \A s \in SUBSET (1..n) : f[s] = IF s = {} THEN base ELSE Op(c, d, f[s \ {Max(s)}], seq[Max(s)])
  BY <1>1 DEF IsIter
<1> HIDE DEF f
<1> DEFINE S == {k \in Nat : k <= n => Inv(c, d, k, f[1..k])}
<1>3. 0 \in S
  <2>1. 1..0 = {}
    OBVIOUS
  <2> QED BY <1>2, <2>1
<1>4. ASSUME NEW k \in Nat, k \in S PROVE k + 1 \in S
  <2>1. SUFFICES ASSUME k + 1 <= n PROVE Inv(c, d, k + 1, f[1..(k + 1)])
    OBVIOUS
  <2>2. /\ Max(1..(k + 1)) = k + 1
        /\ (1..(k + 1)) \ {k + 1} = 1..k /\ 1..(k + 1) # {} /\ 1..(k + 1) \in SUBSET (1..n)
    BY <2>1, MaxOf
  <2>3. f[1..(k + 1)] = Op(c, d, f[1..k], seq[k + 1])
    BY <1>2, <2>2
  <2>4. Inv(c, d, k, f[1..k])
    BY <1>4, <2>1
  <2>5. k + 1 \in 1..n /\ (k + 1) - 1 = k
    BY <2>1
  <2> QED BY <2>3, <2>4, <2>5
<1> HIDE DEF S
<1>5. \A k \in Nat : k \in S
  BY <1>3, <1>4, Induction
<1>6. n \in S
  BY <1>5
<1> QED BY <1>6 DEF S, f

\* The same, of a sequence of length n: this is what the instances cite.
LEMMA FoldKeeps ==
    ASSUME NEW c, NEW d, NEW base, NEW seq, NEW n \in Nat, DOMAIN seq = 1..n, Inv(c, d, 0, base),
           \A i \in 1..n : \A acc : Inv(c, d, i - 1, acc) => Inv(c, d, i, Op(c, d, acc, seq[i]))
    PROVE  Inv(c, d, n, Fold(c, d, base, seq))
  BY IterKeeps DEF Fold

=============================================================================
