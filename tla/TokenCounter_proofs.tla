------------------------ MODULE TokenCounter_proofs ------------------------
(***************************************************************************)
(* For any goroutines, budgets and windows: a counter shows what was used  *)
(* in its window and forgets no more than what was added while it was      *)
(* reset, and a budget is exceeded only by the requests that were served   *)
(* at once and by what was forgotten (BudgetsStayKept).                    *)
(***************************************************************************)
EXTENDS TokenCounter, GracefulShutdown, FiniteSetTheorems, SequenceTheorems, TLAPS

\* The steps at which a slot has an entry.
Holding == {"window", "tokens", "try", "same", "lock", "rollover", "reset"}
Holds(s) == call[s].pc \in Holding

Days    == 0..MaxDay
Entries == [start: Nat, tokens: Nat, locked: BOOLEAN]
DatedEvents == [scopes: Seq(Counters), day: Days]
Calls   == [pc: {"idle", "check", "serving", "add"} \cup Holding, now: Days, left: Seq(Counters),
            entry: Nat]

HeapOK  == heap \in Seq(Entries) /\ entries \in [Counters -> 0..Len(heap)]
CallsOK ==
    /\ call \in [Slots -> Calls]
    /\ \A s \in Slots :
          /\ Holds(s) => call[s].left # <<>> /\ The(s) \in 1..Len(heap)
          /\ IsInjective(call[s].left)
          /\ \A c \in Counters : Contains(call[s].left, c) => Contains(Scopes[s], c)
EventsOK ==
    /\ day \in Days /\ buffer \in Seq(DatedEvents) /\ rows \in Seq(DatedEvents)
    /\ \A i \in DOMAIN buffer : upset \/ buffer[i].day <= day
    /\ \A i \in DOMAIN rows : rows[i].day <= day
CountsOK == /\ owed \in [Counters -> Nat] /\ raced \in [Counters -> Nat] /\ lost \in [Counters -> Nat]
            /\ upset \in BOOLEAN

TokenTypes == HeapOK /\ CallsOK /\ EventsOK /\ CountsOK

(***************************************************************************)
(* While no request outlives its day and no entry in use is evicted: a     *)
(* counter has the one entry of the map, which its slots hold, one of them *)
(* under its lock.                                                         *)
(***************************************************************************)
Locked(s) == call[s].pc \in {"rollover", "reset"}
OneEntry ==
    /\ \A s \in Slots : ~At(s, "idle") /\ ~At(s, "serving") => call[s].now = day
    /\ \A s \in Slots : Holds(s) => entries[Counter(s)] = The(s)
    /\ \A c, d \in Counters : entries[c] # NoEntry /\ entries[c] = entries[d] => c = d
    /\ \A s \in Slots : Locked(s) => heap[The(s)].locked
    /\ \A s, t \in Slots : Locked(s) /\ Locked(t) /\ The(s) = The(t) => s = t

StartOf(c) == IF entries[c] = NoEntry THEN 0 ELSE heap[entries[c]].start
ResettingOf(c) == \E s \in Slots : At(s, "reset") /\ Counter(s) = c

(***************************************************************************)
(* An entry of an earlier window owes nothing; one that a slot has yet to  *)
(* reset owes only what raced the reset; any other one shows all but that. *)
(***************************************************************************)
Balanced(c) ==
    /\ StartOf(c) <= WindowAt(c, day)
    /\ StartOf(c) # WindowAt(c, day) => owed[c] = 0 /\ raced[c] = 0
    /\ StartOf(c) = WindowAt(c, day) =>
          IF ResettingOf(c) THEN owed[c] = raced[c]
          ELSE owed[c] - raced[c] <= heap[entries[c]].tokens /\ heap[entries[c]].tokens <= owed[c]
InWindow(s) == At(s, "tokens") \/ At(s, "same") \/ At(s, "reset") => heap[The(s)].start = Window(s)

\* The requests that have been charged and have not queued their event yet.
Charged(c) == {s \in Slots : Charging(s) /\ Contains(Scopes[s], c) /\ ~Contains(call[s].left, c)}

\* What a list of events has for the window of a counter.
Counts(event, c) == Contains(event.scopes, c) /\ WindowAt(c, event.day) = WindowAt(c, day)
InList(list, c) == Cardinality({i \in DOMAIN list : Counts(list[i], c)})

\* What is in the table, in the buffer and on its way there has been charged.
Written(c) == InList(rows, c) + InList(buffer, c) + Cardinality(Charged(c)) <= owed[c]

Spent(c) == Limit[c] > 0 => owed[c] + Cardinality(Admitted(c))
                               <= Limit[c] - 1 + Cardinality(Slots) + raced[c] + lost[c]

BudgetInv == ~upset => /\ OneEntry
                       /\ \A s \in Slots : InWindow(s)
                       /\ \A c \in Counters : Balanced(c) /\ Written(c) /\ Spent(c)

-----------------------------------------------------------------------------
(* Lists, windows and sets of slots.                                       *)

\* The counters on a list without its first one.
LEMMA Lists ==
  ASSUME NEW l \in Seq(Counters), NEW c \in Counters
  PROVE  /\ ~Contains(<<>>, c)
         /\ l # <<>> => /\ Head(l) \in Counters /\ Tail(l) \in Seq(Counters) /\ Contains(l, Head(l))
         /\ l # <<>> /\ IsInjective(l) =>
               IsInjective(Tail(l)) /\ (Contains(Tail(l), c) <=> Contains(l, c) /\ c # Head(l))
<1>1. ~Contains(<<>>, c)
  BY DEF Contains
<1>2. ASSUME l # <<>>
      PROVE  /\ Head(l) \in Counters /\ Tail(l) \in Seq(Counters) /\ Contains(l, Head(l))
             /\ Len(Tail(l)) = Len(l) - 1 /\ Len(l) \in Nat \ {0} /\ Head(l) = l[1]
             /\ \A i \in 1..Len(Tail(l)) : Tail(l)[i] = l[i + 1]
  BY <1>2 DEF Contains
<1>3. ASSUME l # <<>>, IsInjective(l)
      PROVE  IsInjective(Tail(l)) /\ (Contains(Tail(l), c) <=> Contains(l, c) /\ c # Head(l))
  <2>1. \A i, j \in 1..Len(l) : l[i] = l[j] => i = j
    BY <1>3 DEF IsInjective
  <2>2. DOMAIN Tail(l) = 1..Len(Tail(l))
    BY <1>2, <1>3
  <2>3. \A i, j \in 1..Len(Tail(l)) : Tail(l)[i] = Tail(l)[j] => i = j
    BY <1>2, <1>3, <2>1
  <2>4. ASSUME Contains(l, c), c # Head(l) PROVE Contains(Tail(l), c)
    <3>1. PICK i \in 1..Len(l) : l[i] = c
      BY <2>4 DEF Contains
    <3>2. i - 1 \in 1..Len(Tail(l)) /\ Tail(l)[i - 1] = c
      BY <1>2, <1>3, <2>4, <3>1
    <3> QED BY <3>2 DEF Contains
  <2>5. ASSUME Contains(Tail(l), c) PROVE Contains(l, c) /\ c # Head(l)
    <3>1. PICK i \in 1..Len(Tail(l)) : Tail(l)[i] = c
      BY <2>5 DEF Contains
    <3>2. i + 1 \in 1..Len(l) /\ l[i + 1] = c /\ 1 \in 1..Len(l) /\ i + 1 # 1
      BY <1>2, <1>3, <3>1
    <3> QED BY <1>2, <1>3, <2>1, <3>2 DEF Contains
  <2> QED BY <2>2, <2>3, <2>4, <2>5 DEF IsInjective
<1> QED BY <1>1, <1>2, <1>3

\* Nothing is on the empty list.
LEMMA NoneListed == IsInjective(<<>>) /\ \A c \in Counters : ~Contains(<<>>, c)
<1>1. DOMAIN <<>> = {}
  OBVIOUS
<1> QED BY <1>1 DEF IsInjective, Contains

\* A day is in a window, and a later one in none before it.
LEMMA Windows ==
  ASSUME TokenAssumption, NEW c \in Counters, NEW t \in Days, NEW u \in Days, u <= t
  PROVE  /\ WindowAt(c, t) \in Nat \ {0} /\ WindowAt(c, u) <= WindowAt(c, t)
<1> DEFINE n == Length[c]
<1>1. n \in Nat \ {0} /\ t \in Nat /\ u \in Nat
  BY DEF TokenAssumption, Days
<1>2. t \div n \in Nat /\ u \div n \in Nat
  BY <1>1
<1> HIDE DEF n
<1> DEFINE a == u \div n
           b == t \div n
<1>4. n * a <= u /\ t < n * b + n
  BY <1>1
<1>5. a \in Nat /\ b \in Nat
  BY <1>2
<1> HIDE DEF a, b
<1>6. ASSUME b < a PROVE FALSE
  <2>1. PICK k \in Nat : a = b + 1 + k
    <3>1. a - b - 1 \in Nat /\ a = b + 1 + (a - b - 1)
      BY <1>5, <1>6
    <3> QED BY <3>1
  <2>2. n * a = n * b + n + n * k /\ n * k >= 0 /\ n * b \in Nat
    BY <1>1, <1>5, <2>1
  <2>3. n * a \in Nat /\ n * k \in Nat
    BY <1>1, <1>5
  <2> HIDE <2>1
  <2> QED BY <1>1, <1>4, <2>2, <2>3
<1>3. u \div n <= t \div n
  BY <1>5, <1>6 DEF a, b
<1> QED BY <1>1, <1>2, <1>3 DEF WindowAt, n

\* A set of slots that one slot enters or leaves.
LEMMA OneSlot ==
  ASSUME TokenAssumption, NEW X \in SUBSET Slots, NEW Y \in SUBSET Slots, NEW s \in Slots,
         X \ {s} = Y \ {s}
  PROVE  /\ Cardinality(X) \in Nat /\ Cardinality(Y) \in Nat /\ Cardinality(Slots) \in Nat
         /\ Cardinality(Y) <= Cardinality(Slots)
         /\ Cardinality(Y) <= Cardinality(X) + 1
         /\ (s \in Y => s \in X) => Cardinality(Y) <= Cardinality(X)
         /\ s \in X /\ s \notin Y => Cardinality(Y) = Cardinality(X) - 1
<1>1. IsFiniteSet(Slots) /\ IsFiniteSet(X) /\ IsFiniteSet(Y) /\ IsFiniteSet(X \ {s})
  BY FS_Subset DEF TokenAssumption
<1>2. Cardinality(X) \in Nat /\ Cardinality(Y) \in Nat /\ Cardinality(Slots) \in Nat
  BY <1>1, FS_CardinalityType
<1>3. Cardinality(Y) <= Cardinality(Slots)
  BY <1>1, FS_Subset
<1> DEFINE k == Cardinality(X \ {s})
<1>4. Cardinality(X) = IF s \in X THEN k + 1 ELSE k
  <2>1. s \in X => k = Cardinality(X) - 1
    BY <1>1, FS_RemoveElement
  <2>2. s \notin X => X \ {s} = X
    OBVIOUS
  <2>3. s \notin X => k = Cardinality(X)
    BY <2>2
  <2> QED BY <1>2, <2>1, <2>3
<1>5. Cardinality(Y) = IF s \in Y THEN k + 1 ELSE k
  <2>1. s \in Y => Cardinality(Y \ {s}) = Cardinality(Y) - 1
    BY <1>1, FS_RemoveElement
  <2>2. s \notin Y => Y \ {s} = Y
    OBVIOUS
  <2>3. s \notin Y => Cardinality(Y \ {s}) = Cardinality(Y)
    BY <2>2
  <2>4. k = Cardinality(Y \ {s})
    OBVIOUS
  <2> HIDE DEF k
  <2> QED BY <1>2, <2>1, <2>3, <2>4
<1>6. k \in Nat
  BY <1>1, FS_CardinalityType
<1> HIDE DEF k
<1> QED BY <1>2, <1>3, <1>4, <1>5, <1>6

\* What lists of events have that are put together.
LEMMA ListCounts ==
  ASSUME NEW a \in Seq(DatedEvents), NEW b \in Seq(DatedEvents), NEW c \in Counters
  PROVE  /\ InList(a, c) \in Nat
         /\ InList(a \o b, c) <= InList(a, c) + InList(b, c)
<1> DEFINE m == Len(a)
           n == Len(b)
           A == {i \in 1..m : Counts(a[i], c)}
           B == {i \in 1..n : Counts(b[i], c)}
           C == {i \in 1..(m + n) : Counts((a \o b)[i], c)}
           D == {i \in (m + 1)..(m + n) : Counts(b[i - m], c)}
           shift == [i \in B |-> i + m]
<1>1. /\ m \in Nat /\ n \in Nat /\ Len(a \o b) = m + n /\ a \o b \in Seq(DatedEvents)
      /\ \A i \in 1..(m + n) : (a \o b)[i] = IF i <= m THEN a[i] ELSE b[i - m]
  BY LenProperties, ConcatProperties
<1>2. IsFiniteSet(A) /\ IsFiniteSet(B)
  <2>1. IsFiniteSet(1..m) /\ IsFiniteSet(1..n)
    BY <1>1, FS_Interval
  <2>2. A \subseteq 1..m /\ B \subseteq 1..n
    OBVIOUS
  <2> QED BY <2>1, <2>2, FS_Subset
<1>3. C = A \cup D /\ A \cap D = {}
  <2> HIDE DEF m, n
  <2>1. ASSUME NEW i \in C PROVE i \in A \cup D
    BY <1>1, <2>1
  <2>2. ASSUME NEW i \in A \cup D PROVE i \in C
    BY <1>1, <2>2
  <2>3. A \cap D = {}
    BY <1>1
  <2> HIDE DEF A, C, D
  <2> QED BY <2>1, <2>2, <2>3
<1>4. IsFiniteSet(D) /\ Cardinality(D) <= Cardinality(B)
  <2>1. shift \in Surjection(B, D)
    <3> HIDE DEF m, n
    <3>1. \A i \in B : i + m \in D
      BY <1>1
    <3>2. ASSUME NEW j \in D PROVE j - m \in B /\ (j - m) + m = j
      <4>1. j \in (m + 1)..(m + n) /\ Counts(b[j - m], c)
        OBVIOUS
      <4>2. j - m \in 1..n /\ (j - m) + m = j
        BY <1>1, <4>1
      <4> QED BY <4>1, <4>2
    <3> HIDE DEF B, D
    <3>3. shift \in [B -> D]
      BY <3>1
    <3>4. \A j \in D : \E i \in B : shift[i] = j
      BY <3>2
    <3> HIDE DEF shift
    <3> QED BY <3>3, <3>4 DEF Surjection
  <2> HIDE DEF B, D, shift
  <2> QED BY <1>2, <2>1, FS_Surjection
<1>5. Cardinality(A) \in Nat /\ Cardinality(C) <= Cardinality(A) + Cardinality(B)
  <2> HIDE DEF A, B, C, D
  <2>1. Cardinality(C) = Cardinality(A) + Cardinality(D) - Cardinality(A \cap D)
    BY <1>2, <1>3, <1>4, FS_Union
  <2>2. Cardinality(A \cap D) = 0
    BY <1>3, FS_EmptySet
  <2>3. Cardinality(A) \in Nat /\ Cardinality(B) \in Nat /\ Cardinality(D) \in Nat
    BY <1>2, <1>4, FS_CardinalityType
  <2> QED BY <1>4, <2>1, <2>2, <2>3
<1>6. InList(a \o b, c) = Cardinality(C) /\ InList(a, c) = Cardinality(A) /\ InList(b, c) = Cardinality(B)
  <2>1. DOMAIN a = 1..m /\ DOMAIN b = 1..n /\ DOMAIN (a \o b) = 1..(m + n)
    BY <1>1
  <2> QED BY <2>1 DEF InList
<1> HIDE DEF A, B, C
<1> QED BY <1>5, <1>6

\* An event more on a list is one more at most, if it counts.
LEMMA OneEvent ==
  ASSUME NEW a \in Seq(DatedEvents), NEW e \in DatedEvents, NEW c \in Counters
  PROVE  /\ InList(Append(a, e), c) <= InList(a, c) + (IF Contains(e.scopes, c) THEN 1 ELSE 0)
         /\ InList(<<>>, c) = 0
<1> DEFINE S == {i \in 1..1 : Counts(<<e>>[i], c)}
<1>1. <<e>> \in Seq(DatedEvents) /\ Append(a, e) = a \o <<e>>
  BY AppendIsConcat
<1>2. InList(<<e>>, c) = Cardinality(S)
  BY DEF InList
<1>3. Cardinality(S) <= IF Contains(e.scopes, c) THEN 1 ELSE 0
  <2>1. CASE S = {}
    <3>1. Cardinality(S) = 0
      BY <2>1, FS_EmptySet
    <3> HIDE DEF S
    <3> QED BY <3>1
  <2>2. CASE S # {}
    <3>1. S = {1} /\ Counts(e, c)
      BY <2>2
    <3>2. Cardinality({1}) = 1
      BY FS_Singleton
    <3> HIDE DEF S
    <3> QED BY <3>1, <3>2 DEF Counts
  <2> QED BY <2>1, <2>2
<1>4. InList(<<>>, c) = 0
  <2>1. {i \in DOMAIN <<>> : Counts(<<>>[i], c)} = {}
    OBVIOUS
  <2> QED BY <2>1, FS_EmptySet DEF InList
<1>5. InList(a, c) \in Nat /\ InList(<<e>>, c) \in Nat
  BY <1>1, ListCounts
<1>6. InList(a \o <<e>>, c) <= InList(a, c) + InList(<<e>>, c) /\ InList(a \o <<e>>, c) \in Nat
  <2>1. a \o <<e>> \in Seq(DatedEvents)
    BY <1>1
  <2> QED BY <1>1, <2>1, ListCounts
<1> HIDE DEF S
<1> QED BY <1>1, <1>2, <1>3, <1>4, <1>5, <1>6

\* On a later day a list counts as much for the same window, and nothing for
\* a new one.
LEMMA LaterDay ==
  ASSUME TokenAssumption, EventsOK, NEW list \in Seq(DatedEvents), NEW c \in Counters,
         \A i \in DOMAIN list : list[i].day <= day, day' = day + 1, day' \in Days
  PROVE  InList(list, c)' = IF WindowAt(c, day') = WindowAt(c, day) THEN InList(list, c) ELSE 0
<1>1. day \in Days /\ day <= day'
  BY DEF EventsOK, Days
<1>2. WindowAt(c, day) <= WindowAt(c, day') /\ WindowAt(c, day) \in Nat /\ WindowAt(c, day') \in Nat
  <2>1. WindowAt(c, day') \in Nat \ {0} /\ WindowAt(c, day) <= WindowAt(c, day')
    BY <1>1, Windows
  <2>2. day <= day
    BY <1>1 DEF Days
  <2>3. WindowAt(c, day) \in Nat \ {0}
    BY <1>1, <2>2, Windows
  <2> QED BY <2>1, <2>3
<1>3. CASE WindowAt(c, day') = WindowAt(c, day)
  BY <1>3 DEF InList, Counts
<1>4. CASE WindowAt(c, day') # WindowAt(c, day)
  <2>1. ASSUME NEW i \in DOMAIN list PROVE ~(Contains(list[i].scopes, c) /\ WindowAt(c, list[i].day) = WindowAt(c, day'))
    <3>3. list[i] \in DatedEvents
      OBVIOUS
    <3>1. list[i].day \in Days /\ list[i].day <= day
      BY <3>3 DEF DatedEvents
    <3> DEFINE d == list[i].day
    <3>4. d \in Days /\ d <= day
      BY <3>1
    <3> HIDE DEF d
    <3>5. WindowAt(c, d) <= WindowAt(c, day) /\ WindowAt(c, d) \in Nat
      BY <1>1, <3>4, Windows DEF Days
    <3>2. WindowAt(c, list[i].day) <= WindowAt(c, day) /\ WindowAt(c, list[i].day) \in Nat
      BY <3>5 DEF d
    <3> QED BY <1>2, <1>4, <3>2
  <2>2. {i \in DOMAIN list : Contains(list[i].scopes, c) /\ WindowAt(c, list[i].day) = WindowAt(c, day')} = {}
    BY <2>1
  <2>3. InList(list, c)' = Cardinality({})
    BY <2>2 DEF InList, Counts
  <2> QED BY <1>4, <2>3, FS_EmptySet
<1> QED BY <1>3, <1>4

-----------------------------------------------------------------------------
(* What a step of one slot leaves alone.                                   *)

\* A slot moves, and the others do not.
LEMMA SlotMoved ==
  ASSUME CallsOK, NEW s \in Slots, NEW r \in Calls, call' = [call EXCEPT ![s] = r],
         Len(heap) \in Nat, Len(heap') \in Nat, Len(heap) <= Len(heap'),
         r.pc \in Holding => r.left # <<>> /\ r.entry \in 1..Len(heap'),
         IsInjective(r.left), \A c \in Counters : Contains(r.left, c) => Contains(Scopes[s], c)
  PROVE  CallsOK' /\ call'[s] = r /\ \A t \in Slots : t # s => call'[t] = call[t]
<1>1. call'[s] = r /\ \A t \in Slots : t # s => call'[t] = call[t]
  BY DEF CallsOK
<1>2. call' \in [Slots -> Calls]
  BY DEF CallsOK
<1>3. ASSUME NEW t \in Slots
      PROVE  /\ call'[t].pc \in Holding => call'[t].left # <<>> /\ call'[t].entry \in 1..Len(heap')
             /\ IsInjective(call'[t].left)
             /\ \A c \in Counters : Contains(call'[t].left, c) => Contains(Scopes[t], c)
  <2>1. CASE t = s
    BY <1>1, <2>1
  <2>2. CASE t # s
    <3>1. call'[t] = call[t]
      BY <1>1, <2>2
    <3>2. Holds(t) => call[t].left # <<>> /\ The(t) \in 1..Len(heap)
      BY DEF CallsOK
    <3>3. IsInjective(call[t].left) /\ \A c \in Counters : Contains(call[t].left, c) => Contains(Scopes[t], c)
      BY DEF CallsOK
    <3>4. 1..Len(heap) \subseteq 1..Len(heap')
      OBVIOUS
    <3> QED BY <3>1, <3>2, <3>3, <3>4 DEF Holds, The
  <2> QED BY <2>1, <2>2
<1> QED BY <1>1, <1>2, <1>3 DEF CallsOK, Holds, The

\* The requests admitted by a counter, and charged to it, when one slot moves.
LEMMA SetsMoved ==
  ASSUME TokenAssumption, NEW s \in Slots, \A t \in Slots : t # s => call'[t] = call[t],
         NEW c \in Counters
  PROVE  /\ Cardinality(Admitted(c)) \in Nat /\ Cardinality(Admitted(c)') \in Nat
         /\ Cardinality(Charged(c)) \in Nat /\ Cardinality(Charged(c)') \in Nat
         /\ Cardinality(Slots) \in Nat /\ Cardinality(Admitted(c)') <= Cardinality(Slots)
         /\ (s \in Admitted(c)' => s \in Admitted(c)) =>
               Cardinality(Admitted(c)') <= Cardinality(Admitted(c))
         /\ s \in Admitted(c) /\ s \notin Admitted(c)' =>
               Cardinality(Admitted(c)') = Cardinality(Admitted(c)) - 1
         /\ (s \in Charged(c)' => s \in Charged(c)) =>
               Cardinality(Charged(c)') <= Cardinality(Charged(c))
         /\ s \in Charged(c) /\ s \notin Charged(c)' =>
               Cardinality(Charged(c)') = Cardinality(Charged(c)) - 1
         /\ Cardinality(Charged(c)') <= Cardinality(Charged(c)) + 1
<1>1. Admitted(c) \in SUBSET Slots /\ Admitted(c)' \in SUBSET Slots
  BY DEF Admitted
<1>2. Charged(c) \in SUBSET Slots /\ Charged(c)' \in SUBSET Slots
  BY DEF Charged
<1>3. Admitted(c) \ {s} = Admitted(c)' \ {s}
  BY DEF Admitted, At, Checking, Charging
<1>4. Charged(c) \ {s} = Charged(c)' \ {s}
  BY DEF Charged, Charging
<1>5. \A X, Y \in SUBSET Slots : X \ {s} = Y \ {s} =>
         /\ Cardinality(X) \in Nat /\ Cardinality(Y) \in Nat /\ Cardinality(Slots) \in Nat
         /\ Cardinality(Y) <= Cardinality(Slots)
         /\ Cardinality(Y) <= Cardinality(X) + 1
         /\ (s \in Y => s \in X) => Cardinality(Y) <= Cardinality(X)
         /\ s \in X /\ s \notin Y => Cardinality(Y) = Cardinality(X) - 1
  BY OneSlot
<1> DEFINE A == Admitted(c)
           B == Admitted(c)'
           C == Charged(c)
           D == Charged(c)'
<1>6. /\ A \in SUBSET Slots /\ B \in SUBSET Slots /\ A \ {s} = B \ {s}
      /\ C \in SUBSET Slots /\ D \in SUBSET Slots /\ C \ {s} = D \ {s}
  BY <1>1, <1>2, <1>3, <1>4
<1> HIDE DEF A, B, C, D
<1>7. /\ Cardinality(A) \in Nat /\ Cardinality(B) \in Nat /\ Cardinality(Slots) \in Nat
      /\ Cardinality(B) <= Cardinality(Slots)
      /\ (s \in B => s \in A) => Cardinality(B) <= Cardinality(A)
      /\ s \in A /\ s \notin B => Cardinality(B) = Cardinality(A) - 1
  BY <1>5, <1>6
<1>8. /\ Cardinality(C) \in Nat /\ Cardinality(D) \in Nat
      /\ Cardinality(D) <= Cardinality(C) + 1
      /\ (s \in D => s \in C) => Cardinality(D) <= Cardinality(C)
      /\ s \in C /\ s \notin D => Cardinality(D) = Cardinality(C) - 1
  BY <1>5, <1>6
<1> QED BY <1>7, <1>8 DEF A, B, C, D

\* The slots go on sharing the entries of the map, one at a time under a lock.
LEMMA EntriesMoved ==
  ASSUME OneEntry, NEW s \in Slots, NEW r \in Calls,
         call'[s] = r, \A t \in Slots : t # s => call'[t] = call[t], UNCHANGED <<day, entries>>,
         r.pc \notin {"idle", "serving"} => r.now = day,
         r.pc \in Holding => entries[Head(r.left)] = r.entry,
         \A t \in Slots : t # s /\ Locked(t) => heap'[The(t)].locked,
         r.pc \in {"rollover", "reset"} =>
            /\ heap'[r.entry].locked
            /\ \A t \in Slots : t # s /\ Locked(t) => The(t) # r.entry
  PROVE  OneEntry'
<1>1. \A t \in Slots : call'[t].pc \notin {"idle", "serving"} => call'[t].now = day'
  BY DEF OneEntry, At
<1>2. \A t \in Slots : call'[t].pc \in Holding => entries'[Head(call'[t].left)] = call'[t].entry
  BY DEF OneEntry, Holds, The, Counter
<1>3. \A t \in Slots : call'[t].pc \in {"rollover", "reset"} => heap'[call'[t].entry].locked
  BY DEF Locked, The
<1>4. \A t, u \in Slots : call'[t].pc \in {"rollover", "reset"} /\ call'[u].pc \in {"rollover", "reset"}
                           /\ call'[t].entry = call'[u].entry => t = u
  BY DEF OneEntry, Locked, The
<1>5. \A c, d \in Counters : entries'[c] # NoEntry /\ entries'[c] = entries'[d] => c = d
  BY DEF OneEntry
<1> QED BY <1>1, <1>2, <1>3, <1>4, <1>5 DEF OneEntry, At, Holds, The, Counter, Locked

\* The events count as before.
LEMMA ListsSame ==
  ASSUME UNCHANGED <<day, buffer, rows>>, NEW c \in Counters
  PROVE  InList(rows, c)' = InList(rows, c) /\ InList(buffer, c)' = InList(buffer, c)
BY DEF InList, Counts

\* A reset is of one counter's entry.
LEMMA ResetsSame ==
  ASSUME NEW s \in Slots, \A t \in Slots : t # s => call'[t] = call[t],
         ~At(s, "reset"), call'[s].pc # "reset", NEW c \in Counters
  PROVE  ResettingOf(c)' <=> ResettingOf(c)
<1>1. (\E t \in Slots : call'[t].pc = "reset" /\ Head(call'[t].left) = c)
         <=> (\E t \in Slots : call[t].pc = "reset" /\ Head(call[t].left) = c)
  BY DEF At
<1> QED BY <1>1 DEF ResettingOf, At, Counter

\* The arithmetic of Spent: fewer are admitted, or no more than there are slots.
LEMMA Sums ==
  \A owes, before, after, slots, limit, races, losses \in Nat :
      \/ owes + before <= limit - 1 + slots + races + losses /\ after <= before
      \/ owes <= limit - 1 + races /\ after <= slots
      => owes + after <= limit - 1 + slots + races + losses
OBVIOUS

\* A slot that only looks, at entries that are its counter's, may be admitted
\* where there is room.
LEMMA Looks ==
  ASSUME TokenAssumption, TokenTypes, BudgetInv, NEW s \in Slots, NEW r \in Calls,
         call' = [call EXCEPT ![s] = r], UNCHANGED <<counters, outside, histories>>,
         r.pc \in Holding => r.left # <<>> /\ r.entry \in 1..Len(heap),
         IsInjective(r.left), \A c \in Counters : Contains(r.left, c) => Contains(Scopes[s], c),
         ~Locked(s), r.pc \notin {"rollover", "reset"},
         ~upset => /\ r.pc \notin {"idle", "serving"} => r.now = day
                   /\ r.pc \in Holding => entries[Head(r.left)] = r.entry
                   /\ r.pc \in {"tokens", "same"} => heap[r.entry].start = WindowAt(Head(r.left), r.now)
                   /\ \A c \in Counters :
                         /\ s \in Charged(c)' => s \in Charged(c)
                         /\ s \in Admitted(c)' => \/ s \in Admitted(c) \/ Limit[c] = 0
                                                  \/ owed[c] <= Limit[c] - 1 + raced[c]
  PROVE  TokenTypes' /\ BudgetInv'
<1>1. Len(heap) \in Nat /\ UNCHANGED <<heap, entries, day, buffer, rows, owed, raced, lost, upset, evicting>>
  BY DEF TokenTypes, HeapOK, counters, outside, histories
<1>2. CallsOK' /\ call'[s] = r /\ \A t \in Slots : t # s => call'[t] = call[t]
  <2>1. CallsOK /\ Len(heap') \in Nat /\ Len(heap) <= Len(heap') /\ Len(heap') = Len(heap)
    BY <1>1 DEF TokenTypes
  <2> QED BY <1>1, <2>1, SlotMoved
<1>3. TokenTypes'
  BY <1>1, <1>2 DEF TokenTypes, HeapOK, EventsOK, CountsOK
<1>4. ASSUME ~upset
      PROVE  /\ OneEntry' /\ \A t \in Slots : InWindow(t)'
             /\ \A c \in Counters : Balanced(c)' /\ Written(c)' /\ Spent(c)'
  <2>1. /\ OneEntry /\ \A t \in Slots : InWindow(t)
        /\ \A c \in Counters : Balanced(c) /\ Written(c) /\ Spent(c)
    BY <1>4 DEF BudgetInv
  <2>2. OneEntry'
    <3>1. \A t \in Slots : Locked(t) => heap'[The(t)].locked
      BY <1>1, <2>1 DEF OneEntry
    <3> QED BY <1>1, <1>2, <1>4, <2>1, <3>1, EntriesMoved
  <2>3. ASSUME NEW t \in Slots PROVE InWindow(t)'
    <3>1. CASE t = s
      BY <1>1, <1>2, <1>4, <3>1 DEF InWindow, At, The, Window, Counter
    <3>2. CASE t # s
      BY <1>1, <1>2, <2>1, <3>2 DEF InWindow, At, The, Window, Counter
    <3> QED BY <3>1, <3>2
  <2>4. ASSUME NEW c \in Counters PROVE Balanced(c)' /\ Written(c)' /\ Spent(c)'
    <3>1. ResettingOf(c)' <=> ResettingOf(c)
      BY <1>2, ResetsSame DEF Locked, At
    <3>2. Balanced(c)'
      BY <1>1, <2>1, <3>1 DEF Balanced, StartOf
    <3>3. /\ Cardinality(Admitted(c)) \in Nat /\ Cardinality(Admitted(c)') \in Nat
          /\ Cardinality(Slots) \in Nat /\ Cardinality(Admitted(c)') <= Cardinality(Slots)
          /\ (s \in Admitted(c)' => s \in Admitted(c)) =>
                Cardinality(Admitted(c)') <= Cardinality(Admitted(c))
          /\ Cardinality(Charged(c)) \in Nat /\ Cardinality(Charged(c)') \in Nat
          /\ Cardinality(Charged(c)') <= Cardinality(Charged(c))
      BY <1>2, <1>4, SetsMoved
    <3>4. Written(c)'
      <4>1. InList(rows, c)' = InList(rows, c) /\ InList(buffer, c)' = InList(buffer, c)
        BY <1>1, ListsSame
      <4>2. InList(rows, c) \in Nat /\ InList(buffer, c) \in Nat
        BY ListCounts DEF TokenTypes, EventsOK
      <4>3. owed[c] \in Nat
        BY DEF TokenTypes, CountsOK
      <4>4. InList(rows, c) + InList(buffer, c) + Cardinality(Charged(c)) <= owed[c]
        BY <2>1 DEF Written
      <4>5. InList(rows, c)' + InList(buffer, c)' + Cardinality(Charged(c)') <= owed[c]
        BY <3>3, <4>1, <4>2, <4>3, <4>4
      <4> QED BY <1>1, <4>5 DEF Written
    <3>5. Spent(c)'
      <4>1. owed[c] \in Nat /\ raced[c] \in Nat /\ lost[c] \in Nat /\ Limit[c] \in Nat
        BY DEF TokenTypes, CountsOK, TokenAssumption
      <4>2. CASE Limit[c] = 0
        BY <4>1, <4>2 DEF Spent
      <4>3. CASE Limit[c] > 0 /\ (s \in Admitted(c)' => s \in Admitted(c))
        <5>1. owed[c] + Cardinality(Admitted(c)) <= Limit[c] - 1 + Cardinality(Slots) + raced[c] + lost[c]
          BY <2>1, <4>3 DEF Spent
        <5>3. Cardinality(Admitted(c)') <= Cardinality(Admitted(c))
          BY <3>3, <4>3
        <5>2. owed[c] + Cardinality(Admitted(c)') <= Limit[c] - 1 + Cardinality(Slots) + raced[c] + lost[c]
          BY <3>3, <4>1, <5>1, <5>3, Sums
        <5> QED BY <1>1, <5>2 DEF Spent
      <4>4. CASE Limit[c] > 0 /\ owed[c] <= Limit[c] - 1 + raced[c]
        <5>1. owed[c] + Cardinality(Admitted(c)') <= Limit[c] - 1 + Cardinality(Slots) + raced[c] + lost[c]
          BY <3>3, <4>1, <4>4, Sums
        <5>2. UNCHANGED <<owed, raced, lost>>
          BY <1>1
        <5> QED BY <5>1, <5>2 DEF Spent
      <4> QED BY <1>4, <4>1, <4>2, <4>3, <4>4
    <3> QED BY <3>2, <3>4, <3>5
  <2> QED BY <2>2, <2>3, <2>4
<1>5. BudgetInv'
  BY <1>1, <1>4 DEF BudgetInv
<1> QED BY <1>3, <1>5

\* What is known of a slot at work on a counter.
LEMMA AtWork ==
  ASSUME TokenAssumption, TokenTypes, BudgetInv, NEW s \in Slots, call[s].left # <<>>
  PROVE  /\ Counter(s) \in Counters /\ Tail(call[s].left) \in Seq(Counters) /\ IsInjective(Tail(call[s].left))
         /\ Contains(Scopes[s], Counter(s)) /\ Contains(call[s].left, Counter(s))
         /\ \A c \in Counters : /\ Contains(Tail(call[s].left), c) <=> Contains(call[s].left, c) /\ c # Counter(s)
                                /\ Contains(call[s].left, c) => Contains(Scopes[s], c)
         /\ Counter(s) = Head(call[s].left)
<1>1. call[s].left \in Seq(Counters) /\ IsInjective(call[s].left)
      /\ \A c \in Counters : Contains(call[s].left, c) => Contains(Scopes[s], c)
  BY DEF TokenTypes, CallsOK, Calls
<1>2. Head(call[s].left) \in Counters /\ Tail(call[s].left) \in Seq(Counters) /\ Contains(call[s].left, Head(call[s].left))
  BY <1>1, Lists
<1>3. \A c \in Counters : Contains(Tail(call[s].left), c) <=> Contains(call[s].left, c) /\ c # Head(call[s].left)
  BY <1>1, Lists
<1>4. IsInjective(Tail(call[s].left))
  BY <1>1, <1>2, Lists
<1> QED BY <1>1, <1>2, <1>3, <1>4 DEF Counter

\* An entry of no window, or of an earlier one, leaves room; so does one that
\* shows less than the limit.
LEMMA Room ==
  ASSUME TokenAssumption, TokenTypes, BudgetInv, ~upset, NEW c \in Counters, Limit[c] > 0,
         \/ StartOf(c) # WindowAt(c, day)
         \/ heap[entries[c]].tokens < Limit[c]
  PROVE  owed[c] <= Limit[c] - 1 + raced[c]
<1>1. Balanced(c) /\ owed[c] \in Nat /\ raced[c] \in Nat /\ Limit[c] \in Nat
  BY DEF BudgetInv, TokenTypes, CountsOK, TokenAssumption
<1>2. CASE StartOf(c) # WindowAt(c, day)
  BY <1>1, <1>2 DEF Balanced
<1>3. CASE StartOf(c) = WindowAt(c, day) /\ heap[entries[c]].tokens < Limit[c]
  <2>1. day \in Days /\ WindowAt(c, day) \in Nat \ {0}
    <3>1. day \in Days /\ day <= day
      BY DEF TokenTypes, EventsOK, Days
    <3> QED BY <3>1, Windows
  <2>2. entries[c] \in 1..Len(heap) /\ heap[entries[c]] \in Entries
    <3>1. entries[c] # NoEntry
      BY <1>3, <2>1 DEF StartOf
    <3>2. entries[c] \in 0..Len(heap) /\ Len(heap) \in Nat /\ entries[c] # 0
      BY <3>1 DEF TokenTypes, HeapOK, NoEntry
    <3>3. entries[c] \in 1..Len(heap)
      BY <3>2
    <3> QED BY <3>3 DEF TokenTypes, HeapOK
  <2>3. heap[entries[c]].tokens \in Nat
    BY <2>2 DEF Entries
  <2> QED BY <1>1, <1>3, <2>3 DEF Balanced
<1> QED BY <1>2, <1>3

-----------------------------------------------------------------------------
(* The steps of a request up to its answer.                                *)

\* A new request is admitted by none of its counters yet.
LEMMA Arrives ==
  ASSUME TokenAssumption, TokenTypes, BudgetInv, NEW s \in Slots, CheckTokens(s) \/ LogUsage(s)
  PROVE  TokenTypes' /\ BudgetInv'
<1> DEFINE stage == IF At(s, "idle") THEN "check" ELSE "add"
           r == [pc |-> stage, now |-> day, left |-> Scopes[s], entry |-> NoEntry]
<1>1. call' = [call EXCEPT ![s] = r] /\ UNCHANGED <<counters, outside, histories>>
      /\ (At(s, "idle") \/ At(s, "serving"))
  BY DEF CheckTokens, LogUsage, Idle, At
<1>2. day \in Days /\ Scopes[s] \in Seq(Counters) /\ IsInjective(Scopes[s]) /\ call \in [Slots -> Calls]
  BY DEF TokenTypes, EventsOK, TokenAssumption, CallsOK
<1>3. r \in Calls /\ stage \in {"check", "add"}
  BY <1>2 DEF Calls, NoEntry
<1>4. call'[s] = r
  BY <1>1, <1>2
<1>5. ~Locked(s) /\ r.pc \notin {"rollover", "reset"} /\ r.pc \notin Holding
  BY <1>1, <1>3 DEF At, Locked, Holding
<1>6. ASSUME NEW c \in Counters PROVE s \notin Charged(c)' /\ (s \in Admitted(c)' => s \in Admitted(c))
  <2>1. s \notin Charged(c)'
    BY <1>4 DEF Charged
  <2>2. CASE At(s, "idle")
    BY <1>4, <2>1, <2>2 DEF Admitted, Checking, Charging, At
  <2>3. CASE At(s, "serving")
    BY <1>4, <2>1, <2>3 DEF Admitted, Checking, Charging, At
  <2> QED BY <1>1, <2>1, <2>2, <2>3
<1>7. r.now = day /\ r.left = Scopes[s] /\ r.pc \notin {"tokens", "same"}
  BY <1>3
<1> HIDE DEF r, stage
<1> QED BY <1>1, <1>2, <1>3, <1>5, <1>6, <1>7, Looks

\* A slot that goes on with the counter it is at is admitted as before.
LEMMA GoesOn ==
  ASSUME TokenAssumption, TokenTypes, BudgetInv, NEW s \in Slots, NEW r \in Calls,
         call' = [call EXCEPT ![s] = r], UNCHANGED <<counters, outside, histories>>,
         call[s].left # <<>>, r.left = call[s].left, r.now = call[s].now,
         \/ call[s].pc \in {"check", "window"} /\ r.pc \in {"window", "tokens"}
         \/ call[s].pc \in {"add", "try"} /\ r.pc \in {"try", "same", "lock"},
         r.entry \in 1..Len(heap),
         ~upset => entries[Counter(s)] = r.entry,
         r.pc \in {"tokens", "same"} => heap[r.entry].start = Window(s)
  PROVE  TokenTypes' /\ BudgetInv'
<1>1. call \in [Slots -> Calls] /\ call'[s] = r
  BY DEF TokenTypes, CallsOK
<1>2. ~Locked(s) /\ r.pc \notin {"rollover", "reset"} /\ ~At(s, "idle") /\ ~At(s, "serving")
  BY DEF Locked, At
<1>3. IsInjective(r.left) /\ \A c \in Counters : Contains(r.left, c) => Contains(Scopes[s], c)
  BY DEF TokenTypes, CallsOK
<1>4. ASSUME NEW c \in Counters
      PROVE (s \in Charged(c)' => s \in Charged(c)) /\ (s \in Admitted(c)' => s \in Admitted(c))
  BY <1>1 DEF Charged, Admitted, Checking, Charging, At
<1>5. ~upset => r.now = day
  BY <1>2 DEF BudgetInv, OneEntry
<1> QED BY <1>2, <1>3, <1>4, <1>5, Looks DEF Counter, Window

\* A slot that is done with a counter goes on to the next one, or turns the
\* request away.
LEMMA GoesPast ==
  ASSUME TokenAssumption, TokenTypes, BudgetInv, NEW s \in Slots, NEW r \in Calls,
         call' = [call EXCEPT ![s] = r], UNCHANGED <<counters, outside, histories>>,
         call[s].left # <<>>, call[s].pc \in {"check", "window", "tokens"},
         \/ r = Idle
         \/ /\ r = [pc |-> "check", now |-> call[s].now, left |-> Tail(call[s].left), entry |-> NoEntry]
            /\ ~upset /\ Limit[Counter(s)] > 0 =>
                  \/ StartOf(Counter(s)) # WindowAt(Counter(s), day)
                  \/ heap[entries[Counter(s)]].tokens < Limit[Counter(s)]
  PROVE  TokenTypes' /\ BudgetInv'
<1>1. call \in [Slots -> Calls] /\ call'[s] = r
  BY DEF TokenTypes, CallsOK
<1>2. ~Locked(s) /\ r.pc \notin {"rollover", "reset"} /\ ~At(s, "idle") /\ ~At(s, "serving")
      /\ r.pc \notin Holding /\ r.pc \in {"idle", "check"}
  BY DEF Locked, At, Idle, Holding
<1>3. /\ Counter(s) \in Counters /\ Tail(call[s].left) \in Seq(Counters) /\ IsInjective(Tail(call[s].left))
      /\ \A c \in Counters : /\ Contains(Tail(call[s].left), c) <=> Contains(call[s].left, c) /\ c # Counter(s)
                             /\ Contains(call[s].left, c) => Contains(Scopes[s], c)
  BY AtWork
<1>7. r # Idle => r.pc = "check" /\ r.left = Tail(call[s].left)
  <2>1. r # Idle => r = [pc |-> "check", now |-> call[s].now, left |-> Tail(call[s].left), entry |-> NoEntry]
    OBVIOUS
  <2> QED BY <2>1
<1>4. IsInjective(r.left) /\ \A c \in Counters : Contains(r.left, c) => Contains(Scopes[s], c)
  <2>1. IsInjective(<<>>) /\ \A c \in Counters : ~Contains(<<>>, c)
    BY NoneListed
  <2>2. r = Idle => r.left = <<>>
    BY DEF Idle
  <2>3. r # Idle => r.left = Tail(call[s].left)
    BY <1>7
  <2>4. CASE r = Idle
    BY <2>1, <2>2, <2>4
  <2>5. CASE r # Idle
    BY <1>3, <2>3, <2>5
  <2> QED BY <2>4, <2>5
<1>5. ~upset /\ r.pc # "idle" => r.now = day
  BY <1>2 DEF BudgetInv, OneEntry, Idle
<1>6. ASSUME ~upset, NEW c \in Counters
      PROVE /\ s \in Charged(c)' => s \in Charged(c)
            /\ s \in Admitted(c)' => \/ s \in Admitted(c) \/ Limit[c] = 0
                                     \/ owed[c] <= Limit[c] - 1 + raced[c]
  <2>1. s \notin Charged(c)'
    BY <1>1, <1>2 DEF Charged, Charging
  <2>2. CASE r = Idle
    BY <1>1, <2>1, <2>2 DEF Admitted, Checking, Charging, At, Idle
  <2>3. CASE r # Idle
    <3>1. CASE c # Counter(s)
      <4>1. r.pc = "check" /\ r.left = Tail(call[s].left)
        BY <1>7, <2>3
      <4>2. s \in Admitted(c)' => Contains(Scopes[s], c) /\ ~Contains(Tail(call[s].left), c)
        BY <1>1, <4>1 DEF Admitted, Checking, Charging, At
      <4>3. s \in Admitted(c)' => s \in Admitted(c)
        BY <1>3, <3>1, <4>2 DEF Admitted, Checking
      <4> QED BY <2>1, <4>3
    <3>2. CASE c = Counter(s) /\ Limit[c] > 0
      BY <1>6, <2>1, <2>3, <3>2, Room
    <3>3. Limit[c] \in Nat
      BY DEF TokenAssumption
    <3> QED BY <2>1, <3>1, <3>2, <3>3
  <2> QED BY <2>2, <2>3
<1> QED BY <1>2, <1>4, <1>5, <1>6, Looks

\* The next step of a slot, with the same counter or with the next one.
PastIt(s, stage) == [pc |-> stage, now |-> call[s].now, left |-> Tail(call[s].left), entry |-> NoEntry]
StillAt(s, stage) == [pc |-> stage, now |-> call[s].now, left |-> call[s].left, entry |-> The(s)]
LEMMA Moved ==
  ASSUME CallsOK, NEW s \in Slots, NEW stage
  PROVE  /\ Becomes(s, stage) => call' = [call EXCEPT ![s] = StillAt(s, stage)]
         /\ NextCounter(s, stage) => call' = [call EXCEPT ![s] = PastIt(s, stage)]
<1>1. call \in [Slots -> Calls] /\ call[s] \in Calls
  BY DEF CallsOK
<1>2. call[s] = [pc |-> call[s].pc, now |-> call[s].now, left |-> call[s].left, entry |-> call[s].entry]
  BY <1>1 DEF Calls
<1>3. [call[s] EXCEPT !.pc = stage] = StillAt(s, stage)
  BY <1>2 DEF StillAt, The
<1>4. [call[s] EXCEPT !.pc = stage, !.left = Tail(call[s].left), !.entry = NoEntry] = PastIt(s, stage)
  <2> DEFINE l == Tail(call[s].left)
             a == [call[s] EXCEPT !.pc = stage]
             b == [a EXCEPT !.left = l]
  <2>1. a = [pc |-> stage, now |-> call[s].now, left |-> call[s].left, entry |-> call[s].entry]
    BY <1>2
  <2>2. [call[s] EXCEPT !.pc = stage, !.left = l, !.entry = NoEntry] = [b EXCEPT !.entry = NoEntry]
    OBVIOUS
  <2> HIDE DEF a, l
  <2>3. b = [pc |-> stage, now |-> call[s].now, left |-> l, entry |-> call[s].entry]
    BY <2>1
  <2> HIDE DEF b
  <2>4. [b EXCEPT !.entry = NoEntry] = [pc |-> stage, now |-> call[s].now, left |-> l, entry |-> NoEntry]
    BY <2>3
  <2> QED BY <2>2, <2>4 DEF PastIt, l
<1>5. Becomes(s, stage) => call' = [call EXCEPT ![s] = [call[s] EXCEPT !.pc = stage]]
  BY <1>1 DEF Becomes
<1>6. NextCounter(s, stage) => call' = [call EXCEPT ![s] = [call[s] EXCEPT !.pc = stage, !.left = Tail(call[s].left), !.entry = NoEntry]]
  BY <1>1 DEF NextCounter
<1> QED BY <1>3, <1>4, <1>5, <1>6

\* What a slot that holds an entry knows of it.
LEMMA Held ==
  ASSUME TokenTypes, BudgetInv, NEW s \in Slots, Holds(s)
  PROVE  /\ The(s) \in 1..Len(heap) /\ heap[The(s)] \in Entries /\ call[s].left # <<>>
         /\ ~upset => /\ entries[Counter(s)] = The(s) /\ call[s].now = day
                      /\ StartOf(Counter(s)) = heap[The(s)].start /\ Window(s) = WindowAt(Counter(s), day)
<1>1. The(s) \in 1..Len(heap) /\ call[s].left # <<>> /\ Len(heap) \in Nat
  BY DEF TokenTypes, CallsOK, HeapOK
<1>2. heap[The(s)] \in Entries /\ The(s) # NoEntry
  BY <1>1 DEF TokenTypes, HeapOK, NoEntry
<1>3. ~upset => entries[Counter(s)] = The(s) /\ call[s].now = day
  BY DEF BudgetInv, OneEntry, Holds, At, Holding
<1> QED BY <1>1, <1>2, <1>3 DEF StartOf, Window

\* The steps of the check (CheckTokens), and the test of the window in
\* addToScope, keep the budgets.
LEMMA Checks ==
  ASSUME TokenAssumption, TokenTypes, BudgetInv, NEW s \in Slots,
         FindEntry(s) \/ ReadWindow(s) \/ ReadTokens(s) \/ TryWindow(s)
  PROVE  TokenTypes' /\ BudgetInv'
<1> DEFINE next == PastIt(s, "check")
           at(stage) == StillAt(s, stage)
<1>1. call \in [Slots -> Calls] /\ call[s] \in Calls /\ UNCHANGED <<counters, outside, histories>>
  BY DEF TokenTypes, CallsOK, FindEntry, ReadWindow, ReadTokens, TryWindow
<1>2. call[s].left # <<>>
  <2>1. At(s, "check") \/ Holds(s)
    BY DEF FindEntry, ReadWindow, ReadTokens, TryWindow, At, Holds, Holding
  <2> QED BY <2>1, Held DEF FindEntry, ReadWindow, ReadTokens, TryWindow, At
<1>3. Counter(s) \in Counters /\ Tail(call[s].left) \in Seq(Counters)
  BY <1>2, AtWork
<1>4. next \in Calls /\ Idle \in Calls
  <2>1. call[s].now \in Days /\ 0 \in Days /\ 0 \in Nat /\ <<>> \in Seq(Counters)
    BY <1>1 DEF Calls, Days, TokenAssumption
  <2> QED BY <1>3, <2>1 DEF Calls, Idle, NoEntry, PastIt
<1>5. \A stage \in {"window", "tokens", "same", "lock"} : at(stage) \in Calls
  BY <1>1 DEF Calls, Holding, The, StillAt
<1>6. ASSUME NextCounter(s, "check") PROVE call' = [call EXCEPT ![s] = next]
  BY <1>6, Moved DEF TokenTypes
<1>7. ASSUME NEW stage \in {"window", "tokens", "same", "lock"}, Becomes(s, stage) PROVE call' = [call EXCEPT ![s] = at(stage)]
  BY <1>7, Moved DEF TokenTypes
<1>8. ASSUME call' = [call EXCEPT ![s] = next], call[s].pc \in {"check", "window", "tokens"},
             ~upset /\ Limit[Counter(s)] > 0 =>
                  \/ StartOf(Counter(s)) # WindowAt(Counter(s), day)
                  \/ heap[entries[Counter(s)]].tokens < Limit[Counter(s)]
      PROVE  TokenTypes' /\ BudgetInv'
  BY <1>1, <1>2, <1>4, <1>8, GoesPast DEF PastIt
<1>9. CASE FindEntry(s)
  <2>1. call[s].pc = "check" /\ ~At(s, "idle") /\ ~At(s, "serving")
    BY <1>9 DEF FindEntry, At
  <2>2. CASE Limit[Counter(s)] = 0 \/ entries[Counter(s)] = NoEntry
    <3>1. NextCounter(s, "check")
      BY <1>9, <2>2 DEF FindEntry, Unlimited
    <3>2. entries[Counter(s)] = NoEntry => StartOf(Counter(s)) # WindowAt(Counter(s), day)
      <4>1. day \in Days /\ day <= day
        BY DEF TokenTypes, EventsOK, Days
      <4>2. WindowAt(Counter(s), day) \in Nat \ {0}
        BY <1>3, <4>1, Windows
      <4> QED BY <4>2 DEF StartOf
    <3> HIDE DEF next
    <3>3. Limit[Counter(s)] = 0 => ~(Limit[Counter(s)] > 0)
      OBVIOUS
    <3> QED BY <1>6, <1>8, <2>1, <2>2, <3>1, <3>2, <3>3
  <2>3. CASE Limit[Counter(s)] # 0 /\ entries[Counter(s)] # NoEntry
    <3> DEFINE r == [pc |-> "window", now |-> call[s].now, left |-> call[s].left, entry |-> entries[Counter(s)]]
    <3>1. call' = [call EXCEPT ![s] = r]
      BY <1>1, <1>9, <2>3 DEF FindEntry, Unlimited, Calls
    <3>2. entries[Counter(s)] \in 0..Len(heap) /\ Len(heap) \in Nat
      BY <1>3 DEF TokenTypes, HeapOK
    <3>3. entries[Counter(s)] \in 1..Len(heap)
      BY <2>3, <3>2 DEF NoEntry
    <3>4. r \in Calls
      BY <1>1, <3>3 DEF Calls, Holding
    <3>5. r.left = call[s].left /\ r.now = call[s].now /\ r.pc = "window" /\ r.entry = entries[Counter(s)]
      OBVIOUS
    <3> HIDE DEF r
    <3> QED BY <1>1, <1>2, <2>1, <3>1, <3>3, <3>4, <3>5, GoesOn
  <2> QED BY <2>2, <2>3
<1>10. CASE ReadWindow(s)
  <2>1. call[s].pc = "window" /\ Holds(s)
    BY <1>10 DEF ReadWindow, At, Holds, Holding
  <2>2. CASE heap[The(s)].start = Window(s)
    <3>1. call' = [call EXCEPT ![s] = at("tokens")]
      BY <1>7, <1>10, <2>2 DEF ReadWindow
    <3>2. at("tokens") \in Calls
      BY <1>5
    <3>3. at("tokens").left = call[s].left /\ at("tokens").now = call[s].now
          /\ at("tokens").pc = "tokens" /\ at("tokens").entry = The(s)
      BY DEF StillAt
    <3> HIDE DEF at
    <3> QED BY <1>1, <1>2, <2>1, <2>2, <3>1, <3>2, <3>3, Held, GoesOn
  <2>3. CASE heap[The(s)].start # Window(s)
    <3>1. NextCounter(s, "check")
      BY <1>10, <2>3 DEF ReadWindow
    <3> HIDE DEF next
    <3> QED BY <1>6, <1>8, <2>1, <2>3, <3>1, Held
  <2> QED BY <2>2, <2>3
<1>11. CASE ReadTokens(s)
  <2>1. call[s].pc = "tokens" /\ Holds(s)
    BY <1>11 DEF ReadTokens, At, Holds, Holding
  <2>2. CASE Exhausted(s)
    <3>1. call' = [call EXCEPT ![s] = Idle]
      BY <1>11, <2>2 DEF ReadTokens
    <3> QED BY <1>1, <1>2, <1>4, <2>1, <3>1, GoesPast
  <2>3. CASE ~Exhausted(s)
    <3>1. NextCounter(s, "check")
      BY <1>11, <2>3 DEF ReadTokens
    <3>2. heap[The(s)].tokens \in Nat /\ Limit[Counter(s)] \in Nat
      BY <1>3, <2>1, Held DEF Entries, TokenAssumption
    <3>3. heap[The(s)].tokens < Limit[Counter(s)]
      BY <2>3, <3>2 DEF Exhausted
    <3> HIDE DEF next
    <3> QED BY <1>6, <1>8, <2>1, <3>1, <3>3, Held
  <2> QED BY <2>2, <2>3
<1>12. CASE TryWindow(s)
  <2>1. call[s].pc = "try" /\ Holds(s)
    BY <1>12 DEF TryWindow, At, Holds, Holding
  <2>2. PICK stage \in {"same", "lock"} : Becomes(s, stage) /\ (stage = "same" => heap[The(s)].start = Window(s))
    BY <1>12 DEF TryWindow
  <2>3. call' = [call EXCEPT ![s] = at(stage)] /\ at(stage) \in Calls
    BY <1>5, <1>7, <2>2
  <2>4. at(stage).left = call[s].left /\ at(stage).now = call[s].now /\ at(stage).pc = stage /\ at(stage).entry = The(s)
    BY DEF StillAt
  <2> HIDE DEF at
  <2> QED BY <1>1, <1>2, <2>1, <2>2, <2>3, <2>4, Held, GoesOn
<1> QED BY <1>9, <1>10, <1>11, <1>12

\* A request whose budgets are not exhausted is served.
LEMMA Serves ==
  ASSUME TokenAssumption, TokenTypes, BudgetInv, NEW s \in Slots, Serve(s)
  PROVE  TokenTypes' /\ BudgetInv'
<1> DEFINE r == StillAt(s, "serving")
<1>1. call \in [Slots -> Calls] /\ call[s] \in Calls /\ UNCHANGED <<counters, outside, histories>>
      /\ call[s].pc = "check" /\ call[s].left = <<>> /\ IsInjective(call[s].left)
      /\ \A c \in Counters : Contains(call[s].left, c) => Contains(Scopes[s], c)
  BY DEF TokenTypes, CallsOK, Serve, At
<1>2. call' = [call EXCEPT ![s] = r] /\ r \in Calls /\ call'[s] = r
  <2>1. call' = [call EXCEPT ![s] = r]
    BY Moved DEF Serve, TokenTypes
  <2>2. r \in Calls
    BY <1>1 DEF Calls, The, StillAt
  <2> QED BY <1>1, <2>1, <2>2
<1>3. ASSUME NEW c \in Counters PROVE s \notin Charged(c)' /\ (s \in Admitted(c)' => s \in Admitted(c))
  <2>1. ~Contains(call[s].left, c)
    BY <1>1, NoneListed
  <2>2. s \notin Charged(c)'
    BY <1>2 DEF Charged, Charging, StillAt
  <2>3. s \in Admitted(c)' => Contains(Scopes[s], c)
    BY DEF Admitted
  <2>4. Contains(Scopes[s], c) => s \in Admitted(c)
    BY <1>1, <2>1 DEF Admitted, Checking
  <2> QED BY <2>2, <2>3, <2>4
<1>4. r.pc = "serving" /\ r.left = call[s].left /\ ~Locked(s)
  BY <1>1 DEF Locked, StillAt
<1> HIDE DEF r
<1> QED BY <1>1, <1>2, <1>3, <1>4, Looks DEF Holding

-----------------------------------------------------------------------------
(* The steps of the addition.                                              *)

\* One entry is changed, and the others are not.
LEMMA EntryChanged ==
  ASSUME HeapOK, NEW e \in 1..Len(heap), NEW n \in Entries, heap' = [heap EXCEPT ![e] = n],
         UNCHANGED entries
  PROVE  /\ HeapOK' /\ Len(heap') = Len(heap) /\ heap'[e] = n
         /\ \A d \in 1..Len(heap) : heap[d] \in Entries /\ (d # e => heap'[d] = heap[d])
BY ExceptSeq DEF HeapOK

\* What the addition makes of an entry is an entry.
LEMMA EntryEdits ==
  ASSUME NEW e \in Entries, NEW n \in Nat
  PROVE  /\ [e EXCEPT !.tokens = @ + 1] \in Entries
         /\ [e EXCEPT !.start = n] \in Entries
         /\ [e EXCEPT !.locked = TRUE] \in Entries /\ [e EXCEPT !.locked = FALSE] \in Entries
         /\ [e EXCEPT !.tokens = 1, !.locked = FALSE] \in Entries
<1>1. e.tokens + 1 \in Nat /\ 1 \in Nat
  BY DEF Entries
<1> QED BY <1>1 DEF Entries

\* A slot that goes on charging its counter is admitted by the same ones.
LEMMA StaysAtWork ==
  ASSUME TokenTypes, NEW s \in Slots, NEW r \in Calls, call' = [call EXCEPT ![s] = r],
         Len(heap') \in Nat, Len(heap) <= Len(heap'),
         Charging(s), call[s].left # <<>>, r.left = call[s].left, r.entry \in 1..Len(heap'),
         r.pc \in {"try", "same", "lock", "rollover", "reset"}
  PROVE  /\ CallsOK' /\ call'[s] = r /\ \A t \in Slots : t # s => call'[t] = call[t]
         /\ \A c \in Counters : /\ s \in Charged(c)' <=> s \in Charged(c)
                                /\ s \in Admitted(c)' <=> s \in Admitted(c)
<1>1. CallsOK /\ Len(heap) \in Nat
  BY DEF TokenTypes, HeapOK
<1>2. IsInjective(r.left) /\ \A c \in Counters : Contains(r.left, c) => Contains(Scopes[s], c)
  BY <1>1 DEF CallsOK
<1>3. CallsOK' /\ call'[s] = r /\ \A t \in Slots : t # s => call'[t] = call[t]
  BY <1>1, <1>2, SlotMoved
<1>4. /\ r.pc \notin {"serving", "check", "window", "tokens"}
      /\ r.pc \in {"add", "try", "same", "lock", "rollover", "reset"}
      /\ call[s].pc \notin {"serving", "check", "window", "tokens"}
      /\ call[s].pc \in {"add", "try", "same", "lock", "rollover", "reset"}
  BY DEF Charging
<1>5. ASSUME NEW c \in Counters
      PROVE (s \in Charged(c)' <=> s \in Charged(c)) /\ (s \in Admitted(c)' <=> s \in Admitted(c))
  <2>1. s \in Charged(c)' <=> s \in Charged(c)
    BY <1>3, <1>4 DEF Charged, Charging
  <2>2. s \in Admitted(c) <=> Contains(Scopes[s], c) /\ Contains(call[s].left, c)
    BY <1>4 DEF Admitted, Checking, Charging, At
  <2>3. s \in Admitted(c)' <=> Contains(Scopes[s], c) /\ Contains(call[s].left, c)
    BY <1>3, <1>4 DEF Admitted, Checking, Charging, At
  <2> QED BY <2>1, <2>2, <2>3
<1> QED BY <1>3, <1>5

\* A slot that has charged its counter is no longer among those it has admitted.
LEMMA ComesPast ==
  ASSUME TokenAssumption, TokenTypes, BudgetInv, NEW s \in Slots,
         call' = [call EXCEPT ![s] = PastIt(s, "add")],
         Len(heap') \in Nat, Len(heap) <= Len(heap'), Charging(s), call[s].left # <<>>
  PROVE  /\ CallsOK' /\ call'[s] = PastIt(s, "add") /\ \A t \in Slots : t # s => call'[t] = call[t]
         /\ \A c \in Counters : IF c = Counter(s) THEN s \in Admitted(c) /\ s \notin Admitted(c)'
                                ELSE /\ s \in Charged(c)' <=> s \in Charged(c)
                                     /\ s \in Admitted(c)' <=> s \in Admitted(c)
<1> DEFINE r == PastIt(s, "add")
           k == Counter(s)
<1>1. CallsOK /\ Len(heap) \in Nat /\ call[s] \in Calls
  BY DEF TokenTypes, HeapOK, CallsOK
<1>2. /\ k \in Counters /\ Tail(call[s].left) \in Seq(Counters) /\ IsInjective(Tail(call[s].left))
      /\ Contains(Scopes[s], k) /\ Contains(call[s].left, k)
      /\ \A c \in Counters : /\ Contains(Tail(call[s].left), c) <=> Contains(call[s].left, c) /\ c # k
                             /\ Contains(call[s].left, c) => Contains(Scopes[s], c)
  BY AtWork
<1>3. r.left = Tail(call[s].left) /\ r.pc = "add" /\ r \in Calls
  BY <1>1, <1>2 DEF PastIt, Calls, NoEntry
<1> HIDE DEF r, k
<1>4. CallsOK' /\ call'[s] = r /\ \A t \in Slots : t # s => call'[t] = call[t]
  <2>1. r.pc \notin Holding
    BY <1>3 DEF Holding
  <2>2. call' = [call EXCEPT ![s] = r]
    BY DEF r
  <2>3. IsInjective(r.left) /\ \A c \in Counters : Contains(r.left, c) => Contains(Scopes[s], c)
    BY <1>2, <1>3
  <2> QED BY <1>1, <1>3, <2>1, <2>2, <2>3, SlotMoved
<1>5. /\ call[s].pc \notin {"serving", "check", "window", "tokens"}
      /\ call[s].pc \in {"add", "try", "same", "lock", "rollover", "reset"}
  BY DEF Charging
<1>6. ASSUME NEW c \in Counters
      PROVE  /\ s \in Charged(c) <=> Contains(Scopes[s], c) /\ ~Contains(call[s].left, c)
             /\ s \in Charged(c)' <=> Contains(Scopes[s], c) /\ ~Contains(Tail(call[s].left), c)
             /\ s \in Admitted(c) <=> Contains(Scopes[s], c) /\ Contains(call[s].left, c)
             /\ s \in Admitted(c)' <=> Contains(Scopes[s], c) /\ Contains(Tail(call[s].left), c)
  <2>1. s \in Charged(c) <=> Contains(Scopes[s], c) /\ ~Contains(call[s].left, c)
    BY <1>5 DEF Charged, Charging
  <2>2. s \in Charged(c)' <=> Contains(Scopes[s], c) /\ ~Contains(Tail(call[s].left), c)
    BY <1>3, <1>4 DEF Charged, Charging
  <2>3. s \in Admitted(c) <=> Contains(Scopes[s], c) /\ Contains(call[s].left, c)
    BY <1>5 DEF Admitted, Checking, Charging, At
  <2>4. s \in Admitted(c)' <=> Contains(Scopes[s], c) /\ Contains(Tail(call[s].left), c)
    BY <1>3, <1>4 DEF Admitted, Checking, Charging, At
  <2> QED BY <2>1, <2>2, <2>3, <2>4
<1>7. ASSUME NEW c \in Counters, c = k PROVE s \in Admitted(c) /\ s \notin Admitted(c)'
  BY <1>2, <1>6, <1>7
<1>8. ASSUME NEW c \in Counters, c # k
      PROVE  (s \in Charged(c)' <=> s \in Charged(c)) /\ (s \in Admitted(c)' <=> s \in Admitted(c))
  BY <1>2, <1>6, <1>8
<1> QED BY <1>4, <1>7, <1>8 DEF r, k

\* What is spent and written of a counter that is left alone, or charged.
LEMMA Charges ==
  ASSUME TokenAssumption, TokenTypes, NEW s \in Slots, \A t \in Slots : t # s => call'[t] = call[t],
         UNCHANGED <<day, buffer, rows, lost>>, CountsOK', NEW c \in Counters, Written(c), Spent(c),
         \/ /\ owed'[c] = owed[c] /\ raced'[c] = raced[c]
            /\ s \in Charged(c)' => s \in Charged(c)
            /\ s \in Admitted(c)' => s \in Admitted(c)
         \/ /\ owed'[c] = owed[c] + 1 /\ raced'[c] \in {raced[c], raced[c] + 1}
            /\ s \in Admitted(c) /\ s \notin Admitted(c)'
  PROVE  Written(c)' /\ Spent(c)'
<1> DEFINE a == Cardinality(Admitted(c))
           b == Cardinality(Admitted(c)')
           p == Cardinality(Charged(c))
           q == Cardinality(Charged(c)')
<1>1. /\ a \in Nat /\ b \in Nat /\ p \in Nat /\ q \in Nat /\ Cardinality(Slots) \in Nat
      /\ (s \in Admitted(c)' => s \in Admitted(c)) => b <= a
      /\ s \in Admitted(c) /\ s \notin Admitted(c)' => b = a - 1
      /\ (s \in Charged(c)' => s \in Charged(c)) => q <= p
      /\ q <= p + 1
  BY SetsMoved
<1>2. /\ owed[c] \in Nat /\ raced[c] \in Nat /\ lost[c] \in Nat /\ owed'[c] \in Nat /\ raced'[c] \in Nat
      /\ Limit[c] \in Nat /\ lost'[c] = lost[c]
  BY DEF TokenTypes, CountsOK, TokenAssumption
<1>3. InList(rows, c)' = InList(rows, c) /\ InList(buffer, c)' = InList(buffer, c)
  BY ListsSame
<1>4. InList(rows, c) \in Nat /\ InList(buffer, c) \in Nat
  BY ListCounts DEF TokenTypes, EventsOK
<1>5. InList(rows, c) + InList(buffer, c) + p <= owed[c]
  BY DEF Written
<1>6. Limit[c] > 0 => owed[c] + a <= Limit[c] - 1 + Cardinality(Slots) + raced[c] + lost[c]
  BY DEF Spent
<1>7. Written(c)' <=> InList(rows, c)' + InList(buffer, c)' + q <= owed'[c]
  BY DEF Written
<1>8. Spent(c)' <=> (Limit[c] > 0 => owed'[c] + b <= Limit[c] - 1 + Cardinality(Slots) + raced'[c] + lost'[c])
  BY DEF Spent
<1>9. \/ owed'[c] = owed[c] /\ raced'[c] = raced[c] /\ q <= p /\ b <= a
      \/ owed'[c] = owed[c] + 1 /\ raced'[c] \in {raced[c], raced[c] + 1} /\ b = a - 1
  BY <1>1
<1> HIDE DEF a, b, p, q
<1>10. InList(rows, c)' + InList(buffer, c)' + q <= owed'[c]
  BY <1>1, <1>2, <1>3, <1>4, <1>5, <1>9
<1>11. Limit[c] > 0 => owed'[c] + b <= Limit[c] - 1 + Cardinality(Slots) + raced'[c] + lost'[c]
  BY <1>1, <1>2, <1>6, <1>9
<1> QED BY <1>7, <1>8, <1>10, <1>11

\* A slot changes the entry it holds: no other counter notices, and its own one
\* has to be balanced.
LEMMA Works ==
  ASSUME TokenAssumption, TokenTypes, BudgetInv, NEW s \in Slots, NEW r \in Calls, NEW n \in Entries,
         Holds(s), heap' = [heap EXCEPT ![The(s)] = n], UNCHANGED <<entries, outside, lost, upset>>,
         CallsOK', CountsOK', call'[s] = r, \A t \in Slots : t # s => call'[t] = call[t],
         n.start \in {heap[The(s)].start, Window(s)}, heap[The(s)].locked /\ ~Locked(s) => n.locked,
         r.now = call[s].now,
         \/ /\ r.left = call[s].left /\ r.entry = The(s) /\ r.pc \in {"try", "rollover", "reset"}
            /\ ~upset /\ r.pc # "try" => n.locked /\ (Locked(s) \/ ~heap[The(s)].locked)
         \/ r.pc = "add",
         r.pc = "reset" => n.start = Window(s),
         \A c \in Counters :
            \/ /\ owed'[c] = owed[c] /\ raced'[c] = raced[c]
               /\ s \in Charged(c)' => s \in Charged(c)
               /\ s \in Admitted(c)' => s \in Admitted(c)
            \/ /\ owed'[c] = owed[c] + 1 /\ raced'[c] \in {raced[c], raced[c] + 1}
               /\ s \in Admitted(c) /\ s \notin Admitted(c)' /\ c = Counter(s),
         ~upset => \A c \in Counters : c = Counter(s) => Balanced(c)'
  PROVE  TokenTypes' /\ BudgetInv'
<1> DEFINE e == The(s)
           k == Counter(s)
<1>1. /\ e \in 1..Len(heap) /\ heap[e] \in Entries /\ call[s].left # <<>> /\ HeapOK
      /\ ~upset => entries[k] = e /\ call[s].now = day /\ Window(s) = WindowAt(k, day)
  BY Held DEF TokenTypes
<1>2. UNCHANGED <<entries, day, buffer, rows, lost, upset>>
  BY DEF outside
<1>3. /\ HeapOK' /\ Len(heap') = Len(heap) /\ heap'[e] = n
      /\ \A d \in 1..Len(heap) : heap[d] \in Entries /\ (d # e => heap'[d] = heap[d])
  BY <1>1, <1>2, EntryChanged
<1>4. TokenTypes'
  BY <1>2, <1>3 DEF TokenTypes, EventsOK
<1>5. k \in Counters /\ k = Head(call[s].left)
  BY <1>1, AtWork
<1>6. ASSUME ~upset
      PROVE  /\ OneEntry' /\ \A t \in Slots : InWindow(t)'
             /\ \A c \in Counters : Balanced(c)' /\ Written(c)' /\ Spent(c)'
  <2>1. /\ OneEntry /\ \A t \in Slots : InWindow(t)
        /\ \A c \in Counters : Balanced(c) /\ Written(c) /\ Spent(c)
    BY <1>6 DEF BudgetInv
  <2>2. ASSUME NEW t \in Slots, Holds(t)
        PROVE  /\ The(t) \in 1..Len(heap) /\ Counter(t) \in Counters /\ entries[Counter(t)] = The(t)
               /\ Window(t) = WindowAt(Counter(t), day)
               /\ The(t) = e => Counter(t) = k
    <3>1. The(t) \in 1..Len(heap) /\ entries[Counter(t)] = The(t) /\ call[t].left # <<>>
          /\ Window(t) = WindowAt(Counter(t), day)
      BY <1>6, <2>2, Held
    <3>2. Counter(t) \in Counters
      BY <2>2, <3>1, AtWork
    <3>3. The(t) = e => Counter(t) = k
      <4>1. entries[k] # NoEntry
        BY <1>1, <1>6 DEF NoEntry
      <4> QED BY <1>1, <1>5, <1>6, <2>1, <3>1, <3>2, <4>1 DEF OneEntry
    <3> QED BY <3>1, <3>2, <3>3
  <2>3. OneEntry'
    <3>1. ASSUME NEW t \in Slots, t # s, Locked(t) PROVE heap'[The(t)].locked
      <4>1. Holds(t) /\ heap[The(t)].locked /\ The(t) \in 1..Len(heap)
        <5>1. Holds(t)
          BY <3>1 DEF Holds, Holding, Locked
        <5> QED BY <2>1, <2>2, <3>1, <5>1 DEF OneEntry
      <4>2. CASE The(t) = e
        <5>1. ~Locked(s)
          BY <2>1, <3>1, <4>2 DEF OneEntry
        <5> QED BY <1>3, <4>1, <4>2, <5>1
      <4>3. CASE The(t) # e
        BY <1>3, <4>1, <4>3
      <4> QED BY <4>2, <4>3
    <3>2. r.pc \in {"rollover", "reset"} =>
            /\ heap'[r.entry].locked
            /\ \A t \in Slots : t # s /\ Locked(t) => The(t) # r.entry
      <4>1. r.pc \in {"rollover", "reset"} => n.locked /\ r.entry = e /\ (Locked(s) \/ ~heap[e].locked)
        BY <1>6
      <4> QED BY <1>3, <2>1, <4>1 DEF OneEntry
    <3>3. r.now = day
      BY <1>1, <1>6
    <3>4. r.pc \in Holding => entries[Head(r.left)] = r.entry
      BY <1>1, <1>5, <1>6 DEF Holding
    <3> QED BY <1>2, <2>1, <3>1, <3>2, <3>3, <3>4, EntriesMoved
  <2>4. ASSUME NEW t \in Slots PROVE InWindow(t)'
    <3>1. CASE t = s
      <4>1. r.pc = "reset" => heap'[r.entry].start = WindowAt(Head(r.left), r.now)
        BY <1>3 DEF Window, Counter
      <4>2. r.pc \notin {"tokens", "same"}
        OBVIOUS
      <4> QED BY <3>1, <4>1, <4>2 DEF InWindow, At, The, Window, Counter
    <3>2. CASE t # s
      <4>1. call'[t] = call[t]
        BY <3>2
      <4>2. ASSUME At(t, "tokens") \/ At(t, "same") \/ At(t, "reset") PROVE heap'[The(t)].start = Window(t)
        <5>1. Holds(t) /\ heap[The(t)].start = Window(t)
          BY <2>1, <4>2 DEF InWindow, Holds, Holding, At
        <5>2. CASE The(t) = e
          <6>1. Window(t) = Window(s)
            BY <1>1, <1>6, <2>2, <5>1, <5>2
          <6> QED BY <1>3, <5>1, <5>2, <6>1
        <5>3. CASE The(t) # e
          BY <1>3, <2>2, <5>1, <5>3
        <5> QED BY <5>2, <5>3
      <4> QED BY <4>1, <4>2 DEF InWindow, At, The, Window, Counter
    <3> QED BY <3>1, <3>2
  <2>5. ASSUME NEW c \in Counters PROVE Balanced(c)' /\ Written(c)' /\ Spent(c)'
    <3>1. Written(c)' /\ Spent(c)'
      BY <1>2, <2>1, Charges
    <3>2. CASE c = k
      BY <1>6, <3>1, <3>2
    <3>3. CASE c # k
      <4>1. owed'[c] = owed[c] /\ raced'[c] = raced[c]
        BY <3>3
      <4>2. ResettingOf(c)' <=> ResettingOf(c)
        <5>1. r.pc = "reset" => Head(r.left) = k
          BY <1>5
        <5>2. (\E t \in Slots : call'[t].pc = "reset" /\ Head(call'[t].left) = c)
                <=> (\E t \in Slots : call[t].pc = "reset" /\ Head(call[t].left) = c)
          BY <1>5, <3>3, <5>1
        <5> QED BY <5>2 DEF ResettingOf, At, Counter
      <4>3. entries[c] \in 0..Len(heap) /\ entries[c] # e
        BY <1>1, <1>5, <1>6, <2>1, <3>3 DEF OneEntry, HeapOK, NoEntry
      <4>4. entries[c] # NoEntry => heap'[entries[c]] = heap[entries[c]]
        <5>1. Len(heap) \in Nat
          BY <1>1 DEF HeapOK
        <5>2. entries[c] # NoEntry => entries[c] \in 1..Len(heap)
          BY <4>3, <5>1 DEF NoEntry
        <5> QED BY <1>3, <4>3, <5>2
      <4>5. StartOf(c)' = StartOf(c)
        BY <1>2, <4>4 DEF StartOf
      <4>6. WindowAt(c, day) # 0
        <5>1. day \in Days /\ day <= day
          BY DEF TokenTypes, EventsOK, Days
        <5>2. WindowAt(c, day) \in Nat \ {0}
          BY <5>1, Windows
        <5> QED BY <5>2
      <4>7. StartOf(c) = WindowAt(c, day) => entries[c] # NoEntry
        BY <4>6 DEF StartOf
      <4> QED BY <1>2, <2>1, <3>1, <4>1, <4>2, <4>4, <4>5, <4>7 DEF Balanced
    <3> QED BY <3>2, <3>3
  <2> QED BY <2>3, <2>4, <2>5
<1>7. BudgetInv'
  BY <1>2, <1>6 DEF BudgetInv
<1> QED BY <1>4, <1>7

\* What the counter of a slot shows before and after the slot changes its entry.
LEMMA Own ==
  ASSUME TokenAssumption, TokenTypes, BudgetInv, ~upset, NEW s \in Slots, NEW n \in Entries,
         Holds(s), heap' = [heap EXCEPT ![The(s)] = n], UNCHANGED <<entries, day>>,
         NEW c \in Counters, c = Counter(s)
  PROVE  /\ StartOf(c)' = n.start /\ heap'[entries'[c]] = n
         /\ StartOf(c) = heap[The(s)].start /\ heap[entries[c]] = heap[The(s)]
         /\ Balanced(c) /\ WindowAt(c, day) = Window(s) /\ WindowAt(c, day)' = Window(s) /\ Window(s) \in Nat
         /\ Resetting(The(s)) <=> ResettingOf(c)
         /\ Locked(s) => (ResettingOf(c) <=> At(s, "reset")) /\ \A t \in Slots : t # s => ~(At(t, "reset") /\ Counter(t) = c)
<1>1. /\ The(s) \in 1..Len(heap) /\ heap[The(s)] \in Entries /\ HeapOK
      /\ entries[c] = The(s) /\ Window(s) = WindowAt(c, day)
      /\ OneEntry /\ Balanced(c)
  BY Held DEF TokenTypes, BudgetInv
<1>2. heap'[The(s)] = n
  BY <1>1, EntryChanged
<1>3. entries[c] # NoEntry
  BY <1>1 DEF NoEntry
<1>4. Window(s) \in Nat
  <2>1. day \in Days /\ day <= day
    BY DEF TokenTypes, EventsOK, Days
  <2>2. WindowAt(c, day) \in Nat \ {0}
    BY <2>1, Windows
  <2> QED BY <1>1, <2>2
<1>5. ASSUME NEW t \in Slots, At(t, "reset")
      PROVE  Holds(t) /\ Locked(t) /\ (The(t) = The(s) <=> Counter(t) = c)
  <2>1. Holds(t) /\ Locked(t)
    BY <1>5 DEF At, Holds, Holding, Locked
  <2>2. entries[Counter(t)] = The(t) /\ call[t].left # <<>>
    BY <2>1, Held
  <2>3. Counter(t) \in Counters
    BY <2>2, AtWork
  <2> QED BY <1>1, <1>3, <2>1, <2>2, <2>3 DEF OneEntry
<1>6. Resetting(The(s)) <=> ResettingOf(c)
  BY <1>5 DEF Resetting, ResettingOf
<1>7. ASSUME Locked(s), NEW t \in Slots, t # s PROVE ~(At(t, "reset") /\ Counter(t) = c)
  BY <1>1, <1>5, <1>7 DEF OneEntry
<1>8. Locked(s) => (ResettingOf(c) <=> At(s, "reset"))
  BY <1>7 DEF ResettingOf
<1>9. StartOf(c)' = n.start /\ StartOf(c) = heap[The(s)].start /\ WindowAt(c, day)' = Window(s)
  BY <1>1, <1>2, <1>3 DEF StartOf, WindowAt
<1> QED BY <1>1, <1>2, <1>4, <1>6, <1>7, <1>8, <1>9

\* The slot adds a token to an entry of its window.
LEMMA Adds ==
  ASSUME TokenAssumption, TokenTypes, BudgetInv, NEW s \in Slots, AddTokens(s)
  PROVE  TokenTypes' /\ BudgetInv'
<1> DEFINE r == PastIt(s, "add")
           n == [heap[The(s)] EXCEPT !.tokens = @ + 1]
<1>1. Holds(s) /\ Charging(s) /\ ~Locked(s) /\ ~At(s, "reset") /\ At(s, "same")
  BY DEF AddTokens, At, Holds, Holding, Charging, Locked
<1>2. heap[The(s)] \in Entries /\ call[s].left # <<>> /\ The(s) \in 1..Len(heap)
      /\ heap \in Seq(Entries) /\ Len(heap) \in Nat
  BY <1>1, Held DEF TokenTypes, HeapOK
<1>3. /\ n \in Entries /\ n.start = heap[The(s)].start /\ n.locked = heap[The(s)].locked
      /\ n.tokens = heap[The(s)].tokens + 1
  <2>1. heap[The(s)].tokens + 1 \in Nat
    BY <1>2 DEF Entries
  <2> QED BY <1>2, <2>1, EntryEdits DEF Entries
<1>4. heap' = [heap EXCEPT ![The(s)] = n] /\ UNCHANGED <<entries, outside, lost, upset>>
      /\ call' = [call EXCEPT ![s] = r] /\ UNCHANGED <<entries, day>>
  BY Moved DEF AddTokens, Owe, TokenTypes, outside
<1> HIDE DEF n
<1>5. Len(heap') \in Nat /\ Len(heap) <= Len(heap')
  BY <1>2, <1>4
<1>6. /\ CallsOK' /\ call'[s] = r /\ \A t \in Slots : t # s => call'[t] = call[t]
      /\ \A c \in Counters : IF c = Counter(s) THEN s \in Admitted(c) /\ s \notin Admitted(c)'
                             ELSE /\ s \in Charged(c)' <=> s \in Charged(c)
                                  /\ s \in Admitted(c)' <=> s \in Admitted(c)
  BY <1>1, <1>2, <1>4, <1>5, ComesPast
<1>7. Counter(s) \in Counters /\ Tail(call[s].left) \in Seq(Counters)
  BY <1>2, AtWork
<1>8. r \in Calls /\ r.pc = "add" /\ r.now = call[s].now
  BY <1>7 DEF PastIt, Calls, NoEntry, TokenTypes, CallsOK
<1>9. owed \in [Counters -> Nat] /\ raced \in [Counters -> Nat] /\ lost \in [Counters -> Nat]
  BY DEF TokenTypes, CountsOK
<1>10. /\ owed' = [owed EXCEPT ![Counter(s)] = @ + 1]
       /\ raced' = [raced EXCEPT ![Counter(s)] = IF Resetting(The(s)) THEN @ + 1 ELSE @]
       /\ UNCHANGED <<lost, upset>>
  BY DEF AddTokens, Owe
<1>11. CountsOK'
  <2>1. owed[Counter(s)] + 1 \in Nat /\ (IF Resetting(The(s)) THEN raced[Counter(s)] + 1 ELSE raced[Counter(s)]) \in Nat
    BY <1>7, <1>9
  <2> QED BY <1>9, <1>10, <2>1 DEF TokenTypes, CountsOK
<1>12. ASSUME NEW c \in Counters
       PROVE  /\ c = Counter(s) => owed'[c] = owed[c] + 1
              /\ c = Counter(s) => raced'[c] = IF Resetting(The(s)) THEN raced[c] + 1 ELSE raced[c]
              /\ c # Counter(s) => owed'[c] = owed[c] /\ raced'[c] = raced[c]
  BY <1>9, <1>10
<1>13. ASSUME ~upset, NEW c \in Counters, c = Counter(s) PROVE Balanced(c)'
  <2>1. /\ StartOf(c)' = n.start /\ heap'[entries'[c]] = n
        /\ StartOf(c) = heap[The(s)].start /\ heap[entries[c]] = heap[The(s)]
        /\ Balanced(c) /\ WindowAt(c, day) = Window(s) /\ WindowAt(c, day)' = Window(s) /\ Window(s) \in Nat
        /\ Resetting(The(s)) <=> ResettingOf(c)
    BY <1>1, <1>3, <1>4, <1>13, Own
  <2>2. heap[The(s)].start = Window(s)
    BY <1>1, <1>13 DEF BudgetInv, InWindow
  <2>3. ResettingOf(c)' <=> ResettingOf(c)
    BY <1>1, <1>6, <1>8, ResetsSame
  <2>4. /\ ResettingOf(c) => owed[c] = raced[c]
        /\ ~ResettingOf(c) => /\ owed[c] - raced[c] <= heap[The(s)].tokens
                              /\ heap[The(s)].tokens <= owed[c]
    BY <2>1, <2>2 DEF Balanced
  <2>5. owed[c] \in Nat /\ raced[c] \in Nat /\ heap[The(s)].tokens \in Nat
    BY <1>2, <1>9 DEF Entries
  <2>6. /\ ResettingOf(c) => owed'[c] = raced'[c]
        /\ ~ResettingOf(c) => owed'[c] - raced'[c] <= n.tokens /\ n.tokens <= owed'[c]
    BY <1>3, <1>12, <1>13, <2>1, <2>4, <2>5
  <2> QED BY <1>3, <2>1, <2>2, <2>3, <2>6 DEF Balanced
<1> HIDE DEF r
<1> QED BY <1>1, <1>3, <1>4, <1>6, <1>8, <1>11, <1>12, <1>13, Works

\* The slot takes the lock, and stores the window under it or lets it go.
LEMMA Locks ==
  ASSUME TokenAssumption, TokenTypes, BudgetInv, NEW s \in Slots, Lock(s) \/ StoreWindow(s)
  PROVE  TokenTypes' /\ BudgetInv'
<1>1. /\ Holds(s) /\ Charging(s) /\ ~At(s, "reset") /\ CallsOK
      /\ UNCHANGED <<entries, outside, lost, upset>> /\ UNCHANGED <<owed, raced, lost, upset>>
      /\ UNCHANGED <<entries, day>>
  BY DEF Lock, StoreWindow, At, Holds, Holding, Charging, TokenTypes, outside, histories
<1>2. heap[The(s)] \in Entries /\ call[s].left # <<>> /\ The(s) \in 1..Len(heap)
      /\ heap \in Seq(Entries) /\ Len(heap) \in Nat
  BY <1>1, Held DEF TokenTypes, HeapOK
<1>3. Counter(s) \in Counters /\ call[s] \in Calls /\ call[s].left \in Seq(Counters)
  BY <1>1, <1>2, AtWork DEF CallsOK, Calls
<1>4. Window(s) \in Nat
  <2>1. call[s].now \in Days /\ call[s].now <= call[s].now
    BY <1>3 DEF Calls, Days, TokenAssumption
  <2>2. WindowAt(Counter(s), call[s].now) \in Nat \ {0}
    BY <1>3, <2>1, Windows
  <2> QED BY <2>2 DEF Window
<1>5. ASSUME NEW stage \in {"try", "rollover", "reset"}, NEW n \in Entries, Becomes(s, stage),
             heap' = [heap EXCEPT ![The(s)] = n],
             n.tokens = heap[The(s)].tokens, heap[The(s)].locked /\ ~Locked(s) => n.locked,
             ~upset /\ stage # "try" => n.locked /\ (Locked(s) \/ ~heap[The(s)].locked),
             \/ n.start = heap[The(s)].start /\ stage # "reset"
             \/ heap[The(s)].start # Window(s) /\ n.start = Window(s) /\ stage = "reset" /\ Locked(s)
      PROVE  TokenTypes' /\ BudgetInv'
  <2> DEFINE r == StillAt(s, stage)
  <2>1. call' = [call EXCEPT ![s] = r] /\ r \in Calls
    <3>1. r \in Calls
      BY <1>3 DEF StillAt, Calls, The, Holding
    <3> QED BY <1>1, <1>5, <3>1, Moved
  <2>2. r.pc = stage /\ r.left = call[s].left /\ r.entry = The(s) /\ r.now = call[s].now
    BY DEF StillAt
  <2> HIDE DEF r
  <2>3. Len(heap') \in Nat /\ Len(heap) <= Len(heap') /\ r.entry \in 1..Len(heap')
    BY <1>2, <1>5, <2>2
  <2>4. /\ CallsOK' /\ call'[s] = r /\ \A t \in Slots : t # s => call'[t] = call[t]
        /\ \A c \in Counters : /\ s \in Charged(c)' <=> s \in Charged(c)
                               /\ s \in Admitted(c)' <=> s \in Admitted(c)
    <3>1. Charging(s) /\ call[s].left # <<>> /\ Len(heap) \in Nat
          /\ r.pc \in {"try", "same", "lock", "rollover", "reset"}
      BY <1>1, <1>2, <2>2
    <3> QED BY <2>1, <2>2, <2>3, <3>1, StaysAtWork
  <2>5. CountsOK'
    BY <1>1 DEF TokenTypes, CountsOK
  <2>6. ASSUME ~upset, NEW c \in Counters, c = Counter(s) PROVE Balanced(c)'
    <3>1. /\ StartOf(c)' = n.start /\ heap'[entries'[c]] = n
          /\ StartOf(c) = heap[The(s)].start /\ heap[entries[c]] = heap[The(s)]
          /\ Balanced(c) /\ WindowAt(c, day) = Window(s) /\ WindowAt(c, day)' = Window(s) /\ Window(s) \in Nat
      <4>1. Holds(s) /\ heap' = [heap EXCEPT ![The(s)] = n] /\ UNCHANGED <<entries, day>>
        BY <1>1, <1>5
      <4> QED BY <2>6, <4>1, Own
    <3>2. CASE n.start = heap[The(s)].start /\ stage # "reset"
      <4>1. ResettingOf(c)' <=> ResettingOf(c)
        BY <1>1, <2>2, <2>4, <3>2, ResetsSame
      <4> QED BY <1>1, <1>5, <3>1, <3>2, <4>1 DEF Balanced
    <3>3. CASE heap[The(s)].start # Window(s) /\ n.start = Window(s) /\ stage = "reset"
      <4>1. owed[c] = 0 /\ raced[c] = 0
        BY <3>1, <3>3 DEF Balanced
      <4>2. ResettingOf(c)'
        BY <2>2, <2>4, <2>6, <3>3 DEF ResettingOf, At, Counter
      <4> QED BY <1>1, <3>1, <3>3, <4>1, <4>2 DEF Balanced
    <3> QED BY <1>5, <3>2, <3>3
  <2> QED BY <1>1, <1>5, <2>1, <2>2, <2>4, <2>5, <2>6, Works
<1>6. CASE Lock(s)
  <2> DEFINE n == [heap[The(s)] EXCEPT !.locked = TRUE]
  <2>1. n \in Entries /\ n.start = heap[The(s)].start /\ n.tokens = heap[The(s)].tokens /\ n.locked
    BY <1>2, EntryEdits DEF Entries
  <2>2. heap' = [heap EXCEPT ![The(s)] = n] /\ Becomes(s, "rollover") /\ ~heap[The(s)].locked
    BY <1>2, <1>6 DEF Lock
  <2> HIDE DEF n
  <2> QED BY <1>5, <2>1, <2>2
<1>7. CASE StoreWindow(s)
  <2>1. Locked(s)
    BY <1>7 DEF StoreWindow, At, Locked
  <2>2. CASE heap[The(s)].start # Window(s)
    <3> DEFINE n == [heap[The(s)] EXCEPT !.start = Window(s)]
    <3>1. n \in Entries /\ n.start = Window(s) /\ n.tokens = heap[The(s)].tokens /\ n.locked = heap[The(s)].locked
      BY <1>2, <1>4, EntryEdits DEF Entries
    <3>2. heap' = [heap EXCEPT ![The(s)] = n] /\ Becomes(s, "reset")
      BY <1>2, <1>7, <2>2 DEF StoreWindow
    <3>3. ~upset => n.locked
      BY <2>1, <3>1 DEF BudgetInv, OneEntry
    <3> HIDE DEF n
    <3> QED BY <1>5, <2>1, <2>2, <3>1, <3>2, <3>3
  <2>3. CASE heap[The(s)].start = Window(s)
    <3> DEFINE n == [heap[The(s)] EXCEPT !.locked = FALSE]
    <3>1. n \in Entries /\ n.start = heap[The(s)].start /\ n.tokens = heap[The(s)].tokens
      BY <1>2, EntryEdits DEF Entries
    <3>2. heap' = [heap EXCEPT ![The(s)] = n] /\ Becomes(s, "try")
      BY <1>2, <1>7, <2>3 DEF StoreWindow
    <3> HIDE DEF n
    <3> QED BY <1>5, <2>1, <3>1, <3>2
  <2> QED BY <2>2, <2>3
<1> QED BY <1>6, <1>7

\* The slot ends its reset: the entry shows its one token, whatever has raced it.
LEMMA Resets ==
  ASSUME TokenAssumption, TokenTypes, BudgetInv, NEW s \in Slots, StoreTokens(s)
  PROVE  TokenTypes' /\ BudgetInv'
<1> DEFINE r == PastIt(s, "add")
           n == [heap[The(s)] EXCEPT !.tokens = 1, !.locked = FALSE]
<1>1. Holds(s) /\ Charging(s) /\ Locked(s) /\ At(s, "reset")
  BY DEF StoreTokens, At, Holds, Holding, Charging, Locked
<1>2. heap[The(s)] \in Entries /\ call[s].left # <<>> /\ The(s) \in 1..Len(heap)
      /\ heap \in Seq(Entries) /\ Len(heap) \in Nat
  BY <1>1, Held DEF TokenTypes, HeapOK
<1>3. n \in Entries /\ n.start = heap[The(s)].start /\ n.tokens = 1
  BY <1>2, EntryEdits DEF Entries
<1>4. heap' = [heap EXCEPT ![The(s)] = n] /\ UNCHANGED <<entries, outside, lost, upset>>
      /\ call' = [call EXCEPT ![s] = r] /\ UNCHANGED <<entries, day>>
  <2>1. heap' = [heap EXCEPT ![The(s)].tokens = 1, ![The(s)].locked = FALSE]
    BY DEF StoreTokens
  <2>2. heap' = [heap EXCEPT ![The(s)] = n]
    BY <1>2, <2>1
  <2> QED BY <2>2, Moved DEF StoreTokens, TokenTypes, outside
<1> HIDE DEF n
<1>5. Len(heap') \in Nat /\ Len(heap) <= Len(heap')
  BY <1>2, <1>4
<1>6. /\ CallsOK' /\ call'[s] = r /\ \A t \in Slots : t # s => call'[t] = call[t]
      /\ \A c \in Counters : IF c = Counter(s) THEN s \in Admitted(c) /\ s \notin Admitted(c)'
                             ELSE /\ s \in Charged(c)' <=> s \in Charged(c)
                                  /\ s \in Admitted(c)' <=> s \in Admitted(c)
  BY <1>1, <1>2, <1>4, <1>5, ComesPast
<1>7. Counter(s) \in Counters /\ Tail(call[s].left) \in Seq(Counters)
  BY <1>2, AtWork
<1>8. r \in Calls /\ r.pc = "add" /\ r.now = call[s].now
  BY <1>7 DEF PastIt, Calls, NoEntry, TokenTypes, CallsOK
<1>9. owed \in [Counters -> Nat] /\ raced \in [Counters -> Nat] /\ lost \in [Counters -> Nat]
      /\ owed' = [owed EXCEPT ![Counter(s)] = @ + 1] /\ UNCHANGED <<raced, lost, upset>>
  BY DEF TokenTypes, CountsOK, StoreTokens
<1>10. CountsOK'
  <2>1. owed[Counter(s)] + 1 \in Nat
    BY <1>7, <1>9
  <2> QED BY <1>9, <2>1 DEF TokenTypes, CountsOK
<1>11. ASSUME NEW c \in Counters
       PROVE  /\ c = Counter(s) => owed'[c] = owed[c] + 1
              /\ c # Counter(s) => owed'[c] = owed[c]
              /\ raced'[c] = raced[c]
  BY <1>9
<1>12. ASSUME ~upset, NEW c \in Counters, c = Counter(s) PROVE Balanced(c)'
  <2>1. /\ StartOf(c)' = n.start /\ heap'[entries'[c]] = n
        /\ StartOf(c) = heap[The(s)].start
        /\ Balanced(c) /\ WindowAt(c, day) = Window(s) /\ WindowAt(c, day)' = Window(s) /\ Window(s) \in Nat
        /\ ResettingOf(c) /\ \A t \in Slots : t # s => ~(At(t, "reset") /\ Counter(t) = c)
    BY <1>1, <1>3, <1>4, <1>12, Own
  <2>2. heap[The(s)].start = Window(s)
    BY <1>1, <1>12 DEF BudgetInv, InWindow
  <2>3. ~ResettingOf(c)'
    <3>1. ~ \E t \in Slots : call'[t].pc = "reset" /\ Head(call'[t].left) = c
      BY <1>6, <1>8, <2>1 DEF At, Counter
    <3> QED BY <3>1 DEF ResettingOf, At, Counter
  <2>4. owed[c] = raced[c]
    BY <2>1, <2>2 DEF Balanced
  <2>5. owed'[c] - raced'[c] <= n.tokens /\ n.tokens <= owed'[c]
    BY <1>3, <1>9, <1>11, <1>12, <2>4
  <2> QED BY <1>3, <2>1, <2>2, <2>3, <2>5 DEF Balanced
<1> HIDE DEF r
<1> QED BY <1>1, <1>3, <1>4, <1>6, <1>8, <1>10, <1>11, <1>12, Works

\* The slot is done with its counters: its event is queued, or dropped.
LEMMA Enqueues ==
  ASSUME TokenAssumption, TokenTypes, BudgetInv, NEW s \in Slots, Queue(s)
  PROVE  TokenTypes' /\ BudgetInv'
<1> DEFINE event == [scopes |-> Scopes[s], day |-> call[s].now]
<1>1. /\ call' = [call EXCEPT ![s] = Idle] /\ call[s].pc = "add" /\ call[s].left = <<>>
      /\ UNCHANGED <<heap, entries, day, rows, owed, raced, lost, upset>>
      /\ buffer' \in {buffer, Append(buffer, event)}
      /\ CallsOK /\ HeapOK /\ EventsOK
  BY DEF Queue, At, counters, histories, TokenTypes
<1>2. event \in DatedEvents /\ event.scopes = Scopes[s] /\ event.day = call[s].now
  BY <1>1 DEF DatedEvents, CallsOK, Calls, TokenAssumption
<1> HIDE DEF event
<1>3. CallsOK' /\ call'[s] = Idle /\ \A t \in Slots : t # s => call'[t] = call[t]
  <2>1. Idle \in Calls /\ Idle.left = <<>> /\ Idle.pc \notin Holding
    BY DEF Idle, Calls, Days, Holding, NoEntry, TokenAssumption
  <2>2. IsInjective(Idle.left) /\ \A c \in Counters : Contains(Idle.left, c) => Contains(Scopes[s], c)
    BY <2>1, NoneListed
  <2>3. Len(heap) \in Nat /\ Len(heap') \in Nat /\ Len(heap) <= Len(heap')
    BY <1>1 DEF HeapOK
  <2> QED BY <1>1, <2>1, <2>2, <2>3, SlotMoved
<1>4. buffer' \in Seq(DatedEvents) /\ buffer \in Seq(DatedEvents) /\ rows \in Seq(DatedEvents)
  BY <1>1, <1>2 DEF EventsOK
<1>5. ~upset => call[s].now = day
  BY <1>1 DEF BudgetInv, OneEntry, At
<1>6. TokenTypes'
  <2>1. CountsOK' /\ HeapOK'
    BY <1>1 DEF TokenTypes, CountsOK, HeapOK
  <2>2. ASSUME NEW i \in DOMAIN buffer' PROVE upset \/ buffer'[i].day <= day
    <3>1. CASE buffer' = buffer
      BY <1>1, <2>2, <3>1 DEF EventsOK
    <3>2. CASE buffer' = Append(buffer, event)
      <4>1. day <= day
        BY <1>1 DEF EventsOK, Days
      <4>2. (i \in DOMAIN buffer /\ buffer'[i] = buffer[i]) \/ buffer'[i] = event
        BY <1>2, <1>4, <2>2, <3>2
      <4> QED BY <1>1, <1>2, <1>5, <4>1, <4>2 DEF EventsOK
    <3> QED BY <1>1, <3>1, <3>2
  <2> QED BY <1>1, <1>3, <1>4, <2>1, <2>2 DEF TokenTypes, EventsOK
<1>7. ASSUME ~upset
      PROVE  /\ OneEntry' /\ \A t \in Slots : InWindow(t)'
             /\ \A c \in Counters : Balanced(c)' /\ Written(c)' /\ Spent(c)'
  <2>1. /\ OneEntry /\ \A t \in Slots : InWindow(t)
        /\ \A c \in Counters : Balanced(c) /\ Written(c) /\ Spent(c)
    BY <1>7 DEF BudgetInv
  <2>2. Idle.pc = "idle" /\ Idle \in Calls
    BY DEF Idle, Calls, Days, NoEntry, TokenAssumption
  <2>3. OneEntry'
    <3>1. \A t \in Slots : Locked(t) => heap'[The(t)].locked
      BY <1>1, <2>1 DEF OneEntry
    <3> QED BY <1>1, <1>3, <2>1, <2>2, <3>1, EntriesMoved DEF Holding
  <2>4. ASSUME NEW t \in Slots PROVE InWindow(t)'
    <3>1. CASE t = s
      BY <1>3, <2>2, <3>1 DEF InWindow, At
    <3>2. CASE t # s
      BY <1>1, <1>3, <2>1, <3>2 DEF InWindow, At, The, Window, Counter
    <3> QED BY <3>1, <3>2
  <2>5. ASSUME NEW c \in Counters PROVE Balanced(c)' /\ Written(c)' /\ Spent(c)'
    <3>1. ResettingOf(c)' <=> ResettingOf(c)
      BY <1>1, <1>3, <2>2, ResetsSame DEF At
    <3>2. Balanced(c)'
      BY <1>1, <2>1, <3>1 DEF Balanced, StartOf
    <3>3. ~Contains(call[s].left, c)
      BY <1>1, NoneListed
    <3>4. s \notin Admitted(c)' /\ s \notin Charged(c)' /\ (s \in Charged(c) <=> Contains(Scopes[s], c))
      <4>1. s \notin Admitted(c)' /\ s \notin Charged(c)'
        BY <1>3, <2>2 DEF Admitted, Charged, Checking, Charging, At
      <4>2. s \in Charged(c) <=> Contains(Scopes[s], c)
        BY <1>1, <3>3 DEF Charged, Charging
      <4> QED BY <4>1, <4>2
    <3>5. /\ Cardinality(Admitted(c)) \in Nat /\ Cardinality(Admitted(c)') \in Nat
          /\ Cardinality(Admitted(c)') <= Cardinality(Admitted(c)) /\ Cardinality(Slots) \in Nat
          /\ Cardinality(Charged(c)) \in Nat /\ Cardinality(Charged(c)') \in Nat
          /\ Cardinality(Charged(c)') <= Cardinality(Charged(c))
          /\ Contains(Scopes[s], c) => Cardinality(Charged(c)') = Cardinality(Charged(c)) - 1
      BY <1>3, <3>4, SetsMoved
    <3>6. InList(rows, c)' = InList(rows, c)
          /\ InList(buffer, c)' \in Nat /\ InList(buffer, c) \in Nat /\ InList(rows, c) \in Nat
          /\ InList(buffer, c)' <= InList(buffer, c) + (IF Contains(Scopes[s], c) THEN 1 ELSE 0)
      <4>1. InList(rows, c)' = InList(rows, c) /\ InList(buffer, c)' = InList(buffer', c)
        BY <1>1 DEF InList, Counts
      <4>2. InList(buffer', c) \in Nat /\ InList(buffer, c) \in Nat /\ InList(rows, c) \in Nat
        BY <1>4, ListCounts
      <4>3. InList(Append(buffer, event), c) <= InList(buffer, c) + (IF Contains(Scopes[s], c) THEN 1 ELSE 0)
        BY <1>2, <1>4, OneEvent
      <4>4. CASE buffer' = buffer
        BY <4>1, <4>2, <4>4
      <4>5. CASE buffer' = Append(buffer, event)
        BY <4>1, <4>2, <4>3, <4>5
      <4> QED BY <1>1, <4>4, <4>5
    <3>7. owed[c] \in Nat /\ raced[c] \in Nat /\ lost[c] \in Nat /\ Limit[c] \in Nat
      BY DEF TokenTypes, CountsOK, TokenAssumption
    <3>8. InList(rows, c)' + InList(buffer, c)' + Cardinality(Charged(c)') <= owed[c]
      <4>1. InList(rows, c) + InList(buffer, c) + Cardinality(Charged(c)) <= owed[c]
        BY <2>1 DEF Written
      <4> DEFINE p == Cardinality(Charged(c))
                 q == Cardinality(Charged(c)')
                 x == InList(rows, c)
                 y == InList(buffer, c)
                 z == InList(buffer, c)'
      <4>2. /\ p \in Nat /\ q \in Nat /\ x \in Nat /\ y \in Nat /\ z \in Nat /\ owed[c] \in Nat
            /\ q <= p /\ z <= y + 1 /\ x + y + p <= owed[c]
            /\ z <= y \/ q = p - 1
        BY <3>5, <3>6, <3>7, <4>1
      <4> HIDE DEF p, q, x, y, z
      <4>3. x + z + q <= owed[c]
        BY <4>2
      <4> QED BY <3>6, <4>3 DEF x, z, q
    <3>9. Spent(c)'
      <4>1. Limit[c] > 0 => owed[c] + Cardinality(Admitted(c)) <= Limit[c] - 1 + Cardinality(Slots) + raced[c] + lost[c]
        BY <2>1 DEF Spent
      <4>2. Limit[c] > 0 => owed[c] + Cardinality(Admitted(c)') <= Limit[c] - 1 + Cardinality(Slots) + raced[c] + lost[c]
        BY <3>5, <3>7, <4>1, Sums
      <4>3. UNCHANGED <<owed, raced, lost>>
        BY <1>1
      <4> QED BY <4>2, <4>3 DEF Spent
    <3> QED BY <1>1, <3>2, <3>8, <3>9 DEF Written
  <2> QED BY <2>3, <2>4, <2>5
<1>8. BudgetInv'
  BY <1>1, <1>7 DEF BudgetInv
<1> QED BY <1>6, <1>8

\* The slot takes the entry of its counter, or puts a fresh one, of no window,
\* into the map.
LEMMA Takes ==
  ASSUME TokenAssumption, TokenTypes, BudgetInv, NEW s \in Slots, LoadOrCreate(s)
  PROVE  TokenTypes' /\ BudgetInv'
<1> DEFINE k == Counter(s)
           new == Len(heap) + 1
           rec(e) == [pc |-> "try", now |-> call[s].now, left |-> call[s].left, entry |-> e]
<1>1. /\ call[s].pc = "add" /\ call[s].left # <<>> /\ Charging(s)
      /\ UNCHANGED <<outside, histories>> /\ UNCHANGED <<day, buffer, rows, owed, raced, lost, upset>>
      /\ CallsOK /\ HeapOK /\ call \in [Slots -> Calls] /\ call[s] \in Calls
  BY DEF LoadOrCreate, At, Charging, outside, histories, TokenTypes, CallsOK
<1>2. k \in Counters /\ entries[k] \in 0..Len(heap) /\ Len(heap) \in Nat /\ entries \in [Counters -> 0..Len(heap)]
      /\ heap \in Seq(Entries)
  BY <1>1, AtWork DEF HeapOK
<1>3. ASSUME NEW e \in Nat
      PROVE  /\ rec(e) \in Calls /\ rec(e).left = call[s].left /\ rec(e).now = call[s].now
             /\ rec(e).pc = "try" /\ rec(e).entry = e
             /\ [call[s] EXCEPT !.pc = "try", !.entry = e] = rec(e)
  <2> DEFINE a == [call[s] EXCEPT !.pc = "try"]
  <2>1. /\ call[s] = [pc |-> call[s].pc, now |-> call[s].now, left |-> call[s].left, entry |-> call[s].entry]
        /\ call[s].now \in Days /\ call[s].left \in Seq(Counters)
    BY <1>1 DEF Calls
  <2>2. a = [pc |-> "try", now |-> call[s].now, left |-> call[s].left, entry |-> call[s].entry]
    BY <2>1
  <2>3. [call[s] EXCEPT !.pc = "try", !.entry = e] = [a EXCEPT !.entry = e]
    OBVIOUS
  <2> HIDE DEF a
  <2>4. [a EXCEPT !.entry = e] = rec(e)
    BY <2>2
  <2>5. rec(e) \in Calls
    BY <2>1 DEF Calls, Holding
  <2> QED BY <2>3, <2>4, <2>5
<1> HIDE DEF rec
<1>4. CASE entries[k] # NoEntry
  <2>1. entries[k] \in 1..Len(heap) /\ entries[k] \in Nat
    BY <1>2, <1>4 DEF NoEntry
  <2>2. call' = [call EXCEPT ![s] = rec(entries[k])]
    <3>1. call' = [call EXCEPT ![s] = [call[s] EXCEPT !.pc = "try", !.entry = entries[k]]]
      BY <1>1, <1>4 DEF LoadOrCreate
    <3> QED BY <1>3, <2>1, <3>1
  <2>3. heap' = heap /\ entries' = entries
    <3>1. heap' = heap /\ entries' = [entries EXCEPT ![k] = entries[k]]
      BY <1>4 DEF LoadOrCreate
    <3> QED BY <1>2, <3>1
  <2>4. UNCHANGED <<counters, outside, histories>>
    BY <1>1, <2>3 DEF counters
  <2> QED BY <1>1, <1>3, <2>1, <2>2, <2>4, GoesOn
<1>5. CASE entries[k] = NoEntry
  <2> DEFINE r == rec(new)
  <2>1. heap' = Append(heap, Fresh) /\ entries' = [entries EXCEPT ![k] = new]
    BY <1>5 DEF LoadOrCreate
  <2>2. call' = [call EXCEPT ![s] = r]
    <3>1. call' = [call EXCEPT ![s] = [call[s] EXCEPT !.pc = "try", !.entry = new]]
      BY <1>1, <1>5 DEF LoadOrCreate
    <3>2. new \in Nat
      BY <1>2
    <3> HIDE DEF new
    <3> QED BY <1>3, <3>1, <3>2
  <2>3. /\ r \in Calls /\ r.left = call[s].left /\ r.now = call[s].now /\ r.pc = "try" /\ r.entry = new
    <3>1. new \in Nat
      BY <1>2
    <3> HIDE DEF new
    <3> QED BY <1>3, <3>1
  <2> HIDE DEF r
  <2>4. Fresh \in Entries /\ Fresh.start = 0
    BY DEF Fresh, Entries
  <2>5. heap' \in Seq(Entries) /\ Len(heap') = Len(heap) + 1 /\ heap'[new] = Fresh
        /\ \A i \in 1..Len(heap) : heap'[i] = heap[i]
    BY <1>2, <2>1, <2>4
  <2>6. /\ CallsOK' /\ call'[s] = r /\ \A t \in Slots : t # s => call'[t] = call[t]
        /\ \A c \in Counters : /\ s \in Charged(c)' <=> s \in Charged(c)
                               /\ s \in Admitted(c)' <=> s \in Admitted(c)
    <3>1. Len(heap') \in Nat /\ Len(heap) <= Len(heap') /\ r.entry \in 1..Len(heap')
          /\ r.pc \in {"try", "same", "lock", "rollover", "reset"}
      BY <1>2, <2>3, <2>5
    <3> QED BY <1>1, <2>2, <2>3, <3>1, StaysAtWork
  <2>7. /\ entries'[k] = new /\ new \in 1..Len(heap') /\ new \notin 0..Len(heap)
        /\ \A c \in Counters : c # k => entries'[c] = entries[c]
    BY <1>2, <2>1, <2>5
  <2>8. TokenTypes'
    <3>1. entries' \in [Counters -> 0..Len(heap')]
      BY <1>2, <2>1, <2>5
    <3>2. CountsOK' /\ EventsOK'
      BY <1>1 DEF TokenTypes, CountsOK, EventsOK
    <3> QED BY <2>5, <2>6, <3>1, <3>2 DEF TokenTypes, HeapOK
  <2>9. ASSUME ~upset
        PROVE  /\ OneEntry' /\ \A t \in Slots : InWindow(t)'
               /\ \A c \in Counters : Balanced(c)' /\ Written(c)' /\ Spent(c)'
    <3>1. /\ OneEntry /\ \A t \in Slots : InWindow(t)
          /\ \A c \in Counters : Balanced(c) /\ Written(c) /\ Spent(c)
      BY <2>9 DEF BudgetInv
    <3>2. ASSUME NEW t \in Slots, t # s, Holds(t)
          PROVE  /\ The(t) \in 1..Len(heap) /\ heap'[The(t)] = heap[The(t)]
                 /\ Counter(t) \in Counters /\ Counter(t) # k /\ entries'[Counter(t)] = The(t)
      <4>1. The(t) \in 1..Len(heap) /\ entries[Counter(t)] = The(t) /\ call[t].left # <<>>
        BY <2>9, <3>2, Held
      <4>2. Counter(t) \in Counters
        BY <4>1, AtWork
      <4>3. Counter(t) # k
        BY <1>2, <1>5, <4>1 DEF NoEntry
      <4> QED BY <2>5, <2>7, <4>1, <4>2, <4>3
    <3>3. OneEntry'
      <4>1. \A t \in Slots : call'[t].pc \notin {"idle", "serving"} => call'[t].now = day'
        BY <1>1, <2>3, <2>6, <3>1 DEF OneEntry, At
      <4>2. \A t \in Slots : call'[t].pc \in Holding => entries'[Head(call'[t].left)] = call'[t].entry
        <5>1. \A t \in Slots : t # s /\ call[t].pc \in Holding => entries'[Head(call[t].left)] = call[t].entry
          BY <3>2 DEF Holds, The, Counter
        <5>2. entries'[Head(call[s].left)] = new
          BY <2>7 DEF Counter
        <5> QED BY <2>3, <2>6, <5>1, <5>2
      <4>3. \A t \in Slots : call'[t].pc \in {"rollover", "reset"} => heap'[call'[t].entry].locked
        BY <2>3, <2>6, <3>1, <3>2 DEF OneEntry, Locked, The, Holds, Holding
      <4>4. \A t, u \in Slots : call'[t].pc \in {"rollover", "reset"} /\ call'[u].pc \in {"rollover", "reset"}
                                 /\ call'[t].entry = call'[u].entry => t = u
        BY <2>3, <2>6, <3>1 DEF OneEntry, Locked, The
      <4>5. \A c, d \in Counters : entries'[c] # NoEntry /\ entries'[c] = entries'[d] => c = d
        <5>1. \A c \in Counters : c # k => entries'[c] # new
          BY <1>2, <2>7
        <5> QED BY <2>7, <3>1, <5>1 DEF OneEntry
      <4> QED BY <4>1, <4>2, <4>3, <4>4, <4>5 DEF OneEntry, At, Holds, The, Counter, Locked
    <3>4. ASSUME NEW t \in Slots PROVE InWindow(t)'
      <4>1. CASE t = s
        BY <2>3, <2>6, <4>1 DEF InWindow, At
      <4>2. CASE t # s
        <5>1. At(t, "tokens") \/ At(t, "same") \/ At(t, "reset") => heap'[The(t)].start = Window(t)
          BY <3>1, <3>2, <4>2 DEF InWindow, At, Holds, Holding
        <5> QED BY <2>6, <4>2, <5>1 DEF InWindow, At, The, Window, Counter
      <4> QED BY <4>1, <4>2
    <3>5. ASSUME NEW c \in Counters PROVE Balanced(c)' /\ Written(c)' /\ Spent(c)'
      <4>1. Written(c)' /\ Spent(c)'
        <5>1. owed'[c] = owed[c] /\ raced'[c] = raced[c] /\ CountsOK' /\ UNCHANGED <<day, buffer, rows, lost>>
          BY <1>1, <2>8 DEF TokenTypes
        <5> QED BY <2>6, <3>1, <5>1, Charges
      <4>2. ResettingOf(c)' <=> ResettingOf(c)
        BY <1>1, <2>3, <2>6, ResetsSame DEF At
      <4>3. StartOf(c)' = StartOf(c) /\ (entries[c] # NoEntry => entries'[c] = entries[c] /\ heap'[entries[c]] = heap[entries[c]])
        <5>1. CASE c = k
          BY <1>5, <2>4, <2>5, <2>7, <5>1 DEF StartOf
        <5>2. CASE c # k
          <6>1. entries'[c] = entries[c] /\ entries[c] \in 0..Len(heap)
            BY <1>2, <2>7, <5>2
          <6>2. entries[c] # NoEntry => entries[c] \in 1..Len(heap)
            BY <1>2, <6>1 DEF NoEntry
          <6> QED BY <2>5, <6>1, <6>2 DEF StartOf
        <5> QED BY <5>1, <5>2
      <4>4. WindowAt(c, day) # 0
        <5>1. day \in Days /\ day <= day
          BY DEF TokenTypes, EventsOK, Days
        <5>2. WindowAt(c, day) \in Nat \ {0}
          BY <5>1, Windows
        <5> QED BY <5>2
      <4>5. StartOf(c) = WindowAt(c, day) => entries[c] # NoEntry
        BY <4>4 DEF StartOf
      <4> QED BY <1>1, <3>1, <4>1, <4>2, <4>3, <4>5 DEF Balanced
    <3> QED BY <3>3, <3>4, <3>5
  <2>10. BudgetInv'
    BY <1>1, <2>9 DEF BudgetInv
  <2> QED BY <2>8, <2>10
<1> QED BY <1>4, <1>5

-----------------------------------------------------------------------------
(* The usage logger, the clock, the eviction and the crash.                *)

\* What the entries say is said as long as they, the slots and the day stay.
LEMMA Stands ==
  ASSUME UNCHANGED <<call, heap, day>>, UNCHANGED entries, UNCHANGED <<owed, raced, lost>>
  PROVE  /\ OneEntry => OneEntry'
         /\ \A s \in Slots : InWindow(s) => InWindow(s)'
         /\ \A c \in Counters : /\ Balanced(c) => Balanced(c)'
                                /\ Spent(c) => Spent(c)'
                                /\ Charged(c)' = Charged(c)
<1>1. OneEntry => OneEntry'
  BY DEF OneEntry, At, Holds, Counter, The, Locked
<1>2. \A s \in Slots : InWindow(s) => InWindow(s)'
  BY DEF InWindow, At, The, Window, Counter
<1>3. ASSUME NEW c \in Counters
      PROVE  /\ Balanced(c) => Balanced(c)'
             /\ Spent(c) => Spent(c)'
             /\ Charged(c)' = Charged(c)
  <2>1. StartOf(c)' = StartOf(c) /\ (ResettingOf(c)' <=> ResettingOf(c))
    BY DEF StartOf, ResettingOf, At, Counter
  <2>2. Charged(c)' = Charged(c) /\ Admitted(c)' = Admitted(c)
    BY DEF Charged, Charging, Admitted, Checking, At
  <2> QED BY <2>1, <2>2 DEF Balanced, Spent
<1> QED BY <1>1, <1>2, <1>3

\* The buffer is written, on the day of its events or upset.
LEMMA Flushes ==
  ASSUME TokenAssumption, TokenTypes, BudgetInv, Flush
  PROVE  TokenTypes' /\ BudgetInv'
<1> DEFINE new == [i \in DOMAIN buffer |-> [scopes |-> buffer[i].scopes, day |-> day]]
<1>1. /\ rows' = rows \o new /\ buffer' = <<>>
      /\ UNCHANGED <<call, heap, day>> /\ UNCHANGED entries /\ UNCHANGED <<owed, raced, lost>>
      /\ buffer \in Seq(DatedEvents) /\ rows \in Seq(DatedEvents) /\ day \in Days
      /\ \A i \in DOMAIN rows : rows[i].day <= day
  BY DEF Flush, counters, TokenTypes, EventsOK
<1>2. upset' \in BOOLEAN /\ (~upset' => ~upset /\ \A i \in DOMAIN buffer : buffer[i].day = day)
  BY DEF Flush
<1>3. DOMAIN buffer = 1..Len(buffer) /\ Len(buffer) \in Nat /\ DOMAIN rows = 1..Len(rows)
  BY <1>1
<1>4. new \in Seq(DatedEvents) /\ DOMAIN new = DOMAIN buffer /\ \A i \in DOMAIN new : new[i].day = day
  <2>1. ASSUME NEW i \in DOMAIN buffer PROVE [scopes |-> buffer[i].scopes, day |-> day] \in DatedEvents
    <3>1. buffer[i] \in DatedEvents
      BY <1>1
    <3> QED BY <1>1, <3>1 DEF DatedEvents
  <2>2. new \in [1..Len(buffer) -> DatedEvents]
    BY <1>3, <2>1
  <2> QED BY <1>3, <2>2
<1>5. ~upset' => new = buffer
  <2>1. ASSUME ~upset', NEW i \in DOMAIN buffer PROVE [scopes |-> buffer[i].scopes, day |-> day] = buffer[i]
    <3>1. buffer[i] \in DatedEvents /\ buffer[i].day = day
      BY <1>1, <1>2, <2>1
    <3> QED BY <3>1 DEF DatedEvents
  <2>2. ~upset' => new = [i \in DOMAIN buffer |-> buffer[i]]
    BY <2>1
  <2>3. buffer = [i \in DOMAIN buffer |-> buffer[i]]
    BY <1>1
  <2> QED BY <2>2, <2>3
<1> HIDE DEF new
<1>6. TokenTypes'
  <2>1. rows' \in Seq(DatedEvents) /\ buffer' \in Seq(DatedEvents)
    BY <1>1, <1>4
  <2>2. ASSUME NEW i \in DOMAIN rows' PROVE rows'[i].day <= day'
    <3>1. Len(new) \in Nat /\ Len(rows) \in Nat /\ Len(rows') = Len(rows) + Len(new) /\ i \in 1..Len(rows')
          /\ DOMAIN new = 1..Len(new)
      BY <1>1, <1>4, <2>1, <2>2
    <3>2. CASE i <= Len(rows)
      BY <1>1, <1>3, <1>4, <3>1, <3>2
    <3>3. CASE i > Len(rows)
      <4>1. rows'[i] = new[i - Len(rows)] /\ i - Len(rows) \in 1..Len(new)
        BY <1>1, <1>4, <3>1, <3>3
      <4>2. day <= day
        BY <1>1 DEF Days
      <4> QED BY <1>1, <1>4, <3>1, <4>1, <4>2
    <3> QED BY <3>1, <3>2, <3>3
  <2>3. HeapOK' /\ CallsOK' /\ upset' \in BOOLEAN
    BY <1>1, <1>2 DEF TokenTypes, HeapOK, CallsOK, Holds, The
  <2>4. CountsOK'
    BY <1>1, <2>3 DEF TokenTypes, CountsOK
  <2>5. \A i \in DOMAIN buffer' : upset' \/ buffer'[i].day <= day'
    BY <1>1
  <2> QED BY <1>1, <2>1, <2>2, <2>3, <2>4, <2>5 DEF TokenTypes, EventsOK
<1>7. ASSUME ~upset', NEW c \in Counters PROVE Written(c)'
  <2>1. InList(rows, c)' = InList(rows \o new, c) /\ InList(buffer, c)' = 0
    <3>1. InList(rows, c)' = InList(rows', c) /\ InList(buffer, c)' = InList(buffer', c)
      BY <1>1 DEF InList, Counts
    <3>2. InList(<<>>, c) = 0
      <4>1. DOMAIN <<>> = {}
        OBVIOUS
      <4>2. {i \in DOMAIN <<>> : Counts(<<>>[i], c)} = {}
        BY <4>1
      <4> QED BY <4>2, FS_EmptySet DEF InList
    <3> QED BY <1>1, <3>1, <3>2
  <2>2. InList(rows \o buffer, c) <= InList(rows, c) + InList(buffer, c)
        /\ InList(rows, c) \in Nat /\ InList(buffer, c) \in Nat /\ InList(rows \o buffer, c) \in Nat
    <3>1. rows \o buffer \in Seq(DatedEvents)
      BY <1>1
    <3> QED BY <1>1, <3>1, ListCounts
  <2>3. InList(rows, c) + InList(buffer, c) + Cardinality(Charged(c)) <= owed[c]
    BY <1>7, <1>2 DEF BudgetInv, Written
  <2>4. owed[c] \in Nat /\ Cardinality(Charged(c)) \in Nat
    <3>1. Charged(c) \in SUBSET Slots /\ IsFiniteSet(Slots)
      BY DEF Charged, TokenAssumption
    <3>2. Cardinality(Charged(c)) \in Nat
      BY <3>1, FS_Subset, FS_CardinalityType
    <3> QED BY <3>2 DEF TokenTypes, CountsOK
  <2>5. InList(rows \o buffer, c) + 0 + Cardinality(Charged(c)) <= owed[c]
    BY <2>2, <2>3, <2>4
  <2>6. Charged(c)' = Charged(c) /\ owed' = owed
    BY <1>1, Stands
  <2> QED BY <1>5, <1>7, <2>1, <2>5, <2>6 DEF Written
<1>8. BudgetInv'
  <2>1. ~upset' => /\ OneEntry /\ \A s \in Slots : InWindow(s)
                   /\ \A c \in Counters : Balanced(c) /\ Spent(c)
    BY <1>2 DEF BudgetInv
  <2>2. ~upset' => /\ OneEntry' /\ \A s \in Slots : InWindow(s)'
                   /\ \A c \in Counters : Balanced(c)' /\ Spent(c)'
    BY <1>1, <2>1, Stands
  <2> QED BY <1>7, <2>2 DEF BudgetInv
<1> QED BY <1>6, <1>8

\* A stale entry is found, or deleted: it owes nothing, and no slot has it.
LEMMA Evicts ==
  ASSUME TokenAssumption, TokenTypes, BudgetInv, Evict \/ \E c \in Counters : FindStale(c)
  PROVE  TokenTypes' /\ BudgetInv'
<1>1. /\ UNCHANGED <<call, heap, day>> /\ UNCHANGED <<owed, raced, lost>> /\ UNCHANGED <<rows, buffer>>
      /\ upset => upset'
  <2>1. UNCHANGED <<call, heap, day>> /\ UNCHANGED <<owed, raced, lost>> /\ UNCHANGED <<rows, buffer>>
    BY DEF Evict, FindStale, counters, histories
  <2>2. Evict => (upset => upset')
    BY DEF Evict
  <2>3. (\E c \in Counters : FindStale(c)) => (upset => upset')
    BY DEF FindStale, histories
  <2> QED BY <2>1, <2>2, <2>3
<1>2. upset' \in BOOLEAN /\ (\A i \in DOMAIN buffer : upset' \/ buffer[i].day <= day)
  BY <1>1 DEF TokenTypes, CountsOK, EventsOK, Evict, FindStale, histories
<1>3. ASSUME entries' \in [Counters -> 0..Len(heap)] PROVE TokenTypes'
  BY <1>1, <1>2, <1>3 DEF TokenTypes, HeapOK, CallsOK, Holds, The, EventsOK, CountsOK
<1>4. ASSUME NEW c \in Counters, Written(c), Charged(c)' = Charged(c) PROVE Written(c)'
  BY <1>1, <1>4, ListsSame DEF Written
<1>5. entries \in [Counters -> 0..Len(heap)] /\ Len(heap) \in Nat
  BY DEF TokenTypes, HeapOK
<1>6. ASSUME entries' = entries PROVE TokenTypes' /\ BudgetInv'
  <2>1. ~upset' => /\ OneEntry /\ \A s \in Slots : InWindow(s)
                   /\ \A c \in Counters : Balanced(c) /\ Spent(c) /\ Written(c)
    BY <1>1 DEF BudgetInv
  <2>2. ~upset' => /\ OneEntry' /\ \A s \in Slots : InWindow(s)'
                   /\ \A c \in Counters : Balanced(c)' /\ Spent(c)' /\ Charged(c)' = Charged(c)
    BY <1>1, <1>6, <2>1, Stands
  <2> QED BY <1>3, <1>4, <1>5, <1>6, <2>1, <2>2 DEF BudgetInv
<1>7. CASE \E c \in Counters : FindStale(c)
  BY <1>6, <1>7 DEF FindStale, counters
<1>8. CASE Evict /\ (evicting \notin Counters \/ entries[evicting] = NoEntry)
  <2>1. entries' = [entries EXCEPT ![evicting] = NoEntry]
    BY <1>8 DEF Evict
  <2>2. entries' = entries
    BY <1>5, <1>8, <2>1
  <2> QED BY <1>6, <2>2
<1>9. CASE Evict /\ evicting \in Counters /\ entries[evicting] # NoEntry
  <2> DEFINE k == evicting
             e == entries[k]
  <2>1. /\ entries' = [entries EXCEPT ![k] = NoEntry]
        /\ ~upset' => ~upset /\ heap[e].start # WindowAt(k, day) /\ \A s \in Slots : The(s) # e
    BY <1>9 DEF Evict
  <2>2. entries' \in [Counters -> 0..Len(heap)] /\ \A c \in Counters : entries'[c] = IF c = k THEN 0 ELSE entries[c]
    BY <1>5, <1>9, <2>1 DEF NoEntry
  <2>3. ASSUME ~upset'
        PROVE  /\ OneEntry' /\ \A s \in Slots : InWindow(s)'
               /\ \A c \in Counters : Balanced(c)' /\ Written(c)' /\ Spent(c)'
    <3>1. /\ OneEntry /\ \A s \in Slots : InWindow(s)
          /\ \A c \in Counters : Balanced(c) /\ Spent(c) /\ Written(c)
      BY <1>1, <2>3 DEF BudgetInv
    <3>2. OneEntry'
      <4>1. ASSUME NEW s \in Slots, Holds(s) PROVE entries'[Counter(s)] = The(s)
        <5>1. entries[Counter(s)] = The(s) /\ The(s) # e
          BY <2>1, <2>3, <3>1, <4>1 DEF OneEntry
        <5>2. Counter(s) \in Counters
          <6>1. call[s].left # <<>>
            BY <4>1, Held
          <6> QED BY <6>1, AtWork
        <5> QED BY <2>2, <5>1, <5>2
      <4>2. \A c, d \in Counters : entries'[c] # NoEntry /\ entries'[c] = entries'[d] => c = d
        BY <2>2, <3>1 DEF OneEntry, NoEntry
      <4> QED BY <1>1, <3>1, <4>1, <4>2 DEF OneEntry, At, Holds, Counter, The, Locked
    <3>3. \A s \in Slots : InWindow(s)'
      BY <1>1, <3>1 DEF InWindow, At, The, Window, Counter
    <3>4. ASSUME NEW c \in Counters PROVE Balanced(c)' /\ Written(c)' /\ Spent(c)'
      <4>1. Charged(c)' = Charged(c) /\ Admitted(c)' = Admitted(c) /\ (ResettingOf(c)' <=> ResettingOf(c))
        BY <1>1 DEF Charged, Charging, Admitted, Checking, At, ResettingOf, Counter
      <4>2. Written(c)' /\ Spent(c)'
        BY <1>1, <1>4, <3>1, <4>1 DEF Spent
      <4>3. CASE c = k
        <5>1. StartOf(c) = heap[e].start /\ StartOf(c)' = 0
          BY <1>1, <1>9, <2>2, <4>3 DEF StartOf, NoEntry
        <5>2. owed[c] = 0 /\ raced[c] = 0
          BY <2>1, <2>3, <3>1, <4>3, <5>1 DEF Balanced
        <5>3. WindowAt(c, day) \in Nat \ {0} /\ WindowAt(c, day)' = WindowAt(c, day)
          <6>1. day \in Days /\ day <= day
            BY DEF TokenTypes, EventsOK, Days
          <6> QED BY <1>1, <6>1, Windows DEF WindowAt
        <5>4. 0 <= WindowAt(c, day) /\ 0 # WindowAt(c, day)
          BY <5>3
        <5> QED BY <1>1, <4>2, <5>1, <5>2, <5>3, <5>4 DEF Balanced
      <4>4. CASE c # k
        <5>1. StartOf(c)' = StartOf(c) /\ entries'[c] = entries[c]
          BY <1>1, <2>2, <4>4 DEF StartOf
        <5> QED BY <1>1, <3>1, <4>1, <4>2, <5>1 DEF Balanced
      <4> QED BY <4>3, <4>4
    <3> QED BY <3>2, <3>3, <3>4
  <2> QED BY <1>3, <2>2, <2>3 DEF BudgetInv
<1> QED BY <1>7, <1>8, <1>9

\* The day ends, with no slot at a counter or upset: what a window owes stays,
\* and a new window owes nothing.
LEMMA DayPasses ==
  ASSUME TokenAssumption, TokenTypes, BudgetInv, NextDay
  PROVE  TokenTypes' /\ BudgetInv'
<1>1. /\ day \in Days /\ day' = day + 1 /\ day' \in Days /\ day <= day'
      /\ UNCHANGED <<heap, call, buffer, rows>> /\ UNCHANGED entries
      /\ buffer \in Seq(DatedEvents) /\ rows \in Seq(DatedEvents)
  BY DEF NextDay, counters, TokenTypes, EventsOK, Days, TokenAssumption
<1>2. upset' \in BOOLEAN /\ (upset => upset')
      /\ (~upset' => \A s \in Slots : call[s].pc \in {"idle", "serving"})
  BY DEF NextDay
<1>3. ASSUME NEW c \in Counters
      PROVE  IF WindowAt(c, day) = WindowAt(c, day')
             THEN owed'[c] = owed[c] /\ raced'[c] = raced[c] /\ lost'[c] = lost[c]
             ELSE owed'[c] = 0 /\ raced'[c] = 0 /\ lost'[c] = 0
  BY <1>1 DEF NextDay
<1>4. ASSUME NEW c \in Counters
      PROVE  /\ WindowAt(c, day) \in Nat \ {0} /\ WindowAt(c, day') \in Nat \ {0}
             /\ WindowAt(c, day) <= WindowAt(c, day') /\ WindowAt(c, day)' = WindowAt(c, day')
  BY <1>1, Windows DEF WindowAt
<1>5. TokenTypes'
  <2>1. HeapOK' /\ CallsOK'
    BY <1>1 DEF TokenTypes, HeapOK, CallsOK, Holds, The
  <2>2. CountsOK'
    <3>1. /\ owed \in [Counters -> Nat] /\ raced \in [Counters -> Nat] /\ lost \in [Counters -> Nat]
      BY DEF TokenTypes, CountsOK
    <3>2. /\ owed' \in [Counters -> Nat] /\ raced' \in [Counters -> Nat] /\ lost' \in [Counters -> Nat]
      BY <3>1 DEF NextDay
    <3> QED BY <1>2, <3>2 DEF CountsOK
  <2>3. ASSUME NEW i \in DOMAIN rows PROVE rows[i].day <= day'
    <3>1. rows[i] \in DatedEvents /\ rows[i].day <= day
      BY <1>1, <2>3 DEF TokenTypes, EventsOK
    <3> QED BY <1>1, <3>1 DEF DatedEvents, Days
  <2>4. ASSUME NEW i \in DOMAIN buffer, ~upset' PROVE buffer[i].day <= day'
    <3>1. buffer[i] \in DatedEvents /\ buffer[i].day <= day
      BY <1>1, <1>2, <2>4 DEF TokenTypes, EventsOK
    <3> QED BY <1>1, <3>1 DEF DatedEvents, Days
  <2> QED BY <1>1, <2>1, <2>2, <2>3, <2>4 DEF TokenTypes, EventsOK
<1>6. ASSUME ~upset'
      PROVE  /\ OneEntry' /\ \A s \in Slots : InWindow(s)'
             /\ \A c \in Counters : Balanced(c)' /\ Written(c)' /\ Spent(c)'
  <2>1. /\ OneEntry /\ \A s \in Slots : InWindow(s) /\ call'[s].pc \in {"idle", "serving"}
        /\ \A c \in Counters : Balanced(c) /\ Written(c) /\ Spent(c)
    BY <1>1, <1>2, <1>6 DEF BudgetInv
  <2>2. OneEntry'
    BY <1>1, <2>1 DEF OneEntry, At, Holds, Holding, Locked
  <2>3. \A s \in Slots : InWindow(s)'
    BY <2>1 DEF InWindow, At
  <2>4. ASSUME NEW c \in Counters PROVE Balanced(c)' /\ Written(c)' /\ Spent(c)'
    <3>1. /\ owed[c] \in Nat /\ raced[c] \in Nat /\ lost[c] \in Nat /\ Limit[c] \in Nat
      BY DEF TokenTypes, CountsOK, TokenAssumption
    <3>2. StartOf(c)' = StartOf(c) /\ ~ResettingOf(c) /\ ~ResettingOf(c)' /\ Admitted(c)' = Admitted(c)
          /\ Charged(c)' = {}
      BY <1>1, <2>1 DEF StartOf, ResettingOf, At, Admitted, Checking, Charging, Charged
    <3>3. StartOf(c) \in Nat
      <4>1. entries[c] \in 0..Len(heap) /\ Len(heap) \in Nat /\ heap \in Seq(Entries)
        BY DEF TokenTypes, HeapOK
      <4>2. entries[c] # NoEntry => heap[entries[c]] \in Entries
        BY <4>1 DEF NoEntry
      <4> QED BY <4>2 DEF StartOf, Entries
    <3>4. Balanced(c)'
      <4>1. CASE WindowAt(c, day) = WindowAt(c, day')
        BY <1>1, <1>3, <1>4, <2>1, <3>2, <4>1 DEF Balanced
      <4>2. CASE WindowAt(c, day) # WindowAt(c, day')
        <5>1. StartOf(c) <= WindowAt(c, day)
          BY <2>1 DEF Balanced
        <5>2. StartOf(c) <= WindowAt(c, day') /\ StartOf(c) # WindowAt(c, day')
          BY <1>4, <3>3, <4>2, <5>1
        <5> QED BY <1>3, <1>4, <3>2, <4>2, <5>2 DEF Balanced
      <4> QED BY <4>1, <4>2
    <3>5. Cardinality(Charged(c)) \in Nat /\ Cardinality(Charged(c)') = 0
          /\ Cardinality(Admitted(c)) \in Nat /\ Cardinality(Slots) \in Nat
          /\ Cardinality(Admitted(c)) <= Cardinality(Slots)
      <4>1. Charged(c) \in SUBSET Slots /\ Admitted(c) \in SUBSET Slots /\ IsFiniteSet(Slots)
        BY DEF Charged, Admitted, TokenAssumption
      <4>2. IsFiniteSet(Charged(c)) /\ IsFiniteSet(Admitted(c)) /\ Cardinality(Admitted(c)) <= Cardinality(Slots)
        BY <4>1, FS_Subset
      <4> QED BY <3>2, <4>1, <4>2, FS_CardinalityType, FS_EmptySet
    <3>6. Written(c)'
      <4> DEFINE same == WindowAt(c, day') = WindowAt(c, day)
      <4>1. InList(rows, c)' = IF same THEN InList(rows, c) ELSE 0
        BY <1>1, LaterDay DEF TokenTypes, EventsOK
      <4>2. InList(buffer, c)' = IF same THEN InList(buffer, c) ELSE 0
        BY <1>1, <1>2, <1>6, LaterDay DEF TokenTypes, EventsOK
      <4>3. InList(rows, c) \in Nat /\ InList(buffer, c) \in Nat
        BY <1>1, ListCounts
      <4>4. InList(rows, c) + InList(buffer, c) + Cardinality(Charged(c)) <= owed[c]
        BY <2>1 DEF Written
      <4>5. InList(rows, c)' + InList(buffer, c)' + Cardinality(Charged(c)') <= owed'[c]
        BY <1>3, <3>1, <3>5, <4>1, <4>2, <4>3, <4>4
      <4> QED BY <4>5 DEF Written
    <3>7. Spent(c)'
      <4>1. Limit[c] > 0 => owed[c] + Cardinality(Admitted(c)) <= Limit[c] - 1 + Cardinality(Slots) + raced[c] + lost[c]
        BY <2>1 DEF Spent
      <4>2. Limit[c] > 0 => owed'[c] + Cardinality(Admitted(c)) <= Limit[c] - 1 + Cardinality(Slots) + raced'[c] + lost'[c]
        BY <1>3, <3>1, <3>5, <4>1
      <4> QED BY <3>2, <4>2 DEF Spent
    <3> QED BY <3>4, <3>6, <3>7
  <2> QED BY <2>2, <2>3, <2>4
<1> QED BY <1>5, <1>6 DEF BudgetInv

\* The counters of which the table has rows, each of them once.
LEMMA Enumerates ==
  ASSUME NEW S, IsFiniteSet(S)
  PROVE  /\ SetToSeq(S) \in [1..Cardinality(S) -> S] /\ Cardinality(S) \in Nat
         /\ \A i, j \in 1..Cardinality(S) : SetToSeq(S)[i] = SetToSeq(S)[j] => i = j
         /\ \A x \in S : \E i \in 1..Cardinality(S) : SetToSeq(S)[i] = x
<1> DEFINE n == Cardinality(S)
           f == SetToSeq(S)
<1>1. n \in Nat /\ ExistsBijection(1..n, S)
  BY FS_CardinalityType
<1>2. \E g \in [1..n -> S] : IsInjective(g)
  BY <1>1 DEF ExistsBijection, Bijection, Injection, IsInjective
<1>3. f \in [1..n -> S] /\ IsInjective(f)
  BY <1>2 DEF SetToSeq
<1> HIDE DEF f
<1>4. \A i, j \in 1..n : f[i] = f[j] => i = j
  BY <1>3 DEF IsInjective
<1>5. f \in Injection(1..n, S)
  BY <1>3, <1>4 DEF Injection, IsInjective
<1>6. Cardinality(1..n) = n
  BY <1>1, FS_Interval
<1>7. f \in Surjection(1..n, S)
  BY <1>5, <1>6, FS_Injection
<1> QED BY <1>1, <1>3, <1>4, <1>7 DEF Surjection, f

\* What the rows say of a counter.
LEMMA Rows ==
  ASSUME TokenAssumption, TokenTypes, NEW c \in Counters
  PROVE  Seeded(c) = InList(rows, c) /\ Used(c) = InList(rows, c) /\ InList(rows, c) \in Nat
<1>1. rows \in Seq(DatedEvents) /\ day \in Days /\ Length[c] \in Nat \ {0}
  BY DEF TokenTypes, EventsOK, TokenAssumption
<1>2. ASSUME NEW i \in DOMAIN rows
      PROVE  /\ Seeds(rows[i], c) <=> Counts(rows[i], c)
             /\ rows[i].day \div Length[c] = day \div Length[c] <=> WindowAt(c, rows[i].day) = WindowAt(c, day)
  <2>1. rows[i] \in DatedEvents
    BY <1>1
  <2>2. rows[i].scopes \in Seq(Counters) /\ rows[i].day \in Nat /\ day \in Nat
    BY <1>1, <2>1 DEF DatedEvents, Days
  <2>3. DOMAIN rows[i].scopes = 1..Len(rows[i].scopes)
    BY <2>2
  <2>4. rows[i].day \div Length[c] \in Int /\ day \div Length[c] \in Int
    BY <1>1, <2>2
  <2> QED BY <2>3, <2>4 DEF Seeds, Counts, Contains, WindowAt
<1>3. {i \in DOMAIN rows : Seeds(rows[i], c)} = {i \in DOMAIN rows : Counts(rows[i], c)}
  BY <1>2
<1>4. {i \in DOMAIN rows : Contains(rows[i].scopes, c) /\ rows[i].day \div Length[c] = day \div Length[c]}
         = {i \in DOMAIN rows : Counts(rows[i], c)}
  BY <1>2 DEF Counts
<1>5. InList(rows, c) \in Nat
  BY <1>1, ListCounts
<1> QED BY <1>3, <1>4, <1>5 DEF Seeded, Used, InList

\* Another process seeds its counters with what the table has, and knows
\* neither what was dropped nor what a reset had lost.
LEMMA Restarts ==
  ASSUME TokenAssumption, TokenTypes, BudgetInv, Restart
  PROVE  TokenTypes' /\ BudgetInv'
<1> DEFINE S == {c \in Counters : Seeded(c) > 0}
           used == SetToSeq(S)
           n == Cardinality(S)
<1>1. /\ heap' = [i \in DOMAIN used |-> SeededEntry(used[i])]
      /\ entries' = [c \in Counters |-> IF Contains(used, c) THEN CHOOSE i \in DOMAIN used : used[i] = c ELSE NoEntry]
      /\ call' = [s \in Slots |-> Idle] /\ buffer' = <<>>
      /\ owed' = [c \in Counters |-> Used(c)] /\ raced' = [c \in Counters |-> 0]
      /\ lost' = [c \in Counters |-> lost[c] + raced[c]]
      /\ UNCHANGED <<day, rows, upset>>
  BY DEF Restart
<1>2. IsFiniteSet(S)
  <2>1. S \in SUBSET Counters /\ IsFiniteSet(Counters)
    BY DEF TokenAssumption
  <2> HIDE DEF S
  <2> QED BY <2>1, FS_Subset
<1>3. /\ used \in [1..n -> S] /\ n \in Nat
      /\ \A i, j \in 1..n : used[i] = used[j] => i = j
      /\ \A c \in S : \E i \in 1..n : used[i] = c
  <2> HIDE DEF S
  <2> QED BY <1>2, Enumerates
<1>4. ASSUME NEW c \in Counters
      PROVE  /\ Seeded(c) = InList(rows, c) /\ Used(c) = InList(rows, c) /\ InList(rows, c) \in Nat
             /\ WindowAt(c, day) \in Nat \ {0} /\ WindowAt(c, day)' = WindowAt(c, day)
             /\ SeededEntry(c) \in Entries
             /\ SeededEntry(c).start = WindowAt(c, day) /\ SeededEntry(c).tokens = InList(rows, c)
             /\ owed[c] \in Nat /\ raced[c] \in Nat /\ lost[c] \in Nat
  <2>1. Seeded(c) = InList(rows, c) /\ Used(c) = InList(rows, c) /\ InList(rows, c) \in Nat
    BY Rows
  <2>2. day \in Days /\ day <= day
    BY DEF TokenTypes, EventsOK, Days
  <2>3. WindowAt(c, day) \in Nat \ {0}
    BY <2>2, Windows
  <2>4. owed[c] \in Nat /\ raced[c] \in Nat /\ lost[c] \in Nat
    BY DEF TokenTypes, CountsOK
  <2> QED BY <1>1, <2>1, <2>3, <2>4 DEF SeededEntry, Entries, WindowAt
<1>5. \A c \in Counters : c \in S <=> InList(rows, c) > 0
  BY <1>4
<1>6. S \subseteq Counters
  OBVIOUS
<1> HIDE DEF S, used, n
<1>7. Len(used) = n /\ DOMAIN used = 1..n
  BY <1>3
<1>8. ASSUME NEW c \in Counters
      PROVE  \/ c \in S /\ entries'[c] \in 1..n /\ used[entries'[c]] = c
             \/ c \notin S /\ entries'[c] = NoEntry
  <2>1. CASE c \in S
    <3>1. Contains(used, c) /\ \E i \in DOMAIN used : used[i] = c
      BY <1>3, <1>7, <2>1 DEF Contains
    <3>2. entries'[c] = CHOOSE i \in DOMAIN used : used[i] = c
      BY <1>1, <3>1
    <3> QED BY <1>7, <2>1, <3>1, <3>2
  <2>2. CASE c \notin S
    <3>1. ~Contains(used, c)
      BY <1>3, <1>7, <2>2 DEF Contains
    <3> QED BY <1>1, <2>2, <3>1
  <2> QED BY <2>1, <2>2
<1>9. heap' \in Seq(Entries) /\ Len(heap') = n /\ \A i \in 1..n : heap'[i] = SeededEntry(used[i])
  <2>1. \A i \in 1..n : SeededEntry(used[i]) \in Entries
    BY <1>3, <1>4, <1>6
  <2>2. heap' \in [1..n -> Entries] /\ \A i \in 1..n : heap'[i] = SeededEntry(used[i])
    BY <1>1, <1>7, <2>1
  <2> QED BY <1>3, <2>2
<1>10. \A s \in Slots : call'[s] = Idle
  BY <1>1
<1>11. \A c \in Counters : owed'[c] = InList(rows, c) /\ raced'[c] = 0 /\ lost'[c] = lost[c] + raced[c]
  BY <1>1, <1>4
<1>12. TokenTypes'
  <2>1. entries' \in [Counters -> 0..n]
    <3>1. \A c \in Counters : entries'[c] \in 0..n
      BY <1>3, <1>8 DEF NoEntry
    <3> QED BY <1>1, <3>1
  <2>2. CallsOK'
    <3>1. Idle \in Calls /\ Idle.left = <<>> /\ Idle.pc \notin Holding
      BY DEF Idle, Calls, Days, Holding, NoEntry, TokenAssumption
    <3>2. IsInjective(Idle.left) /\ \A c \in Counters : ~Contains(Idle.left, c)
      BY <3>1, NoneListed
    <3>3. call' \in [Slots -> Calls]
      BY <1>1, <3>1
    <3> QED BY <1>10, <3>1, <3>2, <3>3 DEF CallsOK, Holds
  <2>3. CountsOK'
    <3>1. owed' \in [Counters -> Nat] /\ raced' \in [Counters -> Nat]
      BY <1>1, <1>4
    <3>2. \A c \in Counters : lost[c] + raced[c] \in Nat
      BY <1>4
    <3>3. lost' \in [Counters -> Nat]
      BY <1>1, <3>2
    <3> QED BY <1>1, <3>1, <3>3 DEF TokenTypes, CountsOK
  <2>4. EventsOK'
    BY <1>1 DEF TokenTypes, EventsOK
  <2> QED BY <1>9, <2>1, <2>2, <2>3, <2>4 DEF TokenTypes, HeapOK
<1>13. ASSUME ~upset
       PROVE  /\ OneEntry' /\ \A s \in Slots : InWindow(s)'
              /\ \A c \in Counters : Balanced(c)' /\ Written(c)' /\ Spent(c)'
  <2>1. \A s \in Slots : call'[s].pc = "idle"
    BY <1>10 DEF Idle
  <2>2. OneEntry'
    <3>1. \A c, d \in Counters : entries'[c] # NoEntry /\ entries'[c] = entries'[d] => c = d
      BY <1>8
    <3> QED BY <2>1, <3>1 DEF OneEntry, At, Holds, Holding, Locked
  <2>3. \A s \in Slots : InWindow(s)'
    BY <2>1 DEF InWindow, At
  <2>4. ASSUME NEW c \in Counters PROVE Balanced(c)' /\ Written(c)' /\ Spent(c)'
    <3>1. Admitted(c)' = {} /\ Charged(c)' = {} /\ ~ResettingOf(c)'
      BY <2>1 DEF Admitted, Charged, ResettingOf, Checking, Charging, At
    <3>2. ASSUME c \in S PROVE Balanced(c)'
      <4>1. entries'[c] \in 1..n /\ heap'[entries'[c]] = SeededEntry(c)
        BY <1>8, <1>9, <3>2
      <4>2. StartOf(c)' = WindowAt(c, day) /\ heap'[entries'[c]].tokens = InList(rows, c)
        <5>1. entries'[c] # NoEntry
          BY <1>3, <4>1 DEF NoEntry
        <5> QED BY <1>4, <4>1, <5>1 DEF StartOf
      <4>3. owed'[c] - raced'[c] <= InList(rows, c) /\ InList(rows, c) <= owed'[c]
        BY <1>4, <1>11
      <4>4. WindowAt(c, day) <= WindowAt(c, day)
        BY <1>4
      <4> QED BY <1>4, <3>1, <4>2, <4>3, <4>4 DEF Balanced
    <3>3. ASSUME c \notin S PROVE Balanced(c)'
      <4>1. InList(rows, c) = 0 /\ entries'[c] = NoEntry
        BY <1>4, <1>5, <1>8, <3>3
      <4>2. StartOf(c)' = 0 /\ 0 <= WindowAt(c, day) /\ 0 # WindowAt(c, day)
        BY <1>4, <4>1 DEF StartOf
      <4> QED BY <1>4, <1>11, <4>1, <4>2 DEF Balanced
    <3>4. Cardinality(Admitted(c)') = 0 /\ Cardinality(Charged(c)') = 0
      BY <3>1, FS_EmptySet
    <3>5. Written(c) /\ Spent(c)
      BY <1>13 DEF BudgetInv
    <3>6. InList(rows, c)' = InList(rows, c) /\ InList(buffer, c)' = 0
      <4>1. InList(rows, c)' = InList(rows', c) /\ InList(buffer, c)' = InList(buffer', c)
        BY <1>1 DEF InList, Counts
      <4>2. {i \in DOMAIN <<>> : Counts(<<>>[i], c)} = {}
        OBVIOUS
      <4>3. InList(<<>>, c) = 0
        BY <4>2, FS_EmptySet DEF InList
      <4> QED BY <1>1, <4>1, <4>3
    <3>7. Written(c)'
      <4>1. InList(rows, c) + 0 + 0 <= InList(rows, c)
        BY <1>4
      <4> QED BY <1>11, <3>4, <3>6, <4>1 DEF Written
    <3>8. Spent(c)'
      <4>1. /\ Cardinality(Admitted(c)) \in Nat /\ Cardinality(Charged(c)) \in Nat /\ Cardinality(Slots) \in Nat
            /\ InList(buffer, c) \in Nat /\ Limit[c] \in Nat
        <5>1. Charged(c) \in SUBSET Slots /\ Admitted(c) \in SUBSET Slots /\ IsFiniteSet(Slots)
          BY DEF Charged, Admitted, TokenAssumption
        <5>2. IsFiniteSet(Charged(c)) /\ IsFiniteSet(Admitted(c))
          BY <5>1, FS_Subset
        <5>3. InList(buffer, c) \in Nat /\ Limit[c] \in Nat
          BY ListCounts DEF TokenTypes, EventsOK, TokenAssumption
        <5> QED BY <5>1, <5>2, <5>3, FS_CardinalityType
      <4>2. InList(rows, c) + InList(buffer, c) + Cardinality(Charged(c)) <= owed[c]
        BY <3>5 DEF Written
      <4>3. Limit[c] > 0 => owed[c] + Cardinality(Admitted(c)) <= Limit[c] - 1 + Cardinality(Slots) + raced[c] + lost[c]
        BY <3>5 DEF Spent
      <4>4. Limit[c] > 0 => owed'[c] + 0 <= Limit[c] - 1 + Cardinality(Slots) + raced'[c] + lost'[c]
        BY <1>4, <1>11, <4>1, <4>2, <4>3
      <4> QED BY <3>4, <4>4 DEF Spent
    <3> QED BY <3>2, <3>3, <3>7, <3>8
  <2> QED BY <2>2, <2>3, <2>4
<1>14. BudgetInv'
  BY <1>1, <1>13 DEF BudgetInv
<1> QED BY <1>12, <1>14

-----------------------------------------------------------------------------

\* At the start nothing is owed.
LEMMA Starts ==
  ASSUME TokenAssumption, TokenInit
  PROVE  TokenTypes /\ BudgetInv
<1>1. /\ day = 0 /\ entries = [c \in Counters |-> NoEntry] /\ heap = <<>> /\ call = [s \in Slots |-> Idle]
      /\ buffer = <<>> /\ rows = <<>> /\ upset = FALSE
      /\ owed = [c \in Counters |-> 0] /\ raced = [c \in Counters |-> 0] /\ lost = [c \in Counters |-> 0]
  BY DEF TokenInit
<1>2. Idle \in Calls /\ Idle.left = <<>> /\ Idle.pc = "idle" /\ 0 \in Days
  BY DEF Idle, Calls, Days, Holding, NoEntry, TokenAssumption
<1>3. TokenTypes
  <2>1. HeapOK
    BY <1>1 DEF HeapOK, NoEntry
  <2>2. CallsOK
    BY <1>1, <1>2, NoneListed DEF CallsOK, Holds, Holding
  <2>3. EventsOK
    <3>1. <<>> \in Seq(DatedEvents) /\ DOMAIN <<>> = {}
      OBVIOUS
    <3> QED BY <1>1, <1>2, <3>1 DEF EventsOK
  <2>4. CountsOK
    BY <1>1 DEF CountsOK
  <2> QED BY <2>1, <2>2, <2>3, <2>4 DEF TokenTypes
<1>4. \A s \in Slots : call[s].pc = "idle"
  BY <1>1, <1>2
<1>5. OneEntry /\ \A s \in Slots : InWindow(s)
  BY <1>1, <1>4 DEF OneEntry, InWindow, At, Holds, Holding, Locked
<1>6. ASSUME NEW c \in Counters PROVE Balanced(c) /\ Written(c) /\ Spent(c)
  <2>1. Admitted(c) = {} /\ Charged(c) = {} /\ ~ResettingOf(c)
    BY <1>4 DEF Admitted, Charged, ResettingOf, Checking, Charging, At
  <2>2. WindowAt(c, day) \in Nat \ {0} /\ StartOf(c) = 0 /\ owed[c] = 0 /\ raced[c] = 0 /\ lost[c] = 0
    <3>1. day \in Days /\ day <= day
      BY <1>1, <1>2
    <3>2. WindowAt(c, day) \in Nat \ {0}
      BY <3>1, Windows
    <3> QED BY <1>1, <3>2 DEF StartOf
  <2>3. Cardinality(Admitted(c)) = 0 /\ Cardinality(Charged(c)) = 0
    BY <2>1, FS_EmptySet
  <2>4. InList(rows, c) = 0 /\ InList(buffer, c) = 0
    <3>1. {i \in DOMAIN <<>> : Counts(<<>>[i], c)} = {}
      OBVIOUS
    <3> QED BY <1>1, <3>1, FS_EmptySet DEF InList
  <2>5. Limit[c] \in Nat /\ Cardinality(Slots) \in Nat
    BY FS_CardinalityType DEF TokenAssumption
  <2> QED BY <2>2, <2>3, <2>4, <2>5 DEF Balanced, Written, Spent
<1> QED BY <1>3, <1>5, <1>6 DEF BudgetInv

\* Every step keeps the types and the budgets.
LEMMA TokenSteps ==
  ASSUME TokenAssumption, TokenTypes, BudgetInv, [TokenNext]_tokenVars
  PROVE  TokenTypes' /\ BudgetInv'
<1>1. ASSUME NEW s \in Slots,
             \/ CheckTokens(s) \/ FindEntry(s) \/ ReadWindow(s) \/ ReadTokens(s)
             \/ Serve(s) \/ LogUsage(s) \/ AddStep(s)
      PROVE  TokenTypes' /\ BudgetInv'
  BY <1>1, Arrives, Checks, Serves, Takes, Adds, Locks, Resets, Enqueues DEF AddStep
<1>2. CASE UNCHANGED tokenVars
  <2>1. UNCHANGED <<call, heap, day>> /\ UNCHANGED entries /\ UNCHANGED <<owed, raced, lost>>
        /\ UNCHANGED <<buffer, rows, upset>> /\ UNCHANGED <<day, buffer, rows>>
    BY <1>2 DEF tokenVars
  <2>2. TokenTypes'
    BY <2>1 DEF TokenTypes, HeapOK, CallsOK, Holds, The, EventsOK, CountsOK
  <2>3. BudgetInv'
    BY <2>1, Stands, ListsSame DEF BudgetInv, Written
  <2> QED BY <2>2, <2>3
<1> QED BY <1>1, <1>2, Flushes, Evicts, DayPasses, Restarts DEF TokenNext

\* What the counters show and what the requests spend follows.
LEMMA BudgetsFollow ==
  ASSUME TokenAssumption, TokenTypes, BudgetInv
  PROVE  BudgetsKept
<1>1. ASSUME ~upset, NEW c \in Counters, Settled(c)
      PROVE  owed[c] - raced[c] <= Shown(c) /\ Shown(c) <= owed[c]
  <2>1. OneEntry /\ Balanced(c)
    BY <1>1 DEF BudgetInv
  <2>2. owed[c] \in Nat /\ raced[c] \in Nat /\ day \in Days /\ day <= day
    BY DEF TokenTypes, CountsOK, EventsOK, Days
  <2>3. WindowAt(c, day) \in Nat \ {0}
    BY <2>2, Windows
  <2>4. CASE StartOf(c) # WindowAt(c, day)
    <3>1. Shown(c) = 0
      BY <2>4 DEF Shown, StartOf
    <3>2. owed[c] = 0 /\ raced[c] = 0
      BY <2>1, <2>4 DEF Balanced
    <3> QED BY <3>1, <3>2
  <2>5. CASE StartOf(c) = WindowAt(c, day)
    <3>1. entries[c] # NoEntry /\ Shown(c) = heap[entries[c]].tokens
      BY <2>3, <2>5 DEF Shown, StartOf
    <3>2. ~ResettingOf(c)
      <4>1. ASSUME NEW s \in Slots, At(s, "reset"), Counter(s) = c PROVE FALSE
        <5>1. The(s) = entries[c]
          BY <2>1, <4>1 DEF OneEntry, Holds, Holding, At
        <5> QED BY <1>1, <3>1, <4>1, <5>1 DEF Settled, Resetting
      <4> QED BY <4>1 DEF ResettingOf
    <3> QED BY <2>1, <2>5, <3>1, <3>2 DEF Balanced
  <2> QED BY <2>4, <2>5
<1>2. ASSUME ~upset, NEW c \in Counters PROVE Spent(c)
  BY <1>2 DEF BudgetInv
<1> QED BY <1>1, <1>2 DEF BudgetsKept, BudgetRemembered, OverspendBounded, Spent

\* For any number of requests at once, any budgets and windows, and any order in
\* which they check, add, reset, write and crash: a counter shows what was used
\* in its window but for what raced its reset, and a budget is exceeded only by
\* the requests that were served at once and by what was forgotten.
THEOREM BudgetsStayKept ==
  ASSUME TokenAssumption
  PROVE  TokenSpec => []BudgetsKept
<1>1. TokenInit => TokenTypes /\ BudgetInv
  BY Starts
<1>2. TokenTypes /\ BudgetInv /\ [TokenNext]_tokenVars => TokenTypes' /\ BudgetInv'
  BY TokenSteps
<1>3. TokenTypes /\ BudgetInv => BudgetsKept
  BY BudgetsFollow
<1> QED BY <1>1, <1>2, <1>3, PTL DEF TokenSpec

-----------------------------------------------------------------------------
(***************************************************************************)
(* The usage log, for every set of events, buffer size and number of       *)
(* database failures: the way from the channel to flush neither loses nor  *)
(* repeats nor reorders, Stop flushes what came before it, and the rollup  *)
(* rows follow the table.  Then GracefulShutdown, for every set of         *)
(* requests, streaming or not: it drives the usage log only as the log     *)
(* allows, so that the log's theorems hold of it too, the tracked requests *)
(* are counted right, and no handler outlives the server.                  *)
(***************************************************************************)

\* What a list counts for a rollup row is a number.
LEMMA CountType ==
  ASSUME NEW s \in Seq(Events), NEW b
  PROVE  CountIn(s, b) \in Nat
<1>1. Len(s) \in Nat
  BY LenProperties
<1>2. IsFiniteSet(1..Len(s))
  BY <1>1, FS_Interval
<1>3. IsFiniteSet({i \in 1..Len(s) : Bucket[s[i]] = b})
  BY <1>2, FS_Subset
<1> QED BY <1>3, FS_CardinalityType DEF CountIn

\* The elements of lists that are put together.
LEMMA ElementsOf ==
  ASSUME NEW s \in Seq(Events), NEW t \in Seq(Events)
  PROVE  /\ Elements(s \o t) = Elements(s) \cup Elements(t)
         /\ Elements(<<>>) = {}
<1>1. /\ Len(s) \in Nat /\ Len(t) \in Nat /\ Len(s \o t) = Len(s) + Len(t)
      /\ \A i \in 1..Len(s) : (s \o t)[i] = s[i]
      /\ \A i \in 1..Len(t) : (s \o t)[Len(s) + i] = t[i]
  BY LenProperties, ConcatProperties
<1>2. \A i \in 1..(Len(s) + Len(t)) : i \in 1..Len(s) \/ i - Len(s) \in 1..Len(t)
  BY <1>1
<1>3. ASSUME NEW x \in Elements(s \o t) PROVE x \in Elements(s) \cup Elements(t)
  <2>1. PICK i \in 1..(Len(s) + Len(t)) : x = (s \o t)[i]
    BY <1>1, <1>3 DEF Elements
  <2>2. CASE i \in 1..Len(s)
    BY <1>1, <2>1, <2>2 DEF Elements
  <2>3. CASE i - Len(s) \in 1..Len(t)
    <3>1. (s \o t)[i] = t[i - Len(s)]
      BY <1>1, <2>1, <2>3
    <3> QED BY <2>1, <2>3, <3>1 DEF Elements
  <2> QED BY <1>2, <2>2, <2>3
<1>4. ASSUME NEW i \in 1..Len(s) PROVE s[i] \in Elements(s \o t)
  <2>1. i \in 1..Len(s \o t) /\ (s \o t)[i] = s[i]
    BY <1>1
  <2> QED BY <2>1 DEF Elements
<1>5. ASSUME NEW i \in 1..Len(t) PROVE t[i] \in Elements(s \o t)
  <2>1. Len(s) + i \in 1..Len(s \o t) /\ (s \o t)[Len(s) + i] = t[i]
    BY <1>1
  <2> QED BY <2>1 DEF Elements
<1>6. Elements(<<>>) = {}
  BY DEF Elements
<1> QED BY <1>3, <1>4, <1>5, <1>6 DEF Elements

\* An event that moves from the head of one list to the end of another.
LEMMA Shift ==
  \A f, p, s \in Seq(Events) :
      s # <<>> => (f \o p) \o s = (f \o Append(p, Head(s))) \o Tail(s)
<1> SUFFICES ASSUME NEW f \in Seq(Events), NEW p \in Seq(Events),
                    NEW s \in Seq(Events), s # <<>>
             PROVE  (f \o p) \o s = (f \o Append(p, Head(s))) \o Tail(s)
  OBVIOUS
<1> DEFINE h == Head(s)
           t == Tail(s)
<1>1. h \in Events /\ t \in Seq(Events) /\ <<h>> \in Seq(Events) /\ s = <<h>> \o t
  BY HeadTailProperties
<1> HIDE DEF h, t
<1>2. Append(p, h) = p \o <<h>> /\ p \o <<h>> \in Seq(Events)
  BY <1>1, AppendIsConcat, ConcatProperties
<1>3. f \o p \in Seq(Events)
  BY ConcatProperties
<1>4. (f \o p) \o s = ((f \o p) \o <<h>>) \o t
  BY SMTT(30), <1>1, <1>3, ConcatAssociative
<1>5. (f \o p) \o <<h>> = f \o (p \o <<h>>)
  BY <1>1, ConcatAssociative
<1> QED BY <1>2, <1>4, <1>5 DEF h, t

\* An event at the end of the last of two lists.
LEMMA Extend ==
  \A s, t \in Seq(Events) : \A e \in Events :
      Append(s \o t, e) = s \o Append(t, e)
<1> SUFFICES ASSUME NEW s \in Seq(Events), NEW t \in Seq(Events), NEW e \in Events
             PROVE  Append(s \o t, e) = s \o Append(t, e)
  OBVIOUS
<1>1. s \o t \in Seq(Events) /\ <<e>> \in Seq(Events)
  BY ConcatProperties
<1>2. Append(s \o t, e) = (s \o t) \o <<e>> /\ Append(t, e) = t \o <<e>>
  BY <1>1, AppendIsConcat
<1>3. (s \o t) \o <<e>> = s \o (t \o <<e>>)
  BY <1>1, ConcatAssociative
<1> QED BY <1>2, <1>3
-----------------------------------------------------------------------------
\* The lists and the rows keep their types.
LEMMA InitTypes == Init => TypeOK
<1> SUFFICES ASSUME Init PROVE TypeOK
  OBVIOUS
<1>1. <<>> \in Seq(Events) /\ Len(<<>>) = 0
  BY EmptySeq
<1>2. BufferSize \in Nat /\ MaxFailures \in Nat
  BY UsageAssumption
<1>3. caller \in [Events -> {"new", "counted", "sent", "dropped"}]
  BY DEF Init
<1>4. rollup \in [Buckets -> Nat]
  BY DEF Init
<1>5. events \in Seq(Events) /\ Len(events) <= BufferSize
  BY <1>1, <1>2 DEF Init
<1>6. batch \in Seq(Events) /\ table \in Seq(Events)
  BY <1>1 DEF Init
<1>7. sent \in Seq(Events) /\ flushed \in Seq(Events) /\ timely \in Seq(Events)
  BY <1>1 DEF Init
<1>8. failures \in 0..MaxFailures
  BY <1>2 DEF Init
<1>9. /\ runner = "select" /\ flushing = "no" /\ todo \subseteq Buckets /\ done = FALSE
      /\ discarded \subseteq Events
  BY DEF Init
<1> QED BY <1>3, <1>4, <1>5, <1>6, <1>7, <1>8, <1>9 DEF TypeOK

\* Every step keeps the types.
LEMMA NextTypes == TypeOK /\ [Next]_vars => TypeOK'
<1> SUFFICES ASSUME TypeOK, [Next]_vars PROVE TypeOK'
  OBVIOUS
<1> USE DEF TypeOK
<1>1. \A b : CountIn(batch, b) \in Nat
  BY CountType
<1>2. Elements(batch) \subseteq Events
  BY ElementOfSeq DEF Elements
<1>3. events # <<>> => /\ Head(events) \in Events /\ Tail(events) \in Seq(Events)
                       /\ Len(Tail(events)) = Len(events) - 1
                       /\ Append(batch, Head(events)) \in Seq(Events)
  BY HeadTailProperties, AppendProperties
<1>4. table \o batch \in Seq(Events) /\ flushed \o batch \in Seq(Events)
  BY ConcatProperties
<1>5. <<>> \in Seq(Events) /\ Len(events) \in Nat /\ BufferSize \in Nat
  BY EmptySeq, LenProperties, UsageAssumption
<1>6. {Bucket[e] : e \in Elements(batch)} \subseteq Buckets
  BY <1>2 DEF Buckets
<1>7. ASSUME NEW e \in Events PROVE Count(e) \/ Enqueue(e) \/ Drop(e) => TypeOK'
  <2>1. /\ Append(events, e) \in Seq(Events) /\ Len(Append(events, e)) = Len(events) + 1
        /\ Append(sent, e) \in Seq(Events)
    BY AppendProperties
  <2>2. CASE Count(e)
    BY <2>2 DEF Count, memory, store, history
  <2>3. CASE Enqueue(e)
    BY <1>5, <2>1, <2>3 DEF Enqueue, store
  <2>4. CASE Drop(e)
    BY <2>4 DEF Drop, memory, store, history
  <2> QED BY <2>2, <2>3, <2>4
<1>8. Receive => TypeOK'
  BY <1>3, <1>5 DEF Receive, store, history
<1>9. Tick \/ SeeDone => TypeOK'
  BY DEF Tick, SeeDone, BeginFlush, memory, store, history
<1>10. DrainReceive => TypeOK'
  BY <1>3, <1>5 DEF DrainReceive, store, history
<1>11. DrainEnds => TypeOK'
  BY DEF DrainEnds, BeginFlush, store, history
<1>12. InsertCommits => TypeOK'
  BY <1>4, <1>6 DEF InsertCommits
<1>13. InsertFails => TypeOK'
  BY <1>2, <1>4, <1>5, UsageAssumption DEF InsertFails, Returned
<1>14. ASSUME NEW b \in Buckets PROVE Upsert(b) => TypeOK'
  BY SMTT(30), <1>1, UsageAssumption DEF Upsert, history
<1>15. FlushReturns => TypeOK'
  BY <1>5 DEF FlushReturns, Returned, store, history
<1>16. Stop \/ Kill => TypeOK'
  BY DEF Stop, Kill, memory, store, history
<1>17. UNCHANGED vars => TypeOK'
  BY DEF vars, memory, store, history
<1> QED
  BY <1>7, <1>8, <1>9, <1>10, <1>11, <1>12, <1>13, <1>14, <1>15, <1>16, <1>17
     DEF Next, Run

\* The logger's variables have their types (logger.go).
THEOREM TypeCorrectness == Spec => []TypeOK
BY InitTypes, NextTypes, PTL DEF Spec
-----------------------------------------------------------------------------
(***************************************************************************)
(* A batch is pending until its transaction has ended, and never longer:   *)
(* the channel, the pending batch and what was flushed make up what the    *)
(* channel has accepted, in this order.                                    *)
(***************************************************************************)
LEMMA InitConserved == Init => Conserved
<1>1. <<>> \o <<>> = <<>>
  BY EmptySeq, ConcatEmptySeq
<1> QED BY <1>1 DEF Init, Conserved, Pending

\* Every step keeps what was accepted in the channel, the batch or the flushed events.
LEMMA NextConserved == TypeOK /\ Conserved /\ [Next]_vars => Conserved'
<1> SUFFICES ASSUME TypeOK, Conserved, [Next]_vars PROVE Conserved'
  OBVIOUS
<1>1. /\ events \in Seq(Events) /\ batch \in Seq(Events) /\ flushed \in Seq(Events)
      /\ Pending \in Seq(Events) /\ flushed \o Pending \in Seq(Events)
      /\ flushed \o batch \in Seq(Events)
  BY EmptySeq, ConcatProperties DEF TypeOK, Pending
<1>2. sent = (flushed \o Pending) \o events
  BY DEF Conserved
<1>3. CASE UNCHANGED <<sent, flushed, Pending, events>>
  BY <1>2, <1>3 DEF Conserved
<1>4. ASSUME NEW e \in Events, Enqueue(e) PROVE Conserved'
  <2>1. UNCHANGED <<flushed, Pending>> /\ events' = Append(events, e) /\ sent' = Append(sent, e)
    BY <1>4 DEF Enqueue, Pending
  <2>2. Append((flushed \o Pending) \o events, e) = (flushed \o Pending) \o Append(events, e)
    BY <1>1, Extend
  <2> QED BY <1>2, <2>1, <2>2 DEF Conserved
<1>5. CASE Receive \/ DrainReceive
  <2>1. /\ events # <<>> /\ UNCHANGED <<sent, flushed>> /\ events' = Tail(events)
        /\ Pending = batch /\ Pending' = Append(batch, Head(events))
    BY <1>5 DEF Receive, DrainReceive, Pending, history
  <2>2. (flushed \o batch) \o events = (flushed \o Append(batch, Head(events))) \o Tail(events)
    <3>1. /\ flushed \in Seq(Events) /\ batch \in Seq(Events) /\ events \in Seq(Events)
          /\ events # <<>>
      BY <1>1, <2>1
    <3> QED BY ONLY <3>1, Shift, Zenon
  <2> QED BY <1>2, <2>1, <2>2 DEF Conserved
<1>6. CASE InsertCommits \/ InsertFails
  <2>1. /\ UNCHANGED <<sent, events>> /\ flushed' = flushed \o batch
        /\ Pending = batch /\ Pending' = <<>>
    BY <1>6 DEF InsertCommits, InsertFails, Returned, Pending
  <2>2. (flushed \o batch) \o <<>> = flushed \o batch
    BY <1>1, ConcatEmptySeq
  <2> QED BY <1>2, <2>1, <2>2 DEF Conserved
<1>7. ASSUME NEW e, Count(e) \/ Drop(e) PROVE Conserved'
  BY <1>3, <1>7 DEF Count, Drop, Pending, memory, history
<1>8. CASE Tick \/ SeeDone \/ DrainEnds
  BY <1>3, <1>8 DEF Tick, SeeDone, DrainEnds, BeginFlush, Pending, memory, history
<1>9. ASSUME NEW b, Upsert(b) PROVE Conserved'
  BY <1>3, <1>9 DEF Upsert, Pending, history
<1>10. CASE FlushReturns
  BY <1>3, <1>10 DEF FlushReturns, Returned, Pending, history
<1>11. CASE Stop \/ Kill
  BY <1>3, <1>11 DEF Stop, Kill, Pending, memory, history
<1>12. CASE UNCHANGED vars
  BY <1>3, <1>12 DEF vars, Pending, memory, history
<1> QED
  BY <1>4, <1>5, <1>6, <1>7, <1>8, <1>9, <1>10, <1>11, <1>12 DEF Next, Run

\* Nothing the channel accepted is lost, repeated or reordered before flush.
THEOREM EverythingConserved == Spec => []Conserved
<1>1. Init => TypeOK /\ Conserved
  BY InitTypes, InitConserved
<1>2. TypeOK /\ Conserved /\ [Next]_vars => (TypeOK /\ Conserved)'
  BY NextTypes, NextConserved
<1> QED BY <1>1, <1>2, PTL DEF Spec
-----------------------------------------------------------------------------
(***************************************************************************)
(* Why Stop flushes what came before it: only a goroutine that saw done    *)
(* drains, so timely is fixed by then; it leaves the drain loop only with  *)
(* an empty channel, and then, by Conserved, what is not yet flushed is in *)
(* the batch of the last flush.                                            *)
(***************************************************************************)
TimelyFlushed == runner = "stopped" => Elements(timely) \subseteq Elements(flushed)

StopInv ==
    /\ runner \in {"drain", "stopped"} => done
    /\ Elements(timely) \subseteq Elements(sent)
    /\ runner = "drain" /\ flushing # "no" =>
           Elements(timely) \subseteq Elements(flushed) \cup Elements(Pending)
    /\ TimelyFlushed

\* At the start Stop was not called.
LEMMA InitStop == Init => StopInv
<1>1. Elements(<<>>) = {}
  BY DEF Elements
<1> QED BY <1>1 DEF Init, StopInv, TimelyFlushed

\* Every step keeps what came before Stop in reach of the last flush.
LEMMA NextStop == TypeOK /\ Conserved /\ StopInv /\ [Next]_vars => StopInv'
<1> SUFFICES ASSUME TypeOK, Conserved, StopInv, [Next]_vars PROVE StopInv'
  OBVIOUS
<1>1. /\ events \in Seq(Events) /\ batch \in Seq(Events) /\ flushed \in Seq(Events)
      /\ sent \in Seq(Events) /\ Pending \in Seq(Events) /\ flushed \o Pending \in Seq(Events)
  BY EmptySeq, ConcatProperties DEF TypeOK, Pending
<1>2. Elements(<<>>) = {}
  BY DEF Elements
<1>3. Elements(sent) = (Elements(flushed) \cup Elements(Pending)) \cup Elements(events)
  BY <1>1, ElementsOf DEF Conserved
<1>4. CASE UNCHANGED <<runner, done, flushing, batch, sent, flushed, timely>>
  BY <1>4 DEF StopInv, TimelyFlushed, Pending
<1>5. ASSUME NEW e \in Events, Enqueue(e) PROVE StopInv'
  <2>1. /\ UNCHANGED <<runner, done, flushing, Pending, flushed, timely>>
        /\ sent' = sent \o <<e>> /\ <<e>> \in Seq(Events)
    BY <1>1, <1>5, AppendIsConcat DEF Enqueue, Pending
  <2>2. Elements(sent \o <<e>>) = Elements(sent) \cup Elements(<<e>>)
    BY <1>1, <2>1, ElementsOf
  <2> QED BY <2>1, <2>2 DEF StopInv, TimelyFlushed
<1>6. CASE Receive \/ DrainReceive
  <2>1. /\ UNCHANGED <<runner, done, sent, flushed, timely>>
        /\ runner = "drain" => flushing' = "no"
    BY <1>6 DEF Receive, DrainReceive, history
  <2> QED BY <2>1 DEF StopInv, TimelyFlushed
<1>7. CASE Tick \/ SeeDone
  <2>1. /\ UNCHANGED <<sent, flushed, timely, done>>
        /\ runner' = "drain" => done /\ flushing' = "no"
        /\ runner' # "stopped"
    BY <1>7 DEF Tick, SeeDone, memory, history
  <2> QED BY <2>1 DEF StopInv, TimelyFlushed
<1>8. CASE DrainEnds
  <2>1. /\ UNCHANGED <<sent, flushed, timely, done, batch>> /\ done
        /\ Pending = batch /\ Pending' = batch
        /\ Elements(sent) = Elements(flushed) \cup Elements(batch)
        /\ runner' = "stopped" => batch = <<>>
    BY <1>2, <1>3, <1>8 DEF DrainEnds, BeginFlush, Pending, history, StopInv
  <2>2. Elements(timely) \subseteq Elements(flushed) \cup Elements(batch)
    BY <2>1 DEF StopInv
  <2> QED BY <1>2, <2>1, <2>2 DEF StopInv, TimelyFlushed
<1>9. CASE InsertCommits \/ InsertFails
  <2>1. /\ UNCHANGED <<sent, timely, done>> /\ flushed' = flushed \o batch
        /\ Pending = batch /\ flushing # "no"
        /\ runner' \in {"drain", "stopped"} => runner \in {"drain", "stopped"}
        /\ runner' = "stopped" => runner \in {"drain", "stopped"}
    BY <1>9 DEF InsertCommits, InsertFails, Returned, Pending
  <2>2. Elements(flushed)' = Elements(flushed) \cup Elements(batch)
    BY <1>1, <2>1, ElementsOf
  <2> QED BY <2>1, <2>2 DEF StopInv, TimelyFlushed
<1>10. CASE FlushReturns
  <2>1. /\ UNCHANGED <<sent, flushed, timely, done>>
        /\ Pending = <<>> /\ flushing # "no" /\ flushing' = "no"
        /\ runner' = IF runner = "drain" THEN "stopped" ELSE runner
    BY <1>10 DEF FlushReturns, Returned, Pending, history
  <2> QED BY <1>2, <2>1 DEF StopInv, TimelyFlushed
<1>11. CASE Stop
  <2>1. /\ ~done /\ timely' = sent /\ UNCHANGED <<runner, sent>>
    BY <1>11 DEF Stop, memory
  <2> QED BY <2>1 DEF StopInv, TimelyFlushed
<1>12. CASE Kill
  BY <1>12 DEF Kill, history, StopInv, TimelyFlushed
<1>13. ASSUME NEW e, Count(e) \/ Drop(e) PROVE StopInv'
  BY <1>4, <1>13 DEF Count, Drop, memory, history
<1>14. ASSUME NEW b, Upsert(b) PROVE StopInv'
  BY <1>4, <1>14 DEF Upsert, history
<1>15. CASE UNCHANGED vars
  BY <1>4, <1>15 DEF vars, memory, history
<1> QED
  BY <1>5, <1>6, <1>7, <1>8, <1>9, <1>10, <1>11, <1>12, <1>13, <1>14, <1>15 DEF Next, Run

\* What was flushed is in the table or was discarded with its batch.
FlushedKept == Elements(flushed) \subseteq Elements(table) \cup discarded

\* A transaction stores the whole batch or discards the whole batch.
LEMMA NextFlushedKept == TypeOK /\ FlushedKept /\ [Next]_vars => FlushedKept'
<1> SUFFICES ASSUME TypeOK, FlushedKept, [Next]_vars PROVE FlushedKept'
  OBVIOUS
<1>1. CASE UNCHANGED <<flushed, table, discarded>>
  BY <1>1 DEF FlushedKept
<1>2. CASE InsertCommits \/ InsertFails
  <2>1. /\ flushed' = flushed \o batch
        /\ \/ table' = table \o batch /\ UNCHANGED discarded
           \/ UNCHANGED table /\ discarded' = discarded \cup Elements(batch)
    BY <1>2 DEF InsertCommits, InsertFails
  <2>2. /\ Elements(flushed \o batch) = Elements(flushed) \cup Elements(batch)
        /\ Elements(table \o batch) = Elements(table) \cup Elements(batch)
    BY ElementsOf DEF TypeOK
  <2> QED BY <2>1, <2>2 DEF FlushedKept
<1>3. ASSUME NEW e, Count(e) \/ Enqueue(e) \/ Drop(e) PROVE FlushedKept'
  BY <1>1, <1>3 DEF Count, Enqueue, Drop, store, history
<1>4. CASE Receive \/ Tick \/ SeeDone \/ DrainReceive \/ DrainEnds \/ FlushReturns
  BY <1>1, <1>4 DEF Receive, Tick, SeeDone, DrainReceive, DrainEnds, FlushReturns, store, history
<1>5. ASSUME NEW b, Upsert(b) PROVE FlushedKept'
  BY <1>1, <1>5 DEF Upsert, history
<1>6. CASE Stop \/ Kill
  BY <1>1, <1>6 DEF Stop, Kill, store, history
<1>7. CASE UNCHANGED vars
  BY <1>1, <1>7 DEF vars, store, history
<1> QED BY <1>2, <1>3, <1>4, <1>5, <1>6, <1>7 DEF Next, Run

\* When Stop returns, all that the channel had accepted when it was called is in the
\* table or was discarded with its batch: the last flush of the drain loop misses nothing.
THEOREM StopFlushesAll == Spec => []StopFlushes
<1>1. Init => TypeOK /\ Conserved /\ StopInv /\ FlushedKept
  <2>1. Init => FlushedKept
    BY DEF Init, FlushedKept, Elements
  <2> QED BY <2>1, InitTypes, InitConserved, InitStop
<1>2. TypeOK /\ Conserved /\ StopInv /\ FlushedKept /\ [Next]_vars
        => (TypeOK /\ Conserved /\ StopInv /\ FlushedKept)'
  BY NextTypes, NextConserved, NextStop, NextFlushedKept
<1>3. StopInv /\ FlushedKept => StopFlushes
  BY DEF StopInv, TimelyFlushed, FlushedKept, StopFlushes
<1> QED BY <1>1, <1>2, <1>3, PTL DEF Spec
-----------------------------------------------------------------------------
\* A list counts as much as its two parts do, and nothing for a bucket that
\* none of its events is in.
LEMMA CountParts ==
  ASSUME NEW s \in Seq(Events), NEW t \in Seq(Events), NEW b
  PROVE  /\ CountIn(s \o t, b) = CountIn(s, b) + CountIn(t, b)
         /\ CountIn(<<>>, b) = 0
         /\ b \notin {Bucket[e] : e \in Elements(s)} => CountIn(s, b) = 0
<1> DEFINE m == Len(s)
           n == Len(t)
           A == {i \in 1..m : Bucket[s[i]] = b}
           B == {i \in 1..n : Bucket[t[i]] = b}
           C == {i \in 1..(m + n) : Bucket[(s \o t)[i]] = b}
           D == {i \in (m + 1)..(m + n) : Bucket[t[i - m]] = b}
           shift == [i \in B |-> i + m]
<1>1. /\ m \in Nat /\ n \in Nat /\ Len(s \o t) = m + n
      /\ \A i \in 1..(m + n) : (s \o t)[i] = IF i <= m THEN s[i] ELSE t[i - m]
  BY LenProperties, ConcatProperties
<1>2. IsFiniteSet(A) /\ IsFiniteSet(B)
  <2>1. IsFiniteSet(1..m) /\ IsFiniteSet(1..n)
    BY <1>1, FS_Interval
  <2>2. A \subseteq 1..m /\ B \subseteq 1..n
    OBVIOUS
  <2> QED BY <2>1, <2>2, FS_Subset
<1>3. C = A \cup D /\ A \cap D = {}
  <2> HIDE DEF m, n
  <2>1. ASSUME NEW i \in C PROVE i \in A \cup D
    BY <1>1, <2>1
  <2>2. ASSUME NEW i \in A \cup D PROVE i \in C
    BY <1>1, <2>2
  <2>3. A \cap D = {}
    BY <1>1
  <2> HIDE DEF A, C, D
  <2> QED BY <2>1, <2>2, <2>3
<1>4. IsFiniteSet(D) /\ Cardinality(D) = Cardinality(B)
  <2>1. shift \in Bijection(B, D)
    <3> HIDE DEF m, n
    <3>1. \A i \in B : i + m \in D
      BY <1>1
    <3>2. \A j \in D : j - m \in B /\ (j - m) + m = j
      BY <1>1
    <3>3. \A i, j \in B : i + m = j + m => i = j
      BY <1>1
    <3> HIDE DEF B, D
    <3>4. shift \in [B -> D]
      BY <3>1
    <3>5. \A i, j \in B : shift[i] = shift[j] => i = j
      BY <3>3
    <3>6. \A j \in D : \E i \in B : shift[i] = j
      BY <3>2
    <3> HIDE DEF shift
    <3> QED BY <3>4, <3>5, <3>6 DEF Bijection, Injection, Surjection, IsInjective
  <2>2. ExistsBijection(B, D)
    BY <2>1 DEF ExistsBijection
  <2> HIDE DEF B, D
  <2> QED BY <1>2, <2>2, FS_Bijection
<1>5. Cardinality(C) = Cardinality(A) + Cardinality(B)
  <2> HIDE DEF A, B, C, D
  <2>1. Cardinality(C) = Cardinality(A) + Cardinality(D) - Cardinality(A \cap D)
    BY <1>2, <1>3, <1>4, FS_Union
  <2>2. Cardinality(A \cap D) = 0
    BY <1>3, FS_EmptySet
  <2>3. Cardinality(A) \in Nat /\ Cardinality(B) \in Nat
    BY <1>2, FS_CardinalityType
  <2> QED BY <1>4, <2>1, <2>2, <2>3
<1>6. CountIn(s \o t, b) = Cardinality(C) /\ CountIn(s, b) = Cardinality(A) /\ CountIn(t, b) = Cardinality(B)
  BY <1>1 DEF CountIn
<1>7. CountIn(<<>>, b) = 0
  <2>1. {i \in 1..Len(<<>>) : Bucket[<<>>[i]] = b} = {}
    OBVIOUS
  <2> QED BY <2>1, FS_EmptySet DEF CountIn
<1>8. b \notin {Bucket[e] : e \in Elements(s)} => A = {}
  BY DEF Elements
<1>9. A = {} => CountIn(s, b) = 0
  BY <1>6, FS_EmptySet
<1> HIDE DEF A, B, C
<1> QED BY <1>5, <1>6, <1>7, <1>8, <1>9

\* What flush has still to add to the row of bucket b.
Owed(b) == IF flushing = "rollup" /\ b \in todo THEN CountIn(batch, b) ELSE 0

(***************************************************************************)
(* Why the rollup rows follow the table: a row and what flush still owes   *)
(* it never exceed the table, and make up all of it while nothing has      *)
(* failed.                                                                 *)
(***************************************************************************)
RollupInv ==
    \A b \in Buckets :
        /\ rollup[b] + Owed(b) <= CountIn(table, b)
        /\ failures = 0 => rollup[b] + Owed(b) = CountIn(table, b)

\* Every step of flush pays what it owes, or gives it up with a failure.
LEMMA NextRollup == TypeOK /\ RollupInv /\ [Next]_vars => RollupInv'
<1> SUFFICES ASSUME TypeOK, RollupInv, [Next]_vars, NEW b \in Buckets
             PROVE  /\ rollup'[b] + Owed(b)' <= CountIn(table', b)
                    /\ failures' = 0 => rollup'[b] + Owed(b)' = CountIn(table', b)
  BY DEF RollupInv
<1>1. /\ table \in Seq(Events) /\ batch \in Seq(Events) /\ rollup \in [Buckets -> Nat]
      /\ rollup[b] \in Nat /\ failures \in Nat
  BY DEF TypeOK
<1>2. CountIn(table, b) \in Nat /\ CountIn(batch, b) \in Nat /\ Owed(b) \in Nat
  BY <1>1, CountType DEF Owed
<1>3. /\ rollup[b] + Owed(b) <= CountIn(table, b)
      /\ failures = 0 => rollup[b] + Owed(b) = CountIn(table, b)
  BY DEF RollupInv
<1>4. CASE UNCHANGED <<rollup, table, failures>> /\ Owed(b)' = Owed(b)
  BY <1>3, <1>4
<1>5. CASE Receive \/ Tick \/ SeeDone \/ DrainReceive \/ DrainEnds
  <2>1. UNCHANGED <<rollup, table, failures>> /\ Owed(b) = 0 /\ Owed(b)' = 0
    BY <1>5 DEF Receive, Tick, SeeDone, DrainReceive, DrainEnds, BeginFlush, memory, store, Owed
  <2> QED BY <1>4, <2>1
<1>6. CASE InsertCommits
  <2>1. /\ UNCHANGED <<rollup, failures, batch>> /\ table' = table \o batch /\ Owed(b) = 0
        /\ flushing' = "rollup" /\ todo' = {Bucket[e] : e \in Elements(batch)}
    BY <1>6 DEF InsertCommits, Owed
  <2>2. CountIn(table \o batch, b) = CountIn(table, b) + CountIn(batch, b)
    BY <1>1, CountParts
  <2>3. Owed(b)' = CountIn(batch, b)
    <3>1. b \notin todo' => CountIn(batch, b) = 0
      BY <1>1, <2>1, CountParts
    <3> QED BY <2>1, <3>1 DEF Owed
  <2> QED BY <1>1, <1>2, <1>3, <2>1, <2>2, <2>3
<1>7. CASE InsertFails
  <2>1. UNCHANGED <<rollup, table>> /\ Owed(b) = 0 /\ Owed(b)' = 0 /\ failures' = failures + 1
    BY <1>7 DEF InsertFails, Returned, Owed
  <2> QED BY <1>1, <1>3, <2>1
<1>8. ASSUME NEW c \in Buckets, Upsert(c)
      PROVE  /\ rollup'[b] + Owed(b)' <= CountIn(table', b)
             /\ failures' = 0 => rollup'[b] + Owed(b)' = CountIn(table', b)
  <2>1. /\ UNCHANGED <<table, batch, flushing>> /\ flushing = "rollup"
        /\ c \in todo /\ todo' = todo \ {c}
    BY <1>8 DEF Upsert
  <2>2. \/ rollup' = [rollup EXCEPT ![c] = rollup[c] + CountIn(batch, c)] /\ UNCHANGED failures
        \/ failures' = failures + 1 /\ UNCHANGED rollup
    BY <1>8 DEF Upsert
  <2>3. CASE b = c
    <3>1. Owed(b) = CountIn(batch, b) /\ Owed(b)' = 0
      BY <2>1, <2>3 DEF Owed
    <3> QED BY <1>1, <1>2, <1>3, <2>1, <2>2, <2>3, <3>1
  <2>4. CASE b # c
    <3>1. Owed(b)' = Owed(b) /\ rollup'[b] = rollup[b]
      BY <1>1, <2>1, <2>2, <2>4 DEF Owed
    <3> QED BY <1>1, <1>3, <2>1, <2>2, <3>1
  <2> QED BY <2>3, <2>4
<1>9. CASE FlushReturns
  <2>1. UNCHANGED <<rollup, table, failures>> /\ Owed(b) = 0 /\ Owed(b)' = 0
    BY <1>9 DEF FlushReturns, Returned, store, Owed
  <2> QED BY <1>4, <2>1
<1>10. CASE Stop \/ Kill
  BY <1>4, <1>10 DEF Stop, Kill, memory, store, Owed
<1>11. ASSUME NEW e, Count(e) \/ Enqueue(e) \/ Drop(e)
       PROVE  UNCHANGED <<rollup, table, failures>> /\ Owed(b)' = Owed(b)
  BY <1>11 DEF Count, Enqueue, Drop, memory, store, Owed
<1>12. CASE UNCHANGED vars
  BY <1>4, <1>12 DEF vars, memory, store, Owed
<1> QED
  BY <1>4, <1>5, <1>6, <1>7, <1>8, <1>9, <1>10, <1>11, <1>12 DEF Next, Run

\* The rollup rows never get ahead of the table, and with no failure they
\* catch up with it by the time flush returns.
THEOREM RollupsFollow == Spec => []RollupsFollowTable
<1>1. Init => TypeOK /\ RollupInv
  <2> SUFFICES ASSUME Init, NEW b \in Buckets
               PROVE  rollup[b] + Owed(b) = 0 /\ CountIn(table, b) = 0
    BY InitTypes DEF RollupInv
  <2>1. CountIn(<<>>, b) = 0
    BY EmptySeq, CountParts
  <2> QED BY <2>1 DEF Init, Owed
<1>2. TypeOK /\ RollupInv /\ [Next]_vars => (TypeOK /\ RollupInv)'
  BY NextTypes, NextRollup
<1>3. TypeOK /\ RollupInv => RollupsFollowTable
  <2> SUFFICES ASSUME TypeOK, RollupInv, NEW b \in Buckets
               PROVE  /\ rollup[b] <= CountIn(table, b)
                      /\ failures = 0 /\ flushing = "no" => rollup[b] = CountIn(table, b)
    BY DEF RollupsFollowTable
  <2>1. rollup[b] \in Nat /\ CountIn(table, b) \in Nat /\ Owed(b) \in Nat
    BY CountType DEF TypeOK, Owed
  <2>2. flushing = "no" => Owed(b) = 0
    BY DEF Owed
  <2> QED BY <2>1, <2>2 DEF RollupInv
<1> QED BY <1>1, <1>2, <1>3, PTL DEF Spec
-----------------------------------------------------------------------------

\* The steps of the composition that are not steps of the usage log.
Elsewhere == UNCHANGED vars

\* What the composed process does to the usage log is what the log's own
\* module allows, so that its theorems hold of the whole.
LEMMA ShutdownStepIsUsageStep == [ShutdownNext]_shutdownVars => [Next]_vars
<1> SUFFICES ASSUME [ShutdownNext]_shutdownVars PROVE Next \/ Elsewhere
  BY DEF Elsewhere
<1>1. ASSUME NEW r \in Requests,
             Arrive(r) \/ TrackStart(r) \/ Refuse(r) \/ AnswerBuffered(r) \/ AnswerStreaming(r)
             \/ Return(r) \/ StreamStops(r) \/ StreamEnds(r) \/ Served(r) \/ ClientLeaves(r)
      PROVE  Elsewhere
  BY <1>1 DEF Elsewhere, Arrive, TrackStart, Refuse, AnswerBuffered, AnswerStreaming,
              Return, StreamStops, StreamEnds, Served, ClientLeaves
<1>2. ASSUME NEW r \in Requests, LogBuffered(r) \/ StreamLogs(r)
      PROVE  Next
  BY <1>2 DEF LogBuffered, StreamLogs, Log, Next, Requests
<1>3. Signal \/ Drained \/ DrainTimesOut \/ CloseServer \/ Exit => Elsewhere
  BY DEF Elsewhere, Signal, Drained, DrainTimesOut, CloseServer, Exit
<1>4. StopLogger \/ SecondSignal \/ LoggerRuns => Next
  BY DEF StopLogger, SecondSignal, LoggerRuns, Next
<1>5. UNCHANGED shutdownVars => Elsewhere
  BY DEF shutdownVars, Elsewhere
<1> QED
  BY <1>1, <1>2, <1>3, <1>4, <1>5 DEF ShutdownNext, RequestStep, ShutdownStep

\* The composition implements the usage log's specification.
THEOREM ShutdownImplementsUsageLog == ShutdownSpec => Spec
<1>1. ShutdownInit => Init
  BY DEF ShutdownInit
<1> QED BY <1>1, ShutdownStepIsUsageStep, PTL DEF ShutdownSpec, Spec

\* So the whole process conserves what the channel accepted, its rollup rows
\* follow the table, and Stop flushes.
THEOREM ShutdownKeepsUsage == ShutdownSpec => [](TypeOK /\ Conserved /\ RollupsFollowTable /\ StopFlushes)
BY ShutdownImplementsUsageLog, TypeCorrectness, EverythingConserved, RollupsFollow,
   StopFlushesAll, PTL
-----------------------------------------------------------------------------
(* The types of the life cycle.                                            *)

LifecycleOK ==
    /\ pc \in [Requests -> {"idle", "entering", "handling", "logging",
                            "returning", "returned", "rejected"}]
    /\ stream \in [Requests -> {"none", "running", "logging", "untracking", "ended"}]
    /\ open \in [Requests -> BOOLEAN]
    /\ tracked \in [Requests -> {"no", "yes", "done"}]
    /\ inflight \in Int
    /\ phase \in {"serving", "draining", "cancelled", "drained", "closing",
                  "flushing", "exited"}

\* A step of the life cycle keeps its types.
LEMMA NextLifecycle == LifecycleOK /\ [ShutdownNext]_shutdownVars => LifecycleOK'
<1> SUFFICES ASSUME LifecycleOK, [ShutdownNext]_shutdownVars PROVE LifecycleOK'
  OBVIOUS
<1> USE DEF LifecycleOK
<1>1. ASSUME NEW r \in Requests,
             Arrive(r) \/ TrackStart(r) \/ Refuse(r) \/ AnswerBuffered(r) \/ AnswerStreaming(r)
      PROVE  LifecycleOK'
  <2>1. CASE Arrive(r)
    BY <2>1 DEF Arrive, Goto
  <2>2. CASE TrackStart(r)
    BY <2>2 DEF TrackStart, Goto
  <2>3. CASE Refuse(r) \/ AnswerBuffered(r)
    BY <2>3 DEF Refuse, AnswerBuffered, Goto
  <2>4. CASE AnswerStreaming(r)
    BY <2>4 DEF AnswerStreaming, Goto
  <2> QED BY <1>1, <2>1, <2>2, <2>3, <2>4
<1>2. ASSUME NEW r \in Requests, LogBuffered(r) PROVE LifecycleOK'
  BY <1>2 DEF LogBuffered, Goto
<1>3. ASSUME NEW r \in Requests, StreamStops(r) \/ StreamLogs(r) PROVE LifecycleOK'
  BY <1>3 DEF StreamStops, StreamLogs
<1>4. ASSUME NEW r \in Requests, Return(r) \/ StreamEnds(r) PROVE LifecycleOK'
  BY <1>4 DEF Return, StreamEnds, TrackDone, Goto
<1>5. ASSUME NEW r \in Requests, Served(r) \/ ClientLeaves(r) PROVE LifecycleOK'
  BY <1>5 DEF Served, ClientLeaves
<1>6. Signal \/ ShutdownStep => LifecycleOK'
  BY DEF Signal, ShutdownStep, Drained, DrainTimesOut, CloseServer, StopLogger, Exit,
         Proceed, lifecycle
<1>7. SecondSignal \/ LoggerRuns => LifecycleOK'
  BY DEF SecondSignal, LoggerRuns, lifecycle
<1>8. UNCHANGED shutdownVars => LifecycleOK'
  BY DEF shutdownVars, lifecycle
<1> QED
  BY <1>1, <1>2, <1>3, <1>4, <1>5, <1>6, <1>7, <1>8 DEF ShutdownNext, RequestStep

\* The types of the whole process.
THEOREM ShutdownTypeCorrectness == ShutdownSpec => []ShutdownTypeOK
<1>1. ShutdownInit => LifecycleOK
  BY DEF ShutdownInit, LifecycleOK
<1>2. TypeOK /\ LifecycleOK => ShutdownTypeOK
  BY DEF ShutdownTypeOK, LifecycleOK
<1> QED BY <1>1, <1>2, NextLifecycle, ShutdownKeepsUsage, PTL DEF ShutdownSpec
-----------------------------------------------------------------------------
(***************************************************************************)
(* Handle and the stream goroutine both call trackDone: the counter of the *)
(* WaitGroup is the number of tracked requests because a request that has  *)
(* not called TrackStart is not tracked, and the sync.Once lets only one   *)
(* of the two calls through.                                               *)
(***************************************************************************)
Tracked == {r \in Requests : tracked[r] = "yes"}

NotYetTracked ==
    \A r \in Requests : pc[r] \in {"idle", "entering", "rejected"} => tracked[r] = "no"

TrackingInv == LifecycleOK /\ TrackingBalanced /\ NotYetTracked

\* The requests that are tracked are some of the finitely many.
LEMMA TrackedFinite == IsFiniteSet(Tracked)
BY UsageAssumption, FS_Subset DEF Tracked, Requests

\* At the start nobody is tracked.
LEMMA InitTracking == ShutdownInit => TrackingInv
<1> SUFFICES ASSUME ShutdownInit PROVE TrackingInv
  OBVIOUS
<1>1. LifecycleOK /\ NotYetTracked
  BY DEF ShutdownInit, LifecycleOK, NotYetTracked
<1>2. {r \in Requests : tracked[r] = "yes"} = {}
  BY DEF ShutdownInit
<1>3. inflight = 0
  BY DEF ShutdownInit
<1> QED BY <1>1, <1>2, <1>3, FS_EmptySet DEF TrackingInv, TrackingBalanced

\* Every step counts the tracked requests right.
LEMMA NextTracking == TrackingInv /\ [ShutdownNext]_shutdownVars => TrackingInv'
<1> SUFFICES ASSUME TrackingInv, [ShutdownNext]_shutdownVars PROVE TrackingInv'
  OBVIOUS
<1>1. LifecycleOK /\ NotYetTracked /\ inflight = Cardinality(Tracked) /\ LifecycleOK'
  BY NextLifecycle DEF TrackingInv, TrackingBalanced, Tracked
<1>2. TrackingBalanced' <=> inflight' = Cardinality(Tracked')
  BY DEF TrackingBalanced, Tracked
<1>3. CASE UNCHANGED <<pc, tracked, inflight>>
  <2>1. UNCHANGED Tracked /\ NotYetTracked'
    BY <1>1, <1>3 DEF Tracked, NotYetTracked
  <2> QED BY <1>1, <1>2, <1>3, <2>1 DEF TrackingInv
<1>4. ASSUME NEW r \in Requests,
             Arrive(r) \/ Refuse(r) \/ AnswerBuffered(r) \/ AnswerStreaming(r) \/ LogBuffered(r)
      PROVE  TrackingInv'
  <2>1. UNCHANGED <<tracked, inflight>>
    BY <1>4 DEF Arrive, Refuse, AnswerBuffered, AnswerStreaming, LogBuffered
  <2>2. /\ \A q \in Requests \ {r} : pc'[q] = pc[q]
        /\ pc'[r] \in {"idle", "entering", "rejected"} => pc[r] = "idle"
    BY <1>1, <1>4 DEF Arrive, Refuse, AnswerBuffered, AnswerStreaming, LogBuffered, Goto,
                      LifecycleOK
  <2>3. UNCHANGED Tracked
    BY <2>1 DEF Tracked
  <2>4. NotYetTracked'
    BY <1>1, <2>1, <2>2 DEF NotYetTracked
  <2> QED BY <1>1, <1>2, <2>1, <2>3, <2>4 DEF TrackingInv
<1>5. ASSUME NEW r \in Requests, TrackStart(r) PROVE TrackingInv'
  <2>1. /\ inflight' = inflight + 1 /\ pc[r] = "entering"
        /\ pc' = [pc EXCEPT ![r] = "handling"] /\ tracked' = [tracked EXCEPT ![r] = "yes"]
    BY <1>5 DEF TrackStart, Goto
  <2>2. r \notin Tracked /\ Tracked' = Tracked \cup {r}
    BY <1>1, <2>1 DEF Tracked, NotYetTracked, LifecycleOK
  <2>3. Cardinality(Tracked') = Cardinality(Tracked) + 1
    BY <2>2, TrackedFinite, FS_AddElement
  <2>4. NotYetTracked'
    BY <1>1, <2>1 DEF NotYetTracked, LifecycleOK
  <2> QED BY <1>1, <1>2, <2>1, <2>3, <2>4 DEF TrackingInv
<1>6. ASSUME NEW r \in Requests, Return(r) \/ StreamEnds(r) PROVE TrackingInv'
  <2>1. /\ TrackDone(r)
        /\ UNCHANGED pc \/ pc' = [pc EXCEPT ![r] = "returned"]
    BY <1>6 DEF Return, StreamEnds, Goto
  <2>2. NotYetTracked'
    BY <1>1, <2>1 DEF TrackDone, NotYetTracked, LifecycleOK
  <2>3. CASE tracked[r] = "yes"
    <3>1. r \in Tracked /\ Tracked' = Tracked \ {r} /\ inflight' = inflight - 1
      BY <1>1, <2>1, <2>3 DEF TrackDone, Tracked, LifecycleOK
    <3>2. Cardinality(Tracked') = Cardinality(Tracked) - 1
      BY <3>1, TrackedFinite, FS_RemoveElement
    <3> QED BY <1>1, <1>2, <2>2, <3>1, <3>2 DEF TrackingInv
  <2>4. CASE tracked[r] # "yes"
    <3>1. UNCHANGED <<tracked, inflight>>
      BY <1>1, <2>1, <2>4 DEF TrackDone, LifecycleOK
    <3>2. UNCHANGED Tracked
      BY <3>1 DEF Tracked
    <3> QED BY <1>1, <1>2, <2>2, <3>1, <3>2 DEF TrackingInv
  <2> QED BY <2>3, <2>4
<1>7. ASSUME NEW r \in Requests,
             StreamStops(r) \/ StreamLogs(r) \/ Served(r) \/ ClientLeaves(r)
      PROVE  TrackingInv'
  BY <1>3, <1>7 DEF StreamStops, StreamLogs, Served, ClientLeaves
<1>8. Signal \/ ShutdownStep => TrackingInv'
  BY <1>3 DEF Signal, ShutdownStep, Drained, DrainTimesOut, CloseServer, StopLogger, Exit,
              Proceed, lifecycle
<1>9. SecondSignal \/ LoggerRuns => TrackingInv'
  BY <1>3 DEF SecondSignal, LoggerRuns, lifecycle
<1>10. UNCHANGED shutdownVars => TrackingInv'
  BY <1>3 DEF shutdownVars, lifecycle
<1> QED
  BY <1>4, <1>5, <1>6, <1>7, <1>8, <1>9, <1>10 DEF ShutdownNext, RequestStep

\* The WaitGroup counts the tracked requests, and so is never negative.
THEOREM TrackingStaysBalanced == ShutdownSpec => [](TrackingBalanced /\ inflight >= 0)
<1>1. TrackingInv => TrackingBalanced /\ inflight >= 0
  <2>1. Cardinality(Tracked) \in Nat
    BY TrackedFinite, FS_CardinalityType
  <2> QED BY <2>1 DEF TrackingInv, TrackingBalanced, Tracked
<1> QED BY <1>1, InitTracking, NextTracking, PTL DEF ShutdownSpec
-----------------------------------------------------------------------------
(***************************************************************************)
(* The server's Shutdown waits for connections, not for tracked requests:  *)
(* a handler that is not finished is on an open connection, and once none  *)
(* is open and none is accepted there is no handler left.                  *)
(***************************************************************************)
AtRest == {"idle", "returned", "rejected"}

OpenWhileHandled == \A r \in Requests : pc[r] \notin AtRest => open[r]

HandlersInv == LifecycleOK /\ OpenWhileHandled /\ HandlersOutlived

\* The server is shut down before the logger is stopped.
LEMMA NextHandlers == HandlersInv /\ [ShutdownNext]_shutdownVars => HandlersInv'
<1> SUFFICES ASSUME HandlersInv, [ShutdownNext]_shutdownVars PROVE HandlersInv'
  OBVIOUS
<1>1. LifecycleOK /\ OpenWhileHandled /\ HandlersOutlived /\ LifecycleOK'
  BY NextLifecycle DEF HandlersInv
<1>2. CASE UNCHANGED <<pc, open, phase>>
  BY <1>1, <1>2 DEF HandlersInv, OpenWhileHandled, HandlersOutlived
<1>3. ASSUME NEW r \in Requests, Arrive(r) PROVE HandlersInv'
  <2>1. /\ phase \notin {"flushing", "exited"} /\ UNCHANGED phase
        /\ open'[r] /\ \A q \in Requests \ {r} : pc'[q] = pc[q] /\ open'[q] = open[q]
    BY <1>1, <1>3 DEF Arrive, Accepting, Goto, LifecycleOK
  <2> QED BY <1>1, <2>1 DEF HandlersInv, OpenWhileHandled, HandlersOutlived
<1>4. ASSUME NEW r \in Requests,
             TrackStart(r) \/ Refuse(r) \/ AnswerBuffered(r) \/ AnswerStreaming(r)
             \/ LogBuffered(r) \/ Return(r)
      PROVE  HandlersInv'
  <2>1. /\ pc[r] \notin AtRest /\ UNCHANGED <<open, phase>>
        /\ \A q \in Requests \ {r} : pc'[q] = pc[q]
    BY <1>1, <1>4 DEF TrackStart, Refuse, AnswerBuffered, AnswerStreaming, LogBuffered,
                      Return, Goto, AtRest, LifecycleOK
  <2>2. phase \notin {"flushing", "exited"} /\ open[r]
    BY <1>1, <2>1 DEF HandlersOutlived, OpenWhileHandled, AtRest
  <2> QED BY <1>1, <2>1, <2>2 DEF HandlersInv, OpenWhileHandled, HandlersOutlived
<1>5. ASSUME NEW r \in Requests, Served(r) \/ ClientLeaves(r) PROVE HandlersInv'
  <2>1. /\ pc[r] \in AtRest /\ UNCHANGED <<pc, phase>>
        /\ \A q \in Requests \ {r} : open'[q] = open[q]
    BY <1>1, <1>5 DEF Served, ClientLeaves, AtRest, LifecycleOK
  <2> QED BY <1>1, <2>1 DEF HandlersInv, OpenWhileHandled, HandlersOutlived
<1>6. ASSUME NEW r \in Requests, StreamStops(r) \/ StreamLogs(r) \/ StreamEnds(r)
      PROVE  HandlersInv'
  BY <1>2, <1>6 DEF StreamStops, StreamLogs, StreamEnds
<1>7. CASE StopLogger
  <2>1. UNCHANGED <<pc, open>> /\ \A r \in Requests : ~open[r]
    BY <1>7 DEF StopLogger, Proceed, lifecycle
  <2> QED BY <1>1, <2>1 DEF HandlersInv, OpenWhileHandled, HandlersOutlived, AtRest
<1>8. CASE Signal \/ Drained \/ DrainTimesOut \/ CloseServer \/ Exit
  <2>1. /\ UNCHANGED <<pc, open>>
        /\ phase' \in {"flushing", "exited"} => phase \in {"flushing", "exited"}
    BY <1>8 DEF Signal, Drained, DrainTimesOut, CloseServer, Exit, Proceed, lifecycle
  <2> QED BY <1>1, <2>1 DEF HandlersInv, OpenWhileHandled, HandlersOutlived
<1>9. SecondSignal \/ LoggerRuns => HandlersInv'
  BY <1>2 DEF SecondSignal, LoggerRuns, lifecycle
<1>10. UNCHANGED shutdownVars => HandlersInv'
  BY <1>2 DEF shutdownVars, lifecycle
<1> QED
  BY <1>3, <1>4, <1>5, <1>6, <1>7, <1>8, <1>9, <1>10
     DEF ShutdownNext, RequestStep, ShutdownStep

\* At the start no handler runs.
LEMMA InitHandlers == ShutdownInit => HandlersInv
BY DEF ShutdownInit, HandlersInv, LifecycleOK, OpenWhileHandled, HandlersOutlived, AtRest

\* No Handle is running when the usage logger is stopped, whichever way the
\* drain ended and however late a request was tracked.
THEOREM HandlersAlwaysOutlived == ShutdownSpec => []HandlersOutlived
<1>1. HandlersInv => HandlersOutlived
  BY DEF HandlersInv
<1> QED BY <1>1, InitHandlers, NextHandlers, PTL DEF ShutdownSpec
-----------------------------------------------------------------------------
(***************************************************************************)
(* What a buffered answer logged was accepted before Stop was called: only *)
(* Handle logs it, and no Handle runs from then on.  The process exits     *)
(* only when Stop has returned, with all of that flushed.                  *)
(***************************************************************************)
LoggedInTime ==
    /\ \A r \in Requests : caller[r] = "sent" => r \in Elements(sent)
    /\ phase \in {"flushing", "exited"} =>
           \A r \in Requests \ StreamingRequests :
               caller[r] = "sent" => r \in Elements(timely)
    /\ \A r \in Requests \ StreamingRequests : stream[r] = "none"
    /\ phase = "exited" => runner = "stopped"

\* What a handler has logged was accepted before Stop.
LEMMA NextLoggedInTime ==
  TypeOK /\ HandlersInv /\ LoggedInTime /\ [ShutdownNext]_shutdownVars => LoggedInTime'
<1> SUFFICES ASSUME TypeOK, HandlersInv, LoggedInTime, [ShutdownNext]_shutdownVars
             PROVE  LoggedInTime'
  OBVIOUS
<1>1. LifecycleOK /\ HandlersOutlived
  BY DEF HandlersInv
<1>2. CASE UNCHANGED <<caller, sent, timely, runner, stream, phase>>
  BY <1>2 DEF LoggedInTime
<1>3. ASSUME NEW r \in Requests, Log(r)
      PROVE  /\ UNCHANGED <<runner, timely>>
             /\ \A q \in Requests \ {r} : caller'[q] = caller[q]
             /\ \A q \in Requests : caller'[q] = "sent" => q \in Elements(sent')
  <2>1. /\ UNCHANGED <<runner, timely>>
        /\ \A q \in Requests \ {r} : caller'[q] = caller[q]
    BY <1>3 DEF Log, Count, Enqueue, Drop, memory, history, TypeOK, Requests
  <2>2. CASE Count(r) \/ Drop(r)
    <3>1. UNCHANGED sent /\ caller'[r] # "sent"
      BY <2>2 DEF Count, Drop, history, TypeOK, Requests
    <3> QED BY <2>1, <3>1 DEF LoggedInTime
  <2>3. CASE Enqueue(r)
    <3>1. sent' = sent \o <<r>> /\ <<r>> \in Seq(Events) /\ sent \in Seq(Events)
      BY <2>3, AppendIsConcat DEF Enqueue, TypeOK, Requests
    <3>2. Elements(sent') = Elements(sent) \cup Elements(<<r>>)
      BY <3>1, ElementsOf
    <3>3. r \in Elements(<<r>>)
      BY DEF Elements
    <3> QED BY <2>1, <3>2, <3>3 DEF LoggedInTime
  <2> QED BY <1>3, <2>1, <2>2, <2>3 DEF Log
<1>4. ASSUME NEW r \in Requests, LogBuffered(r) PROVE LoggedInTime'
  <2>1. Log(r) /\ pc[r] = "logging" /\ UNCHANGED <<stream, phase>>
    BY <1>4 DEF LogBuffered
  <2>2. phase \notin {"flushing", "exited"}
    BY <1>1, <2>1 DEF HandlersOutlived
  <2> QED BY <1>3, <2>1, <2>2 DEF LoggedInTime
<1>5. ASSUME NEW r \in Requests, StreamLogs(r) PROVE LoggedInTime'
  <2>1. /\ Log(r) /\ UNCHANGED phase /\ stream[r] # "none"
        /\ \A q \in Requests \ {r} : stream'[q] = stream[q]
    BY <1>1, <1>5 DEF StreamLogs, LifecycleOK
  <2>2. r \in StreamingRequests
    BY <2>1 DEF LoggedInTime
  <2> QED BY <1>3, <2>1, <2>2 DEF LoggedInTime
<1>6. ASSUME NEW r \in Requests, AnswerStreaming(r) \/ StreamStops(r) \/ StreamEnds(r)
      PROVE  LoggedInTime'
  <2>1. /\ UNCHANGED <<vars, phase>> /\ r \in StreamingRequests
        /\ \A q \in Requests \ {r} : stream'[q] = stream[q]
    BY <1>1, <1>6 DEF AnswerStreaming, StreamStops, StreamEnds, LifecycleOK, LoggedInTime
  <2>2. UNCHANGED <<caller, sent, timely, runner>>
    BY <2>1 DEF vars, history
  <2> QED BY <2>1, <2>2 DEF LoggedInTime
<1>7. ASSUME NEW r \in Requests,
             Arrive(r) \/ TrackStart(r) \/ Refuse(r) \/ AnswerBuffered(r) \/ Return(r)
             \/ Served(r) \/ ClientLeaves(r)
      PROVE  LoggedInTime'
  <2>1. UNCHANGED <<vars, stream, phase>>
    BY <1>7 DEF Arrive, TrackStart, Refuse, AnswerBuffered, Return, Served, ClientLeaves
  <2> QED BY <1>2, <2>1 DEF vars, history
<1>8. CASE Signal \/ Drained \/ DrainTimesOut \/ CloseServer \/ Exit
  <2>1. /\ UNCHANGED <<vars, stream>>
        /\ phase' \in {"flushing", "exited"} => phase \in {"flushing", "exited"}
        /\ phase' = "exited" => runner = "stopped" \/ phase = "exited"
    BY <1>8 DEF Signal, Drained, DrainTimesOut, CloseServer, Exit, Proceed, lifecycle
  <2>2. UNCHANGED <<caller, sent, timely, runner>>
    BY <2>1 DEF vars, history
  <2> QED BY <2>1, <2>2 DEF LoggedInTime
<1>9. CASE StopLogger
  <2>1. /\ timely' = sent /\ UNCHANGED <<caller, sent, runner, stream>> /\ phase' = "flushing"
    BY <1>9 DEF StopLogger, Stop, Proceed, lifecycle
  <2> QED BY <2>1 DEF LoggedInTime
<1>10. CASE SecondSignal \/ LoggerRuns
  <2>1. UNCHANGED <<stream, phase>> /\ phase # "exited"
    BY <1>10 DEF SecondSignal, LoggerRuns, lifecycle, Running
  <2>2. UNCHANGED <<caller, sent, timely>>
    BY <1>10 DEF SecondSignal, LoggerRuns, Kill, Run, Receive, Tick, SeeDone, DrainReceive,
                 DrainEnds, InsertCommits, InsertFails, FlushReturns, Upsert, history
  <2> QED BY <2>1, <2>2 DEF LoggedInTime
<1>11. UNCHANGED shutdownVars => LoggedInTime'
  BY <1>2 DEF shutdownVars, lifecycle, vars, history
<1> QED
  BY <1>4, <1>5, <1>6, <1>7, <1>8, <1>9, <1>10, <1>11
     DEF ShutdownNext, RequestStep, ShutdownStep

\* At the start nothing is logged.
LEMMA InitLoggedInTime == ShutdownInit => LoggedInTime
BY DEF ShutdownInit, Init, LoggedInTime, Requests

\* A graceful exit keeps the usage of every buffered answer that the log accepted and
\* the database did not refuse, after a timed-out drain as after a complete one.
THEOREM BufferedUsageAlwaysKept == ShutdownSpec => []BufferedUsageKept
<1>1. StopFlushes /\ LoggedInTime => BufferedUsageKept
  BY DEF StopFlushes, LoggedInTime, BufferedUsageKept
<1> QED
  BY <1>1, InitHandlers, NextHandlers, InitLoggedInTime, NextLoggedInTime,
     ShutdownKeepsUsage, PTL DEF ShutdownSpec

=============================================================================
