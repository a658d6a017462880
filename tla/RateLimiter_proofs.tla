------------------------- MODULE RateLimiter_proofs -------------------------
(***************************************************************************)
(* For any number of goroutines and counters, limits and window lengths: a *)
(* count never passes its limit and, but between the two stores of a       *)
(* rollover, requests are turned away for a limit that is used up          *)
(* (LimitsKept); and a window that is not outlived by its requests lets at *)
(* most twice the limit pass (OverrunsBounded).                            *)
(***************************************************************************)
EXTENDS RateLimiter, SequenceTheorems, TLAPS

\* The steps at which a slot has an entry.
Holding == {"try", "count", "cas", "lock", "rollover", "reset"}
Holds(s) == call[s].pc \in Holding

Entries == [start: Nat, count: Nat, locked: BOOLEAN]
Minutes == 0..LastMinute
Calls   == [pc: {"idle", "next"} \cup Holding, now: Minutes, left: Seq(Counters),
            entry: Nat, seen: Nat]

HeapOK  == heap \in Seq(Entries) /\ table \in [Counters -> 0..Len(heap)]
CallsOK == /\ call \in [Slots -> Calls]
           /\ \A s \in Slots : Holds(s) => call[s].left # <<>> /\ Loaded(s) \in 1..Len(heap)
ClockOK == clock \in Minutes /\ evicted \in Nat
CountsOK == /\ admitted \in [Counters -> [Windows -> Nat]]
            /\ rejecting \subseteq [counter: Counters, window: Windows, torn: BOOLEAN]

LimiterTypes == HeapOK /\ CallsOK /\ ClockOK /\ CountsOK

(***************************************************************************)
(* An entry belongs to one counter for good, in the map and in the hands   *)
(* of the slots that loaded it before it was evicted.  Its count is within *)
(* the limit of that counter.                                              *)
(***************************************************************************)
OwnedBy(owner) ==
    /\ \A c \in Counters : table[c] # Missing => owner[table[c]] = c
    /\ \A s \in Slots : Holds(s) => owner[Loaded(s)] = Counter(s)
    /\ \A e \in 1..Len(heap) : heap[e].count <= Limit[owner[e]]

(***************************************************************************)
(* While no request outlives its minute, the slots at work have read the   *)
(* current one and find their entry in its window ...                      *)
(***************************************************************************)
InMinute ==
    /\ \A s \in Slots : ~IsAt(s, "idle") => call[s].now = clock
    /\ \A s \in Slots : IsAt(s, "count") \/ IsAt(s, "cas") \/ IsAt(s, "reset")
                          => heap[Loaded(s)].start = Window(s)

\* ... and a count is within what the window of its entry has let pass, unless it
\* is the count of the window before and about to be reset.
Settled(owner) ==
    \A e \in 1..Len(heap) :
        \/ Rolling(e) \/ heap[e].count = 0
        \/ /\ heap[e].start \in Windows
           /\ heap[e].count <= admitted[owner[e]][heap[e].start]

LimitInv ==
    /\ \E owner \in [1..Len(heap) -> Counters] : OwnedBy(owner) /\ (~straggled => Settled(owner))
    /\ \A s \in Slots : IsAt(s, "cas") => call[s].seen < Limit[Counter(s)]
    /\ ~straggled => InMinute
    /\ RejectedOnlyAtLimit

(***************************************************************************)
(* While no request outlives its minute and no entry is evicted: a counter *)
(* has the one entry of the map, which its slots hold, and its window      *)
(* never passes the current one.  Nothing has admitted in a later window     *)
(* than that of the entry, and the count misses at most one limit: none    *)
(* while the slot that rolled over has yet to reset it.                    *)
(***************************************************************************)
Locked(s) == call[s].pc \in {"rollover", "reset"}
OneEntry ==
    /\ \A s \in Slots : Holds(s) => table[Counter(s)] = Loaded(s)
    /\ \A c, d \in Counters : table[c] # Missing /\ table[c] = table[d] => c = d
    /\ \A s \in Slots : Locked(s) => heap[Loaded(s)].locked
    /\ \A s, t \in Slots : Locked(s) /\ Locked(t) /\ Loaded(s) = Loaded(t) => s = t

StartOf(c) == IF table[c] = Missing THEN 0 ELSE heap[table[c]].start
Resetting(c) == \E s \in Slots : IsAt(s, "reset") /\ Counter(s) = c
InWindow(c) ==
    \A w \in Windows :
        /\ w > StartOf(c) => admitted[c][w] = 0
        /\ admitted[c][w] <= 2 * Limit[c]
        /\ w = StartOf(c) =>
              admitted[c][w] <= heap[table[c]].count + (IF Resetting(c) THEN 0 ELSE Limit[c])
InWindows == \A c \in Counters : StartOf(c) <= WindowAt(c, clock) /\ InWindow(c)

OverrunInv == ~straggled /\ evicted = 0 => OneEntry /\ InWindows

-----------------------------------------------------------------------------
(* Windows and entries.                                                    *)

\* A minute is in a window, and a later one in none before it.
LEMMA WindowsOfMinutes ==
  ASSUME NEW c \in Counters, NEW t \in Minutes
  PROVE  /\ WindowAt(c, t) \in Windows
         /\ t + 1 \in Minutes => WindowAt(c, t) <= WindowAt(c, t + 1)
<1> DEFINE n == Length[c]
<1>1. n \in Nat \ {0} /\ t \in Nat /\ t <= LastMinute /\ LastMinute \in Nat
  BY LimiterAssumption DEF Minutes
<1>2. t \div n \in Nat /\ t \div n <= t
  BY <1>1
<1>3. t \div n <= (t + 1) \div n /\ (t + 1) \div n \in Nat
  BY <1>1
<1> HIDE DEF n
<1> QED BY <1>1, <1>2, <1>3 DEF WindowAt, Windows, Minutes, n

\* One entry is changed, and the others are not.
LEMMA EntryChanged ==
  ASSUME HeapOK, NEW e \in 1..Len(heap), NEW r \in Entries, heap' = [heap EXCEPT ![e] = r],
         UNCHANGED table
  PROVE  /\ HeapOK' /\ Len(heap') = Len(heap) /\ heap'[e] = r
         /\ \A d \in 1..Len(heap) : heap[d] \in Entries /\ (d # e => heap'[d] = heap[d])
BY ExceptSeq DEF HeapOK

\* What the steps of tryIncrement make of it is an entry.
LEMMA EntryEdits ==
  ASSUME NEW e \in Entries, NEW n \in Nat
  PROVE  /\ [e EXCEPT !.count = e.count + 1] \in Entries
         /\ [e EXCEPT !.start = n] \in Entries
         /\ [e EXCEPT !.locked = TRUE] \in Entries /\ [e EXCEPT !.locked = FALSE] \in Entries
         /\ [e EXCEPT !.count = 1, !.locked = FALSE] \in Entries
<1>1. e.count + 1 \in Nat /\ 1 \in Nat
  BY DEF Entries
<1> QED BY <1>1 DEF Entries

\* loadOrCreate may allocate one.
LEMMA EntryAdded ==
  ASSUME HeapOK, heap' = Append(heap, Fresh), NEW c \in Counters,
         table' = [table EXCEPT ![c] = Len(heap) + 1]
  PROVE  /\ HeapOK' /\ Len(heap') = Len(heap) + 1 /\ heap'[Len(heap) + 1] = Fresh
         /\ \A d \in 1..Len(heap) : heap'[d] = heap[d]
<1>1. Fresh \in Entries
  BY DEF Fresh, Entries
<1> QED BY <1>1, AppendProperties DEF HeapOK

-----------------------------------------------------------------------------
(* Types.                                                                  *)

\* An empty table satisfies every invariant.
LEMMA LimiterStart == LimiterInit => LimiterTypes /\ LimitInv /\ OverrunInv
<1> SUFFICES ASSUME LimiterInit PROVE LimiterTypes /\ LimitInv /\ OverrunInv
  OBVIOUS
<1> USE DEF LimiterInit, NoCall
<1>1. heap = <<>> /\ Len(heap) = 0 /\ 0 \in Minutes
  BY LimiterAssumption DEF Minutes
<1>2. HeapOK
  BY <1>1 DEF HeapOK, Missing
<1>3. CallsOK
  BY <1>1 DEF CallsOK, Calls, Missing, Holds, Holding
<1>4. ClockOK /\ CountsOK
  BY <1>1 DEF ClockOK, CountsOK
<1>5. LimitInv
  <2> DEFINE owner == [e \in 1..Len(heap) |-> CHOOSE c \in Counters : TRUE]
  <2>1. owner \in [1..Len(heap) -> Counters] /\ OwnedBy(owner) /\ Settled(owner)
    BY <1>1 DEF OwnedBy, Settled, Missing, Holds, Holding
  <2> QED BY <2>1 DEF LimitInv, InMinute, RejectedOnlyAtLimit, IsAt
<1>6. OneEntry
  BY DEF OneEntry, IsAt, Holds, Holding, Locked, Missing
<1>7. InWindows
  <2>1. \A c \in Counters : StartOf(c) = 0
    BY DEF StartOf, Missing
  <2>2. \A c \in Counters : WindowAt(c, 0) \in Windows
    BY <1>1, WindowsOfMinutes
  <2>3. \A c \in Counters : Limit[c] \in Nat
    BY LimiterAssumption
  <2>4. \A w \in Windows : w \in Nat /\ w > 0
    BY LimiterAssumption DEF Windows
  <2> QED BY <2>1, <2>2, <2>3, <2>4 DEF InWindows, InWindow, IsAt
<1> QED BY <1>2, <1>3, <1>4, <1>5, <1>6, <1>7 DEF LimiterTypes, OverrunInv

\* A slot moves on with r in its locals.
Moves(s, r) == call' = [call EXCEPT ![s] = r]

\* It keeps what it holds: the counter, the entry and the minute.
Keeps(s, r) == /\ Holds(s) /\ r.left = call[s].left /\ r.entry = Loaded(s)
               /\ r.now = call[s].now

\* The entry of one slot is changed.
Edits(s, r) == heap' = [heap EXCEPT ![Loaded(s)] = r] /\ UNCHANGED table

\* What a slot that checks a counter has in its hands.
LEMMA HeldTypes ==
  ASSUME LimiterTypes, NEW s \in Slots, Holds(s)
  PROVE  /\ Counter(s) \in Counters /\ Loaded(s) \in 1..Len(heap) /\ heap[Loaded(s)] \in Entries
         /\ call[s].left \in Seq(Counters) /\ Tail(call[s].left) \in Seq(Counters)
         /\ Window(s) \in Windows /\ Window(s) = WindowAt(Counter(s), call[s].now)
         /\ call[s] \in Calls /\ Limit[Counter(s)] \in Nat \ {0}
<1>1. call[s] \in Calls /\ call[s].left # <<>> /\ Loaded(s) \in 1..Len(heap)
  BY DEF LimiterTypes, CallsOK
<1>2. call[s].left \in Seq(Counters) /\ call[s].now \in Minutes
  BY <1>1 DEF Calls
<1>3. Counter(s) \in Counters /\ Tail(call[s].left) \in Seq(Counters)
  BY <1>1, <1>2, HeadTailProperties DEF Counter
<1>4. heap[Loaded(s)] \in Entries
  BY <1>1, ElementOfSeq DEF LimiterTypes, HeapOK
<1> QED BY <1>1, <1>2, <1>3, <1>4, WindowsOfMinutes, LimiterAssumption DEF Window

\* What the steps of a slot do to its locals.
LEMMA SlotSteps ==
  ASSUME LimiterTypes, NEW s \in Slots, BeginCheck(s) \/ (CheckStep(s) /\ ~LoadOrCreate(s))
  PROVE  \E r \in Calls :
            /\ Moves(s, r)
            /\ r.pc \notin Holding \/ Keeps(s, r)
            /\ ~IsAt(s, "idle") /\ r.pc # "idle" => r.now = call[s].now
            /\ IsAt(s, "idle") => r.now = clock
<1> USE DEF IsAt
<1>1. call[s] \in Calls /\ clock \in Minutes /\ 0 \in Minutes
  BY LimiterAssumption DEF LimiterTypes, CallsOK, ClockOK, Minutes
<1>2. NoCall \in Calls
  BY <1>1 DEF NoCall, Calls, Missing
<1>3. CASE BeginCheck(s)
  <2> DEFINE r == [NoCall EXCEPT !.pc = "next", !.now = clock, !.left = Checks[s]]
  <2>1. r \in Calls /\ r.pc = "next" /\ r.now = clock
    BY <1>1, <1>2, LimiterAssumption DEF Calls, NoCall
  <2>2. Moves(s, r) /\ call[s].pc = "idle"
    BY <1>3 DEF BeginCheck, Moves
  <2> QED BY <2>1, <2>2 DEF Holding
<1>4. CASE Pass(s) \/ Reject(s)
  <2>1. Moves(s, NoCall) /\ call[s].pc # "idle" /\ NoCall.pc = "idle"
    BY <1>4 DEF Pass, Reject, Moves, NoCall
  <2> QED BY <1>2, <2>1 DEF Holding
<1>5. ASSUME NEW pc \in Holding, NEW seen \in Nat, Holds(s),
             Moves(s, [call[s] EXCEPT !.pc = pc, !.seen = seen])
      PROVE  \E r \in Calls : Moves(s, r) /\ Keeps(s, r)
  <2> DEFINE r == [call[s] EXCEPT !.pc = pc, !.seen = seen]
  <2>1. r \in Calls
    BY <1>1, <1>5 DEF Calls
  <2>2. Keeps(s, r)
    BY <1>1, <1>5 DEF Keeps, Calls, Loaded
  <2> QED BY <1>5, <2>1, <2>2
<1>6. CASE LoadCount(s)
  <2>1. Moves(s, [call[s] EXCEPT !.pc = "cas", !.seen = heap[Loaded(s)].count]) /\ Holds(s)
    BY <1>6 DEF LoadCount, Moves, Holds, Holding, LimiterTypes, CallsOK
  <2>2. heap[Loaded(s)].count \in Nat
    BY <2>1, HeldTypes DEF Entries
  <2> QED BY <1>5, <2>1, <2>2 DEF Holding, Keeps, Holds
<1>7. ASSUME NEW pc \in Holding, Holds(s), GoTo(s, pc)
      PROVE  \E r \in Calls : Moves(s, r) /\ Keeps(s, r)
  <2>1. call[s].seen \in Nat
    BY <1>1 DEF Calls
  <2>2. [call[s] EXCEPT !.pc = pc, !.seen = call[s].seen] = [call[s] EXCEPT !.pc = pc]
    BY <1>1 DEF Calls
  <2>3. Moves(s, [call[s] EXCEPT !.pc = pc])
    BY <1>7 DEF GoTo, Moves, LimiterTypes, CallsOK
  <2> QED BY <1>5, <1>7, <2>1, <2>2, <2>3
<1>8. CASE LoadWindow(s) \/ Lock(s) \/ StoreWindow(s)
  <2>1. Holds(s) /\ \E pc \in Holding : GoTo(s, pc)
    BY <1>8 DEF LoadWindow, Lock, StoreWindow, Holds, Holding
  <2> QED BY <1>7, <2>1 DEF Holds, Keeps, Holding
<1>9. ASSUME Holds(s), Admit(s)
      PROVE  \E r \in Calls : Moves(s, r) /\ r.pc = "next" /\ r.now = call[s].now
  <2> DEFINE r == [call[s] EXCEPT !.pc = "next", !.left = Tail(@), !.entry = Missing]
  <2>1. r \in Calls /\ r.pc = "next" /\ r.now = call[s].now
    BY <1>1, <1>9, HeldTypes DEF Calls, Missing
  <2>2. Moves(s, r)
    BY <1>9 DEF Admit, Moves, LimiterTypes, CallsOK
  <2> QED BY <2>1, <2>2
<1>10. CASE CompareAndSwap(s) \/ StoreCount(s)
  <2>1. Holds(s) /\ (Admit(s) \/ GoTo(s, "try"))
    BY <1>10 DEF CompareAndSwap, StoreCount, Holds, Holding
  <2> QED BY <1>7, <1>9, <2>1 DEF Holds, Keeps, Holding
<1> QED BY <1>3, <1>4, <1>6, <1>8, <1>10 DEF CheckStep

\* The step by which a slot gets where it is.
LEMMA PcSteps ==
  ASSUME LimiterTypes, NEW s \in Slots, BeginCheck(s) \/ CheckStep(s)
  PROVE  /\ call'[s].pc = "count" => LoadWindow(s) /\ heap[Loaded(s)].start = Window(s)
         /\ call'[s].pc = "cas" => LoadCount(s)
         /\ call'[s].pc = "rollover" => Lock(s)
         /\ call'[s].pc = "reset" => StoreWindow(s) /\ heap[Loaded(s)].start # Window(s)
<1>1. call[s] \in Calls /\ call \in [Slots -> Calls]
  BY DEF LimiterTypes, CallsOK
<1>2. ASSUME NEW pc, GoTo(s, pc) PROVE call'[s].pc = pc
  BY <1>1, <1>2 DEF GoTo, Calls
<1>3. CASE BeginCheck(s)
  BY <1>1, <1>3 DEF BeginCheck, NoCall
<1>4. CASE Pass(s) \/ Reject(s)
  <2>1. call'[s] = NoCall
    BY <1>1, <1>4 DEF Pass, Reject
  <2> QED BY <2>1 DEF NoCall
<1>5. CASE LoadWindow(s) \/ Lock(s) \/ StoreWindow(s)
  BY <1>2, <1>5 DEF LoadWindow, Lock, StoreWindow
<1>6. Admit(s) => call'[s].pc = "next"
  BY <1>1 DEF Admit, Calls
<1>7. CASE CompareAndSwap(s) \/ StoreCount(s)
  BY <1>2, <1>6, <1>7 DEF CompareAndSwap, StoreCount
<1>8. CASE LoadCount(s) \/ LoadOrCreate(s)
  BY <1>1, <1>8 DEF LoadCount, LoadOrCreate, Calls
<1> QED BY <1>3, <1>4, <1>5, <1>7, <1>8 DEF CheckStep

\* And to the entries: the one it holds, if it changes any.
LEMMA EntrySteps ==
  ASSUME LimiterTypes, NEW s \in Slots, BeginCheck(s) \/ (CheckStep(s) /\ ~LoadOrCreate(s))
  PROVE  \/ UNCHANGED <<heap, table>>
         \/ /\ CompareAndSwap(s) /\ heap[Loaded(s)].count = call[s].seen /\ Admit(s)
            /\ Edits(s, [heap[Loaded(s)] EXCEPT !.count = @ + 1])
         \/ Lock(s) /\ Edits(s, [heap[Loaded(s)] EXCEPT !.locked = TRUE])
         \/ /\ StoreWindow(s) /\ heap[Loaded(s)].start # Window(s)
            /\ Edits(s, [heap[Loaded(s)] EXCEPT !.start = Window(s)])
         \/ StoreWindow(s) /\ Edits(s, [heap[Loaded(s)] EXCEPT !.locked = FALSE])
         \/ StoreCount(s) /\ Edits(s, [heap[Loaded(s)] EXCEPT !.count = 1, !.locked = FALSE])
<1>1. heap = [e \in 1..Len(heap) |-> heap[e]]
  BY DEF LimiterTypes, HeapOK
<1>2. CASE BeginCheck(s) \/ Pass(s) \/ Reject(s) \/ LoadWindow(s) \/ LoadCount(s)
  BY <1>2 DEF BeginCheck, Pass, Reject, LoadWindow, LoadCount
<1>3. CASE CompareAndSwap(s)
  BY <1>3 DEF CompareAndSwap, Edits
<1>4. CASE Lock(s)
  BY <1>4 DEF Lock, Edits
<1>5. CASE StoreWindow(s)
  BY <1>5 DEF StoreWindow, Edits
<1>6. CASE StoreCount(s)
  BY <1>6 DEF StoreCount, Edits
<1> QED BY <1>2, <1>3, <1>4, <1>5, <1>6 DEF CheckStep

\* What a slot that has been let pass adds to the history.
LEMMA Admitted ==
  ASSUME LimiterTypes, NEW s \in Slots, Holds(s), Admit(s), UNCHANGED rejecting
  PROVE  /\ CountsOK'
         /\ admitted'[Counter(s)][Window(s)] = admitted[Counter(s)][Window(s)] + 1
         /\ \A c \in Counters, w \in Windows :
               c # Counter(s) \/ w # Window(s) => admitted'[c][w] = admitted[c][w]
<1>1. Counter(s) \in Counters /\ Window(s) \in Windows /\ CountsOK
  BY HeldTypes DEF LimiterTypes
<1> QED BY <1>1 DEF CountsOK, Admit

\* Every step of a slot but loadOrCreate keeps its types and adds no entry.
LEMMA SlotTypes ==
  ASSUME LimiterTypes, NEW s \in Slots, BeginCheck(s) \/ (CheckStep(s) /\ ~LoadOrCreate(s))
  PROVE  LimiterTypes' /\ Len(heap') = Len(heap) /\ UNCHANGED <<table, clock, evicted>>
<1> USE DEF LimiterTypes
<1>1. HeapOK' /\ Len(heap') = Len(heap) /\ UNCHANGED table
  <2>1. CASE UNCHANGED <<heap, table>>
    BY <2>1 DEF HeapOK
  <2>2. ASSUME NEW r \in Entries, Edits(s, r), Holds(s) PROVE HeapOK' /\ Len(heap') = Len(heap)
    BY <2>2, HeldTypes, EntryChanged DEF Edits
  <2>3. CASE Holds(s)
    <3>1. heap[Loaded(s)] \in Entries /\ Window(s) \in Nat
      BY <2>3, HeldTypes, LimiterAssumption DEF Windows
    <3>2. UNCHANGED <<heap, table>> \/ \E r \in Entries : Edits(s, r)
      BY <3>1, EntrySteps, EntryEdits
    <3> QED BY <2>1, <2>2, <2>3, <3>2 DEF Edits
  <2>4. CASE ~Holds(s)
    <3>1. ~(CompareAndSwap(s) \/ Lock(s) \/ StoreWindow(s) \/ StoreCount(s))
      BY <2>4 DEF Holds, Holding, CompareAndSwap, Lock, StoreWindow, StoreCount, IsAt
    <3> QED BY <2>1, <3>1, EntrySteps
  <2> QED BY <2>3, <2>4
<1>2. CallsOK'
  <2>1. PICK r \in Calls : Moves(s, r) /\ (r.pc \notin Holding \/ Keeps(s, r))
    BY SlotSteps
  <2>2. call' \in [Slots -> Calls] /\ call'[s] = r /\ \A t \in Slots \ {s} : call'[t] = call[t]
    BY <2>1 DEF CallsOK, Moves
  <2>3. r.pc \in Holding => r.left # <<>> /\ r.entry \in 1..Len(heap)
    BY <2>1 DEF Keeps, Holds, Loaded, CallsOK
  <2> QED BY <1>1, <2>2, <2>3 DEF CallsOK, Holds, Loaded
<1>3. UNCHANGED <<clock, evicted>>
  BY DEF CheckStep, BeginCheck, Pass, Reject, LoadWindow, LoadCount, CompareAndSwap, Lock, StoreWindow,
     StoreCount
<1>4. CountsOK'
  <2>1. CASE Reject(s)
    <3>1. Holds(s)
      BY <2>1 DEF Reject, Holds, Holding, IsAt
    <3>2. Rolling(Loaded(s)) \in BOOLEAN
      BY DEF Rolling
    <3>3. Rejection(s) \in [counter: Counters, window: Windows, torn: BOOLEAN]
      BY <3>1, <3>2, HeldTypes DEF Rejection
    <3> QED BY <2>1, <3>3 DEF Reject, CountsOK
  <2>2. CASE CompareAndSwap(s) \/ StoreCount(s)
    <3>1. Holds(s) /\ UNCHANGED rejecting /\ (Admit(s) \/ UNCHANGED admitted)
      BY <2>2 DEF CompareAndSwap, StoreCount, Holds, Holding, IsAt
    <3> QED BY <3>1, Admitted DEF CountsOK
  <2>3. CASE ~(Reject(s) \/ CompareAndSwap(s) \/ StoreCount(s))
    BY <2>3 DEF CheckStep, BeginCheck, Pass, LoadWindow, LoadCount, Lock, StoreWindow, history, CountsOK
  <2> QED BY <2>1, <2>2, <2>3
<1> QED BY <1>1, <1>2, <1>3, <1>4 DEF ClockOK

\* loadOrCreate leaves the slot with the entry of its counter.
LEMMA LoadTypes ==
  ASSUME LimiterTypes, NEW s \in Slots, LoadOrCreate(s)
  PROVE  /\ LimiterTypes' /\ Counter(s) \in Counters
         /\ \/ /\ UNCHANGED <<heap, table>> /\ table[Counter(s)] # Missing
               /\ Moves(s, [call[s] EXCEPT !.pc = "try", !.entry = table[Counter(s)]])
            \/ /\ table[Counter(s)] = Missing
               /\ heap' = Append(heap, Fresh) /\ table' = [table EXCEPT ![Counter(s)] = Len(heap) + 1]
               /\ Moves(s, [call[s] EXCEPT !.pc = "try", !.entry = Len(heap) + 1])
<1> DEFINE c == Counter(s)
           e == IF table[c] = Missing THEN Len(heap) + 1 ELSE table[c]
           r == [call[s] EXCEPT !.pc = "try", !.entry = e]
<1> USE DEF LimiterTypes
<1>1. call[s] \in Calls /\ call[s].left # <<>>
  BY DEF LoadOrCreate, CallsOK
<1>2. c \in Counters
  BY <1>1, HeadTailProperties DEF Calls, Counter
<1>3. \/ UNCHANGED <<heap, table>> /\ table[c] # Missing
      \/ /\ table[c] = Missing
         /\ heap' = Append(heap, Fresh) /\ table' = [table EXCEPT ![c] = Len(heap) + 1]
  BY <1>2 DEF LoadOrCreate, HeapOK
<1>4. HeapOK' /\ Len(heap) \in Nat /\ Len(heap') >= Len(heap) /\ e \in 1..Len(heap')
  <2>1. Len(heap) \in Nat /\ table[c] \in 0..Len(heap)
    BY <1>2, LenProperties DEF HeapOK
  <2>2. CASE UNCHANGED <<heap, table>> /\ table[c] # Missing
    BY <2>1, <2>2 DEF HeapOK, Missing
  <2>3. CASE table[c] = Missing /\ heap' = Append(heap, Fresh)
             /\ table' = [table EXCEPT ![c] = Len(heap) + 1]
    <3>1. HeapOK' /\ Len(heap') = Len(heap) + 1
      BY <1>2, <2>3, EntryAdded
    <3> QED BY <2>1, <2>3, <3>1
  <2> QED BY <1>3, <2>2, <2>3
<1>5. Moves(s, r)
  <2>1. call' = [call EXCEPT ![s].pc = "try", ![s].entry = e]
    BY DEF LoadOrCreate, Counter
  <2> HIDE DEF e
  <2> QED BY <2>1 DEF Moves, CallsOK
<1>6. CallsOK'
  <2> HIDE DEF e
  <2>1. r \in Calls /\ r.left = call[s].left /\ r.entry = e
    <3>1. e \in Nat
      BY <1>4
    <3> QED BY <1>1, <3>1 DEF Calls, Holding
  <2>2. call' \in [Slots -> Calls] /\ call'[s] = r /\ \A t \in Slots \ {s} : call'[t] = call[t]
    BY <1>5, <2>1 DEF CallsOK, Moves
  <2> HIDE DEF r
  <2>3. \A t \in Slots : Holds(t)' => call'[t].left # <<>> /\ call'[t].entry \in 1..Len(heap')
    <3> SUFFICES ASSUME NEW t \in Slots, Holds(t)'
                 PROVE  call'[t].left # <<>> /\ call'[t].entry \in 1..Len(heap')
      OBVIOUS
    <3>1. CASE t = s
      BY <1>1, <1>4, <2>1, <2>2, <3>1
    <3>2. CASE t # s
      <4>1. call[t].left # <<>> /\ call[t].entry \in 1..Len(heap) /\ call'[t] = call[t]
        BY <2>2, <3>2 DEF CallsOK, Holds, Loaded
      <4>2. Len(heap') \in Nat
        BY <1>4, LenProperties DEF HeapOK
      <4> QED BY <1>4, <4>1, <4>2
    <3> QED BY <3>1, <3>2
  <2> QED BY <2>2, <2>3 DEF CallsOK, Loaded
<1>7. ClockOK' /\ CountsOK'
  BY DEF LoadOrCreate, history, ClockOK, CountsOK
<1> QED BY <1>2, <1>3, <1>4, <1>5, <1>6, <1>7

\* EvictStale and the clock.
LEMMA ClockTypes ==
  ASSUME LimiterTypes, (\E c \in Counters : FindStaleEntry(c)) \/ EvictEntry \/ ClockTicks \/ UNCHANGED limiterVars
  PROVE  LimiterTypes' /\ UNCHANGED <<heap, call, admitted, rejecting>>
<1> USE DEF LimiterTypes
<1>1. UNCHANGED <<heap, call, admitted, rejecting>>
  BY DEF FindStaleEntry, EvictEntry, ClockTicks, limiterVars, history
<1>2. HeapOK'
  BY <1>1, LenProperties DEF FindStaleEntry, EvictEntry, ClockTicks, limiterVars, HeapOK, Missing
<1>3. ClockOK'
  BY LimiterAssumption DEF FindStaleEntry, EvictEntry, ClockTicks, limiterVars, ClockOK, Minutes
<1> QED BY <1>1, <1>2, <1>3 DEF CallsOK, CountsOK, Holds, Loaded

-----------------------------------------------------------------------------
(* The limit.                                                              *)

\* The history only grows, and only when a counter lets a request pass.
LEMMA Histories ==
  ASSUME LimiterTypes, NEW s \in Slots, BeginCheck(s) \/ CheckStep(s)
  PROVE  /\ UNCHANGED straggled
         /\ UNCHANGED admitted \/ (Admit(s) /\ Holds(s) /\ UNCHANGED rejecting)
         /\ \/ UNCHANGED rejecting
            \/ Reject(s) /\ Holds(s) /\ rejecting' = rejecting \cup {Rejection(s)}
         /\ \A c \in Counters, w \in Windows : /\ admitted[c][w] \in Nat /\ admitted'[c][w] \in Nat
                                               /\ admitted'[c][w] >= admitted[c][w]
<1>1. UNCHANGED straggled /\ (UNCHANGED admitted \/ (Admit(s) /\ Holds(s) /\ UNCHANGED rejecting))
  BY DEF CheckStep, BeginCheck, LoadOrCreate, Pass, Reject, LoadWindow, LoadCount, CompareAndSwap, Lock,
     StoreWindow, StoreCount, history, Holds, Holding, IsAt
<1>2. \/ UNCHANGED rejecting
      \/ Reject(s) /\ Holds(s) /\ rejecting' = rejecting \cup {Rejection(s)}
  BY DEF CheckStep, BeginCheck, LoadOrCreate, Pass, Reject, LoadWindow, LoadCount, CompareAndSwap, Lock,
     StoreWindow, StoreCount, history, Holds, Holding, IsAt
<1>3. ASSUME NEW c \in Counters, NEW w \in Windows
      PROVE  /\ admitted[c][w] \in Nat /\ admitted'[c][w] \in Nat
             /\ admitted'[c][w] >= admitted[c][w]
  <2>1. admitted[c][w] \in Nat
    BY DEF LimiterTypes, CountsOK
  <2>2. UNCHANGED admitted \/ admitted'[c][w] \in {admitted[c][w], admitted[c][w] + 1}
    BY <1>1, Admitted
  <2> QED BY <2>1, <2>2
<1> QED BY <1>1, <1>2, <1>3

\* No step takes a count past the limit of its entry's counter.
LEMMA CountsKept ==
  ASSUME LimiterTypes, NEW s \in Slots, BeginCheck(s) \/ (CheckStep(s) /\ ~LoadOrCreate(s)),
         NEW owner \in [1..Len(heap) -> Counters], OwnedBy(owner),
         IsAt(s, "cas") => call[s].seen < Limit[Counter(s)], NEW e \in 1..Len(heap)
  PROVE  heap'[e].count <= Limit[owner[e]]
<1> DEFINE c == owner[e]
<1>1. c \in Counters /\ heap[e] \in Entries /\ Limit[c] \in Nat \ {0}
  BY LimiterAssumption, ElementOfSeq DEF LimiterTypes, HeapOK
<1>2. heap[e].count \in Nat /\ heap[e].count <= Limit[c]
  BY <1>1 DEF OwnedBy, Entries
<1>3. ASSUME NEW r, Edits(s, r), Holds(s)
      PROVE  /\ e = Loaded(s) => heap'[e] = r /\ c = Counter(s)
             /\ e # Loaded(s) => heap'[e] = heap[e]
  BY <1>3, HeldTypes, LenProperties DEF Edits, OwnedBy, LimiterTypes, HeapOK
<1>4. heap[Loaded(s)] \in Entries \/ ~Holds(s)
  BY HeldTypes
<1>5. CASE /\ CompareAndSwap(s) /\ heap[Loaded(s)].count = call[s].seen
           /\ Edits(s, [heap[Loaded(s)] EXCEPT !.count = @ + 1])
  <2>1. Holds(s) /\ call[s].seen < Limit[Counter(s)]
    BY <1>5 DEF CompareAndSwap, IsAt, Holds, Holding
  <2>2. CASE e = Loaded(s)
    <3>1. heap'[e].count = heap[e].count + 1 /\ heap[e].count < Limit[c]
      BY <1>1, <1>3, <1>5, <2>1, <2>2 DEF Entries
    <3> QED BY <1>1, <1>2, <3>1
  <2> QED BY <1>2, <1>3, <1>5, <2>1, <2>2
<1>6. CASE StoreCount(s) /\ Edits(s, [heap[Loaded(s)] EXCEPT !.count = 1, !.locked = FALSE])
  <2>1. Holds(s)
    BY <1>6 DEF StoreCount, IsAt, Holds, Holding
  <2>2. CASE e = Loaded(s)
    <3>1. [heap[Loaded(s)] EXCEPT !.count = 1, !.locked = FALSE].count = 1
      BY <1>4, <2>1 DEF Entries
    <3>2. heap'[e].count = 1
      BY <1>3, <1>6, <2>1, <2>2, <3>1
    <3> QED BY <1>1, <3>2
  <2> QED BY <1>2, <1>3, <1>6, <2>1, <2>2
<1>7. CASE \/ Lock(s) /\ Edits(s, [heap[Loaded(s)] EXCEPT !.locked = TRUE])
           \/ StoreWindow(s) /\ Edits(s, [heap[Loaded(s)] EXCEPT !.start = Window(s)])
           \/ StoreWindow(s) /\ Edits(s, [heap[Loaded(s)] EXCEPT !.locked = FALSE])
  <2>1. Holds(s)
    BY <1>7 DEF Lock, StoreWindow, IsAt, Holds, Holding
  <2> QED BY <1>2, <1>3, <1>4, <1>7, <2>1 DEF Entries
<1>8. CASE UNCHANGED <<heap, table>>
  BY <1>2, <1>8
<1> QED BY <1>5, <1>6, <1>7, <1>8, EntrySteps

\* The slots that read the current minute find their entry in its window, and only
\* ever move it there.
LEMMA MinuteStays ==
  ASSUME LimiterTypes, InMinute, NEW s \in Slots, BeginCheck(s) \/ (CheckStep(s) /\ ~LoadOrCreate(s)),
         NEW owner \in [1..Len(heap) -> Counters], OwnedBy(owner)
  PROVE  /\ InMinute'
         /\ \A t \in Slots : Holds(t) => heap'[Loaded(t)].start \in {heap[Loaded(t)].start, Window(t)}
<1>1. PICK r \in Calls :
        /\ Moves(s, r) /\ (r.pc \notin Holding \/ Keeps(s, r))
        /\ ~IsAt(s, "idle") /\ r.pc # "idle" => r.now = call[s].now
        /\ IsAt(s, "idle") => r.now = clock
  BY SlotSteps
<1>2. call'[s] = r /\ \A t \in Slots \ {s} : call'[t] = call[t]
  BY <1>1 DEF Moves, LimiterTypes, CallsOK
<1>3. \A t \in Slots : ~IsAt(t, "idle")' => call'[t].now = clock'
  BY <1>1, <1>2, SlotTypes DEF InMinute, IsAt
<1>4. ASSUME NEW t \in Slots, Holds(t)
      PROVE  heap'[Loaded(t)].start \in {heap[Loaded(t)].start, Window(t)}
  <2>1. Loaded(t) \in 1..Len(heap)
    BY <1>4, HeldTypes
  <2>2. CASE UNCHANGED heap
    BY <2>2
  <2>3. ASSUME Holds(s), NEW e, Edits(s, e), Loaded(t) # Loaded(s) PROVE heap'[Loaded(t)] = heap[Loaded(t)]
    BY <2>1, <2>3, LenProperties DEF Edits, LimiterTypes, HeapOK
  <2>4. ASSUME Holds(s), NEW e, Edits(s, e), Loaded(t) = Loaded(s)
        PROVE  heap'[Loaded(t)] = e /\ Window(t) = Window(s)
    BY <1>4, <2>1, <2>4, LenProperties
       DEF Edits, LimiterTypes, HeapOK, InMinute, OwnedBy, Window, Holds, Holding, IsAt
  <2>5. CASE Holds(s)
    <3>1. heap[Loaded(s)] \in Entries
      BY <2>5, HeldTypes
    <3>2. UNCHANGED heap \/ \E e : Edits(s, e) /\ e.start \in {heap[Loaded(s)].start, Window(s)}
      <4>1. /\ [heap[Loaded(s)] EXCEPT !.count = @ + 1].start = heap[Loaded(s)].start
            /\ [heap[Loaded(s)] EXCEPT !.locked = TRUE].start = heap[Loaded(s)].start
            /\ [heap[Loaded(s)] EXCEPT !.start = Window(s)].start = Window(s)
            /\ [heap[Loaded(s)] EXCEPT !.locked = FALSE].start = heap[Loaded(s)].start
            /\ [heap[Loaded(s)] EXCEPT !.count = 1, !.locked = FALSE].start = heap[Loaded(s)].start
        BY <3>1 DEF Entries
      <4> QED BY <4>1, EntrySteps
    <3> QED BY <2>2, <2>3, <2>4, <2>5, <3>2
  <2>6. CASE ~Holds(s)
    BY <2>2, <2>6, EntrySteps DEF Holds, Holding, CompareAndSwap, Lock, StoreWindow, StoreCount, IsAt
  <2> QED BY <2>5, <2>6
<1>5. ASSUME NEW t \in Slots, (IsAt(t, "count") \/ IsAt(t, "cas") \/ IsAt(t, "reset"))'
      PROVE  heap'[Loaded(t)'].start = WindowAt(Counter(t)', call'[t].now)
  <2>1. /\ Holds(t) /\ Loaded(t)' = Loaded(t) /\ Counter(t)' = Counter(t) /\ call'[t].now = call[t].now
    BY <1>1, <1>2, <1>5 DEF Holds, Holding, Keeps, IsAt, Loaded, Counter
  <2>2. CASE t # s
    BY <1>2, <1>4, <1>5, <2>1, <2>2 DEF InMinute, IsAt, Window
  <2>3. CASE t = s
    <3>1. ~IsAt(s, "reset")' => heap[Loaded(s)].start = Window(s)
      BY <1>5, <2>3, PcSteps DEF IsAt, LoadCount, InMinute
    <3>2. IsAt(s, "reset")' => heap'[Loaded(s)].start = Window(s)
      <4>1. IsAt(s, "reset")' => heap' = [heap EXCEPT ![Loaded(s)].start = Window(s)]
        BY PcSteps DEF IsAt, StoreWindow
      <4> QED BY <2>1, <2>3, <4>1, HeldTypes, LenProperties DEF LimiterTypes, HeapOK, Entries
    <3> QED BY <1>4, <2>1, <2>3, <3>1, <3>2 DEF Window
  <2> QED BY <2>2, <2>3
<1> QED BY <1>3, <1>4, <1>5 DEF InMinute, Window

\* What a slot adds to a count is let pass in the window of the entry, and the slot
\* that takes the entry to a new window is about to reset its count.
LEMMA SettledStays ==
  ASSUME LimiterTypes, InMinute, NEW s \in Slots, BeginCheck(s) \/ (CheckStep(s) /\ ~LoadOrCreate(s)),
         NEW owner \in [1..Len(heap) -> Counters], OwnedBy(owner), Settled(owner)
  PROVE  Settled(owner)'
<1>1. PICK r \in Calls : Moves(s, r) /\ (r.pc \notin Holding \/ Keeps(s, r))
  BY SlotSteps
<1>2. call'[s] = r /\ \A t \in Slots \ {s} : call'[t] = call[t]
  BY <1>1 DEF Moves, LimiterTypes, CallsOK
<1> SUFFICES ASSUME NEW e \in 1..Len(heap)
             PROVE  \/ Rolling(e)' \/ heap'[e].count = 0
                    \/ /\ heap'[e].start \in Windows
                       /\ heap'[e].count <= admitted'[owner[e]][heap'[e].start]
  BY SlotTypes DEF Settled
<1> DEFINE c == owner[e]
<1>3. /\ c \in Counters /\ heap[e] \in Entries /\ heap[e].count \in Nat
      /\ \A w \in Windows : /\ admitted[c][w] \in Nat /\ admitted'[c][w] \in Nat
                            /\ admitted'[c][w] >= admitted[c][w]
  <2>1. c \in Counters
    OBVIOUS
  <2>2. heap[e] \in Entries
    BY ElementOfSeq DEF LimiterTypes, HeapOK
  <2> HIDE DEF c
  <2>3. \A w \in Windows : /\ admitted[c][w] \in Nat /\ admitted'[c][w] \in Nat
                           /\ admitted'[c][w] >= admitted[c][w]
    BY <2>1, Histories
  <2> QED BY <2>1, <2>2, <2>3 DEF Entries
\* An entry that s does not change, and is not about to reset, is as it was.
<1>4. CASE heap'[e].start = heap[e].start /\ heap'[e].count = heap[e].count
           /\ ~(IsAt(s, "reset") /\ Loaded(s) = e)
  <2>1. Rolling(e) => Rolling(e)'
    BY <1>2, <1>4 DEF Rolling, IsAt, Loaded
  <2> QED BY <1>3, <1>4, <2>1 DEF Settled
<1>5. ASSUME NEW x, Edits(s, x), Holds(s)
      PROVE  /\ e = Loaded(s) => heap'[e] = x /\ c = Counter(s)
             /\ e # Loaded(s) => heap'[e] = heap[e]
  BY <1>5, HeldTypes, LenProperties DEF Edits, OwnedBy, LimiterTypes, HeapOK
<1>6. Holds(s) => /\ heap[Loaded(s)] \in Entries /\ Window(s) \in Windows
                  /\ Counter(s) \in Counters
  BY HeldTypes
<1>7. CASE /\ CompareAndSwap(s) /\ Admit(s)
           /\ Edits(s, [heap[Loaded(s)] EXCEPT !.count = @ + 1])
  <2>1. Holds(s) /\ IsAt(s, "cas")
    BY <1>7 DEF CompareAndSwap, IsAt, Holds, Holding
  <2>2. CASE e = Loaded(s)
    <3>1. /\ heap'[e].start = Window(s) /\ heap'[e].count = heap[e].count + 1
          /\ heap[e].start = Window(s) /\ c = Counter(s)
      BY <1>3, <1>5, <1>7, <2>1, <2>2 DEF Entries, InMinute
    <3>2. admitted'[c][Window(s)] = admitted[c][Window(s)] + 1
      BY <1>7, <2>1, <3>1, Admitted DEF CompareAndSwap
    <3>3. Rolling(e) => Rolling(e)'
      BY <1>2, <2>1 DEF Rolling, IsAt, Loaded
    <3> QED BY <1>3, <1>6, <2>1, <3>1, <3>2, <3>3 DEF Settled
  <2> QED BY <1>4, <1>5, <1>7, <2>1, <2>2 DEF IsAt
<1>8. CASE StoreCount(s) /\ Edits(s, [heap[Loaded(s)] EXCEPT !.count = 1, !.locked = FALSE])
  <2>1. Holds(s) /\ IsAt(s, "reset")
    BY <1>8 DEF StoreCount, IsAt, Holds, Holding
  <2>2. CASE e = Loaded(s)
    <3>1. LET x == [heap[Loaded(s)] EXCEPT !.count = 1, !.locked = FALSE]
          IN  x.count = 1 /\ x.start = heap[Loaded(s)].start
      BY <1>6, <2>1 DEF Entries
    <3>2. heap'[e].count = 1 /\ heap'[e].start = Window(s) /\ c = Counter(s)
      BY <1>5, <1>8, <2>1, <2>2, <3>1 DEF InMinute
    <3>3. admitted'[c][Window(s)] = admitted[c][Window(s)] + 1
      BY <1>8, <2>1, <3>2, Admitted DEF StoreCount
    <3> QED BY <1>3, <1>6, <2>1, <3>2, <3>3
  <2> QED BY <1>4, <1>5, <1>8, <2>1, <2>2
<1>9. CASE StoreWindow(s) /\ heap[Loaded(s)].start # Window(s)
           /\ Edits(s, [heap[Loaded(s)] EXCEPT !.start = Window(s)])
  <2>1. Holds(s) /\ ~IsAt(s, "reset")
    BY <1>9 DEF StoreWindow, IsAt, Holds, Holding
  <2>2. CASE e = Loaded(s)
    <3>1. call'[s].pc = "reset" /\ call'[s].entry = call[s].entry
      BY <1>9 DEF StoreWindow, GoTo, LimiterTypes, CallsOK, Calls
    <3> QED BY <2>2, <3>1 DEF Rolling, IsAt, Loaded
  <2> QED BY <1>4, <1>5, <1>9, <2>1, <2>2
<1>10. CASE \/ Lock(s) /\ Edits(s, [heap[Loaded(s)] EXCEPT !.locked = TRUE])
            \/ StoreWindow(s) /\ Edits(s, [heap[Loaded(s)] EXCEPT !.locked = FALSE])
  <2>1. Holds(s) /\ ~IsAt(s, "reset")
    BY <1>10 DEF Lock, StoreWindow, IsAt, Holds, Holding
  <2> QED BY <1>4, <1>5, <1>6, <1>10, <2>1 DEF Entries
<1>11. CASE UNCHANGED <<heap, table>>
  <2>1. ~StoreCount(s) => ~IsAt(s, "reset")
    BY DEF CheckStep, BeginCheck, Pass, Reject, LoadWindow, LoadCount, CompareAndSwap, Lock, StoreWindow, IsAt
  <2>2. CASE StoreCount(s)
    <3>1. Edits(s, [heap[Loaded(s)] EXCEPT !.count = 1, !.locked = FALSE])
      BY <2>2 DEF StoreCount, Edits, LimiterTypes, HeapOK
    <3> QED BY <1>8, <2>2, <3>1
  <2> QED BY <1>4, <1>11, <2>1, <2>2
<1> QED BY <1>7, <1>8, <1>9, <1>10, <1>11, EntrySteps

\* A request is turned away at a count that its window has let pass, if no slot is
\* about to reset it.
LEMMA RejectionsKept ==
  ASSUME LimiterTypes, LimitInv, NEW s \in Slots, BeginCheck(s) \/ CheckStep(s)
  PROVE  RejectedOnlyAtLimit'
<1> SUFFICES ASSUME ~straggled, NEW x \in rejecting', ~x.torn
             PROVE  admitted'[x.counter][x.window] >= Limit[x.counter]
  BY Histories DEF RejectedOnlyAtLimit
<1>1. CASE x \in rejecting
  <2>1. x.counter \in Counters /\ x.window \in Windows
    BY <1>1 DEF LimiterTypes, CountsOK
  <2>2. Limit[x.counter] \in Nat /\ admitted[x.counter][x.window] >= Limit[x.counter]
    BY <1>1, <2>1, LimiterAssumption DEF LimitInv, RejectedOnlyAtLimit
  <2> QED BY <2>1, <2>2, Histories
<1>2. CASE Reject(s) /\ Holds(s) /\ x = Rejection(s)
  <2> DEFINE c == Counter(s)
             e == Loaded(s)
  <2>1. PICK owner \in [1..Len(heap) -> Counters] : OwnedBy(owner) /\ Settled(owner)
    BY DEF LimitInv
  <2>2. /\ c \in Counters /\ e \in 1..Len(heap) /\ heap[e] \in Entries
        /\ Limit[c] \in Nat \ {0} /\ Window(s) \in Windows
    BY <1>2, HeldTypes
  <2>3. x.counter = c /\ x.window = Window(s) /\ ~Rolling(e)
    BY <1>2 DEF Rejection
  <2>4. heap[e].count >= Limit[c] /\ heap[e].start = Window(s) /\ owner[e] = c
    BY <1>2, <2>1 DEF Reject, LimitInv, InMinute, OwnedBy
  <2>5. heap[e].count \in Nat /\ heap[e].count <= admitted[c][Window(s)]
    BY <2>1, <2>2, <2>3, <2>4 DEF Settled, Entries
  <2>6. admitted[c][Window(s)] \in Nat /\ admitted'[c][Window(s)] = admitted[c][Window(s)]
    BY <1>2, <2>2, Histories DEF Reject
  <2> QED BY <2>2, <2>3, <2>4, <2>5, <2>6
<1> QED BY <1>1, <1>2, Histories

\* A slot changes one entry, its own counter's, and adds to it only what it admits.
LEMMA LimitStep ==
  ASSUME LimiterTypes, LimitInv, NEW s \in Slots, BeginCheck(s) \/ (CheckStep(s) /\ ~LoadOrCreate(s))
  PROVE  LimitInv'
<1>1. PICK owner \in [1..Len(heap) -> Counters] : OwnedBy(owner) /\ (~straggled => Settled(owner))
  BY DEF LimitInv
<1>2. PICK r \in Calls : Moves(s, r) /\ (r.pc \notin Holding \/ Keeps(s, r))
  BY SlotSteps
<1>3. call'[s] = r /\ \A t \in Slots \ {s} : call'[t] = call[t]
  BY <1>2 DEF Moves, LimiterTypes, CallsOK
<1>4. Len(heap') = Len(heap) /\ UNCHANGED <<table, straggled>>
  BY SlotTypes, Histories
<1>5. OwnedBy(owner)'
  <2>1. \A t \in Slots : Holds(t)' => owner[call'[t].entry] = Head(call'[t].left)
    BY <1>1, <1>2, <1>3 DEF OwnedBy, Holds, Loaded, Counter, Keeps
  <2>2. \A e \in 1..Len(heap) : heap'[e].count <= Limit[owner[e]]
    BY <1>1, CountsKept DEF LimitInv
  <2> QED BY <1>1, <1>4, <2>1, <2>2 DEF OwnedBy, Loaded, Counter
<1>6. IsAt(s, "cas")' => call'[s].seen < Limit[Head(call'[s].left)]
  <2>1. CASE LoadCount(s)
    <3>1. call[s] \in Calls
      BY DEF LimiterTypes, CallsOK
    <3> QED BY <1>3, <2>1, <3>1 DEF LoadCount, Counter, Calls, LimiterTypes, CallsOK
  <2>2. CASE ~LoadCount(s)
    BY <2>2, PcSteps DEF IsAt
  <2> QED BY <2>1, <2>2
<1>7. \A t \in Slots : IsAt(t, "cas")' => call'[t].seen < Limit[Head(call'[t].left)]
  BY <1>3, <1>6 DEF LimitInv, IsAt, Counter
<1>8. ~straggled' => InMinute' /\ Settled(owner)'
  BY <1>1, <1>4, MinuteStays, SettledStays DEF LimitInv
<1> QED BY <1>1, <1>4, <1>5, <1>7, <1>8, RejectionsKept DEF LimitInv, Counter

\* The entry that the map has is its counter's; a new one belongs to the counter.
LEMMA LimitLoad ==
  ASSUME LimiterTypes, LimitInv, NEW s \in Slots, LoadOrCreate(s)
  PROVE  LimitInv'
<1> DEFINE c == Counter(s)
<1>1. PICK owner \in [1..Len(heap) -> Counters] : OwnedBy(owner) /\ (~straggled => Settled(owner))
  BY DEF LimitInv
<1>2. UNCHANGED <<admitted, straggled, clock>> /\ c \in Counters
  BY LoadTypes DEF LoadOrCreate, history
<1>3. call[s] \in Calls /\ call \in [Slots -> Calls] /\ Len(heap) \in Nat
  BY LenProperties DEF LimiterTypes, CallsOK, HeapOK
<1>4. PICK n : /\ Moves(s, [call[s] EXCEPT !.pc = "try", !.entry = n])
               /\ \/ UNCHANGED <<heap, table>> /\ table[c] # Missing /\ n = table[c]
                  \/ /\ table[c] = Missing /\ n = Len(heap) + 1
                     /\ heap' = Append(heap, Fresh) /\ table' = [table EXCEPT ![c] = n]
  BY LoadTypes
<1>5. /\ call'[s].pc = "try" /\ call'[s].entry = n /\ call'[s].left = call[s].left
      /\ call'[s].now = call[s].now /\ \A t \in Slots \ {s} : call'[t] = call[t]
  BY <1>3, <1>4 DEF Moves, Calls
<1>6. IsAt(s, "next")
  BY DEF LoadOrCreate
<1>7. \A d \in 1..Len(heap) : heap'[d] = heap[d]
  BY <1>2, <1>4, EntryAdded DEF LimiterTypes
\* The slots that are further than "try" are others, and as they were.
<1>8. \A t \in Slots : ~IsAt(t, "try")' /\ Holds(t)' => Holds(t) /\ t # s /\ call'[t] = call[t]
  BY <1>5 DEF IsAt, Holds
<1>9. \A t \in Slots : IsAt(t, "cas")' => call'[t].seen < Limit[Counter(t)']
  BY <1>5 DEF LimitInv, IsAt, Counter
<1>10. InMinute \/ straggled
  BY DEF LimitInv
<1>11. InMinute => InMinute'
  <2> SUFFICES ASSUME InMinute PROVE InMinute'
    OBVIOUS
  <2>1. \A t \in Slots : ~IsAt(t, "idle")' => call'[t].now = clock'
    BY <1>2, <1>5, <1>6 DEF InMinute, IsAt
  <2>2. \A t \in Slots : (IsAt(t, "count") \/ IsAt(t, "cas") \/ IsAt(t, "reset"))' =>
                            heap'[Loaded(t)'].start = Window(t)'
    <3> SUFFICES ASSUME NEW t \in Slots, (IsAt(t, "count") \/ IsAt(t, "cas") \/ IsAt(t, "reset"))'
                 PROVE  heap'[Loaded(t)'].start = Window(t)'
      OBVIOUS
    <3>1. Holds(t) /\ call'[t] = call[t]
      BY <1>8 DEF IsAt, Holds, Holding
    <3>2. Loaded(t) \in 1..Len(heap)
      BY <3>1, HeldTypes
    <3> QED BY <1>7, <3>1, <3>2 DEF InMinute, IsAt, Loaded, Window, Counter
  <2> QED BY <2>1, <2>2 DEF InMinute
<1>12. \A e : Rolling(e) => Rolling(e)'
  BY <1>5, <1>6 DEF Rolling, IsAt, Loaded
<1>13. CASE UNCHANGED <<heap, table>> /\ table[c] # Missing /\ n = table[c]
  <2>1. \A t \in Slots : Holds(t)' => owner[Loaded(t)'] = Counter(t)'
    BY <1>1, <1>2, <1>5, <1>13 DEF OwnedBy, Holds, Loaded, Counter
  <2>2. OwnedBy(owner)'
    BY <1>1, <1>13, <2>1 DEF OwnedBy
  <2>3. Settled(owner) => Settled(owner)'
    BY <1>2, <1>12, <1>13 DEF Settled
  <2> QED BY <1>1, <1>2, <1>9, <1>10, <1>11, <1>13, <2>2, <2>3, RejectionsKept DEF LimitInv, CheckStep
<1>14. CASE /\ table[c] = Missing /\ n = Len(heap) + 1
            /\ heap' = Append(heap, Fresh) /\ table' = [table EXCEPT ![c] = n]
  <2>1. Len(heap') = n /\ heap'[n] = Fresh
    BY <1>2, <1>14, EntryAdded DEF LimiterTypes
  <2>2. PICK grown \in [1..Len(heap') -> Counters] :
          grown[n] = c /\ \A e \in 1..Len(heap) : grown[e] = owner[e]
    <3> DEFINE f == [e \in 1..n |-> IF e = n THEN c ELSE owner[e]]
    <3>1. f \in [1..Len(heap') -> Counters] /\ f[n] = c /\ \A e \in 1..Len(heap) : f[e] = owner[e]
      BY <1>2, <1>3, <1>14, <2>1
    <3> HIDE DEF f
    <3> QED BY <3>1
  <2>3. \A d \in Counters : table'[d] # Missing => grown[table'[d]] = d
    BY <1>1, <1>2, <1>3, <1>14, <2>2 DEF OwnedBy, LimiterTypes, HeapOK, Missing
  <2>4. \A t \in Slots : Holds(t)' => grown[Loaded(t)'] = Counter(t)'
    BY <1>1, <1>5, <1>14, <2>2, HeldTypes DEF OwnedBy, Holds, Loaded, Counter
  <2>5. \A e \in 1..Len(heap') : e = n \/ e \in 1..Len(heap)
    BY <1>3, <1>14, <2>1
  <2>6. \A e \in 1..Len(heap') : heap'[e].count <= Limit[grown[e]]
    <3>1. Limit[c] \in Nat /\ heap'[n].count = 0
      BY <1>2, <2>1, LimiterAssumption DEF Fresh
    <3> QED BY <1>1, <1>7, <2>2, <2>5, <3>1 DEF OwnedBy
  <2>7. OwnedBy(grown)'
    BY <2>3, <2>4, <2>6 DEF OwnedBy
  <2>8. Settled(owner) => Settled(grown)'
    <3>1. heap'[n].count = 0
      BY <2>1 DEF Fresh
    <3> QED BY <1>2, <1>7, <1>12, <2>2, <2>5, <3>1 DEF Settled
  <2> QED BY <1>1, <1>2, <1>9, <1>10, <1>11, <2>2, <2>7, <2>8, RejectionsKept DEF LimitInv, CheckStep
<1> QED BY <1>4, <1>13, <1>14

\* EvictStale takes an entry from the map and leaves it as it is; no slot is at work
\* when a minute ends that no request outlives.
LEMMA LimitClock ==
  ASSUME LimiterTypes, LimitInv,
         (\E c \in Counters : FindStaleEntry(c)) \/ EvictEntry \/ ClockTicks \/ UNCHANGED limiterVars
  PROVE  LimitInv'
<1>1. PICK owner \in [1..Len(heap) -> Counters] : OwnedBy(owner) /\ (~straggled => Settled(owner))
  BY DEF LimitInv
<1>2. UNCHANGED <<heap, call, admitted, rejecting>>
  BY ClockTypes
<1>3. \A c \in Counters : table'[c] = table[c] \/ table'[c] = Missing
  BY DEF FindStaleEntry, EvictEntry, ClockTicks, limiterVars, LimiterTypes, HeapOK
<1>4. OwnedBy(owner)'
  BY <1>1, <1>2, <1>3 DEF OwnedBy, Holds, Loaded, Counter
<1>5. ~straggled' => ~straggled /\ (UNCHANGED clock \/ \A s \in Slots : IsAt(s, "idle"))
  BY DEF FindStaleEntry, EvictEntry, ClockTicks, limiterVars, history
<1>6. Settled(owner) => Settled(owner)'
  BY <1>2 DEF Settled, Rolling, IsAt, Loaded
<1>7. ~straggled' => InMinute'
  BY <1>2, <1>5 DEF LimitInv, InMinute, IsAt, Loaded, Window, Counter
<1>8. RejectedOnlyAtLimit'
  BY <1>2, <1>5 DEF LimitInv, RejectedOnlyAtLimit
<1> QED BY <1>1, <1>2, <1>4, <1>5, <1>6, <1>7, <1>8 DEF LimitInv, IsAt, Counter

\* A count never passes its limit, and a counter turns a request away only after it
\* has let its limit pass in that window, whatever increments, resets and evictions
\* race, but for rejections between the two stores of a rollover and requests that
\* outlive their minute (LimitExact of the run RateLimiter).
THEOREM LimitsKept == LimiterSpec => []LimitExact
<1>1. LimiterTypes /\ LimitInv /\ [LimiterNext]_limiterVars => LimiterTypes' /\ LimitInv'
  BY SlotTypes, LoadTypes, ClockTypes, LimitStep, LimitLoad, LimitClock DEF LimiterNext
<1>2. LimiterTypes /\ LimitInv => LimitExact
  BY DEF LimiterTypes, HeapOK, LimitInv, OwnedBy, LimitExact, CountWithinLimit, Missing
<1> QED BY LimiterStart, <1>1, <1>2, PTL DEF LimiterSpec

-----------------------------------------------------------------------------
(* The overrun of a window.                                                *)

\* A step of a slot touches no counter but the one it checks.
LEMMA OtherCounters ==
  ASSUME LimiterTypes, OneEntry, NEW s \in Slots, BeginCheck(s) \/ (CheckStep(s) /\ ~LoadOrCreate(s)),
         NEW c \in Counters, Holds(s) => c # Counter(s)
  PROVE  /\ StartOf(c)' = StartOf(c) /\ Resetting(c)' = Resetting(c)
         /\ admitted'[c] = admitted[c]
         /\ table[c] # Missing => heap'[table[c]] = heap[table[c]]
<1>1. UNCHANGED table
  BY SlotTypes
<1>2. table[c] # Missing => heap'[table[c]] = heap[table[c]]
  <2>1. ASSUME Holds(s), NEW r, Edits(s, r), table[c] # Missing
        PROVE  heap'[table[c]] = heap[table[c]]
    <3>1. table[c] # Loaded(s) /\ table[c] \in 1..Len(heap)
      BY <2>1, HeldTypes, LenProperties DEF OneEntry, LimiterTypes, HeapOK, Missing
    <3> QED BY <2>1, <3>1, LenProperties DEF Edits, LimiterTypes, HeapOK
  <2>2. UNCHANGED heap \/ (Holds(s) /\ \E r : Edits(s, r))
    BY EntrySteps DEF CompareAndSwap, Lock, StoreWindow, StoreCount, IsAt, Holds, Holding
  <2> QED BY <2>1, <2>2
<1>3. admitted'[c] = admitted[c]
  BY Histories, HeldTypes DEF Admit, LimiterTypes, CountsOK
<1>4. Resetting(c)' = Resetting(c)
  <2>1. PICK r \in Calls : Moves(s, r) /\ (r.pc \notin Holding \/ Keeps(s, r))
    BY SlotSteps
  <2>2. call'[s] = r /\ \A t \in Slots \ {s} : call'[t] = call[t]
    BY <2>1 DEF Moves, LimiterTypes, CallsOK
  <2>3. ~(IsAt(s, "reset") /\ Counter(s) = c)
    BY DEF IsAt, Holds, Holding
  <2>4. ~(IsAt(s, "reset") /\ Counter(s) = c)'
    BY <2>1, <2>2 DEF IsAt, Holds, Holding, Keeps, Counter
  <2>5. \A t \in Slots \ {s} : (IsAt(t, "reset") /\ Counter(t) = c)' = (IsAt(t, "reset") /\ Counter(t) = c)
    BY <2>2 DEF IsAt, Counter
  <2> QED BY <2>3, <2>4, <2>5 DEF Resetting
<1> QED BY <1>1, <1>2, <1>3, <1>4 DEF StartOf

\* It leaves each counter with the entry of the map, and each entry with one
\* slot in its lock.
LEMMA EntryStays ==
  ASSUME LimiterTypes, OneEntry, NEW s \in Slots, BeginCheck(s) \/ (CheckStep(s) /\ ~LoadOrCreate(s))
  PROVE  OneEntry'
<1>1. PICK r \in Calls : Moves(s, r) /\ (r.pc \notin Holding \/ Keeps(s, r))
  BY SlotSteps
<1>2. call'[s] = r /\ \A t \in Slots \ {s} : call'[t] = call[t]
  BY <1>1 DEF Moves, LimiterTypes, CallsOK
<1>3. UNCHANGED table
  BY SlotTypes
<1>5. \A t \in Slots : Holds(t)' => /\ Holds(t) /\ call'[t].left = call[t].left
                                    /\ call'[t].entry = call[t].entry
  BY <1>1, <1>2 DEF Holds, Keeps, Loaded
<1>6. \A t \in Slots : Holds(t)' => table'[Counter(t)'] = Loaded(t)'
  BY <1>3, <1>5 DEF OneEntry, Counter, Loaded
\* No other slot that is in a lock is touched, and s is, if it comes to be in one.
<1>7. ASSUME NEW t \in Slots, t # s, Locked(t) PROVE heap'[Loaded(t)].locked
  <2>1. Holds(t) /\ heap[Loaded(t)].locked /\ Loaded(t) \in 1..Len(heap)
    BY <1>7, HeldTypes DEF Locked, Holds, Holding, OneEntry
  <2>2. ASSUME Holds(s), NEW e, Edits(s, e), Loaded(t) # Loaded(s) PROVE heap'[Loaded(t)] = heap[Loaded(t)]
    BY <2>1, <2>2, LenProperties DEF Edits, LimiterTypes, HeapOK
  <2>3. ASSUME Holds(s), NEW e, Edits(s, e), Loaded(t) = Loaded(s) PROVE heap'[Loaded(t)] = e
    BY <2>1, <2>3, LenProperties DEF Edits, LimiterTypes, HeapOK
  <2>4. CASE StoreCount(s) \/ StoreWindow(s)
    <3>1. Holds(s) /\ Locked(s) /\ Loaded(t) # Loaded(s)
      BY <1>7, <2>4 DEF StoreCount, StoreWindow, IsAt, Locked, Holds, Holding, OneEntry
    <3> QED BY <2>1, <2>2, <2>4, <3>1, EntrySteps
  <2>5. CASE CompareAndSwap(s) \/ Lock(s)
    <3>1. Holds(s)
      BY <2>5 DEF CompareAndSwap, Lock, IsAt, Holds, Holding
    <3>2. heap[Loaded(s)] \in Entries
      BY <3>1, HeldTypes
    <3>3. PICK e : /\ UNCHANGED heap \/ Edits(s, e)
                   /\ heap[Loaded(s)].locked => e.locked
      <4>1. [heap[Loaded(s)] EXCEPT !.count = @ + 1].locked = heap[Loaded(s)].locked
        BY <3>2 DEF Entries
      <4>2. [heap[Loaded(s)] EXCEPT !.locked = TRUE].locked
        BY <3>2 DEF Entries
      <4>3. ~(StoreWindow(s) \/ StoreCount(s))
        BY <2>5 DEF StoreWindow, StoreCount, CompareAndSwap, Lock, IsAt
      <4> QED BY <4>1, <4>2, <4>3, EntrySteps
    <3> QED BY <2>1, <2>2, <2>3, <3>1, <3>3
  <2> QED BY <2>1, <2>4, <2>5, EntrySteps
<1>8. Locked(s)' => heap'[Loaded(s)].locked /\ (Locked(s) \/ Lock(s))
  <2>1. ASSUME Holds(s), NEW e, Edits(s, e) PROVE heap'[Loaded(s)] = e
    BY <2>1, HeldTypes, LenProperties DEF Edits, LimiterTypes, HeapOK
  <2>2. CASE Lock(s)
    <3>1. Holds(s) /\ Edits(s, [heap[Loaded(s)] EXCEPT !.locked = TRUE])
      BY <2>2 DEF Lock, Edits, IsAt, Holds, Holding, LimiterTypes, HeapOK
    <3> QED BY <2>1, <2>2, <3>1, HeldTypes DEF Entries
  <2>3. CASE StoreWindow(s) /\ heap[Loaded(s)].start # Window(s)
    <3>1. Holds(s) /\ Locked(s) /\ Edits(s, [heap[Loaded(s)] EXCEPT !.start = Window(s)])
      BY <2>3 DEF StoreWindow, Edits, IsAt, Holds, Holding, Locked, LimiterTypes, HeapOK
    <3>2. heap[Loaded(s)].locked
      BY <3>1 DEF OneEntry
    <3> QED BY <2>1, <3>1, <3>2, HeldTypes DEF Entries
  <2> QED BY <2>2, <2>3, PcSteps DEF Locked
<1>9. \A t \in Slots : Locked(t)' => heap'[Loaded(t)'].locked
  BY <1>2, <1>5, <1>7, <1>8 DEF Locked, Holds, Holding, Loaded
<1>10. \A t, u \in Slots : Locked(t)' /\ Locked(u)' /\ Loaded(t)' = Loaded(u)' => t = u
  <2>1. ASSUME NEW t \in Slots, t # s, Locked(s)', Locked(t)', Loaded(s)' = Loaded(t)' PROVE FALSE
    <3>1. Locked(t) /\ Loaded(t) = Loaded(s)
      BY <1>2, <1>5, <2>1 DEF Locked, Holds, Holding, Loaded
    <3>2. CASE Locked(s)
      BY <2>1, <3>1, <3>2 DEF OneEntry
    <3>3. CASE Lock(s)
      BY <3>1, <3>3 DEF Lock, OneEntry
    <3> QED BY <1>8, <2>1, <3>2, <3>3
  <2> QED BY <1>2, <2>1 DEF OneEntry, Locked, Loaded
<1> QED BY <1>3, <1>6, <1>9, <1>10 DEF OneEntry

\* The entry of a counter is never in a later window than the current one.
LEMMA WindowsStay ==
  ASSUME LimiterTypes, LimitInv, InMinute, OneEntry, InWindows, NEW s \in Slots,
         BeginCheck(s) \/ (CheckStep(s) /\ ~LoadOrCreate(s)), NEW c \in Counters
  PROVE  StartOf(c)' <= WindowAt(c, clock)
<1>1. CASE Holds(s) /\ c = Counter(s)
  <2>1. StartOf(c)' = heap'[Loaded(s)].start /\ StartOf(c) = heap[Loaded(s)].start
    BY <1>1, SlotTypes, HeldTypes DEF StartOf, OneEntry, Missing
  <2>2. Window(s) = WindowAt(c, clock)
    BY <1>1 DEF InMinute, Window, Holds, Holding, IsAt
  <2>3. Window(s) \in Nat
    BY <1>1, HeldTypes, LimiterAssumption DEF Windows
  <2>4. heap'[Loaded(s)].start \in {heap[Loaded(s)].start, Window(s)}
    BY <1>1, MinuteStays DEF LimitInv
  <2> QED BY <1>1, <2>1, <2>2, <2>3, <2>4 DEF InWindows
<1>2. CASE ~(Holds(s) /\ c = Counter(s))
  BY <1>2, OtherCounters DEF InWindows
<1> QED BY <1>1, <1>2

\* What the slots of a counter do to the window of its entry.
LEMMA WindowStep ==
  ASSUME LimiterTypes, LimitInv, InMinute, OneEntry, InWindows, NEW s \in Slots, Holds(s),
         CheckStep(s), ~LoadOrCreate(s), NEW c \in Counters, c = Counter(s)
  PROVE  InWindow(c)'
<1> DEFINE e == heap[Loaded(s)]
           f == heap'[Loaded(s)]
<1>1. /\ c \in Counters /\ Loaded(s) \in 1..Len(heap) /\ e \in Entries /\ Limit[c] \in Nat \ {0}
      /\ Window(s) \in Windows /\ table[c] = Loaded(s) /\ Loaded(s) # Missing
  BY HeldTypes DEF OneEntry, Missing
<1>2. StartOf(c) = e.start /\ StartOf(c)' = f.start /\ UNCHANGED table
  <2>1. UNCHANGED table
    BY SlotTypes
  <2> QED BY <1>1, <2>1 DEF StartOf
<1>3. Window(s) = WindowAt(c, clock) /\ e.start <= Window(s) /\ e.start \in Nat /\ Window(s) \in Nat
  <2>1. call[s].now = clock
    BY DEF InMinute, Holds, Holding, IsAt
  <2>2. e.start <= WindowAt(c, clock) /\ e.start \in Nat
    BY <1>1, <1>2 DEF InWindows, Entries
  <2> QED BY <1>1, <2>1, <2>2, LimiterAssumption DEF Window, Windows
<1>4. e.count <= Limit[c] /\ e.count \in Nat
  BY <1>1 DEF LimitInv, OwnedBy, Entries
<1>5. \A w \in Windows : w \in Nat /\ admitted[c][w] \in Nat
  BY <1>1, LimiterAssumption DEF LimiterTypes, CountsOK, Windows
<1>6. InWindow(c)
  BY <1>1 DEF InWindows
<1>7. ASSUME NEW r, Edits(s, r) PROVE f = r
  BY <1>1, <1>7, LenProperties DEF Edits, LimiterTypes, HeapOK
<1>8. (\A t \in Slots \ {s} : call'[t] = call[t]) /\ call' \in [Slots -> Calls]
  BY SlotSteps, SlotTypes DEF Moves, LimiterTypes, CallsOK
\* One slot at most is about to reset the entry.
<1>9. IsAt(s, "reset") => \A t \in Slots \ {s} : ~(IsAt(t, "reset") /\ Counter(t) = c)
  BY <1>1 DEF OneEntry, Locked, Holds, Holding, IsAt
<1>10. ~IsAt(s, "reset") /\ ~IsAt(s, "reset")' => (Resetting(c)' <=> Resetting(c))
  BY <1>8 DEF Resetting, IsAt, Counter
<1>11. CASE /\ UNCHANGED admitted /\ ~IsAt(s, "reset") /\ ~IsAt(s, "reset")'
            /\ f.start = e.start /\ f.count = e.count
  <2>1. Resetting(c)' <=> Resetting(c)
    BY <1>10, <1>11
  <2>2. \A w \in Windows :
           w = StartOf(c)' =>
             admitted'[c][w] <= heap'[table'[c]].count + (IF Resetting(c)' THEN 0 ELSE Limit[c])
    BY <1>1, <1>2, <1>6, <1>11, <2>1 DEF InWindow
  <2> QED BY <1>2, <1>6, <1>11, <2>2 DEF InWindow
\* It is enough to look at the window that the slots are in.
<1>18. ASSUME f.start = Window(s),
              \A w \in Windows : /\ w > Window(s) => admitted'[c][w] = 0
                                 /\ admitted'[c][w] <= 2 * Limit[c],
              admitted'[c][Window(s)] <= f.count + (IF Resetting(c)' THEN 0 ELSE Limit[c])
       PROVE  InWindow(c)'
  <2>1. heap'[table'[c]] = f /\ StartOf(c)' = Window(s)
    BY <1>1, <1>2, <1>18
  <2> HIDE DEF f
  <2> QED BY <1>18, <2>1 DEF InWindow
<1>12. CASE Admit(s) /\ UNCHANGED rejecting /\ IsAt(s, "cas") /\ e.count < Limit[c]
             /\ Edits(s, [e EXCEPT !.count = @ + 1])
  <2>1. f.start = e.start /\ f.count = e.count + 1 /\ e.start = Window(s)
    BY <1>1, <1>7, <1>12 DEF Entries, InMinute
  <2>2. /\ admitted'[c][Window(s)] = admitted[c][Window(s)] + 1
        /\ \A w \in Windows : w # Window(s) => admitted'[c][w] = admitted[c][w]
    BY <1>12, Admitted
  <2>3. Resetting(c)' <=> Resetting(c)
    BY <1>10, <1>12, PcSteps DEF IsAt, StoreWindow
  <2>4. admitted[c][Window(s)] <= e.count + (IF Resetting(c) THEN 0 ELSE Limit[c])
    BY <1>1, <1>2, <1>6, <2>1 DEF InWindow
  <2>5. e.count + 1 <= Limit[c] /\ admitted[c][Window(s)] \in Nat
    BY <1>1, <1>4, <1>5, <1>12
  <2>6. /\ admitted'[c][Window(s)] <= f.count + (IF Resetting(c)' THEN 0 ELSE Limit[c])
        /\ admitted'[c][Window(s)] <= 2 * Limit[c]
    <3>1. CASE Resetting(c)
      <4>1. admitted[c][Window(s)] <= e.count
        BY <1>4, <2>4, <3>1
      <4>2. admitted'[c][Window(s)] <= f.count /\ admitted'[c][Window(s)] <= Limit[c]
        BY <1>1, <1>4, <2>1, <2>2, <2>5, <4>1
      <4>3. admitted'[c][Window(s)] \in Nat /\ f.count \in Nat
        BY <1>4, <2>1, <2>2, <2>5
      <4> QED BY <1>1, <2>3, <3>1, <4>2, <4>3
    <3>2. CASE ~Resetting(c)
      BY SMTT(30), <1>1, <1>4, <2>1, <2>2, <2>3, <2>4, <2>5, <3>2
    <3> QED BY <3>1, <3>2
  <2>7. \A w \in Windows : /\ w > Window(s) => admitted'[c][w] = 0
                           /\ admitted'[c][w] <= 2 * Limit[c]
    BY <1>2, <1>3, <1>5, <1>6, <2>1, <2>2, <2>6 DEF InWindow
  <2> QED BY <1>18, <2>1, <2>6, <2>7
<1>13. CASE StoreCount(s) /\ Edits(s, [e EXCEPT !.count = 1, !.locked = FALSE])
  <2>1. f.start = e.start /\ f.count = 1 /\ e.start = Window(s) /\ IsAt(s, "reset")
    BY <1>1, <1>7, <1>13 DEF Entries, InMinute, StoreCount
  <2>2. /\ admitted'[c][Window(s)] = admitted[c][Window(s)] + 1
        /\ \A w \in Windows : w # Window(s) => admitted'[c][w] = admitted[c][w]
    BY <1>13, Admitted DEF StoreCount
  <2>3. Resetting(c) /\ ~Resetting(c)'
    <3>1. ~IsAt(s, "reset")'
      BY <2>1, PcSteps DEF IsAt, StoreWindow
    <3>2. \A t \in Slots \ {s} : ~(IsAt(t, "reset") /\ Counter(t) = c)'
      BY <1>8, <1>9, <2>1 DEF IsAt, Counter
    <3> QED BY <2>1, <3>1, <3>2 DEF Resetting
  <2>4. admitted[c][Window(s)] <= e.count
    BY <1>1, <1>2, <1>4, <1>6, <2>1, <2>3 DEF InWindow
  <2>5. /\ admitted'[c][Window(s)] <= f.count + (IF Resetting(c)' THEN 0 ELSE Limit[c])
        /\ admitted'[c][Window(s)] <= 2 * Limit[c]
    BY SMTT(30), <1>1, <1>4, <1>5, <2>1, <2>2, <2>3, <2>4
  <2>6. \A w \in Windows : /\ w > Window(s) => admitted'[c][w] = 0
                           /\ admitted'[c][w] <= 2 * Limit[c]
    BY <1>2, <1>3, <1>5, <1>6, <2>1, <2>2, <2>5 DEF InWindow
  <2> QED BY <1>18, <2>1, <2>5, <2>6
<1>14. CASE StoreWindow(s) /\ e.start # Window(s) /\ Edits(s, [e EXCEPT !.start = Window(s)])
  <2>1. f.start = Window(s) /\ f.count = e.count /\ e.start < Window(s)
    BY <1>1, <1>3, <1>7, <1>14 DEF Entries
  <2>2. UNCHANGED admitted
    BY <1>14 DEF StoreWindow, history
  <2>3. \A w \in Windows : w >= Window(s) => admitted'[c][w] = 0
    BY <1>2, <1>3, <1>5, <1>6, <2>1, <2>2 DEF InWindow
  <2>4. \A w \in Windows : admitted'[c][w] <= 2 * Limit[c]
    BY <1>6, <2>2 DEF InWindow
  <2>5. admitted'[c][Window(s)] <= f.count + (IF Resetting(c)' THEN 0 ELSE Limit[c])
    BY <1>1, <1>3, <1>4, <2>1, <2>3
  <2> QED BY <1>18, <1>3, <1>5, <2>1, <2>3, <2>4, <2>5
<1>16. CASE CompareAndSwap(s)
  <2>1. IsAt(s, "cas") /\ UNCHANGED rejecting /\ ~IsAt(s, "reset")
    BY <1>16 DEF CompareAndSwap, IsAt
  <2>2. CASE e.count = call[s].seen
    <3>1. Admit(s) /\ Edits(s, [e EXCEPT !.count = @ + 1])
      BY <1>16, <2>2 DEF CompareAndSwap, Edits, LimiterTypes, HeapOK
    <3>2. e.count < Limit[c]
      BY <2>1, <2>2 DEF LimitInv
    <3> QED BY <1>12, <2>1, <3>1, <3>2
  <2>3. CASE e.count # call[s].seen
    <3>1. UNCHANGED <<heap, admitted>>
      BY <1>16, <2>3 DEF CompareAndSwap
    <3>2. ~IsAt(s, "reset")'
      BY <2>1, PcSteps DEF IsAt, StoreWindow
    <3> QED BY <1>11, <2>1, <3>1, <3>2
  <2> QED BY <2>2, <2>3
<1>17. CASE StoreCount(s)
  <2>1. Edits(s, [e EXCEPT !.count = 1, !.locked = FALSE])
    BY <1>17 DEF StoreCount, Edits, LimiterTypes, HeapOK
  <2> QED BY <1>13, <1>17, <2>1
<1>19. CASE Lock(s) \/ StoreWindow(s)
  <2>1. UNCHANGED admitted /\ ~IsAt(s, "reset")
    BY <1>19 DEF Lock, StoreWindow, history, IsAt
  <2>2. CASE StoreWindow(s) /\ e.start # Window(s)
    <3>1. Edits(s, [e EXCEPT !.start = Window(s)])
      BY <2>2 DEF StoreWindow, Edits, LimiterTypes, HeapOK
    <3> QED BY <1>14, <2>2, <3>1
  <2>3. CASE ~(StoreWindow(s) /\ e.start # Window(s))
    <3>1. \E b \in BOOLEAN : Edits(s, [e EXCEPT !.locked = b])
      BY <1>19, <2>3 DEF Lock, StoreWindow, Edits, LimiterTypes, HeapOK
    <3>2. f.start = e.start /\ f.count = e.count
      BY <1>1, <1>7, <3>1 DEF Entries
    <3>3. ~IsAt(s, "reset")'
      BY <2>3, PcSteps DEF IsAt
    <3> QED BY <1>11, <2>1, <3>2, <3>3
  <2> QED BY <2>2, <2>3
<1>20. CASE ~(CompareAndSwap(s) \/ StoreCount(s) \/ Lock(s) \/ StoreWindow(s))
  <2>1. UNCHANGED <<heap, admitted>> /\ ~IsAt(s, "reset")
    BY <1>20 DEF CheckStep, Pass, Reject, LoadWindow, LoadCount, history, IsAt
  <2>2. ~IsAt(s, "reset")'
    BY <1>20, PcSteps DEF IsAt
  <2> QED BY <1>11, <2>1, <2>2
<1> QED BY <1>16, <1>17, <1>19, <1>20

\* A counter that has no entry has let no request pass: none was evicted.
LEMMA OverrunLoad ==
  ASSUME LimiterTypes, OneEntry, InWindows, NEW s \in Slots, LoadOrCreate(s)
  PROVE  OneEntry' /\ InWindows'
<1> DEFINE c == Counter(s)
<1>1. UNCHANGED <<admitted, clock>> /\ c \in Counters
  BY LoadTypes DEF LoadOrCreate, history
<1>2. call \in [Slots -> Calls] /\ Len(heap) \in Nat /\ table \in [Counters -> 0..Len(heap)]
  BY LenProperties DEF LimiterTypes, CallsOK, HeapOK
<1>3. PICK e : /\ Moves(s, [call[s] EXCEPT !.pc = "try", !.entry = e])
               /\ \/ UNCHANGED <<heap, table>> /\ table[c] # Missing /\ e = table[c]
                  \/ /\ table[c] = Missing /\ e = Len(heap) + 1
                     /\ heap' = Append(heap, Fresh) /\ table' = [table EXCEPT ![c] = e]
  BY LoadTypes
<1>4. /\ call'[s].pc = "try" /\ call'[s].entry = e /\ call'[s].left = call[s].left
      /\ call'[s].now = call[s].now /\ \A t \in Slots \ {s} : call'[t] = call[t]
  BY <1>2, <1>3 DEF Moves, Calls
<1>5. IsAt(s, "next")
  BY DEF LoadOrCreate
<1>6. e \in Nat /\ table'[c] = e /\ \A d \in Counters \ {c} : table'[d] = table[d]
  BY <1>1, <1>2, <1>3
<1>7. \A d \in 1..Len(heap) : heap'[d] = heap[d]
  BY <1>1, <1>3, EntryAdded DEF LimiterTypes
<1>8. \A t \in Slots : Holds(t) => Loaded(t) \in 1..Len(heap) /\ Counter(t) \in Counters
  BY HeldTypes
<1>9. \A t \in Slots : Holds(t) => table'[Counter(t)] = Loaded(t)
  BY <1>1, <1>3, <1>6, <1>8 DEF OneEntry, Missing
\* A slot in its lock, or about to count, is not the one that loads.
<1>10. \A t \in Slots : ~IsAt(t, "try")' => t # s /\ call'[t] = call[t]
  BY <1>4 DEF IsAt
<1>11. OneEntry'
  <2>2. \A t \in Slots : Holds(t)' => table'[Counter(t)'] = Loaded(t)'
    BY <1>4, <1>6, <1>9 DEF Holds, Counter, Loaded
  <2>3. \A d, g \in Counters : table'[d] # Missing /\ table'[d] = table'[g] => d = g
    BY <1>1, <1>2, <1>3 DEF OneEntry, Missing
  <2>4. \A t \in Slots : Locked(t)' => /\ Locked(t) /\ Loaded(t)' = Loaded(t)
                                       /\ heap'[Loaded(t)'].locked
    BY <1>7, <1>8, <1>10 DEF Locked, IsAt, Holds, Holding, OneEntry, Loaded
  <2> QED BY <2>2, <2>3, <2>4 DEF OneEntry
<1>12. \A d \in Counters : StartOf(d)' = StartOf(d)
  <2> SUFFICES ASSUME NEW d \in Counters PROVE StartOf(d)' = StartOf(d)
    OBVIOUS
  <2>1. CASE table[c] = Missing /\ d = c /\ table'[c] = Len(heap) + 1
    <3>1. heap'[Len(heap) + 1] = Fresh
      BY <1>1, <1>3, <1>6, <2>1, EntryAdded DEF LimiterTypes, Missing
    <3> QED BY <1>2, <2>1, <3>1 DEF StartOf, Fresh, Missing
  <2>2. CASE table'[d] = table[d]
    BY <1>2, <1>7, <2>2 DEF StartOf, Missing
  <2> QED BY <1>3, <1>6, <2>1, <2>2
<1>13. \A d \in Counters : Resetting(d)' <=> Resetting(d)
  BY <1>4, <1>5 DEF Resetting, IsAt, Counter
<1>14. \A d \in Counters : InWindow(d)'
  <2> SUFFICES ASSUME NEW d \in Counters, NEW w \in Windows
               PROVE  /\ w > StartOf(d)' => admitted'[d][w] = 0
                      /\ admitted'[d][w] <= 2 * Limit[d]
                      /\ w = StartOf(d)' =>
                           admitted'[d][w] <= heap'[table'[d]].count
                                              + (IF Resetting(d)' THEN 0 ELSE Limit[d])
    BY DEF InWindow
  <2>1. w > 0 /\ w = StartOf(d) => table[d] # Missing
    BY LimiterAssumption DEF Windows, StartOf
  <2>2. table[d] # Missing => table'[d] = table[d] /\ heap'[table[d]] = heap[table[d]]
    BY <1>1, <1>2, <1>3, <1>7 DEF Missing
  <2>3. w > 0
    BY LimiterAssumption DEF Windows
  <2> QED BY <1>1, <1>12, <1>13, <2>1, <2>2, <2>3 DEF InWindows, InWindow
<1> QED BY <1>1, <1>11, <1>12, <1>14 DEF InWindows

\* No slot is at work when the clock ticks.
LEMMA OverrunClock ==
  ASSUME LimiterTypes, OneEntry, InWindows, evicted = 0, ~straggled', evicted' = 0,
         (\E c \in Counters : FindStaleEntry(c)) \/ EvictEntry \/ ClockTicks \/ UNCHANGED limiterVars
  PROVE  OneEntry' /\ InWindows'
<1>1. UNCHANGED <<heap, call, admitted>>
  BY ClockTypes
<1>2. UNCHANGED table
  BY DEF FindStaleEntry, EvictEntry, ClockTicks, limiterVars
<1>3. CASE UNCHANGED clock
  BY <1>1, <1>2, <1>3 DEF OneEntry, InWindows, InWindow, StartOf, Resetting, IsAt, Holds, Loaded, Counter,
     Locked
<1>4. CASE ClockTicks
  <2>1. \A s \in Slots : IsAt(s, "idle")
    BY <1>4 DEF ClockTicks
  <2>2. \A s \in Slots : ~Holds(s) /\ ~Locked(s)
    BY <2>1 DEF IsAt, Holds, Holding, Locked
  <2>3. OneEntry'
    BY <1>1, <1>2, <2>1, <2>2 DEF OneEntry, IsAt, Holds, Locked
  <2>4. \A c \in Counters : StartOf(c)' = StartOf(c) /\ InWindow(c)'
    BY <1>1, <1>2 DEF InWindows, InWindow, StartOf, Resetting, IsAt, Counter
  <2>5. \A c \in Counters : StartOf(c) <= WindowAt(c, clock')
    <3> SUFFICES ASSUME NEW c \in Counters PROVE StartOf(c) <= WindowAt(c, clock')
      OBVIOUS
    <3>1. clock \in Minutes /\ clock' = clock + 1 /\ clock + 1 \in Minutes
      BY <1>4, LimiterAssumption DEF ClockTicks, LimiterTypes, ClockOK, Minutes
    <3>2. StartOf(c) \in Nat
      <4>1. heap \in Seq(Entries) /\ table[c] \in 0..Len(heap)
        BY DEF LimiterTypes, HeapOK
      <4>2. table[c] # Missing => heap[table[c]] \in Entries
        BY <4>1, ElementOfSeq DEF Missing
      <4> QED BY <4>2 DEF StartOf, Entries
    <3>3. StartOf(c) <= WindowAt(c, clock) /\ WindowAt(c, clock) <= WindowAt(c, clock')
          /\ WindowAt(c, clock) \in Nat /\ WindowAt(c, clock') \in Nat
      BY <3>1, WindowsOfMinutes, LimiterAssumption DEF InWindows, Windows
    <3> QED BY <3>2, <3>3
  <2> QED BY <2>3, <2>4, <2>5 DEF InWindows
<1> QED BY <1>3, <1>4 DEF FindStaleEntry, EvictEntry, limiterVars

\* Steps of slots on their own counter, on the others, and of the clock.
LEMMA OverrunStep ==
  ASSUME LimiterTypes, LimitInv, OverrunInv, [LimiterNext]_limiterVars
  PROVE  OverrunInv'
<1> SUFFICES ASSUME ~straggled', evicted' = 0 PROVE OneEntry' /\ InWindows'
  BY DEF OverrunInv
<1>1. ~straggled /\ evicted = 0
  <2>1. straggled => straggled'
    BY DEF LimiterNext, CheckStep, BeginCheck, LoadOrCreate, Pass, Reject, LoadWindow, LoadCount, CompareAndSwap,
       Lock, StoreWindow, StoreCount, FindStaleEntry, EvictEntry, ClockTicks, history, limiterVars
  <2>2. evicted' = evicted \/ evicted' = evicted + 1
    BY DEF LimiterNext, CheckStep, BeginCheck, LoadOrCreate, Pass, Reject, LoadWindow, LoadCount, CompareAndSwap,
       Lock, StoreWindow, StoreCount, FindStaleEntry, EvictEntry, ClockTicks, limiterVars
  <2> QED BY <2>1, <2>2 DEF LimiterTypes, ClockOK
<1>2. OneEntry /\ InWindows /\ InMinute
  BY <1>1 DEF OverrunInv, LimitInv
<1>3. ASSUME NEW s \in Slots, BeginCheck(s) \/ (CheckStep(s) /\ ~LoadOrCreate(s))
      PROVE  OneEntry' /\ InWindows'
  <2>1. OneEntry'
    BY <1>2, <1>3, EntryStays
  <2>2. \A c \in Counters : InWindow(c)'
    <3> SUFFICES ASSUME NEW c \in Counters PROVE InWindow(c)'
      OBVIOUS
    <3>1. CASE Holds(s) /\ c = Counter(s)
      <4>1. ~BeginCheck(s)
        BY <3>1 DEF BeginCheck, Holds, Holding, IsAt
      <4> QED BY <1>2, <1>3, <3>1, <4>1, WindowStep
    <3>2. CASE ~(Holds(s) /\ c = Counter(s))
      <4>1. /\ StartOf(c)' = StartOf(c) /\ Resetting(c)' = Resetting(c)
            /\ admitted'[c] = admitted[c]
            /\ table[c] # Missing => heap'[table[c]] = heap[table[c]]
        BY <1>2, <1>3, <3>2, OtherCounters
      <4>2. UNCHANGED table
        BY <1>3, SlotTypes
      <4>3. \A w \in Windows : w = StartOf(c) => table[c] # Missing
        BY LimiterAssumption DEF Windows, StartOf
      <4> QED BY <1>2, <4>1, <4>2, <4>3 DEF InWindows, InWindow
    <3> QED BY <3>1, <3>2
  <2>3. UNCHANGED clock
    BY <1>3, SlotTypes
  <2> QED BY <1>2, <1>3, <2>1, <2>2, <2>3, WindowsStay DEF InWindows
<1>4. ASSUME NEW s \in Slots, LoadOrCreate(s) PROVE OneEntry' /\ InWindows'
  BY <1>2, <1>4, OverrunLoad
<1> QED BY <1>1, <1>2, <1>3, <1>4, OverrunClock DEF LimiterNext

\* A window lets at most twice its limit pass, as long as every request runs in the
\* minute it read and no entry is evicted (OverrunBounded of the run RateLimiter).
THEOREM OverrunsBounded == LimiterSpec => []OverrunBounded
<1>1. LimiterTypes /\ LimitInv /\ OverrunInv /\ [LimiterNext]_limiterVars => LimiterTypes' /\ LimitInv' /\ OverrunInv'
  BY SlotTypes, LoadTypes, ClockTypes, LimitStep, LimitLoad, LimitClock, OverrunStep DEF LimiterNext
<1>2. OverrunInv => OverrunBounded
  BY DEF OverrunInv, InWindows, InWindow, OverrunBounded
<1> QED BY LimiterStart, <1>1, <1>2, PTL DEF LimiterSpec
=============================================================================
