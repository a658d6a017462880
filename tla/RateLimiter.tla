----------------------------- MODULE RateLimiter -----------------------------
(***************************************************************************)
(* The in-memory request limiter (internal/ratelimit/rate_limiter.go).     *)
(* CheckRate takes a request through its counters, the minute and the day  *)
(* counter of its key, its team and its organisation, and tryIncrement     *)
(* resets or increments each of them.  The counters are atomics, so the    *)
(* actions below are single atomic operations of any number of goroutines. *)
(*                                                                         *)
(* The maps hold pointers.  EvictStale removes the entry of a window that  *)
(* has passed, and a goroutine that has loaded it goes on with it.         *)
(***************************************************************************)
EXTENDS Naturals, Sequences, FiniteSets

CONSTANTS
    Slots,         \* goroutines that call CheckRate
    Counters,      \* a counter is a scope with one of its two windows
    Limit,         \* Limit[c]: the limit of counter c
    Length,        \* Length[c]: minutes in a window of counter c
    Checks,        \* Checks[s]: the counters of slot s in the order of CheckRate
    LastMinute,    \* bound: the last minute of a behaviour
    MaxRequests,   \* bound: requests of a behaviour
    MaxEvicted     \* bound: entries evicted in a behaviour

ASSUME LimiterAssumption ==
    /\ Limit \in [Counters -> Nat \ {0}]    \* a limit of zero is not checked
    /\ Length \in [Counters -> Nat \ {0}]
    /\ Checks \in [Slots -> Seq(Counters)]
    /\ LastMinute \in Nat /\ MaxRequests \in Nat /\ MaxEvicted \in Nat

VARIABLES
    clock,     \* the minute
    table,     \* table[c]: the entry the map holds for c, or NoEntry
    heap,      \* the entries ever allocated
    call,      \* call[s]: the local state of slot s
    stale,     \* a counter EvictStale has found stale, or NoCounter
    requests,  \* requests so far
    evicted,   \* entries deleted so far
    admitted,  \* history: admitted[c][w], requests counter c let pass in window w
    rejecting, \* history: the rejections, each with its counter and window
    straggled  \* history: a request has outlived the minute it read

history     == <<admitted, rejecting, straggled>>
limiterVars == <<clock, table, heap, call, stale, requests, evicted, history>>

Missing   == 0
NoCounter == "none"

\* The window of a counter a minute is in; a fresh entry is in window 0.
WindowAt(c, t) == t \div Length[c] + 1
Windows        == 1..(LastMinute + 1)

Fresh == [start |-> 0, count |-> 0, locked |-> FALSE]

\* An idle slot, and the locals of CheckRate and tryIncrement.
NoCall == [pc |-> "idle", now |-> 0, left |-> <<>>, entry |-> Missing, seen |-> 0]

LimiterInit ==
    /\ clock = 0
    /\ table = [c \in Counters |-> Missing]
    /\ heap = <<>>
    /\ call = [s \in Slots |-> NoCall]
    /\ stale = NoCounter
    /\ requests = 0 /\ evicted = 0
    /\ admitted = [c \in Counters |-> [w \in Windows |-> 0]]
    /\ rejecting = {} /\ straggled = FALSE

IsAt(s, pc) == call[s].pc = pc
Loaded(s)   == call[s].entry
Counter(s)  == Head(call[s].left)
Window(s)   == WindowAt(Counter(s), call[s].now)
GoTo(s, pc) == call' = [call EXCEPT ![s].pc = pc]

\* A rejection is torn when the entry it read was between the two stores of a
\* rollover: its window is new and its count is still the old one.
Rolling(e)   == \E t \in Slots : IsAt(t, "reset") /\ Loaded(t) = e
Rejection(s) == [counter |-> Counter(s), window |-> Window(s), torn |-> Rolling(Loaded(s))]
-----------------------------------------------------------------------------
\* CheckRate reads the clock once, for every window of every scope.
BeginCheck(s) ==
    /\ IsAt(s, "idle") /\ requests < MaxRequests
    /\ requests' = requests + 1
    /\ call' = [call EXCEPT ![s] = [NoCall EXCEPT !.pc = "next", !.now = clock,
                                                  !.left = Checks[s]]]
    /\ UNCHANGED <<clock, table, heap, stale, evicted, history>>

\* loadOrCreate: the entry of the next counter, a new one if the map has none.
LoadOrCreate(s) ==
    /\ IsAt(s, "next") /\ call[s].left # <<>>
    /\ LET c   == Counter(s)
           new == table[c] = Missing
           e   == IF new THEN Len(heap) + 1 ELSE table[c]
       IN  /\ heap' = IF new THEN Append(heap, Fresh) ELSE heap
           /\ table' = [table EXCEPT ![c] = e]
           /\ call' = [call EXCEPT ![s].pc = "try", ![s].entry = e]
    /\ UNCHANGED <<clock, stale, requests, evicted, history>>

\* Every counter let the request pass: CheckRate returns nil.
Pass(s) ==
    /\ IsAt(s, "next") /\ call[s].left = <<>>
    /\ call' = [call EXCEPT ![s] = NoCall]
    /\ UNCHANGED <<clock, table, heap, stale, requests, evicted, history>>

\* The counter has let the request pass; on to the next one.
Admit(s) ==
    /\ call' = [call EXCEPT ![s].pc = "next", ![s].left = Tail(@), ![s].entry = Missing]
    /\ admitted' = [admitted EXCEPT ![Counter(s)][Window(s)] = @ + 1]

\* tryIncrement: entry.windowStart.Load().
LoadWindow(s) ==
    /\ IsAt(s, "try")
    /\ GoTo(s, IF heap[Loaded(s)].start = Window(s) THEN "count" ELSE "lock")
    /\ UNCHANGED <<clock, table, heap, stale, requests, evicted, history>>

\* entry.count.Load(), in the window that was current a step ago.
LoadCount(s) ==
    /\ IsAt(s, "count") /\ heap[Loaded(s)].count < Limit[Counter(s)]
    /\ call' = [call EXCEPT ![s].pc = "cas", ![s].seen = heap[Loaded(s)].count]
    /\ UNCHANGED <<clock, table, heap, stale, requests, evicted, history>>

\* Mutant of Reject: one below the limit.
RejectEarly(s) ==
    /\ IsAt(s, "count") /\ heap[Loaded(s)].count >= Limit[Counter(s)] - 1
    /\ call' = [call EXCEPT ![s] = NoCall]
    /\ rejecting' = rejecting \cup {Rejection(s)}
    /\ UNCHANGED <<clock, table, heap, stale, requests, evicted, admitted, straggled>>

\* At the limit: ErrRateLimitExceeded.  Counters that have already let the
\* request pass keep their increments.
Reject(s) ==
    /\ IsAt(s, "count") /\ heap[Loaded(s)].count >= Limit[Counter(s)]
    /\ call' = [call EXCEPT ![s] = NoCall]
    /\ rejecting' = rejecting \cup {Rejection(s)}
    /\ UNCHANGED <<clock, table, heap, stale, requests, evicted, admitted, straggled>>

\* Mutant of CompareAndSwap: a plain Add.
PlainAdd(s) ==
    /\ IsAt(s, "cas")
    /\ heap' = [heap EXCEPT ![Loaded(s)].count = @ + 1]
    /\ Admit(s)
    /\ UNCHANGED <<clock, table, stale, requests, evicted, rejecting, straggled>>

CompareAndSwap(s) ==
    /\ IsAt(s, "cas")
    /\ IF heap[Loaded(s)].count = call[s].seen
       THEN /\ heap' = [heap EXCEPT ![Loaded(s)].count = @ + 1]
            /\ Admit(s)
       ELSE /\ GoTo(s, "try")
            /\ UNCHANGED <<heap, admitted>>
    /\ UNCHANGED <<clock, table, stale, requests, evicted, rejecting, straggled>>

Lock(s) ==
    /\ IsAt(s, "lock") /\ ~heap[Loaded(s)].locked
    /\ heap' = [heap EXCEPT ![Loaded(s)].locked = TRUE]
    /\ GoTo(s, "rollover")
    /\ UNCHANGED <<clock, table, stale, requests, evicted, history>>

\* Mutants of StoreWindow: the window is not read again under the lock; the
\* lock is not released on the way back.
StoreUnchecked(s) ==
    /\ IsAt(s, "rollover")
    /\ heap' = [heap EXCEPT ![Loaded(s)].start = Window(s)]
    /\ GoTo(s, "reset")
    /\ UNCHANGED <<clock, table, stale, requests, evicted, history>>
StoreLocked(s) ==
    /\ IsAt(s, "rollover")
    /\ heap' = [heap EXCEPT ![Loaded(s)].start = Window(s)]
    /\ GoTo(s, IF heap[Loaded(s)].start # Window(s) THEN "reset" ELSE "try")
    /\ UNCHANGED <<clock, table, stale, requests, evicted, history>>

\* Under the lock: the first to roll over stores the window, and any other goes
\* back to the same-window path.
StoreWindow(s) ==
    /\ IsAt(s, "rollover")
    /\ IF heap[Loaded(s)].start # Window(s)
       THEN /\ heap' = [heap EXCEPT ![Loaded(s)].start = Window(s)]
            /\ GoTo(s, "reset")
       ELSE /\ heap' = [heap EXCEPT ![Loaded(s)].locked = FALSE]
            /\ GoTo(s, "try")
    /\ UNCHANGED <<clock, table, stale, requests, evicted, history>>

\* The count of the old window is overwritten, and the lock released.
StoreCount(s) ==
    /\ IsAt(s, "reset")
    /\ heap' = [heap EXCEPT ![Loaded(s)].count = 1, ![Loaded(s)].locked = FALSE]
    /\ Admit(s)
    /\ UNCHANGED <<clock, table, stale, requests, evicted, rejecting, straggled>>
-----------------------------------------------------------------------------
\* EvictStale: Range finds an entry of an earlier window ...
FindStaleEntry(c) ==
    /\ stale = NoCounter /\ evicted < MaxEvicted
    /\ table[c] # Missing /\ heap[table[c]].start < WindowAt(c, clock)
    /\ stale' = c
    /\ UNCHANGED <<clock, table, heap, call, requests, evicted, history>>

\* ... and deletes what the map holds for its key by then.
EvictEntry ==
    /\ stale # NoCounter
    /\ table' = [table EXCEPT ![stale] = Missing]
    /\ stale' = NoCounter
    /\ evicted' = evicted + 1
    /\ UNCHANGED <<clock, heap, call, requests, history>>

ClockTicks ==
    /\ clock < LastMinute
    /\ clock' = clock + 1
    /\ straggled' = (straggled \/ \E s \in Slots : ~IsAt(s, "idle"))
    /\ UNCHANGED <<table, heap, call, stale, requests, evicted, admitted, rejecting>>

CheckStep(s) == \/ LoadOrCreate(s) \/ Pass(s) \/ LoadWindow(s) \/ LoadCount(s)
                \/ Reject(s) \/ CompareAndSwap(s) \/ Lock(s) \/ StoreWindow(s)
                \/ StoreCount(s)

LimiterNext ==
    \/ \E s \in Slots : BeginCheck(s) \/ CheckStep(s)
    \/ \E c \in Counters : FindStaleEntry(c)
    \/ EvictEntry \/ ClockTicks

LimiterSpec == LimiterInit /\ [][LimiterNext]_limiterVars

\* Goroutines are scheduled; a mutex is granted to a waiter in the end.
CheckFairness == \A s \in Slots : WF_limiterVars(CheckStep(s))
-----------------------------------------------------------------------------
\* Whatever increments race, the count a counter's map entry shows never
\* passes its limit.
CountWithinLimit ==
    \A c \in Counters : table[c] # Missing => heap[table[c]].count <= Limit[c]

(***************************************************************************)
(* A counter turns a request away only after it has let its limit pass in  *)
(* that window.  The exceptions: a rejection between the two stores of a   *)
(* rollover, which RejectsWhenExceeded is about, and requests that outlive *)
(* the minute they read, whose window is not the one of the entry.         *)
(***************************************************************************)
RejectedOnlyAtLimit ==
    ~straggled =>
        \A x \in rejecting : ~x.torn => admitted[x.counter][x.window] >= Limit[x.counter]

\* Compare, then increment, under contention, resets and eviction: a count never
\* passes its limit, and a request is turned away for a limit that is used up
\* (tryIncrement, for all but torn reads).
LimitExact == CountWithinLimit /\ RejectedOnlyAtLimit

(***************************************************************************)
(* "Take the lock so that windowStart and the reset count are updated as a *)
(* single visible transition" (rate_limiter.go:151-152) and "returns       *)
(* ErrRateLimitExceeded if any limit is exceeded" (:50): a request is      *)
(* turned away only when its limit is used up, counting those that have    *)
(* only their own reset left to do.                                        *)
(***************************************************************************)
Resets(c, w) == {s \in Slots : IsAt(s, "reset") /\ Counter(s) = c /\ Window(s) = w}
RejectsWhenExceeded ==
    ~straggled =>
        \A x \in rejecting :
            admitted[x.counter][x.window] + Cardinality(Resets(x.counter, x.window))
                >= Limit[x.counter]

(***************************************************************************)
(* The lock-free path reads a window and increments a count that a reset   *)
(* is about to overwrite, so that a window may let more than its limit     *)
(* pass.  As long as every request runs in the minute it read and no entry *)
(* is evicted the damage is bounded: the lock admits one reset in each     *)
(* window, hence never more than twice the limit.                          *)
(***************************************************************************)
OverrunBounded ==
    ~straggled /\ evicted = 0 =>
        \A c \in Counters, w \in Windows : admitted[c][w] <= 2 * Limit[c]

\* tryIncrement's retry loop ends and its lock is always given back.
ChecksEnd == \A s \in Slots : IsAt(s, "next") ~> IsAt(s, "idle")
=============================================================================
