---------------------------- MODULE TokenCounter ----------------------------
(***************************************************************************)
(* The token budgets (internal/ratelimit/token_counter.go) of one process: *)
(* CheckTokens when a request arrives, Add when its usage is logged, Seed  *)
(* from the usage_events table when the process starts, and EvictStale.    *)
(* Every request uses one token.                                           *)
(*                                                                         *)
(* The counters are atomics; an action is one atomic operation of one of   *)
(* the goroutines.  A fresh entry is in no window, so the very first Add   *)
(* is a reset like the first one of every later window.                    *)
(***************************************************************************)
EXTENDS Integers, Sequences, FiniteSets, SequencesExt

CONSTANTS
    Slots,         \* goroutines that serve requests
    Counters,      \* a counter is a scope with one of its two windows
    Limit,         \* Limit[c]: the budget of counter c, 0 for none
    Length,        \* Length[c]: days in a window of counter c
    Scopes,        \* Scopes[s]: the counters of slot s in the order of the code
    MaxDay,        \* bound: the last day of a behaviour
    MaxRequests,   \* bound: requests of a behaviour
    MaxEvictions,  \* bound: entries evicted in a behaviour
    MaxCrashes     \* bound: crashes of a behaviour

VARIABLES
    day,       \* the clock
    entries,   \* entries[c]: the entry the map holds for c, or NoEntry
    heap,      \* the entries of this process
    call,      \* call[s]: the local state of slot s
    evicting,  \* a counter EvictStale has found stale, or NoCounter
    buffer,    \* the usage logger: events that are not written yet
    rows,      \* usage_events: [scopes, day] of each event
    tally,     \* [requests, evictions, crashes] so far
    owed,      \* history: what each counter should show in this window
    raced,     \* history: how much of it was added while the entry was reset
    lost,      \* history: what earlier processes had raced in this window
    upset      \* history: a request outlived the day it read, an entry in use
               \* was evicted, or an event was written on a later day

(***************************************************************************)
(* A request has different scopes, and a window is some days long.  The    *)
(* limit 0 stands for all that are not positive: none of them is a limit.  *)
(***************************************************************************)
TokenAssumption ==
    /\ IsFiniteSet(Slots) /\ IsFiniteSet(Counters) /\ "none" \notin Counters
    /\ Limit \in [Counters -> Nat] /\ Length \in [Counters -> Nat \ {0}]
    /\ Scopes \in [Slots -> Seq(Counters)] /\ \A s \in Slots : IsInjective(Scopes[s])
    /\ MaxDay \in Nat

tokenVars == <<day, entries, heap, call, evicting, buffer, rows, tally, owed, raced, lost, upset>>

NoEntry   == 0
NoCounter == "none"
Fresh     == [start |-> 0, tokens |-> 0, locked |-> FALSE]
Idle      == [pc |-> "idle", now |-> 0, left |-> <<>>, entry |-> NoEntry]

WindowAt(c, d) == d \div Length[c] + 1

At(s, pc)  == call[s].pc = pc
The(s)     == call[s].entry
Counter(s) == Head(call[s].left)
Window(s)  == WindowAt(Counter(s), call[s].now)

Becomes(s, pc) == call' = [call EXCEPT ![s].pc = pc]
\* On to the next counter, in the check or in the addition.
NextCounter(s, pc) ==
    call' = [call EXCEPT ![s] = [@ EXCEPT !.pc = pc, !.left = Tail(call[s].left), !.entry = NoEntry]]

counters == <<entries, heap>>
outside  == <<day, evicting, buffer, rows>>
histories == <<owed, raced, lost, upset>>
-----------------------------------------------------------------------------
(* CheckTokens, by checkLimits of the handler.                             *)

CheckTokens(s) ==
    /\ At(s, "idle") /\ tally.requests < MaxRequests
    /\ tally' = [tally EXCEPT !.requests = @ + 1]
    /\ call' = [call EXCEPT ![s] = [Idle EXCEPT !.pc = "check", !.now = day, !.left = Scopes[s]]]
    /\ UNCHANGED <<counters, outside, histories>>

Unlimited(c) == Limit[c] = 0

\* getCount, unless there is no limit: a scope without an entry has used nothing.
FindEntry(s) ==
    /\ At(s, "check") /\ call[s].left # <<>>
    /\ IF Unlimited(Counter(s)) \/ entries[Counter(s)] = NoEntry THEN NextCounter(s, "check")
       ELSE call' = [call EXCEPT ![s] = [@ EXCEPT !.pc = "window", !.entry = entries[Counter(s)]]]
    /\ UNCHANGED <<counters, outside, tally, histories>>

\* ... and neither has one whose entry is of another window.
ReadWindow(s) ==
    /\ At(s, "window")
    /\ IF heap[The(s)].start = Window(s) THEN Becomes(s, "tokens") ELSE NextCounter(s, "check")
    /\ UNCHANGED <<counters, outside, tally, histories>>

\* Mutant of Exhausted: one request too many.
ExhaustedLate(s) == heap[The(s)].tokens > Limit[Counter(s)]
Exhausted(s) == heap[The(s)].tokens >= Limit[Counter(s)]

ReadTokens(s) ==
    /\ At(s, "tokens")
    /\ IF Exhausted(s) THEN call' = [call EXCEPT ![s] = Idle] ELSE NextCounter(s, "check")
    /\ UNCHANGED <<counters, outside, tally, histories>>

\* No budget is exhausted: the request is served.
Serve(s) ==
    /\ At(s, "check") /\ call[s].left = <<>>
    /\ Becomes(s, "serving")
    /\ UNCHANGED <<counters, outside, tally, histories>>
-----------------------------------------------------------------------------
(* Add, by the usage logger's Log, before the event is queued.            *)

LogUsage(s) ==
    /\ At(s, "serving")
    /\ call' = [call EXCEPT ![s] = [Idle EXCEPT !.pc = "add", !.now = day, !.left = Scopes[s]]]
    /\ UNCHANGED <<counters, outside, tally, histories>>

\* loadOrCreateToken.
LoadOrCreate(s) ==
    /\ At(s, "add") /\ call[s].left # <<>>
    /\ LET c   == Counter(s)
           new == entries[c] = NoEntry
           e   == IF new THEN Len(heap) + 1 ELSE entries[c]
       IN  /\ heap' = IF new THEN Append(heap, Fresh) ELSE heap
           /\ entries' = [entries EXCEPT ![c] = e]
           /\ call' = [call EXCEPT ![s] = [@ EXCEPT !.pc = "try", !.entry = e]]
    /\ UNCHANGED <<outside, tally, histories>>

\* addToScope: same window, or not.
TryWindow(s) ==
    /\ At(s, "try")
    /\ Becomes(s, IF heap[The(s)].start = Window(s) THEN "same" ELSE "lock")
    /\ UNCHANGED <<counters, outside, tally, histories>>

Resetting(e) == \E s \in Slots : At(s, "reset") /\ The(s) = e

Owe(s) ==
    /\ owed' = [owed EXCEPT ![Counter(s)] = @ + 1]
    /\ raced' = [raced EXCEPT ![Counter(s)] = IF Resetting(The(s)) THEN @ + 1 ELSE @]
    /\ UNCHANGED <<lost, upset>>

AddTokens(s) ==
    /\ At(s, "same")
    /\ heap' = [heap EXCEPT ![The(s)].tokens = @ + 1]
    /\ NextCounter(s, "add") /\ Owe(s)
    /\ UNCHANGED <<entries, outside, tally>>

Lock(s) ==
    /\ At(s, "lock") /\ ~heap[The(s)].locked
    /\ heap' = [heap EXCEPT ![The(s)].locked = TRUE]
    /\ Becomes(s, "rollover")
    /\ UNCHANGED <<entries, outside, tally, histories>>

\* Under the lock: the first one resets, any other one starts again.
StoreWindow(s) ==
    /\ At(s, "rollover")
    /\ IF heap[The(s)].start # Window(s)
       THEN heap' = [heap EXCEPT ![The(s)].start = Window(s)] /\ Becomes(s, "reset")
       ELSE heap' = [heap EXCEPT ![The(s)].locked = FALSE] /\ Becomes(s, "try")
    /\ UNCHANGED <<entries, outside, tally, histories>>

\* What others have added since the window was stored is overwritten.
StoreTokens(s) ==
    /\ At(s, "reset")
    /\ heap' = [heap EXCEPT ![The(s)].tokens = 1, ![The(s)].locked = FALSE]
    /\ NextCounter(s, "add")
    /\ owed' = [owed EXCEPT ![Counter(s)] = @ + 1]
    /\ UNCHANGED <<entries, outside, tally, raced, lost, upset>>

\* Every counter is charged; the channel takes the event, or drops it.
Queue(s) ==
    /\ At(s, "add") /\ call[s].left = <<>>
    /\ buffer' \in {buffer, Append(buffer, [scopes |-> Scopes[s], day |-> call[s].now])}
    /\ call' = [call EXCEPT ![s] = Idle]
    /\ UNCHANGED <<counters, day, evicting, rows, tally, histories>>

AddStep(s) == LoadOrCreate(s) \/ TryWindow(s) \/ AddTokens(s) \/ Lock(s)
              \/ StoreWindow(s) \/ StoreTokens(s) \/ Queue(s)
-----------------------------------------------------------------------------
(* The usage_events table; a row's created_at is the time of its insert.   *)

Flush ==
    /\ buffer # <<>>
    /\ rows' = rows \o [i \in DOMAIN buffer |-> [scopes |-> buffer[i].scopes, day |-> day]]
    /\ buffer' = <<>>
    /\ upset' = (upset \/ \E i \in DOMAIN buffer : buffer[i].day # day)
    /\ UNCHANGED <<day, counters, call, evicting, tally, owed, raced, lost>>

\* Mutant of Seeds: the rows of the day, for the months as well.
SeedsOfToday(row, c) == row.day = day /\ \E i \in DOMAIN row.scopes : row.scopes[i] = c
\* QueryUsageSeed since the start of the window, row by row.
Seeds(row, c) ==
    /\ WindowAt(c, row.day) = WindowAt(c, day)
    /\ \E i \in DOMAIN row.scopes : row.scopes[i] = c
Seeded(c) == Cardinality({i \in DOMAIN rows : Seeds(rows[i], c)})

SeededEntry(c) == [start |-> WindowAt(c, day), tokens |-> Seeded(c), locked |-> FALSE]

\* What was used, by the rows.
Used(c) == Cardinality({i \in DOMAIN rows :
               Contains(rows[i].scopes, c) /\ rows[i].day \div Length[c] = day \div Length[c]})

\* The process ends, without its buffer, and another one seeds its counters
\* before it serves.
Restart ==
    /\ tally.crashes < MaxCrashes
    /\ tally' = [tally EXCEPT !.crashes = @ + 1]
    /\ LET used == SetToSeq({c \in Counters : Seeded(c) > 0}) IN
       /\ heap' = [i \in DOMAIN used |-> SeededEntry(used[i])]
       /\ entries' = [c \in Counters |->
              IF Contains(used, c) THEN CHOOSE i \in DOMAIN used : used[i] = c ELSE NoEntry]
    /\ call' = [s \in Slots |-> Idle]
    /\ evicting' = NoCounter /\ buffer' = <<>>
    /\ owed' = [c \in Counters |-> Used(c)]
    /\ raced' = [c \in Counters |-> 0]
    /\ lost' = [c \in Counters |-> lost[c] + raced[c]]
    /\ UNCHANGED <<day, rows, upset>>
-----------------------------------------------------------------------------

\* EvictStale: Range finds an entry of an earlier window ...
FindStale(c) ==
    /\ evicting = NoCounter /\ tally.evictions < MaxEvictions
    /\ entries[c] # NoEntry /\ heap[entries[c]].start < WindowAt(c, day)
    /\ evicting' = c
    /\ UNCHANGED <<day, counters, call, buffer, rows, tally, histories>>

\* ... and deletes what the map holds for it by then.
Evict ==
    /\ evicting # NoCounter
    /\ entries' = [entries EXCEPT ![evicting] = NoEntry]
    /\ evicting' = NoCounter
    /\ tally' = [tally EXCEPT !.evictions = @ + 1]
    /\ LET e == entries[evicting] IN
       upset' = (upset \/ \/ heap[e].start = WindowAt(evicting, day)
                          \/ \E s \in Slots : The(s) = e)
    /\ UNCHANGED <<day, heap, call, buffer, rows, owed, raced, lost>>

NextDay ==
    /\ day < MaxDay
    /\ day' = day + 1
    /\ LET same(c) == WindowAt(c, day) = WindowAt(c, day + 1) IN
       /\ owed' = [c \in Counters |-> IF same(c) THEN owed[c] ELSE 0]
       /\ raced' = [c \in Counters |-> IF same(c) THEN raced[c] ELSE 0]
       /\ lost' = [c \in Counters |-> IF same(c) THEN lost[c] ELSE 0]
    /\ upset' = (upset \/ \E s \in Slots : call[s].pc \notin {"idle", "serving"})
    /\ UNCHANGED <<counters, call, evicting, buffer, rows, tally>>

TokenInit ==
    /\ day = 0
    /\ entries = [c \in Counters |-> NoEntry] /\ heap = <<>>
    /\ call = [s \in Slots |-> Idle] /\ evicting = NoCounter
    /\ buffer = <<>> /\ rows = <<>>
    /\ tally = [requests |-> 0, evictions |-> 0, crashes |-> 0]
    /\ owed = [c \in Counters |-> 0] /\ raced = [c \in Counters |-> 0]
    /\ lost = [c \in Counters |-> 0] /\ upset = FALSE

TokenNext ==
    \/ \E s \in Slots : \/ CheckTokens(s) \/ FindEntry(s) \/ ReadWindow(s) \/ ReadTokens(s)
                        \/ Serve(s) \/ LogUsage(s) \/ AddStep(s)
    \/ \E c \in Counters : FindStale(c)
    \/ Flush \/ Restart \/ Evict \/ NextDay

TokenSpec == TokenInit /\ [][TokenNext]_tokenVars
-----------------------------------------------------------------------------
Shown(c) == IF entries[c] # NoEntry /\ heap[entries[c]].start = WindowAt(c, day)
            THEN heap[entries[c]].tokens ELSE 0
Checking(s) == call[s].pc \in {"check", "window", "tokens"}
Charging(s) == call[s].pc \in {"add", "try", "same", "lock", "rollover", "reset"}

\* The requests that have found room in c's budget and have not been charged yet.
Admitted(c) == {s \in Slots : /\ Contains(Scopes[s], c)
                              /\ \/ Checking(s) /\ ~Contains(call[s].left, c)
                                 \/ At(s, "serving")
                                 \/ Charging(s) /\ Contains(call[s].left, c)}
Settled(c) == entries[c] = NoEntry \/ ~Resetting(entries[c])

\* Unless a request ran over midnight, an event was written after it, or an entry
\* in use was evicted: a counter shows what was used in its window, by this
\* process or, according to the table, by the ones before it.  Only what was
\* added in the two steps of a reset may be missing.
BudgetRemembered ==
    ~upset => \A c \in Counters :
        Settled(c) => owed[c] - raced[c] <= Shown(c) /\ Shown(c) <= owed[c]

\* The budget is compared at arrival and charged at the end: it is exceeded by
\* the requests that were served at once and by what a reset has lost, in this
\* process or in one before it, and never by more.
OverspendBounded ==
    ~upset => \A c \in Counters :
        Limit[c] > 0 => owed[c] + Cardinality(Admitted(c))
                            <= Limit[c] - 1 + Cardinality(Slots) + raced[c] + lost[c]

BudgetsKept == BudgetRemembered /\ OverspendBounded
=============================================================================
