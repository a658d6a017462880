----------------------------- MODULE UsageLogger -----------------------------
(***************************************************************************)
(* The asynchronous usage log (internal/usage/logger.go): request handlers *)
(* hand events to a bounded channel, one background goroutine collects     *)
(* them in a batch, inserts the batch in one transaction and adds it to    *)
(* the hourly rollup rows, one upsert for each bucket.                     *)
(*                                                                         *)
(* An event is named by an element of Events and logged at most once, so   *)
(* that an event stored twice or lost can be told.  The process may be     *)
(* killed between any two steps (a second signal calls os.Exit): what is   *)
(* in memory is gone, what the database has stays.                         *)
(***************************************************************************)
EXTENDS Naturals, Sequences, FiniteSets

CONSTANTS
    Events,       \* the usage events of a behaviour
    Bucket,       \* Bucket[e]: the (key, model, hour) row e is added to
    BufferSize,   \* capacity of the channel, and the batch size
    DropOnFull,   \* whether Log drops an event when the channel is full
    MaxFailures   \* bound: database failures in a behaviour

Buckets == {Bucket[e] : e \in Events}

ASSUME UsageAssumption ==
    /\ Bucket \in [Events -> Buckets]
    /\ IsFiniteSet(Events)
    /\ BufferSize \in Nat \ {0}     \* NewLogger replaces anything else by 1000
    /\ DropOnFull \in BOOLEAN
    /\ MaxFailures \in Nat

VARIABLES
    caller,    \* caller[e]: how far Log(e) is
    events,    \* the channel
    batch,     \* the background goroutine's batch
    runner,    \* where its loop is: "select", "drain", "stopped" or "killed"
    flushing,  \* where flush is: "no", "insert" or "rollup"
    todo,      \* buckets flush has still to upsert
    done,      \* Stop has closed the done channel
    table,     \* rows of usage_events, in the order they were inserted
    rollup,    \* rollup[b]: request_count of the usage_hourly row b
    failures,  \* database failures so far
    sent,      \* history: the events the channel accepted, in order
    flushed,   \* history: the events flush was called with, in order
    timely,    \* history: what the channel had accepted when Stop was called
    discarded  \* history: the events of batches whose insert was rolled back

memory  == <<events, batch, flushing, todo>>
store   == <<table, rollup, failures>>
history == <<sent, flushed, timely, discarded>>
vars    == <<caller, memory, runner, done, store, history>>

Elements(s)  == {s[i] : i \in 1..Len(s)}
CountIn(s, b) == Cardinality({i \in 1..Len(s) : Bucket[s[i]] = b})

TypeOK ==
    /\ caller \in [Events -> {"new", "counted", "sent", "dropped"}]
    /\ events \in Seq(Events) /\ Len(events) <= BufferSize
    /\ batch \in Seq(Events)
    /\ runner \in {"select", "drain", "stopped", "killed"}
    /\ flushing \in {"no", "insert", "rollup"}
    /\ todo \subseteq Buckets
    /\ done \in BOOLEAN
    /\ table \in Seq(Events)
    /\ rollup \in [Buckets -> Nat]
    /\ failures \in 0..MaxFailures
    /\ sent \in Seq(Events) /\ flushed \in Seq(Events) /\ timely \in Seq(Events)
    /\ discarded \subseteq Events

Init ==
    /\ caller = [e \in Events |-> "new"]
    /\ events = <<>> /\ batch = <<>>
    /\ runner = "select" /\ flushing = "no" /\ todo = {}
    /\ done = FALSE
    /\ table = <<>> /\ rollup = [b \in Buckets |-> 0] /\ failures = 0
    /\ sent = <<>> /\ flushed = <<>> /\ timely = <<>> /\ discarded = {}

Alive == runner # "killed"
-----------------------------------------------------------------------------
(* Log, called by a request handler.                                       *)

\* The tokens are added to the in-memory counter first.
Count(e) ==
    /\ Alive /\ caller[e] = "new"
    /\ caller' = [caller EXCEPT ![e] = "counted"]
    /\ UNCHANGED <<memory, runner, done, store, history>>

\* Mutants of Enqueue: without the bound, and with one slot always left free.
EnqueueAnyway(e) ==
    /\ Alive /\ caller[e] = "counted"
    /\ caller' = [caller EXCEPT ![e] = "sent"]
    /\ events' = Append(events, e)
    /\ sent' = Append(sent, e)
    /\ UNCHANGED <<batch, flushing, todo, runner, done, store, flushed, timely, discarded>>
EnqueueEarly(e) == Len(events) + 1 < BufferSize /\ EnqueueAnyway(e)

\* The channel has room, stopped goroutine or not.
Enqueue(e) ==
    /\ Alive /\ caller[e] = "counted" /\ Len(events) < BufferSize
    /\ caller' = [caller EXCEPT ![e] = "sent"]
    /\ events' = Append(events, e)
    /\ sent' = Append(sent, e)
    /\ UNCHANGED <<batch, flushing, todo, runner, done, store, flushed, timely, discarded>>

\* It has none: the select's default, unless Log is told to block.
Drop(e) ==
    /\ Alive /\ caller[e] = "counted" /\ Len(events) >= BufferSize /\ DropOnFull
    /\ caller' = [caller EXCEPT ![e] = "dropped"]
    /\ UNCHANGED <<memory, runner, done, store, history>>
-----------------------------------------------------------------------------
(* The background goroutine.                                               *)

\* flush is called with the batch; it returns at once when that is empty.
BeginFlush(b) == flushing' = IF b = <<>> THEN "no" ELSE "insert"

Receive ==
    /\ runner = "select" /\ flushing = "no" /\ events # <<>>
    /\ batch' = Append(batch, Head(events))
    /\ events' = Tail(events)
    /\ flushing' = IF Len(batch') >= BufferSize THEN "insert" ELSE "no"
    /\ UNCHANGED <<caller, todo, runner, done, store, history>>

Tick ==
    /\ runner = "select" /\ flushing = "no" /\ batch # <<>>
    /\ BeginFlush(batch)
    /\ UNCHANGED <<caller, events, batch, todo, runner, done, store, history>>

\* The select may take any ready case, so this may come before, between or
\* after the receives of events that were there when Stop was called.
SeeDone ==
    /\ runner = "select" /\ flushing = "no" /\ done
    /\ runner' = "drain"
    /\ UNCHANGED <<caller, memory, done, store, history>>

DrainReceive ==
    /\ runner = "drain" /\ flushing = "no" /\ events # <<>>
    /\ batch' = Append(batch, Head(events))
    /\ events' = Tail(events)
    /\ UNCHANGED <<caller, flushing, todo, runner, done, store, history>>

\* Mutant of DrainEnds: the goroutine exits without the last flush.
DrainUnflushed ==
    /\ runner = "drain" /\ flushing = "no" /\ events = <<>>
    /\ runner' = "stopped"
    /\ UNCHANGED <<caller, memory, done, store, history>>

\* The inner select's default: one last flush, and the goroutine exits.
DrainEnds ==
    /\ runner = "drain" /\ flushing = "no" /\ events = <<>>
    /\ BeginFlush(batch)
    /\ runner' = IF batch = <<>> THEN "stopped" ELSE "drain"
    /\ UNCHANGED <<caller, events, batch, todo, done, store, history>>

\* Mutant of Returned: the batch is not reset.
ReturnedUnreset ==
    /\ flushing' = "no"
    /\ UNCHANGED batch
    /\ runner' = IF runner = "drain" THEN "stopped" ELSE runner

\* flush returned: the batch is reset whether it was stored or not.
Returned ==
    /\ flushing' = "no"
    /\ batch' = <<>>
    /\ runner' = IF runner = "drain" THEN "stopped" ELSE runner

\* The transaction commits with every event of the batch.
InsertCommits ==
    /\ Alive /\ flushing = "insert"
    /\ table' = table \o batch
    /\ flushed' = flushed \o batch
    /\ flushing' = "rollup"
    /\ todo' = {Bucket[e] : e \in Elements(batch)}
    /\ UNCHANGED <<caller, events, batch, runner, done, rollup, failures, sent, timely,
                   discarded>>

\* Mutant of InsertFails: the failed batch is added to the rollup rows.
InsertFailsQuietly ==
    /\ Alive /\ flushing = "insert" /\ failures < MaxFailures
    /\ failures' = failures + 1
    /\ flushed' = flushed \o batch
    /\ discarded' = discarded \cup Elements(batch)
    /\ flushing' = "rollup"
    /\ todo' = {Bucket[e] : e \in Elements(batch)}
    /\ UNCHANGED <<caller, events, batch, runner, done, table, rollup, sent, timely>>

\* It rolls back with all of them: the batch is logged as failed, and gone.
InsertFails ==
    /\ Alive /\ flushing = "insert" /\ failures < MaxFailures
    /\ failures' = failures + 1
    /\ flushed' = flushed \o batch
    /\ discarded' = discarded \cup Elements(batch)
    /\ Returned
    /\ UNCHANGED <<caller, events, todo, done, table, rollup, sent, timely>>

\* One UpsertUsageHourly; a failure is logged and the loop goes on.
Upsert(b) ==
    /\ Alive /\ flushing = "rollup" /\ b \in todo
    /\ todo' = todo \ {b}
    /\ \/ /\ rollup' = [rollup EXCEPT ![b] = @ + CountIn(batch, b)]
          /\ UNCHANGED failures
       \/ /\ failures < MaxFailures /\ failures' = failures + 1
          /\ UNCHANGED rollup
    /\ UNCHANGED <<caller, events, batch, flushing, runner, done, table, history>>

FlushReturns ==
    /\ Alive /\ flushing = "rollup" /\ todo = {}
    /\ Returned
    /\ UNCHANGED <<caller, events, todo, done, store, history>>

Stop ==
    /\ Alive /\ ~done
    /\ done' = TRUE
    /\ timely' = sent
    /\ UNCHANGED <<caller, memory, runner, store, sent, flushed, discarded>>

Kill ==
    /\ Alive
    /\ runner' = "killed"
    /\ UNCHANGED <<caller, memory, done, store, history>>

Run == \/ Receive \/ Tick \/ SeeDone \/ DrainReceive \/ DrainEnds
       \/ InsertCommits \/ InsertFails \/ FlushReturns
       \/ \E b \in Buckets : Upsert(b)

Next == \/ \E e \in Events : Count(e) \/ Enqueue(e) \/ Drop(e)
        \/ Run \/ Stop \/ Kill

Spec == Init /\ [][Next]_vars

(***************************************************************************)
(* Fairness: the goroutine runs when it can, and its ticker ticks.  None   *)
(* for the handlers, for Stop and for Kill.                                *)
(***************************************************************************)
FairSpec == Spec /\ WF_vars(Run) /\ \A e \in Events : WF_vars(Enqueue(e) \/ Drop(e))
-----------------------------------------------------------------------------
\* What the channel accepted is, in order, what was flushed, what is in the
\* batch and what is in the channel: nothing is lost, repeated or reordered
\* on the way to flush.
Pending   == IF flushing = "rollup" THEN <<>> ELSE batch
Conserved == sent = flushed \o Pending \o events

(***************************************************************************)
(* "Raw usage_events remain the source of truth and rollups can be         *)
(* recomputed from them": a rollup row never counts an event that is not   *)
(* in the table, and at rest, with no failure, it counts all of them.      *)
(***************************************************************************)
RollupsFollowTable ==
    \A b \in Buckets :
        /\ rollup[b] <= CountIn(table, b)
        /\ failures = 0 /\ flushing = "no" => rollup[b] = CountIn(table, b)

(***************************************************************************)
(* When Stop returns, what the channel had accepted when it was called is  *)
(* in the table, but for the batches whose insert was rolled back: flush   *)
(* logs those as failed and does not try them again.                       *)
(***************************************************************************)
StopFlushes ==
    runner = "stopped" => Elements(timely) \subseteq Elements(table) \cup discarded

\* A full buffer never delays a handler when events may be dropped, and when
\* they may not the handler waits no longer than the goroutine lives.
LogReturns ==
    \A e \in Events : caller[e] = "counted" ~>
        caller[e] \in {"sent", "dropped"} \/ runner \in {"stopped", "killed"}
=============================================================================
