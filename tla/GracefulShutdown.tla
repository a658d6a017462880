-------------------------- MODULE GracefulShutdown --------------------------
(***************************************************************************)
(* The phased shutdown (internal/app/app.go, internal/shutdown) with the   *)
(* requests it waits for (internal/proxy/handler.go) and the usage log it  *)
(* flushes last: this module composes the request's life cycle and the     *)
(* shutdown sequence with UsageLogger, whose events are named by the       *)
(* requests that log them.                                                 *)
(*                                                                         *)
(* A streaming answer outlives Handle: SendStreamWriter starts a goroutine *)
(* that feeds the body while fasthttp copies it to the connection.  The    *)
(* server's Shutdown (fasthttp, not in this repository) closes the         *)
(* listener and waits until no connection is being served; it knows        *)
(* connections, not goroutines.                                            *)
(***************************************************************************)
EXTENDS UsageLogger, Integers

CONSTANTS StreamingRequests   \* the requests that ask for a stream

ASSUME ShutdownAssumption == StreamingRequests \subseteq Events

Requests == Events

VARIABLES
    pc,        \* pc[r]: where Handle is
    stream,    \* stream[r]: where the stream goroutine is
    open,      \* open[r]: the connection is being served
    tracked,   \* tracked[r]: "no", "yes", or "done" once its sync.Once fired
    inflight,  \* State.inflight, and the counter of State.wg
    phase      \* where WaitForShutdown is

lifecycle    == <<pc, stream, open, tracked, inflight>>
shutdownVars == <<vars, lifecycle, phase>>

Draining   == phase # "serving"
Accepting  == phase \in {"serving", "draining", "cancelled"}
Running    == Alive /\ phase # "exited"

ShutdownTypeOK ==
    /\ pc \in [Requests -> {"idle", "entering", "handling", "logging",
                            "returning", "returned", "rejected"}]
    /\ stream \in [Requests -> {"none", "running", "logging", "untracking", "ended"}]
    /\ open \in [Requests -> BOOLEAN]
    /\ tracked \in [Requests -> {"no", "yes", "done"}]
    /\ inflight \in Int
    /\ phase \in {"serving", "draining", "cancelled", "drained", "closing",
                  "flushing", "exited"}
    /\ TypeOK

ShutdownInit ==
    /\ Init
    /\ pc = [r \in Requests |-> "idle"]
    /\ stream = [r \in Requests |-> "none"]
    /\ open = [r \in Requests |-> FALSE]
    /\ tracked = [r \in Requests |-> "no"]
    /\ inflight = 0
    /\ phase = "serving"

Goto(r, there) == pc' = [pc EXCEPT ![r] = there]

\* Mutant of TrackDone: without the sync.Once.
TrackDoneTwice(r) ==
    /\ inflight' = inflight - 1
    /\ tracked' = [tracked EXCEPT ![r] = "done"]

\* trackDone: a sync.Once around TrackDone, shared by Handle and the stream.
TrackDone(r) ==
    /\ inflight' = IF tracked[r] = "yes" THEN inflight - 1 ELSE inflight
    /\ tracked' = [tracked EXCEPT ![r] = IF @ = "yes" THEN "done" ELSE @]
-----------------------------------------------------------------------------
(* Handle.                                                                 *)

\* A connection brings a request, and Handle reads the draining flag.
Arrive(r) ==
    /\ Running /\ pc[r] = "idle" /\ Accepting
    /\ Goto(r, IF Draining THEN "rejected" ELSE "entering")
    /\ open' = [open EXCEPT ![r] = TRUE]
    /\ UNCHANGED <<vars, stream, tracked, inflight, phase>>

\* TrackStart, however long after the flag was read.
TrackStart(r) ==
    /\ Running /\ pc[r] = "entering"
    /\ Goto(r, "handling")
    /\ tracked' = [tracked EXCEPT ![r] = "yes"]
    /\ inflight' = inflight + 1
    /\ UNCHANGED <<vars, stream, open, phase>>

\* Handle answers without an upstream response: a limit, an unknown model,
\* no access, a failed or a cancelled upstream.
Refuse(r) ==
    /\ Running /\ pc[r] = "handling"
    /\ Goto(r, "returning")
    /\ UNCHANGED <<vars, stream, open, tracked, inflight, phase>>

\* handleBufferedResponse read the whole body, and logs before it answers.
AnswerBuffered(r) ==
    /\ Running /\ pc[r] = "handling" /\ r \notin StreamingRequests
    /\ Goto(r, "logging")
    /\ UNCHANGED <<vars, stream, open, tracked, inflight, phase>>

\* handleStreamingResponse starts the goroutine and returns.
AnswerStreaming(r) ==
    /\ Running /\ pc[r] = "handling" /\ r \in StreamingRequests
    /\ stream' = [stream EXCEPT ![r] = "running"]
    /\ Goto(r, "returning")
    /\ UNCHANGED <<vars, open, tracked, inflight, phase>>

Log(r) == Count(r) \/ Enqueue(r) \/ Drop(r)

LogBuffered(r) ==
    /\ Running /\ pc[r] = "logging"
    /\ Log(r)
    /\ Goto(r, IF caller'[r] = "counted" THEN "logging" ELSE "returning")
    /\ UNCHANGED <<stream, open, tracked, inflight, phase>>

\* Handle returns, and its deferred trackDone fires.
Return(r) ==
    /\ Running /\ pc[r] = "returning"
    /\ Goto(r, "returned")
    /\ TrackDone(r)
    /\ UNCHANGED <<vars, stream, open, phase>>
-----------------------------------------------------------------------------
(* The stream goroutine, and the connection.                               *)

\* The scan loop ends: the upstream is done, fails or is cut off by the stream
\* timer or by CancelInflight, or a write to the client's pipe fails.
StreamStops(r) ==
    /\ Running /\ stream[r] = "running"
    /\ stream' = [stream EXCEPT ![r] = "logging"]
    /\ UNCHANGED <<vars, pc, open, tracked, inflight, phase>>

StreamLogs(r) ==
    /\ Running /\ stream[r] = "logging"
    /\ Log(r)
    /\ stream' = [stream EXCEPT ![r] = IF caller'[r] = "counted"
                                       THEN "logging" ELSE "untracking"]
    /\ UNCHANGED <<pc, open, tracked, inflight, phase>>

\* The deferred trackDone, cancelUpstream and Body.Close.
StreamEnds(r) ==
    /\ Running /\ stream[r] = "untracking"
    /\ stream' = [stream EXCEPT ![r] = "ended"]
    /\ TrackDone(r)
    /\ UNCHANGED <<vars, pc, open, phase>>

\* The answer, or the whole stream, has been written.
Served(r) ==
    /\ Running /\ open[r] /\ pc[r] \in {"returned", "rejected"}
    /\ stream[r] \in {"none", "ended"}
    /\ open' = [open EXCEPT ![r] = FALSE]
    /\ UNCHANGED <<vars, pc, stream, tracked, inflight, phase>>

\* A write to the client fails in the middle of a stream; the goroutine notices
\* when it writes next.
ClientLeaves(r) ==
    /\ Running /\ open[r] /\ pc[r] = "returned" /\ stream[r] \in {"running", "logging"}
    /\ open' = [open EXCEPT ![r] = FALSE]
    /\ UNCHANGED <<vars, pc, stream, tracked, inflight, phase>>
-----------------------------------------------------------------------------
(* WaitForShutdown.                                                        *)

Proceed(from, to) ==
    /\ Running /\ phase = from /\ phase' = to
    /\ UNCHANGED lifecycle

\* The first signal, BeginDrain, and the start of WaitForDrain.
Signal == Proceed("serving", "draining") /\ UNCHANGED vars

\* wg.Wait returned: nothing is tracked.
Drained == inflight = 0 /\ Proceed("draining", "drained") /\ UNCHANGED vars

\* time.After fired first; CancelInflight, and half a second for its effect.
DrainTimesOut == Proceed("draining", "cancelled") /\ UNCHANGED vars

\* Mutant of CloseServer: an expired drain is waited for all the same.
CloseDrained == Proceed("drained", "closing") /\ UNCHANGED vars

CloseServer == /\ \/ Proceed("drained", "closing")
                  \/ Proceed("cancelled", "closing")
               /\ UNCHANGED vars

\* Mutant of StopLogger: the logger is stopped before the server.
StopLoggerFirst == Proceed("closing", "flushing") /\ Stop

\* fasthttp's Shutdown returns; cleanup stops the tickers and calls Stop.
StopLogger ==
    /\ \A r \in Requests : ~open[r]
    /\ Proceed("closing", "flushing")
    /\ Stop

\* Stop returned; the database is closed and the process ends.
Exit == runner = "stopped" /\ Proceed("flushing", "exited") /\ UNCHANGED vars

\* The logger's goroutine goes on by itself.
LoggerRuns == Running /\ Run /\ UNCHANGED <<lifecycle, phase>>

\* A second signal: os.Exit(1).
SecondSignal == phase # "serving" /\ Running /\ Kill /\ UNCHANGED <<lifecycle, phase>>

RequestStep(r) ==
    \/ TrackStart(r) \/ Refuse(r) \/ AnswerBuffered(r) \/ AnswerStreaming(r)
    \/ LogBuffered(r) \/ Return(r) \/ StreamStops(r) \/ StreamLogs(r)
    \/ StreamEnds(r) \/ Served(r)

ShutdownStep == Drained \/ DrainTimesOut \/ CloseServer \/ StopLogger \/ Exit

ShutdownNext ==
    \/ \E r \in Requests : Arrive(r) \/ RequestStep(r) \/ ClientLeaves(r)
    \/ Signal \/ ShutdownStep \/ SecondSignal \/ LoggerRuns

ShutdownSpec == ShutdownInit /\ [][ShutdownNext]_shutdownVars

(***************************************************************************)
(* Fairness: handlers and streams end (every upstream call has a timeout   *)
(* and every stream a timer), the logger runs, and so does the shutdown.   *)
(* Signals and clients owe nothing.                                        *)
(***************************************************************************)
ShutdownFairness ==
    /\ \A r \in Requests : WF_shutdownVars(RequestStep(r))
    /\ WF_shutdownVars(LoggerRuns) /\ WF_shutdownVars(ShutdownStep)
FairShutdown == ShutdownSpec /\ ShutdownFairness
-----------------------------------------------------------------------------
(***************************************************************************)
(* TrackDone fires once for each TrackStart although both Handle and the   *)
(* stream goroutine call it, so that the WaitGroup's counter is the number *)
(* of tracked requests and never negative, which would panic.              *)
(***************************************************************************)
TrackingBalanced == inflight = Cardinality({r \in Requests : tracked[r] = "yes"})

(***************************************************************************)
(* The logger is stopped only after every Handle has returned: no handler  *)
(* logs to, or blocks on, a channel that nobody reads, not even one that   *)
(* read the draining flag before it was set and was tracked after the wait *)
(* for the tracked ones was over.                                          *)
(***************************************************************************)
HandlersOutlived ==
    phase \in {"flushing", "exited"} =>
        \A r \in Requests : pc[r] \in {"idle", "returned", "rejected"}

(***************************************************************************)
(* A graceful exit keeps the usage of every buffered answer in the         *)
(* database.  It makes two exceptions: Log dropped the event on a full     *)
(* buffer, or the insert of its batch was rolled back, after which flush   *)
(* gives the batch up.                                                     *)
(***************************************************************************)
BufferedUsageKept ==
    phase = "exited" =>
        \A r \in Requests \ StreamingRequests :
            caller[r] = "sent" => r \in Elements(table) \cup discarded

\* Shutdown ends, whatever requests are in flight and whatever arrives late.
ShutdownEnds == phase = "draining" ~> phase = "exited" \/ runner = "killed"

(***************************************************************************)
(* "The goroutine owns cancelUpstream, resp.Body.Close, and the trackDone  *)
(* call - none of these must be deferred at Handle scope" (handler.go:997, *)
(* 998): when the drain is over no stream is still being fed.              *)
(***************************************************************************)
DrainCoversStreams ==
    [][phase = "draining" /\ phase' = "drained" =>
         \A r \in Requests : stream[r] \in {"none", "ended"}]_shutdownVars
=============================================================================
