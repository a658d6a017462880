----------------------------- MODULE MCProgress -----------------------------
(***************************************************************************)
(* Four instances that know nothing of each other, for one run: what       *)
(* answers, waits or retries goes on in the end.  A behaviour is one of    *)
(*   CircuitBreaker, with more callers than probe slots and than failures; *)
(*   HealthChecker, with a deployment probed on two levels, an MCP server  *)
(*     that is asked and one that is built in;                             *)
(*   RateLimiter, with two goroutines at a minute counter;                 *)
(*   GracefulShutdown, whose logger blocks on a full channel of one.       *)
(***************************************************************************)
EXTENDS CircuitBreaker

CONSTANT None
VARIABLES answers, probe, first, results, alive, served, round, status, flaps
VARIABLES clock, table, heap, check, stale, requests, evicted, admitted, rejecting, straggled
VARIABLES caller, events, batch, runner, flushing, todo, done, rows, rollup, failures,
          sent, flushed, timely, discarded, pc, stream, open, tracked, inflight, phase
VARIABLE part
healthVars   == <<answers, probe, first, results, alive, served, round, status, flaps>>
limiterVars  == <<clock, table, heap, check, stale, requests, evicted, admitted, rejecting, straggled>>
blockingVars == <<caller, events, batch, runner, flushing, todo, done, rows, rollup, failures,
                  sent, flushed, timely, discarded, pc, stream, open, tracked, inflight, phase>>

Health == INSTANCE HealthChecker WITH
    Targets <- {"chat"}, Untested <- {}, Enabled <- {"health", "functional"},
    Servers <- {"remote", "builtin"}, Builtin <- {"builtin"}, MaxProbes <- 1, MaxFlaps <- 1

Limiter == INSTANCE RateLimiter WITH
    Slots <- {"g1", "g2"}, Counters <- {"orgMinute"}, Limit <- [orgMinute |-> 1],
    Length <- [orgMinute |-> 1], Checks <- [g1 |-> <<"orgMinute">>, g2 |-> <<"orgMinute">>],
    LastMinute <- 1, MaxRequests <- 3, MaxEvicted <- 1, call <- check

Blocking == INSTANCE GracefulShutdown WITH
    Events <- {"buffered", "streamed"}, StreamingRequests <- {"streamed"},
    Bucket <- [buffered |-> "key1", streamed |-> "key2"],
    BufferSize <- 1, DropOnFull <- FALSE, MaxFailures <- 1, table <- rows

ProgressInit ==
    /\ BreakerInit /\ Health!Init /\ Limiter!LimiterInit /\ Blocking!ShutdownInit
    /\ part \in {"breaker", "health", "limiter", "shutdown"}
ProgressNext ==
    /\ \/ part = "breaker" /\ BreakerNext /\ UNCHANGED <<healthVars, limiterVars, blockingVars>>
       \/ part = "health" /\ Health!Next /\ UNCHANGED <<breakerVars, limiterVars, blockingVars>>
       \/ part = "limiter" /\ Limiter!LimiterNext /\ UNCHANGED <<breakerVars, healthVars, blockingVars>>
       \/ part = "shutdown" /\ Blocking!ShutdownNext /\ UNCHANGED <<breakerVars, healthVars, limiterVars>>
    /\ UNCHANGED part
ProgressSpec ==
    /\ ProgressInit
    /\ [][ProgressNext]_<<breakerVars, healthVars, limiterVars, blockingVars, part>>
    /\ \/ part = "breaker" /\ Fairness
       \/ part = "health" /\ Health!Fairness
       \/ part = "limiter" /\ Limiter!CheckFairness
       \/ part = "shutdown" /\ Blocking!ShutdownFairness

(* What HealthChecker shows comes to be what is so.                        *)
HealthSettles == part = "health" => Health!HealthSettles

(* The retry loop of RateLimiter ends.                                     *)
ChecksEnd == Limiter!ChecksEnd

(* GracefulShutdown: the process exits, and blocked Log calls return.      *)
ShutdownEnds == Blocking!ShutdownEnds
LogReturns   == Blocking!LogReturns
=============================================================================
