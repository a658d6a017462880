---------------------------- MODULE ProxyRequest ----------------------------
(***************************************************************************)
(* The hot path of the proxy (internal/proxy/handler.go): concurrent       *)
(* requests resolve a model, let the router pick deployments, try them in  *)
(* order, fall back to the next model of the chain, and report every       *)
(* outcome to the circuit breakers they share.                             *)
(*                                                                         *)
(* A request is a goroutine.  It yields between any two of its calls to a  *)
(* breaker, so one action below is one critical section, or the wait for   *)
(* one upstream answer.  The upstream, the health checker and the clock    *)
(* are the environment.                                                    *)
(***************************************************************************)
EXTENDS Breaker, Router, FiniteSets

CONSTANTS
    Requests,      \* slots of concurrently handled requests
    Models,        \* registered models, by canonical name
    DeploymentsOf, \* DeploymentsOf[m]: sequence of deployments, <<>> if single
    FallbackOf,    \* FallbackOf[m]: the fallback model, or NoModel
    NoModel,
    Permitted,     \* Permitted[r]: the models r's key has access to
    Malformed,     \* slots whose requests may not suit a provider's adapter
    MaxDepth,      \* FallbackMaxDepth: hops allowed per request
    Answers,       \* what a deployment that is up may answer
    Failures,      \* what a deployment that is down may answer
    HealthReports, \* what the health checker may report of a deployment
    RotationPeriod,\* a common multiple of the lengths the counter is taken modulo
    MaxOutages,    \* bound: how often deployments go down in a behaviour
    Reused         \* bound: the slots that serve more than one request

VARIABLES
    breakers,      \* breakers[k]: the breaker of deployment key k
    rotation,      \* rotation[m]: the round-robin counter of model m
    health,        \* health[k]: what the checker last stored for k
    down,          \* deployments whose upstream is failing
    outages,       \* outages so far
    req            \* req[r]: the local state of request r

vars == <<breakers, rotation, health, down, outages, req>>

DeploymentSet(m) == {DeploymentsOf[m][i] : i \in 1..Len(DeploymentsOf[m])}
Deployments      == UNION {DeploymentSet(m) : m \in Models}
Single           == {m \in Models : DeploymentsOf[m] = <<>>}

\* DeploymentKey: a single-deployment model is keyed by its own name.
Keys == Deployments \cup Single

\* Transport errors, and the statuses of responses told apart by the code.
Errors    == {"error", "timeout"}
Statuses  == {"2xx", "4xx", "501", "503"}
Is5xx(s)  == s \in {"501", "503"}
Retryable(s) == s = "503"
Response  == [status : Statuses, sse : BOOLEAN]

ASSUME ProxyAssumption ==
    /\ FallbackOf \in [Models -> Models \cup {NoModel}]
    /\ \A m \in Models :   \* config.validate: names are unique in a model
         /\ DeploymentsOf[m] \in Seq(Deployments)
         /\ \A i, j \in 1..Len(DeploymentsOf[m]) :
              DeploymentsOf[m][i] = DeploymentsOf[m][j] => i = j
    /\ \A m, n \in Models :   \* the key of a deployment names its model
         \A i \in 1..Len(DeploymentsOf[m]), j \in 1..Len(DeploymentsOf[n]) :
           DeploymentsOf[m][i] = DeploymentsOf[n][j] => m = n
    /\ Deployments \cap Single = {}
    /\ RetryLimit \in [Models -> Nat]
    /\ RotationPeriod \in Nat \ {0}
    /\ NoModel \notin Models
    /\ Malformed \subseteq Requests
    /\ Strategy \in [Models -> Strategies]
    /\ Answers \subseteq Response \cup [error : Errors]
    /\ Failures \subseteq Response \cup [error : Errors]
    /\ HealthReports \subseteq [healthy : BOOLEAN, latency : Nat]
    /\ MaxDepth \in Nat /\ MaxOutages \in Nat /\ Reused \subseteq Requests

Idle == [pc |-> "idle", model |-> NoModel, depth |-> 0, visited |-> {}, todo |-> <<>>,
         cands |-> <<>>, dep |-> NoModel, attempted |-> {}, err |-> "none",
         status |-> "none", sse |-> FALSE, answer |-> "none"]

Init ==
    /\ breakers = [k \in Keys |-> NewBreaker]
    /\ rotation = [m \in Models |-> 0]
    /\ health = [k \in Keys |-> [healthy |-> TRUE, latency |-> 0]]
    /\ down = {}
    /\ outages = 0
    /\ req = [r \in Requests |-> Idle]

At(r, pc) == req[r].pc = pc
Become(r, new) == req' = [req EXCEPT ![r] = new]
Report(k, after(_)) == breakers' = [breakers EXCEPT ![k] = after(@)]
environment == <<health, down, outages>>
-----------------------------------------------------------------------------
(* Handle: from the request to its answer.                                 *)

\* resolveModel: the model exists; the access cache decides.
Arrive(r) ==
    /\ At(r, "idle")
    /\ \E m \in Models :
         Become(r, IF m \in Permitted[r]
                   THEN [Idle EXCEPT !.pc = "try", !.model = m]
                   ELSE [Idle EXCEPT !.pc = "done", !.answer = "denied"])
    /\ UNCHANGED <<breakers, rotation, environment>>

\* The head of the fallback loop and of tryModel.  Only a model with
\* deployments goes through the router; any other is its own candidate.
TryModel(r) ==
    /\ At(r, "try")
    /\ LET q == [req[r] EXCEPT !.visited = @ \cup {req[r].model},
                               !.err = "none", !.status = "none"]
       IN  Become(r, IF req[r].model \in Single
                     THEN [q EXCEPT !.cands = <<req[r].model>>, !.pc = "send"]
                     ELSE [q EXCEPT !.cands = <<>>, !.pc = "filter",
                                    !.todo = DeploymentsOf[req[r].model]])
    /\ UNCHANGED <<breakers, rotation, environment>>

\* One round of filterAvailable's loop: the breaker is asked first, and its
\* answer is charged whether or not the health check then drops the deployment.
FilterNext(r) ==
    /\ At(r, "filter") /\ req[r].todo # <<>>
    /\ LET k == Head(req[r].todo)
       IN  /\ Report(k, AfterAllow)
           /\ Become(r, [req[r] EXCEPT
                  !.todo = Tail(@),
                  !.cands = IF Admits(breakers[k]) /\ health[k].healthy
                            THEN Append(@, k) ELSE @])
    /\ UNCHANGED <<rotation, environment>>

\* The rest of Pick: every deployment is a candidate if none was available.
Pick(r) ==
    /\ At(r, "filter") /\ req[r].todo = <<>>
    /\ LET m       == req[r].model
           pool    == IF req[r].cands = <<>> THEN DeploymentsOf[m] ELSE req[r].cands
           latency == [k \in Keys |-> health[k].latency]
       IN  /\ \E order \in Orderings(m, pool, rotation[m], latency) :
                 Become(r, [req[r] EXCEPT !.pc = "send", !.cands = Truncated(m, order)])
           /\ rotation' = IF UsesRotation(m, pool, latency)
                          THEN [rotation EXCEPT ![m] = (@ + 1) % RotationPeriod]
                          ELSE rotation
    /\ UNCHANGED <<breakers, environment>>

\* Mutant of Send: the deployment stays the head of the candidates.
SendAgain(r) ==
    /\ At(r, "send")
    /\ Become(r, [req[r] EXCEPT !.pc = "wait", !.dep = Head(req[r].cands),
                                !.attempted = @ \cup {Head(req[r].cands)}])
    /\ UNCHANGED <<breakers, rotation, environment>>

\* buildUpstreamRequest succeeds and the request goes out.
Send(r) ==
    /\ At(r, "send")
    /\ Become(r, [req[r] EXCEPT !.pc = "wait", !.dep = Head(req[r].cands),
                                !.attempted = @ \cup {Head(req[r].cands)},
                                !.cands = Tail(@)])
    /\ UNCHANGED <<breakers, rotation, environment>>

\* buildUpstreamRequest answers the client itself (the path is not proxied, or
\* the provider's adapter cannot express the request): Handle returns at once.
BuildFails(r) ==
    /\ At(r, "send") /\ r \in Malformed
    /\ Become(r, [req[r] EXCEPT !.pc = "done", !.answer = "bad_request"])
    /\ UNCHANGED <<breakers, rotation, environment>>

Outcomes(k) == IF k \in down THEN Failures ELSE Answers
\* Mutant of NextOrDecide: a transport error ends the loop over candidates.
AlwaysDecide(r) == "decide"

NextOrDecide(r) == IF req[r].cands = <<>> THEN "decide" ELSE "send"

\* A transport error is a failure of the deployment; the next one is tried.
TransportFails(r) ==
    /\ At(r, "wait")
    /\ \E o \in Outcomes(req[r].dep) \cap [error : Errors] :
         Become(r, [req[r] EXCEPT !.pc = NextOrDecide(r), !.err = o.error])
    /\ Report(req[r].dep, AfterFailure)
    /\ UNCHANGED <<rotation, environment>>

\* So is a retryable status while there is another candidate.
RetryNext(r) ==
    /\ At(r, "wait")
    /\ req[r].cands # <<>>
    /\ \E o \in Outcomes(req[r].dep) \cap Response : Retryable(o.status)
    /\ Become(r, [req[r] EXCEPT !.pc = "send", !.err = "error"])
    /\ Report(req[r].dep, AfterFailure)
    /\ UNCHANGED <<rotation, environment>>

\* Any other response ends tryModel.  A buffered one is reported here, a
\* stream only when it ends.
KeepResponse(r) ==
    /\ At(r, "wait")
    /\ \E o \in Outcomes(req[r].dep) \cap Response :
         /\ ~(Retryable(o.status) /\ req[r].cands # <<>>)
         /\ Become(r, [req[r] EXCEPT !.pc = "decide", !.status = o.status, !.sse = o.sse])
         /\ \/ o.sse /\ UNCHANGED breakers
            \/ ~o.sse /\ Is5xx(o.status) /\ Report(req[r].dep, AfterFailure)
            \/ ~o.sse /\ ~Is5xx(o.status) /\ Report(req[r].dep, AfterSuccess)
    /\ UNCHANGED <<rotation, environment>>

\* Mutant of Eligible: a 5xx answer is passed on instead of falling back.
EligibleErrors(q) == q.err = "error"

\* isFallbackEligible of what tryModel returned.  context.DeadlineExceeded is
\* what a per-model timeout and a dial timeout both are to errors.Is.
Eligible(q) == CASE q.err = "timeout" -> FALSE
                 [] q.err = "error"   -> TRUE
                 [] OTHER             -> Is5xx(q.status)

Usable(q)      == q.status \in {"2xx", "4xx"}
NextModel(q)   == FallbackOf[q.model]
HasFallback(q) == NextModel(q) # NoModel /\ NextModel(q) \notin q.visited
DepthLeft(q)   == q.depth < MaxDepth
Hops(r) == LET q == req[r]
           IN  /\ ~Usable(q) /\ Eligible(q) /\ HasFallback(q) /\ DepthLeft(q)
               /\ NextModel(q) \in Permitted[r]

\* The next round of the loop: a 5xx held so far is drained and forgotten.
FallBack(r) ==
    /\ At(r, "decide") /\ Hops(r)
    /\ Become(r, [req[r] EXCEPT !.pc = "try", !.model = NextModel(req[r]),
                                !.depth = @ + 1, !.status = "none", !.sse = FALSE])
    /\ UNCHANGED <<breakers, rotation, environment>>

\* The chain ends and the client gets what there is.  A stream goes on after
\* Handle has returned; reading a buffered body may still fail.
Respond(r) ==
    /\ At(r, "decide") /\ ~Hops(r)
    /\ LET q == req[r]
       IN  \/ /\ q.status = "none"
              /\ Become(r, [q EXCEPT !.pc = "done",
                     !.answer = IF q.err = "none" THEN "circuit_open" ELSE "unavailable"])
           \/ /\ q.status # "none" /\ q.sse
              /\ Become(r, [q EXCEPT !.pc = "stream"])
           \/ /\ q.status # "none" /\ ~q.sse
              /\ \E a \in {q.status, "body_failed"} :
                    Become(r, [q EXCEPT !.pc = "done", !.answer = a])
    /\ UNCHANGED <<breakers, rotation, environment>>

(***************************************************************************)
(* The end of the stream goroutine.  A stream whose PII is restored judges *)
(* the end by the [DONE] sentinel and does not report a client that left;  *)
(* a plain one reports success unless the scanner or the adapter failed.   *)
(***************************************************************************)
StreamEnds(r) ==
    /\ At(r, "stream")
    /\ \E end \in {"done", "eof", "aborted", "client_left"}, restored \in BOOLEAN :
         /\ Become(r, [req[r] EXCEPT !.pc = "done", !.answer = end])
         /\ CASE end = "aborted" \/ (restored /\ end = "eof") ->
                     Report(req[r].dep, AfterFailure)
              [] restored /\ end = "client_left" -> UNCHANGED breakers
              [] OTHER -> Report(req[r].dep, AfterSuccess)
    /\ UNCHANGED <<rotation, environment>>

\* The slot is free for another request.
Leave(r) ==
    /\ At(r, "done") /\ r \in Reused
    /\ Become(r, Idle)
    /\ UNCHANGED <<breakers, rotation, environment>>
-----------------------------------------------------------------------------
(* The environment.                                                        *)

Cools(k) ==
    /\ Hot(breakers[k])
    /\ Report(k, AfterWait)
    /\ UNCHANGED <<rotation, environment, req>>

HealthProbed(k) ==
    /\ \E h \in HealthReports : health' = [health EXCEPT ![k] = h]
    /\ UNCHANGED <<breakers, rotation, down, outages, req>>

Outage(k) ==
    /\ k \notin down /\ outages < MaxOutages
    /\ down' = down \cup {k}
    /\ outages' = outages + 1
    /\ UNCHANGED <<breakers, rotation, health, req>>

Repaired(k) ==
    /\ k \in down
    /\ down' = down \ {k}
    /\ UNCHANGED <<breakers, rotation, health, outages, req>>

\* The steps of one request after it has arrived.
Progress(r) == \/ TryModel(r) \/ FilterNext(r) \/ Pick(r) \/ Send(r)
               \/ TransportFails(r) \/ RetryNext(r) \/ KeepResponse(r)
               \/ FallBack(r) \/ Respond(r) \/ StreamEnds(r)

Next == \/ \E r \in Requests : Arrive(r) \/ Progress(r) \/ BuildFails(r) \/ Leave(r)
        \/ \E k \in Keys : Cools(k) \/ Outage(k) \/ Repaired(k)
        \/ \E d \in Deployments : HealthProbed(d)

Spec == Init /\ [][Next]_vars

(***************************************************************************)
(* Fairness: a goroutine that can go on does, every upstream wait is       *)
(* bounded by a timeout, the clock runs, and outages end.                  *)
(***************************************************************************)
FairSpec == /\ Spec
            /\ \A r \in Requests : WF_vars(Progress(r)) /\ WF_vars(Leave(r))
            /\ \A k \in Keys : WF_vars(Cools(k)) /\ WF_vars(Repaired(k))

\* Traffic for every model that never dries up, for the property about recovery.
ArriveFor(r, m) == Arrive(r) /\ req'[r].model = m
BusySpec == FairSpec /\ \A r \in Requests, m \in Models : SF_vars(ArriveFor(r, m))
-----------------------------------------------------------------------------
Answered == {"2xx", "4xx", "501", "503", "body_failed", "unavailable",
             "circuit_open", "bad_request", "denied",
             "done", "eof", "aborted", "client_left"}

RequestRecord ==
    [pc : {"idle", "try", "filter", "send", "wait", "decide", "stream", "done"},
     model : Models \cup {NoModel}, depth : 0..MaxDepth, visited : SUBSET Models,
     todo : Seq(Keys), cands : Seq(Keys), dep : Keys \cup {NoModel},
     attempted : SUBSET Keys, err : Errors \cup {"none"},
     status : Statuses \cup {"none"}, sse : BOOLEAN,
     answer : Answered \cup {"none"}]

TypeOK ==
    /\ breakers \in [Keys -> BreakerRecord]
    /\ rotation \in [Models -> 0..(RotationPeriod - 1)]
    /\ health \in [Keys -> [healthy : BOOLEAN, latency : Nat]]
    /\ down \subseteq Keys
    /\ outages \in 0..MaxOutages
    /\ req \in [Requests -> RequestRecord]

\* Reports reach the breakers out of order and from requests admitted long
\* ago; the fields of each breaker agree with each other all the same.
BreakersConsistent == \A k \in Keys : BreakerConsistent(breakers[k])

(***************************************************************************)
(* A request is never sent twice to one deployment, within a model or      *)
(* across the hops of its chain: every retry goes somewhere new, and the   *)
(* candidates left are exactly the ones a retry may still use.             *)
(***************************************************************************)
EveryAttemptIsFresh ==
    \A r \in Requests :
        LET q == req[r]
        IN  /\ \A i \in 1..Len(q.cands) : q.cands[i] \notin q.attempted
            /\ \A i, j \in 1..Len(q.cands) : q.cands[i] = q.cands[j] => i = j

\* The chain only visits models the key may use, at most MaxDepth hops away.
ChainWithinPolicy ==
    \A r \in Requests :
        /\ req[r].visited \subseteq Permitted[r]
        /\ Cardinality(req[r].visited) <= MaxDepth + 1

\* A request is sent at most max_retries + 1 times for each model it visits.
RetriesWithinLimit ==
    \A r \in Requests : \A m \in Models : RetryLimit[m] > 0 =>
        Cardinality(req[r].attempted \cap DeploymentSet(m)) <= RetryLimit[m] + 1

(***************************************************************************)
(* A client is told that the upstream failed only when the failure could   *)
(* not be hidden from it: no candidate of the last model was left (unless  *)
(* its status is one that is not retried), and there was no further model  *)
(* to fall back to, or the last error was a timeout.                       *)
(***************************************************************************)
FailsOnlyWhenExhausted ==
    \A r \in Requests :
        LET q == req[r]
        IN  q.pc = "done" /\ q.answer \in {"unavailable", "501", "503"} =>
              /\ q.cands = <<>> \/ q.status = "501"
              /\ \/ q.err = "timeout"
                 \/ NextModel(q) \in q.visited \cup {NoModel}
                 \/ NextModel(q) \notin Permitted[r]
                 \/ Cardinality(q.visited) > MaxDepth

\* What the operator configured bounds every request, and is used up before
\* a request fails (handler.go Handle and tryModel).
AttemptsFollowPolicy == ChainWithinPolicy /\ RetriesWithinLimit /\ FailsOnlyWhenExhausted

(***************************************************************************)
(* "When a model's upstream returns consecutive failures, the circuit      *)
(* opens and requests are rejected immediately" (docs/configuration.md:    *)
(* 310-312): a request whose candidates are chosen while every breaker of  *)
(* its model rejects is not sent.                                          *)
(***************************************************************************)
KeysOf(m)      == IF m \in Single THEN {m} ELSE DeploymentSet(m)
CircuitOpen(m) == \A k \in KeysOf(m) : Hot(breakers[k])
Choosing(r)    == At(r, "try") \/ (At(r, "filter") /\ req[r].cands = <<>>)
RejectedWhileOpen ==
    [][\A r \in Requests : Choosing(r) /\ CircuitOpen(req[r].model) => ~At(r, "send")']_vars

(***************************************************************************)
(* What the code does instead: the breaker of a single deployment is only  *)
(* told of outcomes, and the router takes every deployment as a last       *)
(* resort, so with the router wired Handle never answers "circuit_open".   *)
(***************************************************************************)
NeverTurnedAway ==
    \A r \in Requests :
        /\ req[r].answer # "circuit_open"
        /\ req[r].pc = "decide" => req[r].attempted # {}

(***************************************************************************)
(* Every request that arrives is answered, and its stream ends: the loop   *)
(* over the candidates and the loop over the models both come to an end.   *)
(***************************************************************************)
EveryRequestEnds == \A r \in Requests : At(r, "try") ~> At(r, "done")

(***************************************************************************)
(* "After repeated failures a deployment is temporarily removed from       *)
(* rotation and automatically recovers" (docs/configuration.md:145): once  *)
(* the outages are over, a tripped breaker closes again.                   *)
(***************************************************************************)
Recovers == \A k \in Keys : breakers[k].state # "closed" ~> breakers[k].state = "closed"
=============================================================================
