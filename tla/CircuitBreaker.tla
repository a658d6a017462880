--------------------------- MODULE CircuitBreaker ---------------------------
(***************************************************************************)
(* One breaker used as its package means it to be used: a caller asks      *)
(* Allow, and when it is admitted calls the upstream and then reports      *)
(* exactly one of RecordSuccess and RecordFailure.  Callers are goroutines *)
(* of the proxy; any number of them are between Allow and the report at    *)
(* once, so reports reach the breaker in any order and in any later state. *)
(* What happens when callers break this contract is ProxyRequest's matter. *)
(***************************************************************************)
EXTENDS Breaker, FiniteSets

CONSTANTS Callers   \* the goroutines that call the upstream

VARIABLES
    breaker,   \* the Breaker
    call       \* call[c]: "idle", or why c was admitted: "normal" or "probe"

breakerVars == <<breaker, call>>

BreakerTypeOK == /\ breaker \in BreakerRecord
          /\ call \in [Callers -> {"idle", "normal", "probe"}]

BreakerInit == /\ breaker = NewBreaker
        /\ call = [c \in Callers |-> "idle"]

Admitted == {c \in Callers : call[c] # "idle"}

Allow(c) ==
    /\ call[c] = "idle"
    /\ Admits(breaker)
    /\ breaker' = AfterAllow(breaker)
    /\ call' = [call EXCEPT ![c] = IF breaker.state = "closed" THEN "normal" ELSE "probe"]

\* Allow returns false and changes nothing: the caller is turned away.
Rejected(c) ==
    /\ call[c] = "idle"
    /\ ~Admits(breaker)
    /\ UNCHANGED breakerVars

RecordSuccess(c) ==
    /\ call[c] # "idle"
    /\ breaker' = AfterSuccess(breaker)
    /\ call' = [call EXCEPT ![c] = "idle"]

RecordFailure(c) ==
    /\ call[c] # "idle"
    /\ breaker' = AfterFailure(breaker)
    /\ call' = [call EXCEPT ![c] = "idle"]

TimeoutElapses ==
    /\ Hot(breaker)
    /\ breaker' = AfterWait(breaker)
    /\ UNCHANGED call

BreakerNext == \/ TimeoutElapses
        \/ \E c \in Callers : \/ Allow(c) \/ Rejected(c)
                              \/ RecordSuccess(c) \/ RecordFailure(c)

BreakerSpec == BreakerInit /\ [][BreakerNext]_breakerVars

(***************************************************************************)
(* Fairness: time passes, and an upstream call that was admitted ends, as  *)
(* every upstream call is bounded by a transport or model timeout.  No     *)
(* fairness on Allow: clients need not come.                               *)
(***************************************************************************)
Fairness == /\ WF_breakerVars(TimeoutElapses)
            /\ \A c \in Callers : WF_breakerVars(RecordSuccess(c) \/ RecordFailure(c))

FairBreakerSpec == BreakerSpec /\ Fairness
-----------------------------------------------------------------------------
\* The breaker's own fields agree with each other in every reachable state,
\* whatever order late reports arrive in.
Consistent == BreakerConsistent(breaker)

(***************************************************************************)
(* A half-open breaker always has a probe outstanding, so some report will *)
(* move it on: RecordSuccess and RecordFailure are the only ways out of    *)
(* half-open, and slots are taken back nowhere else.                       *)
(***************************************************************************)
ProbeOutstanding ==
    breaker.state = "half_open" => \E c \in Callers : call[c] = "probe"

(***************************************************************************)
(* "Open: no-op - the original trip timestamp is preserved so the recovery *)
(* timer is not pushed forward by late-arriving failures": a cooled open   *)
(* breaker never becomes hot again except through a half-open period.      *)
(***************************************************************************)
RecoveryNotPostponed ==
    [][breaker.state = "open" /\ breaker.cooled => ~Hot(breaker)']_breakerVars

\* A half-open period ends: callers who report are enough for recovery.
HalfOpenEnds == breaker.state = "half_open" ~> breaker.state # "half_open"

\* The breaker implements the three-state machine its package describes.
Contract == INSTANCE BreakerContract
              WITH gate <- breaker.state, admitted <- Admitted
ImplementsContract == Contract!ContractSpec
=============================================================================
