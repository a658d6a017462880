------------------------------ MODULE Breaker ------------------------------
(***************************************************************************)
(* The data of one circuit breaker and what its three methods do to it     *)
(* (internal/circuitbreaker/breaker.go).  Every method holds the breaker's *)
(* mutex for its whole body, so each is one step of whoever calls it: the  *)
(* operators below map a breaker to the breaker the method leaves behind.  *)
(*                                                                         *)
(* Time is abstracted: "cooled" says that at least the configured timeout  *)
(* has passed since lastFailure, which is all that Allow asks of the clock.*)
(***************************************************************************)
EXTENDS Naturals

CONSTANTS
    Threshold,    \* consecutive failures that trip a closed breaker
    HalfOpenMax   \* probes a half-open breaker admits at a time

\* config.setDefaults replaces zero by 5 and by 1.
ASSUME BreakerAssumption == /\ Threshold \in Nat \ {0}
                            /\ HalfOpenMax \in Nat \ {0}

BreakerState == {"closed", "open", "half_open"}

BreakerRecord == [state          : BreakerState,
                  failures       : 0..Threshold,
                  halfOpenActive : 0..HalfOpenMax,
                  cooled         : BOOLEAN]

NewBreaker == [state |-> "closed", failures |-> 0,
               halfOpenActive |-> 0, cooled |-> FALSE]

\* The value Allow returns.
Admits(b) == \/ b.state = "closed"
             \/ b.state = "open" /\ b.cooled
             \/ b.state = "half_open" /\ b.halfOpenActive < HalfOpenMax

\* The breaker after Allow: admitting out of the open state starts a half-open
\* period with this request as its first probe.
AfterAllow(b) ==
    CASE b.state = "open" /\ b.cooled ->
            [b EXCEPT !.state = "half_open", !.halfOpenActive = 1]
      [] b.state = "half_open" /\ b.halfOpenActive < HalfOpenMax ->
            [b EXCEPT !.halfOpenActive = @ + 1]
      [] OTHER -> b

Released(n) == IF n > 0 THEN n - 1 ELSE 0

\* Mutants of AfterSuccess: the counter is not reset; a half-open breaker waits
\* for more than one success; a late success closes an open breaker.
ForgetsReset(b) ==
    IF b.state = "half_open"
    THEN [b EXCEPT !.state = "closed", !.halfOpenActive = Released(@)]
    ELSE b
KeepsProbing(b) ==
    CASE b.state = "half_open" -> [b EXCEPT !.halfOpenActive = Released(@)]
      [] b.state = "closed"    -> [b EXCEPT !.failures = 0]
      [] OTHER -> b
ClosesWhenOpen(b) ==
    [b EXCEPT !.state = "closed", !.failures = 0, !.halfOpenActive = Released(@)]

AfterSuccess(b) ==
    CASE b.state = "half_open" ->
            [b EXCEPT !.state = "closed", !.failures = 0,
                      !.halfOpenActive = Released(@)]
      [] b.state = "closed" -> [b EXCEPT !.failures = 0]
      [] OTHER -> b

\* Mutants of AfterFailure: an open breaker goes on counting; a late failure
\* restarts its timer; it trips one failure late.
CountsWhenOpen(b) ==
    IF b.failures + 1 < Threshold
    THEN [b EXCEPT !.failures = @ + 1]
    ELSE [b EXCEPT !.state = "open", !.failures = @ + 1, !.cooled = FALSE]
RestartsTimer(b) ==
    IF b.state = "closed" /\ b.failures + 1 < Threshold
    THEN [b EXCEPT !.failures = @ + 1]
    ELSE [b EXCEPT !.state = "open", !.failures = Threshold, !.cooled = FALSE,
                   !.halfOpenActive = Released(@)]
TripsLate(b) ==
    IF b.state = "closed" /\ b.failures + 1 > Threshold
    THEN [b EXCEPT !.state = "open", !.cooled = FALSE]
    ELSE [b EXCEPT !.failures = @ + 1]

\* Tripping stamps lastFailure with the current time: the breaker is hot again.
AfterFailure(b) ==
    CASE b.state = "closed" /\ b.failures + 1 < Threshold ->
            [b EXCEPT !.failures = @ + 1]
      [] b.state = "closed" /\ b.failures + 1 >= Threshold ->
            [b EXCEPT !.state = "open", !.failures = @ + 1, !.cooled = FALSE]
      [] b.state = "half_open" ->
            [b EXCEPT !.state = "open", !.cooled = FALSE,
                      !.halfOpenActive = Released(@)]
      [] OTHER -> b

\* The recovery timeout elapses.
Hot(b)       == b.state = "open" /\ ~b.cooled
AfterWait(b) == [b EXCEPT !.cooled = TRUE]

(***************************************************************************)
(* The strengthening every owner of a breaker maintains: a breaker is away *)
(* from closed exactly when it has counted Threshold failures since its    *)
(* last success, and a half-open one has at least one probe slot taken.    *)
(***************************************************************************)
BreakerConsistent(b) ==
    /\ b.state = "closed" <=> b.failures < Threshold
    /\ b.state = "half_open" => b.halfOpenActive > 0
    /\ b.state = "half_open" => b.cooled
============================================================================
