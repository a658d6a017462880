-------------------------- MODULE BreakerContract --------------------------
(***************************************************************************)
(* What the package comment of internal/circuitbreaker promises of every   *)
(* model endpoint: the "classic three-state machine: Closed -> Open ->     *)
(* HalfOpen -> Closed", requests turned away while it is open, and a       *)
(* half-open period that is not entered without a probe to end it.         *)
(***************************************************************************)
CONSTANTS Callers

VARIABLES gate,      \* closed, open or half_open
          admitted   \* the callers let through and not yet answered

contractVars == <<gate, admitted>>

ContractInit == gate = "closed" /\ admitted = {}

\* Closed, everyone passes.
Pass(c)  == gate = "closed" /\ admitted' = admitted \cup {c} /\ UNCHANGED gate
\* A probe is admitted: it opens the half-open period or joins it.
Probe(c) == gate # "closed" /\ gate' = "half_open" /\ admitted' = admitted \cup {c}
\* A call ends with good news: only a half-open gate is moved by it.
Succeed(c) == /\ c \in admitted
              /\ admitted' = admitted \ {c}
              /\ gate' = IF gate = "half_open" THEN "closed" ELSE gate
\* A call ends with bad news: a half-open gate reopens, a closed one may trip.
Fail(c) == /\ c \in admitted
           /\ admitted' = admitted \ {c}
           /\ \/ gate' = "open"
              \/ gate = "closed" /\ UNCHANGED gate

ContractNext ==
    \E c \in Callers : Pass(c) \/ Probe(c) \/ Succeed(c) \/ Fail(c)

ContractSpec == ContractInit /\ [][ContractNext]_contractVars
============================================================================
