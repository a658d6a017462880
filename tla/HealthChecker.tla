---------------------------- MODULE HealthChecker ----------------------------
(***************************************************************************)
(* The health checks of internal/health.  Checker probes every deployment  *)
(* on three levels; each level has a ticker of its own, and all of them    *)
(* keep their results in one record per deployment: load, copy, change,    *)
(* store.  MCPHealthChecker probes the MCP servers, a few at a time, and   *)
(* forgets those that are gone at the end of each round.                   *)
(***************************************************************************)
EXTENDS Naturals, FiniteSets

CONSTANTS
    Targets,          \* the keys of the deployments in the registry
    Untested,         \* those of a type without a functional probe
    Enabled,          \* the levels that are configured
    Servers, Builtin, \* MCP servers, and those that are never asked
    MaxProbes,        \* maxProbeConcurrency
    MaxFlaps,         \* bound: changes of answers and of the servers
    None

VARIABLES
    answers,   \* answers[t]: the levels on which t would pass now
    probe,     \* probe[l]: what runAll of level l is doing
    first,     \* levels whose first round Start has not finished
    results,   \* results[t]: None, or the flags of the levels and the status
    alive,     \* servers that would answer tools/list
    served,    \* the servers the checker is given
    round,     \* None, or the round of MCPHealthChecker.runAll
    status,    \* status[s]: None, "healthy" or "unhealthy"
    flaps

vars == <<answers, probe, first, results, alive, served, round, status, flaps>>

Order == [health |-> 1, models |-> 2, functional |-> 3]
Levels == DOMAIN Order
Unknown == [flags |-> [l \in Levels |-> None], status |-> "unknown"]
Resting == [pc |-> "rest", left |-> {}]

deployments == <<probe, first, results>>
servers == <<round, status>>
world == <<answers, alive, served, flaps>>

Init ==
    /\ answers \in [Targets -> {Levels, {}}]
    /\ probe = [l \in Levels |-> Resting] /\ first = Enabled
    /\ results = [t \in Targets |-> None]
    /\ alive = Servers /\ served = Servers
    /\ round = None /\ status = [s \in Servers |-> None]
    /\ flaps = 0
-----------------------------------------------------------------------------
\* execProbe: every answer will do for the first level.
Passes(t, l) == l \in answers[t] \/ (l = "functional" /\ t \in Untested)

\* Start runs the first round of each level before it starts the ticker, and
\* the levels one after the other.
RunAll(l) ==
    /\ l \in Enabled /\ probe[l] = Resting
    /\ l \in first => \A m \in first : Order[l] <= Order[m]
    /\ probe' = [probe EXCEPT ![l] = [pc |-> "next", left |-> Targets]]
    /\ UNCHANGED <<first, results, world, servers>>

Probe(l) ==
    /\ probe[l].pc = "next"
    /\ \E t \in probe[l].left :
          probe' = [probe EXCEPT ![l] = [pc |-> "load", left |-> @.left, target |-> t, ok |-> Passes(t, l)]]
    /\ UNCHANGED <<first, results, world, servers>>

\* LoadOrStore, and the copy.
Load(l) ==
    LET t == probe[l].target
        old == IF results[t] = None THEN Unknown ELSE results[t]
    IN  /\ probe[l].pc = "load"
        /\ results' = [results EXCEPT ![t] = old]
        /\ probe' = [probe EXCEPT ![l] = [pc |-> "store", left |-> @.left, target |-> t, ok |-> @.ok, old |-> old]]
        /\ UNCHANGED <<first, world, servers>>

DeriveStatus(flags) ==
    IF flags["health"] = FALSE THEN "unhealthy"
    ELSE IF FALSE \in {flags["models"], flags["functional"]} THEN "degraded"
    ELSE IF TRUE \in {flags[l] : l \in Levels} THEN "healthy"
    ELSE "unknown"

\* Mutant of Flags: a level that has passed once stays passed.
FlagsKeepGood(old, l, ok) == [old EXCEPT ![l] = IF @ = TRUE THEN @ ELSE ok]
Flags(old, l, ok) == [old EXCEPT ![l] = ok]

\* The whole record: what another level has stored since is overwritten.
Store(l) ==
    LET p == probe[l]
        flags == Flags(p.old.flags, l, p.ok)
    IN  /\ p.pc = "store"
        /\ results' = [results EXCEPT ![p.target] = [flags |-> flags, status |-> DeriveStatus(flags)]]
        /\ probe' = [probe EXCEPT ![l] = [pc |-> "next", left |-> @.left \ {p.target}]]
        /\ UNCHANGED <<first, world, servers>>

RunEnds(l) ==
    /\ probe[l] = [pc |-> "next", left |-> {}]
    /\ probe' = [probe EXCEPT ![l] = Resting]
    /\ first' = first \ {l}
    /\ UNCHANGED <<results, world, servers>>

LevelStep(l) == RunAll(l) \/ Probe(l) \/ Load(l) \/ Store(l) \/ RunEnds(l)
-----------------------------------------------------------------------------
(* MCPHealthChecker: one round at a time, at most MaxProbes probes at once. *)

McpRunAll ==
    /\ round = None
    /\ round' = [left |-> served, active |-> served, probing |-> {}]
    /\ UNCHANGED <<status, deployments, world>>

Dispatch(s) ==
    /\ round # None /\ s \in round.left
    /\ IF s \in Builtin
       THEN status' = [status EXCEPT ![s] = "healthy"] /\ round' = [round EXCEPT !.left = @ \ {s}]
       ELSE /\ Cardinality(round.probing) < MaxProbes
            /\ round' = [round EXCEPT !.left = @ \ {s}, !.probing = @ \cup {s}]
            /\ UNCHANGED status
    /\ UNCHANGED <<deployments, world>>

\* probeMCPServer, and the record, which nobody else writes in a round.
ProbeServer(s) ==
    /\ round # None /\ s \in round.probing
    /\ status' = [status EXCEPT ![s] = IF s \in alive THEN "healthy" ELSE "unhealthy"]
    /\ round' = [round EXCEPT !.probing = @ \ {s}]
    /\ UNCHANGED <<deployments, world>>

Forgotten(s) == s \notin round.active

McpRoundEnds ==
    /\ round # None /\ round.left = {} /\ round.probing = {}
    /\ status' = [s \in Servers |-> IF Forgotten(s) THEN None ELSE status[s]]
    /\ round' = None
    /\ UNCHANGED <<deployments, world>>

McpStep == McpRunAll \/ McpRoundEnds \/ \E s \in Servers : Dispatch(s) \/ ProbeServer(s)
-----------------------------------------------------------------------------
\* Deployments and servers start and stop answering, servers come and go.
Flap ==
    /\ flaps < MaxFlaps /\ flaps' = flaps + 1
    /\ \/ /\ \E t \in Targets, l \in Levels : answers' = [answers EXCEPT ![t] = (@ \cup {l}) \ (@ \cap {l})]
          /\ UNCHANGED <<alive, served>>
       \/ /\ \E s \in Servers \ Builtin : alive' = (alive \cup {s}) \ (alive \cap {s})
          /\ UNCHANGED <<answers, served>>
       \/ /\ \E s \in Servers : served' = (served \cup {s}) \ (served \cap {s})
          /\ UNCHANGED <<answers, alive>>
    /\ UNCHANGED <<deployments, servers>>

Next == (\E l \in Levels : LevelStep(l)) \/ McpStep \/ Flap

\* The tickers fire, and a probe ends after ten seconds at the latest.
Fairness ==
    /\ \A l \in Enabled : WF_vars(LevelStep(l))
    /\ WF_vars(McpStep)
Spec == Init /\ [][Next]_vars /\ Fairness
-----------------------------------------------------------------------------
Shown(s) == IF status[s] = None THEN "unknown" ELSE status[s]
Truth(s) == IF s \notin served THEN "unknown"
            ELSE IF s \in Builtin \cup alive THEN "healthy" ELSE "unhealthy"

\* What is shown comes to be what is so.  A server's status stays right once
\* nothing changes any more, and those that are gone are forgotten.  A flag of a
\* deployment is right again and again, but need not stay so: the level that
\* stores last brings back the flags it has loaded.
HealthSettles ==
    /\ \A t \in Targets, l \in Enabled :
          []<>(results[t] # None /\ results[t].flags[l] = Passes(t, l))
    /\ \A s \in Servers : <>[](Shown(s) = Truth(s))
=============================================================================
