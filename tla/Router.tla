------------------------------- MODULE Router -------------------------------
(***************************************************************************)
(* How Router.Pick orders and truncates the deployments that survived its  *)
(* filter (internal/router/router.go).  The filter itself talks to the     *)
(* breakers and is a part of ProxyRequest; what is here are pure functions *)
(* of a sequence of distinct deployments.  A random choice is the set of   *)
(* the orders it may produce.                                              *)
(***************************************************************************)
EXTENDS Naturals, Sequences, SequencesExt

CONSTANTS
    Strategy,      \* Strategy[m]: the routing strategy of model m
    Priority,      \* Priority[d]: the configured priority of deployment d
    RetryLimit     \* RetryLimit[m]: max_retries of model m, 0 for no limit

Strategies == {"round-robin", "least-latency", "weighted", "priority"}

Rotated(s, start) == [i \in 1..Len(s) |-> s[((start + i - 1) % Len(s)) + 1]]

Place(s, d) == CHOOSE i \in 1..Len(s) : s[i] = d

\* sort.SliceStable by ascending rank: equal ranks keep the order they had, so
\* there is one such order.
StablySorted(s, rank) ==
    {p \in SetToSeqs(ToSet(s)) :
        \A i, j \in 1..Len(s) : i < j =>
            \/ rank[p[i]] < rank[p[j]]
            \/ rank[p[i]] = rank[p[j]] /\ Place(s, p[i]) < Place(s, p[j])}

\* A deployment without latency data sorts behind every other one.
LatencyRank(latency) ==
    [d \in DOMAIN latency |-> IF latency[d] = 0 THEN 1000000 ELSE latency[d]]

\* leastLatency falls back to the rotation when it has no data at all.
UsesRotation(m, s, latency) ==
    \/ Strategy[m] = "round-robin"
    \/ Strategy[m] = "least-latency" /\ \A i \in 1..Len(s) : latency[s[i]] = 0

\* Weights are at least one, so each candidate may come first; the rest is shuffled.
Weighted(s) ==
    UNION {{<<d>> \o rest : rest \in SetToSeqs(ToSet(s) \ {d})} : d \in ToSet(s)}

ByPriority(s) == StablySorted(s, Priority)

\* Every order Pick may put the candidates s of model m in.
Orderings(m, s, counter, latency) ==
    CASE UsesRotation(m, s, latency) -> {Rotated(s, counter)}
      [] Strategy[m] = "priority"    -> ByPriority(s)
      [] Strategy[m] = "weighted"    -> Weighted(s)
      [] OTHER                       -> StablySorted(s, LatencyRank(latency))

\* Mutant of Truncated: one retry too many.
TruncatedLate(m, s) ==
    IF RetryLimit[m] > 0 /\ RetryLimit[m] + 2 < Len(s)
    THEN SubSeq(s, 1, RetryLimit[m] + 2)
    ELSE s

\* At most max_retries + 1 candidates are handed to the caller.
Truncated(m, s) ==
    IF RetryLimit[m] > 0 /\ RetryLimit[m] + 1 < Len(s)
    THEN SubSeq(s, 1, RetryLimit[m] + 1)
    ELSE s
=============================================================================
