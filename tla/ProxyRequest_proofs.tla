------------------------ MODULE ProxyRequest_proofs ------------------------
(***************************************************************************)
(* Proofs about ProxyRequest for every set of requests, models,            *)
(* deployments and keys.  Three inductive invariants: one of the breakers, *)
(* which every report preserves whoever makes it, one of the chain of      *)
(* models a request has walked, and one of the deployments it has tried    *)
(* and may still try.                                                      *)
(***************************************************************************)
EXTENDS ProxyRequest, CircuitBreaker, FiniteSetTheorems, SequenceTheorems, TLAPS

BreakersInv == breakers \in [Keys -> BreakerRecord] /\ BreakersConsistent

\* What a breaker makes of a report, or of a wait, is a consistent breaker.
LEMMA Methods ==
  ASSUME NEW b \in BreakerRecord, BreakerConsistent(b)
  PROVE  /\ AfterAllow(b) \in BreakerRecord /\ BreakerConsistent(AfterAllow(b))
         /\ AfterSuccess(b) \in BreakerRecord /\ BreakerConsistent(AfterSuccess(b))
         /\ AfterFailure(b) \in BreakerRecord /\ BreakerConsistent(AfterFailure(b))
         /\ Hot(b) => AfterWait(b) \in BreakerRecord /\ BreakerConsistent(AfterWait(b))
<1>1. BreakerConsistent(AfterAllow(b)) /\ BreakerConsistent(AfterSuccess(b))
  BY BreakerAssumption DEF BreakerRecord, BreakerState, BreakerConsistent, AfterAllow, AfterSuccess
<1>2. BreakerConsistent(AfterFailure(b)) /\ (Hot(b) => BreakerConsistent(AfterWait(b)))
  BY BreakerAssumption DEF BreakerRecord, BreakerState, BreakerConsistent, AfterFailure, Hot, AfterWait
<1>3. /\ b.state = "closed" => b.failures + 1 \in 0..Threshold
      /\ b.halfOpenActive < HalfOpenMax => b.halfOpenActive + 1 \in 0..HalfOpenMax
      /\ Released(b.halfOpenActive) \in 0..HalfOpenMax /\ 0 \in 0..Threshold /\ 1 \in 0..HalfOpenMax
  BY BreakerAssumption DEF BreakerRecord, BreakerConsistent, Released
<1>4. AfterAllow(b) \in BreakerRecord /\ AfterSuccess(b) \in BreakerRecord
  BY <1>3 DEF AfterAllow, AfterSuccess, BreakerRecord, BreakerState
<1>5. AfterFailure(b) \in BreakerRecord /\ AfterWait(b) \in BreakerRecord
  BY <1>3 DEF AfterFailure, AfterWait, BreakerRecord, BreakerState
<1> QED BY <1>1, <1>2, <1>4, <1>5

\* A report of any request, and the clock, keep every breaker sound.
LEMMA Reports ==
  ASSUME NEW k, BreakersInv,
         \/ breakers' = [breakers EXCEPT ![k] = AfterAllow(@)]
         \/ breakers' = [breakers EXCEPT ![k] = AfterSuccess(@)]
         \/ breakers' = [breakers EXCEPT ![k] = AfterFailure(@)]
         \/ Hot(breakers[k]) /\ breakers' = [breakers EXCEPT ![k] = AfterWait(@)]
  PROVE  BreakersInv'
<1>1. k \in Keys => breakers[k] \in BreakerRecord /\ BreakerConsistent(breakers[k])
  BY DEF BreakersInv, BreakersConsistent
<1>2. PICK b : /\ breakers' = [breakers EXCEPT ![k] = b]
               /\ k \in Keys => b \in BreakerRecord /\ BreakerConsistent(b)
  BY <1>1, Methods
<1> QED BY <1>2 DEF BreakersInv, BreakersConsistent

\* At the start every breaker is closed.
LEMMA InitBreakers == Init => BreakersInv
BY BreakerAssumption DEF Init, BreakersInv, BreakersConsistent, NewBreaker,
   BreakerRecord, BreakerState, BreakerConsistent

\* Every step leaves the breakers consistent.
LEMMA NextBreakers == BreakersInv /\ [Next]_vars => BreakersInv'
<1> SUFFICES ASSUME BreakersInv, [Next]_vars PROVE BreakersInv'
  OBVIOUS
<1>1. CASE UNCHANGED breakers
  BY <1>1 DEF BreakersInv, BreakersConsistent
<1>2. ASSUME NEW r \in Requests, FilterNext(r) PROVE BreakersInv'
  BY <1>2, Reports DEF FilterNext, Report
<1>3. ASSUME NEW r \in Requests, TransportFails(r) PROVE BreakersInv'
  BY <1>3, Reports DEF TransportFails, Report
<1>4. ASSUME NEW r \in Requests, RetryNext(r) PROVE BreakersInv'
  BY <1>4, Reports DEF RetryNext, Report
<1>5. ASSUME NEW r \in Requests, KeepResponse(r) PROVE BreakersInv'
  BY <1>1, <1>5, Reports DEF KeepResponse, Report
<1>6. ASSUME NEW r \in Requests, StreamEnds(r) PROVE BreakersInv'
  BY <1>1, <1>6, Reports DEF StreamEnds, Report
<1>7. ASSUME NEW k \in Keys, Cools(k) PROVE BreakersInv'
  BY <1>7, Reports DEF Cools, Report
<1>8. ASSUME NEW r \in Requests,
             \/ Arrive(r) \/ TryModel(r) \/ Pick(r) \/ Send(r) \/ BuildFails(r)
             \/ FallBack(r) \/ Respond(r) \/ Leave(r)
      PROVE  BreakersInv'
  BY <1>1, <1>8 DEF Arrive, TryModel, Pick, Send, BuildFails, FallBack, Respond, Leave
<1>9. ASSUME NEW k, Outage(k) \/ Repaired(k) \/ HealthProbed(k) PROVE BreakersInv'
  BY <1>1, <1>9 DEF Outage, Repaired, HealthProbed
<1>10. CASE UNCHANGED vars
  BY <1>1, <1>10 DEF vars
<1> QED
  BY <1>2, <1>3, <1>4, <1>5, <1>6, <1>7, <1>8, <1>9, <1>10 DEF Next, Progress

\* Whatever order requests report in and however late, the fields of every
\* breaker agree.
THEOREM BreakersStayConsistent == Spec => []BreakersConsistent
<1>1. Init => BreakersInv
  BY InitBreakers
<1>2. BreakersInv /\ [Next]_vars => BreakersInv'
  BY NextBreakers
<1>3. BreakersInv => BreakersConsistent
  BY DEF BreakersInv
<1> QED
  BY <1>1, <1>2, <1>3, PTL DEF Spec
-----------------------------------------------------------------------------
Fields == {"pc", "model", "depth", "visited", "todo", "cands", "dep", "attempted",
           "err", "status", "sse", "answer"}

(***************************************************************************)
(* The chain of a request is within policy, and a request about to try a   *)
(* model still has room for it: the checks of the fallback loop are made   *)
(* one hop before they are needed.  The index of the loop counts the       *)
(* models visited before the current one.                                  *)
(***************************************************************************)
Trying == {"filter", "send", "wait", "decide"}
ChainOK(r, q) ==
    /\ DOMAIN q = Fields
    /\ q.visited \subseteq Permitted[r] /\ IsFiniteSet(q.visited)
    /\ q.depth \in 0..MaxDepth /\ Cardinality(q.visited) <= q.depth + 1
    /\ q.pc = "try" => /\ q.model \in Permitted[r] /\ q.model \notin q.visited
                       /\ Cardinality(q.visited) = q.depth
    /\ q.pc \in Trying => Cardinality(q.visited) = q.depth + 1

ChainInv == /\ DOMAIN req = Requests
            /\ \A r \in Requests : ChainOK(r, req[r])

\* A request that has visited nothing yet has room for its first model.
LEMMA Empty ==
  ASSUME NEW r \in Requests, NEW q, DOMAIN q = Fields, q.visited = {}, q.depth = 0,
         q.pc \notin Trying, q.pc = "try" => q.model \in Permitted[r]
  PROVE  ChainOK(r, q)
<1>1. MaxDepth \in Nat
  BY ProxyAssumption
<1>2. IsFiniteSet({}) /\ Cardinality({}) = 0
  BY FS_EmptySet
<1> QED
  BY <1>1, <1>2 DEF ChainOK

\* At the start no request has a chain.
LEMMA InitChain == Init => ChainInv
<1> SUFFICES ASSUME Init, NEW r \in Requests PROVE ChainOK(r, Idle)
  BY DEF Init, ChainInv
<1> QED
  BY Empty DEF Idle, Fields, Trying

\* One request moves and the others stay.
LEMMA Moves ==
  ASSUME ChainInv, NEW r \in Requests, NEW q, Become(r, q), ChainOK(r, q)
  PROVE  ChainInv'
BY DEF ChainInv, Become, ChainOK

\* A request that stays within its model keeps its chain.
LEMMA Stays ==
  ASSUME ChainInv, NEW r \in Requests, NEW q, Become(r, q), DOMAIN q = Fields,
         q.visited = req[r].visited, q.depth = req[r].depth, q.pc # "try",
         q.pc \in Trying => req[r].pc \in Trying
  PROVE  ChainInv'
BY Moves DEF ChainInv, ChainOK

\* Every step leaves the chains within depth and access.
LEMMA NextChain == ChainInv /\ [Next]_vars => ChainInv'
<1> SUFFICES ASSUME ChainInv, [Next]_vars PROVE ChainInv'
  OBVIOUS
<1>1. ASSUME NEW r \in Requests, Arrive(r) PROVE ChainInv'
  <2>1. PICK m \in Models :
          Become(r, IF m \in Permitted[r]
                    THEN [Idle EXCEPT !.pc = "try", !.model = m]
                    ELSE [Idle EXCEPT !.pc = "done", !.answer = "denied"])
    BY <1>1 DEF Arrive
  <2> DEFINE q == [Idle EXCEPT !.pc = "try", !.model = m]
             d == [Idle EXCEPT !.pc = "done", !.answer = "denied"]
  <2>2. /\ DOMAIN q = Fields /\ q.visited = {} /\ q.depth = 0 /\ q.model = m /\ q.pc = "try"
        /\ DOMAIN d = Fields /\ d.visited = {} /\ d.depth = 0 /\ d.pc = "done"
    BY DEF Idle, Fields
  <2>3. m \in Permitted[r] => ChainOK(r, q)
    <3> HIDE DEF q
    <3> QED BY <2>2, Empty DEF Trying
  <2>4. ChainOK(r, d)
    <3> HIDE DEF d
    <3> QED BY <2>2, Empty DEF Trying
  <2> QED BY <2>1, <2>3, <2>4, Moves
<1>2. ASSUME NEW r \in Requests, TryModel(r) PROVE ChainInv'
  <2> DEFINE q == [req[r] EXCEPT !.visited = @ \cup {req[r].model},
                                 !.err = "none", !.status = "none"]
             send == [q EXCEPT !.cands = <<req[r].model>>, !.pc = "send"]
             filter == [q EXCEPT !.cands = <<>>, !.pc = "filter",
                                 !.todo = DeploymentsOf[req[r].model]]
  <2>1. Become(r, IF req[r].model \in Single THEN send ELSE filter)
    BY <1>2 DEF TryModel
  <2>2. ChainOK(r, req[r]) /\ req[r].pc = "try"
    BY <1>2 DEF ChainInv, TryModel, At
  <2>3. /\ DOMAIN q = Fields /\ DOMAIN send = Fields /\ DOMAIN filter = Fields
        /\ send.visited = req[r].visited \cup {req[r].model} /\ send.pc = "send"
        /\ filter.visited = req[r].visited \cup {req[r].model} /\ filter.pc = "filter"
        /\ send.depth = req[r].depth /\ filter.depth = req[r].depth
    BY <2>2 DEF ChainOK, Fields
  <2>4. /\ req[r].visited \cup {req[r].model} \subseteq Permitted[r]
        /\ IsFiniteSet(req[r].visited \cup {req[r].model})
        /\ Cardinality(req[r].visited \cup {req[r].model}) = req[r].depth + 1
    <3>1. /\ req[r].visited \subseteq Permitted[r] /\ IsFiniteSet(req[r].visited)
          /\ req[r].model \in Permitted[r] /\ req[r].model \notin req[r].visited
          /\ Cardinality(req[r].visited) = req[r].depth
      BY <2>2 DEF ChainOK
    <3>3. /\ IsFiniteSet(req[r].visited \cup {req[r].model})
          /\ Cardinality(req[r].visited \cup {req[r].model}) = Cardinality(req[r].visited) + 1
      BY <3>1, FS_AddElement
    <3> QED BY <3>1, <3>3
  <2>5. ChainOK(r, send) /\ ChainOK(r, filter)
    <3> HIDE DEF send, filter
    <3>1. req[r].depth \in 0..MaxDepth /\ req[r].depth + 1 <= req[r].depth + 1
      BY <2>2, ProxyAssumption DEF ChainOK
    <3> QED BY <2>3, <2>4, <3>1 DEF ChainOK
  <2> QED BY <2>1, <2>5, Moves
<1>3. ASSUME NEW r \in Requests,
             \/ FilterNext(r) \/ Pick(r) \/ Send(r) \/ BuildFails(r)
      PROVE  ChainInv'
  <2> USE DEF ChainInv, ChainOK, Fields, Trying
  <2>1. CASE FilterNext(r)
    BY <2>1, Stays DEF FilterNext, At
  <2>2. CASE Pick(r)
    BY <2>2, Stays DEF Pick, At
  <2>3. CASE Send(r)
    BY <2>3, Stays DEF Send, At
  <2>4. CASE BuildFails(r)
    BY <2>4, Stays DEF BuildFails, At
  <2> QED BY <1>3, <2>1, <2>2, <2>3, <2>4
<1>4. ASSUME NEW r \in Requests,
             \/ TransportFails(r) \/ RetryNext(r) \/ KeepResponse(r)
      PROVE  ChainInv'
  <2> USE DEF ChainInv, ChainOK, Fields, Trying
  <2>1. CASE TransportFails(r)
    BY <2>1, Stays DEF TransportFails, NextOrDecide, At
  <2>2. CASE RetryNext(r)
    BY <2>2, Stays DEF RetryNext, At
  <2>3. CASE KeepResponse(r)
    BY <2>3, Stays DEF KeepResponse, At
  <2> QED BY <1>4, <2>1, <2>2, <2>3
<1>5. ASSUME NEW r \in Requests, FallBack(r) PROVE ChainInv'
  <2> DEFINE q == [req[r] EXCEPT !.pc = "try", !.model = NextModel(req[r]),
                                 !.depth = @ + 1, !.status = "none", !.sse = FALSE]
  <2>1. Become(r, q) /\ ChainOK(r, req[r]) /\ req[r].pc = "decide"
    BY <1>5 DEF FallBack, ChainInv, At
  <2>2. /\ NextModel(req[r]) \in Permitted[r] /\ NextModel(req[r]) \notin req[r].visited
        /\ req[r].depth < MaxDepth
    BY <1>5 DEF FallBack, Hops, HasFallback, DepthLeft
  <2>3. /\ DOMAIN q = Fields /\ q.visited = req[r].visited /\ q.model = NextModel(req[r])
        /\ q.depth = req[r].depth + 1 /\ q.pc = "try"
    BY <2>1 DEF ChainOK, Fields
  <2>4. /\ Cardinality(req[r].visited) = req[r].depth + 1 /\ req[r].depth \in 0..MaxDepth
        /\ req[r].visited \subseteq Permitted[r] /\ IsFiniteSet(req[r].visited)
    BY <2>1 DEF ChainOK, Trying
  <2>5. ChainOK(r, q)
    <3> HIDE DEF q
    <3>1. req[r].depth + 1 \in 0..MaxDepth /\ req[r].depth + 1 <= req[r].depth + 2
      BY <2>2, <2>4, ProxyAssumption
    <3> QED BY <2>2, <2>3, <2>4, <3>1 DEF ChainOK, Trying
  <2> QED BY <2>1, <2>5, Moves
<1>6. ASSUME NEW r \in Requests, Respond(r) \/ StreamEnds(r) PROVE ChainInv'
  <2> USE DEF ChainInv, ChainOK, Fields, Trying
  <2>1. CASE Respond(r)
    BY <2>1, Stays DEF Respond, At
  <2>2. CASE StreamEnds(r)
    BY <2>2, Stays DEF StreamEnds, At
  <2> QED BY <1>6, <2>1, <2>2
<1>7. ASSUME NEW r \in Requests, Leave(r) PROVE ChainInv'
  <2>1. ChainOK(r, Idle)
    BY Empty DEF Idle, Fields, Trying
  <2> QED BY <1>7, <2>1, Moves DEF Leave
<1>8. CASE UNCHANGED req
  BY <1>8 DEF ChainInv, ChainOK
<1>9. ASSUME NEW k, Cools(k) \/ Outage(k) \/ Repaired(k) \/ HealthProbed(k)
      PROVE  ChainInv'
  BY <1>8, <1>9 DEF Cools, Outage, Repaired, HealthProbed
<1>10. CASE UNCHANGED vars
  BY <1>8, <1>10 DEF vars
<1> QED
  BY <1>1, <1>2, <1>3, <1>4, <1>5, <1>6, <1>7, <1>9, <1>10 DEF Next, Progress

\* The index of the loop bounds the models visited.
LEMMA ChainPolicy == ChainInv => ChainWithinPolicy
<1> SUFFICES ASSUME ChainInv, NEW r \in Requests
             PROVE  /\ req[r].visited \subseteq Permitted[r]
                    /\ Cardinality(req[r].visited) <= MaxDepth + 1
  BY DEF ChainWithinPolicy
<1>1. /\ req[r].visited \subseteq Permitted[r] /\ IsFiniteSet(req[r].visited)
      /\ req[r].depth \in 0..MaxDepth /\ Cardinality(req[r].visited) <= req[r].depth + 1
  BY DEF ChainInv, ChainOK
<1> QED BY <1>1, FS_CardinalityType, ProxyAssumption

\* However fallbacks are chained, a request only visits models its key may use,
\* and at most MaxDepth of them after the first.
THEOREM ChainsStayWithinPolicy == Spec => []ChainWithinPolicy
<1> QED BY InitChain, NextChain, ChainPolicy, PTL DEF Spec
-----------------------------------------------------------------------------
(* What the router hands out.                                              *)

Distinct(s) == \A i, j \in 1..Len(s) : s[i] = s[j] => i = j
Within(s, S) == \A i \in 1..Len(s) : s[i] \in S

\* Numbers that are less than n apart and equal modulo n are equal.
LEMMA ModInjective ==
  ASSUME NEW n \in Nat \ {0}, NEW a \in Nat, NEW b \in Nat,
         a <= b, b < a + n, a % n = b % n
  PROVE  a = b
<1> DEFINE qa == a \div n
           qb == b \div n
<1>1. qa \in Int /\ qb \in Int /\ a = n * qa + (a % n) /\ b = n * qb + (b % n)
  OBVIOUS
<1>2. b - a = n * (qb - qa)
  BY <1>1
<1>3. qb - qa < 1
  <2>1. CASE qb - qa >= 1
    <3>1. n * (qb - qa) >= n
      BY <1>1, <2>1
    <3> QED BY <1>2, <3>1
  <2> QED BY <2>1, <1>1
<1>4. qb - qa > -1
  <2>1. CASE qb - qa <= -1
    <3>1. n * (qb - qa) <= -n
      BY <1>1, <2>1
    <3> QED BY <1>2, <3>1
  <2> QED BY <2>1, <1>1
<1>5. qb = qa
  BY <1>1, <1>3, <1>4
<1> QED BY <1>1, <1>5

\* A rotation of a sequence without repetition is one.
LEMMA RotatedSpread ==
  ASSUME NEW S, NEW s \in Seq(S), s # <<>>, Distinct(s), NEW start \in Nat
  PROVE  /\ Rotated(s, start) \in Seq(S) /\ Rotated(s, start) # <<>>
         /\ Distinct(Rotated(s, start)) /\ Within(Rotated(s, start), ToSet(s))
<1> DEFINE n == Len(s)
           at(i) == ((start + i - 1) % n) + 1
           R == Rotated(s, start)
<1>1. n \in Nat \ {0} /\ s \in [1..n -> S]
  OBVIOUS
<1>2. \A i \in 1..n : at(i) \in 1..n
  BY <1>1
<1>3. R = [i \in 1..n |-> s[at(i)]]
  BY DEF Rotated
<1>4. R \in Seq(S) /\ Len(R) = n /\ DOMAIN R = 1..n
  BY <1>1, <1>2, <1>3
<1>5. \A i \in 1..n : R[i] = s[at(i)]
  BY <1>3
<1>6. ASSUME NEW i \in 1..n, NEW j \in 1..n, R[i] = R[j] PROVE i = j
  <2>1. at(i) = at(j)
    BY <1>2, <1>5, <1>6 DEF Distinct
  <2>2. (start + i - 1) % n = (start + j - 1) % n
    <3>1. (start + i - 1) % n \in Int /\ (start + j - 1) % n \in Int
      BY <1>1
    <3> QED BY <2>1, <3>1
  <2>3. start + i - 1 \in Nat /\ start + j - 1 \in Nat
    BY <1>1
  <2>4. CASE i <= j
    <3>1. /\ start + i - 1 <= start + j - 1
          /\ start + j - 1 < (start + i - 1) + n
      BY <1>1, <2>4
    <3>2. start + i - 1 = start + j - 1
      BY <1>1, <2>2, <2>3, <3>1, ModInjective
    <3> QED BY <3>2
  <2>5. CASE j <= i
    <3>1. /\ start + j - 1 <= start + i - 1
          /\ start + i - 1 < (start + j - 1) + n
      BY <1>1, <2>5
    <3>2. start + j - 1 = start + i - 1
      BY <1>1, <2>2, <2>3, <3>1, ModInjective
    <3> QED BY <3>2
  <2> QED BY <1>1, <2>4, <2>5
<1>7. Within(R, ToSet(s))
  <2> HIDE DEF R
  <2> QED BY <1>1, <1>2, <1>4, <1>5 DEF Within, ToSet
<1>8. Distinct(R)
  BY <1>4, <1>6 DEF Distinct
<1>9. R # <<>>
  BY <1>1, <1>4
<1> QED BY <1>4, <1>7, <1>8, <1>9

\* A listing of a finite set is a sequence of its elements without repetition.
LEMMA Listings ==
  ASSUME NEW S, IsFiniteSet(S), NEW p \in SetToSeqs(S)
  PROVE  /\ p \in Seq(S) /\ Len(p) = Cardinality(S)
         /\ Distinct(p) /\ Within(p, S)
<1>1. Cardinality(S) \in Nat
  BY FS_CardinalityType
<1>2. p \in [1..Cardinality(S) -> S]
  BY DEF SetToSeqs
<1>3. p \in Seq(S) /\ Len(p) = Cardinality(S)
  BY <1>1, <1>2
<1>4. \A i, j \in 1..Cardinality(S) : i # j => p[i] # p[j]
  BY DEF SetToSeqs
<1> QED
  BY <1>2, <1>3, <1>4 DEF Distinct, Within

\* A sequence has finitely many elements.
LEMMA FiniteRange ==
  ASSUME NEW S, NEW s \in Seq(S)
  PROVE  IsFiniteSet(ToSet(s))
<1>1. IsFiniteSet(1..Len(s))
  BY FS_Interval
<1>2. s \in Surjection(1..Len(s), ToSet(s))
  BY DEF ToSet, Surjection
<1> QED BY <1>1, <1>2, FS_Surjection

\* What the router may hand out: candidates without repetition, out of S.
Candidates(S) == {p \in Seq(S) : p # <<>> /\ Distinct(p)}

\* Whatever the strategy, an order of the pool is made of the pool, without
\* repetition, and is not empty when the pool is not.
LEMMA OrderingsSpread ==
  ASSUME NEW S, NEW s \in Candidates(S), NEW m, NEW counter \in Nat, NEW latency,
         NEW order \in Orderings(m, s, counter, latency)
  PROVE  order \in Candidates(S)
<1> DEFINE T == ToSet(s)
<1>1. s \in Seq(S) /\ s # <<>> /\ Distinct(s) /\ Len(s) \in Nat \ {0} /\ s \in [1..Len(s) -> S]
  BY DEF Candidates
<1>2. T \subseteq S /\ s[1] \in T
  BY <1>1 DEF ToSet
<1>3. IsFiniteSet(T)
  BY <1>1, FiniteRange
<1>4. Cardinality(T) \in Nat \ {0}
  BY <1>2, <1>3, FS_EmptySet, FS_CardinalityType
<1>5. ASSUME NEW p \in SetToSeqs(T) PROVE p \in Candidates(S)
  <2>1. p \in Seq(T) /\ Len(p) = Cardinality(T) /\ Distinct(p)
    BY <1>3, <1>5, Listings
  <2>2. p \in Seq(S)
    BY <1>2, <2>1, SeqMonotonic
  <2>3. p # <<>>
    BY <1>4, <2>1
  <2> QED BY <2>1, <2>2, <2>3 DEF Candidates
<1>6. ASSUME NEW rank PROVE StablySorted(s, rank) \subseteq Candidates(S)
  BY <1>5 DEF StablySorted
<1>7. Weighted(s) \subseteq Candidates(S)
  <2> SUFFICES ASSUME NEW p \in Weighted(s) PROVE p \in Candidates(S)
    OBVIOUS
  <2>1. PICK d \in T : p \in {<<d>> \o rest : rest \in SetToSeqs(T \ {d})}
    BY DEF Weighted
  <2>2. PICK rest \in SetToSeqs(T \ {d}) : p = <<d>> \o rest
    BY <2>1
  <2>3. IsFiniteSet(T \ {d})
    BY <1>3, FS_Subset
  <2>4. rest \in Seq(T \ {d}) /\ Distinct(rest) /\ Within(rest, T \ {d})
    BY <2>3, Listings
  <2>5. rest \in Seq(S) /\ d \in S /\ <<d>> \in Seq(S) /\ Len(<<d>>) = 1 /\ <<d>>[1] = d
    <3>1. T \ {d} \subseteq S
      BY <1>2
    <3> QED BY <1>2, <2>4, <3>1, SeqMonotonic
  <2>6. /\ p \in Seq(S) /\ Len(p) = 1 + Len(rest) /\ Len(rest) \in Nat
        /\ \A i \in 1..Len(p) : p[i] = IF i <= 1 THEN d ELSE rest[i - 1]
    <3> HIDE DEF T
    <3>1. Len(rest) \in Nat
      BY <2>5, LenProperties
    <3>2. /\ p \in Seq(S) /\ Len(p) = Len(<<d>>) + Len(rest)
          /\ \A i \in 1..Len(<<d>>) + Len(rest) :
               p[i] = IF i <= Len(<<d>>) THEN <<d>>[i] ELSE rest[i - Len(<<d>>)]
      BY <2>2, <2>5, ConcatProperties
    <3> QED BY <2>5, <3>1, <3>2
  <2>7. p # <<>>
    BY <2>6
  <2>8. ASSUME NEW i \in 1..Len(p), NEW j \in 1..Len(p), p[i] = p[j] PROVE i = j
    <3>1. CASE i = 1
      <4>1. CASE j > 1
        <5>1. p[i] = d /\ p[j] = rest[j - 1] /\ j - 1 \in 1..Len(rest)
          BY <2>6, <3>1, <4>1
        <5> QED BY <2>4, <2>8, <5>1 DEF Within
      <4> QED BY <2>6, <3>1, <4>1
    <3>2. CASE i > 1 /\ j = 1
      <4>1. p[j] = d /\ p[i] = rest[i - 1] /\ i - 1 \in 1..Len(rest)
        BY <2>6, <3>2
      <4> QED BY <2>4, <2>8, <4>1 DEF Within
    <3>3. CASE i > 1 /\ j > 1
      <4>1. /\ p[i] = rest[i - 1] /\ i - 1 \in 1..Len(rest)
            /\ p[j] = rest[j - 1] /\ j - 1 \in 1..Len(rest)
        BY <2>6, <3>3
      <4>2. i - 1 = j - 1
        BY <2>4, <2>8, <4>1 DEF Distinct
      <4> QED BY <2>6, <4>2
    <3> QED BY <2>6, <3>1, <3>2, <3>3
  <2> QED BY <2>6, <2>7, <2>8 DEF Candidates, Distinct
<1>8. Rotated(s, counter) \in Candidates(S)
  BY <1>1, RotatedSpread DEF Candidates
<1> QED
  BY <1>6, <1>7, <1>8 DEF Orderings, ByPriority

\* Truncation keeps what is handed out sound, and cuts it to the retry limit.
LEMMA TruncatedBounded ==
  ASSUME NEW S, NEW order \in Candidates(S), NEW m, RetryLimit[m] \in Nat
  PROVE  /\ Truncated(m, order) \in Candidates(S)
         /\ RetryLimit[m] > 0 => Len(Truncated(m, order)) <= RetryLimit[m] + 1
<1>1. order \in Seq(S) /\ order # <<>> /\ Distinct(order) /\ Len(order) \in Nat
  BY DEF Candidates
<1>2. CASE RetryLimit[m] > 0 /\ RetryLimit[m] + 1 < Len(order)
  <2> DEFINE n == RetryLimit[m] + 1
             t == SubSeq(order, 1, n)
  <2>1. n \in Nat \ {0} /\ n < Len(order) /\ Truncated(m, order) = t
    BY <1>2 DEF Truncated
  <2>2. \A i \in 1..n : order[i] \in S
    BY <1>1, <2>1
  <2>3. t \in Seq(S) /\ Len(t) = n /\ \A i \in 1..n : t[i] = order[i]
    <3>1. /\ t \in Seq(S) /\ Len(t) = (IF 1 <= n THEN n - 1 + 1 ELSE 0)
          /\ \A i \in 1..(n - 1 + 1) : t[i] = order[1 + i - 1]
      BY <2>1, <2>2, SubSeqProperties
    <3> QED BY <2>1, <3>1
  <2>4. Distinct(t) /\ t # <<>>
    BY <1>1, <2>1, <2>3 DEF Distinct
  <2> QED BY <2>1, <2>3, <2>4 DEF Candidates
<1>3. CASE ~(RetryLimit[m] > 0 /\ RetryLimit[m] + 1 < Len(order))
  <2>1. Truncated(m, order) = order
    BY <1>3 DEF Truncated
  <2> QED BY <1>1, <1>3, <2>1
<1> QED BY <1>2, <1>3
-----------------------------------------------------------------------------
(***************************************************************************)
(* Where a request has been sent and where it may still be sent.  The      *)
(* candidates in hand are counted with the attempts made, so that the      *)
(* retry limit the router applied once bounds the whole loop; that a       *)
(* model's deployments are all untried when the chain comes to it follows  *)
(* from the chain never coming back to a model.                            *)
(***************************************************************************)
\* The candidates are new, and those of a model being tried are its own.
CandidatesOK(q) ==
    /\ Distinct(q.cands) /\ Within(q.cands, Keys \ q.attempted)
    /\ q.pc \in {"filter", "send", "wait"} => Within(q.cands, KeysOf(q.model))
    /\ q.pc = "send" => q.cands # <<>>

\* The router still has to look at todo, and nothing of the model was tried.
FilterOK(q) ==
    q.pc = "filter" =>
        /\ q.model \notin Single
        /\ q.attempted \cap KeysOf(q.model) = {}
        /\ Distinct(q.todo) /\ Within(q.todo, KeysOf(q.model))
        /\ \A i \in 1..Len(q.todo) : \A j \in 1..Len(q.cands) : q.todo[i] # q.cands[j]

\* Only deployments of visited models were tried, and the model to try is new.
VisitsOK(q) ==
    /\ q.attempted \subseteq UNION {KeysOf(m) : m \in q.visited}
    /\ q.pc = "try" => q.model \in Models \ q.visited
    /\ q.pc \in {"filter", "send", "wait", "decide"} => q.model \in q.visited

\* The attempts left count against the limit as if they had been made.
Left(q, m) == IF q.pc \in {"send", "wait"} /\ q.model = m THEN Len(q.cands) ELSE 0
RetriesOK(q) ==
    \A m \in Models : RetryLimit[m] > 0 =>
        Cardinality(q.attempted \cap DeploymentSet(m)) + Left(q, m) <= RetryLimit[m] + 1

\* What a request knows when it decides, and what it answers.
VerdictOK(r, q) ==
    /\ q.pc \in {"wait", "decide"} => q.attempted # {}
    /\ q.pc = "decide" => /\ q.status = "none" => q.err # "none"
                          /\ q.status \in {"none", "503"} => q.cands = <<>>
    /\ q.answer # "circuit_open"
    /\ q.pc = "done" /\ q.answer \in {"unavailable", "501", "503"} =>
         /\ q.cands = <<>> \/ q.status = "501"
         /\ \/ q.err = "timeout"
            \/ NextModel(q) \in q.visited \cup {NoModel}
            \/ NextModel(q) \notin Permitted[r]
            \/ Cardinality(q.visited) > MaxDepth

AttemptOK(r, q) == /\ q \in RequestRecord
                   /\ CandidatesOK(q) /\ FilterOK(q) /\ VisitsOK(q)
                   /\ RetriesOK(q) /\ VerdictOK(r, q)

AttemptInv == /\ rotation \in [Models -> 0..(RotationPeriod - 1)]
              /\ req \in [Requests -> RequestRecord]
              /\ \A r \in Requests : AttemptOK(r, req[r])

\* What a valid configuration says of the deployments of a model.
LEMMA Config ==
  ASSUME NEW m \in Models
  PROVE  /\ KeysOf(m) \subseteq Keys
         /\ DeploymentSet(m) \subseteq KeysOf(m) /\ IsFiniteSet(DeploymentSet(m))
         /\ m \in Single => m \in Keys /\ DeploymentSet(m) = {}
         /\ m \notin Single => DeploymentsOf[m] \in Candidates(KeysOf(m))
         /\ \A n \in Models : n # m => KeysOf(n) \cap KeysOf(m) = {}
<1>1. DeploymentsOf[m] \in Seq(Deployments) /\ Distinct(DeploymentsOf[m])
  BY ProxyAssumption DEF Distinct
<1>2. DeploymentSet(m) \subseteq Deployments /\ ToSet(DeploymentsOf[m]) = DeploymentSet(m)
  BY <1>1 DEF DeploymentSet, ToSet, Deployments
<1>3. IsFiniteSet(DeploymentSet(m))
  BY <1>1, <1>2, FiniteRange
<1>4. m \in Single => DeploymentSet(m) = {}
  BY DEF Single, DeploymentSet
<1>5. DeploymentsOf[m] \in Seq(DeploymentSet(m))
  BY <1>1 DEF DeploymentSet
<1>6. m \notin Single => DeploymentsOf[m] # <<>>
  BY DEF Single
<1>7. ASSUME NEW n \in Models, n # m PROVE KeysOf(n) \cap KeysOf(m) = {}
  <2>1. DeploymentSet(n) \cap DeploymentSet(m) = {}
    BY <1>7, ProxyAssumption DEF DeploymentSet
  <2>2. DeploymentSet(n) \subseteq Deployments
    BY DEF Deployments
  <2>3. Deployments \cap Single = {}
    BY ProxyAssumption
  <2> QED BY <1>2, <1>7, <2>1, <2>2, <2>3 DEF KeysOf
<1> QED
  BY <1>1, <1>2, <1>3, <1>4, <1>5, <1>6, <1>7 DEF KeysOf, Keys, Candidates

\* Putting one more deployment of m among those tried counts once, against m only.
LEMMA OneMoreAttempt ==
  ASSUME NEW m \in Models, NEW A, NEW k
  PROVE  /\ Cardinality(A \cap DeploymentSet(m)) \in Nat
         /\ Cardinality((A \cup {k}) \cap DeploymentSet(m)) \in Nat
         /\ Cardinality((A \cup {k}) \cap DeploymentSet(m))
              <= Cardinality(A \cap DeploymentSet(m)) + 1
<1> DEFINE D == DeploymentSet(m)
<1>1. IsFiniteSet(A \cap D) /\ IsFiniteSet((A \cup {k}) \cap D)
  BY Config, FS_Intersection
<1>2. /\ IsFiniteSet((A \cap D) \cup {k})
      /\ Cardinality((A \cap D) \cup {k}) <= Cardinality(A \cap D) + 1
  <2> DEFINE B == A \cap D
  <2>1. IsFiniteSet(B) /\ Cardinality(B) \in Nat
    BY <1>1, FS_CardinalityType
  <2> HIDE DEF B
  <2> QED BY <2>1, FS_AddElement DEF B
<1>3. (A \cup {k}) \cap D \subseteq (A \cap D) \cup {k}
  OBVIOUS
<1>4. Cardinality((A \cup {k}) \cap D) <= Cardinality((A \cap D) \cup {k})
  BY <1>2, <1>3, FS_Subset
<1> HIDE DEF D
<1> QED BY <1>1, <1>2, <1>4, FS_CardinalityType DEF D

\* A request that has tried nothing yet.
LEMMA NothingTried ==
  ASSUME NEW r, NEW q \in RequestRecord, q.pc \in {"idle", "try", "done"},
         q.attempted = {}, q.cands = <<>>, q.visited = {},
         q.pc = "try" => q.model \in Models,
         q.answer \in {"none", "denied"}
  PROVE  AttemptOK(r, q)
<1>1. RetriesOK(q)
  <2> SUFFICES ASSUME NEW m \in Models, RetryLimit[m] > 0
               PROVE  Cardinality(q.attempted \cap DeploymentSet(m)) + Left(q, m)
                        <= RetryLimit[m] + 1
    BY DEF RetriesOK
  <2>1. q.attempted \cap DeploymentSet(m) = {}
    OBVIOUS
  <2>2. Cardinality(q.attempted \cap DeploymentSet(m)) = 0
    BY <2>1, FS_EmptySet
  <2>3. Left(q, m) = 0 /\ RetryLimit[m] \in Nat
    BY ProxyAssumption DEF Left
  <2> QED BY <2>2, <2>3
<1>2. CandidatesOK(q) /\ FilterOK(q) /\ VisitsOK(q) /\ VerdictOK(r, q)
  BY DEF CandidatesOK, FilterOK, VisitsOK, VerdictOK, Distinct, Within
<1> QED BY <1>1, <1>2 DEF AttemptOK

\* A request that tries nothing new in this step keeps what it has tried.
LEMMA NothingNew ==
  ASSUME NEW r, NEW p, NEW q \in RequestRecord, AttemptOK(r, p),
         q.attempted = p.attempted, q.cands = p.cands, q.visited = p.visited,
         q.pc \in {"try", "send", "decide", "stream", "done"},
         q.pc = "send" => p.pc = "wait" /\ q.cands # <<>> /\ q.model = p.model,
         q.pc = "decide" => p.pc = "wait" /\ q.model = p.model,
         q.pc = "try" => q.model \in Models \ q.visited,
         VerdictOK(r, q)
  PROVE  AttemptOK(r, q)
<1>1. RetriesOK(q)
  <2> SUFFICES ASSUME NEW m \in Models, RetryLimit[m] > 0
               PROVE  Cardinality(q.attempted \cap DeploymentSet(m)) + Left(q, m)
                        <= RetryLimit[m] + 1
    BY DEF RetriesOK
  <2>1. Cardinality(p.attempted \cap DeploymentSet(m)) + Left(p, m) <= RetryLimit[m] + 1
    BY DEF AttemptOK, RetriesOK
  <2>2. p \in RequestRecord
    BY DEF AttemptOK
  <2>3. Left(q, m) \in Nat /\ Left(p, m) \in Nat /\ Left(q, m) <= Left(p, m)
    BY <2>2 DEF Left, RequestRecord
  <2>4. Cardinality(p.attempted \cap DeploymentSet(m)) \in Nat /\ RetryLimit[m] \in Nat
    BY ProxyAssumption, OneMoreAttempt
  <2> QED BY <2>1, <2>3, <2>4
<1>2. CandidatesOK(q)
  BY DEF AttemptOK, CandidatesOK
<1>3. FilterOK(q)
  BY DEF FilterOK
<1>4. VisitsOK(q)
  BY DEF AttemptOK, VisitsOK
<1> QED BY <1>1, <1>2, <1>3, <1>4 DEF AttemptOK

\* No request has tried anything at the start.
LEMMA InitAttempts == Init => AttemptInv
<1> SUFFICES ASSUME Init PROVE AttemptInv
  OBVIOUS
<1>1. Idle \in RequestRecord /\ Idle.answer = "none" /\ Idle.pc = "idle"
  BY ProxyAssumption DEF Idle, RequestRecord
<1>2. ASSUME NEW r \in Requests PROVE AttemptOK(r, Idle)
  BY <1>1, NothingTried DEF Idle
<1> QED
  BY <1>1, <1>2, ProxyAssumption DEF Init, AttemptInv

\* One request moves and the others stay.
LEMMA AttemptMoves ==
  ASSUME AttemptInv, NEW r \in Requests, NEW q, Become(r, q), AttemptOK(r, q),
         rotation' \in [Models -> 0..(RotationPeriod - 1)]
  PROVE  AttemptInv'
<1>1. /\ req' \in [Requests -> RequestRecord]
      /\ req'[r] = q /\ \A s \in Requests \ {r} : req'[s] = req[s]
  BY DEF AttemptInv, AttemptOK, Become
<1>2. \A s \in Requests : AttemptOK(s, req'[s])
  BY <1>1 DEF AttemptInv
<1> QED BY <1>1, <1>2 DEF AttemptInv

\* A request arrives or a slot becomes free.
LEMMA ArriveAttempts ==
  ASSUME AttemptInv, NEW r \in Requests, Arrive(r) \/ Leave(r)
  PROVE  AttemptInv'
<1>1. rotation' \in [Models -> 0..(RotationPeriod - 1)]
  BY DEF Arrive, Leave, AttemptInv
<1>2. CASE Arrive(r)
  <2>1. PICK m \in Models :
          Become(r, IF m \in Permitted[r]
                    THEN [Idle EXCEPT !.pc = "try", !.model = m]
                    ELSE [Idle EXCEPT !.pc = "done", !.answer = "denied"])
    BY <1>2 DEF Arrive
  <2> DEFINE q == [Idle EXCEPT !.pc = "try", !.model = m]
             d == [Idle EXCEPT !.pc = "done", !.answer = "denied"]
  <2>0. /\ Idle \in RequestRecord /\ Idle.attempted = {} /\ Idle.cands = <<>>
        /\ Idle.visited = {} /\ Idle.answer = "none"
    BY ProxyAssumption DEF Idle, RequestRecord
  <2>2. /\ q \in RequestRecord /\ q.pc = "try" /\ q.model = m /\ q.answer = "none"
        /\ q.attempted = {} /\ q.cands = <<>> /\ q.visited = {}
    BY <2>0 DEF RequestRecord
  <2>3. /\ d \in RequestRecord /\ d.pc = "done" /\ d.answer = "denied"
        /\ d.attempted = {} /\ d.cands = <<>> /\ d.visited = {}
    BY <2>0 DEF RequestRecord, Answered
  <2> HIDE DEF q, d
  <2>4. AttemptOK(r, q) /\ AttemptOK(r, d)
    BY <2>2, <2>3, NothingTried
  <2> QED BY <1>1, <2>1, <2>4, AttemptMoves DEF q, d
<1>3. CASE Leave(r)
  <2>1. Idle \in RequestRecord /\ Idle.answer = "none" /\ Idle.pc = "idle"
    BY ProxyAssumption DEF Idle, RequestRecord
  <2>2. AttemptOK(r, Idle)
    BY <2>1, NothingTried DEF Idle
  <2> QED BY <1>1, <1>3, <2>2, AttemptMoves DEF Leave
<1> QED BY <1>2, <1>3

\* The model the chain has come to is new, and so are its deployments.
LEMMA TryModelAttempts ==
  ASSUME AttemptInv, NEW r \in Requests, TryModel(r)
  PROVE  AttemptInv'
<1> DEFINE p == req[r]
           m == p.model
           v == [p EXCEPT !.visited = @ \cup {m}, !.err = "none", !.status = "none"]
           send == [v EXCEPT !.cands = <<m>>, !.pc = "send"]
           filter == [v EXCEPT !.cands = <<>>, !.pc = "filter",
                               !.todo = DeploymentsOf[m]]
<1>1. Become(r, IF m \in Single THEN send ELSE filter) /\ p.pc = "try" /\ rotation' = rotation
  BY DEF TryModel, At
<1>2. AttemptOK(r, p) /\ p \in RequestRecord /\ m \in Models \ p.visited
  BY <1>1 DEF AttemptInv, AttemptOK, VisitsOK
<1>3. p.attempted \cap KeysOf(m) = {} /\ p.attempted \subseteq Keys /\ p.visited \subseteq Models
  <2>1. p.attempted \subseteq UNION {KeysOf(n) : n \in p.visited} /\ p.visited \subseteq Models
    BY <1>2 DEF AttemptOK, VisitsOK, RequestRecord
  <2>2. \A n \in p.visited : KeysOf(n) \cap KeysOf(m) = {}
    BY <1>2, <2>1, Config
  <2> QED BY <1>2, <2>1, <2>2 DEF RequestRecord
<1>4. RetriesOK(p) /\ VerdictOK(r, p)
  BY <1>2 DEF AttemptOK
<1>0. v \in RequestRecord
  BY <1>2, <1>3 DEF RequestRecord
<1>5. CASE m \in Single
  <2> DEFINE q == send
  <2>1. /\ q.pc = "send" /\ q.model = m /\ q.cands = <<m>> /\ q.attempted = p.attempted
        /\ q.visited = p.visited \cup {m} /\ q.answer = p.answer
    BY <1>2 DEF RequestRecord
  <2>2. m \in Keys /\ KeysOf(m) = {m} /\ DeploymentSet(m) = {}
    BY <1>2, <1>5, Config DEF KeysOf
  <2>3. q \in RequestRecord
    <3>1. <<m>> \in Seq(Keys)
      BY <2>2
    <3> HIDE DEF v
    <3> QED BY <1>0, <3>1 DEF RequestRecord
  <2> HIDE DEF q
  <2>4. CandidatesOK(q)
    BY <1>3, <2>1, <2>2 DEF CandidatesOK, Distinct, Within
  <2>5. FilterOK(q) /\ VisitsOK(q)
    BY <1>2, <2>1 DEF FilterOK, VisitsOK, AttemptOK
  <2>6. RetriesOK(q)
    <3> SUFFICES ASSUME NEW n \in Models, RetryLimit[n] > 0
                 PROVE  Cardinality(q.attempted \cap DeploymentSet(n)) + Left(q, n)
                          <= RetryLimit[n] + 1
      BY DEF RetriesOK
    <3>1. RetryLimit[n] \in Nat
      BY ProxyAssumption
    <3>2. CASE n = m
      <4>1. q.attempted \cap DeploymentSet(n) = {} /\ Left(q, n) = 1
        <5>1. q.pc \in {"send", "wait"} /\ q.model = n /\ Len(q.cands) = 1
          BY <2>1, <3>2
        <5> QED BY <2>2, <3>2, <5>1 DEF Left
      <4>2. Cardinality(q.attempted \cap DeploymentSet(n)) = 0
        BY <4>1, FS_EmptySet
      <4> QED BY <3>1, <4>1, <4>2
    <3>3. CASE n # m
      <4>1. Left(q, n) = 0 /\ Left(p, n) = 0
        BY <1>1, <2>1, <3>3 DEF Left
      <4> QED BY <1>4, <2>1, <4>1 DEF RetriesOK
    <3> QED BY <3>2, <3>3
  <2>7. VerdictOK(r, q)
    BY <1>4, <2>1 DEF VerdictOK
  <2>8. AttemptOK(r, q)
    BY <2>3, <2>4, <2>5, <2>6, <2>7 DEF AttemptOK
  <2>9. Become(r, q)
    BY <1>1, <1>5 DEF q
  <2> QED BY <1>1, <2>8, <2>9, AttemptMoves DEF AttemptInv
<1>6. CASE m \notin Single
  <2> DEFINE q == filter
  <2>1. /\ q.pc = "filter" /\ q.model = m /\ q.cands = <<>> /\ q.attempted = p.attempted
        /\ q.visited = p.visited \cup {m} /\ q.answer = p.answer
        /\ q.todo = DeploymentsOf[m]
    BY <1>2 DEF RequestRecord
  <2>2. DeploymentsOf[m] \in Candidates(KeysOf(m)) /\ KeysOf(m) \subseteq Keys
    BY <1>2, <1>6, Config
  <2>3. /\ DeploymentsOf[m] \in Seq(Keys) /\ Distinct(DeploymentsOf[m])
        /\ Within(DeploymentsOf[m], KeysOf(m))
    BY <2>2 DEF Candidates, Within
  <2>4. q \in RequestRecord
    <3>1. <<>> \in Seq(Keys) /\ DeploymentsOf[m] \in Seq(Keys)
      BY <2>3
    <3> HIDE DEF v
    <3> QED BY <1>0, <3>1 DEF RequestRecord
  <2> HIDE DEF q
  <2>5. CandidatesOK(q)
    BY <2>1 DEF CandidatesOK, Distinct, Within
  <2>6. FilterOK(q) /\ VisitsOK(q)
    BY <1>2, <1>3, <1>6, <2>1, <2>3 DEF FilterOK, VisitsOK, AttemptOK
  <2>7. RetriesOK(q)
    <3>1. \A n \in Models : Left(q, n) = 0 /\ Left(p, n) = 0
      BY <1>1, <2>1 DEF Left
    <3> QED BY <1>4, <2>1, <3>1 DEF RetriesOK
  <2>8. VerdictOK(r, q)
    BY <1>4, <2>1 DEF VerdictOK
  <2>9. AttemptOK(r, q)
    BY <2>4, <2>5, <2>6, <2>7, <2>8 DEF AttemptOK
  <2>10. Become(r, q)
    BY <1>1, <1>6 DEF q
  <2> QED BY <1>1, <2>9, <2>10, AttemptMoves DEF AttemptInv
<1> QED BY <1>5, <1>6

\* A deployment moves from those to look at to the candidates, or is dropped.
LEMMA FilterAttempts ==
  ASSUME AttemptInv, NEW r \in Requests, FilterNext(r)
  PROVE  AttemptInv'
<1> DEFINE p == req[r]
           k == Head(p.todo)
           cands == IF Admits(breakers[k]) /\ health[k].healthy
                    THEN Append(p.cands, k) ELSE p.cands
           q == [p EXCEPT !.todo = Tail(p.todo), !.cands = cands]
<1>1. p.pc = "filter" /\ p.todo # <<>> /\ Become(r, q) /\ rotation' = rotation
  BY DEF FilterNext, At
<1>2. AttemptOK(r, p) /\ p \in RequestRecord
  BY DEF AttemptInv, AttemptOK
<1>3. /\ p.todo \in Seq(Keys) /\ p.cands \in Seq(Keys)
      /\ Distinct(p.cands) /\ Within(p.cands, Keys \ p.attempted)
      /\ Within(p.cands, KeysOf(p.model))
      /\ p.model \notin Single /\ p.attempted \cap KeysOf(p.model) = {}
      /\ Distinct(p.todo) /\ Within(p.todo, KeysOf(p.model))
      /\ \A i \in 1..Len(p.todo) : \A j \in 1..Len(p.cands) : p.todo[i] # p.cands[j]
  BY <1>1, <1>2 DEF AttemptOK, CandidatesOK, FilterOK, RequestRecord
<1>4. /\ k \in Keys /\ k = p.todo[1] /\ 1 \in 1..Len(p.todo)
      /\ Tail(p.todo) \in Seq(Keys) /\ Len(Tail(p.todo)) = Len(p.todo) - 1
      /\ \A i \in 1..Len(Tail(p.todo)) : Tail(p.todo)[i] = p.todo[i + 1]
      /\ \A i \in 1..Len(Tail(p.todo)) : i + 1 \in 1..Len(p.todo)
  BY <1>1, <1>3
<1>5. /\ cands \in Seq(Keys) /\ Len(cands) \in {Len(p.cands), Len(p.cands) + 1}
      /\ \A i \in 1..Len(cands) : i \in 1..Len(p.cands) \/ i = Len(p.cands) + 1
      /\ \A i \in 1..Len(cands) : cands[i] = IF i \in 1..Len(p.cands) THEN p.cands[i] ELSE k
  <2>1. CASE Admits(breakers[k]) /\ health[k].healthy
    <3>1. cands = Append(p.cands, k)
      BY <2>1
    <3> HIDE DEF cands, k
    <3> QED BY <1>3, <1>4, <3>1, AppendProperties
  <2>2. CASE ~(Admits(breakers[k]) /\ health[k].healthy)
    <3>1. cands = p.cands
      BY <2>2
    <3> HIDE DEF cands, k
    <3> QED BY <1>3, <3>1
  <2> QED BY <2>1, <2>2
<1>6. /\ q \in RequestRecord /\ q.pc = "filter" /\ q.model = p.model
      /\ q.todo = Tail(p.todo) /\ q.cands = cands /\ q.attempted = p.attempted
      /\ q.visited = p.visited /\ q.answer = p.answer
  <2> HIDE DEF cands
  <2> QED BY <1>1, <1>2, <1>4, <1>5 DEF RequestRecord
<1> HIDE DEF q, cands, k
<1>7. k \in KeysOf(p.model) /\ k \notin p.attempted
  BY <1>3, <1>4 DEF Within
<1>8. \A i \in 1..Len(p.cands) : p.cands[i] # k
  BY <1>3, <1>4
<1>9. Len(p.cands) \in Nat
  BY <1>3
<1>10. CandidatesOK(q)
  <2>1. Distinct(cands)
    BY <1>3, <1>5, <1>8, <1>9 DEF Distinct
  <2>2. Within(cands, Keys \ p.attempted) /\ Within(cands, KeysOf(p.model))
    BY <1>3, <1>4, <1>5, <1>7 DEF Within
  <2> QED BY <1>6, <2>1, <2>2 DEF CandidatesOK
<1>11. FilterOK(q)
  <2>1. Distinct(Tail(p.todo)) /\ Within(Tail(p.todo), KeysOf(p.model))
    BY <1>3, <1>4 DEF Distinct, Within
  <2>2. ASSUME NEW i \in 1..Len(Tail(p.todo)), NEW j \in 1..Len(cands)
        PROVE  Tail(p.todo)[i] # cands[j]
    <3>1. Tail(p.todo)[i] = p.todo[i + 1] /\ i + 1 \in 1..Len(p.todo) /\ i + 1 # 1
      BY <1>4
    <3>2. p.todo[i + 1] # k
      BY <1>3, <1>4, <3>1 DEF Distinct
    <3> QED BY <1>3, <1>5, <3>1, <3>2
  <2> QED BY <1>3, <1>6, <2>1, <2>2 DEF FilterOK
<1>12. VisitsOK(q) /\ VerdictOK(r, q)
  BY <1>1, <1>2, <1>6 DEF AttemptOK, VisitsOK, VerdictOK
<1>13. RetriesOK(q)
  <2>1. \A n \in Models : Left(q, n) = 0 /\ Left(p, n) = 0
    BY <1>1, <1>6 DEF Left
  <2> QED BY <1>2, <1>6, <2>1 DEF AttemptOK, RetriesOK
<1>14. AttemptOK(r, q)
  BY <1>6, <1>10, <1>11, <1>12, <1>13 DEF AttemptOK
<1>15. Become(r, q)
  BY <1>1
<1> QED BY <1>1, <1>14, <1>15, AttemptMoves DEF AttemptInv

\* Ordering and truncating, and the last resort, stay within the model.
LEMMA PickAttempts ==
  ASSUME AttemptInv, NEW r \in Requests, Pick(r)
  PROVE  AttemptInv'
<1> DEFINE p == req[r]
           m == p.model
           pool == IF p.cands = <<>> THEN DeploymentsOf[m] ELSE p.cands
           latency == [k \in Keys |-> health[k].latency]
<1>1. p.pc = "filter"
  BY DEF Pick, At
<1>2. AttemptOK(r, p) /\ p \in RequestRecord
  BY DEF AttemptInv, AttemptOK
<1>3. m \in Models /\ m \in p.visited /\ m \notin Single /\ p.attempted \cap KeysOf(m) = {}
  BY <1>1, <1>2 DEF AttemptOK, VisitsOK, FilterOK, RequestRecord
<1>4. KeysOf(m) \subseteq Keys /\ DeploymentsOf[m] \in Candidates(KeysOf(m))
  BY <1>3, Config
<1>5. pool \in Candidates(KeysOf(m))
  <2>1. CASE p.cands # <<>>
    <3>1. p.cands \in Seq(Keys) /\ Distinct(p.cands) /\ Within(p.cands, KeysOf(m))
      BY <1>1, <1>2 DEF AttemptOK, CandidatesOK, RequestRecord
    <3>2. p.cands \in Seq(KeysOf(m))
      BY <3>1 DEF Within
    <3> QED BY <2>1, <3>1, <3>2 DEF Candidates
  <2> QED BY <1>4, <2>1
<1>6. PICK order \in Orderings(m, pool, rotation[m], latency) :
        Become(r, [p EXCEPT !.pc = "send", !.cands = Truncated(m, order)])
  BY DEF Pick
<1>7. rotation[m] \in Nat /\ RotationPeriod \in Nat \ {0} /\ RetryLimit[m] \in Nat
  BY <1>3, ProxyAssumption DEF AttemptInv
<1>8. rotation' \in [Models -> 0..(RotationPeriod - 1)]
  <2>1. \/ rotation' = rotation
        \/ rotation' = [rotation EXCEPT ![m] = (rotation[m] + 1) % RotationPeriod]
    BY DEF Pick
  <2>2. (rotation[m] + 1) % RotationPeriod \in 0..(RotationPeriod - 1)
    BY <1>7
  <2> QED BY <2>1, <2>2 DEF AttemptInv
<1> DEFINE cands == Truncated(m, order)
           q == [p EXCEPT !.pc = "send", !.cands = cands]
<1>9. /\ cands \in Candidates(KeysOf(m))
      /\ RetryLimit[m] > 0 => Len(cands) <= RetryLimit[m] + 1
  <2> HIDE DEF pool, latency, m
  <2>1. order \in Candidates(KeysOf(m))
    BY <1>5, <1>7, OrderingsSpread
  <2> QED BY <1>7, <2>1, TruncatedBounded
<1> HIDE DEF cands
<1>10. /\ cands \in Seq(Keys) /\ cands # <<>> /\ Distinct(cands)
       /\ Within(cands, KeysOf(m)) /\ Within(cands, Keys \ p.attempted)
  BY <1>3, <1>4, <1>9 DEF Candidates, Within
<1>11. /\ q \in RequestRecord /\ q.pc = "send" /\ q.model = m /\ q.cands = cands
       /\ q.attempted = p.attempted /\ q.visited = p.visited /\ q.answer = p.answer
  BY <1>2, <1>10 DEF RequestRecord
<1>12. Become(r, q)
  BY <1>6 DEF cands
<1> HIDE DEF q
<1>13. CandidatesOK(q) /\ FilterOK(q)
  BY <1>10, <1>11 DEF CandidatesOK, FilterOK
<1>14. VisitsOK(q) /\ VerdictOK(r, q)
  BY <1>1, <1>2, <1>11 DEF AttemptOK, VisitsOK, VerdictOK
<1>15. RetriesOK(q)
  <2> SUFFICES ASSUME NEW n \in Models, RetryLimit[n] > 0
               PROVE  Cardinality(q.attempted \cap DeploymentSet(n)) + Left(q, n)
                        <= RetryLimit[n] + 1
    BY DEF RetriesOK
  <2>1. CASE n = m
    <3>1. q.attempted \cap DeploymentSet(n) = {}
      BY <1>3, <1>11, <2>1, Config
    <3>2. Cardinality(q.attempted \cap DeploymentSet(n)) = 0
      BY <3>1, FS_EmptySet
    <3>3. Left(q, n) = Len(cands) /\ Len(cands) \in Nat
      BY <1>10, <1>11, <2>1 DEF Left
    <3> QED BY <1>9, <2>1, <3>2, <3>3
  <2>2. CASE n # m
    <3>1. Left(q, n) = 0 /\ Left(p, n) = 0
      BY <1>1, <1>11, <2>2 DEF Left
    <3> QED BY <1>2, <1>11, <3>1 DEF AttemptOK, RetriesOK
  <2> QED BY <2>1, <2>2
<1>16. AttemptOK(r, q)
  BY <1>11, <1>13, <1>14, <1>15 DEF AttemptOK
<1> QED BY <1>8, <1>12, <1>16, AttemptMoves

\* The head of the candidates becomes an attempt.
LEMMA SendAttempts ==
  ASSUME AttemptInv, NEW r \in Requests, Send(r)
  PROVE  AttemptInv'
<1> DEFINE p == req[r]
           m == p.model
           k == Head(p.cands)
           q == [p EXCEPT !.pc = "wait", !.dep = k,
                          !.attempted = p.attempted \cup {k}, !.cands = Tail(p.cands)]
<1>1. p.pc = "send" /\ Become(r, q) /\ rotation' = rotation
  BY DEF Send, At
<1>2. AttemptOK(r, p) /\ p \in RequestRecord
  BY DEF AttemptInv, AttemptOK
<1>3. /\ p.cands \in Seq(Keys) /\ p.cands # <<>> /\ Distinct(p.cands)
      /\ Within(p.cands, Keys \ p.attempted) /\ Within(p.cands, KeysOf(m))
      /\ m \in Models /\ m \in p.visited
  BY <1>1, <1>2 DEF AttemptOK, CandidatesOK, VisitsOK, RequestRecord
<1>4. /\ k \in Keys /\ k = p.cands[1] /\ 1 \in 1..Len(p.cands)
      /\ Tail(p.cands) \in Seq(Keys) /\ Len(Tail(p.cands)) = Len(p.cands) - 1
      /\ \A i \in 1..Len(Tail(p.cands)) :
           Tail(p.cands)[i] = p.cands[i + 1] /\ i + 1 \in 1..Len(p.cands) /\ i + 1 # 1
  BY <1>3
<1>5. k \in KeysOf(m)
  BY <1>3, <1>4 DEF Within
<1>6. /\ q \in RequestRecord /\ q.pc = "wait" /\ q.model = m /\ q.cands = Tail(p.cands)
      /\ q.attempted = p.attempted \cup {k} /\ q.visited = p.visited /\ q.answer = p.answer
  BY <1>2, <1>4 DEF RequestRecord
<1> HIDE DEF q, k
<1>7. CandidatesOK(q)
  <2>1. \A i \in 1..Len(Tail(p.cands)) : Tail(p.cands)[i] # k
    BY <1>3, <1>4 DEF Distinct
  <2> QED BY <1>3, <1>4, <1>6, <2>1 DEF CandidatesOK, Distinct, Within
<1>8. FilterOK(q) /\ VerdictOK(r, q)
  BY <1>1, <1>2, <1>6 DEF FilterOK, AttemptOK, VerdictOK
<1>9. VisitsOK(q)
  <2>1. p.attempted \subseteq UNION {KeysOf(n) : n \in p.visited}
    BY <1>2 DEF AttemptOK, VisitsOK
  <2>2. k \in UNION {KeysOf(n) : n \in p.visited}
    BY <1>3, <1>5
  <2> QED BY <1>3, <1>6, <2>1, <2>2 DEF VisitsOK
<1>10. RetriesOK(q)
  <2> SUFFICES ASSUME NEW n \in Models, RetryLimit[n] > 0
               PROVE  Cardinality(q.attempted \cap DeploymentSet(n)) + Left(q, n)
                        <= RetryLimit[n] + 1
    BY DEF RetriesOK
  <2>1. /\ Cardinality(p.attempted \cap DeploymentSet(n)) + Left(p, n) <= RetryLimit[n] + 1
        /\ RetryLimit[n] \in Nat
    BY <1>2, ProxyAssumption DEF AttemptOK, RetriesOK
  <2>2. /\ Cardinality(p.attempted \cap DeploymentSet(n)) \in Nat
        /\ Cardinality(q.attempted \cap DeploymentSet(n)) \in Nat
        /\ Cardinality(q.attempted \cap DeploymentSet(n))
             <= Cardinality(p.attempted \cap DeploymentSet(n)) + 1
    BY <1>6, OneMoreAttempt
  <2>3. CASE n = m
    <3>1. Left(p, n) = Len(p.cands) /\ Left(q, n) = Len(p.cands) - 1 /\ Len(p.cands) \in Nat
      BY <1>1, <1>3, <1>4, <1>6, <2>3 DEF Left
    <3> QED BY <2>1, <2>2, <3>1
  <2>4. CASE n # m
    <3>1. k \notin DeploymentSet(n)
      BY <1>3, <1>5, <2>4, Config
    <3>2. q.attempted \cap DeploymentSet(n) = p.attempted \cap DeploymentSet(n)
      BY <1>6, <3>1
    <3>3. Left(q, n) = 0 /\ Left(p, n) = 0
      BY <1>1, <1>6, <2>4 DEF Left
    <3>4. Cardinality(q.attempted \cap DeploymentSet(n))
            = Cardinality(p.attempted \cap DeploymentSet(n))
      BY <3>2, Zenon
    <3> QED BY <2>1, <2>2, <3>3, <3>4
  <2> QED BY <2>3, <2>4
<1>11. AttemptOK(r, q)
  BY <1>6, <1>7, <1>8, <1>9, <1>10 DEF AttemptOK
<1>12. Become(r, q)
  BY <1>1
<1> QED BY <1>1, <1>11, <1>12, AttemptMoves DEF AttemptInv

\* An answer of a deployment, and what the request makes of it.
LEMMA WaitAttempts ==
  ASSUME AttemptInv, NEW r \in Requests,
         TransportFails(r) \/ RetryNext(r) \/ KeepResponse(r)
  PROVE  AttemptInv'
<1> DEFINE p == req[r]
<1>1. p.pc = "wait" /\ rotation' = rotation
  BY DEF TransportFails, RetryNext, KeepResponse, At
<1>2. AttemptOK(r, p) /\ p \in RequestRecord
  BY DEF AttemptInv, AttemptOK
<1>3. p.attempted # {} /\ p.answer # "circuit_open"
  BY <1>1, <1>2 DEF AttemptOK, VerdictOK
<1>4. CASE TransportFails(r)
  <2>1. PICK e \in Errors : Become(r, [p EXCEPT !.pc = NextOrDecide(r), !.err = e])
    BY <1>4 DEF TransportFails
  <2> DEFINE q == [p EXCEPT !.pc = NextOrDecide(r), !.err = e]
  <2>2. NextOrDecide(r) \in {"decide", "send"} /\ (NextOrDecide(r) = "decide" <=> p.cands = <<>>)
    BY DEF NextOrDecide
  <2>3. /\ q \in RequestRecord /\ q.pc = NextOrDecide(r) /\ q.model = p.model
        /\ q.cands = p.cands /\ q.attempted = p.attempted /\ q.visited = p.visited
        /\ q.answer = p.answer /\ q.err = e
    BY <1>2, <2>1, <2>2 DEF RequestRecord
  <2>4. e # "none"
    BY <2>1 DEF Errors
  <2>5. Become(r, q)
    BY <2>1
  <2> HIDE DEF q
  <2>6. VerdictOK(r, q)
    BY <1>3, <2>2, <2>3, <2>4 DEF VerdictOK
  <2>7. AttemptOK(r, q)
    <3> HIDE DEF p
    <3> QED BY <1>1, <1>2, <2>2, <2>3, <2>6, NothingNew
  <2> QED BY <1>1, <2>5, <2>7, AttemptMoves DEF AttemptInv
<1>5. CASE RetryNext(r)
  <2> DEFINE q == [p EXCEPT !.pc = "send", !.err = "error"]
  <2>1. Become(r, q) /\ p.cands # <<>>
    BY <1>5 DEF RetryNext
  <2>2. /\ q \in RequestRecord /\ q.pc = "send" /\ q.model = p.model
        /\ q.cands = p.cands /\ q.attempted = p.attempted /\ q.visited = p.visited
        /\ q.answer = p.answer
    BY <1>2 DEF RequestRecord, Errors
  <2> HIDE DEF q
  <2>3. VerdictOK(r, q)
    BY <1>3, <2>2 DEF VerdictOK
  <2>4. AttemptOK(r, q)
    <3> HIDE DEF p
    <3> QED BY <1>1, <1>2, <2>1, <2>2, <2>3, NothingNew
  <2> QED BY <1>1, <2>1, <2>4, AttemptMoves DEF AttemptInv
<1>6. CASE KeepResponse(r)
  <2>1. PICK o \in Response :
          /\ ~(Retryable(o.status) /\ p.cands # <<>>)
          /\ Become(r, [p EXCEPT !.pc = "decide", !.status = o.status, !.sse = o.sse])
    BY <1>6 DEF KeepResponse
  <2> DEFINE q == [p EXCEPT !.pc = "decide", !.status = o.status, !.sse = o.sse]
  <2>2. o.status \in Statuses /\ o.sse \in BOOLEAN /\ o.status # "none"
    BY DEF Response, Statuses
  <2>3. /\ q \in RequestRecord /\ q.pc = "decide" /\ q.model = p.model
        /\ q.cands = p.cands /\ q.attempted = p.attempted /\ q.visited = p.visited
        /\ q.answer = p.answer /\ q.status = o.status
    BY <1>2, <2>2 DEF RequestRecord
  <2>4. Become(r, q)
    BY <2>1
  <2> HIDE DEF q
  <2>5. VerdictOK(r, q)
    BY <1>3, <2>1, <2>2, <2>3 DEF VerdictOK, Retryable
  <2>6. AttemptOK(r, q)
    <3> HIDE DEF p
    <3> QED BY <1>1, <1>2, <2>3, <2>5, NothingNew
  <2> QED BY <1>1, <2>4, <2>6, AttemptMoves DEF AttemptInv
<1> QED BY <1>4, <1>5, <1>6

\* The chain goes on, or the client is answered.
LEMMA DecideAttempts ==
  ASSUME AttemptInv, ChainInv, NEW r \in Requests, FallBack(r) \/ Respond(r)
  PROVE  AttemptInv'
<1> DEFINE p == req[r]
<1>1. p.pc = "decide" /\ rotation' = rotation
  BY DEF FallBack, Respond, At
<1>2. AttemptOK(r, p) /\ p \in RequestRecord
  BY DEF AttemptInv, AttemptOK
<1>3. /\ p.attempted # {} /\ p.answer # "circuit_open"
      /\ p.status = "none" => p.err # "none"
      /\ p.status \in {"none", "503"} => p.cands = <<>>
  BY <1>1, <1>2 DEF AttemptOK, VerdictOK
<1>4. p.model \in Models /\ p.model \in p.visited /\ p.err \in Errors \cup {"none"}
  BY <1>1, <1>2 DEF AttemptOK, VisitsOK, RequestRecord
<1>5. CASE FallBack(r)
  <2> DEFINE n == NextModel(p)
             q == [p EXCEPT !.pc = "try", !.model = n, !.depth = @ + 1, !.status = "none",
                            !.sse = FALSE]
  <2>1. Become(r, q) /\ n # NoModel /\ n \notin p.visited /\ p.depth < MaxDepth
    BY <1>5 DEF FallBack, Hops, HasFallback, DepthLeft
  <2>2. n \in Models
    BY <1>4, <2>1, ProxyAssumption DEF NextModel
  <2>3. /\ q \in RequestRecord /\ q.pc = "try" /\ q.model = n
        /\ q.cands = p.cands /\ q.attempted = p.attempted /\ q.visited = p.visited
        /\ q.answer = p.answer
    <3>1. p.depth + 1 \in 0..MaxDepth
      BY <1>2, <2>1, ProxyAssumption DEF RequestRecord
    <3> QED BY <1>2, <2>2, <3>1 DEF RequestRecord
  <2> HIDE DEF q
  <2>4. VerdictOK(r, q)
    BY <1>3, <2>3 DEF VerdictOK
  <2>5. AttemptOK(r, q)
    <3> HIDE DEF p
    <3> QED BY <1>1, <1>2, <2>1, <2>2, <2>3, <2>4, NothingNew
  <2> QED BY <1>1, <2>1, <2>5, AttemptMoves DEF AttemptInv
<1>6. CASE Respond(r)
  <2>1. ~Hops(r)
    BY <1>6 DEF Respond
  <2>2. p.status \in {"none", "501", "503"} =>
          \/ p.err = "timeout"
          \/ NextModel(p) \in p.visited \cup {NoModel}
          \/ NextModel(p) \notin Permitted[r]
          \/ Cardinality(p.visited) > MaxDepth
    <3> SUFFICES ASSUME p.status \in {"none", "501", "503"}, p.err # "timeout"
                 PROVE  \/ NextModel(p) \in p.visited \cup {NoModel}
                        \/ NextModel(p) \notin Permitted[r]
                        \/ Cardinality(p.visited) > MaxDepth
      OBVIOUS
    <3>1. ~Usable(p) /\ Eligible(p)
      BY <1>3, <1>4 DEF Usable, Eligible, Is5xx, Errors
    <3>2. ~HasFallback(p) \/ ~DepthLeft(p) \/ NextModel(p) \notin Permitted[r]
      BY <2>1, <3>1 DEF Hops
    <3>3. p.depth \in 0..MaxDepth /\ MaxDepth \in Nat /\ Cardinality(p.visited) = p.depth + 1
      BY <1>1, ProxyAssumption DEF ChainInv, ChainOK, Trying
    <3> QED BY <3>2, <3>3 DEF HasFallback, DepthLeft
  <2>3. ASSUME NEW a \in Answered, a # "circuit_open",
               Become(r, [p EXCEPT !.pc = "done", !.answer = a]),
               a = "unavailable" => p.status = "none",
               a \in {"501", "503"} => a = p.status
        PROVE  AttemptInv'
    <3> DEFINE q == [p EXCEPT !.pc = "done", !.answer = a]
    <3>1. /\ q \in RequestRecord /\ q.pc = "done" /\ q.model = p.model
          /\ q.cands = p.cands /\ q.attempted = p.attempted /\ q.visited = p.visited
          /\ q.answer = a /\ q.status = p.status /\ q.err = p.err
      BY <1>2, <2>3 DEF RequestRecord
    <3>2. Become(r, q)
      BY <2>3
    <3> HIDE DEF q
    <3>3. VerdictOK(r, q)
      BY <1>3, <2>2, <2>3, <3>1 DEF VerdictOK, NextModel
    <3>4. AttemptOK(r, q)
      <4> HIDE DEF p
      <4> QED BY <1>1, <1>2, <3>1, <3>3, NothingNew
    <3> QED BY <1>1, <3>2, <3>4, AttemptMoves DEF AttemptInv
  <2>4. CASE p.status = "none"
    <3>1. Become(r, [p EXCEPT !.pc = "done", !.answer = "unavailable"])
      BY <1>3, <1>6, <2>4 DEF Respond
    <3>2. "unavailable" \in Answered
      BY DEF Answered
    <3> QED BY <2>3, <2>4, <3>1, <3>2
  <2>5. CASE p.status # "none" /\ ~p.sse
    <3>1. PICK a \in {p.status, "body_failed"} :
            Become(r, [p EXCEPT !.pc = "done", !.answer = a])
      BY <1>6, <2>5 DEF Respond
    <3>2. a \in Answered /\ a # "circuit_open" /\ a # "unavailable"
      BY <1>2, <2>5 DEF RequestRecord, Statuses, Answered
    <3> QED BY <2>3, <3>1, <3>2
  <2>6. CASE p.status # "none" /\ p.sse
    <3> DEFINE q == [p EXCEPT !.pc = "stream"]
    <3>1. Become(r, q)
      BY <1>6, <2>6 DEF Respond
    <3>2. /\ q \in RequestRecord /\ q.pc = "stream" /\ q.model = p.model
          /\ q.cands = p.cands /\ q.attempted = p.attempted /\ q.visited = p.visited
          /\ q.answer = p.answer
      BY <1>2 DEF RequestRecord
    <3> HIDE DEF q
    <3>3. VerdictOK(r, q)
      BY <1>3, <3>2 DEF VerdictOK
    <3>4. AttemptOK(r, q)
      <4> HIDE DEF p
      <4> QED BY <1>1, <1>2, <3>2, <3>3, NothingNew
    <3> QED BY <1>1, <3>1, <3>4, AttemptMoves DEF AttemptInv
  <2> QED BY <1>2, <2>4, <2>5, <2>6 DEF RequestRecord
<1> QED BY <1>5, <1>6

\* A request that was rejected or whose stream ended answers for itself.
LEMMA EndAttempts ==
  ASSUME AttemptInv, NEW r \in Requests, BuildFails(r) \/ StreamEnds(r)
  PROVE  AttemptInv'
<1> DEFINE p == req[r]
<1>1. p.pc \in {"send", "stream"} /\ rotation' = rotation
  BY DEF BuildFails, StreamEnds, At
<1>2. AttemptOK(r, p) /\ p \in RequestRecord
  BY DEF AttemptInv, AttemptOK
<1>3. PICK a \in {"bad_request", "done", "eof", "aborted", "client_left"} :
        Become(r, [p EXCEPT !.pc = "done", !.answer = a])
  BY DEF BuildFails, StreamEnds
<1> DEFINE q == [p EXCEPT !.pc = "done", !.answer = a]
<1>4. /\ q \in RequestRecord /\ q.pc = "done" /\ q.model = p.model
      /\ q.cands = p.cands /\ q.attempted = p.attempted /\ q.visited = p.visited
      /\ q.answer = a
  BY ZenonT(30), <1>2 DEF RequestRecord, Answered
<1>5. Become(r, q)
  BY <1>3
<1> HIDE DEF q
<1>6. VerdictOK(r, q)
  BY <1>4 DEF VerdictOK
<1>7. AttemptOK(r, q)
  <2> HIDE DEF p
  <2> QED BY <1>2, <1>4, <1>6, NothingNew
<1> QED BY <1>1, <1>5, <1>7, AttemptMoves DEF AttemptInv

\* No step of any request, or of the environment, breaks the invariant.
LEMMA NextAttempts == AttemptInv /\ ChainInv /\ [Next]_vars => AttemptInv'
<1> SUFFICES ASSUME AttemptInv, ChainInv, [Next]_vars PROVE AttemptInv'
  OBVIOUS
<1>1. CASE UNCHANGED <<req, rotation>>
  BY <1>1 DEF AttemptInv
<1>2. ASSUME NEW k, Cools(k) \/ Outage(k) \/ Repaired(k) \/ HealthProbed(k)
      PROVE  AttemptInv'
  BY <1>1, <1>2 DEF Cools, Outage, Repaired, HealthProbed
<1>3. CASE UNCHANGED vars
  BY <1>1, <1>3 DEF vars
<1> QED
  BY <1>2, <1>3, ArriveAttempts, TryModelAttempts, FilterAttempts, PickAttempts,
     SendAttempts, WaitAttempts, DecideAttempts, EndAttempts DEF Next, Progress

\* The environment's part of the state.
EnvironmentOK == /\ health \in [Keys -> [healthy : BOOLEAN, latency : Nat]]
                 /\ down \subseteq Keys /\ outages \in 0..MaxOutages

\* What is outside the requests keeps its type.
LEMMA NextEnvironment == EnvironmentOK /\ [Next]_vars => EnvironmentOK'
<1> SUFFICES ASSUME EnvironmentOK, [Next]_vars PROVE EnvironmentOK'
  OBVIOUS
<1> USE DEF EnvironmentOK, environment
<1>1. CASE UNCHANGED environment
  BY <1>1
<1>2. ASSUME NEW k, HealthProbed(k) PROVE EnvironmentOK'
  BY <1>2, ProxyAssumption DEF HealthProbed
<1>3. ASSUME NEW k \in Keys, Outage(k) \/ Repaired(k) PROVE EnvironmentOK'
  BY <1>3, ProxyAssumption DEF Outage, Repaired
<1>4. ASSUME NEW r \in Requests, Arrive(r) \/ Progress(r) \/ BuildFails(r) \/ Leave(r)
      PROVE  UNCHANGED environment
  BY <1>4 DEF Arrive, Progress, BuildFails, Leave, TryModel, FilterNext, Pick, Send,
     TransportFails, RetryNext, KeepResponse, FallBack, Respond, StreamEnds
<1>5. ASSUME NEW k \in Keys, Cools(k) PROVE UNCHANGED environment
  BY <1>5 DEF Cools
<1> QED
  BY <1>1, <1>2, <1>3, <1>4, <1>5 DEF Next, vars

\* The four parts together are inductive.
RequestInv == BreakersInv /\ ChainInv /\ AttemptInv /\ EnvironmentOK

\* In every reachable state, whatever the configuration.
LEMMA RequestInvariant == Spec => []RequestInv
<1>1. Init => RequestInv
  <2> SUFFICES ASSUME Init PROVE EnvironmentOK
    BY InitBreakers, InitChain, InitAttempts DEF RequestInv
  <2> QED BY ProxyAssumption DEF Init, EnvironmentOK
<1>2. RequestInv /\ [Next]_vars => RequestInv'
  BY NextBreakers, NextChain, NextAttempts, NextEnvironment DEF RequestInv
<1> QED
  BY <1>1, <1>2, PTL DEF Spec

\* The state of the proxy path keeps its types.
THEOREM ProxyTyped == Spec => []TypeOK
<1>1. RequestInv => TypeOK
  <2> SUFFICES ASSUME RequestInv PROVE TypeOK
    OBVIOUS
  <2> QED BY DEF TypeOK, RequestInv, BreakersInv, AttemptInv, EnvironmentOK
<1> QED
  BY <1>1, RequestInvariant, PTL

\* No deployment is tried twice for one request, whatever the strategies, the
\* retry limits and the fallback chains, cycles included.
THEOREM NoAttemptRepeated == Spec => []EveryAttemptIsFresh
<1>1. RequestInv => EveryAttemptIsFresh
  BY DEF RequestInv, AttemptInv, AttemptOK, CandidatesOK, Distinct, Within, EveryAttemptIsFresh
<1> QED
  BY <1>1, RequestInvariant, PTL

\* Every request stays within its chain and its retries, and fails only when
\* both are used up.
THEOREM PolicyKept == Spec => []AttemptsFollowPolicy
<1>1. RequestInv => ChainWithinPolicy
  BY ChainPolicy DEF RequestInv
<1>2. RequestInv => RetriesWithinLimit
  <2> SUFFICES ASSUME RequestInv, NEW r \in Requests, NEW m \in Models, RetryLimit[m] > 0
               PROVE  Cardinality(req[r].attempted \cap DeploymentSet(m)) <= RetryLimit[m] + 1
    BY DEF RetriesWithinLimit
  <2>1. /\ req[r] \in RequestRecord
        /\ Cardinality(req[r].attempted \cap DeploymentSet(m)) + Left(req[r], m)
             <= RetryLimit[m] + 1
    BY DEF RequestInv, AttemptInv, AttemptOK, RetriesOK
  <2>2. Left(req[r], m) \in Nat
    BY <2>1 DEF Left, RequestRecord
  <2>3. /\ Cardinality(req[r].attempted \cap DeploymentSet(m)) \in Nat
        /\ RetryLimit[m] \in Nat
    BY OneMoreAttempt, ProxyAssumption
  <2> QED BY <2>1, <2>2, <2>3
<1>3. RequestInv => FailsOnlyWhenExhausted
  BY DEF RequestInv, AttemptInv, AttemptOK, VerdictOK, FailsOnlyWhenExhausted
<1>4. RequestInv => AttemptsFollowPolicy
  BY <1>1, <1>2, <1>3 DEF AttemptsFollowPolicy
<1> QED
  BY <1>4, RequestInvariant, PTL

\* The general form of what ProxyOpenCircuit shows: however open the breakers of its
\* models are, a request that gets as far as a decision has reached an upstream.
THEOREM NobodyTurnedAway == Spec => []NeverTurnedAway
<1>1. RequestInv => NeverTurnedAway
  BY DEF RequestInv, AttemptInv, AttemptOK, VerdictOK, NeverTurnedAway
<1> QED
  BY <1>1, RequestInvariant, PTL

-----------------------------------------------------------------------------
(***************************************************************************)
(* One breaker with callers that keep its contract, CircuitBreaker, for    *)
(* every threshold, probe limit and set of callers.  The inductive         *)
(* invariant is the type, the agreement of the breaker's fields, and the   *)
(* outstanding probe of a half-open breaker.                               *)
(***************************************************************************)

\* The three methods and the clock keep the type of a breaker.
LEMMA BreakerTypes ==
  ASSUME NEW b \in BreakerRecord, BreakerConsistent(b)
  PROVE  /\ AfterAllow(b) \in BreakerRecord
         /\ AfterSuccess(b) \in BreakerRecord
         /\ AfterFailure(b) \in BreakerRecord
         /\ AfterWait(b) \in BreakerRecord
<1>1. /\ b.state \in BreakerState /\ b.failures \in 0..Threshold
      /\ b.halfOpenActive \in 0..HalfOpenMax /\ b.cooled \in BOOLEAN
  BY DEF BreakerRecord
<1>2. /\ "closed" \in BreakerState /\ "open" \in BreakerState /\ "half_open" \in BreakerState
      /\ 0 \in 0..Threshold /\ 1 \in 0..HalfOpenMax
      /\ Released(b.halfOpenActive) \in 0..HalfOpenMax
  BY <1>1, BreakerAssumption DEF BreakerState, Released
<1>3. b.state = "closed" => b.failures + 1 \in 0..Threshold
  BY <1>1, BreakerAssumption DEF BreakerConsistent
<1>4. b.halfOpenActive < HalfOpenMax => b.halfOpenActive + 1 \in 0..HalfOpenMax
  BY <1>1, BreakerAssumption
<1>5. AfterAllow(b) \in BreakerRecord
  BY <1>1, <1>2, <1>4 DEF AfterAllow, BreakerRecord
<1>6. AfterSuccess(b) \in BreakerRecord
  BY <1>1, <1>2 DEF AfterSuccess, BreakerRecord
<1>7. AfterFailure(b) \in BreakerRecord
  BY <1>1, <1>2, <1>3 DEF AfterFailure, BreakerRecord
<1>8. AfterWait(b) \in BreakerRecord
  BY DEF AfterWait, BreakerRecord
<1> QED BY <1>5, <1>6, <1>7, <1>8

\* They keep its fields in agreement too, whatever state a report arrives in.
LEMMA BreakerSteps ==
  ASSUME NEW b \in BreakerRecord, BreakerConsistent(b)
  PROVE  /\ BreakerConsistent(AfterAllow(b))
         /\ BreakerConsistent(AfterSuccess(b))
         /\ BreakerConsistent(AfterFailure(b))
         /\ Hot(b) => BreakerConsistent(AfterWait(b))
<1> USE BreakerAssumption DEF BreakerRecord, BreakerState, BreakerConsistent
<1>1. BreakerConsistent(AfterAllow(b))
  BY DEF AfterAllow
<1>2. BreakerConsistent(AfterSuccess(b))
  BY DEF AfterSuccess
<1>3. BreakerConsistent(AfterFailure(b))
  BY DEF AfterFailure
<1>4. Hot(b) => BreakerConsistent(AfterWait(b))
  BY DEF Hot, AfterWait
<1> QED BY <1>1, <1>2, <1>3, <1>4
-----------------------------------------------------------------------------

IInv == BreakerTypeOK /\ Consistent /\ ProbeOutstanding

\* A new breaker is closed and nobody has been admitted.
LEMMA InitInvariant == BreakerInit => IInv
BY BreakerAssumption DEF BreakerInit, IInv, BreakerTypeOK, Consistent, ProbeOutstanding,
   NewBreaker, BreakerRecord, BreakerState, BreakerConsistent

\* Every method and every tick of the clock keeps the breaker consistent.
LEMMA NextInvariant == IInv /\ [BreakerNext]_breakerVars => IInv'
<1> SUFFICES ASSUME IInv, [BreakerNext]_breakerVars PROVE IInv'
  OBVIOUS
<1> USE DEF IInv, BreakerTypeOK, Consistent
<1>1. CASE TimeoutElapses
  <2>1. BreakerTypeOK' /\ Consistent'
    BY <1>1, BreakerTypes, BreakerSteps DEF TimeoutElapses
  <2>2. ProbeOutstanding'
    BY <1>1 DEF TimeoutElapses, ProbeOutstanding, Hot, AfterWait, BreakerRecord, BreakerState
  <2> QED BY <2>1, <2>2
<1>2. ASSUME NEW c \in Callers, Allow(c) PROVE IInv'
  <2>1. BreakerTypeOK' /\ Consistent'
    BY <1>2, BreakerTypes, BreakerSteps DEF Allow
  <2>2. ProbeOutstanding'
    BY <1>2 DEF Allow, ProbeOutstanding, Admits, AfterAllow, BreakerRecord, BreakerState
  <2> QED BY <2>1, <2>2
<1>3. ASSUME NEW c \in Callers, RecordSuccess(c) PROVE IInv'
  <2>1. BreakerTypeOK' /\ Consistent'
    BY <1>3, BreakerTypes, BreakerSteps DEF RecordSuccess
  <2>2. breaker'.state # "half_open"
    BY <1>3 DEF RecordSuccess, AfterSuccess, BreakerRecord, BreakerState
  <2> QED BY <2>1, <2>2 DEF ProbeOutstanding
<1>4. ASSUME NEW c \in Callers, RecordFailure(c) PROVE IInv'
  <2>1. BreakerTypeOK' /\ Consistent'
    BY <1>4, BreakerTypes, BreakerSteps DEF RecordFailure
  <2>2. breaker'.state # "half_open"
    BY <1>4 DEF RecordFailure, AfterFailure, BreakerRecord, BreakerState
  <2> QED BY <2>1, <2>2 DEF ProbeOutstanding
<1>5. CASE UNCHANGED breakerVars
  BY <1>5 DEF breakerVars, ProbeOutstanding
<1> QED
  BY <1>1, <1>2, <1>3, <1>4, <1>5 DEF BreakerNext, Rejected

\* In no order of calls and reports do the fields of the breaker disagree (breaker.go).
THEOREM Invariance == BreakerSpec => []IInv
<1>1. BreakerInit => IInv
  BY InitInvariant
<1>2. IInv /\ [BreakerNext]_breakerVars => IInv'
  BY NextInvariant
<1> QED
  BY <1>1, <1>2, PTL DEF BreakerSpec

\* The state of the breaker is always a well-formed record.
THEOREM TypeCorrectness == BreakerSpec => []BreakerTypeOK
BY Invariance, PTL DEF IInv

\* Whatever order late reports arrive in, the fields of the breaker agree.
THEOREM FieldsAgree == BreakerSpec => []Consistent
BY Invariance, PTL DEF IInv

\* A half-open breaker has a probe outstanding that will move it on, as long
\* as every admitted caller reports.
THEOREM ProbeAlwaysOutstanding == BreakerSpec => []ProbeOutstanding
BY Invariance, PTL DEF IInv

\* Late failures do not push the recovery timer of an open breaker forward.
THEOREM RecoveryTimerKept == BreakerSpec => RecoveryNotPostponed
<1>1. IInv /\ [BreakerNext]_breakerVars =>
        [breaker.state = "open" /\ breaker.cooled => ~Hot(breaker)']_breakerVars
  <2> SUFFICES ASSUME IInv, BreakerNext, breaker.state = "open", breaker.cooled
               PROVE  ~Hot(breaker)'
    OBVIOUS
  <2> USE DEF IInv, BreakerTypeOK, BreakerRecord, BreakerState, Hot
  <2>1. CASE TimeoutElapses
    BY <2>1 DEF TimeoutElapses
  <2>2. ASSUME NEW c \in Callers, Allow(c) PROVE ~Hot(breaker)'
    BY <2>2 DEF Allow, AfterAllow
  <2>3. ASSUME NEW c \in Callers, Rejected(c) PROVE ~Hot(breaker)'
    BY <2>3 DEF Rejected, breakerVars
  <2>4. ASSUME NEW c \in Callers, RecordSuccess(c) PROVE ~Hot(breaker)'
    BY <2>4 DEF RecordSuccess, AfterSuccess
  <2>5. ASSUME NEW c \in Callers, RecordFailure(c) PROVE ~Hot(breaker)'
    BY <2>5 DEF RecordFailure, AfterFailure
  <2> QED BY <2>1, <2>2, <2>3, <2>4, <2>5 DEF BreakerNext
<1> QED
  BY <1>1, Invariance, PTL DEF BreakerSpec, RecoveryNotPostponed

\* The breaker, used by callers who report, implements the three-state machine
\* its package describes: initial states map to initial states, and every step
\* is a step of the contract or leaves it unchanged.
THEOREM Refinement == BreakerSpec => ImplementsContract
<1> USE DEF Contract!contractVars
<1>1. BreakerInit => Contract!ContractInit
  BY DEF BreakerInit, NewBreaker, Admitted, Contract!ContractInit
<1>2. IInv /\ [BreakerNext]_breakerVars => [Contract!ContractNext]_(Contract!contractVars)
  <2> SUFFICES ASSUME IInv, [BreakerNext]_breakerVars
               PROVE  [Contract!ContractNext]_(Contract!contractVars)
    OBVIOUS
  <2> USE DEF IInv, BreakerTypeOK, BreakerRecord, BreakerState, Admitted
  <2>1. CASE TimeoutElapses
    BY <2>1 DEF TimeoutElapses, AfterWait
  <2>2. ASSUME NEW c \in Callers, Allow(c)
        PROVE  [Contract!ContractNext]_(Contract!contractVars)
    <3>1. Admitted' = Admitted \cup {c}
      BY <2>2 DEF Allow
    <3>2. CASE breaker.state = "closed"
      BY <2>2, <3>1, <3>2 DEF Allow, AfterAllow, Contract!ContractNext, Contract!Pass
    <3>3. CASE breaker.state # "closed"
      BY <2>2, <3>1, <3>3 DEF Allow, Admits, AfterAllow, Contract!ContractNext, Contract!Probe
    <3> QED BY <3>2, <3>3
  <2>3. ASSUME NEW c \in Callers, Rejected(c)
        PROVE  [Contract!ContractNext]_(Contract!contractVars)
    BY <2>3 DEF Rejected, breakerVars
  <2>4. ASSUME NEW c \in Callers, RecordSuccess(c)
        PROVE  [Contract!ContractNext]_(Contract!contractVars)
    <3>1. Admitted' = Admitted \ {c} /\ c \in Admitted
      BY <2>4 DEF RecordSuccess
    <3> QED
      BY <2>4, <3>1 DEF RecordSuccess, AfterSuccess, Contract!ContractNext, Contract!Succeed
  <2>5. ASSUME NEW c \in Callers, RecordFailure(c)
        PROVE  [Contract!ContractNext]_(Contract!contractVars)
    <3>1. Admitted' = Admitted \ {c} /\ c \in Admitted
      BY <2>5 DEF RecordFailure
    <3> QED
      BY <2>5, <3>1 DEF RecordFailure, AfterFailure, Contract!ContractNext, Contract!Fail
  <2>6. CASE UNCHANGED breakerVars
    BY <2>6 DEF breakerVars
  <2> QED BY <2>1, <2>2, <2>3, <2>4, <2>5, <2>6 DEF BreakerNext
<1> QED
  BY <1>1, <1>2, Invariance, PTL DEF BreakerSpec, ImplementsContract, Contract!ContractSpec

=============================================================================
