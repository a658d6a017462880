--------------------------- MODULE MCProxyRequest ---------------------------
(***************************************************************************)
(* Instances of ProxyRequest.  A model with two or three deployments and   *)
(* models with none, chained in a ring so that the chain must be cut; one  *)
(* key may use every model, another may not use one of them.               *)
(***************************************************************************)
EXTENDS ProxyRequest, TLC

CONSTANTS big, small, tiny, d1, d2, d3, r1, r2

Ok(s, sse)  == [status |-> s, sse |-> sse]
Err(e)      == [error |-> e]

\* Three deployments in front of a ring of three models, one retry; a shuffle
\* may produce every order.
RingModels      == {big, small, tiny}
RingDeployments == (big :> <<d1, d2, d3>>) @@ (small :> <<>>) @@ (tiny :> <<>>)
RingFallback    == (big :> small) @@ (small :> tiny) @@ (tiny :> big)
RingPermitted   == (r1 :> RingModels) @@ (r2 :> {big, small})
RingStrategy    == [m \in RingModels |-> "weighted"]
RingRetryLimit  == [m \in RingModels |-> IF m = big THEN 1 ELSE 0]

\* Two models that fall back to each other.
PairModels      == {big, small}
PairDeployments == (big :> <<d1, d2>>) @@ (small :> <<>>)
PairFallback    == (big :> small) @@ (small :> big)
PairPermitted   == [r \in {r1, r2} |-> PairModels]
PairStrategy    == [m \in PairModels |-> "least-latency"]
PairNoLimit     == [m \in PairModels |-> 0]

\* Two deployments and no fallback.
OneModel        == {big}
OneFallback     == (big :> NoModel)
OnePermitted    == [r \in {r1, r2} |-> OneModel]
TwoDeployments  == (big :> <<d1, d2>>)
OneRotating     == (big :> "round-robin")
OneNoLimit      == (big :> 0)

Priorities == (d1 :> 2) @@ (d2 :> 1) @@ (d3 :> 2)

Measured       == [healthy |-> TRUE, latency |-> 1]
Unhealthy      == [healthy |-> FALSE, latency |-> 0]
NoReports      == {}
UpDown         == {Measured, Unhealthy}

PlainAnswers   == {Ok("2xx", FALSE)}
PlainFailures  == {Err("error")}
ShakyAnswers   == {Ok("2xx", FALSE), Ok("503", FALSE), Err("timeout")}
StreamAnswers  == {Ok("2xx", TRUE), Ok("503", FALSE)}
MixedFailures  == {Ok("501", FALSE), Err("error"), Err("timeout")}
=============================================================================
