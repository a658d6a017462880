------------------------------- MODULE MCUsage -------------------------------
(***************************************************************************)
(* Two instances that know nothing of each other, for one run: a behaviour *)
(* is one of GracefulShutdown or one of TokenCounter.  Of the two slots of *)
(* TokenCounter one serves a key with a daily budget, and both serve the   *)
(* organisation, whose budget lasts two days.                              *)
(***************************************************************************)
EXTENDS MCGracefulShutdown, TokenCounter
ASSUME TokenAssumption

VARIABLE part

Budget     == [keyDay |-> 1, orgDays |-> 2]
DaysOf     == [keyDay |-> 1, orgDays |-> 2]
TwoScopes  == [g1 |-> <<"keyDay", "orgDays">>, g2 |-> <<"orgDays">>]

UsageInit == ShutdownInit /\ TokenInit /\ part \in {"shutdown", "tokens"}
UsageNext ==
    /\ \/ part = "shutdown" /\ ShutdownNext /\ UNCHANGED tokenVars
       \/ part = "tokens" /\ TokenNext /\ UNCHANGED shutdownVars
    /\ UNCHANGED part
UsageSpec == UsageInit /\ [][UsageNext]_<<shutdownVars, tokenVars, part>>
=============================================================================
