---------------------------- MODULE MCRateLimiter ----------------------------
(***************************************************************************)
(* An instance of RateLimiter: three goroutines that check one minute      *)
(* counter.                                                                *)
(***************************************************************************)
EXTENDS RateLimiter, TLC

CONSTANTS orgMinute, g1, g2, g3

OneCounter == {orgMinute}
LimitOfTwo == (orgMinute :> 2)
OneMinute  == (orgMinute :> 1)
OneCheck   == [s \in Slots |-> <<orgMinute>>]
=============================================================================
