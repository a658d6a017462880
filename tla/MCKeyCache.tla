----------------------------- MODULE MCKeyCache -----------------------------
(***************************************************************************)
(* Two instances; the founder has a key of the team and a session.         *)
(*                                                                         *)
(* Three specifications that know nothing of each other, for one run: a    *)
(* behaviour is one of KeyCache; of LoginThrottle, in which two clients    *)
(* log in from one address; or of RateLimiter, in which two of three       *)
(* goroutines serve a key that has a limit a day, and all of them an       *)
(* organisation that has one a minute.                                     *)
(***************************************************************************)
EXTENDS KeyCache, LoginThrottle, RateLimiter, TLC
ASSUME ThrottleAssumption

CONSTANTS founder, guest, c1, c2, i1, i2

KeyAndSession == <<Key("user", founder, TRUE, 0, Never), Key("session", founder, FALSE, 0, 1)>>

GuestInvited == <<guest>>

CallerAt == (c1 :> {i1}) @@ (c2 :> {i1, i2})

OneAddress == [w \in Clients |-> "here"]

KeyAndOrg == [keyDay |-> 2, orgMinute |-> 1]     \* the limits, and the minutes of a window
TwoKeys   == [g1 |-> <<"keyDay", "orgMinute">>, g2 |-> <<"keyDay", "orgMinute">>, g3 |-> <<"orgMinute">>]

VARIABLE part

AccessInit == Init /\ ThrottleInit /\ LimiterInit /\ part \in {"keys", "logins", "limits"}
AccessNext ==
    /\ \/ part = "keys" /\ Next /\ UNCHANGED <<throttleVars, limiterVars>>
       \/ part = "logins" /\ ThrottleNext /\ UNCHANGED <<vars, limiterVars>>
       \/ part = "limits" /\ LimiterNext /\ UNCHANGED <<vars, throttleVars>>
    /\ UNCHANGED part
AccessSpec == AccessInit /\ [][AccessNext]_<<vars, throttleVars, limiterVars, part>>
=============================================================================
