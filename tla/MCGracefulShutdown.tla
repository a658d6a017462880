------------------------- MODULE MCGracefulShutdown -------------------------
(***************************************************************************)
(* Instances of GracefulShutdown: requests that stream and requests that   *)
(* do not, of two usage buckets.                                           *)
(***************************************************************************)
EXTENDS GracefulShutdown, TLC

CONSTANTS buffered, late, streamed, key1, key2

BothKinds  == {buffered, streamed}
AllThree   == {buffered, late, streamed}
TwoBuckets == [r \in Events |-> IF r = buffered THEN key1 ELSE key2]
=============================================================================
