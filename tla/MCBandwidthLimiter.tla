------------------------- MODULE MCBandwidthLimiter -------------------------
(* TLC instances of BandwidthLimiter: one session with two streams, or two *)
(* sessions, one of them with no cap of its own.                           *)
EXTENDS BandwidthLimiter, TLC

CONSTANTS a, b, x, y

OneSession == x :> a @@ y :> a
OwnCap     == a :> 1
EachOwn    == x :> a @@ y :> b
MixedCaps  == a :> 1 @@ b :> 0
=============================================================================
