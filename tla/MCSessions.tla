----------------------------- MODULE MCSessions -----------------------------
(* Instances of Sessions for TLC: two goroutines that share a migrator, and *)
(* a third that brings its own, in the same pool or in another process.     *)
EXTENDS Sessions, TLC

CONSTANTS C1, C2, C3, Shared, Own, Here, There

MCCallers == {C1, C2, C3}
MCObjects == {Shared, Own}
TwoPools == {Here, There}
OnePool == {Here}
MCObjectOf == C1 :> Shared @@ C2 :> Shared @@ C3 :> Own
SamePool == Shared :> Here @@ Own :> Here
OtherPool == Shared :> Here @@ Own :> There
TwoOfOne == Here :> 1 @@ There :> 1
OneOfOne == Here :> 1
NoTrackers == {}
OneTracker == {Shared}
=============================================================================
