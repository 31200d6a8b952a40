-------------------------- MODULE MCEventReconciler --------------------------
(* One headline reported officially, by a licensed source and by radar, in *)
(* two spellings.  The official item and the radar item are retrieved for  *)
(* two stocks in turn (keys k1 and k2), the licensed one for the first.    *)
EXTENDS EventReconciler, TLC

CONSTANTS off, lic, rad, k1, k2, c1, c2

TheKeys == off :> {k1, k2} @@ lic :> {k1} @@ rad :> {k1, k2}
TheTitles == off :> "a" @@ lic :> "b" @@ rad :> "a"
TheClasses == off :> "official" @@ lic :> "licensed" @@ rad :> "radar"
TheTimes == off :> 1 @@ lic :> 0 @@ rad :> 0
Twins == Permutations({c1, c2})
=============================================================================
