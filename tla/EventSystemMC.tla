---------------------------- MODULE EventSystemMC ----------------------------
(***************************************************************************)
(* EventSystem for TLC: which interface creates which subscriber, and the  *)
(* symmetry each choice leaves.  Threads are interchangeable, and so are   *)
(* channels; so are subscribers of one interface, and interfaces with      *)
(* their subscribers.  Only runs without liveness properties use it.       *)
(***************************************************************************)
EXTENDS EventSystem, TLC

CONSTANTS m1, m2, s1, s2

OneEach == s1 :> m1 @@ s2 :> m2
Shared == s1 :> m1 @@ s2 :> m1
OneAlone == s1 :> m1

Alike == Permutations(Threads) \cup Permutations(Channels)
SymmetryOfOneEach ==
    Alike \cup {m1 :> m2 @@ m2 :> m1 @@ s1 :> s2 @@ s2 :> s1}
SymmetryOfShared == Alike \cup Permutations(Subscribers)
=============================================================================
