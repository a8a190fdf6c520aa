---------------------------- MODULE QueueSystemMC ----------------------------
(***************************************************************************)
(* QueueSystem for TLC: two interfaces with a handler each.  The threads   *)
(* are interchangeable, and so are the interfaces with their handlers.     *)
(***************************************************************************)
EXTENDS QueueSystem, TLC

CONSTANTS m1, m2, h1, h2

OneEach == h1 :> m1 @@ h2 :> m2
Symmetry ==
    Permutations(Threads) \cup {m1 :> m2 @@ m2 :> m1 @@ h1 :> h2 @@ h2 :> h1}
=============================================================================
