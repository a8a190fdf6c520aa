-------------------------------- MODULE Lists --------------------------------
(***************************************************************************)
(* Taking a value out of a list the way the C++ library does it:           *)
(* std::list::remove and erase(std::remove_if(...)) take every occurrence  *)
(* out and keep the others in their order.                                 *)
(***************************************************************************)
EXTENDS Naturals, Sequences

\* What is kept of the first n elements, for every n.
Kept(list, x) ==
    LET kept[n \in 0 .. Len(list)] ==
            IF n = 0 THEN <<>>
            ELSE IF list[n] = x THEN kept[n - 1]
            ELSE Append(kept[n - 1], list[n])
    IN  kept

RemoveAll(list, x) == Kept(list, x)[Len(list)]
=============================================================================
