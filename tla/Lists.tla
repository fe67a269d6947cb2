------------------------------- MODULE Lists -------------------------------
(***************************************************************************)
(* Taking elements out of a list.  Written as the loop over the list, and  *)
(* as a recursive function, so that it can be reasoned about.              *)
(***************************************************************************)
EXTENDS Naturals, Sequences

(* One round of the loop: w is what has been kept, x the next element. *)
Keep(w, x, K) == IF x \in K THEN w ELSE Append(w, x)

(* Kept(s, K)[n]: what is kept of the first n elements. *)
Kept(s, K) ==
  LET kept[n \in 0..Len(s)] == IF n = 0 THEN <<>> ELSE Keep(kept[n - 1], s[n], K)
  IN  kept

(* The list s without the elements of K. *)
Without(s, K) == Kept(s, K)[Len(s)]
=============================================================================
