-------------------------- MODULE MCPointerTracker --------------------------
(* A heap of three addresses, and two literals of which one is the end of   *)
(* the other.                                                              *)
EXTENDS PointerTracker, TLC

CONSTANTS r1, r2, r3, s1

MCHeap == 1 .. 3
MCLiterals == {[base |-> 6, size |-> 2], [base |-> 7, size |-> 1]}
MCSizes == {1, 2}

(* States that differ only in what free records still say of their last    *)
(* storage count as one: every check looks at the state of a record first. *)
Relevant ==
  <<[r \in Records |->
       IF r \in Tracked THEN records[r] ELSE [generation |-> records[r].generation]],
    queue, bytes, count, generation, site, heap, pc>>

Symmetric == Permutations(Records)
=============================================================================
