----------------------------- MODULE MCHashMap -----------------------------
(* Instances of HashMap for TLC.                                           *)
EXTENDS HashMap, TLC

CONSTANTS a, b, c, v

(* b and c have one hash, whose probes start at the last slot of every     *)
(* table and wrap around; in a table of four they then meet a's, whose     *)
(* hash is negative, and all four slots come to be used.                   *)
MCHash == (a :> -4) @@ (b :> 7) @@ (c :> 7)

(* b and c differ in nothing.                                              *)
Twins == Permutations({b, c})
=============================================================================
