------------------------------ MODULE CValues ------------------------------
(* What a C object of the generated code may hold.  Static data is 0 and a *)
(* heap object is its number.                                              *)
EXTENDS Integers

Absent  == -1      \* null, or no value
Uninit  == -2      \* declared and not yet assigned
Dropped == -3      \* the NULL that a drop leaves
Truth(b) == IF b THEN -5 ELSE -4
IsObject(v) == v > 0
=============================================================================
