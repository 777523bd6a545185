------------------------------ MODULE Winding ------------------------------
(* Why generated C ends once its calls answer no and null.  Every way      *)
(* round a loop that the emitter makes passes a test, and leaves the loop  *)
(* when the test fails (l0_backend_lowering.py); here that is an           *)
(* annotation of the code, checked one instruction at a time.              *)
(*                                                                         *)
(* A node is an instruction, with what the calls have answered since one   *)
(* last returned true or a value: nothing ("none"), or "no".  At a node    *)
(*   known   says of some slots that they hold false, or null              *)
(*   left    bounds the instructions still run until a call answers        *)
EXTENDS CValues, Ownership

CONSTANT Fuel(_)      \* the annotation of a C function: known and left at nodes

Answers == {"test", "matches", "maybe"}

Without(known, d)  == {p \in known : p[1] # d}
Learn(known, d, v) == Without(known, d) \cup {<<d, v>>}

(* What is known after instruction i, whose call if any answers no.        *)
Learnt(known, i) ==
    CASE i.op \in {"null", "call", "maybe"}    -> Learn(known, i.d, Absent)
      [] i.op \in {"false", "test", "matches"} -> Learn(known, i.d, Truth(FALSE))
      [] i.op = "move" -> Without(known, i.d) \cup {<<i.d, p[2]>> : p \in {q \in known : q[1] = i.s}}
      [] i.op \in {"decl", "lit", "true", "mk", "new"} -> Without(known, i.d)
      [] i.op = "drop" -> Without(known, i.s)
      [] OTHER         -> known

(* A branch that what is known decides goes one way only.                  *)
GoesOn(known, i) ==
    /\ i.op \notin {"jump", "return", "end"}
    /\ i.op = "ifnot" => <<i.s, Truth(FALSE)>> \notin known
GoesAway(known, i) ==
    /\ i.op \in Jumps
    /\ i.op = "ifsome" => <<i.s, Absent>> \notin known

(* Where a node leads without an answer, and what is known there. *)
Ways(code, node, known) ==
    LET i     == code[node[1]]
        phase == IF i.op \in Answers THEN "no" ELSE node[2]
        on    == IF GoesOn(known, i) THEN {<<<<node[1] + 1, phase>>, Learnt(known, i)>>} ELSE {}
        away  == IF GoesAway(known, i)
                 THEN {<<<<j, phase>>, known>> : j \in Labelled(code, i.l)} ELSE {}
    IN  on \cup away

(* And after a call that returns true or a value. *)
Answered(code, node, known) == <<<<node[1] + 1, "none">>, Without(known, code[node[1]].d)>>

(* A node of the annotation that asks for no more than is known.           *)
Reached(fuel, to) == to[1] \in DOMAIN fuel /\ fuel[to[1]].known \subseteq to[2]

(* A C function that winds down: from each node the ways lead to nodes     *)
(* with less left, and an answer starts again.                             *)
Winds(f) ==
    LET code == f.c.code
        fuel == Fuel(f.c)
    IN  /\ Reached(fuel, <<<<1, "none">>, {}>>)
        /\ \A n \in DOMAIN fuel :
            /\ fuel[n].left \in 0..(2 * Len(code))
            /\ \A to \in Ways(code, n, fuel[n].known) :
                Reached(fuel, to) /\ fuel[to[1]].left < fuel[n].left
            /\ code[n[1]].op \in Answers => Reached(fuel, Answered(code, n, fuel[n].known))
=============================================================================
