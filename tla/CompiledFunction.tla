-------------------------- MODULE CompiledFunction --------------------------
(* What the Stage 1 compiler makes of a function body: it is checked       *)
(* (FlowChecker), and lowered when it has no error (Lowering); GeneratedC  *)
(* runs it.  SourceMeaning says what the run should have been.             *)
EXTENDS FlowChecker, Lowering, SourceMeaning, GeneratedC

CONSTANT MaxWitness  \* MaxOutcomes, for the run that deserves a rejection

ASSUME WitnessAssumption == MaxWitness \in Nat

(* A function as the compiler takes it: checked, and lowered when it has   *)
(* no error; and what SourceMeaning says of it, for an accepted one after  *)
(* each choice of outcomes, for a refused one whether any run is bad.      *)
Observed(m) == [evs |-> m.evs, out |-> m.out, val |-> m.val, dropped |-> m.dropped]

(* Refused for the use of dropped bindings alone, unreachable code aside. *)
ForLiveness(found) ==
    found \cap LivenessCodes # {} /\ found \subseteq LivenessCodes \cup {"TYP-0021"}

Compiled(f) ==
    LET found    == CheckFunction(f)
        accepted == found \subseteq Warnings
    IN  [params |-> f.params, result |-> f.result, errs |-> found, accepted |-> accepted,
         c       |-> IF accepted THEN LowerFunction(f) ELSE [code |-> << >>, slots |-> 0],
         meaning |-> [o \in IF accepted THEN [1..MaxOutcomes -> BOOLEAN] ELSE {} |->
                          Observed(Meaning(f, o))],
         bad     |-> ForLiveness(found)
                     /\ \E o \in [1..MaxWitness -> BOOLEAN] : Meaning(f, o).bad]

(* The checker refuses a use of a dropped binding only where some run      *)
(* meets one (code no path reaches aside).                                 *)
RejectionIsDeserved ==
    stage = "rejected" /\ ForLiveness(errs) => prog.bad

=============================================================================
