----------------------------- MODULE GeneratedC -----------------------------
(* One function through the Stage 1 compiler and one run of what it        *)
(* becomes: an accepted body is lowered, and the C it becomes runs over C  *)
(* objects and the counted heap of the runtime.  What the compiler says of *)
(* a function is in CompiledFunction; here it is any.                      *)
EXTENDS Winding

CONSTANTS
    Programs,     \* families of functions, each with what Compiled says of it
    MaxOutcomes   \* how many calls of a run may return true or a value

ASSUME OutcomesAssumption == MaxOutcomes \in Nat

VARIABLES
    prog,     \* the function, compiled
    stage,    \* "source", "rejected", "running" or "ended"
    errs,     \* the diagnostics of the checker
    code,     \* the C function
    pc,       \* the next instruction
    slots,    \* the C objects
    heap,     \* one record per heap object: its count and what it is
    taken,    \* the outcomes of the calls made so far
    evs,      \* the calls seen by the caller, with their arguments
    ret,      \* the value returned
    idle,     \* instructions run since a call last returned true or a value
    faults    \* what went wrong in the run

vars == <<prog, stage, errs, code, pc, slots, heap, taken, evs, ret, idle, faults>>

-----------------------------------------------------------------------------
Init ==
    /\ \E family \in Programs : prog \in family
    /\ stage = "source"
    /\ errs = {} /\ code = << >> /\ pc = 1 /\ slots = << >>
    /\ heap = << >> /\ taken = << >> /\ evs = << >> /\ ret = Uninit /\ idle = 0
    /\ faults = {}

(* Check, and lower what has no error.  The caller owns the arguments.     *)
Compile ==
    /\ stage = "source"
    /\ errs' = prog.errs
    /\ LET n == Len(prog.params)
       IN IF prog.accepted
          THEN /\ stage' = "running"
               /\ code' = prog.c.code
               /\ slots' = [i \in 1..prog.c.slots |-> IF i <= n THEN i ELSE Uninit]
               /\ heap' = [i \in 1..n |-> [count |-> 1, kind |-> "string"]]
          ELSE /\ stage' = "rejected"
               /\ UNCHANGED <<code, slots, heap>>
    /\ UNCHANGED <<prog, pc, taken, evs, ret, idle, faults>>

-----------------------------------------------------------------------------
(* The C machine.  Instr is the instruction about to run.                  *)
Instr == code[pc]
At(ops) == stage = "running" /\ Instr.op \in ops
Target(l) == CHOOSE i \in DOMAIN code : code[i] = [op |-> "label", l |-> l]
Goto(l)   == pc' = Target(l)
Advance   == pc' = pc + 1
Tick      == idle' = idle + 1

(* Reading a value that is not there, or whose object is gone.             *)
ReadFaults(v) ==
    IF v = Uninit THEN {"uninitialized"}
    ELSE IF v = Dropped THEN {"dropped"}
    ELSE IF IsObject(v) /\ heap[v].count = 0 THEN {"released"} ELSE {}

Args == [i \in DOMAIN Instr.args |-> slots[Instr.args[i]]]
ArgFaults == UNION {ReadFaults(Args[i]) : i \in DOMAIN Args}

Store(v) == slots' = [slots EXCEPT ![Instr.d] = v]
Allocate(kind) ==
    /\ Store(Len(heap) + 1)
    /\ heap' = Append(heap, [count |-> 1, kind |-> kind])

(* The outcome of a call: any, until MaxOutcomes have been; FALSE then.    *)
Choose(b) ==
    /\ IF Len(taken) < MaxOutcomes THEN taken' = Append(taken, b)
                                   ELSE ~b /\ UNCHANGED taken
    /\ IF b THEN idle' = 0 ELSE Tick

Move ==
    /\ At({"decl", "move", "lit", "null", "true", "false"})
    /\ Store(CASE Instr.op = "decl"  -> Uninit
               [] Instr.op = "move"  -> slots[Instr.s]
               [] Instr.op = "lit"   -> 0
               [] Instr.op = "null"  -> Absent
               [] Instr.op = "true"  -> Truth(TRUE)
               [] Instr.op = "false" -> Truth(FALSE))
    /\ Advance /\ Tick
    /\ UNCHANGED <<prog, stage, errs, code, heap, taken, evs, ret, faults>>

NewObject ==
    /\ At({"mk", "new"})
    /\ Allocate(IF Instr.op = "mk" THEN "string" ELSE "pointer")
    /\ faults' = faults \cup ArgFaults
    /\ Advance /\ Tick
    /\ UNCHANGED <<prog, stage, errs, code, taken, evs, ret>>

(* A call that returns a string or null. *)
MaybeObject ==
    /\ At({"maybe"})
    /\ \E b \in BOOLEAN :
        /\ Choose(b)
        /\ IF b THEN Allocate("string") ELSE Store(Absent) /\ UNCHANGED heap
    /\ Advance
    /\ UNCHANGED <<prog, stage, errs, code, evs, ret, faults>>

(* A call the caller can see; a test returns either value. *)
CallOut ==
    /\ At({"call", "test"})
    /\ evs' = Append(evs, Args)
    /\ faults' = faults \cup ArgFaults
    /\ IF Instr.op = "test" THEN \E b \in BOOLEAN : Choose(b) /\ Store(Truth(b))
       ELSE Store(Absent) /\ Tick /\ UNCHANGED taken
    /\ Advance
    /\ UNCHANGED <<prog, stage, errs, code, heap, ret>>

(* A case or match arm: the scrutinee matches it or not. *)
Matches ==
    /\ At({"matches"})
    /\ \E b \in BOOLEAN : Choose(b) /\ Store(Truth(b))
    /\ faults' = faults \cup ArgFaults
    /\ Advance
    /\ UNCHANGED <<prog, stage, errs, code, heap, evs, ret>>

(* rt_string_retain and rt_string_release; null and static data uncounted. *)
Count ==
    /\ At({"retain", "release"})
    /\ LET v == slots[Instr.s] IN
       /\ faults' = faults \cup ReadFaults(v)
       /\ heap' = IF IsObject(v) /\ heap[v].count > 0
                  THEN [heap EXCEPT ![v].count =
                            IF Instr.op = "retain" THEN @ + 1 ELSE @ - 1]
                  ELSE heap
    /\ Advance /\ Tick
    /\ UNCHANGED <<prog, stage, errs, code, slots, taken, evs, ret>>

DropObject ==
    /\ At({"drop"})
    /\ LET v == slots[Instr.s] IN
       /\ faults' = faults \cup ReadFaults(v)
       /\ heap' = IF IsObject(v) THEN [heap EXCEPT ![v].count = 0] ELSE heap
    /\ slots' = [slots EXCEPT ![Instr.s] = Dropped]
    /\ Advance /\ Tick
    /\ UNCHANGED <<prog, stage, errs, code, taken, evs, ret>>

Branching ==
    /\ At({"label", "jump", "ifnot", "ifsome"})
    /\ LET go == CASE Instr.op = "label"  -> FALSE
                   [] Instr.op = "jump"   -> TRUE
                   [] Instr.op = "ifnot"  -> slots[Instr.s] = Truth(FALSE)
                   [] Instr.op = "ifsome" -> slots[Instr.s] # Absent
       IN IF go THEN Goto(Instr.l) ELSE Advance
    /\ Tick
    /\ UNCHANGED <<prog, stage, errs, code, slots, heap, taken, evs, ret, faults>>

(* return, or the end of the body; slot 0 stands for no value or null.     *)
Leaving ==
    /\ At({"return", "end"})
    /\ stage' = "ended"
    /\ ret' = IF Instr.op = "end" THEN Uninit
              ELSE IF Instr.s = 0 THEN Absent ELSE slots[Instr.s]
    /\ faults' = faults \cup (IF Instr.op = "return" THEN ReadFaults(ret') ELSE {})
    /\ UNCHANGED <<prog, errs, code, pc, slots, heap, taken, evs, idle>>

Finished == stage \in {"rejected", "ended"} /\ UNCHANGED vars

Next == \/ Compile \/ Move \/ NewObject \/ MaybeObject \/ CallOut \/ Matches
        \/ Count \/ DropObject \/ Branching \/ Leaving \/ Finished

Spec == Init /\ [][Next]_vars

-----------------------------------------------------------------------------
(* The types of the state; the code a run begins with is well formed, and  *)
(* a run never touches an object that is not there.                        *)
TypeOK ==
    /\ stage = "running" /\ pc = 1 => Accounts(prog) /\ Winds(prog)
    /\ stage \in {"source", "rejected", "running", "ended"}
    /\ pc \in 1..(Len(code) + 1)
    /\ \A i \in DOMAIN slots : slots[i] \in -5..Len(heap)
    /\ \A o \in DOMAIN heap : heap[o].count \in Nat /\ heap[o].kind \in {"string", "pointer"}
    /\ Len(taken) <= MaxOutcomes
    /\ faults \subseteq {"uninitialized", "dropped", "released"}

(* The code that was generated never reads a C object before its           *)
(* initialization, a string after its last release nor a binding that was  *)
(* dropped, on any path.                                                   *)
NeverTouchesTheDead == faults = {}

(* What the source means when its calls answer as those of the run did,    *)
(* and no or null from then on.                                            *)
Meant == prog.meaning[[i \in 1..MaxOutcomes |-> i <= Len(taken) /\ taken[i]]]

(* Early exits and normal ones release what the path owns, once: when the  *)
(* function ends, a string is counted once for the caller that owned it    *)
(* and once if it is returned.                                             *)
CountsBalance ==
    stage = "ended" =>
        \A o \in DOMAIN heap : heap[o].kind = "string" =>
            heap[o].count = (IF o <= Len(prog.params) THEN 1 ELSE 0)
                          + (IF ret = o THEN 1 ELSE 0)

(* The calls a run makes, their order and arguments, the value it returns  *)
(* and the pointers it drops are those of the source: every with cleanup   *)
(* exactly once, in reverse order, before the exit it delays.              *)
MeansTheSource ==
    stage = "ended" =>
        /\ evs = Meant.evs
        /\ Meant.out = "return" => ret = Meant.val
        /\ \A o \in DOMAIN heap : heap[o].kind = "pointer" =>
                heap[o].count = IF o \in Meant.dropped THEN 0 ELSE 1

(* An accepted function with a result never runs off its end.              *)
AlwaysReturns == stage = "ended" /\ prog.result # "void" => Instr.op = "return"

(* Once its calls answer no and null, a run ends without executing any     *)
(* instruction more than twice: every exit leaves its loop for good.       *)
NeverSpins == idle <= 2 * Len(code)
=============================================================================
