---------------------------- MODULE TypeOrdering ----------------------------
(* SignatureResolver._detect_value_type_cycles (l0_signatures.py) and the  *)
(* TypeOrdering of the C backend (l0_backend_ordering.py): the same sort   *)
(* of the types by what they hold, once to refuse a program and once to    *)
(* emit C definitions.  The queue is a set here: the order among types     *)
(* that are ready is that of Python dictionaries.                          *)
EXTENDS SignatureResolution, FiniteSets

VARIABLES
    degree,    \* type -> how many of the types it holds are not sorted yet
    ready,     \* the queue
    sorted     \* the types sorted so far
sortVars == <<degree, ready, sorted>>

vars == <<loadVars, stage, verdict, nameVars, sigVars, sortVars>>

Types == DOMAIN holds

Init ==
    /\ LoadInit /\ NameInit /\ SigInit
    /\ degree = [t \in {} |-> 0] /\ ready = {} /\ sorted = << >>

(* Mutant: a type that holds itself is not counted. *)
OthersHeld(t) == Cardinality(holds[t] \ {t})

Held(t) == Cardinality(holds[t])

Begin(next) ==
    /\ stage' = next
    /\ degree' = [t \in Types |-> Held(t)]
    /\ ready' = {t \in Types : Held(t) = 0}
    /\ sorted' = << >>

AllSigned ==
    /\ stage = "signatures" /\ job.i > Len(unit)
    /\ Begin("cycles")
    /\ UNCHANGED <<loadVars, verdict, nameVars, sigVars>>

(* The degrees once t is sorted, and the types this releases.              *)
Lowered(t)  == [x \in Types |-> IF t \in holds[x] THEN degree[x] - 1 ELSE degree[x]]

(* Mutant: a type is released with the first of the types it holds. *)
FirstHeld(t) == {x \in Types : t \in holds[x] /\ x \notin Elements(sorted)}

Released(t) == {x \in Types : t \in holds[x] /\ Lowered(t)[x] = 0}

Sort == \E t \in ready :
    /\ stage \in {"cycles", "emitting"}
    /\ sorted' = Append(sorted, t)
    /\ degree' = Lowered(t)
    /\ ready' = (ready \ {t}) \cup Released(t)
    /\ UNCHANGED <<loadVars, stage, verdict, nameVars, sigVars>>

Complete == Len(sorted) = Cardinality(Types)

(* Any error so far refuses the program; the checks of the function bodies *)
(* are not modelled here.                                                  *)
CyclesChecked ==
    /\ stage = "cycles" /\ ready = {}
    /\ verdict' = IF Complete THEN verdict ELSE verdict \cup {"SIG-0040"}
    /\ IF verdict' = {} THEN Begin("emitting") ELSE stage' = "rejected" /\ UNCHANGED sortVars
    /\ UNCHANGED <<loadVars, nameVars, sigVars>>

(* ICE-1340 when the sort is not complete. *)
Emitted ==
    /\ stage = "emitting" /\ ready = {}
    /\ stage' = IF Complete THEN "emitted" ELSE "ice"
    /\ UNCHANGED <<loadVars, verdict, nameVars, sigVars, sortVars>>

Finished == stage \in {"refused", "rejected", "emitted"} /\ UNCHANGED vars

Next ==
    \/ LoadNext /\ UNCHANGED <<nameVars, sigVars, sortVars>>
    \/ NameNext /\ UNCHANGED <<sigVars, sortVars>>
    \/ SigNext /\ UNCHANGED sortVars
    \/ AllSigned \/ Sort \/ CyclesChecked \/ Emitted \/ Finished

Spec == Init /\ [][Next]_vars

-----------------------------------------------------------------------------
(* The definitions in the C text: every struct and enum of the unit once,  *)
(* none before all it holds by value; and the emission never fails.        *)
DefinedBeforeUse ==
    /\ stage # "ice"
    /\ \A i \in DOMAIN sorted : holds[sorted[i]] \subseteq {sorted[j] : j \in 1..(i - 1)}
    /\ \A i, j \in DOMAIN sorted : sorted[i] = sorted[j] => i = j
    /\ stage = "emitted" => Elements(sorted) = Types

(* Types of S that each hold another one of S by value. *)
Endless(S) == S # {} /\ \A t \in S : holds[t] \cap S # {}

(* A program is refused for its size exactly when some of its types would  *)
(* have no end.                                                            *)
EndlessIsRefused ==
    stage \in {"rejected", "emitting", "emitted"} =>
        ("SIG-0040" \in verdict <=> \E S \in SUBSET Types : Endless(S))
=============================================================================
