--------------------------- MODULE ModuleLoading ---------------------------
(* L0Driver.build_compilation_unit (l0_driver.py): from the name of an     *)
(* entry module to the compilation unit, the modules it needs.             *)
(*                                                                         *)
(* load_module recurses over imports and fills the cache; a second walk    *)
(* collects the unit.  The Python stack of each is a sequence of frames    *)
(* [m |-> module, next |-> index of the import to look at]; the set        *)
(* _loading holds the modules of the frames of load_module.                *)
EXTENDS Naturals, Sequences

CONSTANTS
    Modules,     \* module names
    Entry,       \* the module the command names
    Programs     \* what the search paths may hold: module name -> source file

(* A source file: whether a search root holds it and it is UTF-8 ("text"), *)
(* the name it declares, its imports in order, and whether the lexer or    *)
(* the parser reports an error in it.                                      *)
ASSUME ProgramsAssumption ==
    /\ Entry \in Modules
    /\ \A p \in Programs : \A m \in Modules :
        /\ p[m].state \in {"absent", "bytes", "text"}
        /\ p[m].declares \in Modules
        /\ p[m].imports \in Seq(Modules)
        /\ p[m].bad \in BOOLEAN

VARIABLES
    program,     \* the files
    stage,       \* what analyze is doing
    loading,     \* the frames of load_module
    cache,       \* module_cache
    walk,        \* the frames of visit
    unit,        \* the modules collected, in order
    verdict      \* the errors of the diagnostics
loadVars == <<program, loading, cache, walk, unit>>

Frame(m)     == [m |-> m, next |-> 1]
Last(s)      == s[Len(s)]
Front(s)     == SubSeq(s, 1, Len(s) - 1)
Elements(s)  == {s[i] : i \in DOMAIN s}
Imports(m)   == Elements(program[m].imports)
Loading      == {loading[i].m : i \in DOMAIN loading}
Bad(ms)      == {m \in ms : program[m].bad}

LoadInit ==
    /\ program \in Programs
    /\ stage = "loading"
    /\ loading = << >> /\ cache = {}
    /\ walk = << >> /\ unit = << >>
    /\ verdict = {}

-----------------------------------------------------------------------------
(* load_module *)

(* The call load_module(m) of the command or of the innermost frame.       *)
Calls(m) ==
    /\ stage = "loading"
    /\ IF loading = << >> THEN m = Entry
       ELSE LET top == Last(loading) IN
            /\ top.next <= Len(program[top.m].imports)
            /\ m = program[top.m].imports[top.next]

(* The frames once the call of the innermost one has returned. *)
Advanced(frames) ==
    IF frames = << >> THEN << >>
    ELSE [frames EXCEPT ![Len(frames)].next = @ + 1]

(* An exception unwinds to analyze, which reports it unless the lexer or   *)
(* the parser has reported something already.                              *)
Raise(error, parsed) ==
    /\ stage' = "refused"
    /\ verdict' = IF Bad(parsed) # {} THEN {"syntax"} ELSE {error}
    /\ loading' = << >>
    /\ cache' = parsed
    /\ UNCHANGED <<program, walk, unit>>

(* Mutant: the cache is asked first, so that a module under way is reused. *)
UnderWay(m) == m \in Loading \ cache

(* Mutant: a module that was loaded before is taken for one under way. *)
LoadedBefore(m) == m \in cache

InProgress(m) == m \in Loading

ImportCycle == \E m \in Modules :
    Calls(m) /\ InProgress(m) /\ Raise("DRV-0030", cache)

CacheHit == \E m \in Modules :
    /\ Calls(m) /\ ~InProgress(m) /\ m \in cache
    /\ loading' = Advanced(loading)
    /\ UNCHANGED <<program, stage, cache, walk, unit, verdict>>

Fresh(m) == Calls(m) /\ ~InProgress(m) /\ m \notin cache

NotFound == \E m \in Modules :
    Fresh(m) /\ program[m].state = "absent" /\ Raise("DRV-0010", cache)

NotUtf8 == \E m \in Modules :
    Fresh(m) /\ program[m].state = "bytes" /\ Raise("DRV-0040", cache)

(* The file is parsed and cached under the name it declares, also when     *)
(* that is another one; its errors count from then on.                     *)
WrongName == \E m \in Modules :
    /\ Fresh(m) /\ program[m].state = "text" /\ program[m].declares # m
    /\ stage' = "refused"
    /\ verdict' = IF Bad(cache \cup {m}) # {} THEN {"syntax"} ELSE {"DRV-0020"}
    /\ loading' = << >>
    /\ cache' = cache \cup {program[m].declares}
    /\ UNCHANGED <<program, walk, unit>>

Parse == \E m \in Modules :
    /\ Fresh(m) /\ program[m].state = "text" /\ program[m].declares = m
    /\ cache' = cache \cup {m}
    /\ loading' = Append(Advanced(loading), Frame(m))
    /\ UNCHANGED <<program, stage, walk, unit, verdict>>

(* All imports are loaded: the call returns.  The entry's starts the walk. *)
Loaded ==
    /\ stage = "loading" /\ loading # << >>
    /\ Last(loading).next > Len(program[Last(loading).m].imports)
    /\ loading' = Front(loading)
    /\ IF Len(loading) = 1
       THEN stage' = "walking" /\ walk' = <<Frame(Entry)>> /\ unit' = <<Entry>>
       ELSE UNCHANGED <<stage, walk, unit>>
    /\ UNCHANGED <<program, cache, verdict>>

-----------------------------------------------------------------------------
(* visit: every import is in the cache by now *)

WalkInto == \E m \in cache :
    /\ stage = "walking" /\ walk # << >>
    /\ Last(walk).next <= Len(program[Last(walk).m].imports)
    /\ m = program[Last(walk).m].imports[Last(walk).next]
    /\ IF m \in Elements(unit)
       THEN walk' = Advanced(walk) /\ UNCHANGED unit
       ELSE walk' = Append(Advanced(walk), Frame(m)) /\ unit' = Append(unit, m)
    /\ UNCHANGED <<program, stage, loading, cache, verdict>>

WalkBack ==
    /\ stage = "walking" /\ walk # << >>
    /\ Last(walk).next > Len(program[Last(walk).m].imports)
    /\ walk' = Front(walk)
    /\ UNCHANGED <<program, stage, loading, cache, unit, verdict>>

(* analyze goes on with the unit unless something was reported. *)
Collected ==
    /\ stage = "walking" /\ walk = << >>
    /\ IF Bad(cache) # {} THEN stage' = "refused" /\ verdict' = {"syntax"}
                          ELSE stage' = "naming" /\ UNCHANGED verdict
    /\ UNCHANGED loadVars

LoadNext == \/ ImportCycle \/ CacheHit \/ NotFound \/ NotUtf8 \/ WrongName \/ Parse
            \/ Loaded \/ WalkInto \/ WalkBack \/ Collected

-----------------------------------------------------------------------------
Closed(S)  == \A m \in S : Imports(m) \subseteq S
Cyclic(S)  == S # {} /\ \A m \in S : Imports(m) \cap S # {}

(* What the entry needs: the least closed set around it. *)
Reachable == {m \in Modules : \A S \in SUBSET Modules : Entry \in S /\ Closed(S) => m \in S}

HasUnit == stage \notin {"loading", "walking", "refused"}

(* The unit that analysis goes on with is exactly what the entry needs,    *)
(* each module once, each from a file of that name without errors, and no  *)
(* module of it imports itself through others.                             *)
UnitIsExact ==
    HasUnit =>
        /\ Elements(unit) = Reachable
        /\ \A i, j \in DOMAIN unit : unit[i] = unit[j] => i = j
        /\ \A m \in Elements(unit) :
              program[m].state = "text" /\ program[m].declares = m /\ ~program[m].bad
        /\ \A S \in SUBSET Elements(unit) : ~Cyclic(S)

(* The driver refuses for a reason that is there, among what the entry     *)
(* needs: modules that import each other in a circle, a file that is       *)
(* missing, is not text or declares another name, or an error in a file.   *)
RefusalIsDeserved ==
    /\ "DRV-0030" \in verdict => \E S \in SUBSET Reachable : Cyclic(S)
    /\ "DRV-0010" \in verdict => \E m \in Reachable : program[m].state = "absent"
    /\ "DRV-0040" \in verdict => \E m \in Reachable : program[m].state = "bytes"
    /\ "DRV-0020" \in verdict => \E m \in Reachable : program[m].declares # m
    /\ "syntax" \in verdict => \E m \in Reachable : program[m].bad
=============================================================================
