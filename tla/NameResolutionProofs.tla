------------------------ MODULE NameResolutionProofs ------------------------
(***************************************************************************)
(* For any modules, names and programs: the unit of an analysis is exactly *)
(* what the entry module needs, a refusal of the driver is deserved, and   *)
(* what a module sees is what its declarations and imports say, whatever   *)
(* their order and repetitions.                                            *)
(* Loading: Done is what has left the stack of load_module.  It is closed  *)
(* under imports and free of circles, because a module joins it after all  *)
(* its imports; the stack itself is a path of imports, so that a module    *)
(* met on it again closes a circle.                                        *)
(* Names: NamesOf relates the three tables of a module to the set of       *)
(* imports that were opened so far; opening one more keeps it, and opening *)
(* one again does not change the set.                                      *)
(***************************************************************************)
EXTENDS TypeOrdering, SequenceTheorems, TLAPS

Frames == [m : Modules, next : Nat \ {0}]
Done   == cache \ Loading

LoadTypes ==
    /\ program \in Programs
    /\ cache \subseteq Modules
    /\ loading \in Seq(Frames)
    /\ walk \in Seq(Frames)
    /\ unit \in Seq(Modules)

(* What is in the cache of a driver that has not failed is needed.         *)
CacheInv ==
    stage # "refused" => \A m \in cache :
        m \in Reachable /\ program[m].state = "text" /\ program[m].declares = m

(* The stack: each frame waits for the import that the next one loads, and *)
(* what it has been through is done.                                       *)
StackInv ==
    /\ stage # "loading" => loading = << >>
    /\ loading # << >> => loading[1].m = Entry
    /\ \A i \in 1..Len(loading) : loading[i].m \in cache
    /\ \A i, j \in 1..Len(loading) : loading[i].m = loading[j].m => i = j
    /\ \A i \in 1..(Len(loading) - 1) :
          /\ loading[i].next - 1 \in 1..Len(program[loading[i].m].imports)
          /\ program[loading[i].m].imports[loading[i].next - 1] = loading[i + 1].m
          /\ \A j \in 1..(loading[i].next - 2) : program[loading[i].m].imports[j] \in Done
    /\ loading # << >> =>
          \A j \in 1..(Last(loading).next - 1) : program[Last(loading).m].imports[j] \in Done

DoneInv ==
    stage # "refused" =>
        /\ \A m \in Done : Imports(m) \subseteq Done
        /\ \A S \in SUBSET Done : ~Cyclic(S)

(* The walk: a module of the unit has its imports in the unit unless it is *)
(* on the stack, which then has been through some of them.                 *)
WalkInv ==
    stage = "walking" =>
        /\ Entry \in Elements(unit)
        /\ Elements(unit) \subseteq cache
        /\ \A i, j \in DOMAIN unit : unit[i] = unit[j] => i = j
        /\ \A i \in 1..Len(walk) :
              /\ walk[i].m \in Elements(unit)
              /\ \A j \in 1..Len(program[walk[i].m].imports) :
                    j < walk[i].next => program[walk[i].m].imports[j] \in Elements(unit)
        /\ \A m \in Elements(unit) :
              Imports(m) \subseteq Elements(unit) \/ \E i \in 1..Len(walk) : walk[i].m = m

VerdictInv == stage \in {"loading", "walking"} => verdict = {}

LoadInv == /\ LoadTypes /\ CacheInv /\ StackInv /\ DoneInv /\ WalkInv
           /\ VerdictInv /\ UnitIsExact /\ RefusalIsDeserved

-----------------------------------------------------------------------------
(* Sequences: dropping the last element of one.                            *)
LEMMA FrontProperties ==
  ASSUME NEW S, NEW s \in Seq(S), s # << >>
  PROVE  /\ Front(s) \in Seq(S) /\ Len(Front(s)) = Len(s) - 1
         /\ \A i \in 1..(Len(s) - 1) : Front(s)[i] = s[i]
         /\ Len(s) \in Nat \ {0} /\ Last(s) = s[Len(s)] /\ Last(s) \in S
<1>1. Len(s) \in Nat \ {0} /\ \A i \in 1..(Len(s) - 1) : s[i] \in S
  BY EmptySeq, LenProperties, ElementOfSeq
<1>2. /\ Front(s) \in Seq(S)
      /\ Len(Front(s)) = IF 1 <= Len(s) - 1 THEN (Len(s) - 1) - 1 + 1 ELSE 0
      /\ \A i \in 1..((Len(s) - 1) - 1 + 1) : Front(s)[i] = s[1 + i - 1]
  BY <1>1, SubSeqProperties DEF Front
<1>3. Len(Front(s)) = Len(s) - 1
  <2>1. ASSUME NEW n \in Nat \ {0} PROVE (IF 1 <= n - 1 THEN (n - 1) - 1 + 1 ELSE 0) = n - 1
    OBVIOUS
  <2> QED
    BY <1>1, <1>2, <2>1
<1>4. \A i \in 1..(Len(s) - 1) : Front(s)[i] = s[i]
  BY <1>1, <1>2
<1> QED
  BY <1>1, <1>2, <1>3, <1>4, ElementOfSeq DEF Last

(* Sequences: what appending adds to the elements.                         *)
LEMMA ElementsAppend ==
  ASSUME NEW S, NEW s \in Seq(S), NEW x \in S
  PROVE  Elements(Append(s, x)) = Elements(s) \cup {x}
<1>1. /\ Append(s, x) \in Seq(S) /\ Len(Append(s, x)) = Len(s) + 1 /\ Len(s) \in Nat
      /\ \A i \in 1..Len(s) : Append(s, x)[i] = s[i]
      /\ Append(s, x)[Len(s) + 1] = x
  BY AppendProperties, LenProperties
<1>2. DOMAIN s = 1..Len(s) /\ DOMAIN Append(s, x) = 1..(Len(s) + 1)
  BY <1>1, LenProperties
<1>3. ASSUME NEW i \in 1..(Len(s) + 1)
      PROVE  Append(s, x)[i] \in Elements(s) \cup {x}
  <2>1. CASE i \in 1..Len(s)
    BY <1>1, <1>2, <2>1 DEF Elements
  <2>2. CASE i = Len(s) + 1
    BY <1>1, <2>2
  <2> QED
    BY <1>1, <2>1, <2>2
<1>4. Elements(s) \subseteq Elements(Append(s, x))
  BY <1>1, <1>2 DEF Elements
<1>5. x \in Elements(Append(s, x))
  BY <1>1, <1>2 DEF Elements
<1> QED
  BY <1>2, <1>3, <1>4, <1>5 DEF Elements

(* The innermost frame moves on to its next import, the others stay.       *)
LEMMA AdvancedProperties ==
  ASSUME NEW s \in Seq(Frames)
  PROVE  /\ Advanced(s) \in Seq(Frames) /\ Len(Advanced(s)) = Len(s) /\ Len(s) \in Nat
         /\ \A i \in 1..Len(s) : /\ Advanced(s)[i].m = s[i].m
                                 /\ i # Len(s) => Advanced(s)[i].next = s[i].next
                                 /\ i = Len(s) => Advanced(s)[i].next = s[i].next + 1
         /\ s # << >> => Advanced(s) # << >>
<1>1. CASE s = << >>
  BY <1>1, EmptySeq DEF Advanced
<1>2. CASE s # << >>
  <2>1. Len(s) \in Nat \ {0} /\ s[Len(s)] \in Frames
    BY <1>2, EmptySeq, ElementOfSeq
  <2> DEFINE f == [m |-> s[Len(s)].m, next |-> s[Len(s)].next + 1]
  <2>2. f \in Frames
    BY <2>1 DEF Frames
  <2>3. [s[Len(s)] EXCEPT !.next = @ + 1] = f
    BY <2>1 DEF Frames
  <2>4. Advanced(s) = [s EXCEPT ![Len(s)] = f]
    BY <1>2, <2>1, <2>3, LenProperties DEF Advanced
  <2>5. /\ Advanced(s) \in Seq(Frames) /\ Len(Advanced(s)) = Len(s)
        /\ \A i \in 1..Len(s) : Advanced(s)[i] = IF i = Len(s) THEN f ELSE s[i]
    BY <2>1, <2>2, <2>4, ExceptSeq
  <2>6. Advanced(s) # << >>
    BY <2>1, <2>5, EmptySeq
  <2> QED
    BY <2>1, <2>5, <2>6
<1> QED
  BY <1>1, <1>2

(* The import lists are sequences of modules.                              *)
LEMMA ImportsTyped ==
  ASSUME LoadTypes, NEW m \in Modules
  PROVE  /\ program[m].imports \in Seq(Modules)
         /\ Len(program[m].imports) \in Nat
         /\ DOMAIN program[m].imports = 1..Len(program[m].imports)
         /\ Imports(m) = {program[m].imports[j] : j \in 1..Len(program[m].imports)}
         /\ Imports(m) \subseteq Modules
<1>1. program[m].imports \in Seq(Modules)
  BY ProgramsAssumption DEF LoadTypes
<1> QED
  BY <1>1, LenProperties, ElementOfSeq DEF Imports, Elements

(* What the entry needs contains the entry and is closed under imports.    *)
LEMMA ReachableClosed ==
  ASSUME LoadTypes
  PROVE  /\ Entry \in Reachable /\ Reachable \subseteq Modules
         /\ \A m \in Reachable : Imports(m) \subseteq Reachable
         /\ \A S \in SUBSET Modules : Entry \in S /\ Closed(S) => Reachable \subseteq S
BY ProgramsAssumption, ImportsTyped DEF Reachable, Closed

(* Files do not change, and with them what the entry needs.                *)
LEMMA SameProgram ==
  ASSUME program' = program
  PROVE  /\ Reachable' = Reachable
         /\ \A m : Imports(m)' = Imports(m)
         /\ \A S : (Cyclic(S)' <=> Cyclic(S)) /\ (Closed(S)' <=> Closed(S))
BY DEF Reachable, Imports, Cyclic, Closed
(* The innermost frame, and where a frame of the stack is. *)
LEMMA StackFacts ==
  ASSUME LoadInv
  PROVE  /\ Len(loading) \in Nat /\ DOMAIN loading = 1..Len(loading)
         /\ \A i \in 1..Len(loading) : loading[i] \in Frames /\ loading[i].m \in Modules
                                                        /\ loading[i].next \in Nat \ {0}
         /\ Loading = {loading[i].m : i \in 1..Len(loading)}
         /\ loading # << >> => Len(loading) # 0 /\ Last(loading) = loading[Len(loading)]
         /\ loading = << >> => Len(loading) = 0
<1>1. loading \in Seq(Frames)
  BY DEF LoadInv, LoadTypes
<1>2. Len(loading) \in Nat /\ DOMAIN loading = 1..Len(loading)
  BY <1>1, LenProperties
<1>3. \A i \in 1..Len(loading) : loading[i] \in Frames
  BY <1>1, ElementOfSeq
<1> QED
  BY <1>1, <1>2, <1>3, EmptySeq DEF Loading, Last, Frames

(* A module that load_module is called for is needed.                      *)
LEMMA CalledIsNeeded ==
  ASSUME LoadInv, NEW m, Calls(m)
  PROVE  /\ stage = "loading" /\ m \in Reachable /\ m \in Modules
         /\ loading # << >> => /\ Last(loading).m \in cache /\ Last(loading).m \in Modules
                               /\ m \in Imports(Last(loading).m)
                               /\ Last(loading).next \in 1..Len(program[Last(loading).m].imports)
                               /\ m = program[Last(loading).m].imports[Last(loading).next]
<1>1. stage = "loading" /\ LoadTypes
  BY DEF Calls, LoadInv
<1>2. CASE loading = << >>
  BY <1>1, <1>2, ReachableClosed DEF Calls
<1>3. CASE loading # << >>
  <2>1. /\ Last(loading).m \in cache /\ Last(loading).m \in Modules
        /\ Last(loading).next \in Nat \ {0}
    BY <1>3, StackFacts DEF LoadInv, StackInv
  <2>2. /\ Last(loading).next <= Len(program[Last(loading).m].imports)
        /\ m = program[Last(loading).m].imports[Last(loading).next]
    BY <1>3 DEF Calls
  <2>3. m \in Imports(Last(loading).m)
    BY <1>1, <2>1, <2>2, ImportsTyped
  <2>4. Last(loading).m \in Reachable
    BY <1>1, <2>1 DEF LoadInv, CacheInv
  <2> QED
    BY <1>1, <2>1, <2>2, <2>3, <2>4, ReachableClosed, ImportsTyped
<1> QED
  BY <1>2, <1>3

(* A file with an error among those parsed is a needed one.                *)
LEMMA BadIsNeeded ==
  ASSUME LoadInv, stage = "loading" \/ stage = "walking"
  PROVE  Bad(cache) # {} => \E m \in Reachable : program[m].bad
BY DEF LoadInv, CacheInv, Bad

(* A refusal ends the analysis: only its reason has to be shown.           *)
LEMMA RefusalKeeps ==
  ASSUME LoadInv, stage' = "refused", loading' = << >>, cache' \subseteq Modules,
         UNCHANGED <<program, walk, unit>>, RefusalIsDeserved'
  PROVE  LoadInv'
<1>1. LoadTypes'
  BY EmptySeq DEF LoadInv, LoadTypes
<1>2. StackInv'
  BY EmptySeq DEF StackInv
<1> QED
  BY <1>1, <1>2 DEF LoadInv, CacheInv, DoneInv, WalkInv, VerdictInv, UnitIsExact, HasUnit

(* The modules from one frame of the stack to the innermost are a path of  *)
(* imports; if the innermost imports the first of them, it is a circle.    *)
LEMMA StackIsPath ==
  ASSUME LoadInv, NEW m, Calls(m), InProgress(m)
  PROVE  \E S \in SUBSET Reachable : Cyclic(S)
<1>1. PICK i \in 1..Len(loading) : loading[i].m = m
  BY StackFacts DEF InProgress
<1>2. Len(loading) \in Nat /\ Len(loading) # 0 /\ loading # << >>
  BY <1>1, StackFacts
<1> DEFINE S == {loading[k].m : k \in i..Len(loading)}
<1>3. S \subseteq Reachable
  BY <1>1, <1>2, CalledIsNeeded DEF LoadInv, CacheInv, StackInv
<1>4. i \in i..Len(loading) /\ loading[i].m \in S
  BY <1>1, <1>2
<1>5. ASSUME NEW k \in i..Len(loading) PROVE Imports(loading[k].m) \cap S # {}
  <2>1. CASE k = Len(loading)
    <3>1. m \in Imports(loading[k].m)
      BY <1>2, <2>1, CalledIsNeeded, StackFacts
    <3> QED
      BY <1>1, <1>2, <3>1
  <2>2. CASE k # Len(loading)
    <3>1. k \in 1..(Len(loading) - 1) /\ k + 1 \in i..Len(loading)
      BY <1>1, <1>2, <1>5, <2>2
    <3>2. /\ loading[k].next - 1 \in 1..Len(program[loading[k].m].imports)
          /\ program[loading[k].m].imports[loading[k].next - 1] = loading[k + 1].m
          /\ loading[k].m \in Modules /\ LoadTypes
      BY <1>2, <3>1, StackFacts DEF LoadInv, StackInv
    <3>3. loading[k + 1].m \in Imports(loading[k].m)
      BY <3>2, ImportsTyped
    <3> QED
      BY <3>1, <3>3
  <2> QED
    BY <2>1, <2>2
<1> HIDE DEF S
<1>6. \A x \in S : Imports(x) \cap S # {}
  BY <1>5 DEF S
<1> QED
  BY <1>3, <1>4, <1>6 DEF Cyclic

(* The failures of load_module.                                            *)
LEMMA FailuresKeepLoading ==
  ASSUME LoadInv, ImportCycle \/ NotFound \/ NotUtf8 \/ WrongName
  PROVE  LoadInv'
<1>1. CASE ImportCycle
  <2>1. PICK m \in Modules : Calls(m) /\ InProgress(m) /\ Raise("DRV-0030", cache)
    BY <1>1 DEF ImportCycle
  <2>2. stage = "loading" /\ program' = program /\ cache' = cache
    BY <2>1 DEF Calls, Raise
  <2>3. \E S \in SUBSET Reachable : Cyclic(S)
    BY <2>1, StackIsPath
  <2>4. RefusalIsDeserved'
    BY <2>1, <2>2, <2>3, BadIsNeeded, SameProgram DEF Raise, RefusalIsDeserved
  <2> QED
    BY <2>1, <2>2, <2>4, RefusalKeeps DEF Raise, LoadInv, LoadTypes
<1>2. CASE NotFound \/ NotUtf8
  <2>1. PICK m \in Modules, e \in {"DRV-0010", "DRV-0040"} :
          /\ Calls(m) /\ Raise(e, cache)
          /\ e = "DRV-0010" => program[m].state = "absent"
          /\ e = "DRV-0040" => program[m].state = "bytes"
    BY <1>2 DEF NotFound, NotUtf8, Fresh
  <2>2. stage = "loading" /\ program' = program /\ cache' = cache /\ m \in Reachable
    BY <2>1, CalledIsNeeded DEF Calls, Raise
  <2>3. RefusalIsDeserved'
    BY <2>1, <2>2, BadIsNeeded, SameProgram DEF Raise, RefusalIsDeserved
  <2> QED
    BY <2>1, <2>2, <2>3, RefusalKeeps DEF Raise, LoadInv, LoadTypes
<1>3. CASE WrongName
  <2>1. PICK m \in Modules :
          /\ Fresh(m) /\ program[m].declares # m
          /\ stage' = "refused" /\ loading' = << >>
          /\ verdict' = IF Bad(cache \cup {m}) # {} THEN {"syntax"} ELSE {"DRV-0020"}
          /\ cache' = cache \cup {program[m].declares}
          /\ UNCHANGED <<program, walk, unit>>
    BY <1>3 DEF WrongName
  <2>2. stage = "loading" /\ m \in Reachable
    BY <2>1, CalledIsNeeded DEF Fresh
  <2>3. Bad(cache \cup {m}) # {} => \E x \in Reachable : program[x].bad
    BY <2>2, BadIsNeeded DEF Bad
  <2>4. RefusalIsDeserved'
    BY <2>1, <2>2, <2>3, SameProgram DEF RefusalIsDeserved
  <2>5. cache' \subseteq Modules
    BY <2>1, ProgramsAssumption DEF LoadInv, LoadTypes
  <2> QED
    BY <2>1, <2>4, <2>5, RefusalKeeps
<1> QED
  BY <1>1, <1>2, <1>3

(* What stays while the driver loads: no verdict and no unit yet.          *)
LEMMA LoadingGoesOn ==
  ASSUME LoadInv, stage = "loading", UNCHANGED <<program, stage, walk, unit, verdict>>,
         cache' \subseteq Modules, loading' \in Seq(Frames),
         CacheInv', StackInv', DoneInv'
  PROVE  LoadInv'
<1>1. LoadTypes'
  BY DEF LoadInv, LoadTypes
<1>2. RefusalIsDeserved'
  BY DEF LoadInv, VerdictInv, RefusalIsDeserved
<1> QED
  BY <1>1, <1>2 DEF LoadInv, WalkInv, VerdictInv, UnitIsExact, HasUnit

(* A module that was loaded before: only the innermost frame moves on.     *)
LEMMA CacheHitKeepsLoading ==
  ASSUME LoadInv, CacheHit
  PROVE  LoadInv'
<1>1. PICK m \in Modules :
        /\ Calls(m) /\ ~InProgress(m) /\ m \in cache
        /\ loading' = Advanced(loading)
        /\ UNCHANGED <<program, stage, cache, walk, unit, verdict>>
  BY DEF CacheHit
<1>2. /\ loading \in Seq(Frames) /\ stage = "loading"
      /\ loading' \in Seq(Frames) /\ Len(loading') = Len(loading)
      /\ \A i \in 1..Len(loading) : /\ loading'[i].m = loading[i].m
                                    /\ i # Len(loading) => loading'[i].next = loading[i].next
                                    /\ i = Len(loading) => loading'[i].next = loading[i].next + 1
  BY <1>1, AdvancedProperties DEF LoadInv, LoadTypes, Calls
<1>3. Loading' = Loading
  BY <1>2, StackFacts, LenProperties DEF Loading
<1>4. Done' = Done /\ m \in Done
  BY <1>1, <1>3 DEF Done, InProgress
<1>5. CacheInv' /\ DoneInv'
  BY <1>1, <1>4, SameProgram DEF LoadInv, CacheInv, DoneInv
<1>6. StackInv'
  <2>1. CASE loading = << >>
    <3>1. loading' = << >>
      BY <1>1, <2>1 DEF Advanced
    <3> QED
      BY <3>1, EmptySeq DEF StackInv
  <2>2. CASE loading # << >>
    <3>1. /\ Len(loading) \in Nat \ {0} /\ Last(loading) = loading[Len(loading)]
          /\ loading' # << >> /\ Last(loading)' = loading'[Len(loading)]
      BY <1>1, <1>2, <2>2, StackFacts, AdvancedProperties DEF Last
    <3>2. m = program[Last(loading).m].imports[Last(loading).next]
      BY <1>1, <2>2, CalledIsNeeded
    <3>3. ASSUME NEW i \in 1..(Len(loading) - 1)
          PROVE  i \in 1..Len(loading) /\ i + 1 \in 1..Len(loading) /\ i # Len(loading)
      BY <3>1
    <3>4. \A i \in 1..(Len(loading) - 1) :
            /\ loading'[i].m = loading[i].m /\ loading'[i].next = loading[i].next
            /\ loading'[i + 1].m = loading[i + 1].m
      BY <1>2, <3>3
    <3>5. /\ Last(loading)'.m = Last(loading).m
          /\ Last(loading)'.next = Last(loading).next + 1 /\ Last(loading).next \in Nat \ {0}
      BY <1>2, <2>2, <3>1, StackFacts
    <3>6. ASSUME NEW j \in 1..(Last(loading)'.next - 1)
          PROVE  program[Last(loading).m].imports[j] \in Done
      <4>1. j \in 1..(Last(loading).next - 1) \/ j = Last(loading).next
        BY <3>5
      <4> QED
        BY <1>4, <2>2, <3>2, <4>1 DEF LoadInv, StackInv
    <3>7. loading'[1].m = Entry
      BY <1>2, <2>2, <3>1 DEF LoadInv, StackInv
    <3>8. \A i \in 1..(Len(loading) - 1) :
            /\ loading'[i].next - 1 \in 1..Len(program[loading'[i].m].imports)
            /\ program[loading'[i].m].imports[loading'[i].next - 1] = loading'[i + 1].m
            /\ \A j \in 1..(loading'[i].next - 2) : program[loading'[i].m].imports[j] \in Done
      BY <3>4 DEF LoadInv, StackInv
    <3>9. /\ \A i \in 1..Len(loading) : loading'[i].m \in cache
          /\ \A i, j \in 1..Len(loading) : loading'[i].m = loading'[j].m => i = j
      BY <1>2 DEF LoadInv, StackInv
    <3> QED
      BY <1>1, <1>2, <1>4, <3>5, <3>6, <3>7, <3>8, <3>9 DEF StackInv
  <2> QED
    BY <2>1, <2>2
<1> QED
  BY <1>1, <1>2, <1>5, <1>6, LoadingGoesOn DEF LoadInv, LoadTypes

(* A new module: it goes into the cache and onto the stack.                *)
LEMMA ParseKeepsLoading ==
  ASSUME LoadInv, Parse
  PROVE  LoadInv'
<1>1. PICK m \in Modules :
        /\ Calls(m) /\ ~InProgress(m) /\ m \notin cache
        /\ program[m].state = "text" /\ program[m].declares = m
        /\ cache' = cache \cup {m}
        /\ loading' = Append(Advanced(loading), Frame(m))
        /\ UNCHANGED <<program, stage, walk, unit, verdict>>
  BY DEF Parse, Fresh
<1> DEFINE n == Len(loading)
<1>2. /\ loading \in Seq(Frames) /\ stage = "loading" /\ n \in Nat
      /\ Frame(m) \in Frames /\ m \in Reachable
  BY <1>1, CalledIsNeeded, StackFacts DEF LoadInv, LoadTypes, Calls, Frame, Frames
<1>3. /\ Advanced(loading) \in Seq(Frames) /\ Len(Advanced(loading)) = n
      /\ \A i \in 1..n : /\ Advanced(loading)[i].m = loading[i].m
                         /\ i # n => Advanced(loading)[i].next = loading[i].next
                         /\ i = n => Advanced(loading)[i].next = loading[i].next + 1
  BY <1>2, AdvancedProperties
<1>4. /\ loading' \in Seq(Frames) /\ loading' # << >> /\ Len(loading') = n + 1
      /\ \A i \in 1..n : loading'[i] = Advanced(loading)[i]
      /\ loading'[n + 1] = Frame(m)
  BY <1>1, <1>2, <1>3, AppendProperties
<1>5. /\ \A i \in 1..n : /\ loading'[i].m = loading[i].m
                         /\ i # n => loading'[i].next = loading[i].next
                         /\ i = n => loading'[i].next = loading[i].next + 1
      /\ loading'[n + 1].m = m /\ loading'[n + 1].next = 1
      /\ Last(loading)' = loading'[n + 1]
  BY <1>3, <1>4 DEF Frame, Last
<1> HIDE DEF n
<1>6. Loading' = Loading \cup {m}
  <2>1. DOMAIN loading' = 1..(n + 1) /\ Loading = {loading[i].m : i \in 1..n}
    BY <1>4, StackFacts, LenProperties DEF n
  <2>2. Loading' = {loading'[i].m : i \in 1..(n + 1)}
    BY <2>1 DEF Loading
  <2>3. 1..(n + 1) = (1..n) \cup {n + 1}
    BY <1>2
  <2> QED
    BY <1>5, <2>1, <2>2, <2>3
<1>7. Done' = Done
  BY <1>1, <1>6 DEF Done, InProgress
<1>8. CacheInv' /\ DoneInv'
  BY <1>1, <1>2, <1>7, SameProgram DEF LoadInv, CacheInv, DoneInv
<1>9. StackInv'
  <2>1. /\ \A i \in 1..n : loading[i].m \in cache /\ loading[i].m # m
        /\ \A i \in 1..n : loading[i].next \in Nat \ {0}
        /\ \A i, j \in 1..n : loading[i].m = loading[j].m => i = j
    BY <1>1, StackFacts DEF LoadInv, StackInv, n
  <2>2. ASSUME NEW i \in 1..(n + 1), i # n + 1 PROVE i \in 1..n
    BY <1>2, <2>2
  <2>3. \A i \in 1..(n + 1) : loading'[i].m \in cache'
    BY <1>1, <1>5, <2>1, <2>2
  <2>4. \A i, j \in 1..(n + 1) : loading'[i].m = loading'[j].m => i = j
    BY <1>5, <2>1, <2>2
  <2>5. ASSUME NEW i \in 1..n
        PROVE  /\ loading'[i].next - 1 \in 1..Len(program[loading'[i].m].imports)
               /\ program[loading'[i].m].imports[loading'[i].next - 1] = loading'[i + 1].m
               /\ \A j \in 1..(loading'[i].next - 2) : program[loading'[i].m].imports[j] \in Done
    <3>1. CASE i = n
      <4>1. loading # << >> /\ Last(loading) = loading[n]
        BY <1>2, <2>5, StackFacts DEF n
      <4>2. /\ loading[n].next \in 1..Len(program[loading[n].m].imports)
            /\ m = program[loading[n].m].imports[loading[n].next]
        BY <1>1, <4>1, CalledIsNeeded
      <4>3. \A j \in 1..(loading[n].next - 1) : program[loading[n].m].imports[j] \in Done
        BY <4>1 DEF LoadInv, StackInv
      <4>4. loading'[n].next = loading[n].next + 1 /\ loading'[n].m = loading[n].m
            /\ loading[n].next \in Nat
        BY <1>5, <2>1, <2>5, <3>1
      <4>5. loading'[n].next - 1 = loading[n].next /\ loading'[n].next - 2 = loading[n].next - 1
        BY <4>4
      <4> QED
        BY <1>5, <3>1, <4>2, <4>3, <4>4, <4>5
    <3>2. CASE i # n
      <4>1. i \in 1..(n - 1) /\ i + 1 \in 1..n
        BY <1>2, <2>5, <3>2
      <4>2. /\ loading'[i].m = loading[i].m /\ loading'[i].next = loading[i].next
            /\ loading'[i + 1].m = loading[i + 1].m
        BY <1>5, <2>5, <3>2, <4>1
      <4> QED
        BY <4>1, <4>2 DEF LoadInv, StackInv, n
    <3> QED
      BY <3>1, <3>2
  <2>6. loading'[1].m = Entry
    <3>1. CASE loading = << >>
      BY <1>1, <1>5, <3>1, StackFacts DEF Calls, n
    <3>2. CASE loading # << >>
      BY <1>2, <1>5, <3>2, StackFacts DEF LoadInv, StackInv, n
    <3> QED
      BY <3>1, <3>2
  <2>7. Len(loading') = n + 1 /\ Len(loading') - 1 = n /\ stage' = "loading"
    BY <1>1, <1>2, <1>4
  <2>8. \A j \in 1..(Last(loading)'.next - 1) : program'[Last(loading)'.m].imports[j] \in Done'
    BY <1>5
  <2> QED
    BY <1>1, <1>7, <2>3, <2>4, <2>5, <2>6, <2>7, <2>8 DEF StackInv
<1> QED
  BY <1>1, <1>2, <1>4, <1>8, <1>9, LoadingGoesOn DEF LoadInv, LoadTypes

(* A module whose imports are all done makes no circle with them.          *)
LEMMA AcyclicGrows ==
  ASSUME NEW D, NEW m, m \notin D, Imports(m) \subseteq D,
         \A x \in D : Imports(x) \subseteq D, \A S \in SUBSET D : ~Cyclic(S)
  PROVE  \A S \in SUBSET (D \cup {m}) : ~Cyclic(S)
<1> SUFFICES ASSUME NEW S \in SUBSET (D \cup {m}), Cyclic(S) PROVE FALSE
  OBVIOUS
<1>1. \A x \in S : Imports(x) \cap (S \ {m}) # {}
  BY DEF Cyclic
<1>2. S \ {m} # {}
  <2>1. PICK x \in S : TRUE
    BY DEF Cyclic
  <2> QED
    BY <1>1, <2>1
<1>3. Cyclic(S \ {m})
  BY <1>1, <1>2 DEF Cyclic
<1> QED
  BY <1>3

(* A call of load_module returns: its module is done.                      *)
LEMMA LoadedKeepsLoading ==
  ASSUME LoadInv, Loaded
  PROVE  LoadInv'
<1> DEFINE n == Len(loading)
           m == Last(loading).m
<1>1. /\ stage = "loading" /\ loading # << >> /\ loading \in Seq(Frames) /\ LoadTypes
      /\ Last(loading).next > Len(program[m].imports)
      /\ loading' = Front(loading)
      /\ UNCHANGED <<program, cache, verdict>>
  BY DEF Loaded, LoadInv, LoadTypes
<1>2. /\ n \in Nat \ {0} /\ Last(loading) = loading[n] /\ m \in cache /\ m \in Modules
      /\ loading[n].next \in Nat \ {0} /\ m = loading[n].m
  BY <1>1, StackFacts, FrontProperties DEF LoadInv, StackInv
<1>3. /\ loading' \in Seq(Frames) /\ Len(loading') = n - 1
      /\ \A i \in 1..(n - 1) : loading'[i] = loading[i]
  BY <1>1, FrontProperties
<1> HIDE DEF n
<1>4. Loading' = Loading \ {m}
  <2>1. Loading = {loading[i].m : i \in 1..n} /\ DOMAIN loading' = 1..(n - 1)
    BY <1>3, StackFacts, LenProperties DEF n
  <2>2. Loading' = {loading'[i].m : i \in 1..(n - 1)}
    BY <2>1 DEF Loading
  <2>3. 1..n = 1..(n - 1) \cup {n} /\ n \notin 1..(n - 1)
    BY <1>2
  <2>4. \A i \in 1..(n - 1) : loading'[i].m = loading[i].m /\ loading[i].m # m
    BY <1>2, <1>3, <2>3 DEF LoadInv, StackInv, n
  <2> QED
    BY <1>2, <2>1, <2>2, <2>3, <2>4
<1>5. Done' = Done \cup {m} /\ m \notin Done
  BY <1>1, <1>2, <1>4, StackFacts DEF Done, n
<1>6. Imports(m) \subseteq Done
  <2>1. ASSUME NEW j \in 1..Len(program[m].imports) PROVE program[m].imports[j] \in Done
    <3>1. j \in 1..(Last(loading).next - 1)
      BY <1>1, <1>2, <2>1, ImportsTyped
    <3> QED
      BY <1>1, <3>1 DEF LoadInv, StackInv
  <2> QED
    BY <1>1, <1>2, <2>1, ImportsTyped
<1>7. \A x \in Done' : Imports(x) \subseteq Done'
  BY <1>1, <1>5, <1>6 DEF LoadInv, DoneInv
<1>8. \A S \in SUBSET Done' : ~Cyclic(S)
  <2>1. (\A x \in Done : Imports(x) \subseteq Done) /\ (\A S \in SUBSET Done : ~Cyclic(S))
    BY <1>1 DEF LoadInv, DoneInv
  <2> HIDE DEF m
  <2> QED
    BY <1>5, <1>6, <2>1, AcyclicGrows
<1>9. DoneInv'
  BY <1>1, <1>7, <1>8, SameProgram DEF DoneInv
<1>10. CacheInv'
  BY <1>1, SameProgram DEF Loaded, LoadInv, CacheInv
<1>11. StackInv'
  <2>1. CASE n = 1
    <3>1. loading' = << >>
      BY <1>3, <2>1, EmptySeq
    <3> QED
      BY <3>1, EmptySeq DEF StackInv
  <2>2. CASE n # 1
    <3>1. /\ n - 1 \in Nat \ {0} /\ n - 1 \in 1..n /\ 1 \in 1..(n - 1)
          /\ loading' # << >> /\ stage' = "loading"
      BY <1>1, <1>2, <1>3, <2>2, EmptySeq DEF Loaded, n
    <3>2. Last(loading)' = loading[n - 1] /\ loading'[1].m = Entry
      BY <1>1, <1>3, <3>1 DEF Last, LoadInv, StackInv
    <3>3. ASSUME NEW i \in 1..(n - 1) PROVE i \in 1..n
      BY <1>2
    <3>4. /\ \A i \in 1..(n - 1) : loading'[i].m \in cache
          /\ \A i, j \in 1..(n - 1) : loading'[i].m = loading'[j].m => i = j
      <4>1. /\ \A i \in 1..n : loading[i].m \in cache
            /\ \A i, j \in 1..n : loading[i].m = loading[j].m => i = j
        BY DEF LoadInv, StackInv, n
      <4> QED
        BY <1>3, <3>3, <4>1
    <3>5. ASSUME NEW i \in 1..((n - 1) - 1)
          PROVE  /\ loading'[i].next - 1 \in 1..Len(program[loading'[i].m].imports)
                 /\ program[loading'[i].m].imports[loading'[i].next - 1] = loading'[i + 1].m
                 /\ \A j \in 1..(loading'[i].next - 2) : program[loading'[i].m].imports[j] \in Done'
      <4>1. i \in 1..(n - 1) /\ i + 1 \in 1..(n - 1)
        BY <1>2, <3>5
      <4>2. loading'[i] = loading[i] /\ loading'[i + 1] = loading[i + 1]
        BY <1>3, <4>1
      <4> QED
        BY <1>5, <4>1, <4>2 DEF LoadInv, StackInv, n
    <3>6. ASSUME NEW j \in 1..(loading[n - 1].next - 1)
          PROVE  program[loading[n - 1].m].imports[j] \in Done'
      <4>1. /\ program[loading[n - 1].m].imports[loading[n - 1].next - 1] = loading[(n - 1) + 1].m
            /\ \A k \in 1..(loading[n - 1].next - 2) : program[loading[n - 1].m].imports[k] \in Done
        BY <3>1 DEF LoadInv, StackInv, n
      <4>2. loading[n - 1].next \in Nat \ {0} /\ (n - 1) + 1 = n
        BY <1>2, <3>1, StackFacts DEF n
      <4>3. j = loading[n - 1].next - 1 \/ j \in 1..(loading[n - 1].next - 2)
        BY <3>6, <4>2
      <4> QED
        BY <1>2, <1>5, <4>1, <4>2, <4>3
    <3> QED
      BY <1>1, <1>3, <3>1, <3>2, <3>4, <3>5, <3>6 DEF StackInv
  <2> QED
    BY <2>1, <2>2
<1>12. CASE n = 1
  <2>1. /\ stage' = "walking" /\ walk' = <<Frame(Entry)>> /\ unit' = <<Entry>> /\ verdict' = {}
    BY <1>1, <1>12 DEF Loaded, LoadInv, VerdictInv, n
  <2>2. Entry \in cache /\ Entry \in Modules /\ Frame(Entry) \in Frames /\ Frame(Entry).m = Entry
        /\ Frame(Entry).next = 1
    BY <1>1, <1>2, <1>12, ProgramsAssumption DEF LoadInv, StackInv, Frame, Frames
  <2>3. LoadTypes'
    BY <1>1, <1>3, <2>1, <2>2 DEF LoadTypes
  <2>4. Elements(unit)' = {Entry} /\ DOMAIN unit' = {1}
    BY <2>1 DEF Elements
  <2>5. Len(walk') = 1 /\ walk'[1] = Frame(Entry)
    BY <2>1
  <2>6. WalkInv'
    BY <1>1, <2>2, <2>4, <2>5 DEF WalkInv
  <2> QED
    BY <1>9, <1>10, <1>11, <2>1, <2>3, <2>6
    DEF LoadInv, VerdictInv, UnitIsExact, HasUnit, RefusalIsDeserved
<1>13. CASE n # 1
  <2>1. UNCHANGED <<program, stage, walk, unit, verdict>> /\ cache' \subseteq Modules
    BY <1>1, <1>13 DEF Loaded, LoadInv, LoadTypes, n
  <2> QED
    BY <1>1, <1>3, <1>9, <1>10, <1>11, <2>1, LoadingGoesOn
<1> QED
  BY <1>12, <1>13

-----------------------------------------------------------------------------
(* What stays while the unit is collected.                                 *)
LEMMA WalkingGoesOn ==
  ASSUME LoadInv, stage = "walking", UNCHANGED <<program, stage, loading, cache, verdict>>,
         walk' \in Seq(Frames), unit' \in Seq(Modules), WalkInv'
  PROVE  LoadInv'
<1>1. Done' = Done
  BY DEF Done, Loading
<1>2. CacheInv' /\ DoneInv'
  BY <1>1, SameProgram DEF LoadInv, CacheInv, DoneInv
<1>3. StackInv'
  <2>1. loading' = << >> /\ stage' = "walking"
    BY DEF LoadInv, StackInv
  <2> QED
    BY <2>1, EmptySeq DEF StackInv
<1> QED
  BY <1>2, <1>3
  DEF LoadInv, LoadTypes, VerdictInv, UnitIsExact, HasUnit, RefusalIsDeserved

(* The innermost frame of the walk and the elements of the unit.           *)
LEMMA WalkFacts ==
  ASSUME LoadInv
  PROVE  /\ walk \in Seq(Frames) /\ Len(walk) \in Nat /\ unit \in Seq(Modules)
         /\ \A i \in 1..Len(walk) : walk[i].m \in Modules /\ walk[i].next \in Nat \ {0}
         /\ walk # << >> => Last(walk) = walk[Len(walk)] /\ Len(walk) \in 1..Len(walk)
         /\ Len(unit) \in Nat /\ DOMAIN unit = 1..Len(unit)
         /\ Elements(unit) = {unit[i] : i \in 1..Len(unit)} /\ Elements(unit) \subseteq Modules
<1>1. walk \in Seq(Frames) /\ unit \in Seq(Modules)
  BY DEF LoadInv, LoadTypes
<1>2. \A i \in 1..Len(walk) : walk[i] \in Frames
  BY <1>1, ElementOfSeq
<1>3. walk # << >> => Len(walk) \in Nat \ {0}
  BY <1>1, EmptySeq
<1> QED
  BY <1>1, <1>2, <1>3, LenProperties, ElementOfSeq DEF Last, Elements, Frames

(* visit looks at one import: it is in the unit afterwards.                *)
LEMMA WalkIntoKeepsLoading ==
  ASSUME LoadInv, WalkInto
  PROVE  LoadInv'
<1> DEFINE n == Len(walk)
<1>1. PICK m \in cache :
        /\ stage = "walking" /\ walk # << >>
        /\ Last(walk).next <= Len(program[Last(walk).m].imports)
        /\ m = program[Last(walk).m].imports[Last(walk).next]
        /\ IF m \in Elements(unit)
           THEN walk' = Advanced(walk) /\ UNCHANGED unit
           ELSE walk' = Append(Advanced(walk), Frame(m)) /\ unit' = Append(unit, m)
        /\ UNCHANGED <<program, stage, loading, cache, verdict>>
  BY DEF WalkInto
<1>2. /\ n \in Nat /\ n \in 1..n /\ Last(walk) = walk[n] /\ walk \in Seq(Frames)
      /\ unit \in Seq(Modules) /\ m \in Modules
      /\ \A i \in 1..n : walk[i].next \in Nat \ {0} /\ walk[i].m \in Modules
  BY <1>1, WalkFacts DEF LoadInv, LoadTypes
<1>3. /\ Advanced(walk) \in Seq(Frames) /\ Len(Advanced(walk)) = n
      /\ \A i \in 1..n : /\ Advanced(walk)[i].m = walk[i].m
                         /\ i # n => Advanced(walk)[i].next = walk[i].next
                         /\ i = n => Advanced(walk)[i].next = walk[i].next + 1
  BY <1>2, AdvancedProperties
<1> HIDE DEF n
<1>4. WalkInv
  BY DEF LoadInv
<1>5. ASSUME NEW U, Elements(unit) \subseteq U, m \in U, NEW i \in 1..n
      PROVE  /\ Advanced(walk)[i].m \in U
             /\ \A j \in 1..Len(program[Advanced(walk)[i].m].imports) :
                   j < Advanced(walk)[i].next => program[Advanced(walk)[i].m].imports[j] \in U
  <2>1. Advanced(walk)[i].m = walk[i].m /\ walk[i].m \in U
    BY <1>1, <1>3, <1>4, <1>5 DEF WalkInv, n
  <2>2. ASSUME NEW j \in 1..Len(program[walk[i].m].imports), j < Advanced(walk)[i].next
        PROVE  program[walk[i].m].imports[j] \in U
    <3>1. CASE j < walk[i].next
      BY <1>1, <1>4, <1>5, <2>2, <3>1 DEF WalkInv, n
    <3>2. CASE ~(j < walk[i].next)
      <4>1. i = n /\ j = walk[n].next
        <5>1. walk[i].next \in Nat /\ j \in Nat
          BY <1>2, <2>2
        <5>2. i = n
          BY <1>3, <1>5, <2>2, <3>2
        <5>3. Advanced(walk)[i].next = walk[i].next + 1
          BY <1>3, <1>5, <5>2
        <5> QED
          BY <2>2, <3>2, <5>1, <5>2, <5>3
      <4> QED
        BY <1>1, <1>2, <1>5, <4>1
    <3> QED
      BY <3>1, <3>2
  <2> QED
    BY <2>1, <2>2
<1>6. CASE m \in Elements(unit)
  <2>1. walk' = Advanced(walk) /\ unit' = unit /\ Elements(unit)' = Elements(unit)
        /\ Len(walk') = n
    BY <1>1, <1>3, <1>6 DEF Elements
  <2>2. \A x \in Elements(unit) :
          Imports(x) \subseteq Elements(unit) \/ \E i \in 1..n : walk'[i].m = x
    BY <1>1, <1>3, <1>4, <2>1 DEF WalkInv, n
  <2>3. WalkInv'
    <3>1. \A i \in 1..n :
            /\ walk'[i].m \in Elements(unit)
            /\ \A j \in 1..Len(program[walk'[i].m].imports) :
                  j < walk'[i].next => program[walk'[i].m].imports[j] \in Elements(unit)
      BY <1>5, <1>6, <2>1
    <3> QED
      BY <1>1, <1>4, <2>1, <2>2, <3>1, SameProgram DEF WalkInv
  <2> QED
    BY <1>1, <1>2, <1>3, <2>1, <2>3, WalkingGoesOn
<1>7. CASE m \notin Elements(unit)
  <2>1. walk' = Append(Advanced(walk), Frame(m)) /\ unit' = Append(unit, m)
    BY <1>1, <1>7
  <2>2. Frame(m) \in Frames /\ Frame(m).m = m /\ Frame(m).next = 1
    BY <1>2 DEF Frame, Frames
  <2>3. /\ walk' \in Seq(Frames) /\ Len(walk') = n + 1
        /\ \A i \in 1..n : walk'[i] = Advanced(walk)[i]
        /\ walk'[n + 1] = Frame(m)
    BY <1>3, <2>1, <2>2, AppendProperties
  <2>4. /\ unit' \in Seq(Modules) /\ Elements(unit)' = Elements(unit) \cup {m}
        /\ Len(unit') = Len(unit) + 1
        /\ \A i \in 1..Len(unit) : unit'[i] = unit[i]
        /\ unit'[Len(unit) + 1] = m
    BY <1>2, <2>1, ElementsAppend, AppendProperties
  <2>5. \A i, j \in DOMAIN unit' : unit'[i] = unit'[j] => i = j
    <3>1. DOMAIN unit' = 1..(Len(unit) + 1) /\ Len(unit) \in Nat /\ DOMAIN unit = 1..Len(unit)
      BY <2>4, WalkFacts, LenProperties
    <3>2. ASSUME NEW i \in DOMAIN unit' PROVE i \in 1..Len(unit) \/ i = Len(unit) + 1
      BY <3>1, <3>2
    <3>3. \A i \in 1..Len(unit) : unit[i] # m
      BY <1>7, WalkFacts
    <3>4. \A i, j \in 1..Len(unit) : unit[i] = unit[j] => i = j
      BY <1>1, <1>4, <3>1 DEF WalkInv
    <3> QED
      BY <2>4, <3>2, <3>3, <3>4
  <2>6. ASSUME NEW i \in 1..(n + 1)
        PROVE  /\ walk'[i].m \in Elements(unit)'
               /\ \A j \in 1..Len(program[walk'[i].m].imports) :
                     j < walk'[i].next => program[walk'[i].m].imports[j] \in Elements(unit)'
    <3>1. CASE i \in 1..n
      <4>1. walk'[i] = Advanced(walk)[i]
        BY <2>3, <3>1
      <4> QED
        BY <1>5, <2>4, <3>1, <4>1
    <3>2. CASE i = n + 1
      BY <2>2, <2>3, <2>4, <3>2
    <3> QED
      BY <1>2, <2>6, <3>1, <3>2
  <2>7. ASSUME NEW x \in Elements(unit)'
        PROVE  Imports(x) \subseteq Elements(unit)' \/ \E i \in 1..(n + 1) : walk'[i].m = x
    <3>1. CASE x = m
      <4>1. n + 1 \in 1..(n + 1)
        BY <1>2
      <4> QED
        BY <2>2, <2>3, <3>1, <4>1
    <3>2. CASE x \in Elements(unit)
      <4>1. Imports(x) \subseteq Elements(unit) \/ \E i \in 1..n : walk[i].m = x
        BY <1>1, <1>4, <3>2 DEF WalkInv, n
      <4>2. ASSUME NEW i \in 1..n PROVE i \in 1..(n + 1) /\ walk'[i].m = walk[i].m
        BY <1>2, <1>3, <2>3, SMTT(30)
      <4> QED
        BY <2>4, <4>1, <4>2
    <3> QED
      BY <2>4, <2>7, <3>1, <3>2
  <2>8. Entry \in Elements(unit)' /\ Elements(unit)' \subseteq cache
    BY <1>1, <1>4, <2>4 DEF WalkInv
  <2>9. WalkInv'
    BY <1>1, <2>3, <2>5, <2>6, <2>7, <2>8, SameProgram DEF WalkInv
  <2> QED
    BY <1>1, <2>3, <2>4, <2>9, WalkingGoesOn
<1> QED
  BY <1>6, <1>7

(* visit returns: all imports of its module are in the unit.               *)
LEMMA WalkBackKeepsLoading ==
  ASSUME LoadInv, WalkBack
  PROVE  LoadInv'
<1> DEFINE n == Len(walk)
           m == Last(walk).m
<1>1. /\ stage = "walking" /\ walk # << >> /\ LoadTypes /\ WalkInv
      /\ Last(walk).next > Len(program[m].imports)
      /\ walk' = Front(walk)
      /\ UNCHANGED <<program, stage, loading, cache, unit, verdict>>
  BY DEF WalkBack, LoadInv
<1>2. /\ n \in Nat /\ n \in 1..n /\ Last(walk) = walk[n] /\ walk \in Seq(Frames) /\ m \in Modules
      /\ walk[n].next \in Nat /\ unit' \in Seq(Modules)
  BY <1>1, WalkFacts
<1>3. /\ walk' \in Seq(Frames) /\ Len(walk') = n - 1
      /\ \A i \in 1..(n - 1) : walk'[i] = walk[i] /\ i \in 1..n
  BY <1>1, <1>2, FrontProperties
<1> HIDE DEF n
<1>4. Imports(m) \subseteq Elements(unit)
  <2>1. ASSUME NEW j \in 1..Len(program[m].imports) PROVE program[m].imports[j] \in Elements(unit)
    <3>1. j < walk[n].next
      BY <1>1, <1>2, <2>1, ImportsTyped
    <3> QED
      BY <1>1, <1>2, <2>1, <3>1 DEF WalkInv, n
  <2> QED
    BY <1>1, <1>2, <2>1, ImportsTyped
<1>5. Elements(unit)' = Elements(unit)
  BY <1>1 DEF Elements
<1>6. ASSUME NEW x \in Elements(unit)
      PROVE  Imports(x) \subseteq Elements(unit) \/ \E i \in 1..(n - 1) : walk'[i].m = x
  <2>1. Imports(x) \subseteq Elements(unit) \/ \E i \in 1..n : walk[i].m = x
    BY <1>1, <1>6 DEF WalkInv, n
  <2>2. ASSUME NEW i \in 1..n, walk[i].m = x, x # m PROVE i \in 1..(n - 1)
    BY <1>2, <2>2
  <2> QED
    BY <1>3, <1>4, <2>1, <2>2
<1>7. \A i \in 1..(n - 1) :
        /\ walk'[i].m \in Elements(unit)
        /\ \A j \in 1..Len(program[walk'[i].m].imports) :
              j < walk'[i].next => program[walk'[i].m].imports[j] \in Elements(unit)
  BY <1>1, <1>3 DEF WalkInv, n
<1>8. WalkInv'
  BY <1>1, <1>3, <1>5, <1>6, <1>7, SameProgram DEF WalkInv
<1> QED
  BY <1>1, <1>2, <1>3, <1>8, WalkingGoesOn

(* The walk is over: the unit is closed under imports and contains the     *)
(* entry, and it is part of what was loaded.                               *)
LEMMA CollectedKeepsLoading ==
  ASSUME LoadInv, Collected
  PROVE  LoadInv'
<1>1. /\ stage = "walking" /\ walk = << >> /\ loading = << >> /\ LoadTypes /\ WalkInv
      /\ UNCHANGED loadVars
  BY DEF Collected, LoadInv, StackInv
<1>2. program' = program /\ cache' = cache /\ unit' = unit /\ loading' = loading /\ walk' = walk
  BY <1>1 DEF loadVars
<1>3. CASE Bad(cache) # {}
  <2>1. stage' = "refused" /\ verdict' = {"syntax"}
    BY <1>3 DEF Collected
  <2>2. RefusalIsDeserved'
    BY <1>1, <1>2, <1>3, <2>1, BadIsNeeded, SameProgram DEF RefusalIsDeserved
  <2> QED
    BY <1>1, <1>2, <2>1, <2>2, RefusalKeeps DEF LoadTypes
<1>4. CASE Bad(cache) = {}
  <2>1. stage' = "naming" /\ verdict' = {}
    BY <1>1, <1>4 DEF Collected, LoadInv, VerdictInv
  <2>2. Done = cache /\ Done' = Done
    <3>1. Len(loading) = 0
      BY <1>1, EmptySeq
    <3>2. Loading = {}
      BY <3>1, StackFacts
    <3> QED
      BY <1>2, <3>2 DEF Done, Loading
  <2>3. Elements(unit) \subseteq Reachable /\ Elements(unit) \subseteq cache
    BY <1>1 DEF WalkInv, LoadInv, CacheInv
  <2>4. Closed(Elements(unit)) /\ Entry \in Elements(unit)
    <3>1. Len(walk) = 0
      BY <1>1, EmptySeq
    <3> QED
      BY <1>1, <3>1 DEF WalkInv, Closed
  <2>5. Elements(unit) = Reachable
    BY <1>1, <2>3, <2>4, WalkFacts, ReachableClosed
  <2>6. \A S \in SUBSET Elements(unit) : ~Cyclic(S)
    BY <1>1, <2>2, <2>3 DEF LoadInv, DoneInv
  <2>7. \A m \in Elements(unit) :
          program[m].state = "text" /\ program[m].declares = m /\ ~program[m].bad
    BY <1>1, <1>4, <2>3 DEF LoadInv, CacheInv, Bad
  <2>8. Elements(unit)' = Elements(unit)
    BY <1>2 DEF Elements
  <2>9. UnitIsExact'
    BY <1>1, <1>2, <2>5, <2>6, <2>7, <2>8, SameProgram DEF UnitIsExact, WalkInv
  <2>10. CacheInv' /\ DoneInv'
    BY <1>1, <1>2, <2>2, SameProgram DEF LoadInv, CacheInv, DoneInv
  <2>11. StackInv'
    BY <1>1, <1>2, EmptySeq DEF StackInv
  <2> QED
    BY <1>1, <1>2, <2>1, <2>9, <2>10, <2>11
    DEF LoadInv, LoadTypes, WalkInv, VerdictInv, RefusalIsDeserved
<1> QED
  BY <1>3, <1>4

-----------------------------------------------------------------------------
DriverErrors == {"DRV-0010", "DRV-0020", "DRV-0030", "DRV-0040", "syntax"}

(* Nothing after the driver loads a module or reports an error of the      *)
(* driver.                                                                 *)
LEMMA LaterSteps ==
  ASSUME NameNext \/ SigNext \/ AllSigned \/ Sort \/ CyclesChecked \/ Emitted
  PROVE  /\ HasUnit /\ HasUnit' /\ UNCHANGED loadVars
         /\ verdict' \cap DriverErrors \subseteq verdict
<1> USE DEF HasUnit, DriverErrors
<1>1. CASE NameNext
  BY <1>1 DEF NameNext, CollectLocals, AllCollected, OpenAgain, OpenImport, ModuleOpened,
              AllOpened, Opening
<1>2. CASE SigNext
  <2> USE DEF sameNames, Working, AtDecl, AtRef, Asking
  <2>1. ASSUME NEW t, NEW errors, Answer(t, errors), stage = "signatures",
               errors \cap DriverErrors = {}
        PROVE  /\ HasUnit /\ HasUnit' /\ UNCHANGED loadVars
               /\ verdict' \cap DriverErrors \subseteq verdict
    BY <2>1 DEF Answer, Report
  <2>2. \A t, ref : VoidError(t, ref) \cap DriverErrors = {}
    BY DEF VoidError
  <2>3. Found # {} => stage = "signatures"
    BY DEF Found
  <2>4. CASE NamesBuiltin \/ Unknown \/ NotAType \/ NamesType \/ Known \/ CyclicAlias
    <3>1. stage = "signatures"
      BY <2>3, <2>4 DEF NamesBuiltin, Unknown, NotAType, NamesType, Known, CyclicAlias
    <3>2. \E t, errors : Answer(t, errors) /\ errors \cap DriverErrors = {}
      BY <2>2, <2>4 DEF NamesBuiltin, Unknown, NotAType, NamesType, Known, CyclicAlias
    <3> QED
      BY <2>1, <3>1, <3>2
  <2>5. CASE Follow
    BY <2>3, <2>5 DEF Follow
  <2>6. CASE Return
    <3>1. stage = "signatures" /\ stage' = stage /\ UNCHANGED loadVars
      BY <2>6 DEF Return
    <3>2. \E errors : verdict' = verdict \cup errors /\ errors \cap DriverErrors = {}
      BY <2>2, <2>6 DEF Return, Report
    <3> QED
      BY <3>1, <3>2
  <2>7. CASE BeginDecl \/ FinishRef \/ EndDecl \/ EndModule
    BY <2>7 DEF BeginDecl, FinishRef, EndDecl, EndModule
  <2> QED
    BY <1>2, <2>4, <2>5, <2>6, <2>7 DEF SigNext
<1>3. CASE AllSigned \/ Sort \/ CyclesChecked \/ Emitted
  BY <1>3 DEF AllSigned, Sort, CyclesChecked, Emitted, Begin
<1> QED
  BY <1>1, <1>2, <1>3

(* Such steps keep what was loaded and why.                                *)
LEMMA LaterKeepsLoading ==
  ASSUME LoadInv, HasUnit, HasUnit', UNCHANGED loadVars, verdict' \cap DriverErrors \subseteq verdict
  PROVE  LoadInv'
<1>1. /\ program' = program /\ cache' = cache /\ unit' = unit /\ loading' = loading /\ walk' = walk
      /\ stage # "refused" /\ loading = << >>
  BY DEF loadVars, HasUnit, LoadInv, StackInv
<1>2. Elements(unit)' = Elements(unit) /\ Done' = Done
  BY <1>1 DEF Elements, Done, Loading
<1>3. CacheInv' /\ DoneInv' /\ UnitIsExact'
  BY <1>1, <1>2, SameProgram DEF LoadInv, CacheInv, DoneInv, UnitIsExact
<1>4. StackInv'
  BY <1>1, EmptySeq DEF StackInv
<1>5. RefusalIsDeserved'
  BY <1>1, SameProgram DEF LoadInv, RefusalIsDeserved, DriverErrors
<1> QED
  BY <1>1, <1>3, <1>4, <1>5 DEF LoadInv, LoadTypes, WalkInv, VerdictInv, HasUnit

(* The invariant holds when the driver starts.                             *)
LEMMA InitLoading == Init => LoadInv
<1> SUFFICES ASSUME Init PROVE LoadInv
  OBVIOUS
<1>1. /\ program \in Programs /\ stage = "loading" /\ verdict = {} /\ cache = {}
      /\ loading = << >> /\ walk = << >> /\ unit = << >>
  BY DEF Init, LoadInit
<1>2. StackInv
  BY <1>1, EmptySeq DEF StackInv
<1>3. \A S \in SUBSET {} : ~Cyclic(S)
  BY DEF Cyclic
<1> QED
  BY <1>1, <1>2, <1>3, EmptySeq
  DEF LoadInv, LoadTypes, CacheInv, DoneInv, Done, WalkInv, VerdictInv, UnitIsExact, HasUnit,
      RefusalIsDeserved

(* Every step of an analysis keeps it.                                     *)
LEMMA NextLoading ==
  ASSUME LoadInv, [Next]_vars
  PROVE  LoadInv'
<1>1. CASE LoadNext
  BY <1>1, FailuresKeepLoading, CacheHitKeepsLoading, ParseKeepsLoading, LoadedKeepsLoading,
     WalkIntoKeepsLoading, WalkBackKeepsLoading, CollectedKeepsLoading DEF LoadNext
<1>2. CASE NameNext \/ SigNext \/ AllSigned \/ Sort \/ CyclesChecked \/ Emitted
  BY <1>2, LaterSteps, LaterKeepsLoading
<1>3. CASE UNCHANGED vars
  <2>1. /\ program' = program /\ cache' = cache /\ unit' = unit /\ loading' = loading
        /\ walk' = walk /\ stage' = stage /\ verdict' = verdict
    BY <1>3 DEF vars, loadVars
  <2>2. Elements(unit)' = Elements(unit) /\ Done' = Done /\ Last(loading)' = Last(loading)
    BY <2>1 DEF Elements, Done, Loading, Last
  <2>3. CacheInv' /\ DoneInv' /\ UnitIsExact' /\ RefusalIsDeserved'
    BY <2>1, <2>2, SameProgram
    DEF LoadInv, CacheInv, DoneInv, UnitIsExact, RefusalIsDeserved, HasUnit
  <2>4. StackInv' /\ WalkInv'
    BY <2>1, <2>2, SameProgram DEF LoadInv, StackInv, WalkInv
  <2> QED
    BY <2>1, <2>3, <2>4 DEF LoadInv, LoadTypes, VerdictInv
<1> QED
  BY <1>1, <1>2, <1>3 DEF Next, Finished

(* The invariant of module loading, for any modules and programs.          *)
THEOREM WhatIsLoaded == Spec => []LoadInv
BY InitLoading, NextLoading, PTL DEF Spec

(* The unit that analysis goes on with is exactly what the entry needs,    *)
(* each module once, from a file of that name without errors, without      *)
(* circles of imports, whatever the driver met on the way.                 *)
THEOREM UnitsAreExact == Spec => []UnitIsExact
<1>1. LoadInv => UnitIsExact
  BY DEF LoadInv
<1> QED
  BY <1>1, WhatIsLoaded, PTL

(* Every error that the driver reports is in what the entry needs.         *)
THEOREM RefusalsAreDeserved == Spec => []RefusalIsDeserved
<1>1. LoadInv => RefusalIsDeserved
  BY DEF LoadInv
<1> QED
  BY <1>1, WhatIsLoaded, PTL

-----------------------------------------------------------------------------
(* The modules of X that declare n.                                        *)
From(X, n) == {x \in X : n \in Declared(x)}

(* What the tables imp, vis and amb of module m are once the imports X are *)
(* open.                                                                   *)
NamesOf(m, X, imp, vis, amb) == \A n :
    /\ n \in DOMAIN imp <=> n \notin Declared(m) /\ From(X, n) # {}
    /\ n \in DOMAIN imp => imp[n] \in From(X, n)
    /\ n \in DOMAIN vis <=> n \in Declared(m) \/ \E x \in X : From(X, n) = {x}
    /\ n \in DOMAIN vis => IF n \in Declared(m) THEN vis[n] = m ELSE From(X, n) = {vis[n]}
    /\ n \in DOMAIN amb <=> n \notin Declared(m) /\ \E x, y \in From(X, n) : x # y
    /\ n \in DOMAIN amb => amb[n] \in Seq(Modules) /\ Elements(amb[n]) = From(X, n)

(* The imports of the k-th module of the unit that are open.               *)
OpenOf(k) == IF stage = "opening"
             THEN {program[unit[k]].imports[j] :
                   j \in {l \in 1..Len(program[unit[k]].imports) : k < at.i \/ (k = at.i /\ l < at.j)}}
             ELSE Imports(unit[k])

NameTypes ==
    /\ at \in [i : Nat \ {0}, j : Nat \ {0}]
    /\ locals = [m \in Modules |-> locals[m]]
    /\ imported = [m \in Modules |-> imported[m]]
    /\ visible = [m \in Modules |-> visible[m]]
    /\ ambiguous = [m \in Modules |-> ambiguous[m]]

NameInv ==
    /\ NameTypes
    /\ stage \in {"loading", "walking"} =>
          /\ at = [i |-> 1, j |-> 1]
          /\ \A m \in Modules : imported[m] = Nothing /\ ambiguous[m] = Nothing
    /\ stage = "naming" =>
          /\ \A k \in 1..Len(unit) : k < at.i =>
                locals[unit[k]] = Declared(unit[k])
                /\ visible[unit[k]] = [n \in Declared(unit[k]) |-> unit[k]]
          /\ \A m \in Modules : imported[m] = Nothing /\ ambiguous[m] = Nothing
    /\ HasUnit /\ stage # "naming" => \A k \in 1..Len(unit) :
          /\ locals[unit[k]] = Declared(unit[k])
          /\ NamesOf(unit[k], OpenOf(k), imported[unit[k]], visible[unit[k]], ambiguous[unit[k]])

-----------------------------------------------------------------------------
(* Before any import is open a module sees what it declares.               *)
LEMMA NothingOpen ==
  ASSUME NEW m
  PROVE  NamesOf(m, {}, Nothing, [n \in Declared(m) |-> m], Nothing)
BY DEF NamesOf, From, Nothing

(* Opening one more import x.                                              *)
LEMMA OpenOne ==
  ASSUME NEW m \in Modules, NEW X \in SUBSET Modules, NEW x \in Modules, x \notin X,
         NEW imp, NEW vis, NEW amb, NamesOf(m, X, imp, vis, amb),
         NEW new, \A n : n \in new <=> n \in Declared(x) \ Declared(m) /\ n \notin DOMAIN imp,
         NEW clash, \A n : n \in clash <=> n \in Declared(x) \ Declared(m) /\ n \in DOMAIN imp,
         NEW amb2, DOMAIN amb2 = DOMAIN amb \cup clash,
         \A n \in DOMAIN amb2 :
            amb2[n] = IF n \notin clash THEN amb[n]
                      ELSE IF n \in DOMAIN amb THEN Append(amb[n], x) ELSE <<imp[n], x>>
  PROVE  NamesOf(m, X \cup {x}, Extend(imp, new, x), Extend(Without(vis, clash), new, x), amb2)
<1> DEFINE Y == X \cup {x}
           imp2 == Extend(imp, new, x)
           vis2 == Extend(Without(vis, clash), new, x)
<1> SUFFICES ASSUME NEW n
             PROVE  /\ n \in DOMAIN imp2 <=> n \notin Declared(m) /\ From(Y, n) # {}
                    /\ n \in DOMAIN imp2 => imp2[n] \in From(Y, n)
                    /\ n \in DOMAIN vis2 <=> n \in Declared(m) \/ \E y \in Y : From(Y, n) = {y}
                    /\ n \in DOMAIN vis2 => IF n \in Declared(m) THEN vis2[n] = m
                                                                ELSE From(Y, n) = {vis2[n]}
                    /\ n \in DOMAIN amb2 <=> n \notin Declared(m) /\ \E y, z \in From(Y, n) : y # z
                    /\ n \in DOMAIN amb2 => amb2[n] \in Seq(Modules) /\ Elements(amb2[n]) = From(Y, n)
  BY DEF NamesOf
<1>1. /\ n \in DOMAIN imp <=> n \notin Declared(m) /\ From(X, n) # {}
      /\ n \in DOMAIN imp => imp[n] \in From(X, n)
      /\ n \in DOMAIN vis <=> n \in Declared(m) \/ \E y \in X : From(X, n) = {y}
      /\ n \in DOMAIN vis => IF n \in Declared(m) THEN vis[n] = m ELSE From(X, n) = {vis[n]}
      /\ n \in DOMAIN amb <=> n \notin Declared(m) /\ \E y, z \in From(X, n) : y # z
      /\ n \in DOMAIN amb => amb[n] \in Seq(Modules) /\ Elements(amb[n]) = From(X, n)
  BY DEF NamesOf
<1>2. /\ DOMAIN imp2 = DOMAIN imp \cup new
      /\ n \in DOMAIN imp2 => imp2[n] = IF n \in new THEN x ELSE imp[n]
      /\ DOMAIN vis2 = (DOMAIN vis \ clash) \cup new
      /\ n \in DOMAIN vis2 => vis2[n] = IF n \in new THEN x ELSE vis[n]
      /\ DOMAIN amb2 = DOMAIN amb \cup clash
  BY DEF Extend, Without
<1> HIDE DEF imp2, vis2
<1>3. /\ n \in DOMAIN amb2 /\ n \notin clash => amb2[n] = amb[n]
      /\ n \in clash /\ n \in DOMAIN amb => amb2[n] = Append(amb[n], x)
      /\ n \in clash /\ n \notin DOMAIN amb => amb2[n] = <<imp[n], x>>
  OBVIOUS
<1>4. CASE n \in new
  <2>1. From(X, n) = {} /\ From(Y, n) = {x} /\ n \notin Declared(m) /\ n \notin clash
    BY <1>1, <1>4 DEF From
  <2> QED
    BY <1>1, <1>2, <1>4, <2>1
<1>5. CASE n \in clash
  <2>1. /\ n \notin Declared(m) /\ n \notin new /\ n \in DOMAIN imp
        /\ From(Y, n) = From(X, n) \cup {x} /\ x \notin From(X, n) /\ imp[n] \in From(X, n)
        /\ From(X, n) \subseteq Modules
    BY <1>1, <1>5 DEF From
  <2>2. ~\E y \in Y : From(Y, n) = {y}
    BY <2>1
  <2>3. \E y, z \in From(Y, n) : y # z
    BY <2>1, SMTT(30)
  <2>4. amb2[n] \in Seq(Modules) /\ Elements(amb2[n]) = From(Y, n)
    <3>1. CASE n \in DOMAIN amb
      <4>1. amb[n] \in Seq(Modules) /\ Elements(amb[n]) = From(X, n)
        BY <1>1, <3>1
      <4>2. amb2[n] = Append(amb[n], x)
        BY <1>3, <1>5, <3>1
      <4>3. Append(amb[n], x) \in Seq(Modules)
        BY <4>1, AppendProperties
      <4>4. Elements(Append(amb[n], x)) = Elements(amb[n]) \cup {x}
        BY <4>1, ElementsAppend
      <4> QED
        BY <2>1, <4>1, <4>2, <4>3, <4>4
    <3>2. CASE n \notin DOMAIN amb
      <4>1. From(X, n) = {imp[n]} /\ imp[n] \in Modules
        BY <1>1, <2>1, <3>2
      <4>2. amb2[n] = <<imp[n], x>>
        BY <1>3, <1>5, <3>2
      <4>3. Elements(amb2[n]) = {imp[n], x}
        BY <4>2 DEF Elements
      <4> QED
        BY <2>1, <4>1, <4>2, <4>3
    <3> QED
      BY <3>1, <3>2
  <2> QED
    BY <1>1, <1>2, <1>5, <2>1, <2>2, <2>3, <2>4
<1>6. CASE n \notin new /\ n \notin clash
  <2>1. CASE n \in Declared(m)
    BY <1>1, <1>2, <1>3, <1>6, <2>1
  <2>2. CASE n \notin Declared(m)
    <3>1. n \notin Declared(x) /\ From(Y, n) = From(X, n)
      BY <1>6, <2>2 DEF From
    <3>2. (\E y \in Y : From(X, n) = {y}) <=> (\E y \in X : From(X, n) = {y})
      BY DEF From
    <3> QED
      BY <1>1, <1>2, <1>3, <1>6, <2>2, <3>1, <3>2
  <2> QED
    BY <2>1, <2>2
<1> QED
  BY <1>4, <1>5, <1>6

(* What the modules of the unit are, and that files do not change.         *)
LEMMA UnitFacts ==
  ASSUME LoadInv, HasUnit
  PROVE  /\ Len(unit) \in Nat /\ Elements(unit) = {unit[k] : k \in 1..Len(unit)}
         /\ \A k, l \in 1..Len(unit) : unit[k] = unit[l] => k = l
         /\ \A k \in 1..Len(unit) :
               /\ unit[k] \in Modules
               /\ Len(program[unit[k]].imports) \in Nat
               /\ Imports(unit[k]) = {program[unit[k]].imports[j] :
                                      j \in 1..Len(program[unit[k]].imports)}
               /\ Imports(unit[k]) \subseteq Elements(unit)
               /\ Imports(unit[k]) \subseteq Modules
<1>1. LoadTypes /\ UnitIsExact
  BY DEF LoadInv
<1>2. /\ Len(unit) \in Nat /\ Elements(unit) = {unit[k] : k \in 1..Len(unit)}
      /\ DOMAIN unit = 1..Len(unit) /\ Elements(unit) \subseteq Modules
  BY WalkFacts
<1>3. Elements(unit) = Reachable /\ \A k, l \in DOMAIN unit : unit[k] = unit[l] => k = l
  BY <1>1 DEF UnitIsExact
<1> QED
  BY <1>1, <1>2, <1>3, ImportsTyped, ReachableClosed

(* What the program declares depends on the program only. *)
LEMMA SameDeclarations ==
  ASSUME program' = program
  PROVE  /\ \A m : Declared(m)' = Declared(m)
         /\ \A m : Imports(m)' = Imports(m)
         /\ \A m, X, imp, vis, amb :
               NamesOf(m, X, imp, vis, amb)' <=> NamesOf(m, X, imp, vis, amb)
BY DEF Declared, Decls, Imports, NamesOf, From

(* A module that collects its locals has opened no import yet. *)
LEMMA CollectKeepsNames ==
  ASSUME LoadInv, NameInv, CollectLocals
  PROVE  NameInv'
<1> DEFINE m == unit[at.i]
<1>1. /\ stage = "naming" /\ stage' = "naming" /\ at.i \in 1..Len(unit) /\ m \in Modules
      /\ program' = program /\ unit' = unit /\ imported' = imported /\ ambiguous' = ambiguous
      /\ locals' = [locals EXCEPT ![m] = Declared(m)]
      /\ visible' = [visible EXCEPT ![m] = [n \in Declared(m) |-> m]]
      /\ at' = [at EXCEPT !.i = @ + 1]
  BY UnitFacts DEF CollectLocals, loadVars, NameInv, NameTypes, HasUnit
<1>2. /\ NameTypes' /\ at'.i = at.i + 1
      /\ locals'[m] = Declared(m) /\ visible'[m] = [n \in Declared(m) |-> m]
      /\ \A x \in Modules : x # m => locals'[x] = locals[x] /\ visible'[x] = visible[x]
  <2>1. /\ at \in [i : Nat \ {0}, j : Nat \ {0}]
        /\ locals = [x \in Modules |-> locals[x]]
        /\ imported = [x \in Modules |-> imported[x]]
        /\ visible = [x \in Modules |-> visible[x]]
        /\ ambiguous = [x \in Modules |-> ambiguous[x]]
    BY DEF NameInv, NameTypes
  <2>2. at' \in [i : Nat \ {0}, j : Nat \ {0}] /\ at'.i = at.i + 1
    BY <1>1, <2>1
  <2>3. /\ locals' = [x \in Modules |-> locals'[x]] /\ locals'[m] = Declared(m)
        /\ \A x \in Modules : x # m => locals'[x] = locals[x]
    BY <1>1, <2>1
  <2>4. /\ visible' = [x \in Modules |-> visible'[x]]
        /\ visible'[m] = [n \in Declared(m) |-> m]
        /\ \A x \in Modules : x # m => visible'[x] = visible[x]
    BY <1>1, <2>1
  <2> QED
    BY <1>1, <2>1, <2>2, <2>3, <2>4 DEF NameTypes
<1>3. ASSUME NEW k \in 1..Len(unit), k < at.i + 1
      PROVE  locals'[unit[k]] = Declared(unit[k])
             /\ visible'[unit[k]] = [n \in Declared(unit[k]) |-> unit[k]]
  <2>1. CASE k = at.i
    BY <1>2, <2>1
  <2>2. CASE k # at.i
    <3>1. unit[k] # m /\ unit[k] \in Modules /\ k < at.i
      BY <1>1, <1>3, <2>2, UnitFacts DEF HasUnit, NameInv, NameTypes
    <3> QED
      BY <1>1, <1>2, <3>1 DEF NameInv
  <2> QED
    BY <2>1, <2>2
<1>4. \A x \in Modules : imported[x] = Nothing /\ ambiguous[x] = Nothing
  BY <1>1 DEF NameInv
<1>5. \A x : Declared(x)' = Declared(x)
  BY <1>1, SameDeclarations
<1> QED
  BY <1>1, <1>2, <1>3, <1>4, <1>5 DEF NameInv, Nothing

(* When every module has its locals, none has opened an import. *)
LEMMA AllCollectedKeepsNames ==
  ASSUME LoadInv, NameInv, AllCollected
  PROVE  NameInv'
<1>1. /\ stage = "naming" /\ stage' = "opening" /\ at.i > Len(unit) /\ HasUnit
      /\ program' = program /\ unit' = unit /\ locals' = locals /\ imported' = imported
      /\ visible' = visible /\ ambiguous' = ambiguous
      /\ at' = [i |-> 1, j |-> 1]
  BY DEF AllCollected, loadVars, HasUnit
<1>2. NameTypes'
  BY <1>1 DEF NameInv, NameTypes
<1>3. ASSUME NEW k \in 1..Len(unit)
      PROVE  /\ locals[unit[k]] = Declared(unit[k]) /\ OpenOf(k)' = {}
             /\ NamesOf(unit[k], {}, imported[unit[k]], visible[unit[k]], ambiguous[unit[k]])
  <2>1. /\ unit[k] \in Modules /\ k < at.i /\ Len(unit) \in Nat
        /\ Len(program[unit[k]].imports) \in Nat
    BY <1>1, UnitFacts DEF NameInv, NameTypes
  <2>2. /\ locals[unit[k]] = Declared(unit[k])
        /\ visible[unit[k]] = [n \in Declared(unit[k]) |-> unit[k]]
        /\ imported[unit[k]] = Nothing /\ ambiguous[unit[k]] = Nothing
    BY <1>1, <2>1 DEF NameInv
  <2>3. OpenOf(k)' = {}
    BY <1>1, <2>1 DEF OpenOf
  <2> QED
    BY <2>2, <2>3, NothingOpen
<1>4. /\ \A x : Declared(x)' = Declared(x)
      /\ \A m, X, imp, vis, amb :
               NamesOf(m, X, imp, vis, amb)' <=> NamesOf(m, X, imp, vis, amb)
  BY <1>1, SameDeclarations
<1> QED
  BY <1>1, <1>2, <1>3, <1>4 DEF NameInv

-----------------------------------------------------------------------------
(* The next import joins those of its module that are open.                *)
LEMMA NextImport ==
  ASSUME LoadInv, NameInv, Opening, UNCHANGED <<program, unit, stage>>,
         at' = [at EXCEPT !.j = @ + 1]
  PROVE  /\ at.i \in 1..Len(unit) /\ User \in Modules /\ Opened \in Modules
         /\ at' \in [i : Nat \ {0}, j : Nat \ {0}]
         /\ \A k \in 1..Len(unit) : OpenOf(k) \in SUBSET Modules /\
               OpenOf(k)' = IF k = at.i THEN OpenOf(k) \cup {Opened} ELSE OpenOf(k)
         /\ Again <=> Opened \in OpenOf(at.i)
         /\ locals[User] = Declared(User) /\ locals[Opened] = Declared(Opened)
         /\ NamesOf(User, OpenOf(at.i), imported[User], visible[User], ambiguous[User])
<1>1. /\ stage = "opening" /\ stage' = "opening" /\ HasUnit
      /\ at \in [i : Nat \ {0}, j : Nat \ {0}]
      /\ at.i <= Len(unit) /\ at.j <= Len(program[User].imports)
      /\ at' \in [i : Nat \ {0}, j : Nat \ {0}] /\ at'.i = at.i /\ at'.j = at.j + 1
  BY DEF Opening, HasUnit, NameInv, NameTypes
<1>2. at.i \in 1..Len(unit) /\ User \in Modules
  BY <1>1, UnitFacts DEF User
<1>3. /\ Len(program[User].imports) \in Nat /\ at.j \in 1..Len(program[User].imports)
      /\ Imports(User) \subseteq Elements(unit) /\ Imports(User) \subseteq Modules
      /\ Imports(User) = {program[User].imports[j] : j \in 1..Len(program[User].imports)}
  <2>1. User = unit[at.i]
    BY DEF User
  <2>2. /\ Len(program[unit[at.i]].imports) \in Nat
        /\ Imports(unit[at.i]) \subseteq Elements(unit) /\ Imports(unit[at.i]) \subseteq Modules
        /\ Imports(unit[at.i]) = {program[unit[at.i]].imports[j] :
                                   j \in 1..Len(program[unit[at.i]].imports)}
    BY ONLY <1>1, <1>2, LoadInv, UnitFacts
  <2>3. at.j \in 1..Len(program[unit[at.i]].imports)
    BY <1>1, <2>1, <2>2
  <2> QED
    BY <2>1, <2>2, <2>3
<1>4. Opened \in Imports(User) /\ Opened \in Modules /\ \E k \in 1..Len(unit) : Opened = unit[k]
  <2>1. Opened \in Imports(User)
    BY <1>3 DEF Opened
  <2>2. Elements(unit) = {unit[k] : k \in 1..Len(unit)}
    BY <1>1, UnitFacts
  <2> QED
    BY <1>3, <2>1, <2>2
<1>5. \A k \in 1..Len(unit) : locals[unit[k]] = Declared(unit[k])
         /\ NamesOf(unit[k], OpenOf(k), imported[unit[k]], visible[unit[k]], ambiguous[unit[k]])
  BY <1>1 DEF NameInv
<1>6. ASSUME NEW k \in 1..Len(unit)
      PROVE  OpenOf(k) \in SUBSET Modules /\
             OpenOf(k)' = IF k = at.i THEN OpenOf(k) \cup {Opened} ELSE OpenOf(k)
  <2> DEFINE L == Len(program[unit[k]].imports)
             Old == {l \in 1..L : k < at.i \/ (k = at.i /\ l < at.j)}
             New2 == {l \in 1..L : k < at.i \/ (k = at.i /\ l < at.j + 1)}
  <2>1. /\ OpenOf(k) = {program[unit[k]].imports[j] : j \in Old}
        /\ OpenOf(k)' = {program[unit[k]].imports[j] : j \in New2}
    BY <1>1 DEF OpenOf
  <2>2. L \in Nat /\ Imports(unit[k]) = {program[unit[k]].imports[j] : j \in 1..L}
        /\ Imports(unit[k]) \subseteq Modules
    BY <1>1, UnitFacts
  <2>3. CASE k = at.i
    <3>1. New2 = Old \cup {at.j} /\ at.j \in 1..L
      BY <1>1, <1>3, <2>2, <2>3, SMTT(30) DEF User
    <3> QED
      BY <2>1, <2>2, <2>3, <3>1, SMTT(30) DEF Opened, User
  <2>4. CASE k # at.i
    <3>1. New2 = Old
      BY <2>4
    <3> QED
      BY <2>1, <2>2, <2>4, <3>1
  <2> QED
    BY <2>3, <2>4
<1>7. Again <=> Opened \in OpenOf(at.i)
  <2> DEFINE L == Len(program[User].imports)
  <2>1. OpenOf(at.i) = {program[User].imports[j] : j \in {l \in 1..L : l < at.j}}
    BY <1>1 DEF OpenOf, User
  <2>2. {l \in 1..L : l < at.j} = 1..(at.j - 1)
    BY <1>1, <1>3
  <2>3. OpenOf(at.i) = {program[User].imports[j] : j \in 1..(at.j - 1)}
    BY <2>1, <2>2
  <2> QED
    BY <2>3 DEF Again
<1> QED
  BY <1>1, <1>2, <1>4, <1>5, <1>6, <1>7, UnitFacts DEF User

(* An import met before adds nothing to the set of opened modules. *)
LEMMA AgainKeepsNames ==
  ASSUME LoadInv, NameInv, OpenAgain
  PROVE  NameInv'
<1>1. /\ Opening /\ Again /\ stage = "opening" /\ at' = [at EXCEPT !.j = @ + 1]
      /\ UNCHANGED <<program, unit, stage>>
      /\ locals' = locals /\ imported' = imported
      /\ visible' = visible /\ ambiguous' = ambiguous
  BY DEF OpenAgain, loadVars, Opening
<1>2. /\ at' \in [i : Nat \ {0}, j : Nat \ {0}]
      /\ \A k \in 1..Len(unit) :
            OpenOf(k)' = IF k = at.i THEN OpenOf(k) \cup {Opened} ELSE OpenOf(k)
      /\ Opened \in OpenOf(at.i)
  BY <1>1, NextImport
<1>4. NameTypes' /\ HasUnit
  BY <1>1, <1>2 DEF NameInv, NameTypes, HasUnit
<1>5. \A k \in 1..Len(unit) : OpenOf(k)' = OpenOf(k)
  BY <1>2
<1>3. /\ \A x : Declared(x)' = Declared(x)
      /\ \A m, X, imp, vis, amb :
               NamesOf(m, X, imp, vis, amb)' <=> NamesOf(m, X, imp, vis, amb)
  BY <1>1, SameDeclarations
<1> QED
  BY <1>1, <1>3, <1>4, <1>5 DEF NameInv

(* A new import adds its names, and makes some of them ambiguous. *)
LEMMA ImportKeepsNames ==
  ASSUME LoadInv, NameInv, OpenImport
  PROVE  NameInv'
<1> DEFINE m == User
           x == Opened
           imp2 == Extend(imported[m], New, x)
           vis2 == Extend(Without(visible[m], Clash), New, x)
           amb2 == [n \in DOMAIN ambiguous[m] \cup Clash |->
                        IF n \notin Clash THEN ambiguous[m][n]
                        ELSE IF n \in DOMAIN ambiguous[m]
                             THEN Append(ambiguous[m][n], x)
                             ELSE <<imported[m][n], x>>]
<1>1. /\ Opening /\ ~Again /\ stage = "opening" /\ at' = [at EXCEPT !.j = @ + 1]
      /\ UNCHANGED <<program, unit, stage>> /\ locals' = locals
      /\ imported' = [imported EXCEPT ![m] = imp2]
      /\ visible' = [visible EXCEPT ![m] = vis2]
      /\ ambiguous' = [ambiguous EXCEPT ![m] = amb2]
  BY DEF OpenImport, loadVars, Opening, Remembered
<1>2. /\ at.i \in 1..Len(unit) /\ m \in Modules /\ x \in Modules /\ HasUnit
      /\ at' \in [i : Nat \ {0}, j : Nat \ {0}]
      /\ \A k \in 1..Len(unit) : OpenOf(k) \in SUBSET Modules /\
            OpenOf(k)' = IF k = at.i THEN OpenOf(k) \cup {x} ELSE OpenOf(k)
      /\ x \notin OpenOf(at.i)
      /\ locals[m] = Declared(m) /\ locals[x] = Declared(x)
      /\ NamesOf(m, OpenOf(at.i), imported[m], visible[m], ambiguous[m])
  BY <1>1, NextImport DEF HasUnit
<1>3. NamesOf(m, OpenOf(at.i) \cup {x}, imp2, vis2, amb2)
  <2>1. /\ New = {n \in Declared(x) \ Declared(m) : n \notin DOMAIN imported[m]}
        /\ Clash = {n \in Declared(x) \ Declared(m) : n \in DOMAIN imported[m]}
    BY <1>2 DEF New, Clash
  <2>2. /\ OpenOf(at.i) \in SUBSET Modules
        /\ \A n : n \in New <=> n \in Declared(x) \ Declared(m) /\ n \notin DOMAIN imported[m]
        /\ \A n : n \in Clash <=> n \in Declared(x) \ Declared(m) /\ n \in DOMAIN imported[m]
    BY <1>2, <2>1
  <2>3. /\ DOMAIN amb2 = DOMAIN ambiguous[m] \cup Clash
        /\ \A n \in DOMAIN amb2 :
              amb2[n] = IF n \notin Clash THEN ambiguous[m][n]
                        ELSE IF n \in DOMAIN ambiguous[m]
                             THEN Append(ambiguous[m][n], x) ELSE <<imported[m][n], x>>
    OBVIOUS
  <2> HIDE DEF amb2
  <2> QED
    BY ONLY <1>2, <2>2, <2>3, OpenOne
<1> HIDE DEF imp2, vis2, amb2
<1>4. /\ imported' = [y \in Modules |-> imported'[y]] /\ imported'[m] = imp2
      /\ \A y \in Modules : y # m => imported'[y] = imported[y]
  BY <1>1, <1>2 DEF NameInv, NameTypes
<1>5. /\ visible' = [y \in Modules |-> visible'[y]] /\ visible'[m] = vis2
      /\ \A y \in Modules : y # m => visible'[y] = visible[y]
  BY <1>1, <1>2 DEF NameInv, NameTypes
<1>6. /\ ambiguous' = [y \in Modules |-> ambiguous'[y]] /\ ambiguous'[m] = amb2
      /\ \A y \in Modules : y # m => ambiguous'[y] = ambiguous[y]
  BY <1>1, <1>2 DEF NameInv, NameTypes
<1>7. NameTypes'
  BY <1>1, <1>2, <1>4, <1>5, <1>6 DEF NameInv, NameTypes
<1>8. ASSUME NEW k \in 1..Len(unit)
      PROVE  /\ locals[unit[k]] = Declared(unit[k])
             /\ NamesOf(unit[k], OpenOf(k)', imported'[unit[k]], visible'[unit[k]],
                        ambiguous'[unit[k]])
  <2>1. /\ locals[unit[k]] = Declared(unit[k]) /\ unit[k] \in Modules
        /\ NamesOf(unit[k], OpenOf(k), imported[unit[k]], visible[unit[k]], ambiguous[unit[k]])
    BY <1>1, <1>2, UnitFacts DEF NameInv
  <2>2. CASE k = at.i
    <3>1. unit[k] = m /\ OpenOf(k)' = OpenOf(at.i) \cup {x}
      BY <1>2, <2>2 DEF User
    <3> QED
      BY <1>3, <1>4, <1>5, <1>6, <2>1, <3>1
  <2>3. CASE k # at.i
    <3>1. unit[k] # m /\ OpenOf(k)' = OpenOf(k)
      BY <1>2, <2>3, UnitFacts DEF User
    <3> QED
      BY <1>4, <1>5, <1>6, <2>1, <3>1
  <2> QED
    BY <2>2, <2>3
<1>9. /\ \A y : Declared(y)' = Declared(y)
      /\ \A y, X, imp, vis, amb :
               NamesOf(y, X, imp, vis, amb)' <=> NamesOf(y, X, imp, vis, amb)
  BY <1>1, SameDeclarations
<1> QED
  BY <1>1, <1>7, <1>8, <1>9 DEF NameInv

(* A module whose last import is opened has opened all of them. *)
LEMMA OpenedKeepsNames ==
  ASSUME LoadInv, NameInv, ModuleOpened \/ AllOpened
  PROVE  NameInv'
<1>1. /\ stage = "opening" /\ stage' \in {"opening", "signatures"} /\ HasUnit
      /\ stage' = "signatures" => at' = at /\ at.i > Len(unit)
      /\ stage' = "opening" => at' = [i |-> at.i + 1, j |-> 1] /\ at.i <= Len(unit)
                               /\ at.j > Len(program[unit[at.i]].imports)
      /\ program' = program /\ unit' = unit /\ locals' = locals /\ imported' = imported
      /\ visible' = visible /\ ambiguous' = ambiguous
  BY DEF ModuleOpened, AllOpened, loadVars, nameVars, HasUnit, User
<1>2. NameTypes' /\ at \in [i : Nat \ {0}, j : Nat \ {0}]
  BY <1>1 DEF NameInv, NameTypes
<1>3. /\ \A y : Declared(y)' = Declared(y) /\ Imports(y)' = Imports(y)
      /\ \A y, X, imp, vis, amb :
               NamesOf(y, X, imp, vis, amb)' <=> NamesOf(y, X, imp, vis, amb)
  BY <1>1, SameDeclarations
<1>4. ASSUME NEW k \in 1..Len(unit)
      PROVE  OpenOf(k)' = OpenOf(k)
  <2> DEFINE L == Len(program[unit[k]].imports)
             Old == {l \in 1..L : k < at.i \/ (k = at.i /\ l < at.j)}
             New2 == {l \in 1..L : k < at'.i \/ (k = at'.i /\ l < at'.j)}
  <2>1. /\ OpenOf(k) = {program[unit[k]].imports[j] : j \in Old}
        /\ stage' = "opening" => OpenOf(k)' = {program[unit[k]].imports[j] : j \in New2}
    BY <1>1 DEF OpenOf
  <2>2. /\ L \in Nat /\ Imports(unit[k]) = {program[unit[k]].imports[j] : j \in 1..L}
        /\ Len(unit) \in Nat
    BY <1>1, UnitFacts
  <2>3. CASE stage' = "opening"
    <3>1. at'.i = at.i + 1 /\ at'.j = 1
      BY <1>1, <2>3
    <3>2. New2 = Old
      BY <1>1, <1>2, <2>2, <2>3, <3>1
    <3> QED
      BY <2>1, <2>3, <3>2
  <2>4. CASE stage' = "signatures"
    <3>1. Old = 1..L
      BY <1>1, <1>2, <2>2, <2>4
    <3>2. OpenOf(k)' = Imports(unit[k])
      BY <1>1, <1>3, <2>4 DEF OpenOf
    <3> QED
      BY <2>1, <2>2, <3>1, <3>2
  <2> QED
    BY <1>1, <2>3, <2>4
<1> QED
  BY <1>1, <1>2, <1>3, <1>4 DEF NameInv

-----------------------------------------------------------------------------
(* The driver comes before the names, the signatures after them.           *)
LEMMA LoadSteps ==
  ASSUME LoadNext
  PROVE  /\ stage \in {"loading", "walking"} /\ program' = program
         /\ stage' \in {"loading", "walking", "refused", "naming"}
BY DEF LoadNext, ImportCycle, CacheHit, NotFound, NotUtf8, WrongName, Parse, Loaded, WalkInto,
       WalkBack, Collected, Raise, Fresh, Calls, loadVars

(* Loading touches no table. *)
LEMMA LoadingKeepsNames ==
  ASSUME LoadInv, NameInv, LoadNext, UNCHANGED nameVars
  PROVE  NameInv'
<1>1. /\ stage \in {"loading", "walking"} /\ program' = program
      /\ stage' \in {"loading", "walking", "refused", "naming"}
      /\ at' = at /\ locals' = locals /\ imported' = imported
      /\ visible' = visible /\ ambiguous' = ambiguous
  BY LoadSteps DEF nameVars
<1>2. /\ NameTypes /\ at = [i |-> 1, j |-> 1]
      /\ \A m \in Modules : imported[m] = Nothing /\ ambiguous[m] = Nothing
  BY <1>1 DEF NameInv
<1>3. NameTypes'
  BY <1>1, <1>2 DEF NameTypes
<1>4. ~(\E k \in 1..Len(unit') : k < at'.i)
  BY <1>1, <1>2
<1>5. HasUnit' => stage' = "naming"
  BY <1>1 DEF HasUnit
<1> QED
  BY <1>1, <1>2, <1>3, <1>4, <1>5 DEF NameInv, Nothing

(* The steps after name resolution change no table and no unit. *)
LEMMA AfterNames ==
  ASSUME SigNext \/ AllSigned \/ Sort \/ CyclesChecked \/ Emitted
  PROVE  HasNames /\ HasNames' /\ UNCHANGED <<loadVars, nameVars>>
<1> USE DEF HasNames, HasUnit
<1>1. CASE SigNext
  BY <1>1 DEF SigNext, BeginDecl, NamesBuiltin, Unknown, NotAType, NamesType, Known, CyclicAlias,
              Follow, Return, FinishRef, EndDecl, EndModule, Answer, sameNames, Asking, AtRef,
              AtDecl, Working, Found
<1>2. CASE AllSigned \/ Sort \/ CyclesChecked \/ Emitted
  BY <1>2 DEF AllSigned, Sort, CyclesChecked, Emitted, Begin
<1> QED
  BY <1>1, <1>2

(* So they keep what the tables mean. *)
LEMMA LaterKeepsNames ==
  ASSUME NameInv, HasNames, HasNames', UNCHANGED <<loadVars, nameVars>>
  PROVE  NameInv'
<1>1. /\ program' = program /\ unit' = unit
      /\ at' = at /\ locals' = locals /\ imported' = imported
      /\ visible' = visible /\ ambiguous' = ambiguous
      /\ HasUnit /\ stage \notin {"loading", "walking", "naming", "opening"}
      /\ stage' \notin {"loading", "walking", "naming", "opening"}
  BY DEF loadVars, nameVars, HasNames, HasUnit
<1>2. /\ \A y : Declared(y)' = Declared(y) /\ Imports(y)' = Imports(y)
      /\ \A y, X, imp, vis, amb :
               NamesOf(y, X, imp, vis, amb)' <=> NamesOf(y, X, imp, vis, amb)
  BY <1>1, SameDeclarations
<1>3. \A k \in 1..Len(unit) : OpenOf(k)' = OpenOf(k)
  BY <1>1, <1>2 DEF OpenOf
<1>4. NameTypes'
  BY <1>1 DEF NameInv, NameTypes
<1> QED
  BY <1>1, <1>2, <1>3, <1>4 DEF NameInv

(* The tables are empty at first. *)
LEMMA InitNames == Init => NameInv
<1> SUFFICES ASSUME Init PROVE NameInv
  OBVIOUS
<1>1. /\ stage = "loading" /\ at = [i |-> 1, j |-> 1]
      /\ locals = [m \in Modules |-> {}] /\ imported = [m \in Modules |-> Nothing]
      /\ visible = [m \in Modules |-> Nothing] /\ ambiguous = [m \in Modules |-> Nothing]
  BY DEF Init, LoadInit, NameInit
<1>2. NameTypes
  BY <1>1 DEF NameTypes
<1> QED
  BY <1>1, <1>2 DEF NameInv, HasUnit

(* Every step of the front end keeps the meaning of the tables. *)
LEMMA NextNames ==
  ASSUME LoadInv, NameInv, [Next]_vars
  PROVE  NameInv'
<1>1. CASE LoadNext /\ UNCHANGED nameVars
  BY <1>1, LoadingKeepsNames
<1>2. CASE NameNext
  BY <1>2, CollectKeepsNames, AllCollectedKeepsNames, AgainKeepsNames, ImportKeepsNames,
     OpenedKeepsNames DEF NameNext
<1>3. CASE SigNext \/ AllSigned \/ Sort \/ CyclesChecked \/ Emitted
  BY <1>3, AfterNames, LaterKeepsNames
<1>4. CASE UNCHANGED vars
  <2>1. /\ program' = program /\ unit' = unit /\ stage' = stage
        /\ at' = at /\ locals' = locals /\ imported' = imported
        /\ visible' = visible /\ ambiguous' = ambiguous
    BY <1>4 DEF vars, loadVars, nameVars
  <2>2. /\ \A y : Declared(y)' = Declared(y) /\ Imports(y)' = Imports(y)
        /\ \A y, X, imp, vis, amb :
                 NamesOf(y, X, imp, vis, amb)' <=> NamesOf(y, X, imp, vis, amb)
    BY <2>1, SameDeclarations
  <2>3. \A k \in 1..Len(unit) : OpenOf(k)' = OpenOf(k)
    BY <2>1, <2>2 DEF OpenOf
  <2>4. NameTypes' /\ (HasUnit' <=> HasUnit)
    BY <2>1 DEF NameInv, NameTypes, HasUnit
  <2> QED
    BY <2>1, <2>2, <2>3, <2>4 DEF NameInv, Nothing
<1> QED
  BY <1>1, <1>2, <1>3, <1>4 DEF Next, Finished

(* At every moment the tables of a module say what its declarations and    *)
(* the imports opened so far imply.                                        *)
THEOREM WhatIsNamed == Spec => [](LoadInv /\ NameInv)
<1>1. Init => LoadInv /\ NameInv
  BY InitLoading, InitNames
<1>2. LoadInv /\ NameInv /\ [Next]_vars => (LoadInv /\ NameInv)'
  BY NextLoading, NextNames
<1> QED
  BY <1>1, <1>2, PTL DEF Spec

(* What a name means in a module does not depend on the order of the       *)
(* imports, nor on their repetition.                                       *)
LEMMA NamesAreUnambiguous == LoadInv /\ NameInv => VisibleIsUnambiguous
<1> SUFFICES ASSUME LoadInv, NameInv, HasNames, NEW m \in Elements(unit), NEW n \in Names
             PROVE  /\ n \in DOMAIN visible[m] <=> \E x \in Modules : Origins(m, n) = {x}
                    /\ n \in DOMAIN visible[m] => Origins(m, n) = {visible[m][n]}
                    /\ n \in DOMAIN ambiguous[m] <=> \E x, y \in Origins(m, n) : x # y
                    /\ n \in DOMAIN ambiguous[m] => Elements(ambiguous[m][n]) = Origins(m, n)
  BY DEF VisibleIsUnambiguous
<1>1. HasUnit /\ stage \notin {"naming", "opening"}
  BY DEF HasNames
<1>2. PICK k \in 1..Len(unit) : m = unit[k]
  BY <1>1, UnitFacts
<1>3. m \in Modules /\ Imports(m) \subseteq Modules /\ OpenOf(k) = Imports(m)
  BY <1>1, <1>2, UnitFacts DEF OpenOf
<1>4. NamesOf(m, Imports(m), imported[m], visible[m], ambiguous[m])
  BY <1>1, <1>2, <1>3 DEF NameInv
<1>5. Origins(m, n) = IF n \in Declared(m) THEN {m} ELSE From(Imports(m), n)
  BY DEF Origins, From
<1>6. /\ From(Imports(m), n) \subseteq Imports(m)
      /\ n \in DOMAIN visible[m] <=>
            n \in Declared(m) \/ \E x \in Imports(m) : From(Imports(m), n) = {x}
      /\ n \in DOMAIN visible[m] => IF n \in Declared(m) THEN visible[m][n] = m
                                    ELSE From(Imports(m), n) = {visible[m][n]}
      /\ n \in DOMAIN ambiguous[m] <=>
            n \notin Declared(m) /\ \E x, y \in From(Imports(m), n) : x # y
      /\ n \in DOMAIN ambiguous[m] => Elements(ambiguous[m][n]) = From(Imports(m), n)
  BY <1>4 DEF NamesOf, From
<1> QED
  BY <1>3, <1>5, <1>6

(* A name is visible in a module exactly when the module declares it or    *)
(* exactly one of its imports does, and ambiguous, with all its origins,   *)
(* exactly when several imports do.                                        *)
THEOREM NamesAreVisible == Spec => []VisibleIsUnambiguous
BY WhatIsNamed, NamesAreUnambiguous, PTL
=============================================================================
