------------------------- MODULE TypeOrderingProofs -------------------------
(***************************************************************************)
(* For any modules, names and programs: C types are emitted after all they *)
(* hold by value, emission never fails, and a program is refused for its   *)
(* size exactly when some of its types have no end.                        *)
(* SigInv says that signatures only record types that the unit declares,   *)
(* so that the graph to sort is closed.  SortInv is the invariant of the   *)
(* sort: a degree counts what is held and not sorted yet.                  *)
(***************************************************************************)
EXTENDS NameResolutionProofs, FiniteSetTheorems

(* The types that the modules of the unit declare.                         *)
UnitTypes == {s \in Elements(unit) \X Names : s[2] \in Declared(s[1]) /\ Kind(s) = "type"}

(* What an answer may be: a builtin or one of them, behind a pointer or not. *)
KnownType(t) == t = [base |-> t.base, ptr |-> t.ptr] /\ (t.base[1] = "" \/ t.base \in UnitTypes)

(* Declaration d of the k-th module has got its entry in holds.            *)
Entered(k, d) == \/ k < job.i
                 \/ k = job.i /\ d < job.d
                 \/ k = job.i /\ d = job.d /\ job.r > 0

SigInv ==
    /\ job \in [i : Nat \ {0}, d : Nat \ {0}, r : Nat]
    /\ KnownType(answer)
    /\ \A a \in DOMAIN aliasType : KnownType(aliasType[a])
    /\ IsFiniteSet(Types)
    /\ \A t \in Types : IsFiniteSet(holds[t]) /\ holds[t] \subseteq UnitTypes
    /\ HasUnit => \A k \in 1..Len(unit) : \A d \in 1..Len(Decls(unit[k])) :
          Entered(k, d) /\ Decls(unit[k])[d].kind = "type"
              => <<unit[k], Decls(unit[k])[d].name>> \in Types
    /\ ~HasNames => job = [i |-> 1, d |-> 1, r |-> 0] /\ Types = {} /\ DOMAIN aliasType = {}
                    /\ answer = Pending
    /\ HasTypes => job.i > Len(unit)

-----------------------------------------------------------------------------
(* A set of naturals has a least element.                                  *)
LEMMA Least ==
  ASSUME NEW T \in SUBSET Nat, T # {}
  PROVE  \E x \in T : \A y \in T : x <= y
<1> DEFINE R == {ss \in Nat \X Nat : ss[1] < ss[2]}
<1>1. IsWellFoundedOn(R, Nat)
  BY NatLessThanWellFounded DEF OpToRel
<1>2. \A x, y \in Nat : <<y, x>> \in R <=> y < x
  OBVIOUS
<1> HIDE DEF R
<1>3. PICK x \in T : \A y \in T : <<y, x>> \notin R
  BY <1>1, WFMin
<1>4. ASSUME NEW y \in T PROVE x <= y
  <2>1. x \in Nat /\ y \in Nat /\ ~(y < x)
    BY <1>2, <1>3
  <2> QED
    BY <2>1
<1> QED
  BY <1>4

(* The declarations of a module and their references. *)
LEMMA DeclsTyped ==
  ASSUME LoadInv, NEW m \in Modules
  PROVE  /\ Len(Decls(m)) \in Nat /\ DOMAIN Decls(m) = 1..Len(Decls(m))
         /\ \A d \in 1..Len(Decls(m)) : Decls(m)[d].name \in Names
                                        /\ Decls(m)[d].kind \in {"type", "alias", "value"}
                                        /\ Len(Decls(m)[d].refs) \in Nat
                                        /\ DOMAIN Decls(m)[d].refs = 1..Len(Decls(m)[d].refs)
<1> DEFINE Refs == Seq([path : Modules \cup {""}, name : STRING, ptr : BOOLEAN, null : BOOLEAN])
           D == [kind : {"type", "alias", "value"}, name : Names, refs : Refs]
<1>1. Decls(m) \in Seq(D)
  BY DeclsAssumption DEF LoadInv, LoadTypes, Decls
<1>2. /\ Len(Decls(m)) \in Nat /\ DOMAIN Decls(m) = 1..Len(Decls(m))
      /\ \A d \in 1..Len(Decls(m)) : Decls(m)[d] \in D
  BY <1>1, LenProperties, ElementOfSeq
<1>3. \A s \in Refs : Len(s) \in Nat /\ DOMAIN s = 1..Len(s)
  BY LenProperties
<1> HIDE DEF Refs
<1> QED
  BY <1>2, <1>3

(* The declaration of a name is one of that name.                          *)
LEMMA DeclOfIsDeclared ==
  ASSUME LoadInv, NEW m \in Modules, NEW n \in Declared(m)
  PROVE  \E d \in 1..Len(Decls(m)) : Decls(m)[d].name = n /\ DeclOf(<<m, n>>) = Decls(m)[d]
<1> DEFINE named == {d \in DOMAIN Decls(m) : Decls(m)[d].name = n}
<1>1. named # {} /\ named \in SUBSET Nat /\ named \subseteq 1..Len(Decls(m))
  BY DeclsTyped DEF Declared
<1>2. PICK d \in named : \A e \in named : d <= e
  BY <1>1, Least
<1>3. (CHOOSE c \in named : \A e \in named : c <= e) \in named
  BY <1>2
<1>4. DeclOf(<<m, n>>) = Decls(m)[CHOOSE c \in named : \A e \in named : c <= e]
  BY DEF DeclOf
<1> QED
  BY <1>1, <1>3, <1>4

(* A mention names something that a module of the unit declares.           *)
LEMMA FoundIsDeclared ==
  ASSUME LoadInv, NameInv, SigInv, NEW s \in Found
  PROVE  /\ stage = "signatures" /\ s = <<s[1], s[2]>>
         /\ s[1] \in Elements(unit) /\ s[2] \in Declared(s[1]) /\ s[2] \in Names
<1>1. Asking /\ stage = "signatures" /\ s \in Symbols(Env, Asked) /\ HasNames
  BY DEF Found, Asking, AtRef, AtDecl, Working, HasNames, HasUnit
<1>2. PICK x : s = <<x, Asked.name>> /\
        IF Asked.path \in {"", Env} THEN Asked.name \in DOMAIN visible[Env] /\ x = visible[Env][Asked.name]
        ELSE x \in Imports(Env) /\ Asked.name \in locals[x]
  BY <1>1 DEF Symbols
<1>3. HasUnit /\ stage # "naming" /\ stage # "opening"
  BY <1>1 DEF HasUnit
<1>4. /\ Len(unit) \in Nat /\ Elements(unit) = {unit[k] : k \in 1..Len(unit)}
      /\ \A k \in 1..Len(unit) : unit[k] \in Modules /\ Imports(unit[k]) \subseteq Elements(unit)
                                 /\ OpenOf(k) = Imports(unit[k])
  BY <1>3, UnitFacts DEF OpenOf
<1>5. PICK k \in 1..Len(unit) : Env = unit[k]
  BY <1>1, <1>4 DEF SigInv, Asking, AtRef, AtDecl, Working, Env
<1>6. \A j \in 1..Len(unit) : locals[unit[j]] = Declared(unit[j])
  BY <1>3 DEF NameInv
<1>7. NamesOf(Env, Imports(Env), imported[Env], visible[Env], ambiguous[Env])
  BY <1>3, <1>4, <1>5 DEF NameInv
<1>8. Env \in Modules /\ Env \in Elements(unit) /\ Imports(Env) \subseteq Elements(unit)
  BY <1>4, <1>5
<1>9. x \in Elements(unit) /\ Asked.name \in Declared(x)
  <2>1. CASE Asked.path \in {"", Env}
    <3>1. Asked.name \in DOMAIN visible[Env] /\ x = visible[Env][Asked.name]
      BY <1>2, <2>1
    <3>2. CASE Asked.name \in Declared(Env)
      BY <1>7, <1>8, <3>1, <3>2 DEF NamesOf
    <3>3. CASE Asked.name \notin Declared(Env)
      <4>1. From(Imports(Env), Asked.name) = {x}
        BY <1>7, <3>1, <3>3 DEF NamesOf
      <4> QED
        BY <1>8, <4>1 DEF From
    <3> QED
      BY <3>2, <3>3
  <2>2. CASE Asked.path \notin {"", Env}
    BY <1>2, <1>4, <1>6, <1>8, <2>2, ZenonT(40)
  <2> QED
    BY <2>1, <2>2
<1>10. Asked.name \in Names
  BY <1>4, <1>9, DeclsTyped DEF Declared
<1> QED
  BY <1>1, <1>2, <1>9, <1>10

-----------------------------------------------------------------------------
(* Builtins and no type at all are known; suffixes do not change a base.   *)
LEMMA KnownTypes ==
  /\ KnownType(Pending) /\ KnownType(NoType) /\ \A n : KnownType(Type(Builtin(n)))
  /\ \A s \in UnitTypes : KnownType(Type(s))
  /\ \A t, ref : KnownType(t) => KnownType(Wrapped(t, ref))
<1>1. \A n : KnownType(Type(Builtin(n)))
  BY DEF KnownType, Type, Builtin
<1>2. KnownType(Pending) /\ KnownType(NoType)
  BY <1>1 DEF Pending, NoType
<1>3. \A s \in UnitTypes : KnownType(Type(s))
  BY DEF KnownType, Type
<1>4. ASSUME NEW t, NEW ref, KnownType(t) PROVE KnownType(Wrapped(t, ref))
  <2>1. t = [base |-> t.base, ptr |-> t.ptr]
    BY <1>4 DEF KnownType
  <2> DEFINE w == [t EXCEPT !.ptr = @ \/ ref.ptr]
  <2>2. w = [base |-> t.base, ptr |-> w.ptr] /\ w.base = t.base
    BY <2>1
  <2>3. KnownType(w)
    BY <1>4, <2>2 DEF KnownType
  <2>4. Wrapped(t, ref) \in {NoType, w}
    BY DEF Wrapped
  <2> QED
    BY <1>2, <2>3, <2>4
<1> QED
  BY <1>1, <1>2, <1>3, <1>4

(* Types and declarations depend on the program and the unit only. *)
LEMMA SameUnit ==
  ASSUME program' = program, unit' = unit
  PROVE  /\ UnitTypes' = UnitTypes
         /\ \A t : KnownType(t)' <=> KnownType(t)
         /\ \A m : Decls(m)' = Decls(m)
<1>1. \A m : Decls(m)' = Decls(m) /\ Declared(m)' = Declared(m)
  BY DEF Decls, Declared
<1>2. \A s : DeclOf(s)' = DeclOf(s)
  BY <1>1 DEF DeclOf
<1>3. UnitTypes' = UnitTypes
  BY <1>1, <1>2 DEF UnitTypes, Elements, Kind
<1> QED
  BY <1>1, <1>3 DEF KnownType

(* Steps within a mention: only answers and the cache of aliases change.   *)
LEMMA AnswersKeepTypes ==
  ASSUME SigInv, stage = "signatures", stage' = "signatures",
         UNCHANGED <<program, unit, job, holds>>,
         KnownType(answer'), \A a \in DOMAIN aliasType' : KnownType(aliasType'[a])
  PROVE  SigInv'
<1>1. /\ UnitTypes' = UnitTypes
      /\ \A t : KnownType(t)' <=> KnownType(t)
      /\ \A m : Decls(m)' = Decls(m)
  BY SameUnit
<1>2. HasUnit /\ HasNames' /\ ~HasTypes' /\ Types' = Types
  BY DEF HasUnit, HasNames, HasTypes, Types
<1>3. \A k, d : Entered(k, d)' <=> Entered(k, d)
  BY DEF Entered
<1> QED
  BY <1>1, <1>2, <1>3 DEF SigInv

(* One step of the resolution of a reference. *)
LEMMA AskingKeepsTypes ==
  ASSUME LoadInv, NameInv, SigInv,
         NamesBuiltin \/ Unknown \/ NotAType \/ NamesType \/ Known \/ CyclicAlias \/ Follow
  PROVE  SigInv'
<1>1. \A s \in Found : stage = "signatures" /\ (Kind(s) = "type" => s \in UnitTypes)
  BY FoundIsDeclared DEF UnitTypes
<1>2. /\ stage = "signatures" /\ stage' = "signatures"
      /\ UNCHANGED <<program, unit, job, holds, aliasType>>
  BY <1>1 DEF NamesBuiltin, Unknown, NotAType, NamesType, Known, CyclicAlias, Follow, Answer,
              sameNames, loadVars, Asking, AtRef, AtDecl, Working
<1>3. KnownType(answer')
  <2>1. CASE NamesBuiltin
    BY <2>1, KnownTypes DEF NamesBuiltin, Answer
  <2>2. CASE Unknown \/ NotAType \/ CyclicAlias
    BY <2>2, KnownTypes DEF Unknown, NotAType, CyclicAlias, Answer
  <2>3. CASE NamesType
    BY <1>1, <2>3, KnownTypes DEF NamesType, Answer
  <2>4. CASE Known
    BY <2>4, KnownTypes DEF Known, Answer, SigInv
  <2>5. CASE Follow
    BY <2>5 DEF Follow, SigInv
  <2> QED
    BY <2>1, <2>2, <2>3, <2>4, <2>5
<1> QED
  BY <1>2, <1>3, AnswersKeepTypes DEF SigInv

(* An answer returns through the aliases that asked for it. *)
LEMMA ReturnKeepsTypes ==
  ASSUME SigInv, Return
  PROVE  SigInv'
<1>1. /\ stage = "signatures" /\ stage' = "signatures"
      /\ UNCHANGED <<program, unit, job, holds>>
  BY DEF Return, AtRef, AtDecl, Working, sameNames, loadVars
<1>2. KnownType(answer') /\ KnownType(answer)
  BY KnownTypes DEF Return, SigInv
<1>3. aliasType' = aliasType \/ \E a : aliasType' = Extend(aliasType, {a}, answer)
  BY DEF Return
<1>4. \A a \in DOMAIN aliasType' : KnownType(aliasType'[a])
  BY <1>2, <1>3 DEF SigInv, Extend
<1> QED
  BY <1>1, <1>2, <1>4, AnswersKeepTypes

(* Steps between mentions: the job and what types hold change.             *)
LEMMA JobsKeepTypes ==
  ASSUME LoadInv, SigInv, stage = "signatures", stage' = "signatures",
         UNCHANGED <<program, unit, aliasType>>, KnownType(answer'),
         job' \in [i : Nat \ {0}, d : Nat \ {0}, r : Nat],
         IsFiniteSet(Types'), Types \subseteq Types',
         \A t \in Types' : IsFiniteSet(holds'[t]) /\ holds'[t] \subseteq UnitTypes,
         \A k \in 1..Len(unit) : \A d \in 1..Len(Decls(unit[k])) :
             Entered(k, d)' /\ ~Entered(k, d) /\ Decls(unit[k])[d].kind = "type"
                 => <<unit[k], Decls(unit[k])[d].name>> \in Types'
  PROVE  SigInv'
<1>1. /\ UnitTypes' = UnitTypes
      /\ \A t : KnownType(t)' <=> KnownType(t)
      /\ \A m : Decls(m)' = Decls(m)
  BY SameUnit
<1>2. HasUnit /\ HasNames' /\ ~HasTypes'
  BY DEF HasUnit, HasNames, HasTypes
<1>3. \A k \in 1..Len(unit) : \A d \in 1..Len(Decls(unit[k])) :
             Entered(k, d)' /\ Decls(unit[k])[d].kind = "type"
                 => <<unit[k], Decls(unit[k])[d].name>> \in Types'
  BY <1>2 DEF SigInv
<1> QED
  BY <1>1, <1>2, <1>3 DEF SigInv

(* A declaration is begun: a type is recorded, holding nothing. *)
LEMMA BeginKeepsTypes ==
  ASSUME LoadInv, SigInv, BeginDecl
  PROVE  SigInv'
<1>1. /\ stage = "signatures" /\ stage' = "signatures" /\ UNCHANGED <<program, unit, aliasType>>
      /\ answer' = answer /\ job.r = 0 /\ job.i <= Len(unit) /\ job.d <= Len(Decls(Env))
      /\ job' \in {[job EXCEPT !.d = @ + 1], [job EXCEPT !.r = 1]}
      /\ holds' = IF Decl.kind = "type" THEN Extend(holds, {Key}, {}) ELSE holds
  BY DEF BeginDecl, AtDecl, Working, sameNames, loadVars
<1>2. /\ job \in [i : Nat \ {0}, d : Nat \ {0}, r : Nat]
      /\ job' \in [i : Nat \ {0}, d : Nat \ {0}, r : Nat] /\ job'.i = job.i
      /\ (job'.d = job.d + 1 /\ job'.r = 0) \/ (job'.d = job.d /\ job'.r = 1)
  BY <1>1 DEF SigInv
<1>3. IsFiniteSet(Types') /\ Types \subseteq Types' /\ (Decl.kind = "type" => Key \in Types')
  <2>1. Types' = IF Decl.kind = "type" THEN Types \cup {Key} ELSE Types
    BY <1>1 DEF Types, Extend
  <2> QED
    BY <2>1, FS_AddElement DEF SigInv
<1>4. \A t \in Types' : IsFiniteSet(holds'[t]) /\ holds'[t] \subseteq UnitTypes
  <2>1. \A t \in Types' : holds'[t] = {} \/ (t \in Types /\ holds'[t] = holds[t])
    BY <1>1 DEF Types, Extend
  <2> QED
    BY <2>1, FS_EmptySet DEF SigInv
<1>5. ASSUME NEW k \in 1..Len(unit), NEW d \in 1..Len(Decls(unit[k])),
             Entered(k, d)', ~Entered(k, d), Decls(unit[k])[d].kind = "type"
      PROVE  <<unit[k], Decls(unit[k])[d].name>> \in Types'
  <2>1. Len(unit) \in Nat /\ unit[k] \in Modules
    BY <1>1, UnitFacts DEF HasUnit
  <2>2. Len(Decls(unit[k])) \in Nat
    BY <2>1, DeclsTyped
  <2>3. k = job.i /\ d = job.d
    BY <1>2, <1>5, <2>1, <2>2 DEF Entered
  <2>4. Decl = Decls(unit[k])[d] /\ Key = <<unit[k], Decls(unit[k])[d].name>>
    BY <2>3 DEF Decl, Key, Env
  <2> QED
    BY <1>3, <1>5, <2>4
<1> QED
  BY <1>1, <1>2, <1>3, <1>4, <1>5, JobsKeepTypes DEF SigInv

(* A field or variant gets its type, which its owner now holds. *)
LEMMA FinishKeepsTypes ==
  ASSUME LoadInv, SigInv, FinishRef
  PROVE  SigInv'
<1>1. /\ stage = "signatures" /\ stage' = "signatures" /\ UNCHANGED <<program, unit, aliasType>>
      /\ answer' = Pending /\ job.r \in DOMAIN Decl.refs
      /\ job.i <= Len(unit) /\ job.d <= Len(Decls(Env))
      /\ job' = [job EXCEPT !.r = @ + 1]
      /\ holds' = IF Decl.kind = "type" THEN [holds EXCEPT ![Key] = @ \cup ByValue(answer)]
                                        ELSE holds
  BY DEF FinishRef, AtRef, AtDecl, Working, sameNames, loadVars
<1>2. /\ job \in [i : Nat \ {0}, d : Nat \ {0}, r : Nat]
      /\ job' \in [i : Nat \ {0}, d : Nat \ {0}, r : Nat]
      /\ job'.i = job.i /\ job'.d = job.d /\ job'.r = job.r + 1
  BY <1>1 DEF SigInv
<1>3. job.r > 0
  <2>1. Len(unit) \in Nat /\ job.i \in 1..Len(unit) /\ Env \in Modules
    BY <1>1, <1>2, UnitFacts DEF HasUnit, Env
  <2>2. job.d \in 1..Len(Decls(Env))
    BY <1>1, <1>2, <2>1, DeclsTyped
  <2>3. DOMAIN Decl.refs = 1..Len(Decl.refs) /\ Len(Decl.refs) \in Nat
    BY <2>1, <2>2, DeclsTyped DEF Decl
  <2> QED
    BY <1>1, <2>3
<1>4. \A k, d : Entered(k, d)' => Entered(k, d)
  BY <1>2, <1>3 DEF Entered
<1>5. Types' = Types
  BY <1>1 DEF Types
<1>6. IsFiniteSet(ByValue(answer)) /\ ByValue(answer) \subseteq UnitTypes
  BY FS_EmptySet, FS_Singleton DEF ByValue, SigInv, KnownType
<1>7. ASSUME NEW t \in Types' PROVE IsFiniteSet(holds'[t]) /\ holds'[t] \subseteq UnitTypes
  <2>1. IsFiniteSet(holds[t]) /\ holds[t] \subseteq UnitTypes
    BY <1>5, <1>7 DEF SigInv
  <2>2. holds'[t] = holds[t] \/ holds'[t] = holds[t] \cup ByValue(answer)
    BY <1>1, <1>5, <1>7 DEF Types
  <2> QED
    BY <1>6, <2>1, <2>2, FS_Union
<1>8. IsFiniteSet(Types')
  BY <1>5 DEF SigInv
<1> QED
  BY <1>1, <1>2, <1>4, <1>5, <1>7, <1>8, KnownTypes, JobsKeepTypes

(* A declaration or a module ends. *)
LEMMA EndsKeepTypes ==
  ASSUME LoadInv, SigInv, EndDecl \/ EndModule
  PROVE  SigInv'
<1>1. /\ stage = "signatures" /\ stage' = "signatures"
      /\ UNCHANGED <<program, unit, aliasType, answer, holds>> /\ job.i <= Len(unit)
      /\ \/ /\ job.d <= Len(Decls(Env)) /\ job.r > Len(Decl.refs)
            /\ job' = [job EXCEPT !.d = @ + 1, !.r = 0]
         \/ job.d > Len(Decls(Env)) /\ job' = [i |-> job.i + 1, d |-> 1, r |-> 0]
  BY DEF EndDecl, EndModule, AtDecl, Working, sameNames, loadVars
<1>2. job \in [i : Nat \ {0}, d : Nat \ {0}, r : Nat]
  BY DEF SigInv
<1>3. Len(unit) \in Nat /\ job.i \in 1..Len(unit) /\ Env \in Modules /\ Env = unit[job.i]
  BY <1>1, <1>2, UnitFacts DEF HasUnit, Env
<1>4. Len(Decls(Env)) \in Nat
  BY <1>3, DeclsTyped
<1>5. job' \in [i : Nat \ {0}, d : Nat \ {0}, r : Nat]
  <2>1. CASE job' = [job EXCEPT !.d = @ + 1, !.r = 0]
    <3>1. job'.i = job.i /\ job'.d = job.d + 1 /\ job'.r = 0
          /\ job' = [i |-> job'.i, d |-> job'.d, r |-> job'.r]
      BY <1>2, <2>1
    <3> QED
      BY <1>2, <3>1
  <2>2. CASE job' = [i |-> job.i + 1, d |-> 1, r |-> 0]
    BY <1>2, <2>2
  <2> QED
    BY <1>1, <2>1, <2>2
<1>6. ASSUME NEW k \in 1..Len(unit), NEW d \in 1..Len(Decls(unit[k])), Entered(k, d)'
      PROVE  Entered(k, d)
  <2>1. CASE job.d <= Len(Decls(Env)) /\ job.r > Len(Decl.refs)
             /\ job' = [job EXCEPT !.d = @ + 1, !.r = 0]
    <3>1. job.d \in 1..Len(Decls(Env)) /\ job'.i = job.i /\ job'.d = job.d + 1 /\ job'.r = 0
      BY <1>2, <1>4, <2>1
    <3>2. Len(Decl.refs) \in Nat
      BY <1>3, <3>1, DeclsTyped DEF Decl
    <3>3. job.r > 0
      BY <1>2, <2>1, <3>2
    <3> QED
      BY <1>2, <1>6, <3>1, <3>3 DEF Entered
  <2>2. CASE job.d > Len(Decls(Env)) /\ job' = [i |-> job.i + 1, d |-> 1, r |-> 0]
    BY <1>2, <1>3, <1>4, <1>6, <2>2 DEF Entered
  <2> QED
    BY <1>1, <2>1, <2>2
<1>7. Types' = Types
  BY <1>1 DEF Types
<1> QED
  BY <1>1, <1>5, <1>6, <1>7, JobsKeepTypes DEF SigInv

(* Before signatures nothing is recorded, afterwards nothing changes.      *)
LEMMA EarlyKeepsTypes ==
  ASSUME SigInv, ~HasNames, ~HasTypes', UNCHANGED sigVars
  PROVE  SigInv'
<1>1. /\ job' = job /\ answer' = answer /\ aliasType' = aliasType /\ holds' = holds
      /\ Types' = Types
  BY DEF sigVars, Types
<1>2. /\ job = [i |-> 1, d |-> 1, r |-> 0] /\ Types = {} /\ DOMAIN aliasType = {}
      /\ answer = Pending
  BY DEF SigInv
<1>3. KnownType(Pending)'
  BY DEF KnownType, Pending, Type, Builtin
<1>4. \A k \in 1..Len(unit') : \A d \in 1..Len(Decls(unit[k])') : ~Entered(k, d)'
  BY <1>1, <1>2 DEF Entered
<1> QED
  BY <1>1, <1>2, <1>3, <1>4, FS_EmptySet DEF SigInv, Pending, Type, Builtin

(* Steps that resolve no signature keep what signatures recorded. *)
LEMMA LateKeepsTypes ==
  ASSUME SigInv, HasNames, HasNames', UNCHANGED <<program, unit, sigVars>>,
         HasTypes' => HasTypes \/ job.i > Len(unit)
  PROVE  SigInv'
<1>1. /\ job' = job /\ answer' = answer /\ aliasType' = aliasType /\ holds' = holds
      /\ Types' = Types
  BY DEF sigVars, Types
<1>2. /\ UnitTypes' = UnitTypes
      /\ \A t : KnownType(t)' <=> KnownType(t)
      /\ \A m : Decls(m)' = Decls(m)
  BY SameUnit
<1>3. HasUnit /\ HasUnit'
  BY DEF HasNames
<1>4. \A k, d : Entered(k, d)' <=> Entered(k, d)
  BY <1>1 DEF Entered
<1>5. HasTypes' => job'.i > Len(unit')
  BY <1>1 DEF SigInv
<1> QED
  BY <1>1, <1>2, <1>3, <1>4, <1>5 DEF SigInv

(* No type is recorded at first. *)
LEMMA InitTypes == Init => SigInv
<1> SUFFICES ASSUME Init PROVE SigInv
  OBVIOUS
<1>1. /\ stage = "loading" /\ job = [i |-> 1, d |-> 1, r |-> 0] /\ answer = Pending
      /\ DOMAIN aliasType = {} /\ Types = {}
  BY DEF Init, LoadInit, SigInit, Types
<1>2. ~HasUnit /\ ~HasNames /\ ~HasTypes
  BY <1>1 DEF HasUnit, HasNames, HasTypes
<1> QED
  BY <1>1, <1>2, FS_EmptySet, KnownTypes DEF SigInv

(* Every step of the front end keeps the recorded types. *)
LEMMA NextTypes ==
  ASSUME LoadInv, NameInv, SigInv, [Next]_vars
  PROVE  SigInv'
<1>1. CASE LoadNext /\ UNCHANGED <<nameVars, sigVars, sortVars>>
  <2>1. ~HasNames /\ ~HasTypes'
    BY <1>1, LoadSteps DEF HasNames, HasTypes, HasUnit
  <2> QED
    BY <1>1, <2>1, EarlyKeepsTypes
<1>2. CASE NameNext /\ UNCHANGED <<sigVars, sortVars>>
  <2>1. ~HasNames /\ ~HasTypes'
    BY <1>2 DEF NameNext, CollectLocals, AllCollected, OpenAgain, OpenImport, ModuleOpened,
                AllOpened, Opening, HasNames, HasTypes, HasUnit
  <2> QED
    BY <1>2, <2>1, EarlyKeepsTypes
<1>3. CASE SigNext
  BY <1>3, AskingKeepsTypes, ReturnKeepsTypes, BeginKeepsTypes, FinishKeepsTypes, EndsKeepTypes
     DEF SigNext
<1>4. CASE AllSigned \/ Sort \/ CyclesChecked \/ Emitted
  <2>1. /\ HasNames /\ HasNames' /\ UNCHANGED <<program, unit>>
    BY <1>4, AfterNames DEF loadVars
  <2>2. UNCHANGED sigVars /\ (HasTypes' => HasTypes \/ job.i > Len(unit))
    BY <1>4 DEF AllSigned, Sort, CyclesChecked, Emitted, HasTypes, HasNames, HasUnit
  <2> QED
    BY <2>1, <2>2, LateKeepsTypes
<1>5. CASE UNCHANGED vars
  <2>1. UNCHANGED <<program, unit, stage, sigVars>>
    BY <1>5 DEF vars, loadVars
  <2>2. (HasNames' <=> HasNames) /\ (HasTypes' <=> HasTypes)
    BY <2>1 DEF HasNames, HasTypes, HasUnit
  <2>3. HasTypes => HasNames
    BY DEF HasTypes
  <2> QED
    BY <2>1, <2>2, <2>3, EarlyKeepsTypes, LateKeepsTypes
<1> QED
  BY <1>1, <1>2, <1>3, <1>4, <1>5 DEF Next, Finished

(* What is recorded of a type when signatures are done is of the unit.     *)
LEMMA HeldAreTypes ==
  ASSUME LoadInv, SigInv, HasTypes
  PROVE  \A t \in Types : holds[t] \subseteq Types
<1> SUFFICES ASSUME NEW s \in UnitTypes PROVE s \in Types
  BY DEF SigInv
<1>1. HasUnit /\ job.i > Len(unit)
  BY DEF SigInv, HasTypes, HasNames
<1>2. s = <<s[1], s[2]>> /\ s[1] \in Elements(unit) /\ s[2] \in Declared(s[1]) /\ Kind(s) = "type"
  BY DEF UnitTypes
<1>3. PICK k \in 1..Len(unit) : s[1] = unit[k] /\ unit[k] \in Modules /\ Len(unit) \in Nat
  BY <1>1, <1>2, UnitFacts
<1>4. PICK d \in 1..Len(Decls(s[1])) :
        Decls(s[1])[d].name = s[2] /\ DeclOf(<<s[1], s[2]>>) = Decls(s[1])[d]
  BY <1>2, <1>3, DeclOfIsDeclared
<1>5. Decls(unit[k])[d].kind = "type" /\ <<unit[k], Decls(unit[k])[d].name>> = s
      /\ d \in 1..Len(Decls(unit[k]))
  BY <1>2, <1>3, <1>4 DEF Kind
<1>6. Entered(k, d)
  BY <1>1, <1>3 DEF Entered, SigInv
<1> QED
  BY <1>1, <1>5, <1>6 DEF SigInv

-----------------------------------------------------------------------------
(* The sort.  What a sorted type holds was sorted before it; a degree      *)
(* counts what is held and not sorted; what is ready holds nothing that    *)
(* is not sorted.                                                          *)
Sorting ==
    /\ sorted \in Seq(Types)
    /\ \A i, j \in 1..Len(sorted) : sorted[i] = sorted[j] => i = j
    /\ Cardinality(Elements(sorted)) = Len(sorted)
    /\ \A i \in 1..Len(sorted) : holds[sorted[i]] \subseteq {sorted[j] : j \in 1..(i - 1)}
    /\ \A t \in Types : degree[t] = Cardinality(holds[t] \ Elements(sorted))
    /\ degree = [t \in Types |-> degree[t]]
    /\ ready = {t \in Types \ Elements(sorted) : degree[t] = 0}

SortInv ==
    /\ ~HasTypes => sorted = << >> /\ "SIG-0040" \notin verdict
    /\ HasTypes => Sorting /\ stage \in {"cycles", "emitting", "emitted", "rejected"}
    /\ stage = "cycles" => "SIG-0040" \notin verdict
    /\ stage \in {"emitting", "emitted"} =>
          verdict = {} /\ ~\E S \in SUBSET Types : Endless(S)
    /\ stage = "rejected" =>
          ("SIG-0040" \in verdict <=> \E S \in SUBSET Types : Endless(S))
    /\ stage = "emitted" => Elements(sorted) = Types

(* What a sort under way has sorted. *)
LEMMA SortedFacts ==
  ASSUME Sorting
  PROVE  /\ Len(sorted) \in Nat /\ DOMAIN sorted = 1..Len(sorted)
         /\ Elements(sorted) = {sorted[i] : i \in 1..Len(sorted)}
         /\ Elements(sorted) \subseteq Types
         /\ \A t \in Elements(sorted) : holds[t] \subseteq Elements(sorted)
<1>1. Len(sorted) \in Nat /\ DOMAIN sorted = 1..Len(sorted)
      /\ \A i \in 1..Len(sorted) : sorted[i] \in Types
  BY LenProperties, ElementOfSeq DEF Sorting
<1>2. Elements(sorted) = {sorted[i] : i \in 1..Len(sorted)}
  BY <1>1 DEF Elements
<1>3. ASSUME NEW i \in 1..Len(sorted) PROVE holds[sorted[i]] \subseteq Elements(sorted)
  <2>1. {sorted[j] : j \in 1..(i - 1)} \subseteq {sorted[j] : j \in 1..Len(sorted)}
    BY <1>1
  <2> QED
    BY <1>2, <2>1 DEF Sorting
<1> QED
  BY <1>1, <1>2, <1>3

(* Types that were sorted have an end: take the first of them.             *)
LEMMA SortedHasEnd ==
  ASSUME Sorting
  PROVE  \A S \in SUBSET Elements(sorted) : ~Endless(S)
<1> SUFFICES ASSUME NEW S \in SUBSET Elements(sorted), Endless(S) PROVE FALSE
  OBVIOUS
<1> DEFINE I == {i \in 1..Len(sorted) : sorted[i] \in S}
<1>1. I # {} /\ I \in SUBSET Nat
  BY SortedFacts DEF Endless
<1>2. PICK i \in I : \A j \in I : i <= j
  BY <1>1, Least
<1>3. PICK t \in holds[sorted[i]] : t \in S
  BY <1>2 DEF Endless
<1>4. PICK j \in 1..(i - 1) : sorted[j] = t
  BY <1>2, <1>3 DEF Sorting
<1>5. j \in I /\ j < i
  BY <1>2, <1>3, <1>4, SortedFacts
<1> QED
  BY <1>1, <1>2, <1>5

(* A sort that stops has sorted everything, or the rest has no end.        *)
LEMMA SortStops ==
  ASSUME Sorting, ready = {}, IsFiniteSet(Types), \A t \in Types : holds[t] \subseteq Types
  PROVE  /\ Complete => Elements(sorted) = Types
         /\ Complete <=> ~\E S \in SUBSET Types : Endless(S)
<1>1. Elements(sorted) \subseteq Types /\ Cardinality(Elements(sorted)) = Len(sorted)
  BY SortedFacts DEF Sorting
<1>2. Complete => Elements(sorted) = Types
  BY <1>1, FS_Subset DEF Complete
<1>3. Complete => ~\E S \in SUBSET Types : Endless(S)
  BY <1>2, SortedHasEnd
<1> DEFINE R == Types \ Elements(sorted)
<1>4. ~Complete => Endless(R)
  <2>1. ~Complete => R # {}
    <3>1. R = {} => Elements(sorted) = Types
      BY <1>1
    <3> QED
      BY <1>1, <3>1 DEF Complete
  <2>2. ASSUME NEW t \in R PROVE holds[t] \cap R # {}
    <3>1. degree[t] # 0 /\ degree[t] = Cardinality(holds[t] \ Elements(sorted))
      BY <2>2 DEF Sorting
    <3>2. holds[t] \ Elements(sorted) # {}
      BY <3>1, FS_EmptySet
    <3> QED
      BY <2>2, <3>2
  <2> QED
    BY <2>1, <2>2 DEF Endless
<1> QED
  BY <1>2, <1>3, <1>4

(* A sort begins with nothing sorted and every degree full. *)
LEMMA BeginSorts ==
  ASSUME NEW stg, Begin(stg), holds' = holds
  PROVE  Sorting'
<1>1. /\ degree' = [t \in Types |-> Cardinality(holds[t])] /\ sorted' = << >>
      /\ ready' = {t \in Types : Cardinality(holds[t]) = 0} /\ Types' = Types
  BY DEF Begin, Held, Types
<1>2. sorted' \in Seq(Types) /\ Len(sorted') = 0 /\ Elements(sorted)' = {}
  BY <1>1, EmptySeq DEF Elements
<1>3. \A t : holds[t] \ {} = holds[t]
  OBVIOUS
<1>4. /\ \A t \in Types : degree'[t] = Cardinality(holds'[t] \ Elements(sorted)')
      /\ degree' = [t \in Types' |-> degree'[t]]
  BY <1>1, <1>2, <1>3
<1>5. ready' = {t \in Types' \ Elements(sorted)' : degree'[t] = 0}
  BY <1>1, <1>2
<1>6. Cardinality(Elements(sorted)') = Len(sorted')
  BY <1>2, FS_EmptySet
<1> QED
  BY <1>1, <1>2, <1>4, <1>5, <1>6 DEF Sorting

(* One type is sorted, and those that held it are one nearer. *)
LEMMA SortSorts ==
  ASSUME Sorting, Sort, IsFiniteSet(Types), \A t \in Types : IsFiniteSet(holds[t])
  PROVE  Sorting'
<1>1. PICK t \in ready :
        /\ sorted' = Append(sorted, t) /\ degree' = Lowered(t)
        /\ ready' = (ready \ {t}) \cup Released(t) /\ holds' = holds
  BY DEF Sort, sigVars
<1>2. /\ t \in Types /\ t \notin Elements(sorted) /\ degree[t] = 0 /\ Types' = Types
      /\ sorted \in Seq(Types)
  BY <1>1 DEF Sorting, Types
<1>3. /\ sorted' \in Seq(Types) /\ Len(sorted') = Len(sorted) + 1 /\ Len(sorted) \in Nat
      /\ \A i \in 1..Len(sorted) : sorted'[i] = sorted[i]
      /\ sorted'[Len(sorted) + 1] = t
      /\ Elements(sorted)' = Elements(sorted) \cup {t}
  <2>1. Elements(sorted)' = Elements(sorted')
    BY DEF Elements
  <2> QED
    BY <1>1, <1>2, <2>1, AppendProperties, LenProperties, ElementsAppend
<1>4. holds[t] \subseteq Elements(sorted)
  <2>1. Cardinality(holds[t] \ Elements(sorted)) = 0
    BY <1>2 DEF Sorting
  <2>2. IsFiniteSet(holds[t] \ Elements(sorted))
    BY <1>2, FS_Difference
  <2> QED
    BY <2>1, <2>2, FS_EmptySet
<1>5. \A i, j \in 1..Len(sorted') : sorted'[i] = sorted'[j] => i = j
  BY <1>2, <1>3, SortedFacts DEF Sorting
<1>6. Cardinality(Elements(sorted)') = Len(sorted')
  <2>1. IsFiniteSet(Elements(sorted)) /\ Cardinality(Elements(sorted)) = Len(sorted)
    BY SortedFacts, FS_Subset DEF Sorting
  <2> QED
    BY <1>2, <1>3, <2>1, FS_AddElement, ZenonT(40)
<1>7. ASSUME NEW i \in 1..Len(sorted')
      PROVE  holds'[sorted'[i]] \subseteq {sorted'[j] : j \in 1..(i - 1)}
  <2>1. CASE i = Len(sorted) + 1
    <3>1. \A x \in Elements(sorted) : \E j \in 1..(i - 1) : x = sorted'[j]
      BY <1>3, <2>1, SortedFacts
    <3> QED
      BY <1>1, <1>3, <1>4, <2>1, <3>1
  <2>2. CASE i \in 1..Len(sorted)
    <3>1. \A j \in 1..(i - 1) : sorted'[j] = sorted[j]
      BY <1>3, <2>2
    <3>2. holds[sorted[i]] \subseteq {sorted[j] : j \in 1..(i - 1)}
      BY <2>2 DEF Sorting
    <3> QED
      BY <1>1, <1>3, <2>2, <3>1, <3>2
  <2> QED
    BY <1>3, <2>1, <2>2
<1>8. ASSUME NEW x \in Types
      PROVE  degree'[x] = Cardinality(holds'[x] \ Elements(sorted)')
  <2> DEFINE U == holds[x] \ Elements(sorted)
  <2>1. /\ holds'[x] \ Elements(sorted)' = U \ {t}
        /\ degree'[x] = IF t \in holds[x] THEN degree[x] - 1 ELSE degree[x]
        /\ t \in U <=> t \in holds[x]
        /\ degree[x] = Cardinality(U)
    BY <1>1, <1>2, <1>3 DEF Lowered, Sorting
  <2>2. IsFiniteSet(U)
    BY FS_Difference
  <2>3. Cardinality(U \ {t}) = IF t \in U THEN Cardinality(U) - 1 ELSE Cardinality(U)
    BY <2>2, FS_RemoveElement
  <2> QED
    BY <2>1, <2>3
<1>9. degree' = [x \in Types' |-> degree'[x]]
  BY <1>1, <1>2 DEF Lowered
<1>10. ready' = {x \in Types' \ Elements(sorted)' : degree'[x] = 0}
  <2>1. /\ ready = {x \in Types \ Elements(sorted) : degree[x] = 0}
        /\ Released(t) = {x \in Types : t \in holds[x] /\ degree'[x] = 0}
    BY <1>1 DEF Released, Sorting
  <2>2. \A x \in Types : degree'[x] = IF t \in holds[x] THEN degree[x] - 1 ELSE degree[x]
    BY <1>1 DEF Lowered
  <2>3. \A x \in Elements(sorted) : t \notin holds[x]
    BY <1>2, SortedFacts
  <2>4. t \notin holds[t]
    BY <1>2, <1>4
  <2>5. \A x \in Types : degree[x] = 0 => t \notin holds[x] \/ x \in Elements(sorted)
    <3> SUFFICES ASSUME NEW x \in Types, degree[x] = 0, t \in holds[x] PROVE FALSE
      OBVIOUS
    <3>1. IsFiniteSet(holds[x] \ Elements(sorted)) /\ Cardinality(holds[x] \ Elements(sorted)) = 0
      BY FS_Difference DEF Sorting
    <3> QED
      BY <1>2, <3>1, FS_EmptySet
  <2>6. ASSUME NEW x
        PROVE  x \in ready' <=> x \in Types \ (Elements(sorted) \cup {t}) /\ degree'[x] = 0
    BY <1>1, <2>1, <2>2, <2>3, <2>4, <2>5
  <2> QED
    BY <1>2, <1>3, <2>6
<1> QED
  BY <1>1, <1>2, <1>3, <1>5, <1>6, <1>7, <1>8, <1>9, <1>10 DEF Sorting

-----------------------------------------------------------------------------
(* Until types are sorted nobody reports that they have no end.            *)
LEMMA EarlyVerdicts ==
  ASSUME LoadInv, LoadNext \/ NameNext \/ SigNext, "SIG-0040" \notin verdict
  PROVE  "SIG-0040" \notin verdict'
<1>1. CASE LoadNext
  <2>1. CASE ImportCycle
    BY <2>1 DEF ImportCycle, Raise
  <2>2. CASE NotFound
    BY <2>2 DEF NotFound, Raise
  <2>3. CASE NotUtf8
    BY <2>3 DEF NotUtf8, Raise
  <2>4. CASE WrongName
    BY <2>4 DEF WrongName
  <2>5. CASE CacheHit \/ Parse \/ Loaded \/ WalkInto \/ WalkBack \/ Collected
    BY <2>5 DEF CacheHit, Parse, Loaded, WalkInto, WalkBack, Collected
  <2> QED
    BY <1>1, <2>1, <2>2, <2>3, <2>4, <2>5 DEF LoadNext
<1>2. CASE NameNext
  BY <1>2 DEF NameNext, CollectLocals, AllCollected, OpenAgain, OpenImport, ModuleOpened, AllOpened
<1>3. CASE SigNext
  <2>1. \A t, ref : "SIG-0040" \notin VoidError(t, ref)
    BY DEF VoidError
  <2>2. CASE NamesBuiltin \/ Unknown \/ NotAType \/ NamesType \/ Known \/ CyclicAlias
    <3>1. \E t, errors : Answer(t, errors) /\ "SIG-0040" \notin errors
      BY <2>1, <2>2 DEF NamesBuiltin, Unknown, NotAType, NamesType, Known, CyclicAlias
    <3> QED
      BY <3>1 DEF Answer, Report
  <2>3. CASE Return
    <3>1. \E errors : verdict' = verdict \cup errors /\ "SIG-0040" \notin errors
      BY <2>1, <2>3 DEF Return, Report
    <3> QED
      BY <3>1
  <2>4. CASE Follow \/ BeginDecl \/ FinishRef \/ EndDecl \/ EndModule
    BY <2>4 DEF Follow, BeginDecl, FinishRef, EndDecl, EndModule
  <2> QED
    BY <1>3, <2>2, <2>3, <2>4 DEF SigNext
<1> QED
  BY <1>1, <1>2, <1>3

(* Nothing is sorted before the signatures are done. *)
LEMMA EarlySorts ==
  ASSUME LoadInv, NameInv, SigInv, SortInv, UNCHANGED sortVars, LoadNext \/ NameNext \/ SigNext
  PROVE  SortInv'
<1>1. ~HasTypes /\ ~HasTypes'
  <2>1. CASE LoadNext
    BY <2>1, LoadSteps DEF HasTypes, HasNames, HasUnit
  <2>2. CASE NameNext
    BY <2>2 DEF NameNext, CollectLocals, AllCollected, OpenAgain, OpenImport, ModuleOpened,
                AllOpened, Opening, HasTypes, HasNames, HasUnit
  <2>3. CASE SigNext
    BY <2>3, FoundIsDeclared
       DEF SigNext, BeginDecl, NamesBuiltin, Unknown, NotAType, NamesType, Known, CyclicAlias,
           Follow, Return, FinishRef, EndDecl, EndModule, Answer, sameNames, Asking, AtRef,
           AtDecl, Working, HasTypes
  <2> QED
    BY <2>1, <2>2, <2>3
<1>2. sorted' = << >> /\ "SIG-0040" \notin verdict'
  BY <1>1, EarlyVerdicts DEF SortInv, sortVars
<1>3. stage' \notin {"cycles", "emitting", "emitted", "rejected"}
  BY <1>1, LoadSteps DEF HasTypes, HasNames, HasUnit
<1> QED
  BY <1>1, <1>2, <1>3 DEF SortInv

(* Endless depends on what types hold only.                                *)
LEMMA SameTypes ==
  ASSUME holds' = holds
  PROVE  Types' = Types /\ \A S : Endless(S)' <=> Endless(S)
BY DEF Types, Endless

(* A step that touches no sort changes nothing of one. *)
LEMMA SameSorting ==
  ASSUME holds' = holds, UNCHANGED sortVars
  PROVE  (Sorting' <=> Sorting) /\ Elements(sorted)' = Elements(sorted)
<1>1. Types' = Types /\ degree' = degree /\ ready' = ready /\ sorted' = sorted
  BY SameTypes DEF sortVars
<1>2. Elements(sorted)' = Elements(sorted)
  BY <1>1 DEF Elements
<1> QED
  BY <1>1, <1>2 DEF Sorting

(* The steps that begin, advance and end a sort. *)
LEMMA SortingSteps ==
  ASSUME LoadInv, SigInv, SortInv, AllSigned \/ Sort \/ CyclesChecked \/ Emitted
  PROVE  SortInv'
<1>1. UNCHANGED sigVars /\ holds' = holds
  BY DEF AllSigned, Sort, CyclesChecked, Emitted, sigVars
<1>2. Types' = Types /\ \A S : Endless(S)' <=> Endless(S)
  BY <1>1, SameTypes
<1>3. IsFiniteSet(Types) /\ \A t \in Types : IsFiniteSet(holds[t])
  BY DEF SigInv
<1>4. HasNames /\ HasNames'
  BY AfterNames
<1>5. CASE AllSigned
  <2>1. stage = "signatures" /\ stage' = "cycles" /\ verdict' = verdict /\ Begin("cycles")
    BY <1>5 DEF AllSigned, Begin
  <2>2. Sorting'
    BY <1>1, <2>1, BeginSorts
  <2>3. "SIG-0040" \notin verdict
    BY <2>1 DEF SortInv, HasTypes
  <2> QED
    BY <1>4, <2>1, <2>2, <2>3 DEF SortInv, HasTypes
<1>6. CASE Sort
  <2>1. /\ stage \in {"cycles", "emitting"} /\ stage' = stage /\ verdict' = verdict
        /\ Sorting
    BY <1>4, <1>6 DEF Sort, SortInv, HasTypes
  <2>2. Sorting'
    BY <1>3, <1>6, <2>1, SortSorts
  <2> QED
    BY <1>2, <1>4, <2>1, <2>2 DEF SortInv, HasTypes
<1>7. CASE CyclesChecked
  <2>1. stage = "cycles" /\ ready = {} /\ Sorting /\ HasTypes /\ "SIG-0040" \notin verdict
    BY <1>4, <1>7 DEF CyclesChecked, SortInv, HasTypes
  <2>2. Complete <=> ~\E S \in SUBSET Types : Endless(S)
    BY <1>3, <2>1, HeldAreTypes, SortStops
  <2>3. "SIG-0040" \in verdict' <=> \E S \in SUBSET Types : Endless(S)
    BY <1>7, <2>1, <2>2 DEF CyclesChecked
  <2>4. CASE verdict' = {}
    <3>1. stage' = "emitting" /\ Begin("emitting")
      BY <1>7, <2>4 DEF CyclesChecked, Begin
    <3>2. Sorting'
      BY <1>1, <3>1, BeginSorts
    <3> QED
      BY <1>2, <1>4, <2>3, <2>4, <3>1, <3>2 DEF SortInv, HasTypes
  <2>5. CASE verdict' # {}
    <3>1. stage' = "rejected" /\ UNCHANGED sortVars
      BY <1>7, <2>5 DEF CyclesChecked
    <3>2. Sorting'
      BY <1>1, <2>1, <3>1, SameSorting
    <3> QED
      BY <1>2, <1>4, <2>3, <3>1, <3>2 DEF SortInv, HasTypes
  <2> QED
    BY <2>4, <2>5
<1>8. CASE Emitted
  <2>1. /\ stage = "emitting" /\ ready = {} /\ Sorting /\ HasTypes
        /\ verdict' = verdict /\ verdict = {} /\ ~\E S \in SUBSET Types : Endless(S)
        /\ UNCHANGED sortVars
    BY <1>4, <1>8 DEF Emitted, SortInv, HasTypes
  <2>2. Complete /\ Elements(sorted) = Types
    BY <1>3, <2>1, HeldAreTypes, SortStops
  <2>3. stage' = "emitted"
    BY <1>8, <2>2 DEF Emitted
  <2>4. Sorting' /\ Elements(sorted)' = Elements(sorted)
    BY <1>1, <2>1, SameSorting
  <2> QED
    BY <1>2, <1>4, <2>1, <2>2, <2>3, <2>4 DEF SortInv, HasTypes
<1> QED
  BY <1>5, <1>6, <1>7, <1>8

(* Every step of the front end keeps the sort. *)
LEMMA NextSorts ==
  ASSUME LoadInv, NameInv, SigInv, SortInv, [Next]_vars
  PROVE  SortInv'
<1>1. CASE UNCHANGED vars
  <2>1. UNCHANGED <<stage, verdict, sortVars>> /\ holds' = holds /\ sorted' = sorted
    BY <1>1 DEF vars, sigVars, sortVars
  <2>2. Types' = Types /\ \A S : Endless(S)' <=> Endless(S)
    BY <2>1, SameTypes
  <2>3. (Sorting' <=> Sorting) /\ (HasTypes' <=> HasTypes) /\ Elements(sorted)' = Elements(sorted)
    BY <2>1, SameSorting DEF HasTypes, HasNames, HasUnit
  <2> QED
    BY <2>1, <2>2, <2>3 DEF SortInv
<1> QED
  BY <1>1, EarlySorts, SortingSteps DEF Next, Finished

(* No sort is under way at first. *)
LEMMA InitSorts == Init => SortInv
BY DEF Init, LoadInit, SortInv, HasTypes, HasNames, HasUnit

(* The front end at every moment: what is loaded, what names mean, which   *)
(* types are recorded, and how far they are sorted.                        *)
THEOREM FrontEnd == Spec => [](LoadInv /\ NameInv /\ SigInv /\ SortInv)
<1>1. Init => LoadInv /\ NameInv /\ SigInv /\ SortInv
  BY InitLoading, InitNames, InitTypes, InitSorts
<1>2. LoadInv /\ NameInv /\ SigInv /\ SortInv /\ [Next]_vars
         => (LoadInv /\ NameInv /\ SigInv /\ SortInv)'
  BY NextLoading, NextNames, NextTypes, NextSorts
<1> QED
  BY <1>1, <1>2, PTL DEF Spec

(* A C definition never comes before one that it needs, each type of the   *)
(* unit is defined once, and the second sort of the back end never fails.  *)
THEOREM TypesAreDefinedBeforeUse == Spec => []DefinedBeforeUse
<1>1. SortInv => DefinedBeforeUse
  <2> SUFFICES ASSUME SortInv PROVE DefinedBeforeUse
    OBVIOUS
  <2>1. CASE HasTypes
    BY <2>1, SortedFacts DEF SortInv, Sorting, DefinedBeforeUse
  <2>2. CASE ~HasTypes
    BY <2>2 DEF SortInv, DefinedBeforeUse, HasTypes, HasNames, HasUnit
  <2> QED
    BY <2>1, <2>2
<1> QED
  BY <1>1, FrontEnd, PTL

(* A program is refused for its size exactly when types hold each other    *)
(* without end, whatever their number and however they are declared.       *)
THEOREM EndlessTypesAreRefused == Spec => []EndlessIsRefused
<1>1. SortInv => EndlessIsRefused
  BY DEF SortInv, EndlessIsRefused
<1> QED
  BY <1>1, FrontEnd, PTL
=============================================================================
