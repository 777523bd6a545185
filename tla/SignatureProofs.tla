-------------------------- MODULE SignatureProofs ---------------------------
(***************************************************************************)
(* For any modules, names and programs in which aliases mean abroad what   *)
(* they mean at home (ScopesAgree): an alias stands for the type that its  *)
(* target names in the module that declares it, whoever asked first, and a *)
(* type or an alias is reported exactly when it should be.                 *)
(* An answer is judged by Denoted, which the resolution itself changes     *)
(* with every alias it resolves.  The argument therefore rests on answers  *)
(* that are final: those that wait for no alias that may still get a type. *)
(* An alias is lost when it can get none, which circles show.              *)
(***************************************************************************)
EXTENDS TypeOrderingProofs

-----------------------------------------------------------------------------
(* The declaration that a mention in module m names, as a set.             *)
Meant(m, ref) == IF ref.path = "" /\ ref.name \in Builtins THEN {} ELSE Seen(m, ref)

(* The aliases that an analysis of module m may follow are in S, and their *)
(* targets name in m what they name where they are declared.               *)
Followed(m, S) ==
    /\ \A ref \in Mentions(m) : Meant(m, ref) \cap Aliases \subseteq S
    /\ \A a \in S : /\ Meant(m, Target(a)) = Meant(a[1], Target(a))
                    /\ Meant(m, Target(a)) \cap Aliases \subseteq S

ScopesAgree == \A m \in Elements(unit) : \E S \in SUBSET Aliases : Followed(m, S)

(* Aliases that will never get a type: no target of theirs has one, or is  *)
(* an alias that may get one.                                              *)
Typed    == DOMAIN aliasType
Waits(m, ref, F) == \A s \in Meant(m, ref) : Kind(s) = "alias" => s \in F \cup Typed
Hopeless(F) ==
    \A a \in F : /\ a \notin Typed
                 /\ Denoted(a[1], Target(a)) = NoType
                 /\ Waits(a[1], Target(a), F)
Lost == UNION {F \in SUBSET Aliases : Hopeless(F)}

(* What a mention denotes will not change.                                 *)
Final(m, ref) == Waits(m, ref, Lost)

-----------------------------------------------------------------------------
SigErrors == {"SIG-0010", "SIG-0011", "SIG-0019"}
SigCodes  == SigErrors \cup {"SIG-0020"}

(* A mention that has been judged: its answer is final, was reported when  *)
(* it is no type, and circles that it led into were seen.                  *)
Settled(m, ref) ==
    /\ Final(m, ref)
    /\ Denoted(m, ref) = NoType => verdict \cap SigCodes # {}
    /\ \A S \in SUBSET Aliases :
          Circular(S) /\ Meant(m, ref) \cap S # {} => "SIG-0020" \in verdict

(* The module in which the mention at hand is written; it is looked up in  *)
(* Env all the same.                                                       *)
Home == IF chain = << >> THEN Env ELSE Last(chain)[1]

(* The aliases under resolution, each the target of the one before.        *)
ChainOf(c) ==
    /\ c \in Seq(Aliases)
    /\ \A i, j \in 1..Len(c) : c[i] = c[j] => i = j
    /\ \A i \in 1..(Len(c) - 1) : c[i + 1] \in Meant(c[i][1], Target(c[i]))
    /\ c # << >> => IF Decl.kind = "alias" THEN c[1] = Key ELSE c[1] \in Meant(Env, Decl.refs[job.r])
    /\ \E S \in SUBSET Aliases : Followed(Env, S) /\ Elements(c) \subseteq S

ChainInv ==
    AtRef => /\ ChainOf(chain) /\ \A i \in 1..Len(chain) : chain[i] \notin Typed
             /\ Decl.kind = "alias" => chain # << >> \/ answer # Pending

AnswerInv ==
    IF AtRef THEN answer # Pending => Settled(Home, Asked) /\ answer = Denoted(Home, Asked)
    ELSE answer = Pending /\ chain = << >>

(* An alias has the type of its target, which is one; circles have none.   *)
AliasInv ==
    /\ \A a \in Typed : /\ a \in Aliases
                        /\ aliasType[a] = Denoted(a[1], Target(a)) /\ aliasType[a] # NoType
    /\ \A S \in SUBSET Aliases : Circular(S) => S \cap Typed = {}

(* Mention r of declaration d of the k-th module has been through.         *)
Resolved(k, d, r) == \/ k < job.i
                     \/ k = job.i /\ d < job.d
                     \/ k = job.i /\ d = job.d /\ r < job.r
Declares(k, d) == <<unit[k], Decls(unit[k])[d].name>>
Refs(k, d)     == 1..Len(Decls(unit[k])[d].refs)
Ref(k, d, r)   == Decls(unit[k])[d].refs[r]

SettledInv ==
    \A k \in 1..Len(unit) : \A d \in 1..Len(Decls(unit[k])) : \A r \in Refs(k, d) :
        Resolved(k, d, r) => Settled(unit[k], Ref(k, d, r))

(* What a type holds so far is what its resolved mentions denote.          *)
HeldOf(k, d, R) == UNION {ByValue(Denoted(unit[k], Ref(k, d, r))) : r \in R}
HeldBy(k, d)    == HeldOf(k, d, {r \in Refs(k, d) : Resolved(k, d, r)})
HoldsInv ==
    /\ \A k \in 1..Len(unit) : \A d \in 1..Len(Decls(unit[k])) :
          Entered(k, d) /\ Decls(unit[k])[d].kind = "type" => holds[Declares(k, d)] = HeldBy(k, d)
    /\ \A t \in Types : \E k \in 1..Len(unit) : \E d \in 1..Len(Decls(unit[k])) :
          Entered(k, d) /\ Decls(unit[k])[d].kind = "type" /\ t = Declares(k, d)

(* What was reported is there.                                             *)
Fails(m, ref) == Final(m, ref) /\ Denoted(m, ref) = NoType
ReportInv ==
    /\ "SIG-0020" \in verdict => \E S \in SUBSET Aliases : Circular(S)
    /\ verdict \cap SigErrors # {} => \E m \in Elements(unit) : \E ref \in Mentions(m) : Fails(m, ref)

Meaning == ChainInv /\ AnswerInv /\ AliasInv /\ SettledInv /\ HoldsInv /\ ReportInv

(* Every module of the unit declares each name once.                       *)
OnceInv ==
    /\ stage = "naming" /\ Unique => \A k \in 1..Len(unit) : k < at.i => ~Twice(unit[k])
    /\ HasUnit /\ stage # "naming" /\ Unique => \A k \in 1..Len(unit) : ~Twice(unit[k])

(* Until names are resolved no signature is.                               *)
EarlyInv == ~HasNames => chain = << >> /\ verdict \cap SigCodes = {}

MeaningInv ==
    /\ OnceInv /\ EarlyInv
    /\ HasNames /\ Unique /\ ScopesAgree => Meaning

-----------------------------------------------------------------------------
(* What a mention names depends on the program and the unit only.          *)
LEMMA SameScopes ==
  ASSUME program' = program, unit' = unit
  PROVE  /\ \A m : Decls(m)' = Decls(m) /\ Mentions(m)' = Mentions(m)
         /\ \A m, ref : Seen(m, ref)' = Seen(m, ref) /\ Meant(m, ref)' = Meant(m, ref)
         /\ \A s : DeclOf(s)' = DeclOf(s) /\ Kind(s)' = Kind(s) /\ Target(s)' = Target(s)
         /\ Elements(unit)' = Elements(unit) /\ Aliases' = Aliases
         /\ \A S : Circular(S)' <=> Circular(S)
         /\ \A m, S : Followed(m, S)' <=> Followed(m, S)
         /\ ScopesAgree' <=> ScopesAgree
         /\ \A k, d : Declares(k, d)' = Declares(k, d) /\ Refs(k, d)' = Refs(k, d)
         /\ \A k, d, r : Ref(k, d, r)' = Ref(k, d, r)
<1>1. \A m : Declared(m)' = Declared(m) /\ Imports(m)' = Imports(m) /\ Decls(m)' = Decls(m)
  BY SameDeclarations DEF Decls
<1>2. \A s : DeclOf(s)' = DeclOf(s) /\ Kind(s)' = Kind(s) /\ Target(s)' = Target(s)
  BY <1>1 DEF DeclOf, Kind, Target
<1>3. Elements(unit)' = Elements(unit)
  BY DEF Elements
<1>4. Aliases' = Aliases
  BY <1>1, <1>2, <1>3 DEF Aliases
<1>5. \A m : Mentions(m)' = Mentions(m)
  BY <1>1 DEF Mentions, Elements
<1>6. \A m, n : Origins(m, n)' = Origins(m, n)
  BY <1>1 DEF Origins
<1>7. \A m, ref : Seen(m, ref)' = Seen(m, ref)
  BY <1>1, <1>6 DEF Seen
<1>8. \A m, ref : Meant(m, ref)' = Meant(m, ref)
  BY <1>7 DEF Meant
<1>9. \A S : Circular(S)' <=> Circular(S)
  BY <1>2, <1>7 DEF Circular
<1>10. \A m, S : Followed(m, S)' <=> Followed(m, S)
  BY <1>2, <1>4, <1>5, <1>8 DEF Followed
<1>11. ScopesAgree' <=> ScopesAgree
  BY <1>3, <1>4, <1>10 DEF ScopesAgree
<1>12. \A k, d : Declares(k, d)' = Declares(k, d) /\ Refs(k, d)' = Refs(k, d)
  BY <1>1 DEF Declares, Refs
<1>13. \A k, d, r : Ref(k, d, r)' = Ref(k, d, r)
  BY <1>1 DEF Ref
<1> QED
  BY <1>1, <1>2, <1>3, <1>4, <1>5, <1>7, <1>8, <1>9, <1>10, <1>11, <1>12, <1>13

(* A mention sees at most one declaration, of a module of the unit.        *)
LEMMA SeenFacts ==
  ASSUME LoadInv, HasUnit, NEW m \in Elements(unit), NEW ref
  PROVE  /\ m \in Modules
         /\ \A s \in Seen(m, ref) :
               /\ s = <<s[1], s[2]>> /\ s[2] = ref.name /\ s[1] \in Elements(unit)
               /\ s[1] \in Modules /\ s[2] \in Declared(s[1]) /\ s[2] \in Names
               /\ Kind(s) \in {"type", "alias", "value"}
         /\ \A s, t \in Seen(m, ref) : s = t
<1>1. /\ m \in Modules /\ Imports(m) \subseteq Elements(unit) /\ Elements(unit) \subseteq Modules
  BY UnitFacts
<1>2. ASSUME NEW s \in Seen(m, ref)
      PROVE  s = <<s[1], s[2]>> /\ s[2] = ref.name /\ s[1] \in Elements(unit) /\ s[2] \in Declared(s[1])
  <2>1. CASE ref.path \in {"", m}
    <3>1. s \in Origins(m, ref.name) \X {ref.name}
      BY <1>2, <2>1 DEF Seen
    <3>2. s = <<s[1], s[2]>> /\ s[1] \in Origins(m, ref.name) /\ s[2] = ref.name
      BY <3>1
    <3>3. CASE ref.name \in Declared(m)
      BY <3>2, <3>3 DEF Origins
    <3>4. CASE ref.name \notin Declared(m)
      BY <1>1, <3>2, <3>4 DEF Origins
    <3> QED
      BY <3>3, <3>4
  <2>2. CASE ref.path \notin {"", m}
    <3>1. s \in Imports(m) \X {ref.name} /\ s[2] \in Declared(s[1])
      BY <1>2, <2>2 DEF Seen
    <3> QED
      BY <1>1, <3>1
  <2> QED
    BY <2>1, <2>2
<1>3. ASSUME NEW s \in Seen(m, ref)
      PROVE  s[1] \in Modules /\ s[2] \in Names /\ Kind(s) \in {"type", "alias", "value"}
  <2>1. s[1] \in Modules /\ s[2] \in Declared(s[1]) /\ s = <<s[1], s[2]>>
    BY <1>1, <1>2
  <2>2. PICK d \in 1..Len(Decls(s[1])) :
          Decls(s[1])[d].name = s[2] /\ DeclOf(<<s[1], s[2]>>) = Decls(s[1])[d]
    BY <2>1, DeclOfIsDeclared
  <2> QED
    BY <2>1, <2>2, DeclsTyped DEF Kind
<1>4. ASSUME NEW s \in Seen(m, ref), NEW t \in Seen(m, ref) PROVE s = t
  <2>1. s[1] = t[1]
    <3>1. CASE ref.path \in {"", m}
      BY <1>4, <3>1 DEF Seen
    <3>2. CASE ref.path \notin {"", m}
      BY <1>4, <3>2 DEF Seen
    <3> QED
      BY <3>1, <3>2
  <2> QED
    BY <1>2, <2>1
<1> QED
  BY <1>1, <1>2, <1>3, <1>4

(* Once names are resolved, the tables tell what a mention sees.           *)
LEMMA SymbolsAreSeen ==
  ASSUME LoadInv, NameInv, HasNames, NEW m \in Elements(unit), NEW ref
  PROVE  Symbols(m, ref) = Seen(m, ref)
<1>1. HasUnit /\ stage # "naming" /\ stage # "opening"
  BY DEF HasNames
<1>2. PICK k \in 1..Len(unit) : m = unit[k]
  BY <1>1, UnitFacts
<1>3. m \in Modules /\ Imports(m) \subseteq Elements(unit) /\ OpenOf(k) = Imports(m)
  BY <1>1, <1>2, UnitFacts DEF OpenOf
<1>4. NamesOf(m, Imports(m), imported[m], visible[m], ambiguous[m])
  BY <1>1, <1>2, <1>3 DEF NameInv
<1>5. \A x \in Elements(unit) : locals[x] = Declared(x)
  BY <1>1, UnitFacts DEF NameInv
<1>6. CASE ref.path \in {"", m}
  <2> DEFINE n == ref.name
             O == Origins(m, n)
  <2>1. O = IF n \in Declared(m) THEN {m} ELSE From(Imports(m), n)
    BY DEF Origins, From
  <2>2. /\ n \in DOMAIN visible[m] <=> n \in Declared(m) \/ \E x \in Imports(m) : From(Imports(m), n) = {x}
        /\ n \in DOMAIN visible[m] => IF n \in Declared(m) THEN visible[m][n] = m
                                      ELSE From(Imports(m), n) = {visible[m][n]}
    BY <1>4 DEF NamesOf
  <2>3. n \in DOMAIN visible[m] => O = {visible[m][n]}
    BY <2>1, <2>2
  <2>4. \A x \in O : O = {x} => n \in DOMAIN visible[m]
    BY <2>1, <2>2 DEF From
  <2>5. Seen(m, ref) = {s \in O \X {n} : O = {s[1]}}
    BY <1>6 DEF Seen
  <2>6. Symbols(m, ref) = {<<x, n>> : x \in {visible[m][c] : c \in DOMAIN visible[m] \cap {n}}}
    BY <1>6 DEF Symbols
  <2> HIDE DEF O
  <2>7. CASE n \in DOMAIN visible[m]
    <3>1. Symbols(m, ref) = {<<visible[m][n], n>>}
      BY <2>6, <2>7
    <3>2. Seen(m, ref) = {<<visible[m][n], n>>}
      BY <2>3, <2>5, <2>7
    <3> QED
      BY <3>1, <3>2
  <2>8. CASE n \notin DOMAIN visible[m]
    <3>1. Symbols(m, ref) = {}
      BY <2>6, <2>8
    <3>2. Seen(m, ref) = {}
      BY <2>4, <2>5, <2>8
    <3> QED
      BY <3>1, <3>2
  <2> QED
    BY <2>7, <2>8
<1>7. CASE ref.path \notin {"", m}
  <2>1. Symbols(m, ref) = {<<x, ref.name>> : x \in {y \in Imports(m) : y = ref.path /\ ref.name \in Declared(y)}}
    <3>1. {y \in Imports(m) : y = ref.path /\ ref.name \in locals[y]}
          = {y \in Imports(m) : y = ref.path /\ ref.name \in Declared(y)}
      BY <1>3, <1>5
    <3> QED
      BY <1>7, <3>1 DEF Symbols
  <2>2. Seen(m, ref) = {s \in Imports(m) \X {ref.name} : s[1] = ref.path /\ s[2] \in Declared(s[1])}
    BY <1>7 DEF Seen
  <2> QED
    BY <2>1, <2>2
<1> QED
  BY <1>6, <1>7

(* An alias of the unit has one target, which its module mentions.         *)
LEMMA AliasFacts ==
  ASSUME LoadInv, HasUnit, NEW a \in Aliases
  PROVE  /\ a = <<a[1], a[2]>> /\ a[1] \in Elements(unit) /\ a[2] \in Names /\ Kind(a) = "alias"
         /\ Target(a) \in Mentions(a[1])
<1>1. a = <<a[1], a[2]>> /\ a[1] \in Elements(unit) /\ a[2] \in Names /\ Kind(a) = "alias"
      /\ a[2] \in Declared(a[1])
  BY DEF Aliases
<1>2. a[1] \in Modules
  BY <1>1, UnitFacts
<1>3. PICK d \in 1..Len(Decls(a[1])) :
        Decls(a[1])[d].name = a[2] /\ DeclOf(<<a[1], a[2]>>) = Decls(a[1])[d]
  BY <1>1, <1>2, DeclOfIsDeclared
<1>4. DeclOf(a) = Decls(a[1])[d] /\ d \in DOMAIN Decls(a[1]) /\ Decls(a[1])[d].kind = "alias"
      /\ Target(a) = Decls(a[1])[d].refs[1]
  BY <1>1, <1>2, <1>3, DeclsTyped DEF Kind, Target
<1>5. Len(Decls(a[1])[d].refs) = 1
  BY <1>2, <1>4, WordsAssumption DEF LoadInv, LoadTypes, Decls
<1>6. 1 \in DOMAIN Decls(a[1])[d].refs
  BY <1>2, <1>3, <1>5, DeclsTyped
<1>7. Target(a) \in Elements(Decls(a[1])[d].refs)
  BY <1>4, <1>6 DEF Elements
<1> QED
  BY <1>1, <1>4, <1>7 DEF Mentions

-----------------------------------------------------------------------------
(* What a mention denotes, by what it names.                               *)
LEMMA DenotedCases ==
  ASSUME LoadInv, SigInv, HasUnit, NEW m \in Elements(unit), NEW ref
  PROVE  /\ ref.path = "" /\ ref.name \in Builtins =>
               Meant(m, ref) = {} /\ Denoted(m, ref) = Wrapped(Type(Builtin(ref.name)), ref)
         /\ ~(ref.path = "" /\ ref.name \in Builtins) =>
               /\ Meant(m, ref) = Seen(m, ref)
               /\ Meant(m, ref) = {} => Denoted(m, ref) = NoType
         /\ \A s \in Meant(m, ref) :
               /\ Meant(m, ref) = {s}
               /\ Denoted(m, ref) = Wrapped(IF Kind(s) = "type" THEN Type(s)
                                            ELSE IF s \in Typed THEN aliasType[s] ELSE NoType, ref)
<1> DEFINE w(t) == IF t = NoType \/ (t = Type(Builtin("void")) /\ ref.null /\ ~ref.ptr) THEN NoType
                   ELSE [base |-> t.base, ptr |-> t.ptr \/ ref.ptr]
<1>1. ASSUME NEW t, KnownType(t) PROVE w(t) = Wrapped(t, ref)
  <2>1. t = [base |-> t.base, ptr |-> t.ptr]
    BY <1>1 DEF KnownType
  <2>2. [t EXCEPT !.ptr = @ \/ ref.ptr] = [base |-> t.base, ptr |-> t.ptr \/ ref.ptr]
    BY <2>1
  <2> QED
    BY <2>2 DEF Wrapped
<1>2. \A s, t \in Seen(m, ref) : s = t
  BY SeenFacts
<1>3. ASSUME ref.path = "", ref.name \in Builtins
      PROVE  Meant(m, ref) = {} /\ Denoted(m, ref) = Wrapped(Type(Builtin(ref.name)), ref)
  <2>1. Denoted(m, ref) = w(Type(Builtin(ref.name)))
    BY <1>3 DEF Denoted
  <2> QED
    BY <1>1, <1>3, <2>1, KnownTypes DEF Meant
<1>4. ASSUME ~(ref.path = "" /\ ref.name \in Builtins), Seen(m, ref) = {}
      PROVE  Denoted(m, ref) = NoType
  <2>1. Denoted(m, ref) = w(NoType)
    BY <1>4 DEF Denoted
  <2> QED
    BY <2>1
<1>5. ASSUME NEW s \in Meant(m, ref)
      PROVE  /\ Meant(m, ref) = {s}
             /\ Denoted(m, ref) = Wrapped(IF Kind(s) = "type" THEN Type(s)
                                          ELSE IF s \in Typed THEN aliasType[s] ELSE NoType, ref)
  <2>1. ~(ref.path = "" /\ ref.name \in Builtins) /\ s \in Seen(m, ref) /\ Meant(m, ref) = Seen(m, ref)
    BY <1>5 DEF Meant
  <2>2. (CHOOSE x \in Seen(m, ref) : TRUE) = s
    <3>1. (CHOOSE x \in Seen(m, ref) : TRUE) \in Seen(m, ref)
      BY <2>1
    <3> QED
      BY <1>2, <2>1, <3>1
  <2> DEFINE u == IF Kind(s) = "type" THEN Type(s)
                  ELSE IF s \in Typed THEN aliasType[s] ELSE NoType
  <2>3. Seen(m, ref) # {}
    BY <2>1
  <2>4. Denoted(m, ref) = w(u)
    BY <2>1, <2>2, <2>3 DEF Denoted, Typed
  <2>5. KnownType(u)
    <3>1. CASE Kind(s) = "type"
      BY <2>1, <3>1, SeenFacts, KnownTypes DEF UnitTypes
    <3>2. CASE Kind(s) # "type"
      BY <3>2, KnownTypes DEF SigInv, Typed
    <3> QED
      BY <3>1, <3>2
  <2>6. Denoted(m, ref) = Wrapped(u, ref)
    BY <1>1, <2>4, <2>5
  <2> QED
    BY <1>2, <2>1, <2>6
<1> QED
  BY <1>3, <1>4, <1>5 DEF Meant

(* What has no type is no type in any wrapping; a mention that denotes a   *)
(* type waits for nothing.                                                 *)
LEMMA DenotedTypes ==
  ASSUME LoadInv, SigInv, HasUnit, NEW m \in Elements(unit), NEW ref
  PROVE  Denoted(m, ref) # NoType => \A s \in Meant(m, ref) : Kind(s) = "alias" => s \in Typed
<1> SUFFICES ASSUME NEW s \in Meant(m, ref), Kind(s) = "alias", s \notin Typed
             PROVE  Denoted(m, ref) = NoType
  OBVIOUS
<1>1. Denoted(m, ref) = Wrapped(NoType, ref)
  BY DenotedCases
<1> QED
  BY <1>1 DEF Wrapped

(* A mention denotes the same when the aliases it names get no type.       *)
LEMMA SameDenoted ==
  ASSUME program' = program, unit' = unit,
         \A a \in Typed : a \in Typed' /\ aliasType'[a] = aliasType[a],
         NEW m, NEW ref, \A s \in Meant(m, ref) : s \in Typed' => s \in Typed
  PROVE  Denoted(m, ref)' = Denoted(m, ref)
<1>1. /\ Seen(m, ref)' = Seen(m, ref) /\ Meant(m, ref)' = Meant(m, ref)
      /\ \A s : Kind(s)' = Kind(s)
  BY SameScopes
<1> DEFINE s == CHOOSE x \in Seen(m, ref) : TRUE
           t == IF ref.path = "" /\ ref.name \in Builtins THEN Type(Builtin(ref.name))
                ELSE IF Seen(m, ref) = {} THEN NoType
                ELSE IF Kind(s) = "type" THEN Type(s)
                ELSE IF s \in DOMAIN aliasType THEN aliasType[s] ELSE NoType
<1>2. t' = t
  <2>1. s' = s
    BY <1>1
  <2>2. ~(ref.path = "" /\ ref.name \in Builtins) /\ Seen(m, ref) # {} => s \in Meant(m, ref)
    BY DEF Meant
  <2>3. ~(ref.path = "" /\ ref.name \in Builtins) /\ Seen(m, ref) # {} =>
            (s \in DOMAIN aliasType' <=> s \in DOMAIN aliasType)
            /\ (s \in DOMAIN aliasType => aliasType'[s] = aliasType[s])
    BY <2>2 DEF Typed
  <2> HIDE DEF s
  <2> QED
    BY <1>1, <2>1, <2>3 DEF Type, Builtin, NoType, Builtins
<1>3. Denoted(m, ref) = IF t = NoType \/ (t = Type(Builtin("void")) /\ ref.null /\ ~ref.ptr) THEN NoType
                        ELSE [base |-> t.base, ptr |-> t.ptr \/ ref.ptr]
  BY DEF Denoted
<1>4. Denoted(m, ref)' = IF t' = NoType \/ (t' = Type(Builtin("void")) /\ ref.null /\ ~ref.ptr) THEN NoType
                         ELSE [base |-> t'.base, ptr |-> t'.ptr \/ ref.ptr]
  BY DEF Denoted, Type, Builtin, NoType
<1> HIDE DEF t
<1> QED
  BY <1>2, <1>3, <1>4

(* The lost aliases are hopeless together.                                 *)
LEMMA LostIsHopeless ==
  /\ Lost \in SUBSET Aliases /\ Hopeless(Lost)
  /\ \A F \in SUBSET Aliases : Hopeless(F) => F \subseteq Lost
<1>1. \A F \in SUBSET Aliases : Hopeless(F) => F \subseteq Lost
  BY DEF Lost
<1>2. ASSUME NEW a \in Lost
      PROVE  a \notin Typed /\ Denoted(a[1], Target(a)) = NoType /\ Waits(a[1], Target(a), Lost)
  <2>1. PICK F \in SUBSET Aliases : Hopeless(F) /\ a \in F
    BY <1>2 DEF Lost
  <2>2. F \subseteq Lost
    BY <1>1, <2>1
  <2> QED
    BY <2>1, <2>2 DEF Hopeless, Waits
<1>3. Lost \in SUBSET Aliases
  BY DEF Lost
<1> QED
  BY <1>1, <1>2, <1>3 DEF Hopeless

(* An alias whose target is no type for good is lost.                      *)
LEMMA OneMoreLost ==
  ASSUME NEW a \in Aliases, a \notin Typed, Denoted(a[1], Target(a)) = NoType, Final(a[1], Target(a))
  PROVE  a \in Lost
<1> DEFINE F == Lost \cup {a}
<1>1. F \in SUBSET Aliases
  BY LostIsHopeless
<1>2. Hopeless(F)
  BY LostIsHopeless DEF Hopeless, Waits, Final
<1> QED
  BY <1>1, <1>2, LostIsHopeless

(* An alias that gets a type was not lost, and what was final stays so.    *)
LEMMA FinalStays ==
  ASSUME program' = program, unit' = unit,
         \/ aliasType' = aliasType
         \/ \E b \in Aliases \ Typed : /\ Denoted(b[1], Target(b)) # NoType
                                       /\ \E v : aliasType' = Extend(aliasType, {b}, v)
  PROVE  /\ Lost \subseteq Lost'
         /\ \A m, ref : Final(m, ref) => Final(m, ref)' /\ Denoted(m, ref)' = Denoted(m, ref)
<1>1. /\ \A m, ref : Meant(m, ref)' = Meant(m, ref)
      /\ \A s : Kind(s)' = Kind(s) /\ Target(s)' = Target(s)
      /\ Aliases' = Aliases
  BY SameScopes
<1>2. /\ \A a \in Typed : a \in Typed' /\ aliasType'[a] = aliasType[a]
      /\ \A b \in Typed' \ Typed : b \in Aliases /\ Denoted(b[1], Target(b)) # NoType
  BY DEF Typed, Extend
<1>3. \A b \in Aliases : Kind(b) = "alias"
  BY DEF Aliases
<1>4. ASSUME NEW F, Hopeless(F), NEW m, NEW ref, Waits(m, ref, F)
      PROVE  /\ Waits(m, ref, F)'
             /\ Denoted(m, ref)' = Denoted(m, ref)
  <2>1. \A s \in Meant(m, ref) : s \in Typed' => s \in Typed
    BY <1>2, <1>3, <1>4 DEF Hopeless, Waits
  <2>2. Denoted(m, ref)' = Denoted(m, ref)
    BY <1>2, <2>1, SameDenoted
  <2> QED
    BY <1>1, <1>2, <1>4, <2>2 DEF Waits
<1>5. ASSUME NEW F, Hopeless(F) PROVE Hopeless(F)'
  <2>1. ASSUME NEW a \in F
        PROVE  /\ a \notin Typed'
               /\ Denoted(a[1], Target(a))' = NoType
               /\ Waits(a[1], Target(a), F)'
    <3>1. a \notin Typed /\ Denoted(a[1], Target(a)) = NoType /\ Waits(a[1], Target(a), F)
      BY <1>5 DEF Hopeless
    <3>2. PICK ref : ref = Target(a)
      OBVIOUS
    <3>3. Target(a)' = ref
      BY <1>1, <3>2
    <3>4. Denoted(a[1], ref)' = NoType /\ Waits(a[1], ref, F)'
      BY <1>4, <1>5, <3>1, <3>2
    <3>5. Denoted(a[1], Target(a))' = Denoted(a[1], ref)'
      BY <3>3 DEF Denoted
    <3>6. Waits(a[1], Target(a), F)' = Waits(a[1], ref, F)'
      BY <3>3 DEF Waits
    <3> QED
      BY <1>2, <3>1, <3>4, <3>5, <3>6
  <2> QED
    BY <2>1 DEF Hopeless, NoType, Type, Builtin
<1>6. Lost \subseteq Lost'
  BY <1>1, <1>5 DEF Lost
<1>7. ASSUME NEW m, NEW ref, Final(m, ref)
      PROVE  Final(m, ref)' /\ Denoted(m, ref)' = Denoted(m, ref)
  <2>1. Waits(m, ref, Lost) /\ Hopeless(Lost)
    BY <1>7, LostIsHopeless DEF Final
  <2>2. Denoted(m, ref)' = Denoted(m, ref)
    BY <1>4, <2>1
  <2>3. \A s \in Meant(m, ref) : Kind(s) = "alias" => s \in Lost' \cup Typed'
    BY <1>2, <1>6, <2>1 DEF Waits
  <2> QED
    BY <1>1, <2>2, <2>3 DEF Final, Waits
<1> QED
  BY <1>6, <1>7

-----------------------------------------------------------------------------
(* A state in which mentions are resolved, or have been.                   *)
Resolving ==
    /\ LoadInv /\ NameInv /\ SigInv /\ OnceInv
    /\ HasNames /\ Unique /\ ScopesAgree /\ Meaning

(* Each declaration of the unit is the one of its name.                    *)
LEMMA DeclarationFacts ==
  ASSUME Resolving
  PROVE  /\ HasUnit /\ HasNames
         /\ Len(unit) \in Nat /\ Elements(unit) = {unit[k] : k \in 1..Len(unit)}
         /\ \A k \in 1..Len(unit) : unit[k] \in Modules /\ Len(Decls(unit[k])) \in Nat
         /\ \A k \in 1..Len(unit) : \A d \in 1..Len(Decls(unit[k])) :
               /\ Len(Decls(unit[k])[d].refs) \in Nat
               /\ DOMAIN Decls(unit[k])[d].refs = 1..Len(Decls(unit[k])[d].refs)
               /\ DeclOf(Declares(k, d)) = Decls(unit[k])[d]
               /\ Kind(Declares(k, d)) = Decls(unit[k])[d].kind
               /\ Kind(Declares(k, d)) \in {"type", "alias", "value"}
               /\ \A r \in Refs(k, d) : Ref(k, d, r) \in Mentions(unit[k])
               /\ Decls(unit[k])[d].kind = "alias" =>
                     /\ Declares(k, d) \in Aliases /\ Len(Decls(unit[k])[d].refs) = 1
                     /\ Target(Declares(k, d)) = Ref(k, d, 1)
         /\ \A k, l \in 1..Len(unit) : \A d \in 1..Len(Decls(unit[k])) :
               \A e \in 1..Len(Decls(unit[l])) : Declares(k, d) = Declares(l, e) => k = l /\ d = e
<1>1. HasUnit /\ HasNames
  BY DEF Resolving, HasUnit, HasNames
<1>2. /\ Len(unit) \in Nat /\ Elements(unit) = {unit[k] : k \in 1..Len(unit)}
      /\ \A k, l \in 1..Len(unit) : unit[k] = unit[l] => k = l
      /\ \A k \in 1..Len(unit) : unit[k] \in Modules
  BY <1>1, UnitFacts DEF Resolving
<1>3. \A k \in 1..Len(unit) : ~Twice(unit[k])
  BY <1>1 DEF Resolving, OnceInv, HasNames
<1>4. ASSUME NEW k \in 1..Len(unit)
      PROVE  /\ Len(Decls(unit[k])) \in Nat /\ DOMAIN Decls(unit[k]) = 1..Len(Decls(unit[k]))
             /\ \A d \in 1..Len(Decls(unit[k])) :
                   /\ Decls(unit[k])[d].name \in Names
                   /\ Decls(unit[k])[d].kind \in {"type", "alias", "value"}
                   /\ Len(Decls(unit[k])[d].refs) \in Nat
                   /\ DOMAIN Decls(unit[k])[d].refs = 1..Len(Decls(unit[k])[d].refs)
  BY <1>2, DeclsTyped DEF Resolving
<1>5. ASSUME NEW k \in 1..Len(unit), NEW d \in 1..Len(Decls(unit[k]))
      PROVE  /\ DeclOf(Declares(k, d)) = Decls(unit[k])[d]
             /\ Kind(Declares(k, d)) = Decls(unit[k])[d].kind
             /\ \A r \in Refs(k, d) : Ref(k, d, r) \in Mentions(unit[k])
             /\ Decls(unit[k])[d].kind = "alias" =>
                   /\ Declares(k, d) \in Aliases /\ Len(Decls(unit[k])[d].refs) = 1
                   /\ Target(Declares(k, d)) = Ref(k, d, 1)
  <2> DEFINE n == Decls(unit[k])[d].name
  <2>1. n \in Declared(unit[k]) /\ n \in Names
    BY <1>4 DEF Declared
  <2>2. PICK e \in 1..Len(Decls(unit[k])) :
          Decls(unit[k])[e].name = n /\ DeclOf(<<unit[k], n>>) = Decls(unit[k])[e]
    BY <1>2, <2>1, DeclOfIsDeclared DEF Resolving
  <2>3. e = d
    BY <1>3, <1>4, <2>2 DEF Twice
  <2>4. DeclOf(Declares(k, d)) = Decls(unit[k])[d] /\ Kind(Declares(k, d)) = Decls(unit[k])[d].kind
    BY <2>2, <2>3 DEF Declares, Kind
  <2>5. \A r \in Refs(k, d) : Ref(k, d, r) \in Mentions(unit[k])
    BY <1>4 DEF Refs, Ref, Mentions, Elements
  <2>6. ASSUME Decls(unit[k])[d].kind = "alias"
        PROVE  /\ Declares(k, d) \in Aliases /\ Len(Decls(unit[k])[d].refs) = 1
               /\ Target(Declares(k, d)) = Ref(k, d, 1)
    <3>1. Len(Decls(unit[k])[d].refs) = 1
      BY <1>2, <1>4, <2>6, WordsAssumption DEF Resolving, LoadInv, LoadTypes, Decls
    <3>2. Declares(k, d) = <<unit[k], n>> /\ unit[k] \in Elements(unit)
      BY <1>2 DEF Declares
    <3>3. Declares(k, d) \in Aliases
      BY <2>1, <2>4, <2>6, <3>2 DEF Aliases
    <3> QED
      BY <2>4, <3>1, <3>3 DEF Target, Ref
  <2> QED
    BY <2>4, <2>5, <2>6
<1>6. ASSUME NEW k \in 1..Len(unit), NEW l \in 1..Len(unit), NEW d \in 1..Len(Decls(unit[k])),
             NEW e \in 1..Len(Decls(unit[l])), Declares(k, d) = Declares(l, e)
      PROVE  k = l /\ d = e
  <2>1. k = l /\ Decls(unit[k])[d].name = Decls(unit[l])[e].name
    BY <1>2, <1>6 DEF Declares
  <2> QED
    BY <1>3, <1>4, <2>1 DEF Twice
<1> QED
  BY <1>1, <1>2, <1>4, <1>5, <1>6

(* The declaration at hand.                                                *)
LEMMA DeclFacts ==
  ASSUME Resolving, AtDecl
  PROVE  /\ job \in [i : Nat \ {0}, d : Nat \ {0}, r : Nat]
         /\ job.i \in 1..Len(unit) /\ job.d \in 1..Len(Decls(unit[job.i]))
         /\ Env = unit[job.i] /\ Env \in Elements(unit)
         /\ Decl = Decls(unit[job.i])[job.d] /\ Key = Declares(job.i, job.d)
         /\ Len(Decl.refs) \in Nat /\ DOMAIN Decl.refs = 1..Len(Decl.refs)
         /\ DeclOf(Key) = Decl /\ Kind(Key) = Decl.kind
         /\ \A r \in 1..Len(Decl.refs) : Decl.refs[r] \in Mentions(Env)
         /\ Decl.kind = "alias" =>
               Key \in Aliases /\ Key[1] = Env /\ Len(Decl.refs) = 1 /\ Target(Key) = Decl.refs[1]
<1>1. job \in [i : Nat \ {0}, d : Nat \ {0}, r : Nat]
  BY DEF Resolving, SigInv
<1>2. job.i \in 1..Len(unit) /\ Env = unit[job.i] /\ Env \in Elements(unit)
  BY <1>1, DeclarationFacts DEF AtDecl, Working, Env
<1>3. job.d \in 1..Len(Decls(unit[job.i]))
  BY <1>1, <1>2, DeclarationFacts DEF AtDecl
<1>4. Decl = Decls(unit[job.i])[job.d] /\ Key = Declares(job.i, job.d) /\ Key[1] = Env
  BY <1>2 DEF Decl, Key, Declares
<1>5. \A r \in 1..Len(Decl.refs) : Decl.refs[r] \in Mentions(Env)
  BY <1>2, <1>3, <1>4, DeclarationFacts DEF Refs, Ref
<1> QED
  BY <1>1, <1>2, <1>3, <1>4, <1>5, DeclarationFacts DEF Ref

(* The mention at hand means here what it means where it is written.       *)
LEMMA AskedFacts ==
  ASSUME Resolving, AtRef
  PROVE  /\ chain \in Seq(Aliases) /\ Len(chain) \in Nat
         /\ chain # << >> => /\ Len(chain) \in Nat \ {0} /\ Last(chain) = chain[Len(chain)]
                             /\ Last(chain) \in Aliases /\ Home = Last(chain)[1] /\ Asked = Target(Last(chain))
         /\ chain = << >> => Home = Env /\ Asked = Decl.refs[job.r]
         /\ Env \in Elements(unit) /\ Home \in Elements(unit) /\ Asked \in Mentions(Home)
         /\ Meant(Env, Asked) = Meant(Home, Asked)
         /\ \A S \in SUBSET Aliases : Followed(Env, S) /\ Elements(chain) \subseteq S
                                      => Meant(Home, Asked) \cap Aliases \subseteq S
         /\ Asking /\ ~IsBuiltin => Found = Meant(Home, Asked)
<1>1. /\ AtDecl /\ job.r \in DOMAIN Decl.refs /\ HasUnit /\ HasNames
      /\ LoadInv /\ NameInv /\ ChainInv
  BY DeclarationFacts DEF AtRef, Resolving, Meaning
<1>2. chain \in Seq(Aliases) /\ \E S \in SUBSET Aliases : Followed(Env, S) /\ Elements(chain) \subseteq S
  BY <1>1 DEF ChainInv, ChainOf
<1>3. Env \in Elements(unit) /\ Decl.refs[job.r] \in Mentions(Env)
  BY <1>1, DeclFacts
<1>4. Len(chain) \in Nat
  BY <1>2, LenProperties
<1>5. ASSUME chain # << >>
      PROVE  /\ Len(chain) \in Nat \ {0} /\ Last(chain) = chain[Len(chain)] /\ Last(chain) \in Aliases
             /\ Last(chain) \in Elements(chain) /\ Home = Last(chain)[1] /\ Asked = Target(Last(chain))
  <2>1. Len(chain) \in Nat \ {0} /\ Last(chain) = chain[Len(chain)] /\ Last(chain) \in Aliases
    BY <1>2, <1>5, FrontProperties
  <2>2. Len(chain) \in DOMAIN chain
    BY <1>2, <2>1, LenProperties
  <2> QED
    BY <1>5, <2>1, <2>2 DEF Home, Asked, Elements
<1>6. ASSUME chain = << >> PROVE Home = Env /\ Asked = Decl.refs[job.r]
  BY <1>6 DEF Home, Asked
<1>7. Home \in Elements(unit) /\ Asked \in Mentions(Home)
  BY <1>1, <1>3, <1>5, <1>6, AliasFacts
<1>8. Meant(Env, Asked) = Meant(Home, Asked)
  BY <1>2, <1>5, <1>6 DEF Followed
<1>9. ASSUME NEW S \in SUBSET Aliases, Followed(Env, S), Elements(chain) \subseteq S
      PROVE  Meant(Home, Asked) \cap Aliases \subseteq S
  <2>1. CASE chain = << >>
    BY <1>3, <1>6, <1>9, <2>1 DEF Followed
  <2>2. CASE chain # << >>
    BY <1>5, <1>8, <1>9, <2>2 DEF Followed
  <2> QED
    BY <2>1, <2>2
<1>10. ASSUME Asking, ~IsBuiltin PROVE Found = Meant(Home, Asked)
  <2>1. Found = Symbols(Env, Asked)
    BY <1>10 DEF Found
  <2>2. Symbols(Env, Asked) = Seen(Env, Asked)
    BY <1>1, <1>3, SymbolsAreSeen
  <2>3. Meant(Env, Asked) = Seen(Env, Asked)
    BY <1>10 DEF Meant, IsBuiltin
  <2> QED
    BY <1>8, <2>1, <2>2, <2>3
<1> QED
  BY <1>2, <1>3, <1>4, <1>5, <1>6, <1>7, <1>8, <1>9, <1>10

(* What was settled stays so while answers come and errors add up.         *)
LEMMA SettledStays ==
  ASSUME program' = program, unit' = unit, verdict \subseteq verdict',
         \A m, ref : Final(m, ref) => Final(m, ref)' /\ Denoted(m, ref)' = Denoted(m, ref)
  PROVE  /\ \A m, ref : Settled(m, ref) => Settled(m, ref)'
         /\ \A m, ref : Fails(m, ref) => Fails(m, ref)'
<1>1. /\ Aliases' = Aliases /\ \A m, ref : Meant(m, ref)' = Meant(m, ref)
      /\ \A S : Circular(S)' <=> Circular(S)
  BY SameScopes
<1>2. NoType' = NoType
  BY DEF NoType, Type, Builtin
<1>3. ASSUME NEW m, NEW ref, Settled(m, ref) PROVE Settled(m, ref)'
  <2>1. /\ Final(m, ref)' /\ Denoted(m, ref)' = Denoted(m, ref)
        /\ Denoted(m, ref) = NoType => verdict \cap SigCodes # {}
        /\ \A S \in SUBSET Aliases : Circular(S) /\ Meant(m, ref) \cap S # {} => "SIG-0020" \in verdict
    BY <1>3 DEF Settled
  <2> QED
    BY <1>1, <1>2, <2>1 DEF Settled, SigCodes, SigErrors
<1>4. \A m, ref : Fails(m, ref) => Fails(m, ref)'
  BY <1>2 DEF Fails
<1> QED
  BY <1>3, <1>4

(* A step within a mention keeps what the others have settled.             *)
LEMMA OthersStay ==
  ASSUME Meaning, UNCHANGED <<program, unit, job, holds>>, verdict \subseteq verdict',
         \A m, ref : Final(m, ref) => Final(m, ref)' /\ Denoted(m, ref)' = Denoted(m, ref)
  PROVE  SettledInv' /\ HoldsInv'
<1>1. /\ \A k, d, r : Resolved(k, d, r)' <=> Resolved(k, d, r)
      /\ \A k, d : Entered(k, d)' <=> Entered(k, d)
      /\ Types' = Types
  BY DEF Resolved, Entered, Types
<1>2. /\ \A m : Decls(m)' = Decls(m)
      /\ \A k, d : Declares(k, d)' = Declares(k, d) /\ Refs(k, d)' = Refs(k, d)
      /\ \A k, d, r : Ref(k, d, r)' = Ref(k, d, r)
  BY SameScopes
<1>3. \A m, ref : Settled(m, ref) => Settled(m, ref)'
  BY SettledStays
<1>4. ASSUME NEW k \in 1..Len(unit), NEW d \in 1..Len(Decls(unit[k])), NEW r \in Refs(k, d),
             Resolved(k, d, r)
      PROVE  /\ Settled(unit[k], Ref(k, d, r))'
             /\ Denoted(unit[k], Ref(k, d, r))' = Denoted(unit[k], Ref(k, d, r))
  <2>1. PICK m, ref : m = unit[k] /\ ref = Ref(k, d, r)
    OBVIOUS
  <2>2. Settled(m, ref)
    BY <1>4, <2>1 DEF Meaning, SettledInv
  <2>3. Settled(m, ref)' /\ Denoted(m, ref)' = Denoted(m, ref)
    BY <1>3, <2>2 DEF Settled
  <2>4. m = unit[k]' /\ ref = Ref(k, d, r)'
    BY <1>2, <2>1
  <2> QED
    BY <2>1, <2>3, <2>4
<1>5. SettledInv'
  BY <1>1, <1>2, <1>4 DEF SettledInv
<1>6. ASSUME NEW k \in 1..Len(unit), NEW d \in 1..Len(Decls(unit[k]))
      PROVE  HeldBy(k, d)' = HeldBy(k, d)
  <2> DEFINE R == {x \in Refs(k, d) : Resolved(k, d, x)}
             D(r) == Denoted(unit[k], Ref(k, d, r))
  <2>1. R' = R
    BY <1>1, <1>2
  <2>2. \A r \in R : D(r)' = D(r)
    BY <1>4
  <2>3. HeldBy(k, d) = UNION {ByValue(D(r)) : r \in R}
    BY DEF HeldBy, HeldOf
  <2>4. HeldBy(k, d)' = UNION {ByValue(D(r)') : r \in R'}
    BY DEF HeldBy, HeldOf, ByValue
  <2> HIDE DEF R, D
  <2> QED
    BY <2>1, <2>2, <2>3, <2>4
<1>7. ASSUME NEW k \in 1..Len(unit), NEW d \in 1..Len(Decls(unit[k])),
             Entered(k, d), Decls(unit[k])[d].kind = "type"
      PROVE  holds'[Declares(k, d)] = HeldBy(k, d)'
  BY <1>6, <1>7 DEF Meaning, HoldsInv
<1>8. \A t \in Types : \E k \in 1..Len(unit) : \E d \in 1..Len(Decls(unit[k])) :
         Entered(k, d) /\ Decls(unit[k])[d].kind = "type" /\ t = Declares(k, d)
  BY DEF Meaning, HoldsInv
<1>9. HoldsInv'
  BY <1>1, <1>2, <1>7, <1>8 DEF HoldsInv
<1> QED
  BY <1>5, <1>9

(* The place of the resolution moves with the job and the chain only.      *)
LEMMA SamePlace ==
  ASSUME UNCHANGED <<program, unit, job, stage>>
  PROVE  /\ Env' = Env /\ Decl' = Decl /\ Key' = Key
         /\ (Working' <=> Working) /\ (AtDecl' <=> AtDecl) /\ (AtRef' <=> AtRef)
         /\ chain' = chain => Home' = Home /\ Asked' = Asked
<1>1. /\ \A m : Decls(m)' = Decls(m) /\ \A s : Target(s)' = Target(s)
  BY SameScopes
<1>2. Env' = Env
  BY DEF Env
<1>3. Decl' = Decl
  BY <1>1, <1>2 DEF Decl
<1>4. Key' = Key
  BY <1>2, <1>3 DEF Key
<1>5. (Working' <=> Working) /\ (AtDecl' <=> AtDecl) /\ (AtRef' <=> AtRef)
  BY <1>1, <1>2, <1>3 DEF Working, AtDecl, AtRef
<1>6. ASSUME chain' = chain PROVE Home' = Home /\ Asked' = Asked
  BY <1>1, <1>2, <1>3, <1>6 DEF Home, Asked, Last
<1> QED
  BY <1>2, <1>3, <1>4, <1>5, <1>6

(* So does what a chain may be.                                            *)
LEMMA SameChains ==
  ASSUME UNCHANGED <<program, unit, job, stage>>
  PROVE  /\ \A c : ChainOf(c)' <=> ChainOf(c)
         /\ chain' = chain => (ChainOf(chain)' <=> ChainOf(chain))
<1>1. /\ \A m, ref : Meant(m, ref)' = Meant(m, ref) /\ \A s : Target(s)' = Target(s)
      /\ Aliases' = Aliases
      /\ \A m, S : Followed(m, S)' <=> Followed(m, S)
  BY SameScopes
<1>2. Env' = Env /\ Decl' = Decl /\ Key' = Key
  BY SamePlace
<1>3. ASSUME NEW m, NEW b PROVE Meant(m, Target(b))' = Meant(m, Target(b))
  <2>1. PICK ref : ref = Target(b)
    OBVIOUS
  <2>2. Meant(m, ref)' = Meant(m, ref) /\ Target(b)' = ref
    BY <1>1, <2>1
  <2>3. Meant(m, Target(b))' = Meant(m, ref)'
    BY <2>2 DEF Meant, Seen
  <2> QED
    BY <2>1, <2>2, <2>3
<1>4. Meant(Env, Decl.refs[job.r])' = Meant(Env, Decl.refs[job.r])
  <2>1. PICK m, ref : m = Env /\ ref = Decl.refs[job.r]
    OBVIOUS
  <2>2. m = Env' /\ ref = (Decl.refs[job.r])'
    BY <1>2, <2>1
  <2>3. Meant(Env, Decl.refs[job.r])' = Meant(m, ref)'
    BY <2>2 DEF Meant, Seen
  <2> QED
    BY <1>1, <2>1, <2>3
<1>5. \A S : Followed(Env, S)' <=> Followed(Env, S)
  <2>1. PICK m : m = Env
    OBVIOUS
  <2>2. \A S : Followed(Env, S)' <=> Followed(m, S)'
    BY <1>2, <2>1 DEF Followed, Meant, Seen, Mentions
  <2> QED
    BY <1>1, <2>1, <2>2
<1>6. ASSUME NEW c PROVE ChainOf(c)' <=> ChainOf(c)
  <2>1. Elements(c)' = Elements(c)
    BY DEF Elements
  <2> QED
    BY <1>1, <1>2, <1>3, <1>4, <1>5, <2>1 DEF ChainOf
<1>7. ASSUME chain' = chain PROVE ChainOf(chain)' <=> ChainOf(chain)
  <2>1. PICK c : c = chain
    OBVIOUS
  <2>2. ChainOf(chain)' <=> ChainOf(c)'
    BY <1>7, <2>1 DEF ChainOf, Elements
  <2> QED
    BY <1>6, <2>1, <2>2
<1> QED
  BY <1>6, <1>7

(* Aliases keep their types when no alias gets one.                        *)
LEMMA AliasesStay ==
  ASSUME Meaning, UNCHANGED <<program, unit, aliasType>>
  PROVE  AliasInv'
<1>1. /\ \A s : Target(s)' = Target(s)
      /\ \A S : Circular(S)' <=> Circular(S)
      /\ Aliases' = Aliases /\ Typed' = Typed
  BY SameScopes DEF Typed
<1>2. \A m, ref : Denoted(m, ref)' = Denoted(m, ref)
  BY <1>1, SameDenoted
<1>3. ASSUME NEW a \in Typed
      PROVE  a \in Aliases /\ aliasType'[a] = Denoted(a[1], Target(a))' /\ aliasType'[a] # NoType
  <2>1. PICK ref : ref = Target(a)
    OBVIOUS
  <2>2. Denoted(a[1], Target(a))' = Denoted(a[1], ref)'
    BY <1>1, <2>1 DEF Denoted
  <2>3. a \in Aliases /\ aliasType[a] = Denoted(a[1], ref) /\ aliasType[a] # NoType
    BY <2>1 DEF Meaning, AliasInv
  <2> QED
    BY <1>2, <2>2, <2>3
<1>4. \A S \in SUBSET Aliases : Circular(S) => S \cap Typed = {}
  BY DEF Meaning, AliasInv
<1> QED
  BY <1>1, <1>3, <1>4 DEF AliasInv, NoType, Type, Builtin

(* What is reported anew must be there.                                    *)
LEMMA ReportsStay ==
  ASSUME Meaning, UNCHANGED <<program, unit>>, NEW errors, verdict' = verdict \cup errors,
         \A m, ref : Final(m, ref) => Final(m, ref)' /\ Denoted(m, ref)' = Denoted(m, ref),
         "SIG-0020" \in errors => \E S \in SUBSET Aliases : Circular(S),
         errors \cap SigErrors # {} => \E m \in Elements(unit) : \E ref \in Mentions(m) : Fails(m, ref)'
  PROVE  ReportInv'
<1>1. /\ \A S : Circular(S)' <=> Circular(S)
      /\ Aliases' = Aliases /\ Elements(unit)' = Elements(unit)
      /\ \A m : Mentions(m)' = Mentions(m)
  BY SameScopes
<1>2. \A m, ref : Fails(m, ref) => Fails(m, ref)'
  BY SettledStays
<1>3. /\ "SIG-0020" \in verdict => \E S \in SUBSET Aliases : Circular(S)
      /\ verdict \cap SigErrors # {} => \E m \in Elements(unit) : \E ref \in Mentions(m) : Fails(m, ref)
  BY DEF Meaning, ReportInv
<1>4. "SIG-0020" \in verdict' => \E S \in SUBSET Aliases' : Circular(S)'
  BY <1>1, <1>3
<1>5. verdict' \cap SigErrors # {} => \E m \in Elements(unit) : \E ref \in Mentions(m) : Fails(m, ref)'
  BY <1>2, <1>3
<1>6. verdict' \cap SigErrors # {} => \E m \in Elements(unit)' : \E ref \in Mentions(m)' : Fails(m, ref)'
  BY <1>1, <1>5
<1> QED
  BY <1>4, <1>6 DEF ReportInv, SigErrors

(* An answer that is right when it comes.                                  *)
LEMMA RightAnswer ==
  ASSUME Resolving, Asking, NEW t, NEW errors, Answer(t, errors),
         t = Denoted(Home, Asked), Final(Home, Asked),
         t = NoType => errors \cap SigCodes # {},
         errors \cap SigErrors # {} => t = NoType,
         "SIG-0020" \in errors => \E S \in SUBSET Aliases : Circular(S),
         \A S \in SUBSET Aliases :
            Circular(S) /\ Meant(Home, Asked) \cap S # {} => "SIG-0020" \in errors
  PROVE  Meaning'
<1>1. /\ UNCHANGED <<program, unit, job, stage, holds, aliasType, chain>>
      /\ answer' = t /\ verdict' = verdict \cup errors /\ answer = Pending /\ AtRef
  BY DEF Answer, sameNames, loadVars, Report, Asking
<1>2. /\ Env' = Env /\ Decl' = Decl /\ Key' = Key /\ AtRef'
      /\ Home' = Home /\ Asked' = Asked
  BY <1>1, SamePlace
<1>3. /\ \A m, ref : Meant(m, ref)' = Meant(m, ref) /\ \A s : Target(s)' = Target(s)
      /\ \A m, S : Followed(m, S)' <=> Followed(m, S)
      /\ \A S : Circular(S)' <=> Circular(S)
      /\ Aliases' = Aliases /\ Typed' = Typed
  BY <1>1, SameScopes DEF Typed
<1>4. \A m, ref : Final(m, ref) => Final(m, ref)' /\ Denoted(m, ref)' = Denoted(m, ref)
  BY <1>1, FinalStays
<1>5. ChainInv'
  <2>1. ChainInv
    BY DEF Resolving, Meaning
  <2>2. ChainOf(chain)' <=> ChainOf(chain)
    BY <1>1, SameChains
  <2> QED
    BY <1>1, <1>2, <1>3, <2>1, <2>2 DEF ChainInv
<1>6. AnswerInv'
  <2>1. PICK m, ref : m = Home /\ ref = Asked
    OBVIOUS
  <2>2. Final(m, ref)' /\ Denoted(m, ref)' = t
    BY <1>4, <2>1
  <2>3. Settled(m, ref)'
    BY <1>1, <1>3, <2>1, <2>2 DEF Settled, SigCodes, SigErrors, NoType, Type, Builtin
  <2> QED
    BY <1>1, <1>2, <2>1, <2>2, <2>3 DEF AnswerInv
<1>7. AliasInv'
  BY <1>1, AliasesStay DEF Resolving
<1>8. SettledInv' /\ HoldsInv'
  BY <1>1, <1>4, OthersStay DEF Resolving
<1>9. ReportInv'
  <2>1. Home \in Elements(unit) /\ Asked \in Mentions(Home)
    BY <1>1, AskedFacts
  <2>2. errors \cap SigErrors # {} => Fails(Home, Asked)
    BY DEF Fails
  <2>3. \A m, ref : Fails(m, ref) => Fails(m, ref)'
    BY <1>1, <1>4, SettledStays
  <2>4. errors \cap SigErrors # {} => \E m \in Elements(unit) : \E ref \in Mentions(m) : Fails(m, ref)'
    BY <2>1, <2>2, <2>3
  <2> QED
    BY <1>1, <1>4, <2>4, ReportsStay DEF Resolving
<1> QED
  BY <1>5, <1>6, <1>7, <1>8, <1>9 DEF Meaning

-----------------------------------------------------------------------------
(* Wrappings: no type and no other type become no type, but for void?.     *)
LEMMA WrappedTypes ==
  /\ \A ref : Wrapped(NoType, ref) = NoType
  /\ \A t, ref : t # NoType => (Wrapped(t, ref) = NoType <=> "SIG-0011" \in VoidError(t, ref))
  /\ \A t, ref : VoidError(t, ref) \subseteq {"SIG-0011"}
  /\ \A t, ref : VoidError(t, ref) # {} => Wrapped(t, ref) = NoType
  /\ \A n \in Builtins : Type(Builtin(n)) # NoType
  /\ \A s, ref : s[1] \in Modules => Wrapped(Type(s), ref) # NoType
<1>1. \A n \in Builtins : Type(Builtin(n)) # NoType
  BY DEF Builtins, Type, Builtin, NoType
<1>2. ASSUME NEW s, NEW ref, s[1] \in Modules PROVE Wrapped(Type(s), ref) # NoType
  <2>1. s # Builtin("none") /\ s # Builtin("void")
    <3>1. Builtin("none")[1] = "" /\ Builtin("void")[1] = "" /\ "" \notin Modules
      BY WordsAssumption DEF Builtin
    <3> QED
      BY <1>2, <3>1
  <2>2. Type(s).base = s /\ NoType.base = Builtin("none") /\ Type(Builtin("void")).base = Builtin("void")
    BY DEF Type, NoType
  <2>3. Type(s) # NoType /\ Type(s) # Type(Builtin("void"))
    BY <2>1, <2>2
  <2>4. Wrapped(Type(s), ref) = [Type(s) EXCEPT !.ptr = @ \/ ref.ptr]
    BY <2>3 DEF Wrapped
  <2>5. Wrapped(Type(s), ref).base = s
    BY <2>2, <2>4 DEF Type
  <2> QED
    BY <2>1, <2>2, <2>5
<1>3. \A ref : Wrapped(NoType, ref) = NoType
  BY DEF Wrapped
<1> QED
  BY <1>1, <1>2, <1>3 DEF VoidError

(* A builtin. *)
LEMMA BuiltinKeeps ==
  ASSUME Resolving, NamesBuiltin
  PROVE  Meaning'
<1> DEFINE t == Type(Builtin(Asked.name))
<1>1. /\ Asking /\ AtRef /\ Asked.path = "" /\ Asked.name \in Builtins
      /\ Answer(Wrapped(t, Asked), VoidError(t, Asked))
  BY DEF NamesBuiltin, Asking, IsBuiltin
<1>2. Home \in Elements(unit) /\ LoadInv /\ SigInv /\ HasUnit
  BY <1>1, AskedFacts, DeclarationFacts DEF Resolving
<1>3. Meant(Home, Asked) = {} /\ Denoted(Home, Asked) = Wrapped(t, Asked)
  BY <1>1, <1>2, DenotedCases
<1>4. Final(Home, Asked)
  BY <1>3 DEF Final, Waits
<1>5. t # NoType
  BY <1>1, WrappedTypes
<1> HIDE DEF t
<1>6. /\ Wrapped(t, Asked) = NoType => VoidError(t, Asked) \cap SigCodes # {}
      /\ VoidError(t, Asked) \cap SigErrors # {} => Wrapped(t, Asked) = NoType
      /\ "SIG-0020" \notin VoidError(t, Asked)
  BY <1>5, WrappedTypes DEF SigCodes, SigErrors
<1> QED
  BY <1>1, <1>3, <1>4, <1>6, RightAnswer

(* A name that nothing sees, and one of a value.                           *)
LEMMA NoTypeKeeps ==
  ASSUME Resolving, Unknown \/ NotAType
  PROVE  Meaning'
<1>1. Asking /\ AtRef /\ ~IsBuiltin
  BY DEF Unknown, NotAType, Asking, Found
<1>2. Home \in Elements(unit) /\ LoadInv /\ SigInv /\ HasUnit /\ Found = Meant(Home, Asked)
  BY <1>1, AskedFacts, DeclarationFacts DEF Resolving
<1>3. ~(Asked.path = "" /\ Asked.name \in Builtins)
  BY <1>1 DEF IsBuiltin
<1>4. CASE Unknown
  <2>1. Answer(NoType, {"SIG-0019"}) /\ Meant(Home, Asked) = {}
    BY <1>2, <1>4 DEF Unknown
  <2>2. Denoted(Home, Asked) = NoType /\ Final(Home, Asked)
    BY <1>2, <1>3, <2>1, DenotedCases DEF Final, Waits
  <2>3. {"SIG-0019"} \cap SigCodes # {} /\ "SIG-0020" \notin {"SIG-0019"}
    BY DEF SigCodes, SigErrors
  <2> QED
    BY <1>1, <2>1, <2>2, <2>3, RightAnswer
<1>5. CASE NotAType
  <2>1. PICK s \in Meant(Home, Asked) : Kind(s) = "value" /\ Answer(NoType, {"SIG-0010"})
    BY <1>2, <1>5 DEF NotAType
  <2>2. s \notin Typed /\ \A S \in SUBSET Aliases : s \notin S
    BY <2>1 DEF Resolving, Meaning, AliasInv, Aliases
  <2>3. Meant(Home, Asked) = {s} /\ Denoted(Home, Asked) = Wrapped(NoType, Asked)
    BY <1>2, <2>1, <2>2, DenotedCases
  <2>4. Denoted(Home, Asked) = NoType /\ Final(Home, Asked)
    BY <2>1, <2>3, WrappedTypes DEF Final, Waits
  <2>5. {"SIG-0010"} \cap SigCodes # {} /\ "SIG-0020" \notin {"SIG-0010"}
    BY DEF SigCodes, SigErrors
  <2> QED
    BY <1>1, <2>1, <2>2, <2>3, <2>4, <2>5, RightAnswer
<1> QED
  BY <1>4, <1>5

(* A struct or enum, or an alias that has a type.                          *)
LEMMA TypeKeeps ==
  ASSUME Resolving, NamesType \/ Known
  PROVE  Meaning'
<1>1. Asking /\ AtRef /\ ~IsBuiltin
  BY DEF NamesType, Known, Asking, Found
<1>2. Home \in Elements(unit) /\ LoadInv /\ SigInv /\ HasUnit /\ Found = Meant(Home, Asked)
  BY <1>1, AskedFacts, DeclarationFacts DEF Resolving
<1>3. ~(Asked.path = "" /\ Asked.name \in Builtins)
  BY <1>1 DEF IsBuiltin
<1>4. CASE NamesType
  <2>1. PICK s \in Meant(Home, Asked) : Kind(s) = "type" /\ Answer(Wrapped(Type(s), Asked), {})
    BY <1>2, <1>4 DEF NamesType
  <2>2. s[1] \in Modules /\ \A S \in SUBSET Aliases : s \notin S
    BY <1>2, <1>3, <2>1, SeenFacts DEF Meant, Aliases
  <2>3. Meant(Home, Asked) = {s} /\ Denoted(Home, Asked) = Wrapped(Type(s), Asked)
    BY <1>2, <2>1, DenotedCases
  <2>4. Final(Home, Asked) /\ Wrapped(Type(s), Asked) # NoType
    BY <2>1, <2>2, <2>3, WrappedTypes DEF Final, Waits
  <2> QED
    BY <1>1, <2>1, <2>2, <2>3, <2>4, RightAnswer
<1>5. CASE Known
  <2>1. PICK s \in Meant(Home, Asked) :
          Kind(s) = "alias" /\ s \in Typed /\ Answer(Wrapped(aliasType[s], Asked), VoidError(aliasType[s], Asked))
    BY <1>2, <1>5 DEF Known, Typed
  <2>2. aliasType[s] # NoType /\ \A S \in SUBSET Aliases : Circular(S) => s \notin S
    BY <2>1 DEF Resolving, Meaning, AliasInv
  <2>3. Meant(Home, Asked) = {s} /\ Denoted(Home, Asked) = Wrapped(aliasType[s], Asked)
    BY <1>2, <2>1, DenotedCases
  <2>4. Final(Home, Asked)
    BY <2>1, <2>3 DEF Final, Waits
  <2> DEFINE t == aliasType[s]
  <2>5. /\ Wrapped(t, Asked) = NoType => VoidError(t, Asked) \cap SigCodes # {}
        /\ VoidError(t, Asked) \cap SigErrors # {} => Wrapped(t, Asked) = NoType
        /\ "SIG-0020" \notin VoidError(t, Asked)
    BY <2>2, WrappedTypes DEF SigCodes, SigErrors
  <2> QED
    BY <1>1, <2>1, <2>2, <2>3, <2>4, <2>5, RightAnswer
<1> QED
  BY <1>4, <1>5

(* An alias that is asked about while it is under resolution: the end of   *)
(* the chain names itself in a circle, and none of it will have a type.    *)
LEMMA CircleKeeps ==
  ASSUME Resolving, CyclicAlias
  PROVE  Meaning'
<1>1. Asking /\ AtRef /\ ~IsBuiltin
  BY DEF CyclicAlias, Asking, Found
<1>2. Home \in Elements(unit) /\ LoadInv /\ SigInv /\ HasUnit /\ Found = Meant(Home, Asked)
  BY <1>1, AskedFacts, DeclarationFacts DEF Resolving
<1>3. PICK s \in Meant(Home, Asked) :
        Kind(s) = "alias" /\ s \notin Typed /\ s \in Elements(chain) /\ Answer(NoType, {"SIG-0020"})
  BY <1>2 DEF CyclicAlias, Typed
<1>4. /\ chain \in Seq(Aliases) /\ Len(chain) \in Nat /\ DOMAIN chain = 1..Len(chain)
      /\ \A i \in 1..Len(chain) : chain[i] \notin Typed /\ chain[i] \in Aliases
      /\ \A i \in 1..(Len(chain) - 1) : chain[i + 1] \in Meant(chain[i][1], Target(chain[i]))
  BY <1>1, LenProperties, ElementOfSeq DEF Resolving, Meaning, ChainInv, ChainOf
<1>5. PICK k \in 1..Len(chain) : chain[k] = s
  BY <1>3, <1>4 DEF Elements
<1>6. Home = chain[Len(chain)][1] /\ Asked = Target(chain[Len(chain)])
  <2>1. chain # << >>
    BY <1>4, <1>5
  <2> QED
    BY <1>1, <2>1, AskedFacts
<1> DEFINE F == {chain[i] : i \in k..Len(chain)}
<1>7. ASSUME NEW i \in k..Len(chain)
      PROVE  \E x \in F : x \in Meant(chain[i][1], Target(chain[i]))
  <2>1. CASE i = Len(chain)
    <3>1. s \in F
      BY <1>4, <1>5
    <3> QED
      BY <1>3, <1>6, <2>1, <3>1
  <2>2. CASE i # Len(chain)
    <3> DEFINE n == Len(chain)
    <3>1. n \in Nat /\ k \in 1..n /\ i \in k..n /\ i # n
      BY <1>4, <2>2
    <3> HIDE DEF n
    <3>2. i \in 1..(n - 1) /\ i + 1 \in k..n
      BY <3>1
    <3> USE DEF n
    <3>3. chain[i + 1] \in F
      BY <3>2
    <3> QED
      BY <1>4, <3>2, <3>3
  <2> QED
    BY <2>1, <2>2
<1>8. F \in SUBSET Aliases /\ s \in F /\ \A a \in F : a \notin Typed
  BY <1>4, <1>5
<1>9. ASSUME NEW a \in F
      PROVE  /\ Denoted(a[1], Target(a)) = NoType /\ Waits(a[1], Target(a), F)
             /\ Seen(a[1], Target(a)) \cap F # {}
  <2>1. PICK x \in F : x \in Meant(a[1], Target(a))
    BY <1>7
  <2>2. a[1] \in Elements(unit) /\ Kind(x) = "alias" /\ x \notin Typed
    BY <1>2, <1>8, AliasFacts
  <2>3. Meant(a[1], Target(a)) = {x} /\ Denoted(a[1], Target(a)) = Wrapped(NoType, Target(a))
    BY <1>2, <2>1, <2>2, DenotedCases
  <2>4. x \in Seen(a[1], Target(a))
    BY <2>1 DEF Meant
  <2> QED
    BY <2>1, <2>3, <2>4, WrappedTypes DEF Waits
<1> HIDE DEF F
<1>10. Hopeless(F) /\ Circular(F)
  BY <1>8, <1>9 DEF Hopeless, Circular
<1>11. s \in Lost
  BY <1>8, <1>10, LostIsHopeless
<1>12. Meant(Home, Asked) = {s} /\ Denoted(Home, Asked) = Wrapped(NoType, Asked)
  BY <1>2, <1>3, DenotedCases
<1>13. Denoted(Home, Asked) = NoType /\ Final(Home, Asked)
  BY <1>11, <1>12, WrappedTypes DEF Final, Waits
<1>14. {"SIG-0020"} \cap SigCodes # {} /\ {"SIG-0020"} \cap SigErrors = {}
  BY DEF SigCodes, SigErrors
<1> QED
  BY <1>1, <1>3, <1>8, <1>10, <1>13, <1>14, RightAnswer

(* An alias that is asked about for the first time joins the chain.        *)
LEMMA FollowKeeps ==
  ASSUME Resolving, Follow
  PROVE  Meaning'
<1>1. Asking /\ AtRef /\ ~IsBuiltin /\ answer = Pending
  BY DEF Follow, Asking, Found
<1>2. Home \in Elements(unit) /\ LoadInv /\ SigInv /\ HasUnit /\ Found = Meant(Home, Asked)
  BY <1>1, AskedFacts, DeclarationFacts DEF Resolving
<1>3. PICK s \in Meant(Home, Asked) :
        /\ Kind(s) = "alias" /\ s \notin Typed /\ s \notin Elements(chain)
        /\ chain' = Append(chain, s)
        /\ UNCHANGED <<program, unit, stage, verdict, job, answer, aliasType, holds>>
  BY <1>2 DEF Follow, Typed, sameNames, loadVars
<1>4. /\ Env' = Env /\ Decl' = Decl /\ Key' = Key /\ AtRef'
      /\ \A c : ChainOf(c)' <=> ChainOf(c)
  BY <1>1, <1>3, SamePlace, SameChains
<1>5. s \in Aliases
  <2>1. s \in Seen(Home, Asked)
    BY <1>1, <1>3 DEF Meant, IsBuiltin
  <2>2. s = <<s[1], s[2]>> /\ s[1] \in Elements(unit) /\ s[2] \in Declared(s[1]) /\ s[2] \in Names
    BY <1>2, <2>1, SeenFacts
  <2> QED
    BY <1>3, <2>2 DEF Aliases
<1>6. /\ chain \in Seq(Aliases) /\ Len(chain) \in Nat /\ DOMAIN chain = 1..Len(chain)
      /\ ChainOf(chain) /\ \A i \in 1..Len(chain) : chain[i] \notin Typed
      /\ Decl.kind = "alias" => chain # << >>
  BY <1>1, LenProperties DEF Resolving, Meaning, ChainInv, ChainOf
<1> DEFINE c == Append(chain, s)
           n == Len(chain)
<1>7. /\ c \in Seq(Aliases) /\ Len(c) = n + 1 /\ n \in Nat
      /\ \A i \in 1..n : c[i] = chain[i]
      /\ c[n + 1] = s /\ Elements(c) = Elements(chain) \cup {s}
      /\ \A i \in 1..n : chain[i] # s
  <2>1. \A i \in 1..n : chain[i] # s
    BY <1>3, <1>6 DEF Elements
  <2> QED
    BY <1>5, <1>6, <2>1, AppendProperties, ElementsAppend
<1> HIDE DEF c
<1>8. n # 0 => Home = chain[n][1] /\ Asked = Target(chain[n])
  <2>1. n # 0 => chain # << >>
    BY <1>6, EmptySeq
  <2> QED
    BY <1>1, <2>1, AskedFacts
<1>9. n = 0 => chain = << >> /\ Home = Env /\ Asked = Decl.refs[job.r] /\ Decl.kind # "alias"
  <2>1. n = 0 => chain = << >>
    BY <1>6, EmptySeq
  <2> QED
    BY <1>1, <1>6, <2>1, AskedFacts
<1>10. ChainOf(c)
  <2> USE DEF ChainOf
  <2>1. \A i, j \in 1..Len(c) : c[i] = c[j] => i = j
    BY <1>6, <1>7
  <2>2. ASSUME NEW i \in 1..(Len(c) - 1) PROVE c[i + 1] \in Meant(c[i][1], Target(c[i]))
    <3>1. CASE i = n
      <4>1. c[i + 1] = s /\ c[i] = chain[n] /\ n # 0
        BY <1>7, <2>2, <3>1
      <4> QED
        BY <1>3, <1>8, <4>1
    <3>2. CASE i # n
      <4>1. i \in 1..(n - 1) /\ c[i] = chain[i] /\ c[i + 1] = chain[i + 1]
        BY <1>7, <2>2, <3>2
      <4> QED
        BY <1>6, <4>1
    <3> QED
      BY <3>1, <3>2
  <2>3. IF Decl.kind = "alias" THEN c[1] = Key ELSE c[1] \in Meant(Env, Decl.refs[job.r])
    <3>1. CASE n = 0
      BY <1>3, <1>7, <1>9, <3>1
    <3>2. CASE n # 0
      <4>1. c[1] = chain[1] /\ chain # << >>
        BY <1>7, <3>2, EmptySeq
      <4> QED
        BY <1>6, <4>1
    <3> QED
      BY <3>1, <3>2
  <2>4. \E S \in SUBSET Aliases : Followed(Env, S) /\ Elements(c) \subseteq S
    <3>1. PICK S \in SUBSET Aliases : Followed(Env, S) /\ Elements(chain) \subseteq S
      BY <1>6
    <3>2. s \in S
      BY <1>1, <1>3, <1>5, <3>1, AskedFacts
    <3> QED
      BY <1>7, <3>1, <3>2
  <2> QED
    BY <1>7, <2>1, <2>2, <2>3, <2>4
<1>11. ChainInv'
  <2>1. chain' = c
    BY <1>3 DEF c
  <2>2. ChainOf(chain)'
    <3>1. PICK x : x = c
      OBVIOUS
    <3>2. ChainOf(x)'
      BY <1>4, <1>10, <3>1
    <3> QED
      BY <2>1, <3>1, <3>2
  <2>3. \A i \in 1..Len(c) : c[i] \notin Typed
    BY <1>3, <1>6, <1>7
  <2>4. c # << >>
    BY <1>7, EmptySeq
  <2>5. Typed' = Typed
    BY <1>3 DEF Typed
  <2> QED
    BY <2>1, <2>2, <2>3, <2>4, <2>5 DEF ChainInv
<1>12. AnswerInv'
  BY <1>1, <1>3, <1>4 DEF AnswerInv, Pending, Type, Builtin
<1>13. \A m, ref : Final(m, ref) => Final(m, ref)' /\ Denoted(m, ref)' = Denoted(m, ref)
  BY <1>3, FinalStays
<1>14. AliasInv' /\ SettledInv' /\ HoldsInv'
  BY <1>3, <1>13, AliasesStay, OthersStay DEF Resolving
<1>15. ReportInv'
  <2>1. verdict' = verdict \cup {} /\ {} \cap SigErrors = {}
    BY <1>3
  <2> QED
    BY <1>3, <1>13, <2>1, ReportsStay DEF Resolving
<1> QED
  BY <1>11, <1>12, <1>14, <1>15 DEF Meaning

(* A circle of aliases is one of what their targets mean.                  *)
LEMMA CircularMeant ==
  ASSUME LoadInv, HasUnit, NEW S \in SUBSET Aliases, Circular(S), NEW a \in S
  PROVE  Meant(a[1], Target(a)) \cap S # {}
<1>1. PICK s \in S : s \in Seen(a[1], Target(a))
  BY DEF Circular
<1>2. s[2] = Target(a).name /\ s[2] \in Names
  BY <1>1, AliasFacts, SeenFacts
<1>3. Target(a).name \notin Builtins
  BY <1>2, WordsAssumption
<1> QED
  BY <1>1, <1>3 DEF Meant

-----------------------------------------------------------------------------
(* The call that the innermost one returns to: its place and its mention.  *)
OuterHome == IF Front(chain) = << >> THEN Env ELSE Last(Front(chain))[1]
OuterRef  == IF Front(chain) = << >> THEN Decl.refs[job.r] ELSE Target(Last(Front(chain)))
OwnAlias  == Front(chain) = << >> /\ Decl.kind = "alias"

LEMMA OuterFacts ==
  ASSUME Resolving, AtRef, chain # << >>
  PROVE  /\ Last(chain) \in Aliases /\ Last(chain) \notin Typed
         /\ Home = Last(chain)[1] /\ Asked = Target(Last(chain))
         /\ ChainOf(Front(chain)) /\ Len(Front(chain)) \in Nat
         /\ \A i \in 1..Len(Front(chain)) : Front(chain)[i] \notin Typed /\ Front(chain)[i] # Last(chain)
         /\ OuterHome \in Elements(unit) /\ OuterRef \in Mentions(OuterHome)
         /\ OwnAlias => Last(chain) = Key /\ OuterHome = Home /\ OuterRef = Asked
         /\ ~OwnAlias => Last(chain) \in Meant(OuterHome, OuterRef)
<1> DEFINE n == Len(chain)
           o == Front(chain)
           a == Last(chain)
<1>1. /\ chain \in Seq(Aliases) /\ ChainOf(chain)
      /\ \A i \in 1..n : chain[i] \notin Typed
  BY DEF Resolving, Meaning, ChainInv, ChainOf
<1>2. /\ o \in Seq(Aliases) /\ Len(o) = n - 1 /\ n \in Nat \ {0}
      /\ \A i \in 1..(n - 1) : o[i] = chain[i]
      /\ a = chain[n] /\ a \in Aliases
  BY <1>1, FrontProperties
<1>3. Home = a[1] /\ Asked = Target(a)
  BY AskedFacts
<1>4. /\ AtDecl /\ job.r \in DOMAIN Decl.refs /\ HasUnit /\ LoadInv
  BY DeclarationFacts DEF AtRef, Resolving
<1>5. /\ Env \in Elements(unit) /\ Decl.refs[job.r] \in Mentions(Env)
      /\ Decl.kind = "alias" => Key[1] = Env /\ Target(Key) = Decl.refs[job.r]
  BY <1>4, DeclFacts
<1> HIDE DEF o, a
<1>6. o = << >> => n = 1
  BY <1>2
<1>7. o # << >> => /\ n - 1 \in 1..(n - 1) /\ Last(o) = chain[n - 1] /\ Last(o) \in Aliases
                   /\ chain[(n - 1) + 1] = a
  <2>1. o # << >> => Len(o) \in Nat \ {0} /\ Last(o) = o[Len(o)] /\ Last(o) \in Aliases
    BY <1>2, FrontProperties
  <2> QED
    BY <1>2, <2>1
<1>8. ChainOf(o)
  <2>1. \A i, j \in 1..Len(o) : o[i] = o[j] => i = j
    <3>1. \A i, j \in 1..n : chain[i] = chain[j] => i = j
      BY <1>1 DEF ChainOf
    <3> QED
      BY <1>2, <3>1
  <2>2. ASSUME NEW i \in 1..(Len(o) - 1) PROVE o[i + 1] \in Meant(o[i][1], Target(o[i]))
    <3>1. i \in 1..(n - 1) /\ i + 1 \in 1..(n - 1)
      BY <1>2, <2>2
    <3>2. o[i] = chain[i] /\ o[i + 1] = chain[i + 1]
      BY <1>2, <3>1
    <3>3. chain[i + 1] \in Meant(chain[i][1], Target(chain[i]))
      BY <1>1, <3>1 DEF ChainOf
    <3> QED
      BY <3>2, <3>3
  <2>3. o # << >> => IF Decl.kind = "alias" THEN o[1] = Key ELSE o[1] \in Meant(Env, Decl.refs[job.r])
    <3>1. o # << >> => o[1] = chain[1]
      BY <1>2, <1>7
    <3> QED
      BY <1>1, <3>1 DEF ChainOf
  <2>4. Elements(o) \subseteq Elements(chain)
    <3>1. DOMAIN o = 1..(n - 1) /\ DOMAIN chain = 1..n
      BY <1>1, <1>2, LenProperties
    <3>2. \A i \in 1..(n - 1) : i \in 1..n /\ o[i] = chain[i]
      BY <1>2
    <3> QED
      BY <3>1, <3>2 DEF Elements
  <2>5. \E S \in SUBSET Aliases : Followed(Env, S) /\ Elements(o) \subseteq S
    BY <1>1, <2>4 DEF ChainOf
  <2> QED
    BY <1>2, <2>1, <2>2, <2>3, <2>5 DEF ChainOf
<1>9. \A i \in 1..Len(o) : o[i] \notin Typed /\ o[i] # a
  <2>1. \A i, j \in 1..n : chain[i] = chain[j] => i = j
    BY <1>1 DEF ChainOf
  <2>2. ASSUME NEW i \in 1..(n - 1) PROVE chain[i] \notin Typed /\ chain[i] # a
    <3>1. i \in 1..n /\ n \in 1..n /\ i # n
      BY <1>2
    <3> QED
      BY <1>1, <1>2, <2>1, <3>1
  <2> QED
    BY <1>2, <2>2
<1>10. CASE o = << >>
  <2>1. OuterHome = Env /\ OuterRef = Decl.refs[job.r] /\ a = chain[1]
    BY <1>2, <1>6, <1>10 DEF OuterHome, OuterRef, o
  <2>2. OwnAlias <=> Decl.kind = "alias"
    BY <1>10 DEF OwnAlias, o
  <2>3. IF Decl.kind = "alias" THEN a = Key ELSE a \in Meant(Env, Decl.refs[job.r])
    BY <1>1, <2>1 DEF ChainOf
  <2>4. OwnAlias => a = Key /\ OuterHome = Home /\ OuterRef = Asked
    BY <1>3, <1>5, <2>1, <2>2, <2>3
  <2> QED
    <3>1. OuterHome \in Elements(unit) /\ OuterRef \in Mentions(OuterHome)
      BY <1>5, <2>1
    <3>2. ~OwnAlias => a \in Meant(OuterHome, OuterRef)
      BY <2>1, <2>2, <2>3
    <3> QED
      BY <1>1, <1>2, <1>3, <1>8, <1>9, <2>4, <3>1, <3>2 DEF o, a
<1>11. CASE o # << >>
  <2>1. OuterHome = Last(o)[1] /\ OuterRef = Target(Last(o)) /\ ~OwnAlias
    BY <1>11 DEF OuterHome, OuterRef, OwnAlias, o
  <2>2. a \in Meant(OuterHome, OuterRef)
    BY <1>1, <1>7, <1>11, <2>1 DEF ChainOf
  <2>3. OuterHome \in Elements(unit) /\ OuterRef \in Mentions(OuterHome)
    BY <1>4, <1>7, <1>11, <2>1, AliasFacts
  <2> QED
    BY <1>1, <1>2, <1>3, <1>8, <1>9, <2>1, <2>2, <2>3 DEF o, a
<1> QED
  BY <1>10, <1>11

(* An alias that gets its type keeps what the aliases have.                *)
LEMMA AliasTyped ==
  ASSUME Resolving, UNCHANGED <<program, unit>>, NEW b \in Aliases, b \notin Typed,
         answer = Denoted(b[1], Target(b)), answer # NoType,
         Final(b[1], Target(b)), aliasType' = Extend(aliasType, {b}, answer)
  PROVE  AliasInv'
<1>1. LoadInv /\ SigInv /\ HasUnit /\ AliasInv
  BY DeclarationFacts DEF Resolving, Meaning
<1>2. /\ \A s : Target(s)' = Target(s)
      /\ \A S : Circular(S)' <=> Circular(S)
      /\ Aliases' = Aliases
  BY SameScopes
<1>3. /\ Typed' = Typed \cup {b} /\ aliasType'[b] = answer
      /\ \A a \in Typed : aliasType'[a] = aliasType[a]
  BY DEF Typed, Extend
<1>4. ASSUME NEW a \in Typed'
      PROVE  a \in Aliases /\ aliasType'[a] = Denoted(a[1], Target(a)) /\ aliasType'[a] # NoType
             /\ a[1] \in Elements(unit)
  BY <1>1, <1>3, AliasFacts DEF AliasInv
<1>5. ASSUME NEW a \in Typed' PROVE Denoted(a[1], Target(a))' = Denoted(a[1], Target(a))
  <2>1. PICK m, ref : m = a[1] /\ ref = Target(a)
    OBVIOUS
  <2>2. \A s \in Meant(m, ref) : Kind(s) = "alias" => s \in Typed
    BY <1>1, <1>4, <2>1, DenotedTypes
  <2>3. \A s \in Meant(m, ref) : s \in Typed' => s \in Typed
    BY <1>3, <2>2 DEF Aliases
  <2>4. Denoted(m, ref)' = Denoted(m, ref)
    BY <1>3, <2>3, SameDenoted
  <2>5. Denoted(a[1], Target(a))' = Denoted(m, ref)'
    BY <1>2, <2>1 DEF Denoted
  <2> QED
    BY <2>1, <2>4, <2>5
<1>6. ASSUME NEW S \in SUBSET Aliases, Circular(S) PROVE S \cap Typed' = {}
  <2>1. S \cap Typed = {}
    BY <1>1, <1>6 DEF AliasInv
  <2>2. b \notin S
    <3> SUFFICES ASSUME b \in S PROVE FALSE
      OBVIOUS
    <3>1. PICK s \in Meant(b[1], Target(b)) : s \in S
      BY <1>1, <1>6, CircularMeant
    <3>2. Kind(s) = "alias" /\ b[1] \in Elements(unit)
      BY <1>1, <3>1, AliasFacts
    <3>3. s \in Typed
      BY <1>1, <3>1, <3>2, DenotedTypes
    <3> QED
      BY <2>1, <3>1, <3>3
  <2> QED
    BY <1>3, <2>1, <2>2
<1> QED
  BY <1>2, <1>4, <1>5, <1>6 DEF AliasInv, NoType, Type, Builtin

(* What an alias turned out to be is what a mention of it denotes.         *)
LEMMA ReturnedAnswer ==
  ASSUME LoadInv, SigInv, HasUnit, UNCHANGED <<program, unit>>,
         NEW m \in Elements(unit), NEW ref, NEW a \in Meant(m, ref), a \in Aliases, a \notin Typed,
         aliasType' = IF answer = NoType THEN aliasType ELSE Extend(aliasType, {a}, answer)
  PROVE  Denoted(m, ref)' = Wrapped(answer, ref) /\ Meant(m, ref) = {a}
<1>1. /\ Meant(m, ref) = {a} /\ Seen(m, ref) = {a} /\ Kind(a) = "alias"
      /\ ~(ref.path = "" /\ ref.name \in Builtins)
  BY DenotedCases, AliasFacts DEF Meant
<1>2. Seen(m, ref)' = {a} /\ Kind(a)' = "alias"
  BY <1>1, SameScopes
<1>3. (CHOOSE x \in {a} : TRUE) = a
  OBVIOUS
<1>4. (IF a \in DOMAIN aliasType' THEN aliasType'[a] ELSE NoType) = answer
  BY DEF Typed, Extend
<1>5. Denoted(m, ref)' = IF answer = NoType \/ (answer = Type(Builtin("void")) /\ ref.null /\ ~ref.ptr)
                         THEN NoType ELSE [base |-> answer.base, ptr |-> answer.ptr \/ ref.ptr]
  <2> DEFINE t == IF a \in DOMAIN aliasType' THEN aliasType'[a] ELSE NoType
  <2>1. Denoted(m, ref)' = IF t = NoType \/ (t = Type(Builtin("void")) /\ ref.null /\ ~ref.ptr) THEN NoType
                           ELSE [base |-> t.base, ptr |-> t.ptr \/ ref.ptr]
    BY <1>1, <1>2, <1>3 DEF Denoted, NoType, Type, Builtin, Builtins
  <2> QED
    BY <1>4, <2>1
<1>6. answer = [base |-> answer.base, ptr |-> answer.ptr]
  BY DEF SigInv, KnownType
<1>7. [answer EXCEPT !.ptr = @ \/ ref.ptr] = [base |-> answer.base, ptr |-> answer.ptr \/ ref.ptr]
  BY <1>6
<1> QED
  BY <1>1, <1>5, <1>7 DEF Wrapped

(* The call for the innermost alias returns.                               *)
LEMMA ReturnKeeps ==
  ASSUME Resolving, Return
  PROVE  Meaning'
<1> DEFINE a == Last(chain)
           o == Front(chain)
           errors == IF OwnAlias THEN {} ELSE VoidError(answer, OuterRef)
<1>1. /\ AtRef /\ answer # Pending /\ chain # << >>
      /\ UNCHANGED <<program, unit, stage, job, holds>>
      /\ aliasType' = IF answer = NoType THEN aliasType ELSE Extend(aliasType, {a}, answer)
      /\ chain' = o /\ verdict' = verdict \cup errors
      /\ answer' = IF OwnAlias THEN answer ELSE Wrapped(answer, OuterRef)
  BY DEF Return, sameNames, loadVars, OwnAlias, OuterRef, Report
<1>2. /\ a \in Aliases /\ a \notin Typed /\ Home = a[1] /\ Asked = Target(a)
      /\ ChainOf(o) /\ Len(o) \in Nat
      /\ \A i \in 1..Len(o) : o[i] \notin Typed /\ o[i] # a
      /\ OuterHome \in Elements(unit) /\ OuterRef \in Mentions(OuterHome)
      /\ OwnAlias => a = Key /\ OuterHome = Home /\ OuterRef = Asked
      /\ ~OwnAlias => a \in Meant(OuterHome, OuterRef)
  BY <1>1, OuterFacts
<1>3. LoadInv /\ SigInv /\ HasUnit /\ AliasInv
  BY DeclarationFacts DEF Resolving, Meaning
<1>4. Settled(Home, Asked) /\ answer = Denoted(Home, Asked)
  BY <1>1 DEF Resolving, Meaning, AnswerInv
<1>5. Home \in Elements(unit)
  BY <1>1, AskedFacts
<1> HIDE DEF a, o, errors
<1>6. /\ Lost \subseteq Lost'
      /\ \A m, ref : Final(m, ref) => Final(m, ref)' /\ Denoted(m, ref)' = Denoted(m, ref)
  <2>1. \/ aliasType' = aliasType
        \/ \E b \in Aliases \ Typed : /\ Denoted(b[1], Target(b)) # NoType
                                      /\ \E v : aliasType' = Extend(aliasType, {b}, v)
    BY <1>1, <1>2, <1>4
  <2> QED
    BY <1>1, <2>1, FinalStays
<1>7. verdict \subseteq verdict'
  BY <1>1
<1>8. \A m, ref : Settled(m, ref) => Settled(m, ref)'
  BY <1>1, <1>6, <1>7, SettledStays
<1>9. /\ Env' = Env /\ Decl' = Decl /\ Key' = Key /\ AtRef'
      /\ \A c : ChainOf(c)' <=> ChainOf(c)
      /\ \A s : Target(s)' = Target(s)
  BY <1>1, SamePlace, SameChains, SameScopes
<1>10. Home' = OuterHome /\ Asked' = OuterRef
  BY <1>1, <1>9 DEF Home, Asked, OuterHome, OuterRef, Last, o
<1>11. ChainInv'
  <2>1. ChainOf(chain)'
    <3>1. PICK x : x = o
      OBVIOUS
    <3>2. ChainOf(x)'
      BY <1>2, <1>9, <3>1
    <3> QED
      BY <1>1, <3>1, <3>2
  <2>2. Typed' \subseteq Typed \cup {a}
    BY <1>1 DEF Typed, Extend
  <2>3. \A i \in 1..Len(o) : o[i] \notin Typed'
    BY <1>2, <2>2
  <2>4. Decl.kind = "alias" => o # << >> \/ answer' # Pending
    BY <1>1 DEF OwnAlias, o
  <2>5. Pending' = Pending
    BY DEF Pending, Type, Builtin
  <2> QED
    BY <1>1, <1>9, <2>1, <2>3, <2>4, <2>5 DEF ChainInv
<1>12. PICK h, ref : h = OuterHome /\ ref = OuterRef
  OBVIOUS
<1>13. Settled(h, ref)' /\ answer' = Denoted(h, ref)'
  <2>1. CASE OwnAlias
    <3>1. Settled(h, ref) /\ answer' = Denoted(h, ref)
      BY <1>1, <1>2, <1>4, <1>12, <2>1
    <3> QED
      BY <1>6, <1>8, <3>1 DEF Settled
  <2>2. CASE ~OwnAlias
    <3>1. a \in Meant(h, ref) /\ h \in Elements(unit)
      BY <1>2, <1>12, <2>2
    <3>2. Denoted(h, ref)' = Wrapped(answer, ref) /\ Meant(h, ref) = {a}
      BY <1>1, <1>2, <1>3, <3>1, ReturnedAnswer
    <3>3. Meant(h, ref)' = {a} /\ Aliases' = Aliases /\ \A S : Circular(S)' <=> Circular(S)
      BY <1>1, <3>2, SameScopes
    <3>4. Final(h, ref)'
      <4>1. answer = NoType => a \in Lost'
        BY <1>2, <1>4, <1>6, OneMoreLost DEF Settled
      <4>2. answer # NoType => a \in Typed'
        BY <1>1 DEF Typed, Extend
      <4> QED
        BY <3>3, <4>1, <4>2 DEF Final, Waits
    <3>5. Wrapped(answer, ref) = NoType => verdict' \cap SigCodes # {}
      <4>1. CASE answer = NoType
        BY <1>4, <1>7, <4>1 DEF Settled
      <4>2. CASE answer # NoType
        <5>1. Wrapped(answer, ref) = NoType => "SIG-0011" \in errors
          BY <1>12, <2>2, <4>2, WrappedTypes DEF errors
        <5> QED
          BY <1>1, <5>1 DEF SigCodes, SigErrors
      <4> QED
        BY <4>1, <4>2
    <3>6. ASSUME NEW S \in SUBSET Aliases, Circular(S), a \in S PROVE "SIG-0020" \in verdict'
      <4>1. Meant(Home, Asked) \cap S # {}
        BY <1>2, <1>3, <3>6, CircularMeant
      <4> QED
        BY <1>4, <1>7, <3>6, <4>1 DEF Settled
    <3>7. Settled(h, ref)'
      <4>1. Denoted(h, ref)' = NoType => verdict' \cap SigCodes # {}
        BY <3>2, <3>5
      <4>2. \A S \in SUBSET Aliases : Circular(S) /\ {a} \cap S # {} => "SIG-0020" \in verdict'
        BY <3>6
      <4> QED
        BY <3>3, <3>4, <4>1, <4>2 DEF Settled, SigCodes, SigErrors, NoType, Type, Builtin
    <3> QED
      BY <1>1, <1>12, <2>2, <3>2, <3>7
  <2> QED
    BY <2>1, <2>2
<1>17. AnswerInv'
  <2>1. Settled(Home, Asked)' <=> Settled(h, ref)'
    BY <1>10, <1>12
  <2>2. Denoted(Home, Asked)' = Denoted(h, ref)'
    BY <1>10, <1>12
  <2> QED
    BY <1>9, <1>13, <2>1, <2>2 DEF AnswerInv
<1>14. AliasInv'
  <2>1. CASE answer = NoType
    BY <1>1, <2>1, AliasesStay DEF Resolving
  <2>2. CASE answer # NoType
    <3>1. Final(a[1], Target(a))
      BY <1>2, <1>4 DEF Settled
    <3> QED
      BY <1>1, <1>2, <1>4, <2>2, <3>1, AliasTyped
  <2> QED
    BY <2>1, <2>2
<1>15. SettledInv' /\ HoldsInv'
  BY <1>1, <1>6, <1>7, OthersStay DEF Resolving
<1>16. ReportInv'
  <2>1. "SIG-0020" \notin errors
    BY WrappedTypes DEF errors
  <2>2. errors \cap SigErrors # {} => Denoted(h, ref)' = NoType
    <3>1. errors # {} => ~OwnAlias /\ Wrapped(answer, ref) = NoType
      BY <1>12, WrappedTypes DEF errors
    <3> QED
      BY <1>1, <1>12, <1>13, <3>1
  <2>3. errors \cap SigErrors # {} => Fails(h, ref)'
    BY <1>13, <2>2 DEF Fails, Settled, NoType, Type, Builtin
  <2> QED
    BY <1>1, <1>2, <1>6, <1>12, <2>1, <2>3, ReportsStay DEF Resolving
<1> QED
  BY <1>11, <1>14, <1>15, <1>16, <1>17 DEF Meaning

-----------------------------------------------------------------------------
(* Between mentions answers do not change, so that what was settled stays. *)
LEMMA JobsKeep ==
  ASSUME Resolving, UNCHANGED <<program, unit, stage, verdict, aliasType>>,
         \A k \in 1..Len(unit) : \A d \in 1..Len(Decls(unit[k])) : \A r \in Refs(k, d) :
            Resolved(k, d, r)' => Resolved(k, d, r) \/ Settled(unit[k], Ref(k, d, r))
  PROVE  AliasInv' /\ SettledInv' /\ ReportInv'
<1>1. \A m, ref : Final(m, ref) => Final(m, ref)' /\ Denoted(m, ref)' = Denoted(m, ref)
  BY FinalStays
<1>2. /\ \A m : Decls(m)' = Decls(m) /\ \A k, d : Refs(k, d)' = Refs(k, d)
      /\ \A k, d, r : Ref(k, d, r)' = Ref(k, d, r)
  BY SameScopes
<1>3. ASSUME NEW k \in 1..Len(unit), NEW d \in 1..Len(Decls(unit[k])), NEW r \in Refs(k, d),
             Resolved(k, d, r)'
      PROVE  Settled(unit[k], Ref(k, d, r))'
  <2>1. PICK m, ref : m = unit[k] /\ ref = Ref(k, d, r)
    OBVIOUS
  <2>2. Settled(m, ref)
    BY <1>3, <2>1 DEF Resolving, Meaning, SettledInv
  <2>3. Settled(m, ref)'
    BY <1>1, <2>2, SettledStays
  <2>4. m = unit[k]' /\ ref = Ref(k, d, r)'
    BY <1>2, <2>1
  <2> QED
    BY <2>3, <2>4
<1>4. SettledInv'
  BY <1>2, <1>3 DEF SettledInv
<1>5. ReportInv'
  <2>1. verdict' = verdict \cup {} /\ {} \cap SigErrors = {}
    OBVIOUS
  <2> QED
    BY <1>1, <2>1, ReportsStay DEF Resolving
<1> QED
  BY <1>4, <1>5, AliasesStay DEF Resolving

(* What a type holds changes with the mentions that are through only.      *)
LEMMA SameHeld ==
  ASSUME Resolving, UNCHANGED <<program, unit, aliasType>>, NEW k, NEW d
  PROVE  HeldBy(k, d)' = HeldOf(k, d, {r \in Refs(k, d) : Resolved(k, d, r)'})
<1> DEFINE D(r) == Denoted(unit[k], Ref(k, d, r))
           R == {r \in Refs(k, d) : Resolved(k, d, r)'}
<1>1. /\ Refs(k, d)' = Refs(k, d) /\ \A r : Ref(k, d, r)' = Ref(k, d, r)
  BY SameScopes
<1>2. \A m, ref : Denoted(m, ref)' = Denoted(m, ref)
  BY SameDenoted DEF Typed
<1>3. ASSUME NEW r PROVE D(r)' = D(r)
  <2>1. PICK m, ref : m = unit[k] /\ ref = Ref(k, d, r)
    OBVIOUS
  <2>2. m = unit[k]' /\ ref = Ref(k, d, r)'
    BY <1>1, <2>1
  <2>3. D(r)' = Denoted(m, ref)'
    BY <2>2
  <2> QED
    BY <1>2, <2>1, <2>3
<1>4. HeldBy(k, d)' = UNION {ByValue(D(r)') : r \in R}
  BY <1>1 DEF HeldBy, HeldOf, ByValue
<1>5. HeldOf(k, d, R) = UNION {ByValue(D(r)) : r \in R}
  BY DEF HeldOf
<1> HIDE DEF D, R
<1>6. HeldBy(k, d)' = HeldOf(k, d, R)
  BY <1>3, <1>4, <1>5
<1> QED
  BY <1>6 DEF R

(* A chain begins where a mention is first looked at: empty, or with the   *)
(* alias whose declaration that is.                                        *)
LEMMA NewChains ==
  ASSUME Resolving, AtDecl, UNCHANGED <<program, unit>>, job'.i = job.i, job'.d = job.d
  PROVE  /\ Env' = Env /\ Decl' = Decl /\ Key' = Key
         /\ ChainOf(<< >>)'
         /\ Decl.kind = "alias" => ChainOf(<<Key>>)'
<1>1. /\ Env \in Elements(unit) /\ LoadInv /\ HasUnit /\ ScopesAgree
      /\ Decl.kind = "alias" => Key \in Aliases /\ Key[1] = Env
  BY DeclFacts, DeclarationFacts DEF Resolving
<1>2. Decl.kind = "alias" => Target(Key) \in Mentions(Env)
  BY <1>1, AliasFacts
<1>3. /\ \A m : Decls(m)' = Decls(m)
      /\ Aliases' = Aliases
      /\ \A m, S : Followed(m, S)' <=> Followed(m, S)
  BY SameScopes
<1>4. Env' = Env /\ Decl' = Decl /\ Key' = Key
  BY <1>3 DEF Env, Decl, Key
<1>5. \A S : Followed(Env, S)' <=> Followed(Env, S)
  <2>1. PICK m : m = Env
    OBVIOUS
  <2>2. \A S : Followed(Env, S)' <=> Followed(m, S)'
    BY <1>4, <2>1 DEF Followed, Meant, Seen, Mentions
  <2> QED
    BY <1>3, <2>1, <2>2
<1>6. PICK S \in SUBSET Aliases : Followed(Env, S)
  BY <1>1 DEF ScopesAgree
<1>7. ChainOf(<< >>)'
  <2>1. << >> \in Seq(Aliases) /\ Len(<< >>) = 0 /\ Elements(<< >>)' = {}
    BY EmptySeq DEF Elements
  <2>2. \E T \in SUBSET Aliases' : Followed(Env, T)' /\ Elements(<< >>)' \subseteq T
    BY <1>3, <1>5, <1>6, <2>1
  <2> QED
    BY <1>3, <2>1, <2>2 DEF ChainOf
<1>8. ASSUME Decl.kind = "alias" PROVE ChainOf(<<Key>>)'
  <2>1. PICK x : x = <<Key>>
    OBVIOUS
  <2>2. x \in Seq(Aliases) /\ Len(x) = 1 /\ x[1] = Key /\ Elements(x) = {Key}
    BY <1>1, <1>8, <2>1 DEF Elements
  <2>3. Followed(Env, S \cup {Key}) /\ S \cup {Key} \in SUBSET Aliases
    BY <1>1, <1>2, <1>6, <1>8 DEF Followed
  <2>4. \E T \in SUBSET Aliases' : Followed(Env, T)' /\ Elements(x)' \subseteq T
    BY <1>3, <1>5, <2>2, <2>3 DEF Elements
  <2>5. ChainOf(x)'
    BY <1>3, <1>4, <1>8, <2>2, <2>4 DEF ChainOf
  <2>6. <<Key>>' = x
    BY <1>4, <2>1
  <2> QED
    BY <2>5, <2>6
<1> QED
  BY <1>4, <1>7, <1>8

(* At the start of a declaration no mention is looked at.                  *)
LEMMA NotAtRef ==
  ASSUME LoadInv, HasUnit, SigInv', UNCHANGED <<program, unit>>, job'.r = 0
  PROVE  ~AtRef'
<1> SUFFICES ASSUME AtRef' PROVE FALSE
  OBVIOUS
<1>1. /\ \A m : Decls(m)' = Decls(m)
      /\ job' \in [i : Nat \ {0}, d : Nat \ {0}, r : Nat]
      /\ job'.i <= Len(unit) /\ job'.d <= Len(Decls(unit[job'.i])) /\ 0 \in DOMAIN Decls(unit[job'.i])[job'.d].refs
  BY SameScopes DEF AtRef, AtDecl, Working, Env, Decl, SigInv
<1>2. Len(unit) \in Nat /\ job'.i \in 1..Len(unit) /\ unit[job'.i] \in Modules
  BY <1>1, UnitFacts
<1>3. job'.d \in 1..Len(Decls(unit[job'.i]))
  BY <1>1, <1>2, DeclsTyped
<1>4. DOMAIN Decls(unit[job'.i])[job'.d].refs = 1..Len(Decls(unit[job'.i])[job'.d].refs)
  BY <1>2, <1>3, DeclsTyped
<1> QED
  BY <1>1, <1>4

(* A declaration is begun: a type holds nothing yet, an alias is asked for *)
(* unless it has its type.                                                 *)
LEMMA BeginMeans ==
  ASSUME Resolving, BeginDecl
  PROVE  Meaning'
<1> DEFINE skip == Decl.kind = "alias" /\ (Kind(Key) # "alias" \/ Key \in DOMAIN aliasType)
<1>1. /\ AtDecl /\ job.r = 0
      /\ UNCHANGED <<program, unit, stage, verdict, answer, aliasType>>
      /\ job' = IF skip THEN [job EXCEPT !.d = @ + 1] ELSE [job EXCEPT !.r = 1]
      /\ chain' = IF Decl.kind = "alias" /\ ~skip THEN <<Key>> ELSE << >>
      /\ holds' = IF Decl.kind = "type" THEN Extend(holds, {Key}, {}) ELSE holds
  BY DEF BeginDecl, sameNames, loadVars
<1>2. /\ job \in [i : Nat \ {0}, d : Nat \ {0}, r : Nat]
      /\ job.i \in 1..Len(unit) /\ job.d \in 1..Len(Decls(unit[job.i]))
      /\ Env = unit[job.i] /\ Env \in Elements(unit)
      /\ Decl = Decls(unit[job.i])[job.d] /\ Key = Declares(job.i, job.d)
      /\ Len(Decl.refs) \in Nat /\ DOMAIN Decl.refs = 1..Len(Decl.refs)
      /\ Kind(Key) = Decl.kind
      /\ Decl.kind = "alias" =>
            Key \in Aliases /\ Key[1] = Env /\ Len(Decl.refs) = 1 /\ Target(Key) = Decl.refs[1]
  BY <1>1, DeclFacts
<1>3. skip <=> Decl.kind = "alias" /\ Key \in Typed
  BY <1>2 DEF Typed
<1> HIDE DEF skip
<1>4. /\ job'.i = job.i
      /\ skip => job'.d = job.d + 1 /\ job'.r = 0
      /\ ~skip => job'.d = job.d /\ job'.r = 1
  BY <1>1, <1>2
<1>5. ~AtRef /\ answer = Pending
  BY <1>1, <1>2 DEF AtRef, Resolving, Meaning, AnswerInv
<1>6. LoadInv /\ SigInv /\ HasUnit /\ AliasInv /\ HoldsInv
  BY DeclarationFacts DEF Resolving, Meaning
<1>7. /\ \A k \in 1..Len(unit) : Len(Decls(unit[k])) \in Nat
      /\ \A k, l \in 1..Len(unit) : \A d \in 1..Len(Decls(unit[k])) :
            \A e \in 1..Len(Decls(unit[l])) : Declares(k, d) = Declares(l, e) => k = l /\ d = e
  BY DeclarationFacts
<1>8. ASSUME skip PROVE Settled(Env, Decl.refs[1])
  <2>1. Key \in Typed /\ Key \in Aliases /\ Key[1] = Env /\ Target(Key) = Decl.refs[1]
    BY <1>2, <1>3, <1>8
  <2>2. Denoted(Env, Decl.refs[1]) # NoType
    BY <1>6, <2>1 DEF AliasInv
  <2>3. \A s \in Meant(Env, Decl.refs[1]) : Kind(s) = "alias" => s \in Typed
    BY <1>2, <1>6, <2>2, DenotedTypes
  <2>4. \A S \in SUBSET Aliases : Circular(S) => Meant(Env, Decl.refs[1]) \cap S = {}
    BY <1>6, <2>3 DEF AliasInv, Aliases
  <2> QED
    BY <2>2, <2>3, <2>4 DEF Settled, Final, Waits
<1>9. ASSUME NEW k \in 1..Len(unit), NEW d \in 1..Len(Decls(unit[k])), NEW r \in Refs(k, d)
      PROVE  Resolved(k, d, r)' => Resolved(k, d, r) \/ (skip /\ k = job.i /\ d = job.d)
  BY <1>1, <1>2, <1>4 DEF Resolved, Refs
<1>10. ASSUME NEW k \in 1..Len(unit), NEW d \in 1..Len(Decls(unit[k])), NEW r \in Refs(k, d),
              skip, k = job.i, d = job.d
       PROVE  Settled(unit[k], Ref(k, d, r))
  <2>1. r = 1
    <3>1. Refs(k, d) = 1..Len(Decl.refs) /\ Len(Decl.refs) = 1
      BY <1>2, <1>3, <1>10 DEF Refs
    <3> QED
      BY <3>1
  <2> QED
    BY <1>2, <1>8, <1>10, <2>1 DEF Ref
<1>11. AliasInv' /\ SettledInv' /\ ReportInv'
  BY <1>1, <1>9, <1>10, JobsKeep
<1>12. HoldsInv'
  <2>1. /\ \A m : Decls(m)' = Decls(m)
        /\ \A k, d : Declares(k, d)' = Declares(k, d) /\ Refs(k, d)' = Refs(k, d)
    BY <1>1, SameScopes
  <2>2. ASSUME NEW k \in 1..Len(unit), NEW d \in 1..Len(Decls(unit[k]))
        PROVE  Entered(k, d)' <=> Entered(k, d) \/ (k = job.i /\ d = job.d)
    BY <1>1, <1>2, <1>4 DEF Entered
  <2>3. ASSUME NEW k \in 1..Len(unit), NEW d \in 1..Len(Decls(unit[k])),
               Entered(k, d)', Decls(unit[k])[d].kind = "type"
        PROVE  holds'[Declares(k, d)] = HeldBy(k, d)'
    <3>1. HeldBy(k, d)' = HeldOf(k, d, {r \in Refs(k, d) : Resolved(k, d, r)'})
      BY <1>1, SameHeld
    <3>2. CASE k = job.i /\ d = job.d
      <4>1. Decl.kind = "type" /\ ~skip /\ Key = Declares(k, d)
        BY <1>2, <1>3, <2>3, <3>2
      <4>2. \A r \in Refs(k, d) : ~Resolved(k, d, r)'
        BY <1>2, <1>4, <3>2, <4>1 DEF Resolved, Refs
      <4>3. HeldBy(k, d)' = {}
        BY <3>1, <4>2 DEF HeldOf
      <4> QED
        BY <1>1, <4>1, <4>3 DEF Extend
    <3>3. CASE ~(k = job.i /\ d = job.d)
      <4>1. Entered(k, d) /\ Declares(k, d) # Key
        <5>1. Declares(k, d) # Declares(job.i, job.d)
          BY <1>2, <1>7, <3>3
        <5> QED
          BY <1>2, <2>2, <2>3, <3>3, <5>1
      <4>2. \A r \in Refs(k, d) : Resolved(k, d, r)' <=> Resolved(k, d, r)
        <5>1. k \in Nat /\ d \in Nat /\ job.i \in Nat /\ job.d \in Nat
          BY <1>2, <1>6, <1>7, UnitFacts
        <5>2. k = job'.i /\ d < job'.d => k = job.i /\ d < job.d
          BY <1>4, <3>3, <5>1
        <5>3. k = job.i /\ d < job.d => k = job'.i /\ d < job'.d
          BY <1>4, <5>1
        <5>4. k = job'.i /\ d = job'.d => job'.r = 0
          BY <1>4, <3>3
        <5>5. \A r \in Refs(k, d) : ~(r < 0)
          BY <1>6, <1>7, DeclsTyped, UnitFacts DEF Refs
        <5> QED
          BY <1>4, <3>3, <5>2, <5>3, <5>4, <5>5 DEF Resolved
      <4>3. HeldBy(k, d)' = HeldBy(k, d)
        BY <3>1, <4>2 DEF HeldBy
      <4>4. holds[Declares(k, d)] = HeldBy(k, d) /\ Declares(k, d) \in Types
        BY <1>6, <2>3, <4>1 DEF HoldsInv, SigInv, Declares
      <4> QED
        BY <1>1, <4>1, <4>3, <4>4 DEF Extend, Types
    <3> QED
      BY <3>2, <3>3
  <2>4. ASSUME NEW t \in Types'
        PROVE  \E k \in 1..Len(unit) : \E d \in 1..Len(Decls(unit[k])) :
                  Entered(k, d)' /\ Decls(unit[k])[d].kind = "type" /\ t = Declares(k, d)
    <3>1. t \in Types \/ (t = Key /\ Decl.kind = "type")
      BY <1>1, <2>4 DEF Types, Extend
    <3> QED
      BY <1>2, <1>6, <2>2, <3>1 DEF HoldsInv
  <2>5. \A k \in 1..Len(unit') : \A d \in 1..Len(Decls(unit[k])') :
           Entered(k, d)' /\ Decls(unit[k])'[d].kind = "type" => holds'[Declares(k, d)'] = HeldBy(k, d)'
    BY <1>1, <2>1, <2>3
  <2>6. \A t \in Types' : \E k \in 1..Len(unit') : \E d \in 1..Len(Decls(unit[k])') :
           Entered(k, d)' /\ Decls(unit[k])'[d].kind = "type" /\ t = Declares(k, d)'
    BY <1>1, <2>1, <2>4
  <2> QED
    BY <2>5, <2>6 DEF HoldsInv
<1>13. ASSUME skip PROVE ChainInv' /\ AnswerInv'
  <2>1. chain' = << >> /\ answer' = Pending
    BY <1>1, <1>5, <1>13
  <2>2. ~AtRef'
    BY <1>1, <1>4, <1>6, <1>13, BeginKeepsTypes, NotAtRef
  <2> QED
    BY <2>1, <2>2 DEF ChainInv, AnswerInv, Pending, Type, Builtin
<1>14. ASSUME ~skip PROVE ChainInv' /\ AnswerInv'
  <2>1. /\ Env' = Env /\ Decl' = Decl /\ Key' = Key /\ Typed' = Typed
        /\ ChainOf(<< >>)'
        /\ Decl.kind = "alias" => ChainOf(<<Key>>)'
    BY <1>1, <1>4, <1>14, NewChains DEF Typed
  <2>2. answer' = Pending /\ Pending' = Pending
    BY <1>1, <1>5 DEF Pending, Type, Builtin
  <2>3. CASE Decl.kind = "alias"
    <3>1. chain' = <<Key>> /\ Key \notin Typed
      BY <1>1, <1>3, <1>14, <2>3
    <3>2. AtRef'
      <4>1. AtDecl'
        BY <1>1, <1>4, <1>14, <2>1, SameScopes DEF AtDecl, Working
      <4> QED
        BY <1>2, <1>4, <1>14, <2>1, <2>3, <4>1 DEF AtRef
    <3>3. ChainOf(chain)'
      BY <2>1, <2>3, <3>1
    <3>4. Len(chain') = 1 /\ chain'[1] = Key /\ chain' # << >>
      BY <3>1
    <3> QED
      BY <2>1, <2>2, <3>2, <3>3, <3>1, <3>4 DEF ChainInv, AnswerInv
  <2>4. CASE Decl.kind # "alias"
    <3>1. chain' = << >> /\ Len(chain') = 0
      BY <1>1, <2>4
    <3>2. ChainOf(chain)'
      BY <2>1, <3>1
    <3> QED
      BY <2>1, <2>2, <2>4, <3>1, <3>2 DEF ChainInv, AnswerInv
  <2> QED
    BY <2>3, <2>4
<1> QED
  BY <1>11, <1>12, <1>13, <1>14 DEF Meaning

(* A mention is through, and its owner holds what it denotes by value.     *)
LEMMA FinishMeans ==
  ASSUME Resolving, FinishRef
  PROVE  Meaning'
<1>1. /\ AtDecl /\ AtRef /\ job.r \in DOMAIN Decl.refs /\ answer # Pending /\ chain = << >>
      /\ UNCHANGED <<program, unit, stage, verdict, chain, aliasType>>
      /\ job' = [job EXCEPT !.r = @ + 1] /\ answer' = Pending
      /\ holds' = IF Decl.kind = "type" THEN [holds EXCEPT ![Key] = @ \cup ByValue(answer)] ELSE holds
  BY DEF FinishRef, AtRef, sameNames, loadVars
<1>2. /\ job \in [i : Nat \ {0}, d : Nat \ {0}, r : Nat]
      /\ job.i \in 1..Len(unit) /\ job.d \in 1..Len(Decls(unit[job.i]))
      /\ Env = unit[job.i] /\ Env \in Elements(unit)
      /\ Decl = Decls(unit[job.i])[job.d] /\ Key = Declares(job.i, job.d)
      /\ Len(Decl.refs) \in Nat /\ DOMAIN Decl.refs = 1..Len(Decl.refs)
      /\ Decl.kind = "alias" => Len(Decl.refs) = 1
  BY <1>1, DeclFacts
<1>3. /\ job'.i = job.i /\ job'.d = job.d /\ job'.r = job.r + 1 /\ job.r \in 1..Len(Decl.refs)
  BY <1>1, <1>2
<1>4. LoadInv /\ SigInv /\ HasUnit /\ HoldsInv /\ AnswerInv
  BY DeclarationFacts DEF Resolving, Meaning
<1>5. Settled(Env, Decl.refs[job.r]) /\ answer = Denoted(Env, Decl.refs[job.r])
  <2>1. Home = Env /\ Asked = Decl.refs[job.r]
    BY <1>1, AskedFacts
  <2> QED
    BY <1>1, <1>4, <2>1 DEF AnswerInv
<1>6. /\ Len(unit) \in Nat /\ \A k \in 1..Len(unit) : Len(Decls(unit[k])) \in Nat
      /\ \A k, l \in 1..Len(unit) : \A d \in 1..Len(Decls(unit[k])) :
            \A e \in 1..Len(Decls(unit[l])) : Declares(k, d) = Declares(l, e) => k = l /\ d = e
  BY DeclarationFacts
<1>7. ASSUME NEW k \in 1..Len(unit), NEW d \in 1..Len(Decls(unit[k])), NEW r \in Refs(k, d)
      PROVE  Resolved(k, d, r)' <=> Resolved(k, d, r) \/ (k = job.i /\ d = job.d /\ r = job.r)
  <2>1. r \in Nat
    <3>1. Len(Decls(unit[k])[d].refs) \in Nat
      BY DeclarationFacts
    <3> QED
      BY <3>1 DEF Refs
  <2>2. r < job.r + 1 <=> r < job.r \/ r = job.r
    BY <1>2, <2>1
  <2> QED
    BY <1>3, <2>2 DEF Resolved
<1>8. ASSUME NEW k \in 1..Len(unit), NEW d \in 1..Len(Decls(unit[k])), NEW r \in Refs(k, d),
             k = job.i, d = job.d, r = job.r
      PROVE  Settled(unit[k], Ref(k, d, r))
  BY <1>2, <1>5, <1>8 DEF Ref
<1>9. AliasInv' /\ SettledInv' /\ ReportInv'
  BY <1>1, <1>7, <1>8, JobsKeep
<1>10. HoldsInv'
  <2>1. /\ \A m : Decls(m)' = Decls(m)
        /\ \A k, d : Declares(k, d)' = Declares(k, d)
    BY <1>1, SameScopes
  <2>2. \A k, d : Entered(k, d)' <=> Entered(k, d)
    BY <1>3 DEF Entered
  <2>3. ASSUME NEW k \in 1..Len(unit), NEW d \in 1..Len(Decls(unit[k])),
               Entered(k, d), Decls(unit[k])[d].kind = "type"
        PROVE  holds'[Declares(k, d)] = HeldBy(k, d)'
    <3> DEFINE R == {r \in Refs(k, d) : Resolved(k, d, r)}
               S == {r \in Refs(k, d) : Resolved(k, d, r)'}
    <3>1. HeldBy(k, d)' = HeldOf(k, d, S)
      BY <1>1, SameHeld
    <3>2. holds[Declares(k, d)] = HeldOf(k, d, R) /\ Declares(k, d) \in Types
      BY <1>4, <2>3 DEF HoldsInv, SigInv, Declares, HeldBy
    <3>3. CASE k = job.i /\ d = job.d
      <4>1. Decl.kind = "type" /\ Key = Declares(k, d) /\ job.r \in Refs(k, d)
        BY <1>2, <1>3, <2>3, <3>3 DEF Refs
      <4>2. S = R \cup {job.r}
        BY <1>7, <3>3, <4>1
      <4>3. Denoted(unit[k], Ref(k, d, job.r)) = answer
        BY <1>2, <1>5, <3>3 DEF Ref
      <4> HIDE DEF R, S
      <4>4. HeldOf(k, d, S) = HeldOf(k, d, R) \cup ByValue(answer)
        BY <4>2, <4>3 DEF HeldOf
      <4> QED
        BY <1>1, <3>1, <3>2, <4>1, <4>4 DEF Types
    <3>4. CASE ~(k = job.i /\ d = job.d)
      <4>1. Declares(k, d) # Key
        BY <1>2, <1>6, <3>4
      <4>2. S = R
        BY <1>7, <3>4
      <4> HIDE DEF R, S
      <4> QED
        BY <1>1, <3>1, <3>2, <4>1, <4>2 DEF Types
    <3> QED
      BY <3>3, <3>4
  <2>4. Types' = Types
    BY <1>1 DEF Types
  <2>5. \A k \in 1..Len(unit') : \A d \in 1..Len(Decls(unit[k])') :
           Entered(k, d)' /\ Decls(unit[k])'[d].kind = "type" => holds'[Declares(k, d)'] = HeldBy(k, d)'
    BY <1>1, <2>1, <2>2, <2>3
  <2>6. \A t \in Types' : \E k \in 1..Len(unit') : \E d \in 1..Len(Decls(unit[k])') :
           Entered(k, d)' /\ Decls(unit[k])'[d].kind = "type" /\ t = Declares(k, d)'
    BY <1>1, <1>4, <2>1, <2>2, <2>4 DEF HoldsInv
  <2> QED
    BY <2>5, <2>6 DEF HoldsInv
<1>11. Env' = Env /\ Decl' = Decl /\ ChainOf(<< >>)'
  BY <1>1, <1>3, NewChains
<1>12. chain' = << >> /\ Len(chain') = 0 /\ ChainOf(chain)'
  BY <1>1, <1>11
<1>13. Decl.kind = "alias" => ~AtRef'
  BY <1>2, <1>3, <1>11 DEF AtRef
<1>14. ChainInv'
  BY <1>11, <1>12, <1>13 DEF ChainInv
<1>15. answer' = Pending'
  BY <1>1 DEF Pending, Type, Builtin
<1>16. AnswerInv'
  BY <1>12, <1>15 DEF AnswerInv
<1> QED
  BY <1>9, <1>10, <1>14, <1>16 DEF Meaning

(* A declaration or a module ends.                                         *)
LEMMA EndsMean ==
  ASSUME Resolving, EndDecl \/ EndModule
  PROVE  Meaning'
<1>1. /\ job.i <= Len(unit)
      /\ UNCHANGED <<program, unit, stage, verdict, chain, answer, aliasType, holds>>
      /\ \/ /\ AtDecl /\ job.r > Len(Decl.refs)
            /\ job' = [job EXCEPT !.d = @ + 1, !.r = 0]
         \/ job.d > Len(Decls(Env)) /\ job' = [i |-> job.i + 1, d |-> 1, r |-> 0]
  BY DEF EndDecl, EndModule, AtDecl, Working, sameNames, loadVars
<1>2. LoadInv /\ SigInv /\ HasUnit /\ HoldsInv /\ AnswerInv
  BY DeclarationFacts DEF Resolving, Meaning
<1>3. /\ job \in [i : Nat \ {0}, d : Nat \ {0}, r : Nat]
      /\ Len(unit) \in Nat /\ job.i \in 1..Len(unit) /\ Env = unit[job.i]
      /\ \A k \in 1..Len(unit) : Len(Decls(unit[k])) \in Nat
      /\ \A k \in 1..Len(unit) : \A d \in 1..Len(Decls(unit[k])) : Len(Decls(unit[k])[d].refs) \in Nat
  BY <1>1, <1>2, DeclarationFacts DEF SigInv, Env
<1>4. ASSUME NEW k \in 1..Len(unit), NEW d \in 1..Len(Decls(unit[k]))
      PROVE  /\ Entered(k, d)' <=> Entered(k, d)
             /\ \A r \in Refs(k, d) : Resolved(k, d, r)' <=> Resolved(k, d, r)
  <2>1. CASE AtDecl /\ job.r > Len(Decl.refs) /\ job' = [job EXCEPT !.d = @ + 1, !.r = 0]
    <3>1. job'.i = job.i /\ job'.d = job.d + 1 /\ job'.r = 0
      BY <1>3, <2>1
    <3>2. Decl = Decls(unit[job.i])[job.d] /\ Len(Decl.refs) \in Nat
      BY <2>1, DeclFacts
    <3>3. job.r > 0 /\ k \in Nat /\ d \in Nat
      BY <1>3, <2>1, <3>2
    <3>4. Entered(k, d)' <=> Entered(k, d)
      BY <1>3, <3>1, <3>3 DEF Entered
    <3>5. ASSUME NEW r \in Refs(k, d) PROVE Resolved(k, d, r)' <=> Resolved(k, d, r)
      <4>1. r \in Nat /\ (k = job.i /\ d = job.d => r < job.r)
        BY <1>3, <2>1, <3>2 DEF Refs
      <4> QED
        BY <1>3, <3>1, <3>3, <4>1 DEF Resolved
    <3> QED
      BY <3>4, <3>5
  <2>2. CASE job.d > Len(Decls(Env)) /\ job' = [i |-> job.i + 1, d |-> 1, r |-> 0]
    <3>1. job'.i = job.i + 1 /\ job'.d = 1 /\ job'.r = 0
      BY <2>2
    <3>2. k = job.i => d < job.d
      BY <1>3, <2>2
    <3>3. k \in Nat /\ d \in Nat \ {0}
      BY <1>3
    <3>4. Entered(k, d)' <=> Entered(k, d)
      BY <1>3, <3>1, <3>2, <3>3 DEF Entered
    <3>5. ASSUME NEW r \in Refs(k, d) PROVE Resolved(k, d, r)' <=> Resolved(k, d, r)
      <4>1. ~(r < 0)
        BY <1>3 DEF Refs
      <4> QED
        BY <1>3, <3>1, <3>2, <3>3, <4>1 DEF Resolved
    <3> QED
      BY <3>4, <3>5
  <2> QED
    BY <1>1, <2>1, <2>2
<1>5. AliasInv' /\ SettledInv' /\ ReportInv'
  BY <1>1, <1>4, JobsKeep
<1>6. HoldsInv'
  <2>1. /\ \A m : Decls(m)' = Decls(m)
        /\ \A k, d : Declares(k, d)' = Declares(k, d)
    BY <1>1, SameScopes
  <2>2. ASSUME NEW k \in 1..Len(unit), NEW d \in 1..Len(Decls(unit[k])),
               Entered(k, d), Decls(unit[k])[d].kind = "type"
        PROVE  holds'[Declares(k, d)] = HeldBy(k, d)'
    <3>1. HeldBy(k, d)' = HeldOf(k, d, {r \in Refs(k, d) : Resolved(k, d, r)'})
      BY <1>1, SameHeld
    <3>2. HeldBy(k, d)' = HeldBy(k, d)
      BY <1>4, <3>1 DEF HeldBy
    <3> QED
      BY <1>1, <1>2, <2>2, <3>2 DEF HoldsInv
  <2>3. Types' = Types
    BY <1>1 DEF Types
  <2>4. \A k \in 1..Len(unit') : \A d \in 1..Len(Decls(unit[k])') :
           Entered(k, d)' /\ Decls(unit[k])'[d].kind = "type" => holds'[Declares(k, d)'] = HeldBy(k, d)'
    BY <1>1, <1>4, <2>1, <2>2
  <2>5. \A t \in Types' : \E k \in 1..Len(unit') : \E d \in 1..Len(Decls(unit[k])') :
           Entered(k, d)' /\ Decls(unit[k])'[d].kind = "type" /\ t = Declares(k, d)'
    BY <1>1, <1>2, <1>4, <2>1, <2>3 DEF HoldsInv
  <2> QED
    BY <2>4, <2>5 DEF HoldsInv
<1>7. ~AtRef
  <2>1. CASE AtDecl /\ job.r > Len(Decl.refs)
    <3>1. DOMAIN Decl.refs = 1..Len(Decl.refs) /\ Len(Decl.refs) \in Nat
      BY <2>1, DeclFacts
    <3> QED
      BY <1>3, <2>1, <3>1 DEF AtRef
  <2>2. CASE job.d > Len(Decls(Env))
    BY <1>3, <2>2 DEF AtRef, AtDecl
  <2> QED
    BY <1>1, <2>1, <2>2
<1>8. chain' = << >> /\ answer' = Pending
  BY <1>1, <1>2, <1>7 DEF AnswerInv
<1>9. ~AtRef'
  <2>1. job'.r = 0
    <3>1. CASE job' = [job EXCEPT !.d = @ + 1, !.r = 0]
      BY <1>3, <3>1
    <3>2. CASE job' = [i |-> job.i + 1, d |-> 1, r |-> 0]
      BY <3>2
    <3> QED
      BY <1>1, <3>1, <3>2
  <2> QED
    BY <1>1, <1>2, <2>1, EndsKeepTypes, NotAtRef
<1>10. ChainInv' /\ AnswerInv'
  BY <1>8, <1>9 DEF ChainInv, AnswerInv, Pending, Type, Builtin
<1> QED
  BY <1>5, <1>6, <1>10 DEF Meaning

-----------------------------------------------------------------------------
(* A step that resolves nothing keeps what the mentions mean.              *)
LEMMA StillMeans ==
  ASSUME Meaning, UNCHANGED <<program, unit, sigVars>>,
         NEW errors \in {{}, {"SIG-0040"}}, verdict' = verdict \cup errors,
         stage' = stage \/ (~AtRef /\ ~AtRef')
  PROVE  Meaning'
<1>1. UNCHANGED <<job, chain, answer, aliasType, holds>> /\ verdict \subseteq verdict'
  BY DEF sigVars
<1>2. \A m, ref : Final(m, ref) => Final(m, ref)' /\ Denoted(m, ref)' = Denoted(m, ref)
  BY <1>1, FinalStays
<1>3. AliasInv' /\ SettledInv' /\ HoldsInv'
  BY <1>1, <1>2, AliasesStay, OthersStay
<1>4. ReportInv'
  <2>1. "SIG-0020" \notin errors /\ errors \cap SigErrors = {}
    BY DEF SigErrors
  <2> QED
    BY <1>2, <2>1, ReportsStay
<1>5. Typed' = Typed /\ Pending' = Pending
  BY <1>1 DEF Typed, Pending, Type, Builtin
<1>6. ChainInv /\ AnswerInv
  BY DEF Meaning
<1>7. CASE stage' = stage
  <2>1. /\ Decl' = Decl /\ (AtRef' <=> AtRef) /\ Home' = Home /\ Asked' = Asked
        /\ ChainOf(chain)' <=> ChainOf(chain)
    BY <1>1, <1>7, SamePlace, SameChains
  <2>2. ChainInv'
    BY <1>1, <1>5, <1>6, <2>1 DEF ChainInv
  <2>3. AnswerInv'
    <3>1. CASE AtRef /\ answer # Pending
      <4>1. PICK m, ref : m = Home /\ ref = Asked
        OBVIOUS
      <4>2. Settled(m, ref) /\ answer = Denoted(m, ref)
        BY <1>6, <3>1, <4>1 DEF AnswerInv
      <4>3. Settled(m, ref)' /\ Denoted(m, ref)' = Denoted(m, ref)
        BY <1>1, <1>2, <4>2, SettledStays DEF Settled
      <4>4. m = Home' /\ ref = Asked'
        BY <2>1, <4>1
      <4> QED
        BY <1>1, <1>5, <2>1, <3>1, <4>2, <4>3, <4>4 DEF AnswerInv
    <3>2. CASE ~(AtRef /\ answer # Pending)
      BY <1>1, <1>5, <1>6, <2>1, <3>2 DEF AnswerInv
    <3> QED
      BY <3>1, <3>2
  <2> QED
    BY <1>3, <1>4, <2>2, <2>3 DEF Meaning
<1>8. CASE ~AtRef /\ ~AtRef'
  <2>1. chain' = << >> /\ answer' = Pending'
    BY <1>1, <1>5, <1>6, <1>8 DEF AnswerInv
  <2>2. ChainInv' /\ AnswerInv'
    BY <1>8, <2>1 DEF ChainInv, AnswerInv
  <2> QED
    BY <1>3, <1>4, <2>2 DEF Meaning
<1> QED
  BY <1>7, <1>8

(* Before the first declaration nothing is resolved.                       *)
LEMMA NothingResolved ==
  /\ LoadInv /\ HasUnit
  /\ job = [i |-> 1, d |-> 1, r |-> 0] /\ Types = {} /\ DOMAIN aliasType = {}
  /\ answer = Pending /\ chain = << >> /\ verdict \cap SigCodes = {}
  => Meaning
<1> SUFFICES ASSUME LoadInv, HasUnit,
                    job = [i |-> 1, d |-> 1, r |-> 0], Types = {}, DOMAIN aliasType = {},
                    answer = Pending, chain = << >>, verdict \cap SigCodes = {}
             PROVE  Meaning
  OBVIOUS
<1>1. job.i = 1 /\ job.d = 1 /\ job.r = 0
  OBVIOUS
<1>2. /\ Len(unit) \in Nat /\ \A k \in 1..Len(unit) : unit[k] \in Modules
      /\ \A k \in 1..Len(unit) : Len(Decls(unit[k])) \in Nat
      /\ \A k \in 1..Len(unit) : \A d \in 1..Len(Decls(unit[k])) :
            /\ Len(Decls(unit[k])[d].refs) \in Nat
            /\ DOMAIN Decls(unit[k])[d].refs = 1..Len(Decls(unit[k])[d].refs)
  BY UnitFacts, DeclsTyped
<1>3. ~AtRef
  <2> SUFFICES ASSUME AtRef PROVE FALSE
    OBVIOUS
  <2>1. 1 <= Len(unit) /\ 1 <= Len(Decls(unit[1])) /\ 0 \in DOMAIN Decls(unit[1])[1].refs
    BY <1>1 DEF AtRef, AtDecl, Working, Env, Decl
  <2>2. 1 \in 1..Len(unit) /\ 1 \in 1..Len(Decls(unit[1]))
    BY <1>2, <2>1
  <2>3. DOMAIN Decls(unit[1])[1].refs = 1..Len(Decls(unit[1])[1].refs)
    BY <1>2, <2>2
  <2> QED
    BY <2>1, <2>3
<1>4. ChainInv /\ AnswerInv
  BY <1>3 DEF ChainInv, AnswerInv
<1>5. AliasInv
  BY DEF AliasInv, Typed
<1>6. ASSUME NEW k \in 1..Len(unit), NEW d \in 1..Len(Decls(unit[k]))
      PROVE  ~Entered(k, d) /\ \A r \in Refs(k, d) : ~Resolved(k, d, r)
  <2>1. k \in Nat /\ d \in Nat /\ ~(k < 1) /\ ~(d < 1)
    BY <1>2
  <2>2. \A r \in Refs(k, d) : ~(r < 0)
    BY <1>2 DEF Refs
  <2> QED
    BY <1>1, <2>1, <2>2 DEF Entered, Resolved
<1>7. SettledInv /\ HoldsInv
  BY <1>6 DEF SettledInv, HoldsInv
<1>8. ReportInv
  BY DEF ReportInv, SigCodes, SigErrors
<1> QED
  BY <1>4, <1>5, <1>7, <1>8 DEF Meaning

(* Loading and naming report nothing of signatures.                        *)
LEMMA EarlyReports ==
  ASSUME LoadInv, LoadNext \/ NameNext, verdict \cap SigCodes = {}
  PROVE  verdict' \cap SigCodes = {}
<1> USE DEF SigCodes, SigErrors
<1>1. CASE LoadNext
  <2>1. CASE ImportCycle
    BY <2>1 DEF ImportCycle, Raise
  <2>2. CASE NotFound
    BY <2>2 DEF NotFound, Raise
  <2>3. CASE NotUtf8
    BY <2>3 DEF NotUtf8, Raise
  <2>4. CASE WrongName
    BY <2>4 DEF WrongName
  <2>5. CASE CacheHit \/ Parse \/ Loaded \/ WalkInto \/ WalkBack \/ Collected
    BY <2>5 DEF CacheHit, Parse, Loaded, WalkInto, WalkBack, Collected
  <2> QED
    BY <1>1, <2>1, <2>2, <2>3, <2>4, <2>5 DEF LoadNext
<1>2. CASE NameNext
  BY <1>2 DEF NameNext, CollectLocals, AllCollected, OpenAgain, OpenImport, ModuleOpened, AllOpened
<1> QED
  BY <1>1, <1>2

(* Once there is a unit errors only add up.                                *)
LEMMA ErrorsAddUp ==
  ASSUME NameNext \/ SigNext \/ AllSigned \/ Sort \/ CyclesChecked \/ Emitted
  PROVE  verdict \subseteq verdict'
<1>1. CASE NameNext
  BY <1>1 DEF NameNext, CollectLocals, AllCollected, OpenAgain, OpenImport, ModuleOpened, AllOpened
<1>2. CASE NamesBuiltin \/ Unknown \/ NotAType \/ NamesType \/ Known \/ CyclicAlias
  <2>1. \E t, errors : Answer(t, errors)
    BY <1>2 DEF NamesBuiltin, Unknown, NotAType, NamesType, Known, CyclicAlias
  <2> QED
    BY <2>1 DEF Answer, Report
<1>3. CASE Return
  BY <1>3 DEF Return, Report
<1>4. CASE Follow \/ BeginDecl \/ FinishRef \/ EndDecl \/ EndModule
  BY <1>4 DEF Follow, BeginDecl, FinishRef, EndDecl, EndModule
<1>5. CASE AllSigned \/ Sort \/ CyclesChecked \/ Emitted
  BY <1>5 DEF AllSigned, Sort, CyclesChecked, Emitted
<1> QED
  BY <1>1, <1>2, <1>3, <1>4, <1>5 DEF SigNext

-----------------------------------------------------------------------------
(* Names that a module declares twice are reported before imports open.    *)
LEMMA OnceAgain ==
  ASSUME LoadInv, NameInv, SigInv, OnceInv, [Next]_vars
  PROVE  OnceInv'
<1>1. CASE LoadNext /\ UNCHANGED <<nameVars, sigVars, sortVars>>
  <2>1. /\ stage \in {"loading", "walking"} /\ stage' \in {"loading", "walking", "refused", "naming"}
        /\ at' = at
    BY <1>1, LoadSteps DEF nameVars
  <2>2. at.i = 1
    BY <2>1 DEF NameInv
  <2>3. \A k \in 1..Len(unit') : ~(k < at'.i)
    BY <2>1, <2>2
  <2>4. ~(HasUnit' /\ stage' # "naming")
    BY <2>1 DEF HasUnit
  <2> QED
    BY <2>3, <2>4 DEF OnceInv
<1>2. CASE HasUnit /\ HasUnit' /\ UNCHANGED <<program, unit>> /\ verdict \subseteq verdict'
           /\ ((stage' = stage /\ at' = at) \/ (stage # "naming" /\ stage' # "naming"))
  <2>1. Unique' => Unique
    BY <1>2 DEF Unique
  <2>2. \A m : Twice(m)' <=> Twice(m)
    BY <1>2 DEF Twice, Decls
  <2> QED
    BY <1>2, <2>1, <2>2 DEF OnceInv
<1>3. CASE CollectLocals
  <2>1. /\ stage = "naming" /\ stage' = "naming" /\ program' = program /\ unit' = unit
        /\ verdict' = verdict \cup (IF Twice(unit[at.i]) THEN {"RES-0010"} ELSE {})
        /\ at' = [at EXCEPT !.i = @ + 1]
    BY <1>3 DEF CollectLocals, loadVars
  <2>2. at \in [i : Nat \ {0}, j : Nat \ {0}] /\ Len(unit) \in Nat
    BY <2>1, UnitFacts DEF NameInv, NameTypes, HasUnit
  <2>3. at'.i = at.i + 1
    BY <2>1, <2>2
  <2>4. Unique' => Unique /\ ~Twice(unit[at.i])
    BY <2>1 DEF Unique
  <2>5. \A k : Twice(unit[k])' <=> Twice(unit[k])
    BY <2>1 DEF Twice, Decls
  <2>6. ASSUME Unique', NEW k \in 1..Len(unit), k < at.i + 1 PROVE ~Twice(unit[k])
    <3>1. k < at.i \/ k = at.i
      BY <2>2, <2>6
    <3> QED
      BY <2>1, <2>4, <2>6, <3>1 DEF OnceInv
  <2>7. Unique' => \A k \in 1..Len(unit') : k < at'.i => ~Twice(unit[k])'
    BY <2>1, <2>3, <2>5, <2>6
  <2> QED
    BY <2>1, <2>7 DEF OnceInv
<1>4. CASE AllCollected
  <2>1. /\ stage = "naming" /\ stage' = "opening" /\ program' = program /\ unit' = unit
        /\ verdict' = verdict /\ at.i > Len(unit)
    BY <1>4 DEF AllCollected, loadVars
  <2>2. at \in [i : Nat \ {0}, j : Nat \ {0}] /\ Len(unit) \in Nat
    BY <2>1, UnitFacts DEF NameInv, NameTypes, HasUnit
  <2>3. \A k \in 1..Len(unit) : k < at.i
    BY <2>1, <2>2
  <2>4. Unique => \A k \in 1..Len(unit) : ~Twice(unit[k])
    BY <2>1, <2>3 DEF OnceInv
  <2>5. \A m : Twice(m)' <=> Twice(m)
    BY <2>1 DEF Twice, Decls
  <2>6. Unique' => Unique
    BY <2>1 DEF Unique
  <2> QED
    BY <2>1, <2>4, <2>5, <2>6 DEF OnceInv
<1>5. CASE OpenAgain \/ OpenImport \/ ModuleOpened \/ AllOpened
  <2>1. /\ stage = "opening" /\ stage' \in {"opening", "signatures"}
        /\ program' = program /\ unit' = unit /\ verdict' = verdict
    BY <1>5 DEF OpenAgain, OpenImport, ModuleOpened, AllOpened, Opening, loadVars
  <2>2. HasUnit /\ HasUnit'
    BY <2>1 DEF HasUnit
  <2> QED
    BY <1>2, <2>1, <2>2
<1>6. CASE SigNext \/ AllSigned \/ Sort \/ CyclesChecked \/ Emitted
  <2>1. HasNames /\ HasNames' /\ UNCHANGED <<program, unit>> /\ verdict \subseteq verdict'
    BY <1>6, AfterNames, ErrorsAddUp DEF loadVars
  <2> QED
    BY <1>2, <2>1 DEF HasNames
<1>7. CASE UNCHANGED vars
  <2>1. UNCHANGED <<program, unit, stage, verdict, at>>
    BY <1>7 DEF vars, loadVars, nameVars
  <2>2. (\A m : Twice(m)' <=> Twice(m)) /\ (Unique' <=> Unique) /\ (HasUnit' <=> HasUnit)
    BY <2>1 DEF Twice, Decls, Unique, HasUnit
  <2> QED
    BY <2>1, <2>2 DEF OnceInv
<1> QED
  BY <1>1, <1>3, <1>4, <1>5, <1>6, <1>7 DEF Next, NameNext, Finished

(* Until names are resolved no signature is.                               *)
LEMMA EarlyAgain ==
  ASSUME LoadInv, NameInv, EarlyInv, [Next]_vars
  PROVE  EarlyInv'
<1>1. CASE LoadNext /\ UNCHANGED <<nameVars, sigVars, sortVars>>
  <2>1. ~HasNames
    BY <1>1, LoadSteps DEF HasNames, HasUnit
  <2> QED
    BY <1>1, <2>1, EarlyReports DEF EarlyInv, sigVars, SigCodes, SigErrors
<1>2. CASE NameNext /\ UNCHANGED <<sigVars, sortVars>>
  <2>1. ~HasNames
    BY <1>2 DEF NameNext, CollectLocals, AllCollected, OpenAgain, OpenImport, ModuleOpened,
                AllOpened, Opening, HasNames, HasUnit
  <2> QED
    BY <1>2, <2>1, EarlyReports DEF EarlyInv, sigVars, SigCodes, SigErrors
<1>3. CASE SigNext \/ AllSigned \/ Sort \/ CyclesChecked \/ Emitted
  BY <1>3, AfterNames DEF EarlyInv
<1>4. CASE UNCHANGED vars
  BY <1>4 DEF vars, sigVars, EarlyInv, HasNames, HasUnit, SigCodes, SigErrors
<1> QED
  BY <1>1, <1>2, <1>3, <1>4 DEF Next, Finished

(* The last module has opened its imports: resolution begins.              *)
LEMMA OpenedMeans ==
  ASSUME LoadInv, NameInv, SigInv, EarlyInv, NameNext, UNCHANGED <<sigVars, sortVars>>, HasNames'
  PROVE  Meaning'
<1>1. /\ stage = "opening" /\ stage' = "signatures" /\ UNCHANGED <<loadVars, nameVars, verdict>>
      /\ AllOpened
  BY DEF NameNext, CollectLocals, AllCollected, OpenAgain, OpenImport, ModuleOpened, AllOpened,
         Opening, HasNames, HasUnit
<1>2. ~HasNames /\ HasUnit'
  BY <1>1 DEF HasNames, HasUnit
<1>3. /\ job = [i |-> 1, d |-> 1, r |-> 0] /\ Types = {} /\ DOMAIN aliasType = {}
      /\ answer = Pending /\ chain = << >> /\ verdict \cap SigCodes = {}
  BY <1>2 DEF SigInv, EarlyInv
<1>4. /\ job' = [i |-> 1, d |-> 1, r |-> 0] /\ Types' = {} /\ DOMAIN aliasType' = {}
      /\ answer' = Pending' /\ chain' = << >> /\ (verdict \cap SigCodes)' = {}
  BY <1>1, <1>3 DEF sigVars, Types, Pending, Type, Builtin, SigCodes, SigErrors
<1>5. LoadInv'
  BY NextLoading DEF Next
<1> HIDE DEF Types, Pending, Meaning
<1>6. (/\ LoadInv /\ HasUnit
       /\ job = [i |-> 1, d |-> 1, r |-> 0] /\ Types = {} /\ DOMAIN aliasType = {}
       /\ answer = Pending /\ chain = << >> /\ verdict \cap SigCodes = {})' => Meaning'
  BY NothingResolved, PTL
<1> QED
  BY <1>2, <1>4, <1>5, <1>6

(* Every step of the resolution keeps what the mentions mean.              *)
LEMMA ResolutionMeans ==
  ASSUME Resolving, SigNext
  PROVE  Meaning'
BY BuiltinKeeps, NoTypeKeeps, TypeKeeps, CircleKeeps, FollowKeeps, ReturnKeeps, BeginMeans,
   FinishMeans, EndsMean DEF SigNext

(* Every step of the front end does.                                       *)
LEMMA NextMeans ==
  ASSUME LoadInv, NameInv, SigInv, MeaningInv, [Next]_vars
  PROVE  MeaningInv'
<1>1. OnceInv' /\ EarlyInv'
  BY OnceAgain, EarlyAgain DEF MeaningInv
<1>2. ASSUME HasNames', Unique', ScopesAgree' PROVE Meaning'
  <2>1. ASSUME HasNames, UNCHANGED <<program, unit>>, verdict \subseteq verdict'
        PROVE  Resolving
    <3>1. Unique
      BY <1>2, <2>1 DEF Unique
    <3>2. ScopesAgree
      BY <1>2, <2>1, SameScopes
    <3> QED
      BY <2>1, <3>1, <3>2 DEF Resolving, MeaningInv
  <2>2. CASE LoadNext /\ UNCHANGED <<nameVars, sigVars, sortVars>>
    BY <1>2, <2>2, LoadSteps DEF HasNames, HasUnit
  <2>3. CASE NameNext /\ UNCHANGED <<sigVars, sortVars>>
    BY <1>2, <2>3, OpenedMeans DEF MeaningInv
  <2>4. CASE SigNext
    <3>1. HasNames /\ UNCHANGED <<program, unit>> /\ verdict \subseteq verdict'
      BY <2>4, AfterNames, ErrorsAddUp DEF loadVars
    <3> QED
      BY <2>1, <2>4, <3>1, ResolutionMeans
  <2>5. CASE AllSigned \/ Sort \/ CyclesChecked \/ Emitted
    <3>1. HasNames /\ UNCHANGED <<program, unit>> /\ verdict \subseteq verdict'
      BY <2>5, AfterNames, ErrorsAddUp DEF loadVars
    <3>2. Meaning /\ UNCHANGED sigVars
      BY <2>1, <2>5, <3>1 DEF Resolving, AllSigned, Sort, CyclesChecked, Emitted
    <3>3. \E errors \in {{}, {"SIG-0040"}} : verdict' = verdict \cup errors
      BY <2>5 DEF AllSigned, Sort, CyclesChecked, Emitted
    <3>4. ~AtRef /\ ~AtRef'
      <4>1. ~Working
        <5>1. CASE AllSigned
          <6>1. job.i \in Nat /\ Len(unit) \in Nat /\ job.i > Len(unit)
            BY <3>1, <5>1, UnitFacts DEF AllSigned, SigInv, HasNames
          <6> QED
            BY <6>1 DEF Working
        <5>2. CASE Sort \/ CyclesChecked \/ Emitted
          BY <5>2 DEF Sort, CyclesChecked, Emitted, Working
        <5> QED
          BY <2>5, <5>1, <5>2
      <4>2. stage' # "signatures"
        BY <2>5 DEF AllSigned, Sort, CyclesChecked, Emitted, Begin
      <4> QED
        BY <4>1, <4>2 DEF AtRef, AtDecl, Working
    <3> QED
      BY <3>1, <3>2, <3>3, <3>4, StillMeans
  <2>6. CASE UNCHANGED vars
    <3>1. UNCHANGED <<program, unit, stage, verdict, sigVars>>
      BY <2>6 DEF vars, loadVars
    <3>2. HasNames /\ verdict' = verdict \cup {}
      BY <1>2, <3>1 DEF HasNames, HasUnit
    <3>3. Meaning
      BY <2>1, <3>1, <3>2 DEF Resolving
    <3> QED
      BY <3>1, <3>2, <3>3, StillMeans
  <2> QED
    BY <2>2, <2>3, <2>4, <2>5, <2>6 DEF Next, Finished
<1> QED
  BY <1>1, <1>2 DEF MeaningInv

(* Nothing means anything at first.                                        *)
LEMMA InitMeans == Init => MeaningInv
BY DEF Init, LoadInit, SigInit, MeaningInv, OnceInv, EarlyInv, HasNames, HasUnit

-----------------------------------------------------------------------------
(* When all mentions are through, all are settled.                         *)
LEMMA AllSettled ==
  ASSUME Resolving, HasTypes
  PROVE  /\ \A k \in 1..Len(unit) : \A d \in 1..Len(Decls(unit[k])) :
               \A r \in Refs(k, d) : Resolved(k, d, r)
         /\ \A m \in Elements(unit) : \A ref \in Mentions(m) : Settled(m, ref)
<1>1. /\ Len(unit) \in Nat /\ Elements(unit) = {unit[k] : k \in 1..Len(unit)}
      /\ job.i \in Nat /\ job.i > Len(unit)
  BY DeclarationFacts DEF Resolving, SigInv
<1>2. \A k \in 1..Len(unit) : \A d \in 1..Len(Decls(unit[k])) :
         \A r \in Refs(k, d) : Resolved(k, d, r)
  BY <1>1 DEF Resolved
<1>3. ASSUME NEW m \in Elements(unit), NEW ref \in Mentions(m) PROVE Settled(m, ref)
  <2>1. PICK k \in 1..Len(unit) : m = unit[k]
    BY <1>1
  <2>2. unit[k] \in Modules /\ DOMAIN Decls(unit[k]) = 1..Len(Decls(unit[k]))
    BY DeclarationFacts, DeclsTyped DEF Resolving
  <2>3. PICK d \in 1..Len(Decls(unit[k])) : ref \in Elements(Decls(unit[k])[d].refs)
    BY <2>1, <2>2 DEF Mentions
  <2>4. DOMAIN Decls(unit[k])[d].refs = Refs(k, d)
    BY DeclarationFacts DEF Refs
  <2>5. PICK r \in Refs(k, d) : ref = Ref(k, d, r)
    BY <2>3, <2>4 DEF Elements, Ref
  <2> QED
    BY <1>2, <2>1, <2>5 DEF Resolving, Meaning, SettledInv
<1> QED
  BY <1>2, <1>3

(* Then a type holds what its fields mean by value.                        *)
LEMMA AllHeld ==
  ASSUME Resolving, HasTypes, NEW t \in Types
  PROVE  LET fields == {Denoted(t[1], ref) : ref \in Elements(DeclOf(t).refs)} IN
         holds[t] = {f.base : f \in {g \in fields : ~g.ptr /\ g.base[1] # ""}}
<1>0. PICK k \in 1..Len(unit) : \E d \in 1..Len(Decls(unit[k])) :
        Entered(k, d) /\ Decls(unit[k])[d].kind = "type" /\ t = Declares(k, d)
  BY DEF Resolving, Meaning, HoldsInv
<1>1. PICK d \in 1..Len(Decls(unit[k])) :
        Entered(k, d) /\ Decls(unit[k])[d].kind = "type" /\ t = Declares(k, d)
  BY <1>0
<1>2. t[1] = unit[k] /\ DeclOf(t) = Decls(unit[k])[d]
  BY <1>1, DeclarationFacts DEF Declares
<1>3. DOMAIN Decls(unit[k])[d].refs = Refs(k, d)
  BY DeclarationFacts DEF Refs
<1>4. holds[t] = HeldOf(k, d, Refs(k, d))
  <2>1. {r \in Refs(k, d) : Resolved(k, d, r)} = Refs(k, d)
    BY AllSettled
  <2> QED
    BY <1>1, <2>1 DEF Resolving, Meaning, HoldsInv, HeldBy
<1> DEFINE D(r)   == Denoted(unit[k], Ref(k, d, r))
           fields == {Denoted(t[1], ref) : ref \in Elements(DeclOf(t).refs)}
<1>5. fields = {D(r) : r \in Refs(k, d)}
  <2>1. Elements(DeclOf(t).refs) = {Ref(k, d, r) : r \in Refs(k, d)}
    BY <1>2, <1>3 DEF Elements, Ref
  <2> QED
    BY <1>2, <2>1
<1>6. holds[t] = UNION {ByValue(D(r)) : r \in Refs(k, d)}
  BY <1>4 DEF HeldOf
<1> HIDE DEF D, fields
<1>7. UNION {ByValue(D(r)) : r \in Refs(k, d)}
      = {f.base : f \in {g \in {D(r) : r \in Refs(k, d)} : ~g.ptr /\ g.base[1] # ""}}
  BY DEF ByValue
<1>8. holds[t] = {f.base : f \in {g \in fields : ~g.ptr /\ g.base[1] # ""}}
  BY <1>5, <1>6, <1>7
<1> QED
  BY <1>8 DEF fields

(* So aliases mean what they mean in their modules, and so do the fields   *)
(* of types.                                                               *)
LEMMA MeaningIsRight ==
  ASSUME LoadInv, NameInv, SigInv, MeaningInv, ScopesAgree
  PROVE  AliasMeansItsModule
<1> SUFFICES ASSUME Unique PROVE
       /\ \A a \in DOMAIN aliasType : aliasType[a] = Denoted(a[1], Target(a))
       /\ HasTypes => \A t \in DOMAIN holds :
             LET fields == {Denoted(t[1], ref) : ref \in Elements(DeclOf(t).refs)} IN
             holds[t] = {f.base : f \in {g \in fields : ~g.ptr /\ g.base[1] # ""}}
  BY DEF AliasMeansItsModule
<1>1. CASE ~HasNames
  BY <1>1 DEF SigInv, HasTypes
<1>2. CASE HasNames
  <2>1. Resolving
    BY <1>2 DEF Resolving, MeaningInv
  <2>2. \A a \in DOMAIN aliasType : aliasType[a] = Denoted(a[1], Target(a))
    BY <2>1 DEF Resolving, Meaning, AliasInv, Typed
  <2> QED
    BY <2>1, <2>2, AllHeld DEF Types
<1> QED
  BY <1>1, <1>2

(* And errors tell of circles and of mentions that mean no type.           *)
LEMMA ErrorsAreRight ==
  ASSUME LoadInv, NameInv, SigInv, MeaningInv, ScopesAgree
  PROVE  SignatureErrorsAreReal
<1> SUFFICES ASSUME HasTypes, Unique PROVE
       /\ "SIG-0020" \in verdict <=> \E S \in SUBSET Aliases : Circular(S)
       /\ "SIG-0020" \notin verdict =>
             (verdict \cap SigErrors # {} <=>
              \E m \in Elements(unit) : \E ref \in Mentions(m) : Denoted(m, ref) = NoType)
  BY DEF SignatureErrorsAreReal, SigErrors
<1>1. Resolving
  BY DEF Resolving, MeaningInv, HasTypes
<1>2. \A m \in Elements(unit) : \A ref \in Mentions(m) : Settled(m, ref)
  BY <1>1, AllSettled
<1>3. ReportInv /\ HasUnit
  BY <1>1, DeclarationFacts DEF Resolving, Meaning
<1>4. ASSUME NEW S \in SUBSET Aliases, Circular(S) PROVE "SIG-0020" \in verdict
  <2>1. PICK a \in S : TRUE
    BY <1>4 DEF Circular
  <2>2. a[1] \in Elements(unit) /\ Target(a) \in Mentions(a[1])
    BY <1>3, <2>1, AliasFacts
  <2>3. Settled(a[1], Target(a)) /\ Meant(a[1], Target(a)) \cap S # {}
    BY <1>2, <1>3, <1>4, <2>1, <2>2, CircularMeant
  <2> QED
    BY <1>4, <2>3 DEF Settled
<1>5. ASSUME "SIG-0020" \notin verdict, NEW m \in Elements(unit), NEW ref \in Mentions(m),
             Denoted(m, ref) = NoType
      PROVE  verdict \cap SigErrors # {}
  BY <1>2, <1>5 DEF Settled, SigCodes
<1> QED
  BY <1>3, <1>4, <1>5 DEF ReportInv, Fails

-----------------------------------------------------------------------------
(* What mentions mean at every moment of the front end.                    *)
THEOREM WhatIsMeant == Spec => [](LoadInv /\ NameInv /\ SigInv /\ MeaningInv)
<1>1. Init => LoadInv /\ NameInv /\ SigInv /\ MeaningInv
  BY InitLoading, InitNames, InitTypes, InitMeans
<1>2. LoadInv /\ NameInv /\ SigInv /\ MeaningInv /\ [Next]_vars
         => (LoadInv /\ NameInv /\ SigInv /\ MeaningInv)'
  BY NextLoading, NextNames, NextTypes, NextMeans
<1> QED
  BY <1>1, <1>2, PTL DEF Spec

(* In a program whose aliases mean abroad what they mean at home, every    *)
(* alias stands for the type its target names in its own module, whoever   *)
(* asked first, and a type holds by value what its fields mean there.      *)
THEOREM AliasesMeanTheirModule == Spec => [](ScopesAgree => AliasMeansItsModule)
<1>1. LoadInv /\ NameInv /\ SigInv /\ MeaningInv => (ScopesAgree => AliasMeansItsModule)
  BY MeaningIsRight
<1> QED
  BY <1>1, WhatIsMeant, PTL

(* In such a program aliases are called cyclic exactly when some of them   *)
(* name each other in a circle, and otherwise a name is reported exactly   *)
(* when a module mentions one that means no type there.                    *)
THEOREM SignatureErrorsAreDeserved == Spec => [](ScopesAgree => SignatureErrorsAreReal)
<1>1. LoadInv /\ NameInv /\ SigInv /\ MeaningInv => (ScopesAgree => SignatureErrorsAreReal)
  BY ErrorsAreRight
<1> QED
  BY <1>1, WhatIsMeant, PTL
=============================================================================
