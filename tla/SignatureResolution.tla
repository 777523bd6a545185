------------------------ MODULE SignatureResolution ------------------------
(* SignatureResolver.resolve (l0_signatures.py) with resolve_type_ref      *)
(* (l0_resolve.py): the type each mention of a type name stands for, in    *)
(* the order of the modules of the unit, their declarations and mentions.  *)
(*                                                                         *)
(* A mention is [name, path, ptr, null]: path is the module of a qualified *)
(* name or "", ptr and null tell whether * and ? follow.  A type is a base *)
(* (a declaration <<module, name>> or a builtin <<"", name>>) and whether  *)
(* there is a pointer on the way to it.  What a second declaration of a    *)
(* name does to the symbol of the first is left out: RES-0010 was reported.*)
EXTENDS NameResolution

VARIABLES
    job,        \* module (index of unit), declaration and mention at hand
    chain,      \* the aliases under resolution, innermost last
    answer,     \* what the innermost call has returned
    aliasType,  \* Symbol.type of the aliases resolved so far
    holds       \* type -> the types it holds by value (struct_infos, enum_infos)
sigVars == <<job, chain, answer, aliasType, holds>>

Builtins == {"int", "void"}
Builtin(n) == <<"", n>>
Type(base) == [base |-> base, ptr |-> FALSE]
Pending == Type(Builtin("pending"))
NoType  == Type(Builtin("none"))

(* Module names are not empty, keywords name no declaration, and an alias  *)
(* has one target.                                                         *)
ASSUME WordsAssumption ==
    /\ "" \notin Modules
    /\ Names \cap Builtins = {}
    /\ \A p \in Programs : \A m \in Modules : \A d \in DOMAIN p[m].decls :
          p[m].decls[d].kind = "alias" => Len(p[m].decls[d].refs) = 1

SigInit ==
    /\ job = [i |-> 1, d |-> 1, r |-> 0]
    /\ chain = << >> /\ answer = Pending
    /\ aliasType = [a \in {} |-> NoType]
    /\ holds = [t \in {} |-> {}]

-----------------------------------------------------------------------------
(* resolve_symbol: what a mention in module m names, as a set of at most   *)
(* one declaration <<module, name>>.                                       *)
(* Mutant: a qualified name needs no import. *)
Anywhere(m, ref) == {<<x, ref.name>> : x \in
    IF ref.path \in {"", m}
    THEN {visible[m][n] : n \in DOMAIN visible[m] \cap {ref.name}}
    ELSE {y \in Elements(unit) : y = ref.path /\ ref.name \in locals[y]}}

Symbols(m, ref) == {<<x, ref.name>> : x \in
    IF ref.path \in {"", m}
    THEN {visible[m][n] : n \in DOMAIN visible[m] \cap {ref.name}}
    ELSE {y \in Imports(m) : y = ref.path /\ ref.name \in locals[y]}}

(* The declaration of a symbol: the first of that name. *)
DeclOf(s) ==
    LET ds == Decls(s[1])
        named == {d \in DOMAIN ds : ds[d].name = s[2]}
    IN  ds[CHOOSE d \in named : \A e \in named : d <= e]
Kind(s)   == DeclOf(s).kind
Target(s) == DeclOf(s).refs[1]

(* The suffixes of a mention around the type it names.                     *)
Wrapped(t, ref) ==
    IF t = NoType THEN NoType
    ELSE IF t = Type(Builtin("void")) /\ ref.null /\ ~ref.ptr THEN NoType   \* SIG-0011
    ELSE [t EXCEPT !.ptr = @ \/ ref.ptr]

-----------------------------------------------------------------------------
Env  == unit[job.i]                  \* the environment names are looked up in
Decl == Decls(Env)[job.d]
Key  == <<Env, Decl.name>>

Working == stage = "signatures" /\ job.i <= Len(unit)
AtDecl  == Working /\ job.d <= Len(Decls(Env))
AtRef   == AtDecl /\ job.r \in DOMAIN Decl.refs
Asking  == AtRef /\ answer = Pending

(* The mention that is asked about: an alias on the chain asks for its     *)
(* target - in the environment of the module the chain began in.           *)
Asked == IF chain = << >> THEN Decl.refs[job.r] ELSE Target(Last(chain))
IsBuiltin == Asked.path = "" /\ Asked.name \in Builtins
Found == IF Asking /\ ~IsBuiltin THEN Symbols(Env, Asked) ELSE {}

Report(errors) == verdict' = verdict \cup errors
VoidError(t, ref) == IF t # NoType /\ Wrapped(t, ref) = NoType THEN {"SIG-0011"} ELSE {}

sameNames == <<loadVars, nameVars>>

(* A struct or enum gets its entry; an alias is asked for its own type,    *)
(* unless somebody did before.                                             *)
BeginDecl ==
    /\ AtDecl /\ job.r = 0
    /\ LET skip == Decl.kind = "alias" /\ (Kind(Key) # "alias" \/ Key \in DOMAIN aliasType)
       IN /\ job' = IF skip THEN [job EXCEPT !.d = @ + 1] ELSE [job EXCEPT !.r = 1]
          /\ chain' = IF Decl.kind = "alias" /\ ~skip THEN <<Key>> ELSE << >>
    /\ holds' = IF Decl.kind = "type" THEN Extend(holds, {Key}, {}) ELSE holds
    /\ UNCHANGED <<sameNames, stage, verdict, answer, aliasType>>

Answer(t, errors) ==
    /\ answer' = t
    /\ Report(errors)
    /\ UNCHANGED <<sameNames, stage, job, chain, aliasType, holds>>

NamesBuiltin ==
    /\ Asking /\ IsBuiltin
    /\ LET t == Type(Builtin(Asked.name)) IN Answer(Wrapped(t, Asked), VoidError(t, Asked))

Unknown == Asking /\ ~IsBuiltin /\ Found = {} /\ Answer(NoType, {"SIG-0019"})

NotAType  == \E s \in Found : Kind(s) = "value" /\ Answer(NoType, {"SIG-0010"})

NamesType == \E s \in Found : Kind(s) = "type" /\ Answer(Wrapped(Type(s), Asked), {})

(* _resolve_type_alias_symbol *)
Known == \E s \in Found :
    /\ Kind(s) = "alias" /\ s \in DOMAIN aliasType
    /\ Answer(Wrapped(aliasType[s], Asked), VoidError(aliasType[s], Asked))

CyclicAlias == \E s \in Found :
    /\ Kind(s) = "alias" /\ s \notin DOMAIN aliasType /\ s \in Elements(chain)
    /\ Answer(NoType, {"SIG-0020"})

Follow == \E s \in Found :
    /\ Kind(s) = "alias" /\ s \notin DOMAIN aliasType /\ s \notin Elements(chain)
    /\ chain' = Append(chain, s)
    /\ UNCHANGED <<sameNames, stage, verdict, job, answer, aliasType, holds>>

(* The call for the innermost alias returns to the mention that named it.  *)
Return ==
    /\ AtRef /\ answer # Pending /\ chain # << >>
    /\ LET a     == Last(chain)
           outer == Front(chain)
           own   == outer = << >> /\ Decl.kind = "alias"
           ref   == IF outer = << >> THEN Decl.refs[job.r] ELSE Target(Last(outer))
       IN /\ aliasType' = IF answer = NoType THEN aliasType ELSE Extend(aliasType, {a}, answer)
          /\ chain' = outer
          /\ answer' = IF own THEN answer ELSE Wrapped(answer, ref)
          /\ Report(IF own THEN {} ELSE VoidError(answer, ref))
    /\ UNCHANGED <<sameNames, stage, job, holds>>

(* Mutant: a pointer is a value. *)
AnyUse(t) == IF t.base[1] = "" THEN {} ELSE {t.base}

(* _extract_value_type_dependencies *)
ByValue(t) == IF t.ptr \/ t.base[1] = "" THEN {} ELSE {t.base}

FinishRef ==
    /\ AtRef /\ answer # Pending /\ chain = << >>
    /\ holds' = IF Decl.kind = "type" THEN [holds EXCEPT ![Key] = @ \cup ByValue(answer)]
                                      ELSE holds
    /\ answer' = Pending
    /\ job' = [job EXCEPT !.r = @ + 1]
    /\ UNCHANGED <<sameNames, stage, verdict, chain, aliasType>>

EndDecl ==
    /\ AtDecl /\ job.r > Len(Decl.refs)
    /\ job' = [job EXCEPT !.d = @ + 1, !.r = 0]
    /\ UNCHANGED <<sameNames, stage, verdict, chain, answer, aliasType, holds>>

EndModule ==
    /\ Working /\ job.d > Len(Decls(Env))
    /\ job' = [i |-> job.i + 1, d |-> 1, r |-> 0]
    /\ UNCHANGED <<sameNames, stage, verdict, chain, answer, aliasType, holds>>

SigNext == \/ BeginDecl \/ NamesBuiltin \/ Unknown \/ NotAType \/ NamesType
           \/ Known \/ CyclicAlias \/ Follow \/ Return \/ FinishRef
           \/ EndDecl \/ EndModule

-----------------------------------------------------------------------------
(* What a mention in module m means by the declarations that m sees: those *)
(* of a qualified import, or the only ones an unqualified name may come    *)
(* from.                                                                   *)
Seen(m, ref) ==
    IF ref.path \in {"", m}
    THEN {s \in Origins(m, ref.name) \X {ref.name} : Origins(m, ref.name) = {s[1]}}
    ELSE {s \in Imports(m) \X {ref.name} : s[1] = ref.path /\ s[2] \in Declared(s[1])}

Denoted(m, ref) ==
    LET s == CHOOSE x \in Seen(m, ref) : TRUE
        t == IF ref.path = "" /\ ref.name \in Builtins THEN Type(Builtin(ref.name))
             ELSE IF Seen(m, ref) = {} THEN NoType
             ELSE IF Kind(s) = "type" THEN Type(s)
             ELSE IF s \in DOMAIN aliasType THEN aliasType[s] ELSE NoType
    IN  IF t = NoType \/ (t = Type(Builtin("void")) /\ ref.null /\ ~ref.ptr) THEN NoType
        ELSE [base |-> t.base, ptr |-> t.ptr \/ ref.ptr]

Mentions(m) == UNION {Elements(Decls(m)[d].refs) : d \in DOMAIN Decls(m)}

Unique == "RES-0010" \notin verdict
HasTypes == HasNames /\ stage # "signatures"

(* An alias stands for the type that its target names in the module that   *)
(* declares it, whoever asked for it first; and a type holds by value what *)
(* its fields mean in its module, through any aliases and no pointer.      *)
AliasMeansItsModule ==
    Unique =>
        /\ \A a \in DOMAIN aliasType : aliasType[a] = Denoted(a[1], Target(a))
        /\ HasTypes => \A t \in DOMAIN holds :
              LET fields == {Denoted(t[1], ref) : ref \in Elements(DeclOf(t).refs)} IN
              holds[t] = {f.base : f \in {g \in fields : ~g.ptr /\ g.base[1] # ""}}

(* Aliases of the unit, each of which names another of them.               *)
Aliases == {a \in Elements(unit) \X Names : a[2] \in Declared(a[1]) /\ Kind(a) = "alias"}
Circular(S) == S # {} /\ \A a \in S : Seen(a[1], Target(a)) \cap S # {}

(* Aliases are called cyclic exactly when some of them name each other in  *)
(* a circle; otherwise a name is reported exactly when a module mentions   *)
(* one that means no type there.                                           *)
SignatureErrorsAreReal ==
    HasTypes /\ Unique =>
        /\ "SIG-0020" \in verdict <=> \E S \in SUBSET Aliases : Circular(S)
        /\ "SIG-0020" \notin verdict =>
              (verdict \cap {"SIG-0010", "SIG-0011", "SIG-0019"} # {} <=>
               \E m \in Elements(unit) : \E ref \in Mentions(m) : Denoted(m, ref) = NoType)
=============================================================================
