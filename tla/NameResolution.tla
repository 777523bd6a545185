--------------------------- MODULE NameResolution ---------------------------
(* NameResolver.resolve (l0_name_resolver.py): the names each module of    *)
(* the unit declares, and those its imports add to what it sees.           *)
EXTENDS ModuleLoading

CONSTANT Names     \* names that declarations may have

(* A file holds declarations: "type" (a struct or an enum), "alias" or     *)
(* "value" (a function, a let, a variant), with the types they mention.    *)
ASSUME DeclsAssumption ==
    \A p \in Programs : \A m \in Modules :
        p[m].decls \in Seq([kind : {"type", "alias", "value"}, name : Names,
                            refs : Seq([path : Modules \cup {""}, name : STRING,
                                        ptr : BOOLEAN, null : BOOLEAN])])

VARIABLES
    at,          \* the module (an index of unit) and the import at hand
    locals,      \* module -> the names it declares
    imported,    \* module -> name -> the first module that it came from
    visible,     \* module -> name -> the module it denotes (env.all)
    ambiguous    \* module -> name -> the modules it came from
nameVars == <<at, locals, imported, visible, ambiguous>>

Nothing == [n \in {} |-> Entry]
NameInit ==
    /\ at = [i |-> 1, j |-> 1]
    /\ locals = [m \in Modules |-> {}]
    /\ imported = [m \in Modules |-> Nothing]
    /\ visible = [m \in Modules |-> Nothing]
    /\ ambiguous = [m \in Modules |-> Nothing]

Extend(f, S, v) == [n \in DOMAIN f \cup S |-> IF n \in S THEN v ELSE f[n]]
Without(f, S)   == [n \in DOMAIN f \ S |-> f[n]]

Decls(m)    == program[m].decls
Declared(m) == {Decls(m)[d].name : d \in DOMAIN Decls(m)}
Twice(m)    == \E c, d \in DOMAIN Decls(m) : c # d /\ Decls(m)[c].name = Decls(m)[d].name

-----------------------------------------------------------------------------
(* _collect_locals: the first declaration of a name is kept. *)
CollectLocals ==
    /\ stage = "naming" /\ at.i <= Len(unit)
    /\ LET m == unit[at.i] IN
       /\ locals' = [locals EXCEPT ![m] = Declared(m)]
       /\ visible' = [visible EXCEPT ![m] = [n \in Declared(m) |-> m]]
       /\ verdict' = verdict \cup (IF Twice(m) THEN {"RES-0010"} ELSE {})
    /\ at' = [at EXCEPT !.i = @ + 1]
    /\ UNCHANGED <<loadVars, stage, imported, ambiguous>>

AllCollected ==
    /\ stage = "naming" /\ at.i > Len(unit)
    /\ stage' = "opening"
    /\ at' = [i |-> 1, j |-> 1]
    /\ UNCHANGED <<loadVars, verdict, locals, imported, visible, ambiguous>>

-----------------------------------------------------------------------------
(* _open_imports.  The driver has loaded every import, so that RES-0029    *)
(* cannot happen.                                                          *)
User == unit[at.i]
Opening == stage = "opening" /\ at.i <= Len(unit) /\ at.j <= Len(program[User].imports)
Opened  == program[User].imports[at.j]
Again   == \E k \in 1..(at.j - 1) : program[User].imports[k] = Opened

OpenAgain ==
    /\ Opening /\ Again                                       \* RES-0036
    /\ at' = [at EXCEPT !.j = @ + 1]
    /\ UNCHANGED <<loadVars, stage, verdict, locals, imported, visible, ambiguous>>

(* Names of Opened that a local of the user does not shadow: those not     *)
(* seen before and those that become ambiguous.                            *)
New == {n \in locals[Opened] \ locals[User] : n \notin DOMAIN imported[User]}
Clash == {n \in locals[Opened] \ locals[User] : n \in DOMAIN imported[User]}

(* Mutant: a name that is ambiguous is no longer an imported one. *)
Forgotten == Without(imported[User], Clash)

(* The first origin of an ambiguous name is kept: a third finds it.        *)
Remembered == imported[User]

OpenImport ==
    /\ Opening /\ ~Again
    /\ imported' = [imported EXCEPT ![User] = Extend(Remembered, New, Opened)]
    /\ visible' = [visible EXCEPT ![User] =
                       Extend(Without(visible[User], Clash), New, Opened)]
    /\ ambiguous' = [ambiguous EXCEPT ![User] =
                       [n \in DOMAIN ambiguous[User] \cup Clash |->
                            IF n \notin Clash THEN ambiguous[User][n]
                            ELSE IF n \in DOMAIN ambiguous[User]
                                 THEN Append(ambiguous[User][n], Opened)
                                 ELSE <<imported[User][n], Opened>>]]
    /\ at' = [at EXCEPT !.j = @ + 1]
    /\ UNCHANGED <<loadVars, stage, verdict, locals>>

ModuleOpened ==
    /\ stage = "opening" /\ at.i <= Len(unit) /\ at.j > Len(program[User].imports)
    /\ at' = [i |-> at.i + 1, j |-> 1]
    /\ UNCHANGED <<loadVars, stage, verdict, locals, imported, visible, ambiguous>>

AllOpened ==
    /\ stage = "opening" /\ at.i > Len(unit)
    /\ stage' = "signatures"
    /\ UNCHANGED <<loadVars, verdict, nameVars>>

NameNext == \/ CollectLocals \/ AllCollected
            \/ OpenAgain \/ OpenImport \/ ModuleOpened \/ AllOpened

-----------------------------------------------------------------------------
HasNames == HasUnit /\ stage \notin {"naming", "opening"}

(* The modules that an unqualified name may come from. *)
Origins(m, n) == IF n \in Declared(m) THEN {m}
                 ELSE {x \in Imports(m) : n \in Declared(x)}

(* A name is visible in a module exactly when the module declares it or    *)
(* exactly one of its imports does, and denotes that declaration; it is    *)
(* reported as ambiguous, with all its origins, exactly when several       *)
(* imports do - whatever the order of the imports and their repetitions.   *)
VisibleIsUnambiguous ==
    HasNames => \A m \in Elements(unit) : \A n \in Names :
        /\ n \in DOMAIN visible[m] <=> \E x \in Modules : Origins(m, n) = {x}
        /\ n \in DOMAIN visible[m] => Origins(m, n) = {visible[m][n]}
        /\ n \in DOMAIN ambiguous[m] <=>
               \E x, y \in Origins(m, n) : x # y
        /\ n \in DOMAIN ambiguous[m] => Elements(ambiguous[m][n]) = Origins(m, n)
=============================================================================
