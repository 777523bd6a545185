------------------------- MODULE MCCompiledFunction -------------------------
(* Families of function bodies for CompiledFunction.                       *)
EXTENDS CompiledFunction, TLC, SequencesExt

MCVarType == [n \in {"x", "a", "b", "z"} |-> "str"] @@
             [n \in {"o", "ao", "bo"} |-> "opt"] @@ [n \in {"p"} |-> "ptr"]

Cond == Test(<< >>)
Use(x) == Expr(Call(<<Var(x)>>))
Function(body) == [params |-> <<"x">>, result |-> "opt", body |-> body]

-----------------------------------------------------------------------------
(* The annotation of a C function: the strongest one there is, computed    *)
(* from the entry on until it no longer changes.                           *)
Both(a, b) == {G \cap H : G \in a, H \in b} \ {{}}

(* What two ways to one instruction have in common.                        *)
Join(a, b) ==
    LET plain == a.plain \cap b.plain
        both  == Both(a.held, b.held)
        free(c, x, y) == {G \cap y.plain : G \in {H \in x.held : \A K \in y.held : K \cap H = {}}}
    IN  [plain |-> plain,
         lent  |-> ((a.lent \cup a.plain) \cap (b.lent \cup b.plain)) \ plain,
         held  |-> (both \cup free(both, a, b) \cup free(both, b, a)) \ {{}},
         live  |-> Both(a.live, b.live)]

Merge(owns, j, a) ==
    IF j \notin DOMAIN owns THEN owns @@ (j :> a)
    ELSE IF owns[j] = a THEN owns ELSE [owns EXCEPT ![j] = Join(@, a)]

RECURSIVE Pass(_, _, _)
Pass(c, owns, i) ==
    IF i > Len(c.code) THEN owns
    ELSE IF i \notin DOMAIN owns THEN Pass(c, owns, i + 1)
    ELSE LET to == Leads(c.code, i, owns[i])
             next == FoldSet(LAMBDA x, f : Merge(f, x[1], x[2]), owns, to)
         IN  Pass(c, next, i + 1)

RECURSIVE Stable(_, _)
Stable(c, owns) ==
    LET next(f) == IF f = owns THEN f ELSE Stable(c, f)
    IN  After(Pass(c, owns, 1), next)

MCOwns(c, n) == Stable(c, 1 :> [Nothing EXCEPT !.lent = 1..n])

(* The annotation of the way down: what is known on every way to a node,   *)
(* and the longest way from there.                                         *)
Meeting(known, to) ==
    IF to[1] \notin DOMAIN known THEN known @@ (to[1] :> to[2])
    ELSE IF known[to[1]] \subseteq to[2] THEN known
    ELSE [known EXCEPT ![to[1]] = @ \cap to[2]]

RECURSIVE KnownPass(_, _, _)
KnownPass(c, known, nodes) ==
    IF nodes = << >> THEN known
    ELSE LET n == Head(nodes) IN
         IF n \notin DOMAIN known THEN KnownPass(c, known, Tail(nodes))
         ELSE LET to == Ways(c.code, n, known[n]) \cup
                        (IF c.code[n[1]].op \in Answers THEN {Answered(c.code, n, known[n])} ELSE {})
              IN  KnownPass(c, FoldSet(LAMBDA x, f : Meeting(f, x), known, to), Tail(nodes))

RECURSIVE KnownStable(_, _, _)
KnownStable(c, known, nodes) ==
    LET next(f) == IF f = known THEN f ELSE KnownStable(c, f, nodes)
    IN  After(KnownPass(c, known, nodes), next)

RECURSIVE LeftPass(_, _, _), LeftStable(_, _, _, _)
LeftPass(to, left, nodes) ==
    IF nodes = << >> THEN left
    ELSE LET n == Head(nodes)
             most == FoldSet(LAMBDA m, b : IF left[m] >= b THEN left[m] + 1 ELSE b, 0, to[n])
         IN  LeftPass(to, [left EXCEPT ![n] = most], Tail(nodes))

LeftStable(to, left, nodes, rounds) ==
    LET next(f) == IF f = left \/ rounds = 0 THEN f ELSE LeftStable(to, f, nodes, rounds - 1)
    IN  After(LeftPass(to, left, nodes), next)

MCFuel(c) ==
    LET up   == [i \in 1..(2 * Len(c.code)) |->
                    IF i <= Len(c.code) THEN <<i, "none">> ELSE <<i - Len(c.code), "no">>]
        left(known) ==
            LET down == SelectSeq(Reverse(up), LAMBDA n : n \in DOMAIN known)
                to   == [n \in DOMAIN known |-> {x[1] : x \in Ways(c.code, n, known[n])}]
                join(f) == [n \in DOMAIN known |-> [known |-> known[n], left |-> f[n]]]
            IN  After(LeftStable(to, [n \in DOMAIN known |-> 0], down, Len(c.code)), join)
    IN  After(KnownStable(c, <<1, "none">> :> {}, up), left)

-----------------------------------------------------------------------------
(* Every construct around every construct around every kind of exit.       *)

(* The construct kind around inner; it owns the string v (or the optional  *)
(* vo), and uses it after inner.                                           *)
Around(kind, v, vo, inner) ==
    LET own == <<Let(v, Mk)>> \o inner \o <<Use(v)>> IN
    CASE kind = "block"   -> Block(own)
      [] kind = "if"      -> If(Cond, Block(own), None)
      [] kind = "else"    -> If(Cond, Use("x"), Block(own))
      [] kind = "while"   -> While(Test(<<Mk>>), own)
      [] kind = "for"     -> For(Let(v, Mk), Test(<<Var(v)>>), Assign(v, Mk), inner)
      [] kind = "case"    -> Case(Var("x"), <<Block(own)>>, None)
      [] kind = "casenew" -> Case(Mk, <<Use("x")>>, Block(inner))
      [] kind = "match"   -> Match(Var("x"), <<Arm(v, inner), Arm("z", <<Use("z")>>),
                                               DeadArm(<<Use("x")>>)>>)
      [] kind = "with"    -> With(<<Item(Let(v, Mk), Use(v)), Item(Use("x"), Use("x"))>>,
                                  inner, None)
      [] kind = "withtry" -> With(<<Item(Let(vo, Maybe), None), Item(Let(v, Try(Maybe)), None)>>,
                                  inner, Block(<<Use(vo)>>))

Kinds == {"block", "if", "else", "while", "for", "case", "casenew", "match", "with", "withtry"}

(* No case or match below one that owns its scrutinee: that is a run apart.*)
Nestings == (Kinds \X Kinds) \ ({"casenew"} \X {"casenew", "case", "match"})

Leaves == {
    <<Return(Var("x"))>>,
    <<Let("z", Mk), Return(Var("z"))>>,
    <<Let("z", Try(Maybe)), Use("z")>>,
    <<Let("z", Var("x")), If(Cond, Break, None)>>,
    <<If(Cond, Block(<<Let("z", Mk), Continue>>), None)>>,
    <<Assign("x", Concat(Var("x"), Mk))>>,
    <<If(Cond, Return(Lit), Return(Var("x")))>>}

Nested(end) == {Function(<<Around(n[1], "a", "ao", <<Around(n[2], "b", "bo", leaf)>>)>> \o end) :
                n \in Nestings, leaf \in Leaves}

-----------------------------------------------------------------------------
(* A pointer dropped somewhere inside, and what becomes of it.             *)

DropLeaves == {
    <<Drop("p")>>,
    <<If(Cond, Drop("p"), None)>>,
    <<If(Cond, Block(<<Drop("p"), Return(Lit)>>), None), Use("p")>>,
    <<If(Cond, Block(<<Drop("p"), Break>>), None), Use("p")>>,
    <<If(Cond, Block(<<Drop("p"), Continue>>), None), Use("p")>>,
    <<Drop("p"), Assign("p", New)>>,
    <<If(Cond, Drop("p"), Drop("p")), If(Cond, Break, Assign("p", New))>>,
    <<Drop("p"), Let("z", Try(Maybe)), Assign("p", New)>>}

Dropping(end) == {Function(<<Let("p", New), Around(n[1], "a", "ao", <<Around(n[2], "b", "bo", leaf)>>)>>
                           \o end \o <<Return(Mk)>>) :
                  n \in Nestings, leaf \in DropLeaves}

-----------------------------------------------------------------------------
(* Every expression in every position. *)

Strings == {Var("x"), Mk, Lit, Try(Maybe), Try(Var("o")), Concat(Var("x"), Mk),
            Concat(Mk, Try(Maybe)), Concat(Concat(Mk, Mk), Var("x"))}

Holding(e) == {
    <<Let("z", e), Use("z")>>,
    <<Assign("x", e), Use("x")>>,
    <<Expr(e)>>,
    <<Return(e)>>,
    <<Expr(Call(<<e, Var("x"), Mk>>))>>,
    <<Case(e, <<Use("x"), Block(<<Let("z", e), Use("z")>>)>>, None)>>,
    <<Match(e, <<Arm("z", <<Use("z")>>), Arm("b", <<Return(Var("b"))>>)>>)>>,
    <<If(Test(<<e>>), Use("x"), None)>>,
    <<If(Or(And(Test(<<e>>), Test(<<Mk>>)), Test(<<e>>)), Return(Lit), Use("x"))>>,
    <<While(Or(Test(<<e>>), Test(<<Mk>>)), <<Let("z", e), Use("z")>>)>>,
    <<For(Let("z", e), Test(<<Concat(Var("z"), Mk)>>), Assign("z", e), <<If(Cond, Continue, Break)>>)>>,
    <<For(Assign("x", e), Cond, Expr(Call(<<e>>)), <<Use("x")>>)>>,
    <<With(<<Item(Let("z", e), Use("z")), Item(Let("a", e), Expr(Call(<<e, Var("a")>>)))>>, <<Use("z")>>, None)>>}

Expressions == {Function(<<Let("o", Maybe)>> \o body \o <<Return(Var("o"))>>) :
                body \in UNION {Holding(e) : e \in Strings}}

-----------------------------------------------------------------------------
(* with: items and cleanups that exit, around bodies that exit.            *)

Simple == {Use("x"), Return(Lit), Break, Continue}
Exits  == Simple \cup {If(Cond, Return(Null), None)}
Items == {Item(Let("a", Mk), Use("a")), Item(Return(Lit), Use("x")), Item(Break, Use("x")),
          Item(Expr(Try(Maybe)), Use("x"))}
Withs ==
    {With(<<Item(Use("x"), Use("x")), item>>, <<exit>>, None) : item \in Items, exit \in Exits}
    \cup {With(<<Item(Let("ao", Maybe), None)>>, <<exit>>, Block(<<Use("ao"), cleanup>>)) :
          exit \in Exits, cleanup \in Exits}
    \cup {With(<<Item(Let("a", Mk), first), Item(Use("x"), second)>>, <<exit>>, None) :
          first \in Simple, second \in Simple, exit \in Exits}

WithExits == {Function(<<While(Cond, <<Let("b", Mk), w, Use("b")>>), Return(Mk)>>) : w \in Withs}

(* A `?` in the condition of a loop, below a cleanup that exits.            *)
Asking == Test(<<Try(Maybe)>>)
AskingLoops == {While(Asking, << >>), While(Asking, <<Use("x")>>),
                For(None, Asking, None, <<Use("x")>>),
                For(None, Asking, Assign("x", Mk), <<If(Cond, Break, None)>>),
                For(None, Asking, Use("x"), <<Use("x"), Continue>>)}
ConditionExits ==
    {Function(<<While(Cond, <<With(<<Item(Use("x"), exit)>>, <<loop>>, None)>>), Return(Mk)>>) :
     loop \in AskingLoops, exit \in {Use("x"), Break, Return(Lit)}}

-----------------------------------------------------------------------------
(* A cleanup block that falls through, behind a body of any exit; a name   *)
(* that is declared again below its own declaration.                       *)
Cleanups ==
    {Function(<<While(Cond, <<With(<<Item(Let("ao", Maybe), None)>>, leaf,
                                   Block(<<Around(k, "b", "bo", <<Use("x")>>)>>))>>),
                Return(Mk)>>) : k \in Kinds \ {"withtry"}, leaf \in Leaves}

Shadows == {Function(<<Let("a", Mk), Around(k, "a", "ao", <<Use("x")>>), Return(Var("a"))>>) :
            k \in Kinds}

(* Families, each compiled by itself: TLC sorts a set when it builds it,   *)
(* to a depth that grows with the size of the set.                         *)
CompileAll(bodies) == {Compiled(f) : f \in bodies}

MCPrograms ==
    LET families == {CompileAll(Cleanups), CompileAll(Shadows),
                     CompileAll(Nested(<<Return(Mk)>>)), CompileAll(Nested(<< >>)),
                     CompileAll(Dropping(<<Use("p")>>)),
                     CompileAll(Dropping(<<Assign("p", New), Drop("p")>>)),
                     CompileAll(Expressions), CompileAll(WithExits), CompileAll(ConditionExits)}
    IN  families

-----------------------------------------------------------------------------
(* The shape left out above, for a run of its own: an early exit from      *)
(* below two owners of one C name.                                         *)
EarlyExits ==
    {Function(<<Around("casenew", "a", "ao", <<Around(k, "b", "bo", leaf)>>), Return(Mk)>>) :
     k \in {"casenew", "case"}, leaf \in Leaves}
    \cup {Function(<<Let("a", Mk), Around(k, "a", "ao", leaf), Return(Var("a"))>>) :
          k \in Kinds \ {"casenew"}, leaf \in Leaves}

MCEarlyExits == LET families == {CompileAll(EarlyExits)} IN families
=============================================================================
