------------------------------ MODULE Lowering ------------------------------
(* Statement lowering of the Stage 1 compiler (l0_backend_lowering.py,     *)
(* with l0_backend_lifetime.py, l0_scope_context.py, l0_c_cleanup.py and   *)
(* l0_c_statements.py): from a checked function body to the C function.    *)
(*                                                                         *)
(* The C text is a sequence of instructions over numbered C objects        *)
(* ("slots"): if, while and switch become tests and jumps.  A C name is    *)
(* resolved where the text that names it is emitted, innermost C block     *)
(* first, as the C compiler does.                                          *)
(*                                                                         *)
(* The backend's mutable state is the record g:                            *)
(*   code     the instructions emitted so far                              *)
(*   blocks   the open C blocks: what each declared name denotes           *)
(*   scopes   the ScopeContext chain, innermost last                       *)
(*   loops    _loop_label_stack                                            *)
(*   targets  _loop_cleanup_scope_stack: the depth exits clean up to       *)
(*   unreach  _next_stmt_unreachable                                       *)
(*   slots, labels, temps   counters for fresh ones                        *)
EXTENDS L0Syntax

(* C names: a user variable, the scrutinee of a switch, a fresh temporary. *)
UserName(x)   == <<"user", x, 0>>
Scrutinee     == <<"_scrutinee", "", 0>>
TempName(n)   == <<"temp", "", n>>

(* C expressions, written where the statement that holds them is emitted.  *)
CName(n)      == [c |-> "name", n |-> n]
CCall(k, args) == [c |-> k, args |-> args]

(* F(x), with x computed first: TLC computes an argument where it is used, *)
(* which nests a function's whole lowering in the emission of its end.     *)
After(x, F(_)) == CHOOSE out \in {F(y) : y \in {x}} : TRUE

Emit(g, i)     == [g EXCEPT !.code = Append(@, i)]
(* Mutant: the counter of labels stands still. *)
SameLabel(g) == g

FreshLabel(g)  == [g EXCEPT !.labels = @ + 1]
Label(g, l)    == Emit(g, [op |-> "label", l |-> l])
Jump(g, l)     == Emit(g, [op |-> "jump", l |-> l])

BlockStart(g) == [g EXCEPT !.blocks = Append(@, << >>)]
BlockEnd(g)   == [g EXCEPT !.blocks = SubSeq(@, 1, Len(@) - 1)]

(* The slot a name denotes here. *)
Slot(g, n) ==
    LET binding == {i \in DOMAIN g.blocks : n \in DOMAIN g.blocks[i]}
        inner   == CHOOSE i \in binding : \A j \in binding : j <= i
    IN  g.blocks[inner][n]

(* Declaring n puts it in scope before its initializer is read. *)
DeclareSlot(g, n) ==
    LET s == g.slots + 1 IN
    Emit([g EXCEPT !.slots = s,
                   !.blocks[Len(g.blocks)] =
                       [m \in DOMAIN @ \cup {n} |-> IF m = n THEN s ELSE @[m]]],
         [op |-> "decl", d |-> s])

-----------------------------------------------------------------------------
(* Evaluating a C expression into slot d: calls run their arguments first. *)

RECURSIVE EvalInto(_, _, _), EvalArgs(_, _, _)
EvalArgs(g, args, slots) ==
    IF args = << >> THEN [g |-> g, slots |-> slots]
    ELSE LET a == Head(args) IN
         IF a.c = "name" THEN EvalArgs(g, Tail(args), Append(slots, Slot(g, a.n)))
         ELSE LET s == g.slots + 1 IN
              EvalArgs(EvalInto([g EXCEPT !.slots = s], s, a), Tail(args), Append(slots, s))

EvalInto(g, d, v) ==
    IF v.c = "name" THEN Emit(g, [op |-> "move", d |-> d, s |-> Slot(g, v.n)])
    ELSE LET a == EvalArgs(g, v.args, << >>) IN
         Emit(a.g, [op |-> v.c, d |-> d, args |-> a.slots])

(* T n = v;   n = v;   v; *)
DeclareInit(g, n, v) ==
    LET g1 == DeclareSlot(g, n) IN EvalInto(g1, Slot(g1, n), v)
AssignTo(g, n, v) == EvalInto(g, Slot(g, n), v)
Discard(g, v) == IF v.c = "name" THEN g
                 ELSE EvalInto([g EXCEPT !.slots = @ + 1], g.slots + 1, v)

(* A fresh temporary holding v. *)
FreshTemp(g) == [g EXCEPT !.temps = @ + 1]
Temp(g)      == TempName(g.temps)
TempDecl(g, v) == DeclareInit(FreshTemp(g), TempName(g.temps + 1), v)

Retain(g, n)  == Emit(g, [op |-> "retain", s |-> Slot(g, n)])
Release(g, n) == Emit(g, [op |-> "release", s |-> Slot(g, n)])

-----------------------------------------------------------------------------
(* Scopes *)

NewScope == [owned |-> << >>, inline |-> << >>, cleanup |-> None, running |-> FALSE]
PushScope(g) == [g EXCEPT !.scopes = Append(@, NewScope)]
PopScope(g)  == [g EXCEPT !.scopes = SubSeq(@, 1, Len(@) - 1)]
Depth(g)     == Len(g.scopes)

(* Every local is tracked; only those with counted data are cleaned up.    *)
AddOwned(g, n, type) ==
    IF HasArcData(type) THEN [g EXCEPT !.scopes[Len(g.scopes)].owned = Append(@, n)] ELSE g

HasWithCleanup(scope) == scope.cleanup # None \/ scope.inline # << >>

ScopeChainHasCleanup(g) ==
    \E i \in DOMAIN g.scopes :
        \/ HasWithCleanup(g.scopes[i]) /\ ~g.scopes[i].running
        \/ g.scopes[i].owned # << >>

IsOwnedLocal(g, n) == \E i \in DOMAIN g.scopes : \E j \in DOMAIN g.scopes[i].owned :
                          g.scopes[i].owned[j] = n

(* Releases of the owned names, newest first, but for the one moved out.   *)
RECURSIVE ReleaseNames(_, _, _)
ReleaseNames(g, names, moved) ==
    IF names = << >> THEN g
    ELSE LET n == names[Len(names)]
             g1 == IF n = moved THEN g ELSE Release(g, n)
         IN  ReleaseNames(g1, SubSeq(names, 1, Len(names) - 1), moved)

Nobody == <<"nobody", "", 0>>
CleanupAtScopeExit(g, i) == ReleaseNames(g, g.scopes[i].owned, Nobody)
CleanupIfReachable(g) == IF g.unreach THEN g ELSE CleanupAtScopeExit(g, Depth(g))

MaterializeArcTemp(g, v, type) ==
    LET g1 == TempDecl(g, v) IN AddOwned(g1, Temp(g1), type)

-----------------------------------------------------------------------------
RECURSIVE EmitExpr(_, _), EmitArgs(_, _, _), EmitCondition(_, _),
          Branch(_, _, _, _), EmitStmt(_, _), EmitSeq(_, _), EmitBlock(_, _),
          ExitScopes(_, _, _, _), WithCleanup(_, _),
          EmitArms(_, _, _), EmitItems(_, _, _, _)

(* A user cleanup in its own block and scope, pushed on the current chain. *)
WithCleanup(g, i) ==
    LET scope == g.scopes[i]
        in    == PushScope(BlockStart([g EXCEPT !.scopes[i].running = TRUE]))
        body  == EmitSeq(in, IF scope.cleanup # None THEN scope.cleanup.body
                                                     ELSE scope.inline)
        leave(h) == [BlockEnd(PopScope(CleanupIfReachable(h)))
                        EXCEPT !.scopes[i].running = scope.running]
    IN  After(body, leave)

(* Leaving scopes i, i - 1, ... target: user cleanup, then releases.       *)
ExitScopes(g, i, target, moved) ==
    IF i < target THEN g
    ELSE LET user == IF HasWithCleanup(g.scopes[i]) /\ ~g.scopes[i].running
                     THEN WithCleanup(g, i) ELSE g
             rest(h) == ExitScopes(ReleaseNames(h, h.scopes[i].owned, moved),
                                   i - 1, target, moved)
         IN  After(user, rest)

CleanupForReturn(g, moved) == ExitScopes(g, Depth(g), 1, moved)

(* The label is looked up when the cleanup, which may hold loops, is done.  *)
LoopExit(g, label) ==
    LET clean   == ExitScopes(g, Depth(g), g.targets[Len(g.targets)], Nobody)
        leave(h) == [Jump(h, h.loops[Len(h.loops)][label]) EXCEPT !.unreach = TRUE]
    IN  After(clean, leave)

-----------------------------------------------------------------------------
(* Expressions: EmitExpr returns the state and the C expression.           *)

Result(g, v) == [g |-> g, v |-> v]

(* Operands that nothing owns yet are put in a temporary that is released  *)
(* with the scope.                                                         *)
Operand(r, e) ==
    IF ShouldMaterializeArcTemp(e)
    THEN LET g == MaterializeArcTemp(r.g, r.v, TypeOf(e)) IN Result(g, CName(Temp(g)))
    ELSE r

EmitArgs(g, es, vs) ==
    IF es = << >> THEN [g |-> g, vs |-> vs]
    ELSE LET rest(r) == EmitArgs(r.g, Tail(es), Append(vs, r.v)) IN
         After(Operand(EmitExpr(g, Head(es)), Head(es)), rest)

(* e?: on null, clean up and return null from the function.                *)
EmitTry(g, e) ==
    LET hold(inner) == TempDecl(FreshLabel(inner.g), inner.v)
        leave(g1) ==
            LET l    == g1.labels
                fail == Emit(g1, [op |-> "ifsome", s |-> Slot(g1, Temp(g1)), l |-> l])
                left == IF ScopeChainHasCleanup(fail) THEN CleanupForReturn(fail, Nobody)
                                                      ELSE fail
            IN  Result(Label(Emit(left, [op |-> "return", s |-> 0]), l), CName(Temp(g1)))
    IN  After(After(EmitExpr(g, e.e), hold), leave)

EmitNew(g) ==
    LET g1 == TempDecl(g, CCall("new", << >>)) IN Result(g1, CName(Temp(g1)))

(* l + r: both operands are computed before either gets an owner.          *)
EmitConcat(g, e) ==
    LET right(l) == [l |-> l.v, r |-> EmitExpr(l.g, e.r)]
        own(both) ==
            LET l == Operand(Result(both.r.g, both.l), e.l)
                r == Operand(Result(l.g, both.r.v), e.r)
            IN  Result(r.g, CCall("mk", <<l.v, r.v>>))
    IN  After(After(EmitExpr(g, e.l), right), own)

EmitExpr(g, e) ==
    CASE e.k = "var"  -> Result(g, CName(UserName(e.x)))
      [] e.k = "try"  -> EmitTry(g, e)
      [] e.k = "new"  -> EmitNew(g)
      [] e.k = "concat" -> EmitConcat(g, e)
      [] e.k \in {"and", "or"} -> EmitCondition(g, e)
      [] e.k \in {"call", "test"} ->
            LET a == EmitArgs(g, e.args, << >>) IN Result(a.g, CCall(e.k, a.vs))
      [] OTHER        -> Result(g, CCall(e.k, << >>))     \* mk, maybe, lit, null

(* Mutant: a new owner of a borrowed value without a retain. *)
EmitBorrowed(g, e) == EmitExpr(g, e)

(* A value for a new owner: a copy of a borrowed one is retained.          *)
EmitOwned(g, e) ==
    LET r == EmitExpr(g, e) IN
    IF IsBorrowed(e) /\ HasArcData(TypeOf(e))
    THEN LET g1 == TempDecl(r.g, r.v) IN Result(Retain(g1, Temp(g1)), CName(Temp(g1)))
    ELSE r

(* A condition leaf releases its temporaries on both ways out. *)
Branch(g, e, yes, no) ==
    IF e.k \in {"and", "or"}
    THEN LET rhs  == g.labels + 1
             left == IF e.k = "and" THEN Branch(FreshLabel(g), e.l, rhs, no)
                                    ELSE Branch(FreshLabel(g), e.l, yes, rhs)
             right(h) == Branch(Label(h, rhs), e.r, yes, no)
         IN  After(left, right)
    ELSE LET test(r) ==
                LET d     == r.g.slots + 1
                    false == r.g.labels + 1
                    value == EvalInto([r.g EXCEPT !.slots = d, !.labels = false], d, r.v)
                    go    == Emit(value, [op |-> "ifnot", s |-> d, l |-> false])
                    taken == Jump(CleanupAtScopeExit(go, Depth(go)), yes)
                    not   == CleanupAtScopeExit(Label(taken, false), Depth(taken))
                IN  Jump(BlockEnd(PopScope(not)), no)
         IN  After(EmitExpr(PushScope(BlockStart(g)), e), test)

(* The condition as a boolean temporary. *)
EmitCondition(g, e) ==
    LET decl == TempDecl(g, CCall("false", << >>))
        tmp  == Temp(decl)
        yes  == decl.labels + 1
        no   == decl.labels + 2
        end  == decl.labels + 3
        join(test) ==
            LET then == AssignTo(Label(test, yes), tmp, CCall("true", << >>))
            IN  Result(BlockEnd(Label(Label(Jump(then, end), no), end)), CName(tmp))
    IN  After(Branch(BlockStart([decl EXCEPT !.labels = end]), e, yes, no), join)

(* Mutant: the condition is computed and not tested. *)
EmitCondNever(g, e, label) == EmitCondition(g, e).g

(* if (!cond) goto label; *)
EmitCondExit(g, e, label) ==
    LET c == EmitCondition(g, e) IN
    Emit(c.g, [op |-> "ifnot", s |-> Slot(c.g, c.v.n), l |-> label])

-----------------------------------------------------------------------------
(* Statements *)

EmitLet(g, s) ==
    LET r  == EmitOwned(g, s.e)
        g1 == DeclareInit(r.g, UserName(s.x), r.v)
    IN  AddOwned(g1, UserName(s.x), VarType[s.x])

(* The old value is released only after the new one is computed. *)
EmitAssign(g, s) ==
    LET r == EmitOwned(g, s.e)
        n == UserName(s.x)
    IN  IF HasArcData(VarType[s.x])
        THEN LET g1 == TempDecl(r.g, r.v) IN
             AssignTo(Release(g1, n), n, CName(Temp(g1)))
        ELSE AssignTo(r.g, n, r.v)

EmitExprStmt(g, s) ==
    LET r == EmitExpr(g, s.e) IN
    IF ShouldMaterializeArcTemp(s.e) THEN MaterializeArcTemp(r.g, r.v, TypeOf(s.e))
                                     ELSE Discard(r.g, r.v)

EmitDrop(g, s) == Emit(g, [op |-> "drop", s |-> Slot(g, UserName(s.x))])

(* Mutant: cleanups in the order of the items. *)
RegisterLast(g, i, cleanup) == [g EXCEPT !.scopes[i].inline = Append(@, cleanup)]

RegisterInline(g, i, cleanup) == [g EXCEPT !.scopes[i].inline = <<cleanup>> \o @]

(* return, in the with header whose scope is i: a cleanup that is not None *)
(* belongs to this item and is registered between value and cleanups.      *)
EmitReturnItem(g, s, i, cleanup) ==
    LET move  == s.e.k = "var" /\ IsOwnedLocal(g, UserName(s.e.x))
        r     == IF s.e = None THEN Result(g, CCall("null", << >>))
                 ELSE IF move THEN EmitExpr(g, s.e) ELSE EmitOwned(g, s.e)
        g1    == IF cleanup = None THEN r.g ELSE RegisterInline(r.g, i, cleanup)
        tmp   == TempDecl(g1, r.v)
        moved == IF move THEN UserName(s.e.x) ELSE Nobody
        out   == IF s.e = None
                 THEN Emit(CleanupForReturn(g1, Nobody), [op |-> "return", s |-> 0])
                 ELSE LET left == CleanupForReturn(tmp, moved) IN
                      Emit(left, [op |-> "return", s |-> Slot(left, Temp(tmp))])
    IN  [out EXCEPT !.unreach = TRUE]

EmitReturn(g, s) == EmitReturnItem(g, s, 0, None)

EmitBlock(g, ss) ==
    LET leave(body) == BlockEnd(PopScope(CleanupIfReachable(body)))
    IN  After(EmitSeq(PushScope(BlockStart(g)), ss), leave)

EmitBranch(g, s) == EmitBlock(g, IF s.k = "block" THEN s.body ELSE <<s>>)

EmitIf(g, s) ==
    LET no   == g.labels + 1
        end  == g.labels + 2
        accept(cond) == EmitBranch([cond EXCEPT !.unreach = FALSE], s.then)
        refuse(then) ==
            LET mid  == Label(Jump([then EXCEPT !.unreach = FALSE], end), no)
                else == IF s.else = None THEN mid ELSE EmitBranch(mid, s.else)
            IN  [Label(else, end) EXCEPT
                    !.unreach = s.else # None /\ then.unreach /\ else.unreach]
    IN  After(After(EmitCondExit([g EXCEPT !.labels = end], s.c, no), accept), refuse)

(* The labels of a loop are its own from the condition on; the cleanup      *)
(* target is the enclosing loop's until the body begins.                   *)
PushLabels(g, brk, cont) == [g EXCEPT !.loops = Append(@, [brk |-> brk, cont |-> cont])]
PopLabels(g)  == [g EXCEPT !.loops = SubSeq(@, 1, Len(@) - 1)]
PushTarget(g) == [g EXCEPT !.targets = Append(@, Depth(g))]
PopTarget(g)  == [g EXCEPT !.targets = SubSeq(@, 1, Len(@) - 1)]

(* while (1) { if (!cond) goto brk; body; cont: } brk: *)
EmitWhile(g, s) ==
    LET brk  == g.labels + 1
        cont == g.labels + 2
        top  == g.labels + 3
        head == BlockStart(Label(PushLabels([g EXCEPT !.labels = top], brk, cont), top))
        iterate(h) == EmitSeq(PushTarget(PushScope(h)), s.body)
        leave(body) ==
            LET tail == BlockEnd(PopScope(PopTarget(Label(CleanupIfReachable(body), cont))))
            IN  [PopLabels(Label(Jump(tail, top), brk)) EXCEPT !.unreach = FALSE]
    IN  After(After(EmitCondExit(head, s.c, brk), iterate), leave)

(* The init and update clauses belong to the enclosing loop; init owns the *)
(* outer scope, each iteration and each update a scope of their own.       *)
EmitFor(g, s) ==
    LET brk   == g.labels + 1
        cont  == g.labels + 2
        top   == g.labels + 3
        outer == PushScope(BlockStart([g EXCEPT !.labels = top]))
        init  == IF s.init = None THEN outer ELSE EmitStmt(outer, s.init)
        head  == BlockStart(Label(PushLabels(init, brk, cont), top))
        cond  == IF s.c = None THEN head ELSE EmitCondExit(head, s.c, brk)
        iterate(h) == EmitSeq(PushTarget(PushScope(BlockStart(h))), s.body)
        update(body) ==
            LET done == PopScope(PopTarget(CleanupIfReachable(body)))
                next == [PopLabels(Label(BlockEnd(done), cont)) EXCEPT !.unreach = FALSE]
            IN  IF s.update = None THEN next
                ELSE PopScope(CleanupIfReachable(EmitStmt(PushScope(next), s.update)))
        leave(upd) ==
            LET out == [Label(Jump(BlockEnd(upd), top), brk) EXCEPT !.unreach = FALSE]
            IN  BlockEnd(PopScope(CleanupAtScopeExit(out, Depth(out))))
    IN  After(After(After(cond, iterate), update), leave)

(* case and match: the scrutinee is copied into _scrutinee, which owns it  *)
(* only when the expression produced a new value.                          *)
EmitScrutinee(g, e) ==
    LET r    == EmitExpr(g, e)
        decl == DeclareInit(PushScope(BlockStart(r.g)), Scrutinee, r.v)
        held == IF e.k = "try" /\ IsBorrowed(e) THEN Retain(decl, Scrutinee) ELSE decl
    IN  IF e.k = "var" THEN held ELSE AddOwned(held, Scrutinee, TypeOf(e))

(* Arms are tried in order; a default (test = FALSE) is taken untested.    *)
EmitArms(g, arms, end) ==
    IF arms = << >> THEN [g |-> g, unreach |-> TRUE]
    ELSE LET arm   == Head(arms)
             next  == g.labels + 1
             d     == g.slots + 1
             fresh == [g EXCEPT !.labels = next, !.slots = d]
             pick  == IF arm.dead THEN Jump(fresh, next)
                      ELSE IF ~arm.test THEN fresh
                      ELSE Emit(Emit(fresh, [op |-> "matches", d |-> d,
                                             args |-> <<Slot(g, Scrutinee)>>]),
                                [op |-> "ifnot", s |-> d, l |-> next])
             in    == [PushScope(BlockStart(pick)) EXCEPT !.unreach = FALSE]
             bound == IF arm.x = "" THEN in
                      ELSE DeclareInit(in, UserName(arm.x), CName(Scrutinee))
             others(done) ==
                LET body  == CleanupIfReachable(done)
                    leave == IF body.unreach THEN body ELSE Jump(body, end)
                    rest  == EmitArms(Label(BlockEnd(PopScope(leave)), next), Tail(arms), end)
                IN  [g |-> rest.g, unreach |-> rest.unreach /\ body.unreach]
         IN  After(EmitSeq(bound, arm.body), others)

EmitSwitch(g, e, arms, exhaustive) ==
    LET end == g.labels + 1
        try(in)  == EmitArms(in, arms, end)
        leave(r) ==
            LET out == [Label(r.g, end) EXCEPT !.unreach = exhaustive /\ r.unreach]
            IN  BlockEnd(PopScope(CleanupIfReachable(out)))
    IN  After(After(EmitScrutinee([g EXCEPT !.labels = end], e), try), leave)

EmitCase(g, s) ==
    LET arm(body, test) == [x |-> "", body |-> <<body>>, test |-> test, dead |-> FALSE]
        values == [i \in DOMAIN s.arms |-> arm(s.arms[i], TRUE)]
    IN  EmitSwitch(g, s.e,
            IF s.default = None THEN values ELSE Append(values, arm(s.default, FALSE)),
            s.default # None)

EmitMatch(g, s) ==
    LET last == CHOOSE i \in DOMAIN s.arms :
                    ~s.arms[i].dead /\ \A j \in DOMAIN s.arms : j > i => s.arms[j].dead
    IN  EmitSwitch(g, s.e,
            [i \in DOMAIN s.arms |->
                [x |-> s.arms[i].x, body |-> s.arms[i].body, dead |-> s.arms[i].dead,
                 test |-> i # last]],
            TRUE)

-----------------------------------------------------------------------------
(* with *)

(* One header item.  An inline cleanup is registered once its item is      *)
(* done: before the jump of an item that breaks or continues, between the  *)
(* value and the cleanup of one that returns.                              *)
EmitInlineItem(g, item, i) ==
    LET reg(h) == RegisterInline(h, i, item.cleanup) IN
    CASE item.cleanup = None                     -> EmitStmt(g, item.init)
      [] item.init.k = "return"                  -> EmitReturnItem(g, item.init, i, item.cleanup)
      [] item.init.k \in {"break", "continue"}   -> EmitStmt(reg(g), item.init)
      [] OTHER                                   -> reg(EmitStmt(g, item.init))

IsPredeclared(s, init) == s.cleanup # None /\ init.k = "let" /\ VarType[init.x] = "opt"

RECURSIVE Predeclare(_, _, _)
Predeclare(g, s, i) ==
    IF i > Len(s.items) THEN g
    ELSE LET init == s.items[i].init IN
         IF ~IsPredeclared(s, init) THEN Predeclare(g, s, i + 1)
         ELSE Predeclare(AddOwned(DeclareInit(g, UserName(init.x), CCall("null", << >>)),
                                  UserName(init.x), "opt"), s, i + 1)

EmitItems(g, s, i, depth) ==
    IF i > Len(s.items) THEN g
    ELSE LET item == s.items[i]
             init == item.init
             owned == EmitOwned(g, init.e)
             out  == IF IsPredeclared(s, init)
                     THEN AssignTo(owned.g, UserName(init.x), owned.v)
                     ELSE IF s.cleanup # None THEN EmitStmt(g, init)
                     ELSE EmitInlineItem(g, item, depth)
             rest(h) == EmitItems(h, s, i + 1, depth)
         IN  After(out, rest)

EmitWith(g, s) ==
    LET scope == PushScope(BlockStart(g))
        d     == Depth(scope)
        marked == [scope EXCEPT !.scopes[d].cleanup = s.cleanup]
        items == EmitItems(Predeclare(marked, s, 1), s, 1, d)
        within(h) == EmitBlock(h, s.body)
        leave(body) ==
            BlockEnd(PopScope(IF body.unreach THEN body
                              ELSE CleanupAtScopeExit(WithCleanup(body, d), d)))
    IN  After(After(items, within), leave)

-----------------------------------------------------------------------------
EmitStmt(g, s) ==
    CASE s.k = "let"      -> EmitLet(g, s)
      [] s.k = "assign"   -> EmitAssign(g, s)
      [] s.k = "expr"     -> EmitExprStmt(g, s)
      [] s.k = "drop"     -> EmitDrop(g, s)
      [] s.k = "if"       -> EmitIf(g, s)
      [] s.k = "while"    -> EmitWhile(g, s)
      [] s.k = "for"      -> EmitFor(g, s)
      [] s.k = "case"     -> EmitCase(g, s)
      [] s.k = "match"    -> EmitMatch(g, s)
      [] s.k = "with"     -> EmitWith(g, s)
      [] s.k = "block"    -> EmitBlock(g, s.body)
      [] s.k = "return"   -> EmitReturn(g, s)
      [] s.k = "break"    -> LoopExit(g, "brk")
      [] s.k = "continue" -> LoopExit(g, "cont")

EmitSeq(g, ss) ==
    IF ss = << >> THEN g
    ELSE LET rest(h) == EmitSeq(h, Tail(ss)) IN After(EmitStmt(g, Head(ss)), rest)

(* _emit_function_definition: parameters occupy the first slots; those the *)
(* body reassigns are retained and owned.                                  *)
RECURSIVE EnterParams(_, _, _)
EnterParams(g, f, i) ==
    IF i > Len(f.params) THEN g
    ELSE LET n == UserName(f.params[i]) IN
         EnterParams(IF f.params[i] \in ReassignedArcParams(f)
                     THEN AddOwned(Retain(g, n), n, VarType[f.params[i]]) ELSE g,
                     f, i + 1)

LowerFunction(f) ==
    LET names == {UserName(f.params[i]) : i \in DOMAIN f.params}
        place(n) == CHOOSE i \in DOMAIN f.params : UserName(f.params[i]) = n
        g0 == [code |-> << >>, blocks |-> <<[n \in names |-> place(n)]>>,
               scopes |-> <<NewScope>>, loops |-> << >>, targets |-> << >>, unreach |-> FALSE,
               slots |-> Len(f.params), labels |-> 0, temps |-> 0]
        body == CleanupIfReachable(EmitSeq(EnterParams(g0, f, 1), f.body))
    IN  Emit(body, [op |-> "end"])
=============================================================================
