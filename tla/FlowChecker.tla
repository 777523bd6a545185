---------------------------- MODULE FlowChecker -----------------------------
(* Statement checking of the Stage 1 compiler (l0_check_flow.py with the   *)
(* liveness state of l0_check_state.py): definite liveness of dropped      *)
(* pointers through branches and loops, reachability, and whether every    *)
(* path returns.  Names and types resolve; what is left is control flow.   *)
(*                                                                         *)
(* The checker's mutable state is the record c:                            *)
(*   alive     one map per lexical scope: is the name usable               *)
(*   unreach   _next_stmt_unreachable                                      *)
(*   ret       _return_paths                                               *)
(*   captures  one pair of lists of states per enclosing loop              *)
(*   depth     _breakable_loop_depth                                       *)
(*   guards    header variables a cleanup block must not name              *)
(*   quiet     which diagnostics are kept: "all", "liveness", "flow" or    *)
(*             "none"                                                      *)
(*   errs      the diagnostic codes reported so far                        *)
(*   flow      the StmtFlow of the statement just checked                  *)
EXTENDS L0Syntax

LivenessCodes == {"TYP-0062", "TYP-0150"}
Warnings      == {"TYP-0021", "TYP-0030", "TYP-0031"}

Error(c, code) ==
    IF \/ c.quiet = "none"
       \/ c.quiet = "liveness" /\ code \notin LivenessCodes
       \/ c.quiet = "flow" /\ code \in LivenessCodes
    THEN c ELSE [c EXCEPT !.errs = @ \cup {code}]

-----------------------------------------------------------------------------
(* Scopes and liveness *)

OpenScope(c) == [c EXCEPT !.alive = Append(@, << >>)]
CloseScope(c)  == [c EXCEPT !.alive = SubSeq(@, 1, Len(@) - 1)]

(* The innermost scope that binds x, 0 if there is none. *)
ScopeIndex(alive, x) ==
    LET binding == {i \in DOMAIN alive : x \in DOMAIN alive[i]} IN
    IF binding = {} THEN 0 ELSE CHOOSE i \in binding : \A j \in binding : j <= i

IsAlive(c, x) == c.alive[ScopeIndex(c.alive, x)][x]
SetAlive(c, x, b) == [c EXCEPT !.alive[ScopeIndex(c.alive, x)][x] = b]

DeclareLocal(c, x) ==
    IF x \in DOMAIN c.alive[Len(c.alive)] THEN Error(c, "TYP-0020")
    ELSE
    LET shadow == IF ScopeIndex(c.alive, x) # 0 THEN Error(c, "TYP-0021") ELSE c IN
    [shadow EXCEPT !.alive[Len(c.alive)] =
        [y \in DOMAIN @ \cup {x} |-> IF y = x THEN TRUE ELSE @[y]]]

(* Mutant: alive when some flow keeps it so. *)
MeetAny(states) ==
    [i \in DOMAIN states[1] |->
        [x \in DOMAIN states[1][i] |->
            \E n \in DOMAIN states :
                i \in DOMAIN states[n] /\ x \in DOMAIN states[n][i] /\ states[n][i][x]]]

(* A binding is alive where flows join only when every flow keeps it so.   *)
Meet(states) ==
    [i \in DOMAIN states[1] |->
        [x \in DOMAIN states[1][i] |->
            \A n \in DOMAIN states :
                /\ i \in DOMAIN states[n]
                /\ x \in DOMAIN states[n][i]
                /\ states[n][i][x]]]

(* What the innermost loop has recorded, and going back to that record.    *)
TopCapture(c) == c.captures[Len(c.captures)]
Record(c, kind) ==
    IF c.captures = << >> THEN c
    ELSE [c EXCEPT !.captures[Len(c.captures)][kind] = Append(@, c.alive)]

Flow(c, f) == [c EXCEPT !.flow = f]

-----------------------------------------------------------------------------
(* Expressions: every variable read must be alive. *)

RECURSIVE Infer(_, _), InferAll(_, _)

InferAll(c, es) == IF es = << >> THEN c ELSE InferAll(Infer(c, Head(es)), Tail(es))

InferVarRef(c, x) ==
    LET guarded == \E g \in c.guards : g.scope = ScopeIndex(c.alive, x) /\ x \in g.names
        c1 == IF guarded THEN Error(c, "TYP-0156") ELSE c
    IN  IF IsAlive(c, x) THEN c1 ELSE Error(c1, "TYP-0150")

Infer(c, e) ==
    CASE e.k = "var"                       -> InferVarRef(c, e.x)
      [] e.k = "try"                       -> Infer(c, e.e)
      [] e.k \in {"call", "test"}          -> InferAll(c, e.args)
      [] e.k \in {"and", "or", "concat"}   -> InferAll(c, <<e.l, e.r>>)
      [] OTHER                             -> c

-----------------------------------------------------------------------------
RECURSIVE Check(_, _, _), CheckBlock(_, _, _, _), CheckSeq(_, _, _, _, _)

(* One simple statement each. *)

CheckLet(c, s) == Flow(DeclareLocal(Infer(c, s.e), s.x), "falls")

(* The target may be dead; the value is read with it still dead, and only  *)
(* then does the assignment revive it.                                     *)
CheckAssign(c, s) ==
    LET prior  == IsAlive(c, s.x)
        target == SetAlive(Infer(SetAlive(c, s.x, TRUE), Var(s.x)), s.x, prior)
    IN  Flow(SetAlive(Infer(target, s.e), s.x, TRUE), "falls")

CheckDrop(c, s) ==
    Flow(IF IsAlive(c, s.x) THEN SetAlive(c, s.x, FALSE) ELSE Error(c, "TYP-0062"),
         "falls")

CheckReturn(c, s, crp) ==
    Flow([Infer(c, s.e) EXCEPT !.ret = IF crp THEN TRUE ELSE @], "returns")

CheckLoopExit(c, kind, code) ==
    IF c.depth < 1 THEN Flow(Error(c, code), "falls")
    ELSE Flow([Record(c, kind) EXCEPT !.unreach = TRUE], "stops")

-----------------------------------------------------------------------------
(* Branches.  Each branch starts from the state before the statement; the  *)
(* states of those that fall through are joined.                           *)

JoinBranches(c, c0, states) ==
    [c EXCEPT !.alive = IF states = << >> THEN c0.alive ELSE Meet(states)]

(* Mutant: a branch that leaves takes part in the join. *)
Anyway(c) == <<c.alive>>

Falling(c) == IF c.flow = "falls" THEN <<c.alive>> ELSE << >>

CheckIf(c0, s, crp) ==
    LET c1   == Infer(c0, s.c)
        then == Check([c1 EXCEPT !.unreach = FALSE], s.then, crp)
        else == IF s.else = None
                THEN Flow([then EXCEPT !.alive = c1.alive, !.unreach = FALSE], "falls")
                ELSE Check([then EXCEPT !.alive = c1.alive, !.unreach = FALSE], s.else, crp)
        states == Falling(then) \o Falling(else)
        joined == JoinBranches(else, c1, states)
    IN  [joined EXCEPT
            !.flow = IF states # << >> THEN "falls"
                     ELSE IF then.flow = "returns" /\ else.flow = "returns"
                     THEN "returns" ELSE "stops",
            !.ret = IF crp THEN s.else # None /\ then.ret /\ else.ret ELSE @,
            !.unreach = c1.unreach \/ (then.unreach /\ else.unreach)]

(* One arm of a case, in a scope of its own. *)
CheckCaseArm(c, c0, body, crp) ==
    LET in  == OpenScope([c EXCEPT !.alive = c0.alive, !.unreach = FALSE, !.ret = FALSE])
        out == IF body.k = "block" THEN CheckBlock(in, body.body, crp, FALSE)
                                   ELSE Check(in, body, crp)
    IN  CloseScope(out)

RECURSIVE CheckCaseArms(_, _, _, _, _, _)
CheckCaseArms(c, c0, bodies, crp, states, allReturn) ==
    IF bodies = << >> THEN [c |-> c, states |-> states, allReturn |-> allReturn]
    ELSE LET out == CheckCaseArm(c, c0, Head(bodies), crp) IN
         CheckCaseArms(out, c0, Tail(bodies), crp, states \o Falling(out),
                       allReturn /\ out.flow = "returns")

CheckCase(c, s, crp) ==
    LET c0     == Infer(c, s.e)
        total  == s.default # None
        arms   == IF total THEN Append(s.arms, s.default) ELSE s.arms
        r      == CheckCaseArms(c0, c0, arms, crp, << >>, arms # << >>)
        states == IF total THEN r.states ELSE Append(r.states, c0.alive)
        returns == total /\ r.allReturn
    IN  [JoinBranches(r.c, c0, IF returns THEN << >> ELSE states) EXCEPT
            !.flow = IF returns THEN "returns"
                     ELSE IF states # << >> THEN "falls" ELSE "stops",
            !.ret = IF crp THEN returns ELSE c0.ret,
            !.unreach = c0.unreach]

(* An arm that no value reaches is checked, but its liveness, its exits    *)
(* and its liveness errors are forgotten.                                  *)
CheckDeadArm(c, body, crp) ==
    LET quiet == CASE c.quiet = "all" -> "flow" [] c.quiet = "flow" -> "flow"
                   [] OTHER -> "none"
        out == CheckBlock([c EXCEPT !.unreach = FALSE, !.captures = << >>,
                                    !.quiet = quiet], body, crp, FALSE)
    IN  [c EXCEPT !.errs = out.errs, !.flow = out.flow]

CheckMatchArm(c, c0, arm, crp) ==
    LET in    == OpenScope([c EXCEPT !.alive = c0.alive, !.unreach = FALSE, !.ret = FALSE])
        bound == IF arm.dead THEN in ELSE DeclareLocal(in, arm.x)
        out   == IF arm.dead THEN CheckDeadArm(bound, arm.body, crp)
                             ELSE CheckBlock(bound, arm.body, crp, FALSE)
    IN  CloseScope(out)

RECURSIVE CheckMatchArms(_, _, _, _, _, _)
CheckMatchArms(c, c0, arms, crp, states, allReturn) ==
    IF arms = << >> THEN [c |-> c, states |-> states, allReturn |-> allReturn]
    ELSE LET arm == Head(arms)
             out == CheckMatchArm(c, c0, arm, crp)
         IN  CheckMatchArms(out, c0, Tail(arms), crp,
                 IF arm.dead THEN states ELSE states \o Falling(out),
                 allReturn /\ (arm.dead \/ out.flow = "returns"))

CheckMatch(c, s, crp) ==
    LET c0 == Infer(c, s.e)
        r  == CheckMatchArms(c0, c0, s.arms, crp, << >>,
                             \E i \in DOMAIN s.arms : ~s.arms[i].dead)
    IN  [JoinBranches(r.c, c0, IF r.allReturn THEN << >> ELSE r.states) EXCEPT
            !.flow = IF r.allReturn THEN "returns"
                     ELSE IF r.states # << >> THEN "falls" ELSE "stops",
            !.ret = IF crp THEN r.allReturn ELSE @,
            !.unreach = c0.unreach]

-----------------------------------------------------------------------------
(* Loops.  The body is checked once from the state before the loop; if a   *)
(* backedge brings a weaker state, the loop head is lowered until it is    *)
(* stable and the body is checked again from there for liveness errors.    *)

(* The update clause, from every backedge of the body. *)
CheckUpdate(c, update, states) ==
    CASE states = << >> /\ update = None -> [c |-> c, back |-> << >>]
      [] states = << >> /\ update # None ->
            LET out == Check([c EXCEPT !.unreach = FALSE], update, FALSE) IN
            [c |-> [out EXCEPT !.alive = c.alive, !.unreach = c.unreach], back |-> << >>]
      [] states # << >> /\ update = None -> [c |-> c, back |-> states]
      [] OTHER ->
            LET out == Check([c EXCEPT !.alive = Meet(states)], update, FALSE) IN
            [c |-> out, back |-> Falling(out)]

LoopIteration(c, body, update, crp) ==
    LET in   == [c EXCEPT !.captures = Append(@, [brk |-> << >>, cont |-> << >>]),
                          !.depth = @ + 1]
        out  == CheckBlock(in, body, crp, TRUE)
        left == [out EXCEPT !.captures = SubSeq(@, 1, Len(@) - 1), !.depth = @ - 1]
        u    == CheckUpdate(left, update, TopCapture(out).cont \o Falling(out))
    IN  [c |-> u.c, brk |-> TopCapture(out).brk, back |-> u.back]

RECURSIVE StableHead(_, _, _, _, _)
StableHead(c, pre, head, body, update) ==
    LET r    == LoopIteration([c EXCEPT !.alive = head, !.quiet = "none"], body, update, FALSE)
        next == Meet(<<pre>> \o r.back)
    IN  IF next = head THEN head ELSE StableHead(c, pre, next, body, update)

(* The capture, the backedges and the state of a loop entered at pre. *)
CheckLoop(c, pre, s, update, crp) ==
    LET once == LoopIteration(c, s.body, update, crp) IN
    IF Meet(<<pre>> \o once.back) = pre THEN once
    ELSE LET c1   == once.c
             head == StableHead(c1, pre, c1.alive, s.body, update)
             live == IF c1.quiet \in {"all", "liveness"} THEN "liveness" ELSE "none"
             in   == Infer([c1 EXCEPT !.alive = head, !.quiet = live], s.c)
             again == LoopIteration(in, s.body, update, FALSE)
         IN  [again EXCEPT !.c = [@ EXCEPT !.quiet = c1.quiet, !.unreach = c1.unreach]]

AfterLoop(c, pre, r) == [c EXCEPT !.alive = Meet(<<pre>> \o r.brk \o r.back)]

(* Mutant: a body that returns makes its loop return. *)
CheckWhileOnce(c0, s, crp) ==
    LET c == Infer(c0, s.c)
        r == CheckLoop(c, c.alive, s, None, crp)
    IN  Flow(AfterLoop(r.c, c.alive, r), "falls")

CheckWhile(c0, s, crp) ==
    LET c == Infer(c0, s.c)
        r == CheckLoop(c, c.alive, s, None, crp)
    IN  Flow([AfterLoop(r.c, c.alive, r) EXCEPT !.ret = IF crp THEN FALSE ELSE @], "falls")

CheckFor(c0, s, crp) ==
    LET c1   == OpenScope(c0)
        init == IF s.init = None THEN Flow(c1, "falls") ELSE Check(c1, s.init, crp)
        initRet == crp /\ s.init # None /\ init.ret
        c    == Infer(init, s.c)
        \* The body behind an abrupt initialisation leaves no trace.
        dead == LoopIteration([c EXCEPT !.unreach = FALSE], s.body, s.update, FALSE).c
        skip == [c EXCEPT !.errs = dead.errs]
        r    == CheckLoop(c, c.alive, s, s.update, crp)
        out  == IF init.flow # "falls" THEN Flow(skip, init.flow)
                ELSE Flow(AfterLoop(r.c, c.alive, r), "falls")
    IN  CloseScope([out EXCEPT !.ret = IF crp THEN initRet ELSE @])

-----------------------------------------------------------------------------
(* with: header items in order, the body, the inline cleanups in reverse   *)
(* order or the cleanup block, each checked after the one before it.       *)

RECURSIVE CheckItems(_, _, _, _, _, _)
CheckItems(c, s, i, crp, seenTry, r) ==
    IF i > Len(s.items) THEN [r EXCEPT !.c = c]
    ELSE LET init == s.items[i].init
             out  == Check(c, init, crp)
             try  == seenTry \/ StmtContainsTry(init)
             abrupt == {j \in 1..i : s.items[j].cleanup.k \in {"return", "break", "continue"}}
             last == CHOOSE j \in abrupt : \A k \in abrupt : k <= j
             loop == /\ s.cleanup = None
                     /\ abrupt # {}
                     /\ s.items[last].cleanup.k # "return"
             risky == init.k = "let" /\ try /\ VarType[init.x] # "opt"
         IN  CheckItems(out, s, i + 1, crp, try,
                 [r EXCEPT !.returns = IF crp /\ init.k = "return" THEN ~loop ELSE @,
                           !.maybeUninit = IF risky THEN @ \cup {init.x} ELSE @])

RECURSIVE CheckInline(_, _, _, _, _)
CheckInline(c, s, i, crp, override) ==
    IF i = 0 THEN [c |-> c, override |-> override]
    ELSE IF s.items[i].cleanup = None THEN CheckInline(c, s, i - 1, crp, override)
    ELSE LET out == Check(c, s.items[i].cleanup, crp)
             now == CASE override # "no" -> override
                      [] override = "no" /\ out.flow = "returns" -> "return"
                      [] override = "no" /\ out.flow = "stops" -> "loop"
                      [] OTHER -> "no"
         IN  CheckInline(out, s, i - 1, crp, now)

CheckWith(c0, s, crp) ==
    LET header == CheckItems(OpenScope(c0), s, 1, crp, FALSE,
                             [c |-> c0, returns |-> FALSE, maybeUninit |-> {}])
        body   == CheckBlock(header.c, s.body, crp, TRUE)
        inline == CheckInline(body, s, Len(s.items), crp, "no")
        c1     == inline.c
        guard  == [scope |-> Len(c1.alive), names |-> header.maybeUninit]
        block  == IF s.cleanup = None THEN Flow(c1, "falls")
                  ELSE [CheckBlock([c1 EXCEPT !.guards = @ \cup {guard}],
                                   s.cleanup.body, crp, TRUE) EXCEPT !.guards = c1.guards]
        replaced == \/ /\ s.cleanup # None
                       /\ IF crp THEN block.ret ELSE block.flow = "returns"
                    \/ inline.override = "return"
        returns ==
            \/ replaced
            \/ /\ inline.override = "no"
               /\ IF crp THEN header.returns \/ body.ret ELSE body.flow = "returns"
    IN  CloseScope([block EXCEPT
            !.ret = IF crp THEN returns ELSE @,
            !.flow = IF returns THEN "returns"
                     ELSE IF inline.override = "loop"
                             \/ (s.cleanup # None /\ block.flow = "stops")
                     THEN "stops" ELSE "falls"])

-----------------------------------------------------------------------------
Check(c0, s, crp) ==
    LET c == IF crp THEN [c0 EXCEPT !.ret = FALSE] ELSE c0 IN
    CASE s.k = "return"   -> CheckReturn(c, s, crp)
      [] s.k = "expr"     -> Flow(Infer(c, s.e), "falls")
      [] s.k = "let"      -> CheckLet(c, s)
      [] s.k = "assign"   -> CheckAssign(c, s)
      [] s.k = "drop"     -> CheckDrop(c, s)
      [] s.k = "if"       -> CheckIf(c, s, crp)
      [] s.k = "while"    -> CheckWhile(c, s, crp)
      [] s.k = "for"      -> CheckFor(c, s, crp)
      [] s.k = "case"     -> CheckCase(c, s, crp)
      [] s.k = "match"    -> CheckMatch(c, s, crp)
      [] s.k = "with"     -> CheckWith(c, s, crp)
      [] s.k = "block"    -> CheckBlock(c, s.body, crp, TRUE)
      [] s.k = "break"    -> CheckLoopExit(c, "brk", "TYP-0110")
      [] s.k = "continue" -> CheckLoopExit(c, "cont", "TYP-0120")

(* The statements of a block in order.  b.ret: an earlier statement        *)
(* guarantees a return; b.flow: the flow of the block so far.  What a      *)
(* statement behind an exit does to liveness and captures is undone.       *)
CheckSeq(c, ss, crp, b, warned) ==
    IF ss = << >>
    THEN [c EXCEPT !.ret = IF crp THEN b.ret ELSE @, !.flow = b.flow]
    ELSE LET dead  == b.ret \/ c.unreach
             code  == IF b.ret THEN "TYP-0031" ELSE "TYP-0030"
             c1    == IF dead /\ ~warned THEN Error(c, code) ELSE c
             out   == Check(c1, Head(ss), crp /\ ~b.ret)
             after == IF dead
                      THEN [out EXCEPT !.alive = c.alive, !.captures = c.captures]
                      ELSE [out EXCEPT !.unreach = @ \/ out.flow # "falls"]
             b1    == IF dead THEN b
                      ELSE [ret  |-> crp /\ (b.ret \/ out.ret),
                            flow |-> IF out.flow = "falls" THEN b.flow ELSE out.flow]
         IN  CheckSeq(after, Tail(ss), crp, b1, warned \/ dead)

CheckBlock(c, ss, crp, scoped) ==
    LET out == CheckSeq(IF scoped THEN OpenScope(c) ELSE c, ss, crp,
                        [ret |-> FALSE, flow |-> "falls"], FALSE)
        c1  == [out EXCEPT !.unreach = FALSE]
    IN  IF scoped THEN CloseScope(c1) ELSE c1

(* _check_function: the diagnostics of a function. *)
CheckFunction(f) ==
    LET params == {f.params[i] : i \in DOMAIN f.params}
        c0  == [alive |-> <<[x \in params |-> TRUE]>>, unreach |-> FALSE, ret |-> FALSE,
                captures |-> << >>, depth |-> 0, guards |-> {}, quiet |-> "all",
                errs |-> {}, flow |-> "falls"]
        out == CheckBlock(c0, f.body, TRUE, FALSE)
    IN  IF f.result # "void" /\ ~out.ret THEN Error(out, "TYP-0010").errs ELSE out.errs

Accepted(f) == CheckFunction(f) \subseteq Warnings
=============================================================================
