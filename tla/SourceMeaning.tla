--------------------------- MODULE SourceMeaning ----------------------------
(* What an L0 function body means, statement by statement: the reference   *)
(* the lowering is compared with.  It knows nothing of scopes to clean up, *)
(* labels or counts.                                                       *)
(*                                                                         *)
(* A run is the record m: env (one map per block), ch (the outcomes of the *)
(* calls still to come; an outcome past the end is FALSE), n (how many     *)
(* objects exist), evs (the calls made, with their arguments), out (how    *)
(* the last statement ended: "next", "return", "break", "continue"), val   *)
(* (the value returned), bad (a dropped pointer was used) and dropped (the *)
(* objects dropped).                                                       *)
EXTENDS L0Syntax, CValues

LOCAL Bound(m, x) ==
    LET binding == {i \in DOMAIN m.env : x \in DOMAIN m.env[i]} IN
    CHOOSE i \in binding : \A j \in binding : j <= i
LOCAL Value(m, x)  == m.env[Bound(m, x)][x]
LOCAL Set(m, x, v) == [m EXCEPT !.env[Bound(m, x)][x] = v]
LOCAL Bind(m, x, v) ==
    [m EXCEPT !.env[Len(m.env)] = [y \in DOMAIN @ \cup {x} |-> IF y = x THEN v ELSE @[y]]]
LOCAL Enter(m) == [m EXCEPT !.env = Append(@, << >>)]
LOCAL Leave(m) == [m EXCEPT !.env = SubSeq(@, 1, Len(@) - 1)]
LOCAL Ended(m, out) == [m EXCEPT !.out = out]
LOCAL Resume(m) == Ended(m, "next")

(* An expression gives its value, or ends the function through e?.         *)
LOCAL Got(m, v) == [m |-> m, v |-> v]
LOCAL Object(m) == Got([m EXCEPT !.n = @ + 1], m.n + 1)
LOCAL Outcome(m) ==
    IF m.ch = << >> THEN Got(m, FALSE)
    ELSE Got([m EXCEPT !.ch = Tail(@)], Head(m.ch))

RECURSIVE Eval(_, _), EvalAll(_, _, _)

EvalAll(m, es, vs) ==
    IF es = << >> \/ m.out # "next" THEN [m |-> m, vs |-> vs]
    ELSE LET r == Eval(m, Head(es)) IN EvalAll(r.m, Tail(es), Append(vs, r.v))

LOCAL EvalVar(m, x) ==
    LET v == Value(m, x) IN Got([m EXCEPT !.bad = @ \/ v = Dropped], v)

LOCAL EvalTry(m, e) ==
    LET r == Eval(m, e.e) IN
    IF r.m.out = "next" /\ r.v = Absent
    THEN Got([Ended(r.m, "return") EXCEPT !.val = Absent], Absent) ELSE r

LOCAL EvalCall(m, e) ==
    LET r    == EvalAll(m, e.args, << >>)
        seen == [r.m EXCEPT !.evs = Append(@, r.vs)]
    IN  IF r.m.out # "next" THEN Got(r.m, Absent)
        ELSE IF e.k = "test" THEN Outcome(seen) ELSE Got(seen, Absent)

Eval(m, e) ==
    CASE e.k = "lit"    -> Got(m, 0)
      [] e.k \in {"null", "none"} -> Got(m, Absent)
      [] e.k \in {"mk", "new"} -> Object(m)
      [] e.k = "maybe"  -> LET r == Outcome(m) IN IF r.v THEN Object(r.m) ELSE Got(r.m, Absent)
      [] e.k = "var"    -> EvalVar(m, e.x)
      [] e.k = "try"    -> EvalTry(m, e)
      [] e.k \in {"call", "test"} -> EvalCall(m, e)
      [] e.k = "concat" -> LET r == EvalAll(m, <<e.l, e.r>>, << >>) IN
                           IF r.m.out = "next" THEN Object(r.m) ELSE Got(r.m, Absent)
      [] e.k \in {"and", "or"} ->
            LET l == Eval(m, e.l) IN
            IF l.m.out # "next" THEN l
            ELSE IF l.v = (e.k = "or") THEN l ELSE Eval(l.m, e.r)

-----------------------------------------------------------------------------
RECURSIVE Run(_, _), RunSeq(_, _), RunLoop(_, _, _, _), RunArms(_, _, _), RunItems(_, _, _, _)

RunSeq(m, ss) ==
    IF ss = << >> \/ m.out # "next" THEN m ELSE RunSeq(Run(m, Head(ss)), Tail(ss))

LOCAL RunBlock(m, ss) == Leave(RunSeq(Enter(m), ss))

LOCAL Then(r, next(_)) == IF r.m.out # "next" THEN r.m ELSE next(r.m)

LOCAL RunDrop(m, x) ==
    LET v == Value(m, x) IN
    [Set(m, x, Dropped) EXCEPT !.bad = @ \/ v = Dropped,
                               !.dropped = IF v = Dropped THEN @ ELSE @ \cup {v}]

LOCAL RunIf(m, s) ==
    LET c == Eval(m, s.c)
        pick(m1) == IF c.v THEN Leave(Run(Enter(m1), s.then))
                    ELSE IF s.else = None THEN m1 ELSE Leave(Run(Enter(m1), s.else))
    IN  Then(c, pick)

(* Iterations of a loop, until the condition or an exit ends it. *)
RunLoop(m, c, update, ss) ==
    LET test == IF c = None THEN Got(m, TRUE) ELSE Eval(m, c)
        body == RunBlock(test.m, ss)
        next == IF body.out \in {"next", "continue"}
                THEN IF update = None THEN Resume(body) ELSE Run(Resume(body), update)
                ELSE body
    IN  IF test.m.out # "next" \/ ~test.v THEN test.m
        ELSE IF body.out = "break" THEN Resume(body)
        ELSE IF next.out # "next" THEN next
        ELSE RunLoop(next, c, update, ss)

LOCAL RunFor(m, s) ==
    LET init == IF s.init = None THEN Enter(m) ELSE Run(Enter(m), s.init) IN
    Leave(IF init.out # "next" THEN init ELSE RunLoop(init, s.c, s.update, s.body))

(* The first arm whose test succeeds; v is the scrutinee. *)
RunArms(m, arms, v) ==
    IF arms = << >> THEN m
    ELSE LET arm  == Head(arms)
             r    == IF arm.test THEN Outcome(m) ELSE Got(m, TRUE)
             in   == IF arm.x = "" THEN Enter(r.m) ELSE Bind(Enter(r.m), arm.x, v)
         IN  IF r.v THEN Leave(RunSeq(in, arm.body)) ELSE RunArms(r.m, Tail(arms), v)

LOCAL RunCase(m, s) ==
    LET arm(body, test) == [x |-> "", body |-> <<body>>, test |-> test]
        values == [i \in DOMAIN s.arms |-> arm(s.arms[i], TRUE)]
        arms   == IF s.default = None THEN values ELSE Append(values, arm(s.default, FALSE))
        r      == Eval(m, s.e)
        pick(m1) == RunArms(m1, arms, r.v)
    IN  Then(r, pick)

LOCAL RunMatch(m, s) ==
    LET live == SelectSeq(s.arms, LAMBDA a : ~a.dead)
        arms == [i \in DOMAIN live |->
                    [x |-> live[i].x, body |-> live[i].body, test |-> i # Len(live)]]
        r    == Eval(m, s.e)
        pick(m1) == RunArms(m1, arms, r.v)
    IN  Then(r, pick)

(* The header items up to the first that ends the statement; todo is what  *)
(* has been promised to run at the end, last promise first.                *)
RunItems(m, items, i, todo) ==
    IF i > Len(items) \/ m.out # "next" THEN [m |-> m, todo |-> todo]
    ELSE LET item == items[i]
             mine == IF item.cleanup = None THEN todo ELSE <<item.cleanup>> \o todo
             val  == Eval(m, item.init.e)
             out  == Run(m, item.init)
             held == CASE item.init.k = "return" -> val.m.out = "next"
                       [] item.init.k \in {"break", "continue"} -> TRUE
                       [] OTHER -> out.out = "next"
         IN  RunItems(out, items, i + 1, IF held THEN mine ELSE todo)

(* Cleanup runs once, however the statement ends, and resumes that end     *)
(* unless it ends abruptly itself.                                         *)
LOCAL RunWith(m, s) ==
    LET header  == RunItems(Enter(m), s.items, 1, << >>)
        body    == IF header.m.out = "next" THEN RunBlock(header.m, s.body) ELSE header.m
        todo    == IF s.cleanup = None THEN header.todo ELSE s.cleanup.body
        cleaned == RunBlock(Resume(body), todo)
        out     == IF cleaned.out = "next"
                   THEN [cleaned EXCEPT !.out = body.out, !.val = body.val] ELSE cleaned
    IN  Leave(out)

Run(m, s) ==
    CASE s.k = "let" ->
            LET r == Eval(m, s.e) bind(m1) == Bind(m1, s.x, r.v) IN Then(r, bind)
      [] s.k = "assign" ->
            LET r == Eval(m, s.e) set(m1) == Set(m1, s.x, r.v) IN Then(r, set)
      [] s.k = "expr" -> Eval(m, s.e).m
      [] s.k = "return" ->
            LET r == Eval(m, s.e)
                end(m1) == [Ended(m1, "return") EXCEPT !.val = r.v]
            IN  Then(r, end)
      [] s.k = "drop"  -> RunDrop(m, s.x)
      [] s.k \in {"break", "continue"} -> Ended(m, s.k)
      [] s.k = "if"    -> RunIf(m, s)
      [] s.k = "while" ->
            RunLoop(m, s.c, None, s.body)
      [] s.k = "for"   -> RunFor(m, s)
      [] s.k = "case"  -> RunCase(m, s)
      [] s.k = "match" -> RunMatch(m, s)
      [] s.k = "with"  -> RunWith(m, s)
      [] s.k = "block" -> RunBlock(m, s.body)

(* The meaning of a call of f whose own calls have the given outcomes.     *)
Meaning(f, outcomes) ==
    LET params == {f.params[i] : i \in DOMAIN f.params}
        place(x) == CHOOSE i \in DOMAIN f.params : f.params[i] = x
        m0 == [env |-> <<[x \in params |-> place(x)]>>, ch |-> outcomes,
               n |-> Len(f.params), evs |-> << >>, out |-> "next", val |-> Absent,
               bad |-> FALSE, dropped |-> {}]
    IN  RunSeq(m0, f.body)
=============================================================================
