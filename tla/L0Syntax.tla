------------------------------ MODULE L0Syntax ------------------------------
(* The function bodies of L0 that the Stage 1 compiler checks and lowers,  *)
(* as records, and the questions about an expression that the checker and  *)
(* the lowering both ask (l0_ast.py, l0_backend_state.py,                  *)
(* l0_backend_lifetime.py, l0_check_liveness.py).                          *)
(*                                                                         *)
(* Types are reduced to what ownership tells apart: "str" is any value     *)
(* that holds counted strings (string, or a struct or enum of them), "opt" *)
(* the value optional of it, "ptr" a heap pointer, "int" everything that   *)
(* owns nothing.                                                           *)
EXTENDS Naturals, Sequences

CONSTANT VarType      \* the type of each variable name

None == [k |-> "none"]                       \* an absent expression or statement

(* Expressions. *)
Lit         == [k |-> "lit"]                 \* a string literal: static, uncounted
Null        == [k |-> "null"]
Mk          == [k |-> "mk"]                  \* a call that returns a new string
Maybe       == [k |-> "maybe"]               \* a call that returns a new string?
New         == [k |-> "new"]                 \* new T(...)
Var(x)      == [k |-> "var", x |-> x]
Try(e)      == [k |-> "try", e |-> e]        \* e?
Call(args)  == [k |-> "call", args |-> args] \* a call seen by the caller
Test(args)  == [k |-> "test", args |-> args] \* a call that returns a bool
And(l, r)   == [k |-> "and", l |-> l, r |-> r]
Or(l, r)    == [k |-> "or", l |-> l, r |-> r]
Concat(l, r) == [k |-> "concat", l |-> l, r |-> r]

(* Statements. *)
Let(x, e)     == [k |-> "let", x |-> x, e |-> e]
Assign(x, e)  == [k |-> "assign", x |-> x, e |-> e]
Expr(e)       == [k |-> "expr", e |-> e]
Drop(x)       == [k |-> "drop", x |-> x]
Return(e)     == [k |-> "return", e |-> e]
Break         == [k |-> "break"]
Continue      == [k |-> "continue"]
Block(ss)     == [k |-> "block", body |-> ss]
If(c, t, f)   == [k |-> "if", c |-> c, then |-> t, else |-> f]
While(c, ss)  == [k |-> "while", c |-> c, body |-> ss]
For(i, c, u, ss) ==
    [k |-> "for", init |-> i, c |-> c, update |-> u, body |-> ss]
(* case (e) { literal => stmt ... _ => stmt }; a missing default is None.  *)
Case(e, arms, d) == [k |-> "case", e |-> e, arms |-> arms, default |-> d]
(* match (e) { V(x) => { ... } ... }, exhaustive; an arm is dead when it   *)
(* is a wildcard behind every variant.  x is the payload of the scrutinee. *)
Arm(x, ss)    == [x |-> x, body |-> ss, dead |-> FALSE]
DeadArm(ss)   == [x |-> "", body |-> ss, dead |-> TRUE]
Match(e, arms) == [k |-> "match", e |-> e, arms |-> arms]
(* with (init => cleanup, ...) { ... } and with (...) { ... } cleanup { } *)
With(items, ss, cleanup) ==
    [k |-> "with", items |-> items, body |-> ss, cleanup |-> cleanup]
Item(init, cleanup) == [init |-> init, cleanup |-> cleanup]

-----------------------------------------------------------------------------

(* The type of an expression. *)
TypeOf(e) ==
    CASE e.k \in {"mk", "lit", "try", "concat"} -> "str"
      [] e.k \in {"maybe", "null"}              -> "opt"
      [] e.k = "new"                            -> "ptr"
      [] e.k = "var"                            -> VarType[e.x]
      [] OTHER                                  -> "int"

HasArcData(type) == type \in {"str", "opt"}

(* An expression that reads an existing binding, or extracts from one: its *)
(* value has another owner.                                                *)
RECURSIVE IsBorrowed(_)
IsBorrowed(e) == \/ e.k = "var"
                 \/ e.k = "try" /\ IsBorrowed(e.e)

(* A fresh counted value that nothing owns yet.  Literals are static and   *)
(* null has no payload.                                                    *)
ShouldMaterializeArcTemp(e) ==
    /\ HasArcData(TypeOf(e))
    /\ ~IsBorrowed(e)
    /\ e.k \notin {"lit", "null"}

RECURSIVE ExprContainsTry(_)
ExprContainsTry(e) ==
    \/ e.k = "try"
    \/ e.k \in {"call", "test"} /\ \E i \in DOMAIN e.args : ExprContainsTry(e.args[i])
    \/ e.k \in {"and", "or", "concat"} /\ (ExprContainsTry(e.l) \/ ExprContainsTry(e.r))

StmtContainsTry(s) ==
    s.k \in {"let", "assign", "expr"} /\ ExprContainsTry(s.e)

(* Every statement below s, s included. *)
RECURSIVE BodyStmts(_)
BodyStmts(s) ==
    LET Below(ss) == UNION {BodyStmts(ss[i]) : i \in DOMAIN ss}
        Parts ==
            CASE s.k \in {"block", "while"} -> Below(s.body)
              [] s.k = "if"    -> BodyStmts(s.then) \cup BodyStmts(s.else)
              [] s.k = "for"   -> Below(<<s.init, s.update>> \o s.body)
              [] s.k = "case"  -> Below(s.arms) \cup BodyStmts(s.default)
              [] s.k = "match" -> UNION {Below(s.arms[i].body) : i \in DOMAIN s.arms}
              [] s.k = "with"  ->
                    UNION {BodyStmts(s.items[i].init) \cup BodyStmts(s.items[i].cleanup)
                           : i \in DOMAIN s.items}
                    \cup Below(s.body) \cup BodyStmts(s.cleanup)
              [] OTHER -> {}
    IN  {s} \cup Parts

(* The parameters the body assigns to: they are retained on entry.         *)
ReassignedArcParams(f) ==
    {x \in {f.params[i] : i \in DOMAIN f.params} :
        /\ HasArcData(VarType[x])
        /\ \E s \in BodyStmts(Block(f.body)) : s.k = "assign" /\ s.x = x}
=============================================================================
