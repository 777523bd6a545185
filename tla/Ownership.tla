----------------------------- MODULE Ownership -----------------------------
(* The discipline of generated C: what a C function may do with what its   *)
(* objects ("slots") hold.  The emitter keeps it without writing it down   *)
(* (l0_backend_lifetime.py, l0_scope_context.py); here it is an annotation *)
(* of the code, checked one instruction at a time.                         *)
(*                                                                         *)
(* An account says, before an instruction is run,                          *)
(*   plain   which slots hold null, static data or a truth value           *)
(*   lent    which hold an argument, counted by the caller                 *)
(*   held    sets of slots of one value, each with one release owed for it *)
(*   live    sets of slots of one pointer, which is not dropped            *)
(* The other slots are not to be read.                                     *)
EXTENDS Naturals, Sequences

CONSTANT Owns(_, _)      \* the annotation of a C function of some parameters: accounts where it can be

Groups(a)   == a.held \cup a.live
Readable(a) == a.plain \cup a.lent \cup UNION Groups(a)

(* Accounts of n slots; no two releases are owed for one slot.             *)
Account(a, n) ==
    /\ a \in [plain : SUBSET (1..n), lent : SUBSET (1..n),
              held : SUBSET SUBSET (1..n), live : SUBSET SUBSET (1..n)]
    /\ {} \notin Groups(a)
    /\ \A G, H \in Groups(a) : G = H \/ G \cap H = {}
    /\ a.held \cap a.live = {}

HeldBy(groups, s) == {G \in groups : s \in G}

-----------------------------------------------------------------------------
(* What becomes of an account. *)

Nothing == [plain |-> {}, lent |-> {}, held |-> {}, live |-> {}]

(* Slot d is about to hold something else. *)
Forget(a, d) ==
    [plain |-> a.plain \ {d}, lent |-> a.lent \ {d},
     held |-> {G \ {d} : G \in a.held}, live |-> {G \ {d} : G \in a.live} \ {{}}]

Plain(a, d) == [a EXCEPT !.plain = @ \cup {d}]
Held(a, d)  == [a EXCEPT !.held = @ \cup {{d}}]
Live(a, d)  == [a EXCEPT !.live = @ \cup {{d}}]

(* Slot d holds what s does. *)
Beside(S, s, d) == IF s \in S THEN S \cup {d} ELSE S
Alias(a, d, s) ==
    [plain |-> Beside(a.plain, s, d), lent |-> Beside(a.lent, s, d),
     held |-> {Beside(G, s, d) : G \in a.held}, live |-> {Beside(G, s, d) : G \in a.live}]

Settle(a, s) == [a EXCEPT !.held = @ \ HeldBy(@, s)]
Kill(a, s)    == [a EXCEPT !.live = @ \ HeldBy(@, s)]

(* Slot s turned out to hold null. *)
Nulled(a, s) == [a EXCEPT !.plain = @ \cup UNION HeldBy(a.held, s), !.held = @ \ HeldBy(@, s)]

(* The account after an instruction that is followed by the next one.      *)
Effect(a, i) ==
    CASE i.op = "decl"    -> Forget(a, i.d)
      [] i.op \in {"lit", "null", "true", "false", "call", "test", "matches"} ->
                             Plain(Forget(a, i.d), i.d)
      [] i.op = "move"    -> Alias(Forget(a, i.d), i.d, i.s)
      [] i.op \in {"mk", "maybe"} -> Held(Forget(a, i.d), i.d)
      [] i.op = "new"     -> Live(Forget(a, i.d), i.d)
      [] i.op = "retain"  -> Held(Forget(a, i.s), i.s)
      [] i.op = "release" -> Settle(a, i.s)
      [] i.op = "drop"    -> Forget(Kill(a, i.s), i.s)
      [] i.op = "ifsome"  -> Nulled(a, i.s)
      [] i.op \in {"label", "ifnot"} -> a

(* Account b asks for no more than a gives: what it still owes is the same.*)
Below(b, a) ==
    /\ b.plain \subseteq a.plain
    /\ b.lent \subseteq a.lent \cup a.plain
    /\ \A G \in b.held : G \subseteq a.plain \/ \E H \in a.held : G \subseteq H
    /\ \A H \in a.held : \E G \in b.held : G \subseteq H
    /\ \A G \in b.live : \E H \in a.live : G \subseteq H
    /\ \A G, H \in b.held : G # H => \A K \in a.held : ~(G \subseteq K /\ H \subseteq K)
    /\ \A G, H \in b.live : G # H => \A K \in a.live : ~(G \subseteq K /\ H \subseteq K)

-----------------------------------------------------------------------------
(* What an instruction must find in the account. *)

Stores == {"decl", "lit", "null", "true", "false", "call", "test", "matches",
           "move", "mk", "maybe", "new"}
Calls  == {"mk", "new", "call", "test", "matches"}
Jumps  == {"jump", "ifnot", "ifsome"}
Counts == {"retain", "release"}

May(a, i, result) ==
    /\ i.op \in Stores  => {i.d} \notin a.held
    /\ i.op \in Calls   => \A k \in DOMAIN i.args : i.args[k] \in Readable(a)
    /\ i.op = "move"    => i.s \in Readable(a) \ {i.d}
    /\ i.op = "retain"  => i.s \in Readable(a) \ UNION a.live /\ {i.s} \notin a.held
    /\ i.op = "release" => i.s \in a.plain \cup UNION a.held
    /\ i.op = "drop"    => i.s \in UNION a.live
    /\ i.op = "return"  => IF i.s \in UNION a.held THEN \A G \in a.held : i.s \in G
                           ELSE i.s \in {0} \cup a.plain \cup UNION a.live /\ a.held = {}
    /\ i.op = "end"     => a.held = {} /\ result = "void"

Labelled(code, l) == {j \in DOMAIN code : code[j] = [op |-> "label", l |-> l]}

(* Where an instruction may go on, and with what account.                  *)
Leads(code, i, a) ==
    LET on   == IF code[i].op \in {"jump", "return", "end"} THEN {}
                ELSE {<<i + 1, Effect(a, code[i])>>}
        away == IF code[i].op \in Jumps THEN {<<j, a>> : j \in Labelled(code, code[i].l)}
                ELSE {}
    IN  on \cup away

(* Every slot and label an instruction names is there. *)
Shaped(code, n) ==
    /\ DOMAIN code = 1..Len(code) /\ Len(code) \in Nat
    /\ \A i \in DOMAIN code :
        /\ code[i].op \in Stores \cup Jumps \cup Counts \cup {"drop", "label", "return", "end"}
        /\ code[i].op \in Stores => code[i].d \in 1..n
        /\ code[i].op \in Counts \cup {"move", "drop", "ifnot", "ifsome"} => code[i].s \in 1..n
        /\ code[i].op = "return" => code[i].s \in 0..n
        /\ code[i].op \in Calls  => \A k \in DOMAIN code[i].args : code[i].args[k] \in 1..n
        /\ code[i].op \in Jumps  => \E j \in DOMAIN code : Labelled(code, code[i].l) = {j}

(* A compiled function that keeps the discipline, its parameters first.    *)
Accounts(f) ==
    LET code == f.c.code
        n    == f.c.slots
        owns == Owns(f.c, Len(f.params))
    IN  /\ n \in Nat /\ Len(f.params) \in 0..n /\ Shaped(code, n)
        /\ 1 \in DOMAIN owns /\ DOMAIN owns \subseteq DOMAIN code
        /\ Below(owns[1], [Nothing EXCEPT !.lent = 1..Len(f.params)])
        /\ \A i \in DOMAIN owns :
            /\ Account(owns[i], n)
            /\ May(owns[i], code[i], f.result)
            /\ \A to \in Leads(code, i, owns[i]) :
                to[1] \in DOMAIN owns /\ Below(owns[to[1]], to[2])
=============================================================================
