--------------------------- MODULE GeneratedCProofs ---------------------------
(***************************************************************************)
(* Code that keeps the discipline of Ownership runs soundly: whatever its  *)
(* calls answer and however many do, it reads no object that is not there, *)
(* and every string is counted as often as it is owed a release.  Code     *)
(* that is annotated as Winding asks ends once its calls answer no.        *)
(* Accounts and Winds are all that is assumed of the code, and TLC checks  *)
(* both on every function of the runs (TypeOK).                            *)
(*                                                                         *)
(* The first part is about accounts alone.  Holds says that the objects    *)
(* are what an account says; each instruction is then shown to make its    *)
(* effect on the account true.                                             *)
(***************************************************************************)
EXTENDS GeneratedC, FiniteSetTheorems, FunctionTheorems, SequenceTheorems, TLAPS

(* Null, static data, a truth value: nothing to count. *)
Still(v) == v \in {Absent, 0, Truth(TRUE), Truth(FALSE)}

(* The slots of a set hold the same object, if any. *)
Alike(sl, groups) ==
    \A G \in groups : \A s, t \in G : sl[s] = sl[t] \/ (Still(sl[s]) /\ Still(sl[t]))

(* The sets of slots that owe a release of object o. *)
Owing(a, sl, o) == {G \in a.held : \E s \in G : sl[s] = o}

-----------------------------------------------------------------------------
(* The releases owed for an object can be counted. *)
LEMMA OwingIsFinite ==
  ASSUME NEW n \in Nat, NEW a, Account(a, n), NEW sl, NEW o
  PROVE  IsFiniteSet(Owing(a, sl, o)) /\ Cardinality(Owing(a, sl, o)) \in Nat
<1>1. IsFiniteSet(1..n)
  BY FS_Interval
<1>2. IsFiniteSet(SUBSET (1..n))
  BY <1>1, FS_SUBSET
<1>3. Owing(a, sl, o) \in SUBSET SUBSET (1..n)
  BY DEF Account, Owing
<1> QED
  BY <1>2, <1>3, FS_Subset, FS_CardinalityType

(* An account that asks for no more owes as many releases of each object.  *)
LEMMA SameOwing ==
  ASSUME NEW n \in Nat, NEW a, NEW b, Account(a, n), Account(b, n), Below(b, a),
         NEW sl, Alike(sl, a.held), \A s \in a.plain : Still(sl[s]),
         NEW o \in Nat \ {0}
  PROVE  Cardinality(Owing(b, sl, o)) = Cardinality(Owing(a, sl, o))
<1> DEFINE S == Owing(b, sl, o)
           T == Owing(a, sl, o)
           f == [G \in S |-> CHOOSE H \in a.held : G \subseteq H]
<1>1. ~Still(o)
  BY DEF Still, Absent, Truth
<1>2. ASSUME NEW G \in S
      PROVE  f[G] \in T /\ f[G] \in a.held /\ G \subseteq f[G]
  <2>1. PICK s \in G : sl[s] = o
    BY DEF Owing
  <2>2. ~(G \subseteq a.plain)
    BY <1>1, <2>1
  <2>3. \E H \in a.held : G \subseteq H
    BY <2>2 DEF Below, Owing
  <2>4. f[G] \in a.held /\ G \subseteq f[G]
    BY <2>3
  <2> QED
    BY <2>1, <2>4 DEF Owing
<1>3. f \in [S -> T]
  BY <1>2
<1>4. ASSUME NEW G \in S, NEW H \in S, f[G] = f[H] PROVE G = H
  <2>1. /\ G \in b.held /\ H \in b.held /\ f[G] \in a.held
        /\ G \subseteq f[G] /\ H \subseteq f[G]
    BY <1>2, <1>4 DEF Owing
  <2> HIDE DEF S, f
  <2> QED
    BY <2>1 DEF Below
<1>5. ASSUME NEW H \in T PROVE \E G \in S : f[G] = H
  <2>1. H \in a.held /\ \E t \in H : sl[t] = o
    BY DEF Owing
  <2>2. PICK G \in b.held : G \subseteq H
    BY <2>1 DEF Below
  <2>3. PICK s \in G : TRUE
    <3>1. G # {}
      BY DEF Account, Groups
    <3> QED
      BY <3>1
  <2>4. sl[s] = o
    BY <1>1, <2>1, <2>2, <2>3 DEF Alike
  <2>5. G \in S
    BY <2>3, <2>4 DEF Owing
  <2>6. s \in f[G] /\ s \in H /\ f[G] \in a.held
    BY <1>2, <2>2, <2>3, <2>5
  <2>7. f[G] = H
    BY <2>1, <2>6 DEF Account, Groups
  <2> QED
    BY <2>5, <2>7
<1> HIDE DEF S, T, f
<1>6. f \in Bijection(S, T)
  BY <1>3, <1>4, <1>5, Fun_IsBij
<1>7. ExistsBijection(S, T)
  BY <1>6, Fun_ExistsBij
<1>8. IsFiniteSet(S)
  BY OwingIsFinite DEF S
<1> QED
  BY <1>7, <1>8, FS_Bijection DEF S, T

-----------------------------------------------------------------------------
(* What becomes of an account is one again. *)

(* A slot that is forgotten is in no part of the account, which asks for   *)
(* no more than before.                                                    *)
LEMMA ForgetIsBelow ==
  ASSUME NEW n \in Nat, NEW a, Account(a, n), NEW d, {d} \notin a.held
  PROVE  /\ Account(Forget(a, d), n) /\ Below(Forget(a, d), a)
         /\ d \notin Readable(Forget(a, d))
<1> DEFINE b == Forget(a, d)
<1>1. /\ b.plain = a.plain \ {d} /\ b.lent = a.lent \ {d}
      /\ b.held = {G \ {d} : G \in a.held} /\ b.live = {G \ {d} : G \in a.live} \ {{}}
      /\ b = [plain |-> b.plain, lent |-> b.lent, held |-> b.held, live |-> b.live]
  BY DEF Forget
<1> HIDE DEF b
<1>2. \A G \in Groups(b) : G # {} /\ d \notin G
  <2>1. ASSUME NEW H \in a.held PROVE H \ {d} # {}
    <3>1. H # {} /\ H # {d}
      BY DEF Account, Groups
    <3> QED
      BY <3>1
  <2> QED
    BY <1>1, <2>1 DEF Groups
<1>3. /\ \A G \in b.held : \E H \in a.held : G = H \ {d}
      /\ \A G \in b.live : \E H \in a.live : G = H \ {d}
      /\ \A H \in a.held : H \ {d} \in b.held
  BY <1>1
<1>4. \A G \in Groups(b) : \E H \in Groups(a) : G = H \ {d}
  BY <1>3 DEF Groups
<1>5. ASSUME NEW G \in Groups(b), NEW H \in Groups(b) PROVE G = H \/ G \cap H = {}
  <2>1. PICK G1 \in Groups(a), H1 \in Groups(a) : G = G1 \ {d} /\ H = H1 \ {d}
    BY <1>4
  <2>2. G1 = H1 \/ G1 \cap H1 = {}
    BY DEF Account
  <2> QED
    BY <2>1, <2>2
<1>6. b.held \cap b.live = {}
  <2> SUFFICES ASSUME NEW G, G \in b.held, G \in b.live PROVE FALSE
    OBVIOUS
  <2>1. PICK H \in a.held : G = H \ {d}
    BY <1>3
  <2>2. PICK K \in a.live : G = K \ {d}
    BY <1>3
  <2>3. PICK s \in G : TRUE
    BY <1>2 DEF Groups
  <2>4. H = K
    BY <2>1, <2>2, <2>3 DEF Account, Groups
  <2> QED
    BY <2>1, <2>2, <2>4 DEF Account
<1>7. b \in [plain : SUBSET (1..n), lent : SUBSET (1..n),
             held : SUBSET SUBSET (1..n), live : SUBSET SUBSET (1..n)]
  <2>1. \A G \in b.held \cup b.live : G \subseteq 1..n
    BY <1>3 DEF Account
  <2>2. b.plain \subseteq 1..n /\ b.lent \subseteq 1..n
    BY <1>1 DEF Account
  <2> QED
    BY <1>1, <2>1, <2>2
<1>8. \A G, H \in Groups(a) : G \cap H # {} => G = H
  BY DEF Account
<1>9. Below(b, a)
  <2>1. /\ \A G \in b.held : \E H \in a.held : G \subseteq H
        /\ \A H \in a.held : \E G \in b.held : G \subseteq H
        /\ \A G \in b.live : \E H \in a.live : G \subseteq H
    <3>1. \A H : H \ {d} \subseteq H
      OBVIOUS
    <3> QED
      BY <1>3, <3>1
  <2>2. ASSUME NEW G \in b.held, NEW H \in b.held, NEW K \in a.held, G \subseteq K, H \subseteq K
        PROVE  G = H
    <3>1. PICK G1 \in a.held : G = G1 \ {d}
      BY <1>3
    <3>2. PICK H1 \in a.held : H = H1 \ {d}
      BY <1>3
    <3>3. G1 = K /\ H1 = K
      BY <1>2, <1>8, <2>2, <3>1, <3>2 DEF Groups
    <3> QED
      BY <3>1, <3>2, <3>3
  <2>3. ASSUME NEW G \in b.live, NEW H \in b.live, NEW K \in a.live, G \subseteq K, H \subseteq K
        PROVE  G = H
    <3>1. PICK G1 \in a.live : G = G1 \ {d}
      BY <1>3
    <3>2. PICK H1 \in a.live : H = H1 \ {d}
      BY <1>3
    <3>3. G1 = K /\ H1 = K
      BY <1>2, <1>8, <2>3, <3>1, <3>2 DEF Groups
    <3> QED
      BY <3>1, <3>2, <3>3
  <2> QED
    BY <1>1, <2>1, <2>2, <2>3 DEF Below
<1>10. d \notin Readable(b)
  BY <1>1, <1>2 DEF Readable, Groups
<1> QED
  BY <1>2, <1>5, <1>6, <1>7, <1>9, <1>10 DEF Account, b

(* A new set of one slot that the account does not mention.                *)
LEMMA OneMore ==
  ASSUME NEW n \in Nat, NEW a, Account(a, n), NEW d \in 1..n, d \notin Readable(a)
  PROVE  Account(Plain(a, d), n) /\ Account(Held(a, d), n) /\ Account(Live(a, d), n)
<1> a \in [plain : SUBSET (1..n), lent : SUBSET (1..n),
           held : SUBSET SUBSET (1..n), live : SUBSET SUBSET (1..n)]
  BY DEF Account
<1>1. \A G \in Groups(a) : d \notin G /\ G # {} /\ G # {d} /\ G \cap {d} = {}
  <2>1. \A G \in Groups(a) : d \notin G /\ G # {}
    BY DEF Account, Readable
  <2> QED
    BY <2>1
<1>2. Account(Plain(a, d), n)
  <2>1. /\ Plain(a, d).plain = a.plain \cup {d} /\ Plain(a, d).lent = a.lent
        /\ Plain(a, d).held = a.held /\ Plain(a, d).live = a.live
    BY DEF Plain
  <2> QED
    BY <2>1 DEF Account, Groups, Plain
<1>3. Account(Held(a, d), n)
  <2>1. /\ Held(a, d).plain = a.plain /\ Held(a, d).lent = a.lent
        /\ Held(a, d).held = a.held \cup {{d}} /\ Held(a, d).live = a.live
    BY DEF Held
  <2>2. Groups(Held(a, d)) = Groups(a) \cup {{d}}
    BY <2>1 DEF Groups
  <2>3. \A G, H \in Groups(Held(a, d)) : G = H \/ G \cap H = {}
    BY <1>1, <2>2 DEF Account
  <2>4. {} \notin Groups(Held(a, d)) /\ Held(a, d).held \cap Held(a, d).live = {}
    BY <1>1, <2>1, <2>2 DEF Account, Groups
  <2>5. Held(a, d) \in [plain : SUBSET (1..n), lent : SUBSET (1..n),
                        held : SUBSET SUBSET (1..n), live : SUBSET SUBSET (1..n)]
    BY DEF Held
  <2> QED
    BY <2>3, <2>4, <2>5 DEF Account
<1>4. Account(Live(a, d), n)
  <2>1. /\ Live(a, d).plain = a.plain /\ Live(a, d).lent = a.lent
        /\ Live(a, d).live = a.live \cup {{d}} /\ Live(a, d).held = a.held
    BY DEF Live
  <2>2. Groups(Live(a, d)) = Groups(a) \cup {{d}}
    BY <2>1 DEF Groups
  <2>3. \A G, H \in Groups(Live(a, d)) : G = H \/ G \cap H = {}
    BY <1>1, <2>2 DEF Account
  <2>4. {} \notin Groups(Live(a, d)) /\ Live(a, d).held \cap Live(a, d).live = {}
    BY <1>1, <2>1, <2>2 DEF Account, Groups
  <2>5. Live(a, d) \in [plain : SUBSET (1..n), lent : SUBSET (1..n),
                        held : SUBSET SUBSET (1..n), live : SUBSET SUBSET (1..n)]
    BY DEF Live
  <2> QED
    BY <2>3, <2>4, <2>5 DEF Account
<1> QED
  BY <1>2, <1>3, <1>4

(* A set of slots gone, and slots that turned out to hold nothing.         *)
LEMMA OneLess ==
  ASSUME NEW n \in Nat, NEW a, Account(a, n), NEW s
  PROVE  Account(Settle(a, s), n) /\ Account(Kill(a, s), n) /\ Account(Nulled(a, s), n)
<1> a \in [plain : SUBSET (1..n), lent : SUBSET (1..n),
           held : SUBSET SUBSET (1..n), live : SUBSET SUBSET (1..n)]
  BY DEF Account
<1>1. Account(Settle(a, s), n)
  <2>1. Settle(a, s).held \subseteq a.held /\ Settle(a, s).live = a.live
    BY DEF Settle
  <2> QED
    BY <2>1 DEF Account, Groups, Settle
<1>2. Account(Kill(a, s), n)
  <2>1. Kill(a, s).held = a.held /\ Kill(a, s).live \subseteq a.live
    BY DEF Kill
  <2> QED
    BY <2>1 DEF Account, Groups, Kill
<1>3. Account(Nulled(a, s), n)
  <2>1. Nulled(a, s).held \subseteq a.held /\ Nulled(a, s).live = a.live
    BY DEF Nulled
  <2>2. UNION HeldBy(a.held, s) \subseteq 1..n
    BY DEF HeldBy
  <2> QED
    BY <2>1, <2>2 DEF Account, Groups, Nulled
<1> QED
  BY <1>1, <1>2, <1>3

(* A copy joins the sets of what it copies, and takes nothing from them.   *)
LEMMA AliasIsAbove ==
  ASSUME NEW n \in Nat, NEW a, Account(a, n), NEW d \in 1..n, d \notin Readable(a),
         NEW s \in 1..n, s # d
  PROVE  Account(Alias(a, d, s), n) /\ Below(a, Alias(a, d, s))
<1> DEFINE b == Alias(a, d, s)
<1>1. /\ b.plain = Beside(a.plain, s, d) /\ b.lent = Beside(a.lent, s, d)
      /\ b.held = {Beside(G, s, d) : G \in a.held} /\ b.live = {Beside(G, s, d) : G \in a.live}
      /\ b = [plain |-> b.plain, lent |-> b.lent, held |-> b.held, live |-> b.live]
  BY DEF Alias
<1> HIDE DEF b
<1>2. \A G \in Groups(a) : d \notin G /\ G # {}
  BY DEF Account, Readable
<1>3. /\ \A G \in b.held : \E H \in a.held : G = Beside(H, s, d)
      /\ \A G \in b.live : \E H \in a.live : G = Beside(H, s, d)
      /\ \A H \in a.held : Beside(H, s, d) \in b.held
      /\ \A H \in a.live : Beside(H, s, d) \in b.live
  BY <1>1
<1>4. \A G \in Groups(b) : \E H \in Groups(a) : G = Beside(H, s, d)
  BY <1>3 DEF Groups
<1>5. \A H : H \subseteq Beside(H, s, d) /\ Beside(H, s, d) \subseteq H \cup {d}
  BY DEF Beside
<1>6. \A G \in Groups(b) : G # {}
  <2> SUFFICES ASSUME NEW G \in Groups(b) PROVE G # {}
    OBVIOUS
  <2>1. PICK H \in Groups(a) : G = Beside(H, s, d)
    BY <1>4
  <2>2. H # {} /\ H \subseteq G
    BY <1>2, <1>5, <2>1
  <2> QED
    BY <2>2
<1>7. ASSUME NEW G \in Groups(a), NEW H \in Groups(a),
             NEW t, t \in Beside(G, s, d), t \in Beside(H, s, d)
      PROVE  G = H
  <2>1. CASE t = d
    <3>1. s \in G /\ s \in H
      BY <1>2, <1>7, <2>1 DEF Beside
    <3> QED
      BY <3>1 DEF Account
  <2>2. CASE t # d
    <3>1. t \in G /\ t \in H
      BY <1>5, <1>7, <2>2
    <3> QED
      BY <3>1 DEF Account
  <2> QED
    BY <2>1, <2>2
<1>8. ASSUME NEW G \in Groups(b), NEW H \in Groups(b) PROVE G = H \/ G \cap H = {}
  <2>1. PICK G1 \in Groups(a) : G = Beside(G1, s, d)
    BY <1>4
  <2>2. PICK H1 \in Groups(a) : H = Beside(H1, s, d)
    BY <1>4
  <2> QED
    BY <1>7, <2>1, <2>2
<1>9. b.held \cap b.live = {}
  <2> SUFFICES ASSUME NEW G, G \in b.held, G \in b.live PROVE FALSE
    OBVIOUS
  <2>1. PICK H \in a.held : G = Beside(H, s, d)
    BY <1>3
  <2>2. PICK K \in a.live : G = Beside(K, s, d)
    BY <1>3
  <2>3. PICK t \in G : TRUE
    BY <1>6 DEF Groups
  <2>4. H = K
    BY <1>7, <2>1, <2>2, <2>3 DEF Groups
  <2> QED
    BY <2>4 DEF Account
<1>10. b \in [plain : SUBSET (1..n), lent : SUBSET (1..n),
              held : SUBSET SUBSET (1..n), live : SUBSET SUBSET (1..n)]
  <2>1. \A G \in b.held \cup b.live : G \subseteq 1..n
    <3> SUFFICES ASSUME NEW G \in Groups(b) PROVE G \subseteq 1..n
      BY DEF Groups
    <3>1. PICK H \in Groups(a) : G = Beside(H, s, d)
      BY <1>4
    <3>2. H \subseteq 1..n
      BY DEF Account, Groups
    <3> QED
      BY <1>5, <3>1, <3>2
  <2>2. b.plain \subseteq 1..n /\ b.lent \subseteq 1..n
    BY <1>1, <1>5 DEF Account
  <2> QED
    BY <1>1, <2>1, <2>2
<1>11. Below(a, b)
  <2>1. a.plain \subseteq b.plain /\ a.lent \subseteq b.lent
    BY <1>1, <1>5
  <2>2. /\ \A G \in a.held : \E H \in b.held : G \subseteq H
        /\ \A H \in b.held : \E G \in a.held : G \subseteq H
        /\ \A G \in a.live : \E H \in b.live : G \subseteq H
    BY <1>3, <1>5
  <2>3. ASSUME NEW G \in Groups(a), NEW H \in Groups(a), NEW K \in Groups(b),
               G \subseteq K, H \subseteq K
        PROVE  G = H
    <3>1. PICK K1 \in Groups(a) : K = Beside(K1, s, d)
      BY <1>4
    <3>2. PICK t \in G : TRUE
      BY <1>2
    <3>3. PICK u \in H : TRUE
      BY <1>2
    <3>4. G = K1 /\ H = K1
      BY <1>5, <1>7, <2>3, <3>1, <3>2, <3>3
    <3> QED
      BY <3>4
  <2> QED
    BY <2>1, <2>2, <2>3 DEF Below, Groups
<1> QED
  BY <1>6, <1>8, <1>9, <1>10, <1>11 DEF Account, b

-----------------------------------------------------------------------------
(* The objects are what an account says. *)

Objects == [count : Nat, kind : {"string", "pointer"}]
IsA(hp, v, kind) == v \in 1..Len(hp) /\ hp[v].kind = kind

Holds(a, sl, hp, k) ==
    /\ \A s \in a.plain : Still(sl[s])
    /\ \A s \in a.lent : Still(sl[s]) \/ sl[s] \in 1..k
    /\ Alike(sl, Groups(a))
    /\ \A G \in a.held : \A s \in G : Still(sl[s]) \/ IsA(hp, sl[s], "string")
    /\ \A G \in a.live : \A s \in G : IsA(hp, sl[s], "pointer") /\ hp[sl[s]].count > 0
    /\ \A G, H \in a.live : \A s \in G, t \in H : sl[s] = sl[t] => G = H

(* A string is counted once for the caller, when it is one of its k        *)
(* arguments, and once for each release that is owed.                      *)
Balanced(a, sl, hp, k) ==
    \A o \in 1..Len(hp) : hp[o].kind = "string" =>
        hp[o].count = (IF o <= k THEN 1 ELSE 0) + Cardinality(Owing(a, sl, o))

(* The first k objects are the strings of the caller. *)
Given(hp, k) == k <= Len(hp) /\ \A o \in 1..k : hp[o].kind = "string"

(* What holds of an account holds of one that asks for no more.            *)
LEMMA Weaker ==
  ASSUME NEW n \in Nat, NEW a, NEW b, Account(a, n), Account(b, n), Below(b, a),
         NEW sl, NEW hp \in Seq(Objects), NEW k \in Nat,
         Holds(a, sl, hp, k), Balanced(a, sl, hp, k)
  PROVE  Holds(b, sl, hp, k) /\ Balanced(b, sl, hp, k)
<1>1. \A s \in b.plain : Still(sl[s])
  BY DEF Below, Holds
<1>2. \A s \in b.lent : Still(sl[s]) \/ sl[s] \in 1..k
  BY DEF Below, Holds
<1>3. ASSUME NEW G \in b.held
      PROVE  (\A s \in G : Still(sl[s])) \/ \E H \in a.held : G \subseteq H
  BY <1>3 DEF Below, Holds
<1>4. \A G \in b.live : \E H \in a.live : G \subseteq H
  BY DEF Below
<1>5. Alike(sl, Groups(b))
  <2>1. Alike(sl, a.held) /\ Alike(sl, a.live)
    BY DEF Holds, Alike, Groups
  <2>2. Alike(sl, b.held)
    BY <1>3, <2>1 DEF Alike
  <2>3. Alike(sl, b.live)
    BY <1>4, <2>1 DEF Alike
  <2> QED
    BY <2>2, <2>3 DEF Alike, Groups
<1>6. \A G \in b.held : \A s \in G : Still(sl[s]) \/ IsA(hp, sl[s], "string")
  <2> SUFFICES ASSUME NEW G \in b.held, NEW s \in G
               PROVE  Still(sl[s]) \/ IsA(hp, sl[s], "string")
    OBVIOUS
  <2>1. CASE \E H \in a.held : G \subseteq H
    BY <2>1 DEF Holds
  <2> QED
    BY <1>3, <2>1
<1>7. \A G \in b.live : \A s \in G : IsA(hp, sl[s], "pointer") /\ hp[sl[s]].count > 0
  BY <1>4 DEF Holds
<1>8. ASSUME NEW G \in b.live, NEW H \in b.live, NEW s \in G, NEW t \in H, sl[s] = sl[t]
      PROVE  G = H
  <2>1. PICK K \in a.live : G \subseteq K
    BY <1>4
  <2>2. PICK M \in a.live : H \subseteq M
    BY <1>4
  <2>3. K = M
    BY <1>8, <2>1, <2>2 DEF Holds
  <2> QED
    BY <2>1, <2>2, <2>3 DEF Below
<1>9. Holds(b, sl, hp, k)
  BY <1>1, <1>2, <1>5, <1>6, <1>7, <1>8 DEF Holds
<1>10. \A o \in Nat \ {0} : Cardinality(Owing(b, sl, o)) = Cardinality(Owing(a, sl, o))
  <2>1. Alike(sl, a.held) /\ \A s \in a.plain : Still(sl[s])
    BY DEF Holds, Alike, Groups
  <2> QED
    BY <2>1, SameOwing
<1>11. \A o \in 1..Len(hp) : o \in Nat \ {0}
  OBVIOUS
<1> QED
  BY <1>9, <1>10, <1>11 DEF Balanced

(* A slot the account does not mention may hold anything.                  *)
LEMMA Elsewhere ==
  ASSUME NEW n \in Nat, NEW a, Account(a, n), NEW d \in 1..n, d \notin Readable(a),
         NEW sl \in [1..n -> Int], NEW v \in Int, NEW hp \in Seq(Objects), NEW k \in Nat,
         Holds(a, sl, hp, k), Balanced(a, sl, hp, k)
  PROVE  Holds(a, [sl EXCEPT ![d] = v], hp, k) /\ Balanced(a, [sl EXCEPT ![d] = v], hp, k)
<1> DEFINE new == [sl EXCEPT ![d] = v]
<1>0. \A s \in 1..n : s # d => new[s] = sl[s]
  OBVIOUS
<1> HIDE DEF new
<1>1. /\ \A s \in a.plain : new[s] = sl[s]
      /\ \A s \in a.lent : new[s] = sl[s]
      /\ \A G \in Groups(a) : \A s \in G : new[s] = sl[s]
  <2>1. /\ a.plain \subseteq 1..n /\ a.lent \subseteq 1..n
        /\ \A G \in Groups(a) : G \subseteq 1..n
    BY DEF Account, Groups
  <2>2. d \notin a.plain /\ d \notin a.lent /\ \A G \in Groups(a) : d \notin G
    BY DEF Readable
  <2> QED
    BY <1>0, <2>1, <2>2
<1>2. \A o : Owing(a, new, o) = Owing(a, sl, o)
  BY <1>1 DEF Owing, Groups
<1>3. Balanced(a, new, hp, k)
  BY <1>2 DEF Balanced
<1>4. Alike(new, Groups(a))
  BY <1>1 DEF Holds, Alike
<1>5. /\ \A G \in a.held : \A s \in G : new[s] = sl[s]
      /\ \A G \in a.live : \A s \in G : new[s] = sl[s]
  BY <1>1 DEF Groups
<1>6. Holds(a, new, hp, k)
  BY <1>1, <1>4, <1>5 DEF Holds
<1> QED
  BY <1>3, <1>6 DEF new

(* A store: the account that forgets the slot holds afterwards.            *)
LEMMA Storing ==
  ASSUME NEW n \in Nat, NEW a, Account(a, n), NEW d \in 1..n, {d} \notin a.held,
         NEW sl \in [1..n -> Int], NEW v \in Int, NEW hp \in Seq(Objects), NEW k \in Nat,
         Holds(a, sl, hp, k), Balanced(a, sl, hp, k)
  PROVE  LET new == [sl EXCEPT ![d] = v]
             b   == Forget(a, d)
         IN  /\ Account(b, n) /\ d \notin Readable(b) /\ new[d] = v
             /\ Holds(b, new, hp, k) /\ Balanced(b, new, hp, k)
<1> DEFINE new == [sl EXCEPT ![d] = v]
           b   == Forget(a, d)
<1>1. Account(b, n) /\ Below(b, a) /\ d \notin Readable(b)
  BY ForgetIsBelow
<1>2. Holds(b, sl, hp, k) /\ Balanced(b, sl, hp, k)
  BY <1>1, Weaker
<1>3. new[d] = v
  OBVIOUS
<1> HIDE DEF b
<1>4. Holds(b, new, hp, k) /\ Balanced(b, new, hp, k)
  BY <1>1, <1>2, Elsewhere
<1> QED
  BY <1>1, <1>3, <1>4 DEF b

(* Whoever reads a readable slot finds something there.                    *)
LEMMA ReadableIsThere ==
  ASSUME NEW n \in Nat, NEW a, Account(a, n), NEW s \in Readable(a),
         NEW sl, NEW hp \in Seq(Objects), NEW k \in Nat, Given(hp, k),
         Holds(a, sl, hp, k), Balanced(a, sl, hp, k)
  PROVE  Still(sl[s]) \/ (sl[s] \in 1..Len(hp) /\ hp[sl[s]].count > 0)
<1> DEFINE o == sl[s]
<1> \A i \in 1..Len(hp) : hp[i] \in Objects
  BY ElementOfSeq
<1> \A i \in 1..Len(hp) : hp[i].count \in Nat /\ hp[i].kind \in {"string", "pointer"}
  BY DEF Objects
<1>1. CASE s \in a.plain
  BY <1>1 DEF Holds
<1>2. CASE s \in a.lent /\ ~Still(o)
  <2>1. o \in 1..k /\ o \in 1..Len(hp) /\ hp[o].kind = "string"
    BY <1>2 DEF Holds, Given
  <2>2. hp[o].count = 1 + Cardinality(Owing(a, sl, o))
    BY <2>1 DEF Balanced
  <2> QED
    BY <2>1, <2>2, OwingIsFinite
<1>3. CASE s \in UNION a.live
  BY <1>3 DEF Holds, IsA
<1>4. CASE s \in UNION a.held /\ ~Still(o)
  <2>1. PICK G \in a.held : s \in G
    BY <1>4
  <2>2. o \in 1..Len(hp) /\ hp[o].kind = "string"
    BY <1>4, <2>1 DEF Holds, IsA
  <2>3. G \in Owing(a, sl, o)
    BY <2>1 DEF Owing
  <2>4. Cardinality(Owing(a, sl, o)) # 0
    BY <2>3, OwingIsFinite, FS_EmptySet
  <2>5. Cardinality(Owing(a, sl, o)) \in Nat
    BY OwingIsFinite
  <2>6. hp[o].count = (IF o <= k THEN 1 ELSE 0) + Cardinality(Owing(a, sl, o))
    BY <2>2 DEF Balanced
  <2> QED
    BY <2>2, <2>4, <2>5, <2>6
<1> QED
  BY <1>1, <1>2, <1>3, <1>4 DEF Readable, Groups

(* Slot d holds nothing that is counted: it may be called plain, or a set  *)
(* of its own that owes a release of nothing.                              *)
LEMMA StillIsPlain ==
  ASSUME NEW a, NEW d, d \notin Readable(a), NEW sl, Still(sl[d]), NEW hp, NEW k,
         Holds(a, sl, hp, k), Balanced(a, sl, hp, k), Len(hp) \in Nat,
         a = [plain |-> a.plain, lent |-> a.lent, held |-> a.held, live |-> a.live]
  PROVE  /\ Holds(Plain(a, d), sl, hp, k) /\ Balanced(Plain(a, d), sl, hp, k)
         /\ Holds(Held(a, d), sl, hp, k) /\ Balanced(Held(a, d), sl, hp, k)
<1> DEFINE p == Plain(a, d)
           h == Held(a, d)
<1>1. p.plain = a.plain \cup {d} /\ p.lent = a.lent /\ p.held = a.held /\ p.live = a.live
  BY DEF Plain
<1>2. h.plain = a.plain /\ h.lent = a.lent /\ h.held = a.held \cup {{d}} /\ h.live = a.live
  BY DEF Held
<1> HIDE DEF p, h
<1>3. Holds(p, sl, hp, k)
  BY <1>1 DEF Holds, Groups
<1>4. Balanced(p, sl, hp, k)
  <2>1. \A o : Owing(p, sl, o) = Owing(a, sl, o)
    BY <1>1 DEF Owing
  <2> QED
    BY <2>1 DEF Balanced
<1>5. Holds(h, sl, hp, k)
  <2>1. Alike(sl, Groups(a) \cup {{d}})
    BY DEF Holds, Alike
  <2>2. Groups(h) = Groups(a) \cup {{d}}
    BY <1>2 DEF Groups
  <2> QED
    BY <1>2, <2>1, <2>2 DEF Holds
<1>6. Balanced(h, sl, hp, k)
  <2>1. \A o \in 1..Len(hp) : ~Still(o)
    BY DEF Still, Absent, Truth
  <2>2. \A o \in 1..Len(hp) : Owing(h, sl, o) = Owing(a, sl, o)
    BY <1>2, <2>1 DEF Owing
  <2> QED
    BY <2>2 DEF Balanced
<1> QED
  BY <1>3, <1>4, <1>5, <1>6 DEF p, h

(* A copy of a readable slot.                                              *)
LEMMA AliasHolds ==
  ASSUME NEW n \in Nat, NEW a, Account(a, n), NEW d \in 1..n, d \notin Readable(a),
         NEW s \in 1..n, s # d, NEW sl, sl[d] = sl[s],
         NEW hp \in Seq(Objects), NEW k, Holds(a, sl, hp, k), Balanced(a, sl, hp, k)
  PROVE  Holds(Alias(a, d, s), sl, hp, k) /\ Balanced(Alias(a, d, s), sl, hp, k)
<1> DEFINE b == Alias(a, d, s)
<1>1. /\ b.plain = Beside(a.plain, s, d) /\ b.lent = Beside(a.lent, s, d)
      /\ b.held = {Beside(G, s, d) : G \in a.held} /\ b.live = {Beside(G, s, d) : G \in a.live}
  BY DEF Alias
<1>2. Account(b, n) /\ Below(a, b)
  BY AliasIsAbove
<1> HIDE DEF b
<1>3. \A G, t : t \in Beside(G, s, d) => \E u \in G : sl[t] = sl[u]
  BY DEF Beside
<1>4. \A t \in b.plain : Still(sl[t])
  BY <1>1, <1>3 DEF Holds
<1>5. \A t \in b.lent : Still(sl[t]) \/ sl[t] \in 1..k
  BY <1>1, <1>3 DEF Holds
<1>6. /\ \A G \in b.held : \E H \in a.held : G = Beside(H, s, d)
      /\ \A G \in b.live : \E H \in a.live : G = Beside(H, s, d)
  BY <1>1
<1>7. Alike(sl, Groups(b))
  <2> SUFFICES ASSUME NEW G \in Groups(b), NEW t \in G, NEW u \in G
               PROVE  sl[t] = sl[u] \/ (Still(sl[t]) /\ Still(sl[u]))
    BY DEF Alike
  <2>1. PICK H \in Groups(a) : G = Beside(H, s, d)
    BY <1>6 DEF Groups
  <2>2. PICK t1 \in H : sl[t] = sl[t1]
    BY <1>3, <2>1
  <2>3. PICK u1 \in H : sl[u] = sl[u1]
    BY <1>3, <2>1
  <2> QED
    BY <2>1, <2>2, <2>3 DEF Holds, Alike
<1>8. \A G \in b.held : \A t \in G : Still(sl[t]) \/ IsA(hp, sl[t], "string")
  <2> SUFFICES ASSUME NEW G \in b.held, NEW t \in G
               PROVE  Still(sl[t]) \/ IsA(hp, sl[t], "string")
    OBVIOUS
  <2>1. PICK H \in a.held : G = Beside(H, s, d)
    BY <1>6
  <2> QED
    BY <1>3, <2>1 DEF Holds
<1>9. \A G \in b.live : \A t \in G : IsA(hp, sl[t], "pointer") /\ hp[sl[t]].count > 0
  <2> SUFFICES ASSUME NEW G \in b.live, NEW t \in G
               PROVE  IsA(hp, sl[t], "pointer") /\ hp[sl[t]].count > 0
    OBVIOUS
  <2>1. PICK H \in a.live : G = Beside(H, s, d)
    BY <1>6
  <2> QED
    BY <1>3, <2>1 DEF Holds
<1>10. ASSUME NEW G \in b.live, NEW H \in b.live, NEW t \in G, NEW u \in H, sl[t] = sl[u]
       PROVE  G = H
  <2>1. PICK K \in a.live : G = Beside(K, s, d)
    BY <1>6
  <2>2. PICK M \in a.live : H = Beside(M, s, d)
    BY <1>6
  <2>3. PICK t1 \in K : sl[t] = sl[t1]
    BY <1>3, <2>1
  <2>4. PICK u1 \in M : sl[u] = sl[u1]
    BY <1>3, <2>2
  <2> QED
    BY <1>10, <2>1, <2>2, <2>3, <2>4 DEF Holds
<1>11. Holds(b, sl, hp, k)
  BY <1>4, <1>5, <1>7, <1>8, <1>9, <1>10 DEF Holds
<1>12. \A o \in Nat \ {0} : Cardinality(Owing(a, sl, o)) = Cardinality(Owing(b, sl, o))
  <2>1. Alike(sl, b.held)
    BY <1>7 DEF Alike, Groups
  <2> QED
    BY <1>2, <1>4, <2>1, SameOwing
<1>13. \A o \in 1..Len(hp) : o \in Nat \ {0}
  OBVIOUS
<1> QED
  BY <1>11, <1>12, <1>13 DEF Balanced, b

-----------------------------------------------------------------------------
(* The heap. *)

(* A heap with one more object agrees with what it was before.             *)
LEMMA Grown ==
  ASSUME NEW hp \in Seq(Objects), NEW x \in Objects
  PROVE  LET new == Append(hp, x) IN
         /\ new \in Seq(Objects) /\ Len(new) = Len(hp) + 1 /\ Len(hp) \in Nat
         /\ new[Len(hp) + 1] = x
         /\ \A o \in 1..Len(hp) : new[o] = hp[o]
         /\ \A v, kind : IsA(hp, v, kind) => IsA(new, v, kind) /\ new[v] = hp[v]
         /\ \A k : Given(hp, k) /\ k \in Nat => Given(new, k)
<1> DEFINE new == Append(hp, x)
<1>1. /\ new \in Seq(Objects) /\ Len(new) = Len(hp) + 1 /\ Len(hp) \in Nat
      /\ new[Len(hp) + 1] = x /\ \A o \in 1..Len(hp) : new[o] = hp[o]
  BY AppendProperties
<1> HIDE DEF new
<1>2. \A v, kind : IsA(hp, v, kind) => IsA(new, v, kind) /\ new[v] = hp[v]
  BY <1>1 DEF IsA
<1>3. \A k : Given(hp, k) /\ k \in Nat => Given(new, k)
  BY <1>1 DEF Given
<1> QED
  BY <1>1, <1>2, <1>3 DEF new

(* An object that nobody refers to yet disturbs no account.                *)
LEMMA GrownHolds ==
  ASSUME NEW a, NEW sl, NEW hp \in Seq(Objects), NEW k \in Nat, Given(hp, k), NEW x \in Objects,
         Holds(a, sl, hp, k), Balanced(a, sl, hp, k)
  PROVE  /\ Holds(a, sl, Append(hp, x), k)
         /\ \A o \in 1..Len(hp) : Append(hp, x)[o].kind = "string" =>
                Append(hp, x)[o].count = (IF o <= k THEN 1 ELSE 0) + Cardinality(Owing(a, sl, o))
         /\ Owing(a, sl, Len(hp) + 1) = {}
<1> DEFINE new == Append(hp, x)
<1>1. /\ Len(hp) \in Nat
      /\ \A o \in 1..Len(hp) : new[o] = hp[o]
      /\ \A v, kind : IsA(hp, v, kind) => IsA(new, v, kind) /\ new[v] = hp[v]
  BY Grown
<1> HIDE DEF new
<1>2. Holds(a, sl, new, k)
  BY <1>1 DEF Holds
<1>3. \A o \in 1..Len(hp) : new[o].kind = "string" =>
          new[o].count = (IF o <= k THEN 1 ELSE 0) + Cardinality(Owing(a, sl, o))
  BY <1>1 DEF Balanced
<1>4. Owing(a, sl, Len(hp) + 1) = {}
  <2> SUFFICES ASSUME NEW G \in a.held, NEW s \in G, sl[s] = Len(hp) + 1 PROVE FALSE
    BY DEF Owing
  <2>1. Still(sl[s]) \/ sl[s] \in 1..Len(hp)
    BY DEF Holds, IsA
  <2> QED
    BY <1>1, <2>1 DEF Still, Absent, Truth
<1> QED
  BY <1>2, <1>3, <1>4 DEF new

(* A new string, in a slot of its own, is owed its first release.          *)
LEMMA NewString ==
  ASSUME NEW n \in Nat, NEW a, Account(a, n), NEW d, d \notin Readable(a), NEW sl,
         NEW hp \in Seq(Objects), NEW k \in Nat, Given(hp, k), sl[d] = Len(hp) + 1,
         Holds(a, sl, hp, k), Balanced(a, sl, hp, k)
  PROVE  LET new == Append(hp, [count |-> 1, kind |-> "string"]) IN
         Holds(Held(a, d), sl, new, k) /\ Balanced(Held(a, d), sl, new, k)
<1> DEFINE x   == [count |-> 1, kind |-> "string"]
           new == Append(hp, x)
           b   == Held(a, d)
<1> x \in Objects
  BY DEF Objects
<1>1. /\ Len(hp) \in Nat /\ Len(new) = Len(hp) + 1 /\ new[Len(hp) + 1] = x
      /\ \A o \in 1..Len(hp) : new[o] = hp[o]
  BY Grown
<1>2. /\ Holds(a, sl, new, k) /\ Owing(a, sl, Len(hp) + 1) = {}
      /\ \A o \in 1..Len(hp) : new[o].kind = "string" =>
            new[o].count = (IF o <= k THEN 1 ELSE 0) + Cardinality(Owing(a, sl, o))
  BY GrownHolds
<1>3. /\ b.plain = a.plain /\ b.lent = a.lent /\ b.held = a.held \cup {{d}} /\ b.live = a.live
  BY DEF Held, Account
<1>4. new[Len(hp) + 1].kind = "string" /\ new[Len(hp) + 1].count = 1
  BY <1>1
<1> HIDE DEF new, b, x
<1>5. Holds(b, sl, new, k)
  <2>1. Groups(b) = Groups(a) \cup {{d}}
    BY <1>3 DEF Groups
  <2>2. Alike(sl, Groups(b))
    <3>1. Alike(sl, Groups(a))
      BY <1>2 DEF Holds
    <3> SUFFICES ASSUME NEW G \in Groups(b), NEW s \in G, NEW t \in G
                 PROVE  sl[s] = sl[t] \/ (Still(sl[s]) /\ Still(sl[t]))
      BY DEF Alike
    <3>2. CASE G \in Groups(a)
      BY <3>1, <3>2 DEF Alike
    <3>3. CASE G = {d}
      <4>1. s = d /\ t = d
        BY <3>3
      <4> QED
        BY <4>1
    <3> QED
      BY <2>1, <3>2, <3>3
  <2>3. IsA(new, sl[d], "string")
    BY <1>1, <1>4 DEF IsA
  <2> QED
    BY <1>2, <1>3, <2>2, <2>3 DEF Holds
<1>6. Balanced(b, sl, new, k)
  <2> SUFFICES ASSUME NEW o \in 1..Len(new), new[o].kind = "string"
               PROVE  new[o].count = (IF o <= k THEN 1 ELSE 0) + Cardinality(Owing(b, sl, o))
    BY DEF Balanced
  <2>1. CASE o \in 1..Len(hp)
    <3>1. Owing(b, sl, o) = Owing(a, sl, o)
      BY <1>1, <1>3, <2>1 DEF Owing
    <3> QED
      BY <1>2, <2>1, <3>1
  <2>2. CASE o = Len(hp) + 1
    <3>1. Owing(b, sl, o) = {{d}}
      BY <1>2, <1>3, <2>2 DEF Owing
    <3>2. Cardinality({{d}}) = 1
      BY FS_Singleton
    <3>3. ~(o <= k)
      BY <1>1, <2>2 DEF Given
    <3>4. new[o].count = 1
      BY <1>4, <2>2
    <3>5. Cardinality(Owing(b, sl, o)) = 1
      BY <3>1, <3>2
    <3> QED
      BY <3>3, <3>4, <3>5
  <2> QED
    BY <1>1, <2>1, <2>2
<1> QED
  BY <1>5, <1>6 DEF new, b, x

(* A new pointer, in a slot of its own.                                    *)
LEMMA NewPointer ==
  ASSUME NEW n \in Nat, NEW a, Account(a, n), NEW d, d \notin Readable(a), NEW sl,
         NEW hp \in Seq(Objects), NEW k \in Nat, Given(hp, k), sl[d] = Len(hp) + 1,
         Holds(a, sl, hp, k), Balanced(a, sl, hp, k)
  PROVE  LET new == Append(hp, [count |-> 1, kind |-> "pointer"]) IN
         Holds(Live(a, d), sl, new, k) /\ Balanced(Live(a, d), sl, new, k)
<1> DEFINE x   == [count |-> 1, kind |-> "pointer"]
           new == Append(hp, x)
           b   == Live(a, d)
<1> x \in Objects
  BY DEF Objects
<1>1. /\ Len(hp) \in Nat /\ Len(new) = Len(hp) + 1 /\ new[Len(hp) + 1] = x
      /\ \A o \in 1..Len(hp) : new[o] = hp[o]
  BY Grown
<1>2. /\ Holds(a, sl, new, k)
      /\ \A o \in 1..Len(hp) : new[o].kind = "string" =>
            new[o].count = (IF o <= k THEN 1 ELSE 0) + Cardinality(Owing(a, sl, o))
  BY GrownHolds
<1>3. /\ b.plain = a.plain /\ b.lent = a.lent /\ b.held = a.held /\ b.live = a.live \cup {{d}}
  BY DEF Live, Account
<1>4. new[Len(hp) + 1].kind = "pointer" /\ new[Len(hp) + 1].count = 1
  BY <1>1
<1>5. \A G \in a.live : \A s \in G : sl[s] \in 1..Len(hp)
  BY DEF Holds, IsA
<1> HIDE DEF new, b, x
<1>6. Holds(b, sl, new, k)
  <2>1. Groups(b) = Groups(a) \cup {{d}}
    BY <1>3 DEF Groups
  <2>2. Alike(sl, Groups(b))
    <3>1. Alike(sl, Groups(a))
      BY <1>2 DEF Holds
    <3> SUFFICES ASSUME NEW G \in Groups(b), NEW s \in G, NEW t \in G
                 PROVE  sl[s] = sl[t] \/ (Still(sl[s]) /\ Still(sl[t]))
      BY DEF Alike
    <3>2. CASE G \in Groups(a)
      BY <3>1, <3>2 DEF Alike
    <3>3. CASE G = {d}
      <4>1. s = d /\ t = d
        BY <3>3
      <4> QED
        BY <4>1
    <3> QED
      BY <2>1, <3>2, <3>3
  <2>3. IsA(new, sl[d], "pointer") /\ new[sl[d]].count > 0
    BY <1>1, <1>4 DEF IsA
  <2>4. ASSUME NEW G \in b.live, NEW H \in b.live, NEW s \in G, NEW t \in H, sl[s] = sl[t]
        PROVE  G = H
    <3>1. Len(hp) + 1 \notin 1..Len(hp)
      BY <1>1
    <3>2. CASE G \in a.live /\ H \in a.live
      BY <1>2, <2>4, <3>2 DEF Holds
    <3>3. G = {d} => s = d /\ sl[s] = Len(hp) + 1
      OBVIOUS
    <3>4. H = {d} => t = d /\ sl[t] = Len(hp) + 1
      OBVIOUS
    <3>5. CASE G \in a.live /\ H = {d}
      BY <1>5, <2>4, <3>1, <3>4, <3>5
    <3>6. CASE G = {d} /\ H \in a.live
      BY <1>5, <2>4, <3>1, <3>3, <3>6
    <3> QED
      BY <1>3, <3>2, <3>5, <3>6
  <2> QED
    BY <1>2, <1>3, <2>2, <2>3, <2>4 DEF Holds
<1>7. Balanced(b, sl, new, k)
  <2>1. \A o : Owing(b, sl, o) = Owing(a, sl, o)
    BY <1>3 DEF Owing
  <2> QED
    BY <1>1, <1>2, <1>4, <2>1 DEF Balanced
<1> QED
  BY <1>6, <1>7 DEF new, b, x

(* Counting up or down changes one count and no kind.                      *)
LEMMA Recounted ==
  ASSUME NEW hp \in Seq(Objects), NEW v \in 1..Len(hp), NEW c \in Nat
  PROVE  LET new == [hp EXCEPT ![v].count = c] IN
         /\ new \in Seq(Objects) /\ Len(new) = Len(hp)
         /\ \A o \in 1..Len(hp) : /\ new[o].kind = hp[o].kind
                                  /\ new[o].count = IF o = v THEN c ELSE hp[o].count
         /\ \A u, kind : IsA(hp, u, kind) <=> IsA(new, u, kind)
         /\ \A k : Given(hp, k) /\ k \in Nat => Given(new, k)
<1> DEFINE x   == [hp[v] EXCEPT !.count = c]
           new == [hp EXCEPT ![v] = x]
<1>1. hp[v] \in Objects
  BY ElementOfSeq
<1>2. x \in Objects /\ x.count = c /\ x.kind = hp[v].kind
  BY <1>1 DEF Objects
<1>3. new = [hp EXCEPT ![v].count = c]
  OBVIOUS
<1> HIDE DEF x
<1>4. /\ new \in Seq(Objects) /\ Len(new) = Len(hp)
      /\ \A o \in 1..Len(hp) : new[o] = IF o = v THEN x ELSE hp[o]
  BY <1>2, ExceptSeq
<1>5. Len(hp) \in Nat
  OBVIOUS
<1> HIDE DEF new
<1>6. \A o \in 1..Len(hp) : /\ new[o].kind = hp[o].kind
                            /\ new[o].count = IF o = v THEN c ELSE hp[o].count
  BY <1>2, <1>4
<1>7. \A u, kind : IsA(hp, u, kind) <=> IsA(new, u, kind)
  BY <1>4, <1>6 DEF IsA
<1>8. \A k : Given(hp, k) /\ k \in Nat => Given(new, k)
  BY <1>4, <1>5, <1>6 DEF Given
<1> QED
  BY <1>3, <1>4, <1>6, <1>7, <1>8

(* Counting disturbs no account, but for how often objects are counted.    *)
LEMMA RecountedHolds ==
  ASSUME NEW a, NEW sl, NEW hp \in Seq(Objects), NEW k \in Nat,
         NEW v \in 1..Len(hp), NEW c \in Nat, Holds(a, sl, hp, k),
         hp[v].kind = "string" \/ \A G \in a.live : \A s \in G : sl[s] # v
  PROVE  Holds(a, sl, [hp EXCEPT ![v].count = c], k)
<1> DEFINE new == [hp EXCEPT ![v].count = c]
<1>1. /\ \A o \in 1..Len(hp) : /\ new[o].kind = hp[o].kind
                               /\ new[o].count = IF o = v THEN c ELSE hp[o].count
      /\ \A u, kind : IsA(hp, u, kind) <=> IsA(new, u, kind)
  BY Recounted
<1> HIDE DEF new
<1>2. ASSUME NEW G \in a.live, NEW s \in G
      PROVE  IsA(new, sl[s], "pointer") /\ new[sl[s]].count > 0
  <2>1. IsA(hp, sl[s], "pointer") /\ hp[sl[s]].count > 0
    BY DEF Holds
  <2>2. sl[s] # v
    BY <2>1 DEF IsA
  <2> QED
    BY <1>1, <2>1, <2>2 DEF IsA
<1> QED
  BY <1>1, <1>2 DEF Holds, new

(* A retain of a string that is there gives the slot a release of its own. *)
LEMMA RetainHolds ==
  ASSUME NEW n \in Nat, NEW b, Account(b, n), NEW s, s \notin Readable(b), NEW sl,
         NEW hp \in Seq(Objects), NEW k \in Nat,
         sl[s] \in 1..Len(hp), hp[sl[s]].kind = "string",
         Holds(b, sl, hp, k), Balanced(b, sl, hp, k)
  PROVE  LET new == [hp EXCEPT ![sl[s]].count = hp[sl[s]].count + 1] IN
         Holds(Held(b, s), sl, new, k) /\ Balanced(Held(b, s), sl, new, k)
<1> DEFINE v   == sl[s]
           c   == hp[v].count + 1
           new == [hp EXCEPT ![v].count = c]
           h   == Held(b, s)
<1>1. c \in Nat /\ v \in 1..Len(hp)
  <2>1. hp[v] \in Objects
    BY ElementOfSeq
  <2> QED
    BY <2>1 DEF Objects
<1>2. /\ Len(new) = Len(hp)
      /\ \A o \in 1..Len(hp) : /\ new[o].kind = hp[o].kind
                               /\ new[o].count = IF o = v THEN c ELSE hp[o].count
      /\ \A u, kind : IsA(hp, u, kind) <=> IsA(new, u, kind)
  BY <1>1, Recounted
<1>3. Holds(b, sl, new, k)
  BY <1>1, RecountedHolds
<1>4. h.plain = b.plain /\ h.lent = b.lent /\ h.held = b.held \cup {{s}} /\ h.live = b.live
  BY DEF Held, Account
<1> HIDE DEF new, h
<1>5. Holds(h, sl, new, k)
  <2>1. Groups(h) = Groups(b) \cup {{s}}
    BY <1>4 DEF Groups
  <2>2. Alike(sl, Groups(h))
    <3>1. Alike(sl, Groups(b))
      BY <1>3 DEF Holds
    <3> QED
      BY <2>1, <3>1 DEF Alike
  <2>3. IsA(new, v, "string")
    BY <1>1, <1>2 DEF IsA
  <2> QED
    BY <1>3, <1>4, <2>2, <2>3 DEF Holds
<1>6. Balanced(h, sl, new, k)
  <2> SUFFICES ASSUME NEW o \in 1..Len(hp), new[o].kind = "string"
               PROVE  new[o].count = (IF o <= k THEN 1 ELSE 0) + Cardinality(Owing(h, sl, o))
    BY <1>2 DEF Balanced
  <2>1. hp[o].count = (IF o <= k THEN 1 ELSE 0) + Cardinality(Owing(b, sl, o))
    BY <1>2 DEF Balanced
  <2>2. CASE o # v
    <3>1. Owing(h, sl, o) = Owing(b, sl, o)
      BY <1>4, <2>2 DEF Owing
    <3> QED
      BY <1>2, <2>1, <2>2, <3>1
  <2>3. CASE o = v
    <3>1. Owing(h, sl, o) = Owing(b, sl, o) \cup {{s}}
      BY <1>4, <2>3 DEF Owing
    <3>2. {s} \notin Owing(b, sl, o)
      BY DEF Owing, Readable, Groups
    <3>3. Cardinality(Owing(h, sl, o)) = Cardinality(Owing(b, sl, o)) + 1
      BY <3>1, <3>2, OwingIsFinite, FS_AddElement
    <3>4. Cardinality(Owing(b, sl, o)) \in Nat
      BY OwingIsFinite
    <3> QED
      BY <1>2, <2>1, <2>3, <3>3, <3>4
  <2> QED
    BY <2>2, <2>3
<1> QED
  BY <1>5, <1>6 DEF new, h

(* Settling a release of a slot that holds nothing that is counted.        *)
LEMMA SettleStill ==
  ASSUME NEW n \in Nat, NEW a, Account(a, n), NEW s, NEW sl, Still(sl[s]), NEW hp, NEW k,
         Holds(a, sl, hp, k), Balanced(a, sl, hp, k)
  PROVE  Holds(Settle(a, s), sl, hp, k) /\ Balanced(Settle(a, s), sl, hp, k)
<1> DEFINE b == Settle(a, s)
<1>1. /\ b.plain = a.plain /\ b.lent = a.lent /\ b.live = a.live
      /\ b.held = {G \in a.held : s \notin G}
  BY DEF Settle, HeldBy, Account
<1> HIDE DEF b
<1>2. Holds(b, sl, hp, k)
  BY <1>1 DEF Holds, Alike, Groups
<1>3. \A o \in 1..Len(hp) : ~Still(o)
  BY DEF Still, Absent, Truth
<1>4. \A o \in 1..Len(hp) : Owing(b, sl, o) = Owing(a, sl, o)
  <2> SUFFICES ASSUME NEW o \in 1..Len(hp), NEW G \in a.held, s \in G, NEW t \in G, sl[t] = o
               PROVE  FALSE
    BY <1>1 DEF Owing
  <2> QED
    BY <1>3 DEF Holds, Alike, Groups
<1> QED
  BY <1>2, <1>4 DEF Balanced, b

(* A release of a string that is owed one.                                 *)
LEMMA ReleaseHolds ==
  ASSUME NEW n \in Nat, NEW a, Account(a, n), NEW s \in UNION a.held, NEW sl,
         NEW hp \in Seq(Objects), NEW k \in Nat, ~Still(sl[s]),
         Holds(a, sl, hp, k), Balanced(a, sl, hp, k)
  PROVE  /\ IsA(hp, sl[s], "string") /\ hp[sl[s]].count \in Nat \ {0}
         /\ LET new == [hp EXCEPT ![sl[s]].count = hp[sl[s]].count - 1] IN
            Holds(Settle(a, s), sl, new, k) /\ Balanced(Settle(a, s), sl, new, k)
<1> DEFINE v   == sl[s]
           c   == hp[v].count - 1
           new == [hp EXCEPT ![v].count = c]
           b   == Settle(a, s)
<1>1. PICK G \in a.held : s \in G
  OBVIOUS
<1>2. IsA(hp, v, "string")
  BY <1>1 DEF Holds
<1>3. v \in 1..Len(hp) /\ hp[v].kind = "string"
  BY <1>2 DEF IsA
<1>4. G \in Owing(a, sl, v)
  BY <1>1 DEF Owing
<1>5. Cardinality(Owing(a, sl, v)) \in Nat \ {0}
  BY <1>4, OwingIsFinite, FS_EmptySet
<1>6. hp[v].count = (IF v <= k THEN 1 ELSE 0) + Cardinality(Owing(a, sl, v))
  BY <1>3 DEF Balanced
<1>7. hp[v].count \in Nat \ {0} /\ c \in Nat
  BY <1>5, <1>6
<1>8. /\ Len(new) = Len(hp)
      /\ \A o \in 1..Len(hp) : /\ new[o].kind = hp[o].kind
                               /\ new[o].count = IF o = v THEN c ELSE hp[o].count
  BY <1>3, <1>7, Recounted
<1>9. Holds(a, sl, new, k)
  BY <1>3, <1>7, RecountedHolds
<1>10. /\ b.plain = a.plain /\ b.lent = a.lent /\ b.live = a.live
       /\ b.held = a.held \ {G}
  <2>1. HeldBy(a.held, s) = {G}
    BY <1>1 DEF HeldBy, Account, Groups
  <2> QED
    BY <2>1 DEF Settle, Account
<1> HIDE DEF new, b
<1>11. Holds(b, sl, new, k)
  BY <1>9, <1>10 DEF Holds, Alike, Groups
<1>12. Balanced(b, sl, new, k)
  <2> SUFFICES ASSUME NEW o \in 1..Len(hp), new[o].kind = "string"
               PROVE  new[o].count = (IF o <= k THEN 1 ELSE 0) + Cardinality(Owing(b, sl, o))
    BY <1>8 DEF Balanced
  <2>1. hp[o].count = (IF o <= k THEN 1 ELSE 0) + Cardinality(Owing(a, sl, o))
    BY <1>8 DEF Balanced
  <2>2. Owing(b, sl, o) = Owing(a, sl, o) \ {G}
    BY <1>10 DEF Owing
  <2>3. CASE o # v
    <3>1. ~Still(o)
      BY DEF Still, Absent, Truth
    <3>2. G \notin Owing(a, sl, o)
      BY <1>1, <2>3, <3>1 DEF Owing, Holds, Alike, Groups
    <3>3. Owing(b, sl, o) = Owing(a, sl, o)
      BY <2>2, <3>2
    <3> QED
      BY <1>8, <2>1, <2>3, <3>3
  <2>4. CASE o = v
    <3>1. Cardinality(Owing(b, sl, o)) = Cardinality(Owing(a, sl, o)) - 1
      <4>1. IsFiniteSet(Owing(a, sl, o)) /\ G \in Owing(a, sl, o)
        BY <1>4, <2>4, OwingIsFinite
      <4> QED
        BY <2>2, <4>1, FS_RemoveElement
    <3> QED
      BY <1>5, <1>8, <2>1, <2>4, <3>1
  <2> QED
    BY <2>3, <2>4
<1> QED
  BY <1>2, <1>7, <1>11, <1>12 DEF new, b

(* A drop of a pointer that is there: nothing else refers to it.           *)
LEMMA DropHolds ==
  ASSUME NEW n \in Nat, NEW a, Account(a, n), NEW s \in UNION a.live, NEW sl,
         NEW hp \in Seq(Objects), NEW k \in Nat,
         Holds(a, sl, hp, k), Balanced(a, sl, hp, k)
  PROVE  /\ IsA(hp, sl[s], "pointer")
         /\ LET new == [hp EXCEPT ![sl[s]].count = 0] IN
            Holds(Kill(a, s), sl, new, k) /\ Balanced(Kill(a, s), sl, new, k)
<1> DEFINE v   == sl[s]
           new == [hp EXCEPT ![v].count = 0]
           b   == Kill(a, s)
<1>1. PICK G \in a.live : s \in G
  OBVIOUS
<1>2. IsA(hp, v, "pointer")
  BY <1>1 DEF Holds
<1>3. v \in 1..Len(hp) /\ hp[v].kind = "pointer"
  BY <1>2 DEF IsA
<1>4. /\ b.plain = a.plain /\ b.lent = a.lent /\ b.held = a.held
      /\ b.live = {H \in a.live : s \notin H}
  BY DEF Kill, HeldBy, Account
<1>5. /\ Len(new) = Len(hp)
      /\ \A o \in 1..Len(hp) : /\ new[o].kind = hp[o].kind
                               /\ new[o].count = IF o = v THEN 0 ELSE hp[o].count
  BY <1>3, Recounted
<1> HIDE DEF b
<1>6. Holds(b, sl, hp, k)
  BY <1>4 DEF Holds, Alike, Groups
<1>7. \A H \in b.live : \A t \in H : sl[t] # v
  BY <1>1, <1>4 DEF Holds
<1>8. Holds(b, sl, new, k)
  BY <1>3, <1>6, <1>7, RecountedHolds
<1> HIDE DEF new
<1>9. \A o : Owing(b, sl, o) = Owing(a, sl, o)
  BY <1>4 DEF Owing
<1>10. Balanced(b, sl, new, k)
  BY <1>3, <1>5, <1>9 DEF Balanced
<1> QED
  BY <1>2, <1>8, <1>10 DEF new, b

(* A slot that turned out to be null, and those of its set with it.        *)
LEMMA NullHolds ==
  ASSUME NEW n \in Nat, NEW a, Account(a, n), NEW s, NEW sl, sl[s] = Absent, NEW hp, NEW k,
         Holds(a, sl, hp, k), Balanced(a, sl, hp, k)
  PROVE  Holds(Nulled(a, s), sl, hp, k) /\ Balanced(Nulled(a, s), sl, hp, k)
<1> DEFINE b == Nulled(a, s)
           c == Settle(a, s)
<1>1. /\ b.plain = a.plain \cup UNION HeldBy(a.held, s) /\ b.lent = a.lent
      /\ b.live = a.live /\ b.held = c.held
      /\ c.plain = a.plain /\ c.lent = a.lent /\ c.live = a.live
  BY DEF Nulled, Settle, Account
<1>2. Still(sl[s])
  BY DEF Still
<1>3. Holds(c, sl, hp, k) /\ Balanced(c, sl, hp, k)
  BY <1>2, SettleStill
<1> HIDE DEF b, c
<1>4. \A t \in UNION HeldBy(a.held, s) : Still(sl[t])
  <2> SUFFICES ASSUME NEW G \in a.held, s \in G, NEW t \in G PROVE Still(sl[t])
    BY DEF HeldBy
  <2>1. sl[t] = sl[s] \/ Still(sl[t])
    BY DEF Holds, Alike, Groups
  <2> QED
    BY <1>2, <2>1
<1>5. Holds(b, sl, hp, k)
  BY <1>1, <1>3, <1>4 DEF Holds, Groups
<1>6. \A o : Owing(b, sl, o) = Owing(c, sl, o)
  BY <1>1 DEF Owing
<1> QED
  BY <1>3, <1>5, <1>6 DEF Balanced, b

-----------------------------------------------------------------------------
(* The machine. *)

(* The code a family has, where it was accepted, keeps the discipline.     *)
Accounted == \A family \in Programs : \A f \in family : f.accepted => Accounts(f)

(* The code a family has, where it was accepted, winds down.               *)
WindsDown == \A family \in Programs : \A f \in family : f.accepted => Winds(f)

Arity == Len(prog.params)               \* the arguments of the caller
Size  == prog.c.slots
Own   == Owns(prog.c, Arity)

(* The state of a function that was compiled. *)
Loaded ==
    /\ prog.accepted /\ code = prog.c.code /\ pc \in DOMAIN Own
    /\ slots \in [1..Size -> Int] /\ \A i \in 1..Size : slots[i] \in -5..Len(heap)
    /\ heap \in Seq(Objects) /\ Given(heap, Arity)

(* Until a function ends, its objects are what the account of the next     *)
(* instruction says; that is what makes CountsBalance an invariant.        *)
RunInv ==
    /\ stage \in {"source", "rejected", "running", "ended"}
    /\ \E family \in Programs : prog \in family
    /\ taken \in Seq(BOOLEAN) /\ Len(taken) <= MaxOutcomes
    /\ faults = {}
    /\ stage \in {"source", "rejected"} =>
            code = << >> /\ pc = 1 /\ slots = << >> /\ heap = << >>
    /\ stage \in {"running", "ended"} => Loaded
    /\ stage = "running" =>
            /\ Holds(Own[pc], slots, heap, Arity)
            /\ Balanced(Own[pc], slots, heap, Arity)
    /\ CountsBalance /\ AlwaysReturns

(* What is known of the instruction about to run.                          *)
LEMMA Running ==
  ASSUME Accounted, RunInv, stage = "running"
  PROVE  /\ Loaded /\ Accounts(prog)
         /\ Size \in Nat /\ Arity \in 0..Size /\ Arity \in Nat
         /\ pc \in DOMAIN code /\ pc \in 1..Len(code) /\ Len(code) \in Nat
         /\ Account(Own[pc], Size) /\ May(Own[pc], Instr, prog.result)
         /\ Holds(Own[pc], slots, heap, Arity) /\ Balanced(Own[pc], slots, heap, Arity)
         /\ Instr.op \in Stores \cup Jumps \cup Counts \cup {"drop", "label", "return", "end"}
         /\ Instr.op \in Stores => Instr.d \in 1..Size
         /\ Instr.op \in Counts \cup {"move", "drop", "ifnot", "ifsome"} => Instr.s \in 1..Size
         /\ Instr.op = "return" => Instr.s \in 0..Size
         /\ Instr.op \in Jumps  => \E j \in DOMAIN code : Labelled(code, Instr.l) = {j}
         /\ \A to \in Leads(code, pc, Own[pc]) : to[1] \in DOMAIN Own /\ Below(Own[to[1]], to[2])
         /\ \A i \in DOMAIN Own : Account(Own[i], Size)
<1>1. Loaded /\ Accounts(prog)
  BY DEF RunInv, Accounted, Loaded
<1>2. /\ Size \in Nat /\ Arity \in 0..Size /\ Shaped(code, Size)
      /\ DOMAIN Own \subseteq DOMAIN code
      /\ \A i \in DOMAIN Own :
            /\ Account(Own[i], Size)
            /\ May(Own[i], code[i], prog.result)
            /\ \A to \in Leads(code, i, Own[i]) : to[1] \in DOMAIN Own /\ Below(Own[to[1]], to[2])
  BY <1>1 DEF Accounts, Loaded, Size, Arity, Own
<1>3. pc \in DOMAIN Own /\ pc \in DOMAIN code
  BY <1>1, <1>2 DEF Loaded
<1>4. pc \in 1..Len(code) /\ Len(code) \in Nat
  BY <1>2, <1>3 DEF Shaped
<1>5. /\ Instr.op \in Stores \cup Jumps \cup Counts \cup {"drop", "label", "return", "end"}
      /\ Instr.op \in Stores => Instr.d \in 1..Size
      /\ Instr.op \in Counts \cup {"move", "drop", "ifnot", "ifsome"} => Instr.s \in 1..Size
      /\ Instr.op = "return" => Instr.s \in 0..Size
      /\ Instr.op \in Jumps  => \E j \in DOMAIN code : Labelled(code, Instr.l) = {j}
  BY <1>2, <1>3 DEF Shaped, Instr
<1>6. Holds(Own[pc], slots, heap, Arity) /\ Balanced(Own[pc], slots, heap, Arity)
  BY DEF RunInv
<1>7. Arity \in Nat
  BY <1>2
<1> QED
  BY <1>1, <1>2, <1>3, <1>4, <1>5, <1>6, <1>7 DEF Instr

(* A step to an instruction whose account asks for no more than is known.  *)
LEMMA Onward ==
  ASSUME Accounted, RunInv, stage = "running", UNCHANGED <<prog, stage, code>>,
         NEW b, Account(b, Size), <<pc', b>> \in Leads(code, pc, Own[pc]),
         slots' \in [1..Size -> Int], heap' \in Seq(Objects), Given(heap', Arity),
         \A i \in 1..Size : slots'[i] \in -5..Len(heap'),
         Holds(b, slots', heap', Arity), Balanced(b, slots', heap', Arity),
         taken' \in Seq(BOOLEAN), Len(taken') <= MaxOutcomes, faults' = {}
  PROVE  RunInv'
<1>1. Loaded /\ Size \in Nat /\ Arity \in Nat
  BY Running
<1>2. pc' \in DOMAIN Own /\ Below(Own[pc'], b) /\ Account(Own[pc'], Size)
  BY Running
<1>3. Holds(Own[pc'], slots', heap', Arity) /\ Balanced(Own[pc'], slots', heap', Arity)
  BY <1>1, <1>2, Weaker
<1>4. Own' = Own /\ Size' = Size /\ Arity' = Arity
  BY DEF Own, Size, Arity
<1>5. Loaded'
  BY <1>1, <1>2, <1>4 DEF Loaded
<1>6. Holds(Own[pc], slots, heap, Arity)' /\ Balanced(Own[pc], slots, heap, Arity)'
  BY <1>3, <1>4
<1>7. CountsBalance' /\ AlwaysReturns'
  BY DEF CountsBalance, AlwaysReturns
<1> QED
  BY <1>5, <1>6, <1>7 DEF RunInv

(* Where an instruction goes on, when it does not leave the function.      *)
LEMMA On ==
  ASSUME NEW i, code[i].op \notin {"jump", "return", "end"}, NEW a
  PROVE  <<i + 1, Effect(a, code[i])>> \in Leads(code, i, a)
BY DEF Leads

(* Where a jump goes: to its label, with the account it had.               *)
LEMMA Away ==
  ASSUME Instr.op \in Jumps, NEW j, Labelled(code, Instr.l) = {j}, NEW a
  PROVE  Target(Instr.l) = j /\ <<j, a>> \in Leads(code, pc, a)
<1>1. Target(Instr.l) = j
  BY DEF Target, Labelled
<1>2. <<j, a>> \in {<<m, a>> : m \in Labelled(code, code[pc].l)}
  BY DEF Instr
<1> QED
  BY <1>1, <1>2 DEF Leads, Instr

(* What an instruction stores leaves every slot with a value.              *)
LEMMA StoredValue ==
  ASSUME NEW n \in Nat, NEW sl \in [1..n -> Int], NEW d \in 1..n, NEW l \in Nat, NEW m \in Nat,
         \A i \in 1..n : sl[i] \in -5..l, l <= m, NEW v \in -5..m
  PROVE  /\ [sl EXCEPT ![d] = v] \in [1..n -> Int]
         /\ \A i \in 1..n : [sl EXCEPT ![d] = v][i] \in -5..m
OBVIOUS

(* What is read of a readable slot is there.                               *)
LEMMA NoReadFault ==
  ASSUME Accounted, RunInv, stage = "running", NEW s \in Readable(Own[pc])
  PROVE  ReadFaults(slots[s]) = {}
<1>1. Still(slots[s]) \/ (slots[s] \in 1..Len(heap) /\ heap[slots[s]].count > 0)
  BY Running, ReadableIsThere DEF Loaded
<1> QED
  BY <1>1 DEF Still, ReadFaults, Absent, Uninit, Dropped, Truth, IsObject

(* The arguments of a call are there.                                      *)
LEMMA NoArgFault ==
  ASSUME Accounted, RunInv, stage = "running", Instr.op \in Calls
  PROVE  ArgFaults = {}
<1>1. \A k \in DOMAIN Instr.args : Instr.args[k] \in Readable(Own[pc])
  BY Running DEF May
<1>2. DOMAIN Args = DOMAIN Instr.args
  BY DEF Args
<1>3. \A k \in DOMAIN Args : ReadFaults(Args[k]) = {}
  BY <1>1, NoReadFault DEF Args
<1> QED
  BY <1>3 DEF ArgFaults

(* An outcome is recorded while there is room for it.                      *)
LEMMA Chosen ==
  ASSUME RunInv, NEW b \in BOOLEAN, Choose(b)
  PROVE  taken' \in Seq(BOOLEAN) /\ Len(taken') <= MaxOutcomes
<1>1. taken \in Seq(BOOLEAN) /\ Len(taken) <= MaxOutcomes /\ Len(taken) \in Nat
  BY DEF RunInv
<1>2. CASE Len(taken) < MaxOutcomes
  <2>1. taken' = Append(taken, b)
    BY <1>2 DEF Choose
  <2>2. taken' \in Seq(BOOLEAN) /\ Len(taken') = Len(taken) + 1
    BY <1>1, <2>1, AppendProperties
  <2> QED
    BY <1>1, <1>2, <2>2, OutcomesAssumption
<1>3. CASE ~(Len(taken) < MaxOutcomes)
  BY <1>1, <1>3 DEF Choose
<1> QED
  BY <1>2, <1>3

(* Any value may be stored: what the account forgets is what is at stake.  *)
LEMMA Put ==
  ASSUME Accounted, RunInv, stage = "running", Instr.op \in Stores,
         NEW l \in Nat, Len(heap) <= l, NEW v \in -5..l, Store(v)
  PROVE  LET b == Forget(Own[pc], Instr.d) IN
         /\ Account(b, Size) /\ Instr.d \notin Readable(b) /\ slots'[Instr.d] = v
         /\ Holds(b, slots', heap, Arity) /\ Balanced(b, slots', heap, Arity)
         /\ slots' \in [1..Size -> Int] /\ \A i \in 1..Size : slots'[i] \in -5..l
<1>1. /\ Size \in Nat /\ Arity \in Nat /\ Instr.d \in 1..Size /\ Account(Own[pc], Size)
      /\ {Instr.d} \notin Own[pc].held
      /\ Holds(Own[pc], slots, heap, Arity) /\ Balanced(Own[pc], slots, heap, Arity)
  BY Running DEF May
<1>2. /\ slots \in [1..Size -> Int] /\ \A i \in 1..Size : slots[i] \in -5..Len(heap)
      /\ heap \in Seq(Objects) /\ Len(heap) \in Nat
  BY Running DEF Loaded
<1>3. slots' = [slots EXCEPT ![Instr.d] = v] /\ v \in Int
  BY DEF Store
<1>4. slots' \in [1..Size -> Int] /\ \A i \in 1..Size : slots'[i] \in -5..l
  BY <1>1, <1>2, <1>3, StoredValue
<1> QED
  BY <1>1, <1>2, <1>3, <1>4, Storing

(* A value that is not counted is stored, under either of two accounts.    *)
LEMMA PutStill ==
  ASSUME Accounted, RunInv, stage = "running", Instr.op \in Stores, NEW v, Still(v), Store(v)
  PROVE  LET b == Forget(Own[pc], Instr.d)
             p == Plain(b, Instr.d)
             h == Held(b, Instr.d)
         IN  /\ Account(p, Size) /\ Account(h, Size)
             /\ Holds(p, slots', heap, Arity) /\ Balanced(p, slots', heap, Arity)
             /\ Holds(h, slots', heap, Arity) /\ Balanced(h, slots', heap, Arity)
             /\ slots' \in [1..Size -> Int] /\ \A i \in 1..Size : slots'[i] \in -5..Len(heap)
<1> DEFINE b == Forget(Own[pc], Instr.d)
<1>1. Len(heap) \in Nat
  BY Running DEF Loaded
<1>2. v \in -5..Len(heap)
  BY <1>1 DEF Still, Absent, Truth
<1>3. /\ Account(b, Size) /\ Instr.d \notin Readable(b) /\ slots'[Instr.d] = v
      /\ Holds(b, slots', heap, Arity) /\ Balanced(b, slots', heap, Arity)
      /\ slots' \in [1..Size -> Int] /\ \A i \in 1..Size : slots'[i] \in -5..Len(heap)
  BY <1>1, <1>2, Put
<1>4. Size \in Nat /\ Instr.d \in 1..Size
  BY Running
<1> HIDE DEF b
<1>5. b = [plain |-> b.plain, lent |-> b.lent, held |-> b.held, live |-> b.live]
  BY <1>3 DEF Account
<1>6. Account(Plain(b, Instr.d), Size) /\ Account(Held(b, Instr.d), Size)
  BY <1>3, <1>4, OneMore
<1>7. /\ Holds(Plain(b, Instr.d), slots', heap, Arity) /\ Balanced(Plain(b, Instr.d), slots', heap, Arity)
      /\ Holds(Held(b, Instr.d), slots', heap, Arity) /\ Balanced(Held(b, Instr.d), slots', heap, Arity)
  BY <1>1, <1>3, <1>5, StillIsPlain
<1> QED
  BY <1>3, <1>6, <1>7 DEF b

(* Values are moved. *)
LEMMA MoveKeeps ==
  ASSUME Accounted, RunInv, Move
  PROVE  RunInv'
<1> DEFINE a == Own[pc]
           b == Forget(a, Instr.d)
<1>1. /\ stage = "running" /\ UNCHANGED <<prog, stage, code, heap, taken, faults>>
      /\ pc' = pc + 1 /\ Instr.op \in Stores /\ Instr.op \notin {"jump", "return", "end"}
  BY DEF Move, At, Advance, Stores
<1>2. /\ Size \in Nat /\ Arity \in Nat /\ Instr.d \in 1..Size
      /\ Instr.op = "move" => Instr.s \in 1..Size
      /\ heap \in Seq(Objects) /\ Given(heap, Arity)
      /\ Len(heap) \in Nat /\ Len(heap) <= Len(heap)
      /\ slots \in [1..Size -> Int] /\ \A i \in 1..Size : slots[i] \in -5..Len(heap)
  BY <1>1, Running DEF Loaded
<1>3. <<pc', Effect(a, Instr)>> \in Leads(code, pc, a)
  BY <1>1, On DEF Instr
<1>4. taken' \in Seq(BOOLEAN) /\ Len(taken') <= MaxOutcomes /\ faults' = {}
  BY <1>1 DEF RunInv
<1> HIDE DEF a
<1> SUFFICES ASSUME TRUE
             PROVE  LET e == Effect(a, Instr) IN
                    /\ Account(e, Size) /\ Holds(e, slots', heap, Arity) /\ Balanced(e, slots', heap, Arity)
                    /\ slots' \in [1..Size -> Int] /\ \A i \in 1..Size : slots'[i] \in -5..Len(heap)
  BY <1>1, <1>2, <1>3, <1>4, Onward DEF a
<1>5. CASE Instr.op = "decl"
  <2>1. Store(Uninit) /\ Uninit \in -5..Len(heap)
    BY <1>2, <1>5 DEF Move, Uninit
  <2>2. Effect(a, Instr) = b
    BY <1>5 DEF Effect
  <2>3. /\ Account(b, Size) /\ Holds(b, slots', heap, Arity) /\ Balanced(b, slots', heap, Arity)
        /\ slots' \in [1..Size -> Int] /\ \A i \in 1..Size : slots'[i] \in -5..Len(heap)
    BY <1>1, <1>2, <2>1, Put DEF a
  <2> QED
    BY <2>2, <2>3
<1>6. CASE Instr.op = "move"
  <2>1. Store(slots[Instr.s]) /\ slots[Instr.s] \in -5..Len(heap)
    BY <1>2, <1>6 DEF Move
  <2>2. Effect(a, Instr) = Alias(b, Instr.d, Instr.s)
    BY <1>6 DEF Effect
  <2>3. Instr.s # Instr.d
    BY <1>1, <1>6, Running DEF May
  <2>4. slots'[Instr.s] = slots[Instr.s]
    BY <1>2, <2>1, <2>3 DEF Store
  <2>5. /\ Account(b, Size) /\ Instr.d \notin Readable(b) /\ slots'[Instr.d] = slots[Instr.s]
        /\ Holds(b, slots', heap, Arity) /\ Balanced(b, slots', heap, Arity)
        /\ slots' \in [1..Size -> Int] /\ \A i \in 1..Size : slots'[i] \in -5..Len(heap)
    BY <1>1, <1>2, <2>1, Put DEF a
  <2> HIDE DEF b
  <2>6. Account(Alias(b, Instr.d, Instr.s), Size)
    BY <1>2, <1>6, <2>3, <2>5, AliasIsAbove
  <2>7. /\ Holds(Alias(b, Instr.d, Instr.s), slots', heap, Arity)
        /\ Balanced(Alias(b, Instr.d, Instr.s), slots', heap, Arity)
    BY <1>2, <1>6, <2>3, <2>4, <2>5, AliasHolds
  <2> QED
    BY <2>2, <2>5, <2>6, <2>7
<1>7. CASE Instr.op \in {"lit", "null", "true", "false"}
  <2>1. \E v : Still(v) /\ Store(v)
    <3>1. CASE Instr.op = "lit"
      BY <3>1 DEF Move, Still
    <3>2. CASE Instr.op = "null"
      BY <3>2 DEF Move, Still
    <3>3. CASE Instr.op = "true"
      BY <3>3 DEF Move, Still
    <3>4. CASE Instr.op = "false"
      BY <3>4 DEF Move, Still
    <3> QED
      BY <1>7, <3>1, <3>2, <3>3, <3>4
  <2>2. Effect(a, Instr) = Plain(b, Instr.d)
    BY <1>7 DEF Effect
  <2> QED
    BY <1>1, <2>1, <2>2, PutStill DEF a
<1> QED
  BY <1>5, <1>6, <1>7 DEF Move, At

(* A new object in a slot, which owes its release or is to be dropped.     *)
LEMMA Allocated ==
  ASSUME Accounted, RunInv, stage = "running", Instr.op \in Stores,
         NEW kind \in {"string", "pointer"}, Allocate(kind)
  PROVE  LET b == Forget(Own[pc], Instr.d)
             e == IF kind = "string" THEN Held(b, Instr.d) ELSE Live(b, Instr.d)
         IN  /\ Account(e, Size) /\ Holds(e, slots', heap', Arity) /\ Balanced(e, slots', heap', Arity)
             /\ slots' \in [1..Size -> Int] /\ \A i \in 1..Size : slots'[i] \in -5..Len(heap')
             /\ heap' \in Seq(Objects) /\ Given(heap', Arity)
<1> DEFINE b == Forget(Own[pc], Instr.d)
           x == [count |-> 1, kind |-> kind]
           l == Len(heap) + 1
<1>1. /\ heap \in Seq(Objects) /\ Len(heap) \in Nat /\ Given(heap, Arity)
      /\ Size \in Nat /\ Arity \in Nat /\ Instr.d \in 1..Size
  BY Running DEF Loaded
<1>2. Store(l) /\ heap' = Append(heap, x) /\ x \in Objects
  BY DEF Allocate, Objects
<1>3. l \in Nat /\ Len(heap) <= l /\ l \in -5..l
  BY <1>1
<1> HIDE DEF l
<1>4. /\ Account(b, Size) /\ Instr.d \notin Readable(b) /\ slots'[Instr.d] = l
      /\ Holds(b, slots', heap, Arity) /\ Balanced(b, slots', heap, Arity)
      /\ slots' \in [1..Size -> Int] /\ \A i \in 1..Size : slots'[i] \in -5..l
  BY <1>2, <1>3, Put
<1>5. heap' \in Seq(Objects) /\ Len(heap') = l /\ Given(heap', Arity)
  BY <1>1, <1>2, Grown DEF l
<1>6. Account(Held(b, Instr.d), Size) /\ Account(Live(b, Instr.d), Size)
  BY <1>1, <1>4, OneMore
<1> HIDE DEF b
<1>7. CASE kind = "string"
  <2>1. Holds(Held(b, Instr.d), slots', heap', Arity) /\ Balanced(Held(b, Instr.d), slots', heap', Arity)
    BY <1>1, <1>2, <1>4, <1>7, NewString DEF l
  <2> QED
    BY <1>4, <1>5, <1>6, <1>7, <2>1 DEF b
<1>8. CASE kind = "pointer"
  <2>1. Holds(Live(b, Instr.d), slots', heap', Arity) /\ Balanced(Live(b, Instr.d), slots', heap', Arity)
    BY <1>1, <1>2, <1>4, <1>8, NewPointer DEF l
  <2> QED
    BY <1>4, <1>5, <1>6, <1>8, <2>1 DEF b
<1> QED
  BY <1>7, <1>8

(* Objects are made. *)
LEMMA NewObjectKeeps ==
  ASSUME Accounted, RunInv, NewObject
  PROVE  RunInv'
<1> DEFINE a == Own[pc]
           kind == IF Instr.op = "mk" THEN "string" ELSE "pointer"
<1>1. /\ stage = "running" /\ UNCHANGED <<prog, stage, code, taken>>
      /\ pc' = pc + 1 /\ Instr.op \in {"mk", "new"} /\ Allocate(kind)
      /\ faults' = faults \cup ArgFaults
  BY DEF NewObject, At, Advance
<1>2. Instr.op \in Stores /\ Instr.op \in Calls /\ Instr.op \notin {"jump", "return", "end"}
  BY <1>1 DEF Stores, Calls
<1>3. <<pc', Effect(a, Instr)>> \in Leads(code, pc, a)
  BY <1>1, <1>2, On DEF Instr
<1>4. taken' \in Seq(BOOLEAN) /\ Len(taken') <= MaxOutcomes /\ faults' = {}
  BY <1>1, <1>2, NoArgFault DEF RunInv
<1>5. LET b == Forget(a, Instr.d)
      IN  Effect(a, Instr) = IF kind = "string" THEN Held(b, Instr.d) ELSE Live(b, Instr.d)
  BY <1>1 DEF Effect
<1>6. kind \in {"string", "pointer"}
  OBVIOUS
<1> HIDE DEF kind
<1>7. LET e == Effect(a, Instr)
      IN  /\ Account(e, Size) /\ Holds(e, slots', heap', Arity) /\ Balanced(e, slots', heap', Arity)
          /\ slots' \in [1..Size -> Int] /\ \A i \in 1..Size : slots'[i] \in -5..Len(heap')
          /\ heap' \in Seq(Objects) /\ Given(heap', Arity)
  BY <1>1, <1>2, <1>5, <1>6, Allocated
<1> QED
  BY <1>1, <1>3, <1>4, <1>7, Onward

(* A call answers with a string or null.                                   *)
LEMMA MaybeObjectKeeps ==
  ASSUME Accounted, RunInv, MaybeObject
  PROVE  RunInv'
<1> DEFINE a == Own[pc]
<1>1. /\ stage = "running" /\ UNCHANGED <<prog, stage, code, faults>>
      /\ pc' = pc + 1 /\ Instr.op = "maybe"
  BY DEF MaybeObject, At, Advance
<1>2. PICK v \in BOOLEAN :
          Choose(v) /\ IF v THEN Allocate("string") ELSE Store(Absent) /\ UNCHANGED heap
  BY DEF MaybeObject
<1>3. Instr.op \in Stores /\ Instr.op \notin {"jump", "return", "end"}
  BY <1>1 DEF Stores
<1>4. <<pc', Effect(a, Instr)>> \in Leads(code, pc, a)
  BY <1>1, <1>3, On DEF Instr
<1>5. taken' \in Seq(BOOLEAN) /\ Len(taken') <= MaxOutcomes /\ faults' = {}
  BY <1>1, <1>2, Chosen DEF RunInv
<1>6. Effect(a, Instr) = Held(Forget(a, Instr.d), Instr.d)
  BY <1>1 DEF Effect
<1>7. LET e == Effect(a, Instr)
      IN  /\ Account(e, Size) /\ Holds(e, slots', heap', Arity) /\ Balanced(e, slots', heap', Arity)
          /\ slots' \in [1..Size -> Int] /\ \A i \in 1..Size : slots'[i] \in -5..Len(heap')
          /\ heap' \in Seq(Objects) /\ Given(heap', Arity)
  <2>1. CASE v
    BY <1>1, <1>2, <1>3, <1>6, <2>1, Allocated
  <2>2. CASE ~v
    <3>1. Store(Absent) /\ Still(Absent) /\ heap' = heap
      BY <1>2, <2>2 DEF Still
    <3>2. heap \in Seq(Objects) /\ Given(heap, Arity)
      BY <1>1, Running DEF Loaded
    <3> QED
      BY <1>1, <1>3, <1>6, <3>1, <3>2, PutStill
  <2> QED
    BY <2>1, <2>2
<1> QED
  BY <1>1, <1>4, <1>5, <1>7, Onward

(* A call or a match leaves null or a truth value where it was told to.    *)
LEMMA AnswerKeeps ==
  ASSUME Accounted, RunInv, stage = "running", Instr.op \in {"call", "test", "matches"},
         UNCHANGED <<prog, stage, code, heap>>, pc' = pc + 1, faults' = faults \cup ArgFaults,
         NEW v, Still(v), Store(v), taken' \in Seq(BOOLEAN), Len(taken') <= MaxOutcomes
  PROVE  RunInv'
<1> DEFINE a == Own[pc]
<1>1. Instr.op \in Stores /\ Instr.op \in Calls /\ Instr.op \notin {"jump", "return", "end"}
  BY DEF Stores, Calls
<1>2. <<pc', Effect(a, Instr)>> \in Leads(code, pc, a)
  BY <1>1, On DEF Instr
<1>3. faults' = {}
  BY <1>1, NoArgFault DEF RunInv
<1>4. Effect(a, Instr) = Plain(Forget(a, Instr.d), Instr.d)
  BY DEF Effect
<1>5. heap' \in Seq(Objects) /\ Given(heap', Arity)
  BY Running DEF Loaded
<1>6. LET e == Effect(a, Instr)
      IN  /\ Account(e, Size) /\ Holds(e, slots', heap', Arity) /\ Balanced(e, slots', heap', Arity)
          /\ slots' \in [1..Size -> Int] /\ \A i \in 1..Size : slots'[i] \in -5..Len(heap')
  BY <1>1, <1>4, PutStill
<1> QED
  BY <1>2, <1>3, <1>5, <1>6, Onward

(* A call the caller can see. *)
LEMMA CallOutKeeps ==
  ASSUME Accounted, RunInv, CallOut
  PROVE  RunInv'
<1>1. /\ stage = "running" /\ UNCHANGED <<prog, stage, code, heap>>
      /\ pc' = pc + 1 /\ Instr.op \in {"call", "test"} /\ faults' = faults \cup ArgFaults
  BY DEF CallOut, At, Advance
<1>2. CASE Instr.op = "test"
  <2>1. PICK b \in BOOLEAN : Choose(b) /\ Store(Truth(b))
    BY <1>2 DEF CallOut
  <2>2. Still(Truth(b))
    BY DEF Still
  <2> QED
    BY <1>1, <2>1, <2>2, Chosen, AnswerKeeps
<1>3. CASE Instr.op # "test"
  <2>1. Store(Absent) /\ taken' = taken /\ Still(Absent)
    BY <1>3 DEF CallOut, Still
  <2>2. taken' \in Seq(BOOLEAN) /\ Len(taken') <= MaxOutcomes
    BY <2>1 DEF RunInv
  <2> QED
    BY <1>1, <2>1, <2>2, AnswerKeeps
<1> QED
  BY <1>2, <1>3

(* A scrutinee is matched. *)
LEMMA MatchesKeeps ==
  ASSUME Accounted, RunInv, Matches
  PROVE  RunInv'
<1>1. /\ stage = "running" /\ UNCHANGED <<prog, stage, code, heap>>
      /\ pc' = pc + 1 /\ Instr.op = "matches" /\ faults' = faults \cup ArgFaults
  BY DEF Matches, At, Advance
<1>2. PICK b \in BOOLEAN : Choose(b) /\ Store(Truth(b))
  BY DEF Matches
<1>3. Still(Truth(b))
  BY DEF Still
<1> QED
  BY <1>1, <1>2, <1>3, Chosen, AnswerKeeps

(* A retain of what can be read: null and static data, or a string.        *)
LEMMA Retained ==
  ASSUME Accounted, RunInv, Count, Instr.op = "retain"
  PROVE  LET e == Held(Forget(Own[pc], Instr.s), Instr.s)
         IN  /\ Account(e, Size) /\ Holds(e, slots, heap', Arity) /\ Balanced(e, slots, heap', Arity)
             /\ heap' \in Seq(Objects) /\ Len(heap') = Len(heap) /\ Given(heap', Arity)
<1> DEFINE a == Own[pc]
           b == Forget(a, Instr.s)
           v == slots[Instr.s]
<1>1. stage = "running" /\ Instr.op \in Counts
  BY DEF Count, At, Counts
<1>2. /\ Size \in Nat /\ Arity \in Nat /\ Instr.s \in 1..Size /\ Account(a, Size)
      /\ Instr.s \in Readable(a) /\ Instr.s \notin UNION a.live /\ {Instr.s} \notin a.held
      /\ Holds(a, slots, heap, Arity) /\ Balanced(a, slots, heap, Arity)
  BY <1>1, Running DEF May
<1>3. heap \in Seq(Objects) /\ Len(heap) \in Nat /\ Given(heap, Arity)
  BY <1>1, Running DEF Loaded
<1> HIDE DEF a
<1>4. Account(b, Size) /\ Below(b, a) /\ Instr.s \notin Readable(b)
  BY <1>2, ForgetIsBelow
<1>5. Holds(b, slots, heap, Arity) /\ Balanced(b, slots, heap, Arity)
  BY <1>2, <1>3, <1>4, Weaker
<1>6. Account(Held(b, Instr.s), Size)
  BY <1>2, <1>4, OneMore
<1>7. CASE Still(v)
  <2>1. heap' = heap
    BY <1>7 DEF Count, Still, IsObject, Absent, Truth
  <2>2. b = [plain |-> b.plain, lent |-> b.lent, held |-> b.held, live |-> b.live]
    BY <1>4 DEF Account
  <2> HIDE DEF b
  <2>3. Holds(Held(b, Instr.s), slots, heap, Arity) /\ Balanced(Held(b, Instr.s), slots, heap, Arity)
    BY <1>3, <1>4, <1>5, <1>7, <2>2, StillIsPlain
  <2> QED
    BY <1>3, <1>6, <2>1, <2>3 DEF b, a
<1>8. CASE ~Still(v)
  <2>1. v \in 1..Len(heap) /\ heap[v].count > 0
    BY <1>2, <1>3, <1>8, ReadableIsThere
  <2>2. heap[v].kind = "string"
    <3>1. CASE Instr.s \in a.lent
      BY <1>2, <1>3, <1>8, <3>1 DEF Holds, Given
    <3>2. CASE Instr.s \in UNION a.held
      BY <1>2, <1>8, <3>2 DEF Holds, IsA
    <3>3. CASE Instr.s \in a.plain
      BY <1>2, <1>8, <3>3 DEF Holds
    <3> QED
      BY <1>2, <3>1, <3>2, <3>3 DEF Readable, Groups
  <2>3. heap' = [heap EXCEPT ![v].count = heap[v].count + 1]
    BY <1>1, <2>1 DEF Count, IsObject
  <2>4. heap[v].count + 1 \in Nat
    <3>1. heap[v] \in Objects
      BY <1>3, <2>1, ElementOfSeq
    <3> QED
      BY <3>1 DEF Objects
  <2>5. heap' \in Seq(Objects) /\ Len(heap') = Len(heap) /\ Given(heap', Arity)
    BY <1>2, <1>3, <2>1, <2>3, <2>4, Recounted
  <2> HIDE DEF b
  <2>6. Holds(Held(b, Instr.s), slots, heap', Arity) /\ Balanced(Held(b, Instr.s), slots, heap', Arity)
    BY <1>2, <1>3, <1>4, <1>5, <2>1, <2>2, <2>3, RetainHolds
  <2> QED
    BY <1>6, <2>5, <2>6 DEF b, a
<1> QED
  BY <1>7, <1>8

(* A release of what is owed one, or of null or static data.               *)
LEMMA Released ==
  ASSUME Accounted, RunInv, Count, Instr.op = "release"
  PROVE  LET e == Settle(Own[pc], Instr.s)
         IN  /\ Account(e, Size) /\ Holds(e, slots, heap', Arity) /\ Balanced(e, slots, heap', Arity)
             /\ heap' \in Seq(Objects) /\ Len(heap') = Len(heap) /\ Given(heap', Arity)
             /\ Instr.s \in Readable(Own[pc])
<1> DEFINE a == Own[pc]
           v == slots[Instr.s]
<1>1. stage = "running" /\ Instr.op \in Counts
  BY DEF Count, At, Counts
<1>2. /\ Size \in Nat /\ Arity \in Nat /\ Account(a, Size)
      /\ Instr.s \in a.plain \cup UNION a.held
      /\ Holds(a, slots, heap, Arity) /\ Balanced(a, slots, heap, Arity)
  BY <1>1, Running DEF May
<1>3. heap \in Seq(Objects) /\ Given(heap, Arity)
  BY <1>1, Running DEF Loaded
<1> HIDE DEF a
<1>4. Account(Settle(a, Instr.s), Size) /\ Instr.s \in Readable(a)
  <2>1. Account(Settle(a, Instr.s), Size)
    BY <1>2, OneLess
  <2>2. Instr.s \in Readable(a)
    BY <1>2 DEF Readable, Groups
  <2> QED
    BY <2>1, <2>2
<1>5. CASE Still(v)
  <2>1. heap' = heap
    BY <1>5 DEF Count, Still, IsObject, Absent, Truth
  <2> QED
    BY <1>2, <1>3, <1>4, <1>5, <2>1, SettleStill DEF a
<1>6. CASE ~Still(v)
  <2>1. Instr.s \in UNION a.held
    <3>1. Instr.s \notin a.plain
      BY <1>2, <1>6 DEF Holds
    <3> QED
      BY <1>2, <3>1
  <2>2. /\ IsA(heap, v, "string") /\ heap[v].count \in Nat \ {0}
        /\ LET new == [heap EXCEPT ![v].count = heap[v].count - 1] IN
           Holds(Settle(a, Instr.s), slots, new, Arity) /\ Balanced(Settle(a, Instr.s), slots, new, Arity)
    BY <1>2, <1>3, <1>6, <2>1, ReleaseHolds
  <2>3. v \in 1..Len(heap) /\ heap[v].count > 0 /\ heap[v].count - 1 \in Nat
    BY <2>2 DEF IsA
  <2>4. heap' = [heap EXCEPT ![v].count = heap[v].count - 1]
    BY <1>1, <2>3 DEF Count, IsObject
  <2>5. heap' \in Seq(Objects) /\ Len(heap') = Len(heap) /\ Given(heap', Arity)
    BY <1>2, <1>3, <2>3, <2>4, Recounted
  <2> QED
    BY <1>4, <2>2, <2>4, <2>5 DEF a
<1> QED
  BY <1>5, <1>6

(* Strings are counted. *)
LEMMA CountKeeps ==
  ASSUME Accounted, RunInv, Count
  PROVE  RunInv'
<1> DEFINE a == Own[pc]
<1>1. /\ stage = "running" /\ UNCHANGED <<prog, stage, code, slots, taken>> /\ pc' = pc + 1
      /\ Instr.op \in Counts /\ Instr.op \notin {"jump", "return", "end"}
      /\ faults' = faults \cup ReadFaults(slots[Instr.s])
  BY DEF Count, At, Advance, Counts
<1>2. <<pc', Effect(a, Instr)>> \in Leads(code, pc, a)
  BY <1>1, On DEF Instr
<1>3. slots' \in [1..Size -> Int] /\ \A i \in 1..Size : slots'[i] \in -5..Len(heap)
  BY <1>1, Running DEF Loaded
<1>4. Instr.s \in Readable(a)
  <2>1. CASE Instr.op = "retain"
    BY <1>1, <2>1, Running DEF May
  <2>2. CASE Instr.op = "release"
    BY <2>2, Released
  <2> QED
    BY <1>1, <2>1, <2>2 DEF Counts
<1>5. taken' \in Seq(BOOLEAN) /\ Len(taken') <= MaxOutcomes /\ faults' = {}
  BY <1>1, <1>4, NoReadFault DEF RunInv
<1>6. LET e == Effect(a, Instr)
      IN  /\ Account(e, Size) /\ Holds(e, slots', heap', Arity) /\ Balanced(e, slots', heap', Arity)
          /\ heap' \in Seq(Objects) /\ Len(heap') = Len(heap) /\ Given(heap', Arity)
  <2>1. CASE Instr.op = "retain"
    <3>1. Effect(a, Instr) = Held(Forget(a, Instr.s), Instr.s)
      BY <2>1 DEF Effect
    <3> QED
      BY <1>1, <2>1, <3>1, Retained
  <2>2. CASE Instr.op = "release"
    <3>1. Effect(a, Instr) = Settle(a, Instr.s)
      BY <2>2 DEF Effect
    <3> QED
      BY <1>1, <2>2, <3>1, Released
  <2> QED
    BY <1>1, <2>1, <2>2 DEF Counts
<1> QED
  BY <1>1, <1>2, <1>3, <1>5, <1>6, Onward

(* A pointer is dropped. *)
LEMMA DropObjectKeeps ==
  ASSUME Accounted, RunInv, DropObject
  PROVE  RunInv'
<1> DEFINE a == Own[pc]
           k == Kill(a, Instr.s)
           v == slots[Instr.s]
<1>1. /\ stage = "running" /\ UNCHANGED <<prog, stage, code, taken>> /\ pc' = pc + 1
      /\ Instr.op = "drop" /\ Instr.op \notin {"jump", "return", "end"}
      /\ faults' = faults \cup ReadFaults(v)
      /\ heap' = IF IsObject(v) THEN [heap EXCEPT ![v].count = 0] ELSE heap
      /\ slots' = [slots EXCEPT ![Instr.s] = Dropped]
  BY DEF DropObject, At, Advance
<1>2. /\ Size \in Nat /\ Arity \in Nat /\ Instr.s \in 1..Size /\ Account(a, Size)
      /\ Instr.s \in UNION a.live
      /\ Holds(a, slots, heap, Arity) /\ Balanced(a, slots, heap, Arity)
  BY <1>1, Running DEF May
<1>3. /\ heap \in Seq(Objects) /\ Len(heap) \in Nat /\ Given(heap, Arity)
      /\ slots \in [1..Size -> Int] /\ \A i \in 1..Size : slots[i] \in -5..Len(heap)
  BY <1>1, Running DEF Loaded
<1>4. <<pc', Effect(a, Instr)>> \in Leads(code, pc, a)
  BY <1>1, On DEF Instr
<1>5. Instr.s \in Readable(a)
  BY <1>2 DEF Readable, Groups
<1>6. taken' \in Seq(BOOLEAN) /\ Len(taken') <= MaxOutcomes /\ faults' = {}
  BY <1>1, <1>5, NoReadFault DEF RunInv
<1>7. Effect(a, Instr) = Forget(k, Instr.s)
  BY <1>1 DEF Effect
<1> HIDE DEF a
<1>8. /\ IsA(heap, v, "pointer")
      /\ LET new == [heap EXCEPT ![v].count = 0] IN
         Holds(k, slots, new, Arity) /\ Balanced(k, slots, new, Arity)
  BY <1>2, <1>3, DropHolds
<1>9. v \in 1..Len(heap) /\ heap' = [heap EXCEPT ![v].count = 0]
  BY <1>1, <1>8 DEF IsA, IsObject
<1>10. heap' \in Seq(Objects) /\ Len(heap') = Len(heap) /\ Given(heap', Arity)
  BY <1>2, <1>3, <1>9, Recounted
<1>11. Account(k, Size) /\ {Instr.s} \notin k.held
  <2>1. Account(k, Size) /\ k.held = a.held
    <3>1. Account(k, Size)
      BY <1>2, OneLess
    <3>2. k.held = a.held
      BY <1>2 DEF Kill, Account
    <3> QED
      BY <3>1, <3>2
  <2>2. {Instr.s} \notin a.held
    <3> SUFFICES ASSUME {Instr.s} \in a.held PROVE FALSE
      OBVIOUS
    <3>1. PICK G \in a.live : Instr.s \in G
      BY <1>2
    <3>2. G = {Instr.s}
      BY <1>2, <3>1 DEF Account, Groups
    <3> QED
      BY <1>2, <3>1, <3>2 DEF Account
  <2> QED
    BY <2>1, <2>2
<1> HIDE DEF k
<1>12. LET e == Forget(k, Instr.s)
       IN  Account(e, Size) /\ Holds(e, slots', heap', Arity) /\ Balanced(e, slots', heap', Arity)
  <2>1. Holds(k, slots, heap', Arity) /\ Balanced(k, slots, heap', Arity)
    BY <1>8, <1>9
  <2>2. Dropped \in Int
    BY DEF Dropped
  <2> QED
    <3>1. LET new == [slots EXCEPT ![Instr.s] = Dropped]
              e   == Forget(k, Instr.s)
          IN  Account(e, Size) /\ Holds(e, new, heap', Arity) /\ Balanced(e, new, heap', Arity)
      BY <1>2, <1>3, <1>10, <1>11, <2>1, <2>2, Storing
    <3> QED
      BY <1>1, <3>1
<1>13. slots' \in [1..Size -> Int] /\ \A i \in 1..Size : slots'[i] \in -5..Len(heap')
  BY <1>1, <1>2, <1>3, <1>10 DEF Dropped
<1> QED
  BY <1>1, <1>4, <1>6, <1>7, <1>10, <1>12, <1>13, Onward DEF a

(* A jump is made or not. *)
LEMMA BranchingKeeps ==
  ASSUME Accounted, RunInv, Branching
  PROVE  RunInv'
<1> DEFINE a == Own[pc]
<1>1. /\ stage = "running" /\ UNCHANGED <<prog, stage, code, slots, heap, taken, faults>>
      /\ Instr.op \in {"label", "jump", "ifnot", "ifsome"}
  BY DEF Branching, At
<1>2. /\ Size \in Nat /\ Account(a, Size)
      /\ Holds(a, slots, heap, Arity) /\ Balanced(a, slots, heap, Arity)
      /\ heap \in Seq(Objects) /\ Given(heap, Arity)
      /\ slots \in [1..Size -> Int] /\ \A i \in 1..Size : slots[i] \in -5..Len(heap)
  BY <1>1, Running DEF Loaded
<1>3. taken' \in Seq(BOOLEAN) /\ Len(taken') <= MaxOutcomes /\ faults' = {}
  BY <1>1 DEF RunInv
<1>4. ASSUME NEW b, Account(b, Size), <<pc', b>> \in Leads(code, pc, a),
             Holds(b, slots, heap, Arity), Balanced(b, slots, heap, Arity)
      PROVE  RunInv'
  BY <1>1, <1>2, <1>3, <1>4, Onward
<1>5. CASE Instr.op \in Jumps /\ Goto(Instr.l)
  <2>1. PICK j \in DOMAIN code : Labelled(code, Instr.l) = {j}
    BY <1>1, <1>5, Running
  <2>2. <<pc', a>> \in Leads(code, pc, a)
    BY <1>5, <2>1, Away DEF Goto
  <2> QED
    BY <1>2, <1>4, <2>2
<1>6. ASSUME Instr.op # "jump", Advance PROVE <<pc', Effect(a, Instr)>> \in Leads(code, pc, a)
  <2>1. Instr.op \notin {"jump", "return", "end"}
    BY <1>1, <1>6
  <2> QED
    BY <1>6, <2>1, On DEF Instr, Advance
<1>7. CASE Instr.op \in {"label", "ifnot"} /\ Advance
  <2>1. Effect(a, Instr) = a
    BY <1>7 DEF Effect
  <2> QED
    BY <1>2, <1>4, <1>6, <1>7, <2>1
<1>8. CASE Instr.op = "ifsome" /\ Advance /\ slots[Instr.s] = Absent
  <2>1. Effect(a, Instr) = Nulled(a, Instr.s)
    BY <1>8 DEF Effect
  <2>2. Account(Nulled(a, Instr.s), Size)
    BY <1>2, OneLess
  <2>3. Holds(Nulled(a, Instr.s), slots, heap, Arity) /\ Balanced(Nulled(a, Instr.s), slots, heap, Arity)
    BY <1>2, <1>8, NullHolds
  <2>4. <<pc', Effect(a, Instr)>> \in Leads(code, pc, a)
    BY <1>6, <1>8
  <2> QED
    BY <1>4, <2>1, <2>2, <2>3, <2>4
<1>9. CASE Instr.op = "label"
  BY <1>7, <1>9 DEF Branching
<1>10. CASE Instr.op = "jump"
  BY <1>5, <1>10 DEF Branching, Jumps
<1>11. CASE Instr.op = "ifnot"
  BY <1>5, <1>7, <1>11 DEF Branching, Jumps
<1>12. CASE Instr.op = "ifsome"
  BY <1>5, <1>8, <1>12 DEF Branching, Jumps
<1> QED
  BY <1>1, <1>9, <1>10, <1>11, <1>12

(* A function ends: what it owes is what it returns.                       *)
LEMMA LeavingKeeps ==
  ASSUME Accounted, RunInv, Leaving
  PROVE  RunInv'
<1> DEFINE a == Own[pc]
<1>1. /\ stage = "running" /\ stage' = "ended" /\ Instr.op \in {"return", "end"}
      /\ UNCHANGED <<prog, code, pc, slots, heap, taken>>
      /\ ret' = IF Instr.op = "end" THEN Uninit ELSE IF Instr.s = 0 THEN Absent ELSE slots[Instr.s]
      /\ faults' = faults \cup (IF Instr.op = "return" THEN ReadFaults(ret') ELSE {})
  BY DEF Leaving, At
<1>2. /\ Loaded /\ Size \in Nat /\ Arity \in Nat /\ Account(a, Size) /\ May(a, Instr, prog.result)
      /\ Holds(a, slots, heap, Arity) /\ Balanced(a, slots, heap, Arity)
      /\ heap \in Seq(Objects) /\ Len(heap) \in Nat
  BY <1>1, Running DEF Loaded
<1>3. /\ {} \notin a.held /\ \A G, H \in a.held : G = H \/ G \cap H = {}
  BY <1>2 DEF Account, Groups
<1>4. /\ Instr.op = "return" =>
            IF Instr.s \in UNION a.held THEN \A G \in a.held : Instr.s \in G
            ELSE Instr.s \in {0} \cup a.plain \cup UNION a.live /\ a.held = {}
      /\ Instr.op = "end" => a.held = {} /\ prog.result = "void"
  BY <1>2 DEF May
<1>5. a.plain \subseteq 1..Size /\ \A G \in Groups(a) : G \subseteq 1..Size
  BY <1>2 DEF Account, Groups
<1>6. Instr.op = "return" => ReadFaults(ret') = {}
  <2> SUFFICES ASSUME Instr.op = "return" PROVE ReadFaults(ret') = {}
    OBVIOUS
  <2>1. CASE Instr.s = 0
    BY <1>1, <2>1 DEF ReadFaults, Absent, Uninit, Dropped, IsObject
  <2>2. CASE Instr.s # 0
    <3>1. Instr.s \in Readable(a)
      BY <1>4, <2>2 DEF Readable, Groups
    <3> QED
      BY <1>1, <2>2, <3>1, NoReadFault
  <2> QED
    BY <2>1, <2>2
<1>7. faults' = {}
  BY <1>1, <1>6 DEF RunInv
<1> HIDE DEF a
<1>8. ASSUME NEW o \in 1..Len(heap), heap[o].kind = "string"
      PROVE  Cardinality(Owing(a, slots, o)) = IF ret' = o THEN 1 ELSE 0
  <2>1. ~Still(o) /\ o # Absent /\ o # Uninit
    BY DEF Still, Absent, Uninit, Truth
  <2>2. CASE a.held = {}
    <3>1. Owing(a, slots, o) = {}
      BY <2>2 DEF Owing
    <3>2. ret' # o
      <4>1. CASE Instr.op = "return" /\ Instr.s \in a.plain /\ Instr.s # 0
        BY <1>1, <1>2, <2>1, <4>1 DEF Holds
      <4>2. CASE Instr.op = "return" /\ Instr.s \in UNION a.live /\ Instr.s # 0
        <5>1. IsA(heap, slots[Instr.s], "pointer")
          BY <1>2, <4>2 DEF Holds
        <5> QED
          BY <1>1, <1>8, <4>2, <5>1 DEF IsA
      <4>3. CASE Instr.op = "end" \/ Instr.s = 0
        BY <1>1, <2>1, <4>3
      <4>4. Instr.op = "return" => Instr.s \in {0} \cup a.plain \cup UNION a.live
        BY <1>4, <2>2
      <4> QED
        BY <1>1, <4>1, <4>2, <4>3, <4>4
    <3> QED
      BY <3>1, <3>2, FS_EmptySet
  <2>3. CASE a.held # {}
    <3>1. Instr.op = "return" /\ Instr.s \in UNION a.held /\ \A G \in a.held : Instr.s \in G
      BY <1>1, <1>4, <2>3
    <3>2. PICK G \in a.held : Instr.s \in G
      BY <3>1
    <3>3. a.held = {G}
      BY <1>3, <3>1, <3>2
    <3>4. Instr.s # 0 /\ ret' = slots[Instr.s]
      <4>1. Instr.s \in 1..Size
        BY <1>5, <3>2 DEF Groups
      <4> QED
        BY <1>1, <3>1, <4>1
    <3>5. \A t \in G : slots[t] = o <=> ret' = o
      BY <1>2, <2>1, <3>2, <3>4 DEF Holds, Alike, Groups
    <3>6. CASE ret' = o
      <4>1. Owing(a, slots, o) = {G}
        BY <3>2, <3>3, <3>5, <3>6 DEF Owing
      <4> QED
        BY <3>6, <4>1, FS_Singleton
    <3>7. CASE ret' # o
      <4>1. Owing(a, slots, o) = {}
        BY <3>3, <3>5, <3>7 DEF Owing
      <4> QED
        BY <3>7, <4>1, FS_EmptySet
    <3> QED
      BY <3>6, <3>7
  <2> QED
    BY <2>2, <2>3
<1>9. CountsBalance'
  <2> SUFFICES ASSUME NEW o \in 1..Len(heap), heap[o].kind = "string"
               PROVE  heap[o].count = (IF o <= Arity THEN 1 ELSE 0) + (IF ret' = o THEN 1 ELSE 0)
    <3>1. DOMAIN heap = 1..Len(heap)
      BY <1>2
    <3> QED
      BY <1>1, <3>1 DEF CountsBalance, Arity
  <2>1. heap[o].count = (IF o <= Arity THEN 1 ELSE 0) + Cardinality(Owing(a, slots, o))
    BY <1>2 DEF Balanced
  <2> QED
    BY <1>8, <2>1
<1>10. AlwaysReturns'
  <2>1. Instr' = Instr
    BY <1>1 DEF Instr
  <2> QED
    BY <1>1, <1>4, <2>1 DEF AlwaysReturns
<1>11. Loaded'
  <2>1. Own' = Own /\ Size' = Size /\ Arity' = Arity
    BY <1>1 DEF Own, Size, Arity
  <2> QED
    BY <1>1, <1>2, <2>1 DEF Loaded
<1> QED
  BY <1>1, <1>7, <1>9, <1>10, <1>11 DEF RunInv

(* A function begins with its arguments, which the caller counts.          *)
LEMMA CompileKeeps ==
  ASSUME Accounted, RunInv, Compile
  PROVE  RunInv'
<1>1. /\ stage = "source" /\ UNCHANGED <<prog, pc, taken, ret, faults>>
      /\ code = << >> /\ pc = 1 /\ slots = << >> /\ heap = << >>
  BY DEF Compile, RunInv
<1>2. /\ \E family \in Programs : prog \in family
      /\ taken \in Seq(BOOLEAN) /\ Len(taken) <= MaxOutcomes /\ faults = {}
  BY DEF RunInv
<1>3. CASE ~prog.accepted
  <2>1. stage' = "rejected" /\ UNCHANGED <<code, slots, heap>>
    BY <1>3 DEF Compile
  <2> QED
    BY <1>1, <1>2, <2>1 DEF RunInv, CountsBalance, AlwaysReturns
<1>4. CASE prog.accepted
  <2> DEFINE x == [count |-> 1, kind |-> "string"]
             e == [Nothing EXCEPT !.lent = 1..Arity]
  <2>1. /\ stage' = "running" /\ code' = prog.c.code
        /\ slots' = [i \in 1..Size |-> IF i <= Arity THEN i ELSE Uninit]
        /\ heap' = [i \in 1..Arity |-> x]
    BY <1>4 DEF Compile, Size, Arity
  <2>2. Accounts(prog)
    BY <1>2, <1>4 DEF Accounted
  <2>3. /\ Size \in Nat /\ Arity \in 0..Size /\ Arity \in Nat
        /\ 1 \in DOMAIN Own /\ Account(Own[1], Size) /\ Below(Own[1], e)
    BY <2>2 DEF Accounts, Size, Arity, Own
  <2>4. /\ e.plain = {} /\ e.lent = 1..Arity /\ e.held = {} /\ e.live = {}
        /\ e \in [plain : SUBSET (1..Size), lent : SUBSET (1..Size),
                  held : SUBSET SUBSET (1..Size), live : SUBSET SUBSET (1..Size)]
    BY <2>3 DEF Nothing
  <2>5. x \in Objects /\ x.count = 1 /\ x.kind = "string"
    BY DEF Objects
  <2> HIDE DEF x, e
  <2>6. heap' \in Seq(Objects) /\ Len(heap') = Arity /\ \A o \in 1..Arity : heap'[o] = x
    BY <2>1, <2>3, <2>5
  <2>7. slots' \in [1..Size -> Int] /\ \A i \in 1..Size : slots'[i] \in -5..Len(heap')
    BY <2>1, <2>3, <2>6 DEF Uninit
  <2>8. Account(e, Size)
    BY <2>4 DEF Account, Groups
  <2>9. Holds(e, slots', heap', Arity)
    BY <2>1, <2>3, <2>4 DEF Holds, Alike, Groups
  <2>10. Balanced(e, slots', heap', Arity)
    <3>1. \A o : Owing(e, slots', o) = {}
      BY <2>4 DEF Owing
    <3> QED
      BY <2>3, <2>5, <2>6, <3>1, FS_EmptySet DEF Balanced
  <2>11. Holds(Own[1], slots', heap', Arity) /\ Balanced(Own[1], slots', heap', Arity)
    BY <2>3, <2>6, <2>8, <2>9, <2>10, Weaker
  <2>12. Given(heap', Arity)
    BY <2>3, <2>5, <2>6 DEF Given
  <2>13. Own' = Own /\ Size' = Size /\ Arity' = Arity
    BY <1>1 DEF Own, Size, Arity
  <2>14. Loaded'
    BY <1>1, <1>4, <2>1, <2>3, <2>6, <2>7, <2>12, <2>13 DEF Loaded
  <2>15. Holds(Own[pc], slots, heap, Arity)' /\ Balanced(Own[pc], slots, heap, Arity)'
    BY <1>1, <2>11, <2>13
  <2> QED
    BY <1>1, <1>2, <2>1, <2>14, <2>15 DEF RunInv, CountsBalance, AlwaysReturns
<1> QED
  BY <1>3, <1>4

(* The invariant holds at first. *)
LEMMA InitRuns == Init => RunInv
<1> SUFFICES ASSUME Init PROVE RunInv
  OBVIOUS
<1>1. taken \in Seq(BOOLEAN) /\ Len(taken) <= MaxOutcomes
  BY OutcomesAssumption DEF Init
<1> QED
  BY <1>1 DEF Init, RunInv, CountsBalance, AlwaysReturns

(* No step breaks it. *)
LEMMA NextRuns ==
  ASSUME Accounted, RunInv, [Next]_vars
  PROVE  RunInv'
<1>1. CASE Compile
  BY <1>1, CompileKeeps
<1>2. CASE Move
  BY <1>2, MoveKeeps
<1>3. CASE NewObject
  BY <1>3, NewObjectKeeps
<1>4. CASE MaybeObject
  BY <1>4, MaybeObjectKeeps
<1>5. CASE CallOut
  BY <1>5, CallOutKeeps
<1>6. CASE Matches
  BY <1>6, MatchesKeeps
<1>7. CASE Count
  BY <1>7, CountKeeps
<1>8. CASE DropObject
  BY <1>8, DropObjectKeeps
<1>9. CASE Branching
  BY <1>9, BranchingKeeps
<1>10. CASE Leaving
  BY <1>10, LeavingKeeps
<1>11. CASE UNCHANGED vars
  <2>1. UNCHANGED <<prog, stage, code, pc, slots, heap, taken, ret, faults>>
    BY <1>11 DEF vars
  <2>2. Own' = Own /\ Size' = Size /\ Arity' = Arity /\ Instr' = Instr
    BY <2>1 DEF Own, Size, Arity, Instr
  <2>3. Loaded' = Loaded /\ CountsBalance' = CountsBalance /\ AlwaysReturns' = AlwaysReturns
    BY <2>1, <2>2 DEF Loaded, CountsBalance, AlwaysReturns
  <2> QED
    BY <2>1, <2>2, <2>3 DEF RunInv
<1> QED
  BY <1>1, <1>2, <1>3, <1>4, <1>5, <1>6, <1>7, <1>8, <1>9, <1>10, <1>11 DEF Next, Finished

(* Every run of code that keeps the discipline.                            *)
THEOREM RunsKeepAccount ==
  ASSUME Accounted
  PROVE  Spec => []RunInv
<1>1. Init => RunInv
  BY InitRuns
<1>2. RunInv /\ [Next]_vars => RunInv'
  BY NextRuns
<1> QED
  BY <1>1, <1>2, PTL DEF Spec

(* The invariant says all that the runs check.                             *)
LEMMA RunInvSays ==
  ASSUME Accounted, RunInv
  PROVE  /\ WindsDown => TypeOK
         /\ NeverTouchesTheDead /\ CountsBalance /\ AlwaysReturns
<1>1. /\ stage = "running" => Accounts(prog)
      /\ stage = "running" /\ WindsDown => Winds(prog)
  BY Running DEF RunInv, Loaded, WindsDown
<1>2. CASE stage \in {"source", "rejected"}
  <2>1. pc \in 1..(Len(code) + 1) /\ DOMAIN slots = {} /\ DOMAIN heap = {}
    BY <1>2 DEF RunInv
  <2> QED
    BY <1>1, <1>2, <2>1 DEF RunInv, TypeOK, NeverTouchesTheDead
<1>3. CASE stage \in {"running", "ended"}
  <2>1. Loaded /\ Accounts(prog)
    BY <1>3 DEF RunInv, Loaded, Accounted
  <2>2. pc \in 1..(Len(code) + 1)
    <3>1. pc \in DOMAIN code /\ DOMAIN code = 1..Len(code) /\ Len(code) \in Nat
      BY <2>1 DEF Accounts, Loaded, Shaped, Own, Arity
    <3> QED
      BY <3>1
  <2>3. DOMAIN slots = 1..Size /\ \A i \in 1..Size : slots[i] \in -5..Len(heap)
    BY <2>1 DEF Loaded
  <2>4. \A o \in DOMAIN heap : heap[o].count \in Nat /\ heap[o].kind \in {"string", "pointer"}
    <3> SUFFICES ASSUME NEW o \in DOMAIN heap
                 PROVE  heap[o].count \in Nat /\ heap[o].kind \in {"string", "pointer"}
      OBVIOUS
    <3>1. heap \in Seq(Objects) /\ o \in 1..Len(heap)
      BY <2>1 DEF Loaded
    <3>2. heap[o] \in Objects
      BY <3>1, ElementOfSeq
    <3> QED
      BY <3>2 DEF Objects
  <2> QED
    BY <1>1, <2>2, <2>3, <2>4 DEF RunInv, TypeOK, NeverTouchesTheDead
<1> QED
  BY <1>2, <1>3 DEF RunInv

(* The state keeps its types. *)
THEOREM RunsAreTyped ==
  ASSUME Accounted, WindsDown
  PROVE  Spec => []TypeOK
<1>1. RunInv => TypeOK
  BY RunInvSays
<1> QED
  BY <1>1, RunsKeepAccount, PTL

(* No run reads an object that is not there: not before it is initialized  *)
(* and not after its last release, whatever calls answer and however many. *)
THEOREM NothingDeadIsTouched ==
  ASSUME Accounted
  PROVE  Spec => []NeverTouchesTheDead
<1>1. RunInv => NeverTouchesTheDead
  BY RunInvSays
<1> QED
  BY <1>1, RunsKeepAccount, PTL

(* Every exit releases what its path owns, once.                           *)
THEOREM EveryExitBalances ==
  ASSUME Accounted
  PROVE  Spec => []CountsBalance
<1>1. RunInv => CountsBalance
  BY RunInvSays
<1> QED
  BY <1>1, RunsKeepAccount, PTL

(* A function with a result ends in a return. *)
THEOREM ResultsAreReturned ==
  ASSUME Accounted
  PROVE  Spec => []AlwaysReturns
<1>1. RunInv => AlwaysReturns
  BY RunInvSays
<1> QED
  BY <1>1, RunsKeepAccount, PTL

-----------------------------------------------------------------------------
(* A run winds down, from the second thing assumed of the code. *)

Left == Fuel(prog.c)

(* The slots hold what is known of them. *)
Agrees(known, sl) == \A p \in known : p[1] \in DOMAIN sl /\ sl[p[1]] = p[2]

(* The run is at a node that knows the slots, and what the node has left   *)
(* is enough.                                                              *)
IsAt(node) ==
    /\ node \in DOMAIN Left /\ node[1] = pc /\ Agrees(Left[node].known, slots)
    /\ idle + Left[node].left <= 2 * Len(code)

(* Until a function ends there is such a node; that is what makes          *)
(* NeverSpins an invariant.                                                *)
WindInv ==
    /\ idle \in Nat
    /\ stage \in {"source", "rejected"} => idle = 0
    /\ stage = "running" => \E w \in {"none", "no"} : IsAt(<<pc, w>>)
    /\ NeverSpins

(* What a node says of its ways. *)
LEMMA Node ==
  ASSUME Accounted, WindsDown, RunInv, stage = "running", NEW w, IsAt(<<pc, w>>)
  PROVE  LET node == <<pc, w>> IN
         /\ Left[node].left \in Nat
         /\ \A to \in Ways(code, node, Left[node].known) :
                Reached(Left, to) /\ Left[to[1]].left < Left[node].left
         /\ Instr.op \in Answers => Reached(Left, Answered(code, node, Left[node].known))
         /\ \A m \in DOMAIN Left : Left[m].left \in 0..(2 * Len(code))
         /\ Len(code) \in Nat
<1>1. Loaded /\ Len(code) \in Nat
  BY Running
<1>2. Winds(prog) /\ code = prog.c.code
  BY <1>1 DEF RunInv, WindsDown, Loaded
<1> DEFINE node == <<pc, w>>
<1>3. node \in DOMAIN Left /\ node[1] = pc
  BY DEF IsAt
<1>4. \A n \in DOMAIN Left :
        /\ Left[n].left \in 0..(2 * Len(code))
        /\ \A to \in Ways(code, n, Left[n].known) :
                Reached(Left, to) /\ Left[to[1]].left < Left[n].left
        /\ code[n[1]].op \in Answers => Reached(Left, Answered(code, n, Left[n].known))
  BY <1>2 DEF Winds, Left
<1> HIDE DEF node
<1>5. Left[node].left \in Nat /\ (Instr.op \in Answers => Reached(Left, Answered(code, node, Left[node].known)))
  BY <1>1, <1>3, <1>4 DEF Instr
<1> QED
  BY <1>1, <1>3, <1>4, <1>5 DEF node

(* An instruction whose call, if it makes one, answers no.                 *)
LEMMA WindsOn ==
  ASSUME Accounted, WindsDown, RunInv, WindInv, stage = "running", stage' = "running",
         UNCHANGED <<prog, code>>, idle' = idle + 1,
         \A known, w : Agrees(known, slots) =>
            \E to \in Ways(code, <<pc, w>>, known) :
                to[1] \in {pc'} \X {w, "no"} /\ Agrees(to[2], slots')
  PROVE  WindInv'
<1>1. PICK w \in {"none", "no"} : IsAt(<<pc, w>>)
  BY DEF WindInv
<1> DEFINE node == <<pc, w>>
<1>2. /\ node \in DOMAIN Left /\ Agrees(Left[node].known, slots)
      /\ idle + Left[node].left <= 2 * Len(code)
  BY <1>1 DEF IsAt
<1>3. /\ Left[node].left \in Nat /\ Len(code) \in Nat
      /\ \A to \in Ways(code, node, Left[node].known) :
            Reached(Left, to) /\ Left[to[1]].left < Left[node].left
      /\ \A m \in DOMAIN Left : Left[m].left \in 0..(2 * Len(code))
  BY <1>1, Node
<1>4. PICK to \in Ways(code, node, Left[node].known) :
            to[1] \in {pc'} \X {w, "no"} /\ Agrees(to[2], slots')
  BY <1>2
<1>5. PICK v \in {"none", "no"} : to[1] = <<pc', v>>
  BY <1>4
<1>6. /\ <<pc', v>> \in DOMAIN Left /\ Left[<<pc', v>>].known \subseteq to[2]
      /\ Left[<<pc', v>>].left < Left[node].left /\ Left[<<pc', v>>].left \in Nat
  BY <1>3, <1>4, <1>5 DEF Reached
<1>7. Agrees(Left[<<pc', v>>].known, slots')
  BY <1>4, <1>6 DEF Agrees
<1>8. idle \in Nat
  BY DEF WindInv
<1>9. idle' + Left[<<pc', v>>].left <= 2 * Len(code)
  BY <1>2, <1>3, <1>6, <1>8
<1>10. idle' \in Nat /\ idle' <= 2 * Len(code)
  BY <1>3, <1>6, <1>8, <1>9
<1>11. Left' = Left
  BY DEF Left
<1>12. IsAt(<<pc, v>>)'
  BY <1>6, <1>7, <1>9, <1>11 DEF IsAt
<1> QED
  BY <1>10, <1>12 DEF WindInv, NeverSpins

(* A call that returns true or a value: the count starts again.            *)
LEMMA WindsAgain ==
  ASSUME Accounted, WindsDown, RunInv, WindInv, stage = "running", stage' = "running",
         UNCHANGED <<prog, code>>, Instr.op \in Answers, idle' = 0, pc' = pc + 1,
         NEW v \in Int, Store(v)
  PROVE  WindInv'
<1>1. PICK w \in {"none", "no"} : IsAt(<<pc, w>>)
  BY DEF WindInv
<1> DEFINE node == <<pc, w>>
           next == <<pc', "none">>
<1>2. Agrees(Left[node].known, slots)
  BY <1>1 DEF IsAt
<1>3. /\ Reached(Left, Answered(code, node, Left[node].known)) /\ Len(code) \in Nat
      /\ \A m \in DOMAIN Left : Left[m].left \in 0..(2 * Len(code))
  BY <1>1, Node
<1>4. next \in DOMAIN Left /\ Left[next].known \subseteq Without(Left[node].known, Instr.d)
  BY <1>3 DEF Reached, Answered, Instr
<1>5. /\ slots \in [1..Size -> Int] /\ slots' = [slots EXCEPT ![Instr.d] = v]
  BY Running DEF Loaded, Store
<1>6. Agrees(Left[next].known, slots')
  BY <1>2, <1>4, <1>5 DEF Agrees, Without
<1>7. Left' = Left
  BY DEF Left
<1>8. idle' + Left[next].left <= 2 * Len(code)
  BY <1>3, <1>4
<1>9. IsAt(<<pc, "none">>)'
  BY <1>4, <1>6, <1>7, <1>8 DEF IsAt
<1>10. idle' \in Nat /\ idle' <= 2 * Len(code)
  BY <1>3
<1> QED
  BY <1>9, <1>10 DEF WindInv, NeverSpins

(* What is known of the other slots outlives a store, and of this one it   *)
(* is what was stored.                                                     *)
LEMMA StoreAgrees ==
  ASSUME NEW sl, NEW d \in DOMAIN sl, NEW v, NEW known, Agrees(known, sl)
  PROVE  LET new == [sl EXCEPT ![d] = v] IN
         /\ Agrees(Without(known, d), new)
         /\ Agrees(Learn(known, d, v), new)
         /\ \A s : s # d /\ sl[s] = v =>
                Agrees(Without(known, d) \cup {<<d, p[2]>> : p \in {q \in known : q[1] = s}}, new)
BY DEF Agrees, Without, Learn

(* The next instruction is one of the ways. *)
LEMMA WayOn ==
  ASSUME NEW w, NEW known, GoesOn(known, Instr)
  PROVE  \E to \in Ways(code, <<pc, w>>, known) :
            to[1] \in {pc + 1} \X {w, "no"} /\ to[2] = Learnt(known, Instr)
<1>1. <<pc, w>>[1] = pc /\ <<pc, w>>[2] = w
  OBVIOUS
<1> DEFINE phase == IF Instr.op \in Answers THEN "no" ELSE w
           to    == <<<<pc + 1, phase>>, Learnt(known, Instr)>>
<1>2. to \in Ways(code, <<pc, w>>, known)
  BY <1>1 DEF Ways, Instr
<1>3. to[1] \in {pc + 1} \X {w, "no"} /\ to[2] = Learnt(known, Instr)
  OBVIOUS
<1> QED
  BY <1>2, <1>3

(* So is the label of a jump. *)
LEMMA WayAway ==
  ASSUME NEW w, NEW known, GoesAway(known, Instr), NEW j, Labelled(code, Instr.l) = {j}
  PROVE  \E to \in Ways(code, <<pc, w>>, known) :
            to[1] \in {j} \X {w, "no"} /\ to[2] = known
<1>1. <<pc, w>>[1] = pc /\ <<pc, w>>[2] = w
  OBVIOUS
<1> DEFINE phase == IF Instr.op \in Answers THEN "no" ELSE w
           to    == <<<<j, phase>>, known>>
<1>2. to \in {<<<<m, phase>>, known>> : m \in Labelled(code, Instr.l)}
  OBVIOUS
<1>3. to \in Ways(code, <<pc, w>>, known)
  BY <1>1, <1>2 DEF Ways, Instr
<1>4. to[1] \in {j} \X {w, "no"} /\ to[2] = known
  OBVIOUS
<1> QED
  BY <1>3, <1>4

(* An instruction that only goes on, and does to the slots what is Learnt. *)
LEMMA WindsPast ==
  ASSUME Accounted, WindsDown, RunInv, WindInv, stage = "running", stage' = "running",
         UNCHANGED <<prog, code>>, idle' = idle + 1, pc' = pc + 1,
         Instr.op \notin {"jump", "return", "end", "ifnot"},
         \A known : Agrees(known, slots) => Agrees(Learnt(known, Instr), slots')
  PROVE  WindInv'
<1>1. ASSUME NEW known, NEW w, Agrees(known, slots)
      PROVE  \E to \in Ways(code, <<pc, w>>, known) :
                to[1] \in {pc'} \X {w, "no"} /\ Agrees(to[2], slots')
  <2>1. GoesOn(known, Instr)
    BY DEF GoesOn
  <2>2. Agrees(Learnt(known, Instr), slots')
    BY <1>1
  <2>3. PICK to \in Ways(code, <<pc, w>>, known) :
            to[1] \in {pc + 1} \X {w, "no"} /\ to[2] = Learnt(known, Instr)
    BY <2>1, WayOn
  <2> QED
    BY <2>2, <2>3
<1> QED
  BY <1>1, WindsOn

(* An instruction that stores a value, no or null if a call answers it.    *)
LEMMA WindsStore ==
  ASSUME Accounted, WindsDown, RunInv, WindInv, stage = "running", stage' = "running",
         UNCHANGED <<prog, code>>, idle' = idle + 1, pc' = pc + 1,
         Instr.op \in Stores, NEW v, Store(v),
         Instr.op \in {"null", "call", "maybe"} => v = Absent,
         Instr.op \in {"false", "test", "matches"} => v = Truth(FALSE),
         Instr.op = "move" => v = slots[Instr.s]
  PROVE  WindInv'
<1>1. /\ DOMAIN slots = 1..Size /\ Instr.d \in 1..Size
      /\ Instr.op = "move" => Instr.s # Instr.d
      /\ slots' = [slots EXCEPT ![Instr.d] = v]
  BY Running DEF Loaded, Store, May
<1>2. ASSUME NEW known, Agrees(known, slots) PROVE Agrees(Learnt(known, Instr), slots')
  <2>1. /\ Agrees(Without(known, Instr.d), slots') /\ Agrees(Learn(known, Instr.d, v), slots')
        /\ \A s : s # Instr.d /\ slots[s] = v =>
                Agrees(Without(known, Instr.d) \cup
                       {<<Instr.d, p[2]>> : p \in {q \in known : q[1] = s}}, slots')
    <3>1. LET new == [slots EXCEPT ![Instr.d] = v] IN
          /\ Agrees(Without(known, Instr.d), new)
          /\ Agrees(Learn(known, Instr.d, v), new)
          /\ \A s : s # Instr.d /\ slots[s] = v =>
                Agrees(Without(known, Instr.d) \cup
                       {<<Instr.d, p[2]>> : p \in {q \in known : q[1] = s}}, new)
      BY <1>1, <1>2, StoreAgrees
    <3> QED
      BY <1>1, <3>1
  <2>2. CASE Instr.op \in {"null", "call", "maybe"}
    BY <2>1, <2>2 DEF Learnt
  <2>3. CASE Instr.op \in {"false", "test", "matches"}
    BY <2>1, <2>3 DEF Learnt
  <2>4. CASE Instr.op = "move"
    <3>1. Learnt(known, Instr) = Without(known, Instr.d) \cup
                {<<Instr.d, p[2]>> : p \in {q \in known : q[1] = Instr.s}}
      BY <2>4 DEF Learnt
    <3> QED
      BY <1>1, <2>1, <2>4, <3>1
  <2>5. CASE Instr.op \in {"decl", "lit", "true", "mk", "new"}
    BY <2>1, <2>5 DEF Learnt
  <2> QED
    BY <2>2, <2>3, <2>4, <2>5 DEF Stores
<1>3. Instr.op \notin {"jump", "return", "end", "ifnot"}
  BY DEF Stores
<1> QED
  BY <1>2, <1>3, WindsPast

(* Values are moved. *)
LEMMA MoveWinds ==
  ASSUME Accounted, WindsDown, RunInv, WindInv, Move
  PROVE  WindInv'
<1>1. /\ stage = "running" /\ stage' = "running" /\ UNCHANGED <<prog, code>>
      /\ pc' = pc + 1 /\ idle' = idle + 1
      /\ Instr.op \in {"decl", "move", "lit", "null", "true", "false"}
  BY DEF Move, At, Advance, Tick
<1>2. PICK v : /\ Store(v)
               /\ Instr.op = "null" => v = Absent
               /\ Instr.op = "false" => v = Truth(FALSE)
               /\ Instr.op = "move" => v = slots[Instr.s]
  BY DEF Move
<1> QED
  BY <1>1, <1>2, WindsStore DEF Stores

(* A string or a pointer is made. *)
LEMMA NewObjectWinds ==
  ASSUME Accounted, WindsDown, RunInv, WindInv, NewObject
  PROVE  WindInv'
<1>1. /\ stage = "running" /\ stage' = "running" /\ UNCHANGED <<prog, code>>
      /\ pc' = pc + 1 /\ idle' = idle + 1 /\ Instr.op \in {"mk", "new"}
      /\ Store(Len(heap) + 1)
  BY DEF NewObject, At, Advance, Tick, Allocate
<1> QED
  BY <1>1, WindsStore DEF Stores

(* A call with an answer: no, or the count starts again.                   *)
LEMMA AnswerWinds ==
  ASSUME Accounted, WindsDown, RunInv, WindInv, stage = "running", stage' = "running",
         UNCHANGED <<prog, code>>, pc' = pc + 1, Instr.op \in Answers,
         NEW b \in BOOLEAN, Choose(b), NEW v \in Int, Store(v),
         ~b => v = IF Instr.op = "maybe" THEN Absent ELSE Truth(FALSE)
  PROVE  WindInv'
<1>1. CASE b
  <2>1. idle' = 0
    BY <1>1 DEF Choose
  <2> QED
    BY <2>1, WindsAgain
<1>2. CASE ~b
  <2>1. idle' = idle + 1
    BY <1>2 DEF Choose, Tick
  <2> QED
    BY <1>2, <2>1, WindsStore DEF Answers, Stores
<1> QED
  BY <1>1, <1>2

(* A call that returns a string or null. *)
LEMMA MaybeObjectWinds ==
  ASSUME Accounted, WindsDown, RunInv, WindInv, MaybeObject
  PROVE  WindInv'
<1>1. /\ stage = "running" /\ stage' = "running" /\ UNCHANGED <<prog, code>>
      /\ pc' = pc + 1 /\ Instr.op = "maybe"
  BY DEF MaybeObject, At, Advance
<1>2. Len(heap) + 1 \in Int /\ Absent \in Int
  BY <1>1, Running DEF Loaded, Absent
<1>3. PICK b \in BOOLEAN : Choose(b) /\ Store(IF b THEN Len(heap) + 1 ELSE Absent)
  BY DEF MaybeObject, Allocate
<1> QED
  BY <1>1, <1>2, <1>3, AnswerWinds DEF Answers

(* A call the caller can see. *)
LEMMA CallOutWinds ==
  ASSUME Accounted, WindsDown, RunInv, WindInv, CallOut
  PROVE  WindInv'
<1>1. /\ stage = "running" /\ stage' = "running" /\ UNCHANGED <<prog, code>>
      /\ pc' = pc + 1 /\ Instr.op \in {"call", "test"}
  BY DEF CallOut, At, Advance
<1>2. CASE Instr.op = "test"
  <2>1. PICK b \in BOOLEAN : Choose(b) /\ Store(Truth(b))
    BY <1>2 DEF CallOut
  <2>2. Truth(b) \in Int /\ (~b => Truth(b) = Truth(FALSE))
    BY DEF Truth
  <2> QED
    BY <1>1, <1>2, <2>1, <2>2, AnswerWinds DEF Answers
<1>3. CASE Instr.op = "call"
  <2>1. Store(Absent) /\ idle' = idle + 1
    BY <1>3 DEF CallOut, Tick
  <2> QED
    BY <1>1, <1>3, <2>1, WindsStore DEF Stores
<1> QED
  BY <1>1, <1>2, <1>3

(* An arm matches or not. *)
LEMMA MatchesWinds ==
  ASSUME Accounted, WindsDown, RunInv, WindInv, Matches
  PROVE  WindInv'
<1>1. /\ stage = "running" /\ stage' = "running" /\ UNCHANGED <<prog, code>>
      /\ pc' = pc + 1 /\ Instr.op = "matches"
  BY DEF Matches, At, Advance
<1>2. PICK b \in BOOLEAN : Choose(b) /\ Store(Truth(b))
  BY DEF Matches
<1>3. Truth(b) \in Int /\ (~b => Truth(b) = Truth(FALSE))
  BY DEF Truth
<1> QED
  BY <1>1, <1>2, <1>3, AnswerWinds DEF Answers

(* A string is counted: the slots stay. *)
LEMMA CountWinds ==
  ASSUME Accounted, WindsDown, RunInv, WindInv, Count
  PROVE  WindInv'
<1>1. /\ stage = "running" /\ stage' = "running" /\ UNCHANGED <<prog, code, slots>>
      /\ pc' = pc + 1 /\ idle' = idle + 1 /\ Instr.op \in {"retain", "release"}
  BY DEF Count, At, Advance, Tick
<1>2. \A known : Learnt(known, Instr) = known
  BY <1>1 DEF Learnt
<1>3. \A known : Agrees(known, slots) => Agrees(Learnt(known, Instr), slots')
  BY <1>1, <1>2
<1>4. Instr.op \notin {"jump", "return", "end", "ifnot"}
  BY <1>1
<1> QED
  BY <1>1, <1>3, <1>4, WindsPast

(* A pointer is dropped. *)
LEMMA DropObjectWinds ==
  ASSUME Accounted, WindsDown, RunInv, WindInv, DropObject
  PROVE  WindInv'
<1>1. /\ stage = "running" /\ stage' = "running" /\ UNCHANGED <<prog, code>>
      /\ pc' = pc + 1 /\ idle' = idle + 1 /\ Instr.op = "drop"
      /\ slots' = [slots EXCEPT ![Instr.s] = Dropped]
  BY DEF DropObject, At, Advance, Tick
<1>2. DOMAIN slots = 1..Size /\ Instr.s \in 1..Size
  BY <1>1, Running DEF Loaded
<1>3. ASSUME NEW known, Agrees(known, slots) PROVE Agrees(Learnt(known, Instr), slots')
  <2>1. Learnt(known, Instr) = Without(known, Instr.s)
    BY <1>1 DEF Learnt
  <2>2. Agrees(Without(known, Instr.s), [slots EXCEPT ![Instr.s] = Dropped])
    BY <1>2, <1>3, StoreAgrees
  <2> QED
    BY <1>1, <2>1, <2>2
<1> QED
  BY <1>1, <1>3, WindsPast

(* A jump is made or not, as what is known of its slot says.               *)
LEMMA BranchingWinds ==
  ASSUME Accounted, WindsDown, RunInv, WindInv, Branching
  PROVE  WindInv'
<1>1. /\ stage = "running" /\ stage' = "running" /\ UNCHANGED <<prog, code, slots>>
      /\ idle' = idle + 1 /\ Instr.op \in {"label", "jump", "ifnot", "ifsome"}
  BY DEF Branching, At, Tick
<1>2. \A known : Learnt(known, Instr) = known
  BY <1>1 DEF Learnt
<1>3. \A known, s, v : Agrees(known, slots) /\ <<s, v>> \in known => slots[s] = v
  BY DEF Agrees
<1>4. CASE Instr.op \in {"label", "ifsome"} /\ Advance
  <2>1. \A known : Agrees(known, slots) => Agrees(Learnt(known, Instr), slots')
    BY <1>1, <1>2
  <2>2. Instr.op \notin {"jump", "return", "end", "ifnot"} /\ pc' = pc + 1
    BY <1>4 DEF Advance
  <2> QED
    BY <1>1, <2>1, <2>2, WindsPast
<1>5. CASE Instr.op = "ifnot" /\ Advance /\ slots[Instr.s] # Truth(FALSE)
  <2>1. ASSUME NEW known, NEW w, Agrees(known, slots)
        PROVE  \E to \in Ways(code, <<pc, w>>, known) :
                  to[1] \in {pc'} \X {w, "no"} /\ Agrees(to[2], slots')
    <3>1. GoesOn(known, Instr)
      BY <1>3, <1>5, <2>1 DEF GoesOn
    <3>2. PICK to \in Ways(code, <<pc, w>>, known) :
              to[1] \in {pc + 1} \X {w, "no"} /\ to[2] = Learnt(known, Instr)
      BY <3>1, WayOn
    <3> QED
      BY <1>1, <1>2, <1>5, <2>1, <3>2 DEF Advance
  <2> QED
    BY <1>1, <2>1, WindsOn
<1>6. CASE Instr.op \in Jumps /\ Goto(Instr.l) /\ (Instr.op = "ifsome" => slots[Instr.s] # Absent)
  <2>1. PICK j \in DOMAIN code : Labelled(code, Instr.l) = {j}
    BY <1>1, <1>6, Running
  <2>2. pc' = j
    BY <1>6, <2>1, Away DEF Goto
  <2>3. ASSUME NEW known, NEW w, Agrees(known, slots)
        PROVE  \E to \in Ways(code, <<pc, w>>, known) :
                  to[1] \in {pc'} \X {w, "no"} /\ Agrees(to[2], slots')
    <3>1. GoesAway(known, Instr)
      BY <1>3, <1>6, <2>3 DEF GoesAway
    <3>2. PICK to \in Ways(code, <<pc, w>>, known) :
              to[1] \in {j} \X {w, "no"} /\ to[2] = known
      BY <2>1, <3>1, WayAway
    <3> QED
      BY <1>1, <2>2, <2>3, <3>2
  <2> QED
    BY <1>1, <2>3, WindsOn
<1>7. CASE Instr.op = "label"
  BY <1>4, <1>7 DEF Branching
<1>8. CASE Instr.op = "jump"
  BY <1>6, <1>8 DEF Branching, Jumps
<1>9. CASE Instr.op = "ifnot"
  BY <1>5, <1>6, <1>9 DEF Branching, Jumps
<1>10. CASE Instr.op = "ifsome"
  BY <1>4, <1>6, <1>10 DEF Branching, Jumps
<1> QED
  BY <1>1, <1>7, <1>8, <1>9, <1>10

(* A function begins at the first node, which knows nothing. *)
LEMMA CompileWinds ==
  ASSUME Accounted, WindsDown, RunInv, WindInv, Compile
  PROVE  WindInv'
<1>1. /\ stage = "source" /\ UNCHANGED <<prog, pc, idle>> /\ idle = 0 /\ pc = 1
      /\ code = << >> /\ \E family \in Programs : prog \in family
  BY DEF Compile, RunInv, WindInv
<1>2. Left' = Left
  BY <1>1 DEF Left
<1>3. CASE ~prog.accepted
  <2>1. stage' = "rejected" /\ UNCHANGED code /\ Len(code) = 0
    BY <1>1, <1>3 DEF Compile
  <2> QED
    BY <1>1, <2>1 DEF WindInv, NeverSpins
<1>4. CASE prog.accepted
  <2>1. stage' = "running" /\ code' = prog.c.code
    BY <1>4 DEF Compile
  <2>2. Winds(prog) /\ Accounts(prog)
    BY <1>1, <1>4 DEF WindsDown, Accounted
  <2>3. Len(code') \in Nat
    BY <2>1, <2>2 DEF Accounts, Shaped
  <2>4. /\ <<1, "none">> \in DOMAIN Left /\ Left[<<1, "none">>].known \subseteq {}
        /\ Left[<<1, "none">>].left \in 0..(2 * Len(code'))
    BY <2>1, <2>2 DEF Winds, Reached, Left
  <2>5. Agrees(Left[<<1, "none">>].known, slots')
    BY <2>4 DEF Agrees
  <2>6. idle' + Left[<<1, "none">>].left <= 2 * Len(code')
    BY <1>1, <2>3, <2>4
  <2>7. IsAt(<<pc, "none">>)'
    BY <1>1, <1>2, <2>4, <2>5, <2>6 DEF IsAt
  <2> QED
    BY <1>1, <2>1, <2>3, <2>7 DEF WindInv, NeverSpins
<1> QED
  BY <1>3, <1>4

(* No step breaks it. *)
LEMMA NextWinds ==
  ASSUME Accounted, WindsDown, RunInv, WindInv, [Next]_vars
  PROVE  WindInv'
<1>1. CASE Compile
  BY <1>1, CompileWinds
<1>2. CASE Move
  BY <1>2, MoveWinds
<1>3. CASE NewObject
  BY <1>3, NewObjectWinds
<1>4. CASE MaybeObject
  BY <1>4, MaybeObjectWinds
<1>5. CASE CallOut
  BY <1>5, CallOutWinds
<1>6. CASE Matches
  BY <1>6, MatchesWinds
<1>7. CASE Count
  BY <1>7, CountWinds
<1>8. CASE DropObject
  BY <1>8, DropObjectWinds
<1>9. CASE Branching
  BY <1>9, BranchingWinds
<1>10. CASE Leaving
  BY <1>10 DEF Leaving, WindInv, NeverSpins
<1>11. CASE UNCHANGED vars
  <2>1. UNCHANGED <<prog, stage, code, pc, slots, idle>>
    BY <1>11 DEF vars
  <2>2. \A w : IsAt(<<pc, w>>)' = IsAt(<<pc, w>>)
    BY <2>1 DEF IsAt, Left
  <2> QED
    BY <2>1, <2>2 DEF WindInv, NeverSpins
<1> QED
  BY <1>1, <1>2, <1>3, <1>4, <1>5, <1>6, <1>7, <1>8, <1>9, <1>10, <1>11 DEF Next, Finished

(* Code that winds down never runs on: after the last call that answers    *)
(* true or a value, however many there were, at most twice the length of   *)
(* the function is executed.                                               *)
THEOREM RunsWindDown ==
  ASSUME Accounted, WindsDown
  PROVE  Spec => []NeverSpins
<1>1. Init => WindInv
  BY DEF Init, WindInv, NeverSpins
<1>2. RunInv /\ RunInv' /\ WindInv /\ [Next]_vars => WindInv'
  BY NextWinds
<1>3. WindInv => NeverSpins
  BY DEF WindInv
<1> QED
  BY <1>1, <1>2, <1>3, RunsKeepAccount, PTL DEF Spec
=============================================================================
