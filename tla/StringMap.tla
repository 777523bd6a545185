----------------------------- MODULE StringMap -----------------------------
(***************************************************************************)
(* What the string maps of the standard library promise: a dictionary.     *)
(* Slots, hashes, tombstones and growth are invisible.  Operations are     *)
(* answered one after the other; an answer is tagged with its operation.   *)
(***************************************************************************)
EXTENDS FiniteSets

CONSTANTS Keys, Values, Null, Absent

VARIABLES open, dict, answer

mvars == <<open, dict, answer>>

Done == <<"done">>

Nobody == [k \in Keys |-> Absent]

Present == {k \in Keys : dict[k] # Absent}

Init == ~open /\ dict = Nobody /\ answer = Done

Create ==
    /\ ~open /\ open'
    /\ dict' = Nobody /\ answer' = Done

Free ==
    /\ open /\ ~open'
    /\ dict' = Nobody /\ answer' = Done

Put(k, v) ==
    /\ open /\ UNCHANGED open
    /\ dict' = [dict EXCEPT ![k] = v]
    /\ answer' = Done

\* Null is also a value: only Has tells a null value from an absent key.
Get(k) ==
    /\ open /\ UNCHANGED <<open, dict>>
    /\ answer' = <<"get", IF k \in Present THEN dict[k] ELSE Null>>

Has(k) ==
    /\ open /\ UNCHANGED <<open, dict>>
    /\ answer' = <<"has", k \in Present>>

Remove(k) ==
    /\ open /\ UNCHANGED open
    /\ dict' = [dict EXCEPT ![k] = Absent]
    /\ answer' = <<"remove", k \in Present>>

Size ==
    /\ open /\ UNCHANGED <<open, dict>>
    /\ answer' = <<"size", Cardinality(Present)>>

ListKeys ==
    /\ open /\ UNCHANGED <<open, dict>>
    /\ answer' = <<"keys", Present>>

Clear ==
    /\ open /\ UNCHANGED open
    /\ dict' = Nobody /\ answer' = Done

Next ==
    \/ Create \/ Free \/ Size \/ ListKeys \/ Clear
    \/ \E k \in Keys :
        \/ Get(k) \/ Has(k) \/ Remove(k)
        \/ \E v \in Values : Put(k, v)

Spec == Init /\ [][Next]_mvars
=============================================================================
