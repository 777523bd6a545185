------------------------------ MODULE HashMap ------------------------------
(***************************************************************************)
(* StringPtrMap of the standard library: open addressing with linear       *)
(* probing, a tombstone for every removed key, and growth by moving every  *)
(* entry to a table of twice the size.  StringIntMap, and the copies of    *)
(* both in the L0 library, differ in their values only.                    *)
(*                                                                         *)
(* A call is one action, but for spm_put: the move of each slot is a step  *)
(* of its own ("moving"), then the entry is stored ("storing").  A probe   *)
(* that ends nowhere (the assertion of _spm_find_insert, the loop of       *)
(* _spm_rehash) is a step that cannot be taken; RoomIsLeft says that this  *)
(* does not happen.  The references that the map holds on its keys are     *)
(* counted in held.  Creation out of memory panics and is left out, and    *)
(* so are the accessors of single slots.                                   *)
(***************************************************************************)
EXTENDS Integers, FiniteSets

CONSTANTS
    Keys,           \* strings, by their contents
    NoKey,          \* what a zeroed slot holds for a key
    Values,         \* pointers of the caller, null among them
    Null,
    Absent,         \* no value: an absent key in the dictionary
    Hash,           \* rt_hash_string: any int, negative ones too
    Capacities,     \* the capacities of new maps (spm_create_with_capacity)
    MaxCapacity     \* bound: a larger table is never asked for

ASSUME HashMapAssumption ==
    /\ NoKey \notin Keys
    /\ Null \in Values /\ Absent \notin Values
    /\ Hash \in [Keys -> Int]
    /\ Capacities \subseteq Nat \ {0}
    /\ MaxCapacity \in Nat

VARIABLES
    stage,      \* "none": no map; "idle": between calls; "moving", "storing": in spm_put
    capacity, count, tombs,
    tab,        \* the four arrays: one entry for each slot
    held,       \* for each key, the references that the map holds
    put,        \* the arguments of the spm_put under way
    old, next,  \* the arrays of before and the slot to move, in _spm_rehash
    answer      \* of the last call

vars == <<stage, capacity, count, tombs, tab, held, put, old, next, answer>>

States == {"empty", "occupied", "tombstone"}
Entries == [state : States, hash : Int, key : Keys \cup {NoKey}, value : Values]

Zeroed == [state |-> "empty", hash |-> 0, key |-> NoKey, value |-> Null]
Blank(n) == [i \in 0..(n - 1) |-> Zeroed]

NoPut == [key |-> NoKey, value |-> Null]
Done == <<"done">>

Slots == 0..(capacity - 1)
Empty == {i \in Slots : tab[i].state = "empty"}
Occupied == {i \in Slots : tab[i].state = "occupied"}
Tombstones == {i \in Slots : tab[i].state = "tombstone"}

\* h % cap of C takes the sign of h.
CRem(h, c) == IF h >= 0 THEN h % c ELSE -((-h) % c)

Slot(h, cap) == LET r == CRem(h, cap) IN IF r < 0 THEN r + cap ELSE r

\* The slots that a probe for h visits before it visits p.
Before(h, p, cap) ==
    LET s == Slot(h, cap)
    IN  IF s <= p THEN s..(p - 1) ELSE (s..(cap - 1)) \cup (0..(p - 1))

\* The slot where a probe for h that stops in S stops, if any.
FirstFrom(h, S) == {p \in S : Before(h, p, capacity) \cap S = {}}

\* The slot of k, or nothing: the probe stops at an empty slot as well.
At(k) == {p \in Occupied : tab[p].hash = Hash[k] /\ tab[p].key = k}
Find(k) == FirstFrom(Hash[k], Empty \cup At(k)) \cap At(k)
FindInsert(h) == FirstFrom(h, Slots \ Occupied)

NeedsGrowByCount == count * 4 > capacity * 3
NeedsGrow == (count + tombs) * 4 > capacity * 3

\* What the map holds for k in the slots S of the table t.
HeldIn(t, S, k) == Cardinality({p \in S : t[p].key = k})

-----------------------------------------------------------------------------
Init ==
    /\ stage = "none"
    /\ capacity = 0 /\ count = 0 /\ tombs = 0
    /\ tab = Blank(0)
    /\ held = [k \in Keys |-> 0]
    /\ put = NoPut
    /\ old = Blank(0) /\ next = 0
    /\ answer = Done

Create ==
    /\ stage = "none" /\ stage' = "idle"
    /\ \E c \in Capacities : capacity' = c /\ tab' = Blank(c)
    /\ count' = 0 /\ tombs' = 0
    /\ answer' = Done
    /\ UNCHANGED <<held, put, old, next>>

\* spm_put that stores without growth, and one that has to grow first.
PutFits(k, v) ==
    /\ stage = "idle" /\ ~NeedsGrow
    /\ stage' = "storing"
    /\ put' = [key |-> k, value |-> v]
    /\ UNCHANGED <<capacity, count, tombs, tab, held, old, next, answer>>

PutGrows(k, v) ==
    /\ stage = "idle" /\ NeedsGrow
    /\ 2 * capacity <= MaxCapacity
    /\ stage' = "moving"
    /\ put' = [key |-> k, value |-> v]
    /\ old' = tab /\ next' = 0
    /\ capacity' = 2 * capacity /\ tab' = Blank(2 * capacity)
    /\ count' = 0 /\ tombs' = 0
    /\ UNCHANGED <<held, answer>>

\* An entry moves with its reference: to the first empty slot of its probe.
MoveEntry ==
    /\ stage = "moving" /\ next \in DOMAIN old
    /\ old[next].state = "occupied"
    /\ \E p \in FirstFrom(old[next].hash, Empty) : tab' = [tab EXCEPT ![p] = old[next]]
    /\ count' = count + 1
    /\ next' = next + 1
    /\ UNCHANGED <<stage, capacity, tombs, held, put, old, answer>>

SkipSlot ==
    /\ stage = "moving" /\ next \in DOMAIN old
    /\ old[next].state # "occupied"
    /\ next' = next + 1
    /\ UNCHANGED <<stage, capacity, count, tombs, tab, held, put, old, answer>>

EndRehash ==
    /\ stage = "moving" /\ next \notin DOMAIN old
    /\ stage' = "storing"
    /\ old' = Blank(0) /\ next' = 0
    /\ UNCHANGED <<capacity, count, tombs, tab, held, put, answer>>

\* The end of spm_put for a key that the map has, and for a new one.
Stored ==
    /\ stage' = "idle"
    /\ put' = NoPut
    /\ answer' = Done
    /\ UNCHANGED <<capacity, old, next>>

Update ==
    /\ stage = "storing"
    /\ \E p \in Find(put.key) : tab' = [tab EXCEPT ![p].value = put.value]
    /\ UNCHANGED <<count, tombs, held>>
    /\ Stored

\* The assignment of the key releases what the slot held for a key before.
Insert ==
    /\ stage = "storing" /\ Find(put.key) = {}
    /\ \E p \in FindInsert(Hash[put.key]) :
        /\ tab' = [tab EXCEPT ![p] = [state |-> "occupied", hash |-> Hash[put.key],
                                      key |-> put.key, value |-> put.value]]
        /\ tombs' = IF tab[p].state = "tombstone" THEN tombs - 1 ELSE tombs
        /\ held' = [k \in Keys |-> held[k] - HeldIn(tab, {p}, k) + (IF k = put.key THEN 1 ELSE 0)]
    /\ count' = count + 1
    /\ Stored

\* spm_get, spm_has and spm_remove do not probe an empty map.
Lookup(k) == IF count = 0 THEN {} ELSE Find(k)

Get(k) ==
    /\ stage = "idle"
    /\ answer' = <<"get", IF Lookup(k) = {} THEN Null ELSE tab[CHOOSE p \in Lookup(k) : TRUE].value>>
    /\ UNCHANGED <<stage, capacity, count, tombs, tab, held, put, old, next>>

Has(k) ==
    /\ stage = "idle"
    /\ answer' = <<"has", Lookup(k) # {}>>
    /\ UNCHANGED <<stage, capacity, count, tombs, tab, held, put, old, next>>

RemoveAbsent(k) ==
    /\ stage = "idle" /\ Lookup(k) = {}
    /\ answer' = <<"remove", FALSE>>
    /\ UNCHANGED <<stage, capacity, count, tombs, tab, held, put, old, next>>

\* The hash and the value stay behind in the tombstone, the key does not.
BuriedAsEmpty(e) == [e EXCEPT !.key = NoKey, !.state = "empty"]
BuriedWithKey(e) == [e EXCEPT !.state = "tombstone"]
Buried(e) == [e EXCEPT !.key = NoKey, !.state = "tombstone"]

Remove(k) ==
    /\ stage = "idle"
    /\ \E p \in Lookup(k) :
        /\ tab' = [tab EXCEPT ![p] = Buried(tab[p])]
        /\ held' = [j \in Keys |-> held[j] - HeldIn(tab, {p}, j)]
    /\ count' = count - 1 /\ tombs' = tombs + 1
    /\ answer' = <<"remove", TRUE>>
    /\ UNCHANGED <<stage, capacity, put, old, next>>

Size ==
    /\ stage = "idle"
    /\ answer' = <<"size", count>>
    /\ UNCHANGED <<stage, capacity, count, tombs, tab, held, put, old, next>>

\* The vector of the keys, whose order is that of the slots, as a set.
ListKeys ==
    /\ stage = "idle"
    /\ answer' = <<"keys", {tab[p].key : p \in Occupied}>>
    /\ UNCHANGED <<stage, capacity, count, tombs, tab, held, put, old, next>>

ReleaseAll == held' = [k \in Keys |-> held[k] - HeldIn(tab, Occupied, k)]

Clear ==
    /\ stage = "idle"
    /\ ReleaseAll
    /\ tab' = Blank(capacity) /\ count' = 0 /\ tombs' = 0
    /\ answer' = Done
    /\ UNCHANGED <<stage, capacity, put, old, next>>

Free ==
    /\ stage = "idle" /\ stage' = "none"
    /\ ReleaseAll
    /\ capacity' = 0 /\ tab' = Blank(0) /\ count' = 0 /\ tombs' = 0
    /\ answer' = Done
    /\ UNCHANGED <<put, old, next>>

Next ==
    \/ Create \/ Free \/ Clear \/ Size \/ ListKeys
    \/ MoveEntry \/ SkipSlot \/ EndRehash \/ Update \/ Insert
    \/ \E k \in Keys :
        \/ Get(k) \/ Has(k) \/ Remove(k) \/ RemoveAbsent(k)
        \/ \E v \in Values : PutFits(k, v) \/ PutGrows(k, v)

Spec == Init /\ [][Next]_vars

-----------------------------------------------------------------------------
TypeOK ==
    /\ stage \in {"none", "idle", "moving", "storing"}
    /\ capacity \in Nat /\ count \in Nat /\ tombs \in Nat /\ next \in Nat
    /\ (capacity = 0) <=> (stage = "none")
    /\ tab \in [Slots -> Entries]
    /\ held \in [Keys -> Int]
    /\ put \in [key : Keys \cup {NoKey}, value : Values]
    /\ (put.key \in Keys) <=> (stage \in {"moving", "storing"})

\* Every entry can be found: its probe meets no empty slot before it.
Reachable ==
    \A p \in Occupied :
        /\ tab[p].key \in Keys
        /\ tab[p].hash = Hash[tab[p].key]
        /\ Before(tab[p].hash, p, capacity) \cap Empty = {}

OneSlotForEachKey ==
    \A p, q \in Occupied : tab[p].key = tab[q].key => p = q

\* A slot that is not occupied holds no key that a later store would release.
KeysAreZapped == \A p \in Slots \ Occupied : tab[p].key = NoKey

Counted == count = Cardinality(Occupied) /\ tombs = Cardinality(Tombstones)

\* The entries of the old table that are still to be moved.
Unmoved == {i \in DOMAIN old : i >= next /\ old[i].state = "occupied"}

\* The old table has half the slots, the new one has no tombstone, and what is
\* still to be moved is in order and was not moved before.
MoveIsSound ==
    IF stage = "moving"
    THEN /\ \E c \in 1..capacity : /\ capacity = 2 * c /\ DOMAIN old = 0..(c - 1)
                           /\ next <= c /\ count <= next
         /\ old \in [DOMAIN old -> Entries]
         /\ tombs = 0
         /\ \A i \in Unmoved :
             /\ old[i].key \in Keys /\ old[i].hash = Hash[old[i].key]
             /\ \A j \in Unmoved : old[i].key = old[j].key => i = j
             /\ \A p \in Occupied : tab[p].key # old[i].key
    ELSE old = Blank(0) /\ next = 0

\* What is stored goes to a table that is three quarters full at most, so that
\* the probe for a free slot ends.
LoadIsBounded == stage = "storing" => (count + tombs) * 4 <= capacity * 3

RoomIsLeft ==
    /\ stage = "storing" => FindInsert(Hash[put.key]) # {}
    /\ stage = "moving" => Empty # {}

\* Any sequence of insertions, removals, growth and clearing leaves a table in
\* which every key is found where its probe leads, once, and in which the next
\* probe ends: spm_put ... spm_free of hashmap.l1.
TableIsSound ==
    /\ TypeOK /\ Reachable /\ OneSlotForEachKey /\ KeysAreZapped
    /\ Counted /\ MoveIsSound /\ LoadIsBounded /\ RoomIsLeft

\* What the map holds, in both tables.
Held == {tab[p] : p \in Occupied} \cup {old[i] : i \in Unmoved}

\* The map holds one reference on each of its keys and none on any other: a
\* key is not released twice, not lost when its entry moves and not kept after
\* its removal (_spm_set_key_retain, _spm_release_key, _spm_rehash).
KeysAreHeldOnce ==
    \A k \in Keys : held[k] = IF \E e \in Held : e.key = k THEN 1 ELSE 0

Contents ==
    [k \in Keys |-> IF \E e \in Held : e.key = k
                    THEN (CHOOSE e \in Held : e.key = k).value
                    ELSE Absent]

Dictionary == INSTANCE StringMap WITH open <- stage # "none", dict <- Contents

\* For its callers the map is a dictionary: every call answers and changes what
\* that of StringMap does, and growth is invisible.
ImplementsStringMap == Dictionary!Spec
=============================================================================
