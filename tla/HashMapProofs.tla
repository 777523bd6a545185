--------------------------- MODULE HashMapProofs ---------------------------
(***************************************************************************)
(* For any keys, values and hashes: the table stays sound, the map holds   *)
(* one reference on each of its keys, and it is a dictionary.              *)
(* TableIsSound is inductive without RoomIsLeft, which follows.  Its heart is Reachable: no     *)
(* slot before an entry on its probe is empty.  Removal keeps it because   *)
(* a tombstone is not empty, growth because every entry is placed anew.    *)
(***************************************************************************)
EXTENDS HashMap, FiniteSetTheorems, WellFoundedInduction, TLAPS

(* TableIsSound without what follows from the rest.                        *)
TableInv ==
    /\ TypeOK /\ Reachable /\ OneSlotForEachKey /\ KeysAreZapped
    /\ Counted /\ MoveIsSound /\ LoadIsBounded

-----------------------------------------------------------------------------
(* Probes.                                                                 *)

(* A probe starts at a slot, whatever the sign of the hash (_hm_slot).     *)
LEMMA SlotIsASlot ==
  ASSUME capacity \in Nat, capacity # 0, NEW h \in Int
  PROVE  Slot(h, capacity) \in Slots
<1> DEFINE r == CRem(h, capacity)
<1>1. CASE h >= 0
  BY <1>1 DEF Slot, CRem, Slots
<1>2. CASE ~(h >= 0)
  <2>1. -h \in Nat /\ (-h) % capacity \in 0..(capacity - 1)
    BY <1>2
  <2> QED
    BY <1>2, <2>1 DEF Slot, CRem, Slots
<1> QED
  BY <1>1, <1>2

(* A set of natural numbers that is not empty has a least member. *)
LEMMA LeastOf ==
  ASSUME NEW S \in SUBSET Nat, S # {}
  PROVE  \E m \in S : \A k \in S : m <= k
<1> DEFINE R == {ss \in Nat \X Nat : ss[1] < ss[2]}
<1>1. IsWellFoundedOn(R, Nat)
  BY NatLessThanWellFounded DEF OpToRel
<1>2. \A x, y \in Nat : <<y, x>> \in R <=> y < x
  OBVIOUS
<1> HIDE DEF R
<1>3. PICK m \in S : \A k \in S : <<k, m>> \notin R
  BY <1>1, WFMin
<1>4. ASSUME NEW k \in S PROVE m <= k
  <2>1. m \in Nat /\ k \in Nat /\ ~(k < m)
    BY <1>2, <1>3
  <2> QED
    BY <2>1
<1> QED
  BY <1>4

(* A probe reaches every slot: one that may stop somewhere does. *)
LEMMA ProbeEnds ==
  ASSUME capacity \in Nat, NEW h \in Int, NEW S \in SUBSET Slots, S # {}
  PROVE  FirstFrom(h, S) # {}
<1> DEFINE s == Slot(h, capacity)
           Far(p) == IF s <= p THEN p - s ELSE p - s + capacity
           D == {Far(p) : p \in S}
<1>0. capacity # 0
  <2>1. PICK p \in S : p \in 0..(capacity - 1)
    BY DEF Slots
  <2> QED
    BY <2>1
<1>1. s \in 0..(capacity - 1)
  BY <1>0, SlotIsASlot DEF Slots
<1>2. \A p \in S : p \in 0..(capacity - 1)
  BY DEF Slots
<1> HIDE DEF s
<1>3. \A p \in S : Far(p) \in Nat
  BY <1>1, <1>2
<1>4. PICK m \in D : \A k \in D : m <= k
  <2>1. D \in SUBSET Nat /\ D # {}
    BY <1>3
  <2> HIDE DEF D
  <2> QED
    BY <2>1, LeastOf
<1>5. PICK p \in S : m = Far(p)
  OBVIOUS
<1>6. \A q \in S : Far(p) <= Far(q)
  BY <1>4, <1>5
<1>7. ASSUME NEW q \in S, q \in Before(h, p, capacity) PROVE FALSE
  BY <1>1, <1>2, <1>6, <1>7 DEF Before, s
<1>8. Before(h, p, capacity) \cap S = {}
  BY <1>7
<1> QED
  BY <1>8 DEF FirstFrom, s

-----------------------------------------------------------------------------
(* The slots of a table and their numbers.                                 *)

(* Every slot is in one of three states. *)
LEMMA SlotsAreSplit ==
  ASSUME tab \in [Slots -> Entries]
  PROVE  /\ Slots = Empty \cup Occupied \cup Tombstones
         /\ Occupied \cap Tombstones = {}
         /\ Occupied \cap Empty = {}
         /\ Empty \cap Tombstones = {}
BY DEF Slots, Entries, States, Empty, Occupied, Tombstones

(* Slots are finitely many. *)
LEMMA SlotsAreFinite ==
  ASSUME capacity \in Nat
  PROVE  /\ IsFiniteSet(Slots) /\ Cardinality(Slots) = capacity
         /\ IsFiniteSet(Occupied) /\ IsFiniteSet(Tombstones)
         /\ Cardinality(Occupied) \in Nat /\ Cardinality(Tombstones) \in Nat
<1>1. IsFiniteSet(Slots) /\ Cardinality(Slots) = capacity
  BY FS_Interval DEF Slots
<1>2. Occupied \in SUBSET Slots /\ Tombstones \in SUBSET Slots
  BY DEF Occupied, Tombstones
<1>3. IsFiniteSet(Occupied) /\ IsFiniteSet(Tombstones)
  BY <1>1, <1>2, FS_Subset
<1> QED
  BY <1>1, <1>3, FS_CardinalityType

(* A table that its counters do not fill has an empty slot. *)
LEMMA SomeSlotIsEmpty ==
  ASSUME capacity \in Nat, tab \in [Slots -> Entries], Counted, count + tombs < capacity
  PROVE  Empty # {}
<1>1. SUFFICES ASSUME Empty = {} PROVE FALSE
  OBVIOUS
<1>2. Slots = Occupied \cup Tombstones /\ Occupied \cap Tombstones = {}
  BY <1>1, SlotsAreSplit
<1>3. Cardinality(Occupied \cup Tombstones)
        = Cardinality(Occupied) + Cardinality(Tombstones) - Cardinality(Occupied \cap Tombstones)
  BY SlotsAreFinite, FS_Union
<1>4. Cardinality(Occupied \cap Tombstones) = 0
  BY <1>2, FS_EmptySet
<1> QED
  BY <1>2, <1>3, <1>4, SlotsAreFinite DEF Counted

(* A blank table. *)
LEMMA BlankTable ==
  ASSUME NEW n \in Nat
  PROVE  /\ Blank(n) \in [0..(n - 1) -> Entries]
         /\ \A i \in 0..(n - 1) : Blank(n)[i] = Zeroed
         /\ DOMAIN Blank(n) = 0..(n - 1)
<1>1. Zeroed \in Entries
  BY HashMapAssumption DEF Zeroed, Entries, States
<1> QED
  BY <1>1 DEF Blank

(* No slot of a blank table is anything but empty. *)
LEMMA BlankIsEmpty ==
  ASSUME capacity \in Nat, tab = Blank(capacity)
  PROVE  Occupied = {} /\ Tombstones = {} /\ Empty = Slots
<1>1. \A i \in Slots : tab[i] = Zeroed
  BY BlankTable DEF Slots
<1>2. Zeroed.state = "empty"
  BY DEF Zeroed
<1> QED
  BY <1>1, <1>2 DEF Occupied, Tombstones, Empty

(* Where the table is sound, the probe for a key ends at its only slot. *)
LEMMA FindIsExact ==
  ASSUME Reachable, OneSlotForEachKey, HashMapAssumption, NEW k \in Keys
  PROVE  Find(k) = {p \in Occupied : tab[p].key = k}
<1>1. At(k) = {p \in Occupied : tab[p].key = k}
  BY DEF At, Reachable
<1>2. ASSUME NEW p \in At(k) PROVE Before(Hash[k], p, capacity) \cap (Empty \cup At(k)) = {}
  <2>1. p \in Occupied /\ tab[p].hash = Hash[k] /\ tab[p].key = k
    BY <1>2 DEF At
  <2>2. Before(Hash[k], p, capacity) \cap Empty = {}
    BY <2>1 DEF Reachable
  <2>3. \A q \in At(k) : q = p
    BY <1>1, <2>1 DEF OneSlotForEachKey
  <2>4. p \notin Before(Hash[k], p, capacity)
    BY <2>1 DEF Before, Occupied, Slots, Slot, CRem
  <2> QED
    BY <2>2, <2>3, <2>4
<1> QED
  BY <1>1, <1>2 DEF Find, FirstFrom

-----------------------------------------------------------------------------
(* The table.                                                              *)

(* A new map, and a map that is not there, are sound. *)
LEMMA BlankIsSound ==
  capacity \in Nat /\ tab = Blank(capacity) /\ count = 0 /\ tombs = 0
    => /\ tab \in [Slots -> Entries]
       /\ Reachable /\ OneSlotForEachKey /\ KeysAreZapped /\ Counted
       /\ Occupied = {}
<1> SUFFICES ASSUME capacity \in Nat, tab = Blank(capacity), count = 0, tombs = 0
             PROVE  /\ tab \in [Slots -> Entries]
                    /\ Reachable /\ OneSlotForEachKey /\ KeysAreZapped /\ Counted
                    /\ Occupied = {}
  OBVIOUS
<1>1. Occupied = {} /\ Tombstones = {}
  BY BlankIsEmpty
<1>2. tab \in [Slots -> Entries] /\ \A i \in Slots : tab[i] = Zeroed
  BY BlankTable DEF Slots
<1>3. Reachable /\ OneSlotForEachKey
  BY <1>1 DEF Reachable, OneSlotForEachKey
<1>4. KeysAreZapped
  BY <1>2 DEF KeysAreZapped, Zeroed
<1>5. Counted
  BY <1>1, FS_EmptySet DEF Counted
<1> QED
  BY <1>1, <1>2, <1>3, <1>4, <1>5

(* An entry that is placed where the probe for its key leads. *)
LEMMA PlacedIsSound ==
  ASSUME capacity \in Nat, UNCHANGED capacity, tab \in [Slots -> Entries],
         Reachable, OneSlotForEachKey, KeysAreZapped, HashMapAssumption,
         NEW p \in Slots \ Occupied, NEW e \in Entries, tab' = [tab EXCEPT ![p] = e],
         e.state = "occupied", e.key \in Keys, e.hash = Hash[e.key],
         Before(e.hash, p, capacity) \cap Empty = {},
         \A q \in Occupied : tab[q].key # e.key
  PROVE  /\ (tab \in [Slots -> Entries])'
         /\ Reachable' /\ OneSlotForEachKey' /\ KeysAreZapped'
         /\ Occupied' = Occupied \cup {p}
         /\ Empty' = Empty \ {p}
         /\ Tombstones' = Tombstones \ {p}
<1>1. Slots' = Slots
  BY DEF Slots
<1>2. (tab \in [Slots -> Entries])'
  BY <1>1
<1>3. tab'[p] = e /\ \A q \in Slots : q # p => tab'[q] = tab[q]
  OBVIOUS
<1>4. Occupied' = Occupied \cup {p} /\ Empty' = Empty \ {p} /\ Tombstones' = Tombstones \ {p}
  BY <1>1, <1>3 DEF Occupied, Empty, Tombstones
<1>5. ASSUME NEW q \in Occupied'
      PROVE  /\ tab'[q].key \in Keys /\ tab'[q].hash = Hash[tab'[q].key]
             /\ Before(tab'[q].hash, q, capacity) \cap Empty = {}
  <2>1. CASE q = p
    BY <1>3, <2>1
  <2>2. CASE q # p
    <3>1. q \in Occupied /\ tab'[q] = tab[q]
      BY <1>3, <1>4, <2>2 DEF Occupied
    <3> QED
      BY <3>1 DEF Reachable
  <2> QED
    BY <2>1, <2>2
<1>6. Reachable'
  <2>1. ASSUME NEW q \in Occupied'
        PROVE  /\ tab'[q].key \in Keys /\ tab'[q].hash = Hash[tab'[q].key]
               /\ Before(tab'[q].hash, q, capacity') \cap Empty' = {}
    BY <1>4, <1>5
  <2> QED
    BY <2>1 DEF Reachable
<1>7. OneSlotForEachKey'
  <2>1. ASSUME NEW q \in Occupied', NEW r \in Occupied', tab'[q].key = tab'[r].key PROVE q = r
    <3>1. CASE q # p /\ r # p
      <4>1. q \in Occupied /\ tab'[q] = tab[q] /\ r \in Occupied /\ tab'[r] = tab[r]
        BY <1>3, <1>4, <3>1 DEF Occupied
      <4> QED
        BY <2>1, <4>1 DEF OneSlotForEachKey
    <3>2. CASE q = p /\ r # p
      <4>1. r \in Occupied /\ tab'[r] = tab[r]
        BY <1>3, <1>4, <3>2 DEF Occupied
      <4> QED
        BY <1>3, <2>1, <3>2, <4>1
    <3>3. CASE q # p /\ r = p
      <4>1. q \in Occupied /\ tab'[q] = tab[q]
        BY <1>3, <1>4, <3>3 DEF Occupied
      <4> QED
        BY <1>3, <2>1, <3>3, <4>1
    <3> QED
      BY <3>1, <3>2, <3>3
  <2> QED
    BY <2>1 DEF OneSlotForEachKey
<1>8. KeysAreZapped'
  BY <1>1, <1>3, <1>4 DEF KeysAreZapped
<1> QED
  BY <1>2, <1>4, <1>6, <1>7, <1>8

(* An entry whose value changes. *)
LEMMA UpdatedIsSound ==
  ASSUME TableInv, HashMapAssumption, Update
  PROVE  /\ (tab \in [Slots -> Entries])'
         /\ Reachable' /\ OneSlotForEachKey' /\ KeysAreZapped' /\ Counted'
<1>1. PICK p \in Find(put.key) : tab' = [tab EXCEPT ![p].value = put.value]
  BY DEF Update
<1>2. p \in Occupied /\ p \in Slots
  BY DEF Find, At, Occupied
<1>3. Slots' = Slots /\ UNCHANGED <<capacity, count, tombs>>
  BY DEF Update, Stored, Slots
<1>4. tab \in [Slots -> Entries] /\ put.value \in Values
  BY DEF TableInv, TypeOK
<1>5. ASSUME NEW q \in Slots
      PROVE  /\ tab'[q] \in Entries
             /\ tab'[q].state = tab[q].state /\ tab'[q].hash = tab[q].hash /\ tab'[q].key = tab[q].key
  <2>1. tab[q] \in Entries /\ tab[p] \in Entries
    BY <1>2, <1>4
  <2>2. CASE q = p
    <3>1. tab'[q] = [tab[p] EXCEPT !.value = put.value]
      BY <1>1, <1>2, <1>4, <2>2
    <3> QED
      BY <1>4, <2>1, <2>2, <3>1 DEF Entries
  <2>3. CASE q # p
    BY <1>1, <1>2, <1>4, <2>1, <2>3
  <2> QED
    BY <2>2, <2>3
<1>6. (tab \in [Slots -> Entries])'
  <2>1. tab' = [q \in Slots |-> tab'[q]]
    BY <1>1, <1>4
  <2> QED
    BY <1>3, <1>5, <2>1
<1>7. Occupied' = Occupied /\ Empty' = Empty /\ Tombstones' = Tombstones
  BY <1>3, <1>5 DEF Occupied, Empty, Tombstones
<1>8. Reachable'
  <2>1. ASSUME NEW q \in Occupied'
        PROVE  /\ tab'[q].key \in Keys /\ tab'[q].hash = Hash[tab'[q].key]
               /\ Before(tab'[q].hash, q, capacity') \cap Empty' = {}
    <3>1. q \in Occupied /\ tab'[q].hash = tab[q].hash /\ tab'[q].key = tab[q].key
      BY <1>5, <1>7 DEF Occupied
    <3> QED
      BY <1>3, <1>7, <3>1 DEF TableInv, Reachable
  <2> QED
    BY <2>1 DEF Reachable
<1>9. OneSlotForEachKey' /\ KeysAreZapped'
  BY <1>3, <1>5, <1>7 DEF TableInv, OneSlotForEachKey, KeysAreZapped, Occupied
<1>10. Counted'
  BY <1>3, <1>7 DEF TableInv, Counted
<1> QED
  BY <1>6, <1>8, <1>9, <1>10

(* A tombstone is not empty: the probes of the other entries go on. *)
LEMMA RemovedIsSound ==
  ASSUME TableInv, HashMapAssumption, NEW k \in Keys, Remove(k)
  PROVE  /\ (tab \in [Slots -> Entries])'
         /\ Reachable' /\ OneSlotForEachKey' /\ KeysAreZapped' /\ Counted'
         /\ count \in Nat \ {0}
<1>1. PICK p \in Lookup(k) : tab' = [tab EXCEPT ![p] = Buried(tab[p])]
  BY DEF Remove
<1>2. p \in Occupied /\ p \in Slots
  BY DEF Lookup, Find, At, Occupied
<1>3. Slots' = Slots /\ UNCHANGED capacity /\ count' = count - 1 /\ tombs' = tombs + 1
  BY DEF Remove, Slots
<1>4. tab \in [Slots -> Entries] /\ capacity \in Nat
  BY DEF TableInv, TypeOK
<1>5. /\ tab'[p] \in Entries /\ tab'[p].state = "tombstone" /\ tab'[p].key = NoKey
      /\ \A q \in Slots : q # p => tab'[q] = tab[q]
  <2>1. tab[p] \in Entries
    BY <1>2, <1>4
  <2>2. tab'[p] = Buried(tab[p])
    BY <1>1, <1>2, <1>4
  <2>3. tab'[p] = [state |-> "tombstone", hash |-> tab[p].hash, key |-> NoKey, value |-> tab[p].value]
    BY <2>1, <2>2 DEF Entries, Buried
  <2>4. \A q \in Slots : q # p => tab'[q] = tab[q]
    BY <1>1, <1>2, <1>4
  <2> QED
    BY <2>1, <2>3, <2>4 DEF Entries, States
<1>6. (tab \in [Slots -> Entries])'
  <2>1. tab' = [q \in Slots |-> tab'[q]]
    BY <1>1, <1>4
  <2>2. \A q \in Slots : tab'[q] \in Entries
    BY <1>4, <1>5
  <2> QED
    BY <1>3, <2>1, <2>2
<1>7. Occupied' = Occupied \ {p} /\ Empty' = Empty /\ Tombstones' = Tombstones \cup {p}
  BY <1>2, <1>3, <1>5 DEF Occupied, Empty, Tombstones
<1>8. \A q \in Occupied' : q \in Occupied /\ tab'[q] = tab[q]
  BY <1>5, <1>7 DEF Occupied
<1>9. Reachable' /\ OneSlotForEachKey'
  BY <1>3, <1>7, <1>8 DEF TableInv, Reachable, OneSlotForEachKey
<1>10. KeysAreZapped'
  BY <1>3, <1>5, <1>7 DEF TableInv, KeysAreZapped
<1>11. /\ count = Cardinality(Occupied) /\ tombs = Cardinality(Tombstones)
       /\ count \in Nat /\ tombs \in Nat
       /\ IsFiniteSet(Occupied) /\ IsFiniteSet(Tombstones)
  BY <1>4, SlotsAreFinite DEF TableInv, Counted
<1>12. Cardinality(Occupied') = Cardinality(Occupied) - 1 /\ count # 0
  <2>1. Cardinality(Occupied \ {p}) = Cardinality(Occupied) - 1
    BY <1>2, <1>11, FS_RemoveElement
  <2>2. Occupied # {}
    BY <1>2
  <2> QED
    BY <1>7, <1>11, <2>1, <2>2, FS_EmptySet
<1>13. Cardinality(Tombstones') = Cardinality(Tombstones) + 1
  <2>1. p \notin Tombstones
    BY <1>2, <1>4, SlotsAreSplit
  <2> QED
    BY <1>7, <1>11, <2>1, FS_AddElement
<1>14. Counted'
  BY <1>3, <1>11, <1>12, <1>13 DEF Counted
<1> QED
  BY <1>6, <1>9, <1>10, <1>11, <1>12, <1>14

(* The end of spm_put for a new key: it is placed in a slot that is not    *)
(* occupied, so that the probe for it met no empty one.                    *)
LEMMA InsertedIsSound ==
  ASSUME TableInv, HashMapAssumption, Insert
  PROVE  /\ (tab \in [Slots -> Entries])'
         /\ Reachable' /\ OneSlotForEachKey' /\ KeysAreZapped' /\ Counted'
         /\ tombs' \in Nat
<1> DEFINE e == [state |-> "occupied", hash |-> Hash[put.key], key |-> put.key, value |-> put.value]
<1>1. PICK p \in FindInsert(Hash[put.key]) :
           /\ tab' = [tab EXCEPT ![p] = e]
           /\ tombs' = IF tab[p].state = "tombstone" THEN tombs - 1 ELSE tombs
  BY DEF Insert
<1>2. p \in Slots \ Occupied /\ Before(Hash[put.key], p, capacity) \cap Empty = {}
  BY DEF FindInsert, FirstFrom, Empty, Occupied
<1>3. UNCHANGED capacity /\ count' = count + 1 /\ Find(put.key) = {}
  BY DEF Insert, Stored
<1>4. tab \in [Slots -> Entries] /\ capacity \in Nat /\ put.key \in Keys /\ put.value \in Values
  BY DEF TableInv, TypeOK, Insert
<1>5. e \in Entries /\ e.state = "occupied" /\ e.key = put.key /\ e.hash = Hash[e.key]
  BY <1>4, HashMapAssumption DEF Entries, States
<1>6. \A q \in Occupied : tab[q].key # put.key
  BY <1>3, <1>4, FindIsExact DEF TableInv
<1> HIDE DEF e
<1>7. /\ (tab \in [Slots -> Entries])'
      /\ Reachable' /\ OneSlotForEachKey' /\ KeysAreZapped'
      /\ Occupied' = Occupied \cup {p}
      /\ Tombstones' = Tombstones \ {p}
  <2>1. Before(e.hash, p, capacity) \cap Empty = {} /\ \A q \in Occupied : tab[q].key # e.key
    BY <1>2, <1>5, <1>6
  <2>2. e.key \in Keys /\ tab' = [tab EXCEPT ![p] = e]
    BY <1>1, <1>4, <1>5
  <2> QED
    BY <1>2, <1>3, <1>4, <1>5, <2>1, <2>2, PlacedIsSound DEF TableInv
<1>8. /\ count = Cardinality(Occupied) /\ tombs = Cardinality(Tombstones)
      /\ count \in Nat /\ tombs \in Nat
      /\ IsFiniteSet(Occupied) /\ IsFiniteSet(Tombstones)
  BY <1>4, SlotsAreFinite DEF TableInv, Counted
<1>9. Cardinality(Occupied') = count + 1
  BY <1>2, <1>7, <1>8, FS_AddElement
<1>10. Cardinality(Tombstones') = tombs' /\ tombs' \in Nat
  <2>1. IsFiniteSet(Tombstones \ {p}) /\ Cardinality(Tombstones \ {p})
          = IF p \in Tombstones THEN Cardinality(Tombstones) - 1 ELSE Cardinality(Tombstones)
    BY <1>8, FS_RemoveElement
  <2>2. p \in Tombstones <=> tab[p].state = "tombstone"
    BY <1>2 DEF Tombstones
  <2>3. Cardinality(Tombstones \ {p}) = tombs'
    BY <1>1, <1>8, <2>1, <2>2
  <2> QED
    BY <1>7, <2>1, <2>3, FS_CardinalityType
<1>11. Counted'
  BY <1>3, <1>9, <1>10 DEF Counted
<1> QED
  BY <1>7, <1>10, <1>11

(* An entry that moves keeps its key, hash and value. *)
LEMMA MovedIsSound ==
  ASSUME TableInv, HashMapAssumption, MoveEntry
  PROVE  /\ (tab \in [Slots -> Entries])'
         /\ Reachable' /\ OneSlotForEachKey' /\ KeysAreZapped' /\ Counted'
         /\ next \in Unmoved
         /\ \E p \in Slots \ Occupied :
               Occupied' = Occupied \cup {p} /\ tab' = [tab EXCEPT ![p] = old[next]]
<1> DEFINE e == old[next]
<1>1. PICK p \in FirstFrom(old[next].hash, Empty) : tab' = [tab EXCEPT ![p] = e]
  BY DEF MoveEntry
<1>2. p \in Slots \ Occupied /\ p \in Empty /\ Before(e.hash, p, capacity) \cap Empty = {}
  BY DEF FirstFrom, Empty, Occupied
<1>3. UNCHANGED <<capacity, tombs>> /\ count' = count + 1
  BY DEF MoveEntry
<1>4. tab \in [Slots -> Entries] /\ capacity \in Nat /\ next \in Nat
  BY DEF TableInv, TypeOK
<1>5. next \in Unmoved
  BY <1>4 DEF MoveEntry, Unmoved
<1>6. /\ e \in Entries /\ e.state = "occupied" /\ e.key \in Keys /\ e.hash = Hash[e.key]
      /\ \A q \in Occupied : tab[q].key # e.key
  <2>1. old \in [DOMAIN old -> Entries] /\ next \in DOMAIN old
    BY DEF TableInv, MoveIsSound, MoveEntry
  <2>2. e \in Entries
    BY <2>1
  <2> QED
    BY <1>5, <2>2 DEF TableInv, MoveIsSound, MoveEntry
<1> HIDE DEF e
<1>7. /\ (tab \in [Slots -> Entries])'
      /\ Reachable' /\ OneSlotForEachKey' /\ KeysAreZapped'
      /\ Occupied' = Occupied \cup {p}
      /\ Tombstones' = Tombstones \ {p}
  BY <1>1, <1>2, <1>3, <1>4, <1>6, PlacedIsSound DEF TableInv
<1>8. /\ count = Cardinality(Occupied) /\ tombs = Cardinality(Tombstones)
      /\ IsFiniteSet(Occupied) /\ IsFiniteSet(Tombstones)
  BY <1>4, SlotsAreFinite DEF TableInv, Counted
<1>9. Cardinality(Occupied') = count + 1
  BY <1>2, <1>7, <1>8, FS_AddElement
<1>10. Tombstones' = Tombstones
  BY <1>2, <1>4, <1>7, SlotsAreSplit
<1>11. Counted'
  BY <1>3, <1>8, <1>9, <1>10 DEF Counted
<1> QED
  BY <1>1, <1>2, <1>5, <1>7, <1>11 DEF e

-----------------------------------------------------------------------------
(* The invariant.                                                          *)

(* References are counted in natural numbers. *)
LEMMA HeldInIsNatural ==
  ASSUME capacity \in Nat, NEW t, NEW S \in SUBSET Slots, NEW k
  PROVE  HeldIn(t, S, k) \in Nat
<1>1. {p \in S : t[p].key = k} \in SUBSET Slots /\ IsFiniteSet(Slots)
  BY SlotsAreFinite
<1> QED
  BY <1>1, FS_Subset, FS_CardinalityType DEF HeldIn

(* A call that reads, and a step that changes nothing. *)
LEMMA ReadingKeepsTable ==
  ASSUME TableInv, UNCHANGED <<stage, capacity, count, tombs, tab, put, old, next>>,
         held' \in [Keys -> Int]
  PROVE  TableInv'
<1>1. TypeOK' /\ Slots' = Slots
  BY DEF TableInv, TypeOK, Slots
<1>2. Occupied' = Occupied /\ Empty' = Empty /\ Tombstones' = Tombstones /\ Unmoved' = Unmoved
  BY DEF Occupied, Empty, Tombstones, Slots, Unmoved
<1>3. Reachable' /\ OneSlotForEachKey' /\ KeysAreZapped' /\ Counted' /\ LoadIsBounded'
  BY <1>1, <1>2 DEF TableInv, Reachable, OneSlotForEachKey, KeysAreZapped, Counted, LoadIsBounded
<1>4. MoveIsSound'
  BY <1>2 DEF TableInv, MoveIsSound
<1> QED
  BY <1>1, <1>3, <1>4 DEF TableInv

(* What a map starts as. *)
LEMMA InitTable == Init => TableInv
<1> SUFFICES ASSUME Init PROVE TableInv
  OBVIOUS
<1>1. tab \in [Slots -> Entries] /\ Reachable /\ OneSlotForEachKey /\ KeysAreZapped /\ Counted
  BY BlankIsSound DEF Init
<1>2. TypeOK
  BY <1>1, HashMapAssumption DEF Init, TypeOK, NoPut
<1>3. MoveIsSound /\ LoadIsBounded
  BY DEF Init, MoveIsSound, LoadIsBounded
<1> QED
  BY <1>1, <1>2, <1>3 DEF TableInv

(* Every step keeps the table sound. *)
LEMMA NextTable == TableInv /\ [Next]_vars => TableInv'
<1> SUFFICES ASSUME TableInv, [Next]_vars PROVE TableInv'
  OBVIOUS
<1> USE HashMapAssumption
<1>1. /\ capacity \in Nat /\ count \in Nat /\ tombs \in Nat /\ next \in Nat
      /\ tab \in [Slots -> Entries] /\ held \in [Keys -> Int]
      /\ put \in [key : Keys \cup {NoKey}, value : Values]
      /\ (capacity = 0) <=> (stage = "none")
      /\ (put.key \in Keys) <=> (stage \in {"moving", "storing"})
  BY DEF TableInv, TypeOK
<1>2. stage # "moving" => old = Blank(0) /\ next = 0
  BY DEF TableInv, MoveIsSound
<1>3. ASSUME capacity' \in Nat, tab' = Blank(capacity'), count' = 0, tombs' = 0
      PROVE  /\ (tab \in [Slots -> Entries])'
             /\ Reachable' /\ OneSlotForEachKey' /\ KeysAreZapped' /\ Counted'
             /\ Occupied' = {}
  <2>1. (capacity \in Nat /\ tab = Blank(capacity) /\ count = 0 /\ tombs = 0
          => /\ tab \in [Slots -> Entries]
             /\ Reachable /\ OneSlotForEachKey /\ KeysAreZapped /\ Counted
             /\ Occupied = {})'
    BY BlankIsSound, PTL
  <2> QED
    BY <1>3, <2>1
<1>4. ASSUME ReleaseAll PROVE held' \in [Keys -> Int]
  <2>1. Occupied \in SUBSET Slots
    BY DEF Occupied
  <2>2. \A k \in Keys : HeldIn(tab, Occupied, k) \in Int
    BY <1>1, <2>1, HeldInIsNatural
  <2> QED
    BY <1>1, <1>4, <2>2 DEF ReleaseAll
<1>5. CASE Create
  <2>1. capacity' \in Nat /\ capacity' # 0 /\ tab' = Blank(capacity')
    BY <1>5 DEF Create
  <2>2. /\ (tab \in [Slots -> Entries])'
        /\ Reachable' /\ OneSlotForEachKey' /\ KeysAreZapped' /\ Counted'
    BY <1>3, <1>5, <2>1 DEF Create
  <2>3. TypeOK'
    BY <1>1, <1>5, <2>1, <2>2 DEF Create, TypeOK
  <2>4. MoveIsSound' /\ LoadIsBounded'
    BY <1>2, <1>5 DEF Create, MoveIsSound, LoadIsBounded
  <2> QED
    BY <2>2, <2>3, <2>4 DEF TableInv
<1>6. CASE Free
  <2>1. capacity' = 0 /\ tab' = Blank(capacity') /\ held' \in [Keys -> Int]
    BY <1>4, <1>6 DEF Free
  <2>2. /\ (tab \in [Slots -> Entries])'
        /\ Reachable' /\ OneSlotForEachKey' /\ KeysAreZapped' /\ Counted'
    BY <1>3, <1>6, <2>1 DEF Free
  <2>3. TypeOK'
    BY <1>1, <1>6, <2>1, <2>2 DEF Free, TypeOK
  <2>4. MoveIsSound' /\ LoadIsBounded'
    BY <1>2, <1>6 DEF Free, MoveIsSound, LoadIsBounded
  <2> QED
    BY <2>2, <2>3, <2>4 DEF TableInv
<1>7. CASE Clear
  <2>1. capacity' = capacity /\ tab' = Blank(capacity') /\ held' \in [Keys -> Int]
    BY <1>4, <1>7 DEF Clear
  <2>2. /\ (tab \in [Slots -> Entries])'
        /\ Reachable' /\ OneSlotForEachKey' /\ KeysAreZapped' /\ Counted'
    BY <1>1, <1>3, <1>7, <2>1 DEF Clear
  <2>3. TypeOK'
    BY <1>1, <1>7, <2>1, <2>2 DEF Clear, TypeOK
  <2>4. MoveIsSound' /\ LoadIsBounded'
    BY <1>2, <1>7 DEF Clear, MoveIsSound, LoadIsBounded
  <2> QED
    BY <2>2, <2>3, <2>4 DEF TableInv
<1>8. CASE MoveEntry
  <2>1. /\ (tab \in [Slots -> Entries])'
        /\ Reachable' /\ OneSlotForEachKey' /\ KeysAreZapped' /\ Counted'
        /\ next \in Unmoved
    BY <1>8, MovedIsSound
  <2>2. PICK p \in Slots \ Occupied :
               Occupied' = Occupied \cup {p} /\ tab' = [tab EXCEPT ![p] = old[next]]
    BY <1>8, MovedIsSound
  <2>3. TypeOK'
    BY <1>1, <1>8, <2>1 DEF MoveEntry, TypeOK
  <2>4. PICK c \in 1..capacity : /\ capacity = 2 * c /\ DOMAIN old = 0..(c - 1)
                                /\ next <= c /\ count <= next
    BY <1>8 DEF MoveEntry, TableInv, MoveIsSound
  <2>5. /\ UNCHANGED <<capacity, old, stage, tombs>> /\ next' = next + 1 /\ count' = count + 1
        /\ next \in DOMAIN old /\ stage = "moving"
    BY <1>8 DEF MoveEntry
  <2>6. \E d \in 1..capacity' : /\ capacity' = 2 * d /\ DOMAIN old' = 0..(d - 1)
                                /\ next' <= d /\ count' <= next'
    BY <1>1, <2>4, <2>5
  <2>7. Unmoved' = Unmoved \ {next}
    <3>1. \A i \in DOMAIN old : i \in Int
      BY <2>4
    <3>2. \A i \in DOMAIN old : i >= next + 1 <=> i >= next /\ i # next
      BY <1>1, <3>1
    <3> QED
      BY <2>5, <3>2 DEF Unmoved
  <2>8. ASSUME NEW i \in Unmoved'
        PROVE  /\ old'[i].key \in Keys /\ old'[i].hash = Hash[old'[i].key]
               /\ \A j \in Unmoved' : old'[i].key = old'[j].key => i = j
               /\ \A q \in Occupied' : tab'[q].key # old'[i].key
    <3>1. i \in Unmoved /\ i # next
      BY <2>7, <2>8
    <3>2. /\ old[i].key \in Keys /\ old[i].hash = Hash[old[i].key]
          /\ \A j \in Unmoved : old[i].key = old[j].key => i = j
          /\ \A q \in Occupied : tab[q].key # old[i].key
      BY <2>5, <3>1 DEF TableInv, MoveIsSound
    <3>3. ASSUME NEW q \in Occupied' PROVE tab'[q].key # old[i].key
      <4>1. CASE q = p
        <5>1. tab'[p] = old[next]
          BY <1>1, <2>2
        <5> QED
          BY <2>1, <3>1, <3>2, <4>1, <5>1
      <4>2. CASE q # p
        <5>1. q \in Occupied /\ tab'[q] = tab[q]
          BY <1>1, <2>2, <4>2 DEF Occupied
        <5> QED
          BY <3>2, <5>1
      <4> QED
        BY <4>1, <4>2
    <3> QED
      BY <2>5, <2>7, <3>2, <3>3
  <2>9. MoveIsSound'
    <3>1. stage' = "moving" /\ tombs' = 0 /\ old' \in [DOMAIN old' -> Entries]
      BY <2>5 DEF TableInv, MoveIsSound
    <3> QED
      BY <2>6, <2>8, <3>1 DEF MoveIsSound
  <2>10. LoadIsBounded'
    BY <2>5 DEF LoadIsBounded
  <2> QED
    BY <2>1, <2>3, <2>9, <2>10 DEF TableInv
<1>9. CASE SkipSlot
  <2>1. /\ UNCHANGED <<stage, capacity, count, tombs, tab, held, put, old>>
        /\ next' = next + 1 /\ next \in DOMAIN old /\ stage = "moving"
    BY <1>9 DEF SkipSlot
  <2>2. /\ Slots' = Slots /\ Occupied' = Occupied /\ Empty' = Empty /\ Tombstones' = Tombstones
    BY <2>1 DEF Occupied, Empty, Tombstones, Slots
  <2>3. /\ Reachable' /\ OneSlotForEachKey' /\ KeysAreZapped' /\ Counted'
        /\ LoadIsBounded' /\ TypeOK'
    BY <1>1, <2>1, <2>2 DEF TableInv, Reachable, OneSlotForEachKey, KeysAreZapped, Counted,
                          LoadIsBounded, TypeOK
  <2>4. PICK c \in 1..capacity : /\ capacity = 2 * c /\ DOMAIN old = 0..(c - 1)
                                /\ next <= c /\ count <= next
    BY <2>1 DEF TableInv, MoveIsSound
  <2>5. Unmoved' \subseteq Unmoved
    <3>1. \A i \in DOMAIN old : i >= next + 1 => i >= next
      BY <1>1, <2>4
    <3> QED
      BY <2>1, <3>1 DEF Unmoved
  <2>6. \E d \in 1..capacity' : /\ capacity' = 2 * d /\ DOMAIN old' = 0..(d - 1)
                                /\ next' <= d /\ count' <= next'
    BY <1>1, <2>1, <2>4
  <2>7. MoveIsSound'
    BY <2>1, <2>2, <2>5, <2>6 DEF TableInv, MoveIsSound
  <2> QED
    BY <2>3, <2>7 DEF TableInv
<1>10. CASE EndRehash
  <2>1. /\ UNCHANGED <<capacity, count, tombs, tab, held, put>>
        /\ stage = "moving" /\ stage' = "storing" /\ old' = Blank(0) /\ next' = 0
    BY <1>10 DEF EndRehash
  <2>2. /\ Slots' = Slots /\ Occupied' = Occupied /\ Empty' = Empty /\ Tombstones' = Tombstones
    BY <2>1 DEF Occupied, Empty, Tombstones, Slots
  <2>3. /\ Reachable' /\ OneSlotForEachKey' /\ KeysAreZapped' /\ Counted' /\ TypeOK'
    BY <1>1, <2>1, <2>2 DEF TableInv, Reachable, OneSlotForEachKey, KeysAreZapped, Counted, TypeOK
  <2>4. PICK c \in 1..capacity : capacity = 2 * c /\ next <= c /\ count <= next
    BY <2>1 DEF TableInv, MoveIsSound
  <2>5. tombs = 0
    BY <2>1 DEF TableInv, MoveIsSound
  <2>6. LoadIsBounded' /\ MoveIsSound'
    BY <1>1, <2>1, <2>4, <2>5 DEF LoadIsBounded, MoveIsSound
  <2> QED
    BY <2>3, <2>6 DEF TableInv
<1>11. CASE Update
  <2>1. /\ (tab \in [Slots -> Entries])'
        /\ Reachable' /\ OneSlotForEachKey' /\ KeysAreZapped' /\ Counted'
    BY <1>11, UpdatedIsSound
  <2>2. TypeOK'
    BY <1>1, <1>11, <2>1 DEF Update, Stored, TypeOK, NoPut
  <2>3. MoveIsSound' /\ LoadIsBounded'
    BY <1>2, <1>11 DEF Update, Stored, MoveIsSound, LoadIsBounded
  <2> QED
    BY <2>1, <2>2, <2>3 DEF TableInv
<1>12. CASE Insert
  <2>1. /\ (tab \in [Slots -> Entries])'
        /\ Reachable' /\ OneSlotForEachKey' /\ KeysAreZapped' /\ Counted'
        /\ tombs' \in Nat
    BY <1>12, InsertedIsSound
  <2>2. held' \in [Keys -> Int]
    <3>1. PICK p \in FindInsert(Hash[put.key]) :
            held' = [k \in Keys |-> held[k] - HeldIn(tab, {p}, k) + (IF k = put.key THEN 1 ELSE 0)]
      BY <1>12 DEF Insert
    <3>2. {p} \in SUBSET Slots
      BY DEF FindInsert, FirstFrom
    <3>3. ASSUME NEW k \in Keys
          PROVE  held[k] - HeldIn(tab, {p}, k) + (IF k = put.key THEN 1 ELSE 0) \in Int
      <4>1. HeldIn(tab, {p}, k) \in Int /\ held[k] \in Int
        BY <1>1, <3>2, HeldInIsNatural
      <4> QED
        BY <4>1
    <3> QED
      BY <3>1, <3>3
  <2>3. TypeOK'
    <3>1. /\ stage = "storing" /\ stage' = "idle" /\ count' = count + 1
          /\ UNCHANGED <<capacity, old, next>> /\ put' = NoPut
      BY <1>12 DEF Insert, Stored
    <3>2. put' \in [key : Keys \cup {NoKey}, value : Values] /\ put'.key \notin Keys
      BY <3>1 DEF NoPut
    <3> QED
      BY <1>1, <2>1, <2>2, <3>1, <3>2 DEF TypeOK
  <2>4. MoveIsSound' /\ LoadIsBounded'
    BY <1>2, <1>12 DEF Insert, Stored, MoveIsSound, LoadIsBounded
  <2> QED
    BY <2>1, <2>3, <2>4 DEF TableInv
<1>13. ASSUME NEW k \in Keys, Remove(k) PROVE TableInv'
  <2>1. /\ (tab \in [Slots -> Entries])'
        /\ Reachable' /\ OneSlotForEachKey' /\ KeysAreZapped' /\ Counted'
        /\ count \in Nat \ {0}
    BY <1>13, RemovedIsSound
  <2>2. held' \in [Keys -> Int]
    <3>1. PICK p \in Lookup(k) : held' = [j \in Keys |-> held[j] - HeldIn(tab, {p}, j)]
      BY <1>13 DEF Remove
    <3>2. {p} \in SUBSET Slots
      BY DEF Lookup, Find, At, Occupied
    <3>3. \A j \in Keys : HeldIn(tab, {p}, j) \in Int
      BY <1>1, <3>2, HeldInIsNatural
    <3> QED
      BY <1>1, <3>1, <3>3
  <2>3. count' \in Nat /\ tombs' \in Nat
    BY <1>1, <1>13, <2>1 DEF Remove
  <2>4. TypeOK'
    BY <1>1, <1>13, <2>1, <2>2, <2>3 DEF Remove, TypeOK
  <2>5. MoveIsSound' /\ LoadIsBounded'
    BY <1>2, <1>13 DEF Remove, MoveIsSound, LoadIsBounded
  <2> QED
    BY <2>1, <2>4, <2>5 DEF TableInv
<1>14. ASSUME NEW k \in Keys, NEW v \in Values, PutFits(k, v) PROVE TableInv'
  <2>1. /\ UNCHANGED <<capacity, count, tombs, tab, held, old, next>>
        /\ stage = "idle" /\ stage' = "storing" /\ put' = [key |-> k, value |-> v]
    BY <1>14 DEF PutFits
  <2>2. /\ Slots' = Slots /\ Occupied' = Occupied /\ Empty' = Empty /\ Tombstones' = Tombstones
    BY <2>1 DEF Occupied, Empty, Tombstones, Slots
  <2>3. /\ Reachable' /\ OneSlotForEachKey' /\ KeysAreZapped' /\ Counted'
    BY <2>1, <2>2 DEF TableInv, Reachable, OneSlotForEachKey, KeysAreZapped, Counted
  <2>4. TypeOK'
    BY <1>1, <2>1, <2>2 DEF TypeOK
  <2>5. LoadIsBounded' /\ MoveIsSound'
    BY <1>1, <1>2, <1>14, <2>1 DEF PutFits, NeedsGrow, LoadIsBounded, MoveIsSound
  <2> QED
    BY <2>3, <2>4, <2>5 DEF TableInv
<1>15. ASSUME NEW k \in Keys, NEW v \in Values, PutGrows(k, v) PROVE TableInv'
  <2>1. /\ stage = "idle" /\ stage' = "moving" /\ put' = [key |-> k, value |-> v]
        /\ old' = tab /\ next' = 0 /\ capacity' = 2 * capacity /\ tab' = Blank(capacity')
        /\ count' = 0 /\ tombs' = 0 /\ held' = held
    BY <1>15 DEF PutGrows
  <2>2. capacity' \in Nat /\ capacity \in 1..capacity' /\ capacity' # 0
    BY <1>1, <2>1
  <2>3. /\ (tab \in [Slots -> Entries])'
        /\ Reachable' /\ OneSlotForEachKey' /\ KeysAreZapped' /\ Counted'
        /\ Occupied' = {}
    BY <1>3, <2>1, <2>2
  <2>4. TypeOK'
    BY <1>1, <2>1, <2>2, <2>3 DEF TypeOK
  <2>5. DOMAIN old' = 0..(capacity - 1) /\ old' \in [DOMAIN old' -> Entries]
    BY <1>1, <2>1 DEF Slots
  <2>6. Unmoved' = Occupied
    <3>1. \A i \in 0..(capacity - 1) : i >= 0
      OBVIOUS
    <3> QED
      BY <2>1, <2>5, <3>1 DEF Unmoved, Occupied, Slots
  <2>7. \A i \in Unmoved' :
          /\ old'[i].key \in Keys /\ old'[i].hash = Hash[old'[i].key]
          /\ \A j \in Unmoved' : old'[i].key = old'[j].key => i = j
          /\ \A p \in Occupied' : tab'[p].key # old'[i].key
    BY <2>1, <2>3, <2>6 DEF TableInv, Reachable, OneSlotForEachKey
  <2>8. \E c \in 1..capacity' : /\ capacity' = 2 * c /\ DOMAIN old' = 0..(c - 1)
                                /\ next' <= c /\ count' <= next'
    BY <1>1, <2>1, <2>2, <2>5
  <2>9. MoveIsSound' /\ LoadIsBounded'
    BY <2>1, <2>5, <2>7, <2>8 DEF MoveIsSound, LoadIsBounded
  <2> QED
    BY <2>3, <2>4, <2>9 DEF TableInv
<1>16. ASSUME UNCHANGED <<stage, capacity, count, tombs, tab, held, put, old, next>> PROVE TableInv'
  BY <1>1, <1>16, ReadingKeepsTable
<1>17. ASSUME NEW k \in Keys, Get(k) \/ Has(k) \/ RemoveAbsent(k) PROVE TableInv'
  BY <1>16, <1>17 DEF Get, Has, RemoveAbsent
<1>18. CASE Size \/ ListKeys \/ UNCHANGED vars
  BY <1>16, <1>18 DEF Size, ListKeys, vars
<1> QED
  BY <1>5, <1>6, <1>7, <1>8, <1>9, <1>10, <1>11, <1>12, <1>13, <1>14, <1>15, <1>17, <1>18 DEF Next

(* The probe for a free slot ends, in spm_put and in the move of an entry. *)
LEMMA RoomFollows == TableInv => RoomIsLeft
<1> SUFFICES ASSUME TableInv PROVE RoomIsLeft
  OBVIOUS
<1>1. /\ capacity \in Nat /\ count \in Nat /\ tombs \in Nat /\ next \in Nat
      /\ tab \in [Slots -> Entries] /\ Counted
      /\ (capacity = 0) <=> (stage = "none")
  BY DEF TableInv, TypeOK
<1>2. ASSUME stage = "storing" PROVE FindInsert(Hash[put.key]) # {}
  <2>1. count + tombs < capacity
    BY <1>1, <1>2 DEF TableInv, LoadIsBounded
  <2>2. Empty # {} /\ Empty \subseteq Slots \ Occupied
    BY <1>1, <2>1, SomeSlotIsEmpty DEF Empty, Occupied
  <2>3. Hash[put.key] \in Int
    BY <1>2, HashMapAssumption DEF TableInv, TypeOK
  <2>4. Slots \ Occupied \in SUBSET Slots /\ Slots \ Occupied # {}
    BY <2>2
  <2> QED
    BY <1>1, <2>3, <2>4, ProbeEnds DEF FindInsert
<1>3. ASSUME stage = "moving" PROVE Empty # {}
  <2>1. PICK c \in 1..capacity : capacity = 2 * c /\ next <= c /\ count <= next /\ tombs = 0
    BY <1>3 DEF TableInv, MoveIsSound
  <2>2. count + tombs < capacity
    BY <1>1, <2>1
  <2> QED
    BY <1>1, <2>2, SomeSlotIsEmpty
<1> QED
  BY <1>2, <1>3 DEF RoomIsLeft

(* Whatever the keys, their hashes and the calls, every key is found where *)
(* its probe leads and the next probe ends (hashmap.l1).                   *)
THEOREM TablesStaySound == Spec => []TableIsSound
<1>1. Init => TableInv
  BY InitTable
<1>2. TableInv /\ [Next]_vars => TableInv'
  BY NextTable
<1>3. TableInv => TableIsSound
  BY RoomFollows DEF TableInv, TableIsSound
<1> QED
  BY <1>1, <1>2, <1>3, PTL DEF Spec

-----------------------------------------------------------------------------
(* The entries.                                                            *)

(* The entries of both tables have keys, values, and no key in common. *)
LEMMA EntriesHaveKeys ==
  TableInv => /\ \A e \in Held : e.key \in Keys /\ e.value \in Values
              /\ \A e, f \in Held : e.key = f.key => e = f
<1> SUFFICES ASSUME TableInv
             PROVE  /\ \A e \in Held : e.key \in Keys /\ e.value \in Values
                    /\ \A e, f \in Held : e.key = f.key => e = f
  OBVIOUS
<1>1. tab \in [Slots -> Entries] /\ \A p \in Occupied : p \in Slots
  BY DEF TableInv, TypeOK, Occupied
<1>2. \A p \in Occupied : tab[p] \in Entries /\ tab[p].key \in Keys
  BY <1>1 DEF TableInv, Reachable
<1>3. CASE stage = "moving"
  <2>1. \A i \in Unmoved : /\ old[i].key \in Keys /\ i \in DOMAIN old
                           /\ \A j \in Unmoved : old[i].key = old[j].key => i = j
                           /\ \A p \in Occupied : tab[p].key # old[i].key
    BY <1>3 DEF TableInv, MoveIsSound, Unmoved
  <2>2. old \in [DOMAIN old -> Entries]
    BY <1>3 DEF TableInv, MoveIsSound
  <2>3. \A i \in Unmoved : old[i] \in Entries
    BY <2>1, <2>2
  <2>4. ASSUME NEW e \in Held PROVE e.key \in Keys /\ e.value \in Values
    BY <1>2, <2>1, <2>3 DEF Held, Entries
  <2>5. ASSUME NEW e \in Held, NEW f \in Held, e.key = f.key PROVE e = f
    BY <1>2, <2>1, <2>5 DEF Held, TableInv, OneSlotForEachKey
  <2> QED
    BY <2>4, <2>5
<1>4. CASE stage # "moving"
  <2>1. Unmoved = {}
    <3>1. DOMAIN old = 0..(0 - 1)
      BY <1>4, BlankTable DEF TableInv, MoveIsSound
    <3> QED
      BY <3>1 DEF Unmoved
  <2>2. \A e \in Held : e.key \in Keys /\ e.value \in Values
    BY <1>2, <2>1 DEF Held, Entries
  <2>3. \A e, f \in Held : e.key = f.key => e = f
    BY <2>1 DEF Held, TableInv, OneSlotForEachKey
  <2> QED
    BY <2>2, <2>3
<1> QED
  BY <1>3, <1>4

(* Outside of growth all entries are in the table. *)
LEMMA EntriesAtRest == TableInv /\ stage # "moving" => Held = {tab[p] : p \in Occupied}
<1> SUFFICES ASSUME TableInv, stage # "moving" PROVE Unmoved = {}
  BY DEF Held
<1>1. DOMAIN old = 0..(0 - 1)
  BY BlankTable DEF TableInv, MoveIsSound
<1> QED
  BY <1>1 DEF Unmoved

(* Growth keeps the entries, and spm_put does until it stores. *)
LEMMA GrowthKeepsEntries ==
  ASSUME TableInv, HashMapAssumption,
         \/ MoveEntry \/ SkipSlot \/ EndRehash
         \/ \E k \in Keys, v \in Values : PutFits(k, v) \/ PutGrows(k, v)
  PROVE  Held' = Held
<1>0. TableInv'
  BY NextTable DEF Next
<1>1. /\ capacity \in Nat /\ count \in Nat /\ tombs \in Nat /\ next \in Nat
      /\ tab \in [Slots -> Entries]
  BY DEF TableInv, TypeOK
<1>2. CASE MoveEntry
  <2>1. PICK p \in Slots \ Occupied :
               Occupied' = Occupied \cup {p} /\ tab' = [tab EXCEPT ![p] = old[next]]
    BY <1>2, MovedIsSound
  <2>2. next \in Unmoved
    BY <1>2, MovedIsSound
  <2>3. UNCHANGED old /\ next' = next + 1 /\ stage = "moving"
    BY <1>2 DEF MoveEntry
  <2>4. DOMAIN old \subseteq Int
    BY <2>3 DEF TableInv, MoveIsSound
  <2>5. \A i \in DOMAIN old : i >= next + 1 <=> i >= next /\ i # next
    BY <1>1, <2>4
  <2>6. Unmoved' = Unmoved \ {next}
    BY <2>3, <2>5 DEF Unmoved
  <2>7. tab'[p] = old[next] /\ \A q \in Occupied : tab'[q] = tab[q]
    BY <1>1, <2>1 DEF Occupied
  <2>8. {tab'[q] : q \in Occupied'} = {tab[q] : q \in Occupied} \cup {old[next]}
    BY <2>1, <2>7
  <2>9. {old[i] : i \in Unmoved} = {old[i] : i \in Unmoved'} \cup {old[next]}
    BY <2>2, <2>6
  <2> QED
    BY <2>3, <2>8, <2>9 DEF Held
<1>3. CASE SkipSlot
  <2>1. /\ UNCHANGED <<stage, capacity, tab, old>> /\ next' = next + 1
        /\ old[next].state # "occupied" /\ stage = "moving"
    BY <1>3 DEF SkipSlot
  <2>2. DOMAIN old \subseteq Int
    BY <2>1 DEF TableInv, MoveIsSound
  <2>3. \A i \in DOMAIN old : i >= next + 1 <=> i >= next /\ i # next
    BY <1>1, <2>2
  <2>4. Unmoved' = Unmoved /\ Occupied' = Occupied
    BY <2>1, <2>3 DEF Unmoved, Occupied, Slots
  <2> QED
    BY <2>1, <2>4 DEF Held
<1>4. CASE EndRehash
  <2>1. /\ UNCHANGED <<capacity, tab>> /\ stage' = "storing"
        /\ stage = "moving" /\ next \notin DOMAIN old
    BY <1>4 DEF EndRehash
  <2>2. PICK c \in 1..capacity : DOMAIN old = 0..(c - 1) /\ next <= c
    BY <2>1 DEF TableInv, MoveIsSound
  <2>3. Unmoved = {}
    <3>1. \A i \in DOMAIN old : ~(i >= next)
      BY <1>1, <2>1, <2>2
    <3> QED
      BY <3>1 DEF Unmoved
  <2>4. (Held = {tab[p] : p \in Occupied})'
    <3>1. (TableInv /\ stage # "moving" => Held = {tab[p] : p \in Occupied})'
      BY EntriesAtRest, PTL
    <3> QED
      BY <1>0, <2>1, <3>1
  <2>5. Occupied' = Occupied
    BY <2>1 DEF Occupied, Slots
  <2> QED
    BY <2>1, <2>3, <2>4, <2>5 DEF Held
<1>5. ASSUME NEW k \in Keys, NEW v \in Values, PutFits(k, v) PROVE Held' = Held
  BY <1>5 DEF PutFits, Held, Unmoved, Occupied, Slots
<1>6. ASSUME NEW k \in Keys, NEW v \in Values, PutGrows(k, v) PROVE Held' = Held
  <2>1. /\ old' = tab /\ next' = 0 /\ capacity' = 2 * capacity /\ tab' = Blank(capacity')
        /\ stage = "idle"
    BY <1>6 DEF PutGrows
  <2>2. Occupied' = {}
    <3>1. (capacity \in Nat /\ tab = Blank(capacity) /\ count = 0 /\ tombs = 0
            => /\ tab \in [Slots -> Entries]
               /\ Reachable /\ OneSlotForEachKey /\ KeysAreZapped /\ Counted
               /\ Occupied = {})'
      BY BlankIsSound, PTL
    <3>2. capacity' \in Nat /\ count' = 0 /\ tombs' = 0
      BY <1>1, <1>6, <2>1 DEF PutGrows
    <3> QED
      BY <2>1, <3>1, <3>2
  <2>3. Unmoved' = Occupied
    <3>1. DOMAIN old' = Slots /\ \A i \in Slots : i >= 0
      BY <1>1, <2>1 DEF Slots
    <3> QED
      BY <2>1, <3>1 DEF Unmoved, Occupied
  <2>4. Held = {tab[p] : p \in Occupied}
    BY <2>1, EntriesAtRest
  <2> QED
    BY <2>1, <2>2, <2>3, <2>4 DEF Held
<1> QED
  BY <1>2, <1>3, <1>4, <1>5, <1>6

(* spm_put stores one entry for its key. *)
LEMMA StoredEntry ==
  ASSUME TableInv, HashMapAssumption, Update \/ Insert
  PROVE  /\ put.key \in Keys /\ put.value \in Values
         /\ \E new : /\ new.key = put.key /\ new.value = put.value
                     /\ \A e : e \in Held' <=> e = new \/ (e \in Held /\ e.key # put.key)
         /\ Update <=> \E e \in Held : e.key = put.key
<1>0. TableInv'
  BY NextTable DEF Next
<1>1. /\ capacity \in Nat /\ tab \in [Slots -> Entries]
      /\ put.key \in Keys /\ put.value \in Values /\ stage = "storing" /\ stage' = "idle"
      /\ capacity' = capacity
  BY DEF TableInv, TypeOK, Update, Insert, Stored
<1>2. Held = {tab[p] : p \in Occupied} /\ Held' = {tab'[p] : p \in Occupied'}
  <2>1. (TableInv /\ stage # "moving" => Held = {tab[p] : p \in Occupied})'
    BY EntriesAtRest, PTL
  <2> QED
    BY <1>0, <1>1, <2>1, EntriesAtRest
<1>3. Find(put.key) = {p \in Occupied : tab[p].key = put.key}
  BY <1>1, FindIsExact DEF TableInv
<1>4. Update <=> \E e \in Held : e.key = put.key
  BY <1>2, <1>3 DEF Update, Insert
<1>5. CASE Update
  <2>1. PICK p \in Find(put.key) : tab' = [tab EXCEPT ![p].value = put.value]
    BY <1>5 DEF Update
  <2>2. p \in Occupied /\ p \in Slots /\ tab[p].key = put.key /\ tab[p] \in Entries
    BY <1>1, <1>3 DEF Occupied
  <2>3. /\ tab'[p] = [tab[p] EXCEPT !.value = put.value]
        /\ \A q \in Slots : q # p => tab'[q] = tab[q]
    BY <1>1, <2>1, <2>2
  <2>4. tab'[p].key = put.key /\ tab'[p].value = put.value /\ tab'[p].state = tab[p].state
    BY <1>1, <2>2, <2>3 DEF Entries
  <2>5. Occupied' = Occupied
    BY <1>1, <2>2, <2>3, <2>4 DEF Occupied, Slots
  <2>6. \A q \in Occupied : q # p => tab[q].key # put.key /\ tab'[q] = tab[q]
    BY <2>2, <2>3 DEF TableInv, OneSlotForEachKey, Occupied
  <2>7. \A e : e \in Held' <=> e = tab'[p] \/ (e \in Held /\ e.key # put.key)
    BY <1>2, <2>2, <2>5, <2>6
  <2> QED
    BY <1>1, <1>4, <2>4, <2>7
<1>6. CASE Insert
  <2> DEFINE new == [state |-> "occupied", hash |-> Hash[put.key], key |-> put.key, value |-> put.value]
  <2>1. PICK p \in FindInsert(Hash[put.key]) : tab' = [tab EXCEPT ![p] = new]
    BY <1>6 DEF Insert
  <2>2. p \in Slots \ Occupied
    BY DEF FindInsert, FirstFrom
  <2>3. tab'[p] = new /\ \A q \in Slots : q # p => tab'[q] = tab[q]
    BY <1>1, <2>1, <2>2
  <2>4. new.key = put.key /\ new.value = put.value /\ new.state = "occupied"
    OBVIOUS
  <2> HIDE DEF new
  <2>5. Occupied' = Occupied \cup {p}
    BY <1>1, <2>2, <2>3, <2>4 DEF Occupied, Slots
  <2>6. \A q \in Occupied : tab[q].key # put.key /\ tab'[q] = tab[q]
    BY <1>3, <1>6, <2>2, <2>3 DEF Insert, Occupied
  <2>7. \A e : e \in Held' <=> e = new \/ (e \in Held /\ e.key # put.key)
    BY <1>2, <2>3, <2>5, <2>6
  <2> QED
    BY <1>1, <1>4, <2>4, <2>7
<1> QED
  BY <1>5, <1>6

(* What spm_get, spm_has and spm_remove find is the slot of the key. *)
LEMMA LookupIsExact ==
  ASSUME TableInv, HashMapAssumption, NEW k \in Keys
  PROVE  Lookup(k) = {p \in Occupied : tab[p].key = k}
<1>1. Find(k) = {p \in Occupied : tab[p].key = k}
  BY FindIsExact DEF TableInv
<1>2. CASE count = 0
  <2>1. Occupied = {}
    BY <1>2, SlotsAreFinite, FS_EmptySet DEF TableInv, TypeOK, Counted
  <2> QED
    BY <1>2, <2>1 DEF Lookup
<1>3. CASE count # 0
  BY <1>1, <1>3 DEF Lookup
<1> QED
  BY <1>2, <1>3

(* spm_remove takes the entry of its key out. *)
LEMMA RemovedEntry ==
  ASSUME TableInv, HashMapAssumption, NEW k \in Keys, Remove(k)
  PROVE  /\ \E e \in Held : e.key = k
         /\ \A e : e \in Held' <=> e \in Held /\ e.key # k
<1>0. TableInv'
  BY NextTable DEF Next
<1>1. /\ capacity \in Nat /\ tab \in [Slots -> Entries]
      /\ stage = "idle" /\ stage' = "idle" /\ capacity' = capacity
  BY DEF TableInv, TypeOK, Remove
<1>2. Held = {tab[p] : p \in Occupied} /\ Held' = {tab'[p] : p \in Occupied'}
  <2>1. (TableInv /\ stage # "moving" => Held = {tab[p] : p \in Occupied})'
    BY EntriesAtRest, PTL
  <2> QED
    BY <1>0, <1>1, <2>1, EntriesAtRest
<1>3. PICK p \in Lookup(k) : tab' = [tab EXCEPT ![p] = Buried(tab[p])]
  BY DEF Remove
<1>4. p \in Occupied /\ p \in Slots /\ tab[p].key = k /\ tab[p] \in Entries
  BY <1>1, LookupIsExact DEF Occupied
<1>5. tab'[p].state = "tombstone" /\ \A q \in Slots : q # p => tab'[q] = tab[q]
  <2>1. tab'[p] = Buried(tab[p])
    BY <1>1, <1>3, <1>4
  <2>2. \A q \in Slots : q # p => tab'[q] = tab[q]
    BY <1>1, <1>3, <1>4
  <2> QED
    BY <1>4, <2>1, <2>2 DEF Entries, Buried
<1>6. Occupied' = Occupied \ {p}
  BY <1>1, <1>4, <1>5 DEF Occupied, Slots
<1>7. \A q \in Occupied : q # p => tab[q].key # k /\ tab'[q] = tab[q]
  BY <1>4, <1>5 DEF TableInv, OneSlotForEachKey, Occupied
<1> QED
  BY <1>2, <1>4, <1>6, <1>7

(* A new map, a cleared one and one that was freed have no entries. *)
LEMMA NoEntries ==
  ASSUME TableInv, HashMapAssumption, Create \/ Clear \/ Free
  PROVE  Held' = {}
<1>0. TableInv'
  BY NextTable DEF Next
<1>1. (TableInv /\ stage # "moving" => Held = {tab[p] : p \in Occupied})'
  BY EntriesAtRest, PTL
<1>2. (capacity \in Nat /\ tab = Blank(capacity) /\ count = 0 /\ tombs = 0
        => /\ tab \in [Slots -> Entries]
           /\ Reachable /\ OneSlotForEachKey /\ KeysAreZapped /\ Counted
           /\ Occupied = {})'
  BY BlankIsSound, PTL
<1>3. capacity' \in Nat /\ tab' = Blank(capacity') /\ count' = 0 /\ tombs' = 0 /\ stage' # "moving"
  BY HashMapAssumption DEF Create, Clear, Free, TableInv, TypeOK
<1> QED
  BY <1>0, <1>1, <1>2, <1>3

(* A step that changes neither table keeps the entries. *)
LEMMA ReadingKeepsEntries ==
  ASSUME UNCHANGED <<stage, capacity, count, tombs, tab, held, put, old, next>>
  PROVE  Held' = Held
BY DEF Held, Unmoved, Occupied, Slots

-----------------------------------------------------------------------------
(* References.                                                             *)

(* One slot holds its key and nothing else. *)
LEMMA HeldInOne ==
  ASSUME NEW t, NEW p, NEW k
  PROVE  HeldIn(t, {p}, k) = IF t[p].key = k THEN 1 ELSE 0
<1>1. CASE t[p].key = k
  <2>1. {q \in {p} : t[q].key = k} = {p}
    BY <1>1
  <2> QED
    BY <1>1, <2>1, FS_Singleton DEF HeldIn
<1>2. CASE t[p].key # k
  <2>1. {q \in {p} : t[q].key = k} = {}
    BY <1>2
  <2> QED
    BY <1>2, <2>1, FS_EmptySet DEF HeldIn
<1> QED
  BY <1>1, <1>2

(* All slots together hold each of their keys once. *)
LEMMA HeldInAll ==
  ASSUME OneSlotForEachKey, NEW k
  PROVE  HeldIn(tab, Occupied, k) = IF \E p \in Occupied : tab[p].key = k THEN 1 ELSE 0
<1>1. CASE \E p \in Occupied : tab[p].key = k
  <2>1. PICK p \in Occupied : tab[p].key = k
    BY <1>1
  <2>2. {q \in Occupied : tab[q].key = k} = {p}
    BY <2>1 DEF OneSlotForEachKey
  <2> QED
    BY <1>1, <2>2, FS_Singleton DEF HeldIn
<1>2. CASE ~\E p \in Occupied : tab[p].key = k
  <2>1. {q \in Occupied : tab[q].key = k} = {}
    BY <1>2
  <2> QED
    BY <1>2, <2>1, FS_EmptySet DEF HeldIn
<1> QED
  BY <1>1, <1>2

(* Every step keeps the references right. *)
LEMMA NextHeld == TableInv /\ KeysAreHeldOnce /\ [Next]_vars => KeysAreHeldOnce'
<1> SUFFICES ASSUME TableInv, KeysAreHeldOnce, [Next]_vars, NEW k \in Keys
             PROVE  held'[k] = IF \E e \in Held' : e.key = k THEN 1 ELSE 0
  BY DEF KeysAreHeldOnce
<1> USE HashMapAssumption
<1>1. /\ held \in [Keys -> Int] /\ held[k] = IF \E e \in Held : e.key = k THEN 1 ELSE 0
      /\ tab \in [Slots -> Entries] /\ k # NoKey
  BY DEF TableInv, TypeOK, KeysAreHeldOnce
<1>2. ASSUME Held' = Held, held' = held
      PROVE  held'[k] = IF \E e \in Held' : e.key = k THEN 1 ELSE 0
  BY <1>1, <1>2
<1>3. CASE Create
  <2>1. stage = "none" /\ held' = held /\ Held' = {}
    BY <1>3, NoEntries DEF Create
  <2>2. Slots = {}
    BY <2>1 DEF TableInv, TypeOK, Slots
  <2>3. Held = {}
    BY <2>1, <2>2, EntriesAtRest DEF Occupied
  <2> QED
    BY <1>1, <2>1, <2>3
<1>4. CASE Clear \/ Free
  <2>1. Held' = {} /\ ReleaseAll /\ stage = "idle"
    BY <1>4, NoEntries DEF Clear, Free
  <2>2. Held = {tab[p] : p \in Occupied}
    BY <2>1, EntriesAtRest
  <2>3. held'[k] = held[k] - HeldIn(tab, Occupied, k)
    BY <2>1 DEF ReleaseAll
  <2>4. HeldIn(tab, Occupied, k) = IF \E p \in Occupied : tab[p].key = k THEN 1 ELSE 0
    BY HeldInAll DEF TableInv
  <2>5. (\E e \in Held : e.key = k) <=> \E p \in Occupied : tab[p].key = k
    BY <2>2
  <2> QED
    BY <1>1, <2>1, <2>3, <2>4, <2>5
<1>5. CASE MoveEntry \/ SkipSlot \/ EndRehash
  BY <1>2, <1>5, GrowthKeepsEntries DEF MoveEntry, SkipSlot, EndRehash
<1>6. ASSUME NEW j \in Keys, NEW v \in Values, PutFits(j, v) \/ PutGrows(j, v)
      PROVE  held'[k] = IF \E e \in Held' : e.key = k THEN 1 ELSE 0
  BY <1>2, <1>6, GrowthKeepsEntries DEF PutFits, PutGrows
<1>7. CASE Update
  <2>1. PICK new : /\ new.key = put.key
                   /\ \A e : e \in Held' <=> e = new \/ (e \in Held /\ e.key # put.key)
    BY <1>7, StoredEntry
  <2>2. \E e \in Held : e.key = put.key
    BY <1>7, StoredEntry
  <2>3. (\E e \in Held' : e.key = k) <=> \E e \in Held : e.key = k
    BY <2>1, <2>2
  <2>4. held' = held
    BY <1>7 DEF Update
  <2> QED
    BY <1>1, <2>3, <2>4
<1>8. CASE Insert
  <2>1. PICK new : /\ new.key = put.key
                   /\ \A e : e \in Held' <=> e = new \/ (e \in Held /\ e.key # put.key)
    BY <1>8, StoredEntry
  <2>2. ~\E e \in Held : e.key = put.key
    BY <1>8, StoredEntry DEF Insert, Update
  <2>3. PICK p \in FindInsert(Hash[put.key]) :
          held' = [j \in Keys |-> held[j] - HeldIn(tab, {p}, j) + (IF j = put.key THEN 1 ELSE 0)]
    BY <1>8 DEF Insert
  <2>4. tab[p].key = NoKey
    BY DEF FindInsert, FirstFrom, TableInv, KeysAreZapped
  <2>5. HeldIn(tab, {p}, k) = 0
    BY <1>1, <2>4, HeldInOne
  <2>6. held'[k] = held[k] + (IF k = put.key THEN 1 ELSE 0)
    BY <1>1, <2>3, <2>5
  <2>7. CASE k = put.key
    BY <1>1, <2>1, <2>2, <2>6, <2>7
  <2>8. CASE k # put.key
    <3>1. (\E e \in Held' : e.key = k) <=> \E e \in Held : e.key = k
      BY <2>1, <2>8
    <3> QED
      BY <1>1, <2>6, <2>8, <3>1
  <2> QED
    BY <2>7, <2>8
<1>9. ASSUME NEW j \in Keys, Remove(j)
      PROVE  held'[k] = IF \E e \in Held' : e.key = k THEN 1 ELSE 0
  <2>1. /\ \E e \in Held : e.key = j
        /\ \A e : e \in Held' <=> e \in Held /\ e.key # j
    BY <1>9, RemovedEntry
  <2>2. PICK p \in Lookup(j) : held' = [i \in Keys |-> held[i] - HeldIn(tab, {p}, i)]
    BY <1>9 DEF Remove
  <2>3. tab[p].key = j
    BY LookupIsExact
  <2>4. held'[k] = held[k] - (IF j = k THEN 1 ELSE 0)
    <3>1. HeldIn(tab, {p}, k) = IF j = k THEN 1 ELSE 0
      BY <2>3, HeldInOne
    <3>2. held'[k] = held[k] - HeldIn(tab, {p}, k)
      BY <2>2
    <3> QED
      BY <3>1, <3>2
  <2>5. CASE k = j
    BY <1>1, <2>1, <2>4, <2>5
  <2>6. CASE k # j
    <3>1. (\E e \in Held' : e.key = k) <=> \E e \in Held : e.key = k
      BY <2>1, <2>6
    <3> QED
      BY <1>1, <2>4, <2>6, <3>1
  <2> QED
    BY <2>5, <2>6
<1>10. ASSUME NEW j \in Keys, Get(j) \/ Has(j) \/ RemoveAbsent(j)
       PROVE  held'[k] = IF \E e \in Held' : e.key = k THEN 1 ELSE 0
  <2>1. UNCHANGED <<stage, capacity, count, tombs, tab, held, put, old, next>>
    BY <1>10 DEF Get, Has, RemoveAbsent
  <2> QED
    BY <1>2, <2>1, ReadingKeepsEntries
<1>11. CASE Size \/ ListKeys \/ UNCHANGED vars
  <2>1. UNCHANGED <<stage, capacity, count, tombs, tab, held, put, old, next>>
    BY <1>11 DEF Size, ListKeys, vars
  <2> QED
    BY <1>2, <2>1, ReadingKeepsEntries
<1> QED
  BY <1>3, <1>4, <1>5, <1>6, <1>7, <1>8, <1>9, <1>10, <1>11 DEF Next

(* Whatever the calls, each key of the map is held exactly once, and no    *)
(* other key is (hashmap.l1).                                              *)
THEOREM ReferencesAreExact == Spec => []KeysAreHeldOnce
<1>1. Init => TableInv /\ KeysAreHeldOnce
  <2> SUFFICES ASSUME Init PROVE KeysAreHeldOnce
    BY InitTable
  <2>1. Held = {}
    <3>1. capacity \in Nat /\ tab = Blank(capacity) /\ TableInv /\ stage # "moving"
      BY InitTable DEF Init
    <3> QED
      BY <3>1, BlankIsEmpty, EntriesAtRest
  <2> QED
    BY <2>1 DEF Init, KeysAreHeldOnce
<1>2. TableInv /\ KeysAreHeldOnce /\ [Next]_vars => (TableInv /\ KeysAreHeldOnce)'
  BY NextTable, NextHeld
<1> QED
  BY <1>1, <1>2, PTL DEF Spec

-----------------------------------------------------------------------------
(* The dictionary.                                                         *)

(* The dictionary of a map has the value of each entry, and nothing else. *)
LEMMA ContentsAreEntries ==
  TableInv => /\ Contents \in [Keys -> Values \cup {Absent}]
              /\ \A e \in Held : Contents[e.key] = e.value
              /\ \A k \in Keys : Contents[k] # Absent <=> \E e \in Held : e.key = k
<1> SUFFICES ASSUME TableInv
             PROVE  /\ Contents \in [Keys -> Values \cup {Absent}]
                    /\ \A e \in Held : Contents[e.key] = e.value
                    /\ \A k \in Keys : Contents[k] # Absent <=> \E e \in Held : e.key = k
  OBVIOUS
<1>1. /\ \A e \in Held : e.key \in Keys /\ e.value \in Values
      /\ \A e, f \in Held : e.key = f.key => e = f
  BY EntriesHaveKeys
<1>2. ASSUME NEW e \in Held PROVE Contents[e.key] = e.value
  <2>1. (CHOOSE f \in Held : f.key = e.key) = e
    BY <1>1
  <2> QED
    BY <1>1, <2>1 DEF Contents
<1>3. ASSUME NEW k \in Keys, ~\E e \in Held : e.key = k PROVE Contents[k] = Absent
  BY <1>3 DEF Contents
<1>4. ASSUME NEW k \in Keys PROVE Contents[k] # Absent <=> \E e \in Held : e.key = k
  BY <1>1, <1>2, <1>3, HashMapAssumption
<1>5. \A k \in Keys : Contents[k] \in Values \cup {Absent}
  BY <1>1, <1>2, <1>3
<1>6. Contents \in [Keys -> Values \cup {Absent}]
  BY <1>5 DEF Contents
<1> QED
  BY <1>2, <1>4, <1>6

(* Every step is one of the dictionary, or none of it. *)
LEMMA NextDictionary ==
  TableInv /\ [Next]_vars => [Dictionary!Next]_(Dictionary!mvars)
<1> SUFFICES ASSUME TableInv, [Next]_vars
             PROVE  Dictionary!Next \/ (/\ (stage' # "none") = (stage # "none")
                                       /\ Contents' = Contents /\ answer' = answer)
  BY DEF Dictionary!mvars
<1> USE HashMapAssumption
<1>1. TableInv'
  BY NextTable
<1>2. /\ Contents \in [Keys -> Values \cup {Absent}]
      /\ \A e \in Held : Contents[e.key] = e.value
      /\ \A k \in Keys : Contents[k] # Absent <=> \E e \in Held : e.key = k
  BY ContentsAreEntries
<1>3. /\ Contents' \in [Keys -> Values \cup {Absent}]
      /\ \A e \in Held' : Contents'[e.key] = e.value
      /\ \A k \in Keys : Contents'[k] # Absent <=> \E e \in Held' : e.key = k
  <2>1. (TableInv => /\ Contents \in [Keys -> Values \cup {Absent}]
                     /\ \A e \in Held : Contents[e.key] = e.value
                     /\ \A k \in Keys : Contents[k] # Absent <=> \E e \in Held : e.key = k)'
    BY ContentsAreEntries, PTL
  <2> QED
    BY <1>1, <2>1
<1>4. Held' = Held => Contents' = Contents
  BY DEF Contents
<1>5. Held' = {} => Contents' = Dictionary!Nobody
  BY DEF Contents, Dictionary!Nobody
<1>6. Dictionary!Present = {k \in Keys : \E e \in Held : e.key = k}
  BY <1>2 DEF Dictionary!Present
<1>7. stage # "moving" => Held = {tab[p] : p \in Occupied}
  BY EntriesAtRest
<1>8. ASSUME NEW k \in Keys, stage = "idle"
      PROVE  k \in Dictionary!Present <=> Lookup(k) # {}
  BY <1>6, <1>7, <1>8, LookupIsExact
<1>9. CASE Create
  <2>1. Contents' = Dictionary!Nobody
    BY <1>5, <1>9, NoEntries
  <2> QED
    BY <1>9, <2>1 DEF Create, Dictionary!Next, Dictionary!Create, Dictionary!Done, Done
<1>10. CASE Free
  <2>1. Contents' = Dictionary!Nobody
    BY <1>5, <1>10, NoEntries
  <2> QED
    BY <1>10, <2>1 DEF Free, Dictionary!Next, Dictionary!Free, Dictionary!Done, Done
<1>11. CASE Clear
  <2>1. Contents' = Dictionary!Nobody
    BY <1>5, <1>11, NoEntries
  <2> QED
    BY <1>11, <2>1 DEF Clear, Dictionary!Next, Dictionary!Clear, Dictionary!Done, Done
<1>12. CASE MoveEntry \/ SkipSlot \/ EndRehash
  <2>1. Contents' = Contents
    BY <1>4, <1>12, GrowthKeepsEntries
  <2> QED
    BY <1>12, <2>1 DEF MoveEntry, SkipSlot, EndRehash
<1>13. ASSUME NEW k \in Keys, NEW v \in Values, PutFits(k, v) \/ PutGrows(k, v)
       PROVE  /\ (stage' # "none") = (stage # "none")
              /\ Contents' = Contents /\ answer' = answer
  <2>1. Contents' = Contents
    BY <1>4, <1>13, GrowthKeepsEntries
  <2> QED
    BY <1>13, <2>1 DEF PutFits, PutGrows
<1>14. CASE Update \/ Insert
  <2>1. put.key \in Keys /\ put.value \in Values
    BY <1>14, StoredEntry
  <2>2. PICK new : /\ new.key = put.key /\ new.value = put.value
                   /\ \A e : e \in Held' <=> e = new \/ (e \in Held /\ e.key # put.key)
    BY <1>14, StoredEntry
  <2>3. ASSUME NEW k \in Keys
        PROVE  Contents'[k] = IF k = put.key THEN put.value ELSE Contents[k]
    <3>1. CASE k = put.key
      BY <1>3, <2>2, <3>1
    <3>2. CASE k # put.key /\ \E e \in Held : e.key = k
      BY <1>2, <1>3, <2>2, <3>2
    <3>3. CASE k # put.key /\ ~\E e \in Held : e.key = k
      BY <1>2, <1>3, <2>2, <3>3
    <3> QED
      BY <3>1, <3>2, <3>3
  <2>4. Contents' = [Contents EXCEPT ![put.key] = put.value]
    BY <1>2, <1>3, <2>3
  <2>5. Dictionary!Put(put.key, put.value)
    BY <1>14, <2>4 DEF Update, Insert, Stored, Dictionary!Put, Dictionary!Done, Done
  <2> QED
    BY <2>1, <2>5 DEF Dictionary!Next
<1>15. ASSUME NEW k \in Keys, Get(k) PROVE Dictionary!Get(k)
  <2>1. Contents' = Contents /\ stage = "idle" /\ stage' = "idle"
    BY <1>4, <1>15, ReadingKeepsEntries DEF Get
  <2>2. CASE Lookup(k) = {}
    <3>1. k \notin Dictionary!Present
      BY <1>8, <2>1, <2>2
    <3> QED
      BY <1>15, <2>1, <2>2, <3>1 DEF Get, Dictionary!Get
  <2>3. CASE Lookup(k) # {}
    <3> DEFINE p == CHOOSE p \in Lookup(k) : TRUE
    <3>1. p \in Lookup(k)
      BY <2>3
    <3>2. p \in Occupied /\ tab[p].key = k
      BY <3>1, LookupIsExact
    <3>3. Contents[k] = tab[p].value
      BY <1>2, <1>7, <2>1, <3>2
    <3>4. k \in Dictionary!Present
      BY <1>8, <2>1, <2>3
    <3>5. answer' = <<"get", tab[p].value>>
      BY <1>15, <2>3 DEF Get
    <3> HIDE DEF p
    <3> QED
      BY <2>1, <3>3, <3>4, <3>5 DEF Dictionary!Get
  <2> QED
    BY <2>2, <2>3
<1>16. ASSUME NEW k \in Keys, Has(k) PROVE Dictionary!Has(k)
  <2>1. Contents' = Contents /\ stage = "idle" /\ stage' = "idle"
    BY <1>4, <1>16, ReadingKeepsEntries DEF Has
  <2>2. (Lookup(k) # {}) = (k \in Dictionary!Present)
    BY <1>8, <2>1
  <2> QED
    BY <1>16, <2>1, <2>2 DEF Has, Dictionary!Has
<1>17. ASSUME NEW k \in Keys, RemoveAbsent(k) PROVE Dictionary!Remove(k)
  <2>1. Contents' = Contents /\ stage = "idle" /\ stage' = "idle"
    BY <1>4, <1>17, ReadingKeepsEntries DEF RemoveAbsent
  <2>2. (k \in Dictionary!Present) = FALSE
    BY <1>8, <1>17, <2>1 DEF RemoveAbsent
  <2>3. Contents[k] = Absent
    BY <1>2, <1>6, <2>2
  <2>4. [Contents EXCEPT ![k] = Absent] = Contents
    BY <1>2, <2>3
  <2> QED
    BY <1>17, <2>1, <2>2, <2>4 DEF RemoveAbsent, Dictionary!Remove
<1>18. ASSUME NEW k \in Keys, Remove(k) PROVE Dictionary!Remove(k)
  <2>1. /\ \E e \in Held : e.key = k
        /\ \A e : e \in Held' <=> e \in Held /\ e.key # k
    BY <1>18, RemovedEntry
  <2>2. ASSUME NEW j \in Keys
        PROVE  Contents'[j] = IF j = k THEN Absent ELSE Contents[j]
    <3>1. CASE j = k
      BY <1>3, <2>1, <3>1
    <3>2. CASE j # k /\ \E e \in Held : e.key = j
      BY <1>2, <1>3, <2>1, <3>2
    <3>3. CASE j # k /\ ~\E e \in Held : e.key = j
      BY <1>2, <1>3, <2>1, <3>3
    <3> QED
      BY <3>1, <3>2, <3>3
  <2>3. Contents' = [Contents EXCEPT ![k] = Absent]
    BY <1>2, <1>3, <2>2
  <2>4. (k \in Dictionary!Present) = TRUE
    BY <1>6, <2>1
  <2> QED
    BY <1>18, <2>3, <2>4 DEF Remove, Dictionary!Remove
<1>19. CASE Size
  <2>1. Contents' = Contents /\ stage = "idle" /\ stage' = "idle" /\ answer' = <<"size", count>>
    BY <1>4, <1>19, ReadingKeepsEntries DEF Size
  <2> DEFINE f == [p \in Occupied |-> tab[p].key]
  <2>2. f \in Bijection(Occupied, Dictionary!Present)
    <3>1. \A p \in Occupied : tab[p].key \in Dictionary!Present
      BY <1>6, <1>7, <2>1 DEF TableInv, Reachable
    <3>2. \A k \in Dictionary!Present : \E p \in Occupied : tab[p].key = k
      BY <1>6, <1>7, <2>1
    <3>3. f \in [Occupied -> Dictionary!Present]
      BY <3>1
    <3>4. f \in Injection(Occupied, Dictionary!Present)
      BY <3>3 DEF Injection, IsInjective, TableInv, OneSlotForEachKey
    <3>5. f \in Surjection(Occupied, Dictionary!Present)
      BY <3>2, <3>3 DEF Surjection
    <3> QED
      BY <3>4, <3>5 DEF Bijection
  <2>3. Cardinality(Dictionary!Present) = Cardinality(Occupied)
    <3>1. ExistsBijection(Occupied, Dictionary!Present)
      BY <2>2 DEF ExistsBijection
    <3>2. IsFiniteSet(Occupied)
      BY SlotsAreFinite DEF TableInv, TypeOK
    <3> QED
      BY <3>1, <3>2, FS_Bijection
  <2>4. count = Cardinality(Dictionary!Present)
    BY <2>3 DEF TableInv, Counted
  <2>5. Dictionary!Cardinality(Dictionary!Present) = Cardinality(Dictionary!Present)
    BY Zenon DEF Dictionary!Cardinality, Cardinality
  <2>6. Dictionary!Size
    BY <2>1, <2>4, <2>5 DEF Dictionary!Size
  <2> QED
    BY <2>6 DEF Dictionary!Next
<1>20. CASE ListKeys
  <2>1. Contents' = Contents /\ stage = "idle" /\ stage' = "idle"
    BY <1>4, <1>20, ReadingKeepsEntries DEF ListKeys
  <2>2. {tab[p].key : p \in Occupied} = Dictionary!Present
    BY <1>6, <1>7, <2>1 DEF TableInv, Reachable
  <2>3. Dictionary!ListKeys
    BY <1>20, <2>1, <2>2 DEF ListKeys, Dictionary!ListKeys
  <2> QED
    BY <2>3 DEF Dictionary!Next
<1>21. CASE UNCHANGED vars
  <2>1. UNCHANGED <<stage, capacity, count, tombs, tab, held, put, old, next>> /\ answer' = answer
    BY <1>21 DEF vars
  <2> QED
    BY <1>4, <2>1, ReadingKeepsEntries
<1>22. ASSUME NEW k \in Keys, Get(k) \/ Has(k) \/ Remove(k) \/ RemoveAbsent(k) PROVE Dictionary!Next
  <2>1. Dictionary!Get(k) \/ Dictionary!Has(k) \/ Dictionary!Remove(k)
    BY <1>15, <1>16, <1>17, <1>18, <1>22
  <2> QED
    BY <2>1 DEF Dictionary!Next
<1> QED
  BY <1>9, <1>10, <1>11, <1>12, <1>13, <1>14, <1>19, <1>20, <1>21, <1>22 DEF Next

(* For its callers the map is a dictionary, whatever its keys, their hashes *)
(* and the capacity it starts with (hashmap.l1).                            *)
THEOREM MapIsADictionary == Spec => ImplementsStringMap
<1>1. Init => Dictionary!Init
  <2> SUFFICES ASSUME Init PROVE Dictionary!Init
    OBVIOUS
  <2>1. Held = {}
    <3>1. capacity \in Nat /\ tab = Blank(capacity) /\ TableInv /\ stage # "moving"
      BY InitTable DEF Init
    <3> QED
      BY <3>1, BlankIsEmpty, EntriesAtRest
  <2>2. Contents = Dictionary!Nobody
    BY <2>1 DEF Contents, Dictionary!Nobody
  <2> QED
    BY <2>2 DEF Init, Dictionary!Init, Dictionary!Done, Done
<1>2. Init => TableInv
  BY InitTable
<1>3. TableInv /\ [Next]_vars => TableInv'
  BY NextTable
<1>4. TableInv /\ [Next]_vars => [Dictionary!Next]_(Dictionary!mvars)
  BY NextDictionary
<1> QED
  BY <1>1, <1>2, <1>3, <1>4, PTL DEF Spec, ImplementsStringMap, Dictionary!Spec
=============================================================================
