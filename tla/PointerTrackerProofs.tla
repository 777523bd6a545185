------------------------ MODULE PointerTrackerProofs ------------------------
(***************************************************************************)
(* For any heap, literals, sizes, call sites and limits: the tracker is    *)
(* exact.  The invariant relates the table to what malloc has handed out:  *)
(* every tracked record describes storage that exists, no two of them      *)
(* overlap, but for literals that share their end, every block that the    *)
(* program or the quarantine holds has its record, and the quarantine is   *)
(* a list of its records without repetition whose sizes add up to bytes.   *)
(* It is stated of any table f, heap h and queue q, so that a step that    *)
(* enters one record and retires another is taken in two.                  *)
(***************************************************************************)
EXTENDS PointerTracker, NaturalsInduction, WellFoundedInduction, TLAPS

RecordType ==
  [base : Nat, size : Nat, generation : 0 .. MaxGeneration, state : States,
   kind : Kinds, read_only : BOOLEAN]

Tables == [Records -> RecordType]
Heaps == [Heap -> [size : Nat, holder : Holders]]

In(f, r) == f[r].state # "pooled"

(* The storage that record x describes exists in heap h. *)
Owned(x, h) ==
  /\ x.kind \in {"raw", "new"} /\ ~x.read_only
  /\ x.base \in Heap /\ h[x.base].size = x.size
  /\ h[x.base].holder = IF x.state = "live" THEN "program" ELSE "quarantine"

Counted(x, h) ==
  /\ x.kind = "arc" /\ x.state = "live" /\ x.read_only
  /\ x.base \in Heap /\ h[x.base].size = x.size /\ h[x.base].holder = "string"

Borrowed(x, h) ==
  /\ x.kind = "foreign" /\ x.state = "live"
  /\ \E b \in Heap : /\ h[b].holder = "external"
                     /\ b <= x.base /\ End(x) <= b + h[b].size

Literal(x) ==
  /\ x.kind = "static" /\ x.state = "live" /\ x.read_only
  /\ \E l \in Literals : l.base = x.base /\ l.size = x.size

Just(x, h) ==
  x.size > 0 /\ (Owned(x, h) \/ Counted(x, h) \/ Borrowed(x, h) \/ Literal(x))

(* Blocks are in the heap, and apart from each other. *)
HeapOK(h) ==
  /\ \A a \in Heap : h[a].holder # "nobody" =>
       /\ h[a].size > 0
       /\ \A x \in Nat : a <= x /\ x < a + h[a].size => x \in Heap
  /\ \A a, b \in Heap :
       h[a].holder # "nobody" /\ h[b].holder # "nobody" /\ a < b => a + h[a].size <= b

TableOK(f, h) ==
  /\ \A r \in Records : In(f, r) => Just(f[r], h)
  /\ \A r, s \in Records : In(f, r) /\ In(f, s) /\ f[r].base = f[s].base => r = s
  /\ \A r, s \in Records :
       /\ In(f, r) /\ In(f, s) /\ f[r].kind = "foreign" /\ f[s].kind = "foreign"
       /\ Meet(f[r], f[s])
       => r = s

HeldOK(f, h) ==
  \A a \in Heap : h[a].holder \in {"program", "quarantine"} =>
    \E r \in Records : In(f, r) /\ f[r].kind \in {"raw", "new"} /\ f[r].base = a

QueueOK(f, q) ==
  /\ \A i, j \in 1 .. Len(q) : q[i] = q[j] => i = j
  /\ \A r \in Records : f[r].state = "quarantined" <=> \E i \in 1 .. Len(q) : q[i] = r

(* t counts up the sizes in the queue. *)
CountsUp(t, f, q) ==
  /\ t \in [0 .. Len(q) -> Nat]
  /\ t[0] = 0
  /\ \A i \in 1 .. Len(q) : t[i] = t[i - 1] + f[q[i]].size
  /\ \A i, j \in 0 .. Len(q) : i <= j => t[i] <= t[j]

BytesOK(f, q, b) == \E t : CountsUp(t, f, q) /\ t[Len(q)] = b

StateOK(f, h) == f \in Tables /\ h \in Heaps /\ HeapOK(h) /\ TableOK(f, h) /\ HeldOK(f, h)

TrackerInv ==
  /\ TypeOK
  /\ StateOK(records, heap)
  /\ QueueOK(records, queue)
  /\ BytesOK(records, queue, bytes)
  /\ count = Len(queue)
  /\ pc # "duplicate"

-----------------------------------------------------------------------------
(* What the assumption on the constants says of addresses. *)
LEMMA Constants ==
  /\ Heap \subseteq Nat /\ Sizes \subseteq Nat /\ (\A n \in Sizes : n > 0)
  /\ \A l \in Literals :
       /\ l.base \in Nat /\ l.size \in Nat /\ l.size > 0
       /\ \A x \in Nat : l.base <= x /\ x < l.base + l.size => x \notin Heap
  /\ \A l, m \in Literals :
       l.base < m.base + m.size /\ m.base < l.base + l.size =>
         l.base + l.size = m.base + m.size
  /\ MaxGeneration \in Nat /\ MaxGeneration > 0
  /\ MaxBytes \in Nat /\ MaxCount \in Nat /\ NoRecord \notin Records
<1>1. ASSUME NEW l \in Literals
      PROVE  /\ l.base \in Nat /\ l.size \in Nat /\ l.size > 0
             /\ \A x \in Nat : l.base <= x /\ x < l.base + l.size => x \notin Heap
  <2>1. l \in [base : Nat, size : Nat \ {0}]
    BY TrackerAssumption
  <2>2. l.base .. (End(l) - 1) \cap Heap = {}
    BY TrackerAssumption
  <2>3. \A x \in Nat : l.base <= x /\ x < l.base + l.size => x \in l.base .. (End(l) - 1)
    BY <2>1 DEF End
  <2> QED
    BY <2>1, <2>2, <2>3
<1>2. ASSUME NEW l \in Literals, NEW m \in Literals,
             l.base < m.base + m.size, m.base < l.base + l.size
      PROVE  l.base + l.size = m.base + m.size
  BY <1>2, TrackerAssumption DEF Meet, End
<1> QED
  BY <1>1, <1>2, TrackerAssumption

(* The fields of a record of a table. *)
LEMMA Typed ==
  ASSUME NEW f \in Tables, NEW r \in Records
  PROVE  /\ f[r].base \in Nat /\ f[r].size \in Nat /\ f[r].state \in States
         /\ f[r].kind \in Kinds /\ f[r].read_only \in BOOLEAN
         /\ f[r].generation \in 0 .. MaxGeneration
  BY DEF Tables, RecordType

(* The fields of a block of a heap. *)
LEMMA HeapTyped ==
  ASSUME NEW h \in Heaps, NEW a \in Heap
  PROVE  h[a].size \in Nat /\ h[a].holder \in Holders /\ a \in Nat
  BY Constants DEF Heaps

(* A record that describes no literal lies in one block, at its base       *)
(* unless it is foreign.                                                   *)
LEMMA Home ==
  ASSUME NEW f \in Tables, NEW h \in Heaps, TableOK(f, h),
         NEW r \in Records, In(f, r), f[r].kind # "static"
  PROVE  \E b \in Heap :
           /\ h[b].holder # "nobody"
           /\ b <= f[r].base /\ f[r].base + f[r].size <= b + h[b].size
           /\ h[b].holder = "external" <=> f[r].kind = "foreign"
           /\ f[r].kind # "foreign" => b = f[r].base /\ h[b].size = f[r].size
<1>1. Just(f[r], h)
  BY DEF TableOK
<1>2. ~Literal(f[r])
  BY DEF Literal
<1>3. CASE Owned(f[r], h)
  <2>1. f[r].base \in Heap /\ h[f[r].base].size = f[r].size
        /\ h[f[r].base].holder \in {"program", "quarantine"} /\ f[r].kind # "foreign"
    BY <1>3 DEF Owned
  <2>2. f[r].base \in Nat /\ f[r].size \in Nat
    BY Typed
  <2> QED
    BY <2>1, <2>2
<1>4. CASE Counted(f[r], h)
  <2>1. f[r].base \in Heap /\ h[f[r].base].size = f[r].size
        /\ h[f[r].base].holder = "string" /\ f[r].kind # "foreign"
    BY <1>4 DEF Counted
  <2>2. f[r].base \in Nat /\ f[r].size \in Nat
    BY Typed
  <2> QED
    BY <2>1, <2>2
<1>5. CASE Borrowed(f[r], h)
  BY <1>5 DEF Borrowed, End
<1> QED
  BY <1>1, <1>2, <1>3, <1>4, <1>5 DEF Just

(* Tracked records that overlap are one, or literals that share their end. *)
LEMMA Overlapping ==
  ASSUME NEW f \in Tables, NEW h \in Heaps, HeapOK(h), TableOK(f, h),
         NEW r \in Records, NEW s \in Records, In(f, r), In(f, s),
         Meet(f[r], f[s])
  PROVE  \/ r = s
         \/ /\ f[r].kind = "static" /\ f[s].kind = "static"
            /\ f[r].state = "live" /\ f[s].state = "live"
            /\ f[r].read_only /\ f[s].read_only
            /\ End(f[r]) = End(f[s])
<1>1. /\ f[r].base \in Nat /\ f[r].size \in Nat /\ f[s].base \in Nat /\ f[s].size \in Nat
      /\ f[r].base < f[s].base + f[s].size /\ f[s].base < f[r].base + f[r].size
  BY Typed DEF Meet, End
<1>2. Just(f[r], h) /\ Just(f[s], h)
  BY DEF TableOK
<1>3. ASSUME NEW x \in Records, NEW y \in Records, In(f, x), In(f, y),
             f[x].kind = "static", f[y].kind # "static",
             f[x].base < f[y].base + f[y].size, f[y].base < f[x].base + f[x].size
      PROVE  FALSE
  <2>1. PICK l \in Literals : l.base = f[x].base /\ l.size = f[x].size
    BY <1>3 DEF TableOK, Just, Owned, Counted, Borrowed, Literal
  <2>2. PICK b \in Heap : h[b].holder # "nobody" /\ b <= f[y].base
                          /\ f[y].base + f[y].size <= b + h[b].size
    BY <1>3, Home
  <2>3. f[x].base \in Nat /\ f[x].size \in Nat /\ f[y].base \in Nat /\ f[y].size \in Nat
        /\ b \in Nat /\ h[b].size \in Nat
    BY Typed, HeapTyped
  <2>4. PICK a \in Nat : a = IF f[x].base < f[y].base THEN f[y].base ELSE f[x].base
    BY <2>3
  <2>5. l.base <= a /\ a < l.base + l.size /\ b <= a /\ a < b + h[b].size
    <3>1. CASE f[x].base < f[y].base
      <4>1. a = f[y].base
        BY <2>4, <3>1
      <4>2. f[y].size > 0
        BY <1>3 DEF TableOK, Just
      <4> QED
        BY <4>1, <4>2, <3>1, <1>3, <2>1, <2>2, <2>3
    <3>2. CASE ~(f[x].base < f[y].base)
      <4>1. a = f[x].base
        BY <2>4, <3>2
      <4>2. f[x].size > 0
        BY <1>3 DEF TableOK, Just
      <4> QED
        BY <4>1, <4>2, <3>2, <1>3, <2>1, <2>2, <2>3
    <3> QED
      BY <3>1, <3>2
  <2> QED
    BY <2>2, <2>5, Constants DEF HeapOK
<1>4. CASE f[r].kind = "static" /\ f[s].kind = "static"
  <2>1. Literal(f[r]) /\ Literal(f[s])
    BY <1>2, <1>4 DEF Just, Owned, Counted, Borrowed
  <2>2. PICK l \in Literals : l.base = f[r].base /\ l.size = f[r].size
    BY <2>1 DEF Literal
  <2>3. PICK m \in Literals : m.base = f[s].base /\ m.size = f[s].size
    BY <2>1 DEF Literal
  <2>4. l.base + l.size = m.base + m.size
    BY <1>1, <2>2, <2>3, Constants
  <2> QED
    BY <2>1, <2>2, <2>3, <2>4, <1>4 DEF Literal, End
<1>5. CASE f[r].kind # "static" /\ f[s].kind # "static"
  <2>1. PICK b \in Heap :
           /\ h[b].holder # "nobody"
           /\ b <= f[r].base /\ f[r].base + f[r].size <= b + h[b].size
           /\ h[b].holder = "external" <=> f[r].kind = "foreign"
           /\ f[r].kind # "foreign" => b = f[r].base /\ h[b].size = f[r].size
    BY <1>5, Home
  <2>2. PICK c \in Heap :
           /\ h[c].holder # "nobody"
           /\ c <= f[s].base /\ f[s].base + f[s].size <= c + h[c].size
           /\ h[c].holder = "external" <=> f[s].kind = "foreign"
           /\ f[s].kind # "foreign" => c = f[s].base /\ h[c].size = f[s].size
    BY <1>5, Home
  <2>3. b \in Nat /\ c \in Nat /\ h[b].size \in Nat /\ h[c].size \in Nat
    BY HeapTyped
  <2>4. b = c
    <3>1. ~(b < c)
      <4>1. b < c => b + h[b].size <= c
        BY <2>1, <2>2 DEF HeapOK
      <4> QED
        BY <4>1, <1>1, <2>1, <2>2, <2>3
    <3>2. ~(c < b)
      <4>1. c < b => c + h[c].size <= b
        BY <2>1, <2>2 DEF HeapOK
      <4> QED
        BY <4>1, <1>1, <2>1, <2>2, <2>3
    <3> QED
      BY <3>1, <3>2, <2>3
  <2>5. CASE f[r].kind = "foreign"
    BY <2>1, <2>2, <2>4, <2>5 DEF TableOK
  <2>6. CASE f[r].kind # "foreign"
    BY <2>1, <2>2, <2>4, <2>6 DEF TableOK
  <2> QED
    BY <2>5, <2>6
<1> QED
  BY <1>1, <1>3, <1>4, <1>5

-----------------------------------------------------------------------------
(* Storage that appears, changes hands and disappears.                     *)

(* What stays true of a record while its storage stays. *)
LEMMA StillJust ==
  ASSUME NEW x, NEW h, NEW g, Just(x, h), x.kind # "foreign",
         x.base \in Heap => g[x.base] = h[x.base]
  PROVE  Just(x, g)
  BY DEF Just, Owned, Counted, Borrowed, Literal

(* What stays true of a foreign record while foreign blocks stay. *)
LEMMA StillLent ==
  ASSUME NEW x, NEW h, NEW g, Just(x, h), x.kind = "foreign",
         \A b \in Heap : h[b].holder = "external" => g[b] = h[b]
  PROVE  Just(x, g)
  BY DEF Just, Owned, Counted, Borrowed, Literal

(* malloc returns storage apart from all blocks. *)
LEMMA Allocating ==
  ASSUME NEW h \in Heaps, HeapOK(h), NEW a \in Heap, NEW n \in Sizes,
         a .. (a + n - 1) \subseteq Heap,
         \A b \in Heap : h[b].holder # "nobody" =>
           ~(a < b + h[b].size /\ b < a + n),
         NEW who \in Holders
  PROVE  LET g == [h EXCEPT ![a] = [size |-> n, holder |-> who]]
         IN  /\ g \in Heaps /\ HeapOK(g)
             /\ h[a].holder = "nobody"
             /\ \A b \in Heap : h[b].holder # "nobody" => g[b] = h[b]
             /\ \A b \in Heap : b # a => g[b] = h[b]
             /\ g[a].size = n /\ g[a].holder = who
<1> DEFINE g == [h EXCEPT ![a] = [size |-> n, holder |-> who]]
<1>1. n \in Nat /\ n > 0 /\ a \in Nat
  BY Constants
<1>2. g \in Heaps
  BY <1>1 DEF Heaps
<1>3. h[a].holder = "nobody"
  BY <1>1, HeapTyped DEF HeapOK
<1>4. (\A b \in Heap : b # a => g[b] = h[b]) /\ g[a].size = n /\ g[a].holder = who
  BY DEF Heaps
<1> HIDE DEF g
<1>5. ASSUME NEW b \in Heap, g[b].holder # "nobody"
      PROVE  /\ g[b].size > 0
             /\ \A x \in Nat : b <= x /\ x < b + g[b].size => x \in Heap
  <2>1. CASE b = a
    <3>1. \A x \in Nat : b <= x /\ x < b + n => x \in a .. (a + n - 1)
      BY <2>1, <1>1
    <3> QED
      BY <3>1, <2>1, <1>1, <1>4
  <2>2. CASE b # a
    BY <1>4, <1>5, <2>2 DEF HeapOK
  <2> QED
    BY <2>1, <2>2
<1>6. ASSUME NEW b \in Heap, NEW c \in Heap,
             g[b].holder # "nobody", g[c].holder # "nobody", b < c
      PROVE  b + g[b].size <= c
  <2> b \in Nat /\ c \in Nat /\ h[b].size \in Nat /\ h[c].size \in Nat
    BY HeapTyped
  <2>1. CASE b = a
    <3>1. c # a /\ h[c].holder # "nobody"
      BY <2>1, <1>6, <1>4
    <3>2. ~(a < c + h[c].size /\ c < a + n)
      BY <3>1
    <3> QED
      BY <3>1, <3>2, <2>1, <1>4, <1>1, <1>6
  <2>2. CASE c = a
    <3>1. b # a /\ h[b].holder # "nobody"
      BY <2>2, <1>6, <1>4
    <3>2. ~(a < b + h[b].size /\ b < a + n)
      BY <3>1
    <3> QED
      BY <3>1, <3>2, <2>2, <1>4, <1>1, <1>6
  <2>3. CASE b # a /\ c # a
    BY <2>3, <1>4, <1>6 DEF HeapOK
  <2> QED
    BY <2>1, <2>2, <2>3
<1>7. HeapOK(g)
  BY <1>5, <1>6 DEF HeapOK
<1>8. \A b \in Heap : h[b].holder # "nobody" => g[b] = h[b]
  BY <1>3, <1>4
<1> QED
  BY <1>2, <1>3, <1>4, <1>7, <1>8 DEF g

(* New storage has no record yet. *)
LEMMA Untracked ==
  ASSUME NEW f, NEW h, StateOK(f, h), NEW a \in Heap, h[a].holder = "nobody",
         \A b \in Heap : h[b].holder # "nobody" => ~(b <= a /\ a < b + h[b].size),
         NEW r \in Records, In(f, r)
  PROVE  f[r].base # a
<1>1. SUFFICES ASSUME f[r].base = a PROVE FALSE
  OBVIOUS
<1>2. f \in Tables /\ h \in Heaps /\ TableOK(f, h)
  BY DEF StateOK
<1>3. f[r].size > 0 /\ f[r].size \in Nat /\ a \in Nat
  BY <1>2, Typed, Constants DEF TableOK, Just
<1>4. CASE f[r].kind = "static"
  <2>1. Literal(f[r])
    BY <1>2, <1>4 DEF TableOK, Just, Owned, Counted, Borrowed
  <2>2. PICK l \in Literals : l.base = a /\ l.size = f[r].size
    BY <2>1, <1>1 DEF Literal
  <2>3. l.base <= a /\ a < l.base + l.size
    BY <2>2, <1>3
  <2> QED
    BY <2>3, <1>3, Constants
<1>5. CASE f[r].kind # "static"
  <2>1. PICK b \in Heap : /\ h[b].holder # "nobody"
                          /\ b <= f[r].base /\ f[r].base + f[r].size <= b + h[b].size
    BY <1>2, <1>5, Home
  <2>2. b \in Nat /\ h[b].size \in Nat
    BY <1>2, HeapTyped
  <2>3. b <= a /\ a < b + h[b].size
    BY <2>1, <2>2, <1>1, <1>3
  <2> QED
    BY <2>1, <2>3
<1> QED
  BY <1>4, <1>5

(* A block that no record describes comes into the heap. *)
LEMMA Arriving ==
  ASSUME NEW f, NEW h, StateOK(f, h), NEW g \in Heaps, HeapOK(g),
         \A b \in Heap : h[b].holder # "nobody" => g[b] = h[b],
         \A b \in Heap : h[b].holder = "nobody" =>
           g[b].holder \notin {"program", "quarantine"}
  PROVE  StateOK(f, g)
<1>1. \A r \in Records : In(f, r) => Just(f[r], g)
  <2> TAKE r \in Records
  <2> HAVE In(f, r)
  <2>1. Just(f[r], h)
    BY DEF StateOK, TableOK
  <2>2. CASE f[r].kind = "foreign"
    BY <2>1, <2>2, StillLent
  <2>3. CASE f[r].kind # "foreign"
    <3>1. f[r].kind # "static" => f[r].base \in Heap /\ h[f[r].base].holder # "nobody"
      BY <2>1, <2>3 DEF Just, Owned, Counted, Borrowed, Literal
    <3>2. CASE f[r].kind = "static"
      BY <2>1, <3>2 DEF Just, Owned, Counted, Borrowed, Literal
    <3>3. CASE f[r].kind # "static"
      BY <2>1, <2>3, <3>1, <3>3, StillJust
    <3> QED
      BY <3>2, <3>3
  <2> QED
    BY <2>2, <2>3
<1>2. HeldOK(f, g)
  BY DEF StateOK, HeldOK
<1> QED
  BY <1>1, <1>2 DEF StateOK, TableOK

(* A record of storage that had none is entered. *)
LEMMA Entering ==
  ASSUME NEW f, NEW h, StateOK(f, h), NEW k \in Tables, NEW g \in Heaps, HeapOK(g),
         NEW r \in Records, ~In(f, r), In(k, r),
         \A s \in Records : s # r => k[s] = f[s],
         \A s \in Records : In(f, s) => f[s].base # k[r].base,
         \A b \in Heap : h[b].holder # "nobody" => g[b] = h[b],
         \A b \in Heap : h[b].holder = "nobody" /\ g[b].holder \in {"program", "quarantine"}
           => b = k[r].base /\ k[r].kind \in {"raw", "new"},
         Just(k[r], g),
         k[r].kind = "foreign" =>
           \A s \in Records : In(f, s) /\ f[s].kind = "foreign" =>
             ~Meet(f[s], k[r]) /\ ~Meet(k[r], f[s])
  PROVE  StateOK(k, g)
<1>1. \A s \in Records : In(k, s) => Just(k[s], g)
  <2> TAKE s \in Records
  <2> HAVE In(k, s)
  <2>1. CASE s = r
    BY <2>1
  <2>2. CASE s # r
    <3>1. k[s] = f[s] /\ In(f, s)
      BY <2>2 DEF In
    <3>2. Just(f[s], h)
      BY <3>1 DEF StateOK, TableOK
    <3>3. f[s].kind # "static" /\ f[s].kind # "foreign" =>
            f[s].base \in Heap /\ h[f[s].base].holder # "nobody"
      BY <3>2 DEF Just, Owned, Counted, Borrowed, Literal
    <3>4. CASE f[s].kind = "static"
      BY <3>1, <3>2, <3>4 DEF Just, Owned, Counted, Borrowed, Literal
    <3>5. CASE f[s].kind = "foreign"
      BY <3>1, <3>2, <3>5, StillLent
    <3>6. CASE f[s].kind # "static" /\ f[s].kind # "foreign"
      BY <3>1, <3>2, <3>3, <3>6, StillJust
    <3> QED
      BY <3>4, <3>5, <3>6
  <2> QED
    BY <2>1, <2>2
<1>2. \A s, t \in Records : In(k, s) /\ In(k, t) /\ k[s].base = k[t].base => s = t
  BY DEF StateOK, TableOK, In
<1>3. \A s, t \in Records :
        In(k, s) /\ In(k, t) /\ k[s].kind = "foreign" /\ k[t].kind = "foreign"
        /\ Meet(k[s], k[t]) => s = t
  BY DEF StateOK, TableOK, In
<1>4. HeldOK(k, g)
  <2> SUFFICES ASSUME NEW a \in Heap, g[a].holder \in {"program", "quarantine"}
               PROVE  \E s \in Records :
                        In(k, s) /\ k[s].kind \in {"raw", "new"} /\ k[s].base = a
    BY DEF HeldOK
  <2>1. CASE h[a].holder = "nobody"
    BY <2>1
  <2>2. CASE h[a].holder # "nobody"
    <3>1. PICK s \in Records : In(f, s) /\ f[s].kind \in {"raw", "new"} /\ f[s].base = a
      BY <2>2 DEF StateOK, HeldOK
    <3>2. s # r /\ k[s] = f[s]
      BY <3>1
    <3> QED
      BY <3>1, <3>2 DEF In
  <2> QED
    BY <2>1, <2>2
<1> QED
  BY <1>1, <1>2, <1>3, <1>4 DEF StateOK, TableOK

(* The program hands its block to the quarantine. *)
LEMMA Retiring ==
  ASSUME NEW f, NEW h, StateOK(f, h), NEW r \in Records,
         f[r].state = "live", f[r].kind \in {"raw", "new"}
  PROVE  /\ f[r].base \in Heap
         /\ StateOK([f EXCEPT ![r].state = "quarantined"],
                    [h EXCEPT ![f[r].base].holder = "quarantine"])
<1> DEFINE k == [f EXCEPT ![r].state = "quarantined"]
           g == [h EXCEPT ![f[r].base].holder = "quarantine"]
<1>1. In(f, r) /\ f \in Tables /\ h \in Heaps
  BY DEF In, StateOK
<1>2. Just(f[r], h)
  BY <1>1 DEF StateOK, TableOK
<1>3. Owned(f[r], h)
  BY <1>2 DEF Just, Counted, Borrowed, Literal
<1>4. f[r].base \in Heap /\ h[f[r].base].holder = "program" /\ h[f[r].base].size = f[r].size
  BY <1>3 DEF Owned
<1>5. k \in Tables
  BY <1>1 DEF Tables, RecordType, States
<1>6. g \in Heaps
  BY <1>1, <1>4 DEF Heaps, Holders
<1>7. /\ \A s \in Records : s # r => k[s] = f[s]
      /\ k[r].base = f[r].base /\ k[r].size = f[r].size /\ k[r].kind = f[r].kind
      /\ k[r].read_only = f[r].read_only /\ k[r].state = "quarantined"
  BY <1>1 DEF Tables, RecordType
<1>8. /\ \A b \in Heap : b # f[r].base => g[b] = h[b]
      /\ g[f[r].base].size = f[r].size /\ g[f[r].base].holder = "quarantine"
      /\ \A b \in Heap : g[b].size = h[b].size
      /\ \A b \in Heap : g[b].holder # "nobody" <=> h[b].holder # "nobody"
  BY <1>1, <1>4 DEF Heaps
<1> HIDE DEF k, g
<1>9. HeapOK(g)
  BY <1>8 DEF StateOK, HeapOK
<1>10. \A s \in Records : In(k, s) => Just(k[s], g)
  <2> TAKE s \in Records
  <2> HAVE In(k, s)
  <2>1. CASE s = r
    BY <2>1, <1>2, <1>3, <1>4, <1>7, <1>8 DEF Just, Owned
  <2>2. CASE s # r
    <3>1. k[s] = f[s] /\ In(f, s)
      BY <2>2, <1>7 DEF In
    <3>2. Just(f[s], h) /\ f[s].base # f[r].base
      BY <3>1, <2>2, <1>1 DEF StateOK, TableOK
    <3>3. CASE f[s].kind = "foreign"
      BY <3>1, <3>2, <3>3, <1>4, <1>8, StillLent
    <3>4. CASE f[s].kind # "foreign"
      BY <3>1, <3>2, <3>4, <1>8, StillJust
    <3> QED
      BY <3>3, <3>4
  <2> QED
    BY <2>1, <2>2
<1>11. \A s \in Records : (In(k, s) <=> In(f, s)) /\ k[s].base = f[s].base
                          /\ k[s].size = f[s].size /\ k[s].kind = f[s].kind
  BY <1>1, <1>7 DEF In
<1>12. TableOK(k, g)
  BY <1>10, <1>11 DEF StateOK, TableOK, Meet, End
<1>13. HeldOK(k, g)
  BY <1>1, <1>4, <1>8, <1>11 DEF StateOK, HeldOK
<1> QED
  BY <1>4, <1>5, <1>6, <1>9, <1>12, <1>13 DEF StateOK, k, g

(* Records leave the table, and storage the heap, each with the other. *)
LEMMA Leaving ==
  ASSUME NEW f, NEW h, StateOK(f, h), NEW k \in Tables, NEW g \in Heaps,
         \A r \in Records : In(k, r) => k[r] = f[r],
         \A b \in Heap : g[b].holder # "nobody" => g[b] = h[b],
         \A r \in Records : In(k, r) => Just(f[r], g),
         \A r \in Records : In(f, r) /\ ~In(k, r) /\ f[r].kind \in {"raw", "new"} =>
           g[f[r].base].holder = "nobody"
  PROVE  StateOK(k, g)
<1>1. \A r \in Records : In(k, r) => In(f, r)
  BY DEF In
<1>2. HeapOK(g)
  BY DEF StateOK, HeapOK
<1>3. TableOK(k, g)
  BY <1>1 DEF StateOK, TableOK
<1>4. HeldOK(k, g)
  <2> SUFFICES ASSUME NEW a \in Heap, g[a].holder \in {"program", "quarantine"}
               PROVE  \E s \in Records :
                        In(k, s) /\ k[s].kind \in {"raw", "new"} /\ k[s].base = a
    BY DEF HeldOK
  <2>1. PICK s \in Records : In(f, s) /\ f[s].kind \in {"raw", "new"} /\ f[s].base = a
    BY DEF StateOK, HeldOK
  <2>2. In(k, s)
    BY <2>1
  <2> QED
    BY <2>1, <2>2
<1> QED
  BY <1>2, <1>3, <1>4 DEF StateOK

-----------------------------------------------------------------------------
(* The queue and its totals.                                               *)

(* What is in a queue of records. *)
LEMMA Queued ==
  ASSUME NEW q \in Seq(Records)
  PROVE  Len(q) \in Nat /\ \A i \in 1 .. Len(q) : q[i] \in Records
  OBVIOUS

(* What the quarantine does not see. *)
LEMMA Unmoved ==
  ASSUME NEW f \in Tables, NEW k \in Tables, NEW q \in Seq(Records), NEW b,
         QueueOK(f, q), BytesOK(f, q, b),
         \A r \in Records : k[r].state = "quarantined" <=> f[r].state = "quarantined",
         \A r \in Records : f[r].state = "quarantined" => k[r].size = f[r].size
  PROVE  QueueOK(k, q) /\ BytesOK(k, q, b)
<1>1. QueueOK(k, q)
  BY DEF QueueOK
<1>2. PICK t : CountsUp(t, f, q) /\ t[Len(q)] = b
  BY DEF BytesOK
<1>3. \A i \in 1 .. Len(q) : k[q[i]].size = f[q[i]].size
  BY Queued DEF QueueOK
<1>4. CountsUp(t, k, q)
  BY <1>2, <1>3 DEF CountsUp
<1> QED
  BY <1>1, <1>2, <1>4 DEF BytesOK

(* A live record joins the end of the queue, and its size the total. *)
LEMMA Appending ==
  ASSUME NEW f \in Tables, NEW k \in Tables, NEW q \in Seq(Records), NEW b \in Nat,
         QueueOK(f, q), BytesOK(f, q, b), NEW r \in Records,
         f[r].state = "live", k[r].state = "quarantined", k[r].size = f[r].size,
         \A s \in Records : s # r =>
           (k[s].state = "quarantined" <=> f[s].state = "quarantined"),
         \A s \in Records : f[s].state = "quarantined" => k[s].size = f[s].size
  PROVE  /\ QueueOK(k, Append(q, r))
         /\ BytesOK(k, Append(q, r), b + f[r].size)
         /\ Append(q, r) \in Seq(Records) /\ Len(Append(q, r)) = Len(q) + 1
<1> DEFINE p == Append(q, r)
<1>1. /\ p \in Seq(Records) /\ Len(p) = Len(q) + 1 /\ Len(q) \in Nat
      /\ \A i \in 1 .. Len(q) : p[i] = q[i]
      /\ p[Len(q) + 1] = r
  OBVIOUS
<1> HIDE DEF p
<1>2. \A i \in 1 .. Len(q) : q[i] \in Records /\ f[q[i]].state = "quarantined" /\ q[i] # r
  BY Queued DEF QueueOK
<1>3. QueueOK(k, p)
  <2>1. ASSUME NEW i \in 1 .. Len(p), NEW j \in 1 .. Len(p), p[i] = p[j] PROVE i = j
    <3>1. CASE i \in 1 .. Len(q) /\ j \in 1 .. Len(q)
      BY <3>1, <2>1, <1>1 DEF QueueOK
    <3>2. CASE i = Len(q) + 1 \/ j = Len(q) + 1
      BY <3>2, <2>1, <1>1, <1>2
    <3> QED
      BY <3>1, <3>2, <1>1
  <2>2. ASSUME NEW s \in Records, k[s].state = "quarantined"
        PROVE  \E i \in 1 .. Len(p) : p[i] = s
    <3>1. CASE s = r
      BY <3>1, <1>1
    <3>2. CASE s # r
      <4>1. PICK i \in 1 .. Len(q) : q[i] = s
        BY <2>2, <3>2 DEF QueueOK
      <4>2. i \in 1 .. Len(p) /\ p[i] = s
        BY <4>1, <1>1
      <4> QED
        BY <4>2
    <3> QED
      BY <3>1, <3>2
  <2>3. ASSUME NEW i \in 1 .. Len(p) PROVE k[p[i]].state = "quarantined"
    <3>1. CASE i \in 1 .. Len(q)
      BY <3>1, <1>1, <1>2
    <3>2. CASE i = Len(q) + 1
      BY <3>2, <1>1
    <3> QED
      BY <3>1, <3>2, <1>1
  <2>4. \A s \in Records : k[s].state = "quarantined" <=> \E i \in 1 .. Len(p) : p[i] = s
    BY <2>2, <2>3
  <2>5. \A i, j \in 1 .. Len(p) : p[i] = p[j] => i = j
    BY <2>1
  <2> QED
    BY <2>4, <2>5 DEF QueueOK
<1>4. PICK t : CountsUp(t, f, q) /\ t[Len(q)] = b
  BY DEF BytesOK
<1> DEFINE n == Len(q)
           u == [i \in 0 .. (n + 1) |-> IF i = n + 1 THEN b + f[r].size ELSE t[i]]
<1>5. /\ f[r].size \in Nat /\ t \in [0 .. n -> Nat] /\ t[0] = 0 /\ t[n] = b /\ n \in Nat
      /\ \A i \in 1 .. n : t[i] = t[i - 1] + f[q[i]].size
      /\ \A i, j \in 0 .. n : i <= j => t[i] <= t[j]
  BY <1>1, <1>4, Typed DEF CountsUp
<1>6. /\ u \in [0 .. (n + 1) -> Nat] /\ u[n + 1] = b + f[r].size
      /\ \A i \in 0 .. n : u[i] = t[i]
  BY <1>5
<1> HIDE DEF u, n
<1>7. \A i \in 1 .. (n + 1) : u[i] = u[i - 1] + k[p[i]].size
  <2> TAKE i \in 1 .. (n + 1)
  <2>1. CASE i \in 1 .. n
    <3>1. i - 1 \in 0 .. n /\ i \in 0 .. n
      BY <2>1, <1>5
    <3>2. p[i] = q[i] /\ k[q[i]].size = f[q[i]].size
      BY <2>1, <1>1, <1>2 DEF n
    <3> QED
      BY <2>1, <3>1, <3>2, <1>5, <1>6
  <2>2. CASE i = n + 1
    <3>1. i - 1 = n /\ n \in 0 .. n
      BY <2>2, <1>5
    <3>2. p[i] = r
      BY <2>2, <1>1 DEF n
    <3> QED
      BY <2>2, <3>1, <3>2, <1>5, <1>6
  <2> QED
    BY <2>1, <2>2, <1>5
<1>8. \A i, j \in 0 .. (n + 1) : i <= j => u[i] <= u[j]
  <2> TAKE i, j \in 0 .. (n + 1)
  <2> HAVE i <= j
  <2>1. CASE j \in 0 .. n
    BY <2>1, <1>5, <1>6
  <2>2. CASE j = n + 1 /\ i = n + 1
    BY <2>2, <1>6
  <2>3. CASE j = n + 1 /\ i \in 0 .. n
    <3>1. t[i] <= t[n] /\ t[i] \in Nat
      BY <2>3, <1>5
    <3> QED
      BY <2>3, <3>1, <1>5, <1>6
  <2> QED
    BY <2>1, <2>2, <2>3, <1>5
<1>9. CountsUp(u, k, p) /\ u[Len(p)] = b + f[r].size
  <2>1. Len(p) = n + 1 /\ 0 \in 0 .. n
    BY <1>1, <1>5 DEF n
  <2> QED
    BY <2>1, <1>5, <1>6, <1>7, <1>8 DEF CountsUp
<1> QED
  BY <1>1, <1>3, <1>9 DEF BytesOK, p

(* The head of the queue leaves it, and its size the total. *)
LEMMA Popping ==
  ASSUME NEW f \in Tables, NEW k \in Tables, NEW q \in Seq(Records), NEW b \in Nat,
         QueueOK(f, q), BytesOK(f, q, b), q # <<>>,
         k[Head(q)].state # "quarantined",
         \A s \in Records : s # Head(q) =>
           k[s].state = f[s].state /\ k[s].size = f[s].size
  PROVE  /\ Head(q) \in Records /\ f[Head(q)].state = "quarantined"
         /\ QueueOK(k, Tail(q))
         /\ BytesOK(k, Tail(q), b - f[Head(q)].size)
         /\ b - f[Head(q)].size \in Nat
         /\ Tail(q) \in Seq(Records) /\ Len(Tail(q)) = Len(q) - 1
         /\ Len(q) - 1 \in Nat
<1> DEFINE p == Tail(q)
           r == Head(q)
           n == Len(p)
<1>1. /\ p \in Seq(Records) /\ Len(q) = n + 1 /\ n \in Nat
      /\ \A i \in 1 .. n : p[i] = q[i + 1] /\ i + 1 \in 1 .. Len(q)
      /\ r = q[1] /\ 1 \in 1 .. Len(q) /\ r \in Records
  OBVIOUS
<1> HIDE DEF p, r, n
<1>2. f[r].state = "quarantined"
  BY <1>1 DEF QueueOK
<1>3. \A i \in 1 .. n : p[i] \in Records /\ f[p[i]].state = "quarantined" /\ p[i] # r
  <2> TAKE i \in 1 .. n
  <2>1. p[i] = q[i + 1] /\ i + 1 \in 1 .. Len(q) /\ i + 1 # 1
    BY <1>1
  <2> QED
    BY <2>1, <1>1, Queued DEF QueueOK
<1>4. QueueOK(k, p)
  <2>1. ASSUME NEW i \in 1 .. n, NEW j \in 1 .. n, p[i] = p[j] PROVE i = j
    <3>1. i + 1 = j + 1
      BY <2>1, <1>1 DEF QueueOK
    <3> QED
      BY <3>1
  <2>2. ASSUME NEW s \in Records, k[s].state = "quarantined"
        PROVE  \E i \in 1 .. n : p[i] = s
    <3>1. s # r /\ f[s].state = "quarantined"
      BY <2>2 DEF r
    <3>2. PICK i \in 1 .. Len(q) : q[i] = s
      BY <3>1 DEF QueueOK
    <3>3. i # 1
      BY <3>1, <3>2, <1>1
    <3>4. i - 1 \in 1 .. n /\ (i - 1) + 1 = i
      BY <3>3, <1>1
    <3> QED
      BY <3>2, <3>4, <1>1
  <2>3. ASSUME NEW i \in 1 .. n PROVE k[p[i]].state = "quarantined"
    BY <1>3 DEF r
  <2> QED
    BY <2>1, <2>2, <2>3 DEF QueueOK, n
<1>5. PICK t : CountsUp(t, f, q) /\ t[Len(q)] = b
  BY DEF BytesOK
<1>6. /\ f[r].size \in Nat /\ t \in [0 .. (n + 1) -> Nat] /\ t[0] = 0 /\ t[n + 1] = b
      /\ \A i \in 1 .. (n + 1) : t[i] = t[i - 1] + f[q[i]].size
      /\ \A i, j \in 0 .. (n + 1) : i <= j => t[i] <= t[j]
  BY <1>1, <1>5, Typed DEF CountsUp
<1>7. t[1] = f[r].size
  <2>1. 1 \in 1 .. (n + 1) /\ 1 - 1 = 0
    BY <1>1
  <2> QED
    BY <2>1, <1>1, <1>6
<1> DEFINE u == [i \in 0 .. n |-> t[i + 1] - t[1]]
<1>8. \A i \in 0 .. n : /\ i + 1 \in 0 .. (n + 1) /\ t[i + 1] \in Nat
                        /\ t[1] <= t[i + 1] /\ u[i] = t[i + 1] - t[1]
  <2> TAKE i \in 0 .. n
  <2>1. i + 1 \in 0 .. (n + 1) /\ 1 \in 0 .. (n + 1) /\ 1 <= i + 1
    BY <1>1
  <2> QED
    BY <2>1, <1>6
<1>9. u \in [0 .. n -> Nat] /\ u[0] = 0 /\ u[n] = b - f[r].size
  <2>1. \A i \in 0 .. n : u[i] \in Nat
    BY <1>6, <1>7, <1>8
  <2>2. 0 \in 0 .. n /\ n \in 0 .. n
    BY <1>1
  <2>3. u[0] = 0
    BY <2>2, <1>6, <1>7, <1>8
  <2>4. u[n] = b - f[r].size
    BY <2>2, <1>6, <1>7, <1>8
  <2> QED
    BY <2>1, <2>3, <2>4
<1> HIDE DEF u
<1>10. \A i \in 1 .. n : u[i] = u[i - 1] + k[p[i]].size
  <2> TAKE i \in 1 .. n
  <2>1. i - 1 \in 0 .. n /\ i \in 0 .. n /\ i + 1 \in 1 .. (n + 1) /\ (i - 1) + 1 = i
        /\ (i + 1) - 1 = i
    BY <1>1
  <2>2. t[i + 1] = t[i] + f[q[i + 1]].size
    BY <2>1, <1>6
  <2>3. k[p[i]].size = f[q[i + 1]].size /\ k[p[i]].size \in Nat
    <3>1. p[i] = q[i + 1] /\ p[i] \in Records /\ p[i] # r
      BY <1>1, <1>3
    <3> QED
      BY <3>1, Typed DEF r
  <2>4. u[i] = t[i + 1] - t[1] /\ u[i - 1] = t[i] - t[1] /\ t[i] \in Nat /\ t[i + 1] \in Nat
    BY <2>1, <1>8
  <2> QED
    BY <2>2, <2>3, <2>4, <1>6, <1>7
<1>11. \A i, j \in 0 .. n : i <= j => u[i] <= u[j]
  <2> TAKE i, j \in 0 .. n
  <2> HAVE i <= j
  <2>1. t[i + 1] <= t[j + 1] /\ t[i + 1] \in Nat /\ t[j + 1] \in Nat
    BY <1>6, <1>8, <1>1, SMTT(30)
  <2> QED
    BY <2>1, <1>6, <1>7, <1>8
<1>12. CountsUp(u, k, p)
  BY <1>9, <1>10, <1>11 DEF CountsUp, n
<1>13. u[n] \in Nat
  BY <1>1, <1>9
<1> QED
  BY <1>1, <1>2, <1>4, <1>9, <1>12, <1>13 DEF BytesOK, p, r, n

(* The total that the queue's sizes define is the one counted up. *)
LEMMA TotalIsCounted ==
  ASSUME NEW q \in Seq(Records), NEW f, NEW t, CountsUp(t, f, q)
  PROVE  TotalSize(q, f) = t[Len(q)]
<1> DEFINE n == Len(q)
           Total[i \in 0 .. n] == IF i = 0 THEN 0 ELSE Total[i - 1] + f[q[i]].size
           Step(T) == [i \in 0 .. n |-> IF i = 0 THEN 0 ELSE T[i - 1] + f[q[i]].size]
<1>1. TotalSize(q, f) = Total[n]
  BY DEF TotalSize
<1>2. n \in Nat
  OBVIOUS
<1>3. t = Step(t)
  <2>1. \A i \in 0 .. n : t[i] = Step(t)[i]
    BY <1>2 DEF CountsUp
  <2> QED
    BY <2>1 DEF CountsUp
<1>4. Total = CHOOSE T : T = Step(T)
  OBVIOUS
<1> HIDE DEF Total
<1>5. Total = Step(Total)
  BY <1>3, <1>4
<1>6. \A i \in 0 .. n : Total[i] = IF i = 0 THEN 0 ELSE Total[i - 1] + f[q[i]].size
  BY <1>5
<1>7. \A i \in 0 .. n : Total[i] = t[i]
  <2> DEFINE Wrong == {i \in Nat : i <= n /\ Total[i] # t[i]}
             R == {ss \in Nat \X Nat : ss[1] < ss[2]}
  <2>1. SUFFICES ASSUME Wrong # {} PROVE FALSE
    BY <1>2
  <2>2. IsWellFoundedOn(R, Nat)
    BY NatLessThanWellFounded DEF OpToRel
  <2>3. \A x, y \in Nat : <<y, x>> \in R <=> y < x
    OBVIOUS
  <2>4. Wrong \subseteq Nat
    OBVIOUS
  <2> HIDE DEF R, Wrong
  <2>5. PICK i \in Wrong : \A j \in Wrong : <<j, i>> \notin R
    BY <2>1, <2>2, <2>4, WFMin
  <2>6. i \in Nat /\ i <= n /\ Total[i] # t[i]
    BY DEF Wrong
  <2>7. CASE i = 0
    BY <2>6, <2>7, <1>2, <1>6 DEF CountsUp
  <2>8. CASE i # 0
    <3>1. i - 1 \in Nat /\ i - 1 < i /\ i - 1 <= n /\ i \in 0 .. n /\ i \in 1 .. n
      BY <2>6, <2>8, <1>2
    <3>2. Total[i - 1] = t[i - 1]
      BY <3>1, <2>3, <2>5, <2>6 DEF Wrong
    <3> QED
      BY <2>6, <2>8, <3>1, <3>2, <1>6 DEF CountsUp
  <2> QED
    BY <2>7, <2>8
<1>8. n \in 0 .. n
  BY <1>2
<1> QED
  BY <1>1, <1>7, <1>8

-----------------------------------------------------------------------------
(* One step at a time.                                                     *)

(* The parts of the invariant that the steps below cite. *)
LEMMA InvFacts ==
  ASSUME TrackerInv
  PROVE  /\ TypeOK /\ records \in Tables /\ heap \in Heaps /\ queue \in Seq(Records)
         /\ bytes \in Nat /\ count \in Nat /\ generation \in 1 .. MaxGeneration
         /\ NextGeneration \in 1 .. MaxGeneration
         /\ StateOK(records, heap) /\ HeapOK(heap) /\ TableOK(records, heap)
         /\ HeldOK(records, heap)
         /\ QueueOK(records, queue) /\ BytesOK(records, queue, bytes)
  BY Constants DEF TrackerInv, TypeOK, StateOK, NextGeneration, Tables, RecordType, Heaps

(* The initial table and heap are empty. *)
LEMMA InitHolds == Init => TrackerInv
<1> SUFFICES ASSUME Init PROVE TrackerInv
  OBVIOUS
<1>1. TypeOK
  BY Constants DEF Init, TypeOK, States, Kinds, Holders, Nothing
<1>2. records \in Tables /\ heap \in Heaps
  BY <1>1 DEF TypeOK, Tables, RecordType, Heaps
<1>3. /\ \A r \in Records : ~In(records, r) /\ records[r].state # "quarantined"
      /\ \A a \in Heap : heap[a].holder = "nobody"
  BY DEF Init, In, Nothing
<1>4. StateOK(records, heap)
  BY <1>2, <1>3 DEF StateOK, HeapOK, TableOK, HeldOK
<1>5. queue = <<>> /\ Len(queue) = 0 /\ bytes = 0 /\ count = 0 /\ pc = "running"
  BY DEF Init
<1>6. QueueOK(records, queue)
  BY <1>3, <1>5 DEF QueueOK
<1>7. CountsUp([i \in 0 .. 0 |-> 0], records, queue)
  BY <1>5 DEF CountsUp
<1>8. BytesOK(records, queue, bytes)
  BY <1>5, <1>7 DEF BytesOK
<1> QED
  BY <1>1, <1>4, <1>5, <1>6, <1>8 DEF TrackerInv

(* What entering a live record leaves alone. *)
LEMMA EntryFacts ==
  ASSUME TrackerInv, NEW r \in Pool, NEW k \in Tables, k[r].state = "live",
         \A s \in Records : s # r => k[s] = records[s]
  PROVE  /\ r \in Records /\ ~In(records, r) /\ In(k, r)
         /\ QueueOK(k, queue) /\ BytesOK(k, queue, bytes)
<1>1. r \in Records /\ records[r].state = "pooled" /\ ~In(records, r)
  BY DEF Pool, Tracked, In
<1>2. /\ \A s \in Records : k[s].state = "quarantined" <=> records[s].state = "quarantined"
      /\ \A s \in Records : records[s].state = "quarantined" => k[s].size = records[s].size
  BY <1>1
<1>3. QueueOK(k, queue) /\ BytesOK(k, queue, bytes)
  BY <1>2, InvFacts, Unmoved
<1> QED
  BY <1>1, <1>3 DEF In

(* The fields of an entry. *)
LEMMA EntryTyped ==
  ASSUME TrackerInv, NEW a \in Nat, NEW n \in Nat, NEW kind \in Kinds, NEW ro \in BOOLEAN
  PROVE  /\ Entry(a, n, kind, ro) \in RecordType
         /\ Entry(a, n, kind, ro).base = a /\ Entry(a, n, kind, ro).size = n
         /\ Entry(a, n, kind, ro).kind = kind /\ Entry(a, n, kind, ro).state = "live"
         /\ Entry(a, n, kind, ro).read_only = ro
  BY InvFacts, Constants DEF Entry, RecordType, States

(* Tracking keeps the invariant if the table and the heap still agree. *)
LEMMA TrackKeeps ==
  ASSUME TrackerInv, NEW r, NEW a \in Nat, NEW n \in Nat,
         NEW kind \in Kinds, NEW ro \in BOOLEAN,
         Track(r, a, n, kind, ro), AtBase(a) = {},
         StateOK(records', heap')
  PROVE  TrackerInv'
<1>1. r \in Pool /\ records' = [records EXCEPT ![r] = Entry(a, n, kind, ro)]
      /\ generation' = NextGeneration /\ pc' = "running"
      /\ UNCHANGED <<queue, bytes, count, site>>
  BY DEF Track, Enter
<1>2. QueueOK(records', queue) /\ BytesOK(records', queue, bytes)
  <2> DEFINE e == Entry(a, n, kind, ro)
  <2>1. e \in RecordType /\ e.state = "live"
    BY EntryTyped
  <2> HIDE DEF e
  <2>2. records' = [records EXCEPT ![r] = e]
    BY <1>1 DEF e
  <2>3. records' \in Tables /\ records'[r].state = "live"
        /\ \A s \in Records : s # r => records'[s] = records[s]
    BY <1>1, <2>1, <2>2, InvFacts DEF Tables, Pool
  <2> QED
    BY <1>1, <2>3, EntryFacts
<1>3. records' \in Tables /\ heap' \in Heaps
  BY DEF StateOK
<1>4. TypeOK'
  BY <1>1, <1>3, InvFacts DEF TypeOK, Tables, RecordType, Heaps
<1> QED
  BY <1>1, <1>2, <1>4 DEF TrackerInv

(* What malloc returns is new to the heap and to the table. *)
LEMMA FreshFacts ==
  ASSUME TrackerInv, NEW a \in Heap, NEW n \in Sizes, Fresh(a, n), NEW who \in Holders
  PROVE  LET g == Given(a, n, who)
         IN  /\ g \in Heaps /\ HeapOK(g) /\ heap[a].holder = "nobody"
             /\ \A b \in Heap : heap[b].holder # "nobody" => g[b] = heap[b]
             /\ \A b \in Heap : b # a => g[b] = heap[b]
             /\ g[a].size = n /\ g[a].holder = who
             /\ \A r \in Records : In(records, r) => records[r].base # a
             /\ AtBase(a) = {}
<1>1. a .. (a + n - 1) \subseteq Heap
  BY DEF Fresh
<1>2. \A b \in Heap : heap[b].holder # "nobody" => ~(a < b + heap[b].size /\ b < a + n)
  BY DEF Fresh, Blocks, Meet, End, Block
<1>3. heap \in Heaps /\ HeapOK(heap) /\ StateOK(records, heap)
  BY InvFacts
<1>4. LET g == [heap EXCEPT ![a] = [size |-> n, holder |-> who]]
      IN  /\ g \in Heaps /\ HeapOK(g)
          /\ heap[a].holder = "nobody"
          /\ \A b \in Heap : heap[b].holder # "nobody" => g[b] = heap[b]
          /\ \A b \in Heap : b # a => g[b] = heap[b]
          /\ g[a].size = n /\ g[a].holder = who
  BY <1>1, <1>2, <1>3, Allocating
<1>5. \A b \in Heap : heap[b].holder # "nobody" => ~(b <= a /\ a < b + heap[b].size)
  BY <1>2, <1>3, Constants, HeapTyped
<1>6. \A r \in Records : In(records, r) => records[r].base # a
  BY <1>3, <1>4, <1>5, Untracked
<1>7. AtBase(a) = {}
  BY <1>6 DEF AtBase, Tracked, In
<1> QED
  BY <1>4, <1>6, <1>7 DEF Given

(* A block with its record. *)
LEMMA Granting ==
  ASSUME TrackerInv, NEW r \in Pool, NEW a \in Heap, NEW n \in Sizes, Fresh(a, n),
         NEW kind \in {"raw", "new"}
  PROVE  StateOK([records EXCEPT ![r] = Entry(a, n, kind, FALSE)], Given(a, n, "program"))
<1> DEFINE k == [records EXCEPT ![r] = Entry(a, n, kind, FALSE)]
           g == Given(a, n, "program")
<1>1. a \in Nat /\ n \in Nat /\ n > 0 /\ kind \in Kinds /\ "program" \in Holders
  BY Constants DEF Kinds, Holders
<1>2. /\ r \in Records /\ ~In(records, r) /\ In(k, r) /\ k \in Tables
      /\ k[r].base = a /\ k[r].size = n /\ k[r].kind = kind
      /\ k[r].state = "live" /\ k[r].read_only = FALSE
      /\ \A s \in Records : s # r => k[s] = records[s]
  <2> DEFINE e == Entry(a, n, kind, FALSE)
  <2>1. /\ e \in RecordType /\ e.base = a /\ e.size = n /\ e.kind = kind
        /\ e.state = "live" /\ e.read_only = FALSE
    BY <1>1, EntryTyped, InvFacts, Constants DEF Entry, RecordType, States
  <2> HIDE DEF e
  <2>2. k = [records EXCEPT ![r] = e]
    BY DEF e
  <2> HIDE DEF k
  <2>3. k \in Tables /\ k[r] = e /\ \A s \in Records : s # r => k[s] = records[s]
    BY <2>1, <2>2, InvFacts DEF Tables, Pool
  <2> QED
    BY <2>1, <2>3, EntryFacts
<1>3. /\ g \in Heaps /\ HeapOK(g)
      /\ \A b \in Heap : heap[b].holder # "nobody" => g[b] = heap[b]
      /\ \A b \in Heap : b # a => g[b] = heap[b]
      /\ g[a].size = n /\ g[a].holder = "program"
      /\ \A s \in Records : In(records, s) => records[s].base # a
  BY <1>1, FreshFacts
<1> HIDE DEF k, g
<1>4. Just(k[r], g)
  BY <1>1, <1>2, <1>3 DEF Just, Owned
<1>5. \A b \in Heap : heap[b].holder = "nobody" /\ g[b].holder \in {"program", "quarantine"}
        => b = k[r].base /\ k[r].kind \in {"raw", "new"}
  BY <1>2, <1>3
<1>6. k[r].kind # "foreign"
  BY <1>2
<1>7. StateOK(k, g)
  BY <1>2, <1>3, <1>4, <1>5, <1>6, InvFacts, Entering
<1> QED
  BY <1>7 DEF k, g

(* rt_alloc, rt_calloc and new. *)
LEMMA AllocKeeps ==
  ASSUME TrackerInv, NEW r \in Records, NEW a \in Heap, NEW n \in Sizes,
         NEW kind \in {"raw", "new"}, Alloc(r, a, n, kind)
  PROVE  TrackerInv'
<1>1. Fresh(a, n) /\ Track(r, a, n, kind, FALSE) /\ heap' = Given(a, n, "program")
  BY DEF Alloc
<1>2. r \in Pool /\ records' = [records EXCEPT ![r] = Entry(a, n, kind, FALSE)]
  BY <1>1 DEF Track, Enter
<1>3. StateOK(records', heap')
  BY <1>1, <1>2, Granting
<1>4. AtBase(a) = {}
  BY <1>1, FreshFacts DEF Holders
<1>5. a \in Nat /\ n \in Nat /\ kind \in Kinds
  BY Constants DEF Kinds
<1> QED
  BY <1>1, <1>3, <1>4, <1>5, TrackKeeps

(* Only the heap gets a block: a new string, or foreign storage. *)
LEMMA ArrivalKeeps ==
  ASSUME TrackerInv, NEW a \in Heap, NEW n \in Sizes, Fresh(a, n),
         NEW who \in {"string", "external"}, heap' = Given(a, n, who),
         UNCHANGED <<records, queue, bytes, count, generation, site, pc>>
  PROVE  TrackerInv'
<1>1. who \in Holders
  BY DEF Holders
<1>2. /\ heap' \in Heaps /\ HeapOK(heap')
      /\ \A b \in Heap : heap[b].holder # "nobody" => heap'[b] = heap[b]
      /\ \A b \in Heap : b # a => heap'[b] = heap[b]
      /\ heap'[a].holder = who
  BY <1>1, FreshFacts
<1>3. \A b \in Heap : heap[b].holder = "nobody" =>
        heap'[b].holder \notin {"program", "quarantine"}
  BY <1>2
<1>4. StateOK(records, heap')
  BY <1>2, <1>3, InvFacts, Arriving
<1>5. TypeOK'
  BY <1>2, InvFacts DEF TypeOK, Heaps
<1> QED
  BY <1>4, <1>5, InvFacts DEF TrackerInv

(* The release of one block of the program. *)
LEMMA QuarantineKeeps ==
  ASSUME TrackerInv, NEW r \in Tracked, records[r].kind \in {"raw", "new"}, Live(r),
         Quarantine(r)
  PROVE  TrackerInv'
<1>1. r \in Records /\ records[r].state = "live"
  BY DEF Tracked, Live
<1>2. /\ records' = [records EXCEPT ![r].state = "quarantined"]
      /\ heap' = [heap EXCEPT ![records[r].base].holder = "quarantine"]
      /\ queue' = Append(queue, r) /\ bytes' = bytes + records[r].size /\ count' = count + 1
      /\ UNCHANGED <<generation, site, pc>>
  BY DEF Quarantine, Enqueue
<1>3. StateOK(records', heap')
  BY <1>1, <1>2, InvFacts, Retiring
<1>4. /\ records' \in Tables /\ records'[r].state = "quarantined"
      /\ records'[r].size = records[r].size
      /\ \A s \in Records : s # r => records'[s] = records[s]
  BY <1>1, <1>2, <1>3, InvFacts DEF StateOK, Tables, RecordType
<1>5. /\ QueueOK(records', queue') /\ BytesOK(records', queue', bytes')
      /\ queue' \in Seq(Records) /\ Len(queue') = Len(queue) + 1
  <2>1. /\ \A s \in Records : s # r =>
             (records'[s].state = "quarantined" <=> records[s].state = "quarantined")
        /\ \A s \in Records :
             records[s].state = "quarantined" => records'[s].size = records[s].size
    BY <1>1, <1>4
  <2>2. /\ records \in Tables /\ queue \in Seq(Records) /\ bytes \in Nat
        /\ QueueOK(records, queue) /\ BytesOK(records, queue, bytes)
    BY InvFacts
  <2>3. /\ QueueOK(records', Append(queue, r))
        /\ BytesOK(records', Append(queue, r), bytes + records[r].size)
        /\ Append(queue, r) \in Seq(Records) /\ Len(Append(queue, r)) = Len(queue) + 1
    BY <1>1, <1>4, <2>1, <2>2, Appending
  <2> QED
    BY <1>2, <2>3
<1>6. records[r].size \in Nat
  BY <1>1, InvFacts, Typed
<1>7. TypeOK'
  BY <1>2, <1>3, <1>5, <1>6, InvFacts, SMTT(30) DEF StateOK, TypeOK, Tables, RecordType, Heaps
<1> QED
  BY <1>2, <1>3, <1>5, <1>7 DEF TrackerInv

(* A panic changes nothing but pc. *)
LEMMA PanicKeeps ==
  ASSUME TrackerInv, Panic
  PROVE  TrackerInv'
<1>1. UNCHANGED <<records, queue, bytes, count, generation, site, heap>> /\ pc' = "panicked"
  BY DEF Panic
<1> QED
  BY <1>1, InvFacts DEF TrackerInv, TypeOK

(* rt_free quarantines a live raw block, or panics. *)
LEMMA FreeKeeps ==
  ASSUME TrackerInv, NEW a, Free(a)
  PROVE  TrackerInv'
  BY QuarantineKeeps, PanicKeeps DEF Free, Releasable, AtBase

(* drop quarantines a live object of that size, or panics. *)
LEMMA DropKeeps ==
  ASSUME TrackerInv, NEW a, NEW n, Drop(a, n)
  PROVE  TrackerInv'
  BY QuarantineKeeps, PanicKeeps DEF Drop, Releasable, AtBase

(* rt_realloc grants one block and retires another. *)
LEMMA ReallocKeeps ==
  ASSUME TrackerInv, NEW a, NEW r \in Records, NEW b \in Heap, NEW n \in Sizes,
         Realloc(a, r, b, n)
  PROVE  TrackerInv'
<1>1. CASE Releasable(a, "raw") = {} /\ Panic
  BY <1>1, PanicKeeps
<1>2. CASE ~(Releasable(a, "raw") = {} /\ Panic)
  <2>1. PICK old \in Releasable(a, "raw") :
          /\ Fresh(b, n)
          /\ Enter(r, b, n, "raw", FALSE)
          /\ Enqueue(old)
          /\ records' = [records EXCEPT ![r] = Entry(b, n, "raw", FALSE),
                                        ![old].state = "quarantined"]
          /\ heap' = [Given(b, n, "program") EXCEPT ![a].holder = "quarantine"]
          /\ UNCHANGED site
    BY <1>2 DEF Realloc
  <2>2. /\ old \in Records /\ records[old].state = "live" /\ records[old].kind = "raw"
        /\ records[old].base = a /\ In(records, old)
    BY DEF Releasable, AtBase, Tracked, Live, In
  <2> DEFINE k == [records EXCEPT ![r] = Entry(b, n, "raw", FALSE)]
             g == Given(b, n, "program")
  <2>3. r \in Pool /\ generation' = NextGeneration /\ AtBase(b) = {} /\ pc' = "running"
    <3>1. AtBase(b) = {}
      BY <2>1, FreshFacts DEF Holders
    <3> QED
      BY <2>1, <3>1 DEF Enter
  <2>4. b \in Nat /\ n \in Nat /\ "raw" \in Kinds
    BY Constants DEF Kinds
  <2>5. StateOK(k, g)
    BY <2>1, <2>3, Granting
  <2>6. /\ ~In(records, r) /\ k \in Tables
        /\ \A s \in Records : s # r => k[s] = records[s]
        /\ QueueOK(k, queue) /\ BytesOK(k, queue, bytes)
    <3> DEFINE e == Entry(b, n, "raw", FALSE)
    <3>1. e \in RecordType /\ e.state = "live"
      BY <2>4, InvFacts, Constants DEF Entry, RecordType, States
    <3> HIDE DEF e
    <3>2. k = [records EXCEPT ![r] = e]
      BY DEF e
    <3> HIDE DEF k
    <3>3. k \in Tables /\ k[r] = e /\ \A s \in Records : s # r => k[s] = records[s]
      BY <2>3, <3>1, <3>2, InvFacts DEF Tables, Pool
    <3> QED
      BY <2>3, <3>1, <3>3, EntryFacts
  <2>7. old # r /\ k[old] = records[old]
    BY <2>2, <2>6
  <2>8. /\ records' = [k EXCEPT ![old].state = "quarantined"]
        /\ heap' = [g EXCEPT ![k[old].base].holder = "quarantine"]
    BY <2>1, <2>2, <2>7
  <2> HIDE DEF k, g
  <2>9. StateOK(records', heap')
    BY <2>2, <2>5, <2>7, <2>8, Retiring
  <2>10. /\ records' \in Tables /\ records'[old].state = "quarantined"
         /\ records'[old].size = k[old].size
         /\ \A s \in Records : s # old => records'[s] = k[s]
    BY <2>2, <2>6, <2>8, <2>9 DEF StateOK, Tables, RecordType
  <2>11. queue' = Append(queue, old) /\ bytes' = bytes + k[old].size /\ count' = count + 1
    BY <2>1, <2>7 DEF Enqueue
  <2>12. /\ QueueOK(records', queue') /\ BytesOK(records', queue', bytes')
         /\ queue' \in Seq(Records) /\ Len(queue') = Len(queue) + 1
    <3>1. /\ \A s \in Records : s # old =>
               (records'[s].state = "quarantined" <=> k[s].state = "quarantined")
          /\ \A s \in Records :
               k[s].state = "quarantined" => records'[s].size = k[s].size
      BY <2>2, <2>7, <2>10
    <3>2. queue \in Seq(Records) /\ bytes \in Nat /\ k[old].state = "live"
      BY <2>2, <2>7, InvFacts
    <3>3. /\ QueueOK(records', Append(queue, old))
          /\ BytesOK(records', Append(queue, old), bytes + k[old].size)
          /\ Append(queue, old) \in Seq(Records) /\ Len(Append(queue, old)) = Len(queue) + 1
      BY <2>2, <2>6, <2>10, <3>1, <3>2, Appending
    <3> QED
      BY <2>11, <3>3
  <2>13. k[old].size \in Nat
    BY <2>2, <2>6, Typed
  <2>14. TypeOK'
    <3>1. site' = site /\ records' \in Tables /\ heap' \in Heaps
      BY <2>1, <2>9 DEF StateOK
    <3>2. bytes' \in Nat /\ count' \in Nat
      BY <2>11, <2>13, InvFacts
    <3> QED
      BY <2>3, <2>12, <3>1, <3>2, InvFacts DEF TypeOK, Tables, RecordType, Heaps
  <2> QED
    BY <2>3, <2>9, <2>11, <2>12, <2>14 DEF TrackerInv
<1> QED
  BY <1>1, <1>2

(* A record of storage that is there already is entered: of the bytes of a *)
(* string, of a literal, or of foreign storage.                            *)
LEMMA ExposureKeeps ==
  ASSUME TrackerInv, NEW r, NEW a \in Nat, NEW n \in Nat,
         NEW kind \in Kinds, NEW ro \in BOOLEAN,
         Track(r, a, n, kind, ro), AtBase(a) = {}, heap' = heap,
         Just(Entry(a, n, kind, ro), heap),
         kind = "foreign" => \A s \in Tracked :
           ~Meet(records[s], [base |-> a, size |-> n])
  PROVE  TrackerInv'
<1> DEFINE e == Entry(a, n, kind, ro)
           k == records'
<1>1. r \in Pool /\ r \in Records /\ records' = [records EXCEPT ![r] = e]
  BY DEF Track, Enter, Pool
<1>2. e \in RecordType /\ e.base = a /\ e.size = n /\ e.kind = kind /\ e.state = "live"
  BY EntryTyped
<1> HIDE DEF e
<1>3. k \in Tables /\ k[r] = e /\ \A s \in Records : s # r => k[s] = records[s]
  BY <1>1, <1>2, InvFacts DEF Tables
<1>4. ~In(records, r) /\ In(k, r)
  BY <1>1, <1>2, <1>3, EntryFacts
<1>5. \A s \in Records : In(records, s) => records[s].base # k[r].base
  BY <1>2, <1>3 DEF AtBase, Tracked, In
<1>6. Just(k[r], heap)
  BY <1>3 DEF e
<1>7. k[r].kind = "foreign" =>
        \A s \in Records : In(records, s) /\ records[s].kind = "foreign" =>
          ~Meet(records[s], k[r]) /\ ~Meet(k[r], records[s])
  <2> SUFFICES ASSUME kind = "foreign", NEW s \in Records, In(records, s)
               PROVE  ~Meet(records[s], k[r]) /\ ~Meet(k[r], records[s])
    BY <1>2, <1>3
  <2>1. ~Meet(records[s], [base |-> a, size |-> n])
    BY DEF Tracked, In
  <2> QED
    BY <2>1, <1>2, <1>3 DEF Meet, End
<1>8. heap \in Heaps /\ HeapOK(heap) /\ StateOK(records, heap)
  BY InvFacts
<1> HIDE DEF k
<1>9. StateOK(k, heap)
  <2>1. \A b \in Heap : heap[b].holder = "nobody" /\ heap[b].holder \in {"program", "quarantine"}
          => b = k[r].base /\ k[r].kind \in {"raw", "new"}
    OBVIOUS
  <2> QED
    BY <1>1, <1>3, <1>4, <1>5, <1>6, <1>7, <1>8, <2>1, Entering
<1> QED
  BY <1>9, TrackKeeps DEF k

(* The bytes of a string are a block of their own. *)
LEMMA ExposeStringKeeps ==
  ASSUME TrackerInv, NEW r, NEW a \in Heap, ExposeString(r, a)
  PROVE  TrackerInv'
<1> DEFINE n == heap[a].size
<1>1. heap[a].holder = "string" /\ AtBase(a) = {} /\ heap' = heap
      /\ Track(r, a, n, "arc", TRUE)
  BY DEF ExposeString, HeldBy
<1>2. a \in Nat /\ n \in Nat /\ n > 0
  BY <1>1, InvFacts, HeapTyped DEF HeapOK
<1>3. "arc" \in Kinds
  BY DEF Kinds
<1>4. Just(Entry(a, n, "arc", TRUE), heap)
  BY <1>1, <1>2 DEF Just, Counted, Entry
<1> HIDE DEF n
<1> QED
  BY <1>1, <1>2, <1>3, <1>4, ExposureKeeps

(* The bytes of a literal are outside the heap. *)
LEMMA ExposeLiteralKeeps ==
  ASSUME TrackerInv, NEW r, NEW l \in Literals, ExposeLiteral(r, l)
  PROVE  TrackerInv'
<1>1. AtBase(l.base) = {} /\ heap' = heap /\ Track(r, l.base, l.size, "static", TRUE)
  BY DEF ExposeLiteral
<1>2. l.base \in Nat /\ l.size \in Nat /\ l.size > 0 /\ "static" \in Kinds
  BY Constants DEF Kinds
<1>3. Just(Entry(l.base, l.size, "static", TRUE), heap)
  BY <1>2 DEF Just, Literal, Entry
<1> QED
  BY <1>1, <1>2, <1>3, ExposureKeeps

(* What overlaps a registration begins in it, or holds its first address.  *)
LEMMA RegisterForeignKeeps ==
  ASSUME TrackerInv, NEW r, NEW a \in Heap, NEW n \in Sizes, NEW ro \in BOOLEAN,
         RegisterForeign(r, a, n, ro)
  PROVE  TrackerInv'
<1>1. CASE Panic
  BY <1>1, PanicKeeps
<1>2. CASE ~Panic
  <2>1. /\ AtBase(a) = {} /\ ~Overlaps(a, n) /\ heap' = heap
        /\ Track(r, a, n, "foreign", ro)
    BY <1>2 DEF RegisterForeign
  <2>2. PICK b \in Heap : /\ heap[b].holder = "external"
                          /\ b <= a /\ a + n <= b + heap[b].size
    BY DEF RegisterForeign, HeldBy, Contains, Block, End
  <2>3. a \in Nat /\ n \in Nat /\ n > 0 /\ "foreign" \in Kinds
    BY Constants DEF Kinds
  <2>4. Just(Entry(a, n, "foreign", ro), heap)
    BY <2>2, <2>3 DEF Just, Borrowed, Entry, End
  <2>5. ASSUME NEW s \in Tracked, Meet(records[s], [base |-> a, size |-> n])
        PROVE  FALSE
    <3>1. /\ s \in Records /\ In(records, s) /\ records[s].base \in Nat
          /\ records[s].size \in Nat
      BY InvFacts, Typed DEF Tracked, In
    <3>2. /\ records[s].base < a + n /\ a < records[s].base + records[s].size
      BY <2>5 DEF Meet, End
    <3>3. ~(a <= records[s].base)
      BY <2>1, <3>2 DEF Overlaps
    <3>4. Contains(records[s], a, 1)
      BY <3>1, <3>2, <3>3, <2>3 DEF Contains, End
    <3>5. \A q \in Tracked :
            records[s].base < records[q].base /\ records[q].base <= a =>
              records[q].kind = "static" /\ ~Contains(records[q], a, 1)
      <4> SUFFICES ASSUME NEW q \in Tracked, records[s].base < records[q].base,
                          records[q].base <= a
                   PROVE  FALSE
        OBVIOUS
      <4>1. /\ q \in Records /\ In(records, q) /\ records[q].base \in Nat
            /\ records[q].size \in Nat /\ records[q].size > 0
        BY InvFacts, Typed DEF Tracked, In, TableOK, Just
      <4>2. Meet(records[s], records[q])
        BY <3>1, <3>2, <4>1, <2>3 DEF Meet, End
      <4>3. records[s].kind = "static"
        BY <3>1, <4>1, <4>2, InvFacts, Overlapping
      <4>4. Just(records[s], heap)
        BY <3>1, InvFacts DEF TableOK
      <4>5. Literal(records[s])
        BY <4>3, <4>4 DEF Just, Owned, Counted, Borrowed
      <4>6. PICK l \in Literals : l.base = records[s].base /\ l.size = records[s].size
        BY <4>5 DEF Literal
      <4>7. l.base <= a /\ a < l.base + l.size
        BY <3>1, <3>2, <3>3, <4>6, <2>3
      <4> QED
        BY <4>7, <2>3, Constants
    <3>6. s \in Owners(a, 1)
      BY <3>4, <3>5 DEF Owners
    <3> QED
      BY <3>6, <2>1 DEF Overlaps
  <2> QED
    BY <2>1, <2>3, <2>4, <2>5, ExposureKeeps
<1> QED
  BY <1>1, <1>2

(* Records that leave keep their fields, but for state and generation. *)
LEMMA RecycledFacts ==
  ASSUME TrackerInv, NEW R, records' = Recycled(R)
  PROVE  /\ records' \in Tables
         /\ \A s \in Records : In(records', s) => records'[s] = records[s] /\ s \notin R
         /\ \A s \in Records : s \notin R => records'[s] = records[s]
         /\ \A s \in R \cap Records : records'[s].state = "pooled"
<1>1. \A s \in Records : s \in R =>
        records'[s] \in RecordType /\ records'[s].state = "pooled"
  <2> SUFFICES ASSUME NEW s \in Records, s \in R
               PROVE  records'[s] \in RecordType /\ records'[s].state = "pooled"
    OBVIOUS
  <2>1. records'[s] = [records[s] EXCEPT !.state = "pooled", !.generation = 0]
    BY DEF Recycled
  <2>2. records[s] \in RecordType
    BY InvFacts DEF Tables
  <2>3. "pooled" \in States /\ 0 \in 0 .. MaxGeneration
    BY Constants DEF States
  <2> QED
    BY <2>1, <2>2, <2>3 DEF RecordType
<1>2. \A s \in Records : s \notin R => records'[s] = records[s] /\ records[s] \in RecordType
  BY InvFacts DEF Recycled, Tables
<1>3. records' \in Tables
  BY <1>1, <1>2 DEF Recycled, Tables
<1> QED
  BY <1>1, <1>2, <1>3 DEF In

(* What a step that gives block a to malloc changes. *)
LEMMA Released ==
  ASSUME TrackerInv, NEW a \in Heap, NEW R, R = AtBase(a), records' = Recycled(R),
         heap' = [heap EXCEPT ![a] = Nothing]
  PROVE  /\ records' \in Tables /\ heap' \in Heaps
         /\ heap'[a].holder = "nobody" /\ \A b \in Heap : b # a => heap'[b] = heap[b]
         /\ \A s \in Records : In(records', s) =>
              records'[s] = records[s] /\ In(records, s) /\ records[s].base # a
         /\ \A s \in Records : In(records, s) /\ ~In(records', s) => records[s].base = a
<1>1. /\ records' \in Tables
      /\ \A s \in Records : In(records', s) => records'[s] = records[s] /\ s \notin R
      /\ \A s \in Records : s \notin R => records'[s] = records[s]
  BY RecycledFacts
<1>2. heap' \in Heaps /\ heap'[a].holder = "nobody" /\ \A b \in Heap : b # a => heap'[b] = heap[b]
  BY InvFacts DEF Heaps, Nothing, Holders
<1>3. \A s \in Records : In(records', s) =>
        records'[s] = records[s] /\ In(records, s) /\ records[s].base # a
  BY <1>1 DEF In, AtBase, Tracked
<1>4. \A s \in Records : In(records, s) /\ ~In(records', s) => records[s].base = a
  BY <1>1 DEF In, AtBase
<1> QED
  BY <1>1, <1>2, <1>3, <1>4

(* A block goes back to malloc with the records at its base. *)
LEMMA Dropping ==
  ASSUME TrackerInv, NEW a \in Heap, heap[a].holder \in {"quarantine", "string"},
         NEW k \in Tables, NEW g \in Heaps, g[a].holder = "nobody",
         \A b \in Heap : b # a => g[b] = heap[b],
         \A s \in Records : In(k, s) =>
           k[s] = records[s] /\ In(records, s) /\ records[s].base # a,
         \A s \in Records : In(records, s) /\ ~In(k, s) => records[s].base = a
  PROVE  StateOK(k, g)
<1>1. ASSUME NEW s \in Records, In(k, s)
      PROVE  Just(records[s], g)
  <2>1. In(records, s) /\ records[s].base # a
    BY <1>1
  <2>2. Just(records[s], heap)
    BY <2>1, InvFacts DEF TableOK
  <2>3. CASE records[s].kind = "foreign"
    <3>1. \A b \in Heap : heap[b].holder = "external" => g[b] = heap[b]
      OBVIOUS
    <3> QED
      BY <2>2, <2>3, <3>1, StillLent
  <2>4. CASE records[s].kind # "foreign"
    BY <2>1, <2>2, <2>4, StillJust
  <2> QED
    BY <2>3, <2>4
<1>2. \A b \in Heap : g[b].holder # "nobody" => g[b] = heap[b]
  OBVIOUS
<1>3. \A s \in Records : In(records, s) /\ ~In(k, s) /\ records[s].kind \in {"raw", "new"}
        => g[records[s].base].holder = "nobody"
  OBVIOUS
<1>4. StateOK(records, heap)
  BY InvFacts
<1>5. \A s \in Records : In(k, s) => k[s] = records[s]
  OBVIOUS
<1>6. \A s \in Records : In(k, s) => Just(records[s], g)
  BY <1>1
<1> QED
  BY <1>2, <1>3, <1>4, <1>5, <1>6, Leaving

(* A string takes its record with it, and nothing in the quarantine. *)
LEMMA FreeStringKeeps ==
  ASSUME TrackerInv, NEW a, FreeString(a)
  PROVE  TrackerInv'
<1>1. /\ a \in Heap /\ heap[a].holder = "string"
      /\ heap' = [heap EXCEPT ![a] = Nothing] /\ records' = Recycled(AtBase(a))
      /\ UNCHANGED <<queue, bytes, count, generation, site, pc>>
  BY DEF FreeString, HeldBy
<1>2. StateOK(records', heap')
  <2>1. a \in Heap /\ heap[a].holder \in {"quarantine", "string"}
    BY <1>1
  <2>2. /\ records' \in Tables /\ heap' \in Heaps
        /\ heap'[a].holder = "nobody" /\ \A b \in Heap : b # a => heap'[b] = heap[b]
        /\ \A s \in Records : In(records', s) =>
             records'[s] = records[s] /\ In(records, s) /\ records[s].base # a
        /\ \A s \in Records : In(records, s) /\ ~In(records', s) => records[s].base = a
    BY <1>1, Released
  <2> QED
    BY <2>1, <2>2, Dropping
<1>3. ASSUME NEW s \in AtBase(a) PROVE s \in Records /\ records[s].state = "live"
  <2>1. s \in Records /\ In(records, s) /\ records[s].base = a
    BY DEF AtBase, Tracked, In
  <2>2. Just(records[s], heap)
    BY <2>1, InvFacts DEF TableOK
  <2>3. records[s].state = "quarantined" => heap[a].holder = "quarantine"
    BY <2>1, <2>2 DEF Just, Owned, Counted, Borrowed, Literal
  <2> QED
    BY <2>1, <2>3, <1>1, InvFacts, Typed DEF In, States
<1>4. /\ records' \in Tables
      /\ \A s \in Records : s \notin AtBase(a) => records'[s] = records[s]
      /\ \A s \in AtBase(a) \cap Records : records'[s].state = "pooled"
  BY <1>1, RecycledFacts
<1>5. /\ \A s \in Records : records'[s].state = "quarantined" <=> records[s].state = "quarantined"
      /\ \A s \in Records : records[s].state = "quarantined" => records'[s].size = records[s].size
  BY <1>3, <1>4
<1>6. QueueOK(records', queue) /\ BytesOK(records', queue, bytes)
  BY <1>4, <1>5, InvFacts, Unmoved
<1>7. TypeOK'
  BY <1>1, <1>2, InvFacts DEF StateOK, TypeOK, Tables, RecordType, Heaps
<1> QED
  BY <1>1, <1>2, <1>6, <1>7 DEF TrackerInv

(* Foreign code gives up a block that no registration reaches. *)
LEMMA GiveUpKeeps ==
  ASSUME TrackerInv, NEW a, GiveUp(a)
  PROVE  TrackerInv'
<1>1. /\ a \in Heap /\ heap[a].holder = "external" /\ Registered(a) = {}
      /\ heap' = [heap EXCEPT ![a] = Nothing]
      /\ UNCHANGED <<records, queue, bytes, count, generation, site, pc>>
  BY DEF GiveUp, HeldBy
<1>2. heap' \in Heaps /\ heap'[a].holder = "nobody" /\ \A b \in Heap : b # a => heap'[b] = heap[b]
  BY <1>1, InvFacts DEF Heaps, Nothing, Holders
<1>3. ASSUME NEW s \in Records, In(records, s)
      PROVE  Just(records[s], heap')
  <2>1. Just(records[s], heap)
    BY <1>3, InvFacts DEF TableOK
  <2>2. CASE records[s].kind = "foreign"
    <3>1. PICK b \in Heap : heap[b].holder = "external"
                            /\ b <= records[s].base /\ End(records[s]) <= b + heap[b].size
      BY <2>1, <2>2 DEF Just, Owned, Counted, Borrowed, Literal
    <3>2. /\ records[s].base \in Nat /\ records[s].size \in Nat /\ records[s].size > 0
          /\ b \in Nat /\ heap[b].size \in Nat
      BY <2>1, InvFacts, Typed, HeapTyped DEF Just
    <3>3. b # a
      <4>1. SUFFICES ASSUME b = a PROVE FALSE
        OBVIOUS
      <4>2. Meet(records[s], Block(a))
        BY <4>1, <3>1, <3>2 DEF Meet, End, Block
      <4>3. s \in Registered(a)
        BY <4>2, <2>2, <1>3 DEF Registered, Tracked, In
      <4> QED
        BY <4>3, <1>1
    <3>4. heap'[b] = heap[b]
      BY <3>3, <1>2
    <3>5. records[s].state = "live"
      BY <2>1, <2>2 DEF Just, Owned, Counted, Borrowed, Literal
    <3>6. Borrowed(records[s], heap')
      BY <2>2, <3>1, <3>4, <3>5 DEF Borrowed
    <3> QED
      BY <3>2, <3>6 DEF Just
  <2>3. CASE records[s].kind = "static"
    BY <2>1, <2>3 DEF Just, Owned, Counted, Borrowed, Literal
  <2>4. CASE records[s].kind # "foreign" /\ records[s].kind # "static"
    <3>1. records[s].base # a
      BY <2>1, <2>4, <1>1 DEF Just, Owned, Counted, Borrowed, Literal
    <3> QED
      BY <2>1, <2>4, <3>1, <1>2, StillJust
  <2> QED
    BY <2>2, <2>3, <2>4
<1>4. \A b \in Heap : heap'[b].holder # "nobody" => heap'[b] = heap[b]
  BY <1>2
<1>5. StateOK(records, heap) /\ records \in Tables
  BY InvFacts
<1>6. StateOK(records, heap')
  BY <1>2, <1>3, <1>4, <1>5, Leaving
<1>7. TypeOK'
  BY <1>1, <1>2, InvFacts DEF TypeOK, Heaps
<1> QED
  BY <1>1, <1>6, <1>7, InvFacts DEF TrackerInv

(* A registration ends; the storage stays. *)
LEMMA UnregisterForeignKeeps ==
  ASSUME TrackerInv, NEW a, UnregisterForeign(a)
  PROVE  TrackerInv'
<1>1. CASE Panic
  BY <1>1, PanicKeeps
<1>2. CASE ~Panic
  <2>1. PICK r \in Releasable(a, "foreign") :
          /\ records' = Recycled({r})
          /\ UNCHANGED <<queue, bytes, count, generation, site, heap, pc>>
    BY <1>2 DEF UnregisterForeign
  <2>2. r \in Records /\ records[r].state = "live" /\ records[r].kind = "foreign"
    BY DEF Releasable, AtBase, Tracked, Live
  <2>3. /\ records' \in Tables
        /\ \A s \in Records : In(records', s) => records'[s] = records[s] /\ s \notin {r}
        /\ \A s \in Records : s \notin {r} => records'[s] = records[s]
        /\ \A s \in {r} \cap Records : records'[s].state = "pooled"
    BY <2>1, RecycledFacts
  <2>4. \A s \in Records : In(records', s) => Just(records[s], heap)
    BY <2>3, InvFacts DEF TableOK, In
  <2>5. \A s \in Records : In(records, s) /\ ~In(records', s) => s = r
    BY <2>3 DEF In
  <2>6. StateOK(records', heap)
    BY <2>2, <2>3, <2>4, <2>5, InvFacts, Leaving
  <2>7. /\ \A s \in Records : records'[s].state = "quarantined" <=> records[s].state = "quarantined"
        /\ \A s \in Records : records[s].state = "quarantined" => records'[s].size = records[s].size
    BY <2>2, <2>3
  <2>8. QueueOK(records', queue) /\ BytesOK(records', queue, bytes)
    BY <2>3, <2>7, InvFacts, Unmoved
  <2>9. TypeOK'
    BY <2>1, <2>3, InvFacts DEF TypeOK, Tables, RecordType
  <2> QED
    BY <2>1, <2>6, <2>8, <2>9, InvFacts DEF TrackerInv
<1> QED
  BY <1>1, <1>2

(* Eviction frees the oldest block, whose record nothing else shares. *)
LEMMA EvictKeeps ==
  ASSUME TrackerInv, Evict
  PROVE  TrackerInv'
<1> DEFINE r == Head(queue)
<1>1. /\ queue # <<>> /\ queue' = Tail(queue) /\ bytes' = bytes - records[r].size
      /\ count' = count - 1 /\ records' = Recycled({r})
      /\ heap' = [heap EXCEPT ![records[r].base] = Nothing]
      /\ UNCHANGED <<generation, site, pc>>
  BY DEF Evict, Evicting
<1>2. /\ records' \in Tables
      /\ \A s \in Records : s \notin {r} => records'[s] = records[s]
      /\ \A s \in {r} \cap Records : records'[s].state = "pooled"
  BY <1>1, RecycledFacts
<1>3. r \in Records
  BY <1>1, InvFacts
<1>4. /\ r \in Records /\ records[r].state = "quarantined"
      /\ QueueOK(records', queue') /\ BytesOK(records', queue', bytes')
      /\ bytes' \in Nat /\ queue' \in Seq(Records) /\ Len(queue') = Len(queue) - 1
      /\ Len(queue) - 1 \in Nat
  <2>1. records'[r].state # "quarantined"
    BY <1>2, <1>3
  <2>2. \A s \in Records : s # r =>
          records'[s].state = records[s].state /\ records'[s].size = records[s].size
    BY <1>2
  <2>3. QueueOK(records, queue) /\ BytesOK(records, queue, bytes)
        /\ records \in Tables /\ records' \in Tables
        /\ queue \in Seq(Records) /\ queue # <<>> /\ bytes \in Nat
    BY <1>1, <1>2, InvFacts
  <2>4. /\ r \in Records /\ records[r].state = "quarantined"
        /\ QueueOK(records', Tail(queue))
        /\ BytesOK(records', Tail(queue), bytes - records[r].size)
        /\ bytes - records[r].size \in Nat
        /\ Tail(queue) \in Seq(Records) /\ Len(Tail(queue)) = Len(queue) - 1
        /\ Len(queue) - 1 \in Nat
    BY <2>1, <2>2, <2>3, Popping
  <2>5. queue' = Tail(queue) /\ bytes' = bytes - records[r].size
    BY <1>1
  <2> QED
    BY <2>4, <2>5
<1> HIDE DEF r
<1>5. In(records, r) /\ Just(records[r], heap)
  BY <1>4, InvFacts DEF In, TableOK
<1>6. PICK a \in Heap : a = records[r].base /\ heap[a].holder = "quarantine"
  BY <1>4, <1>5 DEF Just, Owned, Counted, Borrowed, Literal
<1>7. {r} = AtBase(a)
  BY <1>4, <1>5, <1>6, InvFacts DEF AtBase, Tracked, In, TableOK
<1>8. /\ records' \in Tables /\ heap' \in Heaps
      /\ heap'[a].holder = "nobody" /\ \A b \in Heap : b # a => heap'[b] = heap[b]
      /\ \A s \in Records : In(records', s) =>
           records'[s] = records[s] /\ In(records, s) /\ records[s].base # a
      /\ \A s \in Records : In(records, s) /\ ~In(records', s) => records[s].base = a
  <2>1. records' = Recycled({r}) /\ heap' = [heap EXCEPT ![a] = Nothing]
    BY <1>1, <1>6
  <2> QED
    BY <2>1, <1>7, Released
<1>9. StateOK(records', heap')
  <2>1. heap[a].holder \in {"quarantine", "string"}
    BY <1>6
  <2> QED
    BY <2>1, <1>8, Dropping
<1>10. /\ count' = Len(queue') /\ count' \in Nat
       /\ UNCHANGED <<generation, site, pc>>
  BY <1>1, <1>4 DEF TrackerInv
<1>11. TypeOK'
  BY <1>4, <1>8, <1>10, InvFacts DEF TypeOK, Tables, RecordType, Heaps
<1>12. pc # "duplicate"
  BY DEF TrackerInv
<1> QED
  BY <1>4, <1>9, <1>10, <1>11, <1>12 DEF TrackerInv

(* A call site remembers the judge of its last access. *)
LEMMA RememberKeeps ==
  ASSUME TrackerInv, NEW s, NEW r \in Records, Remember(s, r)
  PROVE  TrackerInv'
<1>1. /\ site' = [site EXCEPT ![s] = [owner |-> r, generation |-> records[r].generation]]
      /\ UNCHANGED <<records, queue, bytes, count, generation, heap, pc>>
  BY DEF Remember
<1>2. records[r].generation \in 0 .. MaxGeneration
  BY InvFacts, Typed
<1>3. site' \in [Sites -> [owner : Records \cup {NoRecord}, generation : 0 .. MaxGeneration]]
  BY <1>1, <1>2, InvFacts DEF TypeOK
<1> QED
  BY <1>1, <1>3, InvFacts DEF TrackerInv, TypeOK

(* An access changes a call-site cache or panics. *)
LEMMA UseKeeps ==
  ASSUME TrackerInv, Use
  PROVE  TrackerInv'
<1>1. PICK s \in Sites, a \in Addresses, n \in Sizes, write \in BOOLEAN :
        \/ Access(s, a, n, write)
        \/ \E d \in Offsets : Index(s, a, d, n, write)
  BY DEF Use
<1>2. \A b, m : Judges(b, m) \subseteq Records
  BY DEF Judges, AtBase, Owners, Tracked
<1>3. CASE Access(s, a, n, write)
  BY <1>2, <1>3, RememberKeeps, PanicKeeps DEF Access
<1>4. CASE \E d \in Offsets : Index(s, a, d, n, write)
  BY <1>2, <1>4, RememberKeeps, PanicKeeps DEF Index
<1> QED
  BY <1>1, <1>3, <1>4

(* Every step keeps the invariant. *)
LEMMA StepKeeps ==
  TrackerInv /\ [Next]_vars => TrackerInv'
<1> SUFFICES ASSUME TrackerInv, [Next]_vars PROVE TrackerInv'
  OBVIOUS
<1>1. CASE Allocation
  <2>1. PICK a \in Heap, n \in Sizes :
          \/ NewString(a, n)
          \/ Acquire(a, n)
          \/ \E r \in Records :
               \/ \E kind \in {"raw", "new"} : Alloc(r, a, n, kind)
               \/ \E old \in Addresses : Realloc(old, r, a, n)
    BY <1>1 DEF Allocation
  <2>2. CASE NewString(a, n)
    BY <2>2, ArrivalKeeps DEF NewString
  <2>3. CASE Acquire(a, n)
    BY <2>3, ArrivalKeeps DEF Acquire
  <2>4. CASE \E r \in Records, kind \in {"raw", "new"} : Alloc(r, a, n, kind)
    BY <2>4, AllocKeeps
  <2>5. CASE \E r \in Records, old \in Addresses : Realloc(old, r, a, n)
    BY <2>5, ReallocKeeps
  <2> QED
    BY <2>1, <2>2, <2>3, <2>4, <2>5
<1>2. CASE Release
  BY <1>2, FreeKeeps, DropKeeps, FreeStringKeeps, UnregisterForeignKeeps, GiveUpKeeps
     DEF Release
<1>3. CASE Exposure
  BY <1>3, ExposeStringKeeps, ExposeLiteralKeeps, RegisterForeignKeeps DEF Exposure
<1>4. CASE Use
  BY <1>4, UseKeeps
<1>5. CASE Evict
  BY <1>5, EvictKeeps
<1>6. CASE UNCHANGED vars
  BY <1>6, InvFacts DEF vars, TrackerInv, TypeOK
<1> QED
  BY <1>1, <1>2, <1>3, <1>4, <1>5, <1>6 DEF Next

(* The table and the heap agree at every moment. *)
THEOREM TheTableIsTheHeap == Spec => []TrackerInv
<1>1. Init => TrackerInv
  BY InitHolds
<1>2. TrackerInv /\ [Next]_vars => TrackerInv'
  BY StepKeeps
<1> QED
  BY <1>1, <1>2, PTL DEF Spec

-----------------------------------------------------------------------------
(* What the table decides.                                                 *)

(* A set of natural numbers that is not empty has a least member. *)
LEMMA LeastOf ==
  ASSUME NEW S \in SUBSET Nat, S # {}
  PROVE  \E m \in S : \A k \in S : m <= k
<1> DEFINE R == {ss \in Nat \X Nat : ss[1] < ss[2]}
<1>1. IsWellFoundedOn(R, Nat)
  BY NatLessThanWellFounded DEF OpToRel
<1>2. \A x, y \in Nat : <<y, x>> \in R <=> y < x
  OBVIOUS
<1> HIDE DEF R
<1>3. PICK m \in S : \A k \in S : <<k, m>> \notin R
  BY <1>1, WFMin
<1>4. ASSUME NEW k \in S PROVE m <= k
  <2>1. m \in Nat /\ k \in Nat /\ ~(k < m)
    BY <1>2, <1>3
  <2> QED
    BY <2>1
<1> QED
  BY <1>4

(* What a live record contains is judged by a live record with the same    *)
(* end, and the same right to write.                                       *)
LEMMA JudgeExists ==
  ASSUME TrackerInv, NEW r \in Records, Live(r), NEW a \in Nat, NEW n \in Nat, n > 0,
         Contains(records[r], a, n)
  PROVE  \E j \in Judges(a, n) :
           /\ j \in Records /\ Live(j) /\ records[j].base <= a
           /\ End(records[j]) = End(records[r])
           /\ ~records[r].read_only => ~records[j].read_only
<1>1. /\ In(records, r) /\ records[r].base \in Nat /\ records[r].size \in Nat
      /\ records[r].base <= a /\ a + n <= records[r].base + records[r].size
  BY InvFacts, Typed DEF Live, In, Contains, End
<1>2. ASSUME NEW j \in Tracked, records[j].base <= a, a < End(records[j])
      PROVE  /\ j \in Records /\ Live(j) /\ End(records[j]) = End(records[r])
             /\ ~records[r].read_only => ~records[j].read_only
  <2>1. /\ j \in Records /\ In(records, j) /\ records[j].base \in Nat
        /\ records[j].size \in Nat
    BY InvFacts, Typed DEF Tracked, In
  <2>2. Meet(records[j], records[r])
    BY <1>1, <1>2, <2>1 DEF Meet, End
  <2> QED
    BY <1>1, <2>1, <2>2, InvFacts, Overlapping DEF Live
<1>3. CASE AtBase(a) # {}
  <2>1. PICK j \in AtBase(a) : TRUE
    BY <1>3
  <2>2. j \in Tracked /\ records[j].base = a /\ j \in Judges(a, n)
    BY <1>3, <2>1 DEF AtBase, Judges
  <2>3. a < End(records[j])
    BY <2>2, InvFacts, Typed DEF Tracked, In, TableOK, Just, End
  <2> QED
    BY <1>2, <2>2, <2>3
<1>4. CASE AtBase(a) = {}
  <2> DEFINE Near == {d \in Nat : \E x \in Tracked :
                        Contains(records[x], a, n) /\ d = a - records[x].base}
  <2>1. a - records[r].base \in Near
    BY <1>1 DEF Tracked, In
  <2>2. PICK d \in Near : \A k \in Near : d <= k
    BY <2>1, LeastOf
  <2>3. PICK x \in Tracked : Contains(records[x], a, n) /\ d = a - records[x].base
    OBVIOUS
  <2>4. /\ x \in Records /\ In(records, x) /\ records[x].base \in Nat
        /\ records[x].size \in Nat
        /\ records[x].base <= a /\ a + n <= End(records[x])
    BY <2>3, InvFacts, Typed DEF Tracked, In, Contains
  <2>5. ASSUME NEW q \in Tracked, records[x].base < records[q].base, records[q].base <= a
        PROVE  records[q].kind = "static" /\ ~Contains(records[q], a, n)
    <3>1. /\ q \in Records /\ In(records, q) /\ records[q].base \in Nat
          /\ records[q].size \in Nat
      BY InvFacts, Typed DEF Tracked, In
    <3>2. Meet(records[x], records[q])
      BY <2>4, <2>5, <3>1 DEF Meet, End
    <3>3. x # q
      BY <2>4, <2>5
    <3>4. records[q].kind = "static"
      BY <2>4, <3>1, <3>2, <3>3, InvFacts, Overlapping
    <3>5. ASSUME Contains(records[q], a, n) PROVE FALSE
      <4>1. a - records[q].base \in Near
        BY <2>5, <3>1, <3>5
      <4> QED
        BY <2>2, <2>3, <2>4, <2>5, <3>1, <4>1
    <3> QED
      BY <3>4, <3>5
  <2> HIDE DEF Near
  <2>6. x \in Judges(a, n)
    BY <1>4, <2>3, <2>5 DEF Judges, Owners
  <2>7. a < End(records[x])
    BY <2>4 DEF End
  <2> QED
    BY <1>2, <2>3, <2>4, <2>6, <2>7
<1> QED
  BY <1>3, <1>4

(* What a live record permits lies in storage of that right. *)
LEMMA PermittedIsUsable ==
  ASSUME TrackerInv, NEW r \in Records, Live(r), NEW a \in Nat, NEW n \in Nat,
         NEW write, Permits(r, a, n, write)
  PROVE  Usable(a, n, write)
<1>1. Just(records[r], heap)
  BY InvFacts DEF TableOK, Live, In
<1>2. CASE Owned(records[r], heap)
  BY <1>2 DEF Owned, Live, Permits, Usable, HeldBy, Contains, End, Block
<1>3. CASE Counted(records[r], heap)
  BY <1>3 DEF Counted, Permits, Usable, HeldBy, Contains, End, Block
<1>4. CASE Literal(records[r])
  BY <1>4 DEF Literal, Permits, Usable, Contains, End
<1>5. CASE Borrowed(records[r], heap)
  <2>1. PICK b \in Heap : /\ heap[b].holder = "external"
                          /\ b <= records[r].base
                          /\ End(records[r]) <= b + heap[b].size
    BY <1>5 DEF Borrowed
  <2>2. /\ records[r].base \in Nat /\ records[r].size \in Nat
        /\ b \in Nat /\ heap[b].size \in Nat
    BY InvFacts, Typed, HeapTyped
  <2> QED
    BY <2>1, <2>2 DEF Permits, Usable, HeldBy, Contains, End, Block
<1> QED
  BY <1>1, <1>2, <1>3, <1>4, <1>5 DEF Just

(* Addresses, sizes and offsets are numbers. *)
LEMMA Numbers ==
  Addresses \subseteq Nat /\ Sizes \subseteq Nat \ {0} /\ Offsets \subseteq Nat
  BY Constants DEF Addresses, Offsets, End

(* What a live record permits, the full checks accept. *)
LEMMA PermittedIsAccepted ==
  ASSUME TrackerInv, NEW r \in Records, Live(r), NEW a \in Nat, NEW d \in Nat,
         NEW n \in Nat, n > 0, NEW write \in BOOLEAN
  PROVE  /\ Permits(r, a, n, write) => Accepts(a, n, write)
         /\ Contains(records[r], a, 1) /\ Permits(r, a + d, n, write) =>
              AcceptsIndex(a, d, n, write)
<1>1. ASSUME Permits(r, a, n, write) PROVE Accepts(a, n, write)
  <2>1. PICK j \in Judges(a, n) :
           /\ j \in Records /\ Live(j) /\ records[j].base <= a
           /\ End(records[j]) = End(records[r])
           /\ ~records[r].read_only => ~records[j].read_only
    BY <1>1, JudgeExists DEF Permits
  <2> QED
    BY <1>1, <2>1 DEF Accepts, Permits, Contains
<1>2. ASSUME Contains(records[r], a, 1), Permits(r, a + d, n, write)
      PROVE  AcceptsIndex(a, d, n, write)
  <2>1. PICK j \in Judges(a, 1) :
           /\ j \in Records /\ Live(j) /\ records[j].base <= a
           /\ End(records[j]) = End(records[r])
           /\ ~records[r].read_only => ~records[j].read_only
    BY <1>2, JudgeExists
  <2>2. records[j].base \in Nat
    BY <2>1, InvFacts, Typed
  <2> QED
    BY <1>2, <2>1, <2>2 DEF AcceptsIndex, Permits, Contains
<1> QED
  BY <1>1, <1>2

-----------------------------------------------------------------------------
(* The properties.                                                         *)

(* TypeOK for every heap, every pool of records and every limit: no total  *)
(* of the quarantine falls below zero, and every generation fits.          *)
THEOREM TrackerIsTyped == Spec => []TypeOK
<1>1. TrackerInv => TypeOK
  BY DEF TrackerInv
<1> QED
  BY <1>1, TheTableIsTheHeap, PTL

(* CacheAgrees: a cache hit is an acceptance of the full check, whatever   *)
(* became of the record since, and wherever the generation wraps.          *)
THEOREM CachesAgree == Spec => []CacheAgrees
<1>1. ASSUME TrackerInv PROVE CacheAgrees
  <2> SUFFICES ASSUME NEW s \in Sites, NEW a \in Addresses, NEW n \in Sizes,
                      NEW write \in BOOLEAN
               PROVE  /\ FastAccepts(s, a, n, write) => Accepts(a, n, write)
                      /\ \A d \in Offsets :
                           FastAcceptsIndex(s, a, d, n, write) =>
                             AcceptsIndex(a, d, n, write)
    BY DEF CacheAgrees
  <2>1. a \in Nat /\ n \in Nat /\ n > 0 /\ 0 \in Nat /\ Offsets \subseteq Nat
    BY Numbers
  <2>2. ASSUME FastAccepts(s, a, n, write) PROVE Accepts(a, n, write)
    <3>1. PICK r \in Records : Live(r) /\ Permits(r, a, n, write)
      BY <2>2 DEF FastAccepts, Cached
    <3> QED
      BY <1>1, <2>1, <3>1, PermittedIsAccepted
  <2>3. ASSUME NEW d \in Offsets, FastAcceptsIndex(s, a, d, n, write)
        PROVE  AcceptsIndex(a, d, n, write)
    <3>1. PICK r \in Records : /\ Live(r) /\ Contains(records[r], a, 1)
                               /\ Permits(r, a + d, n, write)
      BY <2>3 DEF FastAcceptsIndex, Cached
    <3> QED
      BY <1>1, <2>1, <3>1, PermittedIsAccepted
  <2> QED
    BY <2>2, <2>3
<1> QED
  BY <1>1, TheTableIsTheHeap, PTL

(* AccessIsExact: what is accepted is storage of that right, and what the  *)
(* program holds is accepted, at any distance from its base.               *)
THEOREM AccessesAreExact == Spec => []AccessIsExact
<1>1. ASSUME TrackerInv PROVE AccessIsExact
  <2> SUFFICES ASSUME NEW a \in Addresses, NEW n \in Sizes, NEW write \in BOOLEAN
               PROVE  /\ Accepts(a, n, write) => Usable(a, n, write)
                      /\ \A d \in Offsets :
                           AcceptsIndex(a, d, n, write) => Usable(a + d, n, write)
                      /\ \A b \in HeldBy("program") :
                           /\ Contains(Block(b), a, n) => Accepts(a, n, write)
                           /\ \A d \in Offsets :
                                Contains(Block(b), a, d + n) => AcceptsIndex(a, d, n, write)
    BY DEF AccessIsExact
  <2>1. a \in Nat /\ n \in Nat /\ n > 0 /\ 0 \in Nat /\ Offsets \subseteq Nat
    BY Numbers
  <2>2. \A c, m : Judges(c, m) \subseteq Records
    BY DEF Judges, AtBase, Owners, Tracked
  <2>3. ASSUME Accepts(a, n, write) PROVE Usable(a, n, write)
    BY <1>1, <2>1, <2>2, <2>3, PermittedIsUsable DEF Accepts
  <2>4. ASSUME NEW d \in Offsets, AcceptsIndex(a, d, n, write)
        PROVE  Usable(a + d, n, write)
    <3>1. a + d \in Nat
      BY <2>1
    <3>2. PICK r \in Records : Live(r) /\ Permits(r, a + d, n, write)
      BY <2>2, <2>4 DEF AcceptsIndex
    <3> QED
      BY <1>1, <2>1, <3>1, <3>2, PermittedIsUsable
  <2>5. ASSUME NEW b \in HeldBy("program")
        PROVE  \E r \in Records : /\ Live(r) /\ ~records[r].read_only
                                  /\ records[r].base = b /\ records[r].size = heap[b].size
    <3>1. b \in Heap /\ heap[b].holder = "program"
      BY DEF HeldBy
    <3>2. PICK r \in Records :
            In(records, r) /\ records[r].kind \in {"raw", "new"} /\ records[r].base = b
      BY <1>1, <3>1, InvFacts DEF HeldOK
    <3>3. Just(records[r], heap)
      BY <1>1, <3>2, InvFacts DEF TableOK
    <3>4. Owned(records[r], heap)
      BY <3>2, <3>3 DEF Just, Counted, Borrowed, Literal
    <3> QED
      BY <3>1, <3>2, <3>4 DEF Owned, Live
  <2>6. ASSUME NEW b \in HeldBy("program"), Contains(Block(b), a, n)
        PROVE  Accepts(a, n, write)
    <3>1. PICK r \in Records : /\ Live(r) /\ ~records[r].read_only
                               /\ records[r].base = b /\ records[r].size = heap[b].size
      BY <2>5
    <3>2. Permits(r, a, n, write)
      BY <2>6, <3>1 DEF Permits, Contains, End, Block
    <3> QED
      BY <1>1, <2>1, <3>1, <3>2, PermittedIsAccepted
  <2>7. ASSUME NEW b \in HeldBy("program"), NEW d \in Offsets,
               Contains(Block(b), a, d + n)
        PROVE  AcceptsIndex(a, d, n, write)
    <3>1. PICK r \in Records : /\ Live(r) /\ ~records[r].read_only
                               /\ records[r].base = b /\ records[r].size = heap[b].size
      BY <2>5
    <3>2. /\ d \in Nat /\ b \in Nat /\ heap[b].size \in Nat
          /\ b <= a /\ a + (d + n) <= b + heap[b].size
      BY <1>1, <2>1, <2>7, InvFacts, HeapTyped DEF HeldBy, Contains, End, Block
    <3>3. Contains(records[r], a, 1) /\ Permits(r, a + d, n, write)
      BY <2>1, <3>1, <3>2 DEF Permits, Contains, End
    <3> QED
      BY <1>1, <2>1, <3>1, <3>2, <3>3, PermittedIsAccepted
  <2> QED
    BY <2>3, <2>4, <2>6, <2>7
<1> QED
  BY <1>1, TheTableIsTheHeap, PTL

(* BlocksAreAccounted: every released block waits in the quarantine once,  *)
(* every block of the program has a live record, no address comes twice.   *)
THEOREM BlocksAreAlwaysAccounted == Spec => []BlocksAreAccounted
<1>1. ASSUME TrackerInv PROVE BlocksAreAccounted
  <2>1. ASSUME NEW b \in Heap, heap[b].holder \in {"program", "quarantine"}
        PROVE  \E r \in Records :
                 /\ In(records, r) /\ records[r].kind \in {"raw", "new"}
                 /\ records[r].base = b
                 /\ Live(r) <=> heap[b].holder = "program"
    <3>1. PICK r \in Records :
            In(records, r) /\ records[r].kind \in {"raw", "new"} /\ records[r].base = b
      BY <1>1, <2>1, InvFacts DEF HeldOK
    <3>2. Just(records[r], heap)
      BY <1>1, <3>1, InvFacts DEF TableOK
    <3>3. Owned(records[r], heap)
      BY <3>1, <3>2 DEF Just, Counted, Borrowed, Literal
    <3> QED
      BY <3>1, <3>3 DEF Owned, Live
  <2>2. ASSUME NEW r \in Records, In(records, r),
               records[r].state = "quarantined" \/ records[r].kind \in {"raw", "new"}
        PROVE  records[r].base \in Heap
               /\ heap[records[r].base].holder = IF Live(r) THEN "program" ELSE "quarantine"
    <3>1. Just(records[r], heap)
      BY <1>1, <2>2, InvFacts DEF TableOK
    <3>2. Owned(records[r], heap)
      BY <2>2, <3>1 DEF Just, Counted, Borrowed, Literal
    <3> QED
      BY <3>2 DEF Owned, Live
  <2>3. \A i, j \in 1 .. Len(queue) : queue[i] = queue[j] => i = j
    BY <1>1 DEF TrackerInv, QueueOK
  <2>4. \A i \in 1 .. Len(queue) :
          queue[i] \in Records /\ records[queue[i]].state = "quarantined"
    BY <1>1, InvFacts, Queued DEF QueueOK
  <2>5. HeldBy("quarantine") = {records[queue[i]].base : i \in 1 .. Len(queue)}
    <3>1. ASSUME NEW b \in HeldBy("quarantine")
          PROVE  \E i \in 1 .. Len(queue) : b = records[queue[i]].base
      <4>1. PICK r \in Records : In(records, r) /\ records[r].base = b /\ ~Live(r)
        BY <2>1 DEF HeldBy
      <4>2. records[r].state = "quarantined"
        BY <1>1, <4>1, InvFacts, Typed DEF In, Live, States
      <4> QED
        BY <1>1, <4>1, <4>2, InvFacts DEF QueueOK
    <3>2. ASSUME NEW i \in 1 .. Len(queue)
          PROVE  records[queue[i]].base \in HeldBy("quarantine")
      BY <2>2, <2>4 DEF HeldBy, In, Live
    <3> QED
      BY <3>1, <3>2
  <2>6. HeldBy("program") = {records[r].base : r \in
          {q \in Tracked : Live(q) /\ records[q].kind \in {"raw", "new"}}}
    <3> DEFINE Owning == {q \in Tracked : Live(q) /\ records[q].kind \in {"raw", "new"}}
    <3>1. ASSUME NEW b \in HeldBy("program")
          PROVE  \E r \in Owning : b = records[r].base
      BY <2>1 DEF HeldBy, Tracked, In
    <3>2. ASSUME NEW r \in Owning
          PROVE  records[r].base \in HeldBy("program")
      BY <2>2 DEF HeldBy, Tracked, In
    <3> QED
      BY <3>1, <3>2
  <2> QED
    BY <1>1, <2>3, <2>5, <2>6 DEF BlocksAreAccounted, TrackerInv
<1> QED
  BY <1>1, TheTableIsTheHeap, PTL

(* The totals that the runtime keeps are those of its queue. *)
LEMMA Totals ==
  ASSUME TrackerInv
  PROVE  bytes = HeldBytes /\ count = Len(queue) /\ (queue = <<>> => bytes = 0)
<1>1. PICK t : CountsUp(t, records, queue) /\ t[Len(queue)] = bytes
  BY InvFacts DEF BytesOK
<1>2. HeldBytes = t[Len(queue)]
  BY <1>1, InvFacts, TotalIsCounted DEF HeldBytes
<1>3. queue = <<>> => t[Len(queue)] = 0
  BY <1>1 DEF CountsUp
<1> QED
  BY <1>1, <1>2, <1>3 DEF TrackerInv

(* The program never runs while the quarantine is over a limit. *)
Quiet == Idle => ~OverLimits(HeldBytes, Len(queue))

(* RetainsTheLatest: a block leaves the quarantine only from its head and  *)
(* over a limit, and the program never runs while a limit is exceeded.     *)
THEOREM TheLatestAreRetained == Spec => RetainsTheLatest
<1>1. ASSUME TrackerInv PROVE Quiet
  <2>1. CASE queue = <<>>
    BY <1>1, <2>1, Totals, Constants DEF Quiet, OverLimits
  <2>2. CASE queue # <<>>
    BY <1>1, <2>2, Totals DEF Quiet, Idle, Evicting
  <2> QED
    BY <2>1, <2>2
<1>2. ASSUME TrackerInv, Next
      PROVE  \/ queue' = queue
             \/ \E r \in Records : queue' = Append(queue, r)
             \/ queue' = Tail(queue) /\ OverLimits(HeldBytes, Len(queue))
  <2>1. CASE Evict
    BY <1>2, <2>1, Totals DEF Evict, Evicting
  <2>2. CASE Allocation
    <3>1. PICK a \in Heap, n \in Sizes :
            \/ NewString(a, n) \/ Acquire(a, n)
            \/ \E r \in Records, kind \in {"raw", "new"} : Alloc(r, a, n, kind)
            \/ \E r \in Records, old \in Addresses : Realloc(old, r, a, n)
      BY <2>2 DEF Allocation
    <3>2. CASE NewString(a, n) \/ Acquire(a, n)
      BY <3>2 DEF NewString, Acquire
    <3>3. CASE \E r \in Records, kind \in {"raw", "new"} : Alloc(r, a, n, kind)
      BY <3>3 DEF Alloc, Track
    <3>4. ASSUME NEW r \in Records, NEW old \in Addresses, Realloc(old, r, a, n)
          PROVE  queue' = queue \/ \E s \in Records : queue' = Append(queue, s)
      <4>1. CASE Panic
        BY <4>1 DEF Panic
      <4>2. CASE ~Panic
        <5>1. PICK s \in Releasable(old, "raw") : Enqueue(s)
          BY <3>4, <4>2 DEF Realloc
        <5> QED
          BY <5>1 DEF Releasable, AtBase, Tracked, Enqueue
      <4> QED
        BY <4>1, <4>2
    <3> QED
      BY <3>1, <3>2, <3>3, <3>4
  <2>3. CASE Release
    BY <2>3 DEF Release, Free, Drop, FreeString, UnregisterForeign, GiveUp, Quarantine,
                Enqueue, Panic, Releasable, AtBase, Tracked
  <2>4. CASE Exposure
    BY <2>4 DEF Exposure, ExposeString, ExposeLiteral, RegisterForeign, Track, Panic
  <2>5. CASE Use
    BY <2>5 DEF Use, Access, Index, Remember, Panic
  <2> QED
    BY <1>2, <2>1, <2>2, <2>3, <2>4, <2>5 DEF Next
<1>3. ASSUME TrackerInv, [Next]_vars, Quiet'
      PROVE  [/\ \/ queue' = queue
                 \/ \E r \in Records : queue' = Append(queue, r)
                 \/ queue' = Tail(queue) /\ OverLimits(HeldBytes, Len(queue))
              /\ Idle' => ~OverLimits(HeldBytes, Len(queue))']_vars
  BY <1>2, <1>3 DEF Quiet
<1> QED
  BY <1>1, <1>3, TheTableIsTheHeap, PTL DEF Spec, RetainsTheLatest
=============================================================================
