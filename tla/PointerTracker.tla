--------------------------- MODULE PointerTracker ---------------------------
(***************************************************************************)
(* The allocation tracker of the checked L1 runtime                        *)
(* (shared/runtime/src/dea_rt_alloc.c) with the call-site caches of        *)
(* include/dea_rt.h: what the table knows of heap blocks, of string bytes, *)
(* of literals and of foreign storage, the quarantine of released blocks   *)
(* and its eviction, and the decision on every access of generated code.   *)
(*                                                                         *)
(* The program is any program: it allocates, releases and accesses as it   *)
(* likes, at right and wrong addresses.  The hash table and the treap are  *)
(* the set of tracked records they both hold; alignment is left out.  A    *)
(* panic ends the process.                                                 *)
(***************************************************************************)
EXTENDS Integers, Sequences

CONSTANTS
  Heap,           \* addresses that the C allocator hands out
  Literals,       \* spans of string literals, with their final NUL
  Sizes,          \* sizes of blocks and accesses, in bytes
  Records,        \* bound on the records in use at once
  Sites,          \* call sites of generated pointer accesses
  MaxGeneration,  \* where the generation counter wraps
  MaxBytes,       \* limits of the quarantine
  MaxCount,
  NoRecord        \* an empty call-site cache

End(x) == x.base + x.size

Meet(x, y) == x.base < End(y) /\ y.base < End(x)

(* Literals are not in the heap, and literals that overlap are suffixes of *)
(* each other, as C compilers share them.                                  *)
ASSUME TrackerAssumption ==
  /\ Heap \subseteq Nat
  /\ Sizes \subseteq Nat \ {0}
  /\ Literals \subseteq [base : Nat, size : Nat \ {0}]
  /\ \A l \in Literals : l.base .. (End(l) - 1) \cap Heap = {}
  /\ \A l, m \in Literals : Meet(l, m) => End(l) = End(m)
  /\ MaxGeneration \in Nat \ {0}
  /\ MaxBytes \in Nat /\ MaxCount \in Nat
  /\ NoRecord \notin Records

VARIABLES
  records,     \* the pool of records: tracked ones and free ones
  queue,       \* quarantined records, oldest first
  bytes,       \* the two totals of the quarantine
  count,
  generation,  \* of the next record
  site,        \* call-site caches
  heap,        \* what starts at an address: its size, and who holds it
  pc           \* "running", "panicked", or "duplicate" for the panic
               \* on an address that malloc returned and the table has

vars == <<records, queue, bytes, count, generation, site, heap, pc>>

States == {"pooled", "live", "quarantined"}
Kinds == {"raw", "new", "arc", "static", "foreign"}
Holders == {"nobody", "program", "quarantine", "string", "external"}

Nothing == [size |-> 0, holder |-> "nobody"]

Offsets == {0} \cup Sizes

Addresses == Heap \cup UNION {l.base .. (End(l) - 1) : l \in Literals}

-----------------------------------------------------------------------------
(* The table and the treap.                                                *)

Tracked == {r \in Records : records[r].state # "pooled"}
Pool == Records \ Tracked

(* Does x contain n bytes from address a? *)
Contains(x, a, n) == x.base <= a /\ a + n <= End(x)

(* The record of a base address. *)
AtBase(a) == {r \in Tracked : records[r].base = a}

(* The record whose span contains n bytes from a.  The search goes down    *)
(* from the nearest base below a, and passes static records only.          *)
Owners(a, n) ==
  {r \in Tracked :
     /\ Contains(records[r], a, n)
     /\ \A q \in Tracked :
          records[r].base < records[q].base /\ records[q].base <= a =>
            records[q].kind = "static" /\ ~Contains(records[q], a, n)}

(* The record that an access to n bytes at a is judged by. *)
Judges(a, n) == IF AtBase(a) = {} THEN Owners(a, n) ELSE AtBase(a)

Live(r) == records[r].state = "live"
Permits(r, a, n, write) ==
  Contains(records[r], a, n) /\ (write => ~records[r].read_only)

(* The checks without a cache: of an access to n bytes at a, and of one at *)
(* offset d from a, where a itself must lie in the owner.                  *)
Accepts(a, n, write) ==
  \E r \in Judges(a, n) : Live(r) /\ Permits(r, a, n, write)

AcceptsIndex(a, d, n, write) ==
  \E r \in Judges(a, 1) :
    /\ Live(r)
    /\ Contains(records[r], a, 1)
    /\ Permits(r, a + d, n, write)

(* The inline checks of a call site that has seen a record before. *)
Cached(s) ==
  {r \in Records : r = site[s].owner /\ records[r].generation = site[s].generation}

FastAcceptsReleased(s, a, n, write) ==
  \E r \in Cached(s) : Permits(r, a, n, write)

FastAccepts(s, a, n, write) ==
  \E r \in Cached(s) : Live(r) /\ Permits(r, a, n, write)

FastAcceptsIndex(s, a, d, n, write) ==
  \E r \in Cached(s) :
    /\ Live(r)
    /\ Contains(records[r], a, 1)
    /\ Permits(r, a + d, n, write)

-----------------------------------------------------------------------------
(* Blocks of the C allocator.                                              *)

Block(b) == [base |-> b, size |-> heap[b].size]

Blocks == {b \in Heap : heap[b].holder # "nobody"}
HeldBy(who) == {b \in Heap : heap[b].holder = who}

(* malloc may return n bytes at a. *)
Fresh(a, n) ==
  /\ a .. (a + n - 1) \subseteq Heap
  /\ \A b \in Blocks : ~Meet([base |-> a, size |-> n], Block(b))

Given(a, n, who) == [heap EXCEPT ![a] = [size |-> n, holder |-> who]]

-----------------------------------------------------------------------------
(* The quarantine.                                                         *)

OverLimits(b, c) == b > MaxBytes \/ c > MaxCount

Evicting == queue # <<>> /\ OverLimits(bytes, count)

(* Eviction runs to its end before the release that caused it returns. *)
Idle == pc = "running" /\ ~Evicting

NextGenerationZero == (generation + 1) % (MaxGeneration + 1)

NextGeneration == IF generation = MaxGeneration THEN 1 ELSE generation + 1

Entry(a, n, kind, ro) ==
  [base |-> a, size |-> n, generation |-> generation, state |-> "live",
   kind |-> kind, read_only |-> ro]

(* Records leave the table; call sites may still point to them. *)
Recycled(R) ==
  [r \in Records |->
     IF r \in R THEN [records[r] EXCEPT !.state = "pooled", !.generation = 0]
     ELSE records[r]]

Panic ==
  /\ pc' = "panicked"
  /\ UNCHANGED <<records, queue, bytes, count, generation, site, heap>>

(* Entering a record.  The address must not be in the table yet. *)
Enter(r, a, n, kind, ro) ==
  /\ r \in Pool
  /\ generation' = NextGeneration
  /\ pc' = IF AtBase(a) = {} THEN "running" ELSE "duplicate"

Track(r, a, n, kind, ro) ==
  /\ Enter(r, a, n, kind, ro)
  /\ records' = [records EXCEPT ![r] = Entry(a, n, kind, ro)]
  /\ UNCHANGED <<queue, bytes, count, site>>

(* The block of a record goes to the end of the quarantine. *)
Enqueue(r) ==
  /\ queue' = Append(queue, r)
  /\ bytes' = bytes + records[r].size
  /\ count' = count + 1

Quarantine(r) ==
  /\ Enqueue(r)
  /\ records' = [records EXCEPT ![r].state = "quarantined"]
  /\ heap' = [heap EXCEPT ![records[r].base].holder = "quarantine"]
  /\ UNCHANGED <<generation, site, pc>>

EvictUncounted ==
  /\ pc = "running" /\ Evicting
  /\ LET r == Head(queue) IN
       /\ queue' = Tail(queue)
       /\ count' = count - 1
       /\ records' = Recycled({r})
       /\ heap' = [heap EXCEPT ![records[r].base] = Nothing]
  /\ UNCHANGED <<bytes, generation, site, pc>>

Evict ==
  /\ pc = "running" /\ Evicting
  /\ LET r == Head(queue) IN
       /\ queue' = Tail(queue)
       /\ bytes' = bytes - records[r].size
       /\ count' = count - 1
       /\ records' = Recycled({r})
       /\ heap' = [heap EXCEPT ![records[r].base] = Nothing]
  /\ UNCHANGED <<generation, site, pc>>

-----------------------------------------------------------------------------
(* Storage of the program.                                                 *)

(* rt_alloc and rt_calloc give raw storage, new gives object storage. *)
Alloc(r, a, n, kind) ==
  /\ Idle /\ Fresh(a, n)
  /\ Track(r, a, n, kind, FALSE)
  /\ heap' = Given(a, n, "program")

(* The records that a release of this kind accepts at a. *)
ReleasableAgain(a, kind) == {r \in AtBase(a) : records[r].kind = kind}

Releasable(a, kind) == {r \in AtBase(a) : records[r].kind = kind /\ Live(r)}

Free(a) ==
  /\ Idle
  /\ \/ \E r \in Releasable(a, "raw") : Quarantine(r)
     \/ Releasable(a, "raw") = {} /\ Panic

(* drop of an object of n bytes. *)
Drop(a, n) ==
  /\ Idle
  /\ \/ \E r \in Releasable(a, "new") : n <= records[r].size /\ Quarantine(r)
     \/ (\A r \in Releasable(a, "new") : n > records[r].size) /\ Panic

(* rt_realloc of the block at a: the new block is tracked before the old   *)
(* one is released.                                                        *)
Realloc(a, r, b, n) ==
  /\ Idle
  /\ \/ \E old \in Releasable(a, "raw") :
          /\ Fresh(b, n)
          /\ Enter(r, b, n, "raw", FALSE)
          /\ Enqueue(old)
          /\ records' = [records EXCEPT ![r] = Entry(b, n, "raw", FALSE),
                                        ![old].state = "quarantined"]
          /\ heap' = [Given(b, n, "program") EXCEPT ![a].holder = "quarantine"]
          /\ UNCHANGED site
     \/ Releasable(a, "raw") = {} /\ Panic

-----------------------------------------------------------------------------
(* Strings and literals.                                                   *)

(* The bytes of a counted string, unknown to the tracker at first. *)
NewString(a, n) ==
  /\ Idle /\ Fresh(a, n)
  /\ heap' = Given(a, n, "string")
  /\ UNCHANGED <<records, queue, bytes, count, generation, site, pc>>

(* rt_string_bytes_ptr of a counted string. *)
ExposeString(r, a) ==
  /\ Idle
  /\ a \in HeldBy("string") /\ AtBase(a) = {}
  /\ Track(r, a, heap[a].size, "arc", TRUE)
  /\ UNCHANGED heap

(* The last reference to a string is released, or the string is resized.   *)
FreeStringTracked(a) ==
  /\ Idle
  /\ a \in HeldBy("string")
  /\ heap' = [heap EXCEPT ![a] = Nothing]
  /\ UNCHANGED <<records, queue, bytes, count, generation, site, pc>>

FreeString(a) ==
  /\ Idle
  /\ a \in HeldBy("string")
  /\ heap' = [heap EXCEPT ![a] = Nothing]
  /\ records' = Recycled(AtBase(a))
  /\ UNCHANGED <<queue, bytes, count, generation, site, pc>>

(* rt_string_bytes_ptr of a literal: not tracked again inside another one. *)
ExposeLiteral(r, l) ==
  /\ Idle
  /\ AtBase(l.base) = {} /\ Owners(l.base, l.size) = {}
  /\ Track(r, l.base, l.size, "static", TRUE)
  /\ UNCHANGED heap

-----------------------------------------------------------------------------
(* Foreign storage.                                                        *)

(* Code outside Dea allocates a block, and gives it up after unregistering *)
(* what it had registered of it.                                           *)
Acquire(a, n) ==
  /\ Idle /\ Fresh(a, n)
  /\ heap' = Given(a, n, "external")
  /\ UNCHANGED <<records, queue, bytes, count, generation, site, pc>>

Registered(a) ==
  {r \in Tracked : records[r].kind = "foreign" /\ Meet(records[r], Block(a))}

GiveUp(a) ==
  /\ Idle
  /\ a \in HeldBy("external") /\ Registered(a) = {}
  /\ heap' = [heap EXCEPT ![a] = Nothing]
  /\ UNCHANGED <<records, queue, bytes, count, generation, site, pc>>

(* A registration may repeat one, and must not overlap tracked storage:    *)
(* neither hold its first address nor reach the next base.                 *)
Same(a, n, ro) ==
  \E r \in AtBase(a) :
    /\ Live(r) /\ records[r].kind = "foreign"
    /\ records[r].size = n /\ records[r].read_only = ro

Overlaps(a, n) ==
  \/ Owners(a, 1) # {}
  \/ \E r \in Tracked : a <= records[r].base /\ records[r].base < a + n

RegisterForeign(r, a, n, ro) ==
  /\ Idle
  /\ \E b \in HeldBy("external") : Contains(Block(b), a, n)
  /\ ~Same(a, n, ro)
  /\ \/ /\ AtBase(a) = {} /\ ~Overlaps(a, n)
        /\ Track(r, a, n, "foreign", ro)
        /\ UNCHANGED heap
     \/ (AtBase(a) # {} \/ Overlaps(a, n)) /\ Panic

UnregisterForeign(a) ==
  /\ Idle
  /\ \/ \E r \in Releasable(a, "foreign") :
          /\ records' = Recycled({r})
          /\ UNCHANGED <<queue, bytes, count, generation, site, heap, pc>>
     \/ Releasable(a, "foreign") = {} /\ Panic

-----------------------------------------------------------------------------
(* Accesses of generated code.  Where the cache of the site accepts,       *)
(* nothing changes.                                                        *)

Remember(s, r) ==
  /\ site' = [site EXCEPT ![s] = [owner |-> r, generation |-> records[r].generation]]
  /\ UNCHANGED <<records, queue, bytes, count, generation, heap, pc>>

Access(s, a, n, write) ==
  /\ Idle /\ ~FastAccepts(s, a, n, write)
  /\ \/ Accepts(a, n, write) /\ \E r \in Judges(a, n) : Remember(s, r)
     \/ ~Accepts(a, n, write) /\ Panic

Index(s, a, d, n, write) ==
  /\ Idle /\ ~FastAcceptsIndex(s, a, d, n, write)
  /\ \/ AcceptsIndex(a, d, n, write) /\ \E r \in Judges(a, 1) : Remember(s, r)
     \/ ~AcceptsIndex(a, d, n, write) /\ Panic

-----------------------------------------------------------------------------
Init ==
  /\ records = [r \in Records |->
       [base |-> 0, size |-> 0, generation |-> 0, state |-> "pooled",
        kind |-> "raw", read_only |-> FALSE]]
  /\ queue = <<>> /\ bytes = 0 /\ count = 0
  /\ generation = 1
  /\ site = [s \in Sites |-> [owner |-> NoRecord, generation |-> 0]]
  /\ heap = [a \in Heap |-> Nothing]
  /\ pc = "running"

Allocation ==
  \E a \in Heap, n \in Sizes :
    \/ NewString(a, n)
    \/ Acquire(a, n)
    \/ \E r \in Records :
         \/ \E kind \in {"raw", "new"} : Alloc(r, a, n, kind)
         \/ \E old \in Addresses : Realloc(old, r, a, n)

Release ==
  \E a \in Addresses :
    \/ Free(a)
    \/ \E n \in Sizes : Drop(a, n)
    \/ FreeString(a)
    \/ UnregisterForeign(a)
    \/ GiveUp(a)

Exposure ==
  \E r \in Records :
    \/ \E a \in Heap : ExposeString(r, a)
    \/ \E l \in Literals : ExposeLiteral(r, l)
    \/ \E a \in Heap, n \in Sizes, ro \in BOOLEAN : RegisterForeign(r, a, n, ro)

Use ==
  \E s \in Sites, a \in Addresses, n \in Sizes, write \in BOOLEAN :
    \/ Access(s, a, n, write)
    \/ \E d \in Offsets : Index(s, a, d, n, write)

Next == Allocation \/ Release \/ Exposure \/ Use \/ Evict

Spec == Init /\ [][Next]_vars

-----------------------------------------------------------------------------
(* Properties.                                                             *)

(* Every variable keeps the shape of the C data it stands for; the totals  *)
(* never fall below zero, where size_t would wrap.                         *)
TypeOK ==
  /\ records \in [Records ->
       [base : Nat, size : Nat, generation : 0 .. MaxGeneration, state : States,
        kind : Kinds, read_only : BOOLEAN]]
  /\ queue \in Seq(Records)
  /\ bytes \in Nat /\ count \in Nat
  /\ generation \in 1 .. MaxGeneration
  /\ site \in [Sites -> [owner : Records \cup {NoRecord},
                         generation : 0 .. MaxGeneration]]
  /\ heap \in [Heap -> [size : Nat, holder : Holders]]
  /\ pc \in {"running", "panicked", "duplicate"}

(* A call site never accepts from its cache what the full check would      *)
(* refuse now, although its record may have been released, evicted and     *)
(* used again for other storage, and the generation may have wrapped.      *)
CacheAgrees ==
  \A s \in Sites, a \in Addresses, n \in Sizes, write \in BOOLEAN :
    /\ FastAccepts(s, a, n, write) => Accepts(a, n, write)
    /\ \A d \in Offsets :
         FastAcceptsIndex(s, a, d, n, write) => AcceptsIndex(a, d, n, write)

(* The program may touch n bytes at a: they lie in one block of its own or *)
(* of foreign storage, or, to read, in one string or literal.              *)
Usable(a, n, write) ==
  \/ \E b \in HeldBy("program") \cup HeldBy("external") : Contains(Block(b), a, n)
  \/ /\ ~write
     /\ \/ \E b \in HeldBy("string") : Contains(Block(b), a, n)
        \/ \E l \in Literals : Contains(l, a, n)

(* An accepted access stays within storage that has not been released, and *)
(* writes no string or literal; and every access within a block that the   *)
(* program holds is accepted, from its base or from its inside.            *)
AccessIsExact ==
  \A a \in Addresses, n \in Sizes, write \in BOOLEAN :
    /\ Accepts(a, n, write) => Usable(a, n, write)
    /\ \A d \in Offsets :
         AcceptsIndex(a, d, n, write) => Usable(a + d, n, write)
    /\ \A b \in HeldBy("program") :
         /\ Contains(Block(b), a, n) => Accepts(a, n, write)
         /\ \A d \in Offsets :
              Contains(Block(b), a, d + n) => AcceptsIndex(a, d, n, write)

(* No block is released twice or lost: a released block waits in the       *)
(* quarantine exactly once, until eviction frees it, what the program      *)
(* holds is tracked as live, and malloc never returns a tracked address.   *)
BlocksAreAccounted ==
  /\ \A i, j \in 1 .. Len(queue) : queue[i] = queue[j] => i = j
  /\ HeldBy("quarantine") = {records[queue[i]].base : i \in 1 .. Len(queue)}
  /\ HeldBy("program") = {records[r].base : r \in
       {q \in Tracked : Live(q) /\ records[q].kind \in {"raw", "new"}}}
  /\ pc # "duplicate"

(* The bytes that the quarantine really holds. *)
TotalSize(q, f) ==
  LET Total[i \in 0 .. Len(q)] ==
        IF i = 0 THEN 0 ELSE Total[i - 1] + f[q[i]].size
  IN Total[Len(q)]

HeldBytes == TotalSize(queue, records)

(* The quarantine gives up its oldest block only, and only while it holds  *)
(* more than a limit allows; when the runtime is back in the program, both *)
(* limits hold.                                                            *)
RetainsTheLatest ==
  [][/\ \/ queue' = queue
        \/ \E r \in Records : queue' = Append(queue, r)
        \/ queue' = Tail(queue) /\ OverLimits(HeldBytes, Len(queue))
     /\ Idle' => ~OverLimits(HeldBytes, Len(queue))']_vars

=============================================================================
