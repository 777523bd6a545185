# Verification of Dea

TLA+ models, TLC runs and TLAPS proofs for the parts of Dea whose correctness depends
on order, concurrency, failure, ownership or control flow. Six parts are modelled:

* **managed native preparation** (L1): many `l1c` processes share a cache of prebuilt
  runtime and standard-library objects, one profile for each native identity;
* **compile-only publication** (L1): `l1c -c` replaces a generated C file, an object
  and an interface together, or not at all;
* **the pointer tracker** of the checked L1 runtime: what an access by generated code
  is judged by, the call-site caches, and the quarantine of released blocks;
* **the string maps** of the L1 standard library: hash tables with tombstones that hold
  references on their keys;
* **the front end of the L0 Stage 1 compiler**: loading modules, resolving names and
  types, and ordering the C definitions of types;
* **a function through the L0 Stage 1 compiler**: its checks, its lowering with all
  cleanups, and a run of the C it becomes, against what its source means.

Stage 1 is the Python program that compiles the L1 compiler, so an error there is an
error of everything above. Line numbers below are those of the sources in this
repository; paths without a directory are under `src/l1/compiler`, those that start
with `l0_` under `src/l0/compiler/stage1_py`. `PROJECT.json` relates every definition
to its lines.

## 1. The system and its components

L1 is compiled by `l1c`, a program written in L0 with a C support library. One
command analyses a module graph, generates C, calls a host C compiler and links with
the runtime. Commands are separate processes; they interact through the file system
only (the cache root, output directories) and one kind of lock (`flock`, or
`LockFileEx` on Windows, per cache entry). The L0 Stage 1 compiler is one sequential
process per command: what is hard there is not interleaving but the number of paths
through a program it has to be right about.

| Component | State | Operations | Interacts with | Hard behaviour | What makes it correct |
|---|---|---|---|---|---|
| Preparation policy (`preparation.l0`, `preparation/consumer.l0`) | the context of one command: options, first error, private root | `pr_prepare`, `pr_build_selected`, `mp_ensure`, `mp_free` | store, construction, identity | retry after a storage error, five ways to release a lock, fallback rules | nobody builds in a profile somebody else builds in; a fallback only where the options allow it; every command ends |
| Profile store (`preparation_support.c`, `preparation/storage.h`) | `v1/entries/<key>`: artifacts, `manifest.json`, `.manifest.pending`, `.lock`; `v1/memo` | find, acquire, begin, complete, unlock, private root, free | policy, platform | interleaved builders, death at any step, torn records | a record is exact and complete; a completed profile stays intact |
| Construction and build (`preparation/construction.h`, `build.h`) | outputs still to make, digests of inputs and outputs | detach, compile, copy, inventory, comparison of inputs | host compiler, store | inputs edited while they are compiled, compiler timeouts, stale artifacts | an artifact of a completed profile is made from the inputs of its key |
| Process, file and lock primitives (`preparation/platform.h`) | open lock, child process | lock, hash with metadata, write, run with a time limit | kernel | lock wait, orphaned children | locks end with their process; a measured hash is of one content |
| Native identity and toolchain discovery (`preparation/identity.h`, `libraries.h`, `pe_imports.h`, `sha256.h`, `json.h`) | identity under construction, dependency and donor memos | observe, resolve, seed, save and load memo | store, platform | memos written without a lock, shadowing headers | a memo never hides a change |
| Explicit profiles (`preparation/profile.h`) | a staged directory and a final one | create, open, verify | policy | destination appears meanwhile, death before the rename | a profile that opens is complete |
| Compile-only publication (`compile_driver.l0`, `compile_driver/compile.l0`, `compile_driver/transaction.l0`) | destinations; transaction directory; backup and publication flags | stage, validate, back up, publish, roll back, clean | host compiler, other `l1c -c` | each of twelve renames and removals may fail, death between two of them | the three endpoints of ADR-0022 |
| Link driver (`link_driver.l0`, `link_driver/*`) | closure of interfaces and objects, wrapper files | parse inputs, close, check provenance, link | interfaces, host linker | mismatched pairs, duplicates | the executable is linked from one consistent closure |
| Module graph and driver (`driver.l0`, `driver/*`, `module_graph.l0`, `module_graph/order.l0`) | loaded, loading and failed modules | load, resolve imports, order | parser, interfaces | cycles, failure in a cycle, caching of failures | every module loaded once; the order respects imports |
| Lifecycle order and interfaces (`module_lifecycle.l0`, `module_interface.l0`, `interface_*.l0`) | projected declarations, fingerprints | project, emit, parse, fingerprint | graph, link driver | round trip of the text | parse after emit is the identity on interfaces |
| Lexer and parser | cursor | tokenise, parse | AST | error recovery | accepts the grammar |
| Name resolution, signatures, types, expression typing, slice lifetimes | scopes, type tables, move and liveness state | resolve, check | AST, back end | joins of control flow, loops | no use after move, no dangling slice |
| Back end and C emitter | emission buffers, cleanup scopes | lower, emit | runtime ABI | retain and release on every exit | each owned value released once |
| Allocation tracker (`dea_rt_alloc.c`) | block states, quarantine queue with two totals | allocate, free, check, evict | ARC strings | limits reached, eviction order | totals match the queue; no live block is freed |
| ARC strings (`dea_rt_string.c`) | reference counts, with a panic one below the sentinel of uncounted strings | retain, release, concatenate | allocation tracker | double release | freed once, at zero, never when immortal |
| Other runtime (I/O, time, hash, random, math, panic) | `errno` capture, generator state | wrappers | C library | numeric edges | conversions keep their documented range |
| Containers (`hashmap.l1` and others) | slots, tombstones, counts | insert, remove, grow, find | runtime | tombstones with growth | behaves as a map |
| Standard library text, I/O, time, OS modules | none of their own | wrappers and formatting | runtime | errors of the host | documented results |
| Command line, diagnostics, logging | options, diagnostics | parse, validate, print | all | combinations of options | refused combinations never reach the policy |
| L0 Stage 1: module loading (`l0_driver.py`) | cache of modules, set of modules under way | load, parse, collect the unit | parser, all later phases | import circles, modules imported twice, wrong files | the unit is what the entry reaches; only real errors refuse it |
| L0 Stage 1: names (`l0_name_resolver.py`, `l0_resolve.py`) | per module: locals, imported, visible and ambiguous names | collect, open imports, look up | signatures, checker | ambiguity by several imports in any order, shadowing | a visible name has one origin |
| L0 Stage 1: signatures, aliases (`l0_signatures.py`) | cached alias types, types held by value | resolve mentions, follow aliases, detect cycles | names, type order | aliases resolved from another module, circles | an alias means what its module says |
| L0 Stage 1: type order (`l0_backend_ordering.py`) | counts, queue | sort | C text | self reference, long chains | every C type is complete before it is used |
| L0 Stage 1: function checking (`l0_check_*.py`) | liveness per scope, reachability, loop captures | check statements, loop fixed point | lowering | joins of control flow, loops, `with` | no dropped binding used, every path returns, no undeserved refusal |
| L0 Stage 1: lowering, scopes, ownership (`l0_backend_lowering.py`, `l0_backend_lifetime.py`, `l0_scope_context.py`) | chain of scopes, loop labels, C blocks | lower statements and expressions, clean up on exits | C text, runtime | exits out of nested scopes, `?` within expressions, cleanups that exit | every counted value is released once, on every path; cleanups run once, in reverse |
| L0 Stage 1: expression types, patterns, constants | none across nodes | judge a node | checker | numeric edges | the rules of the language |
| L0 Stage 1: lexer, parser, C text, local scopes, command line, C build | cursors, buffers | text to tree, tree to text | all | – | accepts the grammar, emits valid C |
| L0 Stage 2 compiler and library; L2 toolchain | as Stage 1; as L1 | as Stage 1; as L1 | Stage 2 is Stage 1 rewritten in L0; L2 is at this commit largely L1 under another name | as there | as there |
| Editor support, documentation generators, build tools | none | packaging, text from text | – | – | – |

`PROJECT.json` "components" says of each whether it is modelled; "hazards" lists what
is hard to test, at its line, with the properties that would expose it.

The runs, each with the question it answers, are `PROJECT.json` "runs"; sections 2 to 7
say for each part what its modules are, how state and actions correspond to the code,
what the runs check and why their bounds are enough, and what is proved.

## 2. Managed native preparation

### Modules

* `NativePreparation` – the protocol: cache, locks, compiler children, commands.
* `PreparationService` – what users of the cache are promised, without directories,
  manifests or locks.
* `NativePreparationRefinement` – the mapping from the first to the second.
* `MCNativePreparation` – values and bounds for TLC.
* `NativePreparationProofs` – theorems.

### State

| Model | Code |
|---|---|
| `input[f]` (version, stamp) | an input of the toolchain: its bytes, and its size, time and inode (`pc_meta_stat`) |
| `lock[k]` | advisory lock of `v1/entries/<key>` |
| `art[d]`, `manifest[d]`, `pending[d]` | artifacts, `manifest.json` and `.manifest.pending` of a shared entry or a private workspace |
| `pc`, `opt`, `err` | where a command is in `pr_prepare`, its options, its first error (`pc_fail` keeps the first) |
| `seen` | `new_files`: the digest and metadata of each input the command resolved |
| `private` | `private_root` is set |
| `todo`, `at` | what its loop has still to visit, and the output being written |
| `snap`, `found` | the manifest or inventory in memory, and the outcome of the lookup |
| `orphans` | compiler children that survived their command (POSIX) |
| `corrupted` | history: entries somebody damaged from outside |

A content is a *version*; a digest is the content itself (no collisions). The native
key is the digest of the whole identity, so a key **is** the map from input files to
the versions the command hashed. Each input gives one artifact; *interfaces* are
copied verbatim and their digest is checked again while copying.

### Actions

`Start` … `Resolved` hash the inputs one after the other (an edit may come between
any two). `Find` and `Check` are the lookup: a manifest is read once, then its
artifacts one by one without a lock. `Admit` is the policy between first lookup and
lock; `Lock`, `LockFails` and the second lookup follow; `Private` is the fallback to a
command-private workspace. `Begin` removes the old record and only then does `Detach`
remove and `Write` produce each output. `Inventory` hashes the outputs, `Recheck`
compares the inputs' metadata, `OpenPending`, `WritePending`, `Validate`, `Publish`
write the record and rename it. `Broken` is the retry of `pr_build_selected`, `Unlock`
the release, `Finish` is `mp_free`, `Crash` the death of the process with everything
the kernel does then. The environment may `Edit` inputs, `Corrupt` the cache, and let
orphans write (`OrphanOpens`, `OrphanEnds`).

A hit in an artifact memo counts as the hash it replaces, as the memo requires equal
metadata; discovery of the toolchain is abstracted to resolving its files.

### Runs

| Run | Question | Bounds and why they are enough |
|---|---|---|
| `faults` | exclusion, integrity and reading under every failure | two commands, one interface and one compiled output, plain, explicit and forced requests, all faults; conflicts need two commands and the two kinds of output |
| `options` | the fallback policy | every unforced combination of options, root, eligibility and writability, in two commands |
| `progress` | every started command ends | fair specification, two commands; compiler children that outlive theirs go on writing |
| `service` | implements `PreparationService` | one input with two versions that is edited once, so that two identities are built; deaths, private fallbacks |
| `killed_parent` | a documented claim that does not hold on POSIX | see *Finding* |

More commands, more files and more edits change nothing for the safety properties:
they are proved for any number of them (below).

Fairness: each running command keeps taking steps (`WF` on `Progress`; compilers have
a limit of 120 s, `platform.h:1131`), and a command that waits for a lock which is
released again and again gets it (`SF` on `Lock`; the kernel wakes the waiters of
`flock`). Nothing is assumed of users, edits or failures. In `progress` the lock
itself never fails: a failing lock would end the wait and hide a lost release.

### What is proved

For any number of commands, files, versions and options, any faults and any bound on
edits, from `ConstantsAssumption` alone:

* `Typing`;
* `MutualExclusion`: `OneBuilderPerProfile`. Every command that works in a shared
  entry holds its lock (`OwnersHold`), a private workspace has one owner;
* `RecordsAreExact`: `CompletionRecordIsExact`, with or without orphans. A record is
  the inventory that was validated; the inventory agrees with the key wherever the
  comparison of inputs has passed (`InventoryIsSound`); before, an artifact is
  partial, right or of an input that has changed since (`ArtifactsAreSound`); and equal
  metadata means equal content (`SeenIsPast`). `PublicationInv` is their conjunction;
  none of the parts is inductive without the others;
* `ProfilesStayIntact`: `CompletedProfileIsIntact`, assuming `ChildrenDie`, which
  holds on Windows (job object, `platform.h:993`). A shared profile under construction
  has no record (`BuildsAreInvalidated`), and a command writes only where it owns.

The second half of the module adds, for any number of commands and inputs:

* `PrivateBuildsAreAllowed`, `SuccessIsShared`: the policy of the fallback. `PolicyInv`
  says what a command may have decided by the time it is in each state of `pr_prepare`;
* `PublicationIsSound`: `PublicationInv`, with or without orphans;
* `InvalidationIsForced`: `OnlyForceInvalidates`. The waiter's second lookup happens
  under the lock, and what it reads is still so when it acts (`SettledInv`); every step
  that takes a record away is the owner's (`OwnWork`) or outside damage (`Damage`);
* `UnusableProfilesAreCorrupted`, `ReadersGetTheirInputs`, assuming `ChildrenDie`;
* `ServiceIsImplemented`: the protocol implements `PreparationService`. The assumptions
  are those under which the service's promise is meant: children die with their command,
  nobody forces a rebuild (`Unforced`), nothing is damaged from outside. Under them a
  completed profile is never taken back, so `DoneSeen` only grows (`ServedInv`); every
  step of a command is an `Advance` of the service or invisible, and is invisible to
  all other commands (`OthersAreInvisible`).

Checked by TLC only: `EveryCommandEnds`, as liveness is out of the prover's reach.

### Finding

`killed_parent`: on POSIX hosts a compiler child has its own process group
(`platform.h:1066`) and nothing ends it when its `l1c` is killed, while the kernel
releases the lock at once. Another command may complete the profile, then the
surviving compiler opens its output and rewrites it, and a third command takes the
profile for a damaged one. The comment at `preparation_support.c:84` excludes that.
The run finds the sequence; with `ChildrenDie` (`faults`) the property holds. Records
stay exact in either case (`RecordsAreExact`).

## 3. Compile-only publication

### Modules

* `CompilePublication` – commands, destinations, transaction directories, renames.
* `CompileService` – the promise of ADR-0022: all replaced, nothing changed, or
  interrupted with the missing files recoverable.
* `CompilePublicationRefinement`, `MCCompilePublication`.
* `CompilePublicationProofs` – theorems.

### State

| Model | Code |
|---|---|
| `final[s][a]` | the C file, object or interface at a destination: a version, absent, partial, or something that is not a regular file |
| `txn[n]` | a transaction directory: staged files, backups, an auxiliary file of the compiler |
| `pc`, `stem`, `keep`, `made`, `name` | where the command is; its destinations, `--keep-c`, version, directory |
| `existing` | `existing_c/object/interface` of `cd_publish_artifacts` |
| `backed`, `published` | `CompilePublicationState` |
| `todo`, `restored`, `result` | position in the loops, outcome of the rollback, verdict |
| `prior`, `warned` | history: the set at the start; sets whose last writer died renaming or reported `L1C-2036` |

### Actions

`Prepare` (destination kinds), `Create` (exclusive `mkdir` of a candidate name),
`WriteC`, `WriteInterface`, `Compile`, `Validate`, then `Look`, `BackUp`, `Publish` in
the order C, object, interface; `Undo` and `Restore` are the two halves of
`cd_rollback_one`, in the opposite order; `CleanUp`, `Return`, `Crash`. One rename or
removal is one step. `CleanUp` is one step with any set of files left over, because no
other process uses the directory. In publication every operation may fail with
`"storage"`: a kind that cannot be read counts as absent, and a file that could not be
inspected then makes a later rename fail instead of being overwritten. The user is
assumed to serialise commands on the same module, as the command-line contract asks
(guard of `Start`); files of others are not changed meanwhile. A compiler child that
outlives a killed `l1c -c` writes into a directory no command uses again
(`AbandonedIsUntouched`), so it is left out.

### Run

`compile_faults`: the three endpoints, what a reader finds at a destination meanwhile
(`DestinationsAreWhole`), mixed pairs and the refinement. Commands follow one another
on one destination set that starts in any of 27 states, with and without `--keep-c`, in two versions, with every fault at every step,
any number of times; the one directory name may be taken by the dead, so the refusal of
`Create` happens. Commands on different sets share nothing but directory names: that
they do not disturb each other is proved (`StepsAreLocal`).

### What is proved

From `CompileAssumption`, for any number of commands, sets, names and versions, any
initial files and any faults: `Typing` (`TypeOK`, which the run leaves to the proof),
`Publication` (`CompileInv`), and from it `SuccessComplete`, `FailuresRestore`,
`NothingLost`, `MixedPairsReported`; `AbandonedUntouched` follows from locality.

The argument has two halves. `StepsAreLocal`: a step changes only variables of its
command, its destination set and its directory; so (`OthersKeep`) the invariant of the
others stays, provided nobody shares a set or a directory (`Exclusive`). What remains is
one lemma for each step's own command. `RenamingInv` says for every artifact where its
old and new file are: before the rollback reaches it (`Forward`), when its new file is
deleted (`Undone`) and afterwards (`Rolled`). The endpoint properties alone are not
inductive: without the position of each backup, a restoration proves nothing.

`CompilePublicationProofs` also proves that the transaction implements `CompileService`
(`ServiceIsImplemented`), under no further assumption. A caller sees a destination set
as it was until the command on it ends (`SetFact`), and what is recoverable is what
directories of the dead still hold (`RecoveryFact`). `FilesInv` is needed beyond
`CompileInv`: a destination holds nothing but its old and its new file, and a backup is
the old file of a selected artifact. Then every step is a `Start`, a `Spill` of old
files to where they can be recovered, an end, an `Interrupt`, or invisible.
`WholeDestinations` follows from `FilesInv` as well: a linker that reads while a command
runs, or after one died, meets no half-written file.

## 4. The pointer tracker of the checked runtime

`PointerTracker` models `shared/runtime/src/dea_rt_alloc.c` in the fully checked mode,
with the inline checks of `include/dea_rt.h`; `MCPointerTracker` gives values;
`PointerTrackerProofs` proves.

| Model | Code |
|---|---|
| `records[r]` | a tracker record: base, size, generation, state, kind, read-only; a free one is `"pooled"` |
| `queue`, `bytes`, `count` | the quarantine list and its two totals |
| `generation` | the counter that stamps records and wraps past zero |
| `site[s]` | a call-site cache: the record last seen and its generation |
| `heap[a]` | external: the block of the C allocator that starts at `a`, and who holds it |
| `pc` | running, or ended by a panic; `"duplicate"` is the panic of a tracked address that `malloc` returned again |

`Alloc`, `Realloc`, `Free`, `Drop` are the runtime calls for raw and object storage.
`NewString`, `FreeString`, `ExposeString`, `ExposeLiteral` are the life of string bytes,
which enter the table when their address is taken first; `RegisterForeign` and
`UnregisterForeign` are the contract of foreign storage. `Evict` is one turn of the loop
that empties the quarantine: it runs to its end before the program goes on (`Idle`).
`Access` and `Index` are the checks of generated code; where the cache of the site
accepts, nothing changes. The program is *any* program, right or wrong. The hash table
and the treap are the set of records they both hold; a lookup by containment is
`Owners`, as the search of the treap finds it.

Run `pointer_checks`: a heap of three addresses, a literal that is the end of another,
sizes one and two, one call site. One block fills the quarantine, so every second
release evicts; `MaxGeneration` is 1, so the counter wraps at *every* record and a
generation never tells two storages apart. That is the worst case for the caches: what
makes them safe is the state and the current range of the record, which the inline check
reads as well. States that differ only in what free records still say of their last
storage count as one (`VIEW`), as every check looks at the state first; records are
interchangeable (`SYMMETRY`). `CHECK_DEADLOCK FALSE`, because a panic ends the process.

Proved for any heap, literals, sizes, sites and limits (`TrackerAssumption`: literals lie
outside the heap and overlap only as suffixes of each other; counters are bounded by
constants): all five properties. `TrackerInv` says that every tracked record describes
storage that exists, that records overlap only as literals that share their end, that
what the program and the strings hold is tracked as it must be, and that the quarantine
is a list of distinct records whose sizes add up to the total. It is stated of *any*
table, heap and queue, so a step that does two things (`Realloc`) is taken in two. That
a containment search finds the record of a block (`JudgeExists`) goes by the least
distance, and the byte total by a witness that counts up (`CountsUp`).

Left out: alignment, the header of string blocks, spans derived from others, the basic
and unchecked modes, untracked indexing, the inside of hash table and treap, the
sanitizer hooks, and totals that exceed 2^64.

## 5. The string maps of the standard library

* `HashMap` – `StringPtrMap` of `shared/l1/stdlib/std/hashmap.l1`. `StringIntMap` in the
  same file, and both in the L0 library, are the same text over other values.
* `StringMap` – what callers are promised: a dictionary.
* `MCHashMap` gives values; `HashMapProofs` proves.

| Model | Code |
|---|---|
| `tab[i]` | slot `i` of the four arrays: state, cached hash, key, value; `arr_create` and `arr_zap` leave zeros (`NoKey`, null) |
| `capacity`, `count`, `tombs` | the fields of the struct |
| `held[k]` | references on the string `k` that the map owns: taken by the assignment in `_spm_set_key_retain`, given up by it and by `_spm_release_key`, moved by the `memcpy` of `_spm_rehash` |
| `stage`, `put`, `old`, `next` | where `spm_put` is, its arguments, and the arrays and the index of `_spm_rehash` |
| `answer` | what the last call returned |

`spm_put` is `PutFits` or `PutGrows`, then `MoveEntry` or `SkipSlot` for each old slot,
`EndRehash`, and `Update` or `Insert`; every other call is one action. A probe is stated
without a loop: it stops at the one slot of a set that has none of the set before it
(`FirstFrom`, `Before`), with the sign of the remainder of C (`CRem`, `Slot`). Where the
code would probe for ever, or fail its assertion, the model has no step; `RoomIsLeft`, a
part of `TableIsSound`, says that this never is the case.

Run `table`: three keys, two of one hash that begins at the last slot of every table and
wraps around, and one of a negative hash, which meet in a table of four. Capacity four
lets tombstones outnumber entries and be used again before a growth; capacity one grows
at the smallest size there is. Both stand for the 16 of the code, which three keys cannot
fill. `MaxCapacity` ends growth at eight (guard of `PutGrows`), so a `put` on a full table
of eight is not explored; the theorems hold for every `MaxCapacity`. The two keys of one
hash are interchangeable (`SYMMETRY`).

Proved for any keys, values, hashes and capacities: `TablesStaySound`,
`ReferencesAreExact`, `MapIsADictionary`. `TableInv`, which is `TableIsSound` but for
`RoomIsLeft`, is inductive; the other two build on it. `Reachable` is the heart of it:
no slot between where the probe of an entry begins and the entry is *empty*, which a
tombstone is not. Insertion into a tombstone and removal keep it, because neither makes
a slot empty; growth keeps it, because an entry goes to the first empty slot of its own
probe (`MoveIsSound` says what is still to move). That a probe ends wherever its set is
not empty goes by the least distance from its beginning; that there is room follows from
`LoadIsBounded`, the comparison of `_spm_needs_grow` with its factor of three quarters,
from `Counted`, and for the loop of `_spm_rehash`, which nothing else ends, from a new
table of twice the size. Tombstones are part of the comparison so that a quarter of the
slots is *empty* whenever something is stored, and a probe for an absent key ends there
and not at the bound of its loop; the mutant of `TableIsSound` leaves them out. Keys in
slots that are not occupied would be released a second time by the next store there;
`KeysAreZapped` excludes it. For the dictionary, the contents of the map are those of
the new table and of what has not moved yet (`Held`, `Contents`), so the steps of a
growth are invisible.

Left out: capacities beyond the range of `int`, allocation failure (a panic), and the
accessors of single slots for iteration.

## 6. The front end of Stage 1

Four modules, each extending the one before, are one specification of a whole analysis:

* `ModuleLoading` (`l0_driver.py`): `load_module` with its Python stack as a sequence of
  frames (`loading`), its `cache`, the walk that collects the `unit`, and every reason
  to refuse (`verdict`) in the order in which the code asks for it.
* `NameResolution` (`l0_name_resolver.py`): `CollectLocals`, `OpenImport`, `OpenAgain`
  over `locals`, `imported`, `visible` and `ambiguous`.
* `SignatureResolution` (`l0_signatures.py`, `l0_resolve.py`): one mention of a type
  after the other (`job`), aliases followed by recursion (`chain`), their cached types
  (`aliasType`), and what each type holds by value (`holds`).
* `TypeOrdering` (`l0_signatures.py`, `l0_backend_ordering.py`): the same sort twice,
  once to refuse types without end and once to emit C definitions; the second has no
  way to report a cycle but an internal error (stage `"ice"`).

`MCFrontEnd` holds the families of programs: every import graph of three modules (the
last with at most one import) with at most one file that is absent, not text, misnamed
or broken; every list of up to three imports, repeated or not, of modules that declare
the same name once, twice or not at all; aliases to types, to each other, to values and
to nothing, used plainly, by a qualified name and through pointers, by a module that is
handled first; and every way in which three types may hold each other.

Run `front_end` checks seven properties on all of them; `alias_scope` is a finding.

Abstractions: a fresh driver analyses one program, as its callers do; what a second
declaration of a name does to the symbol of the first is left out, as the program is
refused already; the queue of the sort is a set, as the order among ready types is that
of a dictionary and no property depends on it; the inference of the type of a `let` and
nested symbol paths are left out; two names of one warning with the same effect count as
one; function bodies are checked between `"cycles"` and `"emitting"` by the part below.

Proved for any set of modules, names and programs, in three modules that build on each
other. They assume of a program what the parser makes of files (`ProgramsAssumption`,
`DeclsAssumption`, and `WordsAssumption`: module names are not empty, no declaration has
the name of a builtin type, and an alias has one target).

* `NameResolutionProofs`: `UnitsAreExact`, `RefusalsAreDeserved` and `NamesAreVisible`.
  `LoadInv`: the frames are a path of imports; the modules in the cache and not under way
  are closed under imports and acyclic; what the walk has passed is closed but for what
  its frames have still to visit. `NameInv` relates the three tables to the *set* of
  imports opened so far, which is what makes order and repetition irrelevant.
* `TypeOrderingProofs`: `TypesAreDefinedBeforeUse`, `EndlessTypesAreRefused`. `Sorting`:
  the count of a type is the number of types it holds that are not sorted. Types that
  were all sorted have no endless subset, by the one sorted first; if the sort is stuck,
  the rest is endless.

* `SignatureProofs`: `AliasesMeanTheirModule`, `SignatureErrorsAreDeserved`: the
  properties `AliasMeansItsModule` and `SignatureErrorsAreReal` of every program in which
  `ScopesAgree`.

Neither property holds for every program: that is the finding `alias_scope`. `ScopesAgree`
draws the line. It says of each module that the target of every alias it may come to
follow names for it what it names for the module of that alias. It is a condition on the
program alone, not on what the resolver has done, and TLC finds it true of all programs
of `front_end`. So the theorem says that the finding is the only way in which an alias,
or the report of one, can go wrong.

What makes these two hard is that they judge an answer by `Denoted`, which looks at the
types the aliases have *so far*: an alias that a circle or an error has left without a
type may be asked for again later, by another module, and every answer given before must
stay right. `MeaningInv` therefore speaks of answers that are `Final`: they wait for no
alias that may still get a type. `Lost` is the greatest set of aliases of which each
means no type and waits only for others of the set or for aliases that have their type;
it contains every circle (`CircleKeeps`) and every alias whose target has failed
(`OneMoreLost`), and it only grows (`FinalStays`). The rest of the invariant: the chain is
a path of different aliases without types, an alias with a type has the one its target
denotes and is in no circle, every mention that is through is settled (final, reported if
it is no type, and any circle it leads into reported), a type holds what its mentions so
far denote, and whatever was reported is there. The path is what a circle is cut from;
the same name declared twice would break it, so the invariant also says that a unit that
goes on without `RES-0010` declares each name once.

## 7. A function through Stage 1

* `L0Syntax` – function bodies as records. Types are reduced to what ownership tells
  apart: counted strings, optional strings, heap pointers, and what owns nothing.
* `FlowChecker` (`l0_check_flow.py`, `l0_check_state.py`, `l0_check_liveness.py`) – the
  statement checker: liveness of dropped bindings, reachability, loop captures with the
  fixed point, return paths.
* `Lowering` (`l0_backend_lowering.py`, `l0_backend_lifetime.py`, `l0_scope_context.py`,
  `l0_c_cleanup.py`, `l0_c_statements.py`) – every statement and cleanup, and the
  expressions that own or borrow, to instructions over C objects. A C name is resolved
  innermost block first where the text that names it stands, as the C compiler does:
  that is where a release may reach the wrong object.
* `SourceMeaning` – what a body means, without scopes to clean up, labels or counts.
* `CValues` – what a C object may hold.
* `GeneratedC` – the state machine: a function is compiled, and the C it becomes runs
  over C objects (`slots`) and counted heap objects, with every outcome of its calls.
* `Ownership` – the discipline of generated C. An annotation gives instructions an
  account: which slots hold nothing counted, an argument of the caller, a string that is
  owed a release, a live pointer. `Accounts` checks it one instruction at a time. The
  emitter keeps the discipline without writing it down.
* `Winding` – why generated C ends: a second annotation gives nodes (an instruction, and
  whether a call has answered "no" since one last answered "yes") the slots known to be
  false or null, and a number that every instruction uses up some of. `Winds` checks it.
* `GeneratedCProofs` – theorems about `GeneratedC`, from `Accounts` and `Winds` alone.
* `CompiledFunction` – ties these together: `Compiled` checks and lowers a body.
  `MCCompiledFunction` holds the functions and computes their annotations.

The checker and the lowering are recursive functions of the body, as in the code; their
records `c` and `g` hold the mutable state of the Python objects. The instructions are
the actions `Move`, `NewObject`, `MaybeObject`, `CallOut`, `Matches`, `Count`,
`DropObject`, `Branching` and `Leaving`.

Run `function` compiles and runs 3227 bodies: ten constructs, each around each, around
seven kinds of exit and eight ways to drop a pointer; eight expressions in thirteen
positions; `with` statements whose items, bodies and cleanups exit, also from the
condition of a loop; cleanup blocks and shadowed names. The first four calls of a run
answer in every way (`MaxOutcomes`), later ones "no": one iteration of each of two nested loops and an exit in the second need four.
Whether a refusal is deserved is asked of eight calls (`MaxWitness`), because a witness
may need a second turn of both loops.

Both translations were compared with the compiler itself: on 2663 generated programs the
checker of the model and the Python checker report the same codes, and on 1403 the
instructions are the C text the Python back end emits, name for name.

C arguments count as evaluated from left to right, as the compilers in use do. Shapes
that the compiler at this commit translates wrongly are kept out of the passing run, so
that it says something about all others; each was confirmed with the compiler:

* an early exit from below two owners of one C name (run `early_exit`);
* a cleanup of `with` that exits abruptly releases again what the exit under way has
  released, or leaks it, and a `?` in the body before it leaves the rest of the block
  marked unreachable (`l0/docs/reference/ownership.md:270` promises the opposite);
* a cleanup with `continue`, or a `break` where the inner loop owns something, that a `?`
  in a loop condition runs, jumps to a label of that inner loop and not of the loop
  around the `with`: its labels are pushed before the condition, its cleanup target
  after it (`loops` and `targets` in `Lowering`);
* a dropped pointer used by a cleanup after an early exit is accepted;
* a returned local that is moved out, and assigned by a cleanup afterwards;
* a declaration that shadows a name and reads it in its initializer reads itself;
* two `?` in one concatenation leak the first operand when the second fails;
* a loop whose drop is undone on every way back may be refused with `TYP-0062`;
* a match payload is used after its arm assigned the scrutinee.

Two more are known outside this model: the second `analyze` of one driver accepts an
import circle (callers create a driver each time), and the finding `alias_scope`.

### What is proved of it

The checker and the lowering are recursive operators, out of the prover's reach; the
machine that runs their C is not. So the question is split where a validator of
translations splits it:

1. *Each function keeps the discipline.* The first conjunct of `TypeOK` is `Accounts` and
   `Winds`; TLC asks both of every function of the run when it starts.
   The bodies of `early_exit` are compiled to code that does not keep it: there the
   inner owner is released twice, and no annotation allows that.
2. *Code that keeps it runs soundly.* `GeneratedCProofs` proves this for any functions,
   annotations, numbers of parameters and slots, and calls that answer (TLC: four),
   from `Accounted`: every accepted function satisfies `Accounts`; and from `WindsDown`,
   the same of `Winds`, that it ends.

The theorems are `RunsKeepAccount` and, from it, `RunsAreTyped`, `NothingDeadIsTouched`,
`EveryExitBalances` and `ResultsAreReturned`, and `RunsWindDown`
for `NeverSpins`. `Accounted` and `WindsDown` are hypotheses and not `ASSUME`s, since they
can fail: the first does in `early_exit`.

`CountsBalance` speaks of the end of a run only, so it is not inductive. `RunInv` says
for each instruction that `Holds` (the slots are what the account says, all slots of a
set hold one value, and two live sets never one pointer) and `Balanced` (a string is
counted once for the caller, if it is an argument, and once for each set that holds it).
Each instruction has an `Effect` on the account, and a lemma that what it does to slots
and heap makes the effect true (`Storing`, `AliasHolds`, `NewString`, `RetainHolds`,
`ReleaseHolds`, `DropHolds`, ...). Where paths meet, the account there may ask for less
than what either brings, but owes the same releases: `SameOwing` maps one set of debts
onto the other, and `Weaker` follows.

`NeverSpins` bounds a count that grows with every instruction, so its invariant `WindInv`
says what pays for it: the run is at a node whose `known` the slots agree with, and the
count and what the node has `left` are at most twice the length of the code. An
instruction leads to a node with less left, and a call that answers "yes" resets the
count. Whether a flag is known to be false decides which way an `ifnot` goes: the emitter
tests most conditions through one, and a way round the loop with the flag false would
otherwise look endless. Nodes are kept apart by whether a call has answered "no" because
only then is the flag known.

`MeansTheSource` and `RejectionIsDeserved` relate the C, and what the checker refuses, to
the source; they need induction over the body and stay with TLC.

## 8. Findings

| Run | Source | What |
|---|---|---|
| `killed_parent` | `support/preparation/platform.h:1066` | a compiler that survives a killed `l1c` on POSIX writes into a completed profile; the comment at `preparation_support.c:84` excludes that |
| `early_exit` | `l0_backend_lowering.py:40` | an early exit releases a shadowed owner's inner object twice and its outer one never; `ownership.md:269` says that all scopes are cleaned |
| `alias_scope` | `l0_signatures.py:323` | the target of an imported alias is looked up in the importer; `stage2-contract.md:98` says imports open only what the provider declares |

These three runs are expected to report a violation, with the sequence of steps.

## 9. Bounds, abstractions and limits

* Commands are slots: when one is gone, its slot may start another.
* `MaxStamp` bounds the edits of an input (guard of `Edit`); `MaxOutcomes` and
  `MaxWitness` bound calls that answer "yes"; `MaxGeneration`, `MaxBytes`, `MaxCount` are
  the limits of the runtime, chosen so small that each is reached at once; `Records`
  bounds the storage tracked at a time; `MaxCapacity` the size of a hash table. Nothing
  else is counted.
* Symmetry permutes commands (safety runs of native preparation), records, and the two
  keys of one hash.
  `progress`, which checks liveness, and all other runs use none.
* Definitions named for a plausible bug (`LockIgnored`, `FirstHeld`, …) belong to no
  specification: each replaces the definition it is named after to show that a property
  can fail.
* Diagnostics, logging, path spelling, JSON, hashing and word quoting are left out.

What TLAPS has proved is listed in `PROJECT.json` "theorems"; all proofs are complete and
rest on the named assumptions of the modules and the hypotheses they state alone. Out of
the prover's reach, and so checked by TLC only: liveness (`EveryCommandEnds`), and what
needs the `RECURSIVE` operators of section 7 (`MeansTheSource`, `RejectionIsDeserved`).
Cardinalities and sums over recursive functions enter the proofs
through step lemmas and least elements, not through induction over data.

### Not modelled

* **Parsers, lexers, interfaces, C text, command lines, diagnostics**: text to tree and
  back. Their behaviours are their grammar, which the corpora of the repository test.
* **Expression types, patterns, constants; name resolution, types and slice lifetimes of
  L1**: judgements without state across nodes, or the L1 descendants of what is modelled
  for Stage 1.
* **L1 driver, back end, link driver**: sequential; the first two have the structure of
  their Stage 1 counterparts.
* **Stage 2 and L2**: further copies of the same compilers.
* **Identity discovery and memos; explicit profiles**: a memo hit counts as a fresh hash.
* **ARC string counts, containers other than string maps, other runtime and library
  modules.**
* **Documentation tools, scripts, editor support**: most of the Python in the repository
  (the vendored `m.css`, the documentation generators, validation scripts, measurements)
  is none of the program's logic. This, the parser and the text of the back end are why
  the modelled lines are a small share of all Python lines; the modelled C and L0 sources
  of L1 are not among them.

What would come next, most useful first: the memos of native identity (written in place
without a lock), the failure cache of the L1 driver, and explicit profiles.
`PROJECT.json` "hazards" names the line of each.

## 10. Running

`tlc -config X.cfg M`, where `M` is the `MC` module of the run: `MCNativePreparation` for
`NativePreparation_*.cfg`, `MCCompilePublication`, `MCPointerTracker`, `MCHashMap`,
`MCCompiledFunction` for theirs, and `MCFrontEnd` for `TypeOrdering_*.cfg`. The longest takes some minutes.

`tlapm M.tla` for `NativePreparationProofs`, `CompilePublicationProofs`,
`PointerTrackerProofs`, `HashMapProofs`, `NameResolutionProofs`, `TypeOrderingProofs`, `SignatureProofs` and `GeneratedCProofs`.
