------------------------- MODULE NativePreparation -------------------------
(***************************************************************************)
(* Managed native preparation of L1: many l1c processes share one cache    *)
(* root, each resolves the identity of its inputs, reuses the completed    *)
(* profile of that identity or builds it under a per-identity OS lock,     *)
(* and then reads the selected profile until the command ends              *)
(* (src/l1/compiler/src/preparation.l0, support/preparation_support.c,     *)
(* support/preparation/{storage,construction,build,platform}.h).           *)
(*                                                                         *)
(* Data abstraction.  A file's content is a version; a digest is the       *)
(* content itself.  Profile artifact f is built from input file f.  The    *)
(* native key is the digest of the whole identity, so a key IS the map     *)
(* from input files to the versions the command hashed.                    *)
(***************************************************************************)
EXTENDS Naturals

CONSTANTS
    Commands,       \* l1c invocations sharing the cache (slots, reused)
    Files,          \* input files, and the artifact derived from each
    Interfaces,     \* the inputs copied verbatim (semantic interfaces)
    Versions,       \* contents an input file can have
    InitialInput,   \* the contents at the start
    Options,        \* the command lines and environments that occur
    Faults,         \* the failures the environment may inject
    MaxStamp,       \* bound on the metadata changes of each input file
    ChildrenDie,    \* TRUE: build children die with l1c (Windows job objects)
    NoOne, NoFile, NoManifest, Torn, Partial

(* "force" is accepted with --prepare-stdlib only, and that mode refuses   *)
(* --no-auto-prepare (cli_args/parse.l0).  "root": the cache root was      *)
(* chosen explicitly; "eligible": the toolchain observation succeeded.     *)
CommandOptions ==
    {o \in [explicit : BOOLEAN, force : BOOLEAN, auto : BOOLEAN,
            root : BOOLEAN, eligible : BOOLEAN, writable : BOOLEAN] :
        /\ o.force => o.explicit
        /\ o.explicit => o.auto}

FaultKinds == {"crash", "corruption", "storage", "lock", "tool", "inputs"}

Contents == Versions \cup {Partial}     \* Partial: missing or incomplete
Keys     == [Files -> Versions]
Digests  == [Files -> Contents]         \* what a manifest records
Stamped  == [version : Versions, stamp : Nat]
Places   == Keys \cup Commands          \* shared entries, private workspaces

ASSUME ConstantsAssumption ==
    /\ Files # {} /\ Interfaces \subseteq Files
    /\ InitialInput \in Keys
    /\ Options \subseteq CommandOptions /\ Options # {}
    /\ Faults \subseteq FaultKinds
    /\ MaxStamp \in [Files -> Nat]
    /\ ChildrenDie \in BOOLEAN
    /\ NoOne \notin Commands
    /\ NoFile \notin Files
    /\ Partial \notin Versions
    /\ NoManifest \notin Digests /\ Torn \notin Digests /\ NoManifest # Torn
    /\ Keys \cap Commands = {}

VARIABLES
    input,      \* the toolchain's input files: content and metadata stamp
    lock,       \* holder of each key's advisory lock
    art,        \* artifact files of each profile directory
    manifest,   \* manifest.json of each profile directory
    pending,    \* .manifest.pending of each profile directory
    corrupted,  \* keys whose completed profile was damaged from outside
    orphans,    \* compiler children that outlived their l1c: <<key, file>>
    pc,         \* where each command stands in pr_prepare
    opt,        \* its options
    seen,       \* the inputs it hashed: content and metadata (new_files)
    private,    \* it owns a command-private workspace (private_root)
    todo,       \* files its current loop still has to visit
    at,         \* the artifact its compiler child or copy is writing
    snap,       \* the manifest it read, or the inventory it computed
    found,      \* result of its last profile lookup
    err         \* its retained diagnostic number, 0 for none

store == <<art, manifest, pending, corrupted, orphans>>
local == <<opt, seen, private, todo, at, snap, found, err>>
vars  == <<input, lock, store, pc, local>>

AnyOption == CHOOSE o \in Options : TRUE
Initial(f) == [version |-> InitialInput[f], stamp |-> 0]
Blank == [f \in Files |-> Partial]

Init ==
    /\ input = [f \in Files |-> Initial(f)]
    /\ lock = [k \in Keys |-> NoOne]
    /\ art = [d \in Places |-> Blank]
    /\ manifest = [d \in Places |-> NoManifest]
    /\ pending = [d \in Places |-> NoManifest]
    /\ corrupted = {} /\ orphans = {}
    /\ pc = [p \in Commands |-> "idle"]
    /\ opt = [p \in Commands |-> AnyOption]
    /\ seen = [p \in Commands |-> [f \in Files |-> Initial(f)]]
    /\ private = [p \in Commands |-> FALSE]
    /\ todo = [p \in Commands |-> {}]
    /\ at = [p \in Commands |-> NoFile]
    /\ snap = [p \in Commands |-> NoManifest]
    /\ found = [p \in Commands |-> "miss"]
    /\ err = [p \in Commands |-> 0]

-----------------------------------------------------------------------------
(* Helpers.                                                                *)

Key(p)   == [f \in Files |-> seen[p][f].version]
Place(p) == IF private[p] THEN p ELSE Key(p)
Holds(p) == lock[Key(p)] = p

Goto(p, l) == pc' = [pc EXCEPT ![p] = l]

(* Seeded fault: the lock outlives its command.                            *)
LockLeaks(p) == UNCHANGED lock

Unlocked(p) == lock' = [lock EXCEPT ![Key(p)] = IF @ = p THEN NoOne ELSE @]

(* Only the first diagnostic is retained.                                  *)
Report(p, code) == err' = [err EXCEPT ![p] = IF @ = 0 THEN code ELSE @]

(* A failing step of the build pipeline, and a failing step outside it.    *)
Break(p, code) == Report(p, code) /\ Goto(p, "broken")
Refuse(p, code) == Report(p, code) /\ Goto(p, "failed")

Matches(p, f, digest) ==
    art[Place(p)][f] = digest[f] /\ (f \in Interfaces => digest[f] = Key(p)[f])

-----------------------------------------------------------------------------
(* Seeded faults: plausible bugs, each of which one of the properties below *)
(* must expose when it replaces the action it is named after.              *)

\* A mismatch is passed on as an error instead of an unusable profile.
CheckErrs(p) ==
    /\ pc[p] = "check"
    /\ \/ \E f \in todo[p] : ~Matches(p, f, snap[p]) /\ found' = [found EXCEPT ![p] = "error"]
       \/ (\A f \in todo[p] : Matches(p, f, snap[p])) /\ found' = [found EXCEPT ![p] = "hit"]
    /\ Goto(p, IF found'[p] = "hit" THEN "using" ELSE "failed")
    /\ UNCHANGED <<input, lock, store, opt, seen, private, todo, at, snap, err>>

\* --no-auto-prepare is forgotten.
AdmitAnyway(p) ==
    LET o == opt[p]
        alone == ~o.eligible \/ ~o.writable \/ found[p] = "unusable"
    IN  /\ pc[p] = "admit"
        /\ Goto(p, IF ~alone THEN "lock" ELSE IF o.explicit THEN "failed" ELSE "private")
        /\ UNCHANGED <<input, lock, store, local>>

\* The result of flock is ignored.
LockIgnored(p) ==
    /\ pc[p] = "lock"
    /\ lock' = [lock EXCEPT ![Key(p)] = p]
    /\ Goto(p, IF opt[p].force THEN "begin" ELSE "find")
    /\ UNCHANGED <<input, store, local>>

\* A waiter does not look again.
LockAndBuild(p) ==
    /\ pc[p] = "lock" /\ lock[Key(p)] = NoOne
    /\ lock' = [lock EXCEPT ![Key(p)] = p]
    /\ Goto(p, "begin")
    /\ UNCHANGED <<input, store, local>>

\* The completion manifest survives until its replacement.
BeginLazily(p) ==
    /\ pc[p] = "begin"
    /\ todo' = [todo EXCEPT ![p] = Files]
    /\ Goto(p, "build")
    /\ UNCHANGED <<input, lock, store, opt, seen, private, at, snap, found, err>>

\* The inputs are not compared again before publication.
RecheckNothing(p) ==
    /\ pc[p] = "recheck"
    /\ Goto(p, "open")
    /\ UNCHANGED <<input, lock, store, local>>

\* The record is written under its final name.
OpenInPlace(p) ==
    /\ pc[p] = "open"
    /\ manifest' = [manifest EXCEPT ![Place(p)] = Torn]
    /\ pending' = [pending EXCEPT ![Place(p)] = Torn]
    /\ Goto(p, "record")
    /\ UNCHANGED <<input, lock, art, corrupted, orphans, local>>

\* A failed build is selected like a completed one.
BrokenSelected(p) ==
    /\ pc[p] = "broken"
    /\ Unlocked(p)
    /\ Goto(p, "using")
    /\ UNCHANGED <<input, store, local>>

\* Explicit preparation falls back to a private workspace, too.
BrokenRetried(p) ==
    /\ pc[p] = "broken"
    /\ Unlocked(p)
    /\ Goto(p, IF private[p] THEN "failed" ELSE "private")
    /\ UNCHANGED <<input, store, local>>

-----------------------------------------------------------------------------
(* One command.                                                            *)

(* The user starts l1c.  The manual asks to serialize forced preparation   *)
(* against other compiler processes; forced commands may overlap.          *)
Start(p) ==
    /\ pc[p] = "idle"
    /\ \E o \in Options :
        /\ \A q \in Commands \ {p} : pc[q] # "idle" => opt[q].force = o.force
        /\ opt' = [opt EXCEPT ![p] = o]
    /\ todo' = [todo EXCEPT ![p] = Files]
    /\ Goto(p, "resolve")
    /\ UNCHANGED <<input, lock, store, seen, private, at, snap, found, err>>

(* pc_roots: an unusable explicit root fails the resolution.               *)
RefuseRoot(p) ==
    /\ pc[p] = "resolve" /\ opt[p].root /\ ~opt[p].writable
    /\ Refuse(p, 2150)
    /\ UNCHANGED <<input, lock, store, opt, seen, private, todo, at, snap, found>>

(* pc_input_digest: one stable read binds a file's content to its metadata. *)
ResolveFile(p) ==
    /\ pc[p] = "resolve" /\ ~(opt[p].root /\ ~opt[p].writable)
    /\ \E f \in todo[p] :
        /\ seen' = [seen EXCEPT ![p][f] = input[f]]
        /\ todo' = [todo EXCEPT ![p] = @ \ {f}]
    /\ UNCHANGED <<input, lock, store, pc, opt, private, at, snap, found, err>>

(* l1c_prep_resolve returns; --force skips the first lookup.               *)
Resolved(p) ==
    /\ pc[p] = "resolve" /\ todo[p] = {} /\ ~(opt[p].root /\ ~opt[p].writable)
    /\ Goto(p, IF opt[p].force THEN "admit" ELSE "find")
    /\ UNCHANGED <<input, lock, store, local>>

(* What pr_prepare does with a lookup's result, before and under the lock. *)
LookupResult(p, result) ==
    /\ found' = [found EXCEPT ![p] = result]
    /\ IF result = "miss" /\ Holds(p) THEN lock' = lock ELSE Unlocked(p)
    /\ \/ result = "hit" /\ Goto(p, "using") /\ err' = err
       \/ result # "hit" /\ ~Holds(p) /\ Goto(p, "admit") /\ err' = err
       \/ result = "miss" /\ Holds(p) /\ Goto(p, "begin") /\ err' = err
       \/ result = "unusable" /\ Holds(p) /\ opt[p].explicit /\ Refuse(p, 2153)
       \/ result = "unusable" /\ Holds(p) /\ ~opt[p].explicit
            /\ Goto(p, "private") /\ err' = err

(* pc_find_profile reads the completion manifest of the resolved key.      *)
Find(p) ==
    /\ pc[p] = "find"
    /\ \/ /\ ~opt[p].eligible \/ manifest[Key(p)] = NoManifest
          /\ LookupResult(p, "miss")
          /\ UNCHANGED <<todo, snap>>
       \/ /\ opt[p].eligible /\ manifest[Key(p)] = Torn
          /\ LookupResult(p, "unusable")
          /\ UNCHANGED <<todo, snap>>
       \/ /\ opt[p].eligible /\ manifest[Key(p)] \notin {NoManifest, Torn}
          /\ snap' = [snap EXCEPT ![p] = manifest[Key(p)]]
          /\ todo' = [todo EXCEPT ![p] = Files]
          /\ Goto(p, "check")
          /\ UNCHANGED <<lock, found, err>>
    /\ UNCHANGED <<input, store, opt, seen, private, at>>

(* pc_validate_entry_manifest walks the inventory, artifact by artifact.   *)
Check(p) ==
    /\ pc[p] = "check"
    /\ \/ /\ todo[p] = {}
          /\ LookupResult(p, "hit")
          /\ todo' = todo
       \/ \E f \in todo[p] :
            /\ ~Matches(p, f, snap[p])
            /\ LookupResult(p, "unusable")
            /\ todo' = todo
       \/ \E f \in todo[p] :
            /\ Matches(p, f, snap[p])
            /\ todo' = [todo EXCEPT ![p] = @ \ {f}]
            /\ UNCHANGED <<lock, pc, found, err>>
    /\ UNCHANGED <<input, store, opt, seen, private, at, snap>>

(* A miss: the frontend validates every interface, then policy decides     *)
(* between the shared entry and a command-private workspace.               *)
Admit(p) ==
    LET o == opt[p]
        alone == ~o.eligible \/ ~o.writable \/ found[p] = "unusable"
    IN  /\ pc[p] = "admit"
        /\ \/ "inputs" \in Faults /\ Refuse(p, 2158)
           \/ o.explicit /\ ~o.eligible /\ Refuse(p, 2154)
           \/ o.explicit /\ o.eligible /\ ~o.writable /\ Refuse(p, 2150)
           \/ o.explicit /\ o.eligible /\ o.writable /\ alone /\ Refuse(p, 2153)
           \/ ~o.explicit /\ ~o.auto /\ Refuse(p, 2159)
           \/ ~o.explicit /\ o.auto /\ alone /\ Goto(p, "private") /\ err' = err
           \/ o.auto /\ ~alone /\ Goto(p, "lock") /\ err' = err
        /\ UNCHANGED <<input, lock, store, opt, seen, private, todo, at, snap, found>>

(* flock(LOCK_EX) blocks; a waiter looks the profile up again unless forced. *)
Lock(p) ==
    /\ pc[p] = "lock" /\ lock[Key(p)] = NoOne
    /\ lock' = [lock EXCEPT ![Key(p)] = p]
    /\ Goto(p, IF opt[p].force THEN "begin" ELSE "find")
    /\ UNCHANGED <<input, store, local>>

LockFails(p) ==
    /\ pc[p] = "lock" /\ "lock" \in Faults
    /\ Report(p, 2152)
    /\ Goto(p, IF opt[p].explicit \/ opt[p].root THEN "failed" ELSE "private")
    /\ UNCHANGED <<input, lock, store, opt, seen, private, todo, at, snap, found>>

(* l1c_prep_private: a fresh directory; storage and lock errors at an      *)
(* implicit root are forgiven, any other retained error is final.          *)
Private(p) ==
    LET forgiven == ~opt[p].root /\ err[p] \in {2150, 2152}
    IN  /\ pc[p] = "private"
        /\ \/ /\ err[p] # 0 /\ ~forgiven
              /\ Goto(p, "failed")
              /\ UNCHANGED <<art, manifest, pending, private, err>>
           \/ /\ err[p] = 0 \/ forgiven
              /\ "storage" \in Faults
              /\ err' = [err EXCEPT ![p] = 2150]
              /\ Goto(p, "failed")
              /\ UNCHANGED <<art, manifest, pending, private>>
           \/ /\ err[p] = 0 \/ forgiven
              /\ err' = [err EXCEPT ![p] = 0]
              /\ private' = [private EXCEPT ![p] = TRUE]
              /\ art' = [art EXCEPT ![p] = Blank]
              /\ manifest' = [manifest EXCEPT ![p] = NoManifest]
              /\ pending' = [pending EXCEPT ![p] = NoManifest]
              /\ Goto(p, "begin")
        /\ UNCHANGED <<input, lock, corrupted, orphans, opt, seen, todo, at, snap, found>>

(* pc_begin_profile invalidates the completion manifest before anything    *)
(* else; directories or scratch may then still fail.                       *)
Begin(p) ==
    /\ pc[p] = "begin"
    /\ todo' = [todo EXCEPT ![p] = Files]
    /\ \/ "storage" \in Faults /\ Break(p, 2150) /\ manifest' = manifest
       \/ /\ manifest' = [manifest EXCEPT ![Place(p)] = NoManifest]
          /\ \/ "storage" \in Faults /\ Break(p, 2150)
             \/ Goto(p, "build") /\ err' = err
    /\ UNCHANGED <<input, lock, art, pending, corrupted, orphans, opt, seen, private,
                   at, snap, found>>

(* pc_output_path detaches the old artifact before its replacement is      *)
(* written.  Interfaces go first; a copy checks its source's digest.       *)
Detach(p) ==
    /\ pc[p] = "build"
    /\ \E f \in todo[p] :
        /\ f \in Interfaces \/ todo[p] \cap Interfaces = {}
        /\ \/ /\ f \in Interfaces /\ input[f].version # Key(p)[f]
              /\ Break(p, 2158)
              /\ UNCHANGED <<art, at>>
           \/ /\ "storage" \in Faults
              /\ Break(p, 2150)
              /\ UNCHANGED <<art, at>>
           \/ /\ f \in Interfaces => input[f].version = Key(p)[f]
              /\ art' = [art EXCEPT ![Place(p)][f] = Partial]
              /\ at' = [at EXCEPT ![p] = f]
              /\ Goto(p, "write") /\ err' = err
    /\ UNCHANGED <<input, lock, manifest, pending, corrupted, orphans, opt, seen,
                   private, todo, snap, found>>

(* A copy writes the bytes it checked; a compiler reads its input now.  A  *)
(* failed or timed-out command leaves an incomplete file.                  *)
Write(p) ==
    LET f == at[p]
        output == IF f \in Interfaces THEN Key(p)[f] ELSE input[f].version
    IN  /\ pc[p] = "write"
        /\ \/ /\ art' = [art EXCEPT ![Place(p)][f] = output]
              /\ todo' = [todo EXCEPT ![p] = @ \ {f}]
              /\ Goto(p, IF todo[p] = {f} THEN "inventory" ELSE "build")
              /\ err' = err
           \/ /\ f \in Interfaces /\ "storage" \in Faults
              /\ Break(p, 2150) /\ UNCHANGED <<art, todo>>
           \/ /\ f \notin Interfaces /\ "tool" \in Faults
              /\ Break(p, 2156) /\ UNCHANGED <<art, todo>>
        /\ at' = [at EXCEPT ![p] = NoFile]
        /\ UNCHANGED <<input, lock, manifest, pending, corrupted, orphans, opt, seen,
                       private, snap, found>>

(* pc_finish_construction hashes every declared artifact.                  *)
Inventory(p) ==
    LET made == art[Place(p)]
    IN  /\ pc[p] = "inventory"
        /\ \/ /\ \E f \in Files : made[f] = Partial \/ ~Matches(p, f, made)
              /\ Break(p, 2153)
              /\ UNCHANGED <<todo, snap>>
           \/ /\ \A f \in Files : made[f] # Partial /\ Matches(p, f, made)
              /\ snap' = [snap EXCEPT ![p] = made]
              /\ todo' = [todo EXCEPT ![p] = Files]
              /\ Goto(p, "recheck") /\ err' = err
        /\ UNCHANGED <<input, lock, store, opt, seen, private, at, found>>

(* pc_complete_profile removes the pending manifest on any failure; that   *)
(* removal may itself fail.                                                *)
Abandon(p, code) ==
    /\ Break(p, code)
    /\ \/ pending' = [pending EXCEPT ![Place(p)] = NoManifest]
       \/ "storage" \in Faults /\ pending' = pending

(* pc_preparation_inputs_current compares each input's metadata with what  *)
(* the resolution recorded.                                                *)
Recheck(p) ==
    /\ pc[p] = "recheck"
    /\ \/ /\ \E f \in todo[p] : input[f].stamp # seen[p][f].stamp
          /\ Abandon(p, 2151)
          /\ todo' = todo
       \/ \E f \in todo[p] :
            /\ input[f].stamp = seen[p][f].stamp
            /\ todo' = [todo EXCEPT ![p] = @ \ {f}]
            /\ UNCHANGED <<pc, err, pending>>
       \/ /\ todo[p] = {}
          /\ Goto(p, "open")
          /\ UNCHANGED <<todo, err, pending>>
    /\ UNCHANGED <<input, lock, art, manifest, corrupted, orphans, opt, seen, private,
                   at, snap, found>>

(* A stale pending file is removed; the new one is written and closed.     *)
OpenPending(p) ==
    /\ pc[p] = "open"
    /\ \/ "storage" \in Faults /\ Abandon(p, 2150)
       \/ pending' = [pending EXCEPT ![Place(p)] = Torn] /\ Goto(p, "record") /\ err' = err
    /\ UNCHANGED <<input, lock, art, manifest, corrupted, orphans, opt, seen, private,
                   todo, at, snap, found>>

WritePending(p) ==
    /\ pc[p] = "record"
    /\ \/ "storage" \in Faults /\ Abandon(p, 2150)
       \/ /\ pending' = [pending EXCEPT ![Place(p)] = snap[p]]
          /\ Goto(p, "validate") /\ err' = err
    /\ UNCHANGED <<input, lock, art, manifest, corrupted, orphans, opt, seen, private,
                   todo, at, snap, found>>

(* pc_validate_entry_manifest(full) on .manifest.pending.                  *)
Validate(p) ==
    LET whole == \A f \in Files : Matches(p, f, pending[Place(p)])
    IN  /\ pc[p] = "validate"
        /\ \/ ~whole /\ Abandon(p, 2153)
           \/ whole /\ Goto(p, "publish") /\ UNCHANGED <<pending, err>>
        /\ UNCHANGED <<input, lock, art, manifest, corrupted, orphans, opt, seen,
                       private, todo, at, snap, found>>

(* rename(.manifest.pending, manifest.json) is the completion.             *)
Publish(p) ==
    /\ pc[p] = "publish"
    /\ \/ "storage" \in Faults /\ Abandon(p, 2150) /\ UNCHANGED <<manifest, corrupted>>
       \/ /\ manifest' = [manifest EXCEPT ![Place(p)] = pending[Place(p)]]
          /\ pending' = [pending EXCEPT ![Place(p)] = NoManifest]
          /\ corrupted' = corrupted \ {Place(p)}
          /\ Goto(p, "unlock") /\ err' = err
    /\ UNCHANGED <<input, lock, art, orphans, opt, seen, private, todo, at, snap, found>>

(* pr_prepare's end after a build that succeeded ...                       *)
Unlock(p) ==
    /\ pc[p] = "unlock"
    /\ Unlocked(p)
    /\ Goto(p, "using")
    /\ UNCHANGED <<input, store, local>>

(* ... and after one that failed: an implicit shared build that met a      *)
(* storage error retries once in a private workspace.                      *)
Broken(p) ==
    LET retry == /\ ~private[p] /\ ~opt[p].explicit /\ ~opt[p].root
                 /\ err[p] \in {2150, 2152}
    IN  /\ pc[p] = "broken"
        /\ Unlocked(p)
        /\ Goto(p, IF retry THEN "private" ELSE "failed")
        /\ UNCHANGED <<input, store, local>>

(* The command ends or dies: its lock and its context go with it.  Its     *)
(* private tree is removed, or after a kill left where nobody looks again. *)
Gone(p) ==
    /\ Goto(p, "idle")
    /\ Unlocked(p)
    /\ opt' = [opt EXCEPT ![p] = AnyOption]
    /\ seen' = [seen EXCEPT ![p] = [f \in Files |-> Initial(f)]]
    /\ private' = [private EXCEPT ![p] = FALSE]
    /\ todo' = [todo EXCEPT ![p] = {}]
    /\ at' = [at EXCEPT ![p] = NoFile]
    /\ snap' = [snap EXCEPT ![p] = NoManifest]
    /\ found' = [found EXCEPT ![p] = "miss"]
    /\ err' = [err EXCEPT ![p] = 0]
    /\ art' = [art EXCEPT ![p] = Blank]
    /\ manifest' = [manifest EXCEPT ![p] = NoManifest]
    /\ pending' = [pending EXCEPT ![p] = NoManifest]

(* l1c_prep_free after the last consumer.                                  *)
Finish(p) ==
    /\ pc[p] \in {"using", "failed"}
    /\ Gone(p)
    /\ UNCHANGED <<input, corrupted, orphans>>

(* l1c is killed between any two steps.  pc_probe runs the compiler in a   *)
(* process group of its own, and the lock descriptor is close-on-exec.     *)
Crash(p) ==
    /\ "crash" \in Faults /\ pc[p] # "idle"
    /\ Gone(p)
    /\ orphans' =
         IF at[p] \in Files \ Interfaces /\ ~private[p] /\ ~ChildrenDie
         THEN orphans \cup {<<Key(p), at[p]>>} ELSE orphans
    /\ UNCHANGED <<input, corrupted>>

-----------------------------------------------------------------------------
(* The environment.                                                        *)

(* Someone edits, replaces or rewrites a toolchain input file.  Edits that *)
(* preserve the metadata are outside the documented contract.              *)
Edit(f) ==
    /\ input[f].stamp < MaxStamp[f]
    /\ \E v \in Versions :
         input' = [input EXCEPT ![f] = [version |-> v, stamp |-> @.stamp + 1]]
    /\ UNCHANGED <<lock, store, pc, local>>

(* Damage from outside to an artifact of a completed shared profile.       *)
Corrupt(k, f) ==
    /\ "corruption" \in Faults
    /\ k \notin corrupted /\ manifest[k] \notin {NoManifest, Torn}
    /\ art' = [art EXCEPT ![k][f] = Partial]
    /\ corrupted' = corrupted \cup {k}
    /\ UNCHANGED <<input, lock, manifest, pending, orphans, pc, local>>

(* A compiler child whose l1c is gone truncates its output, then ends.     *)
OrphanOpens(k, f) ==
    /\ <<k, f>> \in orphans
    /\ art' = [art EXCEPT ![k][f] = Partial]
    /\ UNCHANGED <<input, lock, manifest, pending, corrupted, orphans, pc, local>>

OrphanEnds(k, f) ==
    /\ <<k, f>> \in orphans
    /\ art' = [art EXCEPT ![k][f] = input[f].version]
    /\ orphans' = orphans \ {<<k, f>>}
    /\ UNCHANGED <<input, lock, manifest, pending, corrupted, pc, local>>

Environment ==
    \/ \E f \in Files : Edit(f)
    \/ \E k \in Keys, f \in Files :
         Corrupt(k, f) \/ OrphanOpens(k, f) \/ OrphanEnds(k, f)

-----------------------------------------------------------------------------
Progress(p) ==
    \/ RefuseRoot(p) \/ ResolveFile(p) \/ Resolved(p) \/ Find(p) \/ Check(p)
    \/ Admit(p) \/ Lock(p) \/ LockFails(p) \/ Private(p) \/ Begin(p)
    \/ Detach(p) \/ Write(p) \/ Inventory(p) \/ Recheck(p) \/ OpenPending(p)
    \/ WritePending(p) \/ Validate(p) \/ Publish(p) \/ Unlock(p) \/ Broken(p)
    \/ Finish(p)

Next ==
    \/ \E p \in Commands : Start(p) \/ Progress(p) \/ Crash(p)
    \/ Environment

Spec == Init /\ [][Next]_vars

(* A started command keeps running, its compiler runs end (120 s limit),   *)
(* and the kernel grants a lock that keeps being released.                 *)
Fairness == \A p \in Commands : WF_vars(Progress(p)) /\ SF_vars(Lock(p))
FairSpec == Spec /\ Fairness

-----------------------------------------------------------------------------
(* Properties.                                                             *)

Lookup   == {"find", "check"}
Building == {"build", "write", "inventory", "recheck", "open", "record", "validate", "publish"}
Owning   == Building \cup {"begin", "unlock", "broken"}
Steps    == {"idle", "resolve", "admit", "lock", "private", "using", "failed"}
              \cup Lookup \cup Owning

Errors == {0, 2150, 2151, 2152, 2153, 2154, 2156, 2158, 2159}

(* Every variable keeps its type.                                          *)
TypeOK ==
    /\ input \in [Files -> Stamped]
    /\ lock \in [Keys -> Commands \cup {NoOne}]
    /\ art \in [Places -> Digests]
    /\ manifest \in [Places -> Digests \cup {NoManifest, Torn}]
    /\ pending \in [Places -> Digests \cup {NoManifest, Torn}]
    /\ corrupted \subseteq Keys
    /\ orphans \subseteq Keys \X Files
    /\ pc \in [Commands -> Steps]
    /\ opt \in [Commands -> Options]
    /\ seen \in [Commands -> [Files -> Stamped]]
    /\ private \in [Commands -> BOOLEAN]
    /\ todo \in [Commands -> SUBSET Files]
    /\ at \in [Commands -> Files \cup {NoFile}]
    /\ snap \in [Commands -> Digests \cup {NoManifest, Torn}]
    /\ found \in [Commands -> {"miss", "hit", "unusable"}]
    /\ err \in [Commands -> Errors]

(* Two commands never build in the same directory at the same time, whoever *)
(* waits, falls back, fails or dies (pc_acquire_profile, pc_begin_profile). *)
OneBuilderPerProfile ==
    \A p, q \in Commands :
        pc[p] \in Owning /\ pc[q] \in Owning /\ Place(p) = Place(q) => p = q

(* A published completion record describes exactly the outputs of the       *)
(* inputs its key names: no input edited between resolution and publication *)
(* and no torn, partial or foreign record is ever published                 *)
(* (pc_preparation_inputs_current, pc_complete_profile).                    *)
CompletionRecordIsExact ==
    \A k \in Keys : manifest[k] \in {NoManifest, k}

(* The files of a completed profile stay the ones its record describes,     *)
(* whatever other commands rebuild, abandon or leave behind, until somebody *)
(* damages them from outside (pc_begin_profile, pc_output_path).            *)
CompletedProfileIsIntact ==
    \A k \in Keys : manifest[k] # NoManifest =>
        art[k] = manifest[k] \/ k \in corrupted

(* "Atomic publication makes a killed/in-progress writer an incomplete      *)
(* miss, and ensures readers never mistake a partial record for completed   *)
(* corruption" (preparation_support.c): a lookup reports an unusable        *)
(* profile only when a completed profile was damaged from outside.          *)
UnusableMeansCorrupted ==
    \A p \in Commands : found[p] = "unusable" /\ ~opt[p].force => Key(p) \in corrupted

(* As long as a build, run or link command reads its selected profile,      *)
(* shared or private, the profile stays the exact build of the inputs that  *)
(* the command resolved (mp_ensure to mp_free).                             *)
UsersReadTheirInputs ==
    \A p \in Commands :
        pc[p] = "using" /\ ~opt[p].explicit /\ (private[p] \/ Key(p) \notin corrupted)
            => art[Place(p)] = Key(p)

(* Explicit preparation that exits with 0 leaves a completed shared profile *)
(* of the inputs it resolved, until somebody forces a replacement.          *)
ExplicitSuccessIsShared ==
    \A p \in Commands :
        pc[p] = "using" /\ opt[p].explicit /\ ~opt[p].force
            => ~private[p] /\ manifest[Key(p)] = Key(p)

(* A command builds privately only if it may: never an explicit one, and at *)
(* an explicit cache root only for an ineligible or unusable profile.       *)
PrivateOnlyIfAllowed ==
    \A p \in Commands : private[p] =>
        /\ ~opt[p].explicit /\ opt[p].auto
        /\ opt[p].root => ~opt[p].eligible \/ found[p] = "unusable"

(* A completed profile, sound or damaged, is invalidated only by a forced   *)
(* command that holds its lock: a waiter that finds the profile completed   *)
(* does not build it again and corruption is not repaired automatically.    *)
OnlyForceInvalidates ==
    [][\A k \in Keys : manifest[k] # NoManifest /\ manifest'[k] # manifest[k] =>
         \E p \in Commands : lock[k] = p /\ opt[p].force]_vars

(* The inductive strengthening of the invariants above.                    *)

(* Whoever works in a shared profile holds its lock.                       *)
OwnersHold ==
    \A p \in Commands : pc[p] \in Owning /\ ~private[p] => Holds(p)

(* The metadata a command recorded is never ahead of the file's, and as     *)
(* long as it is the file's, so is the content.                            *)
Stale(p, f) == input[f].stamp # seen[p][f].stamp
SeenIsPast ==
    \A f \in Files :
        /\ input[f].stamp = 0 => input[f] = Initial(f)
        /\ \A p \in Commands : seen[p][f].stamp <= input[f].stamp
                               /\ (~Stale(p, f) => seen[p][f] = input[f])

(* A finished artifact is incomplete or right, unless its input has changed; *)
(* the inventory is right wherever the inputs have been compared again, and *)
(* a validated record is that inventory.                                   *)
ArtifactsAreSound(p) ==
    /\ pc[p] = "inventory" => todo[p] = {}
    /\ pc[p] \in {"build", "write", "inventory"} =>
         \A f \in Files \ todo[p] :
             art[Place(p)][f] = Partial \/ art[Place(p)][f] = Key(p)[f] \/ Stale(p, f)

InventoryIsSound(p) ==
    /\ pc[p] \in {"recheck", "open", "record", "validate", "publish"} =>
         /\ snap[p] \in Digests
         /\ \A f \in Files : snap[p][f] # Key(p)[f] =>
                pc[p] = "recheck" /\ f \in todo[p] /\ Stale(p, f)
    /\ pc[p] \in {"validate", "publish"} => pending[Place(p)] = snap[p]

PublicationInv ==
    /\ OwnersHold
    /\ SeenIsPast
    /\ \A p \in Commands : ArtifactsAreSound(p) /\ InventoryIsSound(p)
    /\ CompletionRecordIsExact

(* Whoever builds a shared profile has invalidated it, and what it validated *)
(* is what it publishes if build children die with their command.          *)
BuildsAreInvalidated ==
    \A p \in Commands : pc[p] \in Building /\ ~private[p] =>
        /\ manifest[Key(p)] = NoManifest
        /\ pc[p] = "publish" => art[Key(p)] = pending[Key(p)]

(* A command that was started ends, with success or failure: nobody waits   *)
(* for ever for a profile lock whose holder failed, fell back or died.      *)
EveryCommandEnds ==
    \A p \in Commands : pc[p] # "idle" ~> pc[p] = "idle"
=============================================================================
