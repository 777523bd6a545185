------------------------- MODULE CompilePublication -------------------------
(***************************************************************************)
(* Compile-only mode of L1 (l1c -c): a command stages the generated C, the *)
(* object and the interface of one module in a private transaction         *)
(* directory beside their destinations, backs the old files up, publishes  *)
(* the new ones by renames, and rolls back when a rename fails             *)
(* (src/l1/compiler/src/compile_driver.l0, compile_driver/compile.l0 and   *)
(* compile_driver/transaction.l0).                                         *)
(*                                                                         *)
(* Commands that compile different modules into one directory overlap, as  *)
(* under a parallel make; the manual asks to serialize writers of the same *)
(* module.  A file's content is the version of the module it was made from.*)
(***************************************************************************)
EXTENDS Naturals

CONSTANTS
    Commands,       \* l1c -c invocations (slots, reused)
    Stems,          \* destination sets: paths without their extension
    Names,          \* names of transaction directories
    KeepC,          \* the values of --keep-c that occur
    Versions,       \* versions of a module's source
    InitialSets,    \* what may lie at a destination set at the start
    Faults,         \* the failures the environment may inject
    Absent,         \* no file
    Odd,            \* something that is not a regular file
    Partial,        \* a regular file that was not written to its end
    NoDir, NoName

Artifacts == {"c", "o", "l1m"}
Contents  == Versions \cup {Absent, Odd, Partial}
FileSets  == [Artifacts -> Contents]
FaultKinds == {"storage", "cleanup", "compiler", "crash"}
Nothing   == [a \in Artifacts |-> Absent]
Empty     == [staged |-> Nothing, backup |-> Nothing, side |-> FALSE]
Dirs      == [staged : FileSets, backup : FileSets, side : BOOLEAN]

ASSUME CompileAssumption ==
    /\ Versions # {} /\ Stems # {} /\ KeepC \subseteq BOOLEAN
    /\ InitialSets \subseteq FileSets /\ InitialSets # {}
    /\ Absent \notin Versions /\ Odd \notin Versions /\ Partial \notin Versions
    /\ Absent # Odd /\ Absent # Partial /\ Odd # Partial
    /\ Faults \subseteq FaultKinds
    /\ NoDir \notin Dirs
    /\ NoName \notin Names

VARIABLES
    final,      \* the files at each destination set
    txn,        \* the transaction directories
    pc,         \* where each command stands
    stem,       \* its destination set
    keep,       \* --keep-c
    made,       \* the version it compiles
    name,       \* its transaction directory
    todo,       \* artifacts its current loop has still to visit
    existing,   \* the old files it saw before the first rename
    backed,     \* CompilePublicationState.backup_*
    published,  \* CompilePublicationState.published_*
    restored,   \* no step of its rollback has failed
    result,     \* how it ends
    prior,      \* history: its destination set when it started
    warned      \* history: sets left by a death or L1C-2036 and not replaced since

progress == <<todo, existing, backed, published, restored>>
request  == <<stem, keep, made, prior>>
vars == <<final, txn, pc, request, name, progress, result, warned>>

Regular(x) == x \notin {Absent, Odd}
Paired(set) == set["o"] = set["l1m"] /\ set["o"] # Odd

AnyStem == CHOOSE s \in Stems : TRUE
AnyVersion == CHOOSE v \in Versions : TRUE

Init ==
    /\ final \in [Stems -> InitialSets]
    /\ txn = [n \in Names |-> NoDir]
    /\ pc = [p \in Commands |-> "idle"]
    /\ stem = [p \in Commands |-> AnyStem]
    /\ keep = [p \in Commands |-> FALSE]
    /\ made = [p \in Commands |-> AnyVersion]
    /\ name = [p \in Commands |-> NoName]
    /\ todo = [p \in Commands |-> {}]
    /\ existing = [p \in Commands |-> {}]
    /\ backed = [p \in Commands |-> {}]
    /\ published = [p \in Commands |-> {}]
    /\ restored = [p \in Commands |-> TRUE]
    /\ result = [p \in Commands |-> "none"]
    /\ prior = [p \in Commands |-> Nothing]
    /\ warned = {s \in Stems : ~Paired(final[s])}

-----------------------------------------------------------------------------
(* Helpers.                                                                *)

Selected(p) == IF keep[p] THEN Artifacts ELSE {"o", "l1m"}
Dir(p) == txn[name[p]]
Now(p, a) == final[stem[p]][a]

Rank == [c |-> 1, o |-> 2, l1m |-> 3]
IsFirst(a, S) == a \in S /\ \A b \in S : Rank[a] <= Rank[b]
IsLast(a, S)  == a \in S /\ \A b \in S : Rank[b] <= Rank[a]

Goto(p, l) == pc' = [pc EXCEPT ![p] = l]
Finish(p, r) == Goto(p, "end") /\ result' = [result EXCEPT ![p] = r]
Discard(p, r) == Goto(p, "cleanup") /\ result' = [result EXCEPT ![p] = r]

Place(p, a, x)  == final' = [final EXCEPT ![stem[p]][a] = x]
Stage(p, a, x)  == txn' = [txn EXCEPT ![name[p]].staged[a] = x]

(* cfs_rename_absent moves a regular file to an absent destination.        *)
CanMove(from, to) == Regular(from) /\ to = Absent

-----------------------------------------------------------------------------
(* Seeded faults: plausible bugs that the properties must expose.          *)

\* The result of write_file is not looked at.
WriteUnchecked(p, here, a, next) ==
    /\ pc[p] = here
    /\ \/ Stage(p, a, made[p])
       \/ "storage" \in Faults /\ \E x \in {Absent, Partial} : Stage(p, a, x)
    /\ Goto(p, next)
    /\ UNCHANGED <<final, request, name, progress, result, warned>>

\* An existing directory of the same name is taken over.
CreateAnywhere(p) ==
    /\ pc[p] = "create"
    /\ \E n \in Names :
        /\ txn' = [txn EXCEPT ![n] = Empty]
        /\ name' = [name EXCEPT ![p] = n]
    /\ Goto(p, "write_c")
    /\ UNCHANGED <<final, request, progress, result, warned>>

\* A failed backup is reported without undoing the earlier ones.
BackUpHalf(p) ==
    /\ pc[p] = "backup"
    /\ \E a \in todo[p] :
        /\ IsFirst(a, todo[p])
        /\ \/ /\ Discard(p, "restored")
              /\ UNCHANGED <<final, txn, backed, todo>>
           \/ /\ CanMove(Now(p, a), Dir(p).backup[a])
              /\ txn' = [txn EXCEPT ![name[p]].backup[a] = Now(p, a)]
              /\ Place(p, a, Absent)
              /\ backed' = [backed EXCEPT ![p] = @ \cup {a}]
              /\ todo' = [todo EXCEPT ![p] = IF @ = {a} THEN Selected(p) ELSE @ \ {a}]
              /\ Goto(p, IF todo[p] = {a} THEN "publish" ELSE "backup")
              /\ result' = result
    /\ UNCHANGED <<request, name, existing, published, restored, warned>>

\* A failed publication of one artifact does not stop the command.
PublishOn(p) ==
    /\ pc[p] = "publish"
    /\ \E a \in todo[p] :
        /\ IsFirst(a, todo[p])
        /\ \/ UNCHANGED <<final, txn>>
           \/ Place(p, a, Dir(p).staged[a]) /\ Stage(p, a, Absent)
        /\ todo' = [todo EXCEPT ![p] = @ \ {a}]
        /\ IF todo[p] = {a} THEN Discard(p, "success") ELSE UNCHANGED <<pc, result>>
    /\ UNCHANGED <<request, name, existing, backed, published, restored, warned>>

\* Only the result of the last restoration is kept.
RestoreLast(p) ==
    /\ pc[p] = "restore"
    /\ \E a \in todo[p] :
        /\ IsLast(a, todo[p])
        /\ \/ /\ a \in backed[p] => CanMove(Dir(p).backup[a], Now(p, a))
              /\ IF a \in backed[p]
                 THEN /\ Place(p, a, Dir(p).backup[a])
                      /\ txn' = [txn EXCEPT ![name[p]].backup[a] = Absent]
                 ELSE UNCHANGED <<final, txn>>
              /\ restored' = [restored EXCEPT ![p] = TRUE]
           \/ /\ a \in backed[p]
              /\ restored' = [restored EXCEPT ![p] = FALSE]
              /\ UNCHANGED <<final, txn>>
        /\ todo' = [todo EXCEPT ![p] = @ \ {a}]
        /\ \/ todo[p] # {a} /\ Goto(p, "undo") /\ result' = result
           \/ todo[p] = {a} /\ restored'[p] /\ Discard(p, "restored")
           \/ todo[p] = {a} /\ ~restored'[p] /\ Finish(p, "retained")
    /\ UNCHANGED <<request, name, existing, backed, published, warned>>

\* A publication that was undone is reported as successful.
UndoNothing(p) ==
    /\ pc[p] = "undo"
    /\ Discard(p, "success")
    /\ UNCHANGED <<final, txn, request, name, progress, warned>>

-----------------------------------------------------------------------------
(* One command: preparation and staging.                                   *)

(* The user starts l1c -c on a version of a module that nobody else is     *)
(* compiling into the same destinations.                                   *)
Start(p) ==
    /\ pc[p] = "idle"
    /\ \E s \in Stems, k \in KeepC, v \in Versions :
        /\ \A q \in Commands \ {p} : pc[q] # "idle" => stem[q] # s
        /\ stem' = [stem EXCEPT ![p] = s]
        /\ keep' = [keep EXCEPT ![p] = k]
        /\ made' = [made EXCEPT ![p] = v]
        /\ prior' = [prior EXCEPT ![p] = final[s]]
    /\ Goto(p, "prepare")
    /\ UNCHANGED <<final, txn, name, progress, result, warned>>

(* Analysis, the output parent, and the kind of every selected destination; *)
(* without --keep-c the C file is not even looked at.                      *)
Prepare(p) ==
    /\ pc[p] = "prepare"
    /\ \/ /\ \/ Faults \cap {"storage", "compiler"} # {}
             \/ \E a \in Selected(p) : Now(p, a) = Odd
          /\ Finish(p, "refused")
       \/ /\ \A a \in Selected(p) : Now(p, a) # Odd
          /\ Goto(p, "create") /\ result' = result
    /\ UNCHANGED <<final, txn, request, name, progress, warned>>

(* mkdir is exclusive: a name that is taken makes the next one be tried.   *)
Create(p) ==
    /\ pc[p] = "create"
    /\ \/ /\ "storage" \in Faults \/ \A n \in Names : txn[n] # NoDir
          /\ Finish(p, "refused")
          /\ UNCHANGED <<txn, name>>
       \/ \E n \in Names :
            /\ txn[n] = NoDir
            /\ txn' = [txn EXCEPT ![n] = Empty]
            /\ name' = [name EXCEPT ![p] = n]
            /\ Goto(p, "write_c") /\ result' = result
    /\ UNCHANGED <<final, request, progress, warned>>

(* The staging directory, then the C text and the interface text; a failed *)
(* write leaves nothing or the beginning of the file.                      *)
WriteStaged(p, here, a, next) ==
    /\ pc[p] = here
    /\ \/ /\ Stage(p, a, made[p])
          /\ Goto(p, next) /\ result' = result
       \/ /\ "storage" \in Faults
          /\ \E x \in {Absent, Partial} : Stage(p, a, x)
          /\ Discard(p, "refused")
    /\ UNCHANGED <<final, request, name, progress, warned>>

WriteC(p) == WriteStaged(p, "write_c", "c", "write_l1m")
WriteInterface(p) == WriteStaged(p, "write_l1m", "l1m", "compile")

(* The host compiler: it makes the object, with an auxiliary file that a   *)
(* raw option asked for or without; it fails; or it reports success and    *)
(* leaves no object.                                                       *)
Compile(p) ==
    /\ pc[p] = "compile"
    /\ \/ /\ \E side \in (IF "compiler" \in Faults THEN BOOLEAN ELSE {FALSE}) :
               txn' = [txn EXCEPT ![name[p]].staged["o"] = made[p], ![name[p]].side = side]
          /\ Goto(p, "validate") /\ result' = result
       \/ /\ "compiler" \in Faults
          /\ \E x \in {Absent, Partial} : Stage(p, "o", x)
          /\ Discard(p, "refused")
       \/ "compiler" \in Faults /\ txn' = txn /\ Goto(p, "validate") /\ result' = result
    /\ UNCHANGED <<final, request, name, progress, warned>>

(* cd_validate_staged.                                                     *)
Validate(p) ==
    /\ pc[p] = "validate"
    /\ LET valid == /\ Regular(Dir(p).staged["c"]) /\ Regular(Dir(p).staged["o"])
                    /\ Dir(p).staged["l1m"] = made[p]
       IN  \/ valid /\ Goto(p, "look") /\ result' = result
           \/ ~valid /\ Discard(p, "refused")
           \/ "storage" \in Faults /\ Discard(p, "refused")
    /\ UNCHANGED <<final, txn, request, name, progress, warned>>

-----------------------------------------------------------------------------
(* cd_publish_artifacts.                                                   *)

(* Which old files have to be backed up; a file whose kind cannot be read  *)
(* counts as absent.                                                       *)
Look(p) ==
    /\ pc[p] = "look"
    /\ LET old == {a \in Selected(p) : Regular(Now(p, a))}
       IN  \E seen \in (IF "storage" \in Faults THEN SUBSET old ELSE {old}) :
             /\ existing' = [existing EXCEPT ![p] = seen]
             /\ todo' = [todo EXCEPT ![p] = IF seen = {} THEN Selected(p) ELSE seen]
             /\ Goto(p, IF seen = {} THEN "publish" ELSE "backup")
    /\ UNCHANGED <<final, txn, request, name, backed, published, restored, result, warned>>

(* The first failure stops the forward loops and starts the rollback.      *)
RollBack(p) ==
    /\ Goto(p, "undo")
    /\ todo' = [todo EXCEPT ![p] = Selected(p)]

BackUp(p) ==
    /\ pc[p] = "backup"
    /\ \E a \in todo[p] :
        /\ IsFirst(a, todo[p])
        /\ \/ /\ "storage" \in Faults \/ ~CanMove(Now(p, a), Dir(p).backup[a])
              /\ RollBack(p)
              /\ UNCHANGED <<final, txn, backed>>
           \/ /\ CanMove(Now(p, a), Dir(p).backup[a])
              /\ txn' = [txn EXCEPT ![name[p]].backup[a] = Now(p, a)]
              /\ Place(p, a, Absent)
              /\ backed' = [backed EXCEPT ![p] = @ \cup {a}]
              /\ todo' = [todo EXCEPT ![p] = IF @ = {a} THEN Selected(p) ELSE @ \ {a}]
              /\ Goto(p, IF todo[p] = {a} THEN "publish" ELSE "backup")
    /\ UNCHANGED <<request, name, existing, published, restored, result, warned>>

(* The interface is the last to become visible.                            *)
Publish(p) ==
    /\ pc[p] = "publish"
    /\ \E a \in todo[p] :
        /\ IsFirst(a, todo[p])
        /\ \/ /\ "storage" \in Faults \/ ~CanMove(Dir(p).staged[a], Now(p, a))
              /\ RollBack(p)
              /\ UNCHANGED <<final, txn, published, result>>
           \/ /\ CanMove(Dir(p).staged[a], Now(p, a))
              /\ Place(p, a, Dir(p).staged[a])
              /\ Stage(p, a, Absent)
              /\ published' = [published EXCEPT ![p] = @ \cup {a}]
              /\ todo' = [todo EXCEPT ![p] = @ \ {a}]
              /\ IF todo[p] = {a} THEN Discard(p, "success") ELSE UNCHANGED <<pc, result>>
    /\ UNCHANGED <<request, name, existing, backed, restored, warned>>

(* cd_rollback_one, interface first: delete the new file ...               *)
Undo(p) ==
    /\ pc[p] = "undo"
    /\ \E a \in todo[p] :
        /\ IsLast(a, todo[p])
        /\ \/ a \notin published[p] /\ UNCHANGED <<final, restored>>
           \/ a \in published[p] /\ Place(p, a, Absent) /\ restored' = restored
           \/ /\ a \in published[p] /\ "storage" \in Faults
              /\ restored' = [restored EXCEPT ![p] = FALSE] /\ final' = final
    /\ Goto(p, "restore")
    /\ UNCHANGED <<txn, request, name, todo, existing, backed, published, result, warned>>

(* ... and put the old one back.  A failure does not stop the rollback; it  *)
(* keeps the transaction directory, with every backup that is left in it.  *)
Restore(p) ==
    /\ pc[p] = "restore"
    /\ \E a \in todo[p] :
        /\ IsLast(a, todo[p])
        /\ \/ a \notin backed[p] /\ UNCHANGED <<final, txn, restored>>
           \/ /\ a \in backed[p] /\ CanMove(Dir(p).backup[a], Now(p, a))
              /\ Place(p, a, Dir(p).backup[a])
              /\ txn' = [txn EXCEPT ![name[p]].backup[a] = Absent]
              /\ restored' = restored
           \/ /\ a \in backed[p]
              /\ ("storage" \in Faults \/ ~CanMove(Dir(p).backup[a], Now(p, a)))
              /\ restored' = [restored EXCEPT ![p] = FALSE]
              /\ UNCHANGED <<final, txn>>
        /\ todo' = [todo EXCEPT ![p] = @ \ {a}]
        /\ \/ todo[p] # {a} /\ Goto(p, "undo") /\ result' = result
           \/ todo[p] = {a} /\ restored'[p] /\ Discard(p, "restored")
           \/ todo[p] = {a} /\ ~restored'[p] /\ Finish(p, "retained")
    /\ UNCHANGED <<request, name, existing, backed, published, warned>>

(* cd_cleanup_transaction_checked: any file may resist, and then, or with   *)
(* an auxiliary file, the directory stays.  Nobody else uses the directory. *)
Left(p, S, B) ==
    [staged |-> [a \in Artifacts |-> IF a \in S THEN Dir(p).staged[a] ELSE Absent],
     backup |-> [a \in Artifacts |-> IF a \in B THEN Dir(p).backup[a] ELSE Absent],
     side   |-> Dir(p).side]

CleanUp(p) ==
    /\ pc[p] = "cleanup"
    /\ \E S, B \in SUBSET Artifacts :
         /\ "cleanup" \notin Faults => S = {} /\ B = {}
         /\ txn' = [txn EXCEPT ![name[p]] = IF Left(p, S, B) = Empty THEN NoDir ELSE Left(p, S, B)]
    /\ name' = [name EXCEPT ![p] = NoName]
    /\ Goto(p, "end")
    /\ UNCHANGED <<final, request, progress, result, warned>>

(* The process is gone, with what it knew.                                 *)
Gone(p) ==
    /\ Goto(p, "idle")
    /\ stem' = [stem EXCEPT ![p] = AnyStem]
    /\ keep' = [keep EXCEPT ![p] = FALSE]
    /\ made' = [made EXCEPT ![p] = AnyVersion]
    /\ prior' = [prior EXCEPT ![p] = Nothing]
    /\ name' = [name EXCEPT ![p] = NoName]
    /\ todo' = [todo EXCEPT ![p] = {}]
    /\ existing' = [existing EXCEPT ![p] = {}]
    /\ backed' = [backed EXCEPT ![p] = {}]
    /\ published' = [published EXCEPT ![p] = {}]
    /\ restored' = [restored EXCEPT ![p] = TRUE]
    /\ result' = [result EXCEPT ![p] = "none"]
    /\ UNCHANGED <<final, txn>>

Renaming == {"backup", "publish", "undo", "restore"}

Return(p) ==
    /\ pc[p] = "end"
    /\ Gone(p)
    /\ warned' = CASE result[p] = "success"  -> warned \ {stem[p]}
                   [] result[p] = "retained" -> warned \cup {stem[p]}
                   [] OTHER -> warned

Crash(p) ==
    /\ "crash" \in Faults /\ pc[p] # "idle"
    /\ Gone(p)
    /\ warned' = IF pc[p] \in Renaming \/ result[p] = "retained"
                 THEN warned \cup {stem[p]} ELSE warned

Step(p) ==
    \/ Start(p) \/ Prepare(p) \/ Create(p) \/ WriteC(p) \/ WriteInterface(p)
    \/ Compile(p) \/ Validate(p) \/ Look(p) \/ BackUp(p) \/ Publish(p)
    \/ Undo(p) \/ Restore(p) \/ CleanUp(p) \/ Return(p)

Next == \E p \in Commands : Step(p) \/ Crash(p)

Spec == Init /\ [][Next]_vars

-----------------------------------------------------------------------------
(* Properties.                                                             *)

Staging == {"write_c", "write_l1m", "compile", "validate", "look"}
Steps == {"idle", "prepare", "create", "cleanup", "end"} \cup Staging \cup Renaming

(* Every variable keeps its type.                                          *)
TypeOK ==
    /\ final \in [Stems -> FileSets]
    /\ txn \in [Names -> Dirs \cup {NoDir}]
    /\ pc \in [Commands -> Steps]
    /\ stem \in [Commands -> Stems]
    /\ keep \in [Commands -> BOOLEAN]
    /\ made \in [Commands -> Versions]
    /\ name \in [Commands -> Names \cup {NoName}]
    /\ todo \in [Commands -> SUBSET Artifacts]
    /\ existing \in [Commands -> SUBSET Artifacts]
    /\ backed \in [Commands -> SUBSET Artifacts]
    /\ published \in [Commands -> SUBSET Artifacts]
    /\ restored \in [Commands -> BOOLEAN]
    /\ result \in [Commands -> {"none", "refused", "success", "restored", "retained"}]
    /\ prior \in [Commands -> FileSets]
    /\ warned \subseteq Stems

Replaced(p, a) == IF a \in Selected(p) THEN made[p] ELSE prior[p][a]

(* Exit status 0 leaves the complete new set, and everything else as it    *)
(* was (ADR-0022, first endpoint; cd_publish_artifacts).                   *)
SuccessIsComplete ==
    \A p \in Commands : pc[p] = "end" /\ result[p] = "success" =>
        \A a \in Artifacts : Now(p, a) = Replaced(p, a)

(* A refusal or L1C-2035 leaves the exact prior set, whichever of the six   *)
(* renames failed and whatever could not be read (second endpoint).        *)
FailureRestores ==
    \A p \in Commands : pc[p] = "end" /\ result[p] \in {"refused", "restored"} =>
        final[stem[p]] = prior[p]

Kept(p, a) ==
    \/ Now(p, a) = prior[p][a]
    \/ name[p] # NoName /\ Dir(p) # NoDir /\ Dir(p).backup[a] = prior[p][a]

(* At any moment, so also when the command dies there or gives up with      *)
(* L1C-2036, every old file is at its place or in the transaction          *)
(* directory, until the new set is complete (third endpoint).              *)
NothingIsLost ==
    \A p \in Commands : pc[p] # "idle" =>
        \/ \A a \in Artifacts : prior[p][a] # Absent => Kept(p, a)
        \/ \A a \in Artifacts : Now(p, a) = Replaced(p, a)

(* Once a command is gone no later command touches the directory it left:   *)
(* recovery files stay what they were (cd_create_transaction_for_identity). *)
AbandonedIsUntouched ==
    [][\A n \in Names :
         txn[n] # NoDir /\ (\A p \in Commands : name[p] # n) => txn'[n] = txn[n]]_vars

(* Between commands an object and its interface are of the same version,    *)
(* unless the last command on them died while renaming or reported L1C-2036. *)
MixedPairsAreReported ==
    \A s \in Stems \ warned :
        (\A p \in Commands : pc[p] # "idle" => stem[p] # s) => Paired(final[s])

(* Whoever looks at a destination while a command runs, or after it died    *)
(* there, finds the file that was there, the complete new one or none, and  *)
(* a file that was not to be replaced always: no failed write or compiler   *)
(* run becomes visible (cd_validate_staged, cd_publish_artifacts).         *)
DestinationsAreWhole ==
    \A p \in Commands : pc[p] # "idle" =>
        \A a \in Artifacts :
            \/ Now(p, a) = prior[p][a]
            \/ a \in Selected(p) /\ Now(p, a) \in {made[p], Absent}

(* The inductive strengthening of the invariants above.                    *)

Untouched == {"prepare", "create"} \cup Staging
Ending    == {"cleanup", "end"}

(* Nobody shares a destination set or a transaction directory, and a        *)
(* command has its directory exactly from mkdir to cleanup.                *)
Exclusive ==
    /\ \A p, q \in Commands : p # q =>
         /\ pc[p] # "idle" /\ pc[q] # "idle" => stem[p] # stem[q]
         /\ name[p] # NoName => name[p] # name[q]
    /\ \A p \in Commands :
         /\ name[p] # NoName => Dir(p) \in Dirs
         /\ pc[p] \in {"idle", "prepare", "create"} => name[p] = NoName
         /\ pc[p] \in Staging \cup Renaming \cup {"cleanup"} => name[p] # NoName

(* The verdict comes last, and a verdict L1C-2036 keeps the directory.      *)
VerdictInv(p) ==
    /\ pc[p] \notin Ending <=> result[p] = "none"
    /\ result[p] = "retained" => pc[p] = "end" /\ name[p] # NoName

(* What validation makes of the staged files.                              *)
StagedInv(p) ==
    /\ pc[p] \in {"idle"} \cup Untouched => backed[p] = {} /\ published[p] = {} /\ restored[p]
    /\ pc[p] \in Staging => Dir(p).backup = Nothing
    /\ pc[p] \in Staging \ {"write_c"} => Dir(p).staged["c"] = made[p]
    /\ pc[p] \in {"compile", "validate", "look"} => Dir(p).staged["l1m"] = made[p]
    /\ pc[p] \in {"write_c", "write_l1m", "compile"} => Dir(p).staged["o"] = Absent
    /\ pc[p] = "validate" => Dir(p).staged["o"] \in {made[p], Absent}
    /\ pc[p] = "look" => Dir(p).staged["o"] = made[p]

(* Where the artifacts are before the rollback has come to them: the old    *)
(* file in the backup iff backed up, the new one in its place iff published. *)
Forward(p, a) ==
    /\ a \in published[p] => Now(p, a) = made[p] /\ (a \in backed[p] \/ prior[p][a] = Absent)
    /\ a \notin published[p] => Dir(p).staged[a] = made[p]
    /\ a \notin published[p] => Now(p, a) = IF a \in backed[p] THEN Absent ELSE prior[p][a]
    /\ a \in backed[p] => Regular(prior[p][a])
    /\ Dir(p).backup[a] = IF a \in backed[p] THEN prior[p][a] ELSE Absent

(* ... when its new file has been deleted, ...                             *)
Undone(p, a) ==
    /\ a \in backed[p] => Dir(p).backup[a] = prior[p][a]
    /\ a \notin backed[p] => prior[p][a] = Absent \/ Now(p, a) = prior[p][a]
    /\ restored[p] => Now(p, a) = IF a \in backed[p] THEN Absent ELSE prior[p][a]

(* ... and when its rollback is over.                                      *)
Rolled(p, a) ==
    /\ prior[p][a] \in {Absent, Now(p, a), Dir(p).backup[a]}
    /\ restored[p] => Now(p, a) = prior[p][a]

RenamingInv(p) == pc[p] \in Renaming =>
    /\ todo[p] \subseteq Selected(p) /\ todo[p] # {}
    /\ backed[p] \subseteq Selected(p) /\ published[p] \subseteq Selected(p)
    /\ \A a \in Artifacts \ Selected(p) : Now(p, a) = prior[p][a]
    /\ pc[p] \in {"backup", "publish"} => restored[p]
    /\ pc[p] = "backup" => published[p] = {} /\ backed[p] \cap todo[p] = {}
    /\ pc[p] = "publish" => todo[p] = Selected(p) \ published[p]
    /\ \A a \in Selected(p) :
         IF pc[p] \in {"backup", "publish"} THEN Forward(p, a)
         ELSE IF a \notin todo[p] THEN Rolled(p, a)
         ELSE IF pc[p] = "restore" /\ IsLast(a, todo[p]) THEN Undone(p, a)
         ELSE Forward(p, a)

VerdictIsTrue(p) ==
    /\ pc[p] \in Untouched \/ result[p] \in {"refused", "restored"} => final[stem[p]] = prior[p]
    /\ result[p] = "success" => \A a \in Artifacts : Now(p, a) = Replaced(p, a)
    /\ result[p] = "retained" =>
         \A a \in Artifacts : prior[p][a] \in {Absent, Now(p, a), Dir(p).backup[a]}

CommandInv(p) ==
    /\ VerdictInv(p) /\ StagedInv(p) /\ RenamingInv(p) /\ VerdictIsTrue(p)
    /\ pc[p] # "idle" /\ stem[p] \notin warned => Paired(prior[p])

CompileInv ==
    /\ Exclusive
    /\ MixedPairsAreReported
    /\ \A p \in Commands : CommandInv(p)
=============================================================================
