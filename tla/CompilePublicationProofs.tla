----------------------- MODULE CompilePublicationProofs -----------------------
(***************************************************************************)
(* Compile-only publication keeps its three endpoint guarantees for any    *)
(* number of commands, destination sets, directories and versions, with any*)
(* failures and deaths.  Each step is shown to touch only what belongs to   *)
(* its command (OnlyOwn), so that the invariant of every other command      *)
(* carries over; what is left is one lemma for each step's own command.     *)
(*                                                                         *)
(* From the same invariant, which says where the old and new file of every *)
(* artifact is, publication implements CompileService.  What the refinement*)
(* needs besides is that nothing else is ever at a destination or in a     *)
(* backup (FilesInv).                                                      *)
(***************************************************************************)
EXTENDS CompilePublicationRefinement, TLAPS

(* The type invariant is inductive: initial states.                        *)
LEMMA InitType == Init => TypeOK
<1> SUFFICES ASSUME Init PROVE TypeOK
  OBVIOUS
<1>1. AnyStem \in Stems /\ AnyVersion \in Versions
  BY CompileAssumption DEF AnyStem, AnyVersion
<1>2. Nothing \in FileSets
  BY DEF Nothing, FileSets, Contents
<1>3. final \in [Stems -> FileSets]
  BY CompileAssumption DEF Init
<1> QED
  BY <1>1, <1>2, <1>3 DEF Init, TypeOK, Steps

(* A change of one file in a command's own transaction directory is typed.  *)
LEMMA OwnDirectory ==
  ASSUME TypeOK, Exclusive, NEW p \in Commands, name[p] # NoName,
         NEW a \in Artifacts, NEW x \in Contents
  PROVE  /\ name[p] \in Names /\ Dir(p) \in Dirs
         /\ [txn EXCEPT ![name[p]].staged[a] = x] \in [Names -> Dirs \cup {NoDir}]
         /\ [txn EXCEPT ![name[p]].backup[a] = x] \in [Names -> Dirs \cup {NoDir}]
<1>1. name[p] \in Names /\ Dir(p) \in Dirs
  BY DEF TypeOK, Exclusive
<1>2. DEFINE d == Dir(p)
<1>3. [d EXCEPT !.staged[a] = x] \in Dirs /\ [d EXCEPT !.backup[a] = x] \in Dirs
  BY <1>1 DEF Dirs, FileSets
<1>4. /\ [txn EXCEPT ![name[p]].staged[a] = x] = [txn EXCEPT ![name[p]] = [d EXCEPT !.staged[a] = x]]
      /\ [txn EXCEPT ![name[p]].backup[a] = x] = [txn EXCEPT ![name[p]] = [d EXCEPT !.backup[a] = x]]
  BY <1>1 DEF Dir, TypeOK
<1> HIDE DEF d
<1> QED
  BY <1>1, <1>3, <1>4 DEF TypeOK

(* The same for its destination set.                                       *)
LEMMA OwnSet ==
  ASSUME TypeOK, NEW p \in Commands, NEW a \in Artifacts, NEW x \in Contents
  PROVE  /\ stem[p] \in Stems /\ Now(p, a) \in Contents
         /\ [final EXCEPT ![stem[p]][a] = x] \in [Stems -> FileSets]
BY DEF TypeOK, FileSets, Now

(* The contents the code writes are all distinct from one another.         *)
LEMMA Alphabet ==
  ASSUME TypeOK, NEW p \in Commands
  PROVE  /\ made[p] \in Contents /\ made[p] \notin {Absent, Odd}
         /\ Absent \in Contents /\ Partial \in Contents /\ Partial \notin {Absent, Odd}
         /\ Selected(p) \subseteq Artifacts /\ "o" \in Selected(p) /\ "l1m" \in Selected(p)
BY CompileAssumption DEF TypeOK, Contents, Selected, Artifacts

(* The type invariant is inductive: steps, one case per action.            *)
LEMMA StagingKeepsType ==
  ASSUME TypeOK, Exclusive, NEW p \in Commands,
         Start(p) \/ Prepare(p) \/ Create(p) \/ WriteC(p) \/ WriteInterface(p)
           \/ Compile(p) \/ Validate(p) \/ Look(p)
  PROVE  TypeOK'
<1> USE DEF Goto, Finish, Discard, request, progress, Steps, Staging, Renaming
<1>0. /\ made[p] \in Contents /\ Absent \in Contents /\ Partial \in Contents
      /\ Selected(p) \subseteq Artifacts
      /\ pc[p] \in Staging => name[p] # NoName
  BY Alphabet DEF Exclusive
<1>1. CASE Start(p)
  BY <1>1, CompileAssumption DEF Start, TypeOK
<1>2. CASE Prepare(p)
  BY <1>2 DEF Prepare, TypeOK
<1>3. CASE Create(p)
  <2>1. Empty \in Dirs
    BY <1>0 DEF Dirs, Nothing, FileSets, Empty
  <2>2. /\ pc' \in [Commands -> Steps] /\ name' \in [Commands -> Names \cup {NoName}]
        /\ result' \in [Commands -> {"none", "refused", "success", "restored", "retained"}]
    BY <1>3 DEF Create, TypeOK
  <2>3. txn' = txn \/ \E n \in Names : txn' = [txn EXCEPT ![n] = Empty]
    BY <1>3 DEF Create
  <2>4. txn' \in [Names -> Dirs \cup {NoDir}]
    BY <2>1, <2>3 DEF TypeOK
  <2> QED
    BY <1>3, <2>2, <2>4 DEF Create, TypeOK
<1>4. ASSUME NEW a \in Artifacts, NEW x \in Contents, Stage(p, a, x), name[p] # NoName
      PROVE  txn' \in [Names -> Dirs \cup {NoDir}]
  BY <1>4, OwnDirectory DEF Stage
<1>5. CASE WriteC(p) \/ WriteInterface(p)
  <2>1. PICK a \in Artifacts, l \in {"write_l1m", "compile"}, h \in Staging : WriteStaged(p, h, a, l)
    BY <1>5 DEF WriteC, WriteInterface, Artifacts
  <2>2. txn' \in [Names -> Dirs \cup {NoDir}]
    BY <1>0, <1>4, <2>1 DEF WriteStaged
  <2> QED
    BY <2>1, <2>2 DEF WriteStaged, TypeOK
<1>6. CASE Compile(p)
  <2>1. name[p] # NoName /\ "o" \in Artifacts
    BY <1>0, <1>6 DEF Compile, Artifacts
  <2>2. ASSUME NEW b \in BOOLEAN,
               txn' = [txn EXCEPT ![name[p]].staged["o"] = made[p], ![name[p]].side = b]
        PROVE  txn' \in [Names -> Dirs \cup {NoDir}]
    <3>1. name[p] \in Names /\ Dir(p) \in Dirs
      BY <2>1, <1>0, OwnDirectory
    <3>2. [[Dir(p) EXCEPT !.staged["o"] = made[p]] EXCEPT !.side = b] \in Dirs
      BY <1>0, <2>1, <3>1 DEF Dirs, FileSets
    <3>3. txn' = [txn EXCEPT ![name[p]] = [[Dir(p) EXCEPT !.staged["o"] = made[p]] EXCEPT !.side = b]]
      BY <2>2, <3>1 DEF TypeOK, Dir
    <3> QED
      BY <3>1, <3>2, <3>3 DEF TypeOK
  <2>3. \/ \E b \in BOOLEAN :
              txn' = [txn EXCEPT ![name[p]].staged["o"] = made[p], ![name[p]].side = b]
        \/ \E x \in {Absent, Partial} : Stage(p, "o", x)
        \/ txn' = txn
    BY <1>6 DEF Compile
  <2>4. txn' \in [Names -> Dirs \cup {NoDir}]
    <3>1. txn' = txn => txn' \in [Names -> Dirs \cup {NoDir}]
      BY DEF TypeOK
    <3> QED
      BY <1>0, <1>4, <2>1, <2>2, <2>3, <3>1
  <2> QED
    BY <1>6, <2>4 DEF Compile, TypeOK
<1>7. CASE Validate(p)
  BY <1>7 DEF Validate, TypeOK
<1>8. CASE Look(p)
  <2>1. PICK seen \in SUBSET Selected(p) :
          /\ existing' = [existing EXCEPT ![p] = seen]
          /\ todo' = [todo EXCEPT ![p] = IF seen = {} THEN Selected(p) ELSE seen]
          /\ Goto(p, IF seen = {} THEN "publish" ELSE "backup")
    BY <1>8 DEF Look
  <2> QED
    BY <1>0, <1>8, <2>1 DEF Look, TypeOK
<1> QED
  BY <1>1, <1>2, <1>3, <1>5, <1>6, <1>7, <1>8

(* ... the four steps of publication and rollback, ...                     *)
LEMMA RenamingKeepsType ==
  ASSUME TypeOK, Exclusive, NEW p \in Commands, BackUp(p) \/ Publish(p) \/ Undo(p) \/ Restore(p)
  PROVE  TypeOK'
<1> USE DEF Goto, Finish, Discard, RollBack, request, Steps, Staging, Renaming
<1>0. /\ Absent \in Contents /\ Selected(p) \subseteq Artifacts
      /\ name[p] # NoName
  BY Alphabet DEF Exclusive, BackUp, Publish, Undo, Restore
<1>1. name[p] \in Names /\ Dir(p) \in Dirs
  BY <1>0 DEF Exclusive, TypeOK
<1>2. ASSUME NEW a \in Artifacts
      PROVE  Now(p, a) \in Contents /\ Dir(p).staged[a] \in Contents /\ Dir(p).backup[a] \in Contents
  BY <1>1 DEF TypeOK, FileSets, Dirs, Now
<1>3. ASSUME NEW a \in Artifacts, NEW x \in Contents
      PROVE  /\ Place(p, a, x) => final' \in [Stems -> FileSets]
             /\ Stage(p, a, x) => txn' \in [Names -> Dirs \cup {NoDir}]
             /\ txn' = [txn EXCEPT ![name[p]].backup[a] = x] => txn' \in [Names -> Dirs \cup {NoDir}]
  <2>1. ASSUME Place(p, a, x) PROVE final' \in [Stems -> FileSets]
    BY <2>1, OwnSet DEF Place
  <2>2. ASSUME Stage(p, a, x) PROVE txn' \in [Names -> Dirs \cup {NoDir}]
    <3>1. name[p] # NoName
      BY <1>0
    <3>2. [txn EXCEPT ![name[p]].staged[a] = x] \in [Names -> Dirs \cup {NoDir}]
      BY <3>1, OwnDirectory
    <3> QED
      BY <2>2, <3>2 DEF Stage
  <2>3. txn' = [txn EXCEPT ![name[p]].backup[a] = x] => txn' \in [Names -> Dirs \cup {NoDir}]
    <3>1. name[p] # NoName
      BY <1>0
    <3> QED
      BY <3>1, OwnDirectory, ZenonT(40)
  <2> QED
    BY <2>1, <2>2, <2>3
<1>4. todo[p] \subseteq Artifacts
  BY DEF TypeOK
<1>5. CASE BackUp(p)
  <2>1. PICK a \in todo[p] :
          \/ RollBack(p) /\ UNCHANGED <<final, txn, backed>>
          \/ /\ txn' = [txn EXCEPT ![name[p]].backup[a] = Now(p, a)]
             /\ Place(p, a, Absent)
             /\ backed' = [backed EXCEPT ![p] = @ \cup {a}]
             /\ todo' = [todo EXCEPT ![p] = IF @ = {a} THEN Selected(p) ELSE @ \ {a}]
             /\ Goto(p, IF todo[p] = {a} THEN "publish" ELSE "backup")
    BY <1>5 DEF BackUp
  <2>2. final' \in [Stems -> FileSets] /\ txn' \in [Names -> Dirs \cup {NoDir}]
    <3>1. UNCHANGED <<final, txn, backed>> => final' \in [Stems -> FileSets] /\ txn' \in [Names -> Dirs \cup {NoDir}]
      BY DEF TypeOK
    <3> QED
      BY <1>0, <1>2, <1>3, <1>4, <2>1, <3>1
  <2>3. /\ pc' \in [Commands -> Steps] /\ todo' \in [Commands -> SUBSET Artifacts]
        /\ backed' \in [Commands -> SUBSET Artifacts]
    BY <1>0, <1>4, <2>1 DEF TypeOK
  <2> QED
    BY <1>5, <2>2, <2>3 DEF BackUp, TypeOK
<1>6. CASE Publish(p)
  <2>1. PICK a \in todo[p] :
          \/ RollBack(p) /\ UNCHANGED <<final, txn, published, result>>
          \/ /\ Place(p, a, Dir(p).staged[a])
             /\ Stage(p, a, Absent)
             /\ published' = [published EXCEPT ![p] = @ \cup {a}]
             /\ todo' = [todo EXCEPT ![p] = @ \ {a}]
             /\ IF todo[p] = {a} THEN Discard(p, "success") ELSE UNCHANGED <<pc, result>>
    BY <1>6 DEF Publish
  <2>2. final' \in [Stems -> FileSets] /\ txn' \in [Names -> Dirs \cup {NoDir}]
    <3>1. UNCHANGED <<final, txn, published, result>> => final' \in [Stems -> FileSets] /\ txn' \in [Names -> Dirs \cup {NoDir}]
      BY DEF TypeOK
    <3> QED
      BY <1>0, <1>2, <1>3, <1>4, <2>1, <3>1
  <2>3. /\ pc' \in [Commands -> Steps] /\ todo' \in [Commands -> SUBSET Artifacts]
        /\ published' \in [Commands -> SUBSET Artifacts]
        /\ result' \in [Commands -> {"none", "refused", "success", "restored", "retained"}]
    BY <1>0, <1>4, <2>1 DEF TypeOK
  <2> QED
    BY <1>6, <2>2, <2>3 DEF Publish, TypeOK
<1>7. CASE Undo(p)
  <2>1. PICK a \in todo[p] :
          \/ UNCHANGED <<final, restored>>
          \/ Place(p, a, Absent) /\ restored' = restored
          \/ restored' = [restored EXCEPT ![p] = FALSE] /\ final' = final
    BY <1>7 DEF Undo
  <2>2. final' \in [Stems -> FileSets] /\ restored' \in [Commands -> BOOLEAN]
    BY <1>0, <1>3, <1>4, <2>1 DEF TypeOK
  <2> QED
    BY <1>7, <2>2 DEF Undo, TypeOK
<1>8. CASE Restore(p)
  <2>1. PICK a \in todo[p] :
          /\ \/ UNCHANGED <<final, txn, restored>>
             \/ /\ Place(p, a, Dir(p).backup[a])
                /\ txn' = [txn EXCEPT ![name[p]].backup[a] = Absent]
                /\ restored' = restored
             \/ restored' = [restored EXCEPT ![p] = FALSE] /\ UNCHANGED <<final, txn>>
          /\ todo' = [todo EXCEPT ![p] = @ \ {a}]
          /\ \/ Goto(p, "undo") /\ result' = result
             \/ Discard(p, "restored")
             \/ Finish(p, "retained")
    BY <1>8 DEF Restore
  <2>2. final' \in [Stems -> FileSets] /\ txn' \in [Names -> Dirs \cup {NoDir}]
    <3>1. UNCHANGED <<final, txn>> => final' \in [Stems -> FileSets] /\ txn' \in [Names -> Dirs \cup {NoDir}]
      BY DEF TypeOK
    <3> QED
      BY <1>0, <1>2, <1>3, <1>4, <2>1, <3>1
  <2>3. /\ pc' \in [Commands -> Steps] /\ todo' \in [Commands -> SUBSET Artifacts]
        /\ restored' \in [Commands -> BOOLEAN]
        /\ result' \in [Commands -> {"none", "refused", "success", "restored", "retained"}]
    BY <1>4, <2>1 DEF TypeOK
  <2> QED
    BY <1>8, <2>2, <2>3 DEF Restore, TypeOK
<1> QED
  BY <1>5, <1>6, <1>7, <1>8

(* ... and the ends of a command.                                          *)
LEMMA EndKeepsType ==
  ASSUME TypeOK, Exclusive, NEW p \in Commands, CleanUp(p) \/ Return(p) \/ Crash(p)
  PROVE  TypeOK'
<1> USE DEF Goto, Steps
<1>1. CASE CleanUp(p)
  <2>1. name[p] # NoName /\ Absent \in Contents
    BY <1>1, Alphabet DEF Exclusive, CleanUp
  <2>2. name[p] \in Names /\ Dir(p) \in Dirs
    BY <2>1 DEF Exclusive, TypeOK
  <2>3. PICK S \in SUBSET Artifacts, B \in SUBSET Artifacts :
          txn' = [txn EXCEPT ![name[p]] = IF Left(p, S, B) = Empty THEN NoDir ELSE Left(p, S, B)]
    BY <1>1 DEF CleanUp
  <2>4. Left(p, S, B) \in Dirs
    BY <2>1, <2>2 DEF Dirs, FileSets, Left
  <2>5. txn' \in [Names -> Dirs \cup {NoDir}]
    BY <2>3, <2>4 DEF TypeOK
  <2> QED
    BY <1>1, <2>5 DEF CleanUp, TypeOK, request, progress
<1>2. CASE Return(p) \/ Crash(p)
  <2>1. Gone(p) /\ warned' \subseteq warned \cup {stem[p]}
    BY <1>2 DEF Return, Crash
  <2>2. AnyStem \in Stems /\ AnyVersion \in Versions
    BY CompileAssumption DEF AnyStem, AnyVersion
  <2>3. Nothing \in FileSets
    BY DEF Nothing, FileSets, Contents
  <2>4. stem[p] \in Stems
    BY DEF TypeOK
  <2> QED
    BY <2>1, <2>2, <2>3, <2>4 DEF Gone, TypeOK
<1> QED
  BY <1>1, <1>2

-----------------------------------------------------------------------------
(* A step of command p leaves alone the other commands, their destination   *)
(* sets and every directory but its own.                                   *)
OnlyOwn(p) ==
    /\ \A q \in Commands \ {p} :
         /\ pc'[q] = pc[q] /\ stem'[q] = stem[q] /\ keep'[q] = keep[q] /\ made'[q] = made[q]
         /\ prior'[q] = prior[q] /\ name'[q] = name[q] /\ todo'[q] = todo[q]
         /\ existing'[q] = existing[q] /\ backed'[q] = backed[q]
         /\ published'[q] = published[q] /\ restored'[q] = restored[q]
         /\ result'[q] = result[q]
    /\ \A s \in Stems : s # stem[p] \/ pc[p] = "idle" =>
         final'[s] = final[s] /\ (s \in warned' <=> s \in warned)
    /\ \A n \in Names : txn[n] # NoDir /\ n # name[p] => txn'[n] = txn[n]

(* A step of a command changes only its own variables, the files of its destination set  *)
(* and its own transaction directory.                                                    *)
LEMMA StepsAreLocal ==
  ASSUME TypeOK, NEW p \in Commands, Step(p) \/ Crash(p)
  PROVE  OnlyOwn(p)
<1> USE DEF OnlyOwn, Goto, Finish, Discard, request, progress, TypeOK
<1>1. CASE Start(p)
  BY <1>1 DEF Start
<1>2. CASE Prepare(p)
  BY <1>2 DEF Prepare
<1>3. CASE Create(p)
  BY <1>3 DEF Create
<1>4. CASE WriteC(p)
  BY <1>4 DEF WriteC, WriteStaged, Stage
<1>5. CASE WriteInterface(p)
  BY <1>5 DEF WriteInterface, WriteStaged, Stage
<1>6. CASE Compile(p)
  BY <1>6, ZenonT(40) DEF Compile, Stage
<1>7. CASE Validate(p)
  BY <1>7 DEF Validate
<1>8. CASE Look(p)
  BY <1>8 DEF Look
<1>9. CASE BackUp(p)
  BY <1>9 DEF BackUp, RollBack, Place
<1>10. CASE Publish(p)
  BY <1>10 DEF Publish, RollBack, Place, Stage
<1>11. CASE Undo(p)
  BY <1>11 DEF Undo, Place
<1>12. CASE Restore(p)
  BY <1>12 DEF Restore, Place
<1>13. CASE CleanUp(p)
  BY <1>13 DEF CleanUp
<1>14. CASE Return(p) \/ Crash(p)
  BY <1>14 DEF Return, Crash, Gone
<1> QED
  BY <1>1, <1>2, <1>3, <1>4, <1>5, <1>6, <1>7, <1>8, <1>9, <1>10, <1>11, <1>12, <1>13, <1>14
     DEF Step

(* So the invariant of every other command is kept.                        *)
LEMMA OthersKeep ==
  ASSUME TypeOK, CompileInv, NEW p \in Commands, OnlyOwn(p), NEW q \in Commands, q # p
  PROVE  CommandInv(q)'
<1>1. /\ pc'[q] = pc[q] /\ stem'[q] = stem[q] /\ keep'[q] = keep[q] /\ made'[q] = made[q]
      /\ prior'[q] = prior[q] /\ name'[q] = name[q] /\ todo'[q] = todo[q]
      /\ backed'[q] = backed[q] /\ published'[q] = published[q] /\ restored'[q] = restored[q]
      /\ result'[q] = result[q]
  BY DEF OnlyOwn
<1>2. pc[q] # "idle" =>
        final'[stem[q]] = final[stem[q]] /\ (stem[q] \in warned' <=> stem[q] \in warned)
  BY DEF OnlyOwn, CompileInv, Exclusive, TypeOK
<1>3. name[q] # NoName => txn'[name[q]] = txn[name[q]]
  BY CompileAssumption DEF OnlyOwn, CompileInv, Exclusive, TypeOK, Dir
<1>4. CommandInv(q)
  BY DEF CompileInv
<1>5. pc[q] \in Staging \cup Renaming \cup {"cleanup"} => name[q] # NoName
  BY DEF CompileInv, Exclusive
<1>6. (Selected(q) = Selected(q))' /\ Selected(q)' = Selected(q)
  BY <1>1 DEF Selected
<1>7. VerdictInv(q)'
  BY <1>1, <1>4 DEF CommandInv, VerdictInv
<1>8. StagedInv(q)'
  BY <1>1, <1>3, <1>4, <1>5 DEF CommandInv, StagedInv, Dir, Untouched, Staging
<1>9. RenamingInv(q)'
  <2>1. SUFFICES ASSUME pc[q] \in Renaming PROVE RenamingInv(q)'
    BY <1>1 DEF RenamingInv
  <2>2. /\ final'[stem[q]] = final[stem[q]] /\ txn'[name[q]] = txn[name[q]]
    BY <1>2, <1>3, <1>5, <2>1 DEF Renaming
  <2>3. ASSUME NEW a \in Artifacts
        PROVE  /\ Now(q, a)' = Now(q, a) /\ Forward(q, a)' = Forward(q, a)
               /\ Undone(q, a)' = Undone(q, a) /\ Rolled(q, a)' = Rolled(q, a)
               /\ IsLast(a, todo[q])' = IsLast(a, todo[q])
    BY <1>1, <2>2 DEF Now, Forward, Undone, Rolled, Dir, IsLast
  <2> QED
    BY <1>1, <1>4, <1>6, <2>1, <2>3, Alphabet DEF CommandInv, RenamingInv
<1>10. VerdictIsTrue(q)'
  BY <1>1, <1>2, <1>3, <1>4, <1>5, <1>6 DEF CommandInv, VerdictIsTrue, VerdictInv, Now, Dir, Replaced,
     Untouched, Staging, Ending
<1> QED
  BY <1>1, <1>2, <1>4, <1>7, <1>8, <1>9, <1>10 DEF CommandInv

(* Exclusive use follows from where the command gets its names from.       *)
LEMMA ExclusiveKept ==
  ASSUME TypeOK, Exclusive, NEW p \in Commands, OnlyOwn(p),
         \/ pc[p] # "idle" /\ stem'[p] = stem[p]
         \/ pc'[p] = "idle"
         \/ \A q \in Commands \ {p} : pc[q] # "idle" => stem[q] # stem'[p],
         \/ name'[p] \in {name[p], NoName}
         \/ name'[p] \in Names /\ txn[name'[p]] = NoDir,
         name'[p] # NoName => Dir(p)' \in Dirs,
         pc'[p] \in {"idle", "prepare", "create"} => name'[p] = NoName,
         pc'[p] \in Staging \cup Renaming \cup {"cleanup"} => name'[p] # NoName
  PROVE  Exclusive'
<1>1. ASSUME NEW q \in Commands, q # p
      PROVE  /\ pc'[q] = pc[q] /\ stem'[q] = stem[q] /\ name'[q] = name[q]
             /\ name[q] # NoName => name[q] # name[p] /\ Dir(q) \in Dirs /\ Dir(q)' = Dir(q)
             /\ name[q] # NoName => name[q] # name'[p]
             /\ pc'[p] # "idle" /\ pc[q] # "idle" => stem[q] # stem'[p]
  <2>1. pc'[q] = pc[q] /\ stem'[q] = stem[q] /\ name'[q] = name[q]
    BY <1>1 DEF OnlyOwn
  <2>2. name[q] # NoName => name[q] # name[p] /\ Dir(q) \in Dirs /\ name[q] \in Names
    BY <1>1 DEF Exclusive, TypeOK
  <2>3. name[q] # NoName => Dir(q)' = Dir(q)
    BY <2>1, <2>2, CompileAssumption DEF OnlyOwn, Dir
  <2>4. name[q] # NoName => name[q] # name'[p]
    BY <2>2, CompileAssumption DEF Dir
  <2>5. pc'[p] # "idle" /\ pc[q] # "idle" => stem[q] # stem'[p]
    BY <1>1 DEF Exclusive
  <2> QED
    BY <2>1, <2>2, <2>3, <2>4, <2>5
<1>2. ASSUME NEW q \in Commands, NEW r \in Commands, q # r
      PROVE  /\ pc'[q] # "idle" /\ pc'[r] # "idle" => stem'[q] # stem'[r]
             /\ name'[q] # NoName => name'[q] # name'[r]
  <2>1. CASE q # p /\ r # p
    BY <1>1, <1>2, <2>1 DEF Exclusive
  <2>2. CASE q = p
    BY <1>1, <1>2, <2>2
  <2>3. CASE r = p
    BY <1>1, <1>2, <2>3
  <2> QED
    BY <2>1, <2>2, <2>3
<1>3. ASSUME NEW q \in Commands
      PROVE  /\ name'[q] # NoName => Dir(q)' \in Dirs
             /\ pc'[q] \in {"idle", "prepare", "create"} => name'[q] = NoName
             /\ pc'[q] \in Staging \cup Renaming \cup {"cleanup"} => name'[q] # NoName
  <2>1. CASE q = p
    BY <2>1
  <2>2. CASE q # p
    <3>1. /\ pc[q] \in {"idle", "prepare", "create"} => name[q] = NoName
          /\ pc[q] \in Staging \cup Renaming \cup {"cleanup"} => name[q] # NoName
      BY DEF Exclusive
    <3> QED
      BY <1>1, <2>2, <3>1
  <2> QED
    BY <2>1, <2>2
<1> QED
  BY <1>2, <1>3 DEF Exclusive

-----------------------------------------------------------------------------
(* The effect of changing one staged file, as the command sees it, ...      *)
LEMMA StageEffect ==
  ASSUME TypeOK, Exclusive, NEW p \in Commands, name[p] # NoName,
         NEW a \in Artifacts, NEW x \in Contents, Stage(p, a, x), name'[p] = name[p]
  PROVE  /\ Dir(p)' \in Dirs
         /\ Dir(p)'.backup = Dir(p).backup
         /\ Dir(p)'.staged = [Dir(p).staged EXCEPT ![a] = x]
<1>1. name[p] \in Names /\ Dir(p) \in Dirs
  BY DEF Exclusive, TypeOK
<1>2. Dir(p)' = [Dir(p) EXCEPT !.staged[a] = x]
  BY <1>1 DEF Stage, Dir, TypeOK
<1> QED
  BY <1>1, <1>2 DEF Dirs, FileSets

(* ... of changing a backup, ...                                           *)
LEMMA BackupEffect ==
  ASSUME TypeOK, Exclusive, NEW p \in Commands, name[p] # NoName,
         NEW a \in Artifacts, NEW x \in Contents, name'[p] = name[p],
         txn' = [txn EXCEPT ![name[p]].backup[a] = x]
  PROVE  /\ Dir(p)' \in Dirs
         /\ Dir(p)'.staged = Dir(p).staged
         /\ Dir(p)'.backup = [Dir(p).backup EXCEPT ![a] = x]
<1>1. name[p] \in Names /\ Dir(p) \in Dirs
  BY DEF Exclusive, TypeOK
<1>2. Dir(p)' = [Dir(p) EXCEPT !.backup[a] = x]
  BY <1>1 DEF Dir, TypeOK
<1> QED
  BY <1>1, <1>2 DEF Dirs, FileSets

(* ... and of changing a file at its destination.                          *)
LEMMA PlaceEffect ==
  ASSUME TypeOK, NEW p \in Commands, NEW a \in Artifacts, NEW x \in Contents,
         Place(p, a, x), stem'[p] = stem[p]
  PROVE  \A b \in Artifacts : Now(p, b)' = IF b = a THEN x ELSE Now(p, b)
BY DEF TypeOK, FileSets, Now, Place

(* The steps of staging keep the invariant of their own command.           *)
LEMMA StagingKeeps ==
  ASSUME TypeOK, TypeOK', CompileInv, NEW p \in Commands, OnlyOwn(p),
         Start(p) \/ Prepare(p) \/ Create(p) \/ WriteC(p) \/ WriteInterface(p)
           \/ Compile(p) \/ Validate(p) \/ Look(p)
  PROVE  Exclusive' /\ CommandInv(p)'
<1>1. Exclusive /\ CommandInv(p)
  BY DEF CompileInv
<1>2. /\ VerdictInv(p) /\ StagedInv(p) /\ RenamingInv(p) /\ VerdictIsTrue(p)
      /\ pc[p] # "idle" /\ stem[p] \notin warned => Paired(prior[p])
  BY <1>1 DEF CommandInv
<1>3. /\ name[p] # NoName => Dir(p) \in Dirs /\ name[p] \in Names
      /\ pc[p] \in {"idle", "prepare", "create"} => name[p] = NoName
      /\ pc[p] \in Staging \cup Renaming \cup {"cleanup"} => name[p] # NoName
  BY <1>1 DEF Exclusive, TypeOK
<1>4. CASE Start(p)
  <2>1. PICK s \in Stems, k \in KeepC, v \in Versions :
          /\ \A q \in Commands \ {p} : pc[q] # "idle" => stem[q] # s
          /\ stem' = [stem EXCEPT ![p] = s]
          /\ keep' = [keep EXCEPT ![p] = k]
          /\ made' = [made EXCEPT ![p] = v]
          /\ prior' = [prior EXCEPT ![p] = final[s]]
    BY <1>4 DEF Start
  <2>2. /\ pc'[p] = "prepare" /\ stem'[p] = s /\ prior'[p] = final[s] /\ name'[p] = NoName
        /\ result'[p] = "none" /\ backed'[p] = {} /\ published'[p] = {} /\ restored'[p]
        /\ final' = final /\ warned' = warned
    BY <1>2, <1>3, <1>4, <2>1 DEF Start, Goto, TypeOK, progress, VerdictInv, StagedInv, Untouched, Ending
  <2>3. Exclusive'
    BY <1>1, <2>1, <2>2, ExclusiveKept DEF Staging, Renaming
  <2>4. s \notin warned => Paired(final[s])
    <3>1. \A q \in Commands : pc[q] # "idle" => stem[q] # s
      BY <1>4, <2>1 DEF Start
    <3> QED
      BY <3>1 DEF CompileInv, MixedPairsAreReported
  <2> QED
    BY <2>2, <2>3, <2>4 DEF CommandInv, VerdictInv, StagedInv, RenamingInv, VerdictIsTrue,
       Untouched, Ending, Staging, Renaming, Paired
<1> USE DEF Goto, Finish, Discard, request, progress
<1>5. CASE Prepare(p)
  <2>1. /\ pc[p] = "prepare"
        /\ (pc'[p] = "create" /\ result'[p] = "none") \/ (pc'[p] = "end" /\ result'[p] = "refused")
        /\ final' = final /\ txn' = txn /\ name' = name /\ warned' = warned
        /\ UNCHANGED <<request, progress>>
    <3>1. pc[p] = "prepare" /\ UNCHANGED <<final, txn, request, name, progress, warned>>
      BY <1>5 DEF Prepare
    <3>2. Finish(p, "refused") \/ (Goto(p, "create") /\ result' = result)
      BY <1>5 DEF Prepare
    <3>3. (pc'[p] = "create" /\ result' = result) \/ (pc'[p] = "end" /\ result'[p] = "refused")
      BY <3>2 DEF TypeOK
    <3> QED
      BY <1>2, <3>1, <3>3 DEF VerdictInv, Ending
  <2>2. Exclusive'
    BY <1>1, <1>3, <2>1, ExclusiveKept DEF Staging, Renaming
  <2> QED
    BY <1>2, <1>3, <2>1, <2>2 DEF CommandInv, VerdictInv, StagedInv, RenamingInv, VerdictIsTrue,
       Untouched, Ending, Staging, Renaming
<1>6. CASE Create(p)
  <2>1. /\ pc[p] = "create" /\ UNCHANGED <<final, request, progress, warned>>
        /\ \/ pc'[p] = "end" /\ result'[p] = "refused" /\ UNCHANGED <<txn, name>>
           \/ /\ pc'[p] = "write_c" /\ result'[p] = "none"
              /\ name'[p] \in Names /\ txn[name'[p]] = NoDir /\ Dir(p)' = Empty
    BY <1>2, <1>6 DEF Create, TypeOK, VerdictInv, Ending, Dir
  <2>2. Empty \in Dirs /\ Empty.backup = Nothing /\ Empty.staged["o"] = Absent
    BY DEF Empty, Dirs, Nothing, FileSets, Contents, Artifacts
  <2>3. Exclusive'
    <3>1. name'[p] # NoName => Dir(p)' \in Dirs
      BY <1>3, <2>1, <2>2
    <3> QED
      BY <1>1, <1>3, <2>1, <3>1, CompileAssumption, ExclusiveKept DEF Staging, Renaming
  <2> QED
    BY <1>2, <1>3, <2>1, <2>2, <2>3 DEF CommandInv, VerdictInv, StagedInv, RenamingInv, VerdictIsTrue,
       Untouched, Ending, Staging, Renaming
<1>7. ASSUME NEW h \in {"write_c", "write_l1m", "compile", "validate"},
             NEW l \in {"write_l1m", "compile", "validate", "look"},
             pc[p] = h, UNCHANGED <<final, request, name, progress, warned>>,
             (pc'[p] = l /\ result'[p] = "none") \/ (pc'[p] = "cleanup" /\ result'[p] = "refused"),
             Dir(p)' \in Dirs,
             pc'[p] = l => StagedInv(p)'
      PROVE  Exclusive' /\ CommandInv(p)'
  <2>1. /\ name' = name /\ name[p] # NoName /\ final' = final /\ warned' = warned
        /\ stem' = stem /\ keep' = keep /\ made' = made /\ prior' = prior
    BY <1>3, <1>7 DEF Staging
  <2>2. Exclusive'
    BY <1>1, <1>7, <2>1, ExclusiveKept DEF Staging, Renaming
  <2>3. pc'[p] \in Untouched \cup {"cleanup"} /\ pc[p] \in Untouched
    BY <1>7 DEF Untouched, Staging
  <2>4. StagedInv(p)'
    BY <1>7, <2>3 DEF StagedInv, Untouched, Staging
  <2>5. VerdictInv(p)' /\ RenamingInv(p)'
    BY <1>7 DEF VerdictInv, RenamingInv, Ending, Renaming
  <2>6. VerdictIsTrue(p)'
    BY <1>2, <1>7, <2>1, <2>3 DEF VerdictIsTrue
  <2>7. pc[p] # "idle"
    BY <1>7
  <2> QED
    BY <1>2, <2>1, <2>2, <2>4, <2>5, <2>6, <2>7 DEF CommandInv
<1>8. /\ made[p] \in Contents /\ made[p] \notin {Absent, Odd}
      /\ Absent \in Contents /\ Partial \in Contents
  BY Alphabet
<1>9. ASSUME NEW a \in {"c", "l1m"}, NEW h \in {"write_c", "write_l1m"},
             NEW l \in {"write_l1m", "compile"}, WriteStaged(p, h, a, l),
             (a = "c" /\ h = "write_c" /\ l = "write_l1m") \/ (a = "l1m" /\ h = "write_l1m" /\ l = "compile")
      PROVE  Exclusive' /\ CommandInv(p)'
  <2>2. /\ pc[p] = h /\ name' = name /\ name[p] # NoName /\ a \in Artifacts
        /\ UNCHANGED <<final, request, name, progress, warned>>
    BY <1>3, <1>9 DEF WriteStaged, Staging, Artifacts
  <2>3. PICK x \in Contents :
          /\ Stage(p, a, x)
          /\ \/ pc'[p] = l /\ result'[p] = result[p] /\ x = made[p]
             \/ pc'[p] = "cleanup" /\ result'[p] = "refused"
    BY <1>8, <1>9 DEF WriteStaged, TypeOK
  <2>4. /\ Dir(p)' \in Dirs /\ Dir(p)'.backup = Dir(p).backup
        /\ Dir(p)'.staged = [Dir(p).staged EXCEPT ![a] = x]
    BY <1>1, <2>2, <2>3, StageEffect
  <2>5. result[p] = "none"
    BY <1>2, <1>9, <2>2 DEF VerdictInv, Ending
  <2>6. ASSUME pc'[p] = l PROVE StagedInv(p)'
    <3>1. x = made[p] /\ Dir(p) \in Dirs
      BY <1>3, <1>9, <2>2, <2>3, <2>6
    <3>2. Dir(p)'.staged[a] = made[p] /\ \A b \in Artifacts \ {a} : Dir(p)'.staged[b] = Dir(p).staged[b]
      BY <2>2, <2>4, <3>1 DEF Dirs, FileSets
    <3>3. backed'[p] = {} /\ published'[p] = {} /\ restored'[p] /\ made' = made
      BY <1>2, <1>9, <2>2 DEF StagedInv, Untouched, Staging
    <3> QED
      BY <1>2, <1>9, <2>2, <2>4, <2>6, <3>2, <3>3 DEF StagedInv, Staging, Artifacts
  <2>7. /\ h \in {"write_c", "write_l1m", "compile", "validate"}
        /\ l \in {"write_l1m", "compile", "validate", "look"}
        /\ (pc'[p] = l /\ result'[p] = "none") \/ (pc'[p] = "cleanup" /\ result'[p] = "refused")
    BY <2>3, <2>5
  <2> QED
    BY <1>7, <2>2, <2>4, <2>6, <2>7
<1>10. CASE WriteC(p) \/ WriteInterface(p)
  BY <1>9, <1>10 DEF WriteC, WriteInterface
<1>11. CASE Compile(p)
  <2>1. /\ pc[p] = "compile" /\ name' = name /\ name[p] # NoName /\ "o" \in Artifacts
        /\ UNCHANGED <<final, request, name, progress, warned>>
    BY <1>3, <1>11 DEF Compile, Staging, Artifacts
  <2>2. result[p] = "none" /\ Dir(p) \in Dirs
    BY <1>2, <1>3, <2>1 DEF VerdictInv, Ending
  <2>3. ASSUME NEW b \in BOOLEAN,
               txn' = [txn EXCEPT ![name[p]].staged["o"] = made[p], ![name[p]].side = b]
        PROVE  /\ Dir(p)' \in Dirs /\ Dir(p)'.backup = Dir(p).backup
               /\ Dir(p)'.staged = [Dir(p).staged EXCEPT !["o"] = made[p]]
    <3>1. name[p] \in Names /\ name'[p] = name[p]
      BY <1>3, <2>1
    <3>2. Dir(p)' = [[Dir(p) EXCEPT !.staged["o"] = made[p]] EXCEPT !.side = b]
      BY <2>2, <2>3, <3>1 DEF TypeOK, Dir
    <3>3. DEFINE d == [Dir(p) EXCEPT !.staged["o"] = made[p]]
    <3>4. d \in Dirs /\ d.backup = Dir(p).backup /\ d.staged = [Dir(p).staged EXCEPT !["o"] = made[p]]
      BY <1>8, <2>1, <2>2 DEF Dirs, FileSets
    <3>5. Dir(p)' = [d EXCEPT !.side = b]
      BY <3>2
    <3> HIDE DEF d
    <3> QED
      BY <3>4, <3>5 DEF Dirs
  <2>4. ASSUME NEW x \in Contents, Stage(p, "o", x)
        PROVE  /\ Dir(p)' \in Dirs /\ Dir(p)'.backup = Dir(p).backup
               /\ Dir(p)'.staged = [Dir(p).staged EXCEPT !["o"] = x]
    <3>1. name'[p] = name[p]
      BY <2>1
    <3> QED
      BY <1>1, <2>1, <2>4, <3>1, StageEffect
  <2>5. \/ /\ \E b \in BOOLEAN :
               txn' = [txn EXCEPT ![name[p]].staged["o"] = made[p], ![name[p]].side = b]
           /\ Goto(p, "validate") /\ result' = result
        \/ (\E x \in {Absent, Partial} : Stage(p, "o", x)) /\ Discard(p, "refused")
        \/ txn' = txn /\ Goto(p, "validate") /\ result' = result
    BY <1>11 DEF Compile
  <2>6. /\ Dir(p)' \in Dirs
        /\ \/ pc'[p] = "validate" /\ result'[p] = "none" /\ Dir(p)'.backup = Dir(p).backup
              /\ Dir(p)'.staged \in {Dir(p).staged, [Dir(p).staged EXCEPT !["o"] = made[p]]}
           \/ pc'[p] = "cleanup" /\ result'[p] = "refused"
    <3>1. txn' = txn => Dir(p)' = Dir(p)
      BY <2>1 DEF Dir
    <3>2. /\ Goto(p, "validate") /\ result' = result => pc'[p] = "validate" /\ result'[p] = "none"
          /\ Discard(p, "refused") => pc'[p] = "cleanup" /\ result'[p] = "refused"
      BY <2>2 DEF TypeOK
    <3>3. CASE \E b \in BOOLEAN :
               txn' = [txn EXCEPT ![name[p]].staged["o"] = made[p], ![name[p]].side = b]
      BY <2>3, <2>5, <3>2, <3>3
    <3>4. CASE (\E x \in {Absent, Partial} : Stage(p, "o", x)) /\ Discard(p, "refused")
      BY <1>8, <2>4, <3>2, <3>4
    <3>5. CASE txn' = txn /\ Goto(p, "validate") /\ result' = result
      BY <2>2, <3>1, <3>2, <3>5
    <3> QED
      BY <2>5, <3>3, <3>4, <3>5
  <2>7. ASSUME pc'[p] = "validate" PROVE StagedInv(p)'
    <3>1. Dir(p)'.backup = Dir(p).backup
      BY <2>6, <2>7
    <3>2. /\ Dir(p)'.staged["c"] = made[p] /\ Dir(p)'.staged["l1m"] = made[p]
          /\ Dir(p)'.staged["o"] \in {made[p], Absent}
      <4>1. /\ Dir(p).staged["c"] = made[p] /\ Dir(p).staged["l1m"] = made[p]
            /\ Dir(p).staged["o"] = Absent /\ Dir(p).staged \in FileSets
        BY <1>2, <2>1, <2>2 DEF StagedInv, Staging, Dirs
      <4> QED
        BY <2>6, <2>7, <4>1 DEF FileSets, Artifacts
    <3>3. Dir(p).backup = Nothing
      BY <1>2, <2>1 DEF StagedInv, Staging
    <3>4. backed'[p] = {} /\ published'[p] = {} /\ restored'[p] /\ made' = made
      BY <1>2, <2>1 DEF StagedInv, Untouched, Staging
    <3> QED
      BY <2>7, <3>1, <3>2, <3>3, <3>4 DEF StagedInv, Staging
  <2> QED
    BY <1>7, <2>1, <2>6, <2>7
<1>12. CASE Validate(p)
  <2>1. /\ pc[p] = "validate" /\ name' = name /\ name[p] # NoName /\ txn' = txn
        /\ UNCHANGED <<final, request, name, progress, warned>>
    BY <1>3, <1>12 DEF Validate, Staging
  <2>2. /\ result[p] = "none" /\ Dir(p) \in Dirs /\ Dir(p)' = Dir(p)
        /\ Dir(p).staged["o"] \in {made[p], Absent} /\ Dir(p).backup = Nothing
        /\ Dir(p).staged["c"] = made[p] /\ Dir(p).staged["l1m"] = made[p]
        /\ backed'[p] = {} /\ published'[p] = {} /\ restored'[p] /\ made' = made
    BY <1>2, <1>3, <2>1 DEF VerdictInv, StagedInv, Ending, Staging, Untouched, Dir
  <2>3. \/ pc'[p] = "look" /\ result'[p] = "none" /\ Dir(p).staged["o"] # Absent
        \/ pc'[p] = "cleanup" /\ result'[p] = "refused"
    <3>1. \/ Goto(p, "look") /\ result' = result /\ Regular(Dir(p).staged["o"])
          \/ Discard(p, "refused")
      BY <1>12 DEF Validate
    <3> QED
      BY <2>2, <3>1 DEF TypeOK, Regular
  <2>4. ASSUME pc'[p] = "look" PROVE StagedInv(p)'
    BY <2>2, <2>3, <2>4 DEF StagedInv, Staging
  <2> QED
    BY <1>7, <2>1, <2>2, <2>3, <2>4
<1>13. CASE Look(p)
  <2>1. PICK seen \in SUBSET Selected(p) :
          /\ \A a \in seen : Regular(Now(p, a))
          /\ existing' = [existing EXCEPT ![p] = seen]
          /\ todo' = [todo EXCEPT ![p] = IF seen = {} THEN Selected(p) ELSE seen]
          /\ Goto(p, IF seen = {} THEN "publish" ELSE "backup")
    BY <1>13 DEF Look
  <2>2. /\ pc[p] = "look" /\ final' = final /\ txn' = txn /\ name' = name /\ name[p] # NoName
        /\ UNCHANGED <<request, backed, published, restored, result, warned>>
    BY <1>3, <1>13 DEF Look, Staging
  <2>3. pc'[p] \in {"backup", "publish"} /\ pc'[p] = (IF seen = {} THEN "publish" ELSE "backup")
        /\ todo'[p] = (IF seen = {} THEN Selected(p) ELSE seen)
    BY <2>1 DEF TypeOK
  <2>4. /\ result[p] = "none" /\ Dir(p) \in Dirs /\ Dir(p)' = Dir(p)
        /\ Dir(p).backup = Nothing /\ \A a \in Artifacts : Dir(p).staged[a] = made[p]
        /\ backed[p] = {} /\ published[p] = {} /\ restored[p] /\ final[stem[p]] = prior[p]
    BY <1>2, <1>3, <2>2 DEF VerdictInv, StagedInv, VerdictIsTrue, Ending, Staging, Untouched, Dir, Artifacts
  <2>5. Selected(p)' = Selected(p) /\ Selected(p) \subseteq Artifacts /\ Selected(p) # {}
    BY <2>2, Alphabet DEF Selected
  <2>6. Exclusive'
    <3>1. pc'[p] \in Renaming /\ stem'[p] = stem[p] /\ name'[p] = name[p] /\ Dir(p)' \in Dirs
          /\ pc[p] # "idle" /\ pc'[p] \notin {"idle", "prepare", "create"}
      BY <2>2, <2>3, <2>4 DEF Renaming
    <3> QED
      BY <1>1, <2>2, <3>1, ExclusiveKept
  <2>7. RenamingInv(p)'
    <3>1. ASSUME NEW a \in Artifacts PROVE Forward(p, a)' /\ Now(p, a)' = prior'[p][a]
      BY <2>2, <2>4 DEF Forward, Now, Nothing
    <3> QED
      BY <2>2, <2>3, <2>4, <2>5, <3>1 DEF RenamingInv
  <2>8. VerdictInv(p)' /\ StagedInv(p)' /\ VerdictIsTrue(p)'
    BY <2>2, <2>3, <2>4 DEF VerdictInv, StagedInv, VerdictIsTrue, Ending, Untouched, Staging
  <2>9. (pc[p] # "idle" /\ stem[p] \notin warned => Paired(prior[p]))'
    BY <1>2, <2>2
  <2> QED
    BY <2>6, <2>7, <2>8, <2>9 DEF CommandInv
<1> QED
  BY <1>4, <1>5, <1>6, <1>10, <1>11, <1>12, <1>13
-----------------------------------------------------------------------------
(* The artifacts are visited one by one: an order has one last element.     *)
LEMMA OneLast ==
  ASSUME NEW S, NEW a \in Artifacts, NEW b \in Artifacts, IsLast(a, S), IsLast(b, S)
  PROVE  a = b
BY DEF IsLast, Artifacts, Rank

(* A step of publication or rollback leaves the request, the directory and   *)
(* its owner as they are, so what has to be shown is the state of the set.  *)
LEMMA RenamingFrame ==
  ASSUME TypeOK, TypeOK', CompileInv, NEW p \in Commands, OnlyOwn(p), pc[p] \in Renaming,
         UNCHANGED <<request, name, existing, warned>>, Dir(p)' \in Dirs,
         pc'[p] \in Renaming \cup {"cleanup", "end"},
         pc'[p] \in Renaming => result'[p] = result[p] /\ RenamingInv(p)',
         pc'[p] = "cleanup" => result'[p] \in {"success", "restored"},
         pc'[p] = "end" => result'[p] = "retained",
         pc'[p] \notin Renaming => VerdictIsTrue(p)'
  PROVE  Exclusive' /\ CommandInv(p)'
<1>1. Exclusive /\ CommandInv(p)
  BY DEF CompileInv
<1>2. /\ stem' = stem /\ keep' = keep /\ made' = made /\ prior' = prior /\ name' = name
      /\ warned' = warned /\ pc[p] # "idle" /\ name[p] # NoName /\ result[p] = "none"
      /\ (stem[p] \notin warned => Paired(prior[p]))
  BY <1>1 DEF request, Renaming, Exclusive, CommandInv, VerdictInv, Ending
<1>3. Exclusive'
  BY <1>1, <1>2, ExclusiveKept DEF Renaming
<1>4. VerdictInv(p)'
  BY <1>2 DEF VerdictInv, Ending, Renaming
<1>5. StagedInv(p)'
  BY DEF StagedInv, Renaming, Untouched, Staging
<1>6. RenamingInv(p)'
  BY DEF RenamingInv
<1>7. VerdictIsTrue(p)'
  BY <1>2 DEF VerdictIsTrue, Renaming, Untouched, Staging
<1> QED
  BY <1>2, <1>3, <1>4, <1>5, <1>6, <1>7 DEF CommandInv

(* What the invariant says of a command that publishes or rolls back.       *)
LEMMA RenamingFacts ==
  ASSUME TypeOK, CompileInv, NEW p \in Commands, pc[p] \in Renaming
  PROVE  /\ Exclusive /\ RenamingInv(p)
         /\ name[p] # NoName /\ name[p] \in Names /\ Dir(p) \in Dirs
         /\ result[p] = "none" /\ stem[p] \in Stems
         /\ made[p] \in Contents /\ made[p] \notin {Absent, Odd} /\ Absent \in Contents
         /\ Selected(p) \subseteq Artifacts /\ todo[p] \subseteq Selected(p)
         /\ \A a \in Artifacts : /\ Now(p, a) \in Contents /\ prior[p][a] \in Contents
                                 /\ Dir(p).staged[a] \in Contents /\ Dir(p).backup[a] \in Contents
<1>1. Exclusive /\ CommandInv(p)
  BY DEF CompileInv
<1>2. RenamingInv(p) /\ VerdictInv(p)
  BY <1>1 DEF CommandInv
<1>3. name[p] # NoName /\ name[p] \in Names /\ Dir(p) \in Dirs
  BY <1>1 DEF Exclusive, TypeOK
<1>4. result[p] = "none" /\ todo[p] \subseteq Selected(p)
  BY <1>2 DEF VerdictInv, RenamingInv, Ending, Renaming
<1>5. \A a \in Artifacts : /\ Now(p, a) \in Contents /\ prior[p][a] \in Contents
                           /\ Dir(p).staged[a] \in Contents /\ Dir(p).backup[a] \in Contents
  BY <1>3 DEF TypeOK, FileSets, Dirs, Now
<1>6. stem[p] \in Stems
  BY DEF TypeOK
<1> QED
  BY <1>1, <1>2, <1>3, <1>4, <1>5, <1>6, Alphabet

(* A failed rename starts the rollback with every artifact where it is.     *)
LEMMA RollBackKeeps ==
  ASSUME TypeOK, TypeOK', CompileInv, NEW p \in Commands, OnlyOwn(p),
         pc[p] \in {"backup", "publish"}, RollBack(p),
         UNCHANGED <<final, txn, request, name, existing, backed, published, restored, result, warned>>
  PROVE  Exclusive' /\ CommandInv(p)'
<1>0. pc[p] \in Renaming
  BY DEF Renaming
<1>1. /\ RenamingInv(p) /\ Dir(p) \in Dirs
  BY <1>0, RenamingFacts
<1>2. /\ pc'[p] = "undo" /\ todo'[p] = Selected(p) /\ Selected(p)' = Selected(p) /\ Selected(p) # {}
      /\ Dir(p)' = Dir(p) /\ stem' = stem /\ final' = final /\ prior' = prior /\ made' = made
  BY Alphabet DEF RollBack, Goto, TypeOK, request, Selected, Dir
<1>3. \A a \in Artifacts : Now(p, a)' = Now(p, a) /\ Forward(p, a)' = Forward(p, a)
  BY <1>2 DEF Now, Forward
<1>4. RenamingInv(p)'
  BY <1>0, <1>1, <1>2, <1>3, Alphabet DEF RenamingInv
<1> QED
  BY <1>0, <1>1, <1>2, <1>4, RenamingFrame DEF Renaming

(* Moving an old file into the directory.                                  *)
LEMMA BackUpKeeps ==
  ASSUME TypeOK, TypeOK', CompileInv, NEW p \in Commands, OnlyOwn(p), BackUp(p)
  PROVE  Exclusive' /\ CommandInv(p)'
<1>0. /\ pc[p] = "backup" /\ pc[p] \in Renaming
      /\ UNCHANGED <<request, name, existing, published, restored, result, warned>>
  BY DEF BackUp, Renaming
<1>1. PICK a \in todo[p] :
        \/ RollBack(p) /\ UNCHANGED <<final, txn, backed>>
        \/ /\ CanMove(Now(p, a), Dir(p).backup[a])
           /\ txn' = [txn EXCEPT ![name[p]].backup[a] = Now(p, a)]
           /\ Place(p, a, Absent)
           /\ backed' = [backed EXCEPT ![p] = @ \cup {a}]
           /\ todo' = [todo EXCEPT ![p] = IF @ = {a} THEN Selected(p) ELSE @ \ {a}]
           /\ Goto(p, IF todo[p] = {a} THEN "publish" ELSE "backup")
  BY DEF BackUp
<1>2. CASE RollBack(p) /\ UNCHANGED <<final, txn, backed>>
  BY <1>0, <1>2, RollBackKeeps
<1>3. CASE /\ CanMove(Now(p, a), Dir(p).backup[a])
           /\ txn' = [txn EXCEPT ![name[p]].backup[a] = Now(p, a)]
           /\ Place(p, a, Absent)
           /\ backed' = [backed EXCEPT ![p] = @ \cup {a}]
           /\ todo' = [todo EXCEPT ![p] = IF @ = {a} THEN Selected(p) ELSE @ \ {a}]
           /\ Goto(p, IF todo[p] = {a} THEN "publish" ELSE "backup")
  <2>1. /\ Exclusive /\ RenamingInv(p)
        /\ name[p] # NoName /\ Dir(p) \in Dirs /\ name'[p] = name[p] /\ stem'[p] = stem[p]
        /\ result[p] = "none" /\ Absent \in Contents /\ a \in Artifacts /\ a \in Selected(p)
        /\ Selected(p) \subseteq Artifacts /\ todo[p] \subseteq Selected(p)
        /\ Now(p, a) \in Contents
    BY <1>0, RenamingFacts DEF request
  <2>2. /\ Dir(p)' \in Dirs /\ Dir(p)'.staged = Dir(p).staged
        /\ Dir(p)'.backup = [Dir(p).backup EXCEPT ![a] = Now(p, a)]
    BY <1>3, <2>1, BackupEffect
  <2>3. \A b \in Artifacts : Now(p, b)' = IF b = a THEN Absent ELSE Now(p, b)
    BY <1>3, <2>1, PlaceEffect
  <2>4. \A b \in Artifacts : Dir(p)'.backup[b] = IF b = a THEN Now(p, a) ELSE Dir(p).backup[b]
    BY <2>1, <2>2 DEF Dirs, FileSets
  <2>5. /\ backed'[p] = backed[p] \cup {a} /\ published'[p] = {} /\ published[p] = {} /\ restored'[p]
        /\ todo'[p] = (IF todo[p] = {a} THEN Selected(p) ELSE todo[p] \ {a})
        /\ pc'[p] = (IF todo[p] = {a} THEN "publish" ELSE "backup")
        /\ made' = made /\ prior' = prior /\ Selected(p)' = Selected(p) /\ a \notin backed[p]
        /\ backed[p] \subseteq Selected(p) /\ result'[p] = result[p]
    <3>1. /\ published[p] = {} /\ restored[p] /\ a \notin backed[p] /\ backed[p] \subseteq Selected(p)
      BY <1>0, <2>1 DEF RenamingInv
    <3>2. /\ backed'[p] = backed[p] \cup {a} /\ pc'[p] = (IF todo[p] = {a} THEN "publish" ELSE "backup")
          /\ todo'[p] = (IF todo[p] = {a} THEN Selected(p) ELSE todo[p] \ {a})
      BY <1>3 DEF TypeOK, Goto
    <3>3. made' = made /\ prior' = prior /\ keep' = keep /\ Selected(p)' = Selected(p)
      BY <1>0 DEF request, Selected
    <3> QED
      BY <1>0, <3>1, <3>2, <3>3
  <2>6. ASSUME NEW b \in Selected(p) PROVE Forward(p, b)'
    <3>1. Forward(p, b) /\ Forward(p, a) /\ b \in Artifacts
      BY <1>0, <2>1 DEF RenamingInv
    <3>2. b # a => (b \in backed'[p] <=> b \in backed[p])
      BY <2>5
    <3>3. a \in backed'[p] /\ a \notin backed[p] /\ Regular(prior[p][a]) /\ Now(p, a) = prior[p][a]
      BY <1>3, <2>5, <3>1 DEF Forward, CanMove
    <3>4. Dir(p)'.staged[b] = made[p]
      BY <2>2, <2>5, <3>1 DEF Forward
    <3>5. CASE b = a
      BY <2>3, <2>4, <2>5, <3>1, <3>3, <3>4, <3>5 DEF Forward
    <3>6. CASE b # a
      BY <2>3, <2>4, <2>5, <3>1, <3>2, <3>4, <3>6 DEF Forward
    <3> QED
      BY <3>5, <3>6
  <2>7. \A b \in Artifacts \ Selected(p) : Now(p, b)' = prior'[p][b]
    BY <1>0, <2>1, <2>3, <2>5 DEF RenamingInv
  <2>8. /\ todo'[p] \subseteq Selected(p) /\ todo'[p] # {} /\ backed'[p] \subseteq Selected(p)
        /\ pc'[p] = "backup" => backed'[p] \cap todo'[p] = {}
        /\ pc'[p] = "publish" => todo'[p] = Selected(p) \ published'[p]
    BY <1>0, <1>1, <2>1, <2>5 DEF RenamingInv
  <2>9. RenamingInv(p)'
    BY <2>5, <2>6, <2>7, <2>8 DEF RenamingInv
  <2> QED
    BY <1>0, <2>1, <2>2, <2>5, <2>9, RenamingFrame DEF Renaming
<1> QED
  BY <1>1, <1>2, <1>3

(* Moving a new file to its place; the last one completes the set.          *)
LEMMA PublishKeeps ==
  ASSUME TypeOK, TypeOK', CompileInv, NEW p \in Commands, OnlyOwn(p), Publish(p)
  PROVE  Exclusive' /\ CommandInv(p)'
<1>0. /\ pc[p] = "publish" /\ pc[p] \in Renaming
      /\ UNCHANGED <<request, name, existing, backed, restored, warned>>
  BY DEF Publish, Renaming
<1>1. PICK a \in todo[p] :
        \/ RollBack(p) /\ UNCHANGED <<final, txn, published, result>>
        \/ /\ CanMove(Dir(p).staged[a], Now(p, a))
           /\ Place(p, a, Dir(p).staged[a])
           /\ Stage(p, a, Absent)
           /\ published' = [published EXCEPT ![p] = @ \cup {a}]
           /\ todo' = [todo EXCEPT ![p] = @ \ {a}]
           /\ IF todo[p] = {a} THEN Discard(p, "success") ELSE UNCHANGED <<pc, result>>
  BY DEF Publish
<1>2. CASE RollBack(p) /\ UNCHANGED <<final, txn, published, result>>
  BY <1>0, <1>2, RollBackKeeps
<1>3. CASE /\ CanMove(Dir(p).staged[a], Now(p, a))
           /\ Place(p, a, Dir(p).staged[a])
           /\ Stage(p, a, Absent)
           /\ published' = [published EXCEPT ![p] = @ \cup {a}]
           /\ todo' = [todo EXCEPT ![p] = @ \ {a}]
           /\ IF todo[p] = {a} THEN Discard(p, "success") ELSE UNCHANGED <<pc, result>>
  <2>1. /\ Exclusive /\ RenamingInv(p)
        /\ name[p] # NoName /\ Dir(p) \in Dirs /\ name'[p] = name[p] /\ stem'[p] = stem[p]
        /\ result[p] = "none" /\ Absent \in Contents /\ a \in Artifacts /\ a \in Selected(p)
        /\ Selected(p) \subseteq Artifacts /\ todo[p] \subseteq Selected(p)
        /\ made[p] \in Contents
    BY <1>0, RenamingFacts DEF request
  <2>2. /\ restored[p] /\ todo[p] = Selected(p) \ published[p]
        /\ backed[p] \subseteq Selected(p) /\ published[p] \subseteq Selected(p)
        /\ \A b \in Selected(p) : Forward(p, b)
        /\ \A b \in Artifacts \ Selected(p) : Now(p, b) = prior[p][b]
    BY <1>0, <2>1 DEF RenamingInv
  <2>3. a \notin published[p] /\ Dir(p).staged[a] = made[p] /\ Now(p, a) = Absent
    BY <1>3, <2>1, <2>2 DEF Forward, CanMove
  <2>4. /\ Dir(p)' \in Dirs /\ Dir(p)'.backup = Dir(p).backup
        /\ Dir(p)'.staged = [Dir(p).staged EXCEPT ![a] = Absent]
    BY <1>3, <2>1, StageEffect
  <2>5. \A b \in Artifacts : Now(p, b)' = IF b = a THEN made[p] ELSE Now(p, b)
    BY <1>3, <2>1, <2>3, PlaceEffect
  <2>6. \A b \in Artifacts : b # a => Dir(p)'.staged[b] = Dir(p).staged[b]
    BY <2>1, <2>4 DEF Dirs, FileSets
  <2>7. /\ published'[p] = published[p] \cup {a} /\ todo'[p] = todo[p] \ {a}
        /\ backed'[p] = backed[p] /\ restored'[p]
        /\ IF todo[p] = {a} THEN pc'[p] = "cleanup" /\ result'[p] = "success"
                            ELSE pc'[p] = "publish" /\ result'[p] = result[p]
        /\ made' = made /\ prior' = prior /\ keep' = keep /\ Selected(p)' = Selected(p)
    <3>1. published'[p] = published[p] \cup {a} /\ todo'[p] = todo[p] \ {a}
      BY <1>3 DEF TypeOK
    <3>2. IF todo[p] = {a} THEN pc'[p] = "cleanup" /\ result'[p] = "success"
                           ELSE pc'[p] = "publish" /\ result'[p] = result[p]
      BY <1>0, <1>3 DEF TypeOK, Discard, Goto
    <3>3. made' = made /\ prior' = prior /\ keep' = keep /\ Selected(p)' = Selected(p)
      BY <1>0 DEF request, Selected
    <3> QED
      BY <1>0, <2>2, <3>1, <3>2, <3>3
  <2>8. ASSUME NEW b \in Selected(p) PROVE Forward(p, b)'
    <3>1. Forward(p, b) /\ b \in Artifacts
      BY <2>1, <2>2
    <3>2. CASE b = a
      <4>1. a \in published'[p] /\ Now(p, a)' = made'[p] /\ (a \in backed'[p] \/ prior'[p][a] = Absent)
        BY <2>1, <2>3, <2>5, <2>7, <3>1, <3>2 DEF Forward
      <4> QED
        BY <2>4, <2>7, <3>1, <3>2, <4>1 DEF Forward
    <3>3. CASE b # a
      BY <2>4, <2>5, <2>6, <2>7, <3>1, <3>3 DEF Forward
    <3> QED
      BY <3>2, <3>3
  <2>9. \A b \in Artifacts \ Selected(p) : Now(p, b)' = prior'[p][b]
    BY <2>1, <2>2, <2>5, <2>7
  <2>10. ASSUME pc'[p] \in Renaming PROVE RenamingInv(p)'
    <3>1. pc'[p] = "publish" /\ todo[p] # {a}
      BY <2>7, <2>10 DEF Renaming
    <3>2. todo'[p] # {} /\ todo'[p] = Selected(p) \ published'[p] /\ published'[p] \subseteq Selected(p)
      BY <1>1, <2>1, <2>2, <2>7, <3>1
    <3> QED
      BY <2>2, <2>7, <2>8, <2>9, <3>1, <3>2 DEF RenamingInv
  <2>11. ASSUME pc'[p] \notin Renaming PROVE VerdictIsTrue(p)'
    <3>1. pc'[p] = "cleanup" /\ result'[p] = "success" /\ todo[p] = {a}
      BY <2>7, <2>11 DEF Renaming
    <3>2. published'[p] = Selected(p)
      BY <2>1, <2>2, <2>7, <3>1
    <3>3. \A b \in Artifacts : Now(p, b)' = Replaced(p, b)'
      BY <2>7, <2>8, <2>9, <3>2 DEF Forward, Replaced
    <3> QED
      BY <3>1, <3>3 DEF VerdictIsTrue, Untouched, Staging
  <2> QED
    BY <1>0, <2>1, <2>4, <2>7, <2>10, <2>11, RenamingFrame DEF Renaming
<1> QED
  BY <1>1, <1>2, <1>3

(* Deleting a published file.                                              *)
LEMMA UndoKeeps ==
  ASSUME TypeOK, TypeOK', CompileInv, NEW p \in Commands, OnlyOwn(p), Undo(p)
  PROVE  Exclusive' /\ CommandInv(p)'
<1>0. /\ pc[p] = "undo" /\ pc[p] \in Renaming /\ pc'[p] = "restore"
      /\ UNCHANGED <<txn, request, name, todo, existing, backed, published, result, warned>>
  BY DEF Undo, Renaming, Goto, TypeOK
<1>1. PICK a \in todo[p] :
        /\ IsLast(a, todo[p])
        /\ \/ a \notin published[p] /\ UNCHANGED <<final, restored>>
           \/ a \in published[p] /\ Place(p, a, Absent) /\ restored' = restored
           \/ a \in published[p] /\ restored' = [restored EXCEPT ![p] = FALSE] /\ final' = final
  BY DEF Undo
<1>2. /\ Exclusive /\ RenamingInv(p)
      /\ name[p] # NoName /\ Dir(p) \in Dirs /\ name'[p] = name[p] /\ stem'[p] = stem[p]
      /\ Absent \in Contents /\ a \in Artifacts /\ a \in Selected(p)
      /\ Selected(p) \subseteq Artifacts /\ todo[p] \subseteq Selected(p)
  BY <1>0, <1>1, RenamingFacts DEF request
<1>3. /\ made' = made /\ prior' = prior /\ keep' = keep /\ Selected(p)' = Selected(p) /\ Dir(p)' = Dir(p)
      /\ todo' = todo /\ backed' = backed /\ published' = published
  BY <1>0 DEF request, Selected, Dir
<1>4. /\ \A b \in Selected(p) : /\ b \notin todo[p] => Rolled(p, b)
                                /\ b \in todo[p] => Forward(p, b)
      /\ backed[p] \subseteq Selected(p) /\ published[p] \subseteq Selected(p)
      /\ \A b \in Artifacts \ Selected(p) : Now(p, b) = prior[p][b]
  BY <1>0, <1>2 DEF RenamingInv
<1>5. /\ \A b \in Artifacts : b # a => Now(p, b)' = Now(p, b)
      /\ restored'[p] => restored[p]
      /\ \/ a \notin published[p] /\ Now(p, a)' = Now(p, a)
         \/ a \in published[p] /\ Now(p, a)' = Absent
         \/ a \in published[p] /\ ~restored'[p]
  <2>1. ASSUME final' = final PROVE \A b \in Artifacts : Now(p, b)' = Now(p, b)
    BY <1>2, <2>1 DEF Now
  <2>2. ASSUME Place(p, a, Absent)
        PROVE  \A b \in Artifacts : Now(p, b)' = IF b = a THEN Absent ELSE Now(p, b)
    BY <1>2, <2>2, PlaceEffect
  <2>3. CASE a \notin published[p] /\ UNCHANGED <<final, restored>>
    BY <1>2, <2>1, <2>3
  <2>4. CASE a \in published[p] /\ Place(p, a, Absent) /\ restored' = restored
    BY <1>2, <2>2, <2>4
  <2>5. CASE a \in published[p] /\ restored' = [restored EXCEPT ![p] = FALSE] /\ final' = final
    <3>1. restored'[p] = FALSE
      BY <2>5 DEF TypeOK
    <3> QED
      BY <1>2, <2>1, <2>5, <3>1
  <2> QED
    BY <1>1, <2>3, <2>4, <2>5
<1>6. Undone(p, a)'
  <2>1. Forward(p, a)
    BY <1>2, <1>4
  <2> QED
    BY <1>3, <1>5, <2>1 DEF Forward, Undone
<1>7. \A b \in Selected(p) : /\ b \notin todo[p] => Rolled(p, b)'
                             /\ b \in todo[p] /\ b # a => Forward(p, b)'
  <2>1. SUFFICES ASSUME NEW b \in Selected(p), b # a
                 PROVE  (b \notin todo[p] => Rolled(p, b)') /\ (b \in todo[p] => Forward(p, b)')
    OBVIOUS
  <2>2. Now(p, b)' = Now(p, b) /\ b \in Artifacts
    BY <1>2, <1>5, <2>1
  <2>3. b \notin todo[p] => Rolled(p, b)'
    BY <1>3, <1>4, <1>5, <2>1, <2>2 DEF Rolled
  <2>4. b \in todo[p] => Forward(p, b)'
    BY <1>3, <1>4, <2>1, <2>2 DEF Forward
  <2> QED
    BY <2>3, <2>4
<1>8. \A b \in Selected(p) : IsLast(b, todo[p])' <=> b = a
  BY <1>1, <1>2, <1>3, OneLast DEF IsLast
<1>9. \A b \in Artifacts \ Selected(p) : Now(p, b)' = prior'[p][b]
  BY <1>2, <1>3, <1>4, <1>5
<1>10. RenamingInv(p)'
  BY <1>0, <1>1, <1>2, <1>3, <1>4, <1>6, <1>7, <1>8, <1>9 DEF RenamingInv
<1> QED
  BY <1>0, <1>2, <1>3, <1>10, RenamingFrame DEF Renaming

(* Putting an old file back; the last one decides the verdict.              *)
LEMMA RestoreKeeps ==
  ASSUME TypeOK, TypeOK', CompileInv, NEW p \in Commands, OnlyOwn(p), Restore(p)
  PROVE  Exclusive' /\ CommandInv(p)'
<1>0. /\ pc[p] = "restore" /\ pc[p] \in Renaming
      /\ UNCHANGED <<request, name, existing, backed, published, warned>>
  BY DEF Restore, Renaming
<1>1. PICK a \in todo[p] :
        /\ IsLast(a, todo[p])
        /\ \/ a \notin backed[p] /\ UNCHANGED <<final, txn, restored>>
           \/ /\ a \in backed[p] /\ CanMove(Dir(p).backup[a], Now(p, a))
              /\ Place(p, a, Dir(p).backup[a])
              /\ txn' = [txn EXCEPT ![name[p]].backup[a] = Absent]
              /\ restored' = restored
           \/ /\ a \in backed[p]
              /\ restored' = [restored EXCEPT ![p] = FALSE]
              /\ UNCHANGED <<final, txn>>
        /\ todo' = [todo EXCEPT ![p] = @ \ {a}]
        /\ \/ todo[p] # {a} /\ Goto(p, "undo") /\ result' = result
           \/ todo[p] = {a} /\ restored'[p] /\ Discard(p, "restored")
           \/ todo[p] = {a} /\ ~restored'[p] /\ Finish(p, "retained")
  BY DEF Restore
<1>2. /\ Exclusive /\ RenamingInv(p)
      /\ name[p] # NoName /\ Dir(p) \in Dirs /\ name'[p] = name[p] /\ stem'[p] = stem[p]
      /\ Absent \in Contents /\ a \in Artifacts /\ a \in Selected(p)
      /\ Selected(p) \subseteq Artifacts /\ todo[p] \subseteq Selected(p)
      /\ Now(p, a) \in Contents /\ Dir(p).backup[a] \in Contents
  BY <1>0, <1>1, RenamingFacts DEF request
<1>3. made' = made /\ prior' = prior /\ keep' = keep /\ Selected(p)' = Selected(p) /\ backed' = backed
      /\ published' = published /\ todo'[p] = todo[p] \ {a}
  BY <1>0, <1>1 DEF request, Selected, TypeOK
<1>4. /\ Undone(p, a)
      /\ \A b \in Selected(p) : /\ b \notin todo[p] => Rolled(p, b)
                                /\ b \in todo[p] /\ b # a => Forward(p, b)
      /\ backed[p] \subseteq Selected(p) /\ published[p] \subseteq Selected(p)
      /\ \A b \in Artifacts \ Selected(p) : Now(p, b) = prior[p][b]
  <2>1. \A b \in Selected(p) : b \in todo[p] => (IsLast(b, todo[p]) <=> b = a)
    BY <1>1, <1>2, OneLast
  <2> QED
    BY <1>0, <1>1, <1>2, <2>1 DEF RenamingInv
<1>5. /\ Dir(p)' \in Dirs /\ Dir(p)'.staged = Dir(p).staged
      /\ \A b \in Artifacts : b # a => Dir(p)'.backup[b] = Dir(p).backup[b] /\ Now(p, b)' = Now(p, b)
      /\ restored'[p] => restored[p]
      /\ \/ a \notin backed[p] /\ Now(p, a)' = Now(p, a)
         \/ a \in backed[p] /\ Now(p, a)' = Dir(p).backup[a]
         \/ ~restored'[p] /\ Dir(p)'.backup[a] = Dir(p).backup[a] /\ Now(p, a)' = Now(p, a)
  <2>1. CASE UNCHANGED <<final, txn>>
    <3>1. Dir(p)' = Dir(p) /\ \A b \in Artifacts : Now(p, b)' = Now(p, b)
      BY <1>2, <2>1 DEF Now, Dir
    <3>2. \/ a \notin backed[p] /\ restored' = restored
          \/ restored'[p] = FALSE
          \/ Place(p, a, Dir(p).backup[a]) /\ a \in backed[p] /\ restored' = restored
      BY <1>1 DEF TypeOK
    <3>3. Place(p, a, Dir(p).backup[a]) => Now(p, a)' = Dir(p).backup[a]
      BY <1>2, PlaceEffect
    <3> QED
      BY <1>2, <3>1, <3>2, <3>3
  <2>2. CASE /\ a \in backed[p] /\ restored' = restored
             /\ Place(p, a, Dir(p).backup[a])
             /\ txn' = [txn EXCEPT ![name[p]].backup[a] = Absent]
    <3>1. /\ Dir(p)' \in Dirs /\ Dir(p)'.staged = Dir(p).staged
          /\ Dir(p)'.backup = [Dir(p).backup EXCEPT ![a] = Absent]
      BY <1>2, <2>2, BackupEffect
    <3>2. \A b \in Artifacts : Now(p, b)' = IF b = a THEN Dir(p).backup[a] ELSE Now(p, b)
      BY <1>2, <2>2, PlaceEffect
    <3>3. \A b \in Artifacts : b # a => Dir(p)'.backup[b] = Dir(p).backup[b]
      BY <1>2, <3>1 DEF Dirs, FileSets
    <3> QED
      BY <1>2, <2>2, <3>1, <3>2, <3>3
  <2> QED
    BY <1>1, <2>1, <2>2
<1>6. Rolled(p, a)'
  BY <1>3, <1>4, <1>5 DEF Undone, Rolled
<1>7. \A b \in Selected(p) : /\ b \notin todo'[p] => Rolled(p, b)'
                             /\ b \in todo'[p] => Forward(p, b)'
  <2>1. SUFFICES ASSUME NEW b \in Selected(p), b # a
                 PROVE  (b \notin todo[p] => Rolled(p, b)') /\ (b \in todo[p] => Forward(p, b)')
    BY <1>3, <1>6
  <2>2. Now(p, b)' = Now(p, b) /\ b \in Artifacts /\ Dir(p)'.backup[b] = Dir(p).backup[b]
    BY <1>2, <1>5, <2>1
  <2>3. b \notin todo[p] => Rolled(p, b)'
    BY <1>3, <1>4, <1>5, <2>1, <2>2 DEF Rolled
  <2>4. b \in todo[p] => Forward(p, b)'
    BY <1>3, <1>4, <1>5, <2>1, <2>2 DEF Forward
  <2> QED
    BY <2>3, <2>4
<1>8. \A b \in Artifacts \ Selected(p) : Now(p, b)' = prior'[p][b]
  BY <1>2, <1>3, <1>4, <1>5
<1>9. \/ pc'[p] = "undo" /\ result'[p] = result[p] /\ todo'[p] # {}
      \/ pc'[p] = "cleanup" /\ result'[p] = "restored" /\ todo'[p] = {} /\ restored'[p]
      \/ pc'[p] = "end" /\ result'[p] = "retained" /\ todo'[p] = {}
  <2>1. \/ todo[p] # {a} /\ pc'[p] = "undo" /\ result'[p] = result[p]
        \/ todo[p] = {a} /\ restored'[p] /\ pc'[p] = "cleanup" /\ result'[p] = "restored"
        \/ todo[p] = {a} /\ pc'[p] = "end" /\ result'[p] = "retained"
    BY <1>1 DEF Goto, Discard, Finish, TypeOK
  <2> QED
    BY <1>1, <1>3, <2>1
<1>10. ASSUME pc'[p] \in Renaming PROVE RenamingInv(p)'
  <2>1. pc'[p] = "undo" /\ todo'[p] # {}
    BY <1>9, <1>10 DEF Renaming
  <2> QED
    BY <1>2, <1>3, <1>4, <1>7, <1>8, <2>1 DEF RenamingInv
<1>11. ASSUME pc'[p] \notin Renaming PROVE VerdictIsTrue(p)'
  <2>1. todo'[p] = {} /\ (pc'[p] = "cleanup" \/ pc'[p] = "end")
    BY <1>9, <1>11 DEF Renaming
  <2>2. \A b \in Selected(p) : Rolled(p, b)'
    BY <1>7, <2>1
  <2>3. CASE result'[p] = "restored" /\ restored'[p] /\ pc'[p] = "cleanup"
    <3>1. \A b \in Artifacts : Now(p, b)' = prior'[p][b]
      BY <1>3, <1>8, <2>2, <2>3 DEF Rolled
    <3>2. final'[stem'[p]] \in FileSets /\ prior'[p] \in FileSets
      BY DEF TypeOK
    <3>3. final'[stem'[p]] = prior'[p]
      BY <3>1, <3>2 DEF FileSets, Now
    <3> QED
      BY <2>3, <3>3 DEF VerdictIsTrue
  <2>4. CASE result'[p] = "retained" /\ pc'[p] = "end"
    <3>1. \A b \in Artifacts : prior'[p][b] \in {Absent, Now(p, b)', Dir(p)'.backup[b]}
      BY <1>3, <1>8, <2>2 DEF Rolled
    <3> QED
      BY <2>4, <3>1 DEF VerdictIsTrue, Untouched, Staging
  <2> QED
    BY <1>9, <1>11, <2>3, <2>4 DEF Renaming
<1> QED
  BY <1>0, <1>2, <1>5, <1>9, <1>10, <1>11, RenamingFrame DEF Renaming

-----------------------------------------------------------------------------
(* Cleaning up, returning and dying keep the invariant of their command.    *)
LEMMA EndKeeps ==
  ASSUME TypeOK, TypeOK', CompileInv, NEW p \in Commands, OnlyOwn(p),
         CleanUp(p) \/ Return(p) \/ Crash(p)
  PROVE  Exclusive' /\ CommandInv(p)'
<1>1. Exclusive /\ CommandInv(p)
  BY DEF CompileInv
<1>2. CASE CleanUp(p)
  <2>1. /\ pc[p] = "cleanup" /\ pc'[p] = "end" /\ name'[p] = NoName /\ result' = result
        /\ stem' = stem /\ keep' = keep /\ made' = made /\ prior' = prior
        /\ final' = final /\ warned' = warned
    BY <1>2 DEF CleanUp, Goto, TypeOK, request
  <2>2. Exclusive'
    BY <1>1, <2>1, ExclusiveKept DEF Staging, Renaming
  <2>3. /\ result[p] \notin {"none", "retained"} /\ VerdictIsTrue(p)
        /\ (stem[p] \notin warned => Paired(prior[p]))
    BY <1>1, <2>1 DEF CommandInv, VerdictInv, Ending
  <2>4. VerdictInv(p)' /\ StagedInv(p)' /\ RenamingInv(p)'
    BY <2>1, <2>3 DEF VerdictInv, StagedInv, RenamingInv, Ending, Untouched, Staging, Renaming
  <2>5. VerdictIsTrue(p)'
    BY <2>1, <2>3 DEF VerdictIsTrue, Now, Replaced, Selected, Untouched, Staging
  <2> QED
    BY <2>1, <2>2, <2>3, <2>4, <2>5 DEF CommandInv
<1>3. CASE Return(p) \/ Crash(p)
  <2>1. /\ pc'[p] = "idle" /\ name'[p] = NoName /\ result'[p] = "none"
        /\ backed'[p] = {} /\ published'[p] = {} /\ restored'[p]
    BY <1>3 DEF Return, Crash, Gone, Goto, TypeOK
  <2>2. Exclusive'
    BY <1>1, <2>1, ExclusiveKept DEF Staging, Renaming
  <2> QED
    BY <2>1, <2>2 DEF CommandInv, VerdictInv, StagedInv, RenamingInv, VerdictIsTrue,
       Ending, Untouched, Staging, Renaming
<1> QED
  BY <1>2, <1>3

(* A command that is not renaming and has not given up leaves a pair.       *)
LEMMA EndsPaired ==
  ASSUME TypeOK, NEW p \in Commands, CommandInv(p), pc[p] # "idle", pc[p] \notin Renaming,
         result[p] # "retained", stem[p] \notin warned \/ result[p] = "success"
  PROVE  Paired(final[stem[p]])
<1>1. VerdictInv(p) /\ VerdictIsTrue(p) /\ (stem[p] \notin warned => Paired(prior[p]))
  BY DEF CommandInv
<1>2. CASE result[p] = "success"
  <2>1. \A a \in Artifacts : Now(p, a) = Replaced(p, a)
    BY <1>1, <1>2 DEF VerdictIsTrue
  <2>2. Now(p, "o") = made[p] /\ Now(p, "l1m") = made[p]
    BY <2>1, Alphabet DEF Replaced
  <2> QED
    BY <2>2, Alphabet DEF Paired, Now
<1>3. CASE result[p] # "success"
  <2>1. pc[p] \in Untouched \/ result[p] \in {"refused", "restored"}
    BY <1>1, <1>3 DEF VerdictInv, TypeOK, Steps, Ending, Untouched
  <2> QED
    BY <1>1, <1>3, <2>1 DEF VerdictIsTrue
<1> QED
  BY <1>2, <1>3

(* Only the end of a command makes its destination set count as published.  *)
LEMMA PairsKept ==
  ASSUME TypeOK, CompileInv, NEW p \in Commands, OnlyOwn(p), Step(p) \/ Crash(p)
  PROVE  MixedPairsAreReported'
<1> SUFFICES ASSUME NEW s \in Stems, s \notin warned',
                    \A q \in Commands : pc'[q] # "idle" => stem'[q] # s
             PROVE  Paired(final'[s])
  BY DEF MixedPairsAreReported, Paired
<1>1. CASE s # stem[p] \/ pc[p] = "idle"
  <2>1. final'[s] = final[s] /\ s \notin warned
    BY <1>1 DEF OnlyOwn
  <2>2. \A q \in Commands : pc[q] # "idle" => stem[q] # s
    BY <1>1 DEF OnlyOwn
  <2> QED
    BY <2>1, <2>2 DEF CompileInv, MixedPairsAreReported
<1>2. CASE s = stem[p] /\ pc[p] # "idle"
  <2>1. pc'[p] # "idle" => stem'[p] # stem[p]
    BY <1>2
  <2>2. Return(p) \/ Crash(p)
    <3> USE DEF Goto, Finish, Discard, request, TypeOK
    <3>1. ~Start(p)
      BY <1>2 DEF Start
    <3>2. ~Prepare(p) /\ ~Create(p) /\ ~Compile(p) /\ ~Validate(p) /\ ~Look(p)
      BY <2>1 DEF Prepare, Create, Compile, Validate, Look
    <3>3. ~WriteC(p) /\ ~WriteInterface(p)
      BY <2>1 DEF WriteC, WriteInterface, WriteStaged
    <3>4. ~BackUp(p) /\ ~Publish(p)
      BY <1>2, <2>1 DEF BackUp, Publish, RollBack
    <3>5. ~Undo(p) /\ ~Restore(p) /\ ~CleanUp(p)
      BY <1>2, <2>1 DEF Undo, Restore, CleanUp
    <3> QED
      BY <3>1, <3>2, <3>3, <3>4, <3>5 DEF Step
  <2>3. final' = final /\ CommandInv(p)
    BY <2>2 DEF Return, Crash, Gone, CompileInv
  <2>4. /\ result[p] # "retained" /\ pc[p] \notin Renaming
        /\ stem[p] \notin warned \/ result[p] = "success"
    <3>1. CASE Return(p)
      BY <1>2, <3>1 DEF Return, Renaming, TypeOK
    <3>2. CASE Crash(p)
      BY <1>2, <3>2 DEF Crash, TypeOK
    <3> QED
      BY <2>2, <3>1, <3>2
  <2> QED
    BY <1>2, <2>3, <2>4, EndsPaired
<1> QED
  BY <1>1, <1>2

(* The invariant is inductive.                                             *)
LEMMA InitInv == Init => CompileInv
<1> SUFFICES ASSUME Init PROVE CompileInv
  OBVIOUS
<1>1. Exclusive
  BY DEF Init, Exclusive, Staging, Renaming
<1>2. MixedPairsAreReported
  BY DEF Init, MixedPairsAreReported
<1>3. ASSUME NEW p \in Commands PROVE CommandInv(p)
  <2>1. /\ pc[p] = "idle" /\ result[p] = "none"
        /\ backed[p] = {} /\ published[p] = {} /\ restored[p]
    BY DEF Init
  <2> QED
    BY <2>1 DEF CommandInv, VerdictInv, StagedInv, RenamingInv, VerdictIsTrue,
       Ending, Untouched, Staging, Renaming
<1> QED
  BY <1>1, <1>2, <1>3 DEF CompileInv

(* ... under every step of every command, ...                              *)
LEMMA StepKeeps ==
  ASSUME TypeOK, CompileInv, NEW p \in Commands, Step(p) \/ Crash(p)
  PROVE  TypeOK' /\ CompileInv'
<1>1. OnlyOwn(p) /\ Exclusive
  BY StepsAreLocal DEF CompileInv
<1>2. TypeOK'
  BY <1>1, StagingKeepsType, RenamingKeepsType, EndKeepsType DEF Step
<1>3. Exclusive' /\ CommandInv(p)'
  BY <1>1, <1>2, StagingKeeps, BackUpKeeps, PublishKeeps, UndoKeeps, RestoreKeeps, EndKeeps DEF Step
<1>4. \A q \in Commands : CommandInv(q)'
  BY <1>1, <1>3, OthersKeep
<1>5. MixedPairsAreReported'
  BY <1>1, PairsKept
<1> QED
  BY <1>2, <1>3, <1>4, <1>5 DEF CompileInv

(* ... and when nothing happens.                                           *)
LEMMA StutterKeeps ==
  ASSUME TypeOK, CompileInv, UNCHANGED vars
  PROVE  TypeOK' /\ CompileInv'
<1> USE DEF vars, request, progress
<1>1. TypeOK'
  BY DEF TypeOK
<1>2. Exclusive' /\ MixedPairsAreReported'
  BY DEF CompileInv, Exclusive, MixedPairsAreReported, Dir, Paired
<1>3. ASSUME NEW p \in Commands PROVE CommandInv(p)'
  <2>1. CommandInv(p)
    BY DEF CompileInv
  <2>2. VerdictInv(p)' /\ StagedInv(p)'
    BY <2>1 DEF CommandInv, VerdictInv, StagedInv, Dir
  <2>3. RenamingInv(p)'
    BY <2>1 DEF CommandInv, RenamingInv, Forward, Undone, Rolled, IsLast, Selected, Now, Dir
  <2>4. VerdictIsTrue(p)' /\ (pc[p] # "idle" /\ stem[p] \notin warned => Paired(prior[p]))'
    BY <2>1 DEF CommandInv, VerdictIsTrue, Now, Replaced, Selected, Dir, Paired
  <2> QED
    BY <2>2, <2>3, <2>4 DEF CommandInv
<1> QED
  BY <1>1, <1>2, <1>3 DEF CompileInv

-----------------------------------------------------------------------------
(* Every variable keeps its type, and the invariant holds, in every          *)
(* behaviour of any number of compile-only commands.                       *)
THEOREM CompileSafety == Spec => [](TypeOK /\ CompileInv)
<1>1. Init => TypeOK /\ CompileInv
  BY InitType, InitInv
<1>2. TypeOK /\ CompileInv /\ [Next]_vars => (TypeOK /\ CompileInv)'
  BY StepKeeps, StutterKeeps DEF Next
<1> QED
  BY <1>1, <1>2, PTL DEF Spec

(* The type invariant.                                                     *)
THEOREM Typing == Spec => []TypeOK
BY CompileSafety, PTL

(* The inductive invariant itself.                                         *)
THEOREM Publication == Spec => []CompileInv
BY CompileSafety, PTL

(* First endpoint: exit status 0 leaves the complete new set.               *)
THEOREM SuccessComplete == Spec => []SuccessIsComplete
<1>1. CompileInv => SuccessIsComplete
  BY DEF CompileInv, CommandInv, VerdictIsTrue, SuccessIsComplete
<1> QED
  BY <1>1, CompileSafety, PTL

(* Second endpoint: a refusal or L1C-2035 leaves exactly the prior set.     *)
THEOREM FailuresRestore == Spec => []FailureRestores
<1>1. CompileInv => FailureRestores
  BY DEF CompileInv, CommandInv, VerdictIsTrue, FailureRestores
<1> QED
  BY <1>1, CompileSafety, PTL

(* Nothing is lost in a state of the invariant.                              *)
LEMMA LostNothing == TypeOK /\ CompileInv => NothingIsLost
<1> SUFFICES ASSUME TypeOK, CompileInv, NEW p \in Commands, pc[p] # "idle",
                    ~ \A a \in Artifacts : Now(p, a) = Replaced(p, a),
                    NEW a \in Artifacts, prior[p][a] # Absent
             PROVE  Kept(p, a)
  BY DEF NothingIsLost
<1>1. Exclusive /\ VerdictInv(p) /\ RenamingInv(p) /\ VerdictIsTrue(p)
  BY DEF CompileInv, CommandInv
<1>2. name[p] # NoName => Dir(p) # NoDir
  BY <1>1, CompileAssumption DEF Exclusive
<1>3. CASE pc[p] \in Untouched \/ result[p] \in {"refused", "restored"}
  BY <1>1, <1>3 DEF VerdictIsTrue, Kept, Now
<1>4. CASE pc[p] \in Renaming
  <2>1. name[p] # NoName
    BY <1>1, <1>4 DEF Exclusive
  <2>2. CASE a \in Selected(p)
    <3>1. Forward(p, a) \/ Undone(p, a) \/ Rolled(p, a)
      BY <1>1, <1>4, <2>2 DEF RenamingInv
    <3> QED
      BY <1>2, <2>1, <3>1 DEF Forward, Undone, Rolled, Kept
  <2>3. CASE a \notin Selected(p)
    BY <1>1, <1>4, <2>3 DEF RenamingInv, Kept
  <2> QED
    BY <2>2, <2>3
<1>5. CASE result[p] = "retained"
  <2>1. name[p] # NoName
    BY <1>1, <1>5 DEF VerdictInv
  <2> QED
    BY <1>1, <1>2, <1>5, <2>1 DEF VerdictIsTrue, Kept
<1>6. result[p] # "success"
  BY <1>1 DEF VerdictIsTrue
<1> QED
  BY <1>1, <1>3, <1>4, <1>5, <1>6 DEF VerdictInv, TypeOK, Steps, Ending, Untouched

(* Third endpoint, at every moment a command may die: every old file is at  *)
(* its place or in the command's directory until the new set is complete.  *)
THEOREM NothingLost == Spec => []NothingIsLost
<1>1. TypeOK /\ CompileInv => NothingIsLost
  BY LostNothing
<1> QED
  BY <1>1, CompileSafety, PTL

(* Between commands, an object and an interface of different versions lie   *)
(* together only where a command died renaming or reported L1C-2036.        *)
THEOREM MixedPairsReported == Spec => []MixedPairsAreReported
<1>1. CompileInv => MixedPairsAreReported
  BY DEF CompileInv
<1> QED
  BY <1>1, CompileSafety, PTL

(* No command touches a transaction directory that another one left.        *)
THEOREM AbandonedUntouched == Spec => AbandonedIsUntouched
<1>1. TypeOK /\ [Next]_vars =>
        [\A n \in Names : txn[n] # NoDir /\ (\A p \in Commands : name[p] # n) => txn'[n] = txn[n]]_vars
  <2> SUFFICES ASSUME TypeOK, Next, NEW n \in Names, txn[n] # NoDir, \A p \in Commands : name[p] # n
               PROVE  txn'[n] = txn[n]
    OBVIOUS
  <2>1. PICK p \in Commands : Step(p) \/ Crash(p)
    BY DEF Next
  <2> QED
    BY <2>1, StepsAreLocal DEF OnlyOwn
<1> QED
  BY <1>1, CompileSafety, PTL DEF Spec, AbandonedIsUntouched
-----------------------------------------------------------------------------
(* While a command runs, its destinations hold old files, files it made, or *)
(* nothing, and its backups are old files of what it was asked to replace.  *)
FinalIsKnown(p) ==
    pc[p] # "idle" => \A a \in Artifacts :
        Now(p, a) = prior[p][a] \/ (a \in Selected(p) /\ Now(p, a) \in {made[p], Absent})

BackupsAreOld(p) ==
    name[p] # NoName => \A a \in Artifacts :
        Dir(p).backup[a] # Absent => Dir(p).backup[a] = prior[p][a] /\ a \in Selected(p)

FilesInv == \A p \in Commands : FinalIsKnown(p) /\ BackupsAreOld(p)

(* Steps before publication leave the destinations and the backups alone.   *)
LEMMA StagingKeepsFiles ==
  ASSUME TypeOK, CompileInv, FilesInv, NEW p \in Commands,
         Start(p) \/ Prepare(p) \/ Create(p) \/ WriteC(p) \/ WriteInterface(p)
           \/ Compile(p) \/ Validate(p) \/ Look(p)
  PROVE  FinalIsKnown(p)' /\ BackupsAreOld(p)'
<1>1. Exclusive /\ FinalIsKnown(p) /\ BackupsAreOld(p)
  BY DEF CompileInv, FilesInv
<1>2. CASE Start(p)
  <2>1. /\ name'[p] = NoName /\ stem'[p] \in Stems
        /\ prior'[p] = final[stem'[p]] /\ final' = final
    BY <1>1, <1>2 DEF Start, Exclusive, TypeOK
  <2> QED
    BY <2>1 DEF FinalIsKnown, BackupsAreOld, Now
<1>3. ASSUME pc[p] # "idle", UNCHANGED <<final, request>>
      PROVE  FinalIsKnown(p)'
  BY <1>1, <1>3 DEF FinalIsKnown, Now, Selected, request
<1>4. ASSUME UNCHANGED <<txn, name, request>>
      PROVE  BackupsAreOld(p)'
  BY <1>1, <1>4 DEF BackupsAreOld, Dir, Selected, request
<1>5. ASSUME name[p] # NoName, UNCHANGED <<name, request>>, Dir(p)'.backup = Dir(p).backup
      PROVE  BackupsAreOld(p)'
  BY <1>1, <1>5 DEF BackupsAreOld, Selected, request
<1>6. CASE Prepare(p) \/ Validate(p) \/ Look(p)
  BY <1>3, <1>4, <1>6 DEF Prepare, Validate, Look
<1>7. CASE Create(p)
  <2>1. FinalIsKnown(p)'
    BY <1>3, <1>7 DEF Create
  <2>2. name'[p] # NoName => Dir(p)' = Empty
    BY <1>1, <1>7 DEF Create, Exclusive, Dir, TypeOK
  <2> QED
    BY <2>1, <2>2 DEF BackupsAreOld, Empty, Nothing
<1>8. ASSUME name[p] # NoName, UNCHANGED <<final, request, name>>, pc[p] # "idle",
             NEW a \in Artifacts, NEW x \in Contents, Stage(p, a, x)
      PROVE  FinalIsKnown(p)' /\ BackupsAreOld(p)'
  BY <1>1, <1>3, <1>5, <1>8, StageEffect
<1>9. CASE WriteC(p) \/ WriteInterface(p)
  <2>1. /\ name[p] # NoName /\ pc[p] # "idle" /\ UNCHANGED <<final, request, name>>
    BY <1>1, <1>9 DEF WriteC, WriteInterface, WriteStaged, Exclusive, Staging
  <2>2. \E a \in Artifacts, x \in Contents : Stage(p, a, x)
    BY <1>9, Alphabet DEF WriteC, WriteInterface, WriteStaged, Artifacts
  <2> QED
    BY <1>8, <2>1, <2>2
<1>10. CASE Compile(p)
  <2>1. /\ name[p] # NoName /\ pc[p] # "idle" /\ UNCHANGED <<final, request, name>>
        /\ name[p] \in Names /\ Dir(p) \in Dirs
    BY <1>1, <1>10 DEF Compile, Exclusive, Staging, TypeOK
  <2>2. CASE \E x \in {Absent, Partial} : Stage(p, "o", x)
    BY <1>8, <2>1, <2>2, Alphabet DEF Artifacts
  <2>3. CASE txn' = txn
    BY <1>3, <1>4, <2>1, <2>3
  <2>4. CASE \E side \in BOOLEAN :
               txn' = [txn EXCEPT ![name[p]].staged["o"] = made[p], ![name[p]].side = side]
    <3>1. Dir(p)'.backup = Dir(p).backup
      BY <2>1, <2>4 DEF Dir, Dirs, TypeOK
    <3> QED
      BY <1>3, <1>5, <2>1, <3>1
  <2> QED
    BY <1>10, <2>2, <2>3, <2>4 DEF Compile
<1> QED
  BY <1>2, <1>6, <1>7, <1>9, <1>10

(* A rename moves an old file into the directory or back, or a new file to   *)
(* its destination.                                                        *)
LEMMA RenamingKeepsFiles ==
  ASSUME TypeOK, CompileInv, FilesInv, NEW p \in Commands,
         BackUp(p) \/ Publish(p) \/ Undo(p) \/ Restore(p)
  PROVE  FinalIsKnown(p)' /\ BackupsAreOld(p)'
<1>1. /\ pc[p] \in Renaming /\ UNCHANGED <<request, name>>
      /\ FinalIsKnown(p) /\ BackupsAreOld(p)
  BY DEF BackUp, Publish, Undo, Restore, Renaming, FilesInv
<1>2. /\ Exclusive /\ RenamingInv(p) /\ pc[p] # "idle"
      /\ name[p] # NoName /\ Dir(p) \in Dirs /\ Absent \in Contents
      /\ Selected(p) \subseteq Artifacts /\ todo[p] \subseteq Selected(p)
      /\ stem'[p] = stem[p] /\ name'[p] = name[p] /\ made'[p] = made[p] /\ prior'[p] = prior[p]
      /\ Selected(p)' = Selected(p)
      /\ \A a \in Artifacts : /\ Now(p, a) \in Contents
                              /\ Dir(p).staged[a] \in Contents /\ Dir(p).backup[a] \in Contents
  BY <1>1, RenamingFacts DEF request, Selected, Renaming
<1>3. ASSUME final' = final PROVE FinalIsKnown(p)'
  BY <1>1, <1>2, <1>3 DEF FinalIsKnown, Now
<1>4. ASSUME txn' = txn PROVE BackupsAreOld(p)'
  BY <1>1, <1>2, <1>4 DEF BackupsAreOld, Dir
<1>5. ASSUME NEW a \in todo[p], NEW x \in Contents, Place(p, a, x),
             x \in {prior[p][a], made[p], Absent}
      PROVE  FinalIsKnown(p)'
  <2>1. \A b \in Artifacts : Now(p, b)' = IF b = a THEN x ELSE Now(p, b)
    BY <1>2, <1>5, PlaceEffect
  <2> QED
    BY <1>1, <1>2, <1>5, <2>1 DEF FinalIsKnown
<1>6. ASSUME NEW a \in todo[p], NEW x \in Contents,
             txn' = [txn EXCEPT ![name[p]].backup[a] = x], x \in {prior[p][a], Absent}
      PROVE  BackupsAreOld(p)'
  <2> a \in Artifacts
    BY <1>2
  <2>1. Dir(p)'.backup = [Dir(p).backup EXCEPT ![a] = x]
    BY <1>2, <1>6, BackupEffect, ZenonT(40)
  <2>2. \A b \in Artifacts : Dir(p)'.backup[b] = IF b = a THEN x ELSE Dir(p).backup[b]
    BY <1>2, <2>1 DEF Dirs, FileSets
  <2> QED
    BY <1>1, <1>2, <1>6, <2>2 DEF BackupsAreOld
<1>7. ASSUME NEW a \in todo[p], Stage(p, a, Absent)
      PROVE  BackupsAreOld(p)'
  <2>1. Dir(p)'.backup = Dir(p).backup
    BY <1>2, <1>7, StageEffect
  <2> QED
    BY <1>1, <1>2, <2>1 DEF BackupsAreOld
<1>8. CASE BackUp(p)
  <2>1. CASE UNCHANGED <<final, txn>>
    BY <1>3, <1>4, <2>1
  <2>2. CASE \E a \in todo[p] : /\ txn' = [txn EXCEPT ![name[p]].backup[a] = Now(p, a)]
                                /\ Place(p, a, Absent)
    <3>1. PICK a \in todo[p] : /\ txn' = [txn EXCEPT ![name[p]].backup[a] = Now(p, a)]
                               /\ Place(p, a, Absent)
      BY <2>2
    <3>2. a \notin published[p] /\ a \notin backed[p] /\ Forward(p, a)
      BY <1>2, <1>8 DEF RenamingInv, BackUp, Renaming
    <3>3. Now(p, a) = prior[p][a] /\ Now(p, a) \in Contents
      BY <1>2, <3>2 DEF Forward
    <3> QED
      BY <1>2, <1>5, <1>6, <3>1, <3>3
  <2> QED
    BY <1>8, <2>1, <2>2 DEF BackUp
<1>9. CASE Publish(p)
  <2>1. CASE UNCHANGED <<final, txn>>
    BY <1>3, <1>4, <2>1
  <2>2. CASE \E a \in todo[p] : Place(p, a, Dir(p).staged[a]) /\ Stage(p, a, Absent)
    <3>1. PICK a \in todo[p] : Place(p, a, Dir(p).staged[a]) /\ Stage(p, a, Absent)
      BY <2>2
    <3>2. a \notin published[p] /\ Forward(p, a)
      BY <1>2, <1>9 DEF RenamingInv, Publish, Renaming
    <3>3. Dir(p).staged[a] = made[p] /\ Dir(p).staged[a] \in Contents
      BY <1>2, <3>2 DEF Forward
    <3> QED
      BY <1>5, <1>7, <3>1, <3>3
  <2> QED
    BY <1>9, <2>1, <2>2 DEF Publish
<1>10. CASE Undo(p)
  <2>1. BackupsAreOld(p)'
    BY <1>4, <1>10 DEF Undo
  <2>2. final' = final \/ \E a \in todo[p] : Place(p, a, Absent)
    BY <1>10 DEF Undo
  <2> QED
    BY <1>2, <1>3, <1>5, <2>1, <2>2
<1>11. CASE Restore(p)
  <2>1. CASE UNCHANGED <<final, txn>>
    BY <1>3, <1>4, <2>1
  <2>2. CASE \E a \in todo[p] : /\ CanMove(Dir(p).backup[a], Now(p, a))
                                /\ Place(p, a, Dir(p).backup[a])
                                /\ txn' = [txn EXCEPT ![name[p]].backup[a] = Absent]
    <3>1. PICK a \in todo[p] : /\ CanMove(Dir(p).backup[a], Now(p, a))
                               /\ Place(p, a, Dir(p).backup[a])
                               /\ txn' = [txn EXCEPT ![name[p]].backup[a] = Absent]
      BY <2>2
    <3>2. Dir(p).backup[a] = prior[p][a] /\ Dir(p).backup[a] \in Contents
      BY <1>1, <1>2, <3>1 DEF BackupsAreOld, CanMove, Regular
    <3> QED
      BY <1>2, <1>5, <1>6, <3>1, <3>2
  <2> QED
    BY <1>11, <2>1, <2>2 DEF Restore
<1> QED
  BY <1>8, <1>9, <1>10, <1>11

(* The end of a command clears what it claimed.                            *)
LEMMA EndKeepsFiles ==
  ASSUME TypeOK, CompileInv, FilesInv, NEW p \in Commands,
         CleanUp(p) \/ Return(p) \/ Crash(p)
  PROVE  FinalIsKnown(p)' /\ BackupsAreOld(p)'
<1>1. CASE CleanUp(p)
  <2>1. /\ name'[p] = NoName /\ pc[p] # "idle" /\ UNCHANGED <<final, request>> /\ FinalIsKnown(p)
    BY <1>1 DEF CleanUp, TypeOK, FilesInv
  <2> QED
    BY <2>1 DEF FinalIsKnown, BackupsAreOld, Now, Selected, request
<1>2. CASE Return(p) \/ Crash(p)
  <2>1. pc'[p] = "idle" /\ name'[p] = NoName
    BY <1>2 DEF Return, Crash, Gone, Goto, TypeOK
  <2> QED
    BY <2>1 DEF FinalIsKnown, BackupsAreOld
<1> QED
  BY <1>1, <1>2

(* What belongs to the other commands stays as it is.                       *)
LEMMA OthersKeepFiles ==
  ASSUME TypeOK, CompileInv, FilesInv, NEW p \in Commands, OnlyOwn(p),
         NEW q \in Commands, q # p
  PROVE  FinalIsKnown(q)' /\ BackupsAreOld(q)'
<1>1. /\ pc'[q] = pc[q] /\ stem'[q] = stem[q] /\ made'[q] = made[q] /\ prior'[q] = prior[q]
      /\ name'[q] = name[q] /\ Selected(q)' = Selected(q)
  BY DEF OnlyOwn, Selected
<1>2. pc[q] # "idle" => final'[stem[q]] = final[stem[q]]
  BY DEF OnlyOwn, CompileInv, Exclusive, TypeOK
<1>3. name[q] # NoName => txn'[name[q]] = txn[name[q]]
  BY CompileAssumption DEF OnlyOwn, CompileInv, Exclusive, TypeOK, Dir
<1>4. FinalIsKnown(q) /\ BackupsAreOld(q)
  BY DEF FilesInv
<1>5. FinalIsKnown(q)'
  BY <1>1, <1>2, <1>4 DEF FinalIsKnown, Now
<1>6. BackupsAreOld(q)'
  BY <1>1, <1>3, <1>4 DEF BackupsAreOld, Dir
<1> QED
  BY <1>5, <1>6

(* The files are known at every moment.                                    *)
LEMMA FilesAreKnown == Spec => [](TypeOK /\ CompileInv /\ FilesInv)
<1>1. Init => FilesInv
  <2> SUFFICES ASSUME Init, NEW p \in Commands PROVE FinalIsKnown(p) /\ BackupsAreOld(p)
    BY DEF FilesInv
  <2>1. pc[p] = "idle" /\ name[p] = NoName
    BY DEF Init
  <2> QED
    BY <2>1 DEF FinalIsKnown, BackupsAreOld
<1>2. TypeOK /\ CompileInv /\ FilesInv /\ [Next]_vars => FilesInv'
  <2>1. ASSUME TypeOK, CompileInv, FilesInv, NEW p \in Commands, Step(p) \/ Crash(p)
        PROVE  FilesInv'
    <3>1. OnlyOwn(p)
      BY <2>1, StepsAreLocal
    <3>2. FinalIsKnown(p)' /\ BackupsAreOld(p)'
      BY <2>1, StagingKeepsFiles, RenamingKeepsFiles, EndKeepsFiles DEF Step
    <3> QED
      BY <2>1, <3>1, <3>2, OthersKeepFiles DEF FilesInv
  <2>2. ASSUME FilesInv, UNCHANGED vars
        PROVE  FilesInv'
    BY <2>2 DEF vars, request, FilesInv, FinalIsKnown, BackupsAreOld, Now, Dir, Selected
  <2> QED
    BY <2>1, <2>2 DEF Next
<1> QED
  BY <1>1, <1>2, CompileSafety, PTL DEF Spec

(* At every moment a destination holds its old file, the complete new one   *)
(* or none: nothing half written becomes visible, whatever fails or dies.   *)
THEOREM WholeDestinations == Spec => []DestinationsAreWhole
<1>1. FilesInv => DestinationsAreWhole
  BY DEF FilesInv, FinalIsKnown, DestinationsAreWhole
<1> QED
  BY <1>1, FilesAreKnown, PTL

-----------------------------------------------------------------------------
(* What CompileService sees of a destination set: what it holds, or what it  *)
(* held when the command that runs on it started.                          *)
SetFact ==
  (TypeOK /\ Exclusive) =>
     \A s \in Stems :
        /\ (\A q \in Commands : pc[q] # "idle" => stem[q] # s) => SetSeen[s] = final[s]
        /\ \A q \in Commands : pc[q] # "idle" /\ stem[q] = s => SetSeen[s] = prior[q]

\* What a caller sees of a set is determined by who runs there (SetFact).
LEMMA SetValue == SetFact
<1> SUFFICES ASSUME TypeOK, Exclusive, NEW s \in Stems
    PROVE  /\ (\A q \in Commands : pc[q] # "idle" => stem[q] # s) => SetSeen[s] = final[s]
           /\ \A q \in Commands : pc[q] # "idle" /\ stem[q] = s => SetSeen[s] = prior[q]
  BY DEF SetFact
<1>1. ASSUME \A q \in Commands : pc[q] # "idle" => stem[q] # s
      PROVE  SetSeen[s] = final[s]
  <2>1. Running(s) = {}
    BY <1>1 DEF Running
  <2> QED
    BY <2>1 DEF SetSeen
<1>2. ASSUME NEW q \in Commands, pc[q] # "idle", stem[q] = s
      PROVE  SetSeen[s] = prior[q]
  <2>1. Running(s) = {q}
    BY <1>2 DEF Running, Exclusive
  <2>2. (CHOOSE p \in Running(s) : TRUE) = q /\ Running(s) # {}
    BY <2>1
  <2> QED
    BY <2>2 DEF SetSeen
<1> QED
  BY <1>1, <1>2

(* What it sees of the abandoned transaction directories.                   *)
RecoveryFact ==
  \A x : x \in RecoverySeen <=>
     \E n \in Names, a \in Artifacts :
        /\ txn[n] # NoDir /\ \A q \in Commands : name[q] # n
        /\ txn[n].backup[a] # Absent /\ x = <<a, txn[n].backup[a]>>

\* The recoverable files are the backups in directories nobody uses (RecoveryFact).
LEMMA RecoveryValue == RecoveryFact
BY DEF RecoveryFact, RecoverySeen, BackedUp, Abandoned

(* A step touches only the directory its command has or takes; a command     *)
(* takes a free name, and gives its directory up only at its end.           *)
LEMMA DirectoriesMove ==
  ASSUME TypeOK, CompileInv, NEW p \in Commands, Step(p) \/ Crash(p)
  PROVE  /\ \A n \in Names : n # name[p] /\ n # name'[p] => txn'[n] = txn[n]
         /\ \/ name'[p] = name[p]
            \/ name[p] = NoName /\ name'[p] \in Names /\ txn[name'[p]] = NoDir
            \/ /\ name'[p] = NoName /\ pc[p] # "idle"
               /\ txn'[name[p]] # NoDir => \A a \in Artifacts :
                    txn'[name[p]].backup[a] \in {Absent, Dir(p).backup[a]}
<1>1. Exclusive
  BY DEF CompileInv
<1>2. CASE Start(p) \/ Prepare(p) \/ Validate(p) \/ Look(p) \/ Undo(p)
  BY <1>2 DEF Start, Prepare, Validate, Look, Undo
<1>3. CASE Create(p)
  BY <1>1, <1>3 DEF Create, Exclusive, TypeOK
<1>4. CASE WriteC(p) \/ WriteInterface(p) \/ Compile(p) \/ BackUp(p) \/ Publish(p) \/ Restore(p)
  <2> USE DEF TypeOK
  <2>1. CASE WriteC(p) \/ WriteInterface(p)
    BY <2>1 DEF WriteC, WriteInterface, WriteStaged, Stage
  <2>2. CASE Compile(p)
    BY <2>2 DEF Compile, Stage
  <2>3. CASE BackUp(p)
    BY <2>3 DEF BackUp
  <2>4. CASE Publish(p)
    BY <2>4 DEF Publish, Stage
  <2>5. CASE Restore(p)
    BY <2>5 DEF Restore
  <2> QED
    BY <1>4, <2>1, <2>2, <2>3, <2>4, <2>5
<1>5. CASE CleanUp(p)
  <2>1. name[p] \in Names /\ name'[p] = NoName /\ pc[p] # "idle"
    BY <1>1, <1>5 DEF CleanUp, TypeOK, Exclusive
  <2>2. PICK S \in SUBSET Artifacts, B \in SUBSET Artifacts :
          txn' = [txn EXCEPT ![name[p]] = IF Left(p, S, B) = Empty THEN NoDir ELSE Left(p, S, B)]
    BY <1>5 DEF CleanUp
  <2>3. \A a \in Artifacts : Left(p, S, B).backup[a] \in {Absent, Dir(p).backup[a]}
    BY DEF Left
  <2>4. txn'[name[p]] \in {NoDir, Left(p, S, B)}
    BY <2>1, <2>2 DEF TypeOK
  <2>5. \A n \in Names : n # name[p] => txn'[n] = txn[n]
    BY <2>2 DEF TypeOK
  <2> QED
    BY <2>1, <2>3, <2>4, <2>5
<1>6. CASE Return(p) \/ Crash(p)
  BY <1>6 DEF Return, Crash, Gone, TypeOK, Dir
<1> QED
  BY <1>2, <1>3, <1>4, <1>5, <1>6 DEF Step

(* So what can be recovered only grows, by backups of the command's own set.  *)
LEMMA RecoveryGrows ==
  ASSUME TypeOK, CompileInv, FilesInv, NEW p \in Commands, Step(p) \/ Crash(p)
  PROVE  /\ RecoverySeen \subseteq RecoverySeen'
         /\ \A x \in RecoverySeen' : x \in RecoverySeen
              \/ (pc[p] # "idle" /\ \E a \in Selected(p) : x = <<a, prior[p][a]>>)
<1>1. OnlyOwn(p) /\ Exclusive /\ BackupsAreOld(p) /\ RecoveryFact
  BY StepsAreLocal, RecoveryValue DEF CompileInv, FilesInv
<1>2. RecoveryFact'
  BY RecoveryValue, PTL
<1>3. \A q \in Commands : q # p => name'[q] = name[q]
  BY <1>1 DEF OnlyOwn
<1>4. RecoverySeen \subseteq RecoverySeen'
  <2> SUFFICES ASSUME NEW x, x \in RecoverySeen PROVE x \in RecoverySeen'
    OBVIOUS
  <2>1. PICK n \in Names, a \in Artifacts :
          /\ txn[n] # NoDir /\ \A q \in Commands : name[q] # n
          /\ txn[n].backup[a] # Absent /\ x = <<a, txn[n].backup[a]>>
    BY <1>1 DEF RecoveryFact
  <2>2. txn'[n] = txn[n]
    BY <1>1, <2>1 DEF OnlyOwn
  <2>3. name'[p] # n
    BY <2>1, DirectoriesMove, CompileAssumption
  <2> QED
    BY <1>2, <1>3, <2>1, <2>2, <2>3 DEF RecoveryFact
<1>5. ASSUME NEW x \in RecoverySeen', x \notin RecoverySeen
      PROVE  pc[p] # "idle" /\ (\E a \in Selected(p) : x = <<a, prior[p][a]>>)
  <2>1. PICK n \in Names, a \in Artifacts :
          /\ txn'[n] # NoDir /\ \A q \in Commands : name'[q] # n
          /\ txn'[n].backup[a] # Absent /\ x = <<a, txn'[n].backup[a]>>
    BY <1>2, <1>5 DEF RecoveryFact
  <2>2. n = name[p]
    <3> SUFFICES ASSUME n # name[p] PROVE FALSE
      OBVIOUS
    <3>1. txn'[n] = txn[n]
      BY <2>1, DirectoriesMove
    <3>2. \A q \in Commands : name[q] # n
      BY <1>3, <2>1
    <3> QED
      BY <1>1, <1>5, <2>1, <3>1, <3>2 DEF RecoveryFact
  <2>3. name[p] # NoName /\ name'[p] # name[p]
    BY <2>1, <2>2, CompileAssumption
  <2>4. pc[p] # "idle" /\ txn'[n].backup[a] = Dir(p).backup[a]
    BY <2>1, <2>2, <2>3, DirectoriesMove
  <2> QED
    BY <1>1, <2>1, <2>3, <2>4 DEF BackupsAreOld
<1> QED
  BY <1>4, <1>5

(* A command that runs has a job, and leaves only old files of that job.      *)
LEMMA StillRuns ==
  ASSUME NEW p \in Commands, pc[p] # "idle"
  PROVE  JobSeen[p] # NoJob
<1>1. JobSeen[p] = [stem |-> stem[p], made |-> made[p], selected |-> Selected(p)]
  BY DEF JobSeen
<1>2. "stem" \in DOMAIN JobSeen[p] /\ "stem" \notin DOMAIN NoJob
  BY <1>1 DEF NoJob
<1> QED
  BY <1>2

\* A step of a command that goes on is a Spill of the service, or invisible to it.
LEMMA Spills ==
  ASSUME TypeOK, CompileInv, FilesInv, NEW p \in Commands, Step(p) \/ Crash(p), pc[p] # "idle"
  PROVE  Service!Leave(p)
<1>1. SetSeen[stem[p]] = prior[p]
  <2>1. SetFact /\ Exclusive /\ stem[p] \in Stems
    BY SetValue DEF CompileInv, TypeOK
  <2> QED
    BY <2>1 DEF SetFact
<1>2. JobSeen[p].stem = stem[p] /\ JobSeen[p].selected = Selected(p)
  BY DEF JobSeen
<1> DEFINE more == {x \in RecoverySeen' : x \notin RecoverySeen}
<1>3. more \in SUBSET {<<a, SetSeen[JobSeen[p].stem][a]>> : a \in JobSeen[p].selected}
  BY <1>1, <1>2, RecoveryGrows
<1>4. RecoverySeen' = RecoverySeen \cup more
  BY RecoveryGrows
<1> HIDE DEF more
<1> QED
  BY <1>3, <1>4 DEF Service!Leave

(* Which steps are the end of a command: the others keep its request.        *)
LEMMA InnerOrLast ==
  ASSUME TypeOK, CompileInv, NEW p \in Commands, Step(p) \/ Crash(p)
  PROVE  \/ Start(p)
         \/ pc[p] # "idle" /\ pc'[p] # "idle" /\ UNCHANGED request
         \/ /\ pc[p] # "idle" /\ pc'[p] = "idle" /\ name'[p] = NoName
            /\ UNCHANGED <<final, txn>>
<1> USE DEF Goto, Finish, Discard, TypeOK
<1>1. CASE Prepare(p) \/ Create(p) \/ Compile(p) \/ Validate(p)
  BY <1>1 DEF Prepare, Create, Compile, Validate
<1>2. CASE WriteC(p) \/ WriteInterface(p)
  BY <1>2 DEF WriteC, WriteInterface, WriteStaged
<1>3. CASE Look(p) \/ CleanUp(p) \/ Undo(p)
  BY <1>3 DEF Look, CleanUp, Undo
<1>4. CASE BackUp(p) \/ Publish(p)
  BY <1>4 DEF BackUp, Publish, RollBack
<1>5. CASE Restore(p)
  BY <1>5 DEF Restore
<1>6. CASE Return(p) \/ Crash(p)
  BY <1>6 DEF Return, Crash, Gone
<1> QED
  BY <1>1, <1>2, <1>3, <1>4, <1>5, <1>6 DEF Step

(* A new command is a new job on a set that nobody else is asked for.        *)
LEMMA StartsAJob ==
  ASSUME TypeOK, TypeOK', CompileInv, CompileInv', FilesInv, NEW p \in Commands, Start(p)
  PROVE  Service!Start(p)
<1>1. PICK s \in Stems, k \in KeepC, v \in Versions :
        /\ \A q \in Commands \ {p} : pc[q] # "idle" => stem[q] # s
        /\ stem' = [stem EXCEPT ![p] = s] /\ keep' = [keep EXCEPT ![p] = k]
        /\ made' = [made EXCEPT ![p] = v] /\ prior' = [prior EXCEPT ![p] = final[s]]
  BY DEF Start
<1>2. /\ pc[p] = "idle" /\ pc' = [pc EXCEPT ![p] = "prepare"]
      /\ final' = final /\ txn' = txn /\ name' = name
  BY DEF Start, Goto
<1>3. SetFact /\ SetFact' /\ Exclusive /\ Exclusive'
  <2>1. SetFact'
    BY SetValue, PTL
  <2> QED
    BY <2>1, SetValue DEF CompileInv
<1>4. SetSeen' = SetSeen
  <2>1. ASSUME NEW t \in Stems PROVE SetSeen'[t] = SetSeen[t]
    <3>1. CASE t = s
      <4>1. SetSeen[t] = final[t]
        BY <1>1, <1>2, <1>3, <3>1 DEF SetFact
      <4>2. pc'[p] # "idle" /\ stem'[p] = t /\ prior'[p] = final[t]
        BY <1>1, <1>2, <3>1 DEF TypeOK
      <4>3. SetSeen'[t] = prior'[p]
        BY <1>3, <4>2 DEF SetFact
      <4> QED
        BY <4>1, <4>2, <4>3
    <3>2. CASE t # s /\ \A q \in Commands : pc[q] # "idle" => stem[q] # t
      <4>1. \A q \in Commands : pc'[q] # "idle" => stem'[q] # t
        BY <1>1, <1>2, <3>2 DEF TypeOK
      <4> QED
        BY <1>2, <1>3, <3>2, <4>1 DEF SetFact
    <3>3. CASE t # s /\ \E q \in Commands : pc[q] # "idle" /\ stem[q] = t
      <4>1. PICK q \in Commands : pc[q] # "idle" /\ stem[q] = t
        BY <3>3
      <4>2. q # p /\ pc'[q] # "idle" /\ stem'[q] = t /\ prior'[q] = prior[q]
        BY <1>1, <1>2, <4>1 DEF TypeOK
      <4> QED
        BY <1>3, <4>1, <4>2 DEF SetFact
    <3> QED
      BY <3>1, <3>2, <3>3
  <2>2. SetSeen = [t \in Stems |-> SetSeen[t]] /\ SetSeen' = [t \in Stems |-> SetSeen'[t]]
    BY DEF SetSeen
  <2> QED
    BY <2>1, <2>2
<1>5. RecoverySeen' = RecoverySeen
  <2>1. RecoveryFact /\ RecoveryFact'
    BY RecoveryValue, PTL
  <2> QED
    BY <1>2, <2>1, ZenonT(40) DEF RecoveryFact
<1>6. DEFINE j == [stem |-> s, made |-> v, selected |-> Selected(p)']
<1>7. j \in Service!Jobs
  BY DEF Service!Jobs, Selected, Artifacts
<1>8. JobSeen[p] = NoJob /\ JobSeen' = [JobSeen EXCEPT ![p] = j]
  <2>1. ASSUME NEW q \in Commands, q # p PROVE JobSeen'[q] = JobSeen[q]
    BY <1>1, <1>2, <2>1 DEF JobSeen, Selected, TypeOK
  <2>2. JobSeen'[p] = j
    BY <1>1, <1>2 DEF JobSeen, TypeOK
  <2>3. JobSeen = [q \in Commands |-> JobSeen[q]] /\ JobSeen' = [q \in Commands |-> JobSeen'[q]]
    BY DEF JobSeen
  <2>4. JobSeen[p] = NoJob
    BY <1>2 DEF JobSeen
  <2> HIDE DEF j
  <2> QED
    BY <2>1, <2>2, <2>3, <2>4
<1>9. \A q \in Commands : JobSeen[q] # NoJob => JobSeen[q].stem # j.stem
  BY <1>1, <1>2 DEF JobSeen
<1> HIDE DEF j
<1> QED
  BY <1>4, <1>5, <1>7, <1>8, <1>9 DEF Service!Start, NoJob

(* A step in between shows at most more files to recover.                    *)
LEMMA InnerStepSpills ==
  ASSUME TypeOK, TypeOK', CompileInv, CompileInv', FilesInv, NEW p \in Commands,
         Step(p) \/ Crash(p), pc[p] # "idle", pc'[p] # "idle", UNCHANGED request
  PROVE  Service!Spill(p)
<1>1. OnlyOwn(p) /\ Exclusive /\ Exclusive' /\ stem[p] \in Stems
  BY StepsAreLocal DEF CompileInv, TypeOK
<1>2. /\ \A q \in Commands : q # p => pc'[q] = pc[q]
      /\ stem' = stem /\ keep' = keep /\ made' = made /\ prior' = prior
      /\ \A s \in Stems : s # stem[p] => final'[s] = final[s]
  BY <1>1 DEF OnlyOwn, request
<1>3. SetFact /\ SetFact'
  BY SetValue, PTL
<1>4. \A q \in Commands : pc'[q] # "idle" <=> pc[q] # "idle"
  BY <1>2
<1>5. SetSeen' = SetSeen
  <2>1. ASSUME NEW t \in Stems PROVE SetSeen'[t] = SetSeen[t]
    <3>1. CASE \A q \in Commands : pc[q] # "idle" => stem[q] # t
      <4>1. t # stem[p]
        BY <3>1
      <4> QED
        BY <1>1, <1>2, <1>3, <1>4, <3>1, <4>1 DEF SetFact
    <3>2. CASE \E q \in Commands : pc[q] # "idle" /\ stem[q] = t
      <4>1. PICK q \in Commands : pc[q] # "idle" /\ stem[q] = t
        BY <3>2
      <4>2. pc'[q] # "idle" /\ stem'[q] = t /\ prior'[q] = prior[q]
        BY <1>2, <1>4, <4>1
      <4> QED
        BY <1>1, <1>3, <4>1, <4>2 DEF SetFact
    <3> QED
      BY <3>1, <3>2
  <2>2. SetSeen = [t \in Stems |-> SetSeen[t]] /\ SetSeen' = [t \in Stems |-> SetSeen'[t]]
    BY DEF SetSeen
  <2> QED
    BY <2>1, <2>2
<1>6. JobSeen' = JobSeen
  BY <1>2, <1>4 DEF JobSeen, Selected
<1>7. JobSeen[p] # NoJob /\ Service!Leave(p)
  BY StillRuns, Spills
<1> QED
  BY <1>5, <1>6, <1>7 DEF Service!Spill, NoJob

(* The last step shows the destination set as the command leaves it.         *)
LEMMA LastStepEnds ==
  ASSUME TypeOK, TypeOK', CompileInv, CompileInv', FilesInv, NEW p \in Commands,
         Step(p) \/ Crash(p), pc[p] # "idle", pc'[p] = "idle", name'[p] = NoName,
         UNCHANGED <<final, txn>>
  PROVE  Service!Interrupt(p)
<1>1. /\ OnlyOwn(p) /\ Exclusive /\ Exclusive' /\ stem[p] \in Stems
      /\ FinalIsKnown(p) /\ BackupsAreOld(p) /\ Selected(p) \subseteq Artifacts
  BY StepsAreLocal, Alphabet DEF CompileInv, TypeOK, FilesInv
<1>2. \A q \in Commands : q # p =>
        /\ pc'[q] = pc[q] /\ stem'[q] = stem[q] /\ keep'[q] = keep[q] /\ made'[q] = made[q]
        /\ prior'[q] = prior[q] /\ name'[q] = name[q]
  BY <1>1 DEF OnlyOwn
<1>3. SetFact /\ SetFact'
  BY SetValue, PTL
<1>4. JobSeen[p] # NoJob /\ Service!Leave(p)
  BY StillRuns, Spills
<1>5. JobSeen' = [JobSeen EXCEPT ![p] = NoJob]
  <2>1. ASSUME NEW q \in Commands, q # p PROVE JobSeen'[q] = JobSeen[q]
    BY <1>2, <2>1 DEF JobSeen, Selected
  <2>2. JobSeen'[p] = NoJob
    BY DEF JobSeen
  <2>3. JobSeen = [q \in Commands |-> JobSeen[q]] /\ JobSeen' = [q \in Commands |-> JobSeen'[q]]
    BY DEF JobSeen
  <2> QED
    BY <2>1, <2>2, <2>3
<1>6. SetSeen[stem[p]] = prior[p]
  BY <1>1, <1>3 DEF SetFact
<1>7. SetSeen' = [SetSeen EXCEPT ![stem[p]] = final[stem[p]]]
  <2>1. \A q \in Commands : pc'[q] # "idle" => stem'[q] # stem[p]
    BY <1>1, <1>2 DEF Exclusive
  <2>2. SetSeen'[stem[p]] = final[stem[p]]
    BY <1>1, <1>3, <2>1 DEF SetFact
  <2>3. ASSUME NEW t \in Stems, t # stem[p] PROVE SetSeen'[t] = SetSeen[t]
    <3>1. CASE \A q \in Commands : pc[q] # "idle" => stem[q] # t
      <4>1. \A q \in Commands : pc'[q] # "idle" => stem'[q] # t
        BY <1>2, <3>1
      <4> QED
        BY <1>1, <1>3, <3>1, <4>1 DEF SetFact
    <3>2. CASE \E q \in Commands : pc[q] # "idle" /\ stem[q] = t
      <4>1. PICK q \in Commands : pc[q] # "idle" /\ stem[q] = t
        BY <3>2
      <4>2. q # p
        BY <2>3, <4>1
      <4> QED
        BY <1>1, <1>2, <1>3, <4>1, <4>2 DEF SetFact
    <3> QED
      BY <3>1, <3>2
  <2>4. SetSeen = [t \in Stems |-> SetSeen[t]] /\ SetSeen' = [t \in Stems |-> SetSeen'[t]]
    BY DEF SetSeen
  <2> QED
    BY <1>1, <2>2, <2>3, <2>4
<1>8. /\ JobSeen[p].stem = stem[p] /\ JobSeen[p].made = made[p]
      /\ JobSeen[p].selected = Selected(p)
  BY DEF JobSeen
<1>9. /\ final[stem[p]] = [a \in Artifacts |-> Now(p, a)]
      /\ \A a \in Artifacts \ Selected(p) : Now(p, a) = prior[p][a]
  BY <1>1 DEF TypeOK, FileSets, Now, FinalIsKnown
<1>10. ASSUME NEW a \in Artifacts, Dir(p).backup[a] = prior[p][a], name[p] # NoName,
              prior[p][a] # Absent
       PROVE  <<a, prior[p][a]>> \in RecoverySeen'
  <2>1. RecoveryFact'
    BY RecoveryValue, PTL
  <2>2. name[p] \in Names /\ Dir(p) # NoDir /\ \A q \in Commands : name'[q] # name[p]
    BY <1>1, <1>2, <1>10, CompileAssumption DEF Exclusive, TypeOK
  <2>3. txn'[name[p]] = Dir(p)
    BY DEF Dir
  <2> QED
    BY <1>10, <2>1, <2>2, <2>3 DEF RecoveryFact
<1> DEFINE was(a) == prior[p][a]
           now(a, f) == IF a \notin Selected(p) \/ f[a] = "old" THEN was(a)
                        ELSE IF f[a] = "new" THEN made[p] ELSE Absent
<1>11. ASSUME NEW f \in [Selected(p) -> {"old", "new", "missing"}],
              \A a \in Artifacts : now(a, f) = Now(p, a),
              \/ \A a \in Selected(p) : f[a] = "new"
              \/ \A a \in Selected(p) : Now(p, a) # was(a) /\ was(a) # Absent
                                           => <<a, was(a)>> \in RecoverySeen'
       PROVE  Service!Interrupt(p)
  <2>1. SetSeen' = [SetSeen EXCEPT ![JobSeen[p].stem] = [a \in Artifacts |->
           IF a \notin JobSeen[p].selected \/ f[a] = "old" THEN SetSeen[JobSeen[p].stem][a]
           ELSE IF f[a] = "new" THEN JobSeen[p].made ELSE Absent]]
    <3>1. [a \in Artifacts |-> now(a, f)] = final[stem[p]]
      BY <1>9, <1>11
    <3>2. [a \in Artifacts |->
             IF a \notin JobSeen[p].selected \/ f[a] = "old" THEN SetSeen[JobSeen[p].stem][a]
             ELSE IF f[a] = "new" THEN JobSeen[p].made ELSE Absent]
           = [a \in Artifacts |-> now(a, f)]
      BY <1>6, <1>8
    <3> QED
      BY <1>7, <1>8, <3>1, <3>2
  <2>2. \/ \A a \in JobSeen[p].selected : f[a] = "new"
        \/ \A a \in JobSeen[p].selected :
             (IF a \notin JobSeen[p].selected \/ f[a] = "old" THEN SetSeen[JobSeen[p].stem][a]
              ELSE IF f[a] = "new" THEN JobSeen[p].made ELSE Absent) # SetSeen[JobSeen[p].stem][a]
             /\ SetSeen[JobSeen[p].stem][a] # Absent
               => <<a, SetSeen[JobSeen[p].stem][a]>> \in RecoverySeen'
    <3>1. ASSUME NEW a \in Selected(p)
          PROVE  /\ SetSeen[JobSeen[p].stem][a] = was(a)
                 /\ (IF a \notin JobSeen[p].selected \/ f[a] = "old"
                     THEN SetSeen[JobSeen[p].stem][a]
                     ELSE IF f[a] = "new" THEN JobSeen[p].made ELSE Absent) = Now(p, a)
      BY <1>1, <1>6, <1>8, <1>11
    <3> QED
      BY <1>8, <1>11, <3>1
  <2>3. Service!End(p) /\ f \in [JobSeen[p].selected -> {"old", "new", "missing"}]
    BY <1>4, <1>5, <1>8 DEF Service!End, NoJob
  <2> QED
    BY <2>1, <2>2, <2>3 DEF Service!Interrupt
<1>12. CASE \A a \in Artifacts : Now(p, a) = Replaced(p, a)
  <2> DEFINE f == [a \in Selected(p) |-> "new"]
  <2>1. \A a \in Artifacts : now(a, f) = Now(p, a)
    BY <1>9, <1>12 DEF Replaced
  <2> QED
    BY <1>11, <2>1
<1>13. CASE \A a \in Artifacts : prior[p][a] # Absent => Kept(p, a)
  <2> DEFINE f == [a \in Selected(p) |-> IF Now(p, a) = was(a) THEN "old"
                                         ELSE IF Now(p, a) = made[p] THEN "new" ELSE "missing"]
  <2>1. \A a \in Artifacts : now(a, f) = Now(p, a)
    BY <1>1, <1>9 DEF FinalIsKnown
  <2>2. ASSUME NEW a \in Selected(p), Now(p, a) # was(a), was(a) # Absent
        PROVE  <<a, was(a)>> \in RecoverySeen'
    BY <1>1, <1>10, <1>13, <2>2 DEF Kept
  <2>3. f \in [Selected(p) -> {"old", "new", "missing"}]
    OBVIOUS
  <2> HIDE DEF f
  <2> QED
    BY <1>11, <2>1, <2>2, <2>3
<1> QED
  BY <1>12, <1>13, LostNothing DEF NothingIsLost

(* So every step of publication is a step of the service or none at all.      *)
LEMMA StepIsServed ==
  ASSUME TypeOK, TypeOK', CompileInv, CompileInv', FilesInv, [Next]_vars
  PROVE  [Service!Next]_(Service!cvars)
<1>1. ASSUME NEW p \in Commands, Step(p) \/ Crash(p)
      PROVE  Service!Next
  BY <1>1, InnerOrLast, StartsAJob, InnerStepSpills, LastStepEnds DEF Service!Next
<1>2. CASE UNCHANGED vars
  <2>1. SetSeen' = SetSeen
    BY <1>2 DEF vars, request, SetSeen, Running
  <2>2. JobSeen' = JobSeen
    BY <1>2 DEF vars, request, JobSeen, Selected
  <2>3. RecoverySeen' = RecoverySeen
    BY <1>2 DEF vars, RecoverySeen, BackedUp, Abandoned
  <2> QED
    BY <2>1, <2>2, <2>3 DEF Service!cvars
<1> QED
  BY <1>1, <1>2 DEF Next

(* Whatever fails and whenever a command dies, its callers see a whole       *)
(* replacement, no change, or an interruption that left what is missing in a *)
(* directory nobody touches.                                               *)
THEOREM ServiceIsImplemented == Spec => ImplementsCompileService
<1>1. Init => Service!Init
  <2> SUFFICES ASSUME Init PROVE Service!Init
    OBVIOUS
  <2>1. JobSeen = [p \in Commands |-> NoJob]
    BY DEF JobSeen, Init
  <2>2. RecoverySeen = {}
    BY DEF RecoverySeen, Abandoned, Init
  <2> QED
    BY <2>1, <2>2 DEF Service!Init, NoJob
<1>2. TypeOK /\ CompileInv /\ FilesInv /\ (TypeOK /\ CompileInv /\ FilesInv)' /\ [Next]_vars
        => [Service!Next]_(Service!cvars)
  BY StepIsServed
<1> QED
  BY <1>1, <1>2, FilesAreKnown, PTL DEF Spec, ImplementsCompileService, Service!Spec
=============================================================================
