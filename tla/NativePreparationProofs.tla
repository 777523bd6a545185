---------------------- MODULE NativePreparationProofs ----------------------
(* Theorems about managed native preparation, for any number of commands,   *)
(* input files, contents and edits.                                        *)
EXTENDS NativePreparationRefinement, TLAPS

-----------------------------------------------------------------------------
(* Typing.                                                                 *)

(* The default option is an option.                                        *)
LEMMA AnyOptionType == AnyOption \in Options
BY ConstantsAssumption DEF AnyOption

(* A resolved key is a key, and a command works at a place.                *)
LEMMA KeyType ==
    ASSUME TypeOK, NEW p \in Commands
    PROVE  Key(p) \in Keys /\ Place(p) \in Places
BY DEF TypeOK, Key, Place, Keys, Places, Stamped

(* The constants' parts that typing needs.                                 *)
LEMMA ConstantTypes ==
    /\ Keys \subseteq Digests
    /\ Blank \in Digests
    /\ \A f \in Files : Initial(f) \in Stamped
BY ConstantsAssumption DEF Keys, Digests, Contents, Blank, Initial, Stamped

(* The initial state is typed.                                             *)
LEMMA InitTypeOK == Init => TypeOK
BY ConstantTypes, AnyOptionType
DEF Init, TypeOK, Steps, Lookup, Building, Owning, Errors, Places

(* Every step of a command keeps the types.                                *)
LEMMA StartType ==
    ASSUME TypeOK, NEW p \in Commands, Start(p) PROVE TypeOK'
BY DEF TypeOK, Start, Goto, store, Steps, Lookup, Building, Owning

(* ... the steps of pc_input_digest and l1c_prep_resolve,                  *)
LEMMA ResolveType ==
    ASSUME TypeOK, NEW p \in Commands, RefuseRoot(p) \/ ResolveFile(p) \/ Resolved(p)
    PROVE  TypeOK'
<1>1. CASE RefuseRoot(p)
  BY <1>1 DEF TypeOK, RefuseRoot, Refuse, Report, Goto, store, Steps, Lookup, Building, Owning, Errors
<1>2. CASE ResolveFile(p)
  BY <1>2 DEF TypeOK, ResolveFile, store
<1>3. CASE Resolved(p)
  BY <1>3 DEF TypeOK, Resolved, Goto, store, local, Steps, Lookup, Building, Owning
<1> QED BY <1>1, <1>2, <1>3

(* ... pr_prepare's treatment of a lookup's result,                        *)
LEMMA LookupType ==
    ASSUME TypeOK, NEW p \in Commands, NEW r \in {"miss", "hit", "unusable"},
           LookupResult(p, r)
    PROVE  /\ lock' \in [Keys -> Commands \cup {NoOne}]
           /\ pc' \in [Commands -> Steps]
           /\ found' \in [Commands -> {"miss", "hit", "unusable"}]
           /\ err' \in [Commands -> Errors]
<1>1. lock' \in [Keys -> Commands \cup {NoOne}]
  BY DEF TypeOK, LookupResult, Unlocked
<1>2. found' \in [Commands -> {"miss", "hit", "unusable"}]
  BY DEF TypeOK, LookupResult
<1>3. pc' \in [Commands -> Steps]
  BY DEF TypeOK, LookupResult, Refuse, Goto, Steps, Lookup, Building, Owning
<1>4. err' \in [Commands -> Errors]
  BY DEF TypeOK, LookupResult, Refuse, Report, Errors
<1> QED BY <1>1, <1>2, <1>3, <1>4

(* ... and the lookup itself.                                              *)
LEMMA FindType ==
    ASSUME TypeOK, NEW p \in Commands, Find(p) \/ Check(p) PROVE TypeOK'
<1> USE KeyType, LookupType
<1>1. CASE Find(p)
  <2>1. manifest[Key(p)] \in Digests \cup {NoManifest, Torn}
    BY DEF TypeOK, Places
  <2>2. lock' \in [Keys -> Commands \cup {NoOne}] /\ found' \in [Commands -> {"miss", "hit", "unusable"}]
    BY <1>1 DEF Find, TypeOK
  <2>3. err' \in [Commands -> Errors]
    BY <1>1 DEF Find, TypeOK
  <2>4. pc' \in [Commands -> Steps]
    <3>1. (\E r \in {"miss", "unusable"} : LookupResult(p, r)) \/ Goto(p, "check")
      BY <1>1 DEF Find
    <3>2. Goto(p, "check") => pc' \in [Commands -> Steps]
      BY DEF Goto, TypeOK, Steps, Lookup
    <3> QED BY <3>1, <3>2
  <2>5. snap' \in [Commands -> Digests \cup {NoManifest, Torn}]
    <3> DEFINE m == manifest[Key(p)]
    <3>1. snap' = snap \/ snap' = [snap EXCEPT ![p] = m]
      BY <1>1 DEF Find
    <3> HIDE DEF m
    <3> QED BY <2>1, <3>1 DEF TypeOK, m
  <2>6. todo' \in [Commands -> SUBSET Files]
    BY <1>1 DEF TypeOK, Find
  <2> QED BY <1>1, <2>2, <2>3, <2>4, <2>5, <2>6 DEF TypeOK, Find, store
<1>2. CASE Check(p)
  <2>1. lock' \in [Keys -> Commands \cup {NoOne}] /\ found' \in [Commands -> {"miss", "hit", "unusable"}]
    BY <1>2 DEF Check, TypeOK
  <2>2. pc' \in [Commands -> Steps] /\ err' \in [Commands -> Errors]
    BY <1>2 DEF Check, TypeOK
  <2>3. todo' \in [Commands -> SUBSET Files]
    <3>1. todo' = todo \/ \E f \in todo[p] : todo' = [todo EXCEPT ![p] = @ \ {f}]
      BY <1>2 DEF Check
    <3>2. ASSUME NEW f PROVE [todo EXCEPT ![p] = @ \ {f}] \in [Commands -> SUBSET Files]
      BY DEF TypeOK
    <3>3. todo \in [Commands -> SUBSET Files]
      BY DEF TypeOK
    <3> QED BY <3>1, <3>2, <3>3
  <2> QED BY <1>2, <2>1, <2>2, <2>3 DEF TypeOK, Check, store
<1> QED BY <1>1, <1>2

(* The helpers that move a command keep its program counter and its         *)
(* diagnostic typed.                                                       *)
LEMMA GotoType ==
    ASSUME TypeOK, NEW p \in Commands, NEW l \in Steps, Goto(p, l)
    PROVE  pc' \in [Commands -> Steps]
BY DEF TypeOK, Goto

(* ... as does a retained diagnostic,                                      *)
LEMMA ReportType ==
    ASSUME TypeOK, NEW p \in Commands, NEW code \in Errors, Report(p, code)
    PROVE  err' \in [Commands -> Errors]
BY DEF TypeOK, Report

(* ... a failing step of the build pipeline,                               *)
LEMMA BreakType ==
    ASSUME TypeOK, NEW p \in Commands, NEW code \in Errors, Break(p, code)
    PROVE  pc' \in [Commands -> Steps] /\ err' \in [Commands -> Errors]
BY GotoType, ReportType DEF Break, Steps, Owning

(* ... a failing step outside it,                                          *)
LEMMA RefuseType ==
    ASSUME TypeOK, NEW p \in Commands, NEW code \in Errors, Refuse(p, code)
    PROVE  pc' \in [Commands -> Steps] /\ err' \in [Commands -> Errors]
BY GotoType, ReportType DEF Refuse, Steps

(* ... and an abandoned publication.                                       *)
LEMMA AbandonType ==
    ASSUME TypeOK, NEW p \in Commands, NEW code \in Errors, Abandon(p, code)
    PROVE  /\ pc' \in [Commands -> Steps] /\ err' \in [Commands -> Errors]
           /\ pending' \in [Places -> Digests \cup {NoManifest, Torn}]
<1>1. pc' \in [Commands -> Steps] /\ err' \in [Commands -> Errors]
  BY BreakType DEF Abandon
<1>2. pending' \in [Places -> Digests \cup {NoManifest, Torn}]
  BY DEF Abandon, TypeOK
<1> QED BY <1>1, <1>2

(* The names that steps and diagnostics are given.                         *)
LEMMA Names ==
    /\ {"admit", "lock", "find", "begin", "private", "failed", "idle", "using",
        "build", "write", "inventory", "recheck", "open", "record", "validate",
        "publish", "unlock"} \subseteq Steps
    /\ {0, 2150, 2151, 2152, 2153, 2154, 2156, 2158, 2159} \subseteq Errors
BY DEF Steps, Lookup, Building, Owning, Errors

(* A released lock stays typed.                                            *)
LEMMA UnlockedType ==
    ASSUME TypeOK, NEW p \in Commands, Unlocked(p)
    PROVE  lock' \in [Keys -> Commands \cup {NoOne}]
BY DEF TypeOK, Unlocked

(* Writing a typed value into a store keeps the store typed.               *)
LEMMA ArtType ==
    ASSUME TypeOK, NEW d \in Places, NEW f, NEW v, f \in Files => v \in Contents,
           art' = [art EXCEPT ![d][f] = v]
    PROVE  art' \in [Places -> Digests]
<1>1. art[d] \in Digests
  BY DEF TypeOK
<1>2. [art[d] EXCEPT ![f] = v] \in Digests
  BY <1>1 DEF Digests
<1>3. art' = [art EXCEPT ![d] = [art[d] EXCEPT ![f] = v]]
  OBVIOUS
<1> QED BY <1>2, <1>3 DEF TypeOK

(* The same for the two records of a profile directory.                    *)
LEMMA RecordType ==
    ASSUME NEW S, NEW r \in [S -> Digests \cup {NoManifest, Torn}], NEW d \in S,
           NEW v \in Digests \cup {NoManifest, Torn}
    PROVE  [r EXCEPT ![d] = v] \in [S -> Digests \cup {NoManifest, Torn}]
OBVIOUS

(* Admission keeps the types,                                              *)
LEMMA AdmitType ==
    ASSUME TypeOK, NEW p \in Commands, Admit(p) PROVE TypeOK'
<1>1. pc' \in [Commands -> Steps] /\ err' \in [Commands -> Errors]
  BY GotoType, BreakType, RefuseType, ReportType, AbandonType, Names DEF Admit, TypeOK
<1> QED BY <1>1 DEF TypeOK, Admit, store

(* ... so does a granted lock,                                             *)
LEMMA LockType ==
    ASSUME TypeOK, NEW p \in Commands, Lock(p) PROVE TypeOK'
<1>1. pc' \in [Commands -> Steps]
  BY GotoType, Names DEF Lock
<1>2. lock' \in [Keys -> Commands \cup {NoOne}]
  BY DEF TypeOK, Lock
<1> QED BY <1>1, <1>2 DEF TypeOK, Lock, store, local

(* ... a failing one,                                                      *)
LEMMA LockFailsType ==
    ASSUME TypeOK, NEW p \in Commands, LockFails(p) PROVE TypeOK'
<1>1. pc' \in [Commands -> Steps] /\ err' \in [Commands -> Errors]
  BY GotoType, BreakType, RefuseType, ReportType, AbandonType, Names DEF LockFails, TypeOK
<1> QED BY <1>1 DEF TypeOK, LockFails, store

(* ... the command-private workspace,                                      *)
LEMMA PrivateType ==
    ASSUME TypeOK, NEW p \in Commands, Private(p) PROVE TypeOK'
<1>1. pc' \in [Commands -> Steps] /\ err' \in [Commands -> Errors]
  <2>1. err' = err \/ err' = [err EXCEPT ![p] = 2150] \/ err' = [err EXCEPT ![p] = 0]
    BY DEF Private
  <2>2. err' \in [Commands -> Errors]
    <3>1. err \in [Commands -> Errors] /\ 2150 \in Errors /\ 0 \in Errors
      BY DEF TypeOK, Errors
    <3> QED BY <2>1, <3>1
  <2>3. Goto(p, "failed") \/ Goto(p, "begin")
    BY DEF Private
  <2> QED BY <2>2, <2>3, GotoType, Names
<1>2. art' \in [Places -> Digests]
  BY ConstantTypes DEF TypeOK, Private, Places
<1>3. manifest' \in [Places -> Digests \cup {NoManifest, Torn}] /\ pending' \in [Places -> Digests \cup {NoManifest, Torn}]
  <2>1. manifest' = manifest \/ manifest' = [manifest EXCEPT ![p] = NoManifest]
    BY DEF Private
  <2>2. pending' = pending \/ pending' = [pending EXCEPT ![p] = NoManifest]
    BY DEF Private
  <2> QED BY <2>1, <2>2, RecordType DEF TypeOK, Places
<1>4. private' \in [Commands -> BOOLEAN]
  <2>1. private' = private \/ private' = [private EXCEPT ![p] = TRUE]
    BY DEF Private
  <2> QED BY <2>1 DEF TypeOK
<1> QED BY <1>1, <1>2, <1>3, <1>4 DEF TypeOK, Private, store

(* ... the invalidation of the completed profile,                          *)
LEMMA BeginType ==
    ASSUME TypeOK, NEW p \in Commands, Begin(p) PROVE TypeOK'
<1>1. pc' \in [Commands -> Steps] /\ err' \in [Commands -> Errors]
  BY GotoType, BreakType, RefuseType, ReportType, AbandonType, Names DEF Begin, TypeOK
<1>2. manifest' \in [Places -> Digests \cup {NoManifest, Torn}]
  BY DEF TypeOK, Begin
<1> QED BY <1>1, <1>2 DEF TypeOK, Begin, store

(* ... the removal of an old artifact,                                     *)
LEMMA DetachType ==
    ASSUME TypeOK, NEW p \in Commands, Detach(p) PROVE TypeOK'
<1>1. pc' \in [Commands -> Steps] /\ err' \in [Commands -> Errors]
  BY GotoType, BreakType, RefuseType, ReportType, AbandonType, Names DEF Detach, TypeOK
<1>2. art' \in [Places -> Digests]
  <2>1. Partial \in Contents /\ (art' = art \/ \E f \in Files : art' = [art EXCEPT ![Place(p)][f] = Partial])
    BY DEF Detach, Contents, TypeOK
  <2> QED BY <2>1, KeyType, ArtType DEF TypeOK
<1>3. at' \in [Commands -> Files \cup {NoFile}]
  BY DEF TypeOK, Detach
<1> QED BY <1>1, <1>2, <1>3 DEF TypeOK, Detach, store

(* ... the artifact that replaces it,                                      *)
LEMMA WriteType ==
    ASSUME TypeOK, NEW p \in Commands, Write(p) PROVE TypeOK'
<1>1. pc' \in [Commands -> Steps] /\ err' \in [Commands -> Errors]
  BY GotoType, BreakType, RefuseType, ReportType, AbandonType, Names DEF Write, TypeOK
<1>2. art' \in [Places -> Digests]
  <2> DEFINE output == IF at[p] \in Interfaces THEN Key(p)[at[p]] ELSE input[at[p]].version
  <2>1. art' = art \/ art' = [art EXCEPT ![Place(p)][at[p]] = output]
    BY DEF Write
  <2>2. at[p] \in Files => output \in Contents
    <3>1. at[p] \in Files => Key(p)[at[p]] \in Contents /\ input[at[p]].version \in Contents
      BY KeyType DEF TypeOK, Keys, Stamped, Contents
    <3> QED BY <3>1
  <2> HIDE DEF output
  <2> QED BY <2>1, <2>2, KeyType, ArtType DEF TypeOK
<1>3. todo' \in [Commands -> SUBSET Files]
  BY DEF TypeOK, Write
<1>4. at' \in [Commands -> Files \cup {NoFile}]
  BY DEF TypeOK, Write
<1> QED BY <1>1, <1>2, <1>3, <1>4 DEF TypeOK, Write, store

(* ... the inventory of the finished build,                                *)
LEMMA InventoryType ==
    ASSUME TypeOK, NEW p \in Commands, Inventory(p) PROVE TypeOK'
<1>1. pc' \in [Commands -> Steps] /\ err' \in [Commands -> Errors]
  BY GotoType, BreakType, RefuseType, ReportType, AbandonType, Names DEF Inventory, TypeOK
<1>2. todo' \in [Commands -> SUBSET Files]
  <2>1. todo' = todo \/ todo' = [todo EXCEPT ![p] = Files]
    BY DEF Inventory
  <2> QED BY <2>1 DEF TypeOK
<1>3. snap' \in [Commands -> Digests \cup {NoManifest, Torn}]
  <2>1. art[Place(p)] \in Digests
    BY KeyType DEF TypeOK
  <2>2. snap' = snap \/ snap' = [snap EXCEPT ![p] = art[Place(p)]]
    BY DEF Inventory
  <2> QED BY <2>1, <2>2, RecordType DEF TypeOK
<1> QED BY <1>1, <1>2, <1>3 DEF TypeOK, Inventory, store

(* ... the comparison of its inputs,                                       *)
LEMMA RecheckType ==
    ASSUME TypeOK, NEW p \in Commands, Recheck(p) PROVE TypeOK'
<1>1. pc' \in [Commands -> Steps] /\ err' \in [Commands -> Errors]
  BY GotoType, BreakType, RefuseType, ReportType, AbandonType, Names DEF Recheck, TypeOK
<1>2. pending' \in [Places -> Digests \cup {NoManifest, Torn}]
  BY AbandonType, Names DEF TypeOK, Recheck
<1>3. todo' \in [Commands -> SUBSET Files]
  BY DEF TypeOK, Recheck
<1> QED BY <1>1, <1>2, <1>3 DEF TypeOK, Recheck, store

(* ... the new pending manifest,                                           *)
LEMMA OpenPendingType ==
    ASSUME TypeOK, NEW p \in Commands, OpenPending(p) PROVE TypeOK'
<1>1. pc' \in [Commands -> Steps] /\ err' \in [Commands -> Errors]
  BY GotoType, BreakType, RefuseType, ReportType, AbandonType, Names DEF OpenPending, TypeOK
<1>2. pending' \in [Places -> Digests \cup {NoManifest, Torn}]
  <2>1. CASE Abandon(p, 2150)
    BY <2>1, AbandonType, Names
  <2>2. CASE pending' = [pending EXCEPT ![Place(p)] = Torn]
    BY <2>2, KeyType, RecordType DEF TypeOK
  <2> QED BY <2>1, <2>2 DEF OpenPending
<1> QED BY <1>1, <1>2 DEF TypeOK, OpenPending, store

(* ... its record,                                                         *)
LEMMA WritePendingType ==
    ASSUME TypeOK, NEW p \in Commands, WritePending(p) PROVE TypeOK'
<1>1. pc' \in [Commands -> Steps] /\ err' \in [Commands -> Errors]
  BY GotoType, BreakType, RefuseType, ReportType, AbandonType, Names DEF WritePending, TypeOK
<1>2. pending' \in [Places -> Digests \cup {NoManifest, Torn}]
  <2>1. CASE Abandon(p, 2150)
    BY <2>1, AbandonType, Names
  <2>2. CASE pending' = [pending EXCEPT ![Place(p)] = snap[p]]
    BY <2>2, KeyType, RecordType DEF TypeOK
  <2> QED BY <2>1, <2>2 DEF WritePending
<1> QED BY <1>1, <1>2 DEF TypeOK, WritePending, store

(* ... its validation,                                                     *)
LEMMA ValidateType ==
    ASSUME TypeOK, NEW p \in Commands, Validate(p) PROVE TypeOK'
<1>1. pc' \in [Commands -> Steps] /\ err' \in [Commands -> Errors]
  BY GotoType, BreakType, RefuseType, ReportType, AbandonType, Names DEF Validate, TypeOK
<1>2. pending' \in [Places -> Digests \cup {NoManifest, Torn}]
  BY AbandonType, Names DEF TypeOK, Validate
<1> QED BY <1>1, <1>2 DEF TypeOK, Validate, store

(* ... the completion,                                                     *)
LEMMA PublishType ==
    ASSUME TypeOK, NEW p \in Commands, Publish(p) PROVE TypeOK'
<1>1. pc' \in [Commands -> Steps] /\ err' \in [Commands -> Errors]
  BY GotoType, BreakType, RefuseType, ReportType, AbandonType, Names DEF Publish, TypeOK
<1>2. pending' \in [Places -> Digests \cup {NoManifest, Torn}]
  <2>1. CASE Abandon(p, 2150)
    BY <2>1, AbandonType, Names
  <2>2. CASE pending' = [pending EXCEPT ![Place(p)] = NoManifest]
    BY <2>2, KeyType, RecordType DEF TypeOK
  <2> QED BY <2>1, <2>2 DEF Publish
<1>3. manifest' \in [Places -> Digests \cup {NoManifest, Torn}]
  <2>1. manifest' = manifest \/ manifest' = [manifest EXCEPT ![Place(p)] = pending[Place(p)]]
    BY DEF Publish
  <2>2. Place(p) \in Places /\ pending[Place(p)] \in Digests \cup {NoManifest, Torn}
    BY KeyType DEF TypeOK
  <2> QED BY <2>1, <2>2, RecordType DEF TypeOK
<1>4. corrupted' \subseteq Keys
  BY DEF TypeOK, Publish
<1> QED BY <1>1, <1>2, <1>3, <1>4 DEF TypeOK, Publish, store

(* ... the end of a successful build,                                      *)
LEMMA UnlockType ==
    ASSUME TypeOK, NEW p \in Commands, Unlock(p) PROVE TypeOK'
<1>1. pc' \in [Commands -> Steps]
  BY GotoType, Names DEF Unlock
<1>2. lock' \in [Keys -> Commands \cup {NoOne}]
  BY UnlockedType DEF Unlock
<1> QED BY <1>1, <1>2 DEF TypeOK, Unlock, store, local

(* ... and that of a failed one.                                           *)
LEMMA BrokenType ==
    ASSUME TypeOK, NEW p \in Commands, Broken(p) PROVE TypeOK'
<1>1. pc' \in [Commands -> Steps]
  BY GotoType, Names DEF Broken
<1>2. lock' \in [Keys -> Commands \cup {NoOne}]
  BY UnlockedType DEF Broken
<1> QED BY <1>1, <1>2 DEF TypeOK, Broken, store, local

(* A command that is gone leaves a typed state.                            *)
LEMMA GoneType ==
    ASSUME TypeOK, NEW p \in Commands, Gone(p), UNCHANGED <<input, corrupted>>,
           orphans' \subseteq Keys \X Files
    PROVE  TypeOK'
<1>1. pc' \in [Commands -> Steps] /\ lock' \in [Keys -> Commands \cup {NoOne}]
  BY GotoType, UnlockedType, Names DEF Gone
<1>2. opt' \in [Commands -> Options]
  BY AnyOptionType DEF Gone, TypeOK
<1>3. seen' \in [Commands -> [Files -> Stamped]]
  BY ConstantTypes DEF Gone, TypeOK
<1>4. /\ private' \in [Commands -> BOOLEAN]
      /\ todo' \in [Commands -> SUBSET Files]
      /\ at' \in [Commands -> Files \cup {NoFile}]
      /\ snap' \in [Commands -> Digests \cup {NoManifest, Torn}]
      /\ found' \in [Commands -> {"miss", "hit", "unusable"}]
      /\ err' \in [Commands -> Errors]
  BY DEF Gone, TypeOK, Errors
<1>5. art' \in [Places -> Digests]
  BY ConstantTypes DEF Gone, TypeOK
<1>6. /\ manifest' \in [Places -> Digests \cup {NoManifest, Torn}]
      /\ pending' \in [Places -> Digests \cup {NoManifest, Torn}]
  BY DEF Gone, TypeOK
<1> QED BY <1>1, <1>2, <1>3, <1>4, <1>5, <1>6 DEF TypeOK

(* The end and the death of a command keep the types,                      *)
LEMMA EndType ==
    ASSUME TypeOK, NEW p \in Commands, Finish(p) \/ Crash(p) PROVE TypeOK'
<1>1. UNCHANGED <<input, corrupted>> /\ Gone(p)
  BY DEF Finish, Crash
<1>2. orphans' \subseteq Keys \X Files
  <2>1. CASE Finish(p)
    BY <2>1 DEF Finish, TypeOK
  <2>2. CASE Crash(p)
    <3>1. orphans' = orphans \/ (at[p] \in Files /\ orphans' = orphans \cup {<<Key(p), at[p]>>})
      BY <2>2 DEF Crash
    <3>2. at[p] \in Files => <<Key(p), at[p]>> \in Keys \X Files
      BY KeyType
    <3> QED BY <3>1, <3>2 DEF TypeOK
  <2> QED BY <2>1, <2>2
<1> QED BY <1>1, <1>2, GoneType

(* ... and so does everything the environment does.                        *)
LEMMA EnvironmentType ==
    ASSUME TypeOK, Environment PROVE TypeOK'
<1>1. ASSUME NEW f \in Files, Edit(f) PROVE TypeOK'
  <2>1. input' \in [Files -> Stamped]
    BY <1>1 DEF TypeOK, Edit, Stamped
  <2> QED BY <1>1, <2>1 DEF TypeOK, Edit, store, local
<1>2. ASSUME NEW k \in Keys, NEW f \in Files, Corrupt(k, f) PROVE TypeOK'
  <2>1. art' \in [Places -> Digests] /\ corrupted' \subseteq Keys
    BY <1>2 DEF TypeOK, Corrupt, Digests, Contents
  <2> QED BY <1>2, <2>1 DEF TypeOK, Corrupt, local
<1>3. ASSUME NEW k \in Keys, NEW f \in Files, OrphanOpens(k, f) \/ OrphanEnds(k, f) PROVE TypeOK'
  <2>1. art' \in [Places -> Digests] /\ orphans' \subseteq Keys \X Files
    <3>1. k \in Places /\ Partial \in Contents /\ input[f].version \in Contents
      BY DEF TypeOK, Places, Contents, Stamped
    <3>2. art' \in [Places -> Digests]
      BY <1>3, <3>1, ArtType DEF OrphanOpens, OrphanEnds
    <3> QED BY <1>3, <3>2 DEF TypeOK, OrphanOpens, OrphanEnds
  <2> QED BY <1>3, <2>1 DEF TypeOK, OrphanOpens, OrphanEnds, local
<1> QED BY <1>1, <1>2, <1>3 DEF Environment

(* Every variable keeps its type in every behaviour.                       *)
THEOREM Typing == Spec => []TypeOK
<1>1. Init => TypeOK
  BY InitTypeOK
<1>2. TypeOK /\ [Next]_vars => TypeOK'
  <2> SUFFICES ASSUME TypeOK, [Next]_vars PROVE TypeOK'
    OBVIOUS
  <2>1. CASE UNCHANGED vars
    BY <2>1 DEF TypeOK, vars, store, local
  <2>2. ASSUME NEW p \in Commands, Start(p) \/ Progress(p) \/ Crash(p) PROVE TypeOK'
    BY <2>2, StartType, ResolveType, FindType, AdmitType, LockType, LockFailsType, PrivateType,
       BeginType, DetachType, WriteType, InventoryType, RecheckType, OpenPendingType,
       WritePendingType, ValidateType, PublishType, UnlockType, BrokenType, EndType
    DEF Progress
  <2>3. CASE Environment
    BY <2>3, EnvironmentType
  <2> QED BY <2>1, <2>2, <2>3 DEF Next
<1> QED BY <1>1, <1>2, PTL DEF Spec
-----------------------------------------------------------------------------
(* What a step of one command leaves alone.                                *)

(* It keeps every other command's state and the locks that command holds.  *)
LEMMA Locality ==
    ASSUME TypeOK, NEW p \in Commands, NEW q \in Commands, q # p,
           Start(p) \/ Progress(p) \/ Crash(p)
    PROVE  /\ pc'[q] = pc[q] /\ private'[q] = private[q] /\ seen'[q] = seen[q]
           /\ todo'[q] = todo[q] /\ snap'[q] = snap[q]
           /\ \A k \in Keys : lock[k] = q => lock'[k] = q
<1> USE ConstantsAssumption
<1>1. CASE Start(p)
  BY <1>1 DEF Start, Goto, store, TypeOK
<1>2. CASE RefuseRoot(p)
  BY <1>2 DEF RefuseRoot, Refuse, Report, Goto, store, TypeOK
<1>3. CASE ResolveFile(p)
  BY <1>3 DEF ResolveFile, store, TypeOK
<1>4. CASE Resolved(p)
  BY <1>4 DEF Resolved, Goto, store, local, TypeOK
<1>5. CASE Find(p)
  BY <1>5 DEF Find, LookupResult, Unlocked, Refuse, Report, Goto, store, TypeOK
<1>6. CASE Check(p)
  BY <1>6 DEF Check, LookupResult, Unlocked, Refuse, Report, Goto, store, TypeOK
<1>7. CASE Admit(p)
  BY <1>7 DEF Admit, Refuse, Report, Goto, store, TypeOK
<1>8. CASE Lock(p)
  BY <1>8 DEF Lock, Goto, store, local, TypeOK
<1>9. CASE LockFails(p)
  BY <1>9 DEF LockFails, Report, Goto, store, TypeOK
<1>10. CASE Private(p)
  BY <1>10 DEF Private, Goto, TypeOK
<1>11. CASE Begin(p)
  BY <1>11 DEF Begin, Break, Report, Goto, TypeOK
<1>12. CASE Detach(p)
  BY <1>12 DEF Detach, Break, Report, Goto, TypeOK
<1>13. CASE Write(p)
  BY <1>13 DEF Write, Break, Report, Goto, TypeOK
<1>14. CASE Inventory(p)
  BY <1>14 DEF Inventory, Break, Report, Goto, store, TypeOK
<1>15. CASE Recheck(p)
  BY <1>15 DEF Recheck, Abandon, Break, Report, Goto, TypeOK
<1>16. CASE OpenPending(p)
  BY <1>16 DEF OpenPending, Abandon, Break, Report, Goto, TypeOK
<1>17. CASE WritePending(p)
  BY <1>17 DEF WritePending, Abandon, Break, Report, Goto, TypeOK
<1>18. CASE Validate(p)
  BY <1>18 DEF Validate, Abandon, Break, Report, Goto, TypeOK
<1>19. CASE Publish(p)
  BY <1>19 DEF Publish, Abandon, Break, Report, Goto, TypeOK
<1>20. CASE Unlock(p)
  BY <1>20 DEF Unlock, Unlocked, Goto, store, local, TypeOK
<1>21. CASE Broken(p)
  BY <1>21 DEF Broken, Unlocked, Goto, store, local, TypeOK
<1>22. CASE Finish(p)
  BY <1>22 DEF Finish, Gone, Unlocked, Goto, TypeOK
<1>23. CASE Crash(p)
  BY <1>23 DEF Crash, Gone, Unlocked, Goto, TypeOK
<1> QED BY <1>1, <1>2, <1>3, <1>4, <1>5, <1>6, <1>7, <1>8, <1>9, <1>10, <1>11, <1>12, <1>13, <1>14, <1>15, <1>16, <1>17, <1>18, <1>19, <1>20, <1>21, <1>22, <1>23 DEF Progress

(* It writes only to the place it owns and to its private workspace.        *)
LEMMA Containment ==
    ASSUME TypeOK, NEW p \in Commands, NEW d \in Places, d # p,
           pc[p] \in Owning => d # Place(p),
           Start(p) \/ Progress(p) \/ Crash(p)
    PROVE  /\ art'[d] = art[d]
           /\ manifest'[d] = manifest[d]
           /\ pending'[d] = pending[d]
<1>1. CASE Start(p)
  BY <1>1 DEF Start, Goto, store, TypeOK, Owning, Building
<1>2. CASE RefuseRoot(p)
  BY <1>2 DEF RefuseRoot, Refuse, Report, Goto, store, TypeOK, Owning, Building
<1>3. CASE ResolveFile(p)
  BY <1>3 DEF ResolveFile, store, TypeOK, Owning, Building
<1>4. CASE Resolved(p)
  BY <1>4 DEF Resolved, Goto, store, local, TypeOK, Owning, Building
<1>5. CASE Find(p)
  BY <1>5 DEF Find, LookupResult, Unlocked, Refuse, Report, Goto, store, TypeOK, Owning, Building
<1>6. CASE Check(p)
  BY <1>6 DEF Check, LookupResult, Unlocked, Refuse, Report, Goto, store, TypeOK, Owning, Building
<1>7. CASE Admit(p)
  BY <1>7 DEF Admit, Refuse, Report, Goto, store, TypeOK, Owning, Building
<1>8. CASE Lock(p)
  BY <1>8 DEF Lock, Goto, store, local, TypeOK, Owning, Building
<1>9. CASE LockFails(p)
  BY <1>9 DEF LockFails, Report, Goto, store, TypeOK, Owning, Building
<1>10. CASE Private(p)
  BY <1>10 DEF Private, Goto, TypeOK, Owning, Building
<1>11. CASE Begin(p)
  BY <1>11 DEF Begin, Break, Report, Goto, TypeOK, Owning, Building
<1>12. CASE Detach(p)
  BY <1>12 DEF Detach, Break, Report, Goto, TypeOK, Owning, Building
<1>13. CASE Write(p)
  BY <1>13 DEF Write, Break, Report, Goto, TypeOK, Owning, Building
<1>14. CASE Inventory(p)
  BY <1>14 DEF Inventory, Break, Report, Goto, store, TypeOK, Owning, Building
<1>15. CASE Recheck(p)
  BY <1>15 DEF Recheck, Abandon, Break, Report, Goto, TypeOK, Owning, Building
<1>16. CASE OpenPending(p)
  BY <1>16 DEF OpenPending, Abandon, Break, Report, Goto, TypeOK, Owning, Building
<1>17. CASE WritePending(p)
  BY <1>17 DEF WritePending, Abandon, Break, Report, Goto, TypeOK, Owning, Building
<1>18. CASE Validate(p)
  BY <1>18 DEF Validate, Abandon, Break, Report, Goto, TypeOK, Owning, Building
<1>19. CASE Publish(p)
  BY <1>19 DEF Publish, Abandon, Break, Report, Goto, TypeOK, Owning, Building
<1>20. CASE Unlock(p)
  BY <1>20 DEF Unlock, Unlocked, Goto, store, local, TypeOK, Owning, Building
<1>21. CASE Broken(p)
  BY <1>21 DEF Broken, Unlocked, Goto, store, local, TypeOK, Owning, Building
<1>22. CASE Finish(p)
  BY <1>22 DEF Finish, Gone, Unlocked, Goto, TypeOK, Owning, Building
<1>23. CASE Crash(p)
  BY <1>23 DEF Crash, Gone, Unlocked, Goto, TypeOK, Owning, Building
<1> QED BY <1>1, <1>2, <1>3, <1>4, <1>5, <1>6, <1>7, <1>8, <1>9, <1>10, <1>11, <1>12, <1>13, <1>14, <1>15, <1>16, <1>17, <1>18, <1>19, <1>20, <1>21, <1>22, <1>23 DEF Progress

(* Keys and places depend on what a command has seen and where it works.    *)
LEMMA KeyFrame ==
    ASSUME NEW p \in Commands, seen'[p] = seen[p]
    PROVE  Key(p)' = Key(p) /\ (private'[p] = private[p] => Place(p)' = Place(p))
BY DEF Key, Place

-----------------------------------------------------------------------------
(* One builder per profile.                                                *)

(* A command that keeps, or begins, building in a shared profile holds the  *)
(* lock after its own step.                                                *)
LEMMA OwnStepHolds ==
    ASSUME TypeOK, OwnersHold, NEW p \in Commands, Start(p) \/ Progress(p) \/ Crash(p),
           pc'[p] \in Owning, ~private'[p]
    PROVE  Holds(p)'
<1> USE KeyType, KeyFrame
<1>1. CASE Start(p)
  BY <1>1 DEF Start, Goto, store, TypeOK, OwnersHold, Holds, Owning, Building
<1>2. CASE RefuseRoot(p)
  BY <1>2 DEF RefuseRoot, Refuse, Report, Goto, store, TypeOK, OwnersHold, Holds, Owning, Building
<1>3. CASE ResolveFile(p)
  BY <1>3 DEF ResolveFile, store, TypeOK, OwnersHold, Holds, Owning, Building
<1>4. CASE Resolved(p)
  BY <1>4 DEF Resolved, Goto, store, local, TypeOK, OwnersHold, Holds, Owning, Building
<1>5. CASE Find(p)
  BY <1>5 DEF Find, LookupResult, Unlocked, Refuse, Report, Goto, store, TypeOK, OwnersHold, Holds, Owning, Building
<1>6. CASE Check(p)
  BY <1>6 DEF Check, LookupResult, Unlocked, Refuse, Report, Goto, store, TypeOK, OwnersHold, Holds, Owning, Building
<1>7. CASE Admit(p)
  BY <1>7 DEF Admit, Refuse, Report, Goto, store, TypeOK, OwnersHold, Holds, Owning, Building
<1>8. CASE Lock(p)
  BY <1>8 DEF Lock, Goto, store, local, TypeOK, OwnersHold, Holds, Owning, Building
<1>9. CASE LockFails(p)
  BY <1>9 DEF LockFails, Report, Goto, store, TypeOK, OwnersHold, Holds, Owning, Building
<1>10. CASE Private(p)
  BY <1>10 DEF Private, Goto, TypeOK, OwnersHold, Holds, Owning, Building
<1>11. CASE Begin(p)
  BY <1>11 DEF Begin, Break, Report, Goto, TypeOK, OwnersHold, Holds, Owning, Building
<1>12. CASE Detach(p)
  BY <1>12 DEF Detach, Break, Report, Goto, TypeOK, OwnersHold, Holds, Owning, Building
<1>13. CASE Write(p)
  BY <1>13 DEF Write, Break, Report, Goto, TypeOK, OwnersHold, Holds, Owning, Building
<1>14. CASE Inventory(p)
  BY <1>14 DEF Inventory, Break, Report, Goto, store, TypeOK, OwnersHold, Holds, Owning, Building
<1>15. CASE Recheck(p)
  BY <1>15 DEF Recheck, Abandon, Break, Report, Goto, TypeOK, OwnersHold, Holds, Owning, Building
<1>16. CASE OpenPending(p)
  BY <1>16 DEF OpenPending, Abandon, Break, Report, Goto, TypeOK, OwnersHold, Holds, Owning, Building
<1>17. CASE WritePending(p)
  BY <1>17 DEF WritePending, Abandon, Break, Report, Goto, TypeOK, OwnersHold, Holds, Owning, Building
<1>18. CASE Validate(p)
  BY <1>18 DEF Validate, Abandon, Break, Report, Goto, TypeOK, OwnersHold, Holds, Owning, Building
<1>19. CASE Publish(p)
  BY <1>19 DEF Publish, Abandon, Break, Report, Goto, TypeOK, OwnersHold, Holds, Owning, Building
<1>20. CASE Unlock(p)
  BY <1>20 DEF Unlock, Unlocked, Goto, store, local, TypeOK, OwnersHold, Holds, Owning, Building
<1>21. CASE Broken(p)
  BY <1>21 DEF Broken, Unlocked, Goto, store, local, TypeOK, OwnersHold, Holds, Owning, Building
<1>22. CASE Finish(p)
  BY <1>22 DEF Finish, Gone, Unlocked, Goto, TypeOK, OwnersHold, Holds, Owning, Building
<1>23. CASE Crash(p)
  BY <1>23 DEF Crash, Gone, Unlocked, Goto, TypeOK, OwnersHold, Holds, Owning, Building
<1> QED BY <1>1, <1>2, <1>3, <1>4, <1>5, <1>6, <1>7, <1>8, <1>9, <1>10, <1>11, <1>12, <1>13, <1>14, <1>15, <1>16, <1>17, <1>18, <1>19, <1>20, <1>21, <1>22, <1>23 DEF Progress

(* Every step keeps each owner of a shared profile the holder of its lock. *)
LEMMA OwnersHoldStep ==
    ASSUME TypeOK, OwnersHold, [Next]_vars PROVE OwnersHold'
<1>1. CASE UNCHANGED vars
  BY <1>1 DEF vars, local, OwnersHold, Holds, Key
<1>2. ASSUME NEW p \in Commands, Start(p) \/ Progress(p) \/ Crash(p) PROVE OwnersHold'
  <2> SUFFICES ASSUME NEW q \in Commands, pc'[q] \in Owning, ~private'[q] PROVE Holds(q)'
    BY DEF OwnersHold
  <2>1. CASE q = p
    BY <1>2, <2>1, OwnStepHolds
  <2>2. CASE q # p
    <3>1. pc'[q] = pc[q] /\ private'[q] = private[q] /\ Key(q)' = Key(q)
      BY <1>2, <2>2, Locality, KeyFrame
    <3>2. Holds(q)
      BY <3>1 DEF OwnersHold
    <3> QED BY <1>2, <2>2, <3>1, <3>2, KeyType, Locality DEF Holds
  <2> QED BY <2>1, <2>2
<1>3. CASE Environment
  BY <1>3 DEF Environment, Edit, Corrupt, OrphanOpens, OrphanEnds, local, OwnersHold, Holds, Key
<1> QED BY <1>1, <1>2, <1>3 DEF Next

(* Two commands at the same place are one if each holds the lock it needs.  *)
LEMMA OwnersApart ==
    ASSUME TypeOK, OwnersHold, NEW p \in Commands, NEW q \in Commands,
           pc[p] \in Owning, pc[q] \in Owning, Place(p) = Place(q)
    PROVE  p = q
<1>1. Key(p) \in Keys /\ Key(q) \in Keys
  BY KeyType
<1> QED BY <1>1, ConstantsAssumption DEF OwnersHold, Holds, Place, TypeOK

(* No two commands ever build in the same directory.                       *)
THEOREM MutualExclusion == Spec => []OneBuilderPerProfile
<1>1. Init => OwnersHold
  BY DEF Init, OwnersHold, Owning, Building
<1>2. TypeOK /\ OwnersHold /\ [Next]_vars => OwnersHold'
  BY OwnersHoldStep
<1>3. TypeOK /\ OwnersHold => OneBuilderPerProfile
  BY OwnersApart DEF OneBuilderPerProfile
<1> QED BY <1>1, <1>2, <1>3, Typing, PTL DEF Spec

(* What another command owns is not touched by a command's step.            *)
LEMMA OwnedIsUntouched ==
    ASSUME TypeOK, OwnersHold, NEW p \in Commands, NEW q \in Commands, q # p,
           pc[q] \in Owning, Start(p) \/ Progress(p) \/ Crash(p)
    PROVE  /\ art'[Place(q)] = art[Place(q)]
           /\ manifest'[Place(q)] = manifest[Place(q)]
           /\ pending'[Place(q)] = pending[Place(q)]
<1>1. Place(q) \in Places /\ Place(q) # p
  BY KeyType, ConstantsAssumption DEF Place, Places
<1>2. pc[p] \in Owning => Place(q) # Place(p)
  BY OwnersApart
<1> QED BY <1>1, <1>2, Containment

-----------------------------------------------------------------------------
(* What is published is what the key names.                                *)

(* A step of a command leaves the inputs alone, and it records an input as  *)
(* it is or forgets all it has recorded.                                   *)
LEMMA SeenStep ==
    ASSUME TypeOK, NEW p \in Commands, Start(p) \/ Progress(p) \/ Crash(p)
    PROVE  /\ input' = input
           /\ \/ seen' = seen
              \/ \E f \in Files : seen' = [seen EXCEPT ![p][f] = input[f]]
              \/ seen' = [seen EXCEPT ![p] = [f \in Files |-> Initial(f)]]
<1>1. CASE Start(p)
  BY <1>1 DEF Start, Goto, store, TypeOK
<1>2. CASE RefuseRoot(p)
  BY <1>2 DEF RefuseRoot, Refuse, Report, Goto, store, TypeOK
<1>3. CASE ResolveFile(p)
  BY <1>3 DEF ResolveFile, store, TypeOK
<1>4. CASE Resolved(p)
  BY <1>4 DEF Resolved, Goto, store, local, TypeOK
<1>5. CASE Find(p)
  BY <1>5 DEF Find, LookupResult, Unlocked, Refuse, Report, Goto, store, TypeOK
<1>6. CASE Check(p)
  BY <1>6 DEF Check, LookupResult, Unlocked, Refuse, Report, Goto, store, TypeOK
<1>7. CASE Admit(p)
  BY <1>7 DEF Admit, Refuse, Report, Goto, store, TypeOK
<1>8. CASE Lock(p)
  BY <1>8 DEF Lock, Goto, store, local, TypeOK
<1>9. CASE LockFails(p)
  BY <1>9 DEF LockFails, Report, Goto, store, TypeOK
<1>10. CASE Private(p)
  BY <1>10 DEF Private, Goto, TypeOK
<1>11. CASE Begin(p)
  BY <1>11 DEF Begin, Break, Report, Goto, TypeOK
<1>12. CASE Detach(p)
  BY <1>12 DEF Detach, Break, Report, Goto, TypeOK
<1>13. CASE Write(p)
  BY <1>13 DEF Write, Break, Report, Goto, TypeOK
<1>14. CASE Inventory(p)
  BY <1>14 DEF Inventory, Break, Report, Goto, store, TypeOK
<1>15. CASE Recheck(p)
  BY <1>15 DEF Recheck, Abandon, Break, Report, Goto, TypeOK
<1>16. CASE OpenPending(p)
  BY <1>16 DEF OpenPending, Abandon, Break, Report, Goto, TypeOK
<1>17. CASE WritePending(p)
  BY <1>17 DEF WritePending, Abandon, Break, Report, Goto, TypeOK
<1>18. CASE Validate(p)
  BY <1>18 DEF Validate, Abandon, Break, Report, Goto, TypeOK
<1>19. CASE Publish(p)
  BY <1>19 DEF Publish, Abandon, Break, Report, Goto, TypeOK
<1>20. CASE Unlock(p)
  BY <1>20 DEF Unlock, Unlocked, Goto, store, local, TypeOK
<1>21. CASE Broken(p)
  BY <1>21 DEF Broken, Unlocked, Goto, store, local, TypeOK
<1>22. CASE Finish(p)
  BY <1>22 DEF Finish, Gone, Unlocked, Goto, TypeOK
<1>23. CASE Crash(p)
  BY <1>23 DEF Crash, Gone, Unlocked, Goto, TypeOK
<1> QED BY <1>1, <1>2, <1>3, <1>4, <1>5, <1>6, <1>7, <1>8, <1>9, <1>10, <1>11, <1>12, <1>13, <1>14, <1>15, <1>16, <1>17, <1>18, <1>19, <1>20, <1>21, <1>22, <1>23 DEF Progress

(* Every step keeps the recorded metadata in the past of the files.        *)
LEMMA SeenIsPastStep ==
    ASSUME TypeOK, SeenIsPast, [Next]_vars PROVE SeenIsPast'
<1>1. CASE UNCHANGED vars
  BY <1>1 DEF vars, local, SeenIsPast, Stale
<1>2. ASSUME NEW p \in Commands, Start(p) \/ Progress(p) \/ Crash(p) PROVE SeenIsPast'
  <2>1. input' = input
    BY <1>2, SeenStep
  <2>2. ASSUME NEW q \in Commands, NEW f \in Files
        PROVE  seen'[q][f] = seen[q][f] \/ seen'[q][f] = input[f] \/ seen'[q][f] = Initial(f)
    <3>1. CASE seen' = seen
      BY <3>1
    <3>2. ASSUME NEW g \in Files, seen' = [seen EXCEPT ![p][g] = input[g]]
          PROVE  seen'[q][f] = seen[q][f] \/ seen'[q][f] = input[f]
      BY <3>2 DEF TypeOK
    <3>3. CASE seen' = [seen EXCEPT ![p] = [g \in Files |-> Initial(g)]]
      BY <3>3 DEF TypeOK
    <3> QED BY <1>2, <3>1, <3>2, <3>3, SeenStep
  <2>3. \A f \in Files : input[f].stamp \in Nat /\ Initial(f).stamp = 0
    BY DEF TypeOK, Stamped, Initial
  <2> QED BY <2>1, <2>2, <2>3 DEF SeenIsPast, Stale
<1>3. ASSUME NEW f \in Files, Edit(f) PROVE SeenIsPast'
  <2>1. /\ input'[f].stamp = input[f].stamp + 1
        /\ \A g \in Files : g # f => input'[g] = input[g]
        /\ seen' = seen
    BY <1>3 DEF Edit, local, TypeOK
  <2>2. \A g \in Files : input[g].stamp \in Nat /\ \A q \in Commands : seen[q][g].stamp \in Nat
    BY DEF TypeOK, Stamped
  <2> QED BY <2>1, <2>2 DEF SeenIsPast, Stale
<1>4. CASE \E k \in Keys, f \in Files : Corrupt(k, f) \/ OrphanOpens(k, f) \/ OrphanEnds(k, f)
  BY <1>4 DEF Corrupt, OrphanOpens, OrphanEnds, local, SeenIsPast, Stale
<1> QED BY <1>1, <1>2, <1>3, <1>4 DEF Next, Environment

(* The build keeps its artifacts sound: a command's own step,              *)
LEMMA OwnArtifacts ==
    ASSUME TypeOK, SeenIsPast, NEW p \in Commands, ArtifactsAreSound(p),
           Start(p) \/ Progress(p) \/ Crash(p)
    PROVE  ArtifactsAreSound(p)'
<1> USE KeyType, KeyFrame
<1>1. CASE Start(p)
  BY <1>1 DEF Start, Goto, store, TypeOK, ArtifactsAreSound, Stale
<1>2. CASE RefuseRoot(p)
  BY <1>2 DEF RefuseRoot, Refuse, Report, Goto, store, TypeOK, ArtifactsAreSound, Stale
<1>3. CASE ResolveFile(p)
  BY <1>3 DEF ResolveFile, store, TypeOK, ArtifactsAreSound, Stale
<1>4. CASE Resolved(p)
  BY <1>4 DEF Resolved, Goto, store, local, TypeOK, ArtifactsAreSound, Stale
<1>5. CASE Find(p)
  BY <1>5 DEF Find, LookupResult, Unlocked, Refuse, Report, Goto, store, TypeOK, ArtifactsAreSound, Stale
<1>6. CASE Check(p)
  BY <1>6 DEF Check, LookupResult, Unlocked, Refuse, Report, Goto, store, TypeOK, ArtifactsAreSound, Stale
<1>7. CASE Admit(p)
  BY <1>7 DEF Admit, Refuse, Report, Goto, store, TypeOK, ArtifactsAreSound, Stale
<1>8. CASE Lock(p)
  BY <1>8 DEF Lock, Goto, store, local, TypeOK, ArtifactsAreSound, Stale
<1>9. CASE LockFails(p)
  BY <1>9 DEF LockFails, Report, Goto, store, TypeOK, ArtifactsAreSound, Stale
<1>10. CASE Private(p)
  BY <1>10 DEF Private, Goto, TypeOK, ArtifactsAreSound, Stale
<1>11. CASE Begin(p)
  BY <1>11 DEF Begin, Break, Report, Goto, TypeOK, ArtifactsAreSound, Stale
<1>12. CASE Detach(p)
  <2>1. /\ input' = input /\ seen' = seen /\ private' = private /\ todo' = todo
        /\ pc[p] = "build" /\ (pc'[p] = "broken" \/ pc'[p] = "write")
    BY <1>12 DEF Detach, Break, Goto, TypeOK
  <2>2. Key(p)' = Key(p) /\ Place(p)' = Place(p)
    BY <2>1
  <2>3. ASSUME NEW g \in Files
        PROVE  art'[Place(p)][g] = art[Place(p)][g] \/ art'[Place(p)][g] = Partial
    <3>1. CASE art' = art
      BY <3>1
    <3>2. ASSUME NEW f \in Files, art' = [art EXCEPT ![Place(p)][f] = Partial]
          PROVE  art'[Place(p)][g] = art[Place(p)][g] \/ art'[Place(p)][g] = Partial
      BY <3>2 DEF TypeOK, Digests
    <3> QED BY <1>12, <3>1, <3>2, SMTT(30) DEF Detach, TypeOK
  <2>4. ASSUME NEW g \in Files \ todo'[p], pc'[p] = "write"
        PROVE  art'[Place(p)][g] = Partial \/ art'[Place(p)][g] = Key(p)[g] \/ Stale(p, g)
    BY <2>1, <2>3, <2>4 DEF ArtifactsAreSound
  <2> QED BY <2>1, <2>2, <2>4 DEF ArtifactsAreSound, Stale
<1>13. CASE Write(p)
  <2> DEFINE f == at[p]
             output == IF f \in Interfaces THEN Key(p)[f] ELSE input[f].version
             ok == art' = [art EXCEPT ![Place(p)][f] = output]
  <2>1. input' = input /\ seen' = seen /\ private' = private /\ pc[p] = "write"
    BY <1>13 DEF Write
  <2>2. Key(p)' = Key(p) /\ Place(p)' = Place(p)
    BY <2>1
  <2>3. CASE pc'[p] = "broken"
    BY <2>3 DEF ArtifactsAreSound
  <2>4. CASE pc'[p] # "broken"
    <3>1. /\ ok
          /\ todo' = [todo EXCEPT ![p] = @ \ {f}]
          /\ pc'[p] = IF todo[p] = {f} THEN "inventory" ELSE "build"
      BY <1>13, <2>4 DEF Write, Break, Goto, TypeOK
    <3>2. todo'[p] = todo[p] \ {f}
      BY <3>1 DEF TypeOK
    <3>3. pc'[p] = "inventory" => todo'[p] = {}
      BY <3>1, <3>2
    <3>4. ASSUME NEW g \in Files \ todo'[p]
          PROVE  art'[Place(p)][g] = Partial \/ art'[Place(p)][g] = Key(p)[g] \/ Stale(p, g)
      <4>1. CASE g = f
        <5>1. art'[Place(p)][g] = output
          BY <3>1, <4>1 DEF TypeOK, Digests
        <5>2. ~Stale(p, g) => input[g].version = Key(p)[g]
          BY DEF SeenIsPast, Key
        <5> QED BY <4>1, <5>1, <5>2
      <4>2. CASE g # f
        <5>1. art'[Place(p)][g] = art[Place(p)][g]
          BY <3>1, <4>2 DEF TypeOK, Digests
        <5>2. g \in Files \ todo[p]
          BY <3>2, <3>4, <4>2
        <5> QED BY <2>1, <5>1, <5>2 DEF ArtifactsAreSound
      <4> QED BY <4>1, <4>2
    <3> HIDE DEF ok
    <3> QED BY <2>1, <2>2, <3>3, <3>4 DEF ArtifactsAreSound, Stale
  <2> QED BY <2>3, <2>4
<1>14. CASE Inventory(p)
  BY <1>14 DEF Inventory, Break, Report, Goto, store, TypeOK, ArtifactsAreSound, Stale
<1>15. CASE Recheck(p)
  BY <1>15 DEF Recheck, Abandon, Break, Report, Goto, TypeOK, ArtifactsAreSound, Stale
<1>16. CASE OpenPending(p)
  BY <1>16 DEF OpenPending, Abandon, Break, Report, Goto, TypeOK, ArtifactsAreSound, Stale
<1>17. CASE WritePending(p)
  BY <1>17 DEF WritePending, Abandon, Break, Report, Goto, TypeOK, ArtifactsAreSound, Stale
<1>18. CASE Validate(p)
  BY <1>18 DEF Validate, Abandon, Break, Report, Goto, TypeOK, ArtifactsAreSound, Stale
<1>19. CASE Publish(p)
  BY <1>19 DEF Publish, Abandon, Break, Report, Goto, TypeOK, ArtifactsAreSound, Stale
<1>20. CASE Unlock(p)
  BY <1>20 DEF Unlock, Unlocked, Goto, store, local, TypeOK, ArtifactsAreSound, Stale
<1>21. CASE Broken(p)
  BY <1>21 DEF Broken, Unlocked, Goto, store, local, TypeOK, ArtifactsAreSound, Stale
<1>22. CASE Finish(p)
  BY <1>22 DEF Finish, Gone, Unlocked, Goto, TypeOK, ArtifactsAreSound, Stale
<1>23. CASE Crash(p)
  BY <1>23 DEF Crash, Gone, Unlocked, Goto, TypeOK, ArtifactsAreSound, Stale
<1> QED BY <1>1, <1>2, <1>3, <1>4, <1>5, <1>6, <1>7, <1>8, <1>9, <1>10, <1>11, <1>12, <1>13, <1>14, <1>15, <1>16, <1>17, <1>18, <1>19, <1>20, <1>21, <1>22, <1>23 DEF Progress


(* another command's step,                                                 *)
LEMMA OtherArtifacts ==
    ASSUME TypeOK, OwnersHold, NEW p \in Commands, NEW q \in Commands, q # p,
           ArtifactsAreSound(q), Start(p) \/ Progress(p) \/ Crash(p)
    PROVE  ArtifactsAreSound(q)'
<1>1. /\ pc'[q] = pc[q] /\ todo'[q] = todo[q] /\ seen'[q] = seen[q] /\ private'[q] = private[q]
      /\ input' = input
  BY Locality, SeenStep
<1>2. Key(q)' = Key(q) /\ Place(q)' = Place(q)
  BY <1>1, KeyFrame
<1>3. CASE pc[q] \in {"build", "write", "inventory"}
  <2>1. art'[Place(q)] = art[Place(q)]
    BY <1>3, OwnedIsUntouched DEF Owning, Building
  <2> QED BY <1>1, <1>2, <2>1 DEF ArtifactsAreSound, Stale
<1>4. CASE pc[q] \notin {"build", "write", "inventory"}
  BY <1>1, <1>4 DEF ArtifactsAreSound
<1> QED BY <1>3, <1>4

(* and the environment's.                                                  *)
LEMMA EnvironmentArtifacts ==
    ASSUME TypeOK, SeenIsPast, NEW q \in Commands, ArtifactsAreSound(q), Environment
    PROVE  ArtifactsAreSound(q)'
<1>1. pc' = pc /\ todo' = todo /\ seen' = seen /\ private' = private
  BY DEF Environment, Edit, Corrupt, OrphanOpens, OrphanEnds, local
<1>2. Key(q)' = Key(q) /\ Place(q)' = Place(q)
  BY <1>1, KeyFrame
<1>3. ASSUME NEW f \in Files, Edit(f) PROVE ArtifactsAreSound(q)'
  <2>1. art' = art
    BY <1>3 DEF Edit, store
  <2>2. ASSUME NEW g \in Files, Stale(q, g) PROVE Stale(q, g)'
    <3>1. input'[g] = input[g] \/ (g = f /\ input'[g].stamp = input[g].stamp + 1)
      BY <1>3 DEF Edit, TypeOK
    <3>2. seen[q][g].stamp <= input[g].stamp /\ input[g].stamp \in Nat /\ seen[q][g].stamp \in Nat
      BY DEF SeenIsPast, TypeOK, Stamped
    <3> QED BY <1>1, <2>2, <3>1, <3>2 DEF Stale
  <2> QED BY <1>1, <1>2, <2>1, <2>2 DEF ArtifactsAreSound
<1>4. ASSUME NEW k \in Keys, NEW f \in Files,
             Corrupt(k, f) \/ OrphanOpens(k, f) \/ OrphanEnds(k, f)
      PROVE  ArtifactsAreSound(q)'
  <2>1. input' = input /\ (art' = [art EXCEPT ![k][f] = Partial] \/ art' = [art EXCEPT ![k][f] = input[f].version])
    BY <1>4 DEF Corrupt, OrphanOpens, OrphanEnds
  <2>2. Place(q) \in Places
    BY KeyType
  <2>3. ASSUME NEW g \in Files
        PROVE  \/ art'[Place(q)][g] = art[Place(q)][g]
               \/ art'[Place(q)][g] = Partial
               \/ art'[Place(q)][g] = input[g].version
    <3>1. ASSUME NEW v, art' = [art EXCEPT ![k][f] = v]
          PROVE  art'[Place(q)][g] = art[Place(q)][g] \/ (g = f /\ art'[Place(q)][g] = v)
      BY <2>2, <3>1 DEF TypeOK, Digests
    <3> QED BY <2>1, <3>1
  <2>4. ASSUME NEW g \in Files PROVE ~Stale(q, g) => input[g].version = Key(q)[g]
    BY DEF SeenIsPast, Key
  <2> QED BY <1>1, <1>2, <2>1, <2>3, <2>4 DEF ArtifactsAreSound, Stale
<1> QED BY <1>3, <1>4 DEF Environment

(* The inventory is sound after a command's own step,                      *)
LEMMA OwnInventory ==
    ASSUME TypeOK, SeenIsPast, NEW p \in Commands, ArtifactsAreSound(p), InventoryIsSound(p),
           Start(p) \/ Progress(p) \/ Crash(p)
    PROVE  InventoryIsSound(p)'
<1> USE KeyType, KeyFrame
<1>1. CASE Start(p)
  BY <1>1 DEF Start, Goto, store, TypeOK, InventoryIsSound, Stale
<1>2. CASE RefuseRoot(p)
  BY <1>2 DEF RefuseRoot, Refuse, Report, Goto, store, TypeOK, InventoryIsSound, Stale
<1>3. CASE ResolveFile(p)
  BY <1>3 DEF ResolveFile, store, TypeOK, InventoryIsSound, Stale
<1>4. CASE Resolved(p)
  BY <1>4 DEF Resolved, Goto, store, local, TypeOK, InventoryIsSound, Stale
<1>5. CASE Find(p)
  BY <1>5 DEF Find, LookupResult, Unlocked, Refuse, Report, Goto, store, TypeOK, InventoryIsSound, Stale
<1>6. CASE Check(p)
  BY <1>6 DEF Check, LookupResult, Unlocked, Refuse, Report, Goto, store, TypeOK, InventoryIsSound, Stale
<1>7. CASE Admit(p)
  BY <1>7 DEF Admit, Refuse, Report, Goto, store, TypeOK, InventoryIsSound, Stale
<1>8. CASE Lock(p)
  BY <1>8 DEF Lock, Goto, store, local, TypeOK, InventoryIsSound, Stale
<1>9. CASE LockFails(p)
  BY <1>9 DEF LockFails, Report, Goto, store, TypeOK, InventoryIsSound, Stale
<1>10. CASE Private(p)
  BY <1>10 DEF Private, Goto, TypeOK, InventoryIsSound, Stale
<1>11. CASE Begin(p)
  BY <1>11 DEF Begin, Break, Report, Goto, TypeOK, InventoryIsSound, Stale
<1>12. CASE Detach(p)
  BY <1>12 DEF Detach, Break, Report, Goto, TypeOK, InventoryIsSound, Stale
<1>13. CASE Write(p)
  BY <1>13 DEF Write, Break, Report, Goto, TypeOK, InventoryIsSound, Stale
<1>14. CASE Inventory(p)
  <2> DEFINE made == art[Place(p)]
  <2>1. input' = input /\ seen' = seen /\ private' = private /\ pc[p] = "inventory"
    BY <1>14 DEF Inventory
  <2>2. Key(p)' = Key(p)
    BY <2>1
  <2>3. CASE pc'[p] = "broken"
    BY <2>3 DEF InventoryIsSound
  <2>4. CASE pc'[p] # "broken"
    <3>1. /\ \A f \in Files : made[f] # Partial
          /\ snap' = [snap EXCEPT ![p] = made]
          /\ todo' = [todo EXCEPT ![p] = Files]
          /\ pc'[p] = "recheck"
      BY <1>14, <2>4 DEF Inventory, Break, Goto, TypeOK
    <3>2. snap'[p] = made /\ todo'[p] = Files /\ made \in Digests
      BY <3>1 DEF TypeOK
    <3>3. \A f \in Files : made[f] = Key(p)[f] \/ Stale(p, f)
      BY <2>1, <3>1 DEF ArtifactsAreSound
    <3> HIDE DEF made
    <3> QED BY <2>1, <2>2, <3>1, <3>2, <3>3 DEF InventoryIsSound, Stale
  <2> QED BY <2>3, <2>4
<1>15. CASE Recheck(p)
  <2>1. /\ input' = input /\ seen' = seen /\ snap' = snap
        /\ pc[p] = "recheck"
    BY <1>15 DEF Recheck
  <2>2. Key(p)' = Key(p)
    BY <2>1
  <2>3. CASE pc'[p] = "broken"
    BY <2>3 DEF InventoryIsSound
  <2>4. CASE pc'[p] = "open"
    <3>1. todo[p] = {}
      BY <1>15, <2>1, <2>4 DEF Recheck, Abandon, Break, Goto, TypeOK
    <3> QED BY <2>1, <2>2, <2>4, <3>1 DEF InventoryIsSound
  <2>5. ASSUME NEW f \in todo[p], ~Stale(p, f), pc' = pc,
               todo' = [todo EXCEPT ![p] = @ \ {f}]
        PROVE  InventoryIsSound(p)'
    <3>1. todo'[p] = todo[p] \ {f}
      BY <2>5 DEF TypeOK
    <3> QED BY <2>1, <2>2, <2>5, <3>1 DEF InventoryIsSound, Stale
  <2>6. \/ pc'[p] = "broken" \/ pc'[p] = "open"
        \/ \E f \in todo[p] : /\ ~Stale(p, f) /\ pc' = pc
                            /\ todo' = [todo EXCEPT ![p] = @ \ {f}]
    <3>1. \/ Abandon(p, 2151) \/ Goto(p, "open")
          \/ \E f \in todo[p] : /\ input[f].stamp = seen[p][f].stamp /\ pc' = pc
                              /\ todo' = [todo EXCEPT ![p] = @ \ {f}]
      BY <1>15 DEF Recheck
    <3>2. Abandon(p, 2151) => pc'[p] = "broken"
      BY DEF Abandon, Break, Goto, TypeOK
    <3>3. Goto(p, "open") => pc'[p] = "open"
      BY DEF Goto, TypeOK
    <3> QED BY <3>1, <3>2, <3>3 DEF Stale
  <2> QED BY <2>3, <2>4, <2>5, <2>6
<1>16. CASE OpenPending(p)
  BY <1>16 DEF OpenPending, Abandon, Break, Report, Goto, TypeOK, InventoryIsSound, Stale
<1>17. CASE WritePending(p)
  BY <1>17 DEF WritePending, Abandon, Break, Report, Goto, TypeOK, InventoryIsSound, Stale
<1>18. CASE Validate(p)
  BY <1>18 DEF Validate, Abandon, Break, Report, Goto, TypeOK, InventoryIsSound, Stale
<1>19. CASE Publish(p)
  BY <1>19 DEF Publish, Abandon, Break, Report, Goto, TypeOK, InventoryIsSound, Stale
<1>20. CASE Unlock(p)
  BY <1>20 DEF Unlock, Unlocked, Goto, store, local, TypeOK, InventoryIsSound, Stale
<1>21. CASE Broken(p)
  BY <1>21 DEF Broken, Unlocked, Goto, store, local, TypeOK, InventoryIsSound, Stale
<1>22. CASE Finish(p)
  BY <1>22 DEF Finish, Gone, Unlocked, Goto, TypeOK, InventoryIsSound, Stale
<1>23. CASE Crash(p)
  BY <1>23 DEF Crash, Gone, Unlocked, Goto, TypeOK, InventoryIsSound, Stale
<1> QED BY <1>1, <1>2, <1>3, <1>4, <1>5, <1>6, <1>7, <1>8, <1>9, <1>10, <1>11, <1>12, <1>13, <1>14, <1>15, <1>16, <1>17, <1>18, <1>19, <1>20, <1>21, <1>22, <1>23 DEF Progress

(* after another command's,                                                *)
LEMMA OtherInventory ==
    ASSUME TypeOK, OwnersHold, NEW p \in Commands, NEW q \in Commands, q # p,
           InventoryIsSound(q), Start(p) \/ Progress(p) \/ Crash(p)
    PROVE  InventoryIsSound(q)'
<1>1. /\ pc'[q] = pc[q] /\ todo'[q] = todo[q] /\ seen'[q] = seen[q] /\ private'[q] = private[q]
      /\ snap'[q] = snap[q] /\ input' = input
  BY Locality, SeenStep
<1>2. Key(q)' = Key(q) /\ Place(q)' = Place(q)
  BY <1>1, KeyFrame
<1>3. pc[q] \in {"validate", "publish"} => pending'[Place(q)] = pending[Place(q)]
  BY OwnedIsUntouched DEF Owning, Building
<1> QED BY <1>1, <1>2, <1>3 DEF InventoryIsSound, Stale

(* and after the environment's.                                            *)
LEMMA EnvironmentInventory ==
    ASSUME TypeOK, SeenIsPast, NEW q \in Commands, InventoryIsSound(q), Environment
    PROVE  InventoryIsSound(q)'
<1>1. /\ pc' = pc /\ todo' = todo /\ seen' = seen /\ private' = private /\ snap' = snap
      /\ pending' = pending
  BY DEF Environment, Edit, Corrupt, OrphanOpens, OrphanEnds, local, store
<1>2. Key(q)' = Key(q) /\ Place(q)' = Place(q)
  BY <1>1, KeyFrame
<1>3. ASSUME NEW g \in Files, Stale(q, g) PROVE Stale(q, g)'
  <2>1. input'[g] = input[g] \/ input'[g].stamp = input[g].stamp + 1
    <3>1. ASSUME NEW f \in Files, Edit(f)
          PROVE  input'[g] = input[g] \/ input'[g].stamp = input[g].stamp + 1
      BY <3>1 DEF Edit, TypeOK
    <3> QED BY <3>1 DEF Environment, Corrupt, OrphanOpens, OrphanEnds
  <2>2. seen[q][g].stamp <= input[g].stamp /\ input[g].stamp \in Nat /\ seen[q][g].stamp \in Nat
    BY DEF SeenIsPast, TypeOK, Stamped
  <2> QED BY <1>1, <1>3, <2>1, <2>2 DEF Stale
<1> QED BY <1>1, <1>2, <1>3 DEF InventoryIsSound

(* A completion record changes only when its builder invalidates it or      *)
(* publishes its pending record.                                           *)
LEMMA RecordStep ==
    ASSUME TypeOK, NEW p \in Commands, NEW k \in Keys, Start(p) \/ Progress(p) \/ Crash(p)
    PROVE  \/ manifest'[k] = manifest[k]
           \/ manifest'[k] = NoManifest
           \/ /\ pc[p] = "publish" /\ k = Place(p)
              /\ manifest'[k] = pending[k] /\ art'[k] = art[k]
<1> USE KeyType
<1>1. CASE Start(p)
  BY <1>1 DEF Start, Goto, store, TypeOK
<1>2. CASE RefuseRoot(p)
  BY <1>2 DEF RefuseRoot, Refuse, Report, Goto, store, TypeOK
<1>3. CASE ResolveFile(p)
  BY <1>3 DEF ResolveFile, store, TypeOK
<1>4. CASE Resolved(p)
  BY <1>4 DEF Resolved, Goto, store, local, TypeOK
<1>5. CASE Find(p)
  BY <1>5 DEF Find, LookupResult, Unlocked, Refuse, Report, Goto, store, TypeOK
<1>6. CASE Check(p)
  BY <1>6 DEF Check, LookupResult, Unlocked, Refuse, Report, Goto, store, TypeOK
<1>7. CASE Admit(p)
  BY <1>7 DEF Admit, Refuse, Report, Goto, store, TypeOK
<1>8. CASE Lock(p)
  BY <1>8 DEF Lock, Goto, store, local, TypeOK
<1>9. CASE LockFails(p)
  BY <1>9 DEF LockFails, Report, Goto, store, TypeOK
<1>10. CASE Private(p)
  <2>1. manifest' = manifest \/ manifest' = [manifest EXCEPT ![p] = NoManifest]
    BY <1>10 DEF Private
  <2> QED BY <2>1 DEF TypeOK, Places
<1>11. CASE Begin(p)
  <2>1. manifest' = manifest \/ manifest' = [manifest EXCEPT ![Place(p)] = NoManifest]
    BY <1>11 DEF Begin
  <2> QED BY <2>1 DEF TypeOK, Places
<1>12. CASE Detach(p)
  BY <1>12 DEF Detach, Break, Report, Goto, TypeOK
<1>13. CASE Write(p)
  BY <1>13 DEF Write, Break, Report, Goto, TypeOK
<1>14. CASE Inventory(p)
  BY <1>14 DEF Inventory, Break, Report, Goto, store, TypeOK
<1>15. CASE Recheck(p)
  BY <1>15 DEF Recheck, Abandon, Break, Report, Goto, TypeOK
<1>16. CASE OpenPending(p)
  BY <1>16 DEF OpenPending, Abandon, Break, Report, Goto, TypeOK
<1>17. CASE WritePending(p)
  BY <1>17 DEF WritePending, Abandon, Break, Report, Goto, TypeOK
<1>18. CASE Validate(p)
  BY <1>18 DEF Validate, Abandon, Break, Report, Goto, TypeOK
<1>19. CASE Publish(p)
  <2>1. /\ pc[p] = "publish" /\ art' = art
        /\ manifest' = manifest \/ manifest' = [manifest EXCEPT ![Place(p)] = pending[Place(p)]]
    BY <1>19 DEF Publish
  <2> QED BY <2>1 DEF TypeOK, Places
<1>20. CASE Unlock(p)
  BY <1>20 DEF Unlock, Unlocked, Goto, store, local, TypeOK
<1>21. CASE Broken(p)
  BY <1>21 DEF Broken, Unlocked, Goto, store, local, TypeOK
<1>22. CASE Finish(p)
  BY <1>22 DEF Finish, Gone, Unlocked, Goto, TypeOK
<1>23. CASE Crash(p)
  BY <1>23 DEF Crash, Gone, Unlocked, Goto, TypeOK
<1> QED BY <1>1, <1>2, <1>3, <1>4, <1>5, <1>6, <1>7, <1>8, <1>9, <1>10, <1>11, <1>12, <1>13, <1>14, <1>15, <1>16, <1>17, <1>18, <1>19, <1>20, <1>21, <1>22, <1>23 DEF Progress

(* What a sound builder is about to publish is its key.                    *)
LEMMA PublishedIsKey ==
    ASSUME TypeOK, NEW p \in Commands, InventoryIsSound(p), pc[p] = "publish", Place(p) \in Keys
    PROVE  Place(p) = Key(p) /\ pending[Place(p)] = Key(p)
<1>1. Place(p) = Key(p) /\ Key(p) \in Keys
  BY KeyType, ConstantsAssumption DEF Place
<1>2. pending[Place(p)] = snap[p] /\ snap[p] \in Digests /\ \A f \in Files : snap[p][f] = Key(p)[f]
  BY DEF InventoryIsSound
<1>3. snap[p] = Key(p)
  BY <1>1, <1>2 DEF Keys, Digests
<1> QED BY <1>1, <1>2, <1>3

(* Every step keeps the completion records exact.                          *)
LEMMA ExactStep ==
    ASSUME TypeOK, \A p \in Commands : InventoryIsSound(p), CompletionRecordIsExact, [Next]_vars
    PROVE  CompletionRecordIsExact'
<1>1. CASE UNCHANGED vars
  BY <1>1 DEF vars, store, CompletionRecordIsExact
<1>2. ASSUME NEW p \in Commands, Start(p) \/ Progress(p) \/ Crash(p), NEW k \in Keys
      PROVE  manifest'[k] \in {NoManifest, k}
  <2>1. manifest[k] \in {NoManifest, k}
    BY DEF CompletionRecordIsExact
  <2>2. pc[p] = "publish" /\ k = Place(p) => pending[k] = k
    BY PublishedIsKey
  <2> QED BY <1>2, <2>1, <2>2, RecordStep
<1>3. CASE Environment
  BY <1>3 DEF Environment, Edit, Corrupt, OrphanOpens, OrphanEnds, store, CompletionRecordIsExact
<1> QED BY <1>1, <1>2, <1>3 DEF Next, CompletionRecordIsExact

(* The strengthened invariant is inductive,                                *)
LEMMA PublicationStep ==
    ASSUME TypeOK, PublicationInv, [Next]_vars PROVE PublicationInv'
<1> USE DEF PublicationInv
<1>1. OwnersHold' /\ SeenIsPast' /\ CompletionRecordIsExact'
  BY OwnersHoldStep, SeenIsPastStep, ExactStep
<1>2. ASSUME NEW q \in Commands PROVE ArtifactsAreSound(q)' /\ InventoryIsSound(q)'
  <2>1. CASE UNCHANGED vars
    <3>1. Key(q)' = Key(q) /\ Place(q)' = Place(q)
      BY <2>1, KeyFrame DEF vars, local
    <3> QED BY <2>1, <3>1 DEF vars, store, local, ArtifactsAreSound, InventoryIsSound, Stale
  <2>2. ASSUME NEW p \in Commands, Start(p) \/ Progress(p) \/ Crash(p)
        PROVE  ArtifactsAreSound(q)' /\ InventoryIsSound(q)'
    BY <2>2, OwnArtifacts, OtherArtifacts, OwnInventory, OtherInventory
  <2>3. CASE Environment
    BY <2>3, EnvironmentArtifacts, EnvironmentInventory
  <2> QED BY <2>1, <2>2, <2>3 DEF Next
<1> QED BY <1>1, <1>2

(* ... holds initially,                                                    *)
LEMMA PublicationInit == Init => PublicationInv
<1> SUFFICES ASSUME Init PROVE PublicationInv
  OBVIOUS
<1>1. OwnersHold /\ CompletionRecordIsExact
  BY DEF Init, OwnersHold, CompletionRecordIsExact, Owning, Building, Places
<1>2. SeenIsPast
  BY DEF Init, SeenIsPast, Stale, Initial
<1>3. ASSUME NEW p \in Commands PROVE ArtifactsAreSound(p) /\ InventoryIsSound(p)
  BY DEF Init, ArtifactsAreSound, InventoryIsSound
<1> QED BY <1>1, <1>2, <1>3 DEF PublicationInv

(* ... and so in every reachable state.                                    *)
LEMMA Publication == Spec => []PublicationInv
<1>1. TypeOK /\ PublicationInv /\ [Next]_vars => PublicationInv'
  BY PublicationStep
<1> QED BY <1>1, PublicationInit, Typing, PTL DEF Spec

(* Every completion record that is ever published names exactly the inputs  *)
(* of its key, even if build children survive their command.               *)
THEOREM RecordsAreExact == Spec => []CompletionRecordIsExact
<1>1. PublicationInv => CompletionRecordIsExact
  BY DEF PublicationInv
<1> QED BY <1>1, Publication, PTL

-----------------------------------------------------------------------------
(* Completed profiles stay intact if build children die with their command. *)

(* No child survives.                                                      *)
LEMMA NoOrphans == ASSUME ChildrenDie PROVE Spec => [](orphans = {})
<1>1. Init => orphans = {}
  BY DEF Init
<1>2. TypeOK /\ orphans = {} /\ [Next]_vars => (orphans = {})'
  <2> SUFFICES ASSUME TypeOK, orphans = {}, [Next]_vars PROVE orphans' = {}
    OBVIOUS
  <2>1. CASE UNCHANGED vars
    BY <2>1 DEF vars, store
  <2>2. ASSUME NEW p \in Commands, Start(p) \/ Progress(p) \/ Crash(p) PROVE orphans' = {}
<3>1. CASE Start(p)
  BY <3>1, <2>2 DEF Start, Goto, store
<3>2. CASE RefuseRoot(p)
  BY <3>2, <2>2 DEF RefuseRoot, Refuse, Report, Goto, store
<3>3. CASE ResolveFile(p)
  BY <3>3, <2>2 DEF ResolveFile, store
<3>4. CASE Resolved(p)
  BY <3>4, <2>2 DEF Resolved, Goto, store, local
<3>5. CASE Find(p)
  BY <3>5, <2>2 DEF Find, LookupResult, Unlocked, Refuse, Report, Goto, store
<3>6. CASE Check(p)
  BY <3>6, <2>2 DEF Check, LookupResult, Unlocked, Refuse, Report, Goto, store
<3>7. CASE Admit(p)
  BY <3>7, <2>2 DEF Admit, Refuse, Report, Goto, store
<3>8. CASE Lock(p)
  BY <3>8, <2>2 DEF Lock, Goto, store, local
<3>9. CASE LockFails(p)
  BY <3>9, <2>2 DEF LockFails, Report, Goto, store
<3>10. CASE Private(p)
  BY <3>10, <2>2 DEF Private, Goto
<3>11. CASE Begin(p)
  BY <3>11, <2>2 DEF Begin, Break, Report, Goto
<3>12. CASE Detach(p)
  BY <3>12, <2>2 DEF Detach, Break, Report, Goto
<3>13. CASE Write(p)
  BY <3>13, <2>2 DEF Write, Break, Report, Goto
<3>14. CASE Inventory(p)
  BY <3>14, <2>2 DEF Inventory, Break, Report, Goto, store
<3>15. CASE Recheck(p)
  BY <3>15, <2>2 DEF Recheck, Abandon, Break, Report, Goto
<3>16. CASE OpenPending(p)
  BY <3>16, <2>2 DEF OpenPending, Abandon, Break, Report, Goto
<3>17. CASE WritePending(p)
  BY <3>17, <2>2 DEF WritePending, Abandon, Break, Report, Goto
<3>18. CASE Validate(p)
  BY <3>18, <2>2 DEF Validate, Abandon, Break, Report, Goto
<3>19. CASE Publish(p)
  BY <3>19, <2>2 DEF Publish, Abandon, Break, Report, Goto
<3>20. CASE Unlock(p)
  BY <3>20, <2>2 DEF Unlock, Unlocked, Goto, store, local
<3>21. CASE Broken(p)
  BY <3>21, <2>2 DEF Broken, Unlocked, Goto, store, local
<3>22. CASE Finish(p)
  BY <3>22, <2>2 DEF Finish, Gone, Unlocked, Goto
<3>23. CASE Crash(p)
  BY <3>23, <2>2 DEF Crash, Gone, Unlocked, Goto
<3> QED BY <2>2, <3>1, <3>2, <3>3, <3>4, <3>5, <3>6, <3>7, <3>8, <3>9, <3>10, <3>11, <3>12, <3>13, <3>14, <3>15, <3>16, <3>17, <3>18, <3>19, <3>20, <3>21, <3>22, <3>23 DEF Progress
  <2>3. CASE Environment
    BY <2>3 DEF Environment, Edit, Corrupt, OrphanOpens, OrphanEnds, store
  <2> QED BY <2>1, <2>2, <2>3 DEF Next
<1> QED BY <1>1, <1>2, Typing, PTL DEF Spec

(* A builder's own step keeps its profile invalidated until it publishes.   *)
LEMMA OwnInvalidated ==
    ASSUME TypeOK, NEW p \in Commands, InventoryIsSound(p), BuildsAreInvalidated,
           Start(p) \/ Progress(p) \/ Crash(p), pc'[p] \in Building, ~private'[p]
    PROVE  /\ manifest'[Key(p)'] = NoManifest
           /\ pc'[p] = "publish" => art'[Key(p)'] = pending'[Key(p)']
<1> USE KeyType, KeyFrame
<1>1. CASE Start(p)
  BY <1>1 DEF Start, Goto, store, TypeOK, BuildsAreInvalidated, Building, Place, Places
<1>2. CASE RefuseRoot(p)
  BY <1>2 DEF RefuseRoot, Refuse, Report, Goto, store, TypeOK, BuildsAreInvalidated, Building, Place, Places
<1>3. CASE ResolveFile(p)
  BY <1>3 DEF ResolveFile, store, TypeOK, BuildsAreInvalidated, Building, Place, Places
<1>4. CASE Resolved(p)
  BY <1>4 DEF Resolved, Goto, store, local, TypeOK, BuildsAreInvalidated, Building, Place, Places
<1>5. CASE Find(p)
  BY <1>5 DEF Find, LookupResult, Unlocked, Refuse, Report, Goto, store, TypeOK, BuildsAreInvalidated, Building, Place, Places
<1>6. CASE Check(p)
  BY <1>6 DEF Check, LookupResult, Unlocked, Refuse, Report, Goto, store, TypeOK, BuildsAreInvalidated, Building, Place, Places
<1>7. CASE Admit(p)
  BY <1>7 DEF Admit, Refuse, Report, Goto, store, TypeOK, BuildsAreInvalidated, Building, Place, Places
<1>8. CASE Lock(p)
  BY <1>8 DEF Lock, Goto, store, local, TypeOK, BuildsAreInvalidated, Building, Place, Places
<1>9. CASE LockFails(p)
  BY <1>9 DEF LockFails, Report, Goto, store, TypeOK, BuildsAreInvalidated, Building, Place, Places
<1>10. CASE Private(p)
  BY <1>10 DEF Private, Goto, TypeOK, BuildsAreInvalidated, Building, Place, Places
<1>11. CASE Begin(p)
  BY <1>11 DEF Begin, Break, Report, Goto, TypeOK, BuildsAreInvalidated, Building, Place, Places
<1>12. CASE Detach(p)
  BY <1>12 DEF Detach, Break, Report, Goto, TypeOK, BuildsAreInvalidated, Building, Place, Places
<1>13. CASE Write(p)
  BY <1>13 DEF Write, Break, Report, Goto, TypeOK, BuildsAreInvalidated, Building, Place, Places
<1>14. CASE Inventory(p)
  BY <1>14 DEF Inventory, Break, Report, Goto, store, TypeOK, BuildsAreInvalidated, Building, Place, Places
<1>15. CASE Recheck(p)
  BY <1>15 DEF Recheck, Abandon, Break, Report, Goto, TypeOK, BuildsAreInvalidated, Building, Place, Places
<1>16. CASE OpenPending(p)
  BY <1>16 DEF OpenPending, Abandon, Break, Report, Goto, TypeOK, BuildsAreInvalidated, Building, Place, Places
<1>17. CASE WritePending(p)
  BY <1>17 DEF WritePending, Abandon, Break, Report, Goto, TypeOK, BuildsAreInvalidated, Building, Place, Places
<1>18. CASE Validate(p)
  <2>1. /\ seen' = seen /\ private' = private /\ art' = art /\ manifest' = manifest
        /\ pc[p] = "validate" /\ (pc'[p] = "broken" \/ pc'[p] = "publish")
    BY <1>18 DEF Validate, Abandon, Break, Goto, TypeOK
  <2>2. Key(p)' = Key(p) /\ Place(p) = Key(p)
    BY <2>1 DEF Place
  <2>3. manifest[Key(p)] = NoManifest
    BY <2>1 DEF BuildsAreInvalidated, Building
  <2>4. pc'[p] = "publish" => /\ \A f \in Files : art[Key(p)][f] = pending[Key(p)][f]
                             /\ pending' = pending
    BY <1>18, <2>2 DEF Validate, Abandon, Break, Goto, TypeOK, Matches
  <2>5. art[Key(p)] \in Digests /\ pending[Key(p)] \in Digests
    BY <2>1, <2>2 DEF InventoryIsSound, TypeOK
  <2>6. pc'[p] = "publish" => art[Key(p)] = pending[Key(p)]
    BY <2>4, <2>5 DEF Digests
  <2> QED BY <2>1, <2>2, <2>3, <2>4, <2>6
<1>19. CASE Publish(p)
  BY <1>19 DEF Publish, Abandon, Break, Report, Goto, TypeOK, BuildsAreInvalidated, Building, Place, Places
<1>20. CASE Unlock(p)
  BY <1>20 DEF Unlock, Unlocked, Goto, store, local, TypeOK, BuildsAreInvalidated, Building, Place, Places
<1>21. CASE Broken(p)
  BY <1>21 DEF Broken, Unlocked, Goto, store, local, TypeOK, BuildsAreInvalidated, Building, Place, Places
<1>22. CASE Finish(p)
  BY <1>22 DEF Finish, Gone, Unlocked, Goto, TypeOK, BuildsAreInvalidated, Building, Place, Places
<1>23. CASE Crash(p)
  BY <1>23 DEF Crash, Gone, Unlocked, Goto, TypeOK, BuildsAreInvalidated, Building, Place, Places
<1> QED BY <1>1, <1>2, <1>3, <1>4, <1>5, <1>6, <1>7, <1>8, <1>9, <1>10, <1>11, <1>12, <1>13, <1>14, <1>15, <1>16, <1>17, <1>18, <1>19, <1>20, <1>21, <1>22, <1>23 DEF Progress

(* Every step keeps shared builds invalidated.                             *)
LEMMA InvalidatedStep ==
    ASSUME TypeOK, OwnersHold, \A p \in Commands : InventoryIsSound(p), orphans = {},
           BuildsAreInvalidated, [Next]_vars
    PROVE  BuildsAreInvalidated'
<1> SUFFICES ASSUME NEW q \in Commands, pc'[q] \in Building, ~private'[q]
             PROVE  /\ manifest'[Key(q)'] = NoManifest
                    /\ pc'[q] = "publish" => art'[Key(q)'] = pending'[Key(q)']
  BY DEF BuildsAreInvalidated
<1>1. CASE UNCHANGED vars
  <2>1. Key(q)' = Key(q)
    BY <1>1, KeyFrame DEF vars, local
  <2> QED BY <1>1, <2>1 DEF vars, store, local, BuildsAreInvalidated
<1>2. ASSUME NEW p \in Commands, Start(p) \/ Progress(p) \/ Crash(p), p # q
      PROVE  /\ manifest'[Key(q)'] = NoManifest
             /\ pc'[q] = "publish" => art'[Key(q)'] = pending'[Key(q)']
  <2>1. pc'[q] = pc[q] /\ private'[q] = private[q] /\ Key(q)' = Key(q) /\ Place(q) = Key(q)
    BY <1>2, Locality, KeyFrame DEF Place
  <2>2. art'[Key(q)] = art[Key(q)] /\ manifest'[Key(q)] = manifest[Key(q)] /\ pending'[Key(q)] = pending[Key(q)]
    BY <1>2, <2>1, OwnedIsUntouched DEF Owning
  <2> QED BY <2>1, <2>2 DEF BuildsAreInvalidated
<1>3. CASE Start(q) \/ Progress(q) \/ Crash(q)
  BY <1>3, OwnInvalidated
<1>4. CASE Environment
  <2>1. /\ pc' = pc /\ private' = private /\ manifest' = manifest /\ pending' = pending /\ seen' = seen
    BY <1>4 DEF Environment, Edit, Corrupt, OrphanOpens, OrphanEnds, store, local
  <2>2. Key(q)' = Key(q)
    BY <2>1, KeyFrame
  <2>3. manifest[Key(q)] = NoManifest
    BY <2>1 DEF BuildsAreInvalidated
  <2>4. art'[Key(q)] = art[Key(q)]
    <3>1. ASSUME NEW k \in Keys, NEW f \in Files, Corrupt(k, f) PROVE art'[Key(q)] = art[Key(q)]
      BY <2>3, <3>1 DEF Corrupt, TypeOK
    <3> QED BY <1>4, <3>1 DEF Environment, Edit, OrphanOpens, OrphanEnds, store
  <2> QED BY <2>1, <2>2, <2>3, <2>4 DEF BuildsAreInvalidated
<1> QED BY <1>1, <1>2, <1>3, <1>4 DEF Next

(* Nobody writes to a completed profile, and nobody but the environment     *)
(* damages one.                                                            *)
LEMMA CompletedIsUntouched ==
    ASSUME TypeOK, OwnersHold, BuildsAreInvalidated, NEW p \in Commands, NEW k \in Keys,
           Start(p) \/ Progress(p) \/ Crash(p), manifest[k] # NoManifest
    PROVE  /\ art'[k] = art[k]
           /\ k \in corrupted => k \in corrupted'
<1>1. k \in Places /\ k # p
  BY ConstantsAssumption DEF Places
<1>2. ASSUME k = Place(p) PROVE pc[p] \notin Building
  <2>1. ~private[p] /\ k = Key(p)
    BY <1>1, <1>2 DEF Place
  <2> QED BY <2>1 DEF BuildsAreInvalidated
<1>3. art'[k] = art[k]
  <2>1. CASE k # Place(p) \/ pc[p] \notin Owning
    BY <1>1, <2>1, Containment
  <2>2. CASE k = Place(p) /\ pc[p] \in {"begin", "unlock", "broken"}
<3>1. CASE Start(p)
  BY <3>1, <2>2 DEF Start, Goto, store, TypeOK
<3>2. CASE RefuseRoot(p)
  BY <3>2, <2>2 DEF RefuseRoot, Refuse, Report, Goto, store, TypeOK
<3>3. CASE ResolveFile(p)
  BY <3>3, <2>2 DEF ResolveFile, store, TypeOK
<3>4. CASE Resolved(p)
  BY <3>4, <2>2 DEF Resolved, Goto, store, local, TypeOK
<3>5. CASE Find(p)
  BY <3>5, <2>2 DEF Find, LookupResult, Unlocked, Refuse, Report, Goto, store, TypeOK
<3>6. CASE Check(p)
  BY <3>6, <2>2 DEF Check, LookupResult, Unlocked, Refuse, Report, Goto, store, TypeOK
<3>7. CASE Admit(p)
  BY <3>7, <2>2 DEF Admit, Refuse, Report, Goto, store, TypeOK
<3>8. CASE Lock(p)
  BY <3>8, <2>2 DEF Lock, Goto, store, local, TypeOK
<3>9. CASE LockFails(p)
  BY <3>9, <2>2 DEF LockFails, Report, Goto, store, TypeOK
<3>10. CASE Private(p)
  BY <3>10, <2>2 DEF Private, Goto, TypeOK
<3>11. CASE Begin(p)
  BY <3>11, <2>2 DEF Begin, Break, Report, Goto, TypeOK
<3>12. CASE Detach(p)
  BY <3>12, <2>2 DEF Detach, Break, Report, Goto, TypeOK
<3>13. CASE Write(p)
  BY <3>13, <2>2 DEF Write, Break, Report, Goto, TypeOK
<3>14. CASE Inventory(p)
  BY <3>14, <2>2 DEF Inventory, Break, Report, Goto, store, TypeOK
<3>15. CASE Recheck(p)
  BY <3>15, <2>2 DEF Recheck, Abandon, Break, Report, Goto, TypeOK
<3>16. CASE OpenPending(p)
  BY <3>16, <2>2 DEF OpenPending, Abandon, Break, Report, Goto, TypeOK
<3>17. CASE WritePending(p)
  BY <3>17, <2>2 DEF WritePending, Abandon, Break, Report, Goto, TypeOK
<3>18. CASE Validate(p)
  BY <3>18, <2>2 DEF Validate, Abandon, Break, Report, Goto, TypeOK
<3>19. CASE Publish(p)
  BY <3>19, <2>2 DEF Publish, Abandon, Break, Report, Goto, TypeOK
<3>20. CASE Unlock(p)
  BY <3>20, <2>2 DEF Unlock, Unlocked, Goto, store, local, TypeOK
<3>21. CASE Broken(p)
  BY <3>21, <2>2 DEF Broken, Unlocked, Goto, store, local, TypeOK
<3>22. CASE Finish(p)
  BY <3>22, <2>2 DEF Finish, Gone, Unlocked, Goto, TypeOK
<3>23. CASE Crash(p)
  BY <3>23, <1>1 DEF Crash, Gone, Unlocked, Goto, TypeOK
<3> QED BY <3>1, <3>2, <3>3, <3>4, <3>5, <3>6, <3>7, <3>8, <3>9, <3>10, <3>11, <3>12, <3>13, <3>14, <3>15, <3>16, <3>17, <3>18, <3>19, <3>20, <3>21, <3>22, <3>23 DEF Progress
  <2> QED BY <1>2, <2>1, <2>2 DEF Owning
<1>4. k # Place(p) \/ pc[p] # "publish"
  BY <1>2 DEF Building
<1>5. k \in corrupted => k \in corrupted'
<2>1. CASE Start(p)
  BY <2>1, <1>4 DEF Start, Goto, store
<2>2. CASE RefuseRoot(p)
  BY <2>2, <1>4 DEF RefuseRoot, Refuse, Report, Goto, store
<2>3. CASE ResolveFile(p)
  BY <2>3, <1>4 DEF ResolveFile, store
<2>4. CASE Resolved(p)
  BY <2>4, <1>4 DEF Resolved, Goto, store, local
<2>5. CASE Find(p)
  BY <2>5, <1>4 DEF Find, LookupResult, Unlocked, Refuse, Report, Goto, store
<2>6. CASE Check(p)
  BY <2>6, <1>4 DEF Check, LookupResult, Unlocked, Refuse, Report, Goto, store
<2>7. CASE Admit(p)
  BY <2>7, <1>4 DEF Admit, Refuse, Report, Goto, store
<2>8. CASE Lock(p)
  BY <2>8, <1>4 DEF Lock, Goto, store, local
<2>9. CASE LockFails(p)
  BY <2>9, <1>4 DEF LockFails, Report, Goto, store
<2>10. CASE Private(p)
  BY <2>10, <1>4 DEF Private, Goto
<2>11. CASE Begin(p)
  BY <2>11, <1>4 DEF Begin, Break, Report, Goto
<2>12. CASE Detach(p)
  BY <2>12, <1>4 DEF Detach, Break, Report, Goto
<2>13. CASE Write(p)
  BY <2>13, <1>4 DEF Write, Break, Report, Goto
<2>14. CASE Inventory(p)
  BY <2>14, <1>4 DEF Inventory, Break, Report, Goto, store
<2>15. CASE Recheck(p)
  BY <2>15, <1>4 DEF Recheck, Abandon, Break, Report, Goto
<2>16. CASE OpenPending(p)
  BY <2>16, <1>4 DEF OpenPending, Abandon, Break, Report, Goto
<2>17. CASE WritePending(p)
  BY <2>17, <1>4 DEF WritePending, Abandon, Break, Report, Goto
<2>18. CASE Validate(p)
  BY <2>18, <1>4 DEF Validate, Abandon, Break, Report, Goto
<2>19. CASE Publish(p)
  BY <2>19, <1>4 DEF Publish, Abandon, Break, Report, Goto
<2>20. CASE Unlock(p)
  BY <2>20, <1>4 DEF Unlock, Unlocked, Goto, store, local
<2>21. CASE Broken(p)
  BY <2>21, <1>4 DEF Broken, Unlocked, Goto, store, local
<2>22. CASE Finish(p)
  BY <2>22, <1>4 DEF Finish, Gone, Unlocked, Goto
<2>23. CASE Crash(p)
  BY <2>23, <1>4 DEF Crash, Gone, Unlocked, Goto
<2> QED BY <2>1, <2>2, <2>3, <2>4, <2>5, <2>6, <2>7, <2>8, <2>9, <2>10, <2>11, <2>12, <2>13, <2>14, <2>15, <2>16, <2>17, <2>18, <2>19, <2>20, <2>21, <2>22, <2>23 DEF Progress
<1> QED BY <1>3, <1>5

(* Every step keeps completed profiles intact.                             *)
LEMMA IntactStep ==
    ASSUME TypeOK, PublicationInv, orphans = {}, BuildsAreInvalidated,
           CompletedProfileIsIntact, [Next]_vars
    PROVE  CompletedProfileIsIntact'
<1> SUFFICES ASSUME NEW k \in Keys, manifest'[k] # NoManifest
             PROVE  art'[k] = manifest'[k] \/ k \in corrupted'
  BY DEF CompletedProfileIsIntact
<1>1. CASE UNCHANGED vars
  BY <1>1 DEF vars, store, CompletedProfileIsIntact
<1>2. ASSUME NEW p \in Commands, Start(p) \/ Progress(p) \/ Crash(p)
      PROVE  art'[k] = manifest'[k] \/ k \in corrupted'
  <2>1. CASE manifest'[k] = manifest[k]
    <3>1. art'[k] = art[k] /\ (k \in corrupted => k \in corrupted')
      BY <1>2, <2>1, CompletedIsUntouched DEF PublicationInv
    <3> QED BY <2>1, <3>1 DEF CompletedProfileIsIntact
  <2>2. CASE /\ pc[p] = "publish" /\ k = Place(p)
             /\ manifest'[k] = pending[k] /\ art'[k] = art[k]
    <3>1. ~private[p] /\ k = Key(p)
      BY <2>2, ConstantsAssumption DEF Place
    <3>2. art[k] = pending[k]
      BY <2>2, <3>1 DEF BuildsAreInvalidated, Building
    <3> QED BY <2>2, <3>2
  <2> QED BY <1>2, <2>1, <2>2, RecordStep
<1>3. CASE Environment
  <2>1. manifest' = manifest
    BY <1>3 DEF Environment, Edit, Corrupt, OrphanOpens, OrphanEnds, store
  <2>2. (art'[k] = art[k] /\ corrupted \subseteq corrupted') \/ k \in corrupted'
    <3>1. ASSUME NEW j \in Keys, NEW f \in Files, Corrupt(j, f)
          PROVE  (art'[k] = art[k] /\ corrupted \subseteq corrupted') \/ k \in corrupted'
      BY <3>1 DEF Corrupt, TypeOK, Places
    <3> QED BY <1>3, <3>1 DEF Environment, Edit, OrphanOpens, OrphanEnds, store
  <2> QED BY <2>1, <2>2 DEF CompletedProfileIsIntact
<1> QED BY <1>1, <1>2, <1>3 DEF Next

(* A completed profile keeps the files its record describes until somebody  *)
(* damages it from outside, provided build children die with their l1c.     *)
THEOREM ProfilesStayIntact == ASSUME ChildrenDie PROVE Spec => []CompletedProfileIsIntact
<1>1. Init => BuildsAreInvalidated /\ CompletedProfileIsIntact
  BY DEF Init, BuildsAreInvalidated, CompletedProfileIsIntact, Building, Places
<1>2. /\ TypeOK /\ PublicationInv /\ orphans = {}
      /\ BuildsAreInvalidated /\ CompletedProfileIsIntact /\ [Next]_vars
      => BuildsAreInvalidated' /\ CompletedProfileIsIntact'
  BY InvalidatedStep, IntactStep DEF PublicationInv
<1>3. Spec => [](orphans = {})
  BY NoOrphans
<1> QED BY <1>1, <1>2, <1>3, Typing, Publication, PTL DEF Spec

-----------------------------------------------------------------------------
(***************************************************************************)
(* What users of the native cache rely on, beyond exclusion and exact       *)
(* records: who may fall back to a private build, when a completed profile  *)
(* may be invalidated, when a lookup may report damage, that what a command *)
(* reads is the build of the inputs it resolved, and that all of this        *)
(* together implements PreparationService.                                 *)
(***************************************************************************)

(* The strengthening.                                                      *)

(* A lock belongs to the identity its holder resolved, the holder is in its *)
(* second lookup or in its build, and it was admitted to the shared entry.  *)
LockPolicy(p) ==
    /\ \A k \in Keys : lock[k] = p => k = Key(p) /\ pc[p] \in Lookup \cup Owning
    /\ pc[p] = "lock" \/ Holds(p) =>
         ~private[p] /\ opt[p].auto /\ opt[p].eligible

(* Who has, or is about to get, a private workspace may have one.          *)
MayBeAlone(p) ==
    /\ ~opt[p].explicit /\ opt[p].auto
    /\ opt[p].root => ~opt[p].eligible \/ found[p] = "unusable"

Privacy(p) ==
    /\ private[p] => pc[p] \in Owning \cup {"using", "failed"}
    /\ private[p] \/ pc[p] = "private" => MayBeAlone(p)
    /\ opt[p].root /\ ~opt[p].writable => pc[p] \in {"idle", "resolve", "failed"}

(* Where forced commands do not go, and what a fresh command has found.    *)
Course(p) ==
    /\ opt[p].force => pc[p] \notin Lookup
    /\ pc[p] \in {"idle", "resolve"} => found[p] = "miss"

PolicyInv == OwnersHold /\ \A p \in Commands : LockPolicy(p) /\ Privacy(p) /\ Course(p)

(* A step keeps every other command's options and findings, and gives it no *)
(* lock.                                                                   *)
LEMMA OthersKeepOptions ==
    ASSUME TypeOK, NEW p \in Commands, NEW q \in Commands, q # p,
           Start(p) \/ Progress(p) \/ Crash(p)
    PROVE  /\ opt'[q] = opt[q] /\ found'[q] = found[q]
           /\ \A k \in Keys : lock'[k] = q => lock[k] = q
<1> USE ConstantsAssumption
<1>1. CASE Start(p)
  BY <1>1 DEF Start, Goto, store, TypeOK
<1>2. CASE RefuseRoot(p)
  BY <1>2 DEF RefuseRoot, Refuse, Report, Goto, store, TypeOK
<1>3. CASE ResolveFile(p)
  BY <1>3 DEF ResolveFile, store, TypeOK
<1>4. CASE Resolved(p)
  BY <1>4 DEF Resolved, Goto, store, local, TypeOK
<1>5. CASE Find(p)
  BY <1>5 DEF Find, LookupResult, Unlocked, Refuse, Report, Goto, store, TypeOK
<1>6. CASE Check(p)
  BY <1>6 DEF Check, LookupResult, Unlocked, Refuse, Report, Goto, store, TypeOK
<1>7. CASE Admit(p)
  BY <1>7 DEF Admit, Refuse, Report, Goto, store, TypeOK
<1>8. CASE Lock(p)
  BY <1>8 DEF Lock, Goto, store, local, TypeOK
<1>9. CASE LockFails(p)
  BY <1>9 DEF LockFails, Report, Goto, store, TypeOK
<1>10. CASE Private(p)
  BY <1>10 DEF Private, Goto, TypeOK
<1>11. CASE Begin(p)
  BY <1>11 DEF Begin, Break, Report, Goto, TypeOK
<1>12. CASE Detach(p)
  BY <1>12 DEF Detach, Break, Report, Goto, TypeOK
<1>13. CASE Write(p)
  BY <1>13 DEF Write, Break, Report, Goto, TypeOK
<1>14. CASE Inventory(p)
  BY <1>14 DEF Inventory, Break, Report, Goto, store, TypeOK
<1>15. CASE Recheck(p)
  BY <1>15 DEF Recheck, Abandon, Break, Report, Goto, TypeOK
<1>16. CASE OpenPending(p)
  BY <1>16 DEF OpenPending, Abandon, Break, Report, Goto, TypeOK
<1>17. CASE WritePending(p)
  BY <1>17 DEF WritePending, Abandon, Break, Report, Goto, TypeOK
<1>18. CASE Validate(p)
  BY <1>18 DEF Validate, Abandon, Break, Report, Goto, TypeOK
<1>19. CASE Publish(p)
  BY <1>19 DEF Publish, Abandon, Break, Report, Goto, TypeOK
<1>20. CASE Unlock(p)
  BY <1>20 DEF Unlock, Unlocked, Goto, store, local, TypeOK
<1>21. CASE Broken(p)
  BY <1>21 DEF Broken, Unlocked, Goto, store, local, TypeOK
<1>22. CASE Finish(p)
  BY <1>22 DEF Finish, Gone, Unlocked, Goto, TypeOK
<1>23. CASE Crash(p)
  BY <1>23 DEF Crash, Gone, Unlocked, Goto, TypeOK
<1> QED BY <1>1, <1>2, <1>3, <1>4, <1>5, <1>6, <1>7, <1>8, <1>9, <1>10, <1>11, <1>12, <1>13, <1>14, <1>15, <1>16, <1>17, <1>18, <1>19, <1>20, <1>21, <1>22, <1>23 DEF Progress

(* A command's own step keeps its lock policy,                             *)
LEMMA OwnLockPolicy ==
    ASSUME TypeOK, OwnersHold, NEW p \in Commands, LockPolicy(p), Privacy(p), Course(p),
           Start(p) \/ Progress(p) \/ Crash(p)
    PROVE  LockPolicy(p)'
<1> USE KeyType, KeyFrame, ConstantsAssumption
<1>1. CASE Start(p)
  BY <1>1 DEF Start, Goto, store, TypeOK, LockPolicy, Privacy, OwnersHold, Holds, Lookup, Owning, Building
<1>2. CASE RefuseRoot(p)
  BY <1>2 DEF RefuseRoot, Refuse, Report, Goto, store, TypeOK, LockPolicy, Privacy, OwnersHold, Holds, Lookup, Owning, Building
<1>3. CASE ResolveFile(p)
  <2>1. TypeOK'
    BY <1>3, ResolveType
  <2>2. lock' = lock /\ pc' = pc /\ pc[p] = "resolve" /\ Key(p)' \in Keys
    BY <1>3, <2>1 DEF ResolveFile, TypeOK, Key, Keys, Stamped
  <2>3. \A k \in Keys : lock'[k] # p
    BY <2>2 DEF LockPolicy, Lookup, Owning, Building
  <2> QED BY <2>2, <2>3 DEF LockPolicy, Holds
<1>4. CASE Resolved(p)
  BY <1>4 DEF Resolved, Goto, store, local, TypeOK, LockPolicy, Privacy, OwnersHold, Holds, Lookup, Owning, Building
<1>5. CASE Find(p)
  BY <1>5 DEF Find, LookupResult, Unlocked, Refuse, Report, Goto, store, TypeOK, LockPolicy, Privacy, OwnersHold, Holds, Lookup, Owning, Building
<1>6. CASE Check(p)
  <2>1. /\ pc[p] = "check" /\ Key(p)' = Key(p) /\ opt' = opt /\ private' = private
        /\ ~private[p] /\ Key(p) \in Keys
    BY <1>6 DEF Check, Privacy, Owning, Building
  <2>2. CASE UNCHANGED <<lock, pc, found, err>>
    BY <2>1, <2>2 DEF LockPolicy, Holds
  <2>3. CASE \E result \in {"hit", "unusable"} : LookupResult(p, result)
    <3>1. pc'[p] \in {"using", "admit", "failed", "private"} /\ lock'[Key(p)] # p
      BY <2>1, <2>3 DEF LookupResult, Unlocked, Refuse, Report, Goto, TypeOK, Holds
    <3>2. \A k \in Keys : lock'[k] # p
      BY <2>1, <2>3, <3>1 DEF LookupResult, Unlocked, TypeOK, LockPolicy
    <3> QED BY <2>1, <3>1, <3>2 DEF LockPolicy, Holds
  <2> QED BY <1>6, <2>2, <2>3 DEF Check
<1>7. CASE Admit(p)
  BY <1>7 DEF Admit, Refuse, Report, Goto, store, TypeOK, LockPolicy, Privacy, OwnersHold, Holds, Lookup, Owning, Building
<1>8. CASE Lock(p)
  BY <1>8 DEF Lock, Goto, store, local, TypeOK, LockPolicy, Privacy, OwnersHold, Holds, Lookup, Owning, Building
<1>9. CASE LockFails(p)
  BY <1>9 DEF LockFails, Report, Goto, store, TypeOK, LockPolicy, Privacy, OwnersHold, Holds, Lookup, Owning, Building
<1>10. CASE Private(p)
  BY <1>10 DEF Private, Goto, TypeOK, LockPolicy, Privacy, OwnersHold, Holds, Lookup, Owning, Building
<1>11. CASE Begin(p)
  BY <1>11 DEF Begin, Break, Report, Goto, TypeOK, LockPolicy, Privacy, OwnersHold, Holds, Lookup, Owning, Building
<1>12. CASE Detach(p)
  BY <1>12 DEF Detach, Break, Report, Goto, TypeOK, LockPolicy, Privacy, OwnersHold, Holds, Lookup, Owning, Building
<1>13. CASE Write(p)
  BY <1>13 DEF Write, Break, Report, Goto, TypeOK, LockPolicy, Privacy, OwnersHold, Holds, Lookup, Owning, Building
<1>14. CASE Inventory(p)
  BY <1>14 DEF Inventory, Break, Report, Goto, store, TypeOK, LockPolicy, Privacy, OwnersHold, Holds, Lookup, Owning, Building
<1>15. CASE Recheck(p)
  BY <1>15 DEF Recheck, Abandon, Break, Report, Goto, TypeOK, LockPolicy, Privacy, OwnersHold, Holds, Lookup, Owning, Building
<1>16. CASE OpenPending(p)
  BY <1>16 DEF OpenPending, Abandon, Break, Report, Goto, TypeOK, LockPolicy, Privacy, OwnersHold, Holds, Lookup, Owning, Building
<1>17. CASE WritePending(p)
  BY <1>17 DEF WritePending, Abandon, Break, Report, Goto, TypeOK, LockPolicy, Privacy, OwnersHold, Holds, Lookup, Owning, Building
<1>18. CASE Validate(p)
  BY <1>18 DEF Validate, Abandon, Break, Report, Goto, TypeOK, LockPolicy, Privacy, OwnersHold, Holds, Lookup, Owning, Building
<1>19. CASE Publish(p)
  BY <1>19 DEF Publish, Abandon, Break, Report, Goto, TypeOK, LockPolicy, Privacy, OwnersHold, Holds, Lookup, Owning, Building
<1>20. CASE Unlock(p)
  BY <1>20 DEF Unlock, Unlocked, Goto, store, local, TypeOK, LockPolicy, Privacy, OwnersHold, Holds, Lookup, Owning, Building
<1>21. CASE Broken(p)
  BY <1>21 DEF Broken, Unlocked, Goto, store, local, TypeOK, LockPolicy, Privacy, OwnersHold, Holds, Lookup, Owning, Building
<1>22. CASE Finish(p)
  <2>1. TypeOK'
    BY <1>22, EndType
  <2>2. Key(p)' \in Keys /\ Key(p) \in Keys
    BY <2>1 DEF TypeOK, Key, Keys, Stamped
  <2>3. pc'[p] = "idle" /\ \A k \in Keys : lock'[k] # p
    BY <1>22, <2>2 DEF Finish, Gone, Goto, Unlocked, TypeOK, LockPolicy
  <2> QED BY <2>2, <2>3 DEF LockPolicy, Holds
<1>23. CASE Crash(p)
  <2>1. TypeOK'
    BY <1>23, EndType
  <2>2. Key(p)' \in Keys /\ Key(p) \in Keys
    BY <2>1 DEF TypeOK, Key, Keys, Stamped
  <2>3. pc'[p] = "idle" /\ \A k \in Keys : lock'[k] # p
    BY <1>23, <2>2 DEF Crash, Gone, Goto, Unlocked, TypeOK, LockPolicy
  <2> QED BY <2>2, <2>3 DEF LockPolicy, Holds
<1> QED BY <1>1, <1>2, <1>3, <1>4, <1>5, <1>6, <1>7, <1>8, <1>9, <1>10, <1>11, <1>12, <1>13, <1>14, <1>15, <1>16, <1>17, <1>18, <1>19, <1>20, <1>21, <1>22, <1>23 DEF Progress

(* ... its privacy,                                                        *)
LEMMA OwnPrivacy ==
    ASSUME TypeOK, OwnersHold, NEW p \in Commands, LockPolicy(p), Privacy(p), Course(p),
           Start(p) \/ Progress(p) \/ Crash(p)
    PROVE  Privacy(p)'
<1> USE KeyType, KeyFrame, ConstantsAssumption
<1>1. CASE Start(p)
  BY <1>1 DEF Start, Goto, store, TypeOK, LockPolicy, Privacy, OwnersHold, Holds, MayBeAlone, Lookup, Owning, Building
<1>2. CASE RefuseRoot(p)
  BY <1>2 DEF RefuseRoot, Refuse, Report, Goto, store, TypeOK, LockPolicy, Privacy, OwnersHold, Holds, MayBeAlone, Lookup, Owning, Building
<1>3. CASE ResolveFile(p)
  BY <1>3 DEF ResolveFile, store, TypeOK, LockPolicy, Privacy, OwnersHold, Holds, MayBeAlone, Lookup, Owning, Building
<1>4. CASE Resolved(p)
  BY <1>4 DEF Resolved, Goto, store, local, TypeOK, LockPolicy, Privacy, OwnersHold, Holds, MayBeAlone, Lookup, Owning, Building
<1>5. CASE Find(p)
  BY <1>5 DEF Find, LookupResult, Unlocked, Refuse, Report, Goto, store, TypeOK, LockPolicy, Privacy, OwnersHold, Holds, MayBeAlone, Lookup, Owning, Building
<1>6. CASE Check(p)
  BY <1>6 DEF Check, LookupResult, Unlocked, Refuse, Report, Goto, store, TypeOK, LockPolicy, Privacy, OwnersHold, Holds, MayBeAlone, Lookup, Owning, Building
<1>7. CASE Admit(p)
  BY <1>7 DEF Admit, Refuse, Report, Goto, store, TypeOK, LockPolicy, Privacy, OwnersHold, Holds, MayBeAlone, Lookup, Owning, Building
<1>8. CASE Lock(p)
  BY <1>8 DEF Lock, Goto, store, local, TypeOK, LockPolicy, Privacy, OwnersHold, Holds, MayBeAlone, Lookup, Owning, Building
<1>9. CASE LockFails(p)
  BY <1>9 DEF LockFails, Report, Goto, store, TypeOK, LockPolicy, Privacy, OwnersHold, Holds, MayBeAlone, Lookup, Owning, Building
<1>10. CASE Private(p)
  BY <1>10 DEF Private, Goto, TypeOK, LockPolicy, Privacy, OwnersHold, Holds, MayBeAlone, Lookup, Owning, Building
<1>11. CASE Begin(p)
  BY <1>11 DEF Begin, Break, Report, Goto, TypeOK, LockPolicy, Privacy, OwnersHold, Holds, MayBeAlone, Lookup, Owning, Building
<1>12. CASE Detach(p)
  BY <1>12 DEF Detach, Break, Report, Goto, TypeOK, LockPolicy, Privacy, OwnersHold, Holds, MayBeAlone, Lookup, Owning, Building
<1>13. CASE Write(p)
  BY <1>13 DEF Write, Break, Report, Goto, TypeOK, LockPolicy, Privacy, OwnersHold, Holds, MayBeAlone, Lookup, Owning, Building
<1>14. CASE Inventory(p)
  BY <1>14 DEF Inventory, Break, Report, Goto, store, TypeOK, LockPolicy, Privacy, OwnersHold, Holds, MayBeAlone, Lookup, Owning, Building
<1>15. CASE Recheck(p)
  BY <1>15 DEF Recheck, Abandon, Break, Report, Goto, TypeOK, LockPolicy, Privacy, OwnersHold, Holds, MayBeAlone, Lookup, Owning, Building
<1>16. CASE OpenPending(p)
  BY <1>16 DEF OpenPending, Abandon, Break, Report, Goto, TypeOK, LockPolicy, Privacy, OwnersHold, Holds, MayBeAlone, Lookup, Owning, Building
<1>17. CASE WritePending(p)
  BY <1>17 DEF WritePending, Abandon, Break, Report, Goto, TypeOK, LockPolicy, Privacy, OwnersHold, Holds, MayBeAlone, Lookup, Owning, Building
<1>18. CASE Validate(p)
  BY <1>18 DEF Validate, Abandon, Break, Report, Goto, TypeOK, LockPolicy, Privacy, OwnersHold, Holds, MayBeAlone, Lookup, Owning, Building
<1>19. CASE Publish(p)
  BY <1>19 DEF Publish, Abandon, Break, Report, Goto, TypeOK, LockPolicy, Privacy, OwnersHold, Holds, MayBeAlone, Lookup, Owning, Building
<1>20. CASE Unlock(p)
  BY <1>20 DEF Unlock, Unlocked, Goto, store, local, TypeOK, LockPolicy, Privacy, OwnersHold, Holds, MayBeAlone, Lookup, Owning, Building
<1>21. CASE Broken(p)
  BY <1>21 DEF Broken, Unlocked, Goto, store, local, TypeOK, LockPolicy, Privacy, OwnersHold, Holds, MayBeAlone, Lookup, Owning, Building
<1>22. CASE Finish(p)
  BY <1>22 DEF Finish, Gone, Unlocked, Goto, TypeOK, LockPolicy, Privacy, OwnersHold, Holds, MayBeAlone, Lookup, Owning, Building
<1>23. CASE Crash(p)
  BY <1>23 DEF Crash, Gone, Unlocked, Goto, TypeOK, LockPolicy, Privacy, OwnersHold, Holds, MayBeAlone, Lookup, Owning, Building
<1> QED BY <1>1, <1>2, <1>3, <1>4, <1>5, <1>6, <1>7, <1>8, <1>9, <1>10, <1>11, <1>12, <1>13, <1>14, <1>15, <1>16, <1>17, <1>18, <1>19, <1>20, <1>21, <1>22, <1>23 DEF Progress

(* ... and its course.                                                     *)
LEMMA OwnCourse ==
    ASSUME TypeOK, OwnersHold, NEW p \in Commands, LockPolicy(p), Privacy(p), Course(p),
           Start(p) \/ Progress(p) \/ Crash(p)
    PROVE  Course(p)'
<1> USE ConstantsAssumption
<1>1. CASE Start(p)
  BY <1>1 DEF Start, Goto, store, TypeOK, Course, Lookup, Owning, Building
<1>2. CASE RefuseRoot(p)
  BY <1>2 DEF RefuseRoot, Refuse, Report, Goto, store, TypeOK, Course, Lookup, Owning, Building
<1>3. CASE ResolveFile(p)
  BY <1>3 DEF ResolveFile, store, TypeOK, Course, Lookup, Owning, Building
<1>4. CASE Resolved(p)
  BY <1>4 DEF Resolved, Goto, store, local, TypeOK, Course, Lookup, Owning, Building
<1>5. CASE Find(p)
  BY <1>5 DEF Find, LookupResult, Unlocked, Refuse, Report, Goto, store, TypeOK, Course, Lookup, Owning, Building
<1>6. CASE Check(p)
  BY <1>6 DEF Check, LookupResult, Unlocked, Refuse, Report, Goto, store, TypeOK, Course, Lookup, Owning, Building
<1>7. CASE Admit(p)
  BY <1>7 DEF Admit, Refuse, Report, Goto, store, TypeOK, Course, Lookup, Owning, Building
<1>8. CASE Lock(p)
  BY <1>8 DEF Lock, Goto, store, local, TypeOK, Course, Lookup, Owning, Building
<1>9. CASE LockFails(p)
  BY <1>9 DEF LockFails, Report, Goto, store, TypeOK, Course, Lookup, Owning, Building
<1>10. CASE Private(p)
  BY <1>10 DEF Private, Goto, TypeOK, Course, Lookup, Owning, Building
<1>11. CASE Begin(p)
  BY <1>11 DEF Begin, Break, Report, Goto, TypeOK, Course, Lookup, Owning, Building
<1>12. CASE Detach(p)
  BY <1>12 DEF Detach, Break, Report, Goto, TypeOK, Course, Lookup, Owning, Building
<1>13. CASE Write(p)
  BY <1>13 DEF Write, Break, Report, Goto, TypeOK, Course, Lookup, Owning, Building
<1>14. CASE Inventory(p)
  BY <1>14 DEF Inventory, Break, Report, Goto, store, TypeOK, Course, Lookup, Owning, Building
<1>15. CASE Recheck(p)
  BY <1>15 DEF Recheck, Abandon, Break, Report, Goto, TypeOK, Course, Lookup, Owning, Building
<1>16. CASE OpenPending(p)
  BY <1>16 DEF OpenPending, Abandon, Break, Report, Goto, TypeOK, Course, Lookup, Owning, Building
<1>17. CASE WritePending(p)
  BY <1>17 DEF WritePending, Abandon, Break, Report, Goto, TypeOK, Course, Lookup, Owning, Building
<1>18. CASE Validate(p)
  BY <1>18 DEF Validate, Abandon, Break, Report, Goto, TypeOK, Course, Lookup, Owning, Building
<1>19. CASE Publish(p)
  BY <1>19 DEF Publish, Abandon, Break, Report, Goto, TypeOK, Course, Lookup, Owning, Building
<1>20. CASE Unlock(p)
  BY <1>20 DEF Unlock, Unlocked, Goto, store, local, TypeOK, Course, Lookup, Owning, Building
<1>21. CASE Broken(p)
  BY <1>21 DEF Broken, Unlocked, Goto, store, local, TypeOK, Course, Lookup, Owning, Building
<1>22. CASE Finish(p)
  BY <1>22 DEF Finish, Gone, Unlocked, Goto, TypeOK, Course, Lookup, Owning, Building
<1>23. CASE Crash(p)
  BY <1>23 DEF Crash, Gone, Unlocked, Goto, TypeOK, Course, Lookup, Owning, Building
<1> QED BY <1>1, <1>2, <1>3, <1>4, <1>5, <1>6, <1>7, <1>8, <1>9, <1>10, <1>11, <1>12, <1>13, <1>14, <1>15, <1>16, <1>17, <1>18, <1>19, <1>20, <1>21, <1>22, <1>23 DEF Progress

(* Every step keeps the policy,                                            *)
LEMMA PolicyStep ==
    ASSUME TypeOK, PolicyInv, [Next]_vars PROVE PolicyInv'
<1> SUFFICES ASSUME NEW q \in Commands PROVE LockPolicy(q)' /\ Privacy(q)' /\ Course(q)'
  BY OwnersHoldStep DEF PolicyInv
<1>0. LockPolicy(q) /\ Privacy(q) /\ Course(q) /\ OwnersHold
  BY DEF PolicyInv
<1>1. ASSUME /\ lock' = lock /\ pc' = pc /\ opt' = opt /\ private' = private
             /\ found' = found /\ seen' = seen
      PROVE  LockPolicy(q)' /\ Privacy(q)' /\ Course(q)'
  BY <1>0, <1>1, KeyFrame DEF LockPolicy, Privacy, Course, Holds, MayBeAlone
<1>2. CASE UNCHANGED vars
  BY <1>1, <1>2 DEF vars, local
<1>3. CASE Start(q) \/ Progress(q) \/ Crash(q)
  BY <1>0, <1>3, OwnLockPolicy, OwnPrivacy, OwnCourse
<1>4. ASSUME NEW p \in Commands, Start(p) \/ Progress(p) \/ Crash(p), p # q
      PROVE  LockPolicy(q)' /\ Privacy(q)' /\ Course(q)'
  <2>1. /\ pc'[q] = pc[q] /\ private'[q] = private[q] /\ Key(q)' = Key(q)
        /\ opt'[q] = opt[q] /\ found'[q] = found[q]
        /\ \A k \in Keys : lock'[k] = q => lock[k] = q
    BY <1>4, Locality, OthersKeepOptions, KeyFrame
  <2>2. Key(q) \in Keys
    BY KeyType
  <2> QED BY <1>0, <2>1, <2>2 DEF LockPolicy, Privacy, Course, Holds, MayBeAlone
<1>5. CASE Environment
  BY <1>1, <1>5 DEF Environment, Edit, Corrupt, OrphanOpens, OrphanEnds, local
<1> QED BY <1>2, <1>3, <1>4, <1>5 DEF Next

(* ... which holds initially,                                              *)
LEMMA PolicyInit == Init => PolicyInv
BY ConstantsAssumption
DEF Init, PolicyInv, OwnersHold, LockPolicy, Privacy, Course, Holds, Key, Keys, Initial,
    Owning, Building, Lookup

(* ... so it holds in every behaviour.                                     *)
LEMMA Policy == Spec => []PolicyInv
<1>1. TypeOK /\ PolicyInv /\ [Next]_vars => PolicyInv'
  BY PolicyStep
<1> QED BY <1>1, PolicyInit, Typing, PTL DEF Spec

(* A command builds privately only if it may: never an explicit one, and at *)
(* an explicit cache root only for an ineligible or unusable profile.       *)
THEOREM PrivateBuildsAreAllowed == Spec => []PrivateOnlyIfAllowed
<1>1. PolicyInv => PrivateOnlyIfAllowed
  BY DEF PolicyInv, Privacy, MayBeAlone, PrivateOnlyIfAllowed
<1> QED BY <1>1, Policy, PTL

-----------------------------------------------------------------------------
(* What happens to a completed profile.                                    *)

(* Forced and unforced commands do not overlap.                            *)
SameForce ==
    \A p, q \in Commands :
        pc[p] # "idle" /\ pc[q] # "idle" => opt[p].force = opt[q].force

(* Whoever builds in a shared entry finds, or has left, no record there;   *)
(* whoever checks a record, or has selected it, has the record of its key. *)
Settled(p) ==
    /\ pc[p] \in Building /\ ~private[p] => manifest[Key(p)] = NoManifest
    /\ pc[p] = "begin" /\ ~private[p] /\ ~opt[p].force => manifest[Key(p)] = NoManifest
    /\ pc[p] = "check" => snap[p] = Key(p) /\ manifest[Key(p)] = Key(p)
    /\ pc[p] \in {"unlock", "using"} /\ ~private[p] /\ ~opt[p].force =>
         manifest[Key(p)] = Key(p)

SettledInv ==
    /\ PolicyInv
    /\ PublicationInv
    /\ SameForce
    /\ \A p \in Commands : Settled(p)

(* A step changes an existing record only where it begins a forced build.   *)
LEMMA ForcedInvalidation ==
    ASSUME TypeOK, SettledInv, NEW p \in Commands, Start(p) \/ Progress(p) \/ Crash(p),
           NEW k \in Keys, manifest[k] # NoManifest, manifest'[k] # manifest[k]
    PROVE  lock[k] = p /\ opt[p].force /\ pc[p] = "begin"
<1>1. k \in Places /\ k # p
  BY ConstantsAssumption DEF Places
<1>2. pc[p] \in Owning /\ k = Place(p)
  BY <1>1, Containment
<1>3. ~private[p] /\ k = Key(p)
  BY <1>1, <1>2 DEF Place
<1>4. pc[p] \notin Building
  BY <1>3 DEF SettledInv, Settled
<1>5. pc[p] \notin {"unlock", "broken"}
  <2>1. CASE Unlock(p) \/ Broken(p)
    BY <2>1 DEF Unlock, Broken, store
  <2>2. CASE Crash(p)
    BY <1>1, <2>2 DEF Crash, Gone, TypeOK
  <2>3. SUFFICES ASSUME pc[p] \in {"unlock", "broken"} PROVE Unlock(p) \/ Broken(p) \/ Crash(p)
    BY <2>1, <2>2
  <2> QED BY <2>3
    DEF Progress, Start, RefuseRoot, ResolveFile, Resolved, Find, Check, Admit, Lock,
        LockFails, Private, Begin, Detach, Write, Inventory, Recheck, OpenPending,
        WritePending, Validate, Publish, Finish
<1>6. pc[p] = "begin"
  BY <1>2, <1>4, <1>5 DEF Owning
<1>7. opt[p].force
  BY <1>3, <1>6 DEF SettledInv, Settled
<1>8. lock[k] = p
  BY <1>2, <1>3 DEF SettledInv, PolicyInv, OwnersHold, Holds
<1> QED BY <1>6, <1>7, <1>8

(* A step of the command itself keeps it settled,                          *)
LEMMA OwnSettled ==
    ASSUME TypeOK, SettledInv, NEW p \in Commands, Start(p) \/ Progress(p) \/ Crash(p)
    PROVE  Settled(p)'
<1>0. /\ Settled(p) /\ LockPolicy(p) /\ Privacy(p) /\ Course(p) /\ InventoryIsSound(p)
      /\ CompletionRecordIsExact /\ OwnersHold
  BY DEF SettledInv, PolicyInv, PublicationInv
<1> USE KeyType, KeyFrame, ConstantsAssumption
<1>1. CASE Start(p)
  BY <1>0, <1>1 DEF Start, Goto, store, TypeOK, Settled, Owning, Building, Lookup, Privacy, Course
<1>2. CASE RefuseRoot(p)
  BY <1>0, <1>2 DEF RefuseRoot, Refuse, Report, Goto, store, TypeOK, Settled, Owning, Building, Lookup, Privacy, Course
<1>3. CASE ResolveFile(p)
  BY <1>0, <1>3 DEF ResolveFile, store, TypeOK, Settled, Owning, Building, Lookup, Privacy, Course
<1>4. CASE Resolved(p)
  BY <1>0, <1>4 DEF Resolved, Goto, store, local, TypeOK, Settled, Owning, Building, Lookup, Privacy, Course
<1>5. CASE Find(p)
  <2>1. Key(p)' = Key(p) /\ private' = private /\ opt' = opt /\ manifest' = manifest
        /\ pc[p] = "find" /\ Key(p) \in Keys
    BY <1>5 DEF Find, store
  <2>2. manifest[Key(p)] \in {NoManifest, Key(p)}
    BY <1>0, <2>1 DEF CompletionRecordIsExact
  <2>3. CASE LookupResult(p, "miss") /\ (~opt[p].eligible \/ manifest[Key(p)] = NoManifest)
    <3>1. pc'[p] \in {"admit", "begin"} /\ (pc'[p] = "begin" => Holds(p))
      BY <2>1, <2>3 DEF LookupResult, Refuse, Goto, TypeOK
    <3>2. pc'[p] = "begin" => manifest[Key(p)] = NoManifest
      BY <1>0, <2>3, <3>1 DEF LockPolicy
    <3> QED BY <2>1, <3>1, <3>2 DEF Settled, Building
  <2>4. CASE LookupResult(p, "unusable")
    BY <2>1, <2>4 DEF LookupResult, Refuse, Goto, TypeOK, Settled, Building
  <2>5. CASE /\ manifest[Key(p)] \notin {NoManifest, Torn} /\ Goto(p, "check")
             /\ snap' = [snap EXCEPT ![p] = manifest[Key(p)]]
    BY <2>1, <2>2, <2>5 DEF Goto, TypeOK, Settled, Building
  <2> QED BY <1>5, <2>3, <2>4, <2>5 DEF Find
<1>6. CASE Check(p)
  <2>1. /\ Key(p)' = Key(p) /\ private' = private /\ opt' = opt /\ manifest' = manifest
        /\ pc[p] = "check" /\ snap' = snap
    BY <1>6 DEF Check, store
  <2>2. CASE pc' = pc
    BY <1>0, <2>1, <2>2 DEF Settled, Building
  <2>3. CASE \E result \in {"hit", "unusable"} : LookupResult(p, result)
    <3>1. pc'[p] \in {"using", "admit", "failed", "private"}
      BY <2>3 DEF LookupResult, Refuse, Goto, TypeOK
    <3> QED BY <1>0, <2>1, <3>1 DEF Settled, Building
  <2> QED BY <1>6, <2>2, <2>3 DEF Check
<1>7. CASE Admit(p)
  BY <1>0, <1>7 DEF Admit, Refuse, Report, Goto, store, TypeOK, Settled, Owning, Building, Lookup, Privacy, Course
<1>8. CASE Lock(p)
  BY <1>0, <1>8 DEF Lock, Goto, store, local, TypeOK, Settled, Owning, Building, Lookup, Privacy, Course
<1>9. CASE LockFails(p)
  BY <1>0, <1>9 DEF LockFails, Report, Goto, store, TypeOK, Settled, Owning, Building, Lookup, Privacy, Course
<1>10. CASE Private(p)
  BY <1>0, <1>10 DEF Private, Goto, TypeOK, Settled, Owning, Building, Lookup, Privacy, Course
<1>11. CASE Begin(p)
  <2>1. Key(p)' = Key(p) /\ private' = private /\ opt' = opt
    BY <1>11 DEF Begin
  <2>2. CASE Break(p, 2150)
    BY <2>1, <2>2 DEF Break, Goto, TypeOK, Settled, Building
  <2>3. CASE manifest' = [manifest EXCEPT ![Place(p)] = NoManifest] /\ Goto(p, "build")
    <3>1. pc'[p] = "build" /\ (~private[p] => manifest'[Key(p)] = NoManifest)
      BY <2>3 DEF Goto, TypeOK, Place, Places
    <3> QED BY <2>1, <3>1 DEF Settled, Building
  <2> QED BY <1>11, <2>2, <2>3 DEF Begin
<1>12. CASE Detach(p)
  BY <1>0, <1>12 DEF Detach, Break, Report, Goto, TypeOK, Settled, Owning, Building, Lookup, Privacy, Course
<1>13. CASE Write(p)
  BY <1>0, <1>13 DEF Write, Break, Report, Goto, TypeOK, Settled, Owning, Building, Lookup, Privacy, Course
<1>14. CASE Inventory(p)
  BY <1>0, <1>14 DEF Inventory, Break, Report, Goto, store, TypeOK, Settled, Owning, Building, Lookup, Privacy, Course
<1>15. CASE Recheck(p)
  BY <1>0, <1>15 DEF Recheck, Abandon, Break, Report, Goto, TypeOK, Settled, Owning, Building, Lookup, Privacy, Course
<1>16. CASE OpenPending(p)
  BY <1>0, <1>16 DEF OpenPending, Abandon, Break, Report, Goto, TypeOK, Settled, Owning, Building, Lookup, Privacy, Course
<1>17. CASE WritePending(p)
  BY <1>0, <1>17 DEF WritePending, Abandon, Break, Report, Goto, TypeOK, Settled, Owning, Building, Lookup, Privacy, Course
<1>18. CASE Validate(p)
  BY <1>0, <1>18 DEF Validate, Abandon, Break, Report, Goto, TypeOK, Settled, Owning, Building, Lookup, Privacy, Course
<1>19. CASE Publish(p)
  <2>1. Key(p)' = Key(p) /\ private' = private /\ opt' = opt /\ pc[p] = "publish"
    BY <1>19 DEF Publish
  <2>2. CASE Break(p, 2150)
    BY <2>1, <2>2 DEF Break, Goto, TypeOK, Settled, Building
  <2>3. CASE /\ manifest' = [manifest EXCEPT ![Place(p)] = pending[Place(p)]]
             /\ Goto(p, "unlock")
    <3>1. pc'[p] = "unlock"
      BY <2>3 DEF Goto, TypeOK
    <3>2. ASSUME ~private[p] PROVE manifest'[Key(p)] = Key(p)
      <4>1. Place(p) = Key(p) /\ Key(p) \in Keys
        BY <3>2 DEF Place
      <4>2. pending[Place(p)] = Key(p)
        BY <1>0, <2>1, <4>1, PublishedIsKey
      <4> QED BY <2>3, <4>1, <4>2 DEF TypeOK, Places
    <3> QED BY <2>1, <3>1, <3>2 DEF Settled, Building
  <2> QED BY <1>19, <2>2, <2>3 DEF Publish, Abandon
<1>20. CASE Unlock(p)
  BY <1>0, <1>20 DEF Unlock, Unlocked, Goto, store, local, TypeOK, Settled, Owning, Building, Lookup, Privacy, Course
<1>21. CASE Broken(p)
  BY <1>0, <1>21 DEF Broken, Unlocked, Goto, store, local, TypeOK, Settled, Owning, Building, Lookup, Privacy, Course
<1>22. CASE Finish(p)
  BY <1>0, <1>22 DEF Finish, Gone, Unlocked, Goto, TypeOK, Settled, Owning, Building, Lookup, Privacy, Course
<1>23. CASE Crash(p)
  BY <1>0, <1>23 DEF Crash, Gone, Unlocked, Goto, TypeOK, Settled, Owning, Building, Lookup, Privacy, Course
<1> QED BY <1>1, <1>2, <1>3, <1>4, <1>5, <1>6, <1>7, <1>8, <1>9, <1>10, <1>11, <1>12, <1>13, <1>14, <1>15, <1>16, <1>17, <1>18, <1>19, <1>20, <1>21, <1>22, <1>23 DEF Progress

(* ... nobody starts a command whose force differs from the running ones', *)
LEMMA SameForceStep ==
    ASSUME TypeOK, SameForce, NEW p \in Commands, Start(p) \/ Progress(p) \/ Crash(p)
    PROVE  SameForce'
<1>1. \A q \in Commands \ {p} : pc'[q] = pc[q] /\ opt'[q] = opt[q]
  BY Locality, OthersKeepOptions
<1>2. CASE Start(p)
  <2>1. \A q \in Commands \ {p} : pc[q] # "idle" => opt[q].force = opt'[p].force
    BY <1>2 DEF Start, TypeOK
  <2> QED BY <1>1, <2>1 DEF SameForce
<1>3. CASE Finish(p) \/ Crash(p)
  <2>1. pc'[p] = "idle"
    BY <1>3 DEF Finish, Crash, Gone, Goto, TypeOK
  <2> QED BY <1>1, <2>1 DEF SameForce
<1>4. CASE Progress(p) /\ ~Finish(p)
  <2>1. opt' = opt /\ pc[p] # "idle"
    <3>1. CASE RefuseRoot(p) \/ ResolveFile(p) \/ Resolved(p) \/ Find(p) \/ Check(p)
      BY <3>1 DEF RefuseRoot, ResolveFile, Resolved, Find, Check, local
    <3>2. CASE Admit(p) \/ Lock(p) \/ LockFails(p) \/ Private(p) \/ Begin(p)
      BY <3>2 DEF Admit, Lock, LockFails, Private, Begin, local
    <3>3. CASE Detach(p) \/ Write(p) \/ Inventory(p) \/ Recheck(p) \/ OpenPending(p)
      BY <3>3 DEF Detach, Write, Inventory, Recheck, OpenPending, local
    <3>4. CASE WritePending(p) \/ Validate(p) \/ Publish(p) \/ Unlock(p) \/ Broken(p)
      BY <3>4 DEF WritePending, Validate, Publish, Unlock, Broken, local
    <3> QED BY <1>4, <3>1, <3>2, <3>3, <3>4 DEF Progress
  <2> QED BY <1>1, <2>1 DEF SameForce
<1> QED BY <1>2, <1>3, <1>4

(* ... and neither other commands nor the environment unsettle a command.  *)
LEMMA SettledStep ==
    ASSUME TypeOK, SettledInv, [Next]_vars PROVE SettledInv'
<1>1. PolicyInv' /\ PublicationInv'
  BY PolicyStep, PublicationStep DEF SettledInv
<1>2. ASSUME NEW q \in Commands,
             /\ pc' = pc /\ opt' = opt /\ private' = private /\ seen' = seen
             /\ snap' = snap /\ manifest' = manifest
      PROVE  SameForce' /\ Settled(q)'
  BY <1>2, KeyFrame DEF SettledInv, SameForce, Settled
<1>3. CASE UNCHANGED vars
  BY <1>1, <1>2, <1>3, ConstantsAssumption DEF vars, local, store, SettledInv, SameForce
<1>4. CASE Environment
  <2>1. /\ pc' = pc /\ opt' = opt /\ private' = private /\ seen' = seen
        /\ snap' = snap /\ manifest' = manifest
    BY <1>4 DEF Environment, Edit, Corrupt, OrphanOpens, OrphanEnds, store, local
  <2> QED BY <1>1, <1>2, <2>1 DEF SettledInv, SameForce
<1>5. ASSUME NEW p \in Commands, Start(p) \/ Progress(p) \/ Crash(p) PROVE SettledInv'
  <2>1. SameForce'
    BY <1>5, SameForceStep DEF SettledInv
  <2>2. ASSUME NEW q \in Commands, q # p PROVE Settled(q)'
    <3>1. /\ pc'[q] = pc[q] /\ private'[q] = private[q] /\ Key(q)' = Key(q)
          /\ opt'[q] = opt[q] /\ snap'[q] = snap[q] /\ Settled(q) /\ Key(q) \in Keys
      BY <1>5, <2>2, Locality, OthersKeepOptions, KeyFrame, KeyType DEF SettledInv
    <3>2. pc[q] \in Owning /\ ~private[q] => manifest'[Key(q)] = manifest[Key(q)]
      BY <1>5, <2>2, OwnedIsUntouched DEF Place, SettledInv, PolicyInv
    <3>3. ASSUME ~opt[q].force, pc[q] # "idle", manifest[Key(q)] = Key(q)
          PROVE  manifest'[Key(q)] = manifest[Key(q)]
      <4>1. SUFFICES ASSUME manifest'[Key(q)] # manifest[Key(q)] PROVE FALSE
        OBVIOUS
      <4>2. manifest[Key(q)] # NoManifest
        BY <3>1, <3>3, ConstantTypes, ConstantsAssumption DEF Keys, Digests, Contents
      <4>3. opt[p].force /\ pc[p] = "begin"
        BY <1>5, <3>1, <4>1, <4>2, ForcedInvalidation
      <4> QED BY <3>3, <4>3 DEF SettledInv, SameForce
    <3>4. pc[q] = "check" => ~opt[q].force
      BY DEF SettledInv, PolicyInv, Course, Lookup
    <3> QED BY <3>1, <3>2, <3>3, <3>4 DEF Settled, Owning
  <2> QED BY <1>1, <1>5, <2>1, <2>2, OwnSettled DEF SettledInv
<1> QED BY <1>3, <1>4, <1>5 DEF Next

(* So every command is settled in every behaviour.                         *)
LEMMA Settlement == Spec => []SettledInv
<1>1. Init => SettledInv
  <2> SUFFICES ASSUME Init PROVE SettledInv
    OBVIOUS
  <2>1. PolicyInv
    BY PolicyInit
  <2>2. PublicationInv
    BY PublicationInit
  <2> QED BY <2>1, <2>2 DEF Init, SettledInv, SameForce, Settled, Building
<1>2. TypeOK /\ SettledInv /\ [Next]_vars => SettledInv'
  BY SettledStep
<1> QED BY <1>1, <1>2, Typing, PTL DEF Spec

(* The invariant that carries the proofs about records is an invariant of  *)
(* every behaviour: owners hold their locks, recorded metadata is never    *)
(* ahead of the files, artifacts and inventories are sound.                *)
THEOREM PublicationIsSound == Spec => []PublicationInv
BY Publication

(* A completed profile, sound or damaged, is invalidated only by a forced   *)
(* command that holds its lock, also if build children survive.            *)
THEOREM InvalidationIsForced == Spec => OnlyForceInvalidates
<1>1. /\ TypeOK /\ SettledInv /\ [Next]_vars
      => [\A k \in Keys : manifest[k] # NoManifest /\ manifest'[k] # manifest[k] =>
            \E p \in Commands : lock[k] = p /\ opt[p].force]_vars
  <2> SUFFICES ASSUME TypeOK, SettledInv, Next, NEW k \in Keys,
                      manifest[k] # NoManifest, manifest'[k] # manifest[k]
               PROVE  \E p \in Commands : lock[k] = p /\ opt[p].force
    OBVIOUS
  <2>1. ~Environment
    BY DEF Environment, Edit, Corrupt, OrphanOpens, OrphanEnds, store
  <2> QED BY <2>1, ForcedInvalidation DEF Next
<1> QED BY <1>1, Settlement, Typing, PTL DEF Spec, OnlyForceInvalidates

(* Explicit preparation that succeeds leaves a completed shared profile of  *)
(* the inputs it resolved, until somebody forces a replacement.            *)
THEOREM SuccessIsShared == Spec => []ExplicitSuccessIsShared
<1>1. SettledInv => ExplicitSuccessIsShared
  BY DEF SettledInv, PolicyInv, Privacy, MayBeAlone, Settled, ExplicitSuccessIsShared
<1> QED BY <1>1, Settlement, PTL

-----------------------------------------------------------------------------
(* What lookups report.                                                    *)

(* A profile that an unforced command found unusable is a completed one    *)
(* that was damaged from outside.                                          *)
Damage(p) ==
    found[p] = "unusable" /\ ~opt[p].force =>
        Key(p) \in corrupted /\ manifest[Key(p)] = Key(p)

(* A lookup's own step finds damage only where there is damage,            *)
LEMMA OwnDamage ==
    ASSUME TypeOK, SettledInv, CompletedProfileIsIntact, NEW p \in Commands,
           Start(p) \/ Progress(p) \/ Crash(p), Damage(p)
    PROVE  Damage(p)'
<1>0. /\ Settled(p) /\ LockPolicy(p) /\ Privacy(p) /\ Course(p) /\ InventoryIsSound(p)
      /\ CompletionRecordIsExact /\ OwnersHold
  BY DEF SettledInv, PolicyInv, PublicationInv
<1> USE KeyType, KeyFrame, ConstantsAssumption
<1>1. CASE Start(p)
  BY <1>0, <1>1 DEF Start, Goto, store, TypeOK, Damage, Settled, Owning, Building, Lookup, Privacy, Course
<1>2. CASE RefuseRoot(p)
  BY <1>0, <1>2 DEF RefuseRoot, Refuse, Report, Goto, store, TypeOK, Damage, Settled, Owning, Building, Lookup, Privacy, Course
<1>3. CASE ResolveFile(p)
  BY <1>0, <1>3 DEF ResolveFile, store, TypeOK, Damage, Settled, Owning, Building, Lookup, Privacy, Course
<1>4. CASE Resolved(p)
  BY <1>0, <1>4 DEF Resolved, Goto, store, local, TypeOK, Damage, Settled, Owning, Building, Lookup, Privacy, Course
<1>5. CASE Find(p)
  <2>1. /\ Key(p)' = Key(p) /\ opt' = opt /\ manifest' = manifest /\ corrupted' = corrupted
        /\ pc[p] = "find" /\ Key(p) \in Keys
    BY <1>5 DEF Find, store
  <2>2. manifest[Key(p)] # Torn
    BY <1>0, <2>1, ConstantTypes DEF CompletionRecordIsExact, Keys, Digests, Contents
  <2>3. CASE found' = found
    BY <2>1, <2>3 DEF Damage
  <2>4. CASE LookupResult(p, "miss")
    BY <2>1, <2>4 DEF LookupResult, TypeOK, Damage
  <2> QED BY <1>5, <2>2, <2>3, <2>4 DEF Find
<1>6. CASE Check(p)
  <2>1. /\ Key(p)' = Key(p) /\ opt' = opt /\ manifest' = manifest /\ corrupted' = corrupted
        /\ pc[p] = "check" /\ Key(p) \in Keys /\ Place(p) = Key(p)
    BY <1>0, <1>6 DEF Check, store, Privacy, Owning, Building, Place
  <2>2. snap[p] = Key(p) /\ manifest[Key(p)] = Key(p)
    BY <1>0, <2>1 DEF Settled
  <2>3. CASE found' = found
    BY <2>1, <2>3 DEF Damage
  <2>4. CASE LookupResult(p, "hit")
    BY <2>1, <2>4 DEF LookupResult, TypeOK, Damage
  <2>5. CASE \E f \in todo[p] : ~Matches(p, f, snap[p])
    <3>1. art[Key(p)] # Key(p)
      BY <2>1, <2>2, <2>5 DEF Matches
    <3>2. Key(p) # NoManifest
      BY <2>1, ConstantTypes DEF Keys, Digests, Contents
    <3>3. Key(p) \in corrupted
      BY <2>1, <2>2, <3>1, <3>2 DEF CompletedProfileIsIntact
    <3> QED BY <2>1, <2>2, <3>3 DEF Damage
  <2> QED BY <1>6, <2>3, <2>4, <2>5 DEF Check
<1>7. CASE Admit(p)
  BY <1>0, <1>7 DEF Admit, Refuse, Report, Goto, store, TypeOK, Damage, Settled, Owning, Building, Lookup, Privacy, Course
<1>8. CASE Lock(p)
  BY <1>0, <1>8 DEF Lock, Goto, store, local, TypeOK, Damage, Settled, Owning, Building, Lookup, Privacy, Course
<1>9. CASE LockFails(p)
  BY <1>0, <1>9 DEF LockFails, Report, Goto, store, TypeOK, Damage, Settled, Owning, Building, Lookup, Privacy, Course
<1>10. CASE Private(p)
  <2>1. /\ Key(p)' = Key(p) /\ found' = found /\ opt' = opt /\ corrupted' = corrupted
        /\ Key(p) \in Keys
    BY <1>10 DEF Private
  <2>2. manifest'[Key(p)] = manifest[Key(p)]
    BY <1>10, <2>1 DEF Private, TypeOK, Places
  <2> QED BY <2>1, <2>2 DEF Damage
<1>11. CASE Begin(p)
  <2>1. /\ Key(p)' = Key(p) /\ found' = found /\ opt' = opt /\ corrupted' = corrupted
        /\ pc[p] = "begin" /\ Key(p) \in Keys
    BY <1>11 DEF Begin
  <2>2. CASE manifest' = manifest
    BY <2>1, <2>2 DEF Damage
  <2>3. CASE manifest' = [manifest EXCEPT ![Place(p)] = NoManifest]
    <3>1. CASE private[p]
      BY <2>1, <2>3, <3>1 DEF Place, Damage, TypeOK, Places
    <3>2. CASE ~private[p]
      <4>1. ~opt[p].force => manifest[Key(p)] # Key(p)
        BY <1>0, <2>1, <3>2, ConstantTypes DEF Settled, Keys, Digests, Contents
      <4> QED BY <2>1, <4>1 DEF Damage
    <3> QED BY <3>1, <3>2
  <2> QED BY <1>11, <2>2, <2>3 DEF Begin
<1>12. CASE Detach(p)
  BY <1>0, <1>12 DEF Detach, Break, Report, Goto, TypeOK, Damage, Settled, Owning, Building, Lookup, Privacy, Course
<1>13. CASE Write(p)
  BY <1>0, <1>13 DEF Write, Break, Report, Goto, TypeOK, Damage, Settled, Owning, Building, Lookup, Privacy, Course
<1>14. CASE Inventory(p)
  BY <1>0, <1>14 DEF Inventory, Break, Report, Goto, store, TypeOK, Damage, Settled, Owning, Building, Lookup, Privacy, Course
<1>15. CASE Recheck(p)
  BY <1>0, <1>15 DEF Recheck, Abandon, Break, Report, Goto, TypeOK, Damage, Settled, Owning, Building, Lookup, Privacy, Course
<1>16. CASE OpenPending(p)
  BY <1>0, <1>16 DEF OpenPending, Abandon, Break, Report, Goto, TypeOK, Damage, Settled, Owning, Building, Lookup, Privacy, Course
<1>17. CASE WritePending(p)
  BY <1>0, <1>17 DEF WritePending, Abandon, Break, Report, Goto, TypeOK, Damage, Settled, Owning, Building, Lookup, Privacy, Course
<1>18. CASE Validate(p)
  BY <1>0, <1>18 DEF Validate, Abandon, Break, Report, Goto, TypeOK, Damage, Settled, Owning, Building, Lookup, Privacy, Course
<1>19. CASE Publish(p)
  <2>1. Key(p)' = Key(p) /\ found' = found /\ opt' = opt /\ pc[p] = "publish" /\ Key(p) \in Keys
    BY <1>19 DEF Publish
  <2>2. CASE UNCHANGED <<manifest, corrupted>>
    BY <2>1, <2>2 DEF Damage
  <2>3. CASE /\ manifest' = [manifest EXCEPT ![Place(p)] = pending[Place(p)]]
             /\ corrupted' = corrupted \ {Place(p)}
    <3>1. CASE private[p]
      BY <2>1, <2>3, <3>1 DEF Place, Damage, TypeOK, Places
    <3>2. CASE ~private[p]
      <4>1. manifest[Key(p)] # Key(p)
        BY <1>0, <2>1, <3>2, ConstantTypes DEF Settled, Building, Keys, Digests, Contents
      <4> QED BY <2>1, <4>1 DEF Damage
    <3> QED BY <3>1, <3>2
  <2> QED BY <1>19, <2>2, <2>3 DEF Publish
<1>20. CASE Unlock(p)
  BY <1>0, <1>20 DEF Unlock, Unlocked, Goto, store, local, TypeOK, Damage, Settled, Owning, Building, Lookup, Privacy, Course
<1>21. CASE Broken(p)
  BY <1>0, <1>21 DEF Broken, Unlocked, Goto, store, local, TypeOK, Damage, Settled, Owning, Building, Lookup, Privacy, Course
<1>22. CASE Finish(p)
  BY <1>0, <1>22 DEF Finish, Gone, Unlocked, Goto, TypeOK, Damage, Settled, Owning, Building, Lookup, Privacy, Course
<1>23. CASE Crash(p)
  BY <1>0, <1>23 DEF Crash, Gone, Unlocked, Goto, TypeOK, Damage, Settled, Owning, Building, Lookup, Privacy, Course
<1> QED BY <1>1, <1>2, <1>3, <1>4, <1>5, <1>6, <1>7, <1>8, <1>9, <1>10, <1>11, <1>12, <1>13, <1>14, <1>15, <1>16, <1>17, <1>18, <1>19, <1>20, <1>21, <1>22, <1>23 DEF Progress

(* ... and every step keeps the reports true.                              *)
LEMMA DamageStep ==
    ASSUME TypeOK, SettledInv, CompletedProfileIsIntact, [Next]_vars,
           \A p \in Commands : Damage(p)
    PROVE  \A p \in Commands : Damage(p)'
<1> SUFFICES ASSUME NEW q \in Commands PROVE Damage(q)'
  OBVIOUS
<1>1. CASE UNCHANGED vars
  <2>1. /\ opt' = opt /\ seen' = seen /\ found' = found /\ manifest' = manifest
        /\ corrupted' = corrupted
    BY <1>1 DEF vars, local, store
  <2> QED BY <2>1, KeyFrame DEF Damage
<1>2. CASE Environment
  <2>1. /\ opt' = opt /\ seen' = seen /\ found' = found /\ manifest' = manifest
        /\ corrupted \subseteq corrupted'
    BY <1>2 DEF Environment, Edit, Corrupt, OrphanOpens, OrphanEnds, store, local
  <2> QED BY <2>1, KeyFrame DEF Damage
<1>3. CASE Start(q) \/ Progress(q) \/ Crash(q)
  BY <1>3, OwnDamage
<1>4. ASSUME NEW p \in Commands, Start(p) \/ Progress(p) \/ Crash(p), p # q PROVE Damage(q)'
  <2>1. /\ Key(q)' = Key(q) /\ opt'[q] = opt[q] /\ found'[q] = found[q] /\ Key(q) \in Keys
    BY <1>4, Locality, OthersKeepOptions, KeyFrame, KeyType
  <2>2. SUFFICES ASSUME found[q] = "unusable", ~opt[q].force
                 PROVE  Key(q) \in corrupted' /\ manifest'[Key(q)] = Key(q)
    BY <2>1 DEF Damage
  <2>3. Key(q) \in corrupted /\ manifest[Key(q)] = Key(q) /\ Key(q) # NoManifest
    BY <2>1, <2>2, ConstantTypes, ConstantsAssumption DEF Damage, Keys, Digests, Contents
  <2>4. pc[q] # "idle"
    BY <2>2 DEF SettledInv, PolicyInv, Course
  <2>5. manifest'[Key(q)] = manifest[Key(q)]
    <3>1. SUFFICES ASSUME manifest'[Key(q)] # manifest[Key(q)] PROVE FALSE
      OBVIOUS
    <3>2. opt[p].force /\ pc[p] = "begin"
      BY <1>4, <2>1, <2>3, <3>1, ForcedInvalidation
    <3> QED BY <2>2, <2>4, <3>2 DEF SettledInv, SameForce
  <2>6. Key(q) \in corrupted'
    <3>1. CASE Publish(p)
      <4>1. Place(p) # Key(q)
        <5>1. SUFFICES ASSUME Place(p) = Key(q) PROVE FALSE
          OBVIOUS
        <5>2. ~private[p] /\ Key(p) = Key(q)
          BY <2>1, <5>1, ConstantsAssumption DEF Place
        <5> QED BY <2>3, <3>1, <5>2 DEF Publish, SettledInv, Settled, Building
      <4> QED BY <2>3, <3>1, <4>1 DEF Publish
    <3>2. CASE ~Publish(p)
      <4>1. corrupted' = corrupted
        BY <1>4, <3>2 DEF Progress, Start, RefuseRoot, ResolveFile, Resolved, Find, Check,
            Admit, Lock, LockFails, Private, Begin, Detach, Write, Inventory, Recheck,
            OpenPending, WritePending, Validate, Unlock, Broken, Finish, Crash, store
      <4> QED BY <2>3, <4>1
    <3> QED BY <3>1, <3>2
  <2> QED BY <2>3, <2>5, <2>6
<1> QED BY <1>1, <1>2, <1>3, <1>4 DEF Next

(* A lookup reports an unusable profile only when a completed one was       *)
(* damaged from outside, provided build children die with their l1c.       *)
THEOREM UnusableProfilesAreCorrupted ==
    ASSUME ChildrenDie PROVE Spec => []UnusableMeansCorrupted
<1>1. Init => \A p \in Commands : Damage(p)
  BY DEF Init, Damage
<1>2. /\ TypeOK /\ SettledInv /\ CompletedProfileIsIntact /\ [Next]_vars
      /\ (\A p \in Commands : Damage(p))
      => (\A p \in Commands : Damage(p))'
  BY DamageStep
<1>3. (\A p \in Commands : Damage(p)) => UnusableMeansCorrupted
  BY DEF Damage, UnusableMeansCorrupted
<1>4. Spec => []CompletedProfileIsIntact
  BY ProfilesStayIntact
<1> QED BY <1>1, <1>2, <1>3, <1>4, Typing, Settlement, PTL DEF Spec

-----------------------------------------------------------------------------
(* What commands read.                                                     *)

(* A private workspace that is about to be completed holds what was        *)
(* validated, and a completed one holds the build of its owner's inputs.   *)
OwnWork(p) ==
    private[p] =>
        /\ pc[p] = "publish" => art[p] = pending[p]
        /\ pc[p] \in {"unlock", "using"} => art[p] = Key(p)

(* The owner's own step keeps it so,                                       *)
LEMMA OwnWorkStep ==
    ASSUME TypeOK, NEW p \in Commands, InventoryIsSound(p), Privacy(p),
           Start(p) \/ Progress(p) \/ Crash(p), OwnWork(p)
    PROVE  OwnWork(p)'
<1> USE KeyType, KeyFrame, ConstantsAssumption
<1>1. CASE Start(p)
  BY <1>1 DEF Start, Goto, store, TypeOK, OwnWork, Privacy, Owning, Building, Lookup
<1>2. CASE RefuseRoot(p)
  BY <1>2 DEF RefuseRoot, Refuse, Report, Goto, store, TypeOK, OwnWork, Privacy, Owning, Building, Lookup
<1>3. CASE ResolveFile(p)
  BY <1>3 DEF ResolveFile, store, TypeOK, OwnWork, Privacy, Owning, Building, Lookup
<1>4. CASE Resolved(p)
  BY <1>4 DEF Resolved, Goto, store, local, TypeOK, OwnWork, Privacy, Owning, Building, Lookup
<1>5. CASE Find(p)
  BY <1>5 DEF Find, LookupResult, Unlocked, Refuse, Report, Goto, store, TypeOK, OwnWork, Privacy, Owning, Building, Lookup
<1>6. CASE Check(p)
  BY <1>6 DEF Check, LookupResult, Unlocked, Refuse, Report, Goto, store, TypeOK, OwnWork, Privacy, Owning, Building, Lookup
<1>7. CASE Admit(p)
  BY <1>7 DEF Admit, Refuse, Report, Goto, store, TypeOK, OwnWork, Privacy, Owning, Building, Lookup
<1>8. CASE Lock(p)
  BY <1>8 DEF Lock, Goto, store, local, TypeOK, OwnWork, Privacy, Owning, Building, Lookup
<1>9. CASE LockFails(p)
  BY <1>9 DEF LockFails, Report, Goto, store, TypeOK, OwnWork, Privacy, Owning, Building, Lookup
<1>10. CASE Private(p)
  BY <1>10 DEF Private, Goto, TypeOK, OwnWork, Privacy, Owning, Building, Lookup
<1>11. CASE Begin(p)
  BY <1>11 DEF Begin, Break, Report, Goto, TypeOK, OwnWork, Privacy, Owning, Building, Lookup
<1>12. CASE Detach(p)
  BY <1>12 DEF Detach, Break, Report, Goto, TypeOK, OwnWork, Privacy, Owning, Building, Lookup
<1>13. CASE Write(p)
  BY <1>13 DEF Write, Break, Report, Goto, TypeOK, OwnWork, Privacy, Owning, Building, Lookup
<1>14. CASE Inventory(p)
  BY <1>14 DEF Inventory, Break, Report, Goto, store, TypeOK, OwnWork, Privacy, Owning, Building, Lookup
<1>15. CASE Recheck(p)
  BY <1>15 DEF Recheck, Abandon, Break, Report, Goto, TypeOK, OwnWork, Privacy, Owning, Building, Lookup
<1>16. CASE OpenPending(p)
  BY <1>16 DEF OpenPending, Abandon, Break, Report, Goto, TypeOK, OwnWork, Privacy, Owning, Building, Lookup
<1>17. CASE WritePending(p)
  BY <1>17 DEF WritePending, Abandon, Break, Report, Goto, TypeOK, OwnWork, Privacy, Owning, Building, Lookup
<1>18. CASE Validate(p)
  <2>1. /\ Key(p)' = Key(p) /\ private' = private /\ art' = art /\ pc[p] = "validate"
        /\ p \in Places
    BY <1>18 DEF Validate, Places
  <2>2. CASE Abandon(p, 2153)
    BY <2>1, <2>2 DEF Abandon, Break, Goto, TypeOK, OwnWork
  <2>3. CASE /\ \A f \in Files : Matches(p, f, pending[Place(p)])
             /\ Goto(p, "publish") /\ pending' = pending
    <3>1. pc'[p] = "publish"
      BY <2>3 DEF Goto, TypeOK
    <3>2. ASSUME private[p] PROVE art[p] = pending[p]
      <4>1. Place(p) = p
        BY <3>2 DEF Place
      <4>2. art[p] \in Digests /\ pending[p] \in Digests
        BY <2>1, <4>1 DEF TypeOK, InventoryIsSound
      <4>3. \A f \in Files : art[p][f] = pending[p][f]
        BY <2>3, <4>1 DEF Matches
      <4> QED BY <4>2, <4>3 DEF Digests
    <3> QED BY <2>1, <2>3, <3>1, <3>2 DEF OwnWork
  <2> QED BY <1>18, <2>2, <2>3 DEF Validate
<1>19. CASE Publish(p)
  <2>1. /\ Key(p)' = Key(p) /\ private' = private /\ art' = art /\ pc[p] = "publish"
        /\ p \in Places /\ Key(p) \in Keys
    BY <1>19 DEF Publish, Places
  <2>2. CASE Abandon(p, 2150)
    BY <2>1, <2>2 DEF Abandon, Break, Goto, TypeOK, OwnWork
  <2>3. CASE Goto(p, "unlock")
    <3>1. pc'[p] = "unlock"
      BY <2>3 DEF Goto, TypeOK
    <3>2. ASSUME private[p] PROVE art[p] = Key(p)
      <4>1. Place(p) = p
        BY <3>2 DEF Place
      <4>2. snap[p] \in Digests /\ (\A f \in Files : snap[p][f] = Key(p)[f]) /\ pending[p] = snap[p]
        BY <2>1, <4>1 DEF InventoryIsSound
      <4>3. art[p] = snap[p]
        BY <2>1, <3>2, <4>2 DEF OwnWork
      <4> QED BY <2>1, <4>2, <4>3 DEF Digests, Keys
    <3> QED BY <2>1, <3>1, <3>2 DEF OwnWork
  <2> QED BY <1>19, <2>2, <2>3 DEF Publish
<1>20. CASE Unlock(p)
  BY <1>20 DEF Unlock, Unlocked, Goto, store, local, TypeOK, OwnWork, Privacy, Owning, Building, Lookup
<1>21. CASE Broken(p)
  BY <1>21 DEF Broken, Unlocked, Goto, store, local, TypeOK, OwnWork, Privacy, Owning, Building, Lookup
<1>22. CASE Finish(p)
  BY <1>22 DEF Finish, Gone, Unlocked, Goto, TypeOK, OwnWork, Privacy, Owning, Building, Lookup
<1>23. CASE Crash(p)
  BY <1>23 DEF Crash, Gone, Unlocked, Goto, TypeOK, OwnWork, Privacy, Owning, Building, Lookup
<1> QED BY <1>1, <1>2, <1>3, <1>4, <1>5, <1>6, <1>7, <1>8, <1>9, <1>10, <1>11, <1>12, <1>13, <1>14, <1>15, <1>16, <1>17, <1>18, <1>19, <1>20, <1>21, <1>22, <1>23 DEF Progress

(* ... and so does everybody else's.                                       *)
LEMMA OthersLeaveWork ==
    ASSUME TypeOK, PolicyInv, PublicationInv, \A p \in Commands : OwnWork(p), [Next]_vars
    PROVE  \A p \in Commands : OwnWork(p)'
<1> SUFFICES ASSUME NEW q \in Commands PROVE OwnWork(q)'
  OBVIOUS
<1>1. CASE UNCHANGED vars
  <2>1. /\ pc' = pc /\ seen' = seen /\ private' = private /\ art' = art /\ pending' = pending
    BY <1>1 DEF vars, local, store
  <2> QED BY <2>1, KeyFrame DEF OwnWork
<1>2. CASE Environment
  <2>1. /\ pc' = pc /\ seen' = seen /\ private' = private /\ pending' = pending
    BY <1>2 DEF Environment, Edit, Corrupt, OrphanOpens, OrphanEnds, store, local
  <2>2. q \in Places /\ q \notin Keys
    BY ConstantsAssumption DEF Places
  <2>3. ASSUME NEW k \in Keys, NEW f \in Files,
               Corrupt(k, f) \/ OrphanOpens(k, f) \/ OrphanEnds(k, f)
        PROVE  art'[q] = art[q]
    BY <2>2, <2>3 DEF Corrupt, OrphanOpens, OrphanEnds, TypeOK
  <2>4. art'[q] = art[q]
    BY <1>2, <2>3 DEF Environment, Edit, store
  <2> QED BY <2>1, <2>4, KeyFrame DEF OwnWork
<1>3. CASE Start(q) \/ Progress(q) \/ Crash(q)
  BY <1>3, OwnWorkStep DEF PolicyInv, PublicationInv
<1>4. ASSUME NEW p \in Commands, Start(p) \/ Progress(p) \/ Crash(p), p # q PROVE OwnWork(q)'
  <2>1. pc'[q] = pc[q] /\ Key(q)' = Key(q) /\ private'[q] = private[q]
    BY <1>4, Locality, KeyFrame
  <2>2. q \in Places /\ q # p /\ q # Place(p)
    BY <1>4, KeyType, ConstantsAssumption DEF Place, Places
  <2>3. art'[q] = art[q] /\ pending'[q] = pending[q]
    BY <1>4, <2>2, Containment
  <2> QED BY <2>1, <2>3 DEF OwnWork
<1> QED BY <1>1, <1>2, <1>3, <1>4 DEF Next

(* As long as a command reads its selected profile, shared or private, the  *)
(* profile stays the exact build of the inputs that the command resolved,   *)
(* provided build children die with their l1c.                             *)
THEOREM ReadersGetTheirInputs ==
    ASSUME ChildrenDie PROVE Spec => []UsersReadTheirInputs
<1>1. Init => \A p \in Commands : OwnWork(p)
  BY DEF Init, OwnWork
<1>2. /\ TypeOK /\ SettledInv /\ (\A p \in Commands : OwnWork(p)) /\ [Next]_vars
      => (\A p \in Commands : OwnWork(p))'
  BY OthersLeaveWork DEF SettledInv
<1>3. /\ TypeOK /\ SettledInv /\ CompletedProfileIsIntact /\ (\A p \in Commands : OwnWork(p))
      => UsersReadTheirInputs
  <2> SUFFICES ASSUME TypeOK, SettledInv, CompletedProfileIsIntact,
                      \A p \in Commands : OwnWork(p),
                      NEW p \in Commands, pc[p] = "using", ~opt[p].explicit,
                      private[p] \/ Key(p) \notin corrupted
               PROVE  art[Place(p)] = Key(p)
    BY DEF UsersReadTheirInputs
  <2>1. CASE private[p]
    BY <2>1 DEF OwnWork, Place
  <2>2. CASE ~private[p]
    <3>1. ~opt[p].force
      BY ConstantsAssumption DEF TypeOK, CommandOptions
    <3>2. manifest[Key(p)] = Key(p) /\ Key(p) \in Keys
      BY <2>2, <3>1, KeyType DEF SettledInv, Settled
    <3>3. Key(p) # NoManifest
      BY <3>2, ConstantTypes, ConstantsAssumption DEF Keys, Digests, Contents
    <3> QED BY <2>2, <3>2, <3>3 DEF CompletedProfileIsIntact, Place
  <2> QED BY <2>1, <2>2
<1>4. Spec => []CompletedProfileIsIntact
  BY ProfilesStayIntact
<1> QED BY <1>1, <1>2, <1>3, <1>4, Typing, Settlement, PTL DEF Spec

-----------------------------------------------------------------------------
(* The refinement.                                                         *)

(* What the refinement needs at every moment: nobody forces, nothing is     *)
(* damaged, and what a command reads is the build of what it resolved.      *)
Unforced == \A o \in Options : ~o.force

ServedInv ==
    /\ SettledInv
    /\ corrupted = {}
    /\ \A p \in Commands : pc[p] = "using" => art[Place(p)] = Key(p)

(* A completed key is a record, so it is not taken for an absent one.       *)
LEMMA KeysAreRecords == Keys \cap {NoManifest, Torn} = {}
BY ConstantTypes, ConstantsAssumption

(* Nobody reads anything but the build of what it resolved,                 *)
LEMMA Serving ==
    ASSUME ChildrenDie, Unforced, "corruption" \notin Faults
    PROVE  Spec => []ServedInv
<1>1. Init => corrupted = {}
  BY DEF Init
<1>2. TypeOK /\ corrupted = {} /\ [Next]_vars => (corrupted = {})'
  <2> SUFFICES ASSUME TypeOK, corrupted = {}, [Next]_vars PROVE corrupted' = {}
    OBVIOUS
  <2>1. CASE UNCHANGED vars
    BY <2>1 DEF vars, store
  <2>2. CASE Environment
    BY <2>2 DEF Environment, Edit, Corrupt, OrphanOpens, OrphanEnds, store
  <2>3. ASSUME NEW p \in Commands, Start(p) \/ Progress(p) \/ Crash(p)
        PROVE  corrupted' = {}
    <3>1. CASE Start(p) \/ RefuseRoot(p) \/ ResolveFile(p) \/ Resolved(p) \/ Find(p) \/ Check(p)
      BY <3>1 DEF Start, RefuseRoot, ResolveFile, Resolved, Find, Check, store
    <3>2. CASE Admit(p) \/ Lock(p) \/ LockFails(p) \/ Private(p) \/ Begin(p)
      BY <3>2 DEF Admit, Lock, LockFails, Private, Begin, store
    <3>3. CASE Detach(p) \/ Write(p) \/ Inventory(p) \/ Recheck(p) \/ OpenPending(p)
      BY <3>3 DEF Detach, Write, Inventory, Recheck, OpenPending, store
    <3>4. CASE WritePending(p) \/ Validate(p) \/ Publish(p) \/ Unlock(p) \/ Broken(p)
      BY <3>4 DEF WritePending, Validate, Publish, Unlock, Broken, store
    <3>5. CASE Finish(p) \/ Crash(p)
      BY <3>5 DEF Finish, Crash
    <3> QED BY <2>3, <3>1, <3>2, <3>3, <3>4, <3>5 DEF Progress
  <2> QED BY <2>1, <2>2, <2>3 DEF Next
<1>3. /\ TypeOK /\ SettledInv /\ CompletedProfileIsIntact /\ corrupted = {}
      /\ (\A p \in Commands : OwnWork(p))
      => ServedInv
  <2> SUFFICES ASSUME TypeOK, SettledInv, CompletedProfileIsIntact, corrupted = {},
                      NEW p \in Commands, OwnWork(p), pc[p] = "using"
               PROVE  art[Place(p)] = Key(p)
    BY DEF ServedInv
  <2>1. CASE private[p]
    BY <2>1 DEF OwnWork, Place
  <2>2. CASE ~private[p]
    <3>1. ~opt[p].force
      BY DEF TypeOK, Unforced
    <3>2. manifest[Key(p)] = Key(p) /\ Key(p) \in Keys
      BY <2>2, <3>1, KeyType DEF SettledInv, Settled
    <3> QED BY <2>2, <3>2, KeysAreRecords DEF CompletedProfileIsIntact, Place
  <2> QED BY <2>1, <2>2
<1>4. Init => \A p \in Commands : OwnWork(p)
  BY DEF Init, OwnWork
<1>5. /\ TypeOK /\ SettledInv /\ (\A p \in Commands : OwnWork(p)) /\ [Next]_vars
      => (\A p \in Commands : OwnWork(p))'
  BY OthersLeaveWork DEF SettledInv
<1>6. Spec => []CompletedProfileIsIntact
  BY ProfilesStayIntact
<1> QED BY <1>1, <1>2, <1>3, <1>4, <1>5, <1>6, Typing, Settlement, PTL DEF Spec

(* A step completes the profile it was building, or no profile.             *)
LEMMA DoneMoves ==
    ASSUME Unforced, TypeOK, ServedInv, NEW p \in Commands,
           Start(p) \/ Progress(p) \/ Crash(p)
    PROVE  \/ DoneSeen' = DoneSeen
           \/ /\ Publish(p) /\ pc'[p] = "unlock" /\ ~private[p]
              /\ Key(p) \notin DoneSeen /\ DoneSeen' = DoneSeen \cup {Key(p)}
<1>1. \A k \in Keys : manifest[k] # NoManifest => manifest'[k] = manifest[k]
  BY ForcedInvalidation, SMTT(30) DEF ServedInv, Unforced, TypeOK
<1>2. CASE \A k \in Keys : manifest'[k] = manifest[k]
  BY <1>2 DEF DoneSeen
<1>3. CASE \E k \in Keys : manifest'[k] # manifest[k]
  <2>1. PICK k \in Keys : manifest'[k] # manifest[k]
    BY <1>3
  <2>2. k \in Places /\ k # p /\ manifest[k] = NoManifest
    BY <1>1, <2>1, ConstantsAssumption DEF Places
  <2>3. pc[p] \in Owning /\ k = Place(p)
    BY <2>1, <2>2, Containment
  <2>4. ~private[p] /\ k = Key(p) /\ p \notin Keys
    BY <2>2, <2>3, ConstantsAssumption DEF Place
  <2>5. Publish(p) /\ manifest' = [manifest EXCEPT ![Place(p)] = pending[Place(p)]]
        /\ Goto(p, "unlock")
    <3>1. CASE Start(p) \/ RefuseRoot(p) \/ ResolveFile(p) \/ Resolved(p) \/ Find(p) \/ Check(p)
      BY <2>1, <3>1 DEF Start, RefuseRoot, ResolveFile, Resolved, Find, Check, store
    <3>2. CASE Admit(p) \/ Lock(p) \/ LockFails(p)
      BY <2>1, <3>2 DEF Admit, Lock, LockFails, store
    <3>3. CASE Private(p) \/ Finish(p) \/ Crash(p)
      BY <2>1, <2>2, <3>3 DEF Private, Finish, Crash, Gone, TypeOK
    <3>4. CASE Begin(p)
      BY <2>1, <2>2, <3>4 DEF Begin, TypeOK
    <3>5. CASE Detach(p) \/ Write(p) \/ Inventory(p) \/ Recheck(p) \/ OpenPending(p)
      BY <2>1, <3>5 DEF Detach, Write, Inventory, Recheck, OpenPending, store
    <3>6. CASE WritePending(p) \/ Validate(p) \/ Unlock(p) \/ Broken(p)
      BY <2>1, <3>6 DEF WritePending, Validate, Unlock, Broken, store
    <3>7. CASE Publish(p)
      BY <2>1, <3>7 DEF Publish
    <3> QED BY <3>1, <3>2, <3>3, <3>4, <3>5, <3>6, <3>7 DEF Progress
  <2>6. pending[Place(p)] = Key(p)
    BY <2>3, <2>4, <2>5, PublishedIsKey DEF Publish, ServedInv, SettledInv, PublicationInv
  <2>7. /\ manifest'[Key(p)] = Key(p)
        /\ \A j \in Keys : j # Key(p) => manifest'[j] = manifest[j]
    <3>1. Key(p) \in Places /\ Keys \subseteq Places /\ Place(p) = Key(p)
      BY <2>2, <2>3, <2>4 DEF Places
    <3>2. manifest' = [manifest EXCEPT ![Key(p)] = Key(p)]
      BY <2>5, <2>6, <3>1
    <3> QED BY <3>1, <3>2 DEF TypeOK
  <2>8. pc'[p] = "unlock"
    BY <2>5 DEF Goto, TypeOK
  <2>9. Key(p) \notin DoneSeen /\ DoneSeen' = DoneSeen \cup {Key(p)}
    BY <2>2, <2>4, <2>7, KeysAreRecords DEF DoneSeen
  <2> QED BY <2>4, <2>5, <2>8, <2>9
<1> QED BY <1>2, <1>3

(* The course of one command, as the service sees it.                       *)
Same(p) == opt' = opt /\ seen' = seen

Advance(p) ==
    \/ Phase(p) = "idle" /\ Phase(p)' = "resolving"
    \/ Phase(p) = "resolving" /\ Phase(p)' = "resolving" /\ opt' = opt
    \/ Phase(p) = "resolving" /\ Phase(p)' = "asking" /\ Same(p)
    \/ Phase(p) = "asking" /\ Phase(p)' = "asking" /\ Same(p)
    \/ /\ Phase(p) = "asking" /\ Phase(p)' = "served" /\ Same(p)
       /\ Key(p) \in DoneSeen \/ Mode(p) = "build"
    \/ Phase(p) \in {"resolving", "asking"} /\ Phase(p)' = "refused" /\ Same(p)
    \/ Phase(p) # "idle" /\ Phase(p)' = "idle"

\* Every step of a command is one of the advances above.
LEMMA Advances ==
    ASSUME Unforced, TypeOK, ServedInv, NEW p \in Commands, Start(p) \/ Progress(p) \/ Crash(p)
    PROVE  Advance(p)
<1> USE DEF Goto, TypeOK, Phase, Same, Advance
<1>0. Settled(p) /\ Privacy(p) /\ Key(p) \in Keys
  BY KeyType DEF ServedInv, SettledInv, PolicyInv
<1>1. CASE Start(p)
  BY <1>1 DEF Start
<1>2. CASE RefuseRoot(p)
  BY <1>2 DEF RefuseRoot, Refuse
<1>3. CASE ResolveFile(p)
  BY <1>3 DEF ResolveFile
<1>4. CASE Resolved(p)
  BY <1>4 DEF Resolved, local
<1>5. CASE Find(p)
  BY <1>5 DEF Find, LookupResult, Refuse
<1>6. CASE Check(p)
  <2>1. Key(p) \in DoneSeen
    BY <1>0, <1>6, KeysAreRecords DEF Check, Settled, DoneSeen
  <2> QED BY <1>6, <2>1 DEF Check, LookupResult, Refuse
<1>7. CASE Admit(p)
  BY <1>7 DEF Admit, Refuse
<1>8. CASE Lock(p) \/ LockFails(p)
  BY <1>8 DEF Lock, LockFails, local
<1>9. CASE Private(p)
  BY <1>9 DEF Private
<1>10. CASE Begin(p) \/ Detach(p)
  BY <1>10 DEF Begin, Detach, Break
<1>11. CASE Write(p) \/ Inventory(p)
  BY <1>11 DEF Write, Inventory, Break
<1>12. CASE Recheck(p) \/ OpenPending(p) \/ WritePending(p)
  BY <1>12 DEF Recheck, OpenPending, WritePending, Abandon, Break
<1>13. CASE Validate(p) \/ Publish(p)
  BY <1>13 DEF Validate, Publish, Abandon, Break
<1>14. CASE Unlock(p)
  <2>1. Key(p) \in DoneSeen \/ Mode(p) = "build"
    <3>1. CASE private[p]
      BY <1>0, <1>14, <3>1 DEF Unlock, Privacy, MayBeAlone, Mode
    <3>2. CASE ~private[p]
      <4>1. ~opt[p].force
        BY DEF Unforced
      <4>2. manifest[Key(p)] = Key(p)
        BY <1>0, <1>14, <3>2, <4>1 DEF Unlock, Settled
      <4> QED BY <1>0, <4>2, KeysAreRecords DEF DoneSeen
    <3> QED BY <3>1, <3>2
  <2> QED BY <1>14, <2>1 DEF Unlock, local
<1>15. CASE Broken(p)
  BY <1>15 DEF Broken, local
<1>16. CASE Finish(p) \/ Crash(p)
  BY <1>16 DEF Finish, Crash, Gone
<1> QED BY <1>1, <1>2, <1>3, <1>4, <1>5, <1>6, <1>7, <1>8, <1>9, <1>10, <1>11, <1>12, <1>13,
           <1>14, <1>15, <1>16 DEF Progress

(* Every step of the cache is a step of the service or none at all.         *)
LEMMA StepIsServed ==
    ASSUME Unforced, TypeOK, TypeOK', ServedInv, ServedInv',
           NEW p \in Commands, Start(p) \/ Progress(p) \/ Crash(p)
    PROVE  [Service!Next]_(Service!svars)
<1>1. ASSUME NEW q \in Commands, q # p
      PROVE  /\ Phase(q)' = Phase(q) /\ Mode(q)' = Mode(q) /\ Key(q)' = Key(q)
             /\ pc'[q] = pc[q]
  BY <1>1, Locality, OthersKeepOptions, KeyFrame DEF Phase, Mode
<1>2. GotSeen = [q \in Commands |-> IF Phase(q) = "served" THEN Key(q) ELSE Nothing]
  BY DEF ServedInv, GotSeen, Phase
<1>3. GotSeen' = [q \in Commands |-> IF Phase(q)' = "served" THEN Key(q)' ELSE Nothing]
  BY DEF ServedInv, GotSeen, Phase
<1>4. /\ PhaseSeen' = [PhaseSeen EXCEPT ![p] = Phase(p)']
      /\ ModeSeen' = [ModeSeen EXCEPT ![p] = Mode(p)']
      /\ PhaseSeen[p] = Phase(p) /\ ModeSeen[p] = Mode(p)
  BY <1>1 DEF PhaseSeen, ModeSeen
<1>5. /\ WantSeen' = [WantSeen EXCEPT ![p] = IF Phase(p)' \in {"asking", "served"}
                                              THEN Key(p)' ELSE Nothing]
      /\ WantSeen[p] = IF Phase(p) \in {"asking", "served"} THEN Key(p) ELSE Nothing
  BY <1>1 DEF WantSeen
<1>6. /\ GotSeen' = [GotSeen EXCEPT ![p] = IF Phase(p)' = "served" THEN Key(p)' ELSE Nothing]
      /\ GotSeen[p] = IF Phase(p) = "served" THEN Key(p) ELSE Nothing
  BY <1>1, <1>2, <1>3
<1>7. /\ PhaseSeen = [q \in Commands |-> PhaseSeen[q]] /\ ModeSeen = [q \in Commands |-> ModeSeen[q]]
      /\ WantSeen = [q \in Commands |-> WantSeen[q]] /\ GotSeen = [q \in Commands |-> GotSeen[q]]
  BY DEF PhaseSeen, ModeSeen, WantSeen, GotSeen
<1>8. Key(p) \in Keys /\ Key(p)' \in Keys /\ (Same(p) => Key(p)' = Key(p))
  <2>1. Key(p)' \in Keys
    BY DEF TypeOK, Key, Keys, Stamped
  <2> QED BY <2>1, KeyType, KeyFrame DEF Same
<1>9. /\ Mode(p)' \in {"none", "prepare", "build", "reuse"}
      /\ Phase(p)' = "idle" <=> Mode(p)' = "none"
      /\ opt' = opt /\ Phase(p) # "idle" /\ Phase(p)' # "idle" => Mode(p)' = Mode(p)
  <2>1. (Phase(p) = "idle" <=> pc[p] = "idle") /\ (Phase(p)' = "idle" <=> pc'[p] = "idle")
    BY DEF Phase
  <2> QED BY <2>1 DEF Mode
<1>10. Advance(p) /\ (DoneSeen' = DoneSeen \/ (Phase(p) = "asking" /\ Phase(p)' = "asking"))
  <2>1. Publish(p) /\ pc'[p] = "unlock" => Phase(p) = "asking" /\ Phase(p)' = "asking"
    BY DEF Publish, Phase
  <2> QED BY <2>1, Advances, DoneMoves
<1>11. CASE Phase(p) = "idle" /\ Phase(p)' = "resolving"
  <2>1. WantSeen' = WantSeen /\ GotSeen' = GotSeen /\ DoneSeen' = DoneSeen
    BY <1>5, <1>6, <1>7, <1>10, <1>11
  <2>2. Mode(p)' \in Service!Modes
    BY <1>9, <1>11 DEF Service!Modes
  <2> QED BY <1>4, <1>11, <2>1, <2>2 DEF Service!Next, Service!Start
<1>12. CASE Phase(p) = "resolving" /\ Phase(p)' = "resolving" /\ opt' = opt
  <2>1. /\ PhaseSeen' = PhaseSeen /\ ModeSeen' = ModeSeen /\ WantSeen' = WantSeen
        /\ GotSeen' = GotSeen /\ DoneSeen' = DoneSeen
    <3>1. PhaseSeen' = PhaseSeen /\ ModeSeen' = ModeSeen
      BY <1>4, <1>7, <1>9, <1>12
    <3>2. WantSeen' = WantSeen /\ GotSeen' = GotSeen
      BY <1>5, <1>6, <1>7, <1>12
    <3> QED BY <1>10, <1>12, <3>1, <3>2
  <2> QED BY <2>1 DEF Service!svars
<1>13. CASE Phase(p) = "resolving" /\ Phase(p)' = "asking" /\ Same(p)
  <2>1. ModeSeen' = ModeSeen /\ GotSeen' = GotSeen /\ DoneSeen' = DoneSeen
    BY <1>4, <1>6, <1>7, <1>9, <1>10, <1>13 DEF Same
  <2>2. WantSeen' = [WantSeen EXCEPT ![p] = Key(p)']
    BY <1>5, <1>13
  <2> QED BY <1>4, <1>8, <1>13, <2>1, <2>2 DEF Service!Next, Service!Ask
<1>14. CASE Phase(p) = "asking" /\ Phase(p)' = "asking" /\ Same(p)
  <2>1. /\ PhaseSeen' = PhaseSeen /\ ModeSeen' = ModeSeen
        /\ WantSeen' = WantSeen /\ GotSeen' = GotSeen
    BY <1>4, <1>5, <1>6, <1>7, <1>8, <1>9, <1>14 DEF Same
  <2>2. CASE DoneSeen' = DoneSeen
    BY <2>1, <2>2 DEF Service!svars
  <2>3. CASE /\ Publish(p) /\ ~private[p]
             /\ Key(p) \notin DoneSeen /\ DoneSeen' = DoneSeen \cup {Key(p)}
    <3>1. Mode(p) # "reuse"
      <4>1. Holds(p) /\ LockPolicy(p)
        BY <2>3 DEF Publish, ServedInv, SettledInv, PolicyInv, OwnersHold, Owning, Building
      <4> QED BY <4>1 DEF LockPolicy, Mode
    <3>2. WantSeen[p] = Key(p)
      BY <1>5, <1>14
    <3> QED BY <1>4, <1>14, <2>1, <2>3, <3>1, <3>2 DEF Service!Next, Service!Complete
  <2> QED BY <2>2, <2>3, DoneMoves
<1>15. CASE /\ Phase(p) = "asking" /\ Phase(p)' = "served" /\ Same(p)
            /\ Key(p) \in DoneSeen \/ Mode(p) = "build"
  <2>1. ModeSeen' = ModeSeen /\ DoneSeen' = DoneSeen
    BY <1>4, <1>7, <1>9, <1>10, <1>15 DEF Same
  <2>2. WantSeen' = WantSeen /\ WantSeen[p] = Key(p)
    BY <1>5, <1>7, <1>8, <1>15
  <2>3. GotSeen' = [GotSeen EXCEPT ![p] = WantSeen[p]]
    BY <1>6, <1>8, <1>15, <2>2
  <2> QED BY <1>4, <1>15, <2>1, <2>2, <2>3 DEF Service!Next, Service!Serve
<1>16. CASE Phase(p) \in {"resolving", "asking"} /\ Phase(p)' = "refused" /\ Same(p)
  <2>1. ModeSeen' = ModeSeen /\ GotSeen' = GotSeen /\ DoneSeen' = DoneSeen
    BY <1>4, <1>6, <1>7, <1>9, <1>10, <1>16 DEF Same
  <2>2. WantSeen' = [WantSeen EXCEPT ![p] = Nothing]
    BY <1>5, <1>16
  <2> QED BY <1>4, <1>16, <2>1, <2>2 DEF Service!Next, Service!Refuse
<1>17. CASE Phase(p) # "idle" /\ Phase(p)' = "idle"
  <2>1. DoneSeen' = DoneSeen /\ ModeSeen' = [ModeSeen EXCEPT ![p] = "none"]
    BY <1>4, <1>9, <1>10, <1>17
  <2>2. /\ WantSeen' = [WantSeen EXCEPT ![p] = Nothing]
        /\ GotSeen' = [GotSeen EXCEPT ![p] = Nothing]
    BY <1>5, <1>6, <1>17
  <2> QED BY <1>4, <1>17, <2>1, <2>2 DEF Service!Next, Service!End
<1> QED BY <1>10, <1>11, <1>12, <1>13, <1>14, <1>15, <1>16, <1>17 DEF Advance

(* What happens outside the commands is invisible.                          *)
LEMMA OthersAreInvisible ==
    ASSUME TypeOK, ServedInv, ServedInv', UNCHANGED vars \/ Environment
    PROVE  UNCHANGED Service!svars
<1>1. /\ pc' = pc /\ opt' = opt /\ seen' = seen /\ manifest' = manifest
  BY DEF vars, Environment, Edit, Corrupt, OrphanOpens, OrphanEnds, store, local
<1>2. ASSUME NEW q \in Commands
      PROVE  Phase(q)' = Phase(q) /\ Mode(q)' = Mode(q) /\ Key(q)' = Key(q)
  BY <1>1 DEF Phase, Mode, Key
<1>3. GotSeen = [q \in Commands |-> IF pc[q] = "using" THEN Key(q) ELSE Nothing]
  BY DEF ServedInv, GotSeen
<1>4. GotSeen' = [q \in Commands |-> IF pc'[q] = "using" THEN Key(q)' ELSE Nothing]
  BY DEF ServedInv, GotSeen
<1>5. PhaseSeen' = PhaseSeen /\ ModeSeen' = ModeSeen /\ WantSeen' = WantSeen
  BY <1>2 DEF PhaseSeen, ModeSeen, WantSeen
<1>6. GotSeen' = GotSeen
  BY <1>1, <1>2, <1>3, <1>4
<1>7. DoneSeen' = DoneSeen
  BY <1>1 DEF DoneSeen
<1> QED BY <1>5, <1>6, <1>7 DEF Service!svars

(* As long as nobody forces a replacement or damages a completed profile,   *)
(* and build children die with their l1c, every command gets exactly the    *)
(* support of the inputs it resolved or is refused, and completed support   *)
(* only grows: the lock, the retries and the deaths cannot be seen.         *)
THEOREM ServiceIsImplemented ==
    ASSUME ChildrenDie, Unforced, "corruption" \notin Faults
    PROVE  Spec => ImplementsService
<1>1. Init => Service!Init
  <2> SUFFICES ASSUME Init PROVE Service!Init
    OBVIOUS
  <2>1. PhaseSeen = [p \in Commands |-> "idle"] /\ ModeSeen = [p \in Commands |-> "none"]
    BY DEF Init, PhaseSeen, ModeSeen, Phase, Mode
  <2>2. WantSeen = [p \in Commands |-> Nothing] /\ GotSeen = [p \in Commands |-> Nothing]
    BY DEF Init, WantSeen, GotSeen, Phase
  <2>3. DoneSeen = {}
    BY DEF Init, DoneSeen, Places
  <2> QED BY <2>1, <2>2, <2>3 DEF Service!Init
<1>2. TypeOK /\ ServedInv /\ (TypeOK /\ ServedInv)' /\ [Next]_vars
        => [Service!Next]_(Service!svars)
  BY StepIsServed, OthersAreInvisible DEF Next
<1>3. Spec => []ServedInv
  BY Serving
<1> QED BY <1>1, <1>2, <1>3, Typing, PTL DEF Spec, ImplementsService, Service!Spec
=============================================================================
