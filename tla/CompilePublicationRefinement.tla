-------------------- MODULE CompilePublicationRefinement --------------------
(* Compile-only publication implements CompileService: seen from outside,   *)
(* a destination set changes only when its command ends.                   *)
EXTENDS CompilePublication

NoJob == <<>>

Running(s) == {p \in Commands : pc[p] # "idle" /\ stem[p] = s}

SetSeen ==
    [s \in Stems |-> IF Running(s) = {} THEN final[s] ELSE prior[CHOOSE p \in Running(s) : TRUE]]

JobSeen ==
    [p \in Commands |->
        IF pc[p] = "idle" THEN NoJob
        ELSE [stem |-> stem[p], made |-> made[p], selected |-> Selected(p)]]

Abandoned == {n \in Names : txn[n] # NoDir /\ \A p \in Commands : name[p] # n}
BackedUp(n) == {<<a, txn[n].backup[a]>> : a \in {b \in Artifacts : txn[n].backup[b] # Absent}}
RecoverySeen == UNION {BackedUp(n) : n \in Abandoned}

Service == INSTANCE CompileService WITH
    set <- SetSeen, job <- JobSeen, recovery <- RecoverySeen

(* Every behaviour of the transaction, with failing system calls, failing   *)
(* compilers and deaths, is one in which a command replaces its whole set,  *)
(* changes nothing, or leaves what is missing for recovery.                *)
ImplementsCompileService == Service!Spec
=============================================================================
