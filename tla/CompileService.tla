--------------------------- MODULE CompileService ---------------------------
(***************************************************************************)
(* What compile-only mode promises to its callers (ADR-0022): a command     *)
(* that ends has replaced its whole set of artifacts or changed nothing, or *)
(* it was interrupted, and then the old files that are missing can be       *)
(* recovered.  Staging, backups, renames and rollback are invisible.        *)
(***************************************************************************)
CONSTANTS Commands, Stems, Artifacts, Versions, Absent, NoJob

VARIABLES
    set,        \* the artifacts at each destination
    job,        \* what each command was asked to make
    recovery    \* old files that commands left for recovery

cvars == <<set, job, recovery>>

Jobs == [stem : Stems, made : Versions, selected : SUBSET Artifacts]

Start(p) ==
    /\ job[p] = NoJob
    /\ \E j \in Jobs :
        /\ \A q \in Commands : job[q] # NoJob => job[q].stem # j.stem
        /\ job' = [job EXCEPT ![p] = j]
    /\ UNCHANGED <<set, recovery>>

\* Only old files of the command's own set are left behind, and none that an
\* earlier command left disappears.
Leave(p) ==
    LET j == job[p]
        old == {<<a, set[j.stem][a]>> : a \in j.selected}
    IN  \E more \in SUBSET old : recovery' = recovery \cup more

Spill(p) == job[p] # NoJob /\ Leave(p) /\ UNCHANGED <<set, job>>

End(p) == job[p] # NoJob /\ Leave(p) /\ job' = [job EXCEPT ![p] = NoJob]

Succeed(p) ==
    /\ End(p)
    /\ set' = [set EXCEPT ![job[p].stem] =
                [a \in Artifacts |-> IF a \in job[p].selected THEN job[p].made ELSE @[a]]]

Fail(p) == End(p) /\ set' = set

\* Each selected artifact is now old, new or missing; what is not in its
\* place can be recovered, unless the new set is complete.
Interrupt(p) ==
    /\ End(p)
    /\ \E new \in [job[p].selected -> {"old", "new", "missing"}] :
         LET j == job[p]
             now(a) == IF a \notin j.selected \/ new[a] = "old" THEN set[j.stem][a]
                       ELSE IF new[a] = "new" THEN j.made ELSE Absent
         IN  /\ set' = [set EXCEPT ![j.stem] = [a \in Artifacts |-> now(a)]]
             /\ \/ \A a \in j.selected : new[a] = "new"
                \/ \A a \in j.selected :
                     now(a) # set[j.stem][a] /\ set[j.stem][a] # Absent
                        => <<a, set[j.stem][a]>> \in recovery'

Next == \E p \in Commands : Start(p) \/ Spill(p) \/ Succeed(p) \/ Fail(p) \/ Interrupt(p)

Init ==
    /\ job = [p \in Commands |-> NoJob]
    /\ recovery = {}

Spec == Init /\ [][Next]_cvars
=============================================================================
