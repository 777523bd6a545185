------------------------ MODULE PreparationService ------------------------
(***************************************************************************)
(* What managed native preparation promises to the commands of a compiler: *)
(* a command that asked for the native support of some inputs either gets  *)
(* the exact support of those inputs or is refused.  Completed support is  *)
(* a growing set of keys; the file system, the lock and the failures that  *)
(* NativePreparation describes are invisible.                              *)
(***************************************************************************)
CONSTANTS Commands, Keys, Nothing

\* "prepare" (--prepare-stdlib) completes persistent support or fails, "build"
\* may also use support of its own, "reuse" (--no-auto-prepare) builds nothing.
Modes == {"prepare", "build", "reuse"}

VARIABLES
    phase,      \* what each command does
    mode,       \* what it is allowed to do
    want,       \* the inputs it asked support for
    got,        \* the support it was given
    done        \* the keys with completed persistent support

svars == <<phase, mode, want, got, done>>

Init ==
    /\ phase = [p \in Commands |-> "idle"]
    /\ mode = [p \in Commands |-> "none"]
    /\ want = [p \in Commands |-> Nothing]
    /\ got = [p \in Commands |-> Nothing]
    /\ done = {}

Start(p) ==
    /\ phase[p] = "idle"
    /\ phase' = [phase EXCEPT ![p] = "resolving"]
    /\ \E m \in Modes : mode' = [mode EXCEPT ![p] = m]
    /\ UNCHANGED <<want, got, done>>

Ask(p) ==
    /\ phase[p] = "resolving"
    /\ phase' = [phase EXCEPT ![p] = "asking"]
    /\ \E k \in Keys : want' = [want EXCEPT ![p] = k]
    /\ UNCHANGED <<mode, got, done>>

\* A command that may build completes the support it asked for.
Complete(p) ==
    /\ phase[p] = "asking" /\ mode[p] # "reuse"
    /\ want[p] \notin done
    /\ done' = done \cup {want[p]}
    /\ UNCHANGED <<phase, mode, want, got>>

\* Only a "build" may be served with support that is not persistent.
Serve(p) ==
    /\ phase[p] = "asking"
    /\ want[p] \in done \/ mode[p] = "build"
    /\ phase' = [phase EXCEPT ![p] = "served"]
    /\ got' = [got EXCEPT ![p] = want[p]]
    /\ UNCHANGED <<mode, want, done>>

Refuse(p) ==
    /\ phase[p] \in {"resolving", "asking"}
    /\ phase' = [phase EXCEPT ![p] = "refused"]
    /\ want' = [want EXCEPT ![p] = Nothing]
    /\ UNCHANGED <<mode, got, done>>

\* The command ends or dies.
End(p) ==
    /\ phase[p] # "idle"
    /\ phase' = [phase EXCEPT ![p] = "idle"]
    /\ mode' = [mode EXCEPT ![p] = "none"]
    /\ want' = [want EXCEPT ![p] = Nothing]
    /\ got' = [got EXCEPT ![p] = Nothing]
    /\ UNCHANGED done

Next ==
    \E p \in Commands :
        Start(p) \/ Ask(p) \/ Complete(p) \/ Serve(p) \/ Refuse(p) \/ End(p)

Spec == Init /\ [][Next]_svars
=============================================================================
