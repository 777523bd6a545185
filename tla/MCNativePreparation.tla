------------------------ MODULE MCNativePreparation ------------------------
(* Model values and bounds for checking NativePreparation with TLC.        *)
EXTENDS NativePreparationRefinement, TLC

CONSTANTS c1, c2, iface, rt

Build == [explicit |-> FALSE, force |-> FALSE, auto |-> TRUE,
          root |-> FALSE, eligible |-> TRUE, writable |-> TRUE]
Prepare == [Build EXCEPT !.explicit = TRUE]
Force   == [Prepare EXCEPT !.force = TRUE]

OldInput == [f \in Files |-> 1]

(* Plain builds only; builds with explicit and forced preparation; and      *)
(* every command line and environment that may meet.                        *)
BuildOnly == {Build}
WithForce == {Build, Prepare, Force}
Reuse     == [Build EXCEPT !.auto = FALSE]
Modest    == {Build, Prepare, Reuse}
NoForce   == {o \in CommandOptions : ~o.force}

(* How often each input may change.                                        *)
NoEdit     == [f \in Files |-> 0]
RuntimeOnce == [f \in Files |-> IF f = rt THEN 1 ELSE 0]

Symmetry == Permutations(Commands)
=============================================================================
