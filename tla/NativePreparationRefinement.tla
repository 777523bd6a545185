-------------------- MODULE NativePreparationRefinement --------------------
(* Managed native preparation implements PreparationService as long as      *)
(* nobody forces a replacement or damages a completed profile.             *)
EXTENDS NativePreparation

Nothing == NoManifest

Phase(p) ==
    CASE pc[p] = "idle" -> "idle"
      [] pc[p] = "resolve" -> "resolving"
      [] pc[p] = "using" -> "served"
      [] pc[p] = "failed" -> "refused"
      [] OTHER -> "asking"

Mode(p) ==
    IF pc[p] = "idle" THEN "none"
    ELSE IF opt[p].explicit THEN "prepare"
    ELSE IF opt[p].auto THEN "build" ELSE "reuse"

PhaseSeen == [p \in Commands |-> Phase(p)]
ModeSeen  == [p \in Commands |-> Mode(p)]
WantSeen  == [p \in Commands |-> IF Phase(p) \in {"asking", "served"} THEN Key(p) ELSE Nothing]
GotSeen   == [p \in Commands |-> IF pc[p] = "using" THEN art[Place(p)] ELSE Nothing]
DoneSeen  == {k \in Keys : manifest[k] # NoManifest}

Service == INSTANCE PreparationService WITH
    phase <- PhaseSeen, mode <- ModeSeen, want <- WantSeen, got <- GotSeen, done <- DoneSeen

(* Every behaviour of the shared cache, with its lock, its private          *)
(* fallback, its failures and its crashes, is one in which each command     *)
(* gets exactly the support of the inputs it resolved, or is refused.       *)
ImplementsService == Service!Spec
=============================================================================
