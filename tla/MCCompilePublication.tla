------------------------ MODULE MCCompilePublication ------------------------
(* Model values and bounds for checking CompilePublication with TLC.       *)
EXTENDS CompilePublicationRefinement, TLC

CONSTANTS c1, d1, s1

(* Any mixture of old files, of no files and of things that are not regular *)
(* files.                                                                  *)
AnySets == [Artifacts -> {Absent, 1, Odd}]
=============================================================================
