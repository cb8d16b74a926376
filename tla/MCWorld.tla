------------------------------- MODULE MCWorld -------------------------------
(***************************************************************************)
(* Small instances of World for TLC, of one component type: what several   *)
(* pools have to do with each other is checked in MCPlaceSweep.            *)
(***************************************************************************)
EXTENDS World
==============================================================================
