---------------------------- MODULE MCPlaceSweep ----------------------------
(***************************************************************************)
(* A small instance of PlaceSweep for TLC: the values World stores are the *)
(* transforms and the rotations.                                           *)
(***************************************************************************)
EXTENDS PlaceSweep

MCValue == Transform \cup Rotate
==============================================================================
