------------------------------- MODULE MCBlendLoop -------------------------------
(***************************************************************************)
(* Instance of BlendLoop for TLC: five ticks to a frame, two of them the   *)
(* cushion; a ramp of nine ticks over a grid that is coarser, so that      *)
(* turning it around in the middle leaves it between the lines.            *)
(***************************************************************************)
EXTENDS BlendLoop

NineTicks == 9
SixPoints == 6
==================================================================================
