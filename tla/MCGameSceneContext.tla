--------------------------- MODULE MCGameSceneContext ---------------------------
(***************************************************************************)
(* Instance of GameSceneContext for TLC: the user presses any of the five  *)
(* digit keys, at any moment and in any order.                             *)
(***************************************************************************)
EXTENDS GameSceneContext

AllDigits == Scene
==============================================================================
