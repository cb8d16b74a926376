------------------------------- MODULE MCRenderPass ------------------------------
(***************************************************************************)
(* Instance of RenderPass for TLC: every kind of material, with an alpha   *)
(* texture and without, on two layers, switched off, three at a time, and  *)
(* sprites and texts of one or two quads or none.                          *)
(***************************************************************************)
EXTENDS RenderPass

Object(kind, layer, alpha) ==
  [kind |-> kind, layer |-> layer, drawEnable |-> TRUE, alpha |-> alpha]

SceneObjects ==
  {Object("FlatTexture", -1, TRUE), Object("FlatTexture", 0, TRUE),
   Object("FlatTexture", 0, FALSE), Object("ConstColorLight", 0, FALSE),
   Object("Wireframe", 0, FALSE), Object("Wireframe", -1, FALSE),
   Object("SkinLightTexture", 0, TRUE), Object("ColorByVertex", 0, FALSE),
   [Object("ColorByVertex", -1, FALSE) EXCEPT !.drawEnable = FALSE]}

SceneTexts == {<<>>, <<FALSE, TRUE>>}
==============================================================================
