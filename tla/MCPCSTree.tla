------------------------------- MODULE MCPCSTree -------------------------------
(* An instance of PCSTree.                                                  *)
EXTENDS PCSTree, TLC

\* No node is distinguished.
Symmetry == Permutations(Node)
================================================================================
