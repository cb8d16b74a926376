CONSTANTS
  Node = {n1, n2}
  NULL = NULL
  Wild = Wild
  FreshThread = {Wild}
  FreshDone = {FALSE}
SPECIFICATION Spec
SYMMETRY Symmetry
INVARIANT ForwardEndsInNull
