CONSTANTS
  Node = {n1, n2, n3, n4}
  NULL = NULL
  Wild = Wild
  FreshThread = {NULL}
  FreshDone = {FALSE, TRUE}
SPECIFICATION Spec
SYMMETRY Symmetry
INVARIANT LinksAgree
INVARIANT WalksInOrder
PROPERTY ImplementsOrderedTree
