SPECIFICATION Spec
CONSTANTS
  NumNodes = 3
  NumSkins = 2
  NumMeshes = 2
  Modulus = 256
  Files <- MCFiles
INVARIANTS TypeOK SkinFollowsSkeleton TablesAgree
PROPERTIES DrawnForEver
