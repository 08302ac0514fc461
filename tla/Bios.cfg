SPECIFICATION Spec
CONSTANTS
  Size = 5
  Requests = {0, 1, 2}
  A = A
  B = B
  C = C
  Names = {A, B, C}
  Slots = 2
  Words = 2
  Values = {0, 1}
SYMMETRY AnyNames
INVARIANTS
  WalkIsComplete
PROPERTIES
  RefinesAllocator
  RefinesFiles
