SPECIFICATION Spec
CONSTANTS
  c1 = c1  c2 = c2
  BlockSize <- MCBlockSize
  Replicated <- MCReplicated
  Originals <- MCOriginals
  MaxSizes = {200, 204, 280, 300, 350, 410, 450}
  Copies = {c1, c2}
  MaxPieces = 6
INVARIANTS TypeOK PiecesPartition ReassemblyIsExact BlocksSurvive 
CHECK_DEADLOCK FALSE
