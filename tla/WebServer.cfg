SPECIFICATION Spec
CONSTANTS
  Worker = {w1, w2}
  Piece <- Pieces
  trigMode = 3
  connSize = 2
  MAX_FD = 2
  MaxClient = 3
  MaxPiece = 2
INVARIANTS ExclusiveClient UsersCounted 
CHECK_DEADLOCK FALSE
