SPECIFICATION FairSpec
CONSTANTS
  Length = {1, 3}
  MaxSent = 4
INVARIANTS TypeOK PiecesInOrder
PROPERTIES IsChannel LinesArrive
CHECK_DEADLOCK FALSE
