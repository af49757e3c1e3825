SPECIFICATION GameSpec
CONSTANTS
  Thread = {t1, t2}
  BOARD_SIZE = 3
  Five = 3
SYMMETRY Perms
INVARIANT FairGame
 
CHECK_DEADLOCK FALSE
