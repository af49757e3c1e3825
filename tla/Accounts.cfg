SPECIFICATION Spec
CONSTANTS
  Thread = {t1, t2}
  Conn = {c1}
  UserName = {"a"}
  MaxRow = 2
  MaxSession = 3
  MaxReq = 3
INVARIANTS ConnInOnePlace ActsForOwner
 
CHECK_DEADLOCK FALSE
