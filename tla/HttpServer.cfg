SPECIFICATION HttpSpec
CONSTANTS
  Requests <- const_Requests
  MaxReq = 3
  handlers_ <- const_handlers
  callbacks_ <- const_callbacks
  regexHandlers_ <- const_regexHandlers
  regexCallbacks_ <- const_regexCallbacks
  Throwing <- const_Throwing
  allowedOrigins <- const_allowedOrigins
INVARIANT AnsweredInOrder
 
CHECK_DEADLOCK FALSE
