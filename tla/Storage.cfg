SPECIFICATION Spec
CONSTANTS
  Name <- const_Name
  Data = {"A", "B"}
  Size <- const_Size
  IntMax = 1
  WebName <- const_WebName
  LocalTier = "deep"
  Decoded <- const_Decoded
  LocalData <- const_LocalData
  MaxFault = 1
INVARIANTS   CodecsInverse
 
