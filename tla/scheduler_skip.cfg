SPECIFICATION Spec
CONSTANTS
  Absent = Absent
  Processes = {p1, p2}
  Names = {3}
  Declares <- MCDeclares
  Declared = {3}
  Handles <- MCHandles
  Singleton = {}
  Unbuildable = {}
  Leftover = {}
  Mortal = {}
  Skew = 1
  CatchUpAllMax = 2
  MaxTime = 4
CHECK_DEADLOCK FALSE
PROPERTY OnTimeTickFires
