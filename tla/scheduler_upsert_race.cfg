SPECIFICATION ReadCommittedSpec
CONSTANTS
  Absent = Absent
  Processes = {p1, p2}
  Names = {1}
  Declares <- MCDeclares
  Declared = {1}
  Handles <- MCHandles
  Singleton = {}
  Unbuildable = {}
  Leftover = {}
  Mortal = {}
  Skew = 0
  CatchUpAllMax = 2
  MaxTime = 3
CHECK_DEADLOCK FALSE
INVARIANT OneWinnerPerTick
