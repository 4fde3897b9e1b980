SPECIFICATION FairSpec
CONSTANTS
  Absent = Absent
  Processes = {p1, p2}
  Names = {1, 2, 4}
  Declares <- MCDeclares
  Declared = {1, 2}
  Handles <- MCHandles
  Singleton = {2}
  Unbuildable = {}
  Leftover = {4}
  Mortal = {p1}
  Skew = 1
  CatchUpAllMax = 2
  MaxTime = 4
CHECK_DEADLOCK FALSE
INVARIANT OneWinnerPerTick
PROPERTIES CadenceKept DueDealtWith
