SPECIFICATION UiSpec
CONSTANTS
  t1 = t1
  cA = cA
  cB = cB
  u = u
  TableName = {t1}
  ColName = {cA, cB}
  Type = {"INT"}
  Num = {1}
  Null = Null
  Width = {"auto"}
  MaxCols = 2
  MaxFks = 1
  MaxSlots = 3
  Start <- Volumes
  Drive = {u}
  NowTypes = {}
  NextTypes = {"INT"}
  Parts <- OnePart
  Page = 2
  Devices = 1
  MaxGen = 1
  MaxDepth = 4
CHECK_DEADLOCK FALSE
INVARIANTS StackOK CacheFresh ScreensLive
PROPERTY DestroysOnlyConfirmed
