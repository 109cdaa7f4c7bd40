SPECIFICATION Spec
CONSTANTS
  t1 = t1
  t2 = t2
  a = a
  b = b
  x = x
  y = y
  TableName = {t1, t2}
  ColName = {a, b}
  Type = {"INT", "TEXT"}
  Num = {x, y}
  Null = Null
  Width = {"auto"}
  MaxCols = 2
  MaxFks = 1
  MaxSlots = 2
SYMMETRY Symmetry
INVARIANTS TypeOK RefIntegrity UniqueHolds SchemaSound Navigable RowsFit
PROPERTY EditsKeepCells
