SPECIFICATION ViewSpec
CONSTANTS
  t = t
  u = u
  TableName = {t, u}
  Schema = {1}
  Row = {1, 2}
  CAT_CAP = 2
  IDX_CAP = 1
  JCAP = 6
  TotalPages = 7
  MaxSlots = 2
  RollbackFails = FALSE
SYMMETRY Symmetry
INVARIANTS TypeOK PagesPartitioned RowCountExact
PROPERTY ImplementsTableHeap
