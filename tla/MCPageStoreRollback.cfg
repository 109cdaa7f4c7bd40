SPECIFICATION ViewSpec
CONSTANTS
  t = t
  u = u
  TableName = {t, u}
  Schema = {1}
  Row = {1}
  CAT_CAP = 2
  IDX_CAP = 1
  JCAP = 7
  TotalPages = 7
  MaxSlots = 1
  RollbackFails = TRUE
SYMMETRY Symmetry
INVARIANT NeverHalfMutated
