SPECIFICATION Spec
CONSTANTS
  a1 = a1 a2 = a2 a3 = a3 a4 = a4
  Items = {a1, a2, a3, a4}
  f1 = f1 f2 = f2 f3 = f3 i1 = i1 i2 = i2 t1 = t1 id1 = id1 id2 = id2
  Fns = {f1, f2, f3}
  IdFns = {i1, i2}
  TimedFns = {t1}
  UserFns = {f2, f3, i2, t1}
  Ids = {id1, id2}
  EmptyId = EmptyId
  NULL = NULL
  Length = 1
  HashKey <- MCHashKey
  MaxRefs = 2
SYMMETRY MCSymmetry
INVARIANTS ItemsOwned DispatchExact FaultsExplained
CHECK_DEADLOCK FALSE
