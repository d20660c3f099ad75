CONSTANTS
  k1 = k1  k2 = k2  pv = pv  pw = pw  px = px  d1 = d1  d2 = d2  x1 = x1  x2 = x2
  p1 = p1  p2 = p2  p3 = p3  e1 = e1  u1 = u1  s1 = s1
  l1 = l1  l2 = l2  l3 = l3  l4 = l4  a = a  b = b  v1 = v1  v2 = v2  q1 = q1  q2 = q2  q3 = q3
  None = None
  Call = {1, 2, 3}
  Menus <- CollidingMenus
  Code = {q1, q2}
  Version = {v1, v2}
  SeedRows <- Rows0
  SeedReceipts <- Receipts0
  SeedFrozen <- Frozen0
  SeedLinks <- Links0
SPECIFICATION MCSpec
INVARIANTS TypeOK
PROPERTIES ImplementsRegistry EveryCallAnswers
