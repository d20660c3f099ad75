CONSTANTS
  c1 = c1  c2 = c2  c3 = c3
  a1 = a1  a2 = a2  k1 = k1  k2 = k2  k3 = k3
  g1 = g1  g2 = g2  t1 = t1  t2 = t2  t3 = t3
  i1 = i1  i2 = i2  i3 = i3  x1 = x1  p1 = p1  p2 = p2  n1 = n1  u = u  v = v
  None = None
  Assignment = {a1, a2}
  Key = {k1, k2, k3, g1, g2, i1, i2, i3, x1, p1, p2}
  Call = {c1, c2, c3}
  Skew = 1
  Scenario <- Skewed
SPECIFICATION Spec
SYMMETRY Symmetric
PROPERTIES NoCollectionAfterWithdrawal
