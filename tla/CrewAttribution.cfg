SPECIFICATION Spec
CONSTANTS
  n1 = n1  n2 = n2  n3 = n3
  t1 = t1  t2 = t2  s1 = s1  s2 = s2
  o1 = o1  o2 = o2  o3 = o3
  k1 = k1  k2 = k2  a = a  b = b
  u1 = u1  u2 = u2  none = none
SYMMETRY Symmetry
CHECK_DEADLOCK FALSE
INVARIANT NestedCrewsApart
