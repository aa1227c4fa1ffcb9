SPECIFICATION Spec
CONSTANTS
  p1 = p1
  a1 = a1
  s1 = s1
  s2 = s2
  Procs = {p1}
  Accounts = {a1}
  Names = {s1, s2}
  MaxRefs = 2
INVARIANTS TypeOK NoDanglingReference AccountIsConsistent CommandsTakeEffect
SYMMETRY Symmetry
