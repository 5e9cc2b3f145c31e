SPECIFICATION Spec
CONSTANTS
  f1 = f1
  f2 = f2
  d1 = d1
  d2 = d2
  Files = {f1, f2}
  Digests = {d1, d2}
  SumOf <- MCSumOf
  Roots = {r1, r2}
  Other = Other
  Theirs = Theirs
  ErrorText = ErrorText
  None = None
  MaxChanges = 3
SYMMETRY Symmetry
INVARIANTS ExportedWhole
PROPERTIES NothingOverwritten
