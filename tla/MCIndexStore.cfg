SPECIFICATION Spec
CONSTANTS
  p1 = p1
  p2 = p2
  f1 = f1
  f2 = f2
  r1 = r1
  r2 = r2
  sub = sub
  NoInventory = NoInventory
  NoUser = NoUser
  Paths = {p1, p2}
  Files = {f1, f2}
  Dirs = {r1, r2, sub}
  Names = {"d", "x", "y"}
  Entries <- MCEntries
  Versions <- MCVersions
  FilePaths = {"v1/x", "v2/y", "v1/z"}
  Inventories <- MCInventories
  ObjectIDs = {"A", "B"}
  FkModes = {TRUE, FALSE}
  MaxId = 2
INVARIANTS
  TreesComplete
  VersionsMatch
  ContentServed
  ServedWhereIndexed
PROPERTY
  ImplementsBackend
SYMMETRY Symmetry
