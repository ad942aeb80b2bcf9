\* Two rows, two forms, three fetches under way at once; each of the pages.
CONSTANTS
  Ids = {i1,i2}
  Sample = {d1}
  Values = {0, 1}
  Absent = Absent
  MaxRequests = 2
  MaxFetches = 3
SPECIFICATION Spec
SYMMETRY IdSymmetry
INVARIANTS
  TypeOK
  InventedHasACause
  CurrentAtRest
