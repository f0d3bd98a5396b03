SPECIFICATION Spec
CONSTANTS
  n1 = n1  n2 = n2  col = col  d1 = d1  d2 = d2  i1 = i1  i2 = i2
  Cals = {1, 2}
  Names = {n1, n2}
  Colors = {col}
  Days = {d1}
  Invs = {i1, i2}
  Absent = Absent
  MaxVersion = 1
  MaxAttempts = 1
  MaxResultsLimit = 1
  Traffic <- BatchTraffic
INVARIANTS NoTornRows SuccessMeansStored NoSharedSuccess
SYMMETRY Interchangeable
