SPECIFICATION FairSpec
CONSTANTS
  n1 = n1  n2 = n2  col = col  d1 = d1  d2 = d2  i1 = i1  i2 = i2
  Cals = {1}
  Names = {n1}
  Colors = {col}
  Days = {d1}
  Invs = {i1, i2}
  Absent = Absent
  MaxVersion = 1
  MaxAttempts = 2
  MaxResultsLimit = 1
  Traffic <- RewindTraffic
INVARIANTS VersionNamesRow OneWinnerPerVersion RefusalHasWinner
PROPERTIES InvocationsEnd
