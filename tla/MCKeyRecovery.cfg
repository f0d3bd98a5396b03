SPECIFICATION FairSpec
CONSTANTS
  r1 = r1  r2 = r2  e1 = e1  e2 = e2  a1 = a1  a2 = a2  k1 = k1  k2 = k2
  Past = 0
  Ahead = 1
  KeyLife = 2
  LastHour = 1
  Runs = {r1,r2}
  Envs = {}
  Arns = {a1,a2}
  Data = {k1}
  Absent = Absent
  MaxAttempts = 2
  MaxMishaps = 2
PROPERTIES SettledKeysStay Recovers
