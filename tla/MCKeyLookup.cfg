SPECIFICATION Spec
CONSTANTS
  r1 = r1  r2 = r2  e1 = e1  e2 = e2  a1 = a1  a2 = a2  k1 = k1  k2 = k2
  Past = 0
  Ahead = 0
  KeyLife = 2
  LastHour = 1
  Runs = {r1,r2}
  Envs = {e1,e2}
  Arns = {a1}
  Data = {k1,k2}
  Absent = Absent
  MaxAttempts = 1
  MaxMishaps = 1
INVARIANTS EnvsAgree
SYMMETRY Interchangeable
