SPECIFICATION Spec
CONSTANTS
  u1 = u1  u2 = u2  p1 = p1  p2 = p2  x1 = x1  id1 = id1  id2 = id2
  s1 = s1  s2 = s2  r1 = r1  r2 = r2
  Usernames = {u1, u2}
  Passwords = {p1, p2}
  Salts = {x1}
  UserIds = {id1, id2}
  SessionIds = {s1, s2}
  Slots = {r1, r2}
  Absent = Absent
  SessionLife = 2
  LastTime = 2
  MaxAttempts = 2
SYMMETRY Interchangeable
INVARIANTS TypeOK OneCreatorPerName SuccessMeansUsable
PROPERTIES RefusalsHaveCauses ImplementsAuthority
