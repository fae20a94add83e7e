SPECIFICATION Spec
CONSTANTS
  UserId = {u1, u2, u3}
  Name = {n1, n2}
  Image = {i1}
  Jobs = {j1, j2}
  MaxUserCacheCount = 2
  Nobody = Nobody
  NoUser = NoUser
SYMMETRY Symmetry
INVARIANTS
  TypeOK
  LookupIsCurrent
PROPERTIES
  RemembersRecent
