SPECIFICATION Spec
CONSTANTS
  u1 = u1
  u2 = u2
  r1 = r1
  r2 = r2
  NoUser = NoUser
  Users <- MCUsers
  Requests <- MCRequests
  MaxMessages = 2
  MaxArrivals = 4
SYMMETRY Alike
INVARIANTS
  NothingSlipsBy
  SpareRoomsNeedOverlap
PROPERTY FlagsAreDeliberate
CHECK_DEADLOCK FALSE
