SPECIFICATION Spec
CONSTANTS
  p1 = p1
  p2 = p2
  p3 = p3
  a = a
  b = b
  c = c
  hermes = hermes
  NoName = NoName
  Nobody = Nobody
  Msgs = {1}
  MaxBatch = 2
  MaxLeases = 2
  Procs <- MCProcs
  Names <- MCNames
  Want <- SharedName
  Kind <- OneKind
  WantsDurable = {p1, p2}
  LinksTo <- MemberOfA
  Remembers = {p3}
  MaxQueued = 1
  MaxStarts = 2
  MaxLapses = 1
  NewNames = {c}
  MaxEvents = 1
SYMMETRY SessionSymmetry
INVARIANTS LeasedToCurrent MailFollowsAgent
PROPERTIES MembersStayLinked HonorsLeases
CHECK_DEADLOCK FALSE
