SPECIFICATION AllSpec
CONSTANTS
  research = research
  recheck1 = recheck1
  recheck2 = recheck2
  brand = brand
  event = event
  contact = contact
  Task = {research, recheck1, event}
  Subject = {contact}
  NoSubject = NoSubject
  NoTask = NoTask
  Kind = {"identify", "recheck", "brand", "agent-event"}
  DirectKinds = {"brand", "agent-event"}
  EventKinds = {"agent-event"}
  BackfillKinds = {"identify"}
  RecheckKind = "recheck"
  KindOf <- MCKindOf
  SubjectOf <- MCSubjectOf
  MaxAttempts = 2
  one = one
  two = two
  a = a
  b = b
  blank = blank
  sweeper = sweeper
  rep = rep
  Process = {one, two}
  MaxAbandoned = 1
  MaxForgotten = 1
  Value = {a, b}
  Blank = blank
  MaxFact = 2
  MaxDecide = 2
  Caller = {one, two}
  Sweeper = sweeper
  Rep = rep
  Replica = {one, two}
  Request = {one, two}
  Config = {1, 2}
  MaxChange = 2
  Keep = 2
  MaxDay = 4
  MaxView = 1
  BusyHalf = 2
  Sweep = {one, two}
  MaxDeath = 1
PROPERTIES HumanNeverOverwritten
CHECK_DEADLOCK FALSE
