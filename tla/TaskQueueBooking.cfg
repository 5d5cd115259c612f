\* A recheck that books the next recheck.
SPECIFICATION MCSpec
CONSTANTS
  research = research
  recheck1 = recheck1
  recheck2 = recheck2
  brand = brand
  event = event
  contact = contact
  Task = {recheck1, recheck2}
  Subject = {contact}
  NoSubject = NoSubject
  NoTask = NoTask
  Kind = {"identify", "recheck", "brand", "agent-event"}
  DirectKinds = {"brand", "agent-event"}
  EventKinds = {"agent-event"}
  BackfillKinds = {"identify"}
  RecheckKind = "recheck"
  KindOf <- MCKindOf
  SubjectOf <- MCSubjectOf
  MaxAttempts = 2
INVARIANTS BookingIsKept
CHECK_DEADLOCK FALSE
