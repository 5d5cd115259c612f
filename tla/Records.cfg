\* A company: the brand task and the research task a request queues.  A field of
\* two options, changed and written twice at once.  A deal moved twice at once.  A
\* run whose manifest declares a message and an activity, one of them attempted
\* twice, and whose trigger allows no action.
SPECIFICATION RecordsSpec
CONSTANTS
  profile = profile
  brand = brand
  record = record
  Task = {brand, profile}
  Subject = {record}
  NoSubject = NoSubject
  NoTask = NoTask
  Kind = {"identify", "company-profile", "recheck", "brand"}
  DirectKinds = {"brand"}
  EventKinds = {}
  BackfillKinds = {}
  RecheckKind = "recheck"
  BrandKind = "brand"
  Company = {record}
  RequestKinds = {"brand", "company-profile"}
  KindOf <- MCKindOf
  SubjectOf <- MCSubjectOf
  MaxAttempts = 1
  MaxSettling = 2
  o1 = o1
  o2 = o2
  c1 = c1
  c2 = c2
  w1 = w1
  agent = agent
  Option = {o1, o2}
  Change = {c1, c2}
  Writer = {w1, agent}
  Agent = agent
  None = None
  MaxChange = 2
  deal = deal
  r1 = r1
  r2 = r2
  acme = acme
  Deal = {deal}
  TheCompany = acme
  Stage = {"DEMO_BOOKED", "NEGOTIATING", "CLOSED_WON"}
  Closed = {"CLOSED_WON"}
  Null = Null
  Request = {r1, r2}
  MaxWrite = 3
  MaxDeath = 1
  post = post
  note = note
  Call = {post, note}
  ActionType <- MCActionType
  Declared = {"slack", "activity"}
  MayDoNothing = TRUE
  MaxTries = 2
INVARIANTS RequestIsQueued TypeFitsValues StageHistoryIsAChain StampIsNotBehind
INVARIANTS AnswerIsTrue SucceededMeansActed
PROPERTIES SettledByItsOwn ReceiptKept
CHECK_DEADLOCK FALSE
