\* One mailbox, a thread of two messages, two meetings, two forms.
SPECIFICATION AllSpec
CONSTANTS
  one = one
  two = two
  ann = ann
  bob = bob
  Parts = {"mailbox", "threads", "meetings", "forms"}
  Pass = {one, two}
  None = None
  MaxMail = 2
  Batch = 1
  HistoryPage = 2
  MaxFault = 1
  Holder = {one, two}
  Letter = {one, two}
  Nobody = Nobody
  MaxContact = 1
  MaxUpset = 1
  Guest = {one, two}
  Meeting = {one, two}
  NoCursor = NoCursor
  Budget = 1
  MaxEdit = 2
  MaxOutage = 1
  Form = {one, two}
  Delivery = {one, two}
  Email = {ann, bob}
  Cap = 1
  MaxWindow = 2
  MaxMade = 2
INVARIANTS OnlyLaterPagesAreLost CountIsExact FilingIsExact
PROPERTIES MailArrives StoredIsShown MeetingsConverge
CHECK_DEADLOCK FALSE
