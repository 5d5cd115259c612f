\* Two messages in a mailbox and one of them on a page of Gmail's history.
SPECIFICATION AllSpec
CONSTANTS
  one = one
  two = two
  ann = ann
  bob = bob
  Parts = {"mailbox"}
  Pass = {one}
  None = None
  MaxMail = 2
  Batch = 2
  HistoryPage = 1
  MaxFault = 0
  Holder = {one}
  Letter = {one}
  Nobody = Nobody
  MaxContact = 1
  MaxUpset = 0
  Guest = {one}
  Meeting = {one}
  NoCursor = NoCursor
  Budget = 1
  MaxEdit = 2
  MaxOutage = 0
  Form = {one}
  Delivery = {one}
  Email = {ann}
  Cap = 1
  MaxWindow = 1
  MaxMade = 1
INVARIANTS NoMailIsLost
CHECK_DEADLOCK FALSE
