\* Two meetings in one calendar and one page a pass.
SPECIFICATION AllSpec
CONSTANTS
  one = one
  two = two
  ann = ann
  bob = bob
  Parts = {"meetings"}
  Pass = {one}
  None = None
  MaxMail = 1
  Batch = 1
  HistoryPage = 1
  MaxFault = 0
  Holder = {one}
  Letter = {one}
  Nobody = Nobody
  MaxContact = 1
  MaxUpset = 0
  Guest = {one}
  Meeting = {one, two}
  NoCursor = NoCursor
  Budget = 1
  MaxEdit = 2
  MaxOutage = 0
  Form = {one}
  Delivery = {one}
  Email = {ann}
  Cap = 1
  MaxWindow = 1
  MaxMade = 1
PROPERTIES BudgetContinues
CHECK_DEADLOCK FALSE
