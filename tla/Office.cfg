\* One deal and two currencies.  Two members and two websites.  Two windows and
\* two migrations, the second of which opens a transaction of its own.
SPECIFICATION OfficeSpec
CONSTANTS
  usd = usd
  eur = eur
  a1 = a1
  deal = deal
  e1 = e1
  e2 = e2
  adm = adm
  Currency = {usd, eur}
  Amount = {a1}
  Deal = {deal}
  Editor = {e1, e2}
  Admin = {adm}
  Daily = daily
  None = None
  Same = Same
  MaxCall = 2
  MaxLost = 1
  ann = ann
  bob = bob
  old = old
  new = new
  Member = {ann, bob}
  Website = {old, new}
  Request = {ann, bob}
  Unset = Unset
  MaxRequest = 3
  MaxMissed = 1
  one = one
  two = two
  Window = {one, two}
  Migrations = 2
  Own = {2}
  Nobody = Nobody
  Part = Part
  MaxFault = 1
  MaxWhim = 2
INVARIANTS FigureIsOwn DemotionsLeaveAnOwner PasswordIsKept
PROPERTIES DealsAreCounted WebsiteIsRead ComesUp
CHECK_DEADLOCK FALSE
