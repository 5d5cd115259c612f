\* One message and the question its turn asks.
SPECIFICATION AllSpec
CONSTANTS
  one = one
  other = other
  event = event
  MaxMsg = 1
  MaxAttempts = 1
  MaxTries = 1
  MaxInbox = 1
  MaxQuestion = 1
  MaxVersion = 1
  MaxSlot = 1
  Sweep = {one}
  Listener = {one}
  Event = {event}
  ta = ta
  tb = tb
  t1 = t1
  t2 = t2
  j1 = j1
  Team = {ta}
  Ids = {1}
  Nil = Nil
  Attempt = {t1}
  Errand = {j1}
  MaxLink = 1
  MaxEvent = 0
PROPERTIES QuestionIsDurable
CHECK_DEADLOCK FALSE
