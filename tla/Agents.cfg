\* Two messages and one question of a conversation, a message tried twice and
\* claimed up to four times; three versions, two sweeps at once, one event; a channel in each of two workspaces
\* of Slack, two inventories at once and two events.
SPECIFICATION AllSpec
CONSTANTS
  one = one
  other = other
  event = event
  MaxMsg = 2
  MaxAttempts = 2
  MaxTries = 4
  MaxInbox = 1
  MaxQuestion = 1
  MaxVersion = 3
  MaxSlot = 2
  Sweep = {one, other}
  Listener = {one}
  Event = {event}
  ta = ta
  tb = tb
  t1 = t1
  t2 = t2
  j1 = j1
  Team = {ta, tb}
  Ids = {1}
  Nil = Nil
  Attempt = {t1, t2}
  Errand = {j1}
  MaxLink = 2
  MaxEvent = 2
INVARIANTS OvertakenWhenExhausted RunsAreApproved
PROPERTIES ComesToRest SlotsAreTakenInOrder NotResurrected InventoryConverges
CHECK_DEADLOCK FALSE
