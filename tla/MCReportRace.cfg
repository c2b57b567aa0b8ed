\* One broadcast and two reports of it: TimerAlone does not hold.
CONSTANTS
  ChatId = {"c1"}
  Hook = {h1, h2}
  Cast = {"e1"}
  MaxAsked = 1
  MaxChats = 1
  MaxReports = 2
SPECIFICATION Spec
INVARIANTS
  TimerAlone
CHECK_DEADLOCK FALSE
