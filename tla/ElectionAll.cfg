SPECIFICATION FairSpec
CONSTANTS
  Agents = {a1, a2}
  Elections = {e1, e2}
  MaxInbox = 2
  MaxEvents = 2
INVARIANTS TypeOK TablesAgree ToldTogether
PROPERTY LeaderHandled
CHECK_DEADLOCK FALSE
