SPECIFICATION ApiSpec
CONSTANTS
  Main = main
  Users = {main, other}
  Net = net
  None = none
CHECK_DEADLOCK FALSE
INVARIANTS  OneGlobalAgent
