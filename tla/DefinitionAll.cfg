SPECIFICATION DefinitionSpec
CONSTANTS
  v2 = v2  v3 = v3  v4 = v4  v5 = v5
  Peers = {v3, v5}
  Protocol <- Versions
  Names = {"n", "m"}
  Ios = {"x"}
  Types = {"DOUBLE"}
  Constraints <- SomeConstraints
  Elements = {"e"}
  Foreign <- HandWritten
  Beginnings <- Starters
  MaxEdits = 2
  None = None
INVARIANTS DefinitionTypeOK  
PROPERTY PeersCatchUp
CHECK_DEADLOCK FALSE
