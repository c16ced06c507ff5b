SPECIFICATION Spec
CONSTANTS
  p1 = p1
  p2 = p2
  Procs = {p1, p2}
  Lines <- MCLines
  Names = {"Ann", "ANN", "Bob"}
  Lower <- MCLower
  Pastes <- MCPastes
  CorpOf <- MCCorpOf
  AllyOf <- MCAllyOf
  NoOrg = "none"
INVARIANTS
  EveryLineAccounted
  KindFollowsText
  NobodyIsLost
  OrganisationsNamed
