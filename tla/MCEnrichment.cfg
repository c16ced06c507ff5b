SPECIFICATION EnrichSpec
CHECK_DEADLOCK FALSE
CONSTANTS
  Pilots = {1, 2}
  Summaries <- MCSummaries
  Feeds <- MCFeeds
  Failed = Failed
  Ships = {"rifter", "drake", "none"}
  Absent = Absent
  Garbled = Garbled
  Budget = 1
  Now = 5
  Interval = 2
  NoShip = "none"
  NoValue = NoValue
INVARIANTS
  RowsMatchFeeds
  BudgetIsForTheTop
  SessionIsAsOldAsItsPilots
  WarnedOnce
  ScoreOrdersEvidence
  
