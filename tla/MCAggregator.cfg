SPECIFICATION FairSpec
CONSTANTS
  TM = TM
  Ext = Ext
  Client = {TM, Ext}
  Kind <- BothKinds
  MaxSent = 2
  BatchSize = 2
  UniqueVisits = FALSE
  MaxKills = 1
CHECK_DEADLOCK FALSE
INVARIANTS NothingLost BatchBound KeepsOrder
PROPERTIES RowsAreSaved DiesWhenTold DatabaseIsPrefix
