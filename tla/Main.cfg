SPECIFICATION FairSpec
CONSTANTS
  Empty = Empty
  Garbage = Garbage
  Unsupported = Unsupported
  Negative = Negative
  NaN = NaN
  Infinity = Infinity
  UrlText <- MCUrlText
  WithColon <- MCWithColon
  U64 = 1048576
  MaxDelta = 900000
  MaxDate = 600000
  MaxNanos = 300000
  Excluded = {9}
  MaxChanges = 2
  Invocations <- MCInvocations
  NewPath <- MCNewPath
  NewNode <- MCNewNode
INVARIANTS
  TypeOK
  ShadowedNeverMatters
  SendsOnlyWhereTold
  RunWellFounded
  ExitCodeTells
  WindowHonoured
  ReportComplete
  InventoryTrue
PROPERTIES
  CommandEnds
