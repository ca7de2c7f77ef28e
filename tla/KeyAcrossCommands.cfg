SPECIFICATION Spec
CONSTANTS
  p1 = p1 p2 = p2 p3 = p3
  k1 = k1 k2 = k2 k3 = k3
  e1 = e1 e2 = e2 c1 = c1
  d1 = d1 d2 = d2 d3 = d3
  NoKey = noKey
  NoMessage = noMessage
  NoDoc = noDoc
  Customers = {c1}
  DefaultEntity = e1
  Proc <- TwoSessions
  Keys = {k1, k2}
  Entities = {e1}
  LastPeriod = 2
  Scopes = {{e1}}
  Drafts = {"fit"}
  Messages <- NoEvents
  Snapshots <- NoSnapshots
  KnownLimits <- NoLimitYet
  Commands = {"PostManualEntry", "ClosePeriod"}
  GuessedIds = FALSE
  MaxExposure = 3
  MaxEntrySeq = 3
INVARIANT PeriodCommandAnswersStatus
