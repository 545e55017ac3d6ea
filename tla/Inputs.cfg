SPECIFICATION MCSpec
CONSTANTS
  Calls = {"T22TT", "G8AJM", "OL30AA"}
  LocatorLikeCalls = {"OL30AA"}
  Locator <- LocatorOf
  RankedBands = {b20, b17}
  NoReceiver = NoReceiver
  Lookback = 1800
  MaximumKm = 2500
  SampleReports <- Samples
  MaxReports = 3
  TextLengths = {0, 3}
  b60 = b60
  r1 = r1
  r2 = r2
  b20 = b20
  b17 = b17
INVARIANTS
  RankingAgrees
  LocatorIsTargets
  PacketIsSenders
PROPERTIES
  RepeatsAddNothing
  EvidenceNeverDemotes
  FoundMeansSent
  SentMeansFound
CHECK_DEADLOCK FALSE
