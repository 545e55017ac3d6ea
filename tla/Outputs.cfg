SPECIFICATION MCSpec
CONSTANTS
  a1 = a1
  a2 = a2
  Accounts = {a1, a2}
  MaxSends = 2
  MaxBuffered = 2
  MaxRecords = 5
  MaxDays = 2
  Settings = {"target_call", "search_area"}
  Values = {v1, v2}
  StandardBands = {b20}
  OtherBands = {b2m}
  NoEntry = NoEntry
  Template <- TemplateContent
  Absent = Absent
  Unreadable = Unreadable
  Nothing = Nothing
  v1 = v1
  v2 = v2
  b20 = b20
  b2m = b2m
  MaxEdits = 1
INVARIANTS
  DeliveredAsAsked
  OneRingPerAlarm
  NothingLost
  OneLostPerCut
  FirstCopiesInOrder
  SessionIsFile
PROPERTIES
  EachIsAnswered
  SavesAreAtomic
