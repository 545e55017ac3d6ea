SPECIFICATION Spec
CONSTANTS
  b20 = b20
  b17 = b17
  b15 = b15
  b60 = b60
  NoBand = NoBand
  OffBand = OffBand
  ZeroHz = ZeroHz
  BandPlan <- TwoBands
  OtherBands <- NoOthers
  FocusLists <- NoFocus
PROPERTIES
  SearchStartsOnLiveStatus
