SPECIFICATION RSpec
CONSTANTS
  b20 = b20
  b17 = b17
  b15 = b15
  b60 = b60
  NoBand = NoBand
  OffBand = OffBand
  ZeroHz = ZeroHz
  BandPlan <- ThreeBands
  OtherBands <- OtherBand
  FocusLists <- AllFocuses
INVARIANTS
  ListsAgree
  EveryBandEachRound
