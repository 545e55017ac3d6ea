SPECIFICATION FairSpec
CONSTANTS
  b20 = b20
  b17 = b17
  b15 = b15
  b60 = b60
  NoBand = NoBand
  OffBand = OffBand
  ZeroHz = ZeroHz
  BandPlan <- TwoBands
  OtherBands <- OtherBand
  FocusLists <- TwoFocuses
INVARIANTS
  OneAlignment
  StartingIsAligning
  StoppedIsQuiet
  OnlyEnabledBands
  TargetDecodedHolds
  SearchYieldsToTx
PROPERTIES
  ResumeIsExplicit
  LifeCycleKept
  OwnershipKept
  AlignmentSettles
  RoundRobin
