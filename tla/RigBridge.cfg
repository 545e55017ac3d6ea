SPECIFICATION Spec
CONSTANTS
  Frequencies <- NearAndFar
  Targets <- OneTarget
  Tolerance = 1
  MaxPending = 1
INVARIANTS VerifiedMeansAligned TransmitVfoFirst RolledBack
PROPERTIES FreshMoves
