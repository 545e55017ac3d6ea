SPECIFICATION FairSpec
CONSTANTS
  Targets = {T22TT, G8AJM}
  Areas = {JO03, IO91}
  Interval = 3
  Nothing = Nothing
INVARIANTS
  OneRequest
  FocusIsCurrent
PROPERTIES
  OnlyTheOperatorHurries
  PollsGoOn
