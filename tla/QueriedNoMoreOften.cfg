SPECIFICATION Spec
CONSTANTS
  Targets = {T22TT, G8AJM}
  Areas = {JO03, IO91}
  Interval = 3
  Nothing = Nothing
PROPERTIES
  QueriedNoMoreOften
