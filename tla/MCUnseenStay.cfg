SPECIFICATION Spec
CONSTANTS
  Desk = {d1}
  Publisher = {p1, p2}
  Selection = {s1, s2}
  Details = {v1, v2}
  Nothing = Nothing
  MaxRevision = 2
  MaxCalls = 3
INVARIANTS
  BooksWhatIsShown
CHECK_DEADLOCK FALSE
