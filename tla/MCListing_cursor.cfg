SPECIFICATION SpecListing
CONSTANTS
  a = a
  b = b
  c = c
  d = d
  Rows <- MCRows
  Place <- MCPlace
  Limits = {1, 2}
  NoRow = NoRow
  Lists <- AllLists
INVARIANTS TokensAreGood
CHECK_DEADLOCK FALSE
