SPECIFICATION FairSpec
CONSTANTS
  Caller = {c1, c2}
  MaxStamp = 3
  Panicking = TRUE
INVARIANTS YoungestIsCached ReadsAreFresh PanicsAreExplained
PROPERTIES CallsEnd LoadsEnd
CHECK_DEADLOCK FALSE
