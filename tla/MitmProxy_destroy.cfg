SPECIFICATION FairSpec
CONSTANTS
  Slots = {s1, s2}
  Kinds = {"destroy"}
  MaxChunks = 1
\* A connection ends.
CHECK_DEADLOCK FALSE
PROPERTIES
  Answered
