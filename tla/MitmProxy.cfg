SPECIFICATION FairSpec
CONSTANTS
  Slots = {s1, s2}
  Kinds = {"api", "destroy", "message", "retweet", "stream", "update"}
  MaxChunks = 2
\* A connection ends, or hangs (see MitmProxy_destroy).
CHECK_DEADLOCK FALSE
INVARIANTS
  TypeOK
  OvertakenIsHarmless
  WholeAnswers
PROPERTIES
  StatusArrives
  HandlerDrains
  ApiAnswered
