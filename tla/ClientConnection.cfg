SPECIFICATION FairSpec
CONSTANTS
  Opening = 9
  Sizes = {1, 4, 9}
  MaxRequests = 3
  Patience = 3
  None = None
\* A connection ends.
CHECK_DEADLOCK FALSE
INVARIANTS
  TypeOK
  BytesInOrder
  AnswersInTurn
PROPERTIES
  ProxyAnswers
  OnlyIdleIsCut
  RelayReturns
