SPECIFICATION FairSpec
CONSTANTS
  Filter = {"quote"}
  Threads = {t1}
  NoCursor = NoCursor
  MaxItems = 4
  Page = 2
\* The threads of all sessions end, or Twitter has no more items to post.
CHECK_DEADLOCK FALSE
INVARIANTS
  TypeOK
  InOrder
  NoDuplicate
  NoGap
  OneOldItem
PROPERTIES
  ItemArrives
