SPECIFICATION FairSpec
CONSTANTS
  Senders = {s1}
  Friends = Friends
  KeepAlive = KeepAlive
  Nobody = Nobody
\* A connection ends: its goroutines return and nothing starts them again.
CHECK_DEADLOCK FALSE
PROPERTIES
  ClosedEndsStream
