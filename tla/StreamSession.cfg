SPECIFICATION FairSpec
CONSTANTS
  Handlers = {h1, h2}
  TimeLines = {tl1}
  Threads = {t1, t2}
  None = None
INVARIANTS
  TypeOK
  OneLiveThread
PROPERTIES
  OneSessionAtATime
  LeaverLeaves
  StoppedThreadEnds
