SPECIFICATION Spec
CONSTANTS
  Handlers = {h1, h2}
  Expires = 2
  Pause = 1
  Second = 2
  Window = 6
  Limit = 3
  TLWaitMin = 2
  TLWaitError = 4
  Skew = 1
  MaxLatency = 1
INVARIANTS TypeOK RefusedSeldom
PROPERTIES LetInOnFreshVerdict WaiterAnswered
