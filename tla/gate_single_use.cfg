SPECIFICATION Spec
CONSTANTS
  Calls = {c1, c2}
  Drafts = {d1}
  Acts = {a1}
  Contents = {x, y}
  Keys = {k1}
  Gone = Gone
  NoKey = NoKey
  NoToken = NoToken
  NoReceipt = NoReceipt
  Ticks = 2
  TTL = 1
  Window = 1
  Cap = 2
  IdemTTL = 1
  IdemMax = 1
  Threshold = 1
  OpenTicks = 1
  FixedSecret = FALSE
  MaxTime = 4
  MaxTokens = 1
  MaxRestarts = 1
INVARIANTS TokensAreSingleUse
CHECK_DEADLOCK FALSE
