SPECIFICATION Spec
CONSTANTS
  Channels = {c0, c1}
  ClearAfter = 1
  CheckAfter = 2
  PrintAfter = 3
INVARIANT ClearedIsNotHandled
