SPECIFICATION ASpec
CONSTANTS
  b1 = b1
  Submissions = {b1}
  Lifetime = 10
  Latency = 1
  MaxNow = 2
  Resets = TRUE
INVARIANT PossiblySentIsHeld
CHECK_DEADLOCK FALSE
