\* A reader and Stop on one channel, at any line of each.
SPECIFICATION Spec
CONSTANTS
  MaxOpens = 3
  MaxFrames = 5
INVARIANTS EndsAreBalanced OnlyEndsCross
PROPERTIES StopDrops
CHECK_DEADLOCK FALSE
