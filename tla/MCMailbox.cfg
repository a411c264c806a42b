SPECIFICATION FairSpec
CONSTANTS
  NumVms = 3
  MaxVms = 3
  c1 = c1
  c2 = c2
  CPU <- MCCPU
  Link <- MCLinks
INVARIANTS WaitersAreOwed NotForgotten MessageKept
PROPERTY WaiterNotified
CHECK_DEADLOCK FALSE
