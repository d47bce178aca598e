CONSTANTS
  a1 = a1
  a2 = a2
  a3 = a3
  b1 = b1
  V4 <- OutsideV4
  V6 <- OutsideV6
  EndpointLists <- SomeLists
SPECIFICATION WfpSpec
INVARIANT WfpTypeOK
INVARIANT FailClosed
INVARIANT NeverLockedOut
