CONSTANTS
  a1 = a1
  a2 = a2
  d0 = d0
  d1 = d1
  DrpAddrs <- MC_DrpAddrs
  DrpData <- MC_DrpData
  Latency = 2
  DoHolds = TRUE
  PollFirst = TRUE
SPECIFICATION Spec
PROPERTIES RequestIssued
