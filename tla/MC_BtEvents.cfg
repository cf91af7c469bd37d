CONSTANTS
  com_int = com_int
  rtc_int = rtc_int
  Sources <- MC_Sources
  Policy <- MC_Policy
SPECIFICATION Spec
INVARIANTS TypeOK SyncLatency
PROPERTIES NoSpuriousEvent  EdgeDelivered
