CONSTANTS
  ResetVector = rv
  Addrs = {rv, a1}
  NoReq = noreq
  CtrlWrites <- MC_CtrlWrites
  PowerWrites <- MC_PowerWrites
  MaxGlitches = 1
  ClockStopsInReset = TRUE
SPECIFICATION Spec
CHECK_DEADLOCK FALSE
PROPERTIES ResetEnds
