CONSTANTS
  ResetVector = rv
  Addrs = {rv, a1}
  NoReq = noreq
  CtrlWrites <- MC_CtrlWrites
  PowerWrites <- MC_PowerWrites
  MaxGlitches = 1
  ClockStopsInReset = FALSE
SPECIFICATION Spec
INVARIANTS TypeOK KeyIsExact
PROPERTIES ResetOnlyByKey CleanBoot ResetEnds ImplementsWarmReboot
