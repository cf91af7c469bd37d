CONSTANTS
  g0 = g0
  g1 = g1
  Pins <- MC_TwoPins
  OutputWrites <- MC_TwoWrites
  DriveWrites <- MC_TwoWrites
SPECIFICATION Spec
INVARIANTS WordNotTorn
