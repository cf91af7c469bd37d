CONSTANTS
  g0 = g0
  g1 = g1
  Pins <- MC_OnePin
  OutputWrites <- MC_OneWrites
  DriveWrites <- MC_OneWrites
SPECIFICATION Spec
PROPERTIES PolarityHonoured
