SPECIFICATION YinSpec
CONSTANTS
  Span = 32
  MinTau = 2
  MaxTau = 15
  Sound <- MCSound
  Tone <- MCTone
  Audible = 4
  Unit = 1000
  Threshold = 120
INVARIANT MixedIsNoPitch
