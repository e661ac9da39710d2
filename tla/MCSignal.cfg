SPECIFICATION SignalSpec
CONSTANTS
  bass = bass
  treble = treble
  flat1 = flat1
  flat2 = flat2
  boost = boost
  cut = cut
  Torn = torn
  Band <- MCBand
  Curve <- MCCurve
  FlatCurve <- MCFlat
  Default = flat1
  GenMod = 3
  MaxFlips = 2
  MaxSamples = 9
  Time = {0, 3, 8, 9, 12}
  Block = 2
  FftSize = 4
  MaxTaps = 5
  MaxPartitions = 3
  Input = {0, 1}
  Ir <- MCIr
  RingSize = 8
  WindowSize = 3
  Wrap = 16
  Decimation = 2
  Frames = 3
  Slack = 3
  Cadence = 2
  Span = 32
  MinTau = 2
  MaxTau = 15
  Sound <- MCSound
  Tone <- MCTone
  Audible = 4
  Unit = 1000
  Threshold = 120
INVARIANTS
  NoTornCurve
  NoStaleHistory
  WindowUnbroken
  PitchOfThisSession
  PitchIsTrue
PROPERTIES
  SetBandIsAtomic
  EchoIsExact
  PlaysDirectly
  WindowComes
