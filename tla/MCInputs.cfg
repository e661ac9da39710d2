SPECIFICATION InputsSpec
CONSTANTS
  Width = 3
  ChordMs = 2
  LongPressMs = 4
  Elapsed <- MCElapsed
  Settle = 1
  Depth = 3
  Chatter = 2
  Clamp = 4
  Reach = 2
INVARIANT NoDetentLost
PROPERTIES
  ChordNeverTaps
  OneHoldPerClosing
  OneTapLostPerChord
  ChordFiresWhenHeld
  AllReported
