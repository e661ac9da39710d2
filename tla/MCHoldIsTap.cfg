SPECIFICATION Safety
CONSTANTS
  Width = 3
  ChordMs = 2
  LongPressMs = 4
  Elapsed <- MCEachMs
  Settle = 3
PROPERTY HoldIsNotATap
