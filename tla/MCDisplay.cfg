SPECIFICATION DisplaySpec
CONSTANTS
  Screens <- TwoScreens
  Compared = {1, 2}
  Rest = {1, 2}
  FrameBytes = 5
  RowBytes = 2
  Batch = 1
  FrameMs = 3
  Wrap = 8
  Elapsed = {0, 1, 2}
  NameLen = {0, 8, 9, 12, 30}
  Levels <- MCLevels
  Counts = {1, 6, 7, 8, 9, 32}
  Cents <- MCCents
INVARIANTS
  NoTearing
  UpToDate
  InPlace
  Legible
  CursorShown
PROPERTIES
  Settles
