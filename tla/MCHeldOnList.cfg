SPECIFICATION Spec
CONSTANTS
  Null = Null
  Count = 2
  Top = 1
  Flash <- TwoPresets
  Models <- TwoModels
  Irs <- OneIr
  Loads <- FirstLoads
  Fields <- TwoFields
  Delta <- Detents
  Pitch <- Readings
PROPERTY HeldOnListEdits
