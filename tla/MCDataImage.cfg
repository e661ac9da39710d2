SPECIFICATION SupplySpec
CONSTANTS
  lead = lead
  twang = twang
  fuzz = fuzz
  box = box
  hall = hall
  p1 = p1
  p2 = p2
  p3 = p3
  p4 = p4
  Asset <- MCAsset
  TypeOf <- MCTypeOf
  Stem <- MCStem
  Units <- MCUnits
  Uses <- MCUses
  Authored <- MCAuthored
  Bounds <- MCBounds
  Default <- MCDefault
  PackedDefault <- MCPackedDefault
  Absent <- MCAbsent
  Encoded <- MCEncoded
  Empty = ""
  Trim = 3
  MaxTaps = 2
  MaxModels = 2
  MaxPresets = 2
  Sector = 4
  Partition = 24
  MaxWord = 31
  Wild = {7, 24, 31}
  Image <- MCImage
  Command <- MCCommand
  MaxLine = 4
  Char = {"B", "T", "x", "nul", "nl"}
  LineEnd = {"nl"}
  Nul = "nul"
  PacketSize = 2
  MaxStream = 7
INVARIANTS
  RebootsOnCommandOnly
  BlobsInPartition
  ServedAsPacked
  PresetsPlay
