SPECIFICATION MemorySpec
CONSTANTS
  a1 = a1
  a2 = a2
  a3 = a3
  null = null
  clean = clean
  amp = amp
  cab = cab
  gain = gain
  eq = eq
  delay = delay
  pA = pA
  pB = pB
  pDirect = pDirect
  pEmpty = pEmpty
  turned = turned
  boot = boot
  Addr <- MCAddr
  Null = null
  Model <- MCModel
  Ir <- MCIr
  Setting <- MCSetting
  Value <- MCValue
  Preset <- MCPreset
  First = pA
  ValueOf <- MCValueOf
  ModelOf <- MCModelOf
  IrOf <- MCIrOf
  BypassOf <- MCBypassOf
  Live <- MCLive
  Default <- MCDefault
  ApplyOrder <- MCOrder
  End = 1
  SramTop = 9
  EsdramBss = 12
  SdramTop = 21
  Incr <- MCIncr
INVARIANTS
  NoDanglingPointer
  OneModelAtATime
  NoLeak
  NamedModelOrBypass
  GrantsDisjoint
  MappedUntilFull
PROPERTIES
  OnlyNamingReplaces
  SwitchIsAtomic
  SwitchEnds
