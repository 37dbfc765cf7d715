SPECIFICATION Spec
CONSTANTS
  W = 6
  MaxLevels = 64
  Rounds = 3
  CfgValues <- MCCfgValues
INVARIANTS
  TypeOK
  GeometryExact
  SlotsOneToOne
  BuddiesPair
  LevelServes
  NothingLeaked
