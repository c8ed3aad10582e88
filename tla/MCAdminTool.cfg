SPECIFICATION Spec
CONSTANTS
  dora = dora
  primary = primary
  minter = minter
  coll = coll
  k1 = k1
  k2 = k2
  badKey = badKey
  Primary = primary
  Offline = {dora}
  Key = {k1, k2}
  BadKey = {badKey}
  Text <- Texts
  InfoSpec <- PlainSpecs
  MaxDescription = 2
  RoyaltySpec <- Royalties
  One = 2
  MaxCommands = 3
  MinterAddress = minter
  CollectionAddress = coll
  None = None
  Absent = Absent
  Null = Null
  Clear = Clear
  Never = Never
SYMMETRY Symmetry
INVARIANTS
  GeneratedAsAsked
  OneFile
PROPERTIES
  OnlyAskedChanges
CHECK_DEADLOCK FALSE
