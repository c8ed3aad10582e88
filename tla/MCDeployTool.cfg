SPECIFICATION Spec
CONSTANTS
  alice = alice
  bob = bob
  w1 = w1
  w2 = w2
  None = None
  Network = {"Local"}
  Variant = {"Minter", "Collection"}
  Address = {alice, bob}
  Wasm = {w1, w2}
  Note = {}
  MaxRuns = 3
  MaxKept = 1
SYMMETRY Symmetry
INVARIANTS
  NothingLeftOver
  ProposalIntact
  ProposerSigns
  MigratableAsSpecified
CHECK_DEADLOCK FALSE
