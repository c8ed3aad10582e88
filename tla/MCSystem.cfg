SPECIFICATION Spec
CONSTANTS
  alice = alice
  bob = bob
  vault = vault
  minter = minter
  coll = coll
  badAddr = badAddr
  k1 = k1
  k2 = k2
  u1 = u1
  u2 = u2
  None = None
  Absent = Absent
  Null = Null
  Clear = Clear
  Never = Never
  Account <- MCAccount
  Malformed = {badAddr}
  PubKey = {k1, k2}
  BadPubKey = {}
  Request <- MCRequest
  Signature <- MCSignature
  Payment <- MCPayment
  Contract = {vault, minter, coll}
  Description = {0, 1, 2}
  MaxDescription = 1
  Link = {}
  Image = {"img"}
  Share = {0, 1, 2, 3}
  One = 2
  MinterAddress = minter
  CollectionAddress = coll
  Opening <- MCOpening
  Transaction <- SystemTransactions
  Reaction <- MCReaction
  MaxIndex = 2
  MaxTime = 1
  MaxSteps = 8
INVARIANTS
  TokensAccounted
  EscrowMatchesPending
  CallbackAfterTransfer
  DeployedTogether
  RoyaltyUpTo3
PROPERTIES
  SaleAtomic
  AdminsAuthoriseChanges
  HoldersConsent
CHECK_DEADLOCK FALSE
