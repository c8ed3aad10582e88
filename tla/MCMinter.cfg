SPECIFICATION Spec
CONSTANTS
  alice = alice
  coll = coll
  other = other
  badAddr = badAddr
  k1 = k1
  k2 = k2
  badKey = badKey
  u1 = u1
  u2 = u2
  u3 = u3
  None = None
  Account <- MCAccount
  Malformed = {badAddr}
  PubKey = {k1, k2}
  BadPubKey = {badKey}
  Request <- MCRequest
  Signature <- MCSignature
  Payment <- MCPayment
  MaxIndex = 2
  MaxTime = 2
INVARIANTS
  TypeOK
  UuidRedeemedOnce
  RegistryMatchesIssued
  TokenIdsDense
  SalesAuthorised
  AdminsNeverEmpty
PROPERTIES
  SalesAreFinal
CHECK_DEADLOCK FALSE
