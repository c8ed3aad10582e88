---------------------------- MODULE MinterProofs ----------------------------
(***************************************************************************)
(* Proofs about Minter for every set of accounts, keys, requests,          *)
(* signatures and payments, and every bound of the token index.            *)
(*                                                                         *)
(* The safety invariants are proved together: none of them is inductive    *)
(* alone.  What ties them is Lifecycle (before the reply nothing has been  *)
(* sold, so setting the collection address cannot contradict a sale) and   *)
(* the finiteness of ADMIN_LIST, which gives the count of the removal      *)
(* guard its meaning.                                                      *)
(***************************************************************************)
EXTENDS Minter, FiniteSetTheorems, SequenceTheorems, TLAPS

\* Until the reply has stored the collection address nothing is sold.
Lifecycle ==
  /\ settings = None => ~awaitingReply
  /\ settings = None \/ awaitingReply => collectionAddress = None /\ issued = {}

AdminsInv == IsFiniteSet(admins) /\ AdminsNeverEmpty

SalesInv ==
  /\ Lifecycle
  /\ RegistryMatchesIssued
  /\ UuidRedeemedOnce
  /\ TokenIdsDense
  /\ SalesAuthorised

IInv == TypeOK /\ AdminsInv /\ SalesInv

LEMMA InitInv == Init => IInv
<1> SUFFICES ASSUME Init PROVE IInv
  OBVIOUS
<1>1. TypeOK
  <2>1. settings \in [signer : PubKey, paused : BOOLEAN] \cup {None}
    BY DEF Init
  <2>2. tokenIndex \in 0 .. MaxIndex /\ now \in Nat
    BY BoundAssumption DEF Init
  <2>3. admins = {} /\ uuids = {} /\ issued = {}
    BY DEF Init
  <2>4. collectionAddress \in Account \cup {None} /\ awaitingReply \in BOOLEAN
    BY DEF Init
  <2> QED
    BY <2>1, <2>2, <2>3, <2>4, Zenon DEF TypeOK
<1>2. AdminsInv
  BY FS_EmptySet DEF Init, AdminsInv, AdminsNeverEmpty
<1>3. SalesInv
  BY DEF Init, SalesInv, Lifecycle, RegistryMatchesIssued, UuidRedeemedOnce,
         TokenIdsDense, SalesAuthorised
<1> QED
  BY <1>1, <1>2, <1>3 DEF IInv

-----------------------------------------------------------------------------
(* Types *)

LEMMA TypeStep == TypeOK /\ [Next]_vars => TypeOK'
<1> SUFFICES ASSUME TypeOK, [Next]_vars PROVE TypeOK'
  OBVIOUS
<1> USE DEF TypeOK, Address
<1>1. ASSUME NEW s \in PubKey \cup BadPubKey, NEW p \in BOOLEAN, NEW a \in Address,
             NEW c \in Address \cup {None}, Instantiate(s, p, a, c), UNCHANGED now
      PROVE  TypeOK'
  BY <1>1 DEF Instantiate, InstantiateAccepted, VerifyCompressedPubKey
<1>2. ASSUME NEW c \in Address, Reply(c), UNCHANGED now PROVE TypeOK'
  BY <1>2 DEF Reply
<1>3. ASSUME NEW a \in Account, NEW s \in PubKey \cup BadPubKey \cup {None},
             NEW p \in BOOLEAN \cup {None}, UpdateSettings(a, s, p), UNCHANGED now
      PROVE  TypeOK'
  <2>1. settings' \in [signer : PubKey, paused : BOOLEAN]
    BY <1>3 DEF UpdateSettings, UpdateSettingsAccepted, VerifyCompressedPubKey
  <2> QED
    BY <1>3, <2>1 DEF UpdateSettings
<1>4. ASSUME NEW a \in Account, NEW b \in Address, AddAdmin(a, b), UNCHANGED now
      PROVE  TypeOK'
  BY <1>4 DEF AddAdmin
<1>5. ASSUME NEW a \in Account, NEW b \in Address, RemoveAdmin(a, b), UNCHANGED now
      PROVE  TypeOK'
  BY <1>5 DEF RemoveAdmin
<1>6. ASSUME NEW a \in Account, NEW f \in Payment, NEW r \in Request,
             NEW s \in Signature, Mint(a, f, r, s), UNCHANGED now
      PROVE  TypeOK'
  <2>1. tokenIndex + 1 \in 1 .. MaxIndex
    BY <1>6, BoundAssumption DEF Mint, Receipt, MintAccepted
  <2>2. settings.signer \in PubKey
    BY <1>6 DEF Mint, Receipt, MintAccepted, ConfigAvailable
  <2>3. f[1].amount \in Nat
    BY <1>6, RequestAssumption DEF Mint, Receipt, MintAccepted, PaysExactly
  <2> QED
    BY <1>6, <2>1, <2>2, <2>3 DEF Mint, Receipt
<1>7. CASE Tick
  BY <1>7 DEF Tick, contractVars
<1>8. CASE Migrate /\ UNCHANGED now
  BY <1>8 DEF Migrate, contractVars
<1>9. CASE UNCHANGED vars
  BY <1>9 DEF vars, contractVars
<1> QED
  BY <1>1, <1>2, <1>3, <1>4, <1>5, <1>6, <1>7, <1>8, <1>9 DEF Next, Execute

-----------------------------------------------------------------------------
(* Admins *)

LEMMA AdminsStep == TypeOK /\ AdminsInv /\ [Next]_vars => AdminsInv'
<1> SUFFICES ASSUME TypeOK, AdminsInv, [Next]_vars PROVE AdminsInv'
  OBVIOUS
<1> USE DEF AdminsInv, AdminsNeverEmpty
<1>1. ASSUME NEW s \in PubKey \cup BadPubKey, NEW p \in BOOLEAN, NEW a \in Address,
             NEW c \in Address \cup {None}, Instantiate(s, p, a, c)
      PROVE  AdminsInv'
  BY <1>1, FS_Singleton DEF Instantiate
<1>2. ASSUME NEW a \in Account, NEW b \in Address, AddAdmin(a, b)
      PROVE  AdminsInv'
  BY <1>2, FS_AddElement DEF AddAdmin
<1>3. ASSUME NEW a \in Account, NEW b \in Address, RemoveAdmin(a, b)
      PROVE  AdminsInv'
  <2>1. b \in admins /\ Cardinality(admins) >= 2 /\ admins' = admins \ {b}
    BY <1>3 DEF RemoveAdmin, RemoveAdminAccepted, IsAdmin
  <2>2. IsFiniteSet(admins') /\ Cardinality(admins') = Cardinality(admins) - 1
    BY <2>1, FS_RemoveElement
  <2>3. Cardinality(admins) \in Nat
    BY FS_CardinalityType
  <2>4. Cardinality(admins') # 0
    BY <2>1, <2>2, <2>3
  <2>5. admins' # {}
    BY <2>4, FS_EmptySet
  <2> QED
    BY <2>2, <2>5
<1>4. ASSUME NEW c \in Address, Reply(c) PROVE AdminsInv'
  BY <1>4 DEF Reply
<1>5. ASSUME NEW a \in Account, NEW s \in PubKey \cup BadPubKey \cup {None},
             NEW p \in BOOLEAN \cup {None}, UpdateSettings(a, s, p)
      PROVE  AdminsInv'
  BY <1>5 DEF UpdateSettings, UpdateSettingsAccepted
<1>6. ASSUME NEW a \in Account, NEW f \in Payment, NEW r \in Request,
             NEW s \in Signature, Mint(a, f, r, s)
      PROVE  AdminsInv'
  BY <1>6 DEF Mint, Receipt
<1>7. CASE UNCHANGED contractVars
  BY <1>7 DEF contractVars
<1> QED
  BY <1>1, <1>2, <1>3, <1>4, <1>5, <1>6, <1>7 DEF Next, Execute, Tick, Migrate, vars

-----------------------------------------------------------------------------
(* Sales *)

LEMMA MintStep ==
  ASSUME TypeOK, SalesInv,
         NEW a \in Account, NEW f \in Payment, NEW r \in Request,
         NEW s \in Signature, Mint(a, f, r, s)
  PROVE  SalesInv'
<1> DEFINE sale == [tokenId |-> tokenIndex + 1, request |-> r, payer |-> a,
                    paid |-> f[1].amount, key |-> settings.signer, at |-> now]
<1> USE DEF SalesInv
<1>1. /\ issued' = issued \cup {sale}
      /\ uuids' = uuids \cup {r.uuid}
      /\ tokenIndex' = tokenIndex + 1
      /\ UNCHANGED <<settings, collectionAddress, awaitingReply>>
  BY DEF Mint, Receipt
<1>2. /\ settings # None /\ ~awaitingReply /\ r.uuid \notin uuids
      /\ r.validity_start <= now /\ now <= r.validity_end
      /\ f[1].amount = r.price /\ r.collection = collectionAddress
      /\ s.request = r /\ s.key = settings.signer
  BY DEF Mint, Receipt, MintAccepted, ConfigAvailable, CheckSig, InValidityWindow,
         PaysExactly
<1>3. tokenIndex \in Nat
  BY BoundAssumption DEF TypeOK
<1>4. Lifecycle'
  BY <1>1, <1>2 DEF Lifecycle
<1>5. RegistryMatchesIssued'
  <2>1. sale.request.uuid = r.uuid
    OBVIOUS
  <2>2. {i.request.uuid : i \in issued'} = {i.request.uuid : i \in issued} \cup {r.uuid}
    BY <1>1, <2>1, Zenon
  <2> QED
    BY <1>1, <2>2 DEF RegistryMatchesIssued
<1>6. UuidRedeemedOnce'
  <2>1. \A i \in issued : i.request.uuid # r.uuid
    BY <1>2 DEF RegistryMatchesIssued
  <2> QED
    BY <1>1, <2>1 DEF UuidRedeemedOnce
<1>7. TokenIdsDense'
  <2>1. sale.tokenId = tokenIndex + 1
    OBVIOUS
  <2>2. {i.tokenId : i \in issued'} = {i.tokenId : i \in issued} \cup {tokenIndex + 1}
    BY <1>1, <2>1, Zenon
  <2>3. 1 .. tokenIndex' = (1 .. tokenIndex) \cup {tokenIndex + 1}
    BY <1>1, <1>3
  <2>4. {i.tokenId : i \in issued'} = 1 .. tokenIndex'
    BY <2>2, <2>3 DEF TokenIdsDense
  <2>5. \A i \in issued : i.tokenId # tokenIndex + 1
    <3>1. \A i \in issued : i.tokenId \in 1 .. tokenIndex
      BY DEF TokenIdsDense
    <3> QED
      BY <3>1, <1>3
  <2>6. \A x, y \in issued' : x.tokenId = y.tokenId => x = y
    BY <1>1, <2>1, <2>5 DEF TokenIdsDense
  <2> QED
    BY <2>4, <2>6 DEF TokenIdsDense
<1>8. SalesAuthorised'
  <2>1. f[1].amount > 0
    <3>1. f \in Seq([denom : STRING, amount : Nat \ {0}]) /\ Len(f) = 1
      BY PaymentAssumption DEF Mint, Receipt, MintAccepted, PaysExactly
    <3>2. 1 \in 1 .. Len(f)
      BY <3>1
    <3>3. f[1] \in [denom : STRING, amount : Nat \ {0}]
      BY <3>1, <3>2, ElementOfSeq
    <3> QED
      BY <3>3
  <2>2. \E t \in Signature : t.key = sale.key /\ t.request = sale.request
    BY <1>2
  <2>3. /\ sale.request.validity_start <= sale.at
        /\ sale.at <= sale.request.validity_end
        /\ sale.paid = sale.request.price /\ sale.paid > 0
        /\ sale.request.collection = collectionAddress
    BY <1>2, <2>1
  <2> QED
    BY <1>1, <2>2, <2>3, Zenon DEF SalesAuthorised
<1> QED
  BY <1>4, <1>5, <1>6, <1>7, <1>8

LEMMA SalesStep == TypeOK /\ SalesInv /\ [Next]_vars => SalesInv'
<1> SUFFICES ASSUME TypeOK, SalesInv, [Next]_vars PROVE SalesInv'
  OBVIOUS
<1> USE DEF SalesInv, Lifecycle, RegistryMatchesIssued, UuidRedeemedOnce,
            TokenIdsDense, SalesAuthorised
<1>1. ASSUME NEW s \in PubKey \cup BadPubKey, NEW p \in BOOLEAN, NEW a \in Address,
             NEW c \in Address \cup {None}, Instantiate(s, p, a, c)
      PROVE  SalesInv'
  <2>1. issued = {} /\ collectionAddress = None
    BY <1>1 DEF Instantiate, InstantiateAccepted
  <2>2. settings' # None
    BY <1>1, AddressAssumption DEF Instantiate, InstantiateAccepted,
                                   VerifyCompressedPubKey
  <2> QED
    BY <1>1, <2>1, <2>2 DEF Instantiate
<1>2. ASSUME NEW c \in Address, Reply(c) PROVE SalesInv'
  \* nothing is sold yet, so the new address contradicts no sale
  <2>1. issued = {}
    BY <1>2 DEF Reply
  <2>2. settings # None
    BY <1>2 DEF Reply
  <2> QED
    BY <1>2, <2>1, <2>2 DEF Reply
<1>3. ASSUME NEW a \in Account, NEW s \in PubKey \cup BadPubKey \cup {None},
             NEW p \in BOOLEAN \cup {None}, UpdateSettings(a, s, p)
      PROVE  SalesInv'
  <2>1. settings' \in [signer : PubKey, paused : BOOLEAN]
    BY <1>3 DEF UpdateSettings, UpdateSettingsAccepted, TypeOK,
                VerifyCompressedPubKey
  <2>2. settings' # None
    BY <2>1, AddressAssumption
  <2> QED
    BY <1>3, <2>2 DEF UpdateSettings, UpdateSettingsAccepted
<1>4. ASSUME NEW a \in Account, NEW b \in Address, AddAdmin(a, b)
      PROVE  SalesInv'
  BY <1>4 DEF AddAdmin
<1>5. ASSUME NEW a \in Account, NEW b \in Address, RemoveAdmin(a, b)
      PROVE  SalesInv'
  BY <1>5 DEF RemoveAdmin
<1>6. ASSUME NEW a \in Account, NEW f \in Payment, NEW r \in Request,
             NEW s \in Signature, Mint(a, f, r, s)
      PROVE  SalesInv'
  BY <1>6, MintStep
<1>7. CASE UNCHANGED contractVars
  BY <1>7 DEF contractVars
<1> QED
  BY <1>1, <1>2, <1>3, <1>4, <1>5, <1>6, <1>7 DEF Next, Execute, Tick, Migrate, vars

-----------------------------------------------------------------------------
(* The theorems *)

LEMMA Invariance == Spec => []IInv
<1>1. IInv /\ [Next]_vars => IInv'
  BY TypeStep, AdminsStep, SalesStep DEF IInv
<1> QED
  BY InitInv, <1>1, PTL DEF Spec

\* Whatever is called, in whatever order, every item of the contract's storage
\* keeps its type: no key that is not 33 bytes and no invalid collection address
\* is ever stored.
THEOREM TypeCorrect == Spec => []TypeOK
<1>1. IInv => TypeOK
  BY DEF IInv
<1> QED
  BY Invariance, <1>1, PTL

\* For every set of requests and signatures, two accepted mints never share a UUID.
THEOREM NoDoubleRedemption == Spec => []UuidRedeemedOnce
<1>1. IInv => UuidRedeemedOnce
  BY DEF IInv, SalesInv
<1> QED
  BY Invariance, <1>1, PTL

\* The UUIDs used up are those of the accepted mints, no more and no fewer.
THEOREM RegistryExact == Spec => []RegistryMatchesIssued
<1>1. IInv => RegistryMatchesIssued
  BY DEF IInv, SalesInv
<1> QED
  BY Invariance, <1>1, PTL

\* Token ids are 1 .. TOKEN_INDEX, each issued once, whatever the width of the index.
THEOREM TokenIdsUnique == Spec => []TokenIdsDense
<1>1. IInv => TokenIdsDense
  BY DEF IInv, SalesInv
<1> QED
  BY Invariance, <1>1, PTL

\* Every sale was signed by the key configured when it was made, took place inside
\* its validity window, was paid for exactly and was meant for this collection.
THEOREM OnlyAuthorisedSales == Spec => []SalesAuthorised
<1>1. IInv => SalesAuthorised
  BY DEF IInv, SalesInv
<1> QED
  BY Invariance, <1>1, PTL

\* An instantiated minter never runs out of admins.
THEOREM AlwaysAnAdmin == Spec => []AdminsNeverEmpty
<1>1. IInv => AdminsNeverEmpty
  BY DEF IInv, AdminsInv
<1> QED
  BY Invariance, <1>1, PTL

\* No call undoes a sale or moves the minter to another collection.
THEOREM NoSaleUndone == Spec => SalesAreFinal
<1> DEFINE Final ==
      /\ uuids \subseteq uuids'
      /\ issued \subseteq issued'
      /\ tokenIndex <= tokenIndex'
      /\ collectionAddress # None => collectionAddress' = collectionAddress
<1>1. ASSUME IInv, [Next]_vars PROVE [Final]_vars
  <2>1. tokenIndex \in Nat
    BY <1>1, BoundAssumption DEF IInv, TypeOK
  <2>2. ASSUME NEW c \in Address, Reply(c) PROVE Final
    <3>1. collectionAddress = None
      BY <1>1, <2>2 DEF IInv, SalesInv, Lifecycle, Reply
    <3> QED
      BY <2>1, <2>2, <3>1 DEF Reply
  <2>3. CASE UNCHANGED vars
    BY <2>3
  <2>4. CASE Next /\ ~ \E c \in Address : Reply(c)
    BY <1>1, <2>1, <2>4 DEF Next, Execute, Tick, Migrate, contractVars, Instantiate,
         UpdateSettings, AddAdmin, RemoveAdmin, Mint
  <2> QED
    BY <1>1, <2>2, <2>3, <2>4
<1> QED
  BY Invariance, <1>1, PTL DEF Spec, SalesAreFinal
=============================================================================
