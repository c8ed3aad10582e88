------------------------------- MODULE Minter -------------------------------
(***************************************************************************)
(* The dega-minter contract: contracts/dega-minter/src.                    *)
(*                                                                         *)
(* The contract sells tokens of one dega-cw721 collection.  A backend      *)
(* signs mint requests with a secp256k1 key; anybody may bring a signed    *)
(* request and the exact price, and the contract registers the request's   *)
(* UUID, takes the next token index and emits two messages: the mint of    *)
(* that token in the collection and the transfer of the proceeds.          *)
(*                                                                         *)
(* Each action is one accepted call of the contract.  A refused call, or   *)
(* one whose messages fail, is reverted by the chain and leaves every      *)
(* variable as it was: here it is a stuttering step.  DegaSystem executes  *)
(* the messages one at a time and models the reverts.                      *)
(***************************************************************************)
EXTENDS Integers, Sequences, FiniteSets

CONSTANTS
  Account,     \* the strings addr_validate accepts: only these can ever be a sender
  Malformed,   \* strings addr_validate rejects: bad prefix, checksum or case
  PubKey,      \* strings that decode to the 33 bytes of a compressed public key
  BadPubKey,   \* strings that do not
  Request,     \* mint requests that may be presented
  Signature,   \* signatures in existence, each of one request by one key
  Payment,     \* the coins a call may carry: sequences of [denom, amount]
  MaxIndex,    \* the largest token index (u64::MAX in the code)
  MaxTime,     \* bound of the block time explored
  None         \* Rust's Option::None, and an Item that was never saved

Address == Account \cup Malformed

ASSUME AddressAssumption ==
  /\ Account \cap Malformed = {}
  /\ PubKey \cap BadPubKey = {}
  /\ None \notin Address \cup PubKey \cup BadPubKey \cup BOOLEAN
  /\ None \notin [signer : PubKey, paused : BOOLEAN]

\* A request's price and validity are unsigned integers of the message; its
\* addresses are strings nobody has validated yet.
ASSUME RequestAssumption ==
  \A r \in Request :
    /\ r.to \in Address /\ r.primary_sale_recipient \in Address
    /\ r.collection \in Address
    /\ r.price \in Nat
    /\ r.validity_start \in Nat /\ r.validity_end \in Nat

ASSUME SignatureAssumption ==
  \A s \in Signature : s.key \in PubKey /\ s.request \in Request

\* The bank module never carries a zero coin.
ASSUME PaymentAssumption ==
  Payment \subseteq Seq([denom : STRING, amount : Nat \ {0}])

ASSUME BoundAssumption == MaxIndex \in Nat /\ MaxTime \in Nat

VARIABLES
  settings,           \* DEGA_MINTER_SETTINGS, None until instantiation
  admins,             \* ADMIN_LIST
  uuids,              \* UUID_REGISTRY
  tokenIndex,         \* TOKEN_INDEX, 0 while it was never saved
  collectionAddress,  \* COLLECTION_ADDRESS, None until the reply
  awaitingReply,      \* the reply_on_success submessage of the instantiation is out
  issued,             \* one record per accepted mint: the attributes of its response
  now                 \* block time in seconds

contractVars == <<settings, admins, uuids, tokenIndex, collectionAddress,
                  awaitingReply, issued>>
vars == <<contractVars, now>>

-----------------------------------------------------------------------------
(* Signatures and payments *)

VerifyCompressedPubKey(key) == key \in PubKey

\* Mutant of CheckSig: the hash that is verified is not the one of the request.
CheckSigAnyRequest(request, signature, key) ==
  /\ VerifyCompressedPubKey(key)
  /\ signature.key = key

\* secp256k1_verify over the hash of the whole serialised request: a signature
\* is good for exactly the request and the key it was made with.
CheckSig(request, signature, key) ==
  /\ VerifyCompressedPubKey(key)
  /\ signature.request = request
  /\ signature.key = key

\* Mutant of InValidityWindow: an order never expires.
InValidityWindowNoEnd(request) == request.validity_start <= now

InValidityWindow(request) ==
  request.validity_start <= now /\ now <= request.validity_end

PaysExactly(funds, request) ==
  /\ Len(funds) = 1
  /\ funds[1].denom = request.currency
  /\ funds[1].amount = request.price

-----------------------------------------------------------------------------
(* Queries the collection makes *)

ConfigAvailable == settings # None /\ collectionAddress # None

MintingPaused == settings.paused

IsAdmin(address) == address \in admins

-----------------------------------------------------------------------------
(* Handlers *)

Init ==
  /\ settings = None
  /\ admins = {}
  /\ uuids = {}
  /\ tokenIndex = 0
  /\ collectionAddress = None
  /\ awaitingReply = FALSE
  /\ issued = {}
  /\ now = 0

\* The settings and the first admin are saved before the collection exists; the
\* initial admin is stored as it came, without addr_validate.
InstantiateAccepted(signer, cw721Admin) ==
  /\ settings = None
  /\ cw721Admin \in Account \cup {None}
  /\ VerifyCompressedPubKey(signer)

Instantiate(signer, paused, initialAdmin, cw721Admin) ==
  /\ InstantiateAccepted(signer, cw721Admin)
  /\ settings' = [signer |-> signer, paused |-> paused]
  /\ admins' = {initialAdmin}
  /\ awaitingReply' = TRUE
  /\ UNCHANGED <<uuids, tokenIndex, collectionAddress, issued>>

\* Mutant of Reply: the pending reply is not consumed, so it may come again.
ReplyRepeatable(collection) ==
  /\ awaitingReply
  /\ collection \in Account
  /\ collectionAddress' = collection
  /\ UNCHANGED <<settings, admins, uuids, tokenIndex, awaitingReply, issued>>

\* The chain calls reply with the address of the new collection.
Reply(collection) ==
  /\ awaitingReply
  /\ collection \in Account
  /\ collectionAddress' = collection
  /\ awaitingReply' = FALSE
  /\ UNCHANGED <<settings, admins, uuids, tokenIndex, issued>>

\* Mutant of UpdateSettingsAccepted: the new key is stored unchecked.
UpdateSettingsAnyKey(sender, newSigner) ==
  /\ settings # None /\ ~awaitingReply
  /\ IsAdmin(sender)

UpdateSettingsAccepted(sender, newSigner) ==
  /\ settings # None /\ ~awaitingReply
  /\ IsAdmin(sender)
  /\ newSigner # None => VerifyCompressedPubKey(newSigner)

UpdateSettings(sender, newSigner, newPaused) ==
  /\ UpdateSettingsAccepted(sender, newSigner)
  /\ settings' =
       [signer |-> IF newSigner = None THEN settings.signer ELSE newSigner,
        paused |-> IF newPaused = None THEN settings.paused ELSE newPaused]
  /\ UNCHANGED <<admins, uuids, tokenIndex, collectionAddress, awaitingReply,
                 issued>>

AddAdminAccepted(sender, address) ==
  /\ settings # None /\ ~awaitingReply
  /\ IsAdmin(sender)
  /\ ~IsAdmin(address)

AddAdmin(sender, address) ==
  /\ AddAdminAccepted(sender, address)
  /\ admins' = admins \cup {address}
  /\ UNCHANGED <<settings, uuids, tokenIndex, collectionAddress, awaitingReply,
                 issued>>

\* Mutant of RemoveAdminAccepted: the bound on the admin list is off by one.
RemoveLastAdminAccepted(sender, address) ==
  /\ settings # None /\ ~awaitingReply
  /\ IsAdmin(sender)
  /\ Cardinality(admins) >= 1
  /\ IsAdmin(address)

RemoveAdminAccepted(sender, address) ==
  /\ settings # None /\ ~awaitingReply
  /\ IsAdmin(sender)
  /\ Cardinality(admins) >= 2
  /\ IsAdmin(address)

RemoveAdmin(sender, address) ==
  /\ RemoveAdminAccepted(sender, address)
  /\ admins' = admins \ {address}
  /\ UNCHANGED <<settings, uuids, tokenIndex, collectionAddress, awaitingReply,
                 issued>>

\* Mutant of MintAccepted: the UUID is not looked up.
MintAcceptedAgain(funds, request, signature) ==
  /\ ConfigAvailable /\ ~awaitingReply
  /\ ~MintingPaused
  /\ CheckSig(request, signature, settings.signer)
  /\ request.to \in Account
  /\ InValidityWindow(request)
  /\ PaysExactly(funds, request)
  /\ request.collection = collectionAddress
  /\ tokenIndex < MaxIndex
  /\ request.primary_sale_recipient \in Account

\* Every early return of execute_mint.  TOKEN_INDEX + 1 is a checked addition
\* (overflow-checks is on in the release profile): at MaxIndex the call aborts.
MintAccepted(funds, request, signature) ==
  /\ ConfigAvailable /\ ~awaitingReply
  /\ ~MintingPaused
  /\ CheckSig(request, signature, settings.signer)
  /\ request.to \in Account
  /\ InValidityWindow(request)
  /\ request.uuid \notin uuids
  /\ PaysExactly(funds, request)
  /\ request.collection = collectionAddress
  /\ tokenIndex < MaxIndex
  /\ request.primary_sale_recipient \in Account

Receipt(sender, funds, request, tokenId) ==
  [tokenId |-> tokenId, request |-> request, payer |-> sender,
   paid |-> funds[1].amount, key |-> settings.signer, at |-> now]

\* Mutant of Mint: the accepted UUID is not saved.
MintUnregistered(sender, funds, request, signature) ==
  /\ MintAccepted(funds, request, signature)
  /\ tokenIndex' = tokenIndex + 1
  /\ issued' = issued \cup {Receipt(sender, funds, request, tokenIndex + 1)}
  /\ UNCHANGED <<settings, admins, uuids, collectionAddress, awaitingReply>>

\* Mutant of Mint: the token takes the index as it was before the increment.
MintOldIndex(sender, funds, request, signature) ==
  /\ MintAccepted(funds, request, signature)
  /\ uuids' = uuids \cup {request.uuid}
  /\ tokenIndex' = tokenIndex + 1
  /\ issued' = issued \cup {Receipt(sender, funds, request, tokenIndex)}
  /\ UNCHANGED <<settings, admins, collectionAddress, awaitingReply>>

Mint(sender, funds, request, signature) ==
  /\ MintAccepted(funds, request, signature)
  /\ uuids' = uuids \cup {request.uuid}
  /\ tokenIndex' = tokenIndex + 1
  /\ issued' = issued \cup {Receipt(sender, funds, request, tokenIndex + 1)}
  /\ UNCHANGED <<settings, admins, collectionAddress, awaitingReply>>

\* Migration is a no-op in this version of the contract.
Migrate == settings # None /\ UNCHANGED contractVars

-----------------------------------------------------------------------------
(* The contract in an arbitrary environment *)

Tick ==
  /\ now < MaxTime
  /\ now' = now + 1
  /\ UNCHANGED contractVars

Execute ==
  \/ \E s \in PubKey \cup BadPubKey, p \in BOOLEAN, a \in Address,
        c \in Address \cup {None} : Instantiate(s, p, a, c)
  \/ \E c \in Address : Reply(c)
  \/ \E a \in Account, s \in PubKey \cup BadPubKey \cup {None},
        p \in BOOLEAN \cup {None} : UpdateSettings(a, s, p)
  \/ \E a \in Account, b \in Address : AddAdmin(a, b)
  \/ \E a \in Account, b \in Address : RemoveAdmin(a, b)
  \/ \E a \in Account, f \in Payment, r \in Request, s \in Signature :
        Mint(a, f, r, s)
  \/ Migrate

Next ==
  \/ Execute /\ UNCHANGED now
  \/ Tick

Spec == Init /\ [][Next]_vars

-----------------------------------------------------------------------------
(* Properties *)

\* Every stored value has the type of its storage item; in particular no key that
\* is not 33 bytes and no collection address that is not valid is ever stored.
TypeOK ==
  /\ settings \in [signer : PubKey, paused : BOOLEAN] \cup {None}
  /\ admins \subseteq Address
  /\ uuids \subseteq {r.uuid : r \in Request}
  /\ tokenIndex \in 0 .. MaxIndex
  /\ collectionAddress \in Account \cup {None}
  /\ awaitingReply \in BOOLEAN
  /\ issued \subseteq [tokenId : 1 .. MaxIndex, request : Request,
                       payer : Account, paid : Nat, key : PubKey, at : Nat]
  /\ now \in Nat

\* No signed request is redeemed twice, and of two requests that carry the same
\* UUID (a backend that re-issues an order) at most one is: UUID_REGISTRY.
UuidRedeemedOnce ==
  \A a, b \in issued : a.request.uuid = b.request.uuid => a = b

\* The registry holds exactly the UUIDs of accepted mints: a UUID is burnt by
\* nothing else, and no accepted mint is missing from it.
RegistryMatchesIssued == uuids = {i.request.uuid : i \in issued}

\* Accepted mints are numbered 1 .. TOKEN_INDEX without gap or repetition, up to
\* and including the largest index: increment_token_index never wraps around.
TokenIdsDense ==
  /\ {i.tokenId : i \in issued} = 1 .. tokenIndex
  /\ \A a, b \in issued : a.tokenId = b.tokenId => a = b

\* Whatever was sold was authorised: signed by the key configured at that moment,
\* for this collection, at a block time inside its window (both ends included),
\* and paid for to the unit, with a payment that is never zero.
SalesAuthorised ==
  \A i \in issued :
    /\ \E s \in Signature : s.key = i.key /\ s.request = i.request
    /\ i.request.validity_start <= i.at /\ i.at <= i.request.validity_end
    /\ i.paid = i.request.price /\ i.paid > 0
    /\ i.request.collection = collectionAddress

\* An instantiated minter always has an admin: whichever admins remove each other,
\* in whatever order, the last one stays.
AdminsNeverEmpty == settings # None => admins # {}

\* What a mint consumes stays consumed: no call gives a UUID back, lowers the
\* token index, withdraws an issued token or moves the minter to another collection.
SalesAreFinal ==
  [][/\ uuids \subseteq uuids'
     /\ issued \subseteq issued'
     /\ tokenIndex <= tokenIndex'
     /\ collectionAddress # None => collectionAddress' = collectionAddress]_vars
=============================================================================
