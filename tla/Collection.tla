----------------------------- MODULE Collection -----------------------------
(***************************************************************************)
(* The dega-cw721 contract: contracts/dega-cw721/src.                      *)
(*                                                                         *)
(* A cw721 collection whose owner, in the sense of cw_ownable, is the      *)
(* minter contract that instantiated it.  Mint and UpdateCollectionInfo    *)
(* are the repository's own handlers and query the minter; transfers,      *)
(* approvals and burns are passed through to cw721-base, whose behaviour   *)
(* is modelled here as execute.rs uses it.                                 *)
(*                                                                         *)
(* What the collection learns from its minter (is minting paused, is this  *)
(* account an admin) comes in as a parameter.  Spec lets the answers be    *)
(* anything; DegaSystem connects them to the Minter module.                *)
(***************************************************************************)
EXTENDS Integers, FiniteSets

CONSTANTS
  Account, Malformed,   \* strings addr_validate accepts, and rejects
  Contract,             \* the accounts that are contracts
  TokenId,
  Description,          \* lengths in bytes of the descriptions explored
  MaxDescription,       \* MAX_DESCRIPTION_LENGTH
  Link, Image,          \* external links and images
  Share,                \* royalty shares explored, in units of 1 / One
  One,                  \* Decimal::one()
  MaxTime,              \* bound of the block time explored
  None,                 \* Rust's None
  Absent, Null,         \* JSON: a field left out, a field that is null
  Clear,                \* Rust's Some(None) of an Option<Option<T>> field
  Never                 \* Expiration::Never, the default of an omitted expiry

Address == Account \cup Malformed
Expiration == 0 .. MaxTime \cup {Never}

Royalty == [address : Address, share : Share]

InfoMsg == [description : Description, image : Image,
            externalLink : Link \cup {None}, royalty : Royalty \cup {None}]

ASSUME ConstantAssumption ==
  /\ Account \cap Malformed = {} /\ Contract \subseteq Account
  /\ Share \subseteq Nat /\ One \in Nat \ {0}
  /\ Description \subseteq Nat /\ MaxDescription \in Nat
  /\ MaxTime \in Nat
  /\ None \notin Account \cup InfoMsg
  /\ \A v \in {None, Absent, Null, Clear} :
       v \notin Description /\ v \notin Image /\ v \notin Link /\ v \notin Royalty
  /\ Clear # None
  /\ None \notin [owner : Account,
                  approvals : SUBSET [spender : Account, expires : Expiration,
                                      under : Account]]

VARIABLES
  owner,       \* cw_ownable: the minter, None until instantiation
  tokens,      \* TokenId -> [owner, approvals], None where there is no token
  tokenCount,  \* cw721-base's num_tokens
  operators,   \* operators map of cw721-base
  info,        \* collection_info
  now          \* block time (or height: both only grow)

contractVars == <<owner, tokens, tokenCount, operators, info>>
vars == <<contractVars, now>>

-----------------------------------------------------------------------------
(* Helpers *)

Minted == {t \in TokenId : tokens[t] # None}

Expired(expires) == expires # Never /\ expires <= now

\* Mutant of ShareValidate: every share passes.
ShareUnlimited(share) == share \in Share

ShareValidate(share) == share <= One

RoyaltyAccepted(royalty) ==
  royalty.address \in Account /\ ShareValidate(royalty.share)

DescriptionAccepted(length) == length <= MaxDescription

IsOperator(holder, account) ==
  \E o \in operators :
    o.owner = holder /\ o.operator = account /\ ~Expired(o.expires)

\* cw721-base check_can_approve: the owner or a live operator of the owner.
CanApprove(sender, t) ==
  /\ t \in Minted
  /\ \/ sender = tokens[t].owner
     \/ IsOperator(tokens[t].owner, sender)

\* cw721-base check_can_send: also a live approval on this token.
CanSend(sender, t) ==
  \/ CanApprove(sender, t)
  \/ /\ t \in Minted
     /\ \E a \in tokens[t].approvals : a.spender = sender /\ ~Expired(a.expires)

-----------------------------------------------------------------------------
(* Queries *)

\* sale_price * share: Uint128 * Decimal rounds down.
RoyaltyAmount(price) ==
  IF info.royalty = None THEN 0 ELSE (price * info.royalty.share) \div One

\* Mutant of CheckRoyalties: a royalty of nothing is reported as one.
CheckRoyaltiesSet == info.royalty # None

CheckRoyalties == info.royalty # None /\ info.royalty.share # 0

-----------------------------------------------------------------------------
(* Handlers *)

Init ==
  /\ owner = None
  /\ tokens = [t \in TokenId |-> None]
  /\ tokenCount = 0
  /\ operators = {}
  /\ info = None
  /\ now = 0

\* nonpayable, and only a contract may instantiate: it becomes the owner.
InstantiateAccepted(sender, hasFunds, newInfo) ==
  /\ owner = None
  /\ ~hasFunds
  /\ sender \in Contract
  /\ DescriptionAccepted(newInfo.description)
  /\ newInfo.royalty # None => RoyaltyAccepted(newInfo.royalty)

Instantiate(sender, hasFunds, newInfo) ==
  /\ InstantiateAccepted(sender, hasFunds, newInfo)
  /\ owner' = sender
  /\ info' = newInfo
  /\ UNCHANGED <<tokens, tokenCount, operators>>

\* Mutant of MintAccepted: the recipient is not validated.
MintAnywhere(sender, t, recipient, minterPaused) ==
  /\ owner # None /\ sender = owner
  /\ ~minterPaused
  /\ t \notin Minted

\* minterPaused is the answer of the Config query to the owner.
MintAccepted(sender, t, recipient, minterPaused) ==
  /\ owner # None /\ sender = owner
  /\ ~minterPaused
  /\ recipient \in Account
  /\ t \notin Minted

Mint(sender, t, recipient, minterPaused) ==
  /\ MintAccepted(sender, t, recipient, minterPaused)
  /\ tokens' = [tokens EXCEPT ![t] = [owner |-> recipient, approvals |-> {}]]
  /\ tokenCount' = tokenCount + 1
  /\ UNCHANGED <<owner, operators, info>>

\* cw721-base _transfer_nft, of TransferNft and of SendNft.
TransferAccepted(sender, recipient, t) ==
  /\ owner # None
  /\ CanSend(sender, t)
  /\ recipient \in Account

\* Mutant of Transfer: the sender needs no right to the token.
TransferByAnyone(sender, recipient, t) ==
  /\ owner # None /\ t \in Minted
  /\ recipient \in Account
  /\ tokens' = [tokens EXCEPT ![t] = [owner |-> recipient, approvals |-> {}]]
  /\ UNCHANGED <<owner, tokenCount, operators, info>>

\* Mutant of Transfer: the approvals move with the token.
TransferWithApprovals(sender, recipient, t) ==
  /\ TransferAccepted(sender, recipient, t)
  /\ tokens' = [tokens EXCEPT ![t].owner = recipient]
  /\ UNCHANGED <<owner, tokenCount, operators, info>>

Transfer(sender, recipient, t) ==
  /\ TransferAccepted(sender, recipient, t)
  /\ tokens' = [tokens EXCEPT ![t] = [owner |-> recipient, approvals |-> {}]]
  /\ UNCHANGED <<owner, tokenCount, operators, info>>

\* SendNft also emits ReceiveNft, which only a contract can answer.
Send(sender, contract, t) ==
  /\ contract \in Contract
  /\ Transfer(sender, contract, t)

OtherApprovals(t, spender) == {a \in tokens[t].approvals : a.spender # spender}

\* An approval replaces the spender's previous one.  "under" remembers, for the
\* invariants only, who owned the token when the approval was given.
ApproveAccepted(sender, spender, t, expires) ==
  /\ owner # None
  /\ CanApprove(sender, t)
  /\ spender \in Account
  /\ ~Expired(expires)

Approve(sender, spender, t, expires) ==
  /\ ApproveAccepted(sender, spender, t, expires)
  /\ tokens' = [tokens EXCEPT ![t].approvals = OtherApprovals(t, spender) \cup
       {[spender |-> spender, expires |-> expires, under |-> tokens[t].owner]}]
  /\ UNCHANGED <<owner, tokenCount, operators, info>>

RevokeAccepted(sender, spender, t) ==
  /\ owner # None
  /\ CanApprove(sender, t)
  /\ spender \in Account

Revoke(sender, spender, t) ==
  /\ RevokeAccepted(sender, spender, t)
  /\ tokens' = [tokens EXCEPT ![t].approvals = OtherApprovals(t, spender)]
  /\ UNCHANGED <<owner, tokenCount, operators, info>>

OtherOperators(holder, operator) ==
  {o \in operators : ~(o.owner = holder /\ o.operator = operator)}

ApproveAllAccepted(operator, expires) ==
  /\ owner # None
  /\ ~Expired(expires)
  /\ operator \in Account

ApproveAll(sender, operator, expires) ==
  /\ ApproveAllAccepted(operator, expires)
  /\ operators' = OtherOperators(sender, operator) \cup
       {[owner |-> sender, operator |-> operator, expires |-> expires]}
  /\ UNCHANGED <<owner, tokens, tokenCount, info>>

RevokeAllAccepted(operator) ==
  /\ owner # None
  /\ operator \in Account

RevokeAll(sender, operator) ==
  /\ RevokeAllAccepted(operator)
  /\ operators' = OtherOperators(sender, operator)
  /\ UNCHANGED <<owner, tokens, tokenCount, info>>

BurnAccepted(sender, t) ==
  /\ owner # None
  /\ CanSend(sender, t)

\* Mutant of Burn: the counter is left alone.
BurnUncounted(sender, t) ==
  /\ BurnAccepted(sender, t)
  /\ tokens' = [tokens EXCEPT ![t] = None]
  /\ UNCHANGED <<owner, tokenCount, operators, info>>

Burn(sender, t) ==
  /\ BurnAccepted(sender, t)
  /\ tokens' = [tokens EXCEPT ![t] = None]
  /\ tokenCount' = tokenCount - 1
  /\ UNCHANGED <<owner, operators, info>>

\* serde writes Rust's None and Some(None) both as null.  Reading, it makes None of a
\* field that is left out or null, in an Option<Option<T>> as in an Option<T>: no
\* message decodes to Clear, Rust's Some(None).
Encode(value) == IF value \in {None, Clear} THEN Null ELSE value
Decode(field) == IF field \in {Absent, Null} THEN None ELSE field

\* Some(Some(v)) sets an optional item, Some(None) clears it, None keeps it.
Updated(current, field) ==
  CASE field = None  -> current
    [] field = Clear -> None
    [] OTHER         -> field

Decoded(msg) ==
  [description |-> Decode(msg.description), image |-> Decode(msg.image),
   externalLink |-> Decode(msg.externalLink),
   royalty |-> Decode(msg.royalty)]

\* senderIsAdmin is the answer of the IsAdmin query to the owner.
UpdateInfoAccepted(senderIsAdmin, msg) ==
  LET m == Decoded(msg)
  IN  /\ owner # None
      /\ senderIsAdmin
      /\ m.description # None => DescriptionAccepted(m.description)
      /\ m.royalty \notin {None, Clear} => RoyaltyAccepted(m.royalty)

UpdateCollectionInfo(senderIsAdmin, msg) ==
  /\ UpdateInfoAccepted(senderIsAdmin, msg)
  /\ LET m == Decoded(msg)
     IN  info' = [f \in {"description", "image", "externalLink", "royalty"} |->
                    Updated(info[f], m[f])]
  /\ UNCHANGED <<owner, tokens, tokenCount, operators>>

-----------------------------------------------------------------------------
(* The contract in an arbitrary environment *)

UpdateMsg == [description : Description \cup {Absent, Null},
              image : Image \cup {Absent, Null},
              externalLink : Link \cup {Absent, Null},
              royalty : Royalty \cup {Absent, Null}]

Tick ==
  /\ now < MaxTime
  /\ now' = now + 1
  /\ UNCHANGED contractVars

Execute ==
  \/ \E s \in Account, f \in BOOLEAN, i \in InfoMsg : Instantiate(s, f, i)
  \/ \E s \in Account, t \in TokenId, r \in Address, p \in BOOLEAN :
        Mint(s, t, r, p)
  \/ \E s \in Account, r \in Address, t \in TokenId : Transfer(s, r, t)
  \/ \E s \in Account, c \in Address, t \in TokenId : Send(s, c, t)
  \/ \E s \in Account, p \in Address, t \in TokenId, e \in Expiration :
        Approve(s, p, t, e)
  \/ \E s \in Account, p \in Address, t \in TokenId : Revoke(s, p, t)
  \/ \E s \in Account, o \in Address, e \in Expiration : ApproveAll(s, o, e)
  \/ \E s \in Account, o \in Address : RevokeAll(s, o)
  \/ \E s \in Account, t \in TokenId : Burn(s, t)
  \/ \E a \in BOOLEAN, m \in UpdateMsg : UpdateCollectionInfo(a, m)

Next ==
  \/ Execute /\ UNCHANGED now
  \/ Tick

Spec == Init /\ [][Next]_vars

-----------------------------------------------------------------------------
(* Properties *)

Approval == [spender : Account, expires : Expiration, under : Account]

\* Every stored value has its storage type.  The parts that are more than a type:
\* a stored share is never above 100 percent, a description never above its limit,
\* a royalty address and a holder always a valid address.
TypeOK ==
  /\ owner \in Contract \cup {None}
  /\ tokens \in [TokenId -> [owner : Account, approvals : SUBSET Approval] \cup {None}]
  /\ tokenCount \in Nat
  /\ operators \subseteq [owner : Account, operator : Account, expires : Expiration]
  /\ info = None <=> owner = None
  /\ info # None =>
       /\ info.description \in Description /\ DescriptionAccepted(info.description)
       /\ info.image \in Image /\ info.externalLink \in Link \cup {None}
       /\ info.royalty \in Royalty \cup {None}
       /\ info.royalty # None => RoyaltyAccepted(info.royalty)
  /\ now \in Nat

\* num_tokens counts the tokens that exist, across mints and burns.
CountMatchesTokens == tokenCount = Cardinality(Minted)

\* No approval outlives the ownership it was given under: whoever may move a token
\* by approval was approved while its present owner held it.
ApprovalsOfCurrentOwner ==
  \A t \in Minted : \A a \in tokens[t].approvals : a.under = tokens[t].owner

\* The royalty of a sale never exceeds its price, and a collection that reports no
\* royalties never asks for one, at every price up to MaxPrice.
RoyaltyWithinPrice(MaxPrice) ==
  info # None =>
    \A price \in 0 .. MaxPrice :
      /\ RoyaltyAmount(price) <= price
      /\ ~CheckRoyalties => RoyaltyAmount(price) = 0

\* The right to mint never changes hands: the owner set at instantiation stays
\* (UpdateOwnership is not offered), and only then do tokens appear.
OwnerIsPermanent ==
  [][/\ owner # None => owner' = owner
     /\ Minted' \ Minted # {} => owner # None]_vars
=============================================================================
