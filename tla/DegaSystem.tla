----------------------------- MODULE DegaSystem -----------------------------
(***************************************************************************)
(* The deployed system: one dega-minter, the dega-cw721 collection it      *)
(* instantiated, the bank, and the chain that executes transactions.       *)
(*                                                                         *)
(* A transaction is a sequence of messages.  Its messages are executed in  *)
(* order; the messages a contract emits are executed right after it,       *)
(* depth first, before the next message of the transaction.  Each step     *)
(* here is one message.  The state between two messages is real: queries   *)
(* and the callbacks of receiving contracts see it.  A transaction ends    *)
(* with Commit, when nothing is left to execute, or with Abort, when some  *)
(* message is refused or the gas runs out, which restores the whole state  *)
(* the transaction began with.  Blocks order transactions, so only one is  *)
(* executed at a time and the block time stands still meanwhile.           *)
(*                                                                         *)
(* The handlers are those of Minter and Collection; what is added here is  *)
(* what one contract tells the other: the messages and the queries.        *)
(***************************************************************************)
EXTENDS Integers, Sequences, FiniteSets, SequencesExt

CONSTANTS
  Account, Malformed, PubKey, BadPubKey, Request, Signature, Payment,
  MaxIndex, MaxTime, None,
  Contract, Description, MaxDescription, Link, Image, Share, One,
  Absent, Null, Clear, Never,
  MinterAddress,       \* the address of the minter
  CollectionAddress,   \* the address the chain gives to the collection
  Opening,             \* Account -> Nat: opening balances, in the one denomination
  Transaction,         \* the transactions accounts may submit
  Reaction,            \* the messages a receiving contract may emit in its callback
  MaxSteps             \* messages one transaction can pay for: its gas

VARIABLES
  settings, admins, uuids, tokenIndex, collectionAddress, awaitingReply, issued,
  owner, tokens, tokenCount, operators, info,
  bank,     \* Account -> Nat
  now,
  tx,       \* the transaction in execution, or that there is none
  burned,   \* for the properties only: the tokens burnt so far
  stray     \* for the properties only: Account -> Int, what each account gave away
            \* outside sales: sent to others, or attached to calls that ask for no
            \* payment; negative for who received it

M == INSTANCE Minter
C == INSTANCE Collection WITH TokenId <- 1 .. MaxIndex

minterVars == <<settings, admins, uuids, tokenIndex, collectionAddress,
                awaitingReply, issued>>
collectionVars == <<owner, tokens, tokenCount, operators, info>>
ghosts == <<burned, stray>>
vars == <<minterVars, collectionVars, bank, now, tx, ghosts>>

-----------------------------------------------------------------------------
(* Constants *)

\* The messages accounts send: the calls of the two contracts and of the bank.  A
\* collection has one instantiation, by the minter; reply is called by the chain and
\* receive by the collection.
IsMessage(m) ==
  /\ m.op \in {"instantiate", "mint", "updateSettings", "addAdmin", "removeAdmin",
              "bankSend", "cwMint", "updateInfo", "transfer", "send", "approve",
              "revoke", "approveAll", "revokeAll", "burn"}
  /\ m.funds \in Payment
  /\ m.op = "instantiate" =>
       /\ m.signer \in PubKey \cup BadPubKey /\ m.paused \in BOOLEAN
       /\ m.initialAdmin \in M!Address /\ m.info \in C!InfoMsg
  /\ m.op = "mint" => m.request \in Request /\ m.signature \in Signature
  /\ m.op = "updateSettings" =>
       /\ m.signer \in PubKey \cup BadPubKey \cup {None}
       /\ m.paused \in BOOLEAN \cup {None}
  /\ m.op \in {"addAdmin", "removeAdmin"} => m.address \in M!Address
  /\ m.op = "bankSend" => m.amount \in Nat \ {0}
  /\ m.op = "updateInfo" => m.update \in C!UpdateMsg
  /\ m.op \in {"approve", "approveAll"} => m.expires \in C!Expiration

Posted == UNION {ToSet(t) : t \in Transaction}

\* A contract has no key to sign a transaction with, and a receiving contract speaks
\* for itself only.
ASSUME TransactionAssumption ==
  /\ Transaction \subseteq Seq(Posted)
  /\ \A m \in Posted : IsMessage(m) /\ m.sender \in Account \ Contract
  /\ \A m \in Reaction :
       IsMessage(m) /\ m.sender \in Contract \ {MinterAddress, CollectionAddress}

ASSUME ComponentAssumption ==
  /\ M!AddressAssumption /\ M!RequestAssumption /\ M!SignatureAssumption
  /\ M!PaymentAssumption /\ M!BoundAssumption
  /\ C!ConstantAssumption
  /\ {MinterAddress, CollectionAddress} \subseteq Contract
  /\ MinterAddress # CollectionAddress
  /\ Opening \in [Account -> Nat]

-----------------------------------------------------------------------------
(* Transactions *)

Idle == tx.status = "idle"

Snapshot ==
  [settings |-> settings, admins |-> admins, uuids |-> uuids,
   tokenIndex |-> tokenIndex, collectionAddress |-> collectionAddress,
   awaitingReply |-> awaitingReply, issued |-> issued,
   owner |-> owner, tokens |-> tokens, tokenCount |-> tokenCount,
   operators |-> operators, info |-> info,
   bank |-> bank, burned |-> burned, stray |-> stray]

\* What the chain has committed: the state before the transaction in execution.
Committed == IF Idle THEN Snapshot ELSE tx.saved

Restore(s) ==
  /\ settings' = s.settings /\ admins' = s.admins /\ uuids' = s.uuids
  /\ tokenIndex' = s.tokenIndex /\ collectionAddress' = s.collectionAddress
  /\ awaitingReply' = s.awaitingReply /\ issued' = s.issued
  /\ owner' = s.owner /\ tokens' = s.tokens /\ tokenCount' = s.tokenCount
  /\ operators' = s.operators /\ info' = s.info
  /\ bank' = s.bank /\ burned' = s.burned /\ stray' = s.stray

Begin ==
  /\ Idle
  /\ \E t \in Transaction :
       tx' = [status |-> "executing", queue |-> t, saved |-> Snapshot, steps |-> 0,
              senders |-> {}]
  /\ UNCHANGED <<minterVars, collectionVars, bank, now, ghosts>>

Commit ==
  /\ ~Idle /\ tx.queue = <<>>
  /\ tx' = [status |-> "idle"]
  /\ UNCHANGED <<minterVars, collectionVars, bank, now, ghosts>>

Abort ==
  /\ ~Idle /\ tx.queue # <<>>
  /\ Restore(tx.saved)
  /\ tx' = [status |-> "idle"]
  /\ UNCHANGED now

Msg == Head(tx.queue)

Running(op) ==
  /\ ~Idle /\ tx.queue # <<>>
  /\ Msg.op = op
  /\ tx.steps < MaxSteps

Emit(messages) ==
  tx' = [status |-> "executing", queue |-> messages \o Tail(tx.queue),
         saved |-> tx.saved, steps |-> tx.steps + 1,
         senders |-> tx.senders \cup {Msg.sender}]

Amount(funds) == SumFunction([i \in DOMAIN funds |-> funds[i].amount])

\* What an account gains by a payment: nothing if it pays itself.
Gain(a, from, to, amount) ==
  (IF a = to THEN amount ELSE 0) - (IF a = from THEN amount ELSE 0)

Move(from, to, amount) ==
  /\ bank[from] >= amount
  /\ bank' = [a \in Account |-> bank[a] + Gain(a, from, to, amount)]

\* Coins that change hands outside a sale.
Give(from, to, amount) ==
  /\ Move(from, to, amount)
  /\ stray' = [a \in Account |-> stray[a] - Gain(a, from, to, amount)]

\* The funds of a message reach the contract before its handler runs.
PayIn == Move(Msg.sender, MinterAddress, Amount(Msg.funds))

-----------------------------------------------------------------------------
(* Messages to the minter *)

\* Mutant of Instantiate: the submessage asks for no reply.
InstantiateNoReply ==
  /\ Running("instantiate")
  /\ M!Instantiate(Msg.signer, Msg.paused, Msg.initialAdmin, Msg.cw721Admin)
  /\ PayIn
  /\ Emit(<<[op |-> "cwInstantiate", sender |-> MinterAddress,
             funds |-> Msg.funds, info |-> Msg.info]>>)
  /\ UNCHANGED <<collectionVars, now, ghosts>>

\* The collection is instantiated by a submessage that forwards the funds of this
\* call, and reply runs once that submessage has succeeded.
Instantiate ==
  /\ Running("instantiate")
  /\ M!Instantiate(Msg.signer, Msg.paused, Msg.initialAdmin, Msg.cw721Admin)
  /\ PayIn
  /\ Emit(<<[op |-> "cwInstantiate", sender |-> MinterAddress,
             funds |-> Msg.funds, info |-> Msg.info],
            [op |-> "reply", sender |-> MinterAddress, funds |-> <<>>]>>)
  /\ UNCHANGED <<collectionVars, now, ghosts>>

Reply ==
  /\ Running("reply")
  /\ M!Reply(CollectionAddress)
  /\ Emit(<<>>)
  /\ UNCHANGED <<collectionVars, bank, now, ghosts>>

MintMessage(t) ==
  [op |-> "cwMint", sender |-> MinterAddress, funds |-> <<>>,
   tokenId |-> t, recipient |-> Msg.request.to]

Proceeds ==
  [op |-> "bankSend", sender |-> MinterAddress, funds |-> <<>>,
   recipient |-> Msg.request.primary_sale_recipient, amount |-> Amount(Msg.funds)]

\* Mutant of Mint: the proceeds are not sent on.
MintKeepsProceeds ==
  /\ Running("mint")
  /\ M!Mint(Msg.sender, Msg.funds, Msg.request, Msg.signature)
  /\ PayIn
  /\ Emit(<<MintMessage(tokenIndex + 1)>>)
  /\ UNCHANGED <<collectionVars, now, ghosts>>

\* Mutant of Mint: the message names the index before the increment.
MintOldIndex ==
  /\ Running("mint")
  /\ M!Mint(Msg.sender, Msg.funds, Msg.request, Msg.signature)
  /\ PayIn
  /\ Emit(<<MintMessage(tokenIndex), Proceeds>>)
  /\ UNCHANGED <<collectionVars, now, ghosts>>

\* The first message a sale emits mints the token, the second one pays the seller.
Mint ==
  /\ Running("mint")
  /\ M!Mint(Msg.sender, Msg.funds, Msg.request, Msg.signature)
  /\ PayIn
  /\ Emit(<<MintMessage(tokenIndex + 1), Proceeds>>)
  /\ UNCHANGED <<collectionVars, now, ghosts>>

\* No administrative call looks at its funds: they stay with the minter.
KeepFunds == Give(Msg.sender, MinterAddress, Amount(Msg.funds))

Administrate ==
  /\ \/ Running("updateSettings")
        /\ M!UpdateSettings(Msg.sender, Msg.signer, Msg.paused)
     \/ Running("addAdmin") /\ M!AddAdmin(Msg.sender, Msg.address)
     \/ Running("removeAdmin") /\ M!RemoveAdmin(Msg.sender, Msg.address)
  /\ KeepFunds
  /\ Emit(<<>>)
  /\ UNCHANGED <<collectionVars, now, burned>>

\* Mutant of BankSend: a failed payment is caught and ignored.
BankSendMayFail ==
  /\ Running("bankSend")
  /\ Move(Msg.sender, Msg.recipient, Msg.amount) \/ UNCHANGED bank
  /\ Emit(<<>>)
  /\ UNCHANGED <<minterVars, collectionVars, now, ghosts>>

\* A contract's bank message and an account's MsgSend.
BankSend ==
  /\ Running("bankSend")
  /\ Msg.recipient \in Account
  /\ \/ /\ Msg.sender = MinterAddress
        /\ Move(Msg.sender, Msg.recipient, Msg.amount)
        /\ UNCHANGED stray
     \/ Msg.sender # MinterAddress /\ Give(Msg.sender, Msg.recipient, Msg.amount)
  /\ Emit(<<>>)
  /\ UNCHANGED <<minterVars, collectionVars, now, burned>>

-----------------------------------------------------------------------------
(* Messages to the collection, none of which accepts funds *)

Unpaid(op) == Running(op) /\ Msg.funds = <<>>

CwInstantiate ==
  /\ Running("cwInstantiate")
  /\ C!Instantiate(Msg.sender, Msg.funds # <<>>, Msg.info)
  /\ Emit(<<>>)
  /\ UNCHANGED <<minterVars, bank, now, ghosts>>

\* The collection asks its owner for the configuration before it mints.
CwMint ==
  /\ Unpaid("cwMint")
  /\ M!ConfigAvailable
  /\ C!Mint(Msg.sender, Msg.tokenId, Msg.recipient, M!MintingPaused)
  /\ Emit(<<>>)
  /\ UNCHANGED <<minterVars, bank, now, ghosts>>

\* Mutant of UpdateCollectionInfo: the sender is not looked up.
UpdateInfoByAnyone ==
  /\ Unpaid("updateInfo")
  /\ C!UpdateCollectionInfo(TRUE, Msg.update)
  /\ Emit(<<>>)
  /\ UNCHANGED <<minterVars, bank, now, ghosts>>

\* ... and whether the sender is one of its admins before it changes its info.
UpdateCollectionInfo ==
  /\ Unpaid("updateInfo")
  /\ C!UpdateCollectionInfo(M!IsAdmin(Msg.sender), Msg.update)
  /\ Emit(<<>>)
  /\ UNCHANGED <<minterVars, bank, now, ghosts>>

Holder ==
  /\ \/ Unpaid("transfer") /\ C!Transfer(Msg.sender, Msg.recipient, Msg.tokenId)
     \/ Unpaid("approve")
        /\ C!Approve(Msg.sender, Msg.spender, Msg.tokenId, Msg.expires)
     \/ Unpaid("revoke") /\ C!Revoke(Msg.sender, Msg.spender, Msg.tokenId)
     \/ Unpaid("approveAll") /\ C!ApproveAll(Msg.sender, Msg.operator, Msg.expires)
     \/ Unpaid("revokeAll") /\ C!RevokeAll(Msg.sender, Msg.operator)
  /\ Emit(<<>>)
  /\ UNCHANGED <<minterVars, bank, now, ghosts>>

Burn ==
  /\ Unpaid("burn")
  /\ C!Burn(Msg.sender, Msg.tokenId)
  /\ burned' = burned \cup {Msg.tokenId}
  /\ Emit(<<>>)
  /\ UNCHANGED <<minterVars, bank, now, stray>>

\* SendNft first moves the token, then calls the receiving contract.
Send ==
  /\ Unpaid("send")
  /\ C!Send(Msg.sender, Msg.contract, Msg.tokenId)
  /\ Emit(<<[op |-> "receive", sender |-> CollectionAddress, funds |-> <<>>,
             contract |-> Msg.contract, tokenId |-> Msg.tokenId]>>)
  /\ UNCHANGED <<minterVars, bank, now, ghosts>>

\* The receiver accepts and may emit a message of its own; that it may also fail is
\* Abort.  Neither of the two contracts has a ReceiveNft handler.
Receive ==
  /\ Running("receive")
  /\ Msg.contract \notin {MinterAddress, CollectionAddress}
  /\ \/ Emit(<<>>)
     \/ \E r \in {m \in Reaction : m.sender = Msg.contract} : Emit(<<r>>)
  /\ UNCHANGED <<minterVars, collectionVars, bank, now, ghosts>>

-----------------------------------------------------------------------------
(* The chain *)

Init ==
  /\ M!Init /\ C!Init
  /\ bank = Opening
  /\ tx = [status |-> "idle"]
  /\ burned = {}
  /\ stray = [a \in Account |-> 0]

Execute ==
  \/ Instantiate \/ Reply \/ Mint \/ Administrate \/ BankSend
  \/ CwInstantiate \/ CwMint \/ UpdateCollectionInfo \/ Holder \/ Burn \/ Send
  \/ Receive

Tick ==
  /\ Idle
  /\ now < MaxTime
  /\ now' = now + 1
  /\ UNCHANGED <<minterVars, collectionVars, bank, tx, ghosts>>

Next == Begin \/ Execute \/ Commit \/ Abort \/ Tick

Spec == Init /\ [][Next]_vars

-----------------------------------------------------------------------------
(* Properties *)

\* The messages the minter has emitted and the chain has not executed yet.
Pending(op) ==
  IF Idle THEN {}
  ELSE {m \in ToSet(tx.queue) : m.op = op /\ m.sender = MinterAddress}

\* At every message boundary each token number taken from TOKEN_INDEX is exactly one
\* of: existing in the collection, burnt, or named by a mint message still to be
\* executed.  No number is lost between the contracts, none appears in both places,
\* and a burnt number never returns.
TokensAccounted ==
  LET due == {m.tokenId : m \in Pending("cwMint")}
  IN  /\ C!Minted \cup burned \cup due = 1 .. tokenIndex
      /\ C!Minted \cap burned = {}
      /\ (C!Minted \cup burned) \cap due = {}

\* The minter is never richer or poorer than what it owes: beyond its own opening
\* balance, its income as a seller and the coins nobody asked for, it holds the
\* proceeds of the sales whose payment is still to be executed, and nothing else.
EscrowMatchesPending ==
  LET income == {i \in issued : i.request.primary_sale_recipient = MinterAddress}
      due == Pending("bankSend")
      own == {m \in due : m.recipient = MinterAddress}
      amounts(S) == SumFunction([m \in S |-> m.amount])
  IN  awaitingReply \/
      bank[MinterAddress] =
        Opening[MinterAddress] - stray[MinterAddress]
        + SumFunction([i \in income |-> i.paid])
        + amounts(due) - amounts(own)

\* When the callback of SendNft runs the transfer has already taken effect: the
\* receiving contract is the owner and no earlier approval is left to race it.
CallbackAfterTransfer ==
  ~Idle /\ tx.queue # <<>> /\ Msg.op = "receive" =>
    tokens[Msg.tokenId] = [owner |-> Msg.contract, approvals |-> {}]

\* Nothing half-deployed is ever committed: a minter with a configuration has its
\* collection, that collection belongs to it, and the reply is not outstanding.
DeployedTogether ==
  LET s == Committed
  IN  /\ ~s.awaitingReply
      /\ s.settings # None <=> s.collectionAddress = CollectionAddress
      /\ s.settings # None <=> s.owner = MinterAddress

\* The royalty the collection asks for, at every share it may have stored, is never
\* more than the price, and none is asked for that check_royalties denies.  (The
\* prices are those a run can enumerate.)
RoyaltyUpTo3 == C!RoyaltyWithinPrice(3)

\* A committed change of settings, admins or collection info contains a message of
\* somebody who was an admin when the transaction began: authority can be handed on
\* inside a transaction, but not obtained in one.
AdminsAuthoriseChanges ==
  [][LET s == Committed t == Committed'
     IN  s.settings # None /\
         <<s.settings, s.admins, s.info>> # <<t.settings, t.admins, t.info>> =>
           tx.senders \cap s.admins # {}]_vars

\* Who may move or burn a token in a state: its owner, the spenders approved for it
\* and the operators of its owner whose grants have not expired.
MaySend(s, t) ==
  {s.tokens[t].owner}
  \cup {a.spender : a \in {b \in s.tokens[t].approvals : ~C!Expired(b.expires)}}
  \cup {o.operator : o \in {g \in s.operators :
                                g.owner = s.tokens[t].owner /\ ~C!Expired(g.expires)}}

\* A committed token changes hands or is burnt only in a transaction with a message
\* of somebody who had a right to it when the transaction began: not of the minter or
\* its admins, not of a spender whose grant has expired, and not by a receiver's
\* callback on its own.
HoldersConsent ==
  [][LET s == Committed t == Committed'
     IN  \A n \in 1 .. MaxIndex :
           /\ s.tokens[n] # None
           /\ t.tokens[n] = None \/ t.tokens[n].owner # s.tokens[n].owner
           => tx.senders \cap MaySend(s, n) # {}]_vars

\* A message that Rust wrote with Some(None), whose JSON is null, removes the royalty.
RoyaltyRemovable ==
  [][~Idle /\ tx.queue # <<>> /\ UpdateCollectionInfo =>
       (Msg.update.royalty = C!Encode(Clear) => info'.royalty = None)]_vars

\* The committed states are a delivery-against-payment sale: all sales of a
\* transaction happen at once, with their tokens and their money, or none does.
AbstractSale ==
  INSTANCE Sale WITH
    Party <- Account,
    sold <- Committed.issued,
    delivered <- {t \in 1 .. MaxIndex : Committed.tokens[t] # None}
                 \cup Committed.burned,
    balance <- [a \in Account |-> Committed.bank[a] + Committed.stray[a]]

SaleAtomic == AbstractSale!Spec
=============================================================================
