---------------------------- MODULE MCDegaSystem ----------------------------
(* Small instances of DegaSystem for TLC. *)
EXTENDS DegaSystem

CONSTANTS alice, bob, vault, minter, coll, badAddr, k1, k2, u1, u2

\* alice deploys, administrates and sells; bob buys; vault is a contract that
\* receives tokens.
MCAccount == {alice, bob, vault, minter, coll}
MCOpening == [a \in MCAccount |-> CASE a = bob -> 2 [] a = alice -> 1 [] OTHER -> 0]

Order(uuid, price, end, to, seller) ==
  [to |-> to, primary_sale_recipient |-> seller, price |-> price,
   currency |-> "inj", validity_start |-> 0, validity_end |-> end,
   uuid |-> uuid, collection |-> coll]

\* Two orders with one UUID, the second paid to alice for a token of the vault, and
\* one order that expires after the first block.
A  == Order(u1, 1, 1, bob, alice)
A2 == Order(u1, 1, 1, vault, alice)
B  == Order(u2, 1, 0, bob, bob)
MCRequest == {A, A2, B}
MCSignature == {[key |-> k1, request |-> r] : r \in MCRequest}

Coins(n) == <<[denom |-> "inj", amount |-> n]>>
MCPayment == {<<>>, Coins(1), Coins(2)}

Info(length, royalty) ==
  [description |-> length, image |-> "img", externalLink |-> None, royalty |-> royalty]

Deploy(funds, newInfo) ==
  [op |-> "instantiate", sender |-> alice, funds |-> funds, signer |-> k1,
   paused |-> FALSE, initialAdmin |-> alice, cw721Admin |-> alice,
   info |-> newInfo]

Sell(buyer, order) ==
  [op |-> "mint", sender |-> buyer, funds |-> Coins(1), request |-> order,
   signature |-> [key |-> k1, request |-> order]]

Settings(sender, signer, paused) ==
  [op |-> "updateSettings", sender |-> sender, funds |-> <<>>, signer |-> signer,
   paused |-> paused]
AdminMsg(op, sender, address, funds) ==
  [op |-> op, sender |-> sender, funds |-> funds, address |-> address]

Describe(sender) ==
  [op |-> "updateInfo", sender |-> sender, funds |-> <<>>,
   update |-> [description |-> 0, image |-> Absent, externalLink |-> Null,
               royalty |-> Absent]]

\* A royalty for alice, and an update of the royalty.
Royalty(share) == [address |-> alice, share |-> share]
Charge(sender, royalty) == [Describe(sender) EXCEPT !.update.royalty = royalty]

Token(op, sender, t) == [op |-> op, sender |-> sender, funds |-> <<>>, tokenId |-> t]
Transfer(sender, t, to) == Token("transfer", sender, t) @@ [recipient |-> to]
SendTo(sender, t, contract) == Token("send", sender, t) @@ [contract |-> contract]
ApproveFor(sender, t, spender) ==
  Token("approve", sender, t) @@ [spender |-> spender, expires |-> 1]
Pay(sender, recipient) ==
  [op |-> "bankSend", sender |-> sender, funds |-> <<>>, recipient |-> recipient,
   amount |-> 1]
CwMintBy(sender) == Token("cwMint", sender, 1) @@ [recipient |-> sender]
OperatorMsg(op, sender, operator) ==
  [op |-> op, sender |-> sender, funds |-> <<>>, operator |-> operator,
   expires |-> 1]

Deployments ==
  {<<Deploy(<<>>, Info(1, None))>>, <<Deploy(Coins(1), Info(1, None))>>,
   <<Deploy(<<>>, Info(2, None))>>}

\* What a receiver may do with the token it just got, or with the money it has not.
MCReaction ==
  {Transfer(vault, 1, bob), Token("burn", vault, 1), Transfer(vault, 1, badAddr)}

\* Sales on their own, twice in one transaction, and next to other messages.
SaleTransactions == Deployments \cup
  {<<Sell(bob, A)>>, <<Sell(bob, A2)>>, <<Sell(alice, B)>>,
   <<Sell(bob, A), Sell(bob, A2)>>, <<Sell(bob, A), Sell(bob, B)>>,
   <<Sell(bob, A), Settings(alice, None, TRUE)>>,
   <<Settings(alice, None, FALSE), Pay(bob, minter), Sell(bob, B)>>,
   <<AdminMsg("addAdmin", alice, badAddr, Coins(1))>>,
   <<Sell(bob, A), SendTo(bob, 1, vault)>>,
   <<SendTo(bob, 1, vault)>>, <<SendTo(bob, 1, minter)>>,
   <<Token("burn", bob, 1)>>, <<Transfer(bob, 1, alice)>>,
   <<ApproveFor(bob, 1, alice)>>, <<ApproveFor(bob, 1, alice), SendTo(alice, 1, vault)>>,
   <<CwMintBy(alice)>>}

\* Royalties below, at and above the whole price, at the start and later.
RoyaltyChanges ==
  {<<Deploy(<<>>, Info(1, Royalty(One)))>>, <<Deploy(<<>>, Info(1, Royalty(One + 1)))>>,
   <<Charge(alice, Royalty(0))>>, <<Charge(alice, Royalty(One \div 2))>>,
   <<Charge(alice, Royalty(One + 1))>>, <<Charge(alice, Null)>>}

\* Administration, and holders giving rights away.
AdminTransactions == Deployments \cup RoyaltyChanges \cup
  {<<Settings(alice, k2, None)>>, <<Settings(bob, k1, TRUE)>>,
   <<AdminMsg("addAdmin", alice, bob, Coins(1)), Describe(bob)>>,
   <<AdminMsg("addAdmin", bob, bob, <<>>), Describe(bob)>>,
   <<AdminMsg("removeAdmin", bob, alice, <<>>)>>,
   <<AdminMsg("removeAdmin", alice, bob, <<>>)>>,
   <<Describe(alice)>>, <<Describe(bob)>>, <<Sell(bob, A)>>,
   <<ApproveFor(bob, 1, alice)>>, <<Transfer(alice, 1, vault)>>,
   <<Token("burn", alice, 1)>>,
   <<Token("revoke", bob, 1) @@ [spender |-> alice]>>,
   <<OperatorMsg("approveAll", bob, alice)>>, <<OperatorMsg("revokeAll", bob, alice)>>}

SystemTransactions == SaleTransactions \cup AdminTransactions

\* A deployment with a royalty of 100 percent, and an admin who removes it.
RoyaltyTransactions ==
  {<<Deploy(<<>>, Info(1, Royalty(One)))>>,
   <<Describe(alice)>>,
   <<Charge(alice, C!Encode(Clear))>>}
=============================================================================
