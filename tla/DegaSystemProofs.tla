-------------------------- MODULE DegaSystemProofs --------------------------
(***************************************************************************)
(* Proofs about DegaSystem for every set of accounts, contracts, orders,   *)
(* payments, transactions and reactions, and every amount of gas.          *)
(*                                                                         *)
(* Between two messages of a transaction the two contracts disagree: the   *)
(* minter is configured before its collection exists, a token is numbered  *)
(* before it is minted.  What is true then depends on what the queue still *)
(* holds, so the invariant is a case distinction over the front of the     *)
(* queue (Flight): behind it only messages of accounts are left, and when  *)
(* nothing but those is left the state is settled and may be committed.    *)
(*                                                                         *)
(* The second half is about the money: what the minter holds between two   *)
(* messages of a sale, and that the committed states are those of Sale.    *)
(***************************************************************************)
EXTENDS DegaSystem, SequenceTheorems, FunctionTheorems, FiniteSetTheorems,
        WellFoundedInduction, TLAPS

External == Posted \cup Reaction

-----------------------------------------------------------------------------
(* States of the two contracts *)

Nft == [owner : Account, approvals : SUBSET C!Approval]

\* What the collection publishes: nothing before it exists, then no royalty above 100
\* percent.
InfoTyped(s) ==
  IF s.owner = None THEN s.info = None
  ELSE s.info.royalty # None => s.info.royalty.share \in 0 .. One

Typed(s) ==
  /\ s.settings \in [signer : PubKey, paused : BOOLEAN] \cup {None}
  /\ s.awaitingReply \in BOOLEAN
  /\ s.tokenIndex \in 0 .. MaxIndex
  /\ s.collectionAddress \in {None, CollectionAddress}
  /\ s.owner \in {None, MinterAddress}
  /\ s.tokens \in [1 .. MaxIndex -> Nft \cup {None}]
  /\ InfoTyped(s)

Present(s) == {t \in 1 .. MaxIndex : s.tokens[t] # None}

\* The tokens that exist and those burnt are the first n numbers, each on one side.
Counted(s, n) ==
  /\ Present(s) \cup s.burned = 1 .. n
  /\ Present(s) \cap s.burned = {}

Deployed(s) ==
  /\ ~s.awaitingReply
  /\ s.settings # None <=> s.collectionAddress = CollectionAddress
  /\ s.settings # None <=> s.owner = MinterAddress

\* A state that may be committed.
Settled(s) == Deployed(s) /\ Counted(s, s.tokenIndex)

-----------------------------------------------------------------------------
(* The queue *)

\* Behind the first n messages there are only messages of accounts.
Behind(n) ==
  /\ n <= Len(tx.queue)
  /\ \A i \in (n + 1) .. Len(tx.queue) : tx.queue[i] \in External

FromMinter(i, op) == tx.queue[i].op = op /\ tx.queue[i].sender = MinterAddress

\* The collection is being created ...
Creating ==
  /\ Behind(2) /\ FromMinter(1, "cwInstantiate") /\ FromMinter(2, "reply")
  /\ tx.queue[1].info \in C!InfoMsg
  /\ settings # None /\ awaitingReply /\ collectionAddress = None /\ owner = None
  /\ Counted(Snapshot, tokenIndex)

\* ... and exists, but its address has not been stored.
Answering ==
  /\ Behind(1) /\ FromMinter(1, "reply")
  /\ settings # None /\ awaitingReply /\ collectionAddress = None
  /\ owner = MinterAddress
  /\ Counted(Snapshot, tokenIndex)

\* A sale has taken its number, the token does not exist yet ...
Minting ==
  /\ Behind(2) /\ FromMinter(1, "cwMint") /\ FromMinter(2, "bankSend")
  /\ tx.queue[1].tokenId = tokenIndex /\ tokenIndex > 0
  /\ Deployed(Snapshot) /\ Counted(Snapshot, tokenIndex - 1)

\* ... and exists, but the seller has not been paid.
Paying ==
  /\ Behind(1) /\ FromMinter(1, "bankSend")
  /\ Settled(Snapshot)

\* A token was sent, its receiver has not been told.
Telling ==
  /\ Behind(1)
  /\ tx.queue[1].op = "receive" /\ tx.queue[1].sender = CollectionAddress
  /\ tokens[tx.queue[1].tokenId] = [owner |-> tx.queue[1].contract, approvals |-> {}]
  /\ Settled(Snapshot)

Open == Behind(0) /\ Settled(Snapshot)

Flight == Open \/ Creating \/ Answering \/ Minting \/ Paying \/ Telling

QueueTyped == tx.queue \in Seq(ToSet(tx.queue))

IInv ==
  /\ Typed(Snapshot)
  /\ IF Idle THEN Settled(Snapshot)
             ELSE QueueTyped /\ Flight /\ Typed(tx.saved) /\ Settled(tx.saved)

-----------------------------------------------------------------------------
(* Who stands behind a change *)

\* While nobody with authority has sent a message, the settings, the admins and the
\* info are what they were.
AuthorityInv ==
  ~Idle /\ tx.saved.settings # None /\ tx.senders \cap tx.saved.admins = {} =>
    /\ settings = tx.saved.settings /\ admins = tx.saved.admins
    /\ info = tx.saved.info /\ owner # None

\* While nobody with a right to a token has sent a message, it is where it was and
\* nobody has got a right to it.
ConsentInv ==
  ~Idle =>
    \A n \in 1 .. MaxIndex :
      tx.saved.tokens[n] # None /\ tx.senders \cap MaySend(tx.saved, n) = {} =>
        /\ tokens[n] # None /\ tokens[n].owner = tx.saved.tokens[n].owner
        /\ MaySend(Snapshot, n) \subseteq MaySend(tx.saved, n)

-----------------------------------------------------------------------------
(* Sequences *)

LEMMA OwnElements ==
  ASSUME NEW S, NEW q \in Seq(S)
  PROVE  q \in Seq(ToSet(q))
<1>1. Len(q) \in Nat /\ DOMAIN q = 1 .. Len(q)
  BY LenProperties
<1>2. \A i \in 1 .. Len(q) : q[i] \in ToSet(q)
  BY <1>1 DEF ToSet
<1>3. q = [i \in 1 .. Len(q) |-> q[i]]
  BY LenProperties
<1> QED
  BY <1>1, <1>2, <1>3, IsASeq

\* The front of a queue is replaced by what it emits.
LEMMA Replaced ==
  ASSUME NEW S, NEW q \in Seq(S), q # <<>>,
         NEW T, NEW e \in Seq(T),
         NEW r, r = e \o Tail(q)
  PROVE  /\ r \in Seq(ToSet(r))
         /\ Len(q) \in Nat /\ Len(e) \in Nat
         /\ Len(r) = Len(e) + Len(q) - 1
         /\ \A i \in 1 .. Len(e) : r[i] = e[i]
         /\ \A i \in (Len(e) + 1) .. Len(r) : r[i] = q[i - Len(e) + 1]
<1> DEFINE U == S \cup T
<1>1. e \in Seq(U)
  BY SeqMonotonic
<1>2. /\ Tail(q) \in Seq(S) /\ Len(Tail(q)) = Len(q) - 1
      /\ \A i \in 1 .. Len(Tail(q)) : Tail(q)[i] = q[i + 1]
  BY HeadTailProperties
<1>3. Tail(q) \in Seq(U)
  BY <1>2, SeqMonotonic
<1> HIDE DEF U
<1>4. /\ r \in Seq(U) /\ Len(r) = Len(e) + Len(Tail(q))
      /\ \A i \in 1 .. Len(e) + Len(Tail(q)) :
           r[i] = IF i <= Len(e) THEN e[i] ELSE Tail(q)[i - Len(e)]
  BY <1>1, <1>3, ConcatProperties
<1>5. Len(q) \in Nat /\ Len(e) \in Nat
  BY LenProperties
<1>6. r \in Seq(ToSet(r))
  BY <1>4, OwnElements
<1>7. \A i \in 1 .. Len(e) : r[i] = e[i]
  BY <1>2, <1>4, <1>5, EmptySeq
<1>8. ASSUME NEW i \in (Len(e) + 1) .. Len(r) PROVE r[i] = q[i - Len(e) + 1]
  <2>1. i \in 1 .. Len(e) + Len(Tail(q)) /\ ~(i <= Len(e))
    BY <1>2, <1>4, <1>5
  <2>2. i - Len(e) \in 1 .. Len(Tail(q))
    BY <1>2, <1>4, <1>5
  <2> QED
    BY <1>2, <1>4, <2>1, <2>2
<1> QED
  BY <1>2, <1>4, <1>5, <1>6, <1>7, <1>8

-----------------------------------------------------------------------------
(* The queue in a step *)

\* What Emit does: the first message is replaced by the messages it emits.
LEMMA Emits ==
  ASSUME QueueTyped, tx.queue # <<>>, NEW T, NEW e \in Seq(T), Emit(e)
  PROVE  /\ QueueTyped' /\ ~Idle'
         /\ tx'.saved = tx.saved
         /\ tx'.senders = tx.senders \cup {Msg.sender}
         /\ Len(tx.queue) \in Nat /\ Len(e) \in Nat
         /\ Len(tx'.queue) = Len(e) + Len(tx.queue) - 1
         /\ \A i \in 1 .. Len(e) : tx'.queue[i] = e[i]
         /\ \A i \in (Len(e) + 1) .. Len(tx'.queue) :
              tx'.queue[i] = tx.queue[i - Len(e) + 1]
<1>1. tx' = [status |-> "executing", queue |-> e \o Tail(tx.queue), saved |-> tx.saved,
             steps |-> tx.steps + 1, senders |-> tx.senders \cup {Msg.sender}]
  BY DEF Emit
<1> DEFINE r == e \o Tail(tx.queue)
<1>2. tx.queue \in Seq(ToSet(tx.queue))
  BY DEF QueueTyped
<1>3. r = e \o Tail(tx.queue)
  OBVIOUS
<1>4. tx'.queue = r
  BY <1>1
<1> HIDE DEF r
<1>5. /\ r \in Seq(ToSet(r))
      /\ Len(tx.queue) \in Nat /\ Len(e) \in Nat
      /\ Len(r) = Len(e) + Len(tx.queue) - 1
      /\ \A i \in 1 .. Len(e) : r[i] = e[i]
      /\ \A i \in (Len(e) + 1) .. Len(r) : r[i] = tx.queue[i - Len(e) + 1]
  <2> DEFINE q == tx.queue
             S == ToSet(tx.queue)
  <2>1. q \in Seq(S) /\ q # <<>> /\ r = e \o Tail(q)
    BY <1>2, <1>3
  <2> HIDE DEF q, S, r
  <2>2. r \in Seq(ToSet(r))
    BY <2>1, Replaced
  <2>3. /\ Len(q) \in Nat /\ Len(e) \in Nat
        /\ Len(r) = Len(e) + Len(q) - 1
        /\ \A i \in 1 .. Len(e) : r[i] = e[i]
        /\ \A i \in (Len(e) + 1) .. Len(r) : r[i] = q[i - Len(e) + 1]
    BY <2>1, Replaced
  <2> QED
    BY <2>2, <2>3 DEF q
<1>6. QueueTyped' /\ ~Idle'
  BY <1>1, <1>4, <1>5 DEF QueueTyped, Idle
<1> QED
  BY <1>1, <1>4, <1>5, <1>6

\* The messages behind the front stay behind it.
LEMMA StaysBehind ==
  ASSUME QueueTyped, tx.queue # <<>>, NEW T, NEW e \in Seq(T), Emit(e),
         NEW k \in Nat \ {0}, Behind(k), NEW j, j = Len(e) + k - 1
  PROVE  Behind(j)'
<1>1. /\ Len(tx.queue) \in Nat /\ Len(e) \in Nat
      /\ Len(tx'.queue) = Len(e) + Len(tx.queue) - 1
      /\ \A i \in (Len(e) + 1) .. Len(tx'.queue) :
           tx'.queue[i] = tx.queue[i - Len(e) + 1]
  BY Emits
<1>2. j <= Len(tx'.queue)
  BY <1>1 DEF Behind
<1>3. ASSUME NEW i \in (j + 1) .. Len(tx'.queue)
      PROVE  tx'.queue[i] \in External
  <2>1. i \in (Len(e) + 1) .. Len(tx'.queue)
    BY <1>1
  <2>2. i - Len(e) + 1 \in (k + 1) .. Len(tx.queue)
    BY <1>1
  <2> QED
    BY <1>1, <2>1, <2>2 DEF Behind
<1> QED
  BY <1>2, <1>3 DEF Behind

\* A message at the front of a queue that holds nothing else.
LEMMA Leading ==
  ASSUME QueueTyped, tx.queue # <<>>
  PROVE  /\ Len(tx.queue) \in Nat \ {0}
         /\ Msg = tx.queue[1]
         /\ Behind(0) => Behind(1) /\ Msg \in External
<1>1. tx.queue \in Seq(ToSet(tx.queue))
  BY DEF QueueTyped
<1>2. Len(tx.queue) \in Nat \ {0}
  BY <1>1, EmptySeq
<1>3. Msg = tx.queue[1]
  BY <1>1 DEF Msg
<1> QED
  BY <1>2, <1>3 DEF Behind

\* Accounts send well-formed messages, and neither of the two contracts is one.
LEMMA ExternalMessage ==
  ASSUME NEW m \in External
  PROVE  /\ IsMessage(m)
         /\ m.sender \in Account
         /\ m.sender # MinterAddress /\ m.sender # CollectionAddress
<1>1. MinterAddress \in Contract /\ CollectionAddress \in Contract
  BY ComponentAssumption
<1>2. Contract \subseteq Account
  BY ComponentAssumption DEF C!ConstantAssumption
<1> QED
  BY <1>1, <1>2, TransactionAssumption DEF External

\* The calls accounts make are executed only in a settled state.
LEMMA CallInSettledState ==
  ASSUME IInv, ~Idle, tx.queue # <<>>,
         Msg.op \notin {"cwInstantiate", "reply", "cwMint", "bankSend", "receive"}
  PROVE  /\ Open /\ Behind(1)
         /\ IsMessage(Msg) /\ Msg.sender \in Account
         /\ Msg.sender # MinterAddress
<1>1. QueueTyped /\ Flight
  BY DEF IInv
<1>2. Open
  BY <1>1, Leading DEF Flight, Creating, Answering, Minting, Paying, Telling, FromMinter
<1> QED
  BY <1>1, <1>2, Leading, ExternalMessage DEF Open

\* Emitting nothing leaves what was behind the front.
LEMMA EmitsNothing ==
  ASSUME QueueTyped, tx.queue # <<>>, Emit(<<>>), NEW k \in Nat \ {0}, Behind(k)
  PROVE  /\ QueueTyped' /\ ~Idle' /\ tx'.saved = tx.saved
         /\ tx'.senders = tx.senders \cup {Msg.sender}
         /\ \A i \in 1 .. Len(tx'.queue) : tx'.queue[i] = tx.queue[i + 1]
         /\ Behind(k - 1)'
<1>1. <<>> \in Seq({}) /\ Len(<<>>) = 0
  BY EmptySeq
<1>2. /\ QueueTyped' /\ ~Idle' /\ tx'.saved = tx.saved
      /\ tx'.senders = tx.senders \cup {Msg.sender}
      /\ Len(tx.queue) \in Nat /\ Len(tx'.queue) = Len(<<>>) + Len(tx.queue) - 1
      /\ \A i \in (Len(<<>>) + 1) .. Len(tx'.queue) :
           tx'.queue[i] = tx.queue[i - Len(<<>>) + 1]
  BY <1>1, Emits
<1>5. \A i \in 1 .. Len(tx'.queue) : tx'.queue[i] = tx.queue[i + 1]
  BY <1>1, <1>2
<1>3. k - 1 = Len(<<>>) + k - 1
  BY <1>1
<1>4. Behind(k - 1)'
  BY <1>1, <1>3, StaysBehind
<1> QED
  BY <1>2, <1>4, <1>5

\* One or two messages are put before what was behind the front.
LEMMA EmitsOne ==
  ASSUME QueueTyped, tx.queue # <<>>, NEW m, Emit(<<m>>), Behind(1)
  PROVE  /\ QueueTyped' /\ ~Idle' /\ tx'.saved = tx.saved
         /\ tx'.senders = tx.senders \cup {Msg.sender}
         /\ tx'.queue[1] = m
         /\ Behind(1)'
<1>1. <<m>> \in Seq({m}) /\ Len(<<m>>) = 1
  OBVIOUS
<1>2. /\ QueueTyped' /\ ~Idle' /\ tx'.saved = tx.saved
      /\ tx'.senders = tx.senders \cup {Msg.sender}
      /\ \A i \in 1 .. Len(<<m>>) : tx'.queue[i] = <<m>>[i]
  BY <1>1, Emits
<1>3. Behind(1)'
  <2>1. PICK k \in Nat \ {0} : k = 1
    OBVIOUS
  <2>2. PICK j : j = 1
    OBVIOUS
  <2>3. Behind(k) /\ j = Len(<<m>>) + k - 1
    BY <1>1, <2>1, <2>2
  <2>4. Behind(j)'
    BY <1>1, <2>3, StaysBehind
  <2> QED
    BY <2>2, <2>4
<1> QED
  BY <1>1, <1>2, <1>3

LEMMA EmitsTwo ==
  ASSUME QueueTyped, tx.queue # <<>>, NEW m, NEW n, Emit(<<m, n>>), Behind(1)
  PROVE  /\ QueueTyped' /\ ~Idle' /\ tx'.saved = tx.saved
         /\ tx'.senders = tx.senders \cup {Msg.sender}
         /\ tx'.queue[1] = m /\ tx'.queue[2] = n
         /\ Behind(2)'
<1>1. <<m, n>> \in Seq({m, n}) /\ Len(<<m, n>>) = 2
  OBVIOUS
<1>2. /\ QueueTyped' /\ ~Idle' /\ tx'.saved = tx.saved
      /\ tx'.senders = tx.senders \cup {Msg.sender}
      /\ \A i \in 1 .. Len(<<m, n>>) : tx'.queue[i] = <<m, n>>[i]
  BY <1>1, Emits
<1>3. Behind(2)'
  <2>1. PICK k \in Nat \ {0} : k = 1
    OBVIOUS
  <2>2. PICK j : j = 2
    OBVIOUS
  <2>3. Behind(k) /\ j = Len(<<m, n>>) + k - 1
    BY <1>1, <2>1, <2>2
  <2>4. Behind(j)'
    BY <1>1, <2>3, StaysBehind
  <2> QED
    BY <2>2, <2>4
<1> QED
  BY <1>1, <1>2, <1>3

-----------------------------------------------------------------------------
(* The invariant in a step *)

\* An executed message keeps the invariant if what it leaves is typed and its front is
\* one of the known ones: the state the transaction began with is not touched.
LEMMA Continues ==
  ASSUME IInv, ~Idle, QueueTyped', ~Idle', tx'.saved = tx.saved,
         Typed(Snapshot)', Flight'
  PROVE  IInv'
BY DEF IInv, Typed, Settled, Deployed, Counted, Present, InfoTyped

\* A message whose effect is complete.
LEMMA Completes ==
  ASSUME IInv, ~Idle, tx.queue # <<>>, Behind(1), Emit(<<>>),
         Typed(Snapshot)', Settled(Snapshot)'
  PROVE  IInv'
<1>1. QueueTyped
  BY DEF IInv
<1>2. QueueTyped' /\ ~Idle' /\ tx'.saved = tx.saved /\ Behind(1 - 1)'
  BY <1>1, EmitsNothing
<1>3. Flight'
  BY <1>2 DEF Flight, Open
<1> QED
  BY <1>2, <1>3, Continues

LEMMA NoneIsNoNft == None \notin Nft
BY ComponentAssumption DEF Nft, C!ConstantAssumption, C!Approval, C!Expiration

LEMMA ConstantFacts ==
  /\ MinterAddress # None /\ CollectionAddress # None
  /\ MinterAddress \in Account /\ CollectionAddress \in Account
  /\ None \notin [signer : PubKey, paused : BOOLEAN]
  /\ None \notin C!InfoMsg
  /\ MaxIndex \in Nat /\ One \in Nat \ {0} /\ Share \subseteq Nat
<1>1. /\ {MinterAddress, CollectionAddress} \subseteq Contract
      /\ Contract \subseteq Account /\ None \notin Account \cup C!InfoMsg
      /\ One \in Nat \ {0} /\ Share \subseteq Nat
  BY ComponentAssumption DEF C!ConstantAssumption
<1>2. None \notin [signer : PubKey, paused : BOOLEAN] /\ MaxIndex \in Nat
  BY ComponentAssumption DEF M!AddressAssumption, M!BoundAssumption
<1> QED
  BY <1>1, <1>2

-----------------------------------------------------------------------------
(* Tokens *)

LEMMA PutsNft ==
  ASSUME Typed(Snapshot), NEW t \in 1 .. MaxIndex, NEW a \in Account,
         tokens' = [tokens EXCEPT ![t] = [owner |-> a, approvals |-> {}]]
  PROVE  /\ tokens' \in [1 .. MaxIndex -> Nft \cup {None}]
         /\ tokens'[t] = [owner |-> a, approvals |-> {}] /\ tokens'[t] # None
         /\ \A n \in (1 .. MaxIndex) \ {t} : tokens'[n] = tokens[n]
<1>1. tokens \in [1 .. MaxIndex -> Nft \cup {None}]
  BY DEF Typed, Snapshot
<1>2. [owner |-> a, approvals |-> {}] \in Nft
  BY DEF Nft
<1> QED
  BY <1>1, <1>2, NoneIsNoNft

LEMMA ChangesApprovals ==
  ASSUME Typed(Snapshot), NEW t \in C!Minted, NEW new \in SUBSET C!Approval,
         tokens' = [tokens EXCEPT ![t].approvals = new]
  PROVE  /\ tokens' \in [1 .. MaxIndex -> Nft \cup {None}]
         /\ t \in 1 .. MaxIndex
         /\ tokens[t].owner \in Account
         /\ tokens'[t] = [owner |-> tokens[t].owner, approvals |-> new]
         /\ tokens'[t] # None
         /\ \A n \in (1 .. MaxIndex) \ {t} : tokens'[n] = tokens[n]
<1>1. tokens \in [1 .. MaxIndex -> Nft \cup {None}]
  BY DEF Typed, Snapshot
<1>2. t \in 1 .. MaxIndex /\ tokens[t] \in Nft
  BY <1>1 DEF C!Minted
<1>3. tokens[t].owner \in Account
  BY <1>2 DEF Nft
<1>4. [tokens[t] EXCEPT !.approvals = new] = [owner |-> tokens[t].owner, approvals |-> new]
  BY <1>2 DEF Nft
<1>5. [owner |-> tokens[t].owner, approvals |-> new] \in Nft
  BY <1>3 DEF Nft
<1>6. tokens' = [tokens EXCEPT ![t] = [owner |-> tokens[t].owner, approvals |-> new]]
  BY <1>4
<1> QED
  BY <1>1, <1>2, <1>3, <1>5, <1>6, NoneIsNoNft

-----------------------------------------------------------------------------
(* The invariant is kept by the messages to the minter *)

LEMMA InstantiateStep == IInv /\ Instantiate => IInv'
<1> SUFFICES ASSUME IInv, Instantiate PROVE IInv'
  OBVIOUS
<1> DEFINE m == [op |-> "cwInstantiate", sender |-> MinterAddress,
                 funds |-> Msg.funds, info |-> Msg.info]
           n == [op |-> "reply", sender |-> MinterAddress, funds |-> <<>>]
<1>1. ~Idle /\ tx.queue # <<>> /\ Msg.op = "instantiate" /\ Emit(<<m, n>>)
  BY DEF Instantiate, Running
<1>2. Open /\ Behind(1) /\ IsMessage(Msg)
  BY <1>1, CallInSettledState
<1>3. /\ settings = None /\ Msg.signer \in PubKey
      /\ settings' = [signer |-> Msg.signer, paused |-> Msg.paused]
      /\ awaitingReply' = TRUE
      /\ UNCHANGED <<tokenIndex, collectionAddress, owner, tokens, info, burned>>
  BY DEF Instantiate, M!Instantiate, M!InstantiateAccepted, M!VerifyCompressedPubKey,
         collectionVars, ghosts
<1>4. Msg.paused \in BOOLEAN /\ Msg.info \in C!InfoMsg
  BY <1>1, <1>2 DEF IsMessage
<1>5. settings' \in [signer : PubKey, paused : BOOLEAN] /\ settings' # None
  BY <1>3, <1>4, ConstantFacts
<1>6. Typed(Snapshot) /\ QueueTyped
  BY <1>1 DEF IInv
<1>7. Typed(Snapshot)'
  BY <1>3, <1>5, <1>6 DEF Typed, InfoTyped, Snapshot
<1>8. collectionAddress = None /\ owner = None
  BY <1>2, <1>3, <1>6 DEF Open, Settled, Deployed, Typed, Snapshot
<1>9. /\ QueueTyped' /\ ~Idle' /\ tx'.saved = tx.saved
      /\ tx'.queue[1] = m /\ tx'.queue[2] = n /\ Behind(2)'
  <2> HIDE DEF m, n
  <2> QED
    BY <1>1, <1>2, <1>6, EmitsTwo
<1>10. Counted(Snapshot, tokenIndex)'
  BY <1>2, <1>3 DEF Open, Settled, Counted, Present, Snapshot
<1>11. Creating'
  BY <1>3, <1>4, <1>5, <1>8, <1>9, <1>10 DEF Creating, FromMinter
<1> QED
  BY <1>1, <1>7, <1>9, <1>11, Continues DEF Flight

LEMMA ReplyStep == IInv /\ Reply => IInv'
<1> SUFFICES ASSUME IInv, Reply PROVE IInv'
  OBVIOUS
<1>1. ~Idle /\ tx.queue # <<>> /\ Msg.op = "reply" /\ Emit(<<>>)
  BY DEF Reply, Running
<1>2. Typed(Snapshot) /\ QueueTyped /\ Flight
  BY <1>1 DEF IInv
<1>3. Answering
  <2>1. Msg = tx.queue[1] /\ (Behind(0) => Msg \in External)
    BY <1>1, <1>2, Leading
  <2>2. ~Open
    BY <1>1, <2>1, ExternalMessage DEF Open, IsMessage
  <2> QED
    BY <1>1, <1>2, <2>1, <2>2 DEF Flight, Creating, Minting, Paying, Telling, FromMinter
<1>4. /\ collectionAddress' = CollectionAddress /\ awaitingReply' = FALSE
      /\ UNCHANGED <<settings, tokenIndex, owner, tokens, info, burned>>
  BY DEF Reply, M!Reply, collectionVars, ghosts
<1>5. Typed(Snapshot)'
  BY <1>2, <1>4 DEF Typed, InfoTyped, Snapshot
<1>6. Settled(Snapshot)'
  BY <1>3, <1>4 DEF Answering, Settled, Deployed, Counted, Present, Snapshot
<1> QED
  BY <1>1, <1>3, <1>5, <1>6, Completes DEF Answering

LEMMA MintStep == IInv /\ Mint => IInv'
<1> SUFFICES ASSUME IInv, Mint PROVE IInv'
  OBVIOUS
<1> DEFINE m == MintMessage(tokenIndex + 1)
           n == Proceeds
<1>1. ~Idle /\ tx.queue # <<>> /\ Msg.op = "mint" /\ Emit(<<m, n>>)
  BY DEF Mint, Running
<1>2. Open /\ Behind(1)
  BY <1>1, CallInSettledState
<1>3. /\ tokenIndex < MaxIndex /\ tokenIndex' = tokenIndex + 1
      /\ UNCHANGED <<settings, awaitingReply, collectionAddress, owner, tokens, info,
                     burned>>
  BY DEF Mint, M!Mint, M!MintAccepted, collectionVars, ghosts
<1>4. Typed(Snapshot) /\ QueueTyped
  BY <1>1 DEF IInv
<1>5. tokenIndex \in Nat /\ tokenIndex' \in 0 .. MaxIndex /\ tokenIndex' > 0
  BY <1>3, <1>4, ConstantFacts DEF Typed, Snapshot
<1>6. Typed(Snapshot)'
  BY <1>3, <1>4, <1>5 DEF Typed, InfoTyped, Snapshot
<1>7. /\ QueueTyped' /\ ~Idle' /\ tx'.saved = tx.saved
      /\ tx'.queue[1] = m /\ tx'.queue[2] = n /\ Behind(2)'
  <2> HIDE DEF m, n
  <2> QED
    BY <1>1, <1>2, <1>4, EmitsTwo
<1>8. Deployed(Snapshot)'
  BY <1>2, <1>3 DEF Open, Settled, Deployed, Snapshot
<1>9. Counted(Snapshot, tokenIndex - 1)'
  <2>1. tokenIndex' - 1 = tokenIndex
    BY <1>3, <1>5
  <2> QED
    BY <1>2, <1>3, <2>1 DEF Open, Settled, Counted, Present, Snapshot
<1>10. Minting'
  BY <1>3, <1>5, <1>7, <1>8, <1>9 DEF Minting, FromMinter, MintMessage, Proceeds
<1> QED
  BY <1>1, <1>6, <1>7, <1>10, Continues DEF Flight

LEMMA AdministrateStep == IInv /\ Administrate => IInv'
<1> SUFFICES ASSUME IInv, Administrate PROVE IInv'
  OBVIOUS
<1>1. /\ ~Idle /\ tx.queue # <<>> /\ Emit(<<>>)
      /\ Msg.op \in {"updateSettings", "addAdmin", "removeAdmin"}
  BY DEF Administrate, Running
<1>2. Open /\ Behind(1) /\ IsMessage(Msg)
  BY <1>1, CallInSettledState
<1>3. Typed(Snapshot)
  BY <1>1 DEF IInv
<1>4. UNCHANGED <<awaitingReply, tokenIndex, collectionAddress, owner, tokens, info, burned>>
  BY DEF Administrate, M!UpdateSettings, M!AddAdmin, M!RemoveAdmin, collectionVars
<1>5. settings # None /\ settings' \in [signer : PubKey, paused : BOOLEAN]
  <2>1. settings # None
    BY DEF Administrate, M!UpdateSettings, M!UpdateSettingsAccepted, M!AddAdmin,
           M!AddAdminAccepted, M!RemoveAdmin, M!RemoveAdminAccepted
  <2>2. settings \in [signer : PubKey, paused : BOOLEAN]
    BY <1>3, <2>1 DEF Typed, Snapshot
  <2>3. CASE Running("updateSettings") /\ M!UpdateSettings(Msg.sender, Msg.signer, Msg.paused)
    <3>1. Msg.paused \in BOOLEAN \cup {None}
      BY <1>2, <2>3 DEF IsMessage, Running
    <3>2. Msg.signer # None => Msg.signer \in PubKey
      BY <2>3 DEF M!UpdateSettings, M!UpdateSettingsAccepted, M!VerifyCompressedPubKey
    <3>3. settings' =
            [signer |-> IF Msg.signer = None THEN settings.signer ELSE Msg.signer,
             paused |-> IF Msg.paused = None THEN settings.paused ELSE Msg.paused]
      BY <2>3 DEF M!UpdateSettings
    <3> QED
      BY <2>1, <2>2, <3>1, <3>2, <3>3
  <2>4. CASE UNCHANGED settings
    BY <2>1, <2>2, <2>4
  <2> QED
    BY <2>3, <2>4 DEF Administrate, M!AddAdmin, M!RemoveAdmin
<1>6. settings' # None
  BY <1>5, ConstantFacts
<1>7. Typed(Snapshot)'
  BY <1>3, <1>4, <1>5 DEF Typed, InfoTyped, Snapshot
<1>8. Settled(Snapshot)'
  BY <1>2, <1>4, <1>5, <1>6 DEF Open, Settled, Deployed, Counted, Present, Snapshot
<1> QED
  BY <1>1, <1>2, <1>7, <1>8, Completes

LEMMA BankSendStep == IInv /\ BankSend => IInv'
<1> SUFFICES ASSUME IInv, BankSend PROVE IInv'
  OBVIOUS
<1>1. ~Idle /\ tx.queue # <<>> /\ Msg.op = "bankSend" /\ Emit(<<>>)
  BY DEF BankSend, Running
<1>2. Typed(Snapshot) /\ QueueTyped /\ Flight
  BY <1>1 DEF IInv
<1>3. Behind(1) /\ Settled(Snapshot)
  <2>1. Msg = tx.queue[1] /\ (Behind(0) => Behind(1))
    BY <1>1, <1>2, Leading
  <2> QED
    BY <1>1, <1>2, <2>1 DEF Flight, Open, Creating, Answering, Minting, Paying, Telling,
                            FromMinter
<1>4. UNCHANGED <<settings, awaitingReply, tokenIndex, collectionAddress, owner, tokens,
                  info, burned>>
  BY DEF BankSend, minterVars, collectionVars, ghosts
<1>5. Typed(Snapshot)'
  BY <1>2, <1>4 DEF Typed, InfoTyped, Snapshot
<1>6. Settled(Snapshot)'
  BY <1>3, <1>4 DEF Settled, Deployed, Counted, Present, Snapshot
<1> QED
  BY <1>1, <1>3, <1>5, <1>6, Completes

-----------------------------------------------------------------------------
(* ... and by those to the collection *)

LEMMA CwInstantiateStep == IInv /\ CwInstantiate => IInv'
<1> SUFFICES ASSUME IInv, CwInstantiate PROVE IInv'
  OBVIOUS
<1>1. ~Idle /\ tx.queue # <<>> /\ Msg.op = "cwInstantiate" /\ Emit(<<>>)
  BY DEF CwInstantiate, Running
<1>2. Typed(Snapshot) /\ QueueTyped /\ Flight
  BY <1>1 DEF IInv
<1>3. Msg = tx.queue[1] /\ (Behind(0) => Msg \in External)
  BY <1>1, <1>2, Leading
<1>4. Creating
  <2>1. ~Open
    BY <1>1, <1>3, ExternalMessage DEF Open, IsMessage
  <2> QED
    BY <1>1, <1>2, <1>3, <2>1 DEF Flight, Answering, Minting, Paying, Telling, FromMinter
<1>5. /\ owner' = MinterAddress /\ info' = Msg.info
      /\ UNCHANGED <<settings, awaitingReply, tokenIndex, collectionAddress, tokens, burned>>
  BY <1>3, <1>4 DEF Creating, FromMinter, CwInstantiate, C!Instantiate, minterVars, ghosts
<1>6. Msg.info.royalty # None => Msg.info.royalty.share \in 0 .. One
  <2>1. Msg.info.royalty # None => Msg.info.royalty.share <= One
    BY DEF CwInstantiate, C!Instantiate, C!InstantiateAccepted, C!RoyaltyAccepted,
           C!ShareValidate
  <2>2. Msg.info.royalty # None => Msg.info.royalty.share \in Share
    BY <1>3, <1>4 DEF Creating, C!InfoMsg, C!Royalty
  <2>3. \A x \in Share : x <= One => x \in 0 .. One
    BY ConstantFacts
  <2> QED
    BY <2>1, <2>2, <2>3
<1>7. Typed(Snapshot)'
  BY <1>2, <1>5, <1>6, ConstantFacts DEF Typed, InfoTyped, Snapshot
<1>8. QueueTyped' /\ ~Idle' /\ tx'.saved = tx.saved /\ Behind(2 - 1)'
  BY <1>1, <1>2, <1>4, EmitsNothing DEF Creating
<1>9. tx'.queue[1] = tx.queue[2]
  <2>1. \A i \in 1 .. Len(tx'.queue) : tx'.queue[i] = tx.queue[i + 1]
    BY <1>1, <1>2, <1>4, EmitsNothing DEF Creating
  <2>2. 1 <= Len(tx'.queue) /\ Len(tx'.queue) \in Nat
    BY <1>8, LenProperties DEF Behind, QueueTyped
  <2> QED
    BY <2>1, <2>2
<1>10. Answering'
  BY <1>4, <1>5, <1>8, <1>9
     DEF Creating, Answering, FromMinter, Counted, Present, Snapshot
<1> QED
  BY <1>1, <1>7, <1>8, <1>10, Continues DEF Flight

\* Only the minter's own message mints: an account's is refused.
LEMMA CwMintStep == IInv /\ CwMint => IInv'
<1> SUFFICES ASSUME IInv, CwMint PROVE IInv'
  OBVIOUS
<1>1. ~Idle /\ tx.queue # <<>> /\ Msg.op = "cwMint" /\ Emit(<<>>)
  BY DEF CwMint, Running, Unpaid
<1>2. Typed(Snapshot) /\ QueueTyped /\ Flight
  BY <1>1 DEF IInv
<1>3. Msg = tx.queue[1] /\ (Behind(0) => Msg \in External)
  BY <1>1, <1>2, Leading
<1>4. owner # None /\ Msg.sender = owner /\ Msg.recipient \in Account
      /\ Msg.tokenId \notin C!Minted
  BY DEF CwMint, C!Mint, C!MintAccepted
<1>5. Minting
  <2>1. Msg.sender = MinterAddress
    BY <1>2, <1>4 DEF Typed, Snapshot
  <2>2. ~Open
    BY <1>3, <2>1, ExternalMessage DEF Open
  <2> QED
    BY <1>1, <1>2, <1>3, <2>2 DEF Flight, Creating, Answering, Paying, Telling, FromMinter
<1>6. /\ tokens' = [tokens EXCEPT ![tokenIndex] = [owner |-> Msg.recipient, approvals |-> {}]]
      /\ UNCHANGED <<settings, awaitingReply, tokenIndex, collectionAddress, owner, info,
                     burned>>
  BY <1>3, <1>5 DEF Minting, CwMint, C!Mint, minterVars, ghosts
<1>7. tokenIndex \in 1 .. MaxIndex
  BY <1>2, <1>5, ConstantFacts DEF Minting, Typed, Snapshot
<1>8. /\ tokens' \in [1 .. MaxIndex -> Nft \cup {None}]
      /\ tokens'[tokenIndex] # None
      /\ \A n \in (1 .. MaxIndex) \ {tokenIndex} : tokens'[n] = tokens[n]
  BY <1>2, <1>4, <1>6, <1>7, PutsNft
<1>9. Typed(Snapshot)'
  BY <1>2, <1>6, <1>8 DEF Typed, InfoTyped, Snapshot
<1>10. Present(Snapshot)' = Present(Snapshot) \cup {tokenIndex}
  BY <1>7, <1>8 DEF Present, Snapshot
<1>11. Counted(Snapshot, tokenIndex)'
  <2>1. 1 .. tokenIndex = 1 .. (tokenIndex - 1) \cup {tokenIndex}
    BY <1>7, ConstantFacts
  <2>2. tokenIndex \notin 1 .. (tokenIndex - 1)
    BY <1>7, ConstantFacts
  <2>3. Present(Snapshot) \cup burned = 1 .. (tokenIndex - 1)
        /\ Present(Snapshot) \cap burned = {}
    BY <1>5 DEF Minting, Counted, Snapshot
  <2>4. Present(Snapshot)' \cup burned = 1 .. tokenIndex /\ Present(Snapshot)' \cap burned = {}
    BY <1>10, <2>1, <2>2, <2>3
  <2> QED
    BY <1>6, <2>4 DEF Counted, Snapshot
<1>12. Settled(Snapshot)'
  BY <1>5, <1>6, <1>11 DEF Minting, Settled, Deployed, Snapshot
<1>13. QueueTyped' /\ ~Idle' /\ tx'.saved = tx.saved /\ Behind(2 - 1)'
  BY <1>1, <1>2, <1>5, EmitsNothing DEF Minting
<1>14. tx'.queue[1] = tx.queue[2]
  <2>1. \A i \in 1 .. Len(tx'.queue) : tx'.queue[i] = tx.queue[i + 1]
    BY <1>1, <1>2, <1>5, EmitsNothing DEF Minting
  <2>2. 1 <= Len(tx'.queue) /\ Len(tx'.queue) \in Nat
    BY <1>13, LenProperties DEF Behind, QueueTyped
  <2> QED
    BY <2>1, <2>2
<1>15. Paying'
  BY <1>5, <1>12, <1>13, <1>14 DEF Minting, Paying, FromMinter
<1> QED
  BY <1>1, <1>9, <1>13, <1>15, Continues DEF Flight

LEMMA UpdateCollectionInfoStep == IInv /\ UpdateCollectionInfo => IInv'
<1> SUFFICES ASSUME IInv, UpdateCollectionInfo PROVE IInv'
  OBVIOUS
<1>1. ~Idle /\ tx.queue # <<>> /\ Msg.op = "updateInfo" /\ Emit(<<>>)
  BY DEF UpdateCollectionInfo, Running, Unpaid
<1>2. Open /\ Behind(1) /\ IsMessage(Msg)
  BY <1>1, CallInSettledState
<1>3. Typed(Snapshot)
  BY <1>1 DEF IInv
<1>4. UNCHANGED <<settings, awaitingReply, tokenIndex, collectionAddress, owner, tokens,
                  burned>>
  BY DEF UpdateCollectionInfo, C!UpdateCollectionInfo, minterVars, ghosts
<1>5. owner # None /\ info'.royalty = C!Updated(info.royalty, C!Decode(Msg.update.royalty))
  BY DEF UpdateCollectionInfo, C!UpdateCollectionInfo, C!UpdateInfoAccepted, C!Decoded
<1>6. info'.royalty # None => info'.royalty.share \in 0 .. One
  <2> DEFINE new == C!Decode(Msg.update.royalty)
  <2>1. CASE new = None
    BY <1>3, <1>5, <2>1 DEF C!Updated, Typed, InfoTyped, Snapshot
  <2>2. CASE new = Clear
    BY <1>5, <2>2 DEF C!Updated
  <2>3. CASE new \notin {None, Clear}
    <3>1. info'.royalty = new
      BY <1>5, <2>3 DEF C!Updated
    <3>2. new \in C!Royalty
      BY <1>1, <1>2, <2>3 DEF IsMessage, C!UpdateMsg, C!Decode
    <3>3. new.share <= One /\ new.share \in Share
      BY <2>3, <3>2 DEF UpdateCollectionInfo, C!UpdateCollectionInfo,
         C!UpdateInfoAccepted, C!Decoded, C!RoyaltyAccepted, C!ShareValidate, C!Royalty
    <3>4. \A x \in Share : x <= One => x \in 0 .. One
      BY ConstantFacts
    <3> QED
      BY <3>1, <3>3, <3>4
  <2> QED
    BY <2>1, <2>2, <2>3
<1>7. Typed(Snapshot)'
  BY <1>3, <1>4, <1>5, <1>6 DEF Typed, InfoTyped, Snapshot
<1>8. Settled(Snapshot)'
  BY <1>2, <1>4 DEF Open, Settled, Deployed, Counted, Present, Snapshot
<1> QED
  BY <1>1, <1>2, <1>7, <1>8, Completes

\* What holders may do leaves every token where it is, in somebody's hands.
LEMMA HolderTokens ==
  ASSUME Typed(Snapshot), Holder, IsMessage(Msg)
  PROVE  /\ tokens' \in [1 .. MaxIndex -> Nft \cup {None}]
         /\ Present(Snapshot)' = Present(Snapshot)
<1> USE DEF Present, Snapshot
<1>1. tokens \in [1 .. MaxIndex -> Nft \cup {None}]
  BY DEF Typed
<1>2. CASE Unpaid("transfer") /\ C!Transfer(Msg.sender, Msg.recipient, Msg.tokenId)
  <2> DEFINE t == Msg.tokenId
             a == Msg.recipient
  <2>1. /\ t \in 1 .. MaxIndex /\ tokens[t] # None /\ a \in Account
        /\ tokens' = [tokens EXCEPT ![t] = [owner |-> a, approvals |-> {}]]
    BY <1>2 DEF C!Transfer, C!TransferAccepted, C!CanSend, C!CanApprove, C!Minted
  <2> HIDE DEF t, a
  <2>2. /\ tokens' \in [1 .. MaxIndex -> Nft \cup {None}]
        /\ tokens'[t] # None
        /\ \A n \in (1 .. MaxIndex) \ {t} : tokens'[n] = tokens[n]
    BY <2>1, PutsNft
  <2> QED
    BY <2>1, <2>2
<1>3. CASE Unpaid("approve") /\ C!Approve(Msg.sender, Msg.spender, Msg.tokenId, Msg.expires)
  <2> DEFINE t == Msg.tokenId
             new == C!OtherApprovals(t, Msg.spender) \cup
               {[spender |-> Msg.spender, expires |-> Msg.expires,
                 under |-> tokens[t].owner]}
  <2>1. t \in C!Minted /\ Msg.spender \in Account
    BY <1>3 DEF C!Approve, C!ApproveAccepted, C!CanApprove
  <2>2. tokens[t] \in Nft
    BY <1>1, <2>1 DEF C!Minted
  <2>3. Msg.expires \in C!Expiration
    BY <1>3 DEF IsMessage, Unpaid, Running
  <2>4. new \in SUBSET C!Approval
    BY <2>1, <2>2, <2>3 DEF C!OtherApprovals, Nft, C!Approval
  <2>5. tokens' = [tokens EXCEPT ![t].approvals = new]
    BY <1>3 DEF C!Approve
  <2> HIDE DEF new, t
  <2>6. /\ tokens' \in [1 .. MaxIndex -> Nft \cup {None}]
        /\ t \in 1 .. MaxIndex /\ tokens'[t] # None
        /\ \A n \in (1 .. MaxIndex) \ {t} : tokens'[n] = tokens[n]
    BY <2>1, <2>4, <2>5, ChangesApprovals
  <2> QED
    BY <2>1, <2>6 DEF C!Minted
<1>4. CASE Unpaid("revoke") /\ C!Revoke(Msg.sender, Msg.spender, Msg.tokenId)
  <2> DEFINE t == Msg.tokenId
             new == C!OtherApprovals(t, Msg.spender)
  <2>1. t \in C!Minted
    BY <1>4 DEF C!Revoke, C!RevokeAccepted, C!CanApprove
  <2>2. tokens[t] \in Nft
    BY <1>1, <2>1 DEF C!Minted
  <2>4. new \in SUBSET C!Approval
    BY <2>1, <2>2 DEF C!OtherApprovals, Nft
  <2>5. tokens' = [tokens EXCEPT ![t].approvals = new]
    BY <1>4 DEF C!Revoke
  <2> HIDE DEF new, t
  <2>6. /\ tokens' \in [1 .. MaxIndex -> Nft \cup {None}]
        /\ t \in 1 .. MaxIndex /\ tokens'[t] # None
        /\ \A n \in (1 .. MaxIndex) \ {t} : tokens'[n] = tokens[n]
    BY <2>1, <2>4, <2>5, ChangesApprovals
  <2> QED
    BY <2>1, <2>6 DEF C!Minted
<1>5. CASE UNCHANGED tokens
  BY <1>1, <1>5
<1> QED
  BY <1>2, <1>3, <1>4, <1>5 DEF Holder, C!ApproveAll, C!RevokeAll

LEMMA HolderStep == IInv /\ Holder => IInv'
<1> SUFFICES ASSUME IInv, Holder PROVE IInv'
  OBVIOUS
<1>1. /\ ~Idle /\ tx.queue # <<>> /\ Emit(<<>>)
      /\ Msg.op \in {"transfer", "approve", "revoke", "approveAll", "revokeAll"}
  BY DEF Holder, Running, Unpaid
<1>2. Open /\ Behind(1) /\ IsMessage(Msg)
  BY <1>1, CallInSettledState
<1>3. Typed(Snapshot)
  BY <1>1 DEF IInv
<1>4. UNCHANGED <<settings, awaitingReply, tokenIndex, collectionAddress, owner, info,
                  burned>>
  BY DEF Holder, C!Transfer, C!Approve, C!Revoke, C!ApproveAll, C!RevokeAll,
         minterVars, ghosts
<1>5. tokens' \in [1 .. MaxIndex -> Nft \cup {None}] /\ Present(Snapshot)' = Present(Snapshot)
  BY <1>2, <1>3, HolderTokens
<1>6. Typed(Snapshot)'
  BY <1>3, <1>4, <1>5 DEF Typed, InfoTyped, Snapshot
<1>7. Counted(Snapshot, tokenIndex)'
  <2>1. Counted(Snapshot, tokenIndex)
    BY <1>2 DEF Open, Settled, Snapshot
  <2> QED
    BY <1>4, <1>5, <2>1 DEF Counted, Snapshot
<1>8. Settled(Snapshot)'
  BY <1>2, <1>4, <1>7 DEF Open, Settled, Deployed, Snapshot
<1> QED
  BY <1>1, <1>2, <1>6, <1>8, Completes


LEMMA BurnStep == IInv /\ Burn => IInv'
<1> SUFFICES ASSUME IInv, Burn PROVE IInv'
  OBVIOUS
<1>1. ~Idle /\ tx.queue # <<>> /\ Emit(<<>>) /\ Msg.op = "burn"
  BY DEF Burn, Running, Unpaid
<1>2. Open /\ Behind(1)
  BY <1>1, CallInSettledState
<1>3. Typed(Snapshot)
  BY <1>1 DEF IInv
<1> DEFINE t == Msg.tokenId
<1>4. /\ t \in 1 .. MaxIndex /\ tokens[t] # None
      /\ tokens' = [tokens EXCEPT ![t] = None] /\ burned' = burned \cup {t}
      /\ UNCHANGED <<settings, awaitingReply, tokenIndex, collectionAddress, owner, info>>
  BY DEF Burn, C!Burn, C!BurnAccepted, C!CanSend, C!CanApprove, C!Minted, minterVars
<1> HIDE DEF t
<1>5. tokens' \in [1 .. MaxIndex -> Nft \cup {None}]
  BY <1>3, <1>4 DEF Typed, Snapshot
<1>6. Typed(Snapshot)'
  BY <1>3, <1>4, <1>5 DEF Typed, InfoTyped, Snapshot
<1>7. Present(Snapshot)' = Present(Snapshot) \ {t} /\ t \in Present(Snapshot)
  BY <1>3, <1>4 DEF Present, Typed, Snapshot
<1>8. Counted(Snapshot, tokenIndex)'
  <2>1. Counted(Snapshot, tokenIndex)
    BY <1>2 DEF Open, Settled, Snapshot
  <2> QED
    BY <1>4, <1>7, <2>1 DEF Counted, Snapshot
<1>9. Settled(Snapshot)'
  BY <1>2, <1>4, <1>8 DEF Open, Settled, Deployed, Snapshot
<1> QED
  BY <1>1, <1>2, <1>6, <1>9, Completes

LEMMA SendStep == IInv /\ Send => IInv'
<1> SUFFICES ASSUME IInv, Send PROVE IInv'
  OBVIOUS
<1> DEFINE m == [op |-> "receive", sender |-> CollectionAddress, funds |-> <<>>,
                 contract |-> Msg.contract, tokenId |-> Msg.tokenId]
           t == Msg.tokenId
           a == Msg.contract
<1>1. ~Idle /\ tx.queue # <<>> /\ Emit(<<m>>) /\ Msg.op = "send"
  BY DEF Send, Running, Unpaid
<1>2. Open /\ Behind(1)
  BY <1>1, CallInSettledState
<1>3. Typed(Snapshot) /\ QueueTyped
  BY <1>1 DEF IInv
<1>4. /\ t \in 1 .. MaxIndex /\ tokens[t] # None /\ a \in Account
      /\ tokens' = [tokens EXCEPT ![t] = [owner |-> a, approvals |-> {}]]
      /\ UNCHANGED <<settings, awaitingReply, tokenIndex, collectionAddress, owner, info,
                     burned>>
  BY DEF Send, C!Send, C!Transfer, C!TransferAccepted, C!CanSend, C!CanApprove, C!Minted,
         minterVars, ghosts
<1>5. /\ m.op = "receive" /\ m.sender = CollectionAddress
      /\ m.contract = a /\ m.tokenId = t
  OBVIOUS
<1> HIDE DEF m, t, a
<1>6. /\ tokens' \in [1 .. MaxIndex -> Nft \cup {None}]
      /\ tokens'[t] = [owner |-> a, approvals |-> {}] /\ tokens'[t] # None
      /\ \A n \in (1 .. MaxIndex) \ {t} : tokens'[n] = tokens[n]
  BY <1>3, <1>4, PutsNft
<1>7. Typed(Snapshot)'
  BY <1>3, <1>4, <1>6 DEF Typed, InfoTyped, Snapshot
<1>8. Present(Snapshot)' = Present(Snapshot)
  BY <1>4, <1>6 DEF Present, Snapshot
<1>9. Counted(Snapshot, tokenIndex)'
  <2>1. Counted(Snapshot, tokenIndex)
    BY <1>2 DEF Open, Settled, Snapshot
  <2> QED
    BY <1>4, <1>8, <2>1 DEF Counted, Snapshot
<1>10. Settled(Snapshot)'
  BY <1>2, <1>4, <1>9 DEF Open, Settled, Deployed, Snapshot
<1>11. /\ QueueTyped' /\ ~Idle' /\ tx'.saved = tx.saved
       /\ tx'.queue[1] = m /\ Behind(1)'
  BY <1>1, <1>2, <1>3, EmitsOne
<1>12. Telling'
  BY <1>5, <1>6, <1>10, <1>11 DEF Telling
<1> QED
  BY <1>1, <1>7, <1>11, <1>12, Continues DEF Flight

\* Whatever a receiving contract emits, it speaks for itself.
LEMMA ReceiveStep == IInv /\ Receive => IInv'
<1> SUFFICES ASSUME IInv, Receive PROVE IInv'
  OBVIOUS
<1>1. /\ ~Idle /\ tx.queue # <<>> /\ Msg.op = "receive"
      /\ UNCHANGED <<settings, awaitingReply, tokenIndex, collectionAddress, owner, tokens,
                     info, burned>>
  BY DEF Receive, Running, minterVars, collectionVars, ghosts
<1>2. Typed(Snapshot) /\ QueueTyped /\ Flight
  BY <1>1 DEF IInv
<1>3. Msg = tx.queue[1] /\ (Behind(0) => Msg \in External)
  BY <1>1, <1>2, Leading
<1>4. Telling
  <2>1. ~Open
    BY <1>1, <1>3, ExternalMessage DEF Open, IsMessage
  <2> QED
    BY <1>1, <1>2, <1>3, <2>1 DEF Flight, Creating, Answering, Minting, Paying, FromMinter
<1>5. Typed(Snapshot)'
  BY <1>1, <1>2 DEF Typed, InfoTyped, Snapshot
<1>6. Settled(Snapshot)'
  BY <1>1, <1>4 DEF Telling, Settled, Deployed, Counted, Present, Snapshot
<1>7. CASE Emit(<<>>)
  BY <1>1, <1>4, <1>5, <1>6, <1>7, Completes DEF Telling
<1>8. ASSUME NEW r \in Reaction, Emit(<<r>>) PROVE IInv'
  <2>1. /\ QueueTyped' /\ ~Idle' /\ tx'.saved = tx.saved
        /\ tx'.queue[1] = r /\ Behind(1)'
    BY <1>1, <1>2, <1>4, <1>8, EmitsOne DEF Telling
  <2>2. Behind(0)'
    BY <2>1 DEF Behind, External
  <2>3. Open'
    BY <1>6, <2>2 DEF Open
  <2> QED
    BY <1>1, <1>5, <2>1, <2>3, Continues DEF Flight
<1> QED
  BY <1>7, <1>8 DEF Receive

-----------------------------------------------------------------------------
(* ... and by the chain *)

LEMMA BeginStep == IInv /\ Begin => IInv'
<1> SUFFICES ASSUME IInv, Begin PROVE IInv'
  OBVIOUS
<1>1. PICK t \in Transaction :
        tx' = [status |-> "executing", queue |-> t, saved |-> Snapshot, steps |-> 0,
               senders |-> {}]
  BY DEF Begin
<1>2. Typed(Snapshot) /\ Settled(Snapshot)
  BY DEF Begin, IInv
<1>3. Snapshot' = Snapshot
  BY DEF Begin, Snapshot, minterVars, collectionVars, ghosts
<1>4. t \in Seq(Posted)
  BY TransactionAssumption
<1>5. t \in Seq(ToSet(t)) /\ Len(t) \in Nat /\ \A i \in 1 .. Len(t) : t[i] \in Posted
  BY <1>4, OwnElements
<1>6. ~Idle' /\ QueueTyped' /\ Behind(0)'
  BY <1>1, <1>5 DEF Idle, QueueTyped, Behind, External
<1>7. tx'.saved = Snapshot
  BY <1>1
<1>8. Typed(Snapshot)' /\ Settled(Snapshot)'
  BY <1>2, <1>3 DEF Typed, InfoTyped, Settled, Deployed, Counted, Present
<1>9. Typed(tx.saved)' /\ Settled(tx.saved)'
  BY <1>2, <1>7 DEF Typed, InfoTyped, Settled, Deployed, Counted, Present
<1> QED
  BY <1>6, <1>8, <1>9 DEF IInv, Flight, Open

LEMMA CommitStep == IInv /\ Commit => IInv'
<1> SUFFICES ASSUME IInv, Commit PROVE IInv'
  OBVIOUS
<1>1. ~Idle /\ tx.queue = <<>> /\ Idle' /\ Snapshot' = Snapshot
  BY DEF Commit, Idle, Snapshot, minterVars, collectionVars, ghosts
<1>2. Typed(Snapshot) /\ Flight
  BY <1>1 DEF IInv
<1>3. Open
  BY <1>1, <1>2, EmptySeq DEF Flight, Creating, Answering, Minting, Paying, Telling, Behind
<1>4. Typed(Snapshot)' /\ Settled(Snapshot)'
  BY <1>1, <1>2, <1>3 DEF Open, Typed, InfoTyped, Settled, Deployed, Counted, Present
<1> QED
  BY <1>1, <1>4 DEF IInv

LEMMA AbortStep == IInv /\ Abort => IInv'
<1> SUFFICES ASSUME IInv, Abort PROVE IInv'
  OBVIOUS
<1>1. ~Idle /\ Idle' /\ Restore(tx.saved)
  BY DEF Abort, Idle
<1>2. Typed(tx.saved) /\ Settled(tx.saved)
  BY <1>1 DEF IInv
<1>3. Typed(Snapshot)' /\ Settled(Snapshot)'
  BY <1>1, <1>2
     DEF Restore, Snapshot, Typed, InfoTyped, Settled, Deployed, Counted, Present
<1> QED
  BY <1>1, <1>3 DEF IInv

\* Tick and the steps in which nothing happens.
LEMMA QuietStep ==
  ASSUME IInv, UNCHANGED <<minterVars, collectionVars, bank, tx, ghosts>>
  PROVE  IInv'
<1>1. Snapshot' = Snapshot /\ tx' = tx
  BY DEF Snapshot, minterVars, collectionVars, ghosts
<1>2. Typed(Snapshot)' /\ (Idle' <=> Idle)
  BY <1>1 DEF IInv, Typed, InfoTyped, Idle
<1>3. Settled(Snapshot) => Settled(Snapshot)'
  BY <1>1 DEF Settled, Deployed, Counted, Present
<1>4. Idle => IInv'
  BY <1>2, <1>3 DEF IInv
<1>5. CASE ~Idle
  <2>1. QueueTyped /\ Flight /\ Typed(tx.saved) /\ Settled(tx.saved)
    BY <1>5 DEF IInv
  <2>2. QueueTyped' /\ Typed(tx.saved)' /\ Settled(tx.saved)'
    BY <1>1, <2>1
       DEF QueueTyped, Typed, InfoTyped, Settled, Deployed, Counted, Present
  <2>3. Flight'
    BY <1>1, <2>1 DEF Flight, Open, Creating, Answering, Minting, Paying, Telling, Behind,
       FromMinter, Settled, Deployed, Counted, Present, Snapshot
  <2> QED
    BY <1>2, <1>5, <2>2, <2>3 DEF IInv
<1> QED
  BY <1>4, <1>5


LEMMA InitInv == Init => IInv
<1> SUFFICES ASSUME Init PROVE IInv
  OBVIOUS
<1>1. /\ settings = None /\ tokenIndex = 0 /\ collectionAddress = None
      /\ awaitingReply = FALSE /\ owner = None /\ info = None /\ burned = {} /\ Idle
      /\ tokens = [t \in 1 .. MaxIndex |-> None]
  BY DEF Init, M!Init, C!Init, Idle
<1>2. MinterAddress # None /\ CollectionAddress # None /\ MaxIndex \in Nat
  BY ConstantFacts
<1>3. 0 \in 0 .. MaxIndex /\ 1 .. 0 = {}
  BY <1>2
<1>4. tokens \in [1 .. MaxIndex -> Nft \cup {None}]
  BY <1>1
<1>5. Typed(Snapshot)
  BY <1>1, <1>3, <1>4 DEF Typed, InfoTyped, Snapshot
<1>6. Present(Snapshot) = {}
  BY <1>1 DEF Present, Snapshot
<1>7. Counted(Snapshot, tokenIndex)
  BY <1>1, <1>3, <1>6 DEF Counted, Snapshot
<1>8. Settled(Snapshot)
  BY <1>1, <1>2, <1>7 DEF Settled, Deployed, Snapshot
<1> QED
  BY <1>1, <1>5, <1>8 DEF IInv

LEMMA InvStep == IInv /\ [Next]_vars => IInv'
<1> SUFFICES ASSUME IInv, [Next]_vars PROVE IInv'
  OBVIOUS
<1>1. CASE Execute
  BY <1>1, InstantiateStep, ReplyStep, MintStep, AdministrateStep, BankSendStep,
     CwInstantiateStep, CwMintStep, UpdateCollectionInfoStep, HolderStep, BurnStep,
     SendStep, ReceiveStep DEF Execute
<1>2. CASE Tick \/ UNCHANGED vars
  BY <1>2, QuietStep DEF Tick, vars
<1> QED
  BY <1>1, <1>2, BeginStep, CommitStep, AbortStep DEF Next

\* Every reachable state is one the front of the queue explains: the types of what the
\* two contracts store, at every message boundary.
THEOREM Invariance == Spec => []IInv
BY InitInv, InvStep, PTL DEF Spec

-----------------------------------------------------------------------------
(* What the contracts agree on *)

\* Nothing half-deployed is ever committed, whatever accounts put into a transaction
\* and wherever it stops: instantiate of the minter, its submessage and reply.
THEOREM NothingHalfDeployed == Spec => []DeployedTogether
<1>1. IInv => DeployedTogether
  BY DEF IInv, DeployedTogether, Committed, Settled, Deployed
<1> QED
  BY <1>1, Invariance, PTL

\* In the callback of SendNft the receiving contract is already the owner and no
\* earlier approval is left: cw721-base moves the token before it calls.
THEOREM CallbackSeesTransfer == Spec => []CallbackAfterTransfer
<1>1. IInv => CallbackAfterTransfer
  <2> SUFFICES ASSUME IInv, ~Idle, tx.queue # <<>>, Msg.op = "receive"
               PROVE  tokens[Msg.tokenId] = [owner |-> Msg.contract, approvals |-> {}]
    BY DEF CallbackAfterTransfer
  <2>1. QueueTyped /\ Flight
    BY DEF IInv
  <2>2. Msg = tx.queue[1] /\ (Behind(0) => Msg \in External)
    BY <2>1, Leading
  <2>3. ~Open
    BY <2>2, ExternalMessage DEF Open, IsMessage
  <2> QED
    BY <2>1, <2>2, <2>3 DEF Flight, Creating, Answering, Minting, Paying, Telling, FromMinter
<1> QED
  BY <1>1, Invariance, PTL

\* The mint messages the minter has outstanding: one while a sale waits for its token.
LEMMA DueTokens ==
  ASSUME IInv
  PROVE  {m.tokenId : m \in Pending("cwMint")} =
           IF ~Idle /\ Minting THEN {tokenIndex} ELSE {}
<1>1. CASE Idle
  BY <1>1 DEF Pending
<1>2. CASE ~Idle
  <2> DEFINE P == {m \in ToSet(tx.queue) : m.op = "cwMint" /\ m.sender = MinterAddress}
  <2>1. QueueTyped /\ Flight
    BY <1>2 DEF IInv
  <2>2. P = Pending("cwMint")
    BY <1>2 DEF Pending
  <2>3. ASSUME NEW m \in P
        PROVE  \E i \in 1 .. Len(tx.queue) : m = tx.queue[i] /\ ~Behind(i - 1)
    <3>1. m.sender = MinterAddress
      OBVIOUS
    <3>2. PICK i \in 1 .. Len(tx.queue) : m = tx.queue[i]
      <4>1. m \in ToSet(tx.queue)
        OBVIOUS
      <4>2. DOMAIN tx.queue = 1 .. Len(tx.queue)
        BY <2>1, LenProperties DEF QueueTyped
      <4> QED
        BY <4>1, <4>2 DEF ToSet
    <3>3. m \notin External
      BY <3>1, ExternalMessage
    <3>4. Len(tx.queue) \in Nat
      BY <2>1, LenProperties DEF QueueTyped
    <3> QED
      BY <3>2, <3>3, <3>4 DEF Behind
  <2>4. \A m \in P : m.op = "cwMint" /\ m.sender = MinterAddress
    OBVIOUS
  <2>5. CASE Minting
    <3>1. tx.queue[1] \in P
      BY <2>1, <2>5, LenProperties DEF Minting, Behind, FromMinter, ToSet, QueueTyped
    <3>2. \A m \in P : m = tx.queue[1]
      BY <2>3, <2>4, <2>5 DEF Minting, FromMinter, Behind
    <3>3. tx.queue[1].tokenId = tokenIndex
      BY <2>5 DEF Minting
    <3> HIDE DEF P
    <3>4. {m.tokenId : m \in P} = {tokenIndex}
      BY <3>1, <3>2, <3>3
    <3> QED
      BY <1>2, <2>2, <2>5, <3>4
  <2>6. CASE ~Minting
    <3>1. P = {}
      BY <2>1, <2>3, <2>4, <2>6
         DEF Flight, Open, Creating, Answering, Paying, Telling, FromMinter, Behind
    <3> QED
      BY <1>2, <2>2, <2>6, <3>1
  <2> QED
    BY <2>5, <2>6
<1> QED
  BY <1>1, <1>2

\* Each number taken from TOKEN_INDEX is a token, burnt, or in the one mint message
\* still to be executed, at every message boundary.
THEOREM NoTokenLost == Spec => []TokensAccounted
<1>1. IInv => TokensAccounted
  <2> SUFFICES ASSUME IInv PROVE TokensAccounted
    OBVIOUS
  <2> DEFINE due == {m.tokenId : m \in Pending("cwMint")}
  <2>1. due = IF ~Idle /\ Minting THEN {tokenIndex} ELSE {}
    BY DueTokens
  <2>2. C!Minted = Present(Snapshot)
    BY DEF C!Minted, Present, Snapshot
  <2>3. tokenIndex \in Nat
    BY ConstantFacts DEF IInv, Typed, Snapshot
  <2> HIDE DEF due
  <2>4. CASE ~Idle /\ Minting
    <3>1. Present(Snapshot) \cup burned = 1 .. (tokenIndex - 1)
          /\ Present(Snapshot) \cap burned = {}
      BY <2>4 DEF Minting, Counted, Snapshot
    <3>2. tokenIndex > 0
      BY <2>4 DEF Minting
    <3>3. 1 .. tokenIndex = 1 .. (tokenIndex - 1) \cup {tokenIndex}
          /\ tokenIndex \notin 1 .. (tokenIndex - 1)
      BY <2>3, <3>2
    <3>4. /\ C!Minted \cup burned \cup due = 1 .. tokenIndex
          /\ C!Minted \cap burned = {}
          /\ (C!Minted \cup burned) \cap due = {}
      BY <2>1, <2>2, <2>4, <3>1, <3>3
    <3> QED
      BY <3>4 DEF TokensAccounted, due
  <2>5. CASE ~(~Idle /\ Minting)
    <3>1. Counted(Snapshot, tokenIndex)
      BY <2>5 DEF IInv, Flight, Open, Creating, Answering, Paying, Telling, Settled, Snapshot
    <3>2. /\ C!Minted \cup burned \cup due = 1 .. tokenIndex
          /\ C!Minted \cap burned = {}
          /\ (C!Minted \cup burned) \cap due = {}
      BY <2>1, <2>2, <2>5, <3>1 DEF Counted, Snapshot
    <3> QED
      BY <3>2 DEF TokensAccounted, due
  <2> QED
    BY <2>4, <2>5
<1> QED
  BY <1>1, Invariance, PTL


-----------------------------------------------------------------------------
(* Royalties *)

LEMMA ShareOfPrice ==
  ASSUME NEW price \in Nat, NEW one \in Nat \ {0}, NEW share \in 0 .. one
  PROVE  /\ (price * share) \div one <= price
         /\ (price * 0) \div one = 0
<1>1. price * share <= price * one
  OBVIOUS
<1>2. price * share \in Nat /\ price * one \in Nat
  OBVIOUS
<1>3. ASSUME NEW x \in Nat, x <= price * one PROVE x \div one <= price
  <2> DEFINE q == x \div one
  <2>1. q \in Int /\ one * q <= x
    OBVIOUS
  <2> HIDE DEF q
  <2>2. q >= price + 1 => one * q >= one * (price + 1)
    BY <2>1
  <2>3. one * (price + 1) = price * one + one
    OBVIOUS
  <2>4. ~(q >= price + 1)
    BY <1>2, <1>3, <2>1, <2>2, <2>3
  <2> QED
    BY <2>1, <2>4 DEF q
<1>4. (price * 0) \div one = 0
  OBVIOUS
<1> QED
  BY <1>1, <1>2, <1>3, <1>4

LEMMA RoyaltyBounded ==
  ASSUME IInv, NEW n \in Nat
  PROVE  C!RoyaltyWithinPrice(n)
<1> SUFFICES ASSUME info # None, NEW price \in 0 .. n
             PROVE  /\ C!RoyaltyAmount(price) <= price
                    /\ ~C!CheckRoyalties => C!RoyaltyAmount(price) = 0
  BY DEF C!RoyaltyWithinPrice
<1>1. price \in Nat
  OBVIOUS
<1>2. info.royalty # None => info.royalty.share \in 0 .. One
  BY DEF IInv, Typed, InfoTyped, Snapshot
<1>3. CASE info.royalty = None
  BY <1>1, <1>3 DEF C!RoyaltyAmount
<1>4. CASE info.royalty # None
  <2> DEFINE share == info.royalty.share
  <2>1. share \in 0 .. One /\ One \in Nat \ {0}
    BY <1>2, <1>4, ConstantFacts
  <2>2. /\ C!RoyaltyAmount(price) = (price * share) \div One
        /\ ~C!CheckRoyalties => share = 0
    BY <1>4 DEF C!RoyaltyAmount, C!CheckRoyalties
  <2> HIDE DEF share
  <2>3. (price * share) \div One <= price /\ (price * 0) \div One = 0
    BY <1>1, <2>1, ShareOfPrice
  <2> QED
    BY <2>2, <2>3
<1> QED
  BY <1>3, <1>4

\* At no price, and not only at the small ones a run enumerates, does the collection
\* ask for a royalty above the price, or for one that check_royalties denies.
THEOREM RoyaltyNeverAbovePrice ==
  Spec => [](RoyaltyUpTo3 /\ \A n \in Nat : C!RoyaltyWithinPrice(n))
<1>1. IInv => \A n \in Nat : C!RoyaltyWithinPrice(n)
  BY RoyaltyBounded
<1>2. IInv => RoyaltyUpTo3
  BY <1>1 DEF RoyaltyUpTo3
<1> QED
  BY <1>1, <1>2, Invariance, PTL

-----------------------------------------------------------------------------
(* Authority *)

\* The sender of every message executed goes on the record of the transaction.
LEMMA ExecuteEmits ==
  ASSUME Execute
  PROVE  /\ ~Idle /\ ~Idle' /\ now' = now
         /\ tx'.saved = tx.saved /\ tx'.senders = tx.senders \cup {Msg.sender}
<1>1. \E e : Emit(e)
  BY DEF Execute, Instantiate, Reply, Mint, Administrate, BankSend, CwInstantiate, CwMint,
         UpdateCollectionInfo, Holder, Burn, Send, Receive
<1>2. ~Idle /\ now' = now
  BY DEF Execute, Instantiate, Reply, Mint, Administrate, BankSend, CwInstantiate, CwMint,
         UpdateCollectionInfo, Holder, Burn, Send, Receive, Running, Unpaid
<1> QED
  BY <1>1, <1>2 DEF Emit, Idle

\* What the chain has committed changes when it commits, and not otherwise.
LEMMA OnlyCommitChanges ==
  ASSUME [Next]_vars, ~Commit
  PROVE  /\ Committed'.settings = Committed.settings
         /\ Committed'.admins = Committed.admins
         /\ Committed'.info = Committed.info
         /\ Committed'.tokens = Committed.tokens
         /\ Committed'.burned = Committed.burned
         /\ Committed'.issued = Committed.issued
         /\ Committed'.bank = Committed.bank
         /\ Committed'.stray = Committed.stray
<1>1. CASE Execute
  BY <1>1, ExecuteEmits DEF Committed
<1>2. CASE Begin
  <2>1. Idle /\ ~Idle' /\ tx'.saved = Snapshot
    BY <1>2 DEF Begin, Idle
  <2> QED
    BY <2>1 DEF Committed
<1>3. CASE Abort
  <2>1. ~Idle /\ Idle' /\ Restore(tx.saved)
    BY <1>3 DEF Abort, Idle
  <2> QED
    BY <2>1 DEF Committed, Restore, Snapshot
<1>4. CASE Tick \/ UNCHANGED vars
  <2>1. Snapshot' = Snapshot /\ tx' = tx
    BY <1>4 DEF Tick, vars, Snapshot, minterVars, collectionVars, ghosts
  <2> QED
    BY <2>1 DEF Committed, Idle
<1> QED
  BY <1>1, <1>2, <1>3, <1>4 DEF Next

LEMMA AuthorityInvStep == IInv /\ AuthorityInv /\ [Next]_vars => AuthorityInv'
<1> SUFFICES ASSUME IInv, AuthorityInv, [Next]_vars,
                    ~Idle', tx'.saved.settings # None,
                    tx'.senders \cap tx'.saved.admins = {}
             PROVE  /\ settings' = tx'.saved.settings /\ admins' = tx'.saved.admins
                    /\ info' = tx'.saved.info /\ owner' # None
  BY DEF AuthorityInv
<1>1. CASE Execute
  <2>1. ~Idle /\ tx'.saved = tx.saved /\ tx'.senders = tx.senders \cup {Msg.sender}
    BY <1>1, ExecuteEmits
  <2>2. /\ settings = tx.saved.settings /\ admins = tx.saved.admins
        /\ info = tx.saved.info /\ owner # None
    BY <2>1 DEF AuthorityInv
  <2>3. settings # None /\ ~M!IsAdmin(Msg.sender)
    BY <2>1, <2>2 DEF M!IsAdmin
  <2>4. ~Instantiate /\ ~Administrate
    BY <2>3 DEF Instantiate, M!Instantiate, M!InstantiateAccepted, Administrate,
       M!UpdateSettings, M!UpdateSettingsAccepted, M!AddAdmin, M!AddAdminAccepted,
       M!RemoveAdmin, M!RemoveAdminAccepted
  <2>5. ~CwInstantiate /\ ~UpdateCollectionInfo
    BY <2>2, <2>3 DEF CwInstantiate, C!Instantiate, C!InstantiateAccepted,
       UpdateCollectionInfo, C!UpdateCollectionInfo, C!UpdateInfoAccepted
  <2>6. UNCHANGED <<settings, admins, info, owner>>
    <3>1. Reply \/ Mint \/ BankSend \/ CwMint \/ Holder \/ Burn \/ Send \/ Receive
      BY <1>1, <2>4, <2>5 DEF Execute
    <3>2. Reply \/ Mint \/ BankSend \/ Receive => UNCHANGED <<settings, admins, info, owner>>
      BY DEF Reply, M!Reply, Mint, M!Mint, BankSend, Receive, minterVars, collectionVars
    <3>3. CwMint \/ Holder \/ Burn \/ Send => UNCHANGED <<settings, admins, info, owner>>
      BY DEF CwMint, C!Mint, Holder, C!Transfer, C!Approve, C!Revoke, C!ApproveAll,
             C!RevokeAll, Burn, C!Burn, Send, C!Send, minterVars
    <3> QED
      BY <3>1, <3>2, <3>3
  <2> QED
    BY <2>1, <2>2, <2>6
<1>2. CASE Begin
  <2>1. /\ tx'.saved = Snapshot /\ Settled(Snapshot)
        /\ UNCHANGED <<settings, admins, info, owner>>
    BY <1>2 DEF Begin, IInv, minterVars, collectionVars
  <2>2. settings # None => owner # None
    BY <2>1, ConstantFacts DEF Settled, Deployed, Snapshot
  <2> QED
    BY <2>1, <2>2 DEF Snapshot
<1>3. CASE Tick \/ UNCHANGED vars
  BY <1>3 DEF Tick, vars, minterVars, collectionVars, AuthorityInv, Idle
<1>4. ~Commit /\ ~Abort
  BY DEF Commit, Abort, Idle
<1> QED
  BY <1>1, <1>2, <1>3, <1>4 DEF Next

\* Settings, admins and collection info change in a committed state only with a
\* message of somebody who was an admin when the transaction began: the is_admin
\* checks of both contracts, whatever else the transaction holds.
THEOREM OnlyAdminsChange == Spec => AdminsAuthoriseChanges
<1>1. Init => AuthorityInv
  BY DEF Init, Idle, AuthorityInv
<1>2. Spec => []AuthorityInv
  BY <1>1, AuthorityInvStep, Invariance, PTL DEF Spec
<1> DEFINE Authorised ==
             LET s == Committed t == Committed'
             IN  s.settings # None /\
                 <<s.settings, s.admins, s.info>> # <<t.settings, t.admins, t.info>> =>
                   tx.senders \cap s.admins # {}
<1>3. AuthorityInv /\ [Next]_vars => [Authorised]_vars
  <2> SUFFICES ASSUME AuthorityInv, [Next]_vars PROVE Authorised
    OBVIOUS
  <2>1. CASE Commit
    <3>1. /\ ~Idle /\ Committed = tx.saved /\ Committed' = Snapshot'
          /\ UNCHANGED <<settings, admins, info>>
      BY <2>1 DEF Commit, Committed, Idle, minterVars, collectionVars
    <3>2. /\ Committed'.settings = settings /\ Committed'.admins = admins
          /\ Committed'.info = info
      BY <3>1 DEF Snapshot
    <3> QED
      BY <3>1, <3>2 DEF AuthorityInv
  <2>2. CASE ~Commit
    BY <2>2, OnlyCommitChanges
  <2> QED
    BY <2>1, <2>2
<1> QED
  BY <1>2, <1>3, PTL DEF Spec, AdminsAuthoriseChanges


-----------------------------------------------------------------------------
(* Consent *)

\* Whom the collection lets move a token is who may move it.
LEMMA SendersMay ==
  ASSUME NEW n \in 1 .. MaxIndex, NEW a, C!CanSend(a, n)
  PROVE  tokens[n] # None /\ a \in MaySend(Snapshot, n)
<1>1. tokens[n] # None
  BY DEF C!CanSend, C!CanApprove, C!Minted
<1>2. Snapshot.tokens = tokens /\ Snapshot.operators = operators
  BY DEF Snapshot
<1>3. CASE a = tokens[n].owner
  BY <1>1, <1>2, <1>3 DEF MaySend
<1>4. CASE C!IsOperator(tokens[n].owner, a)
  BY <1>1, <1>2, <1>4 DEF MaySend, C!IsOperator
<1>5. CASE \E p \in tokens[n].approvals : p.spender = a /\ ~C!Expired(p.expires)
  BY <1>1, <1>2, <1>5 DEF MaySend
<1> QED
  BY <1>3, <1>4, <1>5 DEF C!CanSend, C!CanApprove

\* Nobody gets a right to a token that is left alone while nobody is made an operator
\* of its owner.
LEMMA NoNewRight ==
  ASSUME NEW n \in 1 .. MaxIndex, tokens'[n] = tokens[n], now' = now,
         \A o \in operators' : o \in operators \/ o.owner # tokens[n].owner
  PROVE  MaySend(Snapshot, n)' \subseteq MaySend(Snapshot, n)
<1>1. /\ Snapshot.tokens = tokens /\ Snapshot.operators = operators
      /\ Snapshot'.tokens = tokens' /\ Snapshot'.operators = operators'
  BY DEF Snapshot
<1>2. \A e : C!Expired(e)' <=> C!Expired(e)
  BY DEF C!Expired
<1> QED
  BY <1>1, <1>2 DEF MaySend

\* A message of somebody without a right to a token leaves it where it is.
LEMMA TokenStays ==
  ASSUME IInv, Execute, NEW n \in 1 .. MaxIndex, tokens[n] # None,
         Msg.sender \notin MaySend(Snapshot, n)
  PROVE  /\ tokens'[n] = tokens[n]
         /\ MaySend(Snapshot, n)' \subseteq MaySend(Snapshot, n)
<1>1. ~Idle /\ now' = now
  BY ExecuteEmits
<1>2. tokens \in [1 .. MaxIndex -> Nft \cup {None}]
  BY DEF IInv, Typed, Snapshot
<1>3. ~C!CanSend(Msg.sender, n) /\ ~C!CanApprove(Msg.sender, n)
  BY SendersMay DEF C!CanSend
<1>4. Msg.sender # tokens[n].owner
  BY DEF MaySend, Snapshot
<1>5. CASE CwMint
  <2>1. /\ Msg.tokenId # n /\ UNCHANGED operators
        /\ tokens' = [tokens EXCEPT ![Msg.tokenId] =
                        [owner |-> Msg.recipient, approvals |-> {}]]
    BY <1>5 DEF CwMint, C!Mint, C!MintAccepted, C!Minted
  <2>2. tokens'[n] = tokens[n]
    BY <1>2, <2>1
  <2> QED
    BY <1>1, <2>1, <2>2, NoNewRight
<1>6. CASE \/ Holder /\ C!Transfer(Msg.sender, Msg.recipient, Msg.tokenId)
           \/ Send
  <2>1. /\ Msg.tokenId # n /\ UNCHANGED operators
        /\ \E v : tokens' = [tokens EXCEPT ![Msg.tokenId] = v]
    BY <1>3, <1>6 DEF Send, C!Send, C!Transfer, C!TransferAccepted
  <2>2. tokens'[n] = tokens[n]
    BY <1>2, <2>1
  <2> QED
    BY <1>1, <2>1, <2>2, NoNewRight
<1>7. CASE \/ Holder /\ C!Approve(Msg.sender, Msg.spender, Msg.tokenId, Msg.expires)
           \/ Holder /\ C!Revoke(Msg.sender, Msg.spender, Msg.tokenId)
  <2>1. /\ Msg.tokenId # n /\ UNCHANGED operators
        /\ \E v : tokens' = [tokens EXCEPT ![Msg.tokenId].approvals = v]
    BY <1>3, <1>7 DEF C!Approve, C!ApproveAccepted, C!Revoke, C!RevokeAccepted
  <2>2. tokens'[n] = tokens[n]
    BY <1>2, <2>1
  <2> QED
    BY <1>1, <2>1, <2>2, NoNewRight
<1>8. CASE \/ Holder /\ C!ApproveAll(Msg.sender, Msg.operator, Msg.expires)
           \/ Holder /\ C!RevokeAll(Msg.sender, Msg.operator)
  <2>1. UNCHANGED tokens
    BY <1>8 DEF C!ApproveAll, C!RevokeAll
  <2>2. \A o \in operators' : o \in operators \/ o.owner = Msg.sender
    BY <1>8 DEF C!ApproveAll, C!RevokeAll, C!OtherOperators
  <2> QED
    BY <1>1, <1>4, <2>1, <2>2, NoNewRight
<1>9. CASE Burn
  <2>1. /\ Msg.tokenId # n /\ UNCHANGED operators
        /\ tokens' = [tokens EXCEPT ![Msg.tokenId] = None]
    BY <1>3, <1>9 DEF Burn, C!Burn, C!BurnAccepted
  <2>2. tokens'[n] = tokens[n]
    BY <1>2, <2>1
  <2> QED
    BY <1>1, <2>1, <2>2, NoNewRight
<1>10. CASE UNCHANGED <<tokens, operators>>
  BY <1>1, <1>10, NoNewRight
<1>11. \/ Instantiate \/ Reply \/ Mint \/ Administrate \/ BankSend \/ CwInstantiate
       \/ UpdateCollectionInfo \/ Receive
       => UNCHANGED <<tokens, operators>>
  BY DEF Instantiate, Reply, Mint, Administrate, BankSend, CwInstantiate, C!Instantiate,
         UpdateCollectionInfo, C!UpdateCollectionInfo, Receive, collectionVars
<1>12. Holder => \/ C!Transfer(Msg.sender, Msg.recipient, Msg.tokenId)
                 \/ C!Approve(Msg.sender, Msg.spender, Msg.tokenId, Msg.expires)
                 \/ C!Revoke(Msg.sender, Msg.spender, Msg.tokenId)
                 \/ C!ApproveAll(Msg.sender, Msg.operator, Msg.expires)
                 \/ C!RevokeAll(Msg.sender, Msg.operator)
  BY DEF Holder
<1> QED
  BY <1>5, <1>6, <1>7, <1>8, <1>9, <1>10, <1>11, <1>12 DEF Execute

LEMMA ConsentInvStep == IInv /\ ConsentInv /\ [Next]_vars => ConsentInv'
<1> SUFFICES ASSUME IInv, ConsentInv, [Next]_vars, ~Idle', NEW n \in 1 .. MaxIndex,
                    tx'.saved.tokens[n] # None,
                    tx'.senders \cap MaySend(tx.saved, n)' = {}
             PROVE  /\ tokens'[n] # None
                    /\ tokens'[n].owner = tx'.saved.tokens[n].owner
                    /\ MaySend(Snapshot, n)' \subseteq MaySend(tx.saved, n)'
  BY DEF ConsentInv
<1>1. CASE Execute
  <2>1. /\ ~Idle /\ now' = now
        /\ tx'.saved = tx.saved /\ tx'.senders = tx.senders \cup {Msg.sender}
    BY <1>1, ExecuteEmits
  <2>2. MaySend(tx.saved, n)' = MaySend(tx.saved, n)
    BY <2>1 DEF MaySend, C!Expired
  <2>3. /\ tokens[n] # None /\ tokens[n].owner = tx.saved.tokens[n].owner
        /\ MaySend(Snapshot, n) \subseteq MaySend(tx.saved, n)
    BY <2>1, <2>2 DEF ConsentInv
  <2>4. Msg.sender \notin MaySend(Snapshot, n)
    BY <2>1, <2>2, <2>3
  <2>5. /\ tokens'[n] = tokens[n]
        /\ MaySend(Snapshot, n)' \subseteq MaySend(Snapshot, n)
    BY <1>1, <2>3, <2>4, TokenStays
  <2> QED
    BY <2>1, <2>2, <2>3, <2>5
<1>2. CASE Begin
  <2>1. tx'.saved = Snapshot /\ Snapshot' = Snapshot /\ tokens' = tokens
    BY <1>2 DEF Begin, Snapshot, minterVars, collectionVars, ghosts
  <2>2. tx'.saved.tokens = tokens'
    BY <2>1 DEF Snapshot
  <2>3. MaySend(Snapshot, n)' = MaySend(tx.saved, n)'
    BY <2>1
  <2> QED
    BY <2>2, <2>3
<1>3. CASE UNCHANGED vars
  BY <1>3 DEF vars, Snapshot, minterVars, collectionVars, ghosts, ConsentInv, Idle, MaySend,
     C!Expired
<1>4. ~Commit /\ ~Abort /\ ~Tick
  BY DEF Commit, Abort, Tick, Idle
<1> QED
  BY <1>1, <1>2, <1>3, <1>4 DEF Next

\* A committed token changes hands or is burnt only with a message of somebody who had
\* a right to it when the transaction began: check_can_send and check_can_approve of
\* cw721-base, over a whole transaction.
THEOREM OnlyHoldersMove == Spec => HoldersConsent
<1>1. Init => ConsentInv
  BY DEF Init, Idle, ConsentInv
<1>2. Spec => []ConsentInv
  BY <1>1, ConsentInvStep, Invariance, PTL DEF Spec
<1> DEFINE Consented ==
             LET s == Committed t == Committed'
             IN  \A n \in 1 .. MaxIndex :
                   /\ s.tokens[n] # None
                   /\ t.tokens[n] = None \/ t.tokens[n].owner # s.tokens[n].owner
                   => tx.senders \cap MaySend(s, n) # {}
<1>3. ConsentInv /\ [Next]_vars => [Consented]_vars
  <2> SUFFICES ASSUME ConsentInv, [Next]_vars PROVE Consented
    OBVIOUS
  <2>1. CASE Commit
    <3>1. ~Idle /\ Committed = tx.saved /\ Committed' = Snapshot' /\ UNCHANGED tokens
      BY <2>1 DEF Commit, Committed, Idle, collectionVars
    <3>2. Committed'.tokens = tokens
      BY <3>1 DEF Snapshot
    <3> QED
      BY <3>1, <3>2 DEF ConsentInv
  <2>2. CASE ~Commit
    <3>1. Committed'.tokens = Committed.tokens
      BY <2>2, OnlyCommitChanges
    <3> QED
      BY <3>1
  <2> QED
    BY <2>1, <2>2
<1> QED
  BY <1>2, <1>3, PTL DEF Spec, HoldersConsent

-----------------------------------------------------------------------------
(* Sums *)

\* Money is added up by SumFunction, which takes the elements of a finite set away one
\* by one in an order nobody knows.  That the order does not matter is shown first: the
\* sum of natural numbers is the number of units there are (SumCounts), and units are
\* counted by the theorems on finite sets.

\* The units of a function to the natural numbers: as many for x as f[x].
Units(f, S) == UNION {{x} \X (1 .. f[x]) : x \in S}

\* Of a set of subsets of a finite set some subset has none of the others within it.
LEMMA SmallestSet ==
  ASSUME NEW S, IsFiniteSet(S), NEW K \in SUBSET (SUBSET S), K # {}
  PROVE  \E T \in K : \A U \in K : U \subseteq T => U = T
<1> DEFINE R == StrictSubsetOrdering(S)
<1>1. IsWellFoundedOn(R, SUBSET S)
  BY FS_StrictSubsetOrderingWellFounded, FS_FiniteSubsetsOfFinite
<1>2. \A T, U \in SUBSET S : U \subseteq T /\ U # T => <<U, T>> \in R
  BY DEF StrictSubsetOrdering
<1> HIDE DEF R
<1>3. \E T \in K : \A U \in K : ~(<<U, T>> \in R)
  BY <1>1, WFMin
<1> QED
  BY <1>2, <1>3

LEMMA UnitsOfOne ==
  ASSUME NEW x, NEW n \in Nat
  PROVE  /\ IsFiniteSet({x} \X (1 .. n))
         /\ Cardinality({x} \X (1 .. n)) = n
<1> DEFINE A == {x}
           B == 1 .. n
<1>1. IsFiniteSet(A) /\ Cardinality(A) = 1
  BY FS_Singleton
<1>2. IsFiniteSet(B) /\ Cardinality(B) = n
  BY FS_Interval
<1> HIDE DEF A, B
<1>3. IsFiniteSet(A \X B) /\ Cardinality(A \X B) = Cardinality(A) * Cardinality(B)
  BY <1>1, <1>2, FS_Product
<1>4. IsFiniteSet(A \X B) /\ Cardinality(A \X B) = n
  BY <1>1, <1>2, <1>3
<1> QED
  BY <1>4 DEF A, B

LEMMA UnitsFinite ==
  ASSUME NEW S, IsFiniteSet(S), NEW f \in [S -> Nat], NEW T \in SUBSET S
  PROVE  IsFiniteSet(Units(f, T)) /\ Cardinality(Units(f, T)) \in Nat
<1> DEFINE K == {{x} \X (1 .. f[x]) : x \in T}
           unit == [x \in T |-> {x} \X (1 .. f[x])]
<1>1. IsFiniteSet(T)
  BY FS_Subset
<1>2. unit \in Surjection(T, K)
  BY DEF Surjection
<1>3. IsFiniteSet(K)
  <2> HIDE DEF unit, K
  <2> QED
    BY <1>1, <1>2, FS_Surjection
<1>4. \A x \in T : f[x] \in Nat /\ IsFiniteSet({x} \X (1 .. f[x]))
  <2> TAKE x \in T
  <2>1. PICK n \in Nat : n = f[x]
    OBVIOUS
  <2>2. IsFiniteSet({x} \X (1 .. n))
    BY UnitsOfOne
  <2> QED
    BY <2>1, <2>2
<1>5. IsFiniteSet(UNION K)
  <2>1. \A k \in K : IsFiniteSet(k)
    BY <1>4
  <2> HIDE DEF K
  <2> QED
    BY <1>3, <2>1, FS_UNION
<1>6. IsFiniteSet(Units(f, T))
  BY <1>5 DEF Units
<1> QED
  BY <1>6, FS_CardinalityType

\* The units of two disjoint sets are those of their union.
LEMMA UnitsDisjoint ==
  ASSUME NEW S, IsFiniteSet(S), NEW f \in [S -> Nat],
         NEW T \in SUBSET S, NEW U \in SUBSET S, T \cap U = {}
  PROVE  Cardinality(Units(f, T \cup U)) =
           Cardinality(Units(f, T)) + Cardinality(Units(f, U))
<1> DEFINE A == Units(f, T)
           B == Units(f, U)
<1>1. Units(f, T \cup U) = A \cup B /\ A \cap B = {}
  BY DEF Units
<1>2. IsFiniteSet(A) /\ IsFiniteSet(B) /\ Cardinality(A) \in Nat /\ Cardinality(B) \in Nat
  BY UnitsFinite
<1> HIDE DEF A, B
<1>3. Cardinality(A \cup B) = Cardinality(A) + Cardinality(B) - Cardinality(A \cap B)
  BY <1>2, FS_Union
<1>4. Cardinality(A \cap B) = 0
  BY <1>1, FS_EmptySet
<1>5. Cardinality(A \cup B) = Cardinality(A) + Cardinality(B)
  BY <1>2, <1>3, <1>4
<1> QED
  BY <1>1, <1>5 DEF A, B

LEMMA UnitsAt ==
  ASSUME NEW S, NEW f \in [S -> Nat], NEW x \in S
  PROVE  Cardinality(Units(f, {x})) = f[x]
<1>1. Units(f, {x}) = {x} \X (1 .. f[x])
  BY DEF Units
<1>2. f[x] \in Nat
  OBVIOUS
<1> QED
  BY <1>1, <1>2, UnitsOfOne

\* What SumFunction computes.
LEMMA SumCounts ==
  ASSUME NEW S, IsFiniteSet(S), NEW f \in [S -> Nat]
  PROVE  SumFunction(f) = Cardinality(Units(f, S))
<1> DEFINE first(s) == CHOOSE x \in s : TRUE
           Step(g) == [s \in SUBSET S |->
                         IF s = {} THEN 0 ELSE f[first(s)] + g[s \ {first(s)}]]
           sum == CHOOSE g : g = Step(g)
           count == [s \in SUBSET S |-> Cardinality(Units(f, s))]
<1>1. SumFunction(f) = sum[S]
  BY DEF SumFunction, SumFunctionOnSet, FoldFunctionOnSet, MapThenFoldSet
<1>2. \A s : s # {} => first(s) \in s
  OBVIOUS
<1>3. ASSUME NEW s \in SUBSET S, s # {}
      PROVE  count[s] = f[first(s)] + count[s \ {first(s)}]
  <2> DEFINE x == first(s)
             r == s \ {x}
  <2>1. x \in s /\ x \in S
    BY <1>2, <1>3
  <2> HIDE DEF x
  <2>2. /\ {x} \in SUBSET S /\ r \in SUBSET S /\ {x} \cup r = s /\ {x} \cap r = {}
    BY <2>1
  <2> HIDE DEF r
  <2>3. Cardinality(Units(f, {x} \cup r)) =
          Cardinality(Units(f, {x})) + Cardinality(Units(f, r))
    BY <2>2, UnitsDisjoint
  <2>4. Cardinality(Units(f, {x})) = f[x]
    BY <2>1, UnitsAt
  <2>5. count[s] = f[x] + count[r]
    BY <2>2, <2>3, <2>4
  <2> QED
    BY <2>5 DEF x, r
<1>4. count[{}] = 0
  <2>1. Units(f, {}) = {}
    BY DEF Units
  <2> QED
    BY <2>1, FS_EmptySet
<1>5. count = Step(count)
  <2> SUFFICES ASSUME NEW s \in SUBSET S PROVE count[s] = Step(count)[s]
    OBVIOUS
  <2> HIDE DEF count, first
  <2> QED
    BY <1>2, <1>3, <1>4
<1>6. sum = Step(sum)
  <2> HIDE DEF Step, count
  <2> QED
    BY <1>5
<1>7. ASSUME NEW s \in SUBSET S
      PROVE  sum[s] = IF s = {} THEN 0 ELSE f[first(s)] + sum[s \ {first(s)}]
  <2> HIDE DEF sum, first
  <2> QED
    BY <1>6
<1>8. \A s \in SUBSET S : sum[s] = count[s]
  <2> DEFINE K == {s \in SUBSET S : sum[s] # count[s]}
  <2> SUFFICES ASSUME K # {} PROVE FALSE
    OBVIOUS
  <2>1. K \in SUBSET (SUBSET S)
    OBVIOUS
  <2> HIDE DEF K
  <2>2. PICK s \in K : \A u \in K : u \subseteq s => u = s
    BY <2>1, SmallestSet
  <2>3. s \in SUBSET S /\ sum[s] # count[s]
    BY DEF K
  <2> HIDE DEF sum, count, first
  <2>4. s # {}
    BY <1>4, <1>7, <2>3
  <2>5. s \ {first(s)} \notin K
    BY <1>2, <2>2, <2>4
  <2>6. sum[s \ {first(s)}] = count[s \ {first(s)}]
    BY <2>3, <2>5 DEF K
  <2> QED
    BY <1>3, <1>7, <2>3, <2>4, <2>6
<1> QED
  <2> HIDE DEF sum
  <2> QED
    BY <1>1, <1>8


LEMMA SumNat ==
  ASSUME NEW S, IsFiniteSet(S), NEW f \in [S -> Nat]
  PROVE  SumFunction(f) \in Nat
BY SumCounts, UnitsFinite

LEMMA SumOfNothing ==
  ASSUME NEW f \in [{} -> Nat]
  PROVE  SumFunction(f) = 0
<1>1. IsFiniteSet({}) /\ Cardinality({}) = 0
  BY FS_EmptySet
<1>2. Units(f, {}) = {}
  BY DEF Units
<1> QED
  BY <1>1, <1>2, SumCounts

LEMMA SumOfOne ==
  ASSUME NEW x, NEW f \in [{x} -> Nat]
  PROVE  SumFunction(f) = f[x]
<1>1. IsFiniteSet({x})
  BY FS_Singleton
<1>2. Cardinality(Units(f, {x})) = f[x]
  BY UnitsAt
<1> QED
  BY <1>1, <1>2, SumCounts

LEMMA SumOfTwoSets ==
  ASSUME NEW S, NEW T, IsFiniteSet(S), IsFiniteSet(T), S \cap T = {},
         NEW f \in [S -> Nat], NEW g \in [T -> Nat], NEW h \in [S \cup T -> Nat],
         \A x \in S : h[x] = f[x], \A x \in T : h[x] = g[x]
  PROVE  SumFunction(h) = SumFunction(f) + SumFunction(g)
<1>1. IsFiniteSet(S \cup T)
  BY FS_Union
<1>2. Units(h, S) = Units(f, S) /\ Units(h, T) = Units(g, T)
  BY DEF Units
<1> DEFINE U == S \cup T
<1>3. S \in SUBSET U /\ T \in SUBSET U
  OBVIOUS
<1>4. Cardinality(Units(h, U)) = Cardinality(Units(h, S)) + Cardinality(Units(h, T))
  <2>1. IsFiniteSet(U) /\ h \in [U -> Nat] /\ U = S \cup T
    BY <1>1
  <2> HIDE DEF U
  <2>2. Cardinality(Units(h, S \cup T)) =
          Cardinality(Units(h, S)) + Cardinality(Units(h, T))
    BY <1>3, <2>1, UnitsDisjoint
  <2> QED
    BY <2>1, <2>2
<1>5. SumFunction(h) = Cardinality(Units(h, U))
  BY <1>1, SumCounts
<1>6. /\ SumFunction(f) = Cardinality(Units(f, S))
      /\ SumFunction(g) = Cardinality(Units(g, T))
  BY SumCounts
<1> QED
  BY <1>2, <1>4, <1>5, <1>6

-----------------------------------------------------------------------------
(* Prices and payments *)

Earned(p, sales) == AbstractSale!Earned(p, sales)
Spent(p, sales) == AbstractSale!Spent(p, sales)

LEMMA PaidIsSum ==
  ASSUME NEW sales
  PROVE  AbstractSale!Paid(sales) = SumFunction([s \in sales |-> s.paid])
<1> DEFINE f == [s \in sales |-> s.paid]
<1>1. AbstractSale!Paid(sales) = AbstractSale!SumFunction(f)
  BY DEF AbstractSale!Paid
<1> HIDE DEF f
<1>2. AbstractSale!SumFunction(f) = SumFunction(f)
  BY DEF AbstractSale!SumFunction, AbstractSale!SumFunctionOnSet,
         AbstractSale!FoldFunctionOnSet, AbstractSale!MapThenFoldSet,
         SumFunction, SumFunctionOnSet, FoldFunctionOnSet, MapThenFoldSet
<1> QED
  BY <1>1, <1>2 DEF f

\* Sales whose prices can be added up.
Priced(sales) == IsFiniteSet(sales) /\ \A s \in sales : s.paid \in Nat

LEMMA PaidNat ==
  ASSUME NEW S, Priced(S)
  PROVE  AbstractSale!Paid(S) \in Nat
<1>1. [s \in S |-> s.paid] \in [S -> Nat]
  BY DEF Priced
<1> QED
  BY <1>1, PaidIsSum, SumNat DEF Priced

LEMMA PaidTwice ==
  ASSUME NEW S, NEW T, Priced(S), Priced(T), S \cap T = {}
  PROVE  AbstractSale!Paid(S \cup T) = AbstractSale!Paid(S) + AbstractSale!Paid(T)
<1> DEFINE f == [s \in S |-> s.paid]
           g == [s \in T |-> s.paid]
           h == [s \in S \cup T |-> s.paid]
<1>1. f \in [S -> Nat] /\ g \in [T -> Nat] /\ h \in [S \cup T -> Nat]
  BY DEF Priced
<1>2. (\A x \in S : h[x] = f[x]) /\ (\A x \in T : h[x] = g[x])
  OBVIOUS
<1>3. IsFiniteSet(S) /\ IsFiniteSet(T)
  BY DEF Priced
<1>4. /\ AbstractSale!Paid(S \cup T) = SumFunction(h)
      /\ AbstractSale!Paid(S) = SumFunction(f) /\ AbstractSale!Paid(T) = SumFunction(g)
  BY PaidIsSum
<1> HIDE DEF f, g, h
<1>5. SumFunction(h) = SumFunction(f) + SumFunction(g)
  BY <1>1, <1>2, <1>3, SumOfTwoSets
<1> QED
  BY <1>4, <1>5

LEMMA EarnedNat ==
  ASSUME NEW S, Priced(S), NEW p
  PROVE  Earned(p, S) \in Nat /\ Spent(p, S) \in Nat
<1>1. /\ Priced({s \in S : s.request.primary_sale_recipient = p})
      /\ Priced({s \in S : s.payer = p})
  BY FS_Subset DEF Priced
<1> QED
  BY <1>1, PaidNat DEF Earned, Spent, AbstractSale!Earned, AbstractSale!Spent

LEMMA EarnedTwice ==
  ASSUME NEW S, NEW T, Priced(S), Priced(T), S \cap T = {}, NEW p
  PROVE  /\ Earned(p, S \cup T) = Earned(p, S) + Earned(p, T)
         /\ Spent(p, S \cup T) = Spent(p, S) + Spent(p, T)
<1> DEFINE E(R) == {s \in R : s.request.primary_sale_recipient = p}
           P(R) == {s \in R : s.payer = p}
<1>1. Priced(E(S)) /\ Priced(E(T)) /\ Priced(P(S)) /\ Priced(P(T))
  BY FS_Subset DEF Priced
<1>2. /\ E(S \cup T) = E(S) \cup E(T) /\ E(S) \cap E(T) = {}
      /\ P(S \cup T) = P(S) \cup P(T) /\ P(S) \cap P(T) = {}
  OBVIOUS
<1>3. /\ Earned(p, S \cup T) = AbstractSale!Paid(E(S \cup T))
      /\ Earned(p, S) = AbstractSale!Paid(E(S)) /\ Earned(p, T) = AbstractSale!Paid(E(T))
      /\ Spent(p, S \cup T) = AbstractSale!Paid(P(S \cup T))
      /\ Spent(p, S) = AbstractSale!Paid(P(S)) /\ Spent(p, T) = AbstractSale!Paid(P(T))
  BY DEF Earned, Spent, AbstractSale!Earned, AbstractSale!Spent
<1> HIDE DEF E, P
<1>4. AbstractSale!Paid(E(S) \cup E(T)) = AbstractSale!Paid(E(S)) + AbstractSale!Paid(E(T))
  BY <1>1, <1>2, PaidTwice
<1>5. AbstractSale!Paid(P(S) \cup P(T)) = AbstractSale!Paid(P(S)) + AbstractSale!Paid(P(T))
  BY <1>1, <1>2, PaidTwice
<1> QED
  BY <1>2, <1>3, <1>4, <1>5

LEMMA PaidNothing == AbstractSale!Paid({}) = 0
<1>1. [s \in {} |-> s.paid] \in [{} -> Nat]
  OBVIOUS
<1> QED
  BY <1>1, PaidIsSum, SumOfNothing

LEMMA PaidOnce ==
  ASSUME NEW x, x.paid \in Nat
  PROVE  AbstractSale!Paid({x}) = x.paid
<1> DEFINE f == [s \in {x} |-> s.paid]
<1>1. f \in [{x} -> Nat] /\ f[x] = x.paid
  OBVIOUS
<1>2. AbstractSale!Paid({x}) = SumFunction(f)
  BY PaidIsSum
<1> HIDE DEF f
<1> QED
  BY <1>1, <1>2, SumOfOne

LEMMA EarnedOnce ==
  ASSUME NEW x, x.paid \in Nat, NEW p
  PROVE  /\ Earned(p, {x}) = IF x.request.primary_sale_recipient = p THEN x.paid ELSE 0
         /\ Spent(p, {x}) = IF x.payer = p THEN x.paid ELSE 0
         /\ Earned(p, {}) = 0 /\ Spent(p, {}) = 0
<1>1. /\ {s \in {x} : s.request.primary_sale_recipient = p} =
           IF x.request.primary_sale_recipient = p THEN {x} ELSE {}
      /\ {s \in {x} : s.payer = p} = IF x.payer = p THEN {x} ELSE {}
      /\ {s \in {} : s.request.primary_sale_recipient = p} = {}
      /\ {s \in {} : s.payer = p} = {}
  OBVIOUS
<1> QED
  BY <1>1, PaidOnce, PaidNothing DEF Earned, Spent, AbstractSale!Earned, AbstractSale!Spent

LEMMA AmountOf ==
  ASSUME NEW funds \in Payment
  PROVE  /\ Amount(funds) \in Nat
         /\ funds = <<>> => Amount(funds) = 0
         /\ Len(funds) = 1 => Amount(funds) = funds[1].amount /\ funds[1].amount \in Nat
<1> DEFINE f == [i \in DOMAIN funds |-> funds[i].amount]
<1>1. funds \in Seq([denom : STRING, amount : Nat \ {0}])
  BY ComponentAssumption DEF M!PaymentAssumption
<1>2. Len(funds) \in Nat /\ DOMAIN funds = 1 .. Len(funds)
  BY <1>1, LenProperties
<1>3. f \in [1 .. Len(funds) -> Nat]
  <2>1. funds \in [1 .. Len(funds) -> [denom : STRING, amount : Nat \ {0}]]
    BY <1>1, LenProperties
  <2> QED
    BY <1>2, <2>1
<1>4. Amount(funds) = SumFunction(f)
  BY DEF Amount
<1>5. ASSUME Len(funds) = 1 PROVE f \in [{1} -> Nat] /\ f[1] = funds[1].amount
  BY <1>2, <1>3, <1>5
<1>6. ASSUME funds = <<>> PROVE f \in [{} -> Nat]
  BY <1>2, <1>3, <1>6, EmptySeq
<1> HIDE DEF f
<1>7. IsFiniteSet(1 .. Len(funds))
  BY <1>2, FS_Interval
<1>8. Amount(funds) \in Nat
  BY <1>3, <1>4, <1>7, SumNat
<1>9. Len(funds) = 1 => Amount(funds) = funds[1].amount
  BY <1>4, <1>5, SumOfOne
<1>10. funds = <<>> => Amount(funds) = 0
  BY <1>4, <1>6, SumOfNothing
<1> QED
  BY <1>8, <1>9, <1>10

-----------------------------------------------------------------------------
(* The ledger *)

\* The receipts of a state: each has its own UUID and its own token number, the price
\* was paid, and never by the minter.
Books(s) ==
  /\ IsFiniteSet(s.issued)
  /\ \A i \in s.issued :
       i.paid \in Nat /\ i.paid = i.request.price /\ i.payer \in Account \ {MinterAddress}
  /\ s.uuids = {i.request.uuid : i \in s.issued}
  /\ {i.tokenId : i \in s.issued} = 1 .. s.tokenIndex
  /\ \A i, j \in s.issued :
       i.request.uuid = j.request.uuid \/ i.tokenId = j.tokenId => i = j
  /\ s.bank \in [Account -> Int] /\ s.stray \in [Account -> Int]

\* What an account has according to the sales made.
Booked(s, p) == Opening[p] + Earned(p, s.issued) - Spent(p, s.issued)

Balanced(s) == \A p \in Account : s.bank[p] + s.stray[p] = Booked(s, p)

\* A payment still to be made: the minter holds what its recipient has a claim to.
Owing(m) ==
  /\ m.recipient \in Account /\ m.amount \in Nat
  /\ \A p \in Account :
       bank[p] + stray[p] + Gain(p, MinterAddress, m.recipient, m.amount)
         = Booked(Snapshot, p)

\* The payment of a sale is the first message or, while the token is missing, the
\* second one.
DueAt(i) == i <= Len(tx.queue) /\ FromMinter(i, "bankSend")

\* An instantiation with funds, which the collection is going to refuse.
Overpaid ==
  1 <= Len(tx.queue) /\ FromMinter(1, "cwInstantiate") /\ tx.queue[1].funds # <<>>

Accounts ==
  IF DueAt(1) THEN Owing(tx.queue[1])
  ELSE IF DueAt(2) THEN Owing(tx.queue[2])
  ELSE Overpaid \/ Balanced(Snapshot)

LedgerInv ==
  /\ Books(Snapshot)
  /\ IF Idle THEN Balanced(Snapshot)
     ELSE /\ Books(tx.saved) /\ Balanced(tx.saved) /\ tx.saved.issued \subseteq issued
          /\ Accounts

LEMMA GainInt ==
  ASSUME NEW a, NEW from, NEW to, NEW amount \in Nat
  PROVE  /\ Gain(a, from, to, amount) \in Int
         /\ Gain(a, from, to, 0) = 0
BY DEF Gain

LEMMA Moves ==
  ASSUME bank \in [Account -> Int], NEW from, NEW to, NEW amount \in Nat,
         Move(from, to, amount)
  PROVE  /\ bank' \in [Account -> Int]
         /\ \A p \in Account : bank'[p] = bank[p] + Gain(p, from, to, amount)
BY GainInt DEF Move

\* Coins given away are booked where they went.
LEMMA Gives ==
  ASSUME bank \in [Account -> Int], stray \in [Account -> Int],
         NEW from, NEW to, NEW amount \in Nat, Give(from, to, amount)
  PROVE  /\ bank' \in [Account -> Int] /\ stray' \in [Account -> Int]
         /\ \A p \in Account : bank'[p] + stray'[p] = bank[p] + stray[p]
<1>1. /\ bank' \in [Account -> Int]
      /\ \A p \in Account : bank'[p] = bank[p] + Gain(p, from, to, amount)
  BY Moves DEF Give
<1>2. /\ stray' \in [Account -> Int]
      /\ \A p \in Account : stray'[p] = stray[p] - Gain(p, from, to, amount)
  BY GainInt DEF Give
<1>3. \A p \in Account : Gain(p, from, to, amount) \in Int
  BY GainInt
<1> QED
  BY <1>1, <1>2, <1>3

\* Messages of accounts are no debts of the minter.
LEMMA NothingDue ==
  ASSUME QueueTyped
  PROVE  /\ Behind(0) => ~DueAt(1) /\ ~DueAt(2) /\ ~Overpaid
         /\ Behind(1) => ~DueAt(2)
<1>1. Len(tx.queue) \in Nat
  BY LenProperties DEF QueueTyped
<1> QED
  BY <1>1, ExternalMessage DEF Behind, DueAt, Overpaid, FromMinter

-----------------------------------------------------------------------------
(* The ledger in a step *)

\* When the front of the queue is no payment and no refused instantiation, the books
\* balance, and they do whenever a call of an account is executed.
LEMMA BalancedNow ==
  ASSUME LedgerInv, ~Idle, ~DueAt(1), ~DueAt(2), ~Overpaid
  PROVE  Balanced(Snapshot)
BY DEF LedgerInv, Accounts

LEMMA BalancedWhenOpen ==
  ASSUME IInv, LedgerInv, ~Idle, Open
  PROVE  Balanced(Snapshot)
BY NothingDue, BalancedNow DEF IInv, Open

\* A message after which only messages of accounts are left.
LEMMA LedgerContinues ==
  ASSUME LedgerInv, Execute, Books(Snapshot)', issued \subseteq issued', Accounts'
  PROVE  LedgerInv'
<1>1. ~Idle /\ ~Idle' /\ tx'.saved = tx.saved
  BY ExecuteEmits
<1>2. Books(tx.saved) /\ Balanced(tx.saved) /\ tx.saved.issued \subseteq issued
  BY <1>1 DEF LedgerInv
<1>3. Books(tx.saved)' /\ Balanced(tx.saved)'
  BY <1>1, <1>2 DEF Books, Balanced, Booked, Earned, Spent
<1> QED
  BY <1>1, <1>2, <1>3 DEF LedgerInv

LEMMA LedgerSettles ==
  ASSUME LedgerInv, Execute, QueueTyped', Behind(0)',
         Books(Snapshot)', issued \subseteq issued', Balanced(Snapshot)'
  PROVE  LedgerInv'
<1>1. Accounts'
  <2>1. (~DueAt(1) /\ ~DueAt(2))'
    BY NothingDue, PTL
  <2> QED
    BY <2>1 DEF Accounts
<1> QED
  BY <1>1, LedgerContinues

\* What the ledger is made of.
SaleVars == <<uuids, tokenIndex, issued>>

LEMMA BooksKept ==
  ASSUME Books(Snapshot), UNCHANGED SaleVars,
         bank' \in [Account -> Int], stray' \in [Account -> Int]
  PROVE  Books(Snapshot)'
BY DEF Books, Snapshot, SaleVars

LEMMA BalanceKept ==
  ASSUME Balanced(Snapshot), issued' = issued,
         \A p \in Account : bank'[p] + stray'[p] = bank[p] + stray[p]
  PROVE  Balanced(Snapshot)'
BY DEF Balanced, Booked, Snapshot, Earned, Spent

LEMMA LedgerKept ==
  ASSUME Books(Snapshot), UNCHANGED <<SaleVars, bank, stray>>
  PROVE  /\ Books(Snapshot)' /\ issued \subseteq issued'
         /\ Balanced(Snapshot) => Balanced(Snapshot)'
<1>1. bank \in [Account -> Int] /\ stray \in [Account -> Int]
  BY DEF Books, Snapshot
<1>2. UNCHANGED SaleVars /\ UNCHANGED <<bank, stray>> /\ issued' = issued
  BY DEF SaleVars
<1> QED
  BY <1>1, <1>2, BooksKept, BalanceKept

\* Calls of accounts that leave sales and coins alone, the refusal included.
LEMMA QuietCallLedger ==
  ASSUME IInv, LedgerInv, Execute, Emit(<<>>),
         Msg.op \notin {"cwInstantiate", "reply", "cwMint", "bankSend", "receive"},
         UNCHANGED SaleVars,
         bank' \in [Account -> Int], stray' \in [Account -> Int],
         \A p \in Account : bank'[p] + stray'[p] = bank[p] + stray[p]
  PROVE  LedgerInv'
<1>1. ~Idle /\ tx.queue # <<>>
  BY ExecuteEmits DEF Execute, Instantiate, Reply, Mint, Administrate, BankSend,
     CwInstantiate, CwMint, UpdateCollectionInfo, Holder, Burn, Send, Receive, Running, Unpaid
<1>2. Open /\ Behind(1)
  BY <1>1, CallInSettledState
<1>3. QueueTyped' /\ Behind(1 - 1)'
  BY <1>1, <1>2, EmitsNothing DEF IInv
<1>4. Books(Snapshot) /\ Balanced(Snapshot) /\ issued' = issued
  BY <1>1, <1>2, BalancedWhenOpen DEF LedgerInv, SaleVars
<1>5. Books(Snapshot)' /\ Balanced(Snapshot)'
  BY <1>4, BooksKept, BalanceKept
<1> QED
  BY <1>3, <1>4, <1>5, LedgerSettles

LEMMA CollectionCallLedger ==
  IInv /\ LedgerInv /\ (UpdateCollectionInfo \/ Holder \/ Burn) => LedgerInv'
<1> SUFFICES ASSUME IInv, LedgerInv, UpdateCollectionInfo \/ Holder \/ Burn
             PROVE  LedgerInv'
  OBVIOUS
<1>1. /\ Execute /\ Emit(<<>>)
      /\ Msg.op \notin {"cwInstantiate", "reply", "cwMint", "bankSend", "receive"}
  BY DEF Execute, UpdateCollectionInfo, Holder, Burn, Unpaid, Running
<1>2. UNCHANGED SaleVars /\ UNCHANGED <<bank, stray>>
  BY DEF UpdateCollectionInfo, Holder, Burn, minterVars, ghosts, SaleVars
<1>3. bank \in [Account -> Int] /\ stray \in [Account -> Int]
  BY DEF LedgerInv, Books, Snapshot
<1> QED
  BY <1>1, <1>2, <1>3, QuietCallLedger

LEMMA AdministrateLedger == IInv /\ LedgerInv /\ Administrate => LedgerInv'
<1> SUFFICES ASSUME IInv, LedgerInv, Administrate PROVE LedgerInv'
  OBVIOUS
<1>1. /\ Execute /\ Emit(<<>>) /\ ~Idle /\ tx.queue # <<>>
      /\ Msg.op \in {"updateSettings", "addAdmin", "removeAdmin"}
  BY DEF Execute, Administrate, Running
<1>2. UNCHANGED SaleVars
  BY DEF Administrate, M!UpdateSettings, M!AddAdmin, M!RemoveAdmin, SaleVars
<1>3. Msg.funds \in Payment
  BY <1>1, CallInSettledState DEF IsMessage
<1>4. Give(Msg.sender, MinterAddress, Amount(Msg.funds)) /\ Amount(Msg.funds) \in Nat
  BY <1>3, AmountOf DEF Administrate, KeepFunds
<1>5. bank \in [Account -> Int] /\ stray \in [Account -> Int]
  BY DEF LedgerInv, Books, Snapshot
<1> DEFINE n == Amount(Msg.funds)
<1>6. n \in Nat /\ Give(Msg.sender, MinterAddress, n)
  BY <1>4
<1> HIDE DEF n
<1>7. /\ bank' \in [Account -> Int] /\ stray' \in [Account -> Int]
      /\ \A p \in Account : bank'[p] + stray'[p] = bank[p] + stray[p]
  BY <1>5, <1>6, Gives
<1> QED
  BY <1>1, <1>2, <1>7, QuietCallLedger

\* The payment of a sale settles what was owing; other payments are booked as given.
LEMMA BankSendLedger == IInv /\ LedgerInv /\ BankSend => LedgerInv'
<1> SUFFICES ASSUME IInv, LedgerInv, BankSend PROVE LedgerInv'
  OBVIOUS
<1>1. /\ Execute /\ ~Idle /\ tx.queue # <<>> /\ Msg.op = "bankSend" /\ Emit(<<>>)
      /\ UNCHANGED SaleVars
  BY DEF Execute, BankSend, Running, minterVars, SaleVars
<1>2. QueueTyped /\ Flight
  BY <1>1 DEF IInv
<1>3. Msg = tx.queue[1] /\ (Behind(0) => Behind(1) /\ Msg \in External)
      /\ Len(tx.queue) \in Nat \ {0}
  BY <1>1, <1>2, Leading
<1>4. /\ Books(Snapshot) /\ bank \in [Account -> Int] /\ stray \in [Account -> Int]
      /\ issued' = issued
  BY <1>1 DEF LedgerInv, Books, Snapshot, SaleVars
<1>5. CASE Msg.sender = MinterAddress
  <2>1. DueAt(1)
    BY <1>1, <1>3, <1>5 DEF DueAt, FromMinter
  <2>2. Owing(tx.queue[1])
    BY <1>1, <2>1 DEF LedgerInv, Accounts
  <2>3. Paying
    <3>1. ~Open
      BY <1>3, <1>5, ExternalMessage DEF Open
    <3> QED
      BY <1>1, <1>2, <1>3, <3>1 DEF Flight, Creating, Answering, Minting, Telling, FromMinter
  <2>4. QueueTyped' /\ Behind(1 - 1)'
    BY <1>1, <1>2, <2>3, EmitsNothing DEF Paying
  <2> DEFINE to == Msg.recipient
             n == Msg.amount
  <2>5. /\ n \in Nat /\ Move(MinterAddress, to, n) /\ UNCHANGED stray
    BY <1>3, <1>5, <2>2 DEF BankSend, Owing
  <2>6. \A p \in Account : bank[p] + stray[p] + Gain(p, MinterAddress, to, n)
                             = Booked(Snapshot, p)
    BY <1>3, <2>2 DEF Owing
  <2> HIDE DEF to, n
  <2>7. /\ bank' \in [Account -> Int]
        /\ \A p \in Account : bank'[p] = bank[p] + Gain(p, MinterAddress, to, n)
    BY <1>4, <2>5, Moves
  <2>8. Books(Snapshot)'
    BY <1>1, <1>4, <2>5, <2>7, BooksKept
  <2>9. \A p \in Account : bank'[p] + stray'[p] = Booked(Snapshot, p)
    <3> TAKE p \in Account
    <3>1. /\ bank[p] \in Int /\ stray[p] \in Int /\ Gain(p, MinterAddress, to, n) \in Int
          /\ stray'[p] = stray[p]
      BY <1>4, <2>5, GainInt
    <3> QED
      BY <2>6, <2>7, <3>1
  <2>10. Balanced(Snapshot)'
    BY <1>4, <2>9 DEF Balanced, Booked, Snapshot, Earned, Spent
  <2> QED
    BY <1>1, <1>4, <2>4, <2>8, <2>10, LedgerSettles
<1>6. CASE Msg.sender # MinterAddress
  <2>1. Open
    BY <1>1, <1>2, <1>3, <1>6 DEF Flight, Creating, Answering, Minting, Paying, Telling,
                                  FromMinter
  <2>2. Behind(1) /\ IsMessage(Msg)
    BY <1>3, <2>1, ExternalMessage DEF Open
  <2>3. QueueTyped' /\ Behind(1 - 1)'
    BY <1>1, <1>2, <2>2, EmitsNothing
  <2> DEFINE to == Msg.recipient
             n == Msg.amount
  <2>4. n \in Nat /\ Give(Msg.sender, to, n)
    BY <1>1, <1>6, <2>2 DEF BankSend, IsMessage
  <2> HIDE DEF to, n
  <2>5. /\ bank' \in [Account -> Int] /\ stray' \in [Account -> Int]
        /\ \A p \in Account : bank'[p] + stray'[p] = bank[p] + stray[p]
    BY <1>4, <2>4, Gives
  <2>6. Balanced(Snapshot)
    BY <1>1, <2>1, BalancedWhenOpen
  <2>7. Books(Snapshot)' /\ Balanced(Snapshot)'
    BY <1>1, <1>4, <2>5, <2>6, BooksKept, BalanceKept
  <2> QED
    BY <1>1, <1>4, <2>3, <2>7, LedgerSettles
<1> QED
  BY <1>5, <1>6

LEMMA SendLedger == IInv /\ LedgerInv /\ Send => LedgerInv'
<1> SUFFICES ASSUME IInv, LedgerInv, Send PROVE LedgerInv'
  OBVIOUS
<1> DEFINE m == [op |-> "receive", sender |-> CollectionAddress, funds |-> <<>>,
                 contract |-> Msg.contract, tokenId |-> Msg.tokenId]
<1>1. /\ Execute /\ ~Idle /\ tx.queue # <<>> /\ Msg.op = "send" /\ Emit(<<m>>)
      /\ UNCHANGED <<SaleVars, bank, stray>>
  BY DEF Execute, Send, Unpaid, Running, minterVars, ghosts, SaleVars
<1>2. m.op = "receive"
  OBVIOUS
<1>3. Open /\ Behind(1) /\ QueueTyped
  BY <1>1, CallInSettledState DEF IInv
<1> HIDE DEF m
<1>4. QueueTyped' /\ Behind(1)' /\ tx'.queue[1] = m
  BY <1>1, <1>3, EmitsOne
<1>5. ~DueAt(2)'
  BY <1>4, NothingDue, PTL
<1>6. Balanced(Snapshot)' /\ Books(Snapshot)' /\ issued \subseteq issued'
  BY <1>1, <1>3, BalancedWhenOpen, LedgerKept DEF LedgerInv
<1>7. Accounts'
  BY <1>2, <1>4, <1>5, <1>6 DEF Accounts, DueAt, FromMinter
<1> QED
  BY <1>1, <1>6, <1>7, LedgerContinues

LEMMA ReceiveLedger == IInv /\ LedgerInv /\ Receive => LedgerInv'
<1> SUFFICES ASSUME IInv, LedgerInv, Receive PROVE LedgerInv'
  OBVIOUS
<1>1. /\ Execute /\ ~Idle /\ tx.queue # <<>> /\ Msg.op = "receive"
      /\ UNCHANGED <<SaleVars, bank, stray>>
  BY DEF Execute, Receive, Running, minterVars, ghosts, SaleVars
<1>2. QueueTyped /\ Flight
  BY <1>1 DEF IInv
<1>3. Msg = tx.queue[1] /\ (Behind(0) => Msg \in External)
  BY <1>1, <1>2, Leading
<1>4. Behind(1)
  BY <1>1, <1>2, <1>3, ExternalMessage
     DEF Flight, Open, Creating, Answering, Minting, Paying, Telling, FromMinter, IsMessage
<1>5. ~DueAt(1) /\ ~DueAt(2) /\ ~Overpaid
  BY <1>1, <1>2, <1>3, <1>4, NothingDue DEF DueAt, Overpaid, FromMinter
<1>6. Balanced(Snapshot)' /\ Books(Snapshot)' /\ issued \subseteq issued'
  BY <1>1, <1>5, BalancedNow, LedgerKept DEF LedgerInv
<1>7. CASE Emit(<<>>)
  <2>1. QueueTyped' /\ Behind(1 - 1)'
    BY <1>1, <1>2, <1>4, <1>7, EmitsNothing
  <2> QED
    BY <1>1, <1>6, <2>1, LedgerSettles
<1>8. ASSUME NEW r \in Reaction, Emit(<<r>>) PROVE LedgerInv'
  <2>1. QueueTyped' /\ Behind(1)' /\ tx'.queue[1] = r
    BY <1>1, <1>2, <1>4, <1>8, EmitsOne
  <2>2. Behind(0)'
    BY <2>1 DEF Behind, External
  <2> QED
    BY <1>1, <1>6, <2>1, <2>2, LedgerSettles
<1> QED
  BY <1>7, <1>8 DEF Receive

LEMMA ReplyLedger == IInv /\ LedgerInv /\ Reply => LedgerInv'
<1> SUFFICES ASSUME IInv, LedgerInv, Reply PROVE LedgerInv'
  OBVIOUS
<1>1. /\ Execute /\ ~Idle /\ tx.queue # <<>> /\ Msg.op = "reply" /\ Emit(<<>>)
      /\ UNCHANGED <<SaleVars, bank, stray>>
  BY DEF Execute, Reply, M!Reply, Running, ghosts, SaleVars
<1>2. QueueTyped /\ Flight
  BY <1>1 DEF IInv
<1>3. Msg = tx.queue[1] /\ (Behind(0) => Msg \in External)
  BY <1>1, <1>2, Leading
<1>4. Behind(1)
  BY <1>1, <1>2, <1>3, ExternalMessage
     DEF Flight, Open, Creating, Answering, Minting, Paying, Telling, FromMinter, IsMessage
<1>5. ~DueAt(1) /\ ~DueAt(2) /\ ~Overpaid
  BY <1>1, <1>2, <1>3, <1>4, NothingDue DEF DueAt, Overpaid, FromMinter
<1>6. Balanced(Snapshot)' /\ Books(Snapshot)' /\ issued \subseteq issued'
  BY <1>1, <1>5, BalancedNow, LedgerKept DEF LedgerInv
<1>7. QueueTyped' /\ Behind(1 - 1)'
  BY <1>1, <1>2, <1>4, EmitsNothing
<1> QED
  BY <1>1, <1>6, <1>7, LedgerSettles

\* The collection exists only if no coins came with its instantiation.
LEMMA CwInstantiateLedger == IInv /\ LedgerInv /\ CwInstantiate => LedgerInv'
<1> SUFFICES ASSUME IInv, LedgerInv, CwInstantiate PROVE LedgerInv'
  OBVIOUS
<1>1. /\ Execute /\ ~Idle /\ tx.queue # <<>> /\ Msg.op = "cwInstantiate" /\ Emit(<<>>)
      /\ UNCHANGED <<SaleVars, bank, stray>>
  BY DEF Execute, CwInstantiate, Running, minterVars, ghosts, SaleVars
<1>2. QueueTyped /\ Flight
  BY <1>1 DEF IInv
<1>3. Msg = tx.queue[1] /\ (Behind(0) => Msg \in External)
  BY <1>1, <1>2, Leading
<1>4. Creating
  <2>1. ~Open
    BY <1>1, <1>3, ExternalMessage DEF Open, IsMessage
  <2> QED
    BY <1>1, <1>2, <1>3, <2>1 DEF Flight, Answering, Minting, Paying, Telling, FromMinter
<1>5. Msg.funds = <<>>
  BY DEF CwInstantiate, C!Instantiate, C!InstantiateAccepted
<1>6. ~DueAt(1) /\ ~DueAt(2) /\ ~Overpaid
  BY <1>1, <1>3, <1>4, <1>5 DEF DueAt, Overpaid, FromMinter, Creating
<1>7. Balanced(Snapshot)' /\ Books(Snapshot)' /\ issued \subseteq issued'
  BY <1>1, <1>6, BalancedNow, LedgerKept DEF LedgerInv
<1>8. QueueTyped' /\ Behind(2 - 1)'
  BY <1>1, <1>2, <1>4, EmitsNothing DEF Creating
<1>9. tx'.queue[1] = tx.queue[2]
  <2>1. \A i \in 1 .. Len(tx'.queue) : tx'.queue[i] = tx.queue[i + 1]
    BY <1>1, <1>2, <1>4, EmitsNothing DEF Creating
  <2>2. 1 <= Len(tx'.queue) /\ Len(tx'.queue) \in Nat
    BY <1>8, LenProperties DEF Behind, QueueTyped
  <2> QED
    BY <2>1, <2>2
<1>10. Behind(1)'
  BY <1>8
<1>11. ~DueAt(2)'
  BY <1>8, <1>10, NothingDue, PTL
<1>12. Accounts'
  BY <1>4, <1>7, <1>9, <1>11 DEF Accounts, Creating, DueAt, FromMinter
<1> QED
  BY <1>1, <1>7, <1>12, LedgerContinues

\* The token is there, the payment is next.
LEMMA CwMintLedger == IInv /\ LedgerInv /\ CwMint => LedgerInv'
<1> SUFFICES ASSUME IInv, LedgerInv, CwMint PROVE LedgerInv'
  OBVIOUS
<1>1. /\ Execute /\ ~Idle /\ tx.queue # <<>> /\ Msg.op = "cwMint" /\ Emit(<<>>)
      /\ UNCHANGED <<SaleVars, bank, stray>>
  BY DEF Execute, CwMint, Unpaid, Running, minterVars, ghosts, SaleVars
<1>2. Typed(Snapshot) /\ QueueTyped /\ Flight
  BY <1>1 DEF IInv
<1>3. Msg = tx.queue[1] /\ (Behind(0) => Msg \in External)
  BY <1>1, <1>2, Leading
<1>4. Minting
  <2>1. Msg.sender = MinterAddress
    BY <1>2 DEF CwMint, C!Mint, C!MintAccepted, Typed, Snapshot
  <2>2. ~Open
    BY <1>3, <2>1, ExternalMessage DEF Open
  <2> QED
    BY <1>1, <1>2, <1>3, <2>2 DEF Flight, Creating, Answering, Paying, Telling, FromMinter
<1>5. ~DueAt(1) /\ DueAt(2)
  BY <1>1, <1>3, <1>4 DEF DueAt, FromMinter, Minting, Behind
<1>6. Owing(tx.queue[2])
  BY <1>1, <1>5 DEF LedgerInv, Accounts
<1>7. QueueTyped' /\ Behind(2 - 1)'
  BY <1>1, <1>2, <1>4, EmitsNothing DEF Minting
<1>8. 1 <= Len(tx'.queue) /\ Len(tx'.queue) \in Nat
  BY <1>7, LenProperties DEF Behind, QueueTyped
<1>9. tx'.queue[1] = tx.queue[2]
  <2>1. \A i \in 1 .. Len(tx'.queue) : tx'.queue[i] = tx.queue[i + 1]
    BY <1>1, <1>2, <1>4, EmitsNothing DEF Minting
  <2> QED
    BY <1>8, <2>1
<1>10. DueAt(1)'
  BY <1>4, <1>8, <1>9 DEF Minting, DueAt, FromMinter
<1>11. Owing(tx.queue[1])'
  BY <1>1, <1>6, <1>9 DEF Owing, Booked, Snapshot, SaleVars, Earned, Spent
<1>12. Books(Snapshot)' /\ issued \subseteq issued'
  BY <1>1, LedgerKept DEF LedgerInv
<1> QED
  BY <1>1, <1>10, <1>11, <1>12, LedgerContinues DEF Accounts

LEMMA InstantiateLedger == IInv /\ LedgerInv /\ Instantiate => LedgerInv'
<1> SUFFICES ASSUME IInv, LedgerInv, Instantiate PROVE LedgerInv'
  OBVIOUS
<1> DEFINE m == [op |-> "cwInstantiate", sender |-> MinterAddress,
                 funds |-> Msg.funds, info |-> Msg.info]
           n == [op |-> "reply", sender |-> MinterAddress, funds |-> <<>>]
<1>1. /\ Execute /\ ~Idle /\ tx.queue # <<>> /\ Msg.op = "instantiate" /\ Emit(<<m, n>>)
      /\ UNCHANGED <<SaleVars, stray>> /\ PayIn
  BY DEF Execute, Instantiate, M!Instantiate, Running, ghosts, SaleVars
<1>2. Open /\ Behind(1) /\ QueueTyped /\ IsMessage(Msg)
  BY <1>1, CallInSettledState DEF IInv
<1>3. /\ m.op = "cwInstantiate" /\ m.sender = MinterAddress /\ m.funds = Msg.funds
      /\ n.op = "reply"
  OBVIOUS
<1> HIDE DEF m, n
<1>4. QueueTyped' /\ Behind(2)' /\ tx'.queue[1] = m /\ tx'.queue[2] = n
  BY <1>1, <1>2, EmitsTwo
<1>5. Len(tx'.queue) \in Nat /\ 2 <= Len(tx'.queue)
  BY <1>4, LenProperties DEF QueueTyped, Behind
<1>6. ~DueAt(1)' /\ ~DueAt(2)'
  BY <1>3, <1>4 DEF DueAt, FromMinter
<1> DEFINE k == Amount(Msg.funds)
           from == Msg.sender
<1>7. /\ k \in Nat /\ Move(from, MinterAddress, k)
      /\ Msg.funds = <<>> => k = 0
  BY <1>1, <1>2, AmountOf DEF IsMessage, PayIn
<1>8. /\ Books(Snapshot) /\ bank \in [Account -> Int] /\ stray \in [Account -> Int]
      /\ UNCHANGED SaleVars /\ stray' = stray /\ issued' = issued
  BY <1>1 DEF LedgerInv, Books, Snapshot, SaleVars
<1> HIDE DEF k, from
<1>9. /\ bank' \in [Account -> Int]
      /\ \A p \in Account : bank'[p] = bank[p] + Gain(p, from, MinterAddress, k)
  BY <1>7, <1>8, Moves
<1>10. Books(Snapshot)'
  BY <1>8, <1>9, BooksKept
<1>11. CASE Msg.funds # <<>>
  <2>1. Overpaid'
    BY <1>3, <1>4, <1>5, <1>11 DEF Overpaid, FromMinter
  <2> QED
    BY <1>1, <1>6, <1>8, <1>10, <2>1, LedgerContinues DEF Accounts
<1>12. CASE Msg.funds = <<>>
  <2>1. \A p \in Account : bank'[p] + stray'[p] = bank[p] + stray[p]
    <3> TAKE p \in Account
    <3>1. Gain(p, from, MinterAddress, k) = 0
      BY <1>7, <1>12, GainInt
    <3> QED
      BY <1>8, <1>9, <3>1
  <2>2. Balanced(Snapshot)
    BY <1>1, <1>2, BalancedWhenOpen
  <2>3. Balanced(Snapshot)'
    BY <1>8, <2>1, <2>2, BalanceKept
  <2> QED
    BY <1>1, <1>6, <1>8, <1>10, <2>3, LedgerContinues DEF Accounts
<1> QED
  BY <1>11, <1>12

\* What a sale adds to the books.
LEMMA Recorded ==
  ASSUME Books(Snapshot), Typed(Snapshot), NEW new,
         new.paid \in Nat, new.paid = new.request.price,
         new.payer \in Account \ {MinterAddress},
         new.tokenId = tokenIndex + 1, new.request.uuid \notin uuids,
         issued' = issued \cup {new}, tokenIndex' = tokenIndex + 1,
         uuids' = uuids \cup {new.request.uuid},
         bank' \in [Account -> Int], stray' \in [Account -> Int]
  PROVE  /\ Books(Snapshot)'
         /\ \A p \in Account :
              Booked(Snapshot, p)' =
                Booked(Snapshot, p) + Gain(p, new.payer, new.request.primary_sale_recipient,
                                           new.paid)
<1>1. tokenIndex \in Nat
  BY ConstantFacts DEF Typed, Snapshot
<1>2. /\ IsFiniteSet(issued)
      /\ \A i \in issued :
           i.paid \in Nat /\ i.paid = i.request.price /\ i.payer \in Account \ {MinterAddress}
      /\ uuids = {i.request.uuid : i \in issued}
      /\ {i.tokenId : i \in issued} = 1 .. tokenIndex
      /\ \A i, j \in issued : i.request.uuid = j.request.uuid \/ i.tokenId = j.tokenId => i = j
  BY DEF Books, Snapshot
<1>3. new \notin issued
  BY <1>2
<1>4. Books(Snapshot)'
  <2>1. IsFiniteSet(issued')
    BY <1>2, FS_AddElement
  <2>2. uuids' = {i.request.uuid : i \in issued'}
    BY <1>2
  <2>3. {i.tokenId : i \in issued'} = 1 .. tokenIndex'
    <3>1. {i.tokenId : i \in issued'} = (1 .. tokenIndex) \cup {tokenIndex + 1}
      BY <1>2
    <3>2. (1 .. tokenIndex) \cup {tokenIndex + 1} = 1 .. (tokenIndex + 1)
      BY <1>1
    <3> QED
      BY <3>1, <3>2
  <2>4. \A i \in issued : i.request.uuid # new.request.uuid /\ i.tokenId # new.tokenId
    <3> TAKE i \in issued
    <3>1. i.tokenId \in 1 .. tokenIndex
      BY <1>2
    <3> QED
      BY <1>1, <1>2, <3>1
  <2>5. \A i, j \in issued' :
          i.request.uuid = j.request.uuid \/ i.tokenId = j.tokenId => i = j
    BY <1>2, <2>4
  <2>6. \A i \in issued' :
           i.paid \in Nat /\ i.paid = i.request.price /\ i.payer \in Account \ {MinterAddress}
    BY <1>2
  <2> QED
    BY <2>1, <2>2, <2>3, <2>5, <2>6 DEF Books, Snapshot
<1>5. Priced(issued) /\ Priced({new}) /\ issued \cap {new} = {}
  BY <1>2, <1>3, FS_Singleton DEF Priced
<1>6. ASSUME NEW p \in Account
      PROVE  Booked(Snapshot, p)' =
               Booked(Snapshot, p) + Gain(p, new.payer, new.request.primary_sale_recipient,
                                          new.paid)
  <2>1. /\ Earned(p, issued \cup {new}) = Earned(p, issued) + Earned(p, {new})
        /\ Spent(p, issued \cup {new}) = Spent(p, issued) + Spent(p, {new})
    BY <1>5, EarnedTwice
  <2>2. /\ Earned(p, {new}) =
             IF new.request.primary_sale_recipient = p THEN new.paid ELSE 0
        /\ Spent(p, {new}) = IF new.payer = p THEN new.paid ELSE 0
    BY EarnedOnce
  <2>3. /\ Earned(p, issued) \in Nat /\ Spent(p, issued) \in Nat
    BY <1>5, EarnedNat
  <2>4. Opening[p] \in Nat
    BY ComponentAssumption
  <2>5. Booked(Snapshot, p)' =
          Opening[p] + Earned(p, issued \cup {new}) - Spent(p, issued \cup {new})
    BY DEF Booked, Snapshot, Earned, Spent
  <2>6. Booked(Snapshot, p) = Opening[p] + Earned(p, issued) - Spent(p, issued)
    BY DEF Booked, Snapshot
  <2> QED
    BY <2>1, <2>2, <2>3, <2>4, <2>5, <2>6 DEF Gain
<1> QED
  BY <1>4, <1>6

LEMMA BookedInt ==
  ASSUME Books(Snapshot), NEW p \in Account
  PROVE  Booked(Snapshot, p) \in Int
<1>1. Priced(issued)
  BY DEF Books, Priced, Snapshot
<1>2. Earned(p, issued) \in Nat /\ Spent(p, issued) \in Nat
  BY <1>1, EarnedNat
<1>3. Opening[p] \in Nat
  BY ComponentAssumption
<1> QED
  BY <1>2, <1>3 DEF Booked, Snapshot

\* The buyer's coins are with the minter, and its second message owes them to the
\* seller.
LEMMA MintLedger == IInv /\ LedgerInv /\ Mint => LedgerInv'
<1> SUFFICES ASSUME IInv, LedgerInv, Mint PROVE LedgerInv'
  OBVIOUS
<1> DEFINE m == MintMessage(tokenIndex + 1)
           n == Proceeds
           new == M!Receipt(Msg.sender, Msg.funds, Msg.request, tokenIndex + 1)
           to == Msg.request.primary_sale_recipient
           k == Amount(Msg.funds)
<1>1. /\ Execute /\ ~Idle /\ tx.queue # <<>> /\ Msg.op = "mint" /\ Emit(<<m, n>>)
      /\ PayIn /\ UNCHANGED stray
  BY DEF Execute, Mint, Running, ghosts
<1>2. Open /\ Behind(1) /\ QueueTyped /\ Typed(Snapshot) /\ IsMessage(Msg)
      /\ Msg.sender \in Account /\ Msg.sender # MinterAddress
  BY <1>1, CallInSettledState DEF IInv
<1>3. /\ uuids' = uuids \cup {new.request.uuid}
      /\ tokenIndex' = tokenIndex + 1 /\ issued' = issued \cup {new}
      /\ new.request.uuid \notin uuids /\ to \in Account
      /\ Len(Msg.funds) = 1 /\ Msg.funds[1].amount = new.request.price
  BY DEF Mint, M!Mint, M!MintAccepted, M!PaysExactly, M!Receipt
<1>4. k \in Nat /\ k = Msg.funds[1].amount
  BY <1>2, <1>3, AmountOf DEF IsMessage
<1>5. /\ new.paid = k /\ new.payer = Msg.sender /\ new.tokenId = tokenIndex + 1
      /\ new.request.primary_sale_recipient = to /\ new.request.price = k
  BY <1>3, <1>4 DEF M!Receipt
<1>6. /\ m.op = "cwMint" /\ n.op = "bankSend" /\ n.sender = MinterAddress
      /\ n.recipient = to /\ n.amount = k
  BY DEF MintMessage, Proceeds
<1>7. Move(Msg.sender, MinterAddress, k)
  BY <1>1 DEF PayIn
<1> HIDE DEF m, n, new, to, k
<1>8. QueueTyped' /\ Behind(2)' /\ tx'.queue[1] = m /\ tx'.queue[2] = n
  BY <1>1, <1>2, EmitsTwo
<1>9. Len(tx'.queue) \in Nat /\ 2 <= Len(tx'.queue)
  BY <1>8, LenProperties DEF QueueTyped, Behind
<1>10. ~DueAt(1)' /\ DueAt(2)'
  BY <1>6, <1>8, <1>9 DEF DueAt, FromMinter
<1>11. Books(Snapshot) /\ bank \in [Account -> Int] /\ stray \in [Account -> Int]
  BY DEF LedgerInv, Books, Snapshot
<1>12. /\ bank' \in [Account -> Int]
       /\ \A p \in Account : bank'[p] = bank[p] + Gain(p, Msg.sender, MinterAddress, k)
  BY <1>4, <1>7, <1>11, Moves
<1>13. /\ Books(Snapshot)'
       /\ \A p \in Account :
            Booked(Snapshot, p)' = Booked(Snapshot, p) + Gain(p, Msg.sender, to, k)
  BY <1>1, <1>2, <1>3, <1>4, <1>5, <1>11, <1>12, Recorded
<1>14. Balanced(Snapshot)
  BY <1>1, <1>2, BalancedWhenOpen
<1>15. \A p \in Account :
         bank'[p] + stray'[p] + Gain(p, MinterAddress, to, k) = Booked(Snapshot, p)'
  <2> TAKE p \in Account
  <2>1. bank[p] \in Int /\ stray[p] \in Int /\ stray'[p] = stray[p]
    BY <1>1, <1>11
  <2>2. bank[p] + stray[p] = Booked(Snapshot, p) /\ Booked(Snapshot, p) \in Int
    BY <1>11, <1>14, BookedInt DEF Balanced, Snapshot
  <2>3. Gain(p, Msg.sender, MinterAddress, k) + Gain(p, MinterAddress, to, k)
          = Gain(p, Msg.sender, to, k)
    BY <1>4 DEF Gain
  <2>4. /\ Gain(p, Msg.sender, MinterAddress, k) \in Int
        /\ Gain(p, MinterAddress, to, k) \in Int /\ Gain(p, Msg.sender, to, k) \in Int
    BY <1>4, GainInt
  <2> QED
    BY <1>12, <1>13, <2>1, <2>2, <2>3, <2>4
<1>16. Owing(tx.queue[2])'
  BY <1>3, <1>4, <1>6, <1>8, <1>15 DEF Owing
<1> QED
  BY <1>1, <1>3, <1>10, <1>13, <1>16, LedgerContinues DEF Accounts

LEMMA LedgerInit == Init => LedgerInv
<1> SUFFICES ASSUME Init PROVE LedgerInv
  OBVIOUS
<1>1. /\ issued = {} /\ uuids = {} /\ tokenIndex = 0 /\ Idle
      /\ bank = Opening /\ stray = [a \in Account |-> 0]
  BY DEF Init, M!Init, Idle
<1>2. Opening \in [Account -> Nat] /\ 1 .. 0 = {}
  BY ComponentAssumption
<1>3. IsFiniteSet({})
  BY FS_EmptySet
<1>4. Books(Snapshot)
  BY <1>1, <1>2, <1>3 DEF Books, Snapshot
<1>5. \A p \in Account : Earned(p, {}) = 0 /\ Spent(p, {}) = 0
  <2> TAKE p \in Account
  <2>1. PICK x : x = [paid |-> 0]
    OBVIOUS
  <2>2. x.paid \in Nat
    BY <2>1
  <2> QED
    BY <2>2, EarnedOnce
<1>6. Balanced(Snapshot)
  BY <1>1, <1>2, <1>5 DEF Balanced, Booked, Snapshot
<1> QED
  BY <1>1, <1>4, <1>6 DEF LedgerInv

LEMMA ChainLedger ==
  IInv /\ LedgerInv /\ (Begin \/ Commit \/ Abort \/ Tick \/ UNCHANGED vars) => LedgerInv'
<1> SUFFICES ASSUME IInv, LedgerInv, Begin \/ Commit \/ Abort \/ Tick \/ UNCHANGED vars
             PROVE  LedgerInv'
  OBVIOUS
<1>1. CASE Begin
  <2>1. PICK t \in Transaction :
          tx' = [status |-> "executing", queue |-> t, saved |-> Snapshot, steps |-> 0,
                 senders |-> {}]
    BY <1>1 DEF Begin
  <2>2. ~Idle' /\ tx'.saved = Snapshot /\ tx'.queue = t
    BY <2>1 DEF Idle
  <2>3. Books(Snapshot) /\ Balanced(Snapshot)
    BY <1>1 DEF LedgerInv, Begin
  <2>4. /\ Snapshot' = Snapshot /\ issued' = issued
        /\ UNCHANGED <<SaleVars, bank, stray>>
    BY <1>1 DEF Begin, Snapshot, minterVars, collectionVars, ghosts, SaleVars
  <2>5. Books(Snapshot)' /\ Balanced(Snapshot)'
    BY <2>3, <2>4, LedgerKept
  <2>6. Books(tx.saved)' /\ Balanced(tx.saved)'
    BY <2>2, <2>3 DEF Books, Balanced, Booked, Earned, Spent
  <2>7. t \in Seq(Posted)
    BY TransactionAssumption
  <2>8. t \in Seq(ToSet(t)) /\ Len(t) \in Nat /\ \A i \in 1 .. Len(t) : t[i] \in Posted
    BY <2>7, OwnElements
  <2>9. QueueTyped' /\ Behind(0)'
    BY <2>2, <2>8 DEF QueueTyped, Behind, External
  <2>10. ~DueAt(1)' /\ ~DueAt(2)'
    BY <2>9, NothingDue, PTL
  <2>11. tx'.saved.issued \subseteq issued'
    BY <2>2, <2>4 DEF Snapshot
  <2> QED
    BY <2>2, <2>5, <2>6, <2>10, <2>11 DEF LedgerInv, Accounts
<1>2. CASE Commit
  <2>1. ~Idle /\ tx.queue = <<>> /\ Idle' /\ UNCHANGED <<SaleVars, bank, stray>>
    BY <1>2 DEF Commit, Idle, minterVars, ghosts, SaleVars
  <2>2. ~DueAt(1) /\ ~DueAt(2) /\ ~Overpaid
    BY <2>1, EmptySeq DEF DueAt, Overpaid
  <2>3. Books(Snapshot) /\ Balanced(Snapshot)
    BY <2>1, <2>2, BalancedNow DEF LedgerInv
  <2> QED
    BY <2>1, <2>3, LedgerKept DEF LedgerInv
<1>3. CASE Abort
  <2>1. ~Idle /\ Idle' /\ Restore(tx.saved)
    BY <1>3 DEF Abort, Idle
  <2>2. Books(tx.saved) /\ Balanced(tx.saved)
    BY <2>1 DEF LedgerInv
  <2>3. Books(Snapshot)'
    BY <2>1, <2>2 DEF Restore, Snapshot, Books
  <2>4. Balanced(Snapshot)'
    BY <2>1, <2>2 DEF Restore, Snapshot, Balanced, Booked, Earned, Spent
  <2> QED
    BY <2>1, <2>3, <2>4 DEF LedgerInv
<1>4. CASE Tick
  <2>1. Idle /\ Idle' /\ UNCHANGED <<SaleVars, bank, stray>>
    BY <1>4 DEF Tick, Idle, minterVars, ghosts, SaleVars
  <2>2. Books(Snapshot) /\ Balanced(Snapshot)
    BY <2>1 DEF LedgerInv
  <2> QED
    BY <2>1, <2>2, LedgerKept DEF LedgerInv
<1>5. CASE UNCHANGED vars
  <2>1. UNCHANGED <<SaleVars, bank, stray>> /\ tx' = tx /\ Snapshot' = Snapshot
    BY <1>5 DEF vars, minterVars, collectionVars, ghosts, SaleVars, Snapshot
  <2>2. Books(Snapshot)' /\ (Balanced(Snapshot) => Balanced(Snapshot)')
    BY <2>1, LedgerKept DEF LedgerInv
  <2>3. Idle' <=> Idle
    BY <2>1 DEF Idle
  <2>4. Idle => LedgerInv'
    BY <2>2, <2>3 DEF LedgerInv
  <2>5. ASSUME ~Idle PROVE LedgerInv'
    <3>1. Books(tx.saved) /\ Balanced(tx.saved) /\ tx.saved.issued \subseteq issued
      BY <2>5 DEF LedgerInv
    <3>2. Books(tx.saved)' /\ Balanced(tx.saved)' /\ tx'.saved.issued \subseteq issued'
      BY <2>1, <3>1 DEF Books, Balanced, Booked, Earned, Spent, SaleVars
    <3>3. /\ DueAt(1)' <=> DueAt(1)
          /\ DueAt(2)' <=> DueAt(2)
          /\ Overpaid' <=> Overpaid
      BY <2>1 DEF DueAt, Overpaid, FromMinter
    <3>4. /\ Owing(tx.queue[1]) => Owing(tx.queue[1])'
          /\ Owing(tx.queue[2]) => Owing(tx.queue[2])'
      BY <2>1 DEF Owing, Booked, Snapshot, SaleVars, Earned, Spent
    <3>5. Accounts'
      BY <2>2, <2>5, <3>3, <3>4 DEF LedgerInv, Accounts
    <3> QED
      BY <2>2, <2>3, <2>5, <3>2, <3>5 DEF LedgerInv
  <2> QED
    BY <2>4, <2>5
<1> QED
  BY <1>1, <1>2, <1>3, <1>4, <1>5

LEMMA LedgerStep == IInv /\ LedgerInv /\ [Next]_vars => LedgerInv'
<1> SUFFICES ASSUME IInv, LedgerInv, [Next]_vars PROVE LedgerInv'
  OBVIOUS
<1>1. CASE Execute
  BY <1>1, InstantiateLedger, ReplyLedger, MintLedger, AdministrateLedger, BankSendLedger,
     CwInstantiateLedger, CwMintLedger, CollectionCallLedger, SendLedger, ReceiveLedger
     DEF Execute
<1> QED
  BY <1>1, ChainLedger DEF Next

\* At every message boundary the receipts and the balances are those of the sales made,
\* but for one payment or one refused instantiation at the front of the queue.
THEOREM LedgerInvariance == Spec => []LedgerInv
BY LedgerInit, LedgerStep, Invariance, PTL DEF Spec

-----------------------------------------------------------------------------
(* Escrow *)

\* The payments the minter has outstanding: at most one.
LEMMA DuePayments ==
  ASSUME IInv
  PROVE  Pending("bankSend") =
           IF ~Idle /\ DueAt(1) THEN {tx.queue[1]}
           ELSE IF ~Idle /\ DueAt(2) THEN {tx.queue[2]} ELSE {}
<1>1. CASE Idle
  BY <1>1 DEF Pending
<1>2. CASE ~Idle
  <2> DEFINE P == {m \in ToSet(tx.queue) : m.op = "bankSend" /\ m.sender = MinterAddress}
  <2>1. QueueTyped /\ Flight
    BY <1>2 DEF IInv
  <2>2. Len(tx.queue) \in Nat /\ DOMAIN tx.queue = 1 .. Len(tx.queue)
    BY <2>1, LenProperties DEF QueueTyped
  <2>3. P = Pending("bankSend")
    BY <1>2 DEF Pending
  <2>4. Behind(2) \/ Behind(1) \/ Behind(0)
    BY <2>1 DEF Flight, Open, Creating, Answering, Minting, Paying, Telling
  <2>5. ASSUME NEW i \in 1 .. Len(tx.queue), tx.queue[i] \in P
        PROVE  (i = 1 \/ i = 2) /\ DueAt(i)
    <3>1. tx.queue[i].op = "bankSend" /\ tx.queue[i].sender = MinterAddress
      BY <2>5
    <3>2. DueAt(i)
      BY <3>1 DEF DueAt, FromMinter
    <3>3. tx.queue[i] \notin External
      BY <3>1, ExternalMessage
    <3>4. i = 1 \/ i = 2
      BY <2>2, <2>4, <3>3 DEF Behind
    <3> QED
      BY <3>2, <3>4
  <2>6. \A m \in P : \E i \in 1 .. Len(tx.queue) : m = tx.queue[i]
    BY <2>2 DEF ToSet
  <2>7. /\ DueAt(1) => tx.queue[1] \in P
        /\ DueAt(2) => tx.queue[2] \in P
    BY <2>2 DEF DueAt, FromMinter, ToSet
  <2>8. ~(DueAt(1) /\ DueAt(2))
    BY <2>1, NothingDue
       DEF Flight, Open, Creating, Answering, Minting, Paying, Telling, DueAt, FromMinter
  <2> HIDE DEF P
  <2>9. P = IF DueAt(1) THEN {tx.queue[1]} ELSE IF DueAt(2) THEN {tx.queue[2]} ELSE {}
    BY <2>5, <2>6, <2>7, <2>8
  <2> QED
    BY <1>2, <2>3, <2>9
<1> QED
  BY <1>1, <1>2

\* What the minter holds beyond its own is the proceeds it has not passed on: the two
\* messages of execute_mint, and the coins nobody asked for.
THEOREM EscrowIsWhatIsOwed == Spec => []EscrowMatchesPending
<1>1. IInv /\ LedgerInv => EscrowMatchesPending
  <2> SUFFICES ASSUME IInv, LedgerInv, ~awaitingReply PROVE EscrowMatchesPending
    BY DEF EscrowMatchesPending
  <2> DEFINE income == {i \in issued : i.request.primary_sale_recipient = MinterAddress}
             due == Pending("bankSend")
             own == {m \in due : m.recipient = MinterAddress}
             amounts(S) == SumFunction([m \in S |-> m.amount])
             earned == SumFunction([i \in income |-> i.paid])
             B == bank[MinterAddress]
             R == stray[MinterAddress]
  <2>1. MinterAddress \in Account /\ Opening[MinterAddress] \in Nat
    BY ConstantFacts, ComponentAssumption
  <2>2. B \in Int /\ R \in Int /\ Books(Snapshot) /\ Priced(issued)
    BY <2>1 DEF LedgerInv, Books, Snapshot, Priced
  <2>3. Earned(MinterAddress, issued) = earned /\ earned \in Nat
    BY <2>2, PaidIsSum, EarnedNat DEF Earned, AbstractSale!Earned
  <2>4. Spent(MinterAddress, issued) = 0
    <3>1. {s \in issued : s.payer = MinterAddress} = {}
      BY <2>2 DEF Books, Snapshot
    <3> QED
      BY <3>1, PaidNothing DEF Spent, AbstractSale!Spent
  <2>5. Booked(Snapshot, MinterAddress) = Opening[MinterAddress] + earned
    BY <2>1, <2>3, <2>4 DEF Booked, Snapshot
  <2>6. amounts({}) = 0
    BY SumOfNothing
  <2>7. ASSUME NEW m, m.amount \in Nat PROVE amounts({m}) = m.amount
    <3> DEFINE f == [x \in {m} |-> x.amount]
    <3>1. f \in [{m} -> Nat] /\ f[m] = m.amount
      BY <2>7
    <3> HIDE DEF f
    <3>2. SumFunction(f) = m.amount
      BY <3>1, SumOfOne
    <3> QED
      BY <3>2 DEF f
  <2> HIDE DEF amounts, earned, B, R
  <2>8. CASE Idle \/ (~DueAt(1) /\ ~DueAt(2))
    <3>1. due = {}
      BY <2>8, DuePayments
    <3>2. Balanced(Snapshot)
      <4>1. CASE Idle
        BY <4>1 DEF LedgerInv
      <4>2. CASE ~Idle
        <5>1. QueueTyped /\ Flight
          BY <4>2 DEF IInv
        <5>2. ~Overpaid
          BY <5>1, NothingDue
             DEF Flight, Open, Creating, Answering, Minting, Paying, Telling, Overpaid,
                 FromMinter
        <5> QED
          BY <2>8, <4>2, <5>2, BalancedNow
      <4> QED
        BY <4>1, <4>2
    <3>3. B + R = Opening[MinterAddress] + earned
      BY <2>1, <2>5, <3>2 DEF Balanced, Snapshot, B, R
    <3>4. own = {}
      BY <3>1
    <3>5. B = Opening[MinterAddress] - R + earned + amounts(due) - amounts(own)
      BY <2>1, <2>2, <2>3, <2>6, <3>1, <3>3, <3>4
    <3> QED
      BY <3>5 DEF EscrowMatchesPending, B, R, earned, amounts
  <2>9. CASE ~Idle /\ (DueAt(1) \/ DueAt(2))
    <3>1. PICK m : due = {m} /\ Owing(m)
      BY <2>9, DuePayments DEF LedgerInv, Accounts
    <3>2. m.amount \in Nat
      BY <3>1 DEF Owing
    <3>3. B + R + Gain(MinterAddress, MinterAddress, m.recipient, m.amount)
            = Opening[MinterAddress] + earned
      BY <2>1, <2>5, <3>1 DEF Owing, B, R
    <3>4. amounts(due) = m.amount
      BY <2>7, <3>1, <3>2
    <3>5. amounts(own) = IF m.recipient = MinterAddress THEN m.amount ELSE 0
      <4>1. own = IF m.recipient = MinterAddress THEN {m} ELSE {}
        BY <3>1
      <4> QED
        BY <2>6, <2>7, <3>2, <4>1
    <3> HIDE DEF own, due
    <3>6. B = Opening[MinterAddress] - R + earned + amounts(due) - amounts(own)
      BY <2>1, <2>2, <2>3, <3>2, <3>3, <3>4, <3>5 DEF Gain
    <3> QED
      BY <3>6 DEF EscrowMatchesPending, B, R, earned, amounts, own, due
  <2> QED
    BY <2>8, <2>9
<1> QED
  BY <1>1, Invariance, LedgerInvariance, PTL

-----------------------------------------------------------------------------
(* Delivery against payment *)

LEMMA CardinalityIsIt == \A S : AbstractSale!Cardinality(S) = Cardinality(S)
BY DEF AbstractSale!Cardinality, Cardinality

\* What the abstract sale sees of a state.
Delivered(s) == {t \in 1 .. MaxIndex : s.tokens[t] # None} \cup s.burned
Wealth(s) == [a \in Account |-> s.bank[a] + s.stray[a]]

LEMMA AsMany ==
  ASSUME NEW S, NEW T, IsFiniteSet(S), NEW f \in Bijection(S, T)
  PROVE  IsFiniteSet(T) /\ Cardinality(T) = Cardinality(S)
<1>1. ExistsBijection(S, T)
  BY DEF ExistsBijection
<1> QED
  BY <1>1, FS_Bijection

\* In a settled state as many tokens are delivered as there are receipts.
LEMMA SettledSale ==
  ASSUME NEW s, Typed(s), Settled(s), Books(s)
  PROVE  /\ s.tokenIndex \in Nat
         /\ Delivered(s) = 1 .. s.tokenIndex
         /\ Cardinality(s.issued) = s.tokenIndex
<1>1. s.tokenIndex \in Nat
  BY ConstantFacts DEF Typed
<1>2. Delivered(s) = 1 .. s.tokenIndex
  BY DEF Settled, Counted, Present, Delivered
<1> DEFINE I == s.issued
           N == 1 .. s.tokenIndex
           number == [i \in I |-> i.tokenId]
<1>3. number \in Bijection(I, N)
  <2>1. {i.tokenId : i \in I} = N /\ \A i, j \in I : i.tokenId = j.tokenId => i = j
    BY DEF Books
  <2> QED
    BY <2>1 DEF Bijection, Injection, Surjection, IsInjective
<1>4. IsFiniteSet(I)
  BY DEF Books
<1>5. IsFiniteSet(N) /\ Cardinality(N) = s.tokenIndex
  BY <1>1, FS_Interval
<1> HIDE DEF number, I, N
<1>6. Cardinality(I) = Cardinality(N)
  BY <1>3, <1>4, AsMany
<1> QED
  BY <1>1, <1>2, <1>5, <1>6 DEF I

\* What a step of the abstract sale does to a state.
Sells(s, t, batch) ==
  /\ t.issued = s.issued \cup batch
  /\ \A p \in Account :
       Wealth(t)[p] = Wealth(s)[p] + Earned(p, batch) - Spent(p, batch)
  /\ Delivered(t) = Delivered(s) \cup {i.tokenId : i \in batch}
  /\ {i.tokenId : i \in batch} =
       (Cardinality(s.issued) + 1) .. (Cardinality(s.issued) + Cardinality(batch))
  /\ {i.request.uuid : i \in batch} \cap {i.request.uuid : i \in s.issued} = {}
  /\ Cardinality({i.request.uuid : i \in batch}) = Cardinality(batch)
  /\ \A i \in batch : i.paid = i.request.price
  /\ batch = {} => Delivered(t) = Delivered(s) /\ Wealth(t) = Wealth(s)

\* The sales of one transaction are one step of the abstract sale, if there are any.
LEMMA Redeems ==
  ASSUME NEW s, NEW t, Books(s), Books(t), Balanced(s), Balanced(t),
         Typed(s), Typed(t), Settled(s), Settled(t),
         s.issued \subseteq t.issued,
         NEW batch, batch = t.issued \ s.issued
  PROVE  Sells(s, t, batch)
<1>1. /\ t.issued = s.issued \cup batch /\ s.issued \cap batch = {}
      /\ batch \subseteq t.issued
  OBVIOUS
<1>2. /\ IsFiniteSet(t.issued) /\ IsFiniteSet(s.issued) /\ IsFiniteSet(batch)
      /\ \A i \in t.issued : i.paid \in Nat /\ i.paid = i.request.price
  BY <1>1, FS_Subset DEF Books
<1>3. Priced(s.issued) /\ Priced(batch)
  BY <1>1, <1>2 DEF Priced
<1>4. ASSUME NEW p \in Account
      PROVE  Wealth(t)[p] = Wealth(s)[p] + Earned(p, batch) - Spent(p, batch)
  <2>1. /\ Earned(p, t.issued) = Earned(p, s.issued) + Earned(p, batch)
        /\ Spent(p, t.issued) = Spent(p, s.issued) + Spent(p, batch)
    <3>1. /\ Earned(p, s.issued \cup batch) = Earned(p, s.issued) + Earned(p, batch)
          /\ Spent(p, s.issued \cup batch) = Spent(p, s.issued) + Spent(p, batch)
      BY <1>1, <1>3, EarnedTwice
    <3> QED
      BY <1>1, <3>1
  <2>2. /\ Earned(p, s.issued) \in Nat /\ Earned(p, batch) \in Nat
        /\ Spent(p, s.issued) \in Nat /\ Spent(p, batch) \in Nat
    BY <1>3, EarnedNat
  <2>3. Opening[p] \in Nat
    BY ComponentAssumption
  <2>4. /\ Wealth(t)[p] = Opening[p] + Earned(p, t.issued) - Spent(p, t.issued)
        /\ Wealth(s)[p] = Opening[p] + Earned(p, s.issued) - Spent(p, s.issued)
    BY DEF Balanced, Booked, Wealth
  <2> QED
    BY <2>1, <2>2, <2>3, <2>4
<1>5. /\ s.tokenIndex \in Nat /\ t.tokenIndex \in Nat
      /\ Delivered(s) = 1 .. s.tokenIndex /\ Delivered(t) = 1 .. t.tokenIndex
      /\ Cardinality(s.issued) = s.tokenIndex /\ Cardinality(t.issued) = t.tokenIndex
  BY SettledSale
<1>6. Cardinality(batch) = t.tokenIndex - s.tokenIndex /\ Cardinality(batch) \in Nat
  <2>1. Cardinality(t.issued) =
          Cardinality(s.issued) + Cardinality(batch) - Cardinality(s.issued \cap batch)
    BY <1>1, <1>2, FS_Union
  <2>2. Cardinality(s.issued \cap batch) = 0
    BY <1>1, FS_EmptySet
  <2>3. Cardinality(batch) \in Nat
    BY <1>2, FS_CardinalityType
  <2> QED
    BY <1>5, <2>1, <2>2, <2>3
<1>7. {i.tokenId : i \in batch} = (s.tokenIndex + 1) .. t.tokenIndex
  <2>1. /\ {i.tokenId : i \in t.issued} = 1 .. t.tokenIndex
        /\ {i.tokenId : i \in s.issued} = 1 .. s.tokenIndex
        /\ \A i, j \in t.issued : i.tokenId = j.tokenId => i = j
    BY DEF Books
  <2>2. {i.tokenId : i \in batch} = (1 .. t.tokenIndex) \ (1 .. s.tokenIndex)
    BY <1>1, <2>1
  <2>3. (1 .. t.tokenIndex) \ (1 .. s.tokenIndex) = (s.tokenIndex + 1) .. t.tokenIndex
    BY <1>5
  <2> QED
    BY <2>2, <2>3
<1>8. {i.tokenId : i \in batch} =
        (Cardinality(s.issued) + 1) .. (Cardinality(s.issued) + Cardinality(batch))
  BY <1>5, <1>6, <1>7
<1>9. Delivered(t) = Delivered(s) \cup {i.tokenId : i \in batch}
  BY <1>5, <1>6, <1>7
<1>10. \A i, j \in t.issued : i.request.uuid = j.request.uuid => i = j
  BY DEF Books
<1>11. {i.request.uuid : i \in batch} \cap {i.request.uuid : i \in s.issued} = {}
  BY <1>1, <1>10
<1>12. Cardinality({i.request.uuid : i \in batch}) = Cardinality(batch)
  <2> DEFINE U == {i.request.uuid : i \in batch}
             uuid == [i \in batch |-> i.request.uuid]
  <2>1. uuid \in Bijection(batch, U)
    BY <1>1, <1>10 DEF Bijection, Injection, Surjection, IsInjective
  <2> HIDE DEF uuid, U
  <2>2. Cardinality(U) = Cardinality(batch)
    BY <1>2, <2>1, AsMany
  <2> QED
    BY <2>2 DEF U
<1>13. ASSUME batch = {} PROVE Delivered(t) = Delivered(s) /\ Wealth(t) = Wealth(s)
  <2>1. t.tokenIndex = s.tokenIndex
    BY <1>5, <1>6, <1>13, FS_EmptySet
  <2>2. \A p \in Account : Wealth(t)[p] = Wealth(s)[p]
    BY <1>1, <1>13 DEF Balanced, Booked, Wealth
  <2> QED
    BY <1>5, <2>1, <2>2 DEF Wealth
<1> QED
  BY <1>1, <1>2, <1>4, <1>8, <1>9, <1>11, <1>12, <1>13 DEF Sells

LEMMA SaleInit == Init => AbstractSale!Init
<1> SUFFICES ASSUME Init PROVE AbstractSale!Init
  OBVIOUS
<1>1. /\ Idle /\ issued = {} /\ burned = {} /\ bank = Opening
      /\ stray = [a \in Account |-> 0]
      /\ tokens = [t \in 1 .. MaxIndex |-> None]
  BY DEF Init, M!Init, C!Init, Idle
<1>2. Committed = Snapshot
  BY <1>1 DEF Committed
<1>3. /\ Committed.issued = {} /\ Committed.burned = {}
      /\ {t \in 1 .. MaxIndex : Committed.tokens[t] # None} = {}
  BY <1>1, <1>2 DEF Snapshot
<1>4. [a \in Account |-> Committed.bank[a] + Committed.stray[a]] = Opening
  <2>1. Opening \in [Account -> Nat]
    BY ComponentAssumption
  <2> QED
    BY <1>1, <1>2, <2>1 DEF Snapshot
<1> QED
  BY <1>3, <1>4 DEF AbstractSale!Init

LEMMA SaleStep ==
  IInv /\ LedgerInv /\ [Next]_vars => [AbstractSale!Next]_(AbstractSale!saleVars)
<1> SUFFICES ASSUME IInv, LedgerInv, [Next]_vars
             PROVE  AbstractSale!Next \/ UNCHANGED AbstractSale!saleVars
  OBVIOUS
<1>1. CASE ~Commit
  BY <1>1, OnlyCommitChanges DEF AbstractSale!saleVars
<1>2. CASE Commit
  <2>1. ~Idle /\ tx.queue = <<>> /\ Idle' /\ Snapshot' = Snapshot
    BY <1>2 DEF Commit, Idle, Snapshot, minterVars, collectionVars, ghosts
  <2>2. Committed = tx.saved /\ Committed' = Snapshot
    BY <2>1 DEF Committed
  <2>3. /\ Typed(tx.saved) /\ Settled(tx.saved) /\ Books(tx.saved) /\ Balanced(tx.saved)
        /\ Typed(Snapshot) /\ Books(Snapshot) /\ tx.saved.issued \subseteq issued
    BY <2>1 DEF IInv, LedgerInv
  <2>4. Open
    BY <2>1, EmptySeq
       DEF IInv, Flight, Creating, Answering, Minting, Paying, Telling, Behind
  <2>5. Settled(Snapshot) /\ Balanced(Snapshot)
    BY <2>1, <2>4, BalancedWhenOpen DEF Open
  <2> DEFINE s == tx.saved
             t == Snapshot
             batch == t.issued \ s.issued
  <2>6. s.issued \subseteq t.issued
    BY <2>3 DEF Snapshot
  <2>7. /\ Books(s) /\ Books(t) /\ Balanced(s) /\ Balanced(t)
        /\ Typed(s) /\ Typed(t) /\ Settled(s) /\ Settled(t)
    BY <2>3, <2>5
  <2>8. Committed = s /\ Committed' = t
    BY <2>2
  <2>9. batch = t.issued \ s.issued
    OBVIOUS
  <2> HIDE DEF s, t, batch
  <2>10. Sells(s, t, batch)
    BY <2>6, <2>7, <2>9, Redeems
  <2>11. CASE batch = {}
    <3>1. t.issued = s.issued /\ Delivered(t) = Delivered(s) /\ Wealth(t) = Wealth(s)
      BY <2>10, <2>11 DEF Sells
    <3> QED
      BY <2>8, <3>1 DEF AbstractSale!saleVars, Delivered, Wealth
  <2>12. CASE batch # {}
    <3>1. /\ AbstractSale!Uuids(batch) = {i.request.uuid : i \in batch}
          /\ AbstractSale!Uuids(s.issued) = {i.request.uuid : i \in s.issued}
      BY DEF AbstractSale!Uuids
    <3>2. Wealth(t) = [p \in Account |->
                         Wealth(s)[p] + AbstractSale!Earned(p, batch)
                                      - AbstractSale!Spent(p, batch)]
      BY <2>10 DEF Sells, Wealth, Earned, Spent
    <3>3. Committed'.issued \ Committed.issued = batch
      BY <2>8, <2>9
    <3> QED
      BY <2>8, <2>10, <2>12, <3>1, <3>2, <3>3, CardinalityIsIt
         DEF Sells, AbstractSale!Next, AbstractSale!Redeem, Delivered, Wealth
  <2> QED
    BY <2>11, <2>12
<1> QED
  BY <1>1, <1>2

\* The system implements delivery against payment: of every transaction the chain
\* commits, whatever else it holds, the sales happen at once, each with its own token
\* and its money at the seller, or there are none.
THEOREM SalesAreAtomic == Spec => SaleAtomic
BY SaleInit, SaleStep, Invariance, LedgerInvariance, PTL DEF Spec, SaleAtomic, AbstractSale!Spec
=============================================================================
