----------------------------- MODULE MintSession -----------------------------
(***************************************************************************)
(* Minting off chain: mintAsBackend, mintAsUser and mintCombined of        *)
(* test-tool/src/tx.ts, the repository's own backend and buyer.            *)
(*                                                                         *)
(* The backend composes a mint request, signs it and leaves request and    *)
(* signature in two files of a cache directory.  A buyer is another        *)
(* process: it reads the two files, broadcasts the call and waits for the  *)
(* answer.  Between any two steps the other processes run, the block time  *)
(* passes, an admin changes the minter's settings, a process is killed.  A *)
(* broadcast transaction lies in the mempool: it may be executed late,     *)
(* after the buyer gave up and tried again, or never.  The backend's clock *)
(* is not the block time.                                                  *)
(*                                                                         *)
(* The chain's part is the Minter module: a transaction here is one call   *)
(* of its mint handler.                                                    *)
(***************************************************************************)
EXTENDS Integers, Sequences, FiniteSets

CONSTANTS
  User,             \* processes that run mint-as-user or mint-combined
  Admin,            \* an admin of the minter
  Key1, Key2,       \* the tool's signing key, and a key the minter may be given
  Collection,       \* the collection of the minter
  Receiver,         \* receivers of tokens
  Price,            \* prices of orders
  Margin,           \* how far validity_start lies before the local clock (5 s)
  Lifetime,         \* how far validity_end lies after the local clock (300 s)
  Skew,             \* how far a local clock may be ahead of the block time
  Epoch, MaxTime,   \* block times explored
  MaxOrders,        \* orders composed
  MaxBroadcasts,    \* transactions broadcast
  MaxIndex, None

ASSUME SessionAssumption ==
  /\ Price \subseteq Nat /\ Skew \subseteq Nat
  /\ Margin \in Nat /\ Lifetime \in Nat /\ Epoch \in Nat
  /\ Margin <= Epoch
  /\ MaxTime \in Nat /\ MaxOrders \in Nat /\ MaxBroadcasts \in Nat /\ MaxIndex \in Nat
  /\ None # Collection /\ None # "sold"
  /\ None \notin [signer : {Key1, Key2}, paused : BOOLEAN]

VARIABLES
  settings, admins, uuids, tokenIndex, collectionAddress, awaitingReply, issued, now,
  cache,      \* the cache directory: [request, signature], None where no file is
  backend,    \* mint-as-backend: [pc, order, at]
  user,       \* User -> [pc, request, signature, tx, report]
  mempool,    \* the transactions broadcast and not yet executed
  composed,   \* how many orders were composed: the next one is given a new UUID
  broadcasts, \* how many transactions were broadcast: the next one is a new one
  released    \* for the properties: the orders handed out, with the block time at
              \* which they were composed

Order ==
  [to : Receiver, primary_sale_recipient : {Admin}, price : Price, currency : {"inj"},
   validity_start : 0 .. MaxTime + Lifetime, validity_end : 0 .. MaxTime + Lifetime,
   uuid : 1 .. MaxOrders, collection : {Collection}]

Coins(amount) == <<[denom |-> "inj", amount |-> amount]>>

M == INSTANCE Minter WITH
       Account <- User \cup Receiver \cup {Admin, Collection}, Malformed <- {},
       PubKey <- {Key1, Key2}, BadPubKey <- {},
       Request <- Order, Signature <- [key : {Key1, Key2}, request : Order],
       Payment <- {Coins(p) : p \in Price \ {0}}

minterVars == <<settings, admins, uuids, tokenIndex, collectionAddress,
                awaitingReply, issued>>
session == <<cache, backend, user, mempool, composed, broadcasts, released>>
vars == <<minterVars, now, session>>

-----------------------------------------------------------------------------
(* Orders *)

Signed(order) == [key |-> Key1, request |-> order]

\* Mutant of ComposedOrder: the window opens at the local clock.
OrderFromNow(to, price, localTime) ==
  [to |-> to, primary_sale_recipient |-> Admin, price |-> price, currency |-> "inj",
   validity_start |-> localTime, validity_end |-> localTime + Lifetime,
   uuid |-> composed + 1, collection |-> Collection]

\* The window is open before the local clock and long after it; uuidv4 is new.
ComposedOrder(to, price, localTime) ==
  [to |-> to, primary_sale_recipient |-> Admin, price |-> price, currency |-> "inj",
   validity_start |-> localTime - Margin, validity_end |-> localTime + Lifetime,
   uuid |-> composed + 1, collection |-> Collection]

Release(order, at) == released' = released \cup {[request |-> order, at |-> at]}

-----------------------------------------------------------------------------
(* mint-as-backend *)

IdleBackend == [pc |-> "idle", order |-> None, at |-> 0]

\* The answer of the check_sig query is only printed; an error of it ends the run.
Compose(to, price, skew) ==
  /\ backend.pc = "idle"
  /\ composed < MaxOrders
  /\ composed' = composed + 1
  /\ backend' = [pc |-> "request", order |-> ComposedOrder(to, price, now + skew),
                 at |-> now]
  /\ UNCHANGED <<minterVars, now, cache, user, mempool, broadcasts, released>>

WriteRequest ==
  /\ backend.pc = "request"
  /\ cache' = [cache EXCEPT !.request = backend.order]
  /\ backend' = [backend EXCEPT !.pc = "signature"]
  /\ UNCHANGED <<minterVars, now, user, mempool, composed, broadcasts, released>>

WriteSignature ==
  /\ backend.pc = "signature"
  /\ cache' = [cache EXCEPT !.signature = Signed(backend.order)]
  /\ Release(backend.order, backend.at)
  /\ backend' = IdleBackend
  /\ UNCHANGED <<minterVars, now, user, mempool, composed, broadcasts>>

BackendEnds ==
  /\ backend.pc # "idle"
  /\ backend' = IdleBackend
  /\ UNCHANGED <<minterVars, now, cache, user, mempool, composed, broadcasts, released>>

-----------------------------------------------------------------------------
(* mint-as-user and mint-combined *)

Run(pc, request, signature, tx) ==
  [pc |-> pc, request |-> request, signature |-> signature, tx |-> tx, report |-> None]

\* A run is over; of its state only what it reported, and on what, is of interest.
Ended(run, report) ==
  [pc |-> "idle", request |-> IF report = "sold" THEN run.request ELSE None,
   signature |-> None, tx |-> 0, report |-> report]

\* The two files are read one after the other; a missing one ends the run.
ReadRequest(u) ==
  /\ user[u].pc = "idle"
  /\ cache.request # None
  /\ user' = [user EXCEPT ![u] = Run("read", cache.request, None, 0)]
  /\ UNCHANGED <<minterVars, now, cache, backend, mempool, composed, broadcasts, released>>

ReadSignature(u) ==
  /\ user[u].pc = "read"
  /\ user' = [user EXCEPT
                ![u] = IF cache.signature = None THEN Ended(@, None)
                       ELSE Run("broadcast", @.request, cache.signature, 0)]
  /\ UNCHANGED <<minterVars, now, cache, backend, mempool, composed, broadcasts, released>>

\* mint-combined keeps its order to itself until it broadcasts it.
ComposeOwn(u, to, price, skew) ==
  /\ user[u].pc = "idle"
  /\ composed < MaxOrders
  /\ composed' = composed + 1
  /\ LET order == ComposedOrder(to, price, now + skew)
     IN  /\ user' = [user EXCEPT ![u] = Run("broadcast", order, Signed(order), 0)]
         /\ Release(order, now)
  /\ UNCHANGED <<minterVars, now, cache, backend, mempool, broadcasts>>

\* The funds are the price in the request; a coin of amount zero is refused before
\* the transaction is accepted.
Broadcast(u) ==
  /\ user[u].pc = "broadcast"
  /\ broadcasts < MaxBroadcasts
  /\ user[u].request.price > 0
  /\ broadcasts' = broadcasts + 1
  /\ mempool' = mempool \cup
       {[id |-> broadcasts + 1, sender |-> u, request |-> user[u].request,
         signature |-> user[u].signature]}
  /\ user' = [user EXCEPT ![u] = Run("waiting", @.request, @.signature, broadcasts + 1)]
  /\ UNCHANGED <<minterVars, now, cache, backend, composed, released>>

\* The broadcaster timed out or threw, or the process was killed.  What it has
\* broadcast stays in the mempool.
GiveUp(u) ==
  /\ user[u].pc # "idle"
  /\ user' = [user EXCEPT ![u] = Ended(@, None)]
  /\ UNCHANGED <<minterVars, now, cache, backend, mempool, composed, broadcasts, released>>

\* What the process reports of a response; a failure is thrown.
\* Mutant of LogResponse: the code of the response is not looked at.
LogSuccess(code) == "sold"

LogResponse(code) == IF code = 0 THEN "sold" ELSE None

\* The sender is told of the transaction it waits for, and of no other.
Answer(t, code) ==
  LET u == t.sender
  IN  user' = IF user[u].pc = "waiting" /\ user[u].tx = t.id
              THEN [user EXCEPT ![u] = Ended(@, LogResponse(code))]
              ELSE user

-----------------------------------------------------------------------------
(* The chain *)

Sell(t) ==
  /\ M!Mint(t.sender, Coins(t.request.price), t.request, t.signature)
  /\ Answer(t, 0)

Refuse(t) ==
  /\ ~M!MintAccepted(Coins(t.request.price), t.request, t.signature)
  /\ Answer(t, 1)
  /\ UNCHANGED minterVars

Deliver ==
  /\ \E t \in mempool :
       /\ Sell(t) \/ Refuse(t)
       /\ mempool' = mempool \ {t}
  /\ UNCHANGED <<now, cache, backend, composed, broadcasts, released>>

\* The mempool loses a transaction, for example when it is full.
Drop ==
  /\ \E t \in mempool : mempool' = mempool \ {t}
  /\ UNCHANGED <<minterVars, now, cache, backend, user, composed, broadcasts, released>>

ChangeSettings ==
  /\ \E k \in {Key1, Key2, None}, p \in BOOLEAN \cup {None} :
       M!UpdateSettings(Admin, k, p)
  /\ UNCHANGED <<now, session>>

Tick ==
  /\ now < MaxTime
  /\ now' = now + 1
  /\ UNCHANGED <<minterVars, session>>

-----------------------------------------------------------------------------

\* The minter as its deployment leaves it.
Init ==
  /\ settings = [signer |-> Key1, paused |-> FALSE]
  /\ admins = {Admin}
  /\ uuids = {} /\ tokenIndex = 0 /\ issued = {}
  /\ collectionAddress = Collection
  /\ awaitingReply = FALSE
  /\ now = Epoch
  /\ cache = [request |-> None, signature |-> None]
  /\ backend = IdleBackend
  /\ user = [u \in User |-> Run("idle", None, None, 0)]
  /\ mempool = {}
  /\ composed = 0 /\ broadcasts = 0
  /\ released = {}

Next ==
  \/ \E to \in Receiver, p \in Price, s \in Skew :
       \/ Compose(to, p, s)
       \/ \E u \in User : ComposeOwn(u, to, p, s)
  \/ WriteRequest \/ WriteSignature \/ BackendEnds
  \/ \E u \in User : ReadRequest(u) \/ ReadSignature(u) \/ Broadcast(u) \/ GiveUp(u)
  \/ Deliver \/ Drop \/ ChangeSettings \/ Tick

Spec == Init /\ [][Next]_vars

-----------------------------------------------------------------------------
(* Properties *)

\* Only orders whose signature was handed out are sold: a buyer that reads the files
\* of two orders, the new request with the old signature, buys nothing, nor does
\* anybody buy an order whose backend ended between the two files.
OnlyReleasedSold ==
  \A i \in issued : \E r \in released : r.request = i.request

\* An order that was handed out can be redeemed at once and for its whole lifetime,
\* however far the backend's clock is ahead of the block time by up to Margin,
\* unless it was redeemed already, minting is paused, the key was replaced or the
\* order costs nothing.
ReleasedRedeemable ==
  \A r \in released :
    /\ r.request.uuid \notin uuids
    /\ r.request.price > 0
    /\ now <= r.at + Lifetime
    /\ settings = [signer |-> Key1, paused |-> FALSE]
    /\ tokenIndex < MaxIndex
    => M!MintAccepted(Coins(r.request.price), r.request, Signed(r.request))

\* A process that reports success has bought the order it asked for with its own
\* money, whoever else holds the same files and however often it tried before.
ReportedMeansBought ==
  \A u \in User :
    user[u].report = "sold" =>
      \E i \in issued : i.payer = u /\ i.request = user[u].request
=============================================================================
