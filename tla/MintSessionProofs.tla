-------------------------- MODULE MintSessionProofs --------------------------
(***************************************************************************)
(* Proofs about MintSession for every number of buyers, orders and         *)
(* transactions, every price and every clock.                              *)
(*                                                                         *)
(* What a process knows it read from a file or composed itself some steps  *)
(* ago, and what is sold lay in the mempool meanwhile.  The invariant      *)
(* follows a signature from the backend through the cache, a buyer and the *)
(* mempool to the minter (SignaturesInv), an order from where it was       *)
(* composed to where it was handed out (OrdersInv), and a transaction back *)
(* to the run that waits for it (ReportsInv).                              *)
(***************************************************************************)
EXTENDS MintSession, TLAPS

\* The variables are the records and functions Init makes them.
Shapes ==
  /\ cache = [request |-> cache.request, signature |-> cache.signature]
  /\ backend = [pc |-> backend.pc, order |-> backend.order, at |-> backend.at]
  /\ user = [u \in User |-> user[u]]
  /\ now \in Nat /\ broadcasts \in Nat

\* The minter stays deployed.
MinterDeployed == collectionAddress = Collection /\ awaitingReply = FALSE

\* A signature somebody may have: of the tool's key, for one of the orders handed out.
HandedOut(signature, orders) ==
  /\ signature.key = Key1
  /\ \E r \in orders : r.request = signature.request

SignaturesInv ==
  /\ cache.signature = None \/ HandedOut(cache.signature, released)
  /\ \A u \in User : user[u].pc = "broadcast" => HandedOut(user[u].signature, released)
  /\ \A t \in mempool : HandedOut(t.signature, released)

\* No local clock is ahead of the block time by more than the margin.
ClocksClose == \A s \in Skew : s <= Margin

\* An order that was composed at some block time.
ComposedAt(order, at) ==
  /\ order.to \in Receiver /\ order.primary_sale_recipient = Admin
  /\ order.price \in Price /\ order.currency = "inj" /\ order.collection = Collection
  /\ at \in Nat
  /\ order.validity_start \in Int /\ (ClocksClose => order.validity_start <= at)
  /\ order.validity_end \in Int /\ at + Lifetime <= order.validity_end

OrdersInv ==
  /\ backend.pc # "idle" =>
       ComposedAt(backend.order, backend.at) /\ backend.at <= now
  /\ \A r \in released : ComposedAt(r.request, r.at) /\ r.at <= now

\* The transaction a run waits for carries the order the run is about.
ReportsInv ==
  /\ \A t \in mempool :
       /\ t.sender \in User /\ t.id \in 1 .. broadcasts
       /\ user[t.sender].pc = "waiting" /\ user[t.sender].tx = t.id =>
            t.request = user[t.sender].request
  /\ ReportedMeansBought

IInv ==
  /\ Shapes /\ MinterDeployed
  /\ SignaturesInv /\ OrdersInv /\ ReportsInv
  /\ OnlyReleasedSold

-----------------------------------------------------------------------------
(* Runs *)

LEMMA StaysHandedOut ==
  ASSUME NEW s, NEW R, NEW S, HandedOut(s, R), R \subseteq S
  PROVE  HandedOut(s, S)
BY DEF HandedOut

LEMMA SignsReleased ==
  ASSUME NEW order, NEW at, NEW R, [request |-> order, at |-> at] \in R
  PROVE  HandedOut(Signed(order), R)
<1>1. [request |-> order, at |-> at].request = order
  OBVIOUS
<1>2. Signed(order).key = Key1 /\ Signed(order).request = order
  BY DEF Signed
<1> QED
  BY <1>1, <1>2 DEF HandedOut

\* What a step that leaves the buyers alone keeps.
LEMMA OthersKeep ==
  ASSUME IInv, UNCHANGED <<minterVars, user, mempool, broadcasts>>,
         released \subseteq released'
  PROVE  /\ MinterDeployed' /\ ReportsInv' /\ OnlyReleasedSold'
         /\ user' = [u \in User |-> user'[u]] /\ broadcasts' \in Nat
         /\ \A u \in User :
              user'[u].pc = "broadcast" => HandedOut(user'[u].signature, released')
         /\ \A t \in mempool' : HandedOut(t.signature, released')
BY StaysHandedOut DEF IInv, Shapes, MinterDeployed, SignaturesInv, ReportsInv,
   ReportedMeansBought, OnlyReleasedSold, minterVars

\* A run that begins, goes on or ends without the chain: what it has is handed out, it
\* waits for nothing that is in the mempool, and it reports nothing.
LEMMA RunMoves ==
  ASSUME IInv, NEW u \in User, NEW run, user' = [user EXCEPT ![u] = run],
         run.pc = "broadcast" => HandedOut(run.signature, released'),
         run.pc # "waiting", run.report = None,
         released \subseteq released',
         UNCHANGED <<minterVars, mempool, broadcasts>>
  PROVE  /\ MinterDeployed' /\ ReportsInv' /\ OnlyReleasedSold'
         /\ user' = [v \in User |-> user'[v]] /\ broadcasts' \in Nat
         /\ \A v \in User :
              user'[v].pc = "broadcast" => HandedOut(user'[v].signature, released')
         /\ \A t \in mempool' : HandedOut(t.signature, released')
<1>1. user = [v \in User |-> user[v]]
  BY DEF IInv, Shapes
<1>2. /\ user' = [v \in User |-> user'[v]]
      /\ user'[u] = run /\ \A v \in User \ {u} : user'[v] = user[v]
  BY <1>1
<1>3. \A v \in User : user'[v].pc = "broadcast" => HandedOut(user'[v].signature, released')
  BY <1>2, StaysHandedOut DEF IInv, SignaturesInv
<1>4. \A t \in mempool :
        /\ t.sender \in User /\ t.id \in 1 .. broadcasts
        /\ user'[t.sender].pc = "waiting" /\ user'[t.sender].tx = t.id =>
             t.request = user'[t.sender].request
  BY <1>2 DEF IInv, ReportsInv
<1>5. issued' = issued
  BY DEF minterVars
<1>6. ReportedMeansBought'
  BY <1>2, <1>5, SessionAssumption DEF IInv, ReportsInv, ReportedMeansBought
<1>7. \A t \in mempool' : HandedOut(t.signature, released')
  BY StaysHandedOut DEF IInv, SignaturesInv
<1>8. MinterDeployed' /\ OnlyReleasedSold' /\ broadcasts' \in Nat
  BY DEF IInv, Shapes, MinterDeployed, OnlyReleasedSold, minterVars
<1> QED
  BY <1>2, <1>3, <1>4, <1>6, <1>7, <1>8 DEF ReportsInv

-----------------------------------------------------------------------------
(* The backend *)

LEMMA ComposedNow ==
  ASSUME IInv, NEW to \in Receiver, NEW price \in Price, NEW skew \in Skew
  PROVE  ComposedAt(ComposedOrder(to, price, now + skew), now) /\ now <= now
<1>1. /\ now \in Nat /\ skew \in Nat /\ Margin \in Nat /\ Lifetime \in Nat
  BY SessionAssumption DEF IInv, Shapes
<1>2. ClocksClose => skew <= Margin
  BY DEF ClocksClose
<1> QED
  BY <1>1, <1>2 DEF ComposedAt, ComposedOrder

LEMMA ComposeStep ==
  ASSUME IInv, NEW to \in Receiver, NEW price \in Price, NEW skew \in Skew,
         Compose(to, price, skew)
  PROVE  IInv'
<1>1. /\ backend' = [pc |-> "request", order |-> ComposedOrder(to, price, now + skew),
                     at |-> now]
      /\ UNCHANGED <<minterVars, now, cache, user, mempool, broadcasts, released>>
  BY DEF Compose
<1>2. /\ MinterDeployed' /\ ReportsInv' /\ OnlyReleasedSold'
      /\ Shapes' /\ SignaturesInv'
  BY <1>1, OthersKeep DEF IInv, Shapes, SignaturesInv
<1>3. OrdersInv'
  <2>1. ComposedAt(backend'.order, backend'.at) /\ backend'.at <= now'
    BY <1>1, ComposedNow
  <2> QED
    BY <1>1, <2>1 DEF IInv, OrdersInv
<1> QED
  BY <1>2, <1>3 DEF IInv

LEMMA BackendStep == IInv /\ (WriteRequest \/ WriteSignature \/ BackendEnds) => IInv'
<1> SUFFICES ASSUME IInv, WriteRequest \/ WriteSignature \/ BackendEnds PROVE IInv'
  OBVIOUS
<1>1. CASE WriteRequest
  <2>1. /\ backend.pc = "request" /\ cache' = [cache EXCEPT !.request = backend.order]
        /\ backend' = [backend EXCEPT !.pc = "signature"]
        /\ UNCHANGED <<minterVars, now, user, mempool, broadcasts, released>>
    BY <1>1 DEF WriteRequest
  <2>2. /\ cache = [request |-> cache.request, signature |-> cache.signature]
        /\ backend = [pc |-> backend.pc, order |-> backend.order, at |-> backend.at]
    BY DEF IInv, Shapes
  <2>3. /\ cache' = [request |-> backend.order, signature |-> cache.signature]
        /\ backend' = [pc |-> "signature", order |-> backend.order, at |-> backend.at]
    BY <2>1, <2>2
  <2>4. MinterDeployed' /\ ReportsInv' /\ OnlyReleasedSold' /\ Shapes' /\ SignaturesInv'
    BY <2>1, <2>3, OthersKeep DEF IInv, Shapes, SignaturesInv
  <2>5. OrdersInv'
    BY <2>1, <2>3 DEF IInv, OrdersInv
  <2> QED
    BY <2>4, <2>5 DEF IInv
<1>2. CASE WriteSignature
  <2>1. /\ backend.pc = "signature"
        /\ cache' = [cache EXCEPT !.signature = Signed(backend.order)]
        /\ released' = released \cup {[request |-> backend.order, at |-> backend.at]}
        /\ backend' = IdleBackend
        /\ UNCHANGED <<minterVars, now, user, mempool, broadcasts>>
    BY <1>2 DEF WriteSignature, Release
  <2>2. cache = [request |-> cache.request, signature |-> cache.signature]
    BY DEF IInv, Shapes
  <2>3. cache' = [request |-> cache.request, signature |-> Signed(backend.order)]
    BY <2>1, <2>2
  <2>4. HandedOut(cache'.signature, released')
    <3>1. [request |-> backend.order, at |-> backend.at] \in released'
      BY <2>1
    <3>2. cache'.signature = Signed(backend.order)
      BY <2>3
    <3> QED
      BY <3>1, <3>2, SignsReleased
  <2>5. /\ MinterDeployed' /\ ReportsInv' /\ OnlyReleasedSold'
        /\ user' = [u \in User |-> user'[u]] /\ broadcasts' \in Nat
        /\ \A u \in User :
             user'[u].pc = "broadcast" => HandedOut(user'[u].signature, released')
        /\ \A t \in mempool' : HandedOut(t.signature, released')
    BY <2>1, OthersKeep
  <2>6. Shapes' /\ SignaturesInv'
    BY <2>1, <2>3, <2>4, <2>5 DEF IInv, Shapes, SignaturesInv, IdleBackend
  <2>7. OrdersInv'
    <3>1. ComposedAt(backend.order, backend.at) /\ backend.at <= now
      BY <2>1 DEF IInv, OrdersInv
    <3> QED
      BY <2>1, <3>1 DEF IInv, OrdersInv, IdleBackend
  <2> QED
    BY <2>5, <2>6, <2>7 DEF IInv
<1>3. CASE BackendEnds
  <2>1. /\ backend' = IdleBackend
        /\ UNCHANGED <<minterVars, now, cache, user, mempool, broadcasts, released>>
    BY <1>3 DEF BackendEnds
  <2>2. MinterDeployed' /\ ReportsInv' /\ OnlyReleasedSold' /\ Shapes' /\ SignaturesInv'
    BY <2>1, OthersKeep DEF IInv, Shapes, SignaturesInv, IdleBackend
  <2>3. OrdersInv'
    BY <2>1 DEF IInv, OrdersInv, IdleBackend
  <2> QED
    BY <2>2, <2>3 DEF IInv
<1> QED
  BY <1>1, <1>2, <1>3

-----------------------------------------------------------------------------
(* The buyers *)

\* What a buyer's step has to show: the backend and the files are as they were.
LEMMA BuyerKeeps ==
  ASSUME IInv, UNCHANGED <<now, cache, backend>>, released \subseteq released',
         \A r \in released' : ComposedAt(r.request, r.at) /\ r.at <= now,
         MinterDeployed', ReportsInv', OnlyReleasedSold',
         user' = [v \in User |-> user'[v]], broadcasts' \in Nat,
         \A v \in User : user'[v].pc = "broadcast" => HandedOut(user'[v].signature, released'),
         \A t \in mempool' : HandedOut(t.signature, released')
  PROVE  IInv'
<1>1. Shapes' /\ OrdersInv'
  BY DEF IInv, Shapes, OrdersInv
<1>2. SignaturesInv'
  BY StaysHandedOut DEF IInv, SignaturesInv
<1> QED
  BY <1>1, <1>2 DEF IInv

LEMMA ReadStep ==
  ASSUME IInv, NEW u \in User, ReadRequest(u) \/ ReadSignature(u) \/ GiveUp(u)
  PROVE  IInv'
<1>1. UNCHANGED <<minterVars, now, cache, backend, mempool, broadcasts, released>>
  BY DEF ReadRequest, ReadSignature, GiveUp
<1>2. user = [v \in User |-> user[v]]
  BY DEF IInv, Shapes
<1>3. \E run : /\ user' = [user EXCEPT ![u] = run]
               /\ run.pc = "broadcast" => HandedOut(run.signature, released)
               /\ run.pc # "waiting" /\ run.report = None
  <2>1. CASE ReadRequest(u)
    <3> DEFINE run == Run("read", cache.request, None, 0)
    <3>1. run.pc = "read" /\ run.report = None
      BY DEF Run
    <3>2. user' = [user EXCEPT ![u] = run]
      BY <2>1 DEF ReadRequest
    <3> HIDE DEF run
    <3> QED
      BY <3>1, <3>2
  <2>2. CASE GiveUp(u) \/ (ReadSignature(u) /\ cache.signature = None)
    <3> DEFINE run == Ended(user[u], None)
    <3>1. run.pc = "idle" /\ run.report = None
      BY DEF Ended
    <3>2. user' = [user EXCEPT ![u] = run]
      BY <1>2, <2>2 DEF ReadSignature, GiveUp
    <3> HIDE DEF run
    <3> QED
      BY <3>1, <3>2
  <2>3. CASE ReadSignature(u) /\ cache.signature # None
    <3> DEFINE run == Run("broadcast", user[u].request, cache.signature, 0)
    <3>1. run.pc = "broadcast" /\ run.report = None /\ run.signature = cache.signature
      BY DEF Run
    <3>2. user' = [user EXCEPT ![u] = run]
      BY <1>2, <2>3 DEF ReadSignature
    <3>3. HandedOut(cache.signature, released)
      BY <2>3 DEF IInv, SignaturesInv
    <3> HIDE DEF run
    <3> QED
      BY <3>1, <3>2, <3>3
  <2> QED
    BY <2>1, <2>2, <2>3
<1>4. \A r \in released : ComposedAt(r.request, r.at) /\ r.at <= now
  BY DEF IInv, OrdersInv
<1>5. PICK run : /\ user' = [user EXCEPT ![u] = run]
                 /\ run.pc = "broadcast" => HandedOut(run.signature, released)
                 /\ run.pc # "waiting" /\ run.report = None
  BY <1>3
<1>6. /\ MinterDeployed' /\ ReportsInv' /\ OnlyReleasedSold'
      /\ user' = [v \in User |-> user'[v]] /\ broadcasts' \in Nat
      /\ \A v \in User :
           user'[v].pc = "broadcast" => HandedOut(user'[v].signature, released')
      /\ \A t \in mempool' : HandedOut(t.signature, released')
  BY <1>1, <1>5, RunMoves
<1> QED
  BY <1>1, <1>4, <1>6, BuyerKeeps

LEMMA ComposeOwnStep ==
  ASSUME IInv, NEW u \in User, NEW to \in Receiver, NEW price \in Price, NEW skew \in Skew,
         ComposeOwn(u, to, price, skew)
  PROVE  IInv'
<1> DEFINE order == ComposedOrder(to, price, now + skew)
           run == Run("broadcast", order, Signed(order), 0)
<1>1. /\ user' = [user EXCEPT ![u] = run]
      /\ released' = released \cup {[request |-> order, at |-> now]}
      /\ UNCHANGED <<minterVars, now, cache, backend, mempool, broadcasts>>
  BY DEF ComposeOwn, Release
<1>2. run.pc = "broadcast" /\ run.report = None /\ run.signature = Signed(order)
  BY DEF Run
<1>3. ComposedAt(order, now) /\ now <= now
  BY ComposedNow
<1>4. /\ [request |-> order, at |-> now].request = order
      /\ [request |-> order, at |-> now].at = now
  OBVIOUS
<1> HIDE DEF order, run
<1>5. \A r \in released' : ComposedAt(r.request, r.at) /\ r.at <= now
  BY <1>1, <1>3, <1>4 DEF IInv, OrdersInv
<1>6. HandedOut(run.signature, released')
  <2>1. [request |-> order, at |-> now] \in released'
    BY <1>1
  <2> QED
    BY <1>2, <2>1, SignsReleased
<1>7. /\ MinterDeployed' /\ ReportsInv' /\ OnlyReleasedSold'
      /\ user' = [v \in User |-> user'[v]] /\ broadcasts' \in Nat
      /\ \A v \in User :
           user'[v].pc = "broadcast" => HandedOut(user'[v].signature, released')
      /\ \A t \in mempool' : HandedOut(t.signature, released')
  BY <1>1, <1>2, <1>6, RunMoves
<1> QED
  BY <1>1, <1>5, <1>7, BuyerKeeps

\* A new transaction has a number no other one has: only its own run waits for it.
LEMMA BroadcastStep ==
  ASSUME IInv, NEW u \in User, Broadcast(u)
  PROVE  IInv'
<1> DEFINE run == Run("waiting", user[u].request, user[u].signature, broadcasts + 1)
           new == [id |-> broadcasts + 1, sender |-> u, request |-> user[u].request,
                   signature |-> user[u].signature]
<1>1. user = [v \in User |-> user[v]] /\ broadcasts \in Nat
  BY DEF IInv, Shapes
<1>2. /\ user[u].pc = "broadcast" /\ broadcasts' = broadcasts + 1
      /\ mempool' = mempool \cup {new} /\ user' = [user EXCEPT ![u] = run]
      /\ UNCHANGED <<minterVars, now, cache, backend, released>>
  BY <1>1 DEF Broadcast
<1>3. /\ run.pc = "waiting" /\ run.report = None /\ run.tx = broadcasts + 1
      /\ run.request = user[u].request
  BY DEF Run
<1>4. /\ new.id = broadcasts + 1 /\ new.sender = u /\ new.request = user[u].request
      /\ new.signature = user[u].signature
  OBVIOUS
<1> HIDE DEF run, new
<1>5. /\ user' = [v \in User |-> user'[v]]
      /\ user'[u] = run /\ \A v \in User \ {u} : user'[v] = user[v]
  BY <1>1, <1>2
<1>6. /\ issued' = issued /\ MinterDeployed' /\ OnlyReleasedSold'
  BY <1>2 DEF IInv, MinterDeployed, OnlyReleasedSold, minterVars
<1>7. \A v \in User : user'[v].pc = "broadcast" => HandedOut(user'[v].signature, released')
  BY <1>2, <1>3, <1>5 DEF IInv, SignaturesInv
<1>8. \A t \in mempool' : HandedOut(t.signature, released')
  BY <1>2, <1>4 DEF IInv, SignaturesInv
<1>9. ReportsInv'
  <2>1. ASSUME NEW t \in mempool'
        PROVE  /\ t.sender \in User /\ t.id \in 1 .. broadcasts'
               /\ user'[t.sender].pc = "waiting" /\ user'[t.sender].tx = t.id =>
                    t.request = user'[t.sender].request
    <3>1. CASE t = new
      BY <1>1, <1>2, <1>3, <1>4, <1>5, <3>1
    <3>2. CASE t \in mempool
      <4>1. /\ t.sender \in User /\ t.id \in 1 .. broadcasts
            /\ user[t.sender].pc = "waiting" /\ user[t.sender].tx = t.id =>
                 t.request = user[t.sender].request
        BY <3>2 DEF IInv, ReportsInv
      <4>2. t.id # broadcasts + 1 /\ t.id \in 1 .. broadcasts'
        BY <1>1, <1>2, <4>1
      <4> QED
        BY <1>3, <1>5, <4>1, <4>2
    <3> QED
      BY <1>2, <3>1, <3>2
  <2>2. ReportedMeansBought'
    BY <1>3, <1>5, <1>6, SessionAssumption DEF IInv, ReportsInv, ReportedMeansBought
  <2> QED
    BY <2>1, <2>2 DEF ReportsInv
<1>10. /\ released \subseteq released' /\ broadcasts' \in Nat
       /\ \A r \in released' : ComposedAt(r.request, r.at) /\ r.at <= now
  BY <1>1, <1>2 DEF IInv, OrdersInv
<1> QED
  BY <1>2, <1>5, <1>6, <1>7, <1>8, <1>9, <1>10, BuyerKeeps

-----------------------------------------------------------------------------
(* The chain *)

\* A transaction is executed or refused, and its sender is told if it still waits.
LEMMA DeliverStep ==
  ASSUME IInv, NEW t \in mempool, Sell(t) \/ Refuse(t), mempool' = mempool \ {t},
         UNCHANGED <<now, cache, backend, composed, broadcasts, released>>
  PROVE  IInv'
<1> DEFINE u == t.sender
           sale == M!Receipt(u, Coins(t.request.price), t.request, tokenIndex + 1)
           told == user[u].pc = "waiting" /\ user[u].tx = t.id
<1>1. u \in User /\ (told => t.request = user[u].request)
  BY DEF IInv, ReportsInv
<1>2. user = [v \in User |-> user[v]] /\ broadcasts' \in Nat
  BY DEF IInv, Shapes
<1>3. sale.payer = u /\ sale.request = t.request
  BY DEF M!Receipt
<1>4. /\ Sell(t) => /\ issued' = issued \cup {sale} /\ t.signature.request = t.request
                    /\ UNCHANGED <<collectionAddress, awaitingReply>>
      /\ Refuse(t) => UNCHANGED <<issued, collectionAddress, awaitingReply>>
  BY DEF Sell, Refuse, M!Mint, M!MintAccepted, M!CheckSig, minterVars
<1>5. MinterDeployed'
  BY <1>4 DEF IInv, MinterDeployed
<1>6. OnlyReleasedSold'
  <2>1. CASE Refuse(t)
    BY <1>4, <2>1 DEF IInv, OnlyReleasedSold
  <2>2. CASE Sell(t)
    <3>1. \E r \in released : r.request = sale.request
      BY <1>3, <1>4, <2>2 DEF IInv, SignaturesInv, HandedOut
    <3> HIDE DEF sale
    <3> QED
      BY <1>4, <2>2, <3>1 DEF IInv, OnlyReleasedSold
  <2> QED
    BY <2>1, <2>2
<1>7. \/ user' = user
      \/ told /\ Sell(t) /\ user' = [user EXCEPT ![u] = Ended(user[u], "sold")]
      \/ told /\ Refuse(t) /\ user' = [user EXCEPT ![u] = Ended(user[u], None)]
  <2>1. LogResponse(0) = "sold" /\ LogResponse(1) = None
    BY DEF LogResponse
  <2> QED
    BY <1>1, <1>2, <2>1 DEF Sell, Refuse, Answer
<1>8. /\ Ended(user[u], "sold").pc = "idle" /\ Ended(user[u], "sold").report = "sold"
      /\ Ended(user[u], "sold").request = user[u].request
      /\ Ended(user[u], None).pc = "idle" /\ Ended(user[u], None).report = None
  BY DEF Ended
<1> HIDE DEF sale, u, told
<1>9. /\ user' = [v \in User |-> user'[v]]
      /\ \A v \in User :
           \/ user'[v] = user[v]
           \/ user'[v].pc = "idle" /\ user'[v].report = None
           \/ /\ v = u /\ told /\ Sell(t)
              /\ user'[v].pc = "idle" /\ user'[v].request = user[u].request
  BY <1>1, <1>2, <1>7, <1>8
<1>10. \A v \in User : user'[v].pc = "broadcast" => HandedOut(user'[v].signature, released')
  BY <1>9 DEF IInv, SignaturesInv
<1>11. \A m \in mempool' : HandedOut(m.signature, released')
  BY DEF IInv, SignaturesInv
<1>12. ReportsInv'
  <2>1. \A m \in mempool' :
          /\ m.sender \in User /\ m.id \in 1 .. broadcasts'
          /\ user'[m.sender].pc = "waiting" /\ user'[m.sender].tx = m.id =>
               m.request = user'[m.sender].request
    BY <1>9 DEF IInv, ReportsInv
  <2>2. ASSUME NEW v \in User, user'[v].report = "sold"
        PROVE  \E i \in issued' : i.payer = v /\ i.request = user'[v].request
    <3>1. issued \subseteq issued'
      BY <1>4
    <3>2. CASE user'[v] = user[v]
      BY <2>2, <3>1, <3>2 DEF IInv, ReportsInv, ReportedMeansBought
    <3>3. CASE v = u /\ told /\ Sell(t) /\ user'[v].request = user[u].request
      <4>1. sale \in issued' /\ sale.payer = v /\ sale.request = user'[v].request
        BY <1>1, <1>3, <1>4, <3>3
      <4> QED
        BY <4>1
    <3> QED
      BY <1>9, <2>2, <3>2, <3>3, SessionAssumption
  <2> QED
    BY <2>1, <2>2 DEF ReportsInv, ReportedMeansBought
<1>13. /\ released \subseteq released'
       /\ \A r \in released' : ComposedAt(r.request, r.at) /\ r.at <= now
  BY DEF IInv, OrdersInv
<1> QED
  BY <1>2, <1>5, <1>6, <1>9, <1>10, <1>11, <1>12, <1>13, BuyerKeeps

LEMMA DropStep == IInv /\ Drop => IInv'
<1> SUFFICES ASSUME IInv, Drop PROVE IInv'
  OBVIOUS
<1>1. /\ mempool' \subseteq mempool
      /\ UNCHANGED <<minterVars, now, cache, backend, user, broadcasts, released>>
  BY DEF Drop
<1> QED
  BY <1>1 DEF IInv, Shapes, MinterDeployed, SignaturesInv, OrdersInv, ReportsInv,
              ReportedMeansBought, OnlyReleasedSold, minterVars

LEMMA ChangeSettingsStep == IInv /\ ChangeSettings => IInv'
<1> SUFFICES ASSUME IInv, ChangeSettings PROVE IInv'
  OBVIOUS
<1>1. UNCHANGED <<issued, collectionAddress, awaitingReply, now, session>>
  BY DEF ChangeSettings, M!UpdateSettings
<1> QED
  BY <1>1 DEF session, IInv, Shapes, MinterDeployed, SignaturesInv, OrdersInv, ReportsInv,
              ReportedMeansBought, OnlyReleasedSold

LEMMA TickStep == IInv /\ Tick => IInv'
<1> SUFFICES ASSUME IInv, Tick PROVE IInv'
  OBVIOUS
<1>1. now' = now + 1 /\ now \in Nat /\ UNCHANGED <<minterVars, session>>
  BY DEF Tick, IInv, Shapes
<1>2. \A at \in Nat : at <= now => at <= now'
  BY <1>1
<1>3. OrdersInv'
  BY <1>1, <1>2 DEF IInv, OrdersInv, ComposedAt, session
<1>4. Shapes' /\ SignaturesInv'
  BY <1>1 DEF IInv, Shapes, SignaturesInv, session
<1>5. MinterDeployed' /\ ReportsInv' /\ OnlyReleasedSold'
  BY <1>1, OthersKeep DEF session
<1> QED
  BY <1>3, <1>4, <1>5 DEF IInv

-----------------------------------------------------------------------------
(* The invariant *)

LEMMA InitInv == Init => IInv
<1> SUFFICES ASSUME Init PROVE IInv
  OBVIOUS
<1>1. /\ Run("idle", None, None, 0).pc = "idle"
      /\ Run("idle", None, None, 0).report = None
  BY DEF Run
<1>2. /\ user = [u \in User |-> Run("idle", None, None, 0)] /\ now = Epoch
      /\ cache = [request |-> None, signature |-> None] /\ backend = IdleBackend
      /\ mempool = {} /\ released = {} /\ issued = {} /\ broadcasts = 0
      /\ collectionAddress = Collection /\ awaitingReply = FALSE
  BY DEF Init
<1>3. backend.pc = "idle"
      /\ backend = [pc |-> backend.pc, order |-> backend.order, at |-> backend.at]
  BY <1>2 DEF IdleBackend
<1>4. \A u \in User : user[u].pc = "idle" /\ user[u].report = None
  BY <1>1, <1>2
<1>5. Shapes
  BY <1>2, <1>3, SessionAssumption DEF Shapes
<1> QED
  BY <1>2, <1>3, <1>4, <1>5, SessionAssumption
     DEF IInv, MinterDeployed, SignaturesInv, OrdersInv, ReportsInv, ReportedMeansBought,
         OnlyReleasedSold

LEMMA InvStep == IInv /\ [Next]_vars => IInv'
<1> SUFFICES ASSUME IInv, [Next]_vars PROVE IInv'
  OBVIOUS
<1>1. CASE Deliver
  BY <1>1, DeliverStep DEF Deliver
<1>2. CASE UNCHANGED vars
  BY <1>2 DEF vars, session, minterVars, IInv, Shapes, MinterDeployed, SignaturesInv,
     OrdersInv, ReportsInv, ReportedMeansBought, OnlyReleasedSold
<1> QED
  BY <1>1, <1>2, ComposeStep, ComposeOwnStep, BackendStep, ReadStep, BroadcastStep,
     DropStep, ChangeSettingsStep, TickStep DEF Next

\* Signatures, orders and transactions are where the protocol puts them, whatever the
\* other processes do between two steps.
THEOREM Invariance == Spec => []IInv
BY InitInv, InvStep, PTL DEF Spec

\* Nobody buys an order whose signature was not handed out: check_sig of the minter
\* against the two files of the cache, read at different times.
THEOREM NothingElseSold == Spec => []OnlyReleasedSold
BY Invariance, PTL DEF IInv

\* A reported success is a purchase of the order asked for, by who reports it: the
\* transaction a run waits for is its own, of its latest attempt.
THEOREM ReportsAreTrue == Spec => []ReportedMeansBought
<1>1. IInv => ReportedMeansBought
  BY DEF IInv, ReportsInv
<1> QED
  BY <1>1, Invariance, PTL

\* An order that was handed out is redeemed at once: its window is open, its signature
\* and its price are right and its recipients are accounts, all as mint of the minter
\* checks them, as long as no clock is ahead by more than the margin of the composing
\* code.
THEOREM ReleasedAreRedeemable == ClocksClose => (Spec => []ReleasedRedeemable)
<1> SUFFICES ASSUME ClocksClose PROVE Spec => []ReleasedRedeemable
  OBVIOUS
<1>1. ASSUME IInv PROVE ReleasedRedeemable
  <2> SUFFICES ASSUME NEW r \in released,
                      r.request.uuid \notin uuids, r.request.price > 0,
                      now <= r.at + Lifetime,
                      settings = [signer |-> Key1, paused |-> FALSE],
                      tokenIndex < MaxIndex
               PROVE  M!MintAccepted(Coins(r.request.price), r.request,
                                     Signed(r.request))
    BY DEF ReleasedRedeemable
  <2>1. ComposedAt(r.request, r.at) /\ r.at <= now /\ now \in Nat
    BY <1>1 DEF IInv, OrdersInv, Shapes
  <2>2. M!ConfigAvailable /\ ~M!MintingPaused /\ ~awaitingReply
    <3>1. settings \in [signer : {Key1, Key2}, paused : BOOLEAN]
      OBVIOUS
    <3> QED
      BY <1>1, <3>1, SessionAssumption
         DEF IInv, MinterDeployed, M!ConfigAvailable, M!MintingPaused
  <2>3. M!CheckSig(r.request, Signed(r.request), settings.signer)
    BY DEF M!CheckSig, M!VerifyCompressedPubKey, Signed
  <2>4. M!InValidityWindow(r.request)
    BY <1>1, <2>1, SessionAssumption DEF ComposedAt, M!InValidityWindow
  <2>5. M!PaysExactly(Coins(r.request.price), r.request)
    BY <2>1 DEF ComposedAt, M!PaysExactly, Coins
  <2> QED
    BY <1>1, <2>1, <2>2, <2>3, <2>4, <2>5
       DEF ComposedAt, MinterDeployed, IInv, M!MintAccepted
<1> QED
  BY <1>1, Invariance, PTL
=============================================================================
