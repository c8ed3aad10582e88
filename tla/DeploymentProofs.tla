--------------------------- MODULE DeploymentProofs ---------------------------
(***************************************************************************)
(* Proofs about Deployment for every number of codes, contracts and        *)
(* broadcasts.                                                             *)
(*                                                                         *)
(* Ids and addresses go from the events of a response to the terminal,     *)
(* from there to the .env file, into the context of a later run and into   *)
(* its messages, and are used when others have stored and migrated more.   *)
(* The invariant says at each of these places what they stand for on the   *)
(* chain (Read), and that this does not change (Grows).                    *)
(***************************************************************************)
EXTENDS Deployment, SequenceTheorems, TLAPS

Kind == {"minter", "collection"}

IsCode(id, kind, cs) == id \in DOMAIN cs /\ cs[id] = kind

\* The addresses of a minter and of the collection it owns.
IsPair(minter, cw721, ds) ==
  /\ minter \in DOMAIN ds /\ cw721 \in DOMAIN ds
  /\ ds[minter].kind = "minter"
  /\ ds[cw721].kind = "collection"
  /\ ds[cw721].owner = minter

\* Ids and addresses that were read, from the codes cs and the contracts ds.
Read(e, cs, ds) ==
  /\ e = [minterCode |-> e.minterCode, cw721Code |-> e.cw721Code,
          minter |-> e.minter, cw721 |-> e.cw721]
  /\ e.minterCode = 0 \/ IsCode(e.minterCode, "minter", cs)
  /\ e.cw721Code = 0 \/ IsCode(e.cw721Code, "collection", cs)
  /\ \/ e.minter = 0 /\ e.cw721 = 0
     \/ IsPair(e.minter, e.cw721, ds)

ChainInv ==
  /\ codes \in Seq(Kind)
  /\ contracts \in Seq([kind : Kind, code : Nat, owner : Nat])
  /\ \A a \in DOMAIN contracts : IsCode(contracts[a].code, contracts[a].kind, codes)

\* The messages a run has yet to broadcast, that under way first.
ToDo(cmd) ==
  CASE cmd \in StoreCommand -> {<<"minter", "collection">>, <<"minter">>, <<"collection">>}
    [] cmd = "instantiate"  -> {<<"both">>}
    [] cmd = "migrate"      -> {<<"minter", "collection">>, <<"collection">>}

RunInv ==
  run # None =>
    /\ run = [cmd |-> run.cmd, todo |-> run.todo, context |-> run.context,
              waiting |-> run.waiting, response |-> run.response]
    /\ run.cmd \in Command /\ run.todo \in ToDo(run.cmd)
    /\ run.waiting \in BOOLEAN
    /\ run.response # None => run.waiting

\* What the events of an accepted message say.
Tells(cmd, todo, context, events, cs, ds) ==
  /\ cmd \in StoreCommand => IsCode(events[1].code, Head(todo), cs)
  /\ cmd = "instantiate" =>
       /\ DOMAIN events = 1 .. 2
       /\ events[1].code = context.minterCode /\ events[2].code = context.cw721Code
       /\ IsPair(events[1].address, events[2].address, ds)

ResponseInv ==
  run # None /\ run.response # None /\ run.response.code = 0 =>
    Tells(run.cmd, run.todo, run.context, run.response.events, codes, contracts)

\* A message that was composed from what was read.
Composed(m, cs, ds) ==
  \/ m.op = "store" /\ m.kind \in Kind
  \/ m.op = "instantiate"
  \/ /\ m = [op |-> "migrate", address |-> m.address, code |-> m.code, with |-> m.with]
     /\ \/ m.address = 0 \/ m.code = 0
        \/ m.address \in DOMAIN ds /\ IsCode(m.code, ds[m.address].kind, cs)

\* A migration of a collection that lies in the mempool finds the minter at the code it
\* was composed with.
MinterAhead(m, ds) ==
  m.op = "migrate" /\ m.address \in DOMAIN ds /\ ds[m.address].kind = "collection" =>
    ds[ds[m.address].owner].code = m.with

MempoolInv ==
  \A m \in mempool : Composed(m, codes, contracts) /\ MinterAhead(m, contracts)

\* The minter of a migration is migrated, and nothing is under way that migrates it again.
MinterDone(context, ds, pool) ==
  /\ pool = {}
  /\ context.minter \in DOMAIN ds /\ ds[context.minter].code = context.minterCode

MigrateInv ==
  run # None /\ run.cmd = "migrate" =>
    /\ run.todo = <<"collection">> /\ ~run.waiting =>
         MinterDone(run.context, contracts, mempool)
    /\ run.todo = <<"minter", "collection">> /\ run.response # None /\ run.response.code = 0 =>
         MinterDone(run.context, contracts, mempool)

ReadInv ==
  /\ Read(env, codes, contracts) /\ Read(printed, codes, contracts)
  /\ run # None => Read(run.context, codes, contracts)

IInv ==
  /\ ChainInv /\ ReadInv /\ RunInv /\ ResponseInv /\ MempoolInv /\ MigrateInv

-----------------------------------------------------------------------------
(* The chain grows *)

Grows(cs, ds, cs2, ds2) ==
  /\ DOMAIN cs \subseteq DOMAIN cs2 /\ \A i \in DOMAIN cs : cs2[i] = cs[i]
  /\ DOMAIN ds \subseteq DOMAIN ds2
  /\ \A a \in DOMAIN ds : ds2[a].kind = ds[a].kind /\ ds2[a].owner = ds[a].owner

LEMMA ReadGrows ==
  ASSUME NEW e, NEW cs, NEW ds, NEW cs2, NEW ds2, Grows(cs, ds, cs2, ds2), Read(e, cs, ds)
  PROVE  Read(e, cs2, ds2)
<1>1. \A id, kind : IsCode(id, kind, cs) => IsCode(id, kind, cs2)
  BY DEF Grows, IsCode
<1>2. \A m, c : IsPair(m, c, ds) => IsPair(m, c, ds2)
  BY DEF Grows, IsPair
<1> QED
  BY <1>1, <1>2 DEF Read

LEMMA ComposedGrows ==
  ASSUME NEW m, NEW cs, NEW ds, NEW cs2, NEW ds2, Grows(cs, ds, cs2, ds2), Composed(m, cs, ds)
  PROVE  Composed(m, cs2, ds2)
BY DEF Grows, Composed, IsCode

LEMMA TellsGrows ==
  ASSUME NEW cmd, NEW todo, NEW context, NEW events,
         NEW cs, NEW ds, NEW cs2, NEW ds2, Grows(cs, ds, cs2, ds2),
         Tells(cmd, todo, context, events, cs, ds)
  PROVE  Tells(cmd, todo, context, events, cs2, ds2)
BY DEF Grows, Tells, IsCode, IsPair

LEMMA CodesGrow ==
  ASSUME ChainInv, NEW kind \in Kind, codes' = Append(codes, kind), contracts' = contracts
  PROVE  ChainInv' /\ Grows(codes, contracts, codes', contracts')
         /\ IsCode(Len(codes) + 1, kind, codes')
<1>1. /\ codes \in Seq(Kind) /\ Len(codes) \in Nat
      /\ codes' \in Seq(Kind) /\ Len(codes') = Len(codes) + 1
      /\ DOMAIN codes = 1 .. Len(codes) /\ DOMAIN codes' = 1 .. Len(codes) + 1
      /\ \A i \in DOMAIN codes : codes'[i] = codes[i]
      /\ codes'[Len(codes) + 1] = kind
  BY DEF ChainInv
<1>2. Grows(codes, contracts, codes', contracts')
  BY <1>1 DEF Grows
<1>3. ChainInv'
  BY <1>1 DEF ChainInv, IsCode
<1>4. IsCode(Len(codes) + 1, kind, codes')
  BY <1>1 DEF IsCode
<1> QED
  BY <1>2, <1>3, <1>4

\* What a step keeps that leaves the runs and their messages alone.
LEMMA OthersStore == IInv /\ OtherStore => IInv'
<1> SUFFICES ASSUME IInv, OtherStore PROVE IInv'
  OBVIOUS
<1>1. PICK kind \in Kind : codes' = Append(codes, kind)
  BY DEF OtherStore, Kind
<1>2. UNCHANGED <<env, printed, run, contracts, mempool, broadcasts>>
  BY DEF OtherStore
<1>3. ChainInv' /\ Grows(codes, contracts, codes', contracts')
  BY <1>1, <1>2, CodesGrow DEF IInv
<1>4. ReadInv'
  BY <1>2, <1>3, ReadGrows DEF IInv, ReadInv
<1>5. ResponseInv'
  BY <1>2, <1>3, TellsGrows DEF IInv, ResponseInv
<1>6. MempoolInv'
  BY <1>2, <1>3, ComposedGrows DEF IInv, MempoolInv, MinterAhead
<1> QED
  BY <1>2, <1>3, <1>4, <1>5, <1>6 DEF IInv, RunInv, MigrateInv, MinterDone

-----------------------------------------------------------------------------
(* Runs *)

LEMMA StartStep == ASSUME IInv, NEW cmd \in Command, Start(cmd) PROVE IInv'
<1>1. /\ run' = [cmd |-> cmd, todo |-> Plan(cmd), context |-> env, waiting |-> FALSE,
                 response |-> None]
      /\ UNCHANGED <<env, printed, chain, mempool, broadcasts>>
  BY DEF Start
<1>2. Plan(cmd) \in ToDo(cmd)
  BY DEF Command, StoreCommand, Plan, ToDo
<1>3. RunInv'
  BY <1>1, <1>2 DEF RunInv
<1>4. cmd = "migrate" => Plan(cmd) = <<"minter", "collection">>
  BY DEF Plan, StoreCommand
<1>5. MigrateInv' /\ ResponseInv'
  BY <1>1, <1>4 DEF MigrateInv, ResponseInv
<1> QED
  BY <1>1, <1>3, <1>5 DEF IInv, chain, ChainInv, ReadInv, MempoolInv

\* The message of a run is composed from what was read, and the minter is ahead.
LEMMA MessageComposed ==
  ASSUME IInv, run # None, ~run.waiting
  PROVE  Composed(Message, codes, contracts) /\ MinterAhead(Message, contracts)
<1> DEFINE c == run.context
<1>1. run.cmd \in Command /\ run.todo \in ToDo(run.cmd) /\ Read(c, codes, contracts)
  BY DEF IInv, RunInv, ReadInv
<1>2. 0 \notin DOMAIN contracts /\ 0 \notin DOMAIN codes
  BY DEF IInv, ChainInv
<1>3. CASE run.cmd \in StoreCommand
  <2>1. Message = [op |-> "store", kind |-> Head(run.todo)]
    BY <1>3 DEF Message, StoreMessage, InstantiateMessage, MigrateMessage,
       StoreCommand
  <2>2. Head(run.todo) \in Kind
    <3>1. ToDo(run.cmd) = {<<"minter", "collection">>, <<"minter">>, <<"collection">>}
      BY <1>3 DEF ToDo, StoreCommand
    <3> QED
      BY <1>1, <3>1 DEF Kind
  <2> QED
    BY <2>1, <2>2 DEF Composed, MinterAhead
<1>4. CASE run.cmd = "instantiate"
  <2>1. Message.op = "instantiate"
    BY <1>4 DEF Message, StoreMessage, InstantiateMessage, MigrateMessage,
       StoreCommand
  <2> QED
    BY <2>1 DEF Composed, MinterAhead
<1>5. CASE run.cmd = "migrate" /\ run.todo = <<"minter", "collection">>
  <2>1. Message = [op |-> "migrate", address |-> c.minter, code |-> c.minterCode,
                   with |-> c.minterCode]
    BY <1>5 DEF Message, StoreMessage, InstantiateMessage, MigrateMessage,
       StoreCommand
  <2> QED
    BY <1>1, <1>2, <2>1 DEF Composed, MinterAhead, Read, IsPair
<1>6. CASE run.cmd = "migrate" /\ run.todo = <<"collection">>
  <2>1. Message = [op |-> "migrate", address |-> c.cw721, code |-> c.cw721Code,
                   with |-> c.minterCode]
    BY <1>6 DEF Message, StoreMessage, InstantiateMessage, MigrateMessage,
       StoreCommand
  <2>2. MinterDone(c, contracts, mempool)
    BY <1>6 DEF IInv, MigrateInv
  <2> QED
    BY <1>1, <1>2, <2>1, <2>2 DEF Composed, MinterAhead, Read, IsPair, MinterDone
<1> QED
  BY <1>1, <1>3, <1>4, <1>5, <1>6 DEF ToDo, StoreCommand, Command

LEMMA BroadcastStep == IInv /\ Broadcast => IInv'
<1> SUFFICES ASSUME IInv, Broadcast PROVE IInv'
  OBVIOUS
<1>1. /\ run # None /\ ~run.waiting
      /\ mempool' = mempool \cup {Message}
      /\ run' = [run EXCEPT !.waiting = TRUE]
      /\ UNCHANGED <<env, printed, codes, contracts>>
  BY DEF Broadcast, chain
<1>2. run' = [cmd |-> run.cmd, todo |-> run.todo, context |-> run.context,
              waiting |-> TRUE, response |-> run.response]
  BY <1>1 DEF IInv, RunInv
<1>3. run.response = None
  BY <1>1 DEF IInv, RunInv
<1>4. RunInv' /\ ResponseInv' /\ MigrateInv'
  BY <1>1, <1>2, <1>3 DEF IInv, RunInv, ResponseInv, MigrateInv
<1>5. MempoolInv'
  BY <1>1, MessageComposed DEF IInv, MempoolInv
<1>6. ChainInv' /\ ReadInv'
  BY <1>1, <1>2 DEF IInv, ChainInv, ReadInv
<1> QED
  BY <1>4, <1>5, <1>6 DEF IInv

\* A run that ends leaves nothing to be said of it.
LEMMA RunEnds ==
  ASSUME IInv, run' = None, UNCHANGED <<chain, mempool>>,
         Read(env', codes, contracts), Read(printed', codes, contracts)
  PROVE  IInv'
BY DEF IInv, ChainInv, ReadInv, RunInv, ResponseInv, MempoolInv, MigrateInv, chain

\* The next message of a run: of a migration, that of the collection, with the minter done.
LEMMA RunProceeds ==
  ASSUME IInv, run # None, run.response # None, Succeeded(run.response), Proceed,
         UNCHANGED <<chain, mempool, env>>, Read(printed', codes, contracts)
  PROVE  IInv'
<1>1. CASE Len(run.todo) = 1
  BY <1>1, RunEnds DEF Proceed, IInv, ReadInv
<1>2. CASE Len(run.todo) # 1
  <2>1. /\ run.cmd \in Command /\ run.todo \in ToDo(run.cmd)
        /\ run.response.code = 0
    BY DEF IInv, RunInv, Succeeded
  <2>2. run.todo = <<"minter", "collection">> /\ run.cmd # "instantiate"
    <3>1. \/ run.todo = <<"minter", "collection">> /\ run.cmd # "instantiate"
          \/ run.todo \in {<<"minter">>, <<"collection">>, <<"both">>}
      BY <2>1 DEF ToDo, StoreCommand, Command
    <3> QED
      BY <1>2, <3>1
  <2>3. run' = [cmd |-> run.cmd, todo |-> Tail(run.todo), context |-> run.context,
                waiting |-> FALSE, response |-> None]
    BY <1>2 DEF Proceed, IInv, RunInv
  <2>4. Tail(run.todo) = <<"collection">>
    BY <2>2
  <2>5. RunInv' /\ ResponseInv'
    BY <2>1, <2>2, <2>3, <2>4 DEF RunInv, ResponseInv, ToDo, StoreCommand, Command
  <2>6. MigrateInv'
    BY <2>1, <2>2, <2>3, <2>4 DEF IInv, MigrateInv, chain
  <2>7. ChainInv' /\ ReadInv' /\ MempoolInv'
    BY <2>3 DEF IInv, ChainInv, ReadInv, MempoolInv, chain
  <2> QED
    BY <2>5, <2>6, <2>7 DEF IInv
<1> QED
  BY <1>1, <1>2

-----------------------------------------------------------------------------
(* Responses *)

LEMMA ReadCodeIdStep == IInv /\ ReadCodeId => IInv'
<1> SUFFICES ASSUME IInv, ReadCodeId PROVE IInv'
  OBVIOUS
<1>1. /\ run # None /\ run.response # None /\ run.cmd \in StoreCommand
      /\ UNCHANGED <<env, chain, mempool>>
      /\ Read(env, codes, contracts) /\ Read(printed, codes, contracts)
  BY DEF ReadCodeId, Answered, IInv, ReadInv
<1> DEFINE id == StoredCode(run.response)
<1>2. CASE Throw
  BY <1>1, <1>2, RunEnds DEF Throw
<1>3. CASE /\ Succeeded(run.response) /\ Proceed
           /\ printed' = IF Head(run.todo) = "minter"
                         THEN [printed EXCEPT !.minterCode = id]
                         ELSE [printed EXCEPT !.cw721Code = id]
  <2>1. IsCode(id, Head(run.todo), codes)
    BY <1>1, <1>3 DEF IInv, ResponseInv, Tells, Succeeded, StoredCode
  <2>2. Head(run.todo) \in Kind
    <3>1. ToDo(run.cmd) = {<<"minter", "collection">>, <<"minter">>, <<"collection">>}
      BY <1>1 DEF ToDo, StoreCommand
    <3> QED
      BY <1>1, <3>1 DEF IInv, RunInv, Kind
  <2> HIDE DEF id
  <2>3. Read(printed', codes, contracts)
    BY <1>1, <1>3, <2>1, <2>2 DEF Read, Kind
  <2> QED
    BY <1>1, <1>3, <2>3, RunProceeds
<1> QED
  BY <1>2, <1>3 DEF ReadCodeId

\* Of two events with different code ids each gives its own address.
LEMMA AddressesOf ==
  ASSUME NEW events, NEW a, NEW b, a # b, DOMAIN events = 1 .. 2,
         events[1].code = a, events[2].code = b
  PROVE  /\ AddressOf(a, events) = events[1].address
         /\ AddressOf(b, events) = events[2].address
<1>1. /\ {i \in DOMAIN events : events[i].code = a} = {1}
      /\ {i \in DOMAIN events : events[i].code = b} = {2}
  OBVIOUS
<1>2. Max({1}) = 1 /\ Max({2}) = 2
  BY DEF Max
<1> QED
  BY <1>1, <1>2 DEF AddressOf

LEMMA ReadAddressesStep == IInv /\ ReadAddresses => IInv'
<1> SUFFICES ASSUME IInv, ReadAddresses PROVE IInv'
  OBVIOUS
<1>1. /\ run # None /\ run.response # None /\ run.cmd = "instantiate"
      /\ UNCHANGED <<env, chain, mempool>>
      /\ Read(env, codes, contracts) /\ Read(printed, codes, contracts)
  BY DEF ReadAddresses, Answered, IInv, ReadInv
<1> DEFINE c == run.context
           events == run.response.events
           minter == AddressOf(c.minterCode, events)
           cw721 == AddressOf(c.cw721Code, events)
<1>2. CASE Throw
  BY <1>1, <1>2, RunEnds DEF Throw
<1>3. CASE /\ Succeeded(run.response) /\ c.minterCode # c.cw721Code /\ Proceed
           /\ printed' = [printed EXCEPT !.minter = minter, !.cw721 = cw721]
  <2>1. /\ DOMAIN events = 1 .. 2
        /\ events[1].code = c.minterCode /\ events[2].code = c.cw721Code
        /\ IsPair(events[1].address, events[2].address, contracts)
    BY <1>1, <1>3 DEF IInv, ResponseInv, Tells, Succeeded
  <2>2. IsPair(minter, cw721, contracts)
    <3> HIDE DEF events, c
    <3> QED
      BY <1>3, <2>1, AddressesOf
  <2> HIDE DEF minter, cw721
  <2>3. Read(printed', codes, contracts)
    BY <1>1, <1>3, <2>2 DEF Read
  <2> QED
    BY <1>1, <1>3, <2>3, RunProceeds
<1> QED
  BY <1>2, <1>3 DEF ReadAddresses

LEMMA RestStep ==
  IInv /\ (GiveUp \/ ReadMigrated \/ NoteInEnv \/ Drop) => IInv'
<1> SUFFICES ASSUME IInv, GiveUp \/ ReadMigrated \/ NoteInEnv \/ Drop PROVE IInv'
  OBVIOUS
<1>1. Read(env, codes, contracts) /\ Read(printed, codes, contracts)
  BY DEF IInv, ReadInv
<1>2. CASE GiveUp
  BY <1>1, <1>2, RunEnds DEF GiveUp
<1>3. CASE ReadMigrated
  <2>1. CASE Throw
    BY <1>1, <1>3, <2>1, RunEnds DEF ReadMigrated, Throw
  <2>2. CASE Succeeded(run.response) /\ Proceed /\ UNCHANGED printed
    BY <1>1, <1>3, <2>2, RunProceeds DEF ReadMigrated, Answered
  <2> QED
    BY <1>3, <2>1, <2>2 DEF ReadMigrated
<1>4. CASE NoteInEnv
  <2>1. /\ run = None /\ run' = run /\ printed' = NotSet
        /\ env' = [f \in DOMAIN env |-> IF printed[f] = 0 THEN env[f] ELSE printed[f]]
        /\ UNCHANGED <<chain, mempool>>
    BY <1>4 DEF NoteInEnv
  <2>2. Read(printed', codes, contracts)
    BY <2>1 DEF Read, NotSet
  <2>3. /\ env = [minterCode |-> env.minterCode, cw721Code |-> env.cw721Code,
                  minter |-> env.minter, cw721 |-> env.cw721]
        /\ printed = [minterCode |-> printed.minterCode, cw721Code |-> printed.cw721Code,
                      minter |-> printed.minter, cw721 |-> printed.cw721]
    BY <1>1 DEF Read
  <2>4. env' = [minterCode |-> IF printed.minterCode = 0 THEN env.minterCode
                                ELSE printed.minterCode,
                cw721Code |-> IF printed.cw721Code = 0 THEN env.cw721Code
                               ELSE printed.cw721Code,
                minter |-> IF printed.minter = 0 THEN env.minter ELSE printed.minter,
                cw721 |-> IF printed.cw721 = 0 THEN env.cw721 ELSE printed.cw721]
    BY <2>1, <2>3
  <2>5. 0 \notin DOMAIN contracts
    BY DEF IInv, ChainInv
  <2>6. Read(env', codes, contracts)
    BY <1>1, <2>4, <2>5 DEF Read, IsPair
  <2> QED
    BY <2>1, <2>2, <2>6, RunEnds
<1>5. CASE Drop
  <2>1. mempool' \subseteq mempool /\ UNCHANGED <<env, printed, run, chain>>
    BY <1>5 DEF Drop
  <2>2. mempool = {} => mempool' = {}
    BY <2>1
  <2> QED
    BY <2>1, <2>2 DEF IInv, ChainInv, ReadInv, RunInv, ResponseInv, MempoolInv, MigrateInv,
                      MinterDone, chain
<1> QED
  BY <1>2, <1>3, <1>4, <1>5

-----------------------------------------------------------------------------
(* Executing a message *)

LEMMA AppendTwo ==
  ASSUME NEW C, NEW s \in Seq(C), NEW x \in C, NEW y \in C
  PROVE  /\ s \o <<x, y>> \in Seq(C) /\ DOMAIN (s \o <<x, y>>) = 1 .. Len(s) + 2
         /\ \A i \in 1 .. Len(s) : (s \o <<x, y>>)[i] = s[i]
         /\ (s \o <<x, y>>)[Len(s) + 1] = x /\ (s \o <<x, y>>)[Len(s) + 2] = y
<1>1. /\ <<x, y>> \in Seq(C) /\ Len(<<x, y>>) = 2
      /\ <<x, y>>[1] = x /\ <<x, y>>[2] = y
  OBVIOUS
<1> DEFINE t == <<x, y>>
<1> HIDE DEF t
<1>2. t \in Seq(C) /\ Len(t) = 2 /\ t[1] = x /\ t[2] = y
  BY <1>1 DEF t
<1>3. /\ s \o t \in Seq(C) /\ Len(s \o t) = Len(s) + Len(t)
      /\ \A i \in 1 .. Len(s) + Len(t) :
           (s \o t)[i] = IF i <= Len(s) THEN s[i] ELSE t[i - Len(s)]
  BY <1>2, ConcatProperties, Zenon
<1>4. Len(s) \in Nat /\ DOMAIN (s \o t) = 1 .. Len(s \o t)
  BY <1>3
<1>5. /\ DOMAIN (s \o t) = 1 .. Len(s) + 2
      /\ \A i \in 1 .. Len(s) : (s \o t)[i] = s[i]
      /\ (s \o t)[Len(s) + 1] = x /\ (s \o t)[Len(s) + 2] = y
  BY <1>2, <1>3, <1>4
<1> QED
  BY <1>3, <1>5 DEF t

LEMMA ContractsGrow ==
  ASSUME ChainInv, NEW m,
         CodeIs(m.minterCode, "minter"), CodeIs(m.cw721Code, "collection"),
         contracts' = contracts \o
           <<[kind |-> "minter", code |-> m.minterCode, owner |-> 0],
             [kind |-> "collection", code |-> m.cw721Code, owner |-> Len(contracts) + 1]>>,
         UNCHANGED codes
  PROVE  ChainInv' /\ Grows(codes, contracts, codes', contracts')
         /\ IsPair(Len(contracts) + 1, Len(contracts) + 2, contracts')
<1> DEFINE n == Len(contracts)
           x == [kind |-> "minter", code |-> m.minterCode, owner |-> 0]
           y == [kind |-> "collection", code |-> m.cw721Code, owner |-> n + 1]
           C == [kind : Kind, code : Nat, owner : Nat]
<1>1. contracts \in Seq(C) /\ n \in Nat /\ DOMAIN contracts = 1 .. n
  BY DEF ChainInv
<1>2. /\ x.kind = "minter" /\ x.code = m.minterCode
      /\ y.kind = "collection" /\ y.code = m.cw721Code /\ y.owner = n + 1
  OBVIOUS
<1>3. m.minterCode \in Nat /\ m.cw721Code \in Nat
  BY DEF CodeIs, ChainInv
<1>4. x \in C /\ y \in C
  BY <1>1, <1>3 DEF Kind
<1> HIDE DEF x, y, C
<1>5. contracts' = contracts \o <<x, y>>
  BY DEF x, y
<1> HIDE DEF n
<1>6. Len(contracts) = n
  BY DEF n
<1>7. /\ contracts' \in Seq(C)
      /\ DOMAIN contracts' = 1 .. n + 2
      /\ \A i \in 1 .. n : contracts'[i] = contracts[i]
      /\ contracts'[n + 1] = x /\ contracts'[n + 2] = y
  <2>1. /\ contracts \o <<x, y>> \in Seq(C)
        /\ DOMAIN (contracts \o <<x, y>>) = 1 .. Len(contracts) + 2
        /\ \A i \in 1 .. Len(contracts) : (contracts \o <<x, y>>)[i] = contracts[i]
        /\ (contracts \o <<x, y>>)[Len(contracts) + 1] = x
        /\ (contracts \o <<x, y>>)[Len(contracts) + 2] = y
    BY <1>1, <1>4, AppendTwo
  <2> QED
    BY <1>5, <1>6, <2>1, Zenon
<1>8. Grows(codes, contracts, codes', contracts')
  BY <1>1, <1>7 DEF Grows
<1>9. IsPair(n + 1, n + 2, contracts')
  BY <1>1, <1>2, <1>7 DEF IsPair
<1>10. ASSUME NEW a \in DOMAIN contracts'
       PROVE  IsCode(contracts'[a].code, contracts'[a].kind, codes')
  <2>1. a \in 1 .. n \/ a = n + 1 \/ a = n + 2
    BY <1>1, <1>7
  <2> QED
    BY <1>1, <1>2, <1>7, <2>1 DEF ChainInv, IsCode, CodeIs
<1>11. ChainInv'
  BY <1>7, <1>10 DEF ChainInv, C
<1> QED
  BY <1>6, <1>8, <1>9, <1>11

LEMMA MigrationGrows ==
  ASSUME ChainInv, NEW m, m.address \in DOMAIN contracts,
         IsCode(m.code, contracts[m.address].kind, codes),
         contracts' = [contracts EXCEPT ![m.address].code = m.code],
         UNCHANGED codes
  PROVE  /\ ChainInv' /\ Grows(codes, contracts, codes', contracts')
         /\ contracts'[m.address].code = m.code
         /\ \A a \in DOMAIN contracts \ {m.address} : contracts'[a] = contracts[a]
<1> DEFINE C == [kind : Kind, code : Nat, owner : Nat]
           new == [contracts[m.address] EXCEPT !.code = m.code]
<1>1. contracts \in Seq(C) /\ DOMAIN contracts = 1 .. Len(contracts)
  BY DEF ChainInv
<1>2. contracts[m.address] \in C /\ m.code \in Nat
  <2>1. DOMAIN codes = 1 .. Len(codes)
    BY DEF ChainInv
  <2>2. m.code \in Nat
    BY <2>1 DEF IsCode
  <2>3. contracts[m.address] \in C
    <3> HIDE DEF C
    <3> QED
      BY <1>1
  <2> QED
    BY <2>2, <2>3
<1>3. /\ new \in C /\ new.code = m.code
      /\ new.kind = contracts[m.address].kind /\ new.owner = contracts[m.address].owner
  BY <1>2
<1>4. contracts' = [contracts EXCEPT ![m.address] = new]
  OBVIOUS
<1> HIDE DEF C, new
<1>5. /\ DOMAIN contracts' = DOMAIN contracts /\ contracts' \in Seq(C)
      /\ contracts'[m.address] = new
      /\ \A a \in DOMAIN contracts \ {m.address} : contracts'[a] = contracts[a]
  BY <1>1, <1>3, <1>4
<1>6. Grows(codes, contracts, codes', contracts')
  BY <1>3, <1>5 DEF Grows
<1>7. ChainInv'
  BY <1>3, <1>5 DEF ChainInv, IsCode, C
<1> QED
  BY <1>3, <1>5, <1>6, <1>7

LEMMA KeepsOld ==
  ASSUME ChainInv, NEW m, NEW a \in DOMAIN contracts,
         CodeIs(m.minterCode, "minter"), CodeIs(m.cw721Code, "collection")
  PROVE  (contracts \o
           <<[kind |-> "minter", code |-> m.minterCode, owner |-> 0],
             [kind |-> "collection", code |-> m.cw721Code, owner |-> Len(contracts) + 1]>>)[a]
           = contracts[a]
<1> DEFINE x == [kind |-> "minter", code |-> m.minterCode, owner |-> 0]
           y == [kind |-> "collection", code |-> m.cw721Code, owner |-> Len(contracts) + 1]
           C == [kind : Kind, code : Nat, owner : Nat]
<1>1. contracts \in Seq(C) /\ DOMAIN contracts = 1 .. Len(contracts)
  BY DEF ChainInv
<1>2. x \in C /\ y \in C
  BY <1>1 DEF Kind, CodeIs, ChainInv
<1> HIDE DEF x, y, C
<1>3. \A i \in 1 .. Len(contracts) : (contracts \o <<x, y>>)[i] = contracts[i]
  BY <1>1, <1>2, AppendTwo
<1> QED
  BY <1>1, <1>3 DEF x, y

\* An accepted message lets the chain grow, and its events tell the run it belongs to.
LEMMA ExecuteStep ==
  ASSUME IInv, NEW msg \in mempool, Accepted(msg), Effect(msg)
  PROVE  /\ ChainInv' /\ Grows(codes, contracts, codes', contracts')
         /\ run # None /\ Message = msg =>
              Tells(run.cmd, run.todo, run.context, Events(msg), codes', contracts')
<1> DEFINE c == run.context
<1>1. Composed(msg, codes, contracts) /\ ChainInv
  BY DEF IInv, MempoolInv
<1>2. /\ run # None /\ Message = msg /\ msg.op = "store" =>
           run.cmd \in StoreCommand /\ msg.kind = Head(run.todo)
      /\ run # None /\ Message = msg /\ msg.op = "instantiate" =>
           /\ run.cmd = "instantiate"
           /\ msg.minterCode = c.minterCode /\ msg.cw721Code = c.cw721Code
      /\ run # None /\ Message = msg /\ msg.op = "migrate" => run.cmd = "migrate"
  <2> SUFFICES ASSUME run # None
               PROVE  /\ Message.op = "store" =>
                           run.cmd \in StoreCommand /\ Message.kind = Head(run.todo)
                      /\ Message.op = "instantiate" =>
                           /\ run.cmd = "instantiate"
                           /\ Message.minterCode = c.minterCode
                           /\ Message.cw721Code = c.cw721Code
                      /\ Message.op = "migrate" => run.cmd = "migrate"
    OBVIOUS
  <2>1. run.cmd \in StoreCommand \/ run.cmd = "instantiate" \/ run.cmd = "migrate"
    BY DEF IInv, RunInv, Command
  <2>2. CASE run.cmd \in StoreCommand
    BY <2>2 DEF Message, StoreMessage, InstantiateMessage, MigrateMessage,
       StoreCommand
  <2>3. CASE run.cmd = "instantiate"
    BY <2>3 DEF Message, StoreMessage, InstantiateMessage, MigrateMessage,
       StoreCommand
  <2>4. CASE run.cmd = "migrate"
    <3>1. Message.op = "migrate"
      BY <2>4 DEF Message, StoreMessage, InstantiateMessage, MigrateMessage,
       StoreCommand
    <3> QED
      BY <2>4, <3>1
  <2> QED
    BY <2>1, <2>2, <2>3, <2>4
<1>3. CASE msg.op = "store" /\ msg.kind \in Kind
  <2>1. codes' = Append(codes, msg.kind) /\ contracts' = contracts
    BY <1>3 DEF Effect
  <2>2. /\ ChainInv' /\ Grows(codes, contracts, codes', contracts')
        /\ IsCode(Len(codes) + 1, msg.kind, codes')
    BY <1>1, <1>3, <2>1, CodesGrow
  <2>3. Events(msg)[1].code = Len(codes) + 1
    BY <1>3 DEF Events
  <2> QED
    BY <1>2, <1>3, <2>2, <2>3 DEF Tells, StoreCommand
<1>4. CASE msg.op = "instantiate"
  <2>1. /\ contracts' = contracts \o
             <<[kind |-> "minter", code |-> msg.minterCode, owner |-> 0],
               [kind |-> "collection", code |-> msg.cw721Code, owner |-> Len(contracts) + 1]>>
        /\ UNCHANGED codes
    BY <1>4 DEF Effect
  <2>2. CodeIs(msg.minterCode, "minter") /\ CodeIs(msg.cw721Code, "collection")
    BY <1>4 DEF Accepted
  <2>3. /\ ChainInv' /\ Grows(codes, contracts, codes', contracts')
        /\ IsPair(Len(contracts) + 1, Len(contracts) + 2, contracts')
    BY <1>1, <2>1, <2>2, ContractsGrow
  <2>4. /\ Events(msg) = <<[code |-> msg.minterCode, address |-> Len(contracts) + 1],
                           [code |-> msg.cw721Code, address |-> Len(contracts) + 2]>>
    BY <1>4 DEF Events
  <2>5. /\ DOMAIN Events(msg) = 1 .. 2
        /\ Events(msg)[1].code = msg.minterCode /\ Events(msg)[2].code = msg.cw721Code
        /\ Events(msg)[1].address = Len(contracts) + 1
        /\ Events(msg)[2].address = Len(contracts) + 2
    BY <2>4
  <2> QED
    BY <1>2, <1>4, <2>3, <2>5 DEF Tells, StoreCommand
<1>5. CASE msg.op = "migrate"
  <2>1. /\ contracts' = [contracts EXCEPT ![msg.address].code = msg.code]
        /\ UNCHANGED codes
    BY <1>5 DEF Effect
  <2>2. msg.address \in DOMAIN contracts /\ msg.code \in DOMAIN codes
    BY <1>5 DEF Accepted
  <2>3. IsCode(msg.code, contracts[msg.address].kind, codes)
    BY <1>1, <1>5, <2>2 DEF Composed, ChainInv
  <2>4. ChainInv' /\ Grows(codes, contracts, codes', contracts')
    BY <1>1, <2>1, <2>2, <2>3, MigrationGrows
  <2> QED
    BY <1>2, <1>5, <2>4 DEF Tells, StoreCommand
<1> QED
  BY <1>1, <1>3, <1>4, <1>5 DEF Composed

LEMMA DeliverStep == IInv /\ Deliver => IInv'
<1> SUFFICES ASSUME IInv, Deliver PROVE IInv'
  OBVIOUS
<1>1. PICK msg \in mempool :
        \/ /\ Accepted(msg) /\ Effect(msg)
           /\ Answer(msg, [code |-> 0, events |-> Events(msg)])
        \/ /\ UNCHANGED chain
           /\ Answer(msg, [code |-> 1, events |-> <<>>])
  BY DEF Deliver
<1>2. mempool' = {} /\ UNCHANGED <<env, printed>>
  BY DEF Deliver
<1> DEFINE told == run # None /\ run.waiting /\ run.response = None /\ Message = msg
           with(response) ==
             [cmd |-> run.cmd, todo |-> run.todo, context |-> run.context,
              waiting |-> run.waiting, response |-> response]
\* The chain, and whom the answer reaches.
<1>3. ChainInv' /\ Grows(codes, contracts, codes', contracts')
  <2>1. CASE UNCHANGED chain
    BY <2>1 DEF IInv, ChainInv, Grows, chain
  <2>2. CASE Accepted(msg) /\ Effect(msg)
    BY <2>2, ExecuteStep
  <2> QED
    BY <1>1, <2>1, <2>2
<1>4. \/ run' = run
      \/ told /\ run' = with([code |-> 1, events |-> <<>>])
      \/ /\ Accepted(msg) /\ Effect(msg) /\ told
         /\ run' = with([code |-> 0, events |-> Events(msg)])
  <2>1. ASSUME NEW response, told, Answer(msg, response)
        PROVE  run' = with(response)
    <3>1. run' = [run EXCEPT !.response = response]
      BY <2>1 DEF Answer
    <3> QED
      BY <2>1, <3>1 DEF IInv, RunInv
  <2>2. ASSUME NEW response, ~told, Answer(msg, response)
        PROVE  run' = run
    BY <2>2 DEF Answer
  <2> QED
    BY <1>1, <2>1, <2>2
<1>5. \A response :
        /\ with(response).cmd = run.cmd /\ with(response).todo = run.todo
        /\ with(response).context = run.context /\ with(response).waiting = run.waiting
        /\ with(response).response = response
        /\ with(response) =
             [cmd |-> with(response).cmd, todo |-> with(response).todo,
              context |-> with(response).context, waiting |-> with(response).waiting,
              response |-> with(response).response]
  OBVIOUS
<1> HIDE DEF with
<1>6. ReadInv'
  BY <1>2, <1>3, <1>4, <1>5, ReadGrows DEF IInv, ReadInv
<1>7. RunInv'
  BY <1>4, <1>5 DEF IInv, RunInv
<1>8. ResponseInv'
  <2>1. CASE run' = run
    BY <1>3, <2>1, TellsGrows DEF IInv, ResponseInv
  <2>2. CASE run' = with([code |-> 1, events |-> <<>>])
    BY <1>5, <2>2 DEF ResponseInv
  <2>3. CASE /\ Accepted(msg) /\ Effect(msg) /\ told
             /\ run' = with([code |-> 0, events |-> Events(msg)])
    <3>1. Tells(run.cmd, run.todo, run.context, Events(msg), codes', contracts')
      BY <2>3, ExecuteStep
    <3> QED
      BY <1>5, <2>3, <3>1 DEF ResponseInv
  <2> QED
    BY <1>4, <2>1, <2>2, <2>3
<1>9. MempoolInv'
  BY <1>2 DEF MempoolInv
\* Something was under way: no run had its minter done.
<1>10. MigrateInv'
  <2>1. CASE run' = run
    BY <2>1 DEF IInv, MigrateInv, MinterDone
  <2>2. CASE told /\ run' = with([code |-> 1, events |-> <<>>])
    <3>1. run'.waiting = run.waiting /\ run'.response = [code |-> 1, events |-> <<>>]
      BY <1>5, <2>2
    <3>2. run'.response.code = 1
      BY <3>1
    <3>3. run'.waiting
      BY <2>2, <3>1, Zenon
    <3>4. run'.response.code # 0
      BY <3>2
    <3> QED
      BY <3>3, <3>4, Zenon DEF MigrateInv
  <2>3. CASE /\ Accepted(msg) /\ Effect(msg) /\ told
             /\ run' = with([code |-> 0, events |-> Events(msg)])
    <3>1. run'.waiting /\ run'.cmd = run.cmd /\ run'.todo = run.todo
          /\ run'.context = run.context
      BY <1>5, <2>3
    <3>2. SUFFICES ASSUME run.cmd = "migrate", run.todo = <<"minter", "collection">>
                   PROVE  MinterDone(run.context, contracts', mempool')
      BY <3>1 DEF MigrateInv
    <3>3. msg = [op |-> "migrate", address |-> run.context.minter,
                 code |-> run.context.minterCode, with |-> run.context.minterCode]
      BY <2>3, <3>2 DEF Message, StoreMessage, InstantiateMessage, MigrateMessage,
       StoreCommand
    <3>4. /\ msg.address \in DOMAIN contracts /\ msg.code \in DOMAIN codes
          /\ contracts' = [contracts EXCEPT ![msg.address].code = msg.code]
      BY <2>3, <3>3 DEF Accepted, Effect
    <3>5. contracts'[msg.address].code = msg.code
      <4>1. Composed(msg, codes, contracts) /\ ChainInv
        BY DEF IInv, MempoolInv
      <4>2. IsCode(msg.code, contracts[msg.address].kind, codes)
        BY <3>3, <3>4, <4>1 DEF Composed, ChainInv
      <4>3. UNCHANGED codes
        BY <2>3, <3>3 DEF Effect
      <4> QED
        BY <3>4, <4>1, <4>2, <4>3, MigrationGrows
    <3> QED
      BY <1>2, <1>3, <3>3, <3>4, <3>5 DEF MinterDone, Grows
  <2> QED
    BY <1>4, <2>1, <2>2, <2>3
<1> QED
  BY <1>3, <1>6, <1>7, <1>8, <1>9, <1>10 DEF IInv

-----------------------------------------------------------------------------
(* The invariant *)

LEMMA InitInv == Init => IInv
BY DEF Init, IInv, ChainInv, ReadInv, Read, NotSet, RunInv, ResponseInv, MempoolInv,
       MigrateInv

LEMMA InvStep == IInv /\ [Next]_vars => IInv'
<1> SUFFICES ASSUME IInv, [Next]_vars PROVE IInv'
  OBVIOUS
<1>1. CASE UNCHANGED vars
  BY <1>1 DEF vars, chain, IInv, ChainInv, ReadInv, RunInv, ResponseInv, MempoolInv,
              MigrateInv
<1> QED
  BY <1>1, StartStep, BroadcastStep, ReadCodeIdStep, ReadAddressesStep, RestStep,
     DeliverStep, OthersStore DEF Next

\* What is printed, noted and sent stands for what it stood for when it was read.
THEOREM Invariance == Spec => []IInv
BY InitInv, InvStep, PTL DEF Spec

\* The two addresses in the .env file belong together, whichever runs wrote them: they
\* come from the events of one instantiation, found there by the ids of the two codes.
THEOREM PairsBelongTogether == Spec => []PairNoted
<1>1. IInv => PairNoted
  <2> SUFFICES ASSUME IInv, env.minter # 0 \/ env.cw721 # 0
               PROVE  IsPair(env.minter, env.cw721, contracts)
    BY DEF PairNoted, IsPair
  <2> QED
    BY DEF IInv, ReadInv, Read
<1> QED
  BY <1>1, Invariance, PTL

\* No migration gives a contract the code of the other kind, though the chain accepts it.
THEOREM ContractsKeepRoles == Spec => []RolesKept
<1>1. IInv => RolesKept
  BY DEF IInv, ChainInv, IsCode, RolesKept
<1> QED
  BY <1>1, Invariance, PTL

\* What MinterMigratesFirst says of a step and one contract.
Ahead(a) ==
  contracts[a].kind = "collection" /\ contracts'[a] # contracts[a] =>
    [op |-> "migrate", address |-> a, code |-> contracts'[a].code,
     with |-> contracts[contracts[a].owner].code] \in mempool

LEMMA OnlyMigrationsChange ==
  ASSUME IInv, [Next]_vars, NEW a \in DOMAIN contracts PROVE Ahead(a)
<1>1. SUFFICES ASSUME contracts[a].kind = "collection", contracts'[a] # contracts[a]
               PROVE  [op |-> "migrate", address |-> a, code |-> contracts'[a].code,
                       with |-> contracts[contracts[a].owner].code] \in mempool
  BY DEF Ahead
<1>2. PICK msg \in mempool : Accepted(msg) /\ Effect(msg)
  <2>1. contracts' # contracts
    BY <1>1
  <2> QED
    BY <2>1 DEF Next, vars, chain, Start, Broadcast, GiveUp, ReadCodeId, ReadAddresses,
                ReadMigrated, NoteInEnv, Deliver, Drop, OtherStore
<1>3. Composed(msg, codes, contracts) /\ MinterAhead(msg, contracts) /\ ChainInv
  BY DEF IInv, MempoolInv
<1>4. msg.op # "store"
  BY <1>1, <1>2 DEF Effect
<1>5. msg.op # "instantiate"
  <2> SUFFICES ASSUME msg.op = "instantiate" PROVE FALSE
    OBVIOUS
  <2>1. /\ CodeIs(msg.minterCode, "minter") /\ CodeIs(msg.cw721Code, "collection")
        /\ contracts' = contracts \o
             <<[kind |-> "minter", code |-> msg.minterCode, owner |-> 0],
               [kind |-> "collection", code |-> msg.cw721Code, owner |-> Len(contracts) + 1]>>
    BY <1>2 DEF Accepted, Effect
  <2>2. contracts'[a] = contracts[a]
    BY <1>3, <2>1, KeepsOld
  <2> QED
    BY <1>1, <2>2
<1>6. /\ msg = [op |-> "migrate", address |-> msg.address, code |-> msg.code,
                with |-> msg.with]
  BY <1>3, <1>4, <1>5 DEF Composed
<1>7. /\ msg.address \in DOMAIN contracts /\ msg.code \in DOMAIN codes
      /\ contracts' = [contracts EXCEPT ![msg.address].code = msg.code]
      /\ UNCHANGED codes
  BY <1>2, <1>6 DEF Accepted, Effect
<1>8. IsCode(msg.code, contracts[msg.address].kind, codes)
  BY <1>3, <1>4, <1>5, <1>7 DEF Composed, ChainInv
<1>9. a = msg.address /\ contracts'[a].code = msg.code
  BY <1>1, <1>3, <1>7, <1>8, MigrationGrows
<1>10. contracts[contracts[a].owner].code = msg.with
  BY <1>1, <1>3, <1>6, <1>9 DEF MinterAhead
<1> QED
  BY <1>6, <1>9, <1>10

\* The collection follows its minter: when its migration is executed, the minter runs
\* the code that was noted with the collection's, whatever else was under way.
THEOREM MinterBeforeCollection == Spec => MinterMigratesFirst
<1>1. IInv /\ [Next]_vars => \A a \in DOMAIN contracts : Ahead(a)
  BY OnlyMigrationsChange
<1> QED
  BY <1>1, Invariance, PTL DEF Spec, MinterMigratesFirst, Ahead
=============================================================================
