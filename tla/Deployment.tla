----------------------------- MODULE Deployment -----------------------------
(***************************************************************************)
(* Deploying with the test tool: tx store, tx instantiate and tx migrate   *)
(* of test-tool/src/tx.ts.                                                 *)
(*                                                                         *)
(* A run reads code ids and addresses from the .env file when it starts,   *)
(* broadcasts one message after the other, reads new ids and addresses     *)
(* from the events of the responses and prints them; a person notes them   *)
(* in the .env file for the runs to come.  A run may hear nothing of its   *)
(* transaction and end, while the transaction is executed later.           *)
(*                                                                         *)
(* Code ids and addresses are numbers given out by the chain in order, to  *)
(* this account as to everybody else.  0 stands for one that is not set.   *)
(***************************************************************************)
EXTENDS Integers, Sequences, SequencesExt

CONSTANTS MaxCodes, MaxContracts, MaxBroadcasts, None

ASSUME DeploymentAssumption ==
  MaxCodes \in Nat /\ MaxContracts \in Nat /\ MaxBroadcasts \in Nat

VARIABLES
  env,         \* the .env file: [minterCode, cw721Code, minter, cw721]
  printed,     \* what was printed and not noted yet, of the same type
  run,         \* the run in progress, None between runs
  codes,       \* the codes on the chain: kinds, indexed by code id
  contracts,   \* the contracts: [kind, code, owner], indexed by address
  mempool,     \* messages of the primary account signed with its next sequence number
  broadcasts   \* how many there were

vars == <<env, printed, run, codes, contracts, mempool, broadcasts>>
chain == <<codes, contracts>>

NotSet == [minterCode |-> 0, cw721Code |-> 0, minter |-> 0, cw721 |-> 0]

-----------------------------------------------------------------------------
(* Commands *)

\* The messages a run broadcasts, in order.
Plan(cmd) ==
  CASE cmd = "store"            -> <<"minter", "collection">>
    [] cmd = "store minter"     -> <<"minter">>
    [] cmd = "store collection" -> <<"collection">>
    [] cmd = "instantiate"      -> <<"both">>
    [] cmd = "migrate"          -> <<"minter", "collection">>

StoreCommand == {"store", "store minter", "store collection"}
Command == StoreCommand \cup {"instantiate", "migrate"}

\* initAppContext reads the file once.
Start(cmd) ==
  /\ run = None
  /\ broadcasts < MaxBroadcasts
  /\ run' = [cmd |-> cmd, todo |-> Plan(cmd), context |-> env, waiting |-> FALSE,
             response |-> None]
  /\ UNCHANGED <<env, printed, chain, mempool, broadcasts>>

StoreMessage == [op |-> "store", kind |-> Head(run.todo)]

InstantiateMessage ==
  [op |-> "instantiate", minterCode |-> run.context.minterCode,
   cw721Code |-> run.context.cw721Code]

\* Both contracts in the order of migrate, each with its own code and address.
MigrateMessage ==
  LET c == run.context
  IN  IF Head(run.todo) = "minter"
      THEN [op |-> "migrate", address |-> c.minter, code |-> c.minterCode,
            with |-> c.minterCode]
      ELSE [op |-> "migrate", address |-> c.cw721, code |-> c.cw721Code,
            with |-> c.minterCode]

Message ==
  CASE run.cmd \in StoreCommand -> StoreMessage
    [] run.cmd = "instantiate"  -> InstantiateMessage
    [] run.cmd = "migrate"      -> MigrateMessage

\* MsgBroadcasterWithPk signs with the sequence number that the chain has committed; the
\* same message signed again before that number is used up is the same transaction.
Broadcast ==
  /\ run # None /\ ~run.waiting
  /\ broadcasts < MaxBroadcasts
  /\ broadcasts' = broadcasts + 1
  /\ mempool' = mempool \cup {Message}
  /\ run' = [run EXCEPT !.waiting = TRUE]
  /\ UNCHANGED <<env, printed, chain>>

\* The broadcaster throws, for example when it has waited too long.
GiveUp ==
  /\ run # None /\ run.waiting
  /\ run' = None
  /\ UNCHANGED <<env, printed, chain, mempool, broadcasts>>

-----------------------------------------------------------------------------
(* Responses *)

\* Mutant of Succeeded: the code of the response is not looked at.
AnyCode(response) == TRUE

\* logResponse throws at a code other than 0.
Succeeded(response) == response.code = 0

\* Mutant of StoredCode: the newest code of the chain.
NewestCode(response) == Len(codes)

\* The code id in the EventCodeStored of this transaction.
StoredCode(response) == response.events[1].code

Answered(commands) ==
  run # None /\ run.response # None /\ run.cmd \in commands

\* The next message, or the end of the run.
Proceed ==
  run' = IF Len(run.todo) = 1 THEN None
         ELSE [run EXCEPT !.todo = Tail(@), !.waiting = FALSE, !.response = None]

Throw == run' = None /\ UNCHANGED printed

\* A response without an EventCodeStored is refused, too.
ReadCodeId ==
  /\ Answered(StoreCommand)
  /\ IF Succeeded(run.response) /\ run.response.events # <<>>
     THEN /\ LET id == StoredCode(run.response)
             IN  printed' = IF Head(run.todo) = "minter"
                            THEN [printed EXCEPT !.minterCode = id]
                            ELSE [printed EXCEPT !.cw721Code = id]
          /\ Proceed
     ELSE Throw
  /\ UNCHANGED <<env, chain, mempool, broadcasts>>

\* Mutant of AddressOf: no matter which code the contract runs.
AnyAddress(code, events) ==
  IF events = <<>> THEN 0 ELSE Last(events).address

\* The last EventContractInstantiated with the code id gives the address.
AddressOf(code, events) ==
  LET found == {i \in DOMAIN events : events[i].code = code}
  IN  IF found = {} THEN 0 ELSE events[Max(found)].address

\* An event that fits both code ids is refused, and so is a missing one; only then is
\* the code of the response looked at.
ReadAddresses ==
  /\ Answered({"instantiate"})
  /\ LET c == run.context
         events == run.response.events
         minter == AddressOf(c.minterCode, events)
         cw721 == AddressOf(c.cw721Code, events)
     IN  IF /\ c.minterCode # c.cw721Code
            /\ minter # 0 /\ cw721 # 0
            /\ Succeeded(run.response)
         THEN /\ printed' = [printed EXCEPT !.minter = minter, !.cw721 = cw721]
              /\ Proceed
         ELSE Throw
  /\ UNCHANGED <<env, chain, mempool, broadcasts>>

ReadMigrated ==
  /\ Answered({"migrate"})
  /\ IF Succeeded(run.response) THEN Proceed /\ UNCHANGED printed ELSE Throw
  /\ UNCHANGED <<env, chain, mempool, broadcasts>>

\* The person at the terminal notes what was printed, in the fields it belongs to.
NoteInEnv ==
  /\ run = None
  /\ printed # NotSet
  /\ env' = [f \in DOMAIN env |-> IF printed[f] = 0 THEN env[f] ELSE printed[f]]
  /\ printed' = NotSet
  /\ UNCHANGED <<run, chain, mempool, broadcasts>>

-----------------------------------------------------------------------------
(* The chain *)

CodeIs(code, kind) == code \in DOMAIN codes /\ codes[code] = kind

\* The minter instantiates the collection; neither takes the message of the other.  The
\* migrate messages of the two look the same, and both handlers accept them.
Accepted(msg) ==
  CASE msg.op = "store" -> Len(codes) < MaxCodes
    [] msg.op = "instantiate" ->
         /\ Len(contracts) + 2 <= MaxContracts
         /\ CodeIs(msg.minterCode, "minter") /\ CodeIs(msg.cw721Code, "collection")
    [] msg.op = "migrate" ->
         msg.address \in DOMAIN contracts /\ msg.code \in DOMAIN codes

Effect(msg) ==
  LET n == Len(contracts)
  IN  CASE msg.op = "store" ->
             codes' = Append(codes, msg.kind) /\ UNCHANGED contracts
        [] msg.op = "instantiate" ->
             /\ contracts' = contracts \o
                  <<[kind |-> "minter", code |-> msg.minterCode, owner |-> 0],
                    [kind |-> "collection", code |-> msg.cw721Code, owner |-> n + 1]>>
             /\ UNCHANGED codes
        [] msg.op = "migrate" ->
             contracts' = [contracts EXCEPT ![msg.address].code = msg.code]
             /\ UNCHANGED codes

Events(msg) ==
  LET n == Len(contracts)
  IN  CASE msg.op = "store" -> <<[code |-> Len(codes) + 1, address |-> 0]>>
        [] msg.op = "instantiate" ->
             <<[code |-> msg.minterCode, address |-> n + 1],
               [code |-> msg.cw721Code, address |-> n + 2]>>
        [] msg.op = "migrate" -> <<>>

\* The run that still waits for the message is told of it.
Answer(msg, response) ==
  run' = IF run # None /\ run.waiting /\ run.response = None /\ Message = msg
         THEN [run EXCEPT !.response = response] ELSE run

\* Executing a transaction, accepted or not, uses up the sequence number: the others
\* signed with it are never executed.
Deliver ==
  /\ \E msg \in mempool :
       \/ /\ Accepted(msg)
          /\ Effect(msg)
          /\ Answer(msg, [code |-> 0, events |-> Events(msg)])
       \/ /\ UNCHANGED chain
          /\ Answer(msg, [code |-> 1, events |-> <<>>])
  /\ mempool' = {}
  /\ UNCHANGED <<env, printed, broadcasts>>

Drop ==
  /\ \E msg \in mempool : mempool' = mempool \ {msg}
  /\ UNCHANGED <<env, printed, run, chain, broadcasts>>

\* Other people store codes, too.
OtherStore ==
  /\ Len(codes) < MaxCodes
  /\ \E k \in {"minter", "collection"} : codes' = Append(codes, k)
  /\ UNCHANGED <<env, printed, run, contracts, mempool, broadcasts>>

-----------------------------------------------------------------------------

Init ==
  /\ env = NotSet /\ printed = NotSet
  /\ run = None
  /\ codes = <<>> /\ contracts = <<>>
  /\ mempool = {}
  /\ broadcasts = 0

Next ==
  \/ \E c \in Command : Start(c)
  \/ Broadcast \/ GiveUp \/ ReadCodeId \/ ReadAddresses \/ ReadMigrated \/ NoteInEnv
  \/ Deliver \/ Drop \/ OtherStore

Spec == Init /\ [][Next]_vars

-----------------------------------------------------------------------------
(* Properties *)

\* The two addresses noted together are a minter and the collection it owns, although
\* runs end early, transactions are executed late and instantiations are repeated.
PairNoted ==
  env.minter # 0 \/ env.cw721 # 0 =>
    /\ contracts[env.minter].kind = "minter"
    /\ contracts[env.cw721].kind = "collection"
    /\ contracts[env.cw721].owner = env.minter

\* A contract keeps its role: nothing on the chain stops a minter from being migrated
\* to the code of a collection, only the ids and addresses that were read.
RolesKept ==
  \A a \in DOMAIN contracts : codes[contracts[a].code] = contracts[a].kind

\* A collection is migrated only after its minter runs the code that was noted with its
\* own: a migration that fails at the minter, or is repeated while an earlier one is
\* still under way, never takes the collection ahead.
MinterMigratesFirst ==
  [][\A a \in DOMAIN contracts :
       contracts[a].kind = "collection" /\ contracts'[a] # contracts[a] =>
         [op |-> "migrate", address |-> a, code |-> contracts'[a].code,
          with |-> contracts[contracts[a].owner].code] \in mempool]_vars
=============================================================================
