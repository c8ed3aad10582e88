# Formal model of the DEGA Injective contracts

This directory holds TLA+ modules that model the two CosmWasm contracts of this repository
(`dega-minter`, `dega-cw721`), the system they form on the chain, the tool that deploys
them, the off-chain side of a sale, the test tool (deployment, administration, token
commands, queries) and the messages between them; TLC configurations that model-check them
on small instances; and TLAPS proofs of the main properties for every instance.

Contents: 1 the system, 2 the modules, 3 the runs, 4 what the runs show, 5 findings,
6 fairness, 7 proofs, 8 abstractions, 9 what is not modelled, 10 plan, 11 how to run.

## 1. The system

| Component | State it keeps | Operations | Talks to |
|---|---|---|---|
| Minter (`contracts/dega-minter`) | settings (signer key, pause flag), admin list, UUID registry, token index, collection address | instantiate, reply, UpdateSettings, UpdateAdmin (Add, Remove), Mint, migrate; queries Config, Admins, IsAdmin, CheckSig | instantiates the collection; emits the mint message and the payout |
| Collection (`contracts/dega-cw721`) | owner (always the minter), tokens with approvals, token count, operators, collection info with royalty | instantiate, Mint, UpdateCollectionInfo, the cw721-base messages Transfer, Send, Approve, Revoke, ApproveAll, RevokeAll, Burn; queries about tokens, approvals, operators and royalties | queries the minter's Config and IsAdmin; calls ReceiveNft of receivers |
| Shared package (`packages/dega-inj`) | none | message types, storage and serialisation wrappers | both contracts, and the tools through generated types |
| Chain (outside `src/`) | balances, block time, the transaction in execution | delivers, commits and reverts transactions | everything |
| Deploy tool (`deploy/tool`) | the artifacts directory; it reads spec files and the wasm file | gov-prop, instantiate, migrate, sign | `injectived` |
| Test tool (`test-tool`) | application context, cached mint requests and signatures, its own artifacts directory | admin commands, store, instantiate, migrate, minting as backend and as buyer, commands about tokens, queries, local-net set-up | chain, contracts |
| Messages (`test-tool/src/messages`, `deploy/tool/src/messages`) | none | types generated from the JSON schemas of the Rust types, with a run-time check | tools to contracts |

How they interact. A backend signs mint requests with the key whose public part the
minter stores. A buyer brings a request, its signature and the price to the minter. The
minter checks both, registers the UUID, takes the next index and emits two messages: one
makes the collection mint the token, one pays the seller. The collection, before it
mints, asks the minter whether minting is paused; before it changes its info, whether
the sender is an admin. The chain executes messages depth first and reverts the whole
transaction when one fails.

What is hard here:

- the state between two messages of a transaction is visible to the collection's queries
  and to receivers' callbacks;
- the UUID and the index are written before later checks and messages that may fail;
- the two contracts count tokens independently of each other;
- the admin list is edited by the admins it lists, and authority is looked up at the
  moment a message is executed;
- a signed order stays valid while keys rotate, clocks differ and blocks pass; it is
  handed over in two files, and a buyer who hears nothing tries again;
- deployment works on files: those of earlier runs, those kept elsewhere, and a wasm file
  that is read twice;
- a command that was given up may be executed later, after the one that replaced it, and
  a grant ends by the block time though its end was reckoned with the tool's clock;
- a listing is read page by page while tokens come and go;
- each message is described twice, in Rust and in TypeScript, and a mint request is
  signed as the text one of them writes and checked as the text the other writes.

What makes each part correct, in short. Minter: no order is redeemed twice, every sale
was authorised, token numbers are dense, an admin remains. Collection: the count and the
token map agree, no approval survives its owner, no royalty exceeds the price. System: a
sale happens with its token and its money or not at all. Deploy tool: the transaction on
disk is the one the spec file asks for. Minting off chain: an order that was handed out
can be redeemed, and only such an order. Commands about tokens: who may move a token is
whom a command named, for as long as it said, and whom the queries print. Messages: both
descriptions mean the same.

## 2. The modules

| Module | Models | Lines up with the code |
|---|---|---|
| `Minter` | the minter contract | one variable per storage item of `state.rs`, one action per handler of `execute.rs` and `contract.rs`; each action's guard, `...Accepted`, collects the handler's early returns in the code's order |
| `Collection` | the collection contract | `DegaCw721Contract` of `state.rs` and the maps of cw721-base; handlers of `execute.rs`, queries of `query.rs`; answers of the minter are parameters |
| `Sale` | the promise: delivery against payment | abstract, no code of its own |
| `DegaSystem` | both contracts, bank, chain | INSTANCEs of `Minter` and `Collection` on one state; one action per message; a queue of messages per transaction, with the state to return to |
| `DeployTool` | the deploy tool | a run is a record with a program counter; one action per step that can fail, read or write a file; the files of the artifacts directory and those kept elsewhere |
| `MintSession` | minting off chain | `mint-as-backend`, `mint-as-user` and `mint-combined` of `test-tool/src/tx.ts` around an INSTANCE of `Minter` |
| `Deployment` | deploying with the test tool | `store`, `instantiate` and `migrate` of `test-tool/src/tx.ts`: a run is a record with the messages left to send; the `.env` file, the codes and contracts on the chain |
| `AdminTool` | administration with the test tool | the five commands of `test-tool/src/tx-admin.ts`, broadcast or generated, around INSTANCEs of `Minter` and `Collection` |
| `Messages` | values on the wire, the generated types and their check | one operator per interface, the `typeMap` of each file, `transform` of `cast` and `uncast` |
| `Serde` | how the contracts read the same values | one operator per type of `packages/dega-inj`; `Read` is serde with the attributes of `cw_serde` |
| `ToolContext` | what every command of the test tool is given | the addresses and keys of `test-tool/src/context.ts`, page sizes, the order of strings |
| `Queries` | the query commands and the contracts' answers | one operator per command of `test-tool/src/query.ts`; `AnswerCw721` and `AnswerMinter` for the two `query.rs`, on the state of `Collection` |
| `Listing` | a listing as its reader sees it | a cursor and the pages after it, while `Collection` goes on; no messages |
| `QuerySession` | a person at the query commands | implements `Listing` by the commands of `Queries`; a screen with the queries sent and their answers; the contracts change between two queries |
| `TokenTool` | the commands about tokens on their way | what a command line asks for, the broadcast, the mempool with its sequence numbers, the report, on top of `Collection`; what arrives of a line is the constant `Call` |
| `TokenCommands` | the same commands as messages | eight commands of `test-tool/src/tx.ts` from the arguments to what the contract reads, by way of `Queries` and `Serde`; its `Arriving` is the `Call` of the run |
| `MC...` | instances | accounts, keys, orders and transactions for TLC |
| `...Proofs` | proofs | one module per proved component |

`Minter` and `Collection` are specifications in their own right: their `Spec` calls every
handler with every input of the constant sets, in any order, while time passes. A call
that the handler refuses is not a step (the chain reverts it). `DegaSystem` uses the same
handlers, so what TLC and TLAPS say of them speaks of the same definitions, but decides
which calls happen: `Begin` takes a transaction, the actions of `Execute` run its head
message and put what the contract emits in front of the queue, `Commit` ends an empty
queue and `Abort` restores the state saved at `Begin`. Abort may happen at any message:
that covers refusals, failing receivers and lack of gas.

`Sale` is what a buyer and a seller may rely on. `DegaSystem` implements it under the
mapping: `sold` is the committed set of accepted mints, `delivered` the committed tokens
and the burnt ones, `balance` the committed bank with the coins that an account gave away
outside sales (`stray`): attached to calls that ask for none, or sent as a bank message of
its own. The property `SaleAtomic` is `Sale!Spec` under this mapping. Every movement of
coins, that of a sale, of a gift and of a payout, is one operator, `Gain`.

`Messages` and `Serde` describe each message twice and independently, as the code does.
A message that a command sends goes through `Stringify` (JSON.stringify) and `Read` (serde)
before a handler of `Collection` sees it, in `Queries` and in `TokenCommands`: a field under
a wrong name or of a wrong kind would not arrive. The commands use the generated types as the
compiler does; the check at run time that the generated files offer, `Transform`, is the
same description in a form that can be evaluated, and only the messages of the receiver
tester go through it.

Two modules say without messages what the message layer has to achieve, so that it can be
proved what follows. `Listing` is the abstract specification of reading page by page: the
property `SpecListing` of the run `queries` says that the commands, their arguments, JSON and
the contract's answers implement it. `TokenTool` takes what arrives of a command line, at a
reading of the tool's clock, as a constant, `Call`, of which it assumes (`CallAssumption`)
that nothing arrives, or what the contract refuses to read, or what the line means (`Meant`).
The run `token_tool` gives `Call` the value that `TokenCommands` computes by way of the
message, and TLC evaluates the assumption for its command lines.

Ghost state, which no guard reads: `issued` (the attributes of each accepted mint's
response, with payer, amount, key and time), the field `under` of an approval, `burned`,
`stray`, `tx.senders`, `released`, `held`, `seen`, `screen.stale`, `given`, `gone`, `run`
stamps, `runs` and `latest` in `DeployTool` (`runs` also bounds the exploration).

## 3. The runs

| Run | Instance | Question |
|---|---|---|
| `minter` | 3 accounts (one of them the collection, one another collection), 1 invalid address, 2 keys and 1 malformed key, 8 orders with 3 UUIDs, 5 payments, index up to 2, times 0 to 2 | does the minter keep its promises for any sequence of calls? |
| `system` | buyer, seller, receiving contract, admins; 2 orders of one UUID, 1 of another; the transactions of 1 or 2 messages of `SaleTransactions` and `AdminTransactions`, among them coins sent besides any sale, 8 messages of gas; royalties of 0, 50, 100 and 150 percent | are sales atomic, is every token and coin accounted for at each message, who can change what, and can a stored royalty exceed a price? |
| `system_royalty` | a deployment with a royalty and an admin who removes it | finding 1 |
| `deploy_tool` | 1 network, 2 accounts, 2 builds of the wasm, 3 runs of the tool, 1 transaction kept elsewhere | what lies in the artifacts directory after any runs? |
| `deploy_note` | the same with notes, nothing kept elsewhere | finding 2 |
| `deploy_offline` | the same with 2 runs, nothing kept elsewhere | finding 3 |
| `mint_session` | 1 backend, 2 buyers, 2 orders priced 0 or 1, 2 broadcasts, clocks 0 or 1 second ahead, margin and lifetime 1, times 1 to 2 | do orders survive files, clocks and retries? |
| `deployment` | 4 codes, 4 contracts, 8 broadcasts, others that store codes | do the ids and addresses that are noted belong together, and do contracts move in order? |
| `admin_tool` | the tool's account and an admin who signs files, 2 keys and 1 malformed key, 3 spec files, 3 different commands given any number of times | what is filed and what changes on the chain? |
| `queries` | 2 holders, 3 tokens (`1`, `10`, `2`), pages of 1 or 2, royalty shares of 0 and 1, 2 signer keys, 23 command lines, 17 other messages | what is printed while the contracts change, and do both descriptions of a message agree? |
| `token_tool` | the tool's account, a spender, an operator, the minter and a receiver, 1 token, 2 of 23 command lines, a clock 1 behind to 1 ahead, times 0 to 3 | do count, approvals and owner stay right, who may move a token, and what is a reported success worth? |
| `admin_quotes` | spec files with one and with two apostrophes, 2 commands | finding 4 |

Why these bounds are enough to be of interest. Two orders of one UUID and a second UUID give
reuse and independence; index 2 reaches the last token index with one order left over; time
2 lets a window be not yet open, at each end, and closed; two keys allow rotation and
return. Two accounts are an owner and a spender, who may become the owner. In `token_tool`
two commands are one that is given up and one that follows it; times 0 to 3 with spans of 1
and 2 let a grant end before, at and after the time at which it is executed, and a clock off
by one either way makes it longer or shorter than was meant; the units `minute` and `hours`
stand for two spans of different length. In `queries` three tokens are a page, the one after
it and one that belongs between them (10 comes before 2), the default page of 1 and the
largest of 2 make every listing one of several pages, and a limit may be a numeral, no
number at all or left out; shares of 0 and 1 are the royalty that is none and the one that
takes everything. Transactions of two messages that each emit two more reach every
interleaving of a sale with an administrative message. Three runs of the deploy tool are
generate, sign, and whatever comes next (generate again, sign the signed file again), or
generate, keep the transaction, generate another, and sign the one that was kept. Two
buyers and two orders are what it takes to mix the files of two orders; two broadcasts, what
it takes to try again. Eight broadcasts are enough to store, instantiate, store again, and
migrate one and a half times; four contracts are two deployments, whose addresses could be
mixed. Three different commands are a change, the change that replaces it, and one that
might bring the first back; repeating is free.

Bounds in the guards: `MaxIndex`, `MaxTime`, `MaxSteps` (gas), `MaxRuns`, `MaxKept`,
`MaxOrders`, `MaxBroadcasts`, `MaxCodes`, `MaxContracts`, `MaxCommands`, `MaxNumeral`. A
listing is explored while nobody changes the collection info or the key, which it does not
show.
`MaxIndex` is not only a bound: it is `u64::MAX`, where the release build's checked addition
aborts the call. All runs have `CHECK_DEADLOCK FALSE`, since all these systems may stop: a
contract when nobody calls it, a tool when nobody runs it, and each exploration when its
bounds are used up. Symmetry is used only where the symmetric values are treated alike by
every definition and no liveness is checked. The bounds of `system` are two transactions of
at most two messages: the largest for which TLC finishes in minutes.

## 4. What the runs show

- `UuidRedeemedOnce`, `RegistryMatchesIssued`, `TokenIdsDense`, `SalesAuthorised`,
  `AdminsNeverEmpty`, `SalesAreFinal` (`minter`): the promises of the minter under key
  rotation, re-issued orders, closed windows, wrong payments and orders for another
  collection.
- `TokensAccounted`, `EscrowMatchesPending`, `CallbackAfterTransfer`, `SaleAtomic`
  (`system`): at every message boundary a number taken from the index is a token, a
  burnt token or a mint message still to be executed, and the minter holds exactly the
  proceeds still to be paid out; committed states are a delivery-against-payment sale.
- `DeployedTogether`, `RoyaltyUpTo3`, `AdminsAuthoriseChanges`, `HoldersConsent`
  (`system`): nothing half-deployed is committed; no royalty exceeds the price; no change of
  settings or info without an admin of the time the transaction began, and no token moved
  without a holder of a right to it.
- `CountMatchesTokens`, `ApprovalsOfCurrentOwner` (`token_tool`): the collection's own
  promises, with others' calls between the tool's late ones. `OwnerIsPermanent` is proved
  only.
- `WhoMayMove` (`token_tool`): the owner and spenders that `owner-of` prints and the
  operators that `all-operators` prints, page after page, are exactly those whose transfer
  the contract would accept.
- `OperatorsAsAsked`, `ReportedMeansDone` (`token_tool`): an operator was asked for, with
  that end, and is not one that was reported removed; a reported success is visible on the
  chain at that moment. The account's sequence number is part of what makes this so: of
  two commands composed with one number only one is executed. So is that a command whose
  broadcast throws reports nothing.
- `PagesComplete`, `ListingEnds` (`queries`): a listing misses no token that was there all
  the while, shows none twice and none that never was there, and ends. `SpecListing`: what a
  command prints is the first tokens after the cursor, as many as there are or as it likes,
  and only an end of the tokens is an empty page.
- `RoyaltyAnswersAgree`, `SignedAsRead` (`queries`): the two answers of `royalty-info`
  agree unless the info changed between them; the bytes the tool signs are those the
  contract checks.
- `DescriptionsAgree` (`queries`): every message the tools send, every answer, and every
  text one edit away from a message is judged alike by the contract and by the generated
  type. Two differences are named in `Agree` and are not disagreements about shape: the
  generated types do not know that an enum has one variant, nor numbers in text.
- `NothingLeftOver` (`deploy_tool`): whatever lies in the artifacts directory is of the
  last run that was to generate something, or was signed since. What is not signed is that
  run's own, one transaction at most. It does not say that a signature there is of that
  transaction: `sign` takes a file from anywhere, as the sign specs of a version do
  (`deploy/versions/...`), and clears nothing, so the signature of an earlier transaction
  may lie beside the one just generated. Who broadcasts must look at the name.
- `ProposalIntact`, `ProposerSigns`, `MigratableAsSpecified` (`deploy_tool`): they hold of
  every transaction in the directory, wherever it was signed from.
- `OnlyReleasedSold`, `ReleasedRedeemable`, `ReportedMeansBought` (`mint_session`).
- `PairNoted`, `RolesKept`, `MinterMigratesFirst` (`deployment`): the noted addresses are
  a minter and its own collection, no contract is migrated to the code of the other kind,
  and no collection moves before its minter does.
- `GeneratedAsAsked`, `OneFile`, `OnlyAskedChanges` (`admin_tool`): a generated file says
  what the same command would broadcast (descriptions without apostrophes), there is
  never a choice of files to sign, and late, repeated and crossing commands change
  nothing that they do not name.

Each of these properties is broken by a plausible bug in one mapped definition: the
operators commented "Mutant of ..." are those bugs, and `PROJECT.json` says which one
breaks which property.

## 5. Findings

1. **A royalty cannot be removed** (`RoyaltyRemovable`, run `system_royalty`).
   `UpdateCollectionInfoMsg.royalty_settings` is an `Option<Option<..>>` read with plain
   serde: `null` becomes `None`, leave alone. The branch of
   `execute_update_collection_info` that clears the royalty is never reached by a message.
   Its unit test passes the Rust value and never goes through JSON. The same holds of
   `external_link`.
2. **The note is dropped** (`NoteIncluded`, run `deploy_note`). The README of the deploy
   tool says that the note of a spec file is included in the transaction; no argument of
   the `injectived` call carries it.
3. **Sequence number 0 is missing** (`NumbersMissingWhenSaid`, run `deploy_offline`).
   `sign` tests the numbers with `!`, so the first transaction of an account cannot be
   signed offline.
4. **Apostrophes are lost in generated updates** (`GeneratedAsAsked`, run `admin_quotes`).
   `generateExecuteMessage` puts the message between apostrophes into a shell command. One
   apostrophe in a description makes the command fail; two disappear unnoticed.

Behaviour met while modelling that no document of the repository contradicts: an admin's
address is not validated; funds attached to administrative calls stay in the minter; Local
and Mainnet share a chain id (these are hazards of `PROJECT.json`); an order priced 0 can be
signed but never paid; a royalty address without a share is dropped by the deploy tool; a
generated collection update is filed as `add-admin`; `sign` reads its file for its tests and
`injectived` reads it again.

The command lines, as `Run` and `Composed` translate them: `query minter-settings` runs
`queryCollectionInfo` (`test-tool/src/query.ts:312`), so that it prints the collection
info, and `queryMinterSettings` is run by no command; `account-details` is refused with
the one argument its usage names; `num-tokens` and `collection-contract-info` let one
superfluous argument pass; a listing with a limit of 0 shows nothing. `handleError` ends
with status 0 after a failed transaction or wrong arguments (`test-tool/src/error.ts:20`),
so that a script cannot tell. `src/test-tool/README.md:67` names aliases of `tx` that are
not registered, and `src/README.md:257` the command `generate`, which is `tools generate`.

## 6. Fairness

One specification states fairness. `SpecSession` of `QuerySession` has weak fairness of
`ReadPage`: somebody who lists tokens and has not seen an empty page asks for the next
one, and the node answers. With it `ListingEnds` is checked, and nothing is assumed of
those who mint, move and burn meanwhile, who may do so for ever.

The other specifications state none. The contracts
do nothing unless called, and nobody is obliged to call them. The tools are started by
people and may be stopped at any step. The chain executes a transaction to its end, but a
queue that is consumed by one step per message and bounded by gas ends by construction,
so that a liveness property about it would say nothing of this code. Where the question
is whether something can be done, it is put as an invariant: `ReleasedRedeemable` says
that an order is accepted in every state in which it should be.

## 7. Proofs

Every theorem is proved for all values of the constants that satisfy the named
assumptions of its module. These say only that the sets are told apart (an account is not
a malformed string, `None` is none of the values it stands beside), that numbers are
numbers, that payments are coins of positive amounts and, in `DegaSystem`, who can send
what (`TransactionAssumption`): a transaction is a finite sequence of messages, each
signed by an account that is no contract; a message a receiver answers with comes from
that receiver, never from one of the two contracts. Two theorems have one more hypothesis,
stated in them: `ReleasedAreRedeemable` that clocks are close, and those about
`AskedInv` that descriptions have no apostrophes. Both hypotheses hold in the runs that
check the same property.

The inductive invariants of `DegaSystemProofs` and of the modules below it also hold on
the instances of the runs `system`, `mint_session`, `deployment` and `admin_tool`, as TLC
finds when a module that extends the MC module and the proofs names them.

**`MinterProofs`.** The inductive invariant has three parts. `Lifecycle`, part of
`SalesInv`, orders the life of the contract: nothing is sold before the collection is known,
and while the reply is outstanding there is no collection address; without it the properties
of sales would not survive `Reply`, which sets the address that `SalesAuthorised` compares
with. `AdminsInv` adds that the list is finite, which makes `Cardinality(admins) >= 2` mean
that one is left. `SalesInv` is the conjunction of what the runs check on the sales: they
depend on each other, since a UUID that is not in the registry is fresh only because the
registry is exact, and a number is fresh only because the numbers are dense. Theorems:
`TypeCorrect`, `NoDoubleRedemption`, `RegistryExact`, `TokenIdsUnique`,
`OnlyAuthorisedSales`, `AlwaysAnAdmin`, `NoSaleUndone`.

**`CollectionProofs`.** What all handlers do to the token map is stated once, in
`StepChangesTokens`: each step leaves the map and the count alone, or sets one token and
changes the count accordingly (`TokenChange`). Types and count follow from that without
looking at the handlers again. `CountInv` needs that the tokens that exist are finitely
many even if `TokenId` is infinite; cardinality then follows the map by one.
`InfoInv` carries the limits of the stored info, `GrantsInv` the approvals. Theorems:
`TypeCorrect`, `CountExact`, `NoStaleApproval`, `OwnerForGood`, `RoyaltyQueriesAgree`. The
last is what `RoyaltyAnswersAgree` needs of the contract: in one state the two queries of
`royalty-info` agree; the rest of that property is about messages.

**`DeployToolProofs`.** `FilesInv` says that every file with a transaction, in the directory
or kept elsewhere, holds a good one, and `NothingLeftOver`; `RunInv` says what the run in
progress has established so far at each program counter, for the commands that generate
(`GeneratingInv`: it is the latest, the directory holds no transaction until it writes its
own, and from the second checksum on the transaction is the one asked for) and for `sign`
(`SigningInv`: the latest came before, its file is in the directory or was kept and, past
the checks, its signer fits). `NothingLeftOver` is not inductive without these: what a run
is about to write must be stamped as its kind of run is. `NoTxAssumption` says that `None`
is no transaction. Each action has a lemma; the steps that only move the program counter
share `MoveInv`. Theorems: `DirectoryIsOfLatest`, `ProposalsIntact`, `ProposersSign`,
`AdminsAsSpecified`.

**`DegaSystemProofs`.** In the middle of a transaction neither contract is in a state
that may be committed, and what is missing can be read off the head of the queue. The
invariant `IInv` is therefore a disjunction, `Flight`: nothing is missing (`Open`), or the
first messages are those a contract emitted and the state is that of the moment before
they run: the collection does not exist (`Creating`) or its address is not stored
(`Answering`), a number is taken and its token missing (`Minting`), the seller is not paid
(`Paying`), a receiver is not told (`Telling`). `Behind(n)` says that behind these n
messages only messages of accounts follow, which is what depth-first execution means for
a queue; without it nothing could be said of the state a handler finds. Each action has a
lemma that takes one phase to the next. `AuthorityInv` and `ConsentInv` compare with the
state saved at `Begin`: while nobody who had a right has sent a message, what it protects
is as it was, and nobody has gained a right. Theorems: `Invariance`,
`NothingHalfDeployed`, `CallbackSeesTransfer`, `NoTokenLost`, `RoyaltyNeverAbovePrice`,
`OnlyAdminsChange`, `OnlyHoldersMove`.

Its second half is about money. `LedgerInv` adds it to the invariant: every account has
what it began with, plus what it earned, minus what it spent, minus what it gave away
(`Balanced`), except while a payout is outstanding, when the minter has as much more as
the payee has less (`Owing`), and while an instantiation with funds waits to be refused
(`Overpaid`). `Books` makes the receipts of a state a ledger: one per UUID and per number,
finitely many, paid at the price. The sums are folds that take the elements of a set in an
order nobody knows; `SumCounts` replaces them by the number of units there are, a
cardinality, so that adding a receipt needs no induction over the fold (where one is
needed, a smallest set that fails is contradicted). Theorems: `LedgerInvariance`,
`EscrowIsWhatIsOwed` and `SalesAreAtomic`, the refinement: a state that may be committed
maps to a state of `Sale`, `Commit` to its step for the batch of sales in the transaction,
everything else to a stutter.

**`MintSessionProofs`.** The invariant follows a signature from the backend through the
cache file, a buyer and the mempool to the minter (`SignaturesInv`), an order from the
clock it was composed with to the buyers (`OrdersInv`), and a transaction back to the
process that waits for it (`ReportsInv`). Theorems: `NothingElseSold`, `ReportsAreTrue`
and, under `ClocksClose` (no clock is ahead of the block time by more than the margin that
the tool subtracts), `ReleasedAreRedeemable`. With a clock further ahead the order is
refused until the block time has caught up: the margin is all that the code does about it.

**`DeploymentProofs`.** Ids and addresses go from the events of a response to the
terminal, the `.env` file, the context of a later run and its messages. `Read` says of
each of these places what its values stand for on the chain, and `Grows` that no later
step of anybody changes this. The order of migrations needs more: `MinterDone`, that the
minter runs the noted code and the mempool is empty, when a run turns to the collection,
and `MinterAhead` for a collection's migration in the mempool. Theorems: `Invariance`,
`PairsBelongTogether`, `ContractsKeepRoles`, `MinterBeforeCollection`.

**`AdminToolProofs`.** `FilesSafe` (at most one file, none when a run is about to write)
holds of all spec files; `AskedInv` says that what a run, a file or the mempool holds is
the message of a command that was given. It needs `NoApostrophes`, the hypothesis of
`FilesAreAsAsked` and `NothingElseChanges`, without which the run `admin_quotes` refutes
it (finding 4). `NothingElseChanges` splits `OnlyAskedChanges` into the signer, the pause
flag, the admins and the collection info. `AtMostOneFile` has no hypothesis.

**`TestToolProofs`.** Of the token commands first that they only do what `Collection`
allows (`ToolImplementsCollection`): a grant that is executed ends at a time that the
contract can store, and everything else comes from its own checks. So the theorems of
`CollectionProofs` hold of `SpecTool`. Then what is under way (`ToolInv`): a transaction in
the mempool has its own id, a number among those used, and carries what one of the lines
asks for, a grant only if it is in `given` (`Signed`); one that has the expected number makes
nobody an operator who was reported removed (`Harmless`), since the report of a removal uses
that number up; and the transaction a command waits for carries what its line asks for
(`OwnAnswer`). `OperatorsAreAsAsked` is inductive with it, and `ReportsAreTrue` compares,
command by command, what is performed with what is shown.

For listings, `ReadSoFar` relates the cursor to the tokens: what was read lies at or before
it, and what stayed in the listing and lies there was read. A page that begins right after
the cursor and leaves no gap keeps this, whatever comes, moves or goes before and behind it;
an empty page means that nothing lies behind. Theorem: `ListingsAreComplete`, of any set of
tokens in any order and pages of any length. `ToolInv` and `ListingInv` were checked with TLC
before they were proved.

What these theorems leave to TLC is the message layer: `CallAssumption` and `SpecListing`,
for the lines, tokens and limits of the runs. A proof of either would be an induction over
messages, and the operators that read and write messages are recursive, which the prover's
arithmetic does not survive.

Model-checked only: `ListingEnds`, a liveness property; `SpecListing`, `SignedAsRead`,
`RoyaltyAnswersAgree`, `DescriptionsAgree` of `QuerySession` and `WhoMayMove` of `Queries`,
which are about messages for the most part and for which the same holds.

## 8. Abstractions

- Addresses, keys, UUIDs and images are model values. An address string is one that
  `addr_validate` accepts or one that it rejects; a key is one of 33 bytes or not.
- A signature is the pair of the key and the request it was made for: verification is
  perfect, and the bytes that are signed (the serialised request) identify the request. In
  `Queries` the text that was signed is a JSON value with its fields in order.
- JSON is a tree whose leaves are texts with their kind. Numbers and digits are numerals
  up to `MaxNumeral`, with and without a leading zero; a string of the length of a message
  (a URI, a signature, base64) is one word. `at_height` and the fields of `Empty` are read
  and not told apart further.
- A page is cut from the keys in the order of their bytes, which `ByteOrder` lists; the
  sizes of a page, 10 and 100 in cw721-base, are constants.
- In `TokenTool` the time of a clock is a small integer and the units of time are as long
  as `Length` says; a fraction of a unit is left out, `parseFloat` of what is no number is
  `NaN`, which the contract refuses. A receiver takes a token or refuses it, as its message
  says, and keeps nothing.
- Prices are small naturals. The one currency of a call is a denomination string; the
  system modules have one denomination.
- A description is its length. A royalty share is in units of 1/`One`.
- `Expiration` is a time or `Never`; `at_height` grows like time does and is not told
  apart from it.
- A new UUID (`uuidv4`) is one that was never used. Account sequence numbers of the chain
  are left out of `MintSession`: a transaction is executed at most once because the mempool
  loses it. `TokenTool` has them: every transaction of the account carries the next number,
  and only the expected one is executed. In `Deployment` executing one transaction of the
  account empties its mempool, since all of them are signed with the next number.
- In `Deployment` the person at the terminal notes what was printed in the right fields;
  a migration carries, for `MinterMigratesFirst` only, the minter code it was noted with.
- The two processes of a sale use one clock that may be ahead of the block time. In the
  repository the sender of `mint-as-user` is the configured primary account; the model
  gives each buyer its own, as users in production have.
- In `DeployTool`, `sign` is given a transaction that the tool made, in the artifacts
  directory or copied elsewhere under its own name, and reads it once; transactions written
  by hand are left out. The tool's runs follow each other; the wasm file and the copies
  alone change behind its back.
- In `AdminTool`, too, the runs that generate a file follow each other: `OneFile` says nothing
  of two processes that clear and write the same directory at once.
- In `AdminTool` a description is its length and the number of its apostrophes, between
  which there are no blanks; links, images and addresses have no apostrophes. Whether
  `injectived` succeeds is left open.
- cw721-base, the bank, `injectived` and the chain are outside `src/`: they are modelled
  from how the code uses them and marked external in `PROJECT.json`.

## 9. Not modelled

- The integration tests and their helpers: they describe the system from outside.
- `refill-local` and `transfer-inj`, which send coins and touch neither contract, and
  `gov-proposal`, which sends a store-code proposal and a vote to the governance module of
  the chain, none of whose rules are in this repository; the answer of the node to
  `account-details`.
- `Minter` and `Ownership`, queries that cw721-base answers and no tool asks.
- The tools' help, their configuration (read once, then constant) and `tools generate`,
  which runs a code generator; build scripts and deployment data.
- The commented-out migration code and `lookup.rs`.
- The receiver tester, a compiled contract of the tests: its deployment is left out of
  `Deployment`, its messages out of `Messages`.
- Two deployments on one chain. The collection a request names is compared by `Minter`
  with its own (another collection's orders are in the `minter` run); nothing else of two
  deployments is shared but the bank.

## 10. Plan

Done, in this order: `Minter` with its proofs, `Collection` with its proofs, `Sale` and
`DegaSystem`, `DeployTool` with its proofs, `MintSession`, `Deployment`,
`AdminTool`; then `Messages` and `Serde`, `Queries`, `QuerySession` and `TokenTool`, with
one run for the system where there were two.

The proofs of `DegaSystem`, of the refinement of `Sale`, of `MintSession`, `Deployment`
and `AdminTool` followed.

Last, `TokenTool` and `QuerySession` were split: what is about order (the sequence number
that lets one of two commands through, the cursor that goes through the keys in the order of
their bytes) from what is about messages. The former carries the proofs of `TestToolProofs`.

Left: `WhoMayMove` could be split the same way, into what the answers list and how they are
written; the sums over pages need an induction, so that its proof would stop at one page.

## 11. Running

`tlc -config MCMinter.cfg MCMinter` and so on: `PROJECT.json` lists module, configuration
and properties of each run. `tlapm MinterProofs.tla` checks the proofs of a module, and
likewise `CollectionProofs`, `DeployToolProofs`, `DegaSystemProofs`, `MintSessionProofs`,
`DeploymentProofs`, `AdminToolProofs` and `TestToolProofs`; `DegaSystemProofs` takes four
minutes, the others take seconds. The longest runs, on two workers, are `token_tool`
(448 240 states) and `system` (1 523 960), two minutes each; `mint_session` (715 496),
`deploy_tool` (916 914), `deployment` (1 620 793) and `queries` (13 833, with liveness) take
a minute or two; the others take seconds.
