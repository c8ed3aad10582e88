----------------------------- MODULE DeployTool -----------------------------
(***************************************************************************)
(* The deployment tool: deploy/tool/src.                                   *)
(*                                                                         *)
(* One run of the tool executes one command with one spec file: gov-prop,  *)
(* instantiate and migrate have injectived generate a transaction and      *)
(* write it to the artifacts directory; sign has injectived sign a         *)
(* transaction file, wherever it lies, and writes the signed one there.    *)
(* The runs follow each other but each one takes several steps, may fail   *)
(* at any of them, and meanwhile the wasm file it reads twice may be       *)
(* rebuilt.                                                                *)
(***************************************************************************)
EXTENDS Integers, FiniteSets

CONSTANTS
  Network, Variant,   \* "Local", "Testnet", "Mainnet"; "Minter", "Collection"
  Address,            \* accounts, and the keys of the keystore that sign for them
  Wasm,               \* contents of the wasm file, identified with its checksum
  Note,               \* notes of spec files
  MaxRuns,            \* runs of the tool explored
  MaxKept,            \* files kept elsewhere explored
  None                \* null or left out

ASSUME ConstantAssumption ==
  /\ MaxRuns \in Nat /\ MaxKept \in Nat
  /\ None \notin Address \cup Note
  /\ "" \notin Address

\* An optional address of a spec file: null, left out, or the empty string.
Admin == Address \cup {None, ""}

\* Spec files that decode; one that does not is refused by createContext.
GovPropSpec ==
  [cmd : {"gov-prop"}, network : Network, variant : Variant, deployAddress : Address,
   wasmChecksum : Wasm, note : Note \cup {None}]
InstantiateSpec ==
  [cmd : {"instantiate"}, network : Network, deployAddress : Address,
   minterMigratable : BOOLEAN, minterMigrateAdmin : Admin,
   collectionMigratable : BOOLEAN, collectionMigrateAdmin : Admin,
   note : Note \cup {None}]
MigrateSpec ==
  [cmd : {"migrate"}, network : Network, variant : Variant, deployAddress : Address,
   note : Note \cup {None}]
SignSpec ==
  [cmd : {"sign"}, network : Network, signerKeyName : Address, offline : BOOLEAN,
   accountNumber : {0, 1, None}, sequenceNumber : {0, 1, None}]
SpecFile == GovPropSpec \cup InstantiateSpec \cup MigrateSpec \cup SignSpec

\* Transactions, as injectived prints them, with the spec file each was generated from.
Tx ==
  [spec : SpecFile, chainId : {"injective-1", "injective-888"}, memo : {None},
   signer : Address \cup {None}, wasm : Wasm, minterAdmin : Admin, collectionAdmin : Admin]

ASSUME NoTxAssumption == None \notin Tx

VARIABLES
  artifacts,   \* the files of deploy/artifacts: [name, run, tx]
  kept,        \* transaction files that were copied elsewhere: deploy/versions
  wasm,        \* the wasm file at wasmPath
  run,         \* the run in progress, None between runs
  runs,        \* how many runs were started: stamps the files, for the properties
  latest       \* the last of them that was not to sign, for the properties

files == <<artifacts, kept>>
vars == <<files, wasm, run, runs, latest>>

-----------------------------------------------------------------------------
(* Helpers *)

\* Local and Mainnet have the same chain id.
ChainId(network) == IF network = "Testnet" THEN "injective-888" ELSE "injective-1"

\* The command's name, the variant if the spec has one, and the network.
OutputName(spec) ==
  [kind |-> spec.cmd, network |-> spec.network,
   variant |-> IF "variant" \in DOMAIN spec THEN spec.variant ELSE None]

SignedName(file) == [kind |-> "signed", of |-> file.name]

\* Writing a file replaces the one of the same name.
Written(name, tx) ==
  {f \in artifacts : f.name # name} \cup {[name |-> name, run |-> runs, tx |-> tx]}

\* Mutant of ClearsArtifacts: the directory is never cleared.
NeverClears(cmd) == FALSE

\* main: the commands that delete the artifacts of earlier runs.
ClearsArtifacts(cmd) == cmd # "sign"

At(cmd, pc) == run # None /\ run.spec.cmd = cmd /\ run.pc = pc

GoTo(pc) == run' = [run EXCEPT !.pc = pc] /\ UNCHANGED <<kept, wasm, runs, latest>>

\* JavaScript's truth of an optional string, and of an optional number.
Given(x) == x \notin {None, ""}
NumberGiven(x) == x \notin {None, 0}

\* A thrown DeployError, or injectived failing: the run ends where it is.
Fail == run' = None /\ UNCHANGED <<files, wasm, runs, latest>>

\* What "injectived tx ... --generate-only" answers: nobody has signed yet, and the
\* memo is empty because no --note is passed.  The minter's admin is an argument that
\* is left out when not given; the collection's is a field of the message and goes as
\* it is, an empty string included.
Generated(spec) ==
  [spec |-> spec, chainId |-> ChainId(spec.network), memo |-> None, signer |-> None,
   wasm |-> wasm,
   minterAdmin |->
     IF spec.cmd = "instantiate" /\ Given(spec.minterMigrateAdmin)
     THEN spec.minterMigrateAdmin ELSE None,
   collectionAdmin |->
     IF spec.cmd = "instantiate" THEN spec.collectionMigrateAdmin ELSE None]

-----------------------------------------------------------------------------
(* The run of a command *)

Init ==
  /\ artifacts = {} /\ kept = {}
  /\ wasm \in Wasm
  /\ run = None
  /\ runs = 0 /\ latest = 0

\* The directory is cleared before the spec file is read.  A run of sign also names
\* the file to sign: one of the artifacts, or one from elsewhere.
Start(spec, file) ==
  /\ run = None
  /\ runs < MaxRuns
  /\ (spec.cmd = "sign") = (file # None)
  /\ run' = [spec |-> spec, pc |-> "spec", file |-> file, tx |-> None]
  /\ artifacts' = IF ClearsArtifacts(spec.cmd) THEN {} ELSE artifacts
  /\ runs' = runs + 1
  /\ latest' = IF spec.cmd = "sign" THEN latest ELSE runs + 1
  /\ UNCHANGED <<kept, wasm>>

\* createContext: the spec file may be unreadable or not decode.
ReadSpec ==
  /\ run # None /\ run.pc = "spec"
  /\ \/ Fail
     \/ GoTo("checked") /\ UNCHANGED artifacts

-----------------------------------------------------------------------------
(* gov-prop *)

CheckWasm ==
  /\ At("gov-prop", "checked")
  /\ IF wasm = run.spec.wasmChecksum THEN GoTo("preview") /\ UNCHANGED artifacts
     ELSE Fail

WritePreview ==
  /\ At("gov-prop", "preview")
  /\ artifacts' = Written([kind |-> "preview", variant |-> run.spec.variant], None)
  /\ GoTo("generate")

\* Mutant of CheckGenerated: the wasm in the transaction is not checked.
TrustGenerated ==
  /\ At("gov-prop", "generated")
  /\ GoTo("write") /\ UNCHANGED artifacts

\* The wasm that injectived put into the proposal is checked once more.
CheckGenerated ==
  /\ At("gov-prop", "generated")
  /\ IF run.tx.wasm = run.spec.wasmChecksum THEN GoTo("write") /\ UNCHANGED artifacts
     ELSE Fail

-----------------------------------------------------------------------------
(* instantiate and migrate *)

\* Mutant of AdminConsistent: an admin of a contract that is not to be migratable
\* goes unnoticed.
AdminPresent(migratable, admin) == migratable => Given(admin)

AdminConsistent(migratable, admin) == migratable <=> Given(admin)

CheckAdmins ==
  /\ At("instantiate", "checked")
  /\ IF /\ AdminConsistent(run.spec.collectionMigratable, run.spec.collectionMigrateAdmin)
        /\ AdminConsistent(run.spec.minterMigratable, run.spec.minterMigrateAdmin)
     THEN GoTo("generate") /\ UNCHANGED artifacts
     ELSE Fail

PrepareMigrate == At("migrate", "checked") /\ GoTo("generate") /\ UNCHANGED artifacts

Generate ==
  /\ run # None /\ run.pc = "generate"
  /\ \/ Fail
     \/ /\ run' = [run EXCEPT
                     !.tx = Generated(run.spec),
                     !.pc = IF run.spec.cmd = "gov-prop" THEN "generated" ELSE "write"]
        /\ UNCHANGED <<files, wasm, runs, latest>>

WriteTx ==
  /\ run # None /\ run.pc = "write"
  /\ artifacts' = Written(OutputName(run.spec), run.tx)
  /\ run' = None
  /\ UNCHANGED <<kept, wasm, runs, latest>>

-----------------------------------------------------------------------------
(* sign *)

\* Mutant of SignerMatches: nobody compares the signer with the proposer.
AnySigner(spec, tx) == TRUE

\* Only a governance proposal names the account that must sign it here.
SignerMatches(spec, tx) ==
  tx.spec.cmd = "gov-prop" => tx.spec.deployAddress = spec.signerKeyName

\* !accountNumber || !sequenceNumber: JavaScript counts 0 as missing.
NumbersGiven(spec) ==
  NumberGiven(spec.accountNumber) /\ NumberGiven(spec.sequenceNumber)

CheckSign ==
  /\ At("sign", "checked")
  /\ IF run.file.tx # None /\ SignerMatches(run.spec, run.file.tx)
     THEN /\ GoTo(IF run.spec.offline /\ ~NumbersGiven(run.spec)
                  THEN "missing numbers" ELSE "sign")
          /\ UNCHANGED artifacts
     ELSE Fail

MissingNumbers == At("sign", "missing numbers") /\ Fail

Sign ==
  /\ At("sign", "sign")
  /\ \/ Fail
     \/ /\ artifacts' = Written(SignedName(run.file),
             [run.file.tx EXCEPT !.signer = run.spec.signerKeyName,
                                 !.chainId = ChainId(run.spec.network)])
        /\ run' = None
        /\ UNCHANGED <<kept, wasm, runs, latest>>

-----------------------------------------------------------------------------
(* The world the tool runs in *)

Rebuild ==
  /\ wasm' \in Wasm \ {wasm}
  /\ UNCHANGED <<files, run, runs, latest>>

\* A transaction is put with the release it belongs to, where clearing does not reach.
Keep(file) ==
  /\ file.tx # None
  /\ Cardinality(kept \cup {file}) <= MaxKept
  /\ kept' = kept \cup {file}
  /\ UNCHANGED <<artifacts, wasm, run, runs, latest>>

Next ==
  \/ \E s \in SpecFile, f \in artifacts \cup kept \cup {None} : Start(s, f)
  \/ ReadSpec \/ CheckWasm \/ WritePreview \/ CheckGenerated
  \/ CheckAdmins \/ PrepareMigrate \/ Generate \/ WriteTx
  \/ CheckSign \/ MissingNumbers \/ Sign
  \/ Rebuild
  \/ \E f \in artifacts : Keep(f)

Spec == Init /\ [][Next]_vars

-----------------------------------------------------------------------------
(* Properties *)

Transactions == {f.tx : f \in {g \in artifacts : g.tx # None}}

Signed(f) == f.tx # None /\ f.tx.signer # None

\* Nothing in the directory is older than the last run that was to generate something,
\* however that run and those since have ended: a transaction or preview that nobody
\* has signed is of that run, so there is one transaction at most to take for the one
\* just asked for and none when that run failed, and a signature was made since.  What
\* was signed may still be an earlier transaction, one that was kept elsewhere.
NothingLeftOver ==
  /\ \A f \in artifacts : IF Signed(f) THEN f.run > latest ELSE f.run = latest
  /\ \A f, g \in artifacts :
       f.tx # None /\ g.tx # None /\ ~Signed(f) /\ ~Signed(g) => f = g

\* A proposal in the directory stores the wasm its spec file names, although the
\* file is read twice and may be rebuilt between the two reads.
ProposalIntact ==
  \A tx \in Transactions :
    tx.spec.cmd = "gov-prop" => tx.wasm = tx.spec.wasmChecksum

\* A signed proposal is signed by its proposer, also through a file that was signed
\* before.
ProposerSigns ==
  \A tx \in Transactions :
    tx.spec.cmd = "gov-prop" => tx.signer \in {None, tx.spec.deployAddress}

\* Each contract will have a migration admin exactly when its spec file says it is
\* migratable: the admin that the file names, and an empty string, which the chain
\* refuses as an address, only for a contract that is not.
MigratableAsSpecified ==
  \A tx \in Transactions :
    tx.spec.cmd = "instantiate" =>
      /\ tx.spec.minterMigratable <=> tx.minterAdmin \in Address
      /\ tx.spec.collectionMigratable <=> tx.collectionAdmin \in Address

\* The note of the spec file is the note of the transaction.
NoteIncluded ==
  \A tx \in Transactions : tx.memo = tx.spec.note

\* Offline signing is refused for a missing number only when one is missing.
NumbersMissingWhenSaid ==
  At("sign", "missing numbers") =>
    run.spec.accountNumber = None \/ run.spec.sequenceNumber = None
=============================================================================
