-------------------------- MODULE DeployToolProofs --------------------------
(***************************************************************************)
(* Proofs about DeployTool for any number of runs, spec files, accounts    *)
(* and builds.                                                             *)
(*                                                                         *)
(* What lies in the directory is good because what a run is about to write *)
(* there is: RunInv says, for each point of a run, what has been checked   *)
(* by then, that a generating run is the latest one and found the          *)
(* directory without any transaction, and that a signing run came later.   *)
(***************************************************************************)
EXTENDS DeployTool, TLAPS

\* What the properties ask of one transaction.
GoodTx(tx) ==
  /\ tx \in Tx
  /\ tx.spec.cmd # "sign"
  /\ tx.spec.cmd = "gov-prop" =>
       /\ tx.wasm = tx.spec.wasmChecksum
       /\ tx.signer \in {None, tx.spec.deployAddress}
  /\ tx.spec.cmd = "instantiate" =>
       /\ tx.spec.minterMigratable <=> tx.minterAdmin \in Address
       /\ tx.spec.collectionMigratable <=> tx.collectionAdmin \in Address

FilesInv ==
  /\ \A f \in artifacts \cup kept :
       f = [name |-> f.name, run |-> f.run, tx |-> f.tx] /\ (f.tx # None => GoodTx(f.tx))
  /\ NothingLeftOver

AdminsChecked(spec) ==
  /\ AdminConsistent(spec.collectionMigratable, spec.collectionMigrateAdmin)
  /\ AdminConsistent(spec.minterMigratable, spec.minterMigrateAdmin)

\* The generated transaction, as a function of the wasm that injectived read.
GeneratedWith(s, w) ==
  [spec |-> s, chainId |-> ChainId(s.network), memo |-> None, signer |-> None,
   wasm |-> w,
   minterAdmin |-> IF s.cmd = "instantiate" /\ Given(s.minterMigrateAdmin)
                   THEN s.minterMigrateAdmin ELSE None,
   collectionAdmin |-> IF s.cmd = "instantiate" THEN s.collectionMigrateAdmin ELSE None]

GeneratingInv(r) ==
  /\ latest = runs
  /\ \A f \in artifacts : f.tx = None
  /\ r.spec.cmd = "gov-prop" => r.pc \in {"spec", "checked", "preview", "generate",
                                          "generated", "write"}
  /\ r.spec.cmd = "instantiate" /\ r.pc \notin {"spec", "checked"} => AdminsChecked(r.spec)
  /\ r.pc \in {"generated", "write"} =>
       \E w \in Wasm : r.tx = GeneratedWith(r.spec, w)
  /\ r.spec.cmd = "gov-prop" /\ r.pc = "write" => r.tx.wasm = r.spec.wasmChecksum

SigningInv(r) ==
  /\ latest < runs
  /\ r.file \in artifacts \cup kept
  /\ r.pc \in {"spec", "checked", "sign", "missing numbers"}
  /\ r.pc = "sign" => r.file.tx # None /\ SignerMatches(r.spec, r.file.tx)

RunInv ==
  run # None =>
    /\ run = [spec |-> run.spec, pc |-> run.pc, file |-> run.file, tx |-> run.tx]
    /\ run.spec \in SpecFile
    /\ IF run.spec.cmd = "sign" THEN SigningInv(run) ELSE GeneratingInv(run)

CountsInv == runs \in Nat /\ latest \in Nat /\ latest <= runs

IInv == wasm \in Wasm /\ CountsInv /\ FilesInv /\ RunInv

LEMMA SpecFields ==
  ASSUME NEW s \in SpecFile
  PROVE  /\ s.cmd \in {"gov-prop", "instantiate", "migrate", "sign"}
         /\ s.cmd = "gov-prop" => s \in GovPropSpec
         /\ s.cmd = "instantiate" => s \in InstantiateSpec
         /\ s.cmd = "migrate" => s \in MigrateSpec
         /\ s.cmd = "sign" => s \in SignSpec
BY DEF SpecFile, GovPropSpec, InstantiateSpec, MigrateSpec, SignSpec

\* A transaction generated from a checked spec file with the right wasm is good.
LEMMA GeneratedGood ==
  ASSUME NEW s \in SpecFile, NEW w \in Wasm, s.cmd # "sign",
         s.cmd = "gov-prop" => w = s.wasmChecksum,
         s.cmd = "instantiate" => AdminsChecked(s)
  PROVE  GoodTx(GeneratedWith(s, w)) /\ GeneratedWith(s, w).spec = s
<1> DEFINE tx == GeneratedWith(s, w)
           m == IF s.cmd = "instantiate" /\ Given(s.minterMigrateAdmin)
                THEN s.minterMigrateAdmin ELSE None
           c == IF s.cmd = "instantiate" THEN s.collectionMigrateAdmin ELSE None
<1>1. tx = [spec |-> s, chainId |-> ChainId(s.network), memo |-> None, signer |-> None,
            wasm |-> w, minterAdmin |-> m, collectionAdmin |-> c]
  BY DEF GeneratedWith
<1>2. ChainId(s.network) \in {"injective-1", "injective-888"}
  BY DEF ChainId
<1>3. m \in Admin /\ c \in Admin
  BY SpecFields DEF Admin, InstantiateSpec
<1>4. tx \in Tx
  <2> HIDE DEF tx, m, c
  <2> QED
    BY <1>1, <1>2, <1>3 DEF Tx
<1>5. s.cmd = "instantiate" =>
        /\ s.minterMigratable <=> m \in Address
        /\ s.collectionMigratable <=> c \in Address
  BY SpecFields, ConstantAssumption
     DEF AdminsChecked, AdminConsistent, Given, Admin, InstantiateSpec
<1> QED
  BY <1>1, <1>4, <1>5 DEF GoodTx

-----------------------------------------------------------------------------

\* Writing keeps the files good if the transaction is good, and is either signed, by a
\* run after the latest that generated, or the only transaction, by that run.
LEMMA WrittenGood ==
  ASSUME FilesInv, CountsInv, NEW name, NEW tx, tx # None => GoodTx(tx),
         IF tx # None /\ tx.signer # None THEN latest < runs
         ELSE latest = runs /\ \A f \in artifacts : f.tx = None,
         artifacts' = Written(name, tx), UNCHANGED <<kept, runs, latest>>
  PROVE  FilesInv'
<1> DEFINE new == [name |-> name, run |-> runs, tx |-> tx]
<1>1. new.tx = tx /\ new.run = runs /\ new = [name |-> new.name, run |-> new.run, tx |-> new.tx]
  OBVIOUS
<1>2. artifacts' = {f \in artifacts : f.name # name} \cup {new}
  BY DEF Written
<1> HIDE DEF new
<1>3. \A f \in (artifacts \cup kept)' :
        f = [name |-> f.name, run |-> f.run, tx |-> f.tx] /\ (f.tx # None => GoodTx(f.tx))
  BY <1>1, <1>2 DEF FilesInv
<1>4. IF Signed(new) THEN new.run > latest ELSE new.run = latest
  BY <1>1 DEF Signed, CountsInv
<1>5. ASSUME tx # None, ~Signed(new) PROVE \A f \in artifacts : f.tx = None
  BY <1>1, <1>5 DEF Signed
<1>6. NothingLeftOver'
  BY <1>1, <1>2, <1>4, <1>5 DEF FilesInv, NothingLeftOver, Signed
<1> QED
  BY <1>3, <1>6 DEF FilesInv

LEMMA InitInv == Init => IInv
BY DEF Init, IInv, CountsInv, FilesInv, RunInv, NothingLeftOver

LEMMA FailInv == IInv /\ Fail => IInv'
BY DEF IInv, Fail, files, CountsInv, FilesInv, RunInv, NothingLeftOver

LEMMA StartInv ==
  ASSUME IInv, NEW s \in SpecFile, NEW f \in artifacts \cup kept \cup {None}, Start(s, f)
  PROVE  IInv'
<1>1. /\ run' = [spec |-> s, pc |-> "spec", file |-> f, tx |-> None]
      /\ runs' = runs + 1 /\ UNCHANGED <<kept, wasm>>
  BY DEF Start
<1>2. CASE s.cmd = "sign"
  <2>1. artifacts' = artifacts /\ latest' = latest /\ f \in artifacts \cup kept
    BY <1>2 DEF Start, ClearsArtifacts
  <2>2. CountsInv' /\ latest' < runs'
    BY <1>1, <2>1 DEF IInv, CountsInv
  <2>3. FilesInv'
    BY <1>1, <2>1 DEF IInv, FilesInv, NothingLeftOver
  <2> QED
    BY <1>1, <1>2, <2>1, <2>2, <2>3 DEF IInv, RunInv, SigningInv
<1>3. CASE s.cmd # "sign"
  <2>1. artifacts' = {} /\ latest' = runs'
    BY <1>1, <1>3 DEF Start, ClearsArtifacts
  <2>2. CountsInv'
    BY <1>1, <2>1 DEF IInv, CountsInv
  <2>3. FilesInv'
    BY <1>1, <2>1 DEF IInv, FilesInv, NothingLeftOver
  <2> QED
    BY <1>1, <1>3, <2>1, <2>2, <2>3 DEF IInv, RunInv, GeneratingInv
<1> QED
  BY <1>2, <1>3

\* A step that only moves the run on keeps what its next point does not ask more.
LEMMA MoveInv ==
  ASSUME IInv, run # None, NEW pc, GoTo(pc), UNCHANGED artifacts,
         LET r == [run EXCEPT !.pc = pc]
         IN  IF run.spec.cmd = "sign" THEN SigningInv(r) ELSE GeneratingInv(r)
  PROVE  IInv'
<1> DEFINE r == [run EXCEPT !.pc = pc]
<1>1. run' = r /\ UNCHANGED <<artifacts, kept, wasm, runs, latest>>
  BY DEF GoTo
<1>2. r = [spec |-> run.spec, pc |-> pc, file |-> run.file, tx |-> run.tx]
  BY DEF IInv, RunInv
<1>3. run'.spec = run.spec
  BY <1>1, <1>2
<1> HIDE DEF r
<1>4. IF run.spec.cmd = "sign" THEN SigningInv(run)' ELSE GeneratingInv(run)'
  <2>1. IF run.spec.cmd = "sign" THEN SigningInv(r) ELSE GeneratingInv(r)
    BY DEF r
  <2>2. CASE run.spec.cmd = "sign"
    BY <1>1, <2>1, <2>2 DEF SigningInv
  <2>3. CASE run.spec.cmd # "sign"
    BY <1>1, <2>1, <2>3 DEF GeneratingInv
  <2> QED
    BY <2>2, <2>3
<1>5. RunInv'
  BY <1>1, <1>2, <1>3, <1>4 DEF IInv, RunInv
<1> QED
  BY <1>1, <1>5 DEF IInv, CountsInv, FilesInv, NothingLeftOver

LEMMA ReadSpecInv == IInv /\ ReadSpec => IInv'
<1> SUFFICES ASSUME IInv, run # None, run.pc = "spec", GoTo("checked"), UNCHANGED artifacts
             PROVE  IInv'
  BY FailInv DEF ReadSpec
<1> DEFINE r == [run EXCEPT !.pc = "checked"]
<1>1. r = [spec |-> run.spec, pc |-> "checked", file |-> run.file, tx |-> run.tx]
  BY DEF IInv, RunInv
<1>2. IF run.spec.cmd = "sign" THEN SigningInv(r) ELSE GeneratingInv(r)
  BY <1>1 DEF IInv, RunInv, SigningInv, GeneratingInv
<1> QED
  BY <1>2, MoveInv

LEMMA CheckWasmInv == IInv /\ CheckWasm => IInv'
<1> SUFFICES ASSUME IInv, At("gov-prop", "checked"), GoTo("preview"), UNCHANGED artifacts
             PROVE  IInv'
  BY FailInv DEF CheckWasm
<1> DEFINE r == [run EXCEPT !.pc = "preview"]
<1>1. r = [spec |-> run.spec, pc |-> "preview", file |-> run.file, tx |-> run.tx]
  BY DEF IInv, RunInv, At
<1>2. GeneratingInv(r)
  BY <1>1 DEF IInv, RunInv, GeneratingInv, At
<1> QED
  BY <1>2, MoveInv DEF At

LEMMA CheckGeneratedInv == IInv /\ CheckGenerated => IInv'
<1> SUFFICES ASSUME IInv, At("gov-prop", "generated"), GoTo("write"), UNCHANGED artifacts,
                    run.tx.wasm = run.spec.wasmChecksum
             PROVE  IInv'
  BY FailInv DEF CheckGenerated
<1> DEFINE r == [run EXCEPT !.pc = "write"]
<1>1. r = [spec |-> run.spec, pc |-> "write", file |-> run.file, tx |-> run.tx]
  BY DEF IInv, RunInv, At
<1>2. GeneratingInv(r)
  BY <1>1 DEF IInv, RunInv, GeneratingInv, At
<1> QED
  BY <1>2, MoveInv DEF At

LEMMA CheckAdminsInv == IInv /\ CheckAdmins => IInv'
<1> SUFFICES ASSUME IInv, At("instantiate", "checked"), GoTo("generate"), UNCHANGED artifacts,
                    AdminsChecked(run.spec)
             PROVE  IInv'
  BY FailInv DEF CheckAdmins, AdminsChecked
<1> DEFINE r == [run EXCEPT !.pc = "generate"]
<1>1. r = [spec |-> run.spec, pc |-> "generate", file |-> run.file, tx |-> run.tx]
  BY DEF IInv, RunInv, At
<1>2. GeneratingInv(r)
  BY <1>1 DEF IInv, RunInv, GeneratingInv, At
<1> QED
  BY <1>2, MoveInv DEF At

LEMMA PrepareMigrateInv == IInv /\ PrepareMigrate => IInv'
<1> SUFFICES ASSUME IInv, At("migrate", "checked"), GoTo("generate"), UNCHANGED artifacts
             PROVE  IInv'
  BY DEF PrepareMigrate
<1> DEFINE r == [run EXCEPT !.pc = "generate"]
<1>1. r = [spec |-> run.spec, pc |-> "generate", file |-> run.file, tx |-> run.tx]
  BY DEF IInv, RunInv, At
<1>2. GeneratingInv(r)
  BY <1>1 DEF IInv, RunInv, GeneratingInv, At
<1> QED
  BY <1>2, MoveInv DEF At

\* The preview is no transaction.
LEMMA WritePreviewInv == IInv /\ WritePreview => IInv'
<1> SUFFICES ASSUME IInv, WritePreview PROVE IInv'
  OBVIOUS
<1> DEFINE name == [kind |-> "preview", variant |-> run.spec.variant]
<1>1. /\ At("gov-prop", "preview") /\ artifacts' = Written(name, None)
      /\ run' = [run EXCEPT !.pc = "generate"] /\ UNCHANGED <<kept, wasm, runs, latest>>
  BY DEF WritePreview, GoTo
<1>2. FilesInv'
  <2>1. latest = runs /\ \A f \in artifacts : f.tx = None
    BY <1>1 DEF IInv, RunInv, GeneratingInv, At
  <2> HIDE DEF name
  <2> QED
    BY <1>1, <2>1, WrittenGood DEF IInv
<1>3. run' = [spec |-> run.spec, pc |-> "generate", file |-> run.file, tx |-> run.tx]
  BY <1>1 DEF IInv, RunInv, At
<1>4. \A f \in artifacts' : f.tx = None
  BY <1>1 DEF IInv, RunInv, GeneratingInv, At, Written
<1>5. RunInv'
  BY <1>1, <1>3, <1>4 DEF IInv, RunInv, GeneratingInv, At
<1> QED
  BY <1>1, <1>2, <1>5 DEF IInv, CountsInv

LEMMA GenerateInv == IInv /\ Generate => IInv'
<1> SUFFICES ASSUME IInv, run # None, run.pc = "generate",
                    UNCHANGED <<files, wasm, runs, latest>>,
                    NEW pc, pc = IF run.spec.cmd = "gov-prop" THEN "generated" ELSE "write",
                    run' = [run EXCEPT !.tx = Generated(run.spec), !.pc = pc]
             PROVE  IInv'
  BY FailInv DEF Generate
<1>1. run.spec.cmd # "sign" /\ GeneratingInv(run)
  BY DEF IInv, RunInv, SigningInv
<1>2. run' = [spec |-> run.spec, pc |-> pc, file |-> run.file, tx |-> Generated(run.spec)]
  BY DEF IInv, RunInv
<1>3. Generated(run.spec) = GeneratedWith(run.spec, wasm)
  BY DEF Generated, GeneratedWith
<1>4. pc \in {"generated", "write"} /\ (run.spec.cmd = "gov-prop" => pc = "generated")
  OBVIOUS
<1>5. run'.spec = run.spec /\ run'.pc = pc /\ run'.tx = GeneratedWith(run.spec, wasm)
  BY <1>2, <1>3
<1>6. GeneratingInv(run)'
  BY <1>1, <1>4, <1>5 DEF GeneratingInv, IInv, files
<1>7. RunInv'
  BY <1>1, <1>2, <1>5, <1>6 DEF IInv, RunInv
<1> QED
  BY <1>7 DEF IInv, CountsInv, FilesInv, NothingLeftOver, files

LEMMA WriteTxInv == IInv /\ WriteTx => IInv'
<1> SUFFICES ASSUME IInv, WriteTx PROVE IInv'
  OBVIOUS
<1> DEFINE name == OutputName(run.spec)
           tx == run.tx
<1>1. /\ run # None /\ run.pc = "write" /\ run.spec \in SpecFile
      /\ artifacts' = Written(name, tx) /\ run' = None
      /\ UNCHANGED <<kept, wasm, runs, latest>>
  BY DEF WriteTx, IInv, RunInv
<1>2. run.spec.cmd # "sign" /\ GeneratingInv(run)
  BY <1>1 DEF IInv, RunInv, SigningInv
<1>3. PICK w \in Wasm : tx = GeneratedWith(run.spec, w)
  BY <1>1, <1>2 DEF GeneratingInv
<1>4. run.spec.cmd = "gov-prop" => w = run.spec.wasmChecksum
  BY <1>1, <1>2, <1>3 DEF GeneratingInv, GeneratedWith
<1>5. run.spec.cmd = "instantiate" => AdminsChecked(run.spec)
  BY <1>1, <1>2 DEF GeneratingInv
<1>6. GoodTx(tx)
  BY <1>1, <1>2, <1>3, <1>4, <1>5, GeneratedGood
<1>7. latest = runs /\ (\A f \in artifacts : f.tx = None) /\ tx.signer = None
  BY <1>2, <1>3 DEF GeneratingInv, GeneratedWith
<1> HIDE DEF name, tx
<1>8. FilesInv'
  BY <1>1, <1>6, <1>7, WrittenGood DEF IInv
<1> QED
  BY <1>1, <1>8 DEF IInv, CountsInv, RunInv

LEMMA RunAtPc ==
  ASSUME RunInv, run # None, NEW pc
  PROVE  [run EXCEPT !.pc = pc]
           = [spec |-> run.spec, pc |-> pc, file |-> run.file, tx |-> run.tx]
BY DEF RunInv

LEMMA CheckSignInv == IInv /\ CheckSign => IInv'
<1> SUFFICES ASSUME IInv, At("sign", "checked"), UNCHANGED artifacts,
                    run.file.tx # None, SignerMatches(run.spec, run.file.tx),
                    GoTo("missing numbers") \/ GoTo("sign")
             PROVE  IInv'
  BY FailInv DEF CheckSign
<1>1. CASE GoTo("missing numbers")
  <2> DEFINE r == [run EXCEPT !.pc = "missing numbers"]
  <2>1. r = [spec |-> run.spec, pc |-> "missing numbers", file |-> run.file, tx |-> run.tx]
    BY RunAtPc DEF IInv, At
  <2>2. SigningInv(r)
    BY <2>1 DEF IInv, RunInv, SigningInv, At
  <2> QED
    BY <1>1, <2>2, MoveInv DEF At
<1>2. CASE GoTo("sign")
  <2> DEFINE r == [run EXCEPT !.pc = "sign"]
  <2>1. r = [spec |-> run.spec, pc |-> "sign", file |-> run.file, tx |-> run.tx]
    BY RunAtPc DEF IInv, At
  <2>2. SigningInv(r)
    BY <2>1 DEF IInv, RunInv, SigningInv, At
  <2> QED
    BY <1>2, <2>2, MoveInv DEF At
<1> QED
  BY <1>1, <1>2

\* The signed file differs from the one signed in its signer and its chain id.
LEMMA SignInv == IInv /\ Sign => IInv'
<1> SUFFICES ASSUME IInv, At("sign", "sign"), run' = None,
                    UNCHANGED <<kept, wasm, runs, latest>>,
                    NEW name, NEW tx,
                    tx = [run.file.tx EXCEPT !.signer = run.spec.signerKeyName,
                                             !.chainId = ChainId(run.spec.network)],
                    artifacts' = Written(name, tx)
             PROVE  IInv'
  BY FailInv DEF Sign
<1> DEFINE old == run.file.tx
<1>1. run.spec \in SignSpec /\ run.file \in artifacts \cup kept /\ old # None
      /\ SignerMatches(run.spec, old) /\ latest < runs
  BY SpecFields DEF IInv, RunInv, SigningInv, At
<1>2. GoodTx(old)
  BY <1>1 DEF IInv, FilesInv
<1>3. /\ old.spec \in SpecFile /\ old.memo = None /\ old.wasm \in Wasm
      /\ old.minterAdmin \in Admin /\ old.collectionAdmin \in Admin
  BY <1>2 DEF GoodTx, Tx
<1>4. run.spec.signerKeyName \in Address
  BY <1>1 DEF SignSpec
<1>5. ChainId(run.spec.network) \in {"injective-1", "injective-888"}
  BY DEF ChainId
<1>6. tx = [spec |-> old.spec, chainId |-> ChainId(run.spec.network), memo |-> None,
            signer |-> run.spec.signerKeyName, wasm |-> old.wasm,
            minterAdmin |-> old.minterAdmin, collectionAdmin |-> old.collectionAdmin]
  BY <1>2, <1>3 DEF GoodTx, Tx
<1>7. tx \in Tx
  BY <1>3, <1>4, <1>5, <1>6 DEF Tx
<1>8. GoodTx(tx)
  BY <1>1, <1>2, <1>6, <1>7 DEF GoodTx, SignerMatches
<1>9. tx # None /\ tx.signer # None
  BY <1>4, <1>6, <1>7, ConstantAssumption, NoTxAssumption
<1>10. FilesInv'
  <2> HIDE DEF old
  <2>1. FilesInv /\ CountsInv /\ latest < runs /\ artifacts' = Written(name, tx)
        /\ UNCHANGED <<kept, runs, latest>>
    BY <1>1 DEF IInv
  <2> QED
    BY <2>1, <1>8, <1>9, WrittenGood
<1> QED
  BY <1>10 DEF IInv, CountsInv, RunInv

LEMMA RebuildInv == IInv /\ Rebuild => IInv'
<1> SUFFICES ASSUME IInv, Rebuild PROVE IInv'
  OBVIOUS
<1>1. wasm' \in Wasm /\ UNCHANGED <<files, run, runs, latest>>
  BY DEF Rebuild
<1> QED
  BY <1>1 DEF IInv, CountsInv, FilesInv, NothingLeftOver, RunInv, SigningInv, GeneratingInv, files

\* A file that is kept is one of the directory.
LEMMA KeepInv == IInv /\ (\E f \in artifacts : Keep(f)) => IInv'
<1> SUFFICES ASSUME IInv, NEW f \in artifacts, Keep(f) PROVE IInv'
  OBVIOUS
<1>1. kept' = kept \cup {f} /\ UNCHANGED <<artifacts, wasm, run, runs, latest>>
  BY DEF Keep
<1>2. FilesInv'
  BY <1>1 DEF IInv, FilesInv, NothingLeftOver
<1>3. RunInv'
  BY <1>1 DEF IInv, RunInv, SigningInv, GeneratingInv
<1> QED
  BY <1>1, <1>2, <1>3 DEF IInv, CountsInv

LEMMA StepInv == IInv /\ [Next]_vars => IInv'
<1> SUFFICES ASSUME IInv, [Next]_vars PROVE IInv'
  OBVIOUS
<1>1. CASE UNCHANGED vars
  BY <1>1 DEF vars, files, IInv, CountsInv, FilesInv, NothingLeftOver, RunInv, SigningInv,
              GeneratingInv
<1>2. CASE MissingNumbers
  BY <1>2, FailInv DEF MissingNumbers
<1> QED
  BY <1>1, <1>2, StartInv, ReadSpecInv, CheckWasmInv, WritePreviewInv, CheckGeneratedInv,
     CheckAdminsInv, PrepareMigrateInv, GenerateInv, WriteTxInv, CheckSignInv, SignInv,
     RebuildInv, KeepInv DEF Next

-----------------------------------------------------------------------------
(* Theorems *)

LEMMA Invariance == Spec => []IInv
BY InitInv, StepInv, PTL DEF Spec

\* What lies unsigned in the artifacts directory is what the last generating run made,
\* at most one transaction, and every signature there was made since.
THEOREM DirectoryIsOfLatest == Spec => []NothingLeftOver
<1>1. IInv => NothingLeftOver
  BY DEF IInv, FilesInv
<1> QED
  BY <1>1, Invariance, PTL

\* Every proposal written carries the wasm whose checksum its spec file gives.
THEOREM ProposalsIntact == Spec => []ProposalIntact
<1>1. IInv => ProposalIntact
  BY DEF IInv, FilesInv, ProposalIntact, Transactions, GoodTx
<1> QED
  BY <1>1, Invariance, PTL

\* No proposal is ever signed by anybody but its proposer.
THEOREM ProposersSign == Spec => []ProposerSigns
<1>1. IInv => ProposerSigns
  BY DEF IInv, FilesInv, ProposerSigns, Transactions, GoodTx
<1> QED
  BY <1>1, Invariance, PTL

\* A contract is deployed with a migration admin exactly when it is to be migratable.
THEOREM AdminsAsSpecified == Spec => []MigratableAsSpecified
<1>1. IInv => MigratableAsSpecified
  BY DEF IInv, FilesInv, MigratableAsSpecified, Transactions, GoodTx
<1> QED
  BY <1>1, Invariance, PTL
=============================================================================
