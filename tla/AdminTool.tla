------------------------------ MODULE AdminTool ------------------------------
(***************************************************************************)
(* The admin commands of the test tool: add-admin, remove-admin,           *)
(* set-mint-signer, pause and update-collection-info of                    *)
(* test-tool/src/tx-admin.ts.                                              *)
(*                                                                         *)
(* A command is either broadcast by the primary account or, with           *)
(* --generate, written to a directory, where an admin whose key is kept    *)
(* elsewhere finds and signs it.  Commands are repeated and fail at any    *)
(* step, files are signed more than once, and transactions are executed    *)
(* late or never.  The contracts' part is the handlers of Minter and       *)
(* Collection.                                                             *)
(***************************************************************************)
EXTENDS Integers, FiniteSets

CONSTANTS
  Primary,            \* the account of the tool
  Offline,            \* admins who sign files
  Key, BadKey,        \* keys the minter may be given, and strings that are none
  Text,               \* descriptions: [length, quotes], quotes being apostrophes
  MaxDescription,     \* MAX_DESCRIPTION_LENGTH
  RoyaltySpec,        \* royalty settings of spec files
  InfoSpec,           \* contents of the spec files of update-collection-info
  One,                \* Decimal::one()
  MaxCommands,        \* different commands that are given
  MinterAddress, CollectionAddress, None, Absent, Null, Clear, Never

Account == Offline \cup {Primary, MinterAddress, CollectionAddress}

ASSUME AdminToolAssumption ==
  /\ Text \subseteq [length : Nat, quotes : Nat]
  /\ \A x \in Text : x.quotes <= x.length
  /\ InfoSpec \subseteq [description : Text \cup {Absent, Null},
                        image : {"image", Absent, Null}, externalLink : {Absent, Null},
                        royalty : RoyaltySpec \cup {Absent, Null}]
  /\ Clear # None /\ Clear # "image" /\ Clear \notin RoyaltySpec
  /\ \A x \in Text : Clear # x.length
  /\ MaxCommands \in Nat

VARIABLES
  settings, admins, info,   \* of the two contracts: what the commands change
  uuids, tokenIndex, collectionAddress, awaitingReply, issued,
  owner, tokens, tokenCount, operators, now,   \* and what they leave alone
  files,      \* the artifacts directory of the tool: [name, tx]
  run,        \* a command with --generate in progress, or None
  mempool,    \* transactions that are signed and not executed yet
  asked       \* the commands given so far

restOfMinter == <<uuids, tokenIndex, collectionAddress, awaitingReply, issued>>
restOfCollection == <<owner, tokens, tokenCount, operators>>
chain == <<settings, admins, info, restOfMinter, restOfCollection, now>>
vars == <<chain, files, run, mempool, asked>>

Lengths == {x.length : x \in Text} \cup {x.length - x.quotes : x \in Text} \cup {0}

M == INSTANCE Minter WITH
       Malformed <- {}, PubKey <- Key, BadPubKey <- BadKey, Request <- {},
       Signature <- {}, Payment <- {}, MaxIndex <- 0, MaxTime <- 0

C == INSTANCE Collection WITH
       Malformed <- {}, Contract <- {MinterAddress, CollectionAddress}, TokenId <- {},
       Description <- Lengths, Link <- {}, Image <- {"image"},
       Share <- {r.share : r \in RoyaltySpec}, MaxTime <- 0

-----------------------------------------------------------------------------
(* Commands and their messages *)

\* sender is the address after --generate, None where the command is broadcast.
Sender == Offline \cup {None}

Command ==
  [cmd : {"add-admin", "remove-admin"}, address : Offline, sender : Sender]
    \cup [cmd : {"set-mint-signer"}, key : Key \cup BadKey, sender : Sender]
    \cup [cmd : {"pause"}, paused : BOOLEAN, sender : Sender]
    \cup [cmd : {"update-collection-info"}, spec : InfoSpec, sender : Sender]

\* Mutant of PauseSettings: all the settings, as they are when the command is given.
AllSettings(paused) == [signer |-> settings.signer, paused |-> paused]

\* A message names the settings it changes and no other.
PauseSettings(paused) == [signer |-> None, paused |-> paused]

Message(c) ==
  CASE c.cmd = "set-mint-signer"        -> [settings |-> [signer |-> c.key, paused |-> None]]
    [] c.cmd = "pause"                  -> [settings |-> PauseSettings(c.paused)]
    [] c.cmd = "update-collection-info" -> [collection_info |-> c.spec]
    [] OTHER -> [address |-> c.address,
                 command |-> IF c.cmd = "add-admin" THEN "Add" ELSE "Remove"]

\* A collection update is filed as add-admin.
TxName(c) ==
  CASE c.cmd = "pause" -> IF c.paused THEN "pause" ELSE "unpause"
    [] c.cmd = "update-collection-info" -> "add-admin"
    [] OTHER -> c.cmd

\* The command given now is remembered for the properties.
Give(c) ==
  /\ c \in asked \/ Cardinality(asked) < MaxCommands
  /\ asked' = asked \cup {c}

\* Without --generate the primary account signs and broadcasts the message.
Broadcast(c) ==
  /\ run = None
  /\ c.sender = None
  /\ Give(c)
  /\ mempool' = mempool \cup {[sender |-> Primary, msg |-> Message(c)]}
  /\ UNCHANGED <<chain, files, run>>

-----------------------------------------------------------------------------
(* Generating *)

\* The message is an argument in apostrophes of a shell command: pairs of apostrophes in
\* it disappear (what lies between them is taken to have no blanks), and after an odd
\* number of them the shell finds no end of the argument.
Shelled(text) == [length |-> text.length - text.quotes, quotes |-> 0]

ShellAccepts(msg) ==
  "collection_info" \in DOMAIN msg /\ msg.collection_info.description \in Text
    => msg.collection_info.description.quotes % 2 = 0

AsArgument(msg) ==
  IF "collection_info" \in DOMAIN msg /\ msg.collection_info.description \in Text
  THEN [msg EXCEPT !.collection_info.description = Shelled(@)]
  ELSE msg

\* Mutant of From: the account of the tool.
FromPrimary(c) == Primary

\* The address after --generate.
From(c) == c.sender

\* injectived makes the transaction.  Where it fails, nothing is written.
Generate(c) ==
  /\ run = None
  /\ c.sender # None
  /\ Give(c)
  /\ \/ /\ ShellAccepts(Message(c))
        /\ run' = [pc |-> "clear", name |-> TxName(c),
                   tx |-> [sender |-> From(c), msg |-> AsArgument(Message(c))]]
     \/ UNCHANGED run
  /\ UNCHANGED <<chain, files, mempool>>

\* Mutant of Cleared: files are replaced only by files of the same name.
KeepOthers == {f \in files : f.name # run.name}

\* The files that are left when the directory was cleared.
Cleared == {}

ClearArtifacts ==
  /\ run # None /\ run.pc = "clear"
  /\ files' = Cleared
  /\ run' = [run EXCEPT !.pc = "write"]
  /\ UNCHANGED <<chain, mempool, asked>>

WriteTx ==
  /\ run # None /\ run.pc = "write"
  /\ files' = files \cup {[name |-> run.name, tx |-> run.tx]}
  /\ run' = None
  /\ UNCHANGED <<chain, mempool, asked>>

\* A process that ends early: rm fails, the output is not JSON, the disk is full.
Stop ==
  /\ run # None
  /\ run' = None
  /\ UNCHANGED <<chain, files, mempool, asked>>

\* The admin whose address is in the file signs what lies there, and broadcasts it.
SignFile ==
  /\ \E f \in files : mempool' = mempool \cup {f.tx}
  /\ UNCHANGED <<chain, files, run, asked>>

-----------------------------------------------------------------------------
(* The chain *)

\* The message of the collection as it arrives there: its description is a length.
Arrived(update) ==
  IF update.description \in {Absent, Null} THEN update
  ELSE [update EXCEPT !.description = @.length]

Execute(tx) ==
  \/ /\ "settings" \in DOMAIN tx.msg
     /\ M!UpdateSettings(tx.sender, tx.msg.settings.signer, tx.msg.settings.paused)
     /\ UNCHANGED <<info, restOfCollection>>
  \/ /\ "command" \in DOMAIN tx.msg
     /\ \/ tx.msg.command = "Add" /\ M!AddAdmin(tx.sender, tx.msg.address)
        \/ tx.msg.command = "Remove" /\ M!RemoveAdmin(tx.sender, tx.msg.address)
     /\ UNCHANGED <<info, restOfCollection>>
  \/ /\ "collection_info" \in DOMAIN tx.msg
     /\ C!UpdateCollectionInfo(M!IsAdmin(tx.sender), Arrived(tx.msg.collection_info))
     /\ UNCHANGED <<settings, admins, restOfMinter>>

\* Executing a transaction, refused or not, uses up its sender's sequence number.
Deliver ==
  /\ \E tx \in mempool :
       /\ \/ Execute(tx)
          \/ UNCHANGED <<settings, admins, info, restOfMinter, restOfCollection>>
       /\ mempool' = {t \in mempool : t.sender # tx.sender}
  /\ UNCHANGED <<now, files, run, asked>>

Drop ==
  /\ \E tx \in mempool : mempool' = mempool \ {tx}
  /\ UNCHANGED <<chain, files, run, asked>>

-----------------------------------------------------------------------------

\* A deployed minter and its collection.
Init ==
  /\ \E k \in Key : settings = [signer |-> k, paused |-> FALSE]
  /\ \E A \in SUBSET Offline : admins = A \cup {Primary}
  /\ info = [description |-> 0, image |-> "old", externalLink |-> None, royalty |-> None]
  /\ uuids = {} /\ tokenIndex = 0 /\ collectionAddress = CollectionAddress
  /\ awaitingReply = FALSE /\ issued = {}
  /\ owner = MinterAddress /\ tokens = <<>> /\ tokenCount = 0 /\ operators = {}
  /\ now = 0
  /\ files = {} /\ run = None /\ mempool = {} /\ asked = {}

Next ==
  \/ \E c \in Command : Broadcast(c) \/ Generate(c)
  \/ ClearArtifacts \/ WriteTx \/ Stop \/ SignFile \/ Deliver \/ Drop

Spec == Init /\ [][Next]_vars

-----------------------------------------------------------------------------
(* Properties *)

\* A generated file holds the message that the same command would have broadcast, to be
\* sent by the address that was given: whatever runs failed before or after.
GeneratedAsAsked ==
  \A f \in files :
    \E c \in asked : c.sender = f.tx.sender /\ f.tx.msg = Message(c)

\* At most one transaction waits to be signed: the older one goes before the new one comes,
\* since one run of the tool follows the other.
OneFile == Cardinality(files) <= 1

SignerAsked ==
  settings'.signer # settings.signer =>
    \E c \in asked : c.cmd = "set-mint-signer" /\ c.key = settings'.signer

PausedAsked ==
  settings'.paused # settings.paused =>
    \E c \in asked : c.cmd = "pause" /\ c.paused = settings'.paused

AdminsAsked ==
  /\ \A a \in admins' \ admins : \E c \in asked : c.cmd = "add-admin" /\ c.address = a
  /\ \A a \in admins \ admins' : \E c \in asked : c.cmd = "remove-admin" /\ c.address = a

InfoAsked ==
  \A p \in DOMAIN info :
    info'[p] # info[p] =>
      \E c \in asked : c.cmd = "update-collection-info" /\ Arrived(c.spec)[p] = info'[p]

\* Whatever the order in which commands are given, signed, repeated and executed, each
\* setting, admin and property changes only to a value that a command for it has asked
\* for: none brings back, with its own change, what another command has replaced.
OnlyAskedChanges == [][SignerAsked /\ PausedAsked /\ AdminsAsked /\ InfoAsked]_vars
=============================================================================
