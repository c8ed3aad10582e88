---------------------------- MODULE AdminToolProofs ----------------------------
(***************************************************************************)
(* Proofs about AdminTool for every number of commands, admins, keys and   *)
(* spec files.                                                             *)
(*                                                                         *)
(* A transaction is made of a command, by the tool or by injectived, and   *)
(* from then on it is copied: to a file, to the mempool, from there to the *)
(* contracts.  The invariant says of every copy which command it came from.*)
(* What a shell does to apostrophes breaks it, so the theorems about       *)
(* contents say for which spec files they hold.                            *)
(***************************************************************************)
EXTENDS AdminTool, FiniteSetTheorems, TLAPS

\* No spec file has an apostrophe in its description.
NoApostrophes ==
  \A spec \in InfoSpec : spec.description \in Text => spec.description.quotes = 0

InfoFields == {"description", "image", "externalLink", "royalty"}

Shapes ==
  /\ DOMAIN info = InfoFields
  /\ run # None => run = [pc |-> run.pc, name |-> run.name, tx |-> run.tx]

FilesInv ==
  /\ files = {} \/ \E f : files = {f}
  /\ run # None /\ run.pc = "write" => files = {}

\* A transaction that a command of cs asked to be generated.
GeneratedFrom(tx, cs) == \E c \in cs : c.sender = tx.sender /\ tx.msg = Message(c)

AskedInv ==
  /\ asked \subseteq Command
  /\ run # None => GeneratedFrom(run.tx, asked)
  /\ \A f \in files : GeneratedFrom(f.tx, asked)
  /\ \A tx \in mempool : \E c \in asked : tx.msg = Message(c)

\* What holds whatever the spec files contain, and what holds without apostrophes.
FilesSafe == Shapes /\ FilesInv
IInv == Shapes /\ FilesInv /\ AskedInv

-----------------------------------------------------------------------------
(* Messages *)

\* The arguments of the commands, and the fields of their messages.
LEMMA Messages ==
  ASSUME NEW c \in Command
  PROVE  \/ /\ c.cmd = "set-mint-signer"
            /\ Message(c) = [settings |-> [signer |-> c.key, paused |-> None]]
         \/ /\ c.cmd = "pause"
            /\ Message(c) = [settings |-> [signer |-> None, paused |-> c.paused]]
         \/ /\ c.cmd = "update-collection-info" /\ c.spec \in InfoSpec
            /\ Message(c) = [collection_info |-> c.spec]
         \/ /\ c.cmd = "add-admin"
            /\ Message(c) = [address |-> c.address, command |-> "Add"]
         \/ /\ c.cmd = "remove-admin"
            /\ Message(c) = [address |-> c.address, command |-> "Remove"]
<1>1. \/ c.cmd = "update-collection-info" /\ c.spec \in InfoSpec
      \/ c.cmd \in {"add-admin", "remove-admin", "set-mint-signer", "pause"}
  BY DEF Command
<1>2. CASE c.cmd = "update-collection-info" /\ c.spec \in InfoSpec
  BY <1>2 DEF Message
<1>3. CASE c.cmd = "set-mint-signer"
  BY <1>3 DEF Message
<1>4. CASE c.cmd = "pause"
  BY <1>4 DEF Message, PauseSettings
<1>5. CASE c.cmd = "add-admin"
  BY <1>5 DEF Message
<1>6. CASE c.cmd = "remove-admin"
  BY <1>6 DEF Message
<1> QED
  BY <1>1, <1>2, <1>3, <1>4, <1>5, <1>6

\* Which commands have a message with the field the contract looks at.
LEMMA MessageFields ==
  ASSUME NEW c \in Command
  PROVE  /\ "settings" \in DOMAIN Message(c) =>
              \/ /\ c.cmd = "set-mint-signer" /\ Message(c).settings.signer = c.key
                 /\ Message(c).settings.paused = None
              \/ /\ c.cmd = "pause" /\ Message(c).settings.signer = None
                 /\ Message(c).settings.paused = c.paused
         /\ "command" \in DOMAIN Message(c) =>
              /\ Message(c).address = c.address
              /\ Message(c).command = "Add" => c.cmd = "add-admin"
              /\ Message(c).command = "Remove" => c.cmd = "remove-admin"
         /\ "collection_info" \in DOMAIN Message(c) =>
              /\ c.cmd = "update-collection-info" /\ c.spec \in InfoSpec
              /\ Message(c) = [collection_info |-> c.spec]
<1> DEFINE m == Message(c)
<1>1. CASE c.cmd = "set-mint-signer"
           /\ m = [settings |-> [signer |-> c.key, paused |-> None]]
  BY <1>1
<1>2. CASE c.cmd = "pause" /\ m = [settings |-> [signer |-> None, paused |-> c.paused]]
  BY <1>2
<1>3. CASE /\ c.cmd = "update-collection-info" /\ c.spec \in InfoSpec
           /\ m = [collection_info |-> c.spec]
  BY <1>3
<1>4. CASE c.cmd = "add-admin" /\ m = [address |-> c.address, command |-> "Add"]
  BY <1>4
<1>5. CASE c.cmd = "remove-admin" /\ m = [address |-> c.address, command |-> "Remove"]
  BY <1>5
<1> QED
  BY <1>1, <1>2, <1>3, <1>4, <1>5, Messages

\* A shell gives injectived the message as it was written.
LEMMA ArgumentUnchanged ==
  ASSUME NoApostrophes, NEW c \in Command
  PROVE  AsArgument(Message(c)) = Message(c)
<1> DEFINE m == Message(c)
<1>1. CASE ~("collection_info" \in DOMAIN m /\ m.collection_info.description \in Text)
  BY <1>1 DEF AsArgument
<1>2. CASE "collection_info" \in DOMAIN m /\ m.collection_info.description \in Text
  <2>1. c.spec \in InfoSpec /\ m = [collection_info |-> c.spec]
    BY <1>2, MessageFields
  <2>2. m.collection_info = c.spec
    BY <2>1
  <2> HIDE DEF m
  <2> DEFINE s == c.spec
  <2>3. /\ s = [description |-> s.description, image |-> s.image,
                externalLink |-> s.externalLink, royalty |-> s.royalty]
        /\ s.description \in Text
    BY <1>2, <2>1, <2>2, AdminToolAssumption
  <2>4. Shelled(s.description) = s.description
    <3>1. /\ s.description = [length |-> s.description.length,
                              quotes |-> s.description.quotes]
          /\ s.description.length \in Nat /\ s.description.quotes = 0
      BY <2>1, <2>3, AdminToolAssumption DEF NoApostrophes
    <3> QED
      BY <3>1 DEF Shelled
  <2> HIDE DEF s
  <2>5. [s EXCEPT !.description = Shelled(@)] = s
    BY <2>3, <2>4
  <2>6. AsArgument(m) = [m EXCEPT !.collection_info.description = Shelled(@)]
    BY <1>2 DEF AsArgument
  <2>7. m = [collection_info |-> s]
    BY <2>1 DEF s
  <2>8. [m EXCEPT !.collection_info.description = Shelled(@)] = [collection_info |-> s]
    BY <2>4, <2>5, <2>7
  <2> QED
    BY <2>6, <2>7, <2>8 DEF m
<1> QED
  BY <1>1, <1>2

-----------------------------------------------------------------------------
(* The artifacts directory *)

\* A step of the chain leaves the fields of the collection info what they are.
LEMMA ExecuteKeepsFields ==
  ASSUME NEW tx, Execute(tx), DOMAIN info = InfoFields
  PROVE  DOMAIN info' = InfoFields
BY DEF Execute, C!UpdateCollectionInfo, InfoFields

LEMMA FilesStep == FilesSafe /\ [Next]_vars => FilesSafe'
<1> SUFFICES ASSUME FilesSafe, [Next]_vars PROVE FilesSafe'
  OBVIOUS
<1> USE DEF FilesSafe, Shapes, FilesInv
<1>1. ASSUME NEW c \in Command, Broadcast(c) PROVE FilesSafe'
  BY <1>1 DEF Broadcast, chain
<1>2. ASSUME NEW c \in Command, Generate(c) PROVE FilesSafe'
  <2>1. CASE UNCHANGED run
    BY <1>2, <2>1 DEF Generate, chain
  <2>2. CASE run' = [pc |-> "clear", name |-> TxName(c),
                     tx |-> [sender |-> From(c), msg |-> AsArgument(Message(c))]]
    BY <1>2, <2>2 DEF Generate, chain
  <2> QED
    BY <1>2, <2>1, <2>2 DEF Generate
<1>3. CASE ClearArtifacts
  BY <1>3 DEF ClearArtifacts, Cleared, chain
<1>4. CASE WriteTx
  BY <1>4 DEF WriteTx, chain
<1>5. CASE Stop \/ SignFile \/ Drop
  BY <1>5 DEF Stop, SignFile, Drop, chain
<1>6. CASE Deliver
  <2>1. UNCHANGED <<files, run>>
    BY <1>6 DEF Deliver
  <2>2. DOMAIN info' = InfoFields
    BY <1>6, ExecuteKeepsFields DEF Deliver
  <2> QED
    BY <2>1, <2>2
<1>7. CASE UNCHANGED vars
  BY <1>7 DEF vars, chain
<1> QED
  BY <1>1, <1>2, <1>3, <1>4, <1>5, <1>6, <1>7 DEF Next

LEMMA FilesInit == Init => FilesSafe
BY DEF Init, FilesSafe, Shapes, FilesInv, InfoFields

\* However often commands are generated, fail and are repeated, at most one transaction
\* waits to be signed: nothing is written but to the directory that was cleared.
THEOREM AtMostOneFile == Spec => []OneFile
<1>1. FilesSafe => OneFile
  <2>1. Cardinality({}) <= 1 /\ \A f : Cardinality({f}) <= 1
    BY FS_EmptySet, FS_Singleton
  <2> QED
    BY <2>1, Zenon DEF FilesSafe, FilesInv, OneFile
<1> QED
  BY <1>1, FilesInit, FilesStep, PTL DEF Spec

-----------------------------------------------------------------------------
(* What the copies of a transaction were asked for *)

LEMMA AskedMore ==
  ASSUME NEW tx, NEW cs, NEW ds, cs \subseteq ds, GeneratedFrom(tx, cs)
  PROVE  GeneratedFrom(tx, ds)
BY DEF GeneratedFrom

LEMMA AskedStep ==
  ASSUME NoApostrophes, IInv, [Next]_vars PROVE AskedInv'
<1> USE DEF IInv, AskedInv
<1>1. ASSUME NEW c \in Command, Broadcast(c) PROVE AskedInv'
  <2>1. /\ asked' = asked \cup {c} /\ UNCHANGED <<files, run>>
        /\ mempool' = mempool \cup {[sender |-> Primary, msg |-> Message(c)]}
    BY <1>1 DEF Broadcast, Give
  <2>2. [sender |-> Primary, msg |-> Message(c)].msg = Message(c)
    OBVIOUS
  <2>3. \A tx \in mempool' : \E d \in asked' : tx.msg = Message(d)
    BY <2>1, <2>2
  <2>4. /\ run' # None => GeneratedFrom(run'.tx, asked')
        /\ \A f \in files' : GeneratedFrom(f.tx, asked')
    BY <2>1, AskedMore
  <2> QED
    BY <2>1, <2>3, <2>4
<1>2. ASSUME NEW c \in Command, Generate(c) PROVE AskedInv'
  <2>1. asked' = asked \cup {c} /\ UNCHANGED <<files, mempool>>
    BY <1>2 DEF Generate, Give
  <2>2. CASE UNCHANGED run
    BY <2>1, <2>2, AskedMore
  <2>3. CASE run' = [pc |-> "clear", name |-> TxName(c),
                     tx |-> [sender |-> From(c), msg |-> AsArgument(Message(c))]]
    <3>1. run'.tx.sender = c.sender /\ run'.tx.msg = Message(c)
      BY <2>3, ArgumentUnchanged DEF From
    <3>2. GeneratedFrom(run'.tx, asked')
      BY <2>1, <3>1 DEF GeneratedFrom
    <3> QED
      BY <2>1, <3>2, AskedMore
  <2> QED
    BY <1>2, <2>2, <2>3 DEF Generate
<1>3. CASE ClearArtifacts
  <2>1. run' # None => run'.tx = run.tx
    BY <1>3 DEF ClearArtifacts, Shapes
  <2> QED
    BY <1>3, <2>1 DEF ClearArtifacts, Cleared
<1>4. CASE WriteTx
  <2>1. \A f \in files' : f \in files \/ f.tx = run.tx
    BY <1>4 DEF WriteTx
  <2> QED
    BY <1>4, <2>1 DEF WriteTx
<1>5. CASE SignFile
  BY <1>5 DEF SignFile, GeneratedFrom
<1>6. CASE Stop \/ Drop \/ Deliver
  <2>1. mempool' \subseteq mempool /\ asked' = asked /\ files' = files
        /\ (run' = run \/ run' = None)
    BY <1>6 DEF Stop, Drop, Deliver
  <2> QED
    BY <2>1
<1>7. CASE UNCHANGED vars
  BY <1>7 DEF vars
<1> QED
  BY <1>1, <1>2, <1>3, <1>4, <1>5, <1>6, <1>7 DEF Next

LEMMA InvStep == ASSUME NoApostrophes PROVE IInv /\ [Next]_vars => IInv'
BY FilesStep, AskedStep DEF IInv, FilesSafe

LEMMA InitInv == Init => IInv
BY FilesInit DEF Init, FilesSafe, IInv, AskedInv

\* Every copy of a transaction is what one of the commands asked for.
THEOREM Invariance == NoApostrophes => (Spec => []IInv)
<1> SUFFICES ASSUME NoApostrophes PROVE Spec => []IInv
  OBVIOUS
<1>1. IInv /\ [Next]_vars => IInv'
  BY InvStep
<1> QED
  BY <1>1, InitInv, PTL DEF Spec

\* What lies in the directory is the message of a command that was given, from the
\* address it was given for, and not one that a failed run has left half made.
THEOREM FilesAreAsAsked == NoApostrophes => (Spec => []GeneratedAsAsked)
<1> SUFFICES ASSUME NoApostrophes PROVE Spec => []GeneratedAsAsked
  OBVIOUS
<1>1. IInv => GeneratedAsAsked
  BY DEF IInv, AskedInv, GeneratedFrom, GeneratedAsAsked
<1> QED
  BY <1>1, Invariance, PTL

-----------------------------------------------------------------------------
(* What an executed transaction changes *)

LEMMA SettingsAsAsked ==
  ASSUME IInv, NEW c \in asked,
         NEW sender,
         M!UpdateSettings(sender, Message(c).settings.signer, Message(c).settings.paused),
         "settings" \in DOMAIN Message(c)
  PROVE  SignerAsked /\ PausedAsked /\ admins' = admins
<1> DEFINE m == Message(c).settings
<1>1. c \in Command
  BY DEF IInv, AskedInv
<1>2. \/ c.cmd = "set-mint-signer" /\ m.signer = c.key /\ m.paused = None
      \/ c.cmd = "pause" /\ m.signer = None /\ m.paused = c.paused
  BY <1>1, MessageFields
<1> HIDE DEF m
<1>3. /\ settings' = [signer |-> IF m.signer = None THEN settings.signer ELSE m.signer,
                      paused |-> IF m.paused = None THEN settings.paused ELSE m.paused]
      /\ admins' = admins
  BY DEF M!UpdateSettings, m
<1>4. /\ settings'.signer = IF m.signer = None THEN settings.signer ELSE m.signer
      /\ settings'.paused = IF m.paused = None THEN settings.paused ELSE m.paused
  BY <1>3
<1> QED
  BY <1>2, <1>3, <1>4 DEF SignerAsked, PausedAsked

\* The description of a spec file arrives as its length, the rest as it is.
LEMMA ArrivedFields ==
  ASSUME NEW spec \in InfoSpec
  PROVE  /\ Arrived(spec).image = spec.image
         /\ Arrived(spec).externalLink = spec.externalLink
         /\ Arrived(spec).royalty = spec.royalty
         /\ \A p \in InfoFields :
              Arrived(spec)[p] = Clear => Arrived(spec)[p] \in {Absent, Null}
<1>1. /\ spec = [description |-> spec.description, image |-> spec.image,
                 externalLink |-> spec.externalLink, royalty |-> spec.royalty]
      /\ spec.description \in Text \cup {Absent, Null}
      /\ spec.image \in {"image", Absent, Null}
      /\ spec.externalLink \in {Absent, Null}
      /\ spec.royalty \in RoyaltySpec \cup {Absent, Null}
  BY AdminToolAssumption
<1>2. CASE spec.description \in {Absent, Null}
  BY <1>1, <1>2, AdminToolAssumption DEF Arrived, InfoFields
<1>3. CASE spec.description \notin {Absent, Null}
  <2>1. Arrived(spec) = [description |-> spec.description.length, image |-> spec.image,
                         externalLink |-> spec.externalLink, royalty |-> spec.royalty]
    BY <1>1, <1>3 DEF Arrived
  <2> QED
    BY <1>1, <1>3, <2>1, AdminToolAssumption DEF InfoFields
<1> QED
  BY <1>2, <1>3

LEMMA InfoAsAsked ==
  ASSUME IInv, NEW c \in asked, NEW admin,
         C!UpdateCollectionInfo(admin, Arrived(Message(c).collection_info)),
         "collection_info" \in DOMAIN Message(c)
  PROVE  InfoAsked
<1>1. /\ c \in Command /\ DOMAIN info = InfoFields
  BY DEF IInv, AskedInv, Shapes
<1>2. /\ c.cmd = "update-collection-info" /\ c.spec \in InfoSpec
      /\ Message(c) = [collection_info |-> c.spec]
  BY <1>1, MessageFields
<1>3. Message(c).collection_info = c.spec
  BY <1>2
<1> DEFINE u == Arrived(c.spec)
<1>4. \A p \in InfoFields : u[p] = Clear => u[p] \in {Absent, Null}
  BY <1>2, ArrivedFields
<1>5. info' = [f \in InfoFields |-> C!Updated(info[f], C!Decoded(u)[f])]
  BY <1>3 DEF C!UpdateCollectionInfo, InfoFields
<1> HIDE DEF u
<1>6. ASSUME NEW p \in InfoFields, info'[p] # info[p]
      PROVE  u[p] = info'[p]
  <2>1. C!Decoded(u)[p] = C!Decode(u[p])
    BY DEF C!Decoded, InfoFields
  <2>2. info'[p] = C!Updated(info[p], C!Decode(u[p]))
    BY <1>5, <2>1
  <2>3. C!Decode(u[p]) # None
    BY <1>6, <2>2, AdminToolAssumption DEF C!Updated
  <2>4. u[p] \notin {Absent, Null} /\ C!Decode(u[p]) = u[p]
    BY <2>3 DEF C!Decode
  <2>5. u[p] # Clear
    BY <1>4, <2>4
  <2> QED
    BY <2>2, <2>3, <2>4, <2>5 DEF C!Updated
<1> QED
  BY <1>1, <1>2, <1>6 DEF InfoAsked, u

LEMMA OnlyDeliveredChanges ==
  ASSUME NoApostrophes, IInv, [Next]_vars
  PROVE  SignerAsked /\ PausedAsked /\ AdminsAsked
         /\ InfoAsked
<1> USE DEF SignerAsked, PausedAsked, AdminsAsked, InfoAsked
<1>1. CASE UNCHANGED <<settings, admins, info>>
  BY <1>1
<1>2. ASSUME NEW tx \in mempool, Execute(tx)
      PROVE  SignerAsked /\ PausedAsked /\ AdminsAsked
             /\ InfoAsked
  <2>1. PICK c \in asked : tx.msg = Message(c)
    BY DEF IInv, AskedInv
  <2>2. c \in Command
    BY DEF IInv, AskedInv
  <2>3. CASE /\ "settings" \in DOMAIN tx.msg /\ info' = info
             /\ M!UpdateSettings(tx.sender, tx.msg.settings.signer, tx.msg.settings.paused)
    BY <2>1, <2>3, SettingsAsAsked
  <2>4. CASE /\ "command" \in DOMAIN tx.msg /\ info' = info
             /\ tx.msg.command = "Add" /\ M!AddAdmin(tx.sender, tx.msg.address)
    <3>1. settings' = settings /\ admins' = admins \cup {tx.msg.address}
      BY <2>4 DEF M!AddAdmin
    <3>2. c.cmd = "add-admin" /\ c.address = tx.msg.address
      BY <2>1, <2>2, <2>4, MessageFields
    <3> QED
      BY <2>4, <3>1, <3>2
  <2>5. CASE /\ "command" \in DOMAIN tx.msg /\ info' = info
             /\ tx.msg.command = "Remove" /\ M!RemoveAdmin(tx.sender, tx.msg.address)
    <3>1. settings' = settings /\ admins' = admins \ {tx.msg.address}
      BY <2>5 DEF M!RemoveAdmin
    <3>2. c.cmd = "remove-admin" /\ c.address = tx.msg.address
      BY <2>1, <2>2, <2>5, MessageFields
    <3> QED
      BY <2>5, <3>1, <3>2
  <2>6. CASE /\ "collection_info" \in DOMAIN tx.msg
             /\ C!UpdateCollectionInfo(M!IsAdmin(tx.sender),
                                       Arrived(tx.msg.collection_info))
             /\ UNCHANGED <<settings, admins>>
    <3>1. InfoAsked
      BY <2>1, <2>6, InfoAsAsked
    <3> QED
      BY <2>6, <3>1
  <2> QED
    BY <1>2, <2>3, <2>4, <2>5, <2>6 DEF Execute, C!UpdateCollectionInfo
<1>3. CASE Deliver
  BY <1>1, <1>2, <1>3 DEF Deliver
<1>4. CASE UNCHANGED vars \/ ~Deliver
  <2>1. UNCHANGED <<settings, admins, info>>
    BY <1>4 DEF Next, vars, chain, Broadcast, Generate, ClearArtifacts, WriteTx, Stop,
                SignFile, Drop
  <2> QED
    BY <1>1, <2>1
<1> QED
  BY <1>3, <1>4

\* No command changes anything but what it is about, however late it is executed: the
\* messages of the tool name what they change, and the contracts leave the rest alone.
THEOREM NothingElseChanges == NoApostrophes => (Spec => OnlyAskedChanges)
<1> SUFFICES ASSUME NoApostrophes PROVE Spec => OnlyAskedChanges
  OBVIOUS
<1>1. IInv /\ [Next]_vars =>
        SignerAsked /\ PausedAsked /\ AdminsAsked
        /\ InfoAsked
  BY OnlyDeliveredChanges
<1> QED
  BY <1>1, Invariance, PTL DEF Spec, OnlyAskedChanges
=============================================================================
