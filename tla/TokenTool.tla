----------------------------- MODULE TokenTool ------------------------------
(***************************************************************************)
(* The token commands of test-tool/src/tx.ts on their way to the           *)
(* collection: transfer, send-nft, send-to-receiver, call-receive-nft,     *)
(* send-talis-sale, burn, spender and operator.                            *)
(*                                                                         *)
(* The tool signs with the account's next sequence number and waits.  It   *)
(* may give up and be run again while its transaction is still in the      *)
(* mempool, to be executed late or never.  Meanwhile other accounts call   *)
(* the collection, and the block time, from which the tool's clock         *)
(* differs, passes.                                                        *)
(*                                                                         *)
(* What a contract reads of a command depends on the command line and on   *)
(* the tool's clock only: it is the constant Call, which TokenCommands     *)
(* computes by way of the message in JSON.  CallAssumption says that       *)
(* everything arrives where the command line means it to.                  *)
(***************************************************************************)
EXTENDS Collection, ToolContext, TLC

CONSTANTS
  Market,         \* the market's contract, "" where the network has none
  Other,          \* accounts that call the collection themselves
  Holder,         \* accounts that others give tokens and grants to
  Skew,           \* how far the tool's clock may be from the block time
  Length,         \* the units of time the tool knows: name -> length
  Line,           \* the command lines explored: <<name, arguments>>
  MaxCommands,    \* bound of the commands run
  Call            \* <<line, clock>> -> what arrives of it

ASSUME TokenToolAssumption ==
  /\ MinterAccount \in Contract /\ {Receiver, Market} \subseteq Contract \cup {""}
  /\ "" \notin Contract /\ Primary \in Account
  /\ Other \cup Holder \subseteq Account \ Contract /\ Primary \notin Other
  /\ Skew \subseteq Int /\ MaxCommands \in Nat
  /\ \A unit \in DOMAIN Length : Length[unit] \in Nat
  /\ \A line \in Line :
       line[1] \in {"transfer", "send-nft", "send-to-receiver", "call-receive-nft",
                   "send-talis-sale", "burn", "spender", "operator"}

VARIABLES
  sequence,  \* the number of the tool's account that the chain expects next
  mempool,   \* transactions broadcast and not executed: [sequence, id, call]
  tool,      \* the running command: [pc, line, id, report]
  commands,  \* how many commands were run
  given,     \* for the properties: operators asked for, and until when
  gone       \* for the properties: operators reported removed and not asked for since

toolVars == <<sequence, mempool, tool, commands, given, gone>>
allVars == <<vars, toolVars>>

-----------------------------------------------------------------------------
(* What a command line asks for *)

Clock == {t + s : t \in 0 .. MaxTime, s \in Skew}
Numeral == -MaxNumeral .. MaxNumeral

\* A span is an amount and a unit, and counts from the tool's clock.
Spans(args, first) ==
  {n * Length[unit] : n \in {m \in Numeral : ToString(m) = args[first]},
                      unit \in DOMAIN Length \cap {args[first + 1]}}
Until(args, first, clock) ==
  IF Given(args, first) THEN {clock + n : n \in Spans(args, first)} ELSE {Never}

\* Nothing is sent, or the contract cannot read it.
Nothing == [op |-> "nothing"]
Refused == [op |-> "refused"]

Sending(contract, tokenId, inner) ==
  [op : {"send_nft"}, contract : {contract}, tokenId : {tokenId}, inner : {inner}]

InnerMessage(shouldSucceed) == IF shouldSucceed = "true" THEN "succeed" ELSE "fail"

Meant(name, args, clock) ==
  CASE name = "transfer" ->
         [op : {"transfer_nft"}, recipient : {args[2]}, tokenId : {args[1]}]
    [] name = "send-nft"         -> Sending(args[2], args[1], args[3])
    [] name = "send-to-receiver" -> Sending(Receiver, args[1], InnerMessage(args[2]))
    [] name = "send-talis-sale"  -> Sending(Market, args[1], "sell_token")
    [] name = "call-receive-nft" -> [op : {"receive_nft"}, inner : {InnerMessage(args[2])}]
    [] name = "burn"             -> [op : {"burn"}, tokenId : {args[1]}]
    [] name = "spender" /\ args[1] = "add" ->
         [op : {"approve"}, spender : {args[2]}, tokenId : {args[3]},
          expires : Until(args, 4, clock)]
    [] name = "spender" /\ args[1] # "add" ->
         [op : {"revoke"}, spender : {args[2]}, tokenId : {args[3]}]
    [] name = "operator" /\ args[1] = "add" ->
         [op : {"approve_all"}, operator : {args[2]}, expires : Until(args, 3, clock)]
    [] name = "operator" /\ args[1] # "add" ->
         [op : {"revoke_all"}, operator : {args[2]}]

\* Whatever arrives of a command is what its line asks for: the arguments are in the
\* fields they were meant for, and the contract reads them so.
ASSUME CallAssumption ==
  \A line \in Line, clock \in Clock :
    \/ Call[<<line, clock>>] \in {Nothing, Refused}
    \/ Call[<<line, clock>>] \in Meant(line[1], line[2], clock)

-----------------------------------------------------------------------------
(* The tool *)

Idle == [pc |-> "idle", line |-> <<"none", <<>>>>, id |-> 0, report |-> "none"]

\* Who is asked to become, or to be no more, an operator, and until when.
Granting(line, command) == line[1] = "operator" /\ line[2][1] = command
Asked(line)   == IF Granting(line, "add") THEN {line[2][2]} ELSE {}
Removed(line) == IF Granting(line, "remove") THEN {line[2][2]} ELSE {}
Granted(line, clock) ==
  IF Granting(line, "add") THEN [operator : {line[2][2]}, until : Until(line[2], 3, clock)]
  ELSE {}

\* Bound of the grants explored: they end by MaxTime.
Explored(call) ==
  call.op \in {"approve", "approve_all"} /\ call.expires # Never => call.expires <= MaxTime

Command(line, skew) ==
  LET call == Call[<<line, now + skew>>]
  IN  /\ tool.pc = "idle" /\ commands < MaxCommands /\ owner # None
      /\ Explored(call)
      /\ commands' = commands + 1
      /\ IF call.op = "nothing"
         THEN /\ tool' = Idle
              /\ UNCHANGED <<mempool, given, gone>>
         ELSE /\ mempool' = mempool \cup
                   {[sequence |-> sequence, id |-> commands + 1, call |-> call]}
              /\ tool' = [pc |-> "waiting", line |-> line, id |-> commands + 1, report |-> "none"]
              /\ given' = given \cup Granted(line, now + skew)
              /\ gone' = gone \ Asked(line)
      /\ UNCHANGED <<vars, sequence>>

\* Mutant of GiveUp: what the broadcaster throws is caught, and the command goes on.
GiveUpUnseen ==
  /\ tool.pc = "waiting"
  /\ tool' = [tool EXCEPT !.pc = "idle", !.report = "done"]
  /\ gone' = gone \cup Removed(tool.line)
  /\ UNCHANGED <<vars, sequence, mempool, commands, given>>

GiveUp ==
  /\ tool.pc = "waiting"
  /\ tool' = Idle
  /\ UNCHANGED <<vars, sequence, mempool, commands, given, gone>>

\* Mutant of Report: the code is not looked at.
ReportAny(code) == "done"

\* logResponse: a code that is not 0 is thrown.
Report(code) == IF code = 0 THEN "done" ELSE "failed"

Answered(tx, code) ==
  IF tool.pc = "waiting" /\ tool.id = tx.id
  THEN /\ tool' = [tool EXCEPT !.pc = "idle", !.report = Report(code)]
       /\ gone' = IF Report(code) = "done" THEN gone \cup Removed(tool.line) ELSE gone
  ELSE UNCHANGED <<tool, gone>>

-----------------------------------------------------------------------------
(* The chain *)

\* The contracts that take a token, and with which message.
Takes(contract, inner) ==
  \/ contract = Receiver /\ inner = "succeed"
  \/ contract = Market /\ inner = "sell_token"

Accepted(call) ==
  CASE call.op = "transfer_nft" -> TransferAccepted(Primary, call.recipient, call.tokenId)
    [] call.op = "send_nft" -> /\ Takes(call.contract, call.inner)
                               /\ TransferAccepted(Primary, call.contract, call.tokenId)
    [] call.op = "approve" -> ApproveAccepted(Primary, call.spender, call.tokenId, call.expires)
    [] call.op = "revoke"      -> RevokeAccepted(Primary, call.spender, call.tokenId)
    [] call.op = "approve_all" -> ApproveAllAccepted(call.operator, call.expires)
    [] call.op = "revoke_all"  -> RevokeAllAccepted(call.operator)
    [] call.op = "burn"        -> BurnAccepted(Primary, call.tokenId)
    [] call.op = "refused"     -> FALSE

Performed(call) ==
  CASE call.op = "transfer_nft" -> Transfer(Primary, call.recipient, call.tokenId)
    [] call.op = "send_nft"     -> Send(Primary, call.contract, call.tokenId)
    [] call.op = "approve"      -> Approve(Primary, call.spender, call.tokenId, call.expires)
    [] call.op = "revoke"       -> Revoke(Primary, call.spender, call.tokenId)
    [] call.op = "approve_all"  -> ApproveAll(Primary, call.operator, call.expires)
    [] call.op = "revoke_all"   -> RevokeAll(Primary, call.operator)
    [] call.op = "burn"         -> Burn(Primary, call.tokenId)

\* The collection calls the receiver last; when that fails everything is undone.
CallCollection(tx) ==
  \/ Accepted(tx.call) /\ Performed(tx.call) /\ Answered(tx, 0)
  \/ ~Accepted(tx.call) /\ UNCHANGED contractVars /\ Answered(tx, 1)

\* The receiver alone keeps nothing.
CallReceiver(tx) ==
  /\ Answered(tx, IF Takes(Receiver, tx.call.inner) THEN 0 ELSE 1)
  /\ UNCHANGED contractVars

\* Only the expected number is executed, and it is used up, also by a failure.
Deliver(tx) ==
  /\ tx.sequence = sequence
  /\ IF tx.call.op = "receive_nft" THEN CallReceiver(tx) ELSE CallCollection(tx)
  /\ sequence' = sequence + 1
  /\ mempool' = mempool \ {tx}
  /\ UNCHANGED <<now, commands, given>>

Drop(tx) ==
  /\ mempool' = mempool \ {tx}
  /\ UNCHANGED <<vars, sequence, tool, commands, given, gone>>

\* What others do, and the minter.  Any contract may try to instantiate again.
Elsewhere ==
  /\ \/ \E c \in Contract, i \in InfoMsg :
          (owner = None => c = MinterAccount) /\ Instantiate(c, FALSE, i)
     \/ \E t \in TokenId, a \in Holder \cup Malformed : Mint(MinterAccount, t, a, FALSE)
     \/ \E s \in Other, t \in TokenId :
          \/ Burn(s, t)
          \/ \E a \in Holder : Transfer(s, a, t) \/ Approve(s, a, t, Never) \/ Revoke(s, a, t)
     \/ \E s \in Other : ApproveAll(s, Primary, Never) \/ RevokeAll(s, Primary)
  /\ UNCHANGED <<now, toolVars>>

InitTool ==
  /\ Init
  /\ sequence = 0 /\ mempool = {} /\ tool = Idle /\ commands = 0
  /\ given = {} /\ gone = {}

NextTool ==
  \/ \E l \in Line, s \in Skew : Command(l, s)
  \/ GiveUp
  \/ \E tx \in mempool : Deliver(tx) \/ Drop(tx)
  \/ Elsewhere
  \/ Tick /\ UNCHANGED toolVars

SpecTool == InitTool /\ [][NextTool]_allVars

-----------------------------------------------------------------------------
(* Properties *)

\* What a command line asks for.
Shows(name, args) ==
  CASE name = "transfer" -> tokens[args[1]] # None /\ tokens[args[1]].owner = args[2]
    [] name \in {"send-nft", "send-to-receiver", "send-talis-sale"} ->
         /\ tokens[args[1]] # None
         /\ tokens[args[1]].owner = CASE name = "send-nft" -> args[2]
                                      [] name = "send-to-receiver" -> Receiver
                                      [] name = "send-talis-sale" -> Market
         /\ name = "send-to-receiver" => args[2] = "true"
    [] name = "call-receive-nft" -> args[2] = "true"
    [] name = "burn" -> tokens[args[1]] = None
    [] name = "spender" ->
         /\ tokens[args[3]] # None
         /\ args[1] = "add" <=> \E a \in tokens[args[3]].approvals :
                                  a.spender = args[2] /\ ~Expired(a.expires)
    [] name = "operator" -> args[1] = "add" <=> IsOperator(Primary, args[2])

\* When a command reports success the collection is, at that moment, as its command
\* line asked: the arguments were put into the fields they were meant for, the contract
\* read them so, and the answer was the one of this command, not of an earlier one that
\* had been given up.
ReportedMeansDone ==
  [][tool'.report = "done" /\ tool.report # "done" => Shows(tool.line[1], tool.line[2])']_allVars

\* The operators of the tool's account are the ones asked for.  Each lives exactly as
\* long as a command asked for: the span on the command line after the tool's clock at
\* the command, whenever the grant was executed and whatever it replaced, and for ever
\* only if no span was given.  Who was reported removed is no operator until asked for
\* again, whatever earlier commands were given up and are executed late.
OperatorsAsAsked ==
  \A o \in operators : o.owner = Primary =>
    /\ \E g \in given : g.operator = o.operator /\ g.until = o.expires
    /\ o.operator \notin gone
=============================================================================
