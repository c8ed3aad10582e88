--------------------------- MODULE TestToolProofs ---------------------------
(***************************************************************************)
(* Proofs about two commands of the test tool's user: changing tokens and  *)
(* grants (TokenTool), and reading a listing (Listing); for every set of   *)
(* accounts, tokens and command lines, every clock and every page length.  *)
(*                                                                         *)
(* Of the message layer only its result is used, the constant Call, and of *)
(* that only CallAssumption: what arrives is what the line asks for.       *)
(***************************************************************************)
EXTENDS TokenTool, Listing, CollectionProofs

-----------------------------------------------------------------------------
(* Token commands: what is under way *)

\* What arrives of a line at one reading of the tool's clock or another.
Arrivals(line) == {Call[<<line, clock>>] : clock \in Clock}

\* A transaction that was signed has a number of its own among those used up to now and
\* carries what one of the lines asks for.
Signed(tx) ==
  /\ tx.id \in 1 .. commands
  /\ tx.sequence \in 0 .. sequence
  /\ \E line \in Line : tx.call \in Arrivals(line)
  /\ tx.call # Nothing /\ Explored(tx.call)
  /\ tx.call.op = "approve_all" =>
       [operator |-> tx.call.operator, until |-> tx.call.expires] \in given

\* A transaction that can still be executed makes nobody an operator who was reported
\* removed: the removal was executed with the number the transaction has.
Harmless(tx) ==
  tx.sequence = sequence /\ tx.call.op = "approve_all" => tx.call.operator \notin gone

ToolTyped ==
  tool \in [pc : {"idle", "waiting"}, line : Line \cup {Idle.line}, id : Nat,
           report : {"none", "done", "failed"}]

\* The command that waits is answered by the transaction it has sent.
OwnAnswer ==
  tool.pc = "waiting" =>
    /\ tool.line \in Line
    /\ \A tx \in mempool : tx.id = tool.id => tx.call \in Arrivals(tool.line)

ToolInv ==
  /\ now \in 0 .. MaxTime
  /\ commands \in Nat /\ sequence \in Nat
  /\ \A tx \in mempool : Signed(tx) /\ Harmless(tx)
  /\ ToolTyped /\ OwnAnswer


-----------------------------------------------------------------------------
(* What arrives *)

LEMMA ArrivesAsMeant ==
  ASSUME NEW line \in Line, NEW call \in Arrivals(line), call # Nothing, call # Refused
  PROVE  \E clock \in Clock : call \in Meant(line[1], line[2], clock)
BY CallAssumption DEF Arrivals

LEMMA ClockReads ==
  ASSUME now \in 0 .. MaxTime, NEW skew \in Skew
  PROVE  now + skew \in Clock
BY DEF Clock

LEMMA ClockType == Clock \subseteq Int
<1>1. Skew \subseteq Int /\ MaxTime \in Nat
  BY TokenToolAssumption, ConstantAssumption
<1>2. \A t \in 0 .. MaxTime, s \in Skew : t + s \in Int
  BY <1>1
<1> QED
  BY <1>2 DEF Clock

\* A grant ends at a time or never.
LEMMA UntilType ==
  ASSUME NEW args, NEW first, NEW clock \in Clock
  PROVE  Until(args, first, clock) \subseteq Int \cup {Never}
<1>1. Spans(args, first) \subseteq Int
  <2>1. ASSUME NEW n \in Numeral, NEW unit \in DOMAIN Length PROVE n * Length[unit] \in Int
    <3>1. Length[unit] \in Nat /\ MaxNumeral \in Nat
      BY TokenToolAssumption, ContextAssumption
    <3> QED
      BY <3>1 DEF Numeral
  <2> QED
    BY <2>1 DEF Spans
<1>2. clock \in Int
  BY ClockType
<1> QED
  BY <1>1, <1>2 DEF Until

\* The kinds of call, and that only a line that says so makes or unmakes an operator.
Shape(call, line, clock) ==
  /\ call.op \in {"transfer_nft", "send_nft", "receive_nft", "burn", "approve", "revoke",
                  "approve_all", "revoke_all"}
  /\ call.op \in {"approve", "approve_all"} => call.expires \in Int \cup {Never}
  /\ call.op = "approve_all" =>
       /\ Granting(line, "add") /\ call.operator = line[2][2]
       /\ [operator |-> call.operator, until |-> call.expires] \in Granted(line, clock)
  /\ Granting(line, "remove") => call.op = "revoke_all" /\ call.operator = line[2][2]

LEMMA MeantShape ==
  ASSUME NEW line \in Line, NEW clock \in Clock, NEW call \in Meant(line[1], line[2], clock)
  PROVE  Shape(call, line, clock)
<1> DEFINE args == line[2]
<1> USE DEF Shape, Granting
<1>1. CASE line[1] = "transfer"
  BY <1>1 DEF Meant
<1>2. CASE line[1] = "send-nft"
  BY <1>2 DEF Meant, Sending
<1>3. CASE line[1] = "send-to-receiver"
  BY <1>3 DEF Meant, Sending
<1>4. CASE line[1] = "send-talis-sale"
  BY <1>4 DEF Meant, Sending
<1>5. CASE line[1] = "call-receive-nft"
  BY <1>5 DEF Meant
<1>6. CASE line[1] = "burn"
  BY <1>6 DEF Meant
<1>7. CASE line[1] = "spender" /\ args[1] = "add"
  <2>1. call \in [op : {"approve"}, spender : {args[2]}, tokenId : {args[3]},
                  expires : Until(args, 4, clock)]
    BY <1>7 DEF Meant
  <2> QED
    BY <1>7, <2>1, UntilType
<1>8. CASE line[1] = "spender" /\ args[1] # "add"
  BY <1>8 DEF Meant
<1>9. CASE line[1] = "operator" /\ args[1] = "add"
  <2>1. call \in [op : {"approve_all"}, operator : {args[2]}, expires : Until(args, 3, clock)]
    BY <1>9 DEF Meant
  <2>2. [operator |-> call.operator, until |-> call.expires] \in Granted(line, clock)
    BY <1>9, <2>1 DEF Granted
  <2> QED
    BY <1>9, <2>1, <2>2, UntilType
<1>10. CASE line[1] = "operator" /\ args[1] # "add"
  BY <1>10 DEF Meant
<1> QED
  BY <1>1, <1>2, <1>3, <1>4, <1>5, <1>6, <1>7, <1>8, <1>9, <1>10, TokenToolAssumption


LEMMA SignedShape ==
  ASSUME NEW tx, Signed(tx), tx.call # Refused
  PROVE  \E line \in Line, clock \in Clock :
           tx.call \in Meant(line[1], line[2], clock) /\ Shape(tx.call, line, clock)
<1>1. PICK line \in Line : tx.call \in Arrivals(line)
  BY DEF Signed
<1>2. tx.call # Nothing
  BY DEF Signed
<1>3. PICK clock \in Clock : tx.call \in Meant(line[1], line[2], clock)
  BY <1>1, <1>2, ArrivesAsMeant
<1> QED
  BY <1>3, MeantShape

LEMMA AnswerShape ==
  ASSUME OwnAnswer, tool.pc = "waiting", NEW tx \in mempool, tx.id = tool.id,
         Signed(tx), tx.call # Refused
  PROVE  /\ tool.line \in Line
         /\ \E clock \in Clock : /\ tx.call \in Meant(tool.line[1], tool.line[2], clock)
                                 /\ Shape(tx.call, tool.line, clock)
<1>1. tool.line \in Line /\ tx.call \in Arrivals(tool.line)
  BY DEF OwnAnswer
<1>2. tx.call # Nothing
  BY DEF Signed
<1>3. PICK clock \in Clock : tx.call \in Meant(tool.line[1], tool.line[2], clock)
  BY <1>1, <1>2, ArrivesAsMeant
<1> QED
  BY <1>1, <1>3, MeantShape

\* What the contract cannot read it does not accept.
LEMMA RefusedNotAccepted == ~Accepted(Refused)
BY DEF Accepted, Refused

-----------------------------------------------------------------------------
(* Every step of the tool and the others is a step of the collection *)

\* A grant that is accepted has an expiry of the ones explored.
LEMMA GrantTyped ==
  ASSUME now \in 0 .. MaxTime, NEW tx, Signed(tx), tx.call # Refused,
         tx.call.op \in {"approve", "approve_all"}, ~Expired(tx.call.expires)
  PROVE  tx.call.expires \in Expiration
<1> DEFINE call == tx.call
<1>1. PICK line \in Line, clock \in Clock : Shape(call, line, clock)
  BY SignedShape
<1>2. ASSUME call.expires # Never PROVE call.expires \in 0 .. MaxTime
  <2>1. call.expires \in Int
    BY <1>1, <1>2 DEF Shape
  <2>2. call.expires <= MaxTime
    BY <1>2 DEF Signed, Explored
  <2>3. now \in Int /\ now >= 0 /\ MaxTime \in Int /\ ~(call.expires <= now)
    BY <1>2, ConstantAssumption DEF Expired
  <2> QED
    BY <2>1, <2>2, <2>3
<1> QED
  BY <1>2 DEF Expiration

LEMMA PerformedIsCall ==
  ASSUME GrantsInv, now \in 0 .. MaxTime, NEW tx, Signed(tx), tx.call # Refused,
         tx.call.op # "receive_nft", Performed(tx.call)
  PROVE  Execute
<1> DEFINE call == tx.call
<1>1. PICK line \in Line, clock \in Clock : Shape(call, line, clock)
  BY SignedShape
<1>2. Primary \in Account /\ Account \subseteq Address
  BY TokenToolAssumption DEF Address
<1>3. call.op \in {"approve", "approve_all"} /\ ~Expired(call.expires) =>
        call.expires \in Expiration
  BY GrantTyped
<1>4. \A t : t \in Minted => t \in TokenId
  BY DEF Minted
<1>5. CASE call.op = "transfer_nft"
  <2>1. Transfer(Primary, call.recipient, call.tokenId)
    BY <1>5 DEF Performed
  <2>2. call.recipient \in Account /\ call.tokenId \in TokenId
    BY <2>1, <1>4 DEF Transfer, TransferAccepted, CanSend, CanApprove
  <2> QED
    BY <2>1, <2>2, <1>2 DEF Execute
<1>6. CASE call.op = "send_nft"
  <2>1. Send(Primary, call.contract, call.tokenId)
    BY <1>6 DEF Performed
  <2>2. call.contract \in Account /\ call.tokenId \in TokenId
    BY <2>1, <1>4 DEF Send, Transfer, TransferAccepted, CanSend, CanApprove
  <2> QED
    BY <2>1, <2>2, <1>2 DEF Execute
<1>7. CASE call.op = "approve"
  <2>1. Approve(Primary, call.spender, call.tokenId, call.expires)
    BY <1>7 DEF Performed
  <2>2. call.spender \in Account /\ call.tokenId \in TokenId /\ ~Expired(call.expires)
    BY <2>1, <1>4 DEF Approve, ApproveAccepted, CanApprove
  <2>3. call.expires \in Expiration
    BY <1>3, <1>7, <2>2
  <2> QED
    BY <2>1, <2>2, <2>3, <1>2 DEF Execute
<1>8. CASE call.op = "revoke"
  <2>1. Revoke(Primary, call.spender, call.tokenId)
    BY <1>8 DEF Performed
  <2>2. call.spender \in Account /\ call.tokenId \in TokenId
    BY <2>1, <1>4 DEF Revoke, RevokeAccepted, CanApprove
  <2> QED
    BY <2>1, <2>2, <1>2 DEF Execute
<1>9. CASE call.op = "approve_all"
  <2>1. ApproveAll(Primary, call.operator, call.expires)
    BY <1>9 DEF Performed
  <2>2. call.operator \in Account /\ ~Expired(call.expires)
    BY <2>1 DEF ApproveAll, ApproveAllAccepted
  <2>3. call.expires \in Expiration
    BY <1>3, <1>9, <2>2
  <2> QED
    BY <2>1, <2>2, <2>3, <1>2 DEF Execute
<1>10. CASE call.op = "revoke_all"
  <2>1. RevokeAll(Primary, call.operator)
    BY <1>10 DEF Performed
  <2>2. call.operator \in Account
    BY <2>1 DEF RevokeAll, RevokeAllAccepted
  <2> QED
    BY <2>1, <2>2, <1>2 DEF Execute
<1>11. CASE call.op = "burn"
  <2>1. Burn(Primary, call.tokenId)
    BY <1>11 DEF Performed
  <2>2. call.tokenId \in TokenId
    BY <2>1, <1>4 DEF Burn, BurnAccepted, CanSend, CanApprove
  <2> QED
    BY <2>1, <2>2, <1>2 DEF Execute
<1> QED
  BY <1>1, <1>5, <1>6, <1>7, <1>8, <1>9, <1>10, <1>11 DEF Shape

LEMMA ElsewhereIsCall == Elsewhere => Execute /\ UNCHANGED <<now, toolVars>>
<1> SUFFICES ASSUME Elsewhere PROVE Execute
  BY DEF Elsewhere
<1>1. /\ MinterAccount \in Account /\ Contract \subseteq Account
      /\ Other \subseteq Account /\ Holder \subseteq Account /\ Primary \in Account
  BY TokenToolAssumption, ConstantAssumption
<1>2. Account \subseteq Address /\ Malformed \subseteq Address
  BY DEF Address
<1>3. Never \in Expiration
  BY DEF Expiration
<1>4. CASE \E c \in Contract, i \in InfoMsg : Instantiate(c, FALSE, i)
  BY <1>1, <1>4 DEF Execute
<1>5. CASE \E t \in TokenId, a \in Holder \cup Malformed : Mint(MinterAccount, t, a, FALSE)
  BY <1>1, <1>2, <1>5 DEF Execute
<1>6. CASE \E s \in Other, t \in TokenId :
             \/ Burn(s, t)
             \/ \E a \in Holder : Transfer(s, a, t) \/ Approve(s, a, t, Never) \/ Revoke(s, a, t)
  BY <1>1, <1>2, <1>3, <1>6 DEF Execute
<1>7. CASE \E s \in Other : ApproveAll(s, Primary, Never) \/ RevokeAll(s, Primary)
  BY <1>1, <1>2, <1>3, <1>7 DEF Execute
<1> QED
  BY <1>4, <1>5, <1>6, <1>7 DEF Elsewhere

\* The contract is called, by a transaction with the number the chain expects, or not.
LEMMA DeliverySteps ==
  ASSUME ToolInv, IInv, NEW tx \in mempool, Deliver(tx)
  PROVE  (Execute /\ UNCHANGED now) \/ UNCHANGED vars
<1>1. Signed(tx) /\ now \in 0 .. MaxTime
  BY DEF ToolInv
<1>2. CASE CallReceiver(tx)
  BY <1>2 DEF CallReceiver, Deliver, vars
<1>3. CASE Accepted(tx.call) /\ Performed(tx.call) /\ tx.call.op # "receive_nft"
  <2>1. tx.call # Refused
    BY <1>3, RefusedNotAccepted
  <2>2. Execute
    BY <1>1, <1>3, <2>1, PerformedIsCall DEF IInv
  <2> QED
    BY <2>2 DEF Deliver
<1>4. CASE UNCHANGED contractVars
  BY <1>4 DEF Deliver, vars
<1> QED
  BY <1>2, <1>3, <1>4 DEF Deliver, CallCollection

LEMMA ToolSteps == ToolInv /\ IInv /\ [NextTool]_allVars => [Next]_vars
<1> SUFFICES ASSUME ToolInv, IInv, NextTool PROVE [Next]_vars
  BY DEF allVars
<1>1. ASSUME NEW l \in Line, NEW s \in Skew, Command(l, s) PROVE UNCHANGED vars
  BY <1>1 DEF Command
<1>2. CASE GiveUp
  BY <1>2 DEF GiveUp
<1>3. ASSUME NEW tx \in mempool, Deliver(tx) PROVE [Next]_vars
  BY <1>3, DeliverySteps DEF Next
<1>4. ASSUME NEW tx \in mempool, Drop(tx) PROVE UNCHANGED vars
  BY <1>4 DEF Drop
<1>5. CASE Elsewhere
  BY <1>5, ElsewhereIsCall DEF Next
<1>6. CASE Tick
  BY <1>6 DEF Next
<1> QED
  BY <1>1, <1>2, <1>3, <1>4, <1>5, <1>6 DEF NextTool


-----------------------------------------------------------------------------
(* What is under way stays as described *)

\* Whatever is said of one transaction stays true while numbers and grants grow.
LEMMA SignedStays ==
  ASSUME NEW tx, Signed(tx), commands \in Nat, sequence \in Nat,
         commands' \in {commands, commands + 1}, sequence' \in {sequence, sequence + 1},
         given \subseteq given'
  PROVE  Signed(tx)'
<1>1. tx.id \in 1 .. commands' /\ tx.sequence \in 0 .. sequence'
  BY DEF Signed
<1> QED
  BY <1>1 DEF Signed, Arrivals, Explored

LEMMA ToolInvInit == InitTool => ToolInv
<1> SUFFICES ASSUME InitTool PROVE ToolInv
  OBVIOUS
<1>1. MaxTime \in Nat
  BY ConstantAssumption
<1> QED
  BY <1>1 DEF InitTool, Init, ToolInv, ToolTyped, OwnAnswer, Idle

\* The new transaction has the next number, and whoever it makes an operator is asked
\* for again.
LEMMA CommandKeeps ==
  ASSUME ToolInv, NEW line \in Line, NEW skew \in Skew, Command(line, skew)
  PROVE  ToolInv'
<1> DEFINE clock == now + skew
           call == Call[<<line, clock>>]
           new == [sequence |-> sequence, id |-> commands + 1, call |-> call]
<1> USE DEF ToolInv
<1>1. clock \in Clock /\ call \in Arrivals(line)
  BY ClockReads DEF Arrivals
<1>2. /\ now' \in 0 .. MaxTime /\ commands' \in Nat /\ sequence' \in Nat
      /\ commands' = commands + 1 /\ sequence' = sequence /\ now' = now
  BY DEF Command, vars
<1>3. CASE call.op = "nothing"
  <2>1. mempool' = mempool /\ given' = given /\ gone' = gone /\ tool' = Idle
    BY <1>3 DEF Command
  <2>2. \A tx \in mempool' : Signed(tx)' /\ Harmless(tx)'
    BY <1>2, <2>1, SignedStays DEF Harmless
  <2>3. ToolTyped' /\ OwnAnswer'
    BY <2>1 DEF ToolTyped, OwnAnswer, Idle
  <2> QED
    BY <1>2, <2>2, <2>3
<1>4. CASE call.op # "nothing"
  <2>1. /\ mempool' = mempool \cup {new}
        /\ tool' = [pc |-> "waiting", line |-> line, id |-> commands + 1, report |-> "none"]
        /\ given' = given \cup Granted(line, clock)
        /\ gone' = gone \ Asked(line)
    BY <1>4 DEF Command
  <2>2. call # Nothing
    BY <1>4 DEF Nothing
  <2>3. call.op = "approve_all" =>
          /\ [operator |-> call.operator, until |-> call.expires] \in Granted(line, clock)
          /\ call.operator \in Asked(line)
    <3> SUFFICES ASSUME call.op = "approve_all"
                 PROVE  /\ [operator |-> call.operator, until |-> call.expires]
                             \in Granted(line, clock)
                        /\ call.operator \in Asked(line)
      OBVIOUS
    <3>1. call # Refused
      BY DEF Refused
    <3>2. call \in Meant(line[1], line[2], clock)
      BY <1>1, <2>2, <3>1, CallAssumption
    <3>3. Shape(call, line, clock)
      BY <1>1, <3>2, MeantShape
    <3> QED
      BY <3>3 DEF Shape, Asked
  <2>4. ASSUME NEW tx, tx = new PROVE Signed(tx)' /\ Harmless(tx)'
    <3>1. tx.id \in 1 .. commands' /\ tx.sequence \in 0 .. sequence' /\ tx.call = call
      BY <1>2, <2>4
    <3>2. Explored(tx.call)
      BY <3>1 DEF Command
    <3>3. Signed(tx)'
      BY <1>1, <2>1, <2>2, <2>3, <3>1, <3>2 DEF Signed, Arrivals, Explored
    <3>4. Harmless(tx)'
      BY <2>1, <2>3, <3>1 DEF Harmless
    <3> QED
      BY <3>3, <3>4
  <2>5. ASSUME NEW tx \in mempool PROVE Signed(tx)' /\ Harmless(tx)' /\ tx.id # commands + 1
    BY <1>2, <2>1, SignedStays DEF Harmless, Signed
  <2>6. OwnAnswer'
    <3>1. tool'.line = line /\ tool'.id = commands + 1
      BY <2>1
    <3>2. \A tx \in mempool' : tx.id = tool'.id => tx.call \in Arrivals(line)
      BY <1>1, <2>1, <2>5, <3>1
    <3> QED
      BY <3>1, <3>2 DEF OwnAnswer, Arrivals
  <2>7. \A tx \in mempool' : Signed(tx)' /\ Harmless(tx)'
    BY <2>1, <2>4, <2>5
  <2>8. ToolTyped'
    BY <1>2, <2>1 DEF ToolTyped
  <2> QED
    BY <1>2, <2>6, <2>7, <2>8
<1> QED
  BY <1>3, <1>4

\* An executed transaction uses its number up, so none of the others is still executable.
LEMMA DeliverKeeps ==
  ASSUME ToolInv, NEW tx \in mempool, Deliver(tx)
  PROVE  ToolInv'
<1> USE DEF ToolInv
<1>1. /\ tx.sequence = sequence /\ sequence' = sequence + 1 /\ mempool' = mempool \ {tx}
      /\ UNCHANGED <<now, commands, given>>
  BY DEF Deliver
<1>2. (tool' = tool \/ tool'.pc = "idle") /\ ToolTyped'
  <2>1. \E code : Answered(tx, code)
    BY DEF Deliver, CallCollection, CallReceiver
  <2> QED
    BY <2>1 DEF Answered, Report, ToolTyped
<1>3. ASSUME NEW other \in mempool' PROVE Signed(other)' /\ Harmless(other)'
  <2>1. other \in mempool
    BY <1>1
  <2>2. other.sequence \in 0 .. sequence /\ Signed(other)
    BY <2>1 DEF Signed
  <2>3. other.sequence # sequence'
    BY <1>1, <2>2
  <2> QED
    BY <1>1, <2>2, <2>3, SignedStays DEF Harmless
<1>4. OwnAnswer'
  BY <1>1, <1>2 DEF OwnAnswer, Arrivals
<1> QED
  BY <1>1, <1>2, <1>3, <1>4

LEMMA ToolInvStep == ToolInv /\ [NextTool]_allVars => ToolInv'
<1> SUFFICES ASSUME ToolInv, [NextTool]_allVars PROVE ToolInv'
  OBVIOUS
<1>1. ASSUME NEW line \in Line, NEW skew \in Skew, Command(line, skew) PROVE ToolInv'
  BY <1>1, CommandKeeps
<1>2. ASSUME NEW tx \in mempool, Deliver(tx) PROVE ToolInv'
  BY <1>2, DeliverKeeps
<1>3. ASSUME now' \in 0 .. MaxTime, UNCHANGED <<sequence, commands, given, gone>>,
             mempool' \subseteq mempool, tool' \in {tool, Idle}
      PROVE  ToolInv'
  <2>1. \A tx \in mempool' : Signed(tx)' /\ Harmless(tx)'
    BY <1>3, SignedStays DEF ToolInv, Harmless
  <2>2. ToolTyped' /\ OwnAnswer'
    <3>1. CASE tool' = tool
      BY <1>3, <3>1 DEF ToolInv, ToolTyped, OwnAnswer, Arrivals
    <3>2. CASE tool' = Idle
      BY <3>2 DEF ToolTyped, OwnAnswer, Idle
    <3> QED
      BY <1>3, <3>1, <3>2
  <2> QED
    BY <1>3, <2>1, <2>2 DEF ToolInv
<1>4. now \in 0 .. MaxTime
  BY DEF ToolInv
<1>5. CASE GiveUp
  BY <1>3, <1>4, <1>5 DEF GiveUp, vars
<1>6. ASSUME NEW tx \in mempool, Drop(tx) PROVE ToolInv'
  BY <1>3, <1>4, <1>6 DEF Drop, vars
<1>7. CASE Elsewhere
  BY <1>3, <1>4, <1>7 DEF Elsewhere, toolVars
<1>8. CASE Tick /\ UNCHANGED toolVars
  <2>1. now' \in 0 .. MaxTime
    BY <1>4, <1>8, ConstantAssumption DEF Tick
  <2> QED
    BY <1>3, <1>8, <2>1 DEF toolVars
<1>9. CASE UNCHANGED allVars
  BY <1>3, <1>4, <1>9 DEF allVars, toolVars, vars
<1> QED
  BY <1>1, <1>2, <1>5, <1>6, <1>7, <1>8, <1>9 DEF NextTool

LEMMA ToolInvariance == SpecTool => [](ToolInv /\ IInv)
<1>1. InitTool => ToolInv /\ IInv
  BY ToolInvInit, InitInv DEF InitTool
<1>2. ToolInv /\ IInv /\ [NextTool]_allVars => (ToolInv /\ IInv)'
  BY ToolInvStep, ToolSteps, StepInv
<1> QED
  BY <1>1, <1>2, PTL DEF SpecTool

\* Whatever commands are run, given up, executed late or lost, and whatever the others do
\* meanwhile, the collection only sees calls it has a handler for: the token commands
\* together with the chain implement Collection, whose theorems hold of them.
THEOREM ToolImplementsCollection == SpecTool => Spec
<1>1. InitTool => Init
  BY DEF InitTool
<1> QED
  BY <1>1, ToolSteps, ToolInvariance, PTL DEF SpecTool, Spec


-----------------------------------------------------------------------------
(* Operators *)

\* Who is reported removed is the one whose grant the answered transaction has removed.
LEMMA GoneGrows ==
  ASSUME ToolInv, NEW tx \in mempool, NEW code, Answered(tx, code),
         code = 0 => tx.call # Refused
  PROVE  \/ gone' = gone
         \/ code = 0 /\ tx.call.op = "revoke_all" /\ gone' = gone \cup {tx.call.operator}
<1>1. CASE gone' = gone
  BY <1>1
<1>2. CASE gone' # gone
  <2>1. /\ tool.pc = "waiting" /\ tool.id = tx.id /\ code = 0
        /\ gone' = gone \cup Removed(tool.line)
    BY <1>2 DEF Answered, Report
  <2>2. Granting(tool.line, "remove") /\ Removed(tool.line) = {tool.line[2][2]}
    BY <1>2, <2>1 DEF Removed
  <2>3. PICK clock \in Clock : Shape(tx.call, tool.line, clock)
    BY <2>1, AnswerShape DEF ToolInv
  <2> QED
    BY <2>1, <2>2, <2>3 DEF Shape
<1> QED
  BY <1>1, <1>2

LEMMA DeliverOperators ==
  ASSUME ToolInv, OperatorsAsAsked, NEW tx \in mempool, Deliver(tx)
  PROVE  OperatorsAsAsked'
<1> USE DEF OperatorsAsAsked
<1>1. Signed(tx) /\ Harmless(tx) /\ tx.sequence = sequence /\ given' = given
  BY DEF ToolInv, Deliver
<1>2. CASE tx.call.op = "receive_nft"
  <2>1. CallReceiver(tx)
    BY <1>2 DEF Deliver
  <2>2. PICK code : Answered(tx, code)
    BY <2>1 DEF CallReceiver
  <2>3. operators' = operators /\ gone' = gone
    BY <1>2, <2>1, <2>2, GoneGrows DEF CallReceiver, contractVars, Refused
  <2> QED
    BY <1>1, <2>3
<1>3. CASE Accepted(tx.call) /\ Performed(tx.call) /\ Answered(tx, 0)
  <2>1. tx.call # Refused
    BY <1>3, RefusedNotAccepted
  <2>2. \/ gone' = gone
        \/ tx.call.op = "revoke_all" /\ gone' = gone \cup {tx.call.operator}
    BY <1>3, <2>1, GoneGrows
  <2>3. CASE tx.call.op = "approve_all"
    <3>1. /\ operators' = OtherOperators(Primary, tx.call.operator) \cup
               {[owner |-> Primary, operator |-> tx.call.operator, expires |-> tx.call.expires]}
          /\ gone' = gone
      BY <1>3, <2>2, <2>3 DEF Performed, ApproveAll
    <3>2. /\ [operator |-> tx.call.operator, until |-> tx.call.expires] \in given
          /\ tx.call.operator \notin gone
      BY <1>1, <2>3 DEF Signed, Harmless
    <3> QED
      BY <1>1, <3>1, <3>2 DEF OtherOperators
  <2>4. CASE tx.call.op = "revoke_all"
    <3>1. operators' = OtherOperators(Primary, tx.call.operator)
      BY <1>3, <2>4 DEF Performed, RevokeAll
    <3> QED
      BY <1>1, <2>2, <3>1 DEF OtherOperators
  <2>5. CASE tx.call.op \notin {"approve_all", "revoke_all"}
    <3>1. PICK line \in Line, clock \in Clock : Shape(tx.call, line, clock)
      BY <1>1, <2>1, SignedShape
    <3>2. tx.call.op \in {"transfer_nft", "send_nft", "receive_nft", "burn", "approve", "revoke"}
      BY <2>5, <3>1 DEF Shape
    <3>3. tx.call.op # "receive_nft" => operators' = operators
      BY <1>3, <3>2 DEF Performed, Transfer, Send, Approve, Revoke, Burn
    <3> QED
      BY <1>1, <1>2, <2>2, <2>5, <3>3
  <2> QED
    BY <2>3, <2>4, <2>5
<1>4. CASE ~Accepted(tx.call) /\ UNCHANGED contractVars /\ Answered(tx, 1)
  <2>1. gone' = gone
    BY <1>4, GoneGrows
  <2> QED
    BY <1>1, <1>4, <2>1 DEF contractVars
<1> QED
  BY <1>2, <1>3, <1>4 DEF Deliver, CallCollection

LEMMA OperatorsStep ==
  ToolInv /\ OperatorsAsAsked /\ [NextTool]_allVars => OperatorsAsAsked'
<1> SUFFICES ASSUME ToolInv, OperatorsAsAsked, [NextTool]_allVars PROVE OperatorsAsAsked'
  OBVIOUS
<1>1. ASSUME NEW tx \in mempool, Deliver(tx) PROVE OperatorsAsAsked'
  BY <1>1, DeliverOperators
<1>2. ASSUME operators' = operators, given \subseteq given', gone' \subseteq gone
      PROVE  OperatorsAsAsked'
  BY <1>2 DEF OperatorsAsAsked
<1>3. ASSUME NEW line \in Line, NEW skew \in Skew, Command(line, skew) PROVE OperatorsAsAsked'
  BY <1>2, <1>3 DEF Command, vars, contractVars
<1>4. CASE GiveUp
  BY <1>2, <1>4 DEF GiveUp, vars, contractVars
<1>5. ASSUME NEW tx \in mempool, Drop(tx) PROVE OperatorsAsAsked'
  BY <1>2, <1>5 DEF Drop, vars, contractVars
<1>6. CASE Elsewhere
  <2>1. given' = given /\ gone' = gone
    BY <1>6 DEF Elsewhere, toolVars
  <2>2. CASE operators' = operators
    BY <1>2, <2>1, <2>2
  <2>3. CASE operators' # operators
    <3>1. PICK s \in Other : ApproveAll(s, Primary, Never) \/ RevokeAll(s, Primary)
      BY <1>6, <2>3 DEF Elsewhere, Instantiate, Mint, Burn, Transfer, Approve, Revoke
    <3>2. s # Primary
      BY TokenToolAssumption
    <3>3. \A o \in operators' : o.owner = Primary => o \in operators
      BY <3>1, <3>2 DEF ApproveAll, RevokeAll, OtherOperators
    <3> QED
      BY <2>1, <3>3 DEF OperatorsAsAsked
  <2> QED
    BY <2>2, <2>3
<1>7. CASE Tick /\ UNCHANGED toolVars
  BY <1>2, <1>7 DEF Tick, toolVars, contractVars
<1>8. CASE UNCHANGED allVars
  BY <1>2, <1>8 DEF allVars, toolVars, vars, contractVars
<1> QED
  BY <1>1, <1>3, <1>4, <1>5, <1>6, <1>7, <1>8 DEF NextTool

\* Nobody is an operator of the tool's account who was not asked for with that very time,
\* and who was reported removed stays removed until asked for again.
THEOREM OperatorsAreAsAsked == SpecTool => []OperatorsAsAsked
<1>1. InitTool => OperatorsAsAsked
  BY DEF InitTool, Init, OperatorsAsAsked
<1> QED
  BY <1>1, OperatorsStep, ToolInvariance, PTL DEF SpecTool


-----------------------------------------------------------------------------
(* Reports *)

LEMMA TokenPut ==
  ASSUME TokensInv, NEW t \in Minted, NEW token \in Token,
         tokens' = [tokens EXCEPT ![t] = token]
  PROVE  tokens'[t] = token /\ token # None
<1>1. t \in TokenId /\ tokens \in [TokenId -> Token \cup {None}]
  BY DEF Minted, TokensInv
<1> QED
  BY <1>1, NoneIsNoToken

LEMMA TransferPuts ==
  ASSUME TokensInv, NEW sender, NEW recipient, NEW t, Transfer(sender, recipient, t)
  PROVE  tokens'[t] # None /\ tokens'[t].owner = recipient
<1>1. t \in Minted /\ recipient \in Account
  BY DEF Transfer, TransferAccepted, CanSend, CanApprove
<1>2. [owner |-> recipient, approvals |-> {}] \in Token
  BY <1>1 DEF Token
<1>3. tokens'[t] = [owner |-> recipient, approvals |-> {}] /\ tokens'[t] # None
  BY <1>1, <1>2, TokenPut DEF Transfer
<1> QED
  BY <1>3

\* What a call of the collection does when it is accepted, is what its line asks for.
LEMMA PerformedShows ==
  ASSUME IInv, NEW name, NEW args, NEW clock, NEW call \in Meant(name, args, clock),
         name \in {"transfer", "send-nft", "send-to-receiver", "send-talis-sale", "burn",
                   "spender", "operator"},
         Accepted(call), Performed(call), UNCHANGED now,
         call.op = "approve" /\ ~Expired(call.expires) => call.expires \in Expiration
  PROVE  Shows(name, args)'
<1> USE DEF IInv
<1>1. CASE name = "transfer"
  <2>1. call.op = "transfer_nft" /\ call.recipient = args[2] /\ call.tokenId = args[1]
    BY <1>1 DEF Meant
  <2>2. Transfer(Primary, args[2], args[1])
    BY <2>1 DEF Performed
  <2> QED
    BY <1>1, <2>2, TransferPuts DEF Shows
<1>2. CASE name \in {"send-nft", "send-to-receiver", "send-talis-sale"}
  <2> DEFINE contract == CASE name = "send-nft" -> args[2]
                           [] name = "send-to-receiver" -> Receiver
                           [] name = "send-talis-sale" -> Market
  <2>1. call.op = "send_nft" /\ call.tokenId = args[1] /\ call.contract = contract
    BY <1>2 DEF Meant, Sending
  <2>2. Transfer(Primary, contract, args[1])
    BY <2>1 DEF Performed, Send
  <2>3. name = "send-to-receiver" => args[2] = "true"
    <3>1. Takes(call.contract, call.inner)
      BY <2>1 DEF Accepted
    <3>2. name = "send-to-receiver" => call.inner = InnerMessage(args[2])
      BY DEF Meant, Sending
    <3> QED
      BY <3>1, <3>2 DEF Takes, InnerMessage
  <2> HIDE DEF contract
  <2>4. tokens'[args[1]] # None /\ tokens'[args[1]].owner = contract
    BY <2>2, TransferPuts
  <2> QED
    BY <1>2, <2>3, <2>4 DEF Shows, contract
<1>3. CASE name = "burn"
  <2>1. Burn(Primary, args[1])
    BY <1>3 DEF Meant, Performed
  <2>2. args[1] \in TokenId /\ tokens \in [TokenId -> Token \cup {None}]
    BY <2>1 DEF Burn, BurnAccepted, CanSend, CanApprove, Minted, TokensInv
  <2> QED
    BY <1>3, <2>1, <2>2 DEF Burn, Shows
<1>4. CASE name = "spender"
  <2> DEFINE t == args[3]
  <2>1. ASSUME NEW approvals \in SUBSET Approval,
               t \in Minted, tokens' = [tokens EXCEPT ![t].approvals = approvals]
        PROVE  tokens'[t].approvals = approvals /\ tokens'[t] # None
    <3>1. t \in TokenId /\ tokens[t] \in Token /\ tokens \in [TokenId -> Token \cup {None}]
      BY <2>1, MintedTyped DEF TokensInv
    <3>2. tokens'[t] = [owner |-> tokens[t].owner, approvals |-> approvals]
      BY <2>1, <3>1 DEF Token
    <3>3. tokens'[t] \in Token
      BY <3>1, <3>2 DEF Token
    <3> QED
      BY <3>2, <3>3, NoneIsNoToken
  <2>2. CASE args[1] = "add"
    <3>1. call.op = "approve" /\ call.spender = args[2] /\ call.tokenId = t
      BY <1>4, <2>2 DEF Meant
    <3>2. Approve(Primary, args[2], t, call.expires)
      BY <3>1 DEF Performed
    <3>3. t \in Minted /\ ~Expired(call.expires)
      BY <3>2 DEF Approve, ApproveAccepted, CanApprove
    <3> DEFINE a == [spender |-> args[2], expires |-> call.expires, under |-> tokens[t].owner]
    <3>4. OtherApprovals(t, args[2]) \cup {a} \in SUBSET Approval
      <4>1. tokens[t] \in Token /\ args[2] \in Account /\ call.expires \in Expiration
        BY <3>1, <3>2, <3>3, MintedTyped DEF Approve, ApproveAccepted
      <4> QED
        BY <4>1 DEF OtherApprovals, Token, Approval
    <3>5. tokens'[t].approvals = OtherApprovals(t, args[2]) \cup {a} /\ tokens'[t] # None
      BY <2>1, <3>2, <3>3, <3>4 DEF Approve
    <3>6. a.spender = args[2] /\ ~(a.expires # Never /\ a.expires <= now')
      BY <3>3 DEF Expired
    <3>7. a \in tokens'[t].approvals
      BY <3>5
    <3> HIDE DEF a
    <3>8. \E other \in tokens'[t].approvals :
            other.spender = args[2] /\ ~(other.expires # Never /\ other.expires <= now')
      BY <3>6, <3>7
    <3> QED
      BY <1>4, <2>2, <3>5, <3>8 DEF Shows, Expired
  <2>3. CASE args[1] # "add"
    <3>1. call.op = "revoke" /\ call.spender = args[2] /\ call.tokenId = t
      BY <1>4, <2>3 DEF Meant
    <3>2. Revoke(Primary, args[2], t)
      BY <3>1 DEF Performed
    <3>3. t \in Minted
      BY <3>2 DEF Revoke, RevokeAccepted, CanApprove
    <3>4. OtherApprovals(t, args[2]) \in SUBSET Approval
      BY <3>3, MintedTyped DEF OtherApprovals, Token
    <3>5. tokens'[t].approvals = OtherApprovals(t, args[2]) /\ tokens'[t] # None
      BY <2>1, <3>2, <3>3, <3>4 DEF Revoke
    <3> QED
      BY <1>4, <2>3, <3>5 DEF Shows, OtherApprovals
  <2> QED
    BY <2>2, <2>3
<1>5. CASE name = "operator"
  <2>1. CASE args[1] = "add"
    <3>1. call.op = "approve_all" /\ call.operator = args[2]
      BY <1>5, <2>1 DEF Meant
    <3>2. ApproveAll(Primary, args[2], call.expires)
      BY <3>1 DEF Performed
    <3> DEFINE o == [owner |-> Primary, operator |-> args[2], expires |-> call.expires]
    <3>3. o.owner = Primary /\ o.operator = args[2] /\ ~Expired(o.expires)'
      BY <3>2 DEF ApproveAll, ApproveAllAccepted, Expired
    <3>4. o \in operators'
      BY <3>2 DEF ApproveAll
    <3> HIDE DEF o
    <3>5. IsOperator(Primary, args[2])'
      BY <3>3, <3>4 DEF IsOperator, Expired
    <3> QED
      BY <1>5, <2>1, <3>5 DEF Shows
  <2>2. CASE args[1] # "add"
    <3>1. call.op = "revoke_all" /\ call.operator = args[2]
      BY <1>5, <2>2 DEF Meant
    <3>2. RevokeAll(Primary, args[2])
      BY <3>1 DEF Performed
    <3>3. ~IsOperator(Primary, args[2])'
      BY <3>2 DEF RevokeAll, OtherOperators, IsOperator
    <3> QED
      BY <1>5, <2>2, <3>3 DEF Shows
  <2> QED
    BY <2>1, <2>2
<1> QED
  BY <1>1, <1>2, <1>3, <1>4, <1>5

LEMMA ReportStep ==
  ASSUME ToolInv, IInv, [NextTool]_allVars, tool'.report = "done", tool.report # "done"
  PROVE  Shows(tool.line[1], tool.line[2])'
<1>1. PICK tx \in mempool : Deliver(tx)
  <2>1. tool' # tool /\ tool' # Idle
    BY DEF Idle
  <2>2. ASSUME NEW line \in Line, NEW skew \in Skew, Command(line, skew) PROVE FALSE
    <3>1. tool'.report = "none"
      BY <2>2 DEF Command, Idle
    <3> QED
      BY <3>1
  <2>3. ~GiveUp /\ ~Elsewhere /\ ~UNCHANGED toolVars /\ ~\E tx \in mempool : Drop(tx)
    BY <2>1 DEF GiveUp, Elsewhere, toolVars, Drop
  <2> QED
    BY <2>2, <2>3 DEF NextTool, allVars
<1>2. PICK code : /\ Answered(tx, code)
                  /\ tx.call.op # "receive_nft" =>
                       \/ code = 0 /\ Accepted(tx.call) /\ Performed(tx.call)
                       \/ code = 1
                  /\ tx.call.op = "receive_nft" =>
                       code = IF Takes(Receiver, tx.call.inner) THEN 0 ELSE 1
  BY <1>1 DEF Deliver, CallCollection, CallReceiver
<1>3. /\ tool.pc = "waiting" /\ tool.id = tx.id /\ code = 0 /\ tool'.line = tool.line
  BY <1>2 DEF Answered, Report, ToolInv, ToolTyped
<1>4. tx.call # Refused
  BY <1>2, <1>3, RefusedNotAccepted DEF Refused
<1>5. PICK clock \in Clock : /\ tx.call \in Meant(tool.line[1], tool.line[2], clock)
                             /\ Shape(tx.call, tool.line, clock)
  BY <1>3, <1>4, AnswerShape DEF ToolInv
<1>6. tool.line \in Line
  BY <1>3, <1>4, AnswerShape DEF ToolInv
<1>7. CASE tool.line[1] = "call-receive-nft"
  <2>1. tx.call.op = "receive_nft" /\ tx.call.inner = InnerMessage(tool.line[2][2])
    BY <1>5, <1>7 DEF Meant
  <2>2. Takes(Receiver, InnerMessage(tool.line[2][2]))
    BY <1>2, <1>3, <2>1
  <2>3. tool.line[2][2] = "true"
    BY <2>2 DEF Takes, InnerMessage
  <2> QED
    BY <1>3, <1>7, <2>3 DEF Shows
<1>8. CASE tool.line[1] # "call-receive-nft"
  <2>1. tool.line[1] \in {"transfer", "send-nft", "send-to-receiver", "send-talis-sale", "burn",
                          "spender", "operator"}
    BY <1>6, <1>8, TokenToolAssumption
  <2>2. tx.call.op # "receive_nft"
    BY <1>5, <2>1 DEF Meant, Sending
  <2>3. Accepted(tx.call) /\ Performed(tx.call) /\ now' = now
    BY <1>1, <1>2, <1>3, <2>2 DEF Deliver
  <2>4. tx.call.op = "approve" /\ ~Expired(tx.call.expires) => tx.call.expires \in Expiration
    BY <1>1, <1>4, GrantTyped DEF ToolInv, IInv, GrantsInv
  <2>5. \A name, args : name = tool.line[1] /\ args = tool.line[2] => Shows(name, args)'
    BY <1>5, <2>1, <2>3, <2>4, PerformedShows
  <2> QED
    BY <1>3, <2>5
<1> QED
  BY <1>7, <1>8

\* A reported success is one: at that moment the collection is as the command line asked.
THEOREM ReportsAreTrue == SpecTool => ReportedMeansDone
<1> DEFINE Reported ==
      tool'.report = "done" /\ tool.report # "done" => Shows(tool.line[1], tool.line[2])'
<1>1. ToolInv /\ IInv /\ [NextTool]_allVars => [Reported]_allVars
  BY ReportStep
<1>2. SpecTool => [][Reported]_allVars
  BY <1>1, ToolInvariance, PTL DEF SpecTool
<1> QED
  BY <1>2 DEF ReportedMeansDone


-----------------------------------------------------------------------------
(* Listings *)

\* Everything read lies at or before the cursor, and what has been in the listing all the
\* time and lies there was read.
ReadSoFar ==
  /\ held \subseteq Listed(walk.of) /\ Listed(walk.of) \subseteq seen
  /\ walk.cursor = None => walk.listed = {}
  /\ walk.cursor # None =>
       /\ \A t \in walk.listed : Position(t) <= Position(walk.cursor)
       /\ \A t \in held : Position(t) <= Position(walk.cursor) => t \in walk.listed

ListingInv ==
  /\ walk \in [of : Whose \cup {Everything}, cursor : TokenId \cup {None},
               listed : SUBSET TokenId, twice : {FALSE}, pc : {"idle", "reading", "done"}]
  /\ walk.listed \subseteq seen
  /\ walk.pc = "reading" => ReadSoFar
  /\ walk.pc = "done" => held \subseteq walk.listed

LEMMA PositionType == \A t \in TokenId : Position(t) \in Int
<1> SUFFICES ASSUME NEW t \in TokenId PROVE Position(t) \in Int
  OBVIOUS
<1>1. \E i \in DOMAIN ByteOrder : ByteOrder[i] = t
  BY ListingAssumption
<1>2. Position(t) \in DOMAIN ByteOrder
  BY <1>1 DEF Position
<1>3. DOMAIN ByteOrder \subseteq Int
  BY ListingAssumption
<1> QED
  BY <1>2, <1>3

LEMMA ListedTyped == \A of : Listed(of) \subseteq TokenId
BY DEF Listed, Minted

LEMMA PageLength ==
  ASSUME NEW S, NEW n \in Nat, NEW page \in [1 .. n -> S]
  PROVE  DOMAIN page = 1 .. n /\ Len(page) = n
OBVIOUS

\* A page of at least one token goes on where the last one ended, without a gap.
LEMMA PageKeeps ==
  ASSUME ListingInv, NEW n \in Nat \ {0}, NEW page \in Pages(Listed(walk.of), n),
         TakePage(page)
  PROVE  ListingInv'
<1> DEFINE shown == {page[i] : i \in 1 .. n}
           last == page[n]
           keys == Listed(walk.of)
<1> USE DEF ListingInv
<1>1. /\ page \in [1 .. n -> Later(keys)] /\ n \in 1 .. n
      /\ \A i, j \in 1 .. n : i < j => Position(page[i]) < Position(page[j])
      /\ \A k \in Later(keys) :
           (\A i \in 1 .. n : page[i] # k) => \A i \in 1 .. n : Position(page[i]) < Position(k)
  BY DEF Pages
<1>2. DOMAIN page = 1 .. n /\ Len(page) = n /\ page # <<>>
  BY <1>1, PageLength
<1>3. walk.pc = "reading" /\ ReadSoFar
  BY DEF TakePage
<1>4. keys \subseteq TokenId /\ Later(keys) \subseteq keys
  BY ListedTyped DEF Later
<1>5. \A i \in 1 .. n : page[i] \in TokenId /\ page[i] \in keys /\ Position(page[i]) \in Int
  BY <1>1, <1>4, PositionType
<1>6. \A i, j \in 1 .. n : i # j => page[i] # page[j]
  <2> SUFFICES ASSUME NEW i \in 1 .. n, NEW j \in 1 .. n, i < j PROVE page[i] # page[j]
    OBVIOUS
  <2> QED
    BY <1>1, <1>5
<1>7. walk.cursor # None => walk.cursor \in TokenId /\ Position(walk.cursor) \in Int
  BY PositionType
<1>8. \A i \in 1 .. n : walk.cursor # None => Position(page[i]) > Position(walk.cursor)
  BY <1>1 DEF Later
<1>9. walk.listed \cap shown = {}
  <2> SUFFICES ASSUME NEW i \in 1 .. n, page[i] \in walk.listed PROVE FALSE
    OBVIOUS
  <2>1. walk.cursor # None /\ Position(page[i]) <= Position(walk.cursor)
    BY <1>3 DEF ReadSoFar
  <2> QED
    BY <1>5, <1>7, <1>8, <2>1
<1>10. /\ walk' = [walk EXCEPT !.listed = @ \cup shown, !.cursor = last, !.twice = FALSE]
       /\ UNCHANGED <<vars, held, seen>>
  BY <1>2, <1>6, <1>9 DEF TakePage
<1>11. shown \subseteq TokenId /\ shown \subseteq keys /\ last \in TokenId /\ last # None
  BY <1>1, <1>5, ListingAssumption
<1> HIDE DEF shown, last
<1>12. /\ walk'.of = walk.of /\ walk'.pc = "reading"
       /\ walk'.listed = walk.listed \cup shown /\ walk'.cursor = last
  BY <1>3, <1>10
<1>13. walk' \in [of : Whose \cup {Everything}, cursor : TokenId \cup {None},
                  listed : SUBSET TokenId, twice : {FALSE}, pc : {"idle", "reading", "done"}]
  BY <1>10, <1>11
<1>14. Listed(walk.of)' = keys
  BY <1>10, <1>12 DEF Listed, Minted, vars, contractVars
<1>15. \A t \in walk'.listed : Position(t) <= Position(last)
  <2>1. ASSUME NEW i \in 1 .. n PROVE Position(page[i]) <= Position(last)
    <3>1. i = n \/ i < n
      OBVIOUS
    <3> QED
      BY <1>1, <1>5, <3>1 DEF last
  <2>2. ASSUME NEW t \in walk.listed PROVE Position(t) <= Position(last)
    <3>1. walk.cursor # None /\ Position(t) <= Position(walk.cursor)
      BY <1>3 DEF ReadSoFar
    <3>2. Position(walk.cursor) < Position(last) /\ Position(last) \in Int
      BY <1>1, <1>5, <1>7, <1>8, <3>1 DEF last
    <3>3. Position(t) \in Int
      BY PositionType
    <3> QED
      BY <1>7, <3>1, <3>2, <3>3
  <2> QED
    BY <1>12, <2>1, <2>2 DEF shown
<1>16. ASSUME NEW t \in held, Position(t) <= Position(last) PROVE t \in walk'.listed
  <2>1. t \in keys /\ Position(t) \in Int
    BY <1>3, <1>4, PositionType DEF ReadSoFar
  <2>2. CASE walk.cursor # None /\ Position(t) <= Position(walk.cursor)
    BY <1>3, <1>12, <2>2 DEF ReadSoFar
  <2>3. CASE t \in Later(keys)
    <3>1. ~(Position(last) < Position(t))
      BY <1>1, <1>5, <1>16, <2>1 DEF last
    <3>2. t \in shown
      BY <1>1, <2>3, <3>1 DEF shown, last
    <3> QED
      BY <1>12, <3>2
  <2> QED
    BY <1>7, <2>1, <2>2, <2>3 DEF Later
<1>17. ReadSoFar'
  BY <1>3, <1>10, <1>11, <1>12, <1>14, <1>15, <1>16 DEF ReadSoFar
<1>18. walk'.listed \subseteq seen'
  BY <1>3, <1>10, <1>11, <1>12 DEF ReadSoFar
<1> QED
  BY <1>12, <1>13, <1>17, <1>18

\* An empty page after the cursor: nothing that stayed is left to read.
LEMMA LastPageKeeps ==
  ASSUME ListingInv, Later(Listed(walk.of)) = {}, TakePage(<<>>)
  PROVE  ListingInv'
<1> USE DEF ListingInv
<1>1. walk.pc = "reading" /\ ReadSoFar
  BY DEF TakePage
<1>2. walk' = [walk EXCEPT !.pc = "done"] /\ UNCHANGED <<vars, held, seen>>
  BY DEF TakePage
<1>3. ASSUME NEW t \in held PROVE t \in walk.listed
  <2>1. t \in Listed(walk.of) /\ Position(t) \in Int
    BY <1>1, ListedTyped, PositionType DEF ReadSoFar
  <2>2. walk.cursor # None /\ ~(Position(t) > Position(walk.cursor))
    BY <2>1 DEF Later
  <2>3. Position(walk.cursor) \in Int
    BY <2>2, PositionType
  <2> QED
    BY <1>1, <2>1, <2>2, <2>3 DEF ReadSoFar
<1> QED
  BY <1>2, <1>3

LEMMA ListingInvInit == InitListing => ListingInv
BY DEF InitListing, ListingInv, NoWalk

LEMMA ListingInvStep == ListingInv /\ [NextListing]_listingVars => ListingInv'
<1> SUFFICES ASSUME ListingInv, [NextListing]_listingVars PROVE ListingInv'
  OBVIOUS
<1> USE DEF ListingInv
<1>1. ASSUME NEW of \in Whose, Start(of) PROVE ListingInv'
  <2>1. /\ walk' = [of |-> of, cursor |-> None, listed |-> {}, twice |-> FALSE, pc |-> "reading"]
        /\ held' = Listed(of) /\ seen' = Listed(of) /\ UNCHANGED vars
    BY <1>1 DEF Start, NoWalk
  <2>2. Listed(walk.of)' = Listed(of)
    BY <2>1 DEF Listed, Minted, vars, contractVars
  <2>3. ReadSoFar'
    BY <2>1, <2>2 DEF ReadSoFar
  <2> QED
    BY <2>1, <2>3
<1>2. CASE Read
  <2>1. \A n \in 1 .. MaxLimit : n \in Nat \ {0}
    BY ContextAssumption
  <2> QED
    BY <1>2, <2>1, PageKeeps, LastPageKeeps DEF Read
<1>3. CASE End
  BY <1>3 DEF End, NoWalk
<1>4. CASE Meanwhile
  <2>1. walk' = walk
    BY <1>4 DEF Meanwhile
  <2>2. CASE walk.pc = "reading"
    <3>1. held' = held \cap Listed(walk.of)' /\ seen' = seen \cup Listed(walk.of)'
      BY <1>4, <2>2 DEF Meanwhile, Watched
    <3>2. ReadSoFar'
      BY <2>1, <2>2, <3>1 DEF ReadSoFar
    <3> QED
      BY <2>1, <2>2, <3>1, <3>2
  <2>3. CASE walk.pc # "reading"
    BY <1>4, <2>1, <2>3 DEF Meanwhile, Watched
  <2> QED
    BY <2>2, <2>3
<1>5. CASE UNCHANGED listingVars
  <2>1. Listed(walk.of)' = Listed(walk.of)
    BY <1>5 DEF listingVars, Listed, Minted, vars, contractVars
  <2> QED
    BY <1>5, <2>1 DEF listingVars, ReadSoFar
<1> QED
  BY <1>1, <1>2, <1>3, <1>4, <1>5 DEF NextListing

\* However the pages fall and whatever happens between them: what stayed is listed, what
\* never was there is not, and nothing is listed twice.
THEOREM ListingsAreComplete == SpecListing => []PagesComplete
<1>1. ListingInv => PagesComplete
  BY DEF ListingInv, PagesComplete
<1> QED
  BY <1>1, ListingInvInit, ListingInvStep, PTL DEF SpecListing
=============================================================================
