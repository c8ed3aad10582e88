--------------------------- MODULE TokenCommands ----------------------------
(***************************************************************************)
(* The eight token commands of test-tool/src/tx.ts, from the command line  *)
(* to the message as the contract reads it.  TokenTool, which this module  *)
(* extends, says what a command asks for, and when it is executed.         *)
(***************************************************************************)
EXTENDS TokenTool, Queries

-----------------------------------------------------------------------------
(* From the command line to the message *)

\* ScriptError, or what JSON.parse throws.
Failure == [kind |-> "failure"]

TransferToken(args) ==
  IF Len(args) < 2 THEN UsageError
  ELSE Query("cw721", S!Variant("transfer_nft",
         <<<<"recipient", Arg(args, 2)>>, <<"token_id", Arg(args, 1)>>>>))

SendMessage(contract, tokenId, inner) ==
  Query("cw721", S!Variant("send_nft",
    <<<<"contract", contract>>, <<"token_id", tokenId>>, <<"msg", S!Text(inner)>>>>))

\* The third argument is parsed, also when there is none.
SendToken(args) ==
  CASE Len(args) < 2 -> UsageError
    [] Len(args) = 2 -> Failure
    [] OTHER         -> SendMessage(Arg(args, 2), Arg(args, 1), args[3])

SendToReceiver(args) ==
  CASE Len(args) < 2 \/ BadSwitch(args, 2) -> UsageError
    [] Len(args) >= 2 /\ ~BadSwitch(args, 2) ->
         IF Receiver = "" THEN Failure
         ELSE SendMessage(S!Text(Receiver), Arg(args, 1), InnerMessage(args[2]))

CallReceiveNft(args) ==
  CASE Len(args) < 2 -> UsageError
    [] Len(args) >= 2 /\ Receiver = "" -> Failure
    [] OTHER ->
         IF BadSwitch(args, 2) THEN UsageError
         ELSE Query("receiver", S!Variant("receive_nft",
                <<<<"msg", S!Text(InnerMessage(args[2]))>>, <<"sender", S!Text(Primary)>>,
                  <<"token_id", Arg(args, 1)>>>>))

SendTalisSale(args) ==
  CASE Len(args) < 2 -> UsageError
    [] Len(args) >= 2 ->
         IF Market = "" THEN Failure
         ELSE SendMessage(S!Text(Market), Arg(args, 1), "sell_token")

BurnToken(args) ==
  IF Len(args) < 1 THEN UsageError
  ELSE Query("cw721", S!Variant("burn", <<<<"token_id", Arg(args, 1)>>>>))

\* getExpirationEpochInNanos; what is no number for parseFloat ends as NaN.
ExpirationEpoch(amount, unit, clock) ==
  LET value == {n \in Numeral : ToString(n) = amount}
  IN  IF value = {} THEN "NaN"
      ELSE ToString(clock + (CHOOSE n \in value : TRUE) * Length[unit])

Expires(args, first, clock) ==
  IF Given(args, first)
  THEN S!Object(<<<<"at_time", S!Text(ExpirationEpoch(args[first], args[first + 1], clock))>>>>)
  ELSE S!Variant("never", <<>>)

\* "add" with a span or without, or "remove" without; named is the arguments before.
BadGrant(args, named) ==
  \/ Len(args) \notin named .. named + 2 \ {named + 1}
  \/ args[1] \notin {"add", "remove"}
  \/ args[1] = "remove" /\ Len(args) # named
  \/ Len(args) = named + 2 /\ args[named + 2] \notin DOMAIN Length

Spender(args, clock) ==
  CASE BadGrant(args, 3) -> UsageError
    [] ~BadGrant(args, 3) /\ args[1] = "add" ->
         Query("cw721", S!Variant("approve",
           <<<<"spender", Arg(args, 2)>>, <<"token_id", Arg(args, 3)>>,
             <<"expires", Expires(args, 4, clock)>>>>))
    [] OTHER ->
         Query("cw721", S!Variant("revoke",
           <<<<"spender", Arg(args, 2)>>, <<"token_id", Arg(args, 3)>>>>))

Operator(args, clock) ==
  CASE BadGrant(args, 2) -> UsageError
    [] ~BadGrant(args, 2) /\ args[1] = "add" ->
         Query("cw721", S!Variant("approve_all",
           <<<<"operator", Arg(args, 2)>>, <<"expires", Expires(args, 3, clock)>>>>))
    [] OTHER -> Query("cw721", S!Variant("revoke_all", <<<<"operator", Arg(args, 2)>>>>))

Composed(name, args, clock) ==
  CASE name = "transfer"         -> TransferToken(args)
    [] name = "send-nft"         -> SendToken(args)
    [] name = "send-to-receiver" -> SendToReceiver(args)
    [] name = "call-receive-nft" -> CallReceiveNft(args)
    [] name = "send-talis-sale"  -> SendTalisSale(args)
    [] name = "burn"             -> BurnToken(args)
    [] name = "spender"          -> Spender(args, clock)
    [] name = "operator"         -> Operator(args, clock)

-----------------------------------------------------------------------------
(* What the contract reads *)

VariantOf(read) == read.fields[1][1]
Field(read, key) == S!Get(read.fields[1][2], key).text
ExpiresOf(read) ==
  LET expires == S!Get(read.fields[1][2], "expires")
  IN  IF S!Keys(expires) = {"never"} THEN Never
      ELSE CHOOSE n \in 0 .. MaxNumeral : ToString(n) = S!Get(expires, "at_time").text

AsCall(read) ==
  LET op == VariantOf(read)
  IN  CASE S!IsRefused(read) -> Refused
        [] ~S!IsRefused(read) ->
             CASE op = "transfer_nft" -> [op |-> op, recipient |-> Field(read, "recipient"),
                                          tokenId |-> Field(read, "token_id")]
               [] op = "send_nft" -> [op |-> op, contract |-> Field(read, "contract"),
                    tokenId |-> Field(read, "token_id"), inner |-> Field(read, "msg")]
               [] op = "approve" -> [op |-> op, spender |-> Field(read, "spender"),
                    tokenId |-> Field(read, "token_id"), expires |-> ExpiresOf(read)]
               [] op = "revoke" -> [op |-> op, spender |-> Field(read, "spender"),
                                    tokenId |-> Field(read, "token_id")]
               [] op = "approve_all" -> [op |-> op, operator |-> Field(read, "operator"),
                                         expires |-> ExpiresOf(read)]
               [] op = "revoke_all" -> [op |-> op, operator |-> Field(read, "operator")]
               [] op = "burn" -> [op |-> op, tokenId |-> Field(read, "token_id")]

\* The receiver is another contract, whose one message has the field msg.
Arriving(line, clock) ==
  LET sent == Composed(line[1], line[2], clock)
  IN  CASE sent.kind # "query" -> Nothing
        [] sent.kind = "query" /\ sent.contract = "receiver" ->
             [op |-> "receive_nft", inner |-> S!Get(sent.msg.fields[1][2], "msg").text]
        [] OTHER ->
             CHOOSE call \in {AsCall(read) : read \in Received(sent, S!RCw721ExecuteMsg)} : TRUE
=============================================================================
