---------------------------- MODULE MCTokenTool -----------------------------
(* A small instance of TokenTool for TLC. *)
EXTENDS TokenCommands

MCByteOrder == <<"", "1", "ann", "ben", "cid", "minter", "receiver">>

MCLength == ("minute" :> 1) @@ ("hours" :> 2)

\* The commands, and command lines that are refused at every step.
MCLine ==
  {<<"transfer", <<"1", "ben">>>>, <<"transfer", <<"1">>>>,
   <<"send-nft", <<"1", "ben", "x">>>>, <<"send-nft", <<"1", "receiver">>>>,
   <<"send-to-receiver", <<"1", "true">>>>, <<"send-to-receiver", <<"1", "false">>>>,
   <<"send-to-receiver", <<"1", "yes">>>>, <<"call-receive-nft", <<"1", "false">>>>,
   <<"call-receive-nft", <<"1", "true">>>>, <<"send-talis-sale", <<"1", "2">>>>,
   <<"burn", <<"1">>>>,
   <<"spender", <<"add", "ben", "1">>>>, <<"spender", <<"add", "cid", "1", "1", "minute">>>>,
   <<"spender", <<"remove", "ben", "1">>>>, <<"spender", <<"remove", "ben", "1", "1", "minute">>>>,
   <<"spender", <<"add", "ben", "1", "x", "minute">>>>,
   <<"operator", <<"add", "ben">>>>, <<"operator", <<"add", "ben", "1", "hours">>>>,
   <<"operator", <<"add", "cid", "1", "minute">>>>, <<"operator", <<"add", "cid", "-1", "hours">>>>,
   <<"operator", <<"add", "?">>>>, <<"operator", <<"remove", "ben">>>>,
   <<"operator", <<"add", "ben", "1", "year">>>>}

\* What arrives, by way of the messages.
MCCall == [x \in Line \X Clock |-> Arriving(x[1], x[2])]

MCSkew == {-1, 0, 1}
=============================================================================
