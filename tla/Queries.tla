------------------------------ MODULE Queries -------------------------------
(***************************************************************************)
(* The queries of the test tool: test-tool/src/query.ts, from the          *)
(* arguments on the command line to the JSON text that is sent, and        *)
(* dega-cw721/src/query.rs, from that text to the answer.                  *)
(*                                                                         *)
(* This module has no state of its own.  The answers are about the state   *)
(* of the module Collection; QuerySession and TokenTool ask the questions. *)
(***************************************************************************)
EXTENDS Collection, ToolContext, SequencesExt, TLC

S == INSTANCE Serde

ASSUME QueriesAssumption ==
  /\ Primary \in Account
  /\ TokenId \cup Account \subseteq ToSet(ByteOrder)

-----------------------------------------------------------------------------
(* Arguments *)

UsageError == [kind |-> "usage"]
Query(contract, msg) == [kind |-> "query", contract |-> contract, msg |-> msg]

\* An argument that was left out is undefined.
Arg(args, i)     == IF Given(args, i) THEN S!Text(args[i]) ELSE S!Undefined
Integer(args, i) ==
  IF ~Given(args, i) THEN S!Undefined
  ELSE S!Number(IF args[i] \in S!Plain THEN args[i] ELSE "NaN")

\* Mutant of Switch: "false" is a string that is not empty, and so it is true.
SwitchTruthy(args, i) == IF Given(args, i) THEN S!Flag("true") ELSE S!Undefined

Switch(args, i) == IF Given(args, i) THEN S!Flag(args[i]) ELSE S!Undefined

BadSwitch(args, i) == Given(args, i) /\ args[i] \notin {"true", "false"}

-----------------------------------------------------------------------------
(* Commands *)

QueryTokens(args) ==
  IF Len(args) \notin 1 .. 3 THEN UsageError
  ELSE Query("cw721", S!Variant("tokens",
         <<<<"owner", Arg(args, 1)>>, <<"start_after", Arg(args, 2)>>,
           <<"limit", Integer(args, 3)>>>>))

QueryAllTokens(args) ==
  IF Len(args) > 2 THEN UsageError
  ELSE Query("cw721", S!Variant("all_tokens",
         <<<<"start_after", Arg(args, 1)>>, <<"limit", Integer(args, 2)>>>>))

QueryOwnerOf(args) ==
  IF Len(args) \notin 1 .. 2 \/ BadSwitch(args, 2) THEN UsageError
  ELSE Query("cw721", S!Variant("owner_of",
         <<<<"token_id", Arg(args, 1)>>, <<"include_expired", Switch(args, 2)>>>>))

QueryApproval(args) ==
  IF Len(args) \notin 2 .. 3 \/ BadSwitch(args, 3) THEN UsageError
  ELSE Query("cw721", S!Variant("approval",
         <<<<"spender", Arg(args, 1)>>, <<"token_id", Arg(args, 2)>>,
           <<"include_expired", Switch(args, 3)>>>>))

QueryAllApprovals(args) ==
  IF Len(args) \notin 1 .. 2 \/ BadSwitch(args, 2) THEN UsageError
  ELSE Query("cw721", S!Variant("approvals",
         <<<<"token_id", Arg(args, 1)>>, <<"include_expired", Switch(args, 2)>>>>))

QueryAllOperators(args) ==
  IF Len(args) \notin 1 .. 4 \/ BadSwitch(args, 2) THEN UsageError
  ELSE Query("cw721", S!Variant("all_operators",
         <<<<"owner", Arg(args, 1)>>, <<"include_expired", Switch(args, 2)>>,
           <<"start_after", Arg(args, 3)>>, <<"limit", Integer(args, 4)>>>>))

QueryNftInfo(args) ==
  IF Len(args) # 1 THEN UsageError
  ELSE Query("cw721", S!Variant("nft_info", <<<<"token_id", Arg(args, 1)>>>>))

QueryAllNftInfo(args) ==
  IF Len(args) \notin 1 .. 2 \/ BadSwitch(args, 2) THEN UsageError
  ELSE Query("cw721", S!Variant("all_nft_info",
         <<<<"token_id", Arg(args, 1)>>, <<"include_expired", Switch(args, 2)>>>>))

\* These two refuse a second argument, and let one pass.
QueryNumTokens(args) ==
  IF Len(args) > 1 THEN UsageError ELSE Query("cw721", S!Variant("num_tokens", <<>>))
QueryCollectionContractInfo(args) ==
  IF Len(args) > 1 THEN UsageError ELSE Query("cw721", S!Variant("contract_info", <<>>))

QueryCollectionInfo(args) == Query("cw721", S!Variant("collection_info", <<>>))
QueryAdmins(args)         == Query("minter", S!Variant("admins", <<>>))

\* Not run by any command: minter-settings is given QueryCollectionInfo.
QueryMinterSettings(args) == Query("minter", S!Variant("config", <<>>))

\* royalty-info sends two queries, one after the other.
Extension(msg)  == Query("cw721", S!Variant("extension", <<<<"msg", msg>>>>))
QueryRoyalties  == Extension(S!Variant("check_royalties", <<>>))
QueryRoyaltyOf  == Extension(S!Variant("royalty_info",
  <<<<"token_id", S!Text("1")>>, <<"sale_price", S!Text(ToString(One))>>>>))

\* account-details asks the node, not a contract, and counts its arguments wrongly.
QueryAccountDetails(args) ==
  IF Len(args) < 2 THEN UsageError ELSE Query("node", S!Text(args[1]))

\* Mutant of TestRequest: the fields in the order of the generated type.
RequestByName(currency) ==
  S!Object(<<<<"collection", S!Text("coll")>>, <<"currency", S!Text(currency)>>,
             <<"price", S!Text("0")>>, <<"primary_sale_recipient", S!Text(Primary)>>,
             <<"to", S!Text(Primary)>>, <<"uri", S!Text("uri")>>,
             <<"uuid", S!Text("uuid")>>, <<"validity_end_timestamp", S!Text("0")>>,
             <<"validity_start_timestamp", S!Text("0")>>>>)

\* The request that sig-info and check-sig sign and send.
TestRequest(currency) ==
  S!Object(<<<<"to", S!Text(Primary)>>, <<"primary_sale_recipient", S!Text(Primary)>>,
             <<"uri", S!Text("uri")>>, <<"price", S!Text("0")>>,
             <<"currency", S!Text(currency)>>,
             <<"validity_start_timestamp", S!Text("0")>>,
             <<"validity_end_timestamp", S!Text("0")>>,
             <<"uuid", S!Text("uuid")>>, <<"collection", S!Text("coll")>>>>)

CheckSigQuery(request, source) ==
  Query("minter", S!Variant("check_sig",
    <<<<"message", S!Variant("mint_request", request.fields)>>,
      <<"signature", S!Text("signature")>>, <<"signer_source", source>>>>))

QuerySigInfo(args) ==
  CheckSigQuery(TestRequest("inj"), S!Text("config_signer_pub_key"))
QueryCheckSig(args) ==
  CheckSigQuery(TestRequest(Primary), S!Object(<<<<"pub_key_binary", S!Text(ToolKey)>>>>))

\* What the signature of these two commands was made of: a key and a text.
SignatureOf(name) ==
  [key |-> ToolKey,
   text |-> S!Stringify(TestRequest(IF name = "sig-info" THEN "inj" ELSE Primary))]

\* The sub-commands, as they are registered.
Run(name, args) ==
  CASE name = "sig-info"        -> QuerySigInfo(args)
    [] name = "check-sig"       -> QueryCheckSig(args)
    [] name = "account-details" -> QueryAccountDetails(args)
    [] name = "collection-info" -> QueryCollectionInfo(args)
    [] name = "minter-settings" -> QueryCollectionInfo(args)
    [] name = "admins"          -> QueryAdmins(args)
    [] name = "tokens"          -> QueryTokens(args)
    [] name = "all-tokens"      -> QueryAllTokens(args)
    [] name = "owner-of"        -> QueryOwnerOf(args)
    [] name = "approval"        -> QueryApproval(args)
    [] name = "all-approvals"   -> QueryAllApprovals(args)
    [] name = "all-operators"   -> QueryAllOperators(args)
    [] name = "num-tokens"      -> QueryNumTokens(args)
    [] name = "nft-info"        -> QueryNftInfo(args)
    [] name = "all-nft-info"    -> QueryAllNftInfo(args)
    [] name = "collection-contract-info" -> QueryCollectionContractInfo(args)

-----------------------------------------------------------------------------
(* The collection's answers *)

Error == [kind |-> "error"]
Answer(of, data) == [kind |-> "answer", of |-> of, data |-> data]

ExpirationData(expires) ==
  IF expires = Never THEN S!Variant("never", <<>>)
  ELSE S!Object(<<<<"at_time", S!Text(ToString(expires))>>>>)
GrantData(spender, expires) ==
  S!Object(<<<<"spender", S!Text(spender)>>, <<"expires", ExpirationData(expires)>>>>)
OptionData(value) == IF value = None THEN S!Nil ELSE S!Text(value)

InOrder(set) == SelectSeq(ByteOrder, LAMBDA s : s \in set)

\* A page: the keys after start_after, in the order of their bytes.
After(keys, startAfter) ==
  {k \in keys : startAfter = S!Nil \/ Position(k) > Position(startAfter.text)}

\* Mutant of Page: the page starts with the key it should start after.
PageFrom(keys, startAfter, limit) ==
  LET n == IF limit = S!Nil THEN DefaultLimit
           ELSE CHOOSE i \in 0 .. MaxNumeral : ToString(i) = limit.text
      later == InOrder(After(keys, startAfter) \cup
                 {k \in keys : startAfter # S!Nil /\ k = startAfter.text})
      size == IF n > MaxLimit THEN MaxLimit ELSE n
  IN  SubSeq(later, 1, IF Len(later) < size THEN Len(later) ELSE size)

Page(keys, startAfter, limit) ==
  LET n == IF limit = S!Nil THEN DefaultLimit
           ELSE CHOOSE i \in 0 .. MaxNumeral : ToString(i) = limit.text
      later == InOrder(After(keys, startAfter))
      size == IF n > MaxLimit THEN MaxLimit ELSE n
  IN  SubSeq(later, 1, IF Len(later) < size THEN Len(later) ELSE size)

Texts(seq) == S!List([i \in DOMAIN seq |-> S!Text(seq[i])])

Shown(expires, include) == include = S!Flag("true") \/ ~Expired(expires)

\* The spenders of a token, or the operators of a holder, with what they were granted.
GrantList(names, expiresOf) ==
  S!List([i \in DOMAIN names |-> GrantData(names[i], expiresOf[names[i]])])

Spenders(t, include) ==
  LET shown == {a \in tokens[t].approvals : Shown(a.expires, include)}
  IN  GrantList(InOrder({a.spender : a \in shown}),
        [s \in {a.spender : a \in shown} |-> (CHOOSE a \in shown : a.spender = s).expires])

Access(t, include) ==
  S!Object(<<<<"owner", S!Text(tokens[t].owner)>>, <<"approvals", Spenders(t, include)>>>>)
NftInfo == S!Object(<<<<"token_uri", S!Text("uri")>>, <<"extension", S!Nil>>>>)

AnswerApproval(t, spender, include) ==
  LET shown == {a \in tokens[t].approvals : a.spender = spender /\ Shown(a.expires, include)}
  IN  CASE spender = tokens[t].owner ->
             Answer("approval", S!Object(<<<<"approval", GrantData(spender, Never)>>>>))
        [] spender # tokens[t].owner /\ shown # {} ->
             Answer("approval", S!Object(<<<<"approval",
               GrantData(spender, (CHOOSE a \in shown : TRUE).expires)>>>>))
        [] OTHER -> Error

\* Only the tokens of the holder are listed under the holder.
AnswerTokens(keys, body) ==
  S!Object(<<<<"tokens", Texts(Page(keys, S!Get(body, "start_after"),
                                    S!Get(body, "limit")))>>>>)

AnswerOperators(holder, body) ==
  LET shown == {o \in operators : o.owner = holder
                                  /\ Shown(o.expires, S!Get(body, "include_expired"))}
      page == Page({o.operator : o \in shown}, S!Get(body, "start_after"), S!Get(body, "limit"))
  IN  S!Object(<<<<"operators",
        GrantList(page, [p \in ToSet(page) |->
                           (CHOOSE o \in shown : o.operator = p).expires])>>>>)

\* query_collection_info
AnswerCollectionInfo ==
  S!Object(<<<<"description", S!Text("description")>>, <<"image", S!Text(info.image)>>,
    <<"external_link", OptionData(info.externalLink)>>,
    <<"royalty_settings",
      IF info.royalty = None THEN S!Nil
      ELSE S!Object(<<<<"payment_address", S!Text(info.royalty.address)>>,
                      <<"share", S!Text(ToString(info.royalty.share))>>>>)>>>>)

AnswerExtension(msg) ==
  IF S!Keys(msg) = {"check_royalties"}
  THEN Answer("check_royalties", S!Object(
         <<<<"royalty_payments", S!Flag(IF CheckRoyalties THEN "true" ELSE "false")>>>>))
  ELSE Answer("royalty_info", S!Object(
         <<<<"address", S!Text(IF info.royalty = None THEN "" ELSE info.royalty.address)>>,
           <<"royalty_amount", S!Text(ToString(RoyaltyAmount(One)))>>>>))

\* Queries about one token, which must exist.
AnswerToken(variant, t, body) ==
  LET include == S!Get(body, "include_expired")
  IN  CASE variant = "owner_of"  -> Answer(variant, Access(t, include))
        [] variant = "approval"  -> AnswerApproval(t, S!Get(body, "spender").text, include)
        [] variant = "approvals" ->
             Answer(variant, S!Object(<<<<"approvals", Spenders(t, include)>>>>))
        [] variant = "nft_info"  -> Answer(variant, NftInfo)
        [] variant = "all_nft_info" -> Answer(variant, S!Object(
             <<<<"access", Access(t, include)>>, <<"info", NftInfo>>>>))

AnswerBase(variant, body) ==
  LET id     == S!Get(body, "token_id").text
      holder == S!Get(body, "owner").text
      held   == {t \in Minted : tokens[t].owner = holder}
  IN  CASE variant = "num_tokens" -> Answer(variant, S!Object(
             <<<<"count", S!Number(ToString(tokenCount))>>>>))
        [] variant = "contract_info" -> Answer(variant, S!Object(
             <<<<"name", S!Text("name")>>, <<"symbol", S!Text("symbol")>>>>))
        [] variant = "all_tokens" -> Answer(variant, AnswerTokens(Minted, body))
        [] variant = "tokens" ->
             IF holder \in Account THEN Answer(variant, AnswerTokens(held, body)) ELSE Error
        [] variant = "all_operators" ->
             IF holder \in Account THEN Answer(variant, AnswerOperators(holder, body)) ELSE Error
        [] OTHER -> IF id \in Minted THEN AnswerToken(variant, id, body) ELSE Error

\* What the base contract is asked, field by field.
\* Mutant of BaseQuery: the page always starts with the first token.
BaseQueryFromStart(variant, body) ==
  S!Object(SelectSeq(body.fields, LAMBDA f : f[1] # "start_after")
           \o <<<<"start_after", S!Nil>>>>)

BaseQuery(variant, body) == body

\* What arrives at a contract of what the tool sends, as the one element of a set.
Received(query, type) == {S!Read(json, type) : json \in {S!Stringify(query.msg)}}

\* A collection that does not exist answers nothing.
AnswerCw721(read) ==
  LET variant == read.fields[1][1]
      body == read.fields[1][2]
  IN  CASE owner = None \/ S!IsRefused(read) -> Error
        [] owner # None /\ ~S!IsRefused(read) ->
             CASE variant = "collection_info" -> Answer(variant, AnswerCollectionInfo)
               [] variant = "extension" -> AnswerExtension(S!Get(body, "msg"))
               [] OTHER -> AnswerBase(variant, BaseQuery(variant, body))

-----------------------------------------------------------------------------
(* The minter's answers, with its signer key and the signature sent *)

CheckSigValid(body, minterKey, signature) ==
  LET source == S!Get(body, "signer_source")
      key == IF source = S!Text("config_signer_pub_key") THEN minterKey
             ELSE S!Get(source, "pub_key_binary").text
  IN  signature = [key |-> key, text |-> S!Get(S!Get(body, "message"), "mint_request")]

AnswerMinter(read, minterKey, signature) ==
  LET variant == read.fields[1][1]
      body == read.fields[1][2]
  IN  CASE owner = None \/ S!IsRefused(read) -> Error
        [] owner # None /\ ~S!IsRefused(read) ->
             CASE variant = "admins" ->
                    Answer(variant, S!Object(<<<<"admins", Texts(<<Primary>>)>>>>))
               [] variant = "config" -> Answer(variant, S!Object(
                    <<<<"dega_minter_settings",
                        S!Object(<<<<"signer_pub_key", S!Text(minterKey)>>,
                                   <<"minting_paused", S!Flag("false")>>>>)>>,
                      <<"collection_address", S!Text("coll")>>>>))
               [] variant = "check_sig" -> Answer(variant, S!Object(
                    <<<<"is_valid", S!Flag(IF CheckSigValid(body, minterKey, signature)
                                           THEN "true" ELSE "false")>>,
                      <<"message_hash_hex", S!Text("hash")>>, <<"error", S!Nil>>>>))

-----------------------------------------------------------------------------
(* Who may move a token, as the tool tells it *)

SpendersIn(grants) == {S!Get(grants.items[i], "spender").text : i \in DOMAIN grants.items}

Told(name, args) ==
  CHOOSE answer \in {AnswerCw721(read) : read \in Received(Run(name, args), S!RCw721QueryMsg)} :
    TRUE

\* The owner and the approved spenders that owner-of prints, and the operators that
\* all-operators prints for that owner, page after page.
RECURSIVE OperatorPages(_, _)
OperatorPages(holder, after) ==
  LET page == SpendersIn(S!Get(Told("all-operators", <<holder, "false">> \o after).data,
                               "operators"))
  IN  IF page = {} THEN {}
      ELSE page \cup OperatorPages(holder, <<Last(InOrder(page))>>)

ToldMovers(t) ==
  LET told == Told("owner-of", <<t>>)
      holder == S!Get(told.data, "owner").text
  IN  IF told.kind = "error" THEN {}
      ELSE {holder} \cup SpendersIn(S!Get(told.data, "approvals")) \cup OperatorPages(holder, <<>>)

\* Whoever the tool's queries name can move the token, and nobody else can: whatever
\* was granted, revoked, replaced or has expired, on however many pages it is printed.
WhoMayMove ==
  \A t \in TokenId : ToldMovers(t) = {a \in Account : CanSend(a, t)}
=============================================================================
