------------------------------ MODULE Messages ------------------------------
(***************************************************************************)
(* Messages on the wire: the types that test-tool/src/messages generates   *)
(* from the JSON schemas of the contracts, and the Rust types of           *)
(* packages/dega-inj that read what a tool sends.                          *)
(*                                                                         *)
(* A value is what JavaScript or JSON holds: a leaf with its text, a list, *)
(* or an object, whose fields have an order (an order is signed with a     *)
(* mint request).  Transform is the run-time check of the generated files, *)
(* Read is serde with the attributes of cw_serde.                          *)
(***************************************************************************)
EXTENDS Naturals, Sequences, FiniteSets, TLC, SequencesExt

-----------------------------------------------------------------------------
(* Values *)

Leaf(kind, text) == [kind |-> kind, text |-> text]
Text(s)          == Leaf("string", s)
Number(n)        == Leaf("number", n)
Flag(b)          == Leaf("boolean", b)
Nil              == Leaf("null", "")
Undefined        == Leaf("undefined", "")
Object(fields)   == [kind |-> "object", fields |-> fields]
List(items)      == [kind |-> "array", items |-> items]
Invalid          == [kind |-> "invalid"]
Refused(reason)  == [kind |-> "refused", reason |-> reason]

\* The value of a field, a sequence of <<key, value>> with distinct keys.
Keys(object) == {object.fields[i][1] : i \in DOMAIN object.fields}
Get(object, key) ==
  IF key \notin Keys(object) THEN Undefined
  ELSE (CHOOSE f \in ToSet(object.fields) : f[1] = key)[2]

\* A message {variant: body}.
Variant(name, fields) == Object(<<<<name, Object(fields)>>>>)

\* toBase64 and JSON.stringify: a field that is undefined is left out, NaN is null.
RECURSIVE Stringify(_)
Stringify(v) ==
  CASE v.kind = "object" ->
         LET kept == SelectSeq(v.fields, LAMBDA f : f[2] # Undefined)
         IN  Object([i \in DOMAIN kept |-> <<kept[i][1], Stringify(kept[i][2])>>])
    [] v.kind = "array" -> List([i \in DOMAIN v.items |-> Stringify(v.items[i])])
    [] OTHER -> IF v = Number("NaN") THEN Nil ELSE v

-----------------------------------------------------------------------------
(* The generated types *)

O(props)    == [is |-> "object", props |-> props, open |-> FALSE]
M           == [is |-> "object", props |-> <<>>, open |-> TRUE]
U(t1, t2)   == [is |-> "union", members |-> <<t1, t2>>]
A(item)     == [is |-> "array", item |-> item]
E(cases)    == [is |-> "enum", cases |-> cases]
Prim(kind)  == [is |-> "prim", name |-> kind]
String      == Prim("string")
Num         == Prim("number")
Bool        == Prim("boolean")
Optional(t) == U(Prim("undefined"), t)
Maybe(t)    == Optional(U(t, Prim("null")))
P(key, t)   == <<key, t>>

RECURSIVE Transform(_, _)

\* Every property of the type, in its order, then the others, if there may be any.
TransformObject(val, typ) ==
  LET known  == {p[1] : p \in ToSet(typ.props)}
      others == SelectSeq(val.fields, LAMBDA f : f[1] \notin known)
      fields == [i \in DOMAIN typ.props |->
                  <<typ.props[i][1], Transform(Get(val, typ.props[i][1]), typ.props[i][2])>>]
  IN  IF \/ \E i \in DOMAIN fields : fields[i][2] = Invalid
         \/ others # <<>> /\ ~typ.open
      THEN Invalid
      ELSE Object(fields \o others)

\* What cast and uncast return, Invalid where they throw.  The names of a property in
\* JSON and in JavaScript are the same in all generated files: the two agree.
Transform(val, typ) ==
  CASE typ.is = "prim"  -> IF val.kind = typ.name THEN val ELSE Invalid
    [] typ.is = "enum"  -> IF val.kind = "string" /\ val.text \in typ.cases THEN val ELSE Invalid
    [] typ.is = "union" ->
         LET fits == SelectSeq(typ.members, LAMBDA t : Transform(val, t) # Invalid)
         IN  IF fits = <<>> THEN Invalid ELSE Transform(val, fits[1])
    [] typ.is = "array" ->
         IF /\ val.kind = "array"
            /\ \A i \in DOMAIN val.items : Transform(val.items[i], typ.item) # Invalid
         THEN List([i \in DOMAIN val.items |-> Transform(val.items[i], typ.item)])
         ELSE Invalid
    [] typ.is = "object" -> IF val.kind = "object" THEN TransformObject(val, typ) ELSE Invalid

Admits(typ, json) == Transform(json, typ) # Invalid

\* dega_cw721_execute.ts
Expiration == O(<<P("at_height", Optional(Num)), P("at_time", Optional(String)),
                  P("never", Optional(O(<<>>)))>>)
Approve == O(<<P("expires", Maybe(Expiration)), P("spender", String), P("token_id", String)>>)
ApproveAll == O(<<P("expires", Maybe(Expiration)), P("operator", String)>>)
MintToken == O(<<P("extension", Maybe(M)), P("owner", String), P("token_id", String),
                 P("token_uri", Maybe(String))>>)
Revoke == O(<<P("spender", String), P("token_id", String)>>)
SendNft == O(<<P("contract", String), P("msg", String), P("token_id", String)>>)
TransferNft == O(<<P("recipient", String), P("token_id", String)>>)
RoyaltySettings == O(<<P("payment_address", String), P("share", String)>>)
UpdateCollectionInfoMsg ==
  O(<<P("description", Maybe(String)), P("external_link", Maybe(String)),
      P("image", Maybe(String)), P("royalty_settings", Maybe(RoyaltySettings))>>)
Cw721ExecuteMsg ==
  O(<<P("transfer_nft", Optional(TransferNft)), P("send_nft", Optional(SendNft)),
      P("approve", Optional(Approve)), P("revoke", Optional(Revoke)),
      P("approve_all", Optional(ApproveAll)),
      P("revoke_all", Optional(O(<<P("operator", String)>>))),
      P("mint", Optional(MintToken)), P("burn", Optional(O(<<P("token_id", String)>>))),
      P("update_collection_info",
        Optional(O(<<P("collection_info", UpdateCollectionInfoMsg)>>)))>>)

\* dega_cw721_query.ts
IncludeExpired == P("include_expired", Maybe(Bool))
WhichToken == P("token_id", String)
Page           == <<P("limit", Maybe(Num)), P("start_after", Maybe(String))>>
Cw2981QueryMsg ==
  O(<<P("royalty_info", Optional(O(<<P("sale_price", String), WhichToken>>))),
      P("check_royalties", Optional(O(<<>>)))>>)
Cw721QueryMsg ==
  O(<<P("owner_of", Optional(O(<<IncludeExpired, WhichToken>>))),
      P("approval", Optional(O(<<IncludeExpired, P("spender", String), WhichToken>>))),
      P("approvals", Optional(O(<<IncludeExpired, WhichToken>>))),
      P("all_operators", Optional(O(<<IncludeExpired, P("owner", String)>> \o Page))),
      P("num_tokens", Optional(O(<<>>))), P("contract_info", Optional(O(<<>>))),
      P("nft_info", Optional(O(<<WhichToken>>))),
      P("all_nft_info", Optional(O(<<IncludeExpired, WhichToken>>))),
      P("tokens", Optional(O(<<P("owner", String)>> \o Page))),
      P("all_tokens", Optional(O(Page))), P("minter", Optional(O(<<>>))),
      P("collection_info", Optional(O(<<>>))),
      P("extension", Optional(O(<<P("msg", Cw2981QueryMsg)>>))),
      P("ownership", Optional(O(<<>>)))>>)

\* dega_cw721_query_responses.ts
Grant == O(<<P("expires", Expiration), P("spender", String)>>)
OwnerOfResponse == O(<<P("approvals", A(Grant)), P("owner", String)>>)
NftInfoResponse == O(<<P("extension", Maybe(M)), P("token_uri", Maybe(String))>>)
CollectionInfoResponse ==
  O(<<P("description", String), P("external_link", Maybe(String)), P("image", String),
      P("royalty_settings", Maybe(RoyaltySettings))>>)
Cw721Response ==
  [owner_of        |-> OwnerOfResponse,
   approval        |-> O(<<P("approval", Grant)>>),
   approvals       |-> O(<<P("approvals", A(Grant))>>),
   all_operators   |-> O(<<P("operators", A(Grant))>>),
   num_tokens      |-> O(<<P("count", Num)>>),
   contract_info   |-> O(<<P("name", String), P("symbol", String)>>),
   nft_info        |-> NftInfoResponse,
   all_nft_info    |-> O(<<P("access", OwnerOfResponse), P("info", NftInfoResponse)>>),
   tokens          |-> O(<<P("tokens", A(String))>>),
   all_tokens      |-> O(<<P("tokens", A(String))>>),
   collection_info |-> CollectionInfoResponse,
   royalty_info    |-> O(<<P("address", String), P("royalty_amount", String)>>),
   check_royalties |-> O(<<P("royalty_payments", Bool)>>)]

\* dega_minter_execute.ts, dega_minter_query.ts and dega_minter_query_responses.ts
MintRequest ==
  O(<<P("collection", String), P("currency", String), P("price", String),
      P("primary_sale_recipient", String), P("to", String), P("uri", String),
      P("uuid", String), P("validity_end_timestamp", String),
      P("validity_start_timestamp", String)>>)
UpdateSettingsMsg ==
  O(<<P("minting_paused", Maybe(Bool)), P("signer_pub_key", Maybe(String))>>)
MinterExecuteMsg ==
  O(<<P("mint", Optional(O(<<P("request", MintRequest), P("signature", String)>>))),
      P("update_settings", Optional(O(<<P("settings", UpdateSettingsMsg)>>))),
      P("update_admin", Optional(O(<<P("address", String),
                                     P("command", E({"add", "remove"}))>>)))>>)
VerifiableMsg ==
  O(<<P("string", Optional(String)), P("mint_request", Optional(MintRequest))>>)
CheckSig ==
  O(<<P("message", VerifiableMsg), P("signature", String),
      P("signer_source", U(O(<<P("pub_key_binary", String)>>),
                           E({"config_signer_pub_key"})))>>)
MinterQueryMsg ==
  O(<<P("config", Optional(O(<<>>))), P("check_sig", Optional(CheckSig)),
      P("admins", Optional(O(<<>>))),
      P("is_admin", Optional(O(<<P("address", String)>>)))>>)
MinterSettings == O(<<P("minting_paused", Bool), P("signer_pub_key", String)>>)
MinterResponse ==
  [admins    |-> O(<<P("admins", A(String))>>),
   check_sig |-> O(<<P("error", Maybe(String)), P("is_valid", Bool),
                     P("message_hash_hex", String)>>),
   config    |-> O(<<P("collection_address", String),
                     P("dega_minter_settings", MinterSettings)>>)]

\* dega_minter_instantiate.ts, dega_cw721_instantiate.ts and the two migrate files
CollectionParams ==
  O(<<P("code_id", Num), P("info", CollectionInfoResponse), P("name", String),
      P("symbol", String)>>)
MinterParams ==
  O(<<P("dega_minter_settings", MinterSettings), P("initial_admin", String)>>)
MinterInstantiateMsg ==
  O(<<P("collection_params", CollectionParams), P("cw721_contract_admin", Maybe(String)),
      P("cw721_contract_label", String), P("minter_params", MinterParams)>>)
Cw721InstantiateMsg ==
  O(<<P("collection_info", CollectionInfoResponse), P("name", String), P("symbol", String)>>)
MigrateMsg == O(<<P("dev_version", String), P("is_dev", Bool)>>)
=============================================================================
