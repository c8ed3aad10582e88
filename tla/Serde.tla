------------------------------- MODULE Serde --------------------------------
(***************************************************************************)
(* How the contracts read messages: serde with the attributes of cw_serde  *)
(* on the types of packages/dega-inj.  Unknown fields are refused, an      *)
(* Option may be left out or null, an enum is an object with one variant   *)
(* or the name of a variant without fields.                                *)
(*                                                                         *)
(* Read returns what the contract would write again of what it has read:   *)
(* the fields in the order of the struct, numbers in their shortest form.  *)
(***************************************************************************)
EXTENDS Messages

CONSTANT MaxNumeral   \* bound of the numerals explored

Plain == {ToString(n) : n \in 0 .. MaxNumeral}

\* FromStr of the unsigned integers: leading zeros are read, and not written again.
Canonical(text) ==
  IF \E p \in Plain : text \in {p, "0" \o p}
  THEN Text(CHOOSE p \in Plain : text \in {p, "0" \o p})
  ELSE Refused("digits")

Basic(name)    == [rust |-> name]
RString        == Basic("String")
RBool          == Basic("bool")
RWhole         == Basic("u64")      \* a JSON number: u32, u64
RDigits        == Basic("Uint128")  \* a JSON string of digits: Uint64 to Uint256, Decimal
RExtension     == Basic("Empty")    \* an object of any fields
ROption(t)     == [rust |-> "Option", of |-> t]
RStruct(f)     == [rust |-> "struct", fields |-> f]
REnum(v)       == [rust |-> "enum", variants |-> v]
RUnit          == Basic("unit")

IsRefused(v) == v.kind = "refused"

RECURSIVE Read(_, _)

Typed(json, kind) == IF json.kind = kind THEN json ELSE Refused("shape")

ReadNumber(json) ==
  CASE json.kind # "number"   -> Refused("shape")
    [] json.text \in Plain    -> json
    [] OTHER                  -> Refused("digits")

\* Of several reasons to refuse, the shape is named first.
ReadStruct(json, fields) ==
  LET got == [i \in DOMAIN fields |-> <<fields[i][1], Read(Get(json, fields[i][1]), fields[i][2])>>]
      reasons == {got[i][2].reason : i \in {j \in DOMAIN got : IsRefused(got[j][2])}}
  IN  CASE \/ "shape" \in reasons
           \/ Keys(json) \ {f[1] : f \in ToSet(fields)} # {} -> Refused("shape")
        [] reasons # {} -> Refused(CHOOSE r \in reasons : TRUE)
        [] OTHER -> Object(got)

ReadEnum(json, variants) ==
  LET named(name) == {v[2] : v \in {w \in ToSet(variants) : w[1] = name}}
  IN  CASE json.kind = "string" ->
             IF RUnit \in named(json.text) THEN json ELSE Refused("shape")
        [] json.kind = "object" ->
             CASE \E k \in Keys(json) : named(k) \subseteq {RUnit} -> Refused("shape")
               [] Len(json.fields) # 1 -> Refused("choice")
               [] OTHER ->
                    LET key  == json.fields[1][1]
                        body == Read(json.fields[1][2], CHOOSE t \in named(key) : TRUE)
                    IN  IF IsRefused(body) THEN body ELSE Object(<<<<key, body>>>>)
        [] OTHER -> Refused("shape")

Read(json, t) ==
  CASE t = RString  -> Typed(json, "string")
    [] t = RBool    -> Typed(json, "boolean")
    [] t = RWhole   -> ReadNumber(json)
    [] t = RDigits  -> IF json.kind = "string" THEN Canonical(json.text) ELSE Refused("shape")
    [] t = RExtension -> IF json.kind = "object" THEN Object(<<>>) ELSE Refused("shape")
    [] t.rust = "Option" -> IF json \in {Nil, Undefined} THEN Nil ELSE Read(json, t.of)
    [] t.rust = "struct" ->
         IF json.kind = "object" THEN ReadStruct(json, t.fields) ELSE Refused("shape")
    [] t.rust = "enum" -> ReadEnum(json, t.variants)

-----------------------------------------------------------------------------
(* packages/dega-inj/src/cw721.rs *)

RExpiration == REnum(<<P("at_height", RWhole), P("at_time", RDigits), P("never", RStruct(<<>>))>>)
RRoyaltySettings == RStruct(<<P("payment_address", RString), P("share", RDigits)>>)
RCollectionInfo ==
  RStruct(<<P("description", RString), P("image", RString),
            P("external_link", ROption(RString)),
            P("royalty_settings", ROption(RRoyaltySettings))>>)
\* An Option of an Option reads as one Option: see Decode of the module Collection.
RUpdateCollectionInfo ==
  RStruct(<<P("description", ROption(RString)), P("image", ROption(RString)),
            P("external_link", ROption(RString)),
            P("royalty_settings", ROption(RRoyaltySettings))>>)

RCw721ExecuteMsg ==
  REnum(<<P("transfer_nft", RStruct(<<P("recipient", RString), P("token_id", RString)>>)),
          P("send_nft", RStruct(<<P("contract", RString), P("token_id", RString),
                                  P("msg", RString)>>)),
          P("approve", RStruct(<<P("spender", RString), P("token_id", RString),
                                 P("expires", ROption(RExpiration))>>)),
          P("revoke", RStruct(<<P("spender", RString), P("token_id", RString)>>)),
          P("approve_all", RStruct(<<P("operator", RString),
                                     P("expires", ROption(RExpiration))>>)),
          P("revoke_all", RStruct(<<P("operator", RString)>>)),
          P("mint", RStruct(<<P("token_id", RString), P("owner", RString),
                              P("token_uri", ROption(RString)),
                              P("extension", ROption(RExtension))>>)),
          P("burn", RStruct(<<P("token_id", RString)>>)),
          P("update_collection_info",
            RStruct(<<P("collection_info", RUpdateCollectionInfo)>>))>>)

RToken == P("token_id", RString)
RExpired == P("include_expired", ROption(RBool))
RPage == <<P("start_after", ROption(RString)), P("limit", ROption(RWhole))>>
RCw2981 == REnum(<<P("royalty_info", RStruct(<<RToken, P("sale_price", RDigits)>>)),
                   P("check_royalties", RStruct(<<>>))>>)
RCw721QueryMsg ==
  REnum(<<P("owner_of", RStruct(<<RToken, RExpired>>)),
          P("approval", RStruct(<<RToken, P("spender", RString), RExpired>>)),
          P("approvals", RStruct(<<RToken, RExpired>>)),
          P("all_operators", RStruct(<<P("owner", RString), RExpired>> \o RPage)),
          P("num_tokens", RStruct(<<>>)), P("contract_info", RStruct(<<>>)),
          P("nft_info", RStruct(<<RToken>>)),
          P("all_nft_info", RStruct(<<RToken, RExpired>>)),
          P("tokens", RStruct(<<P("owner", RString)>> \o RPage)),
          P("all_tokens", RStruct(RPage)), P("minter", RStruct(<<>>)),
          P("collection_info", RStruct(<<>>)),
          P("extension", RStruct(<<P("msg", RCw2981)>>)), P("ownership", RStruct(<<>>))>>)

RCollectionParams ==
  RStruct(<<P("code_id", RWhole), P("name", RString), P("symbol", RString),
            P("info", RCollectionInfo)>>)
RCw721InstantiateMsg ==
  RStruct(<<P("name", RString), P("symbol", RString), P("collection_info", RCollectionInfo)>>)
RMigrateMsg == RStruct(<<P("is_dev", RBool), P("dev_version", RString)>>)

-----------------------------------------------------------------------------
(* packages/dega-inj/src/minter.rs *)

RMintRequest ==
  RStruct(<<P("to", RString), P("primary_sale_recipient", RString), P("uri", RString),
            P("price", RDigits), P("currency", RString),
            P("validity_start_timestamp", RDigits), P("validity_end_timestamp", RDigits),
            P("uuid", RString), P("collection", RString)>>)
RSettings == RStruct(<<P("signer_pub_key", RString), P("minting_paused", RBool)>>)
RUpdateSettings ==
  RStruct(<<P("signer_pub_key", ROption(RString)), P("minting_paused", ROption(RBool))>>)
\* Mutant of RMinterExecuteMsg: settings are read whole, as the generated types were
\* not told.
RMinterExecuteWhole ==
  REnum(<<P("mint", RStruct(<<P("request", RMintRequest), P("signature", RString)>>)),
          P("update_settings", RStruct(<<P("settings", RSettings)>>)),
          P("update_admin",
            RStruct(<<P("address", RString),
                      P("command", REnum(<<P("add", RUnit), P("remove", RUnit)>>))>>))>>)
RMinterExecuteMsg ==
  REnum(<<P("mint", RStruct(<<P("request", RMintRequest), P("signature", RString)>>)),
          P("update_settings", RStruct(<<P("settings", RUpdateSettings)>>)),
          P("update_admin",
            RStruct(<<P("address", RString),
                      P("command", REnum(<<P("add", RUnit), P("remove", RUnit)>>))>>))>>)
RMinterQueryMsg ==
  REnum(<<P("config", RStruct(<<>>)),
          P("check_sig",
            RStruct(<<P("message", REnum(<<P("string", RString),
                                           P("mint_request", RMintRequest)>>)),
                      P("signature", RString),
                      P("signer_source", REnum(<<P("config_signer_pub_key", RUnit),
                                                 P("pub_key_binary", RString)>>))>>)),
          P("admins", RStruct(<<>>)), P("is_admin", RStruct(<<P("address", RString)>>))>>)
RMinterInstantiateMsg ==
  RStruct(<<P("minter_params", RStruct(<<P("dega_minter_settings", RSettings),
                                         P("initial_admin", RString)>>)),
            P("collection_params", RCollectionParams),
            P("cw721_contract_label", RString),
            P("cw721_contract_admin", ROption(RString))>>)

-----------------------------------------------------------------------------
(* Two descriptions of one message *)

Family ==
  [cw721_execute |-> <<Cw721ExecuteMsg, RCw721ExecuteMsg>>,
   cw721_query   |-> <<Cw721QueryMsg, RCw721QueryMsg>>,
   cw721_instantiate |-> <<Cw721InstantiateMsg, RCw721InstantiateMsg>>,
   minter_execute |-> <<MinterExecuteMsg, RMinterExecuteMsg>>,
   minter_query   |-> <<MinterQueryMsg, RMinterQueryMsg>>,
   minter_instantiate |-> <<MinterInstantiateMsg, RMinterInstantiateMsg>>,
   migrate        |-> <<MigrateMsg, RMigrateMsg>>]

\* The generated type admits what the contract reads, and does not admit what the
\* contract refuses for its shape: a missing or unknown field, a value of another kind.
\* (The generated types do not know that an enum has one variant, nor numbers in text.)
Agree(json, family) ==
  LET read == Read(json, Family[family][2])
      admitted == Admits(Family[family][1], json)
  IN  /\ ~IsRefused(read) => admitted
      /\ read = Refused("shape") => ~admitted

\* The texts one edit away: a field dropped or added, a value of another kind.
RECURSIVE Edits(_)
Edits(json) ==
  {Nil, Text("x"), Number("1"), Number("1.5"), Flag("true"), Object(<<>>), List(<<>>)} \cup
  IF json.kind # "object" THEN {}
  ELSE LET f == json.fields
       IN  {Object(RemoveAt(f, i)) : i \in DOMAIN f} \cup {Object(Append(f, <<"extra", Nil>>))}
           \cup UNION {{Object(ReplaceAt(f, i, <<f[i][1], v>>)) : v \in Edits(f[i][2])} :
                         i \in DOMAIN f}
=============================================================================
