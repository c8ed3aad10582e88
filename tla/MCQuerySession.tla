--------------------------- MODULE MCQuerySession ---------------------------
(* A small instance of QuerySession for TLC. *)
EXTENDS QuerySession

\* Token ids are numerals: in the order of their bytes 10 comes before 2.
MCByteOrder == <<"", "1", "10", "2", "ann", "ben", "minter">>

MCLine ==
  {<<"sig-info", <<>>>>, <<"check-sig", <<>>>>, <<"admins", <<>>>>,
   <<"account-details", <<"ann">>>>, <<"account-details", <<"ann", "x">>>>,
   <<"collection-info", <<>>>>, <<"num-tokens", <<>>>>, <<"num-tokens", <<"1", "2">>>>,
   <<"collection-contract-info", <<"x">>>>,
   <<"tokens", <<"ann">>>>, <<"tokens", <<"ann", "10", "x">>>>, <<"tokens", <<"?">>>>,
   <<"all-tokens", <<"1", "0">>>>, <<"all-tokens", <<"", "2">>>>,
   <<"owner-of", <<"1", "true">>>>, <<"owner-of", <<"1", "yes">>>>,
   <<"approval", <<"ann", "1">>>>, <<"approval", <<"ben", "1", "false">>>>,
   <<"all-approvals", <<"10", "true">>>>,
   <<"all-operators", <<"ann", "true", "ben", "1">>>>, <<"all-operators", <<>>>>,
   <<"nft-info", <<"2">>>>, <<"all-nft-info", <<"2", "false">>>>}

Texts2(a, b) == <<<<a, S!Text("x")>>, <<b, S!Text("x")>>>>
Royalties == S!Object(<<<<"payment_address", S!Text("ann")>>, <<"share", S!Text("0")>>>>)
InfoData ==
  S!Object(<<<<"description", S!Text("x")>>, <<"image", S!Text("x")>>,
             <<"external_link", S!Undefined>>, <<"royalty_settings", Royalties>>>>)
SettingsData ==
  S!Object(<<<<"minting_paused", S!Flag("false")>>, <<"signer_pub_key", S!Text("k")>>>>)

MCMessage ==
  {<<"cw721_execute", S!Variant("transfer_nft", Texts2("recipient", "token_id"))>>,
   <<"cw721_execute", S!Variant("send_nft", Texts2("contract", "token_id")
                                            \o <<<<"msg", S!Text("x")>>>>)>>,
   <<"cw721_execute", S!Variant("approve", Texts2("spender", "token_id")
      \o <<<<"expires", S!Object(<<<<"at_time", S!Text("7")>>>>)>>>>)>>,
   <<"cw721_execute", S!Variant("revoke", Texts2("spender", "token_id"))>>,
   <<"cw721_execute", S!Variant("approve_all",
      <<<<"operator", S!Text("x")>>, <<"expires", S!Variant("never", <<>>)>>>>)>>,
   <<"cw721_execute", S!Variant("revoke_all", <<<<"operator", S!Text("x")>>>>)>>,
   <<"cw721_execute", S!Variant("burn", <<<<"token_id", S!Text("x")>>>>)>>,
   <<"cw721_execute", S!Variant("mint", Texts2("token_id", "owner")
      \o <<<<"token_uri", S!Undefined>>, <<"extension", S!Object(<<>>)>>>>)>>,
   <<"cw721_execute", S!Variant("update_collection_info", <<<<"collection_info", InfoData>>>>)>>,
   <<"minter_execute", S!Variant("update_settings", <<<<"settings", SettingsData>>>>)>>,
   <<"minter_execute", S!Variant("update_admin",
      <<<<"address", S!Text("ann")>>, <<"command", S!Text("add")>>>>)>>,
   <<"minter_execute", S!Variant("mint",
      <<<<"request", TestRequest("inj")>>, <<"signature", S!Text("x")>>>>)>>,
   <<"minter_query", S!Variant("is_admin", <<<<"address", S!Text("ann")>>>>)>>,
   <<"minter_query", QueryMinterSettings(<<>>).msg>>,
   <<"cw721_instantiate", S!Object(Texts2("name", "symbol")
      \o <<<<"collection_info", InfoData>>>>)>>,
   <<"minter_instantiate", S!Object(<<
      <<"minter_params", S!Object(<<<<"dega_minter_settings", SettingsData>>,
                                    <<"initial_admin", S!Text("ann")>>>>)>>,
      <<"collection_params", S!Object(Texts2("name", "symbol")
         \o <<<<"code_id", S!Number("1")>>, <<"info", InfoData>>>>)>>,
      <<"cw721_contract_label", S!Text("x")>>, <<"cw721_contract_admin", S!Nil>>>>)>>,
   <<"migrate", S!Object(<<<<"is_dev", S!Flag("true")>>, <<"dev_version", S!Text("x")>>>>)>>}

MCLimit == {<<>>, <<"1">>, <<"2">>, <<"x">>}
=============================================================================
