---------------------------- MODULE QuerySession ----------------------------
(***************************************************************************)
(* Somebody at the test tool's query commands while the collection goes    *)
(* on: tokens are minted, handed on and burnt, the collection info and the *)
(* minter's key change between two queries.                                *)
(*                                                                         *)
(* A listing is longer than a page.  The reader asks for the page after    *)
(* the last token of the one before, until a page comes empty.             *)
(***************************************************************************)
EXTENDS Listing, Queries

CONSTANTS
  OtherKey,  \* another key the minter may be given
  Line,      \* the command lines explored: <<name, arguments>>
  Limit,     \* the third arguments of the listing commands
  Message    \* messages of the other commands: <<family, JavaScript value>>

VARIABLES
  minterKey,  \* the signer key of the minter's settings
  screen      \* the last command, what it sent and what it was answered

sessionVars == <<listingVars, minterKey, screen>>

Blank == [name |-> "none", sent |-> <<>>, replies |-> <<>>, key |-> ToolKey, stale |-> FALSE]

\* The accounts that hold tokens, and the royalties the collection changes to.
Holder == Account \ Contract
Payable == [address : {Primary}, share : {s \in Share : ShareValidate(s)}]

InitSession ==
  /\ InitListing
  /\ info.royalty \in Payable \cup {None}
  /\ minterKey = ToolKey /\ screen = Blank

-----------------------------------------------------------------------------
(* One command *)

\* The one reply to a query.
Replies(name, query) ==
  IF query.contract = "minter"
  THEN {AnswerMinter(read, minterKey, SignatureOf(name)) :
          read \in Received(query, S!RMinterQueryMsg)}
  ELSE {AnswerCw721(read) : read \in Received(query, S!RCw721QueryMsg)}

\* royalty-info shows its first answer and sends the second query then.
Ask(name, query) ==
  /\ query.kind = "query"
  /\ \E reply \in Replies(name, query) :
       screen' = [name |-> name, sent |-> <<query>>, replies |-> <<reply>>,
                  key |-> minterKey, stale |-> FALSE]
  /\ UNCHANGED <<vars, minterKey, walk, held, seen>>

\* Nothing is sent when the arguments are refused.
Refuse(name, args) ==
  /\ Run(name, args).kind = "usage"
  /\ screen' = [Blank EXCEPT !.name = "usage"]
  /\ UNCHANGED <<vars, minterKey, walk, held, seen>>

\* The command is done.
Close ==
  /\ screen # Blank /\ screen' = Blank
  /\ UNCHANGED <<vars, minterKey, walk, held, seen>>

AskRoyaltyOf ==
  /\ screen.name = "royalty-info" /\ Len(screen.replies) = 1
  /\ \E reply \in Replies("royalty-info", QueryRoyaltyOf) :
       screen' = [screen EXCEPT !.sent = Append(@, QueryRoyaltyOf),
                                !.replies = Append(@, reply)]
  /\ UNCHANGED <<vars, minterKey, walk, held, seen>>

-----------------------------------------------------------------------------
(* A listing *)

\* A listing shows neither the collection info nor the minter's key: it is explored
\* with one of each, and while nobody changes them.
StartListing(of) ==
  /\ screen = Blank /\ info.royalty = None /\ minterKey = ToolKey
  /\ Start(of)
  /\ UNCHANGED <<minterKey, screen>>

\* A limit can only be given after a start.
PageArguments(limit) ==
  (IF walk.of = Everything THEN <<>> ELSE <<walk.of>>)
  \o (IF walk.cursor = None THEN <<>> ELSE <<walk.cursor>> \o limit)

ReadPage(limit) ==
  LET name == IF walk.of = Everything THEN "all-tokens" ELSE "tokens"
  IN  /\ walk.pc = "reading"
      /\ \E reply \in Replies(name, Run(name, PageArguments(limit))) :
           LET items == S!Get(reply.data, "tokens").items
           IN  TakePage([i \in DOMAIN items |-> items[i].text])
      /\ UNCHANGED <<minterKey, screen>>

EndListing == End /\ UNCHANGED <<minterKey, screen>>

-----------------------------------------------------------------------------
(* The others *)

\* Only royalty-info has an answer of one moment and another still to come.
Interruptible == screen.name \in {"none", "royalty-info"}

Elsewhere ==
  /\ Interruptible
  /\ \/ \E t \in TokenId, a \in Holder : Mint(MinterAccount, t, a, FALSE)
     \/ \E t \in Minted : \E a \in Holder : Transfer(tokens[t].owner, a, t)
     \/ \E t \in Minted : Burn(tokens[t].owner, t)
     \/ \E r \in Payable : walk.pc = "idle" /\ UpdateCollectionInfo(TRUE,
          [description |-> Absent, image |-> Absent, externalLink |-> Absent, royalty |-> r])
  /\ screen' = [screen EXCEPT !.stale = screen.name = "royalty-info"]
  /\ UNCHANGED <<now, minterKey, walk>>
  /\ Watched

RotateKey ==
  /\ Interruptible /\ walk.pc = "idle"
  /\ minterKey' \in {ToolKey, OtherKey}
  /\ UNCHANGED <<vars, screen, walk, held, seen>>

NextSession ==
  \/ /\ walk.pc = "idle" /\ screen = Blank
     /\ \/ \E l \in Line : Ask(l[1], Run(l[1], l[2])) \/ Refuse(l[1], l[2])
        \/ Ask("royalty-info", QueryRoyalties)
  \/ AskRoyaltyOf \/ Close
  \/ \E of \in Whose : StartListing(of)
  \/ \E limit \in Limit : ReadPage(limit)
  \/ EndListing
  \/ Elsewhere \/ RotateKey

\* The reader goes on reading; the others may do as they like.
SpecSession ==
  InitSession /\ [][NextSession]_sessionVars /\ WF_sessionVars(\E limit \in Limit : ReadPage(limit))

-----------------------------------------------------------------------------
(* Properties *)

\* Every listing ends, also while tokens are minted and burnt without end.
ListingEnds == walk.pc = "reading" ~> walk.pc # "reading"

\* The bytes the tool signs are the bytes the contract makes of the request it has
\* read: check-sig is answered valid always, sig-info whenever the minter has the key
\* of the tool, and never when it has another.
SignedAsRead ==
  screen.name \in {"sig-info", "check-sig"} =>
    S!Get(screen.replies[1].data, "is_valid") =
      S!Flag(IF screen.name = "check-sig" \/ screen.key = ToolKey THEN "true" ELSE "false")

\* The two answers of royalty-info contradict each other only when the collection
\* info was changed between them.
RoyaltyAnswersAgree ==
  Len(screen.replies) = 2 /\ ~screen.stale =>
    (S!Get(screen.replies[1].data, "royalty_payments") = S!Flag("true")
      <=> S!Get(screen.replies[2].data, "royalty_amount") # S!Text("0"))

\* The type that was generated for the answers to a query.
ResponseType(contract, of) ==
  IF contract = "minter" THEN S!MinterResponse[of] ELSE S!Cw721Response[of]

Family(query) == query.contract \o "_query"

\* Of all messages explored those that the contract reads, and of which every text one
\* edit away is judged alike by the contract and by the generated type.
Agreed ==
  LET asked == {Run(l[1], l[2]) : l \in Line} \cup {QueryRoyalties, QueryRoyaltyOf}
      sent  == {<<Family(q), q.msg>> : q \in {r \in asked : r.kind = "query" /\ r.contract # "node"}}
      Alike(json, family) ==
        /\ ~S!IsRefused(S!Read(json, S!Family[family][2]))
        /\ \A edited \in {json} \cup S!Edits(json) : S!Agree(edited, family)
  IN  {m \in Message \cup sent : Alike(S!Stringify(m[2]), m[1])}

\* The contracts and the types generated from them describe messages alike.  What a
\* command sends is read by the contract; every text one edit away from it is admitted
\* by the generated type if the contract reads it, and is not admitted if the contract
\* refuses its shape; and what the contract answers, in any state, is admitted by the
\* type of the answer.
DescriptionsAgree ==
  /\ \A i \in DOMAIN screen.sent :
       LET query == screen.sent[i]
           reply == screen.replies[i]
       IN  /\ query.contract # "node" => <<Family(query), query.msg>> \in Agreed
           /\ reply.kind = "answer" =>
                S!Admits(ResponseType(query.contract, reply.of), reply.data)
  /\ Message \subseteq Agreed
=============================================================================
