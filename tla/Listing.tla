------------------------------- MODULE Listing -------------------------------
(***************************************************************************)
(* Reading a listing of tokens page by page while the collection goes on.  *)
(*                                                                         *)
(* This is the reader's view: an answer is a page of the tokens there are  *)
(* after the cursor, and how long it is, is up to the node and the limit   *)
(* asked for.  QuerySession obtains the page from the message a command    *)
(* sends and the answer of the contract, and implements SpecListing.       *)
(***************************************************************************)
EXTENDS Collection, ToolContext

CONSTANT Whose   \* the listings explored: of a holder, or of everything

VARIABLES
  walk,  \* a listing: [of, cursor, listed, twice, pc]
  held,  \* for the properties: the tokens in the listing from its start to now
  seen   \* for the properties: the tokens that were in it at some time

listingVars == <<vars, walk, held, seen>>

Everything == "everything"

ASSUME ListingAssumption ==
  /\ Whose \subseteq Account \cup {Everything}
  /\ ByteOrder \in Seq({ByteOrder[i] : i \in DOMAIN ByteOrder})
  /\ TokenId \subseteq {ByteOrder[i] : i \in DOMAIN ByteOrder} /\ None \notin TokenId

NoWalk == [of |-> Everything, cursor |-> None, listed |-> {}, twice |-> FALSE, pc |-> "idle"]

\* The tokens a listing is about: those of a holder, or all of them.
Listed(of) == {t \in Minted : of = Everything \/ tokens[t].owner = of}

\* A listing of a deployed collection without tokens.
InitListing ==
  /\ owner = MinterAccount
  /\ tokens = [t \in TokenId |-> None] /\ tokenCount = 0 /\ operators = {}
  /\ info \in InfoMsg
  /\ now = 0
  /\ walk = NoWalk /\ held = {} /\ seen = {}

Start(of) ==
  /\ walk.pc = "idle"
  /\ walk' = [NoWalk EXCEPT !.of = of, !.pc = "reading"]
  /\ held' = Listed(of) /\ seen' = Listed(of)
  /\ UNCHANGED vars

\* The first n of the keys after the cursor, and in their order.
Later(keys) == {k \in keys : walk.cursor = None \/ Position(k) > Position(walk.cursor)}
Pages(keys, n) ==
  {page \in [1 .. n -> Later(keys)] :
     /\ \A i, j \in 1 .. n : i < j => Position(page[i]) < Position(page[j])
     /\ \A k \in Later(keys) :
          (\A i \in 1 .. n : page[i] # k) => \A i \in 1 .. n : Position(page[i]) < Position(k)}

\* What the reader does with a page: take it down, and go on after its last token.
TakePage(page) ==
  LET shown == {page[i] : i \in DOMAIN page}
  IN  /\ walk.pc = "reading"
      /\ walk' = IF page = <<>> THEN [walk EXCEPT !.pc = "done"]
                 ELSE [walk EXCEPT !.listed = @ \cup shown, !.cursor = page[Len(page)],
                         !.twice = \/ @ \/ walk.listed \cap shown # {}
                                   \/ \E i, j \in DOMAIN page : i # j /\ page[i] = page[j]]
      /\ UNCHANGED <<vars, held, seen>>

Read ==
  \/ Later(Listed(walk.of)) = {} /\ TakePage(<<>>)
  \/ \E n \in 1 .. MaxLimit : \E page \in Pages(Listed(walk.of), n) : TakePage(page)

End ==
  /\ walk.pc = "done"
  /\ walk' = NoWalk /\ held' = {} /\ seen' = {}
  /\ UNCHANGED vars

\* Any call of the collection by anybody.
Watched ==
  /\ held' = IF walk.pc = "reading" THEN held \cap Listed(walk.of)' ELSE held
  /\ seen' = IF walk.pc = "reading" THEN seen \cup Listed(walk.of)' ELSE seen

Meanwhile == Next /\ UNCHANGED walk /\ Watched

NextListing ==
  \/ \E of \in Whose : Start(of)
  \/ Read
  \/ End
  \/ Meanwhile

SpecListing == InitListing /\ [][NextListing]_listingVars

-----------------------------------------------------------------------------
(* Properties *)

\* A finished listing holds every token that was there the whole time, and at no time
\* a token twice or one that never was there, although the pages are of different
\* moments and a token minted meanwhile may belong before the ones already read.
PagesComplete ==
  /\ walk.pc = "done" => held \subseteq walk.listed
  /\ walk.listed \subseteq seen
  /\ ~walk.twice
=============================================================================
