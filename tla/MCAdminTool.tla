---------------------------- MODULE MCAdminTool ----------------------------
(* Small instances of AdminTool for TLC. *)
EXTENDS AdminTool, TLC

CONSTANTS dora, primary, minter, coll, k1, k2, badKey

Symmetry == Permutations({k1, k2})

Plain(length) == [length |-> length, quotes |-> 0]
Quoted(length, quotes) == [length |-> length, quotes |-> quotes]
Texts == {Plain(1), Plain(3), Quoted(3, 1), Quoted(3, 2)}

Royalties == {[address |-> dora, share |-> 1]}

OnlyDescription(text) ==
  [description |-> text, image |-> Absent, externalLink |-> Absent, royalty |-> Absent]
OnlyRoyalty(royalty) ==
  [description |-> Null, image |-> Absent, externalLink |-> Absent, royalty |-> royalty]
ImageToo(text) ==
  [description |-> text, image |-> "image", externalLink |-> Null, royalty |-> Null]

\* A description that fits and an image, one that is too long, a royalty.
PlainSpecs ==
  {ImageToo(Plain(1)), OnlyDescription(Plain(3))} \cup {OnlyRoyalty(r) : r \in Royalties}

\* One apostrophe, and two.
QuotedSpecs == {OnlyDescription(Quoted(3, 1)), OnlyDescription(Quoted(3, 2))}
=============================================================================
