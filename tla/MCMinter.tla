------------------------------ MODULE MCMinter ------------------------------
(* Small instances of Minter for TLC. *)
EXTENDS Minter

CONSTANTS
  alice,         \* an account, admin and buyer
  coll, other,   \* the collection of this minter and that of another one
  badAddr,       \* a string that is not a valid address
  k1, k2, badKey,
  u1, u2, u3     \* UUIDs

MCAccount == {alice, coll, other}

Order(uuid, price, start, end, collection) ==
  [to |-> alice, primary_sale_recipient |-> alice, price |-> price,
   currency |-> "inj", validity_start |-> start, validity_end |-> end,
   uuid |-> uuid, collection |-> collection]

\* Two orders that share u1 (a re-issue at another price and a later window), two
\* with a UUID of their own, and one each that must never be redeemed here: made for
\* another collection, priced at zero, to a bad address, paying a bad address.
GoodRequest == {Order(u1, 1, 0, 1, coll), Order(u1, 2, 1, 2, coll),
                Order(u2, 1, 1, 1, coll), Order(u3, 1, 0, 1, coll)}
MCRequest == GoodRequest \cup
  {Order(u2, 1, 0, 2, other), Order(u2, 0, 0, 2, coll),
   [Order(u2, 1, 0, 2, coll) EXCEPT !.to = badAddr],
   [Order(u2, 1, 0, 2, coll) EXCEPT !.primary_sale_recipient = badAddr]}

\* The first key signs everything, the second one only the first order of u1.
MCSignature == {[key |-> k1, request |-> r] : r \in MCRequest}
               \cup {[key |-> k2, request |-> Order(u1, 1, 0, 1, coll)]}

Coin(denom, amount) == [denom |-> denom, amount |-> amount]
MCPayment == {<<>>, <<Coin("inj", 1)>>, <<Coin("inj", 2)>>, <<Coin("usd", 1)>>,
              <<Coin("inj", 1), Coin("usd", 1)>>}
=============================================================================
