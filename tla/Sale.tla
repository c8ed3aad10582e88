-------------------------------- MODULE Sale --------------------------------
(***************************************************************************)
(* What the minter promises buyers and sellers, without contracts,         *)
(* messages or transactions: delivery against payment.                     *)
(*                                                                         *)
(* In one step some orders are redeemed: none of their UUIDs was redeemed  *)
(* before, each gets the next token number, the token is delivered and the *)
(* price goes from the buyer to the seller named in the order.  Nothing    *)
(* else moves sales money, and a delivered token number never returns.     *)
(*                                                                         *)
(* DegaSystem implements this: its committed states are the states here.   *)
(***************************************************************************)
EXTENDS Integers, FiniteSetsExt

CONSTANTS
  Party,     \* whoever pays or is paid
  Opening    \* Party -> Nat, the opening balances

VARIABLES
  sold,       \* the sales, records with at least tokenId, request, payer, paid
  delivered,  \* the token numbers handed out
  balance     \* Party -> Int

saleVars == <<sold, delivered, balance>>

Uuids(sales) == {s.request.uuid : s \in sales}

Paid(sales) == SumFunction([s \in sales |-> s.paid])

Earned(party, sales) ==
  Paid({s \in sales : s.request.primary_sale_recipient = party})

Spent(party, sales) == Paid({s \in sales : s.payer = party})

Init ==
  /\ sold = {}
  /\ delivered = {}
  /\ balance = Opening

Redeem(batch) ==
  /\ batch # {}
  /\ Uuids(batch) \cap Uuids(sold) = {}
  /\ Cardinality(Uuids(batch)) = Cardinality(batch)
  /\ {s.tokenId : s \in batch} =
       (Cardinality(sold) + 1) .. (Cardinality(sold) + Cardinality(batch))
  /\ \A s \in batch : s.paid = s.request.price
  /\ sold' = sold \cup batch
  /\ delivered' = delivered \cup {s.tokenId : s \in batch}
  /\ balance' = [p \in Party |-> balance[p] + Earned(p, batch) - Spent(p, batch)]

Next == Redeem(sold' \ sold)

Spec == Init /\ [][Next]_saleVars
=============================================================================
