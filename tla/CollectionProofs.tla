-------------------------- MODULE CollectionProofs --------------------------
(***************************************************************************)
(* Proofs about Collection for every set of accounts, contracts, tokens,   *)
(* descriptions, links, images and shares.                                 *)
(*                                                                         *)
(* The counter of cw721-base is a natural number only because it counts    *)
(* the tokens, and it counts them only because they are finitely many:     *)
(* the types, the count and the finiteness are proved together.            *)
(***************************************************************************)
EXTENDS Collection, FiniteSetTheorems, TLAPS

Token == [owner : Account, approvals : SUBSET Approval]

\* The tokens are typed and no approval outlives its ownership.
TokensInv ==
  /\ tokens \in [TokenId -> Token \cup {None}]
  /\ ApprovalsOfCurrentOwner

\* Before the instantiation nothing exists, and afterwards the info is well formed.
InfoInv ==
  /\ owner \in Contract \cup {None}
  /\ owner = None <=> info = None
  /\ owner = None => Minted = {}
  /\ info # None =>
       /\ info.description \in Description /\ DescriptionAccepted(info.description)
       /\ info.image \in Image /\ info.externalLink \in Link \cup {None}
       /\ info.royalty \in Royalty \cup {None}
       /\ info.royalty # None => RoyaltyAccepted(info.royalty)

CountInv ==
  /\ IsFiniteSet(Minted)
  /\ CountMatchesTokens

GrantsInv ==
  /\ operators \subseteq [owner : Account, operator : Account, expires : Expiration]
  /\ now \in Nat

IInv == TokensInv /\ InfoInv /\ CountInv /\ GrantsInv

-----------------------------------------------------------------------------
(* Steps, one lemma for each part of the invariant *)

LEMMA NoneIsNoToken == None \notin Token
BY ConstantAssumption DEF Token, Approval

\* What a handler may do to the tokens: nothing, give one an owner and no approvals,
\* change the approvals of one, or remove one.
Keeps == UNCHANGED <<tokens, tokenCount>>
Creates(t, a) ==
  /\ t \in TokenId \ Minted /\ a \in Account /\ owner # None
  /\ tokens' = [tokens EXCEPT ![t] = [owner |-> a, approvals |-> {}]]
  /\ tokenCount' = tokenCount + 1
Hands(t, a) ==
  /\ t \in Minted /\ a \in Account /\ owner # None
  /\ tokens' = [tokens EXCEPT ![t] = [owner |-> a, approvals |-> {}]]
  /\ UNCHANGED tokenCount
Grants(t, approvals) ==
  /\ t \in Minted /\ approvals \subseteq Approval /\ owner # None
  /\ \A a \in approvals : a.under = tokens[t].owner
  /\ tokens' = [tokens EXCEPT ![t].approvals = approvals]
  /\ UNCHANGED tokenCount
Removes(t) ==
  /\ t \in Minted /\ owner # None
  /\ tokens' = [tokens EXCEPT ![t] = None]
  /\ tokenCount' = tokenCount - 1

\* Every step is one of these, and the owner and the time change as stated.
TokenChange ==
  \/ Keeps
  \/ \E t \in TokenId, a \in Account : Creates(t, a) \/ Hands(t, a)
  \/ \E t \in TokenId, s \in SUBSET Approval : Grants(t, s)
  \/ \E t \in TokenId : Removes(t)

LEMMA StepChangesTokens == TokensInv /\ [Next]_vars => TokenChange
<1> SUFFICES ASSUME TokensInv, [Next]_vars PROVE TokenChange
  OBVIOUS
<1> USE DEF TokenChange
<1>1. ASSUME NEW s \in Account, NEW f \in BOOLEAN, NEW i \in InfoMsg, Instantiate(s, f, i)
      PROVE  TokenChange
  BY <1>1 DEF Instantiate, Keeps
<1>2. ASSUME NEW s \in Account, NEW t \in TokenId, NEW r \in Address,
             NEW p \in BOOLEAN, Mint(s, t, r, p)
      PROVE  TokenChange
  <2>1. Creates(t, r) /\ r \in Account
    BY <1>2 DEF Mint, MintAccepted, Creates
  <2> QED
    BY <2>1
<1>3. ASSUME NEW s \in Account, NEW r \in Address, NEW t \in TokenId, Transfer(s, r, t)
      PROVE  TokenChange
  <2>1. Hands(t, r) /\ r \in Account
    BY <1>3 DEF Transfer, TransferAccepted, CanSend, CanApprove, Hands
  <2> QED
    BY <2>1
<1>4. ASSUME NEW s \in Account, NEW p \in Address, NEW t \in TokenId,
             NEW e \in Expiration, Approve(s, p, t, e)
      PROVE  TokenChange
  <2> DEFINE new == OtherApprovals(t, p) \cup
               {[spender |-> p, expires |-> e, under |-> tokens[t].owner]}
  <2>1. t \in Minted /\ p \in Account /\ owner # None
    BY <1>4 DEF Approve, ApproveAccepted, CanApprove
  <2>2. tokens[t] \in Token
    BY <2>1 DEF Minted, TokensInv
  <2>3. OtherApprovals(t, p) \subseteq Approval
    BY <2>2 DEF OtherApprovals, Token
  <2>4. [spender |-> p, expires |-> e, under |-> tokens[t].owner] \in Approval
    BY <2>1, <2>2 DEF Approval, Token
  <2>5. \A a \in new : a.under = tokens[t].owner
    BY <2>1 DEF TokensInv, ApprovalsOfCurrentOwner, OtherApprovals
  <2>6. Grants(t, new) /\ new \in SUBSET Approval
    BY <1>4, <2>1, <2>3, <2>4, <2>5 DEF Approve, Grants
  <2> QED
    BY <2>6
<1>5. ASSUME NEW s \in Account, NEW p \in Address, NEW t \in TokenId, Revoke(s, p, t)
      PROVE  TokenChange
  <2>1. t \in Minted /\ owner # None
    BY <1>5 DEF Revoke, RevokeAccepted, CanApprove
  <2>2. tokens[t] \in Token
    BY <2>1 DEF Minted, TokensInv
  <2>3. OtherApprovals(t, p) \in SUBSET Approval
    BY <2>2 DEF OtherApprovals, Token
  <2>4. \A a \in OtherApprovals(t, p) : a.under = tokens[t].owner
    BY <2>1 DEF TokensInv, ApprovalsOfCurrentOwner, OtherApprovals
  <2>5. Grants(t, OtherApprovals(t, p))
    BY <1>5, <2>1, <2>3, <2>4 DEF Revoke, Grants
  <2> QED
    BY <2>3, <2>5
<1>6. ASSUME NEW s \in Account, NEW t \in TokenId, Burn(s, t) PROVE TokenChange
  <2>1. Removes(t)
    BY <1>6 DEF Burn, BurnAccepted, CanSend, CanApprove, Removes
  <2> QED
    BY <2>1
<1>7. ASSUME NEW s \in Account, NEW o \in Address, NEW e \in Expiration,
             ApproveAll(s, o, e)
      PROVE  TokenChange
  BY <1>7 DEF ApproveAll, Keeps
<1>8. ASSUME NEW s \in Account, NEW o \in Address, RevokeAll(s, o) PROVE TokenChange
  BY <1>8 DEF RevokeAll, Keeps
<1>9. ASSUME NEW a \in BOOLEAN, NEW m \in UpdateMsg, UpdateCollectionInfo(a, m)
      PROVE  TokenChange
  BY <1>9 DEF UpdateCollectionInfo, Keeps
<1>10. CASE UNCHANGED contractVars
  BY <1>10 DEF contractVars, Keeps
<1> QED
  BY <1>1, <1>2, <1>3, <1>4, <1>5, <1>6, <1>7, <1>8, <1>9, <1>10
     DEF Next, Execute, Tick, vars, Send

\* Where there is no token there is None, so what exists is read off the types.
LEMMA MintedTyped ==
  ASSUME TokensInv
  PROVE  Minted \subseteq TokenId /\ \A t \in Minted : tokens[t] \in Token
BY DEF Minted, TokensInv

LEMMA TokensStep == TokensInv /\ TokenChange => TokensInv'
<1> SUFFICES ASSUME TokensInv, TokenChange PROVE TokensInv'
  OBVIOUS
<1> USE DEF TokensInv, ApprovalsOfCurrentOwner, Minted
<1>1. CASE Keeps
  BY <1>1 DEF Keeps
<1>2. ASSUME NEW t \in TokenId, NEW a \in Account, Creates(t, a) \/ Hands(t, a)
      PROVE  TokensInv'
  <2>1. [owner |-> a, approvals |-> {}] \in Token
    BY DEF Token
  <2>2. tokens' = [tokens EXCEPT ![t] = [owner |-> a, approvals |-> {}]]
    BY <1>2 DEF Creates, Hands
  <2> QED
    BY <2>1, <2>2
<1>3. ASSUME NEW t \in TokenId, NEW new \in SUBSET Approval, Grants(t, new)
      PROVE  TokensInv'
  <2>1. tokens[t] \in Token
    BY <1>3 DEF Grants
  <2>2. [tokens[t] EXCEPT !.approvals = new] = [owner |-> tokens[t].owner, approvals |-> new]
    BY <2>1 DEF Token
  <2>3. [owner |-> tokens[t].owner, approvals |-> new] \in Token
    BY <2>1 DEF Token
  <2>4. tokens' = [tokens EXCEPT ![t] = [owner |-> tokens[t].owner, approvals |-> new]]
    BY <1>3, <2>2 DEF Grants
  <2>5. \A a \in new : a.under = tokens[t].owner
    BY <1>3 DEF Grants
  <2> QED
    BY <2>3, <2>4, <2>5
<1>4. ASSUME NEW t \in TokenId, Removes(t) PROVE TokensInv'
  BY <1>4 DEF Removes
<1> QED
  BY <1>1, <1>2, <1>3, <1>4 DEF TokenChange

LEMMA CountStep == TokensInv /\ CountInv /\ TokenChange => CountInv'
<1> SUFFICES ASSUME TokensInv, CountInv, TokenChange PROVE CountInv'
  OBVIOUS
<1> USE DEF CountInv, CountMatchesTokens
<1>1. CASE Keeps
  BY <1>1 DEF Keeps, Minted
<1>2. ASSUME NEW t \in TokenId, NEW a \in Account, Creates(t, a) PROVE CountInv'
  <2>1. [owner |-> a, approvals |-> {}] # None
    BY NoneIsNoToken DEF Token
  <2>2. Minted' = Minted \cup {t} /\ t \notin Minted
    BY <1>2, <2>1 DEF Creates, Minted, TokensInv
  <2> QED
    BY <1>2, <2>2, FS_AddElement DEF Creates
<1>3. ASSUME NEW t \in TokenId, NEW a \in Account, Hands(t, a) PROVE CountInv'
  <2>1. [owner |-> a, approvals |-> {}] # None
    BY NoneIsNoToken DEF Token
  <2>2. Minted' = Minted
    BY <1>3, <2>1 DEF Hands, Minted, TokensInv
  <2> QED
    BY <1>3, <2>2 DEF Hands
<1>4. ASSUME NEW t \in TokenId, NEW new \in SUBSET Approval, Grants(t, new)
      PROVE  CountInv'
  <2>1. tokens[t] \in Token
    BY <1>4, MintedTyped DEF Grants
  <2>2. [tokens[t] EXCEPT !.approvals = new] \in Token
    BY <2>1 DEF Token
  <2>3. Minted' = Minted
    BY <1>4, <2>2, NoneIsNoToken DEF Grants, Minted, TokensInv
  <2> QED
    BY <1>4, <2>3 DEF Grants
<1>5. ASSUME NEW t \in TokenId, Removes(t) PROVE CountInv'
  <2>1. Minted' = Minted \ {t} /\ t \in Minted
    BY <1>5 DEF Removes, Minted, TokensInv
  <2> QED
    BY <1>5, <2>1, FS_RemoveElement DEF Removes
<1> QED
  BY <1>1, <1>2, <1>3, <1>4, <1>5 DEF TokenChange

LEMMA InfoStep == TokensInv /\ InfoInv /\ [Next]_vars => InfoInv'
<1> SUFFICES ASSUME TokensInv, InfoInv, [Next]_vars PROVE InfoInv'
  OBVIOUS
<1> USE DEF InfoInv
<1>1. ASSUME NEW s \in Account, NEW f \in BOOLEAN, NEW i \in InfoMsg, Instantiate(s, f, i)
      PROVE  InfoInv'
  <2>1. owner' = s /\ info' = i /\ s \in Contract /\ Contract \subseteq Account
    BY <1>1, ConstantAssumption DEF Instantiate, InstantiateAccepted
  <2>2. i # None
    BY <1>1, ConstantAssumption DEF InfoMsg
  <2> QED
    BY <1>1, <2>1, <2>2, ConstantAssumption DEF Instantiate, InstantiateAccepted, InfoMsg
<1>2. ASSUME NEW a \in BOOLEAN, NEW m \in UpdateMsg, UpdateCollectionInfo(a, m)
      PROVE  InfoInv'
  <2> DEFINE
        d == Updated(info.description, Decode(m.description))
        i == Updated(info.image, Decode(m.image))
        l == Updated(info.externalLink, Decode(m.externalLink))
        r == Updated(info.royalty, Decode(m.royalty))
  <2>1. owner # None /\ UNCHANGED <<owner, tokens>>
    BY <1>2 DEF UpdateCollectionInfo, UpdateInfoAccepted
  <2>2. info' = [description |-> d, image |-> i, externalLink |-> l, royalty |-> r]
    BY <1>2 DEF UpdateCollectionInfo, Decoded
  <2>3. info # None
    BY <2>1
  <2>4. d \in Description /\ DescriptionAccepted(d)
    <3>1. Decode(m.description) # None => DescriptionAccepted(Decode(m.description))
      BY <1>2 DEF UpdateCollectionInfo, UpdateInfoAccepted, Decoded
    <3>2. m.description \in Description \cup {Absent, Null}
      BY DEF UpdateMsg
    <3>3. Decode(m.description) # Clear
      BY <3>2, ConstantAssumption DEF Decode
    <3>4. CASE Decode(m.description) = None
      <4>1. d = info.description
        BY <3>4, ConstantAssumption DEF Updated
      <4> QED
        BY <2>3, <4>1
    <3>5. CASE Decode(m.description) # None
      <4>1. d = Decode(m.description)
        BY <3>3, <3>5 DEF Updated
      <4>2. Decode(m.description) \in Description
        BY <3>2, <3>5 DEF Decode
      <4> QED
        BY <3>1, <3>5, <4>1, <4>2
    <3> QED
      BY <3>4, <3>5
  <2>5. i \in Image
    <3>1. m.image \in Image \cup {Absent, Null}
      BY DEF UpdateMsg
    <3> QED
      BY <2>3, <3>1, ConstantAssumption DEF Updated, Decode
  <2>6. l \in Link \cup {None}
    <3>1. m.externalLink \in Link \cup {Absent, Null}
      BY DEF UpdateMsg
    <3> QED
      BY <2>3, <3>1, ConstantAssumption DEF Updated, Decode
  <2>7. r \in Royalty \cup {None} /\ (r # None => RoyaltyAccepted(r))
    <3>1. Decode(m.royalty) \notin {None, Clear} => RoyaltyAccepted(Decode(m.royalty))
      BY <1>2 DEF UpdateCollectionInfo, UpdateInfoAccepted, Decoded
    <3>2. m.royalty \in Royalty \cup {Absent, Null}
      BY DEF UpdateMsg
    <3>3. Decode(m.royalty) \in Royalty \cup {None}
      BY <3>2 DEF Decode
    <3>4. CASE Decode(m.royalty) = None
      BY <2>3, <3>4 DEF Updated
    <3>5. CASE Decode(m.royalty) # None
      <4>1. Decode(m.royalty) \in Royalty /\ Decode(m.royalty) # Clear
        BY <3>3, <3>5, ConstantAssumption
      <4>2. r = Decode(m.royalty)
        BY <3>5, <4>1 DEF Updated
      <4> QED
        BY <3>1, <3>5, <4>1, <4>2
    <3> QED
      BY <3>4, <3>5
  <2>8. info' \in InfoMsg
    BY <2>2, <2>4, <2>5, <2>6, <2>7 DEF InfoMsg
  <2>9. info' # None
    BY <2>8, ConstantAssumption
  <2> HIDE DEF d, i, l, r
  <2> QED
    BY <2>1, <2>2, <2>4, <2>5, <2>6, <2>7, <2>9
<1>3. ASSUME owner # None, UNCHANGED <<owner, info>> PROVE InfoInv'
  BY <1>3
<1>4. ASSUME UNCHANGED contractVars PROVE InfoInv'
  BY <1>4 DEF contractVars, Minted
<1>5. \/ \E s \in Account, f \in BOOLEAN, i \in InfoMsg : Instantiate(s, f, i)
      \/ \E a \in BOOLEAN, m \in UpdateMsg : UpdateCollectionInfo(a, m)
      \/ owner # None /\ UNCHANGED <<owner, info>>
      \/ UNCHANGED contractVars
  BY DEF Next, Execute, Tick, vars, Mint, MintAccepted, Transfer, TransferAccepted, Send,
         Approve, ApproveAccepted, Revoke, RevokeAccepted, ApproveAll,
         ApproveAllAccepted, RevokeAll, RevokeAllAccepted, Burn, BurnAccepted
<1> QED
  BY <1>1, <1>2, <1>3, <1>4, <1>5

LEMMA GrantsStep == GrantsInv /\ [Next]_vars => GrantsInv'
<1> SUFFICES ASSUME GrantsInv, [Next]_vars PROVE GrantsInv'
  OBVIOUS
<1> USE DEF GrantsInv
<1>1. ASSUME NEW s \in Account, NEW o \in Address, NEW e \in Expiration,
             ApproveAll(s, o, e), UNCHANGED now
      PROVE  GrantsInv'
  <2>1. o \in Account
    BY <1>1 DEF ApproveAll, ApproveAllAccepted
  <2> QED
    BY <1>1, <2>1 DEF ApproveAll, OtherOperators
<1>2. ASSUME NEW s \in Account, NEW o \in Address, RevokeAll(s, o), UNCHANGED now
      PROVE  GrantsInv'
  BY <1>2 DEF RevokeAll, OtherOperators
<1>3. CASE Tick
  BY <1>3 DEF Tick, contractVars
<1>4. ASSUME UNCHANGED <<operators, now>> PROVE GrantsInv'
  BY <1>4
<1>5. \/ \E s \in Account, o \in Address, e \in Expiration :
            ApproveAll(s, o, e) /\ UNCHANGED now
      \/ \E s \in Account, o \in Address : RevokeAll(s, o) /\ UNCHANGED now
      \/ Tick
      \/ UNCHANGED <<operators, now>>
  BY DEF Next, Execute, vars, contractVars, Instantiate, Mint, Transfer, Send, Approve,
         Revoke, Burn, UpdateCollectionInfo
<1> QED
  BY <1>1, <1>2, <1>3, <1>4, <1>5

-----------------------------------------------------------------------------
(* The invariant *)

LEMMA InitInv == Init => IInv
<1> SUFFICES ASSUME Init PROVE IInv
  OBVIOUS
<1>1. Minted = {}
  BY DEF Init, Minted
<1>2. TokensInv
  BY <1>1 DEF Init, TokensInv, ApprovalsOfCurrentOwner
<1>3. InfoInv
  BY <1>1 DEF Init, InfoInv
<1>4. CountInv
  BY <1>1, FS_EmptySet DEF Init, CountInv, CountMatchesTokens
<1>5. GrantsInv
  BY DEF Init, GrantsInv
<1> QED
  BY <1>2, <1>3, <1>4, <1>5 DEF IInv

LEMMA StepInv == IInv /\ [Next]_vars => IInv'
BY StepChangesTokens, TokensStep, CountStep, InfoStep, GrantsStep DEF IInv

LEMMA InvTypes == IInv => TypeOK
<1> SUFFICES ASSUME IInv PROVE TypeOK
  OBVIOUS
<1>1. tokenCount \in Nat
  BY FS_CardinalityType DEF IInv, CountInv, CountMatchesTokens
<1>2. tokens \in [TokenId -> [owner : Account, approvals : SUBSET Approval] \cup {None}]
  BY DEF IInv, TokensInv, Token
<1> QED
  BY <1>1, <1>2 DEF IInv, InfoInv, GrantsInv, TypeOK

LEMMA Invariance == Spec => []IInv
BY InitInv, StepInv, PTL DEF Spec

\* The storage of the collection always has its types, and what it publishes about
\* itself is within its limits.
THEOREM TypeCorrect == Spec => []TypeOK
BY Invariance, InvTypes, PTL

\* num_tokens is the number of tokens, after every mint, transfer and burn.
THEOREM CountExact == Spec => []CountMatchesTokens
<1>1. IInv => CountMatchesTokens
  BY DEF IInv, CountInv
<1> QED
  BY <1>1, Invariance, PTL

\* No approval survives the ownership it was given under.
THEOREM NoStaleApproval == Spec => []ApprovalsOfCurrentOwner
<1>1. IInv => ApprovalsOfCurrentOwner
  BY DEF IInv, TokensInv
<1> QED
  BY <1>1, Invariance, PTL

\* The minter that instantiated the collection is its owner for good.
THEOREM OwnerForGood == Spec => OwnerIsPermanent
<1> DEFINE Keep == /\ owner # None => owner' = owner
                   /\ Minted' \ Minted # {} => owner # None
<1>1. ASSUME IInv, [Next]_vars PROVE [Keep]_vars
  <2>1. owner # None => owner' = owner
    BY <1>1 DEF Next, Execute, Tick, vars, contractVars, Instantiate,
         InstantiateAccepted, Mint, Transfer, Send, Approve, Revoke, ApproveAll,
         RevokeAll, Burn, UpdateCollectionInfo
  <2>2. TokenChange
    BY <1>1, StepChangesTokens DEF IInv
  <2>3. owner # None \/ Keeps
    BY <2>2 DEF TokenChange, Creates, Hands, Grants, Removes
  <2>4. Keeps => Minted' = Minted
    BY DEF Keeps, Minted
  <2> QED
    BY <2>1, <2>3, <2>4
<1>2. Spec => [][Keep]_vars
  BY <1>1, Invariance, PTL DEF Spec
<1> QED
  BY <1>2 DEF OwnerIsPermanent


LEMMA WholeShare ==
  ASSUME NEW one \in Nat \ {0}, NEW share \in Nat
  PROVE  (one * share) \div one = share
<1> DEFINE q == (one * share) \div one
<1>1. q \in Int /\ one * q <= one * share /\ one * share < one * q + one
  OBVIOUS
<1> HIDE DEF q
<1>2. q >= share + 1 => one * q >= one * (share + 1)
  BY <1>1
<1>3. q <= share - 1 => one * q <= one * (share - 1)
  BY <1>1
<1>4. one * (share + 1) = one * share + one /\ one * (share - 1) = one * share - one
  OBVIOUS
<1>5. one * q \in Int /\ one * share \in Int
  BY <1>1
<1>6. ~(q >= share + 1) /\ ~(q <= share - 1)
  BY <1>1, <1>2, <1>3, <1>4, <1>5
<1> QED
  BY <1>1, <1>6 DEF q

\* check_royalties and royalty_info never contradict each other in one state: there are
\* royalties exactly if there is something to pay on a sale of one whole.
THEOREM RoyaltyQueriesAgree ==
  Spec => [](info # None => (CheckRoyalties <=> RoyaltyAmount(One) # 0))
<1> DEFINE Agree == info # None => (CheckRoyalties <=> RoyaltyAmount(One) # 0)
<1>1. IInv => Agree
  <2> SUFFICES ASSUME IInv, info # None PROVE CheckRoyalties <=> RoyaltyAmount(One) # 0
    OBVIOUS
  <2>1. CASE info.royalty = None
    BY <2>1 DEF CheckRoyalties, RoyaltyAmount
  <2>2. CASE info.royalty # None
    <3>1. info.royalty.share \in Nat /\ One \in Nat \ {0}
      BY <2>2, ConstantAssumption DEF IInv, InfoInv, Royalty
    <3>2. RoyaltyAmount(One) = info.royalty.share
      BY <2>2, <3>1, WholeShare DEF RoyaltyAmount
    <3> QED
      BY <2>2, <3>2 DEF CheckRoyalties
  <2> QED
    BY <2>1, <2>2
<1> QED
  BY <1>1, Invariance, PTL
=============================================================================
