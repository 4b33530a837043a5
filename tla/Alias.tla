-------------------------------- MODULE Alias --------------------------------
(***************************************************************************)
(* One alias name (wcg/Alias and the five alias transactions of            *)
(* TransactionType.Messaging): who owns it and on what offer it stands,    *)
(* kept in two versioned tables while blocks are pushed and popped off.    *)
(*                                                                         *)
(* The tables are instances of VersionedTable.  The alias transactions all *)
(* share one duplicate key, so a block holds at most one for the name.     *)
(* Trimming is off here: it is the subject of VersionedTable.              *)
(***************************************************************************)
EXTENDS Integers, Sequences, SequencesExt

CONSTANTS
    Account,
    Price,
    TransactionId,  \* An alias has the id of the transaction that created it.
    Anyone,         \* Buyer of an offer that is open to all accounts.
    None, NoRow,    \* A missing entity, a missing row.
    MaxHeight       \* Bound on the height of the chain.

ASSUME PriceAssumption == Price \subseteq Nat \ {0}
ASSUME HeightAssumption == MaxHeight \in Nat
ASSUME AbsenceAssumption ==
    LET Rows == [owner : Account] \cup [price : Price, buyer : Account \cup {Anyone}]
    IN  None \notin Rows \cup TransactionId /\ NoRow \notin Rows \cup {None}

VARIABLES
    chain,          \* The alias transaction of every block, or Nothing.
    accepting,      \* The last block is saved but not yet applied.
    aliasRow, aliasLatest,      \* Table alias
    offerRow, offerLatest       \* Table alias_offer

aliasTable == <<aliasRow, aliasLatest>>
offerTable == <<offerRow, offerLatest>>
vars == <<chain, accepting, aliasTable, offerTable>>

Height == Len(chain)

AliasTable == INSTANCE VersionedTable WITH
    Keys <- TransactionId, Values <- [owner : Account], Reused <- TransactionId,
    height <- Height, version <- aliasRow, latest <- aliasLatest, trimmed <- 0

OfferTable == INSTANCE VersionedTable WITH
    Keys <- TransactionId, Values <- [price : Price, buyer : Account \cup {Anyone}],
    Reused <- TransactionId,
    height <- Height, version <- offerRow, latest <- offerLatest, trimmed <- 0

-----------------------------------------------------------------------------
(* Transactions *)

Nothing == [type |-> "none"]

AliasAssignment == [type : {"assign"}, id : TransactionId, sender : Account]
AliasSell == [type : {"sell"}, sender : Account, price : Price,
              recipient : Account \cup {Anyone}]
AliasTransfer == [type : {"transfer"}, sender : Account, recipient : Account]
AliasBuy == [type : {"buy"}, sender : Account, recipient : Account, amount : Price]
AliasDelete == [type : {"delete"}, sender : Account]

Transaction == {Nothing} \cup AliasAssignment \cup AliasSell \cup AliasTransfer
                  \cup AliasBuy \cup AliasDelete

IncludedIds == {chain[h].id : h \in {g \in 1..Height : chain[g].type = "assign"}}

-----------------------------------------------------------------------------
(* The tables as of the last block *)

\* getAlias(name): the id of the alias, if there is one.
CurrentId == {id \in TransactionId : AliasTable!Get(id, Height) # None}
Id == CHOOSE id \in CurrentId : TRUE
OwnedBy(a) == CurrentId # {} /\ AliasTable!Get(Id, Height).owner = a
Offer == OfferTable!Get(Id, Height)

\* validateAttachment
Valid(t) ==
    CASE t.type = "none"     -> TRUE
      [] t.type = "assign"   -> t.id \notin IncludedIds /\ (CurrentId = {} \/ OwnedBy(t.sender))
      [] t.type = "sell"     -> OwnedBy(t.sender)
      [] t.type = "transfer" -> OwnedBy(t.sender)
      [] t.type = "delete"   -> OwnedBy(t.sender)
      [] t.type = "buy"      -> /\ OwnedBy(t.recipient)
                                /\ Offer # None
                                /\ t.amount >= Offer.price
                                /\ Offer.buyer \in {Anyone, t.sender}

DeleteOffer ==
    IF Offer # None THEN OfferTable!Delete(Id, Offer) ELSE UNCHANGED offerTable

AddOrUpdateAlias(id, a) ==
    /\ AliasTable!Insert(IF CurrentId = {} THEN id ELSE Id, [owner |-> a])
    /\ UNCHANGED offerTable

SellAlias(price, buyer) ==
    /\ OfferTable!Insert(Id, [price |-> price, buyer |-> buyer])
    /\ UNCHANGED aliasTable

\* MUTANT: the buyer is taken from the offer, even if it is open to anyone.
ChangeOwnerByOffer(a) ==
    /\ AliasTable!Insert(Id, [owner |-> IF Offer # None /\ Offer.buyer = Anyone
                                        THEN Anyone ELSE a])
    /\ DeleteOffer

ChangeOwner(a) ==
    /\ AliasTable!Insert(Id, [owner |-> a])
    /\ DeleteOffer

\* MUTANT: the owner is forgotten at once, at every height.
DeleteAliasRows ==
    /\ DeleteOffer
    /\ aliasRow' = [aliasRow EXCEPT ![Id] = [h \in 0..MaxHeight |-> NoRow]]
    /\ aliasLatest' = [aliasLatest EXCEPT ![Id] = {}]

DeleteAlias ==
    /\ DeleteOffer
    /\ AliasTable!Delete(Id, AliasTable!Get(Id, Height))

-----------------------------------------------------------------------------
(* Blocks *)

Init ==
    /\ chain = <<>> /\ accepting = FALSE
    /\ aliasRow = [id \in TransactionId |-> [h \in 0..MaxHeight |-> NoRow]]
    /\ aliasLatest = [id \in TransactionId |-> {}]
    /\ offerRow = aliasRow /\ offerLatest = aliasLatest

\* A block is validated against the tables as of the block before it.
PushBlock(t) ==
    /\ ~accepting /\ Height < MaxHeight
    /\ Valid(t)
    /\ chain' = Append(chain, t) /\ accepting' = TRUE
    /\ UNCHANGED <<aliasTable, offerTable>>

\* applyAttachment
Apply(t) ==
    CASE t.type = "none"     -> UNCHANGED <<aliasTable, offerTable>>
      [] t.type = "assign"   -> AddOrUpdateAlias(t.id, t.sender)
      [] t.type = "sell"     -> SellAlias(t.price, t.recipient)
      [] t.type = "transfer" -> ChangeOwner(t.recipient)
      [] t.type = "buy"      -> ChangeOwner(t.sender)
      [] t.type = "delete"   -> DeleteAlias

AcceptBlock ==
    /\ accepting
    /\ UNCHANGED chain
    /\ Apply(chain[Height])
    /\ accepting' = FALSE

\* popOffTo(h): both tables are rolled back.
PopOffTo(h) ==
    /\ ~accepting /\ h < Height
    /\ chain' = SubSeq(chain, 1, h)
    /\ AliasTable!Rollback(h)
    /\ OfferTable!Rollback(h)
    /\ UNCHANGED accepting

Next ==
    \/ \E t \in Transaction : PushBlock(t)
    \/ AcceptBlock
    \/ \E h \in 0..MaxHeight : PopOffTo(h)

Spec == Init /\ [][Next]_vars

-----------------------------------------------------------------------------
(* What the blocks say, without tables *)

NoAlias == [id |-> None, owner |-> None, offer |-> None]

Execute(state, t) ==
    CASE t.type = "none"     -> state
      [] t.type = "assign"   -> [state EXCEPT !.id = IF @ = None THEN t.id ELSE @,
                                              !.owner = t.sender]
      [] t.type = "sell"     -> [state EXCEPT !.offer =
                                    [price |-> t.price, buyer |-> t.recipient]]
      [] t.type = "transfer" -> [state EXCEPT !.owner = t.recipient, !.offer = None]
      [] t.type = "buy"      -> [state EXCEPT !.owner = t.sender, !.offer = None]
      [] t.type = "delete"   -> NoAlias

Replayed(h) == FoldLeft(Execute, NoAlias, SubSeq(chain, 1, h))

-----------------------------------------------------------------------------
(* Properties *)

TypeOK ==
    /\ chain \in Seq(Transaction) /\ Height <= MaxHeight
    /\ accepting \in BOOLEAN
    /\ AliasTable!TypeOK
    /\ OfferTable!TypeOK

\* Whatever was popped off before, the owner of the alias at the last block,
\* and at every block below it, is the one a node gets that runs the blocks of
\* the chain only: nodes that agree on the chain agree on the owner.
OwnerAsReplayed ==
    ~accepting =>
        \A h \in 0..Height, id \in TransactionId :
            AliasTable!Get(id, h) = IF id = Replayed(h).id
                                    THEN [owner |-> Replayed(h).owner] ELSE None

\* The alias is for sale exactly on the terms of its owner's last offer.
OfferAsReplayed ==
    ~accepting /\ CurrentId # {} => Offer = Replayed(Height).offer
=============================================================================
