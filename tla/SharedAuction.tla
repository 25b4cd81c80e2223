--------------------------- MODULE SharedAuction ----------------------------
(***************************************************************************)
(* What is left of Auction when several server processes share the         *)
(* database.  Bids and sales are still atomic, recorded together with what *)
(* they do to the item, and never lost; but a bid may lower the price, and *)
(* a sale may be to a bidder who was overbid.  BidServer implements this   *)
(* for any number of processes.                                            *)
(***************************************************************************)
EXTENDS Integers, Sequences

CONSTANTS Users, SellerIds, Items, Prices  \* as in Auction

VARIABLES items, bids, transactions

vars == <<items, bids, transactions>>

Sole == INSTANCE Auction

\* A bid is recorded together with the price it sets, at the starting price or
\* above.  No user offers the same amount twice for an item.
Bid(user, i, amount, seller) ==
    /\ i \in DOMAIN items
    /\ amount >= items[i].start
    /\ \A b \in Sole!BidsOn(i) : b.user = user => b.amount # amount
    /\ bids' = bids \cup {[user |-> user, item |-> i, amount |-> amount, seller |-> seller]}
    /\ items' = [items EXCEPT ![i].price = amount]
    /\ UNCHANGED transactions

\* An item is sold to one who bid for it, at the price he bid.
Sell(i, b) ==
    /\ b \in Sole!BidsOn(i)
    /\ transactions' = Append(transactions, [item |-> i, buyer |-> b.user,
                                             seller |-> b.seller, price |-> b.amount])
    /\ items' = [items EXCEPT ![i].status = "sold"]
    /\ UNCHANGED bids

Next ==
    \/ \E i \in Items, u \in Users, p \in Prices : Sole!Open(i, u, p)
    \/ \E i \in Items, u \in Users, p \in Prices, v \in SellerIds : Bid(u, i, p, v)
    \/ \E i \in Items : \E b \in bids : Sell(i, b)

Spec == Sole!Init /\ [][Next]_vars
=============================================================================
