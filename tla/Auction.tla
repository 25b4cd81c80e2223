------------------------------ MODULE Auction -------------------------------
(***************************************************************************)
(* What BidNet promises about its marketplace, with no server, transaction *)
(* or failure in sight: a table of items, one of bids and one of sales,    *)
(* and three atomic things that may happen to them.  BidServer implements  *)
(* this when one server process runs.                                      *)
(***************************************************************************)
EXTENDS Integers, Sequences

CONSTANTS
    Users,     \* registered users
    SellerIds, \* ids a bid may name as its seller
    Items,     \* ids an item may get
    Prices     \* values of a price column, in cents

VARIABLES items, bids, transactions

vars == <<items, bids, transactions>>

BidsOn(i) == {b \in bids : b.item = i}

\* A best offer for item i.
IsHighest(b, i) == b \in BidsOn(i) /\ \A c \in BidsOn(i) : c.amount <= b.amount

Init ==
    /\ items = [i \in {} |-> {}]
    /\ bids = {}
    /\ transactions = <<>>

\* An item is put up for auction; its price starts at the starting price.
Open(i, owner, start) ==
    /\ i \notin DOMAIN items
    /\ items' = [j \in DOMAIN items \cup {i} |->
                   IF j = i THEN [owner |-> owner, start |-> start,
                                  price |-> start, status |-> "active"]
                   ELSE items[j]]
    /\ UNCHANGED <<bids, transactions>>

\* A bid is recorded together with the price it sets, which never falls.  No
\* user offers the same amount twice for an item.
Bid(user, i, amount, seller) ==
    /\ i \in DOMAIN items
    /\ amount >= items[i].price
    /\ \A b \in BidsOn(i) : b.user = user => b.amount # amount
    /\ bids' = bids \cup {[user |-> user, item |-> i, amount |-> amount, seller |-> seller]}
    /\ items' = [items EXCEPT ![i].price = amount]
    /\ UNCHANGED transactions

\* An item is sold to a highest bidder at the price bid, and marked sold.
Sell(i, b) ==
    /\ IsHighest(b, i)
    /\ b.amount = items[i].price
    /\ transactions' = Append(transactions, [item |-> i, buyer |-> b.user,
                                             seller |-> b.seller, price |-> b.amount])
    /\ items' = [items EXCEPT ![i].status = "sold"]
    /\ UNCHANGED bids

Next ==
    \/ \E i \in Items, u \in Users, p \in Prices : Open(i, u, p)
    \/ \E i \in Items, u \in Users, p \in Prices, v \in SellerIds : Bid(u, i, p, v)
    \/ \E i \in Items : \E b \in bids : Sell(i, b)

Spec == Init /\ [][Next]_vars
=============================================================================
