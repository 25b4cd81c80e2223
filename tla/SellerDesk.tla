----------------------------- MODULE SellerDesk -----------------------------
(***************************************************************************)
(* The profile page (client Profile.tsx) of one seller, open in several    *)
(* tabs, over the marketplace of Auction.                                  *)
(*                                                                         *)
(* A tab reads the seller's items once, in one request for the list and    *)
(* one per item for its price, and the sold transactions at the start and  *)
(* after every sale.  Nothing orders the answers, and the sell button      *)
(* stays usable while a sale is on its way.                                *)
(*                                                                         *)
(* The server is BidServer with one process, seen between transactions:    *)
(* Auction says what a bid and a sale do to the tables.  A tab that is     *)
(* closed or reloaded is a tab whose answers get lost and a new tab.       *)
(***************************************************************************)
EXTENDS Integers, Sequences

CONSTANTS
    Tabs,      \* profile pages of the seller
    Seller,
    Users,     \* registered users, the seller among them
    Items,     \* the seller's items
    Prices,    \* what bids may set a price to, in cents
    Start,     \* starting price of the items, in cents
    MaxClicks, \* bound: unanswered sell requests of a tab for one item
    MaxSales   \* bound: sales in a behaviour

ASSUME SellerAssumption == Seller \in Users
ASSUME PriceAssumption == Prices \subseteq Int /\ Start \in Int
ASSUME BoundAssumption == MaxClicks \in Nat /\ MaxSales \in Nat

VARIABLES
    items, bids, transactions,  \* the tables of Auction
    list,         \* list[t]: where the request for the seller's items is
    wanted,       \* wanted[t]: the items that request returned
    found,        \* found[t]: their prices, as far as they have been read
    itemsListed,  \* itemsListed[t]: the items shown with a sell button, and their prices
    sells,        \* sells[t][i]: sell requests of t for i on their way
    oks,          \* oks[t][i]: confirmations of them on their way back
    asks,         \* asks[t]: requests for the sold transactions on their way
    reads,        \* reads[t][n]: answers to them that hold n transactions
    itemsSold     \* itemsSold[t]: how many transactions the sold list shows

tables == <<items, bids, transactions>>
lists == <<list, wanted, found, itemsListed>>
clicks == <<sells, oks>>
solds == <<asks, reads, itemsSold>>
vars == <<tables, lists, clicks, solds>>

Market == INSTANCE Auction WITH SellerIds <- {Seller}

ItemRows == [owner : {Seller}, start : {Start}, price : Int, status : {"active", "sold"}]
SaleRows == [item : Items, buyer : Users, seller : {Seller}, price : Int]

Nothing == [i \in {} |-> 0]

\* The items are open for bids, and no tab is.
Init ==
    /\ items = [i \in Items |-> [owner |-> Seller, start |-> Start, price |-> Start, status |-> "active"]]
    /\ bids = {}
    /\ transactions = <<>>
    /\ list = [t \in Tabs |-> "closed"]
    /\ wanted = [t \in Tabs |-> {}]
    /\ found = [t \in Tabs |-> Nothing]
    /\ itemsListed = [t \in Tabs |-> Nothing]
    /\ sells = [t \in Tabs |-> [i \in Items |-> 0]]
    /\ oks = [t \in Tabs |-> [i \in Items |-> 0]]
    /\ asks = [t \in Tabs |-> 0]
    /\ reads = [t \in Tabs |-> [n \in 1 .. MaxSales |-> 0]]
    /\ itemsSold = [t \in Tabs |-> 0]

-----------------------------------------------------------------------------
(* The market *)

\* A bug: the page names its own user as the seller.
PlaceBidAsSeller ==
    /\ \E u \in Users, i \in Items, a \in Prices : a > items[i].price /\ Market!Bid(u, i, a, u)
    /\ UNCHANGED <<lists, clicks, solds>>

\* Users bid, as place_bid lets them: above the price, naming the owner.
PlaceBid ==
    /\ \E u \in Users, i \in Items, a \in Prices : a > items[i].price /\ Market!Bid(u, i, a, Seller)
    /\ UNCHANGED <<lists, clicks, solds>>

\* A bug: the sale goes to some bid.
SellToAny(i) ==
    /\ \E b \in Market!BidsOn(i) :
         transactions' = Append(transactions, [item |-> i, buyer |-> b.user,
                                               seller |-> b.seller, price |-> b.amount])
    /\ items' = [items EXCEPT ![i].status = "sold"]
    /\ UNCHANGED bids

\* What complete_transaction does when it succeeds, sold before or not.
SellToHighest(i) == Len(transactions) < MaxSales /\ \E b \in bids : Market!Sell(i, b)

-----------------------------------------------------------------------------
(* fetchListedItems *)

\* A new tab asks for the seller's items and for the sold transactions.
OpenTab(t) ==
    /\ list[t] = "closed"
    /\ list' = [list EXCEPT ![t] = "asked"]
    /\ asks' = [asks EXCEPT ![t] = @ + 1]
    /\ UNCHANGED <<tables, wanted, found, itemsListed, clicks, reads, itemsSold>>

\* get_all_items: the seller's items that are active now.
ReadItems(t) ==
    /\ list[t] = "asked"
    /\ list' = [list EXCEPT ![t] = "detailed"]
    /\ wanted' = [wanted EXCEPT ![t] = {i \in Items : items[i].status = "active"}]
    /\ UNCHANGED <<tables, found, itemsListed, clicks, solds>>

\* get_item_details: the item's price, read when its own request is served.
ReadDetails(t) ==
    /\ list[t] = "detailed"
    /\ \E i \in wanted[t] \ DOMAIN found[t] :
         found' = [found EXCEPT ![t] = [j \in DOMAIN @ \cup {i} |-> IF j = i THEN items[i].price ELSE @[j]]]
    /\ UNCHANGED <<tables, list, wanted, itemsListed, clicks, solds>>

\* Promise.all: the items are shown once all their details are there.
ShowList(t) ==
    /\ list[t] = "detailed" /\ DOMAIN found[t] = wanted[t]
    /\ list' = [list EXCEPT ![t] = "shown"]
    /\ itemsListed' = [itemsListed EXCEPT ![t] = found[t]]
    /\ UNCHANGED <<tables, wanted, found, clicks, solds>>

\* A request for the list or for one item fails: no item is shown.
ListFailed(t) ==
    /\ list[t] \in {"asked", "detailed"}
    /\ list' = [list EXCEPT ![t] = "failed"]
    /\ UNCHANGED <<tables, wanted, found, itemsListed, clicks, solds>>

-----------------------------------------------------------------------------
(* handleSellItem *)

SellItem(t) ==
    /\ \E i \in DOMAIN itemsListed[t] :
         sells[t][i] < MaxClicks /\ sells' = [sells EXCEPT ![t][i] = @ + 1]
    /\ UNCHANGED <<tables, lists, oks, solds>>

\* The request for i reaches the server, or fails.
Receive(t, i) == sells[t][i] > 0 /\ sells' = [sells EXCEPT ![t][i] = @ - 1]

ServeSell(t) ==
    /\ \E i \in Items : Receive(t, i) /\ SellToHighest(i) /\ oks' = [oks EXCEPT ![t][i] = @ + 1]
    /\ UNCHANGED <<lists, solds>>

\* The sale is recorded, but the page hears of a failure or of nothing.
SellInDoubt(t) ==
    /\ \E i \in Items : Receive(t, i) /\ SellToHighest(i)
    /\ UNCHANGED <<lists, oks, solds>>

\* 404, no bids: the page says so and keeps its lists.
RefuseSell(t) ==
    /\ \E i \in Items : Market!BidsOn(i) = {} /\ Receive(t, i)
    /\ UNCHANGED <<tables, lists, oks, solds>>

\* The page's list without item i.
WithoutItem(t, i) == [itemsListed EXCEPT ![t] = [j \in DOMAIN @ \ {i} |-> @[j]]]

\* A bug: the item leaves the list however the sale ends.
SellFailedAndGone(t) ==
    /\ \E i \in Items : Receive(t, i) /\ itemsListed' = WithoutItem(t, i)
    /\ UNCHANGED <<tables, list, wanted, found, oks, solds>>

\* Any other failure before the sale is recorded.
SellFailed(t) ==
    /\ \E i \in Items : Receive(t, i)
    /\ UNCHANGED <<tables, lists, oks, solds>>

\* "Sold Successfully!": the item leaves the list, and the sold transactions
\* are asked for again.
ShowOk(t) ==
    /\ \E i \in Items :
         /\ oks[t][i] > 0 /\ oks' = [oks EXCEPT ![t][i] = @ - 1]
         /\ itemsListed' = WithoutItem(t, i)
    /\ asks' = [asks EXCEPT ![t] = @ + 1]
    /\ UNCHANGED <<tables, list, wanted, found, sells, reads, itemsSold>>

-----------------------------------------------------------------------------
(* fetchSoldTransactions *)

\* get_transactions_for_seller: all sales so far; 404, which changes nothing
\* on the page, if there are none.
ReadSold(t) ==
    /\ asks[t] > 0 /\ asks' = [asks EXCEPT ![t] = @ - 1]
    /\ LET n == Len(transactions) IN
         \/ n = 0 /\ UNCHANGED reads
         \/ n > 0 /\ reads' = [reads EXCEPT ![t][n] = @ + 1]
    /\ UNCHANGED <<tables, lists, clicks, itemsSold>>

\* The request fails, or its answer gets lost.
SoldFailed(t) ==
    /\ asks[t] > 0 /\ asks' = [asks EXCEPT ![t] = @ - 1]
    /\ UNCHANGED <<tables, lists, clicks, reads, itemsSold>>

\* The answers are shown in the order of their arrival.
ShowSold(t) ==
    /\ \E n \in 1 .. MaxSales :
         /\ reads[t][n] > 0 /\ reads' = [reads EXCEPT ![t][n] = @ - 1]
         /\ itemsSold' = [itemsSold EXCEPT ![t] = n]
    /\ UNCHANGED <<tables, lists, clicks, asks>>

-----------------------------------------------------------------------------
Work(t) ==
    \/ OpenTab(t) \/ ReadItems(t) \/ ReadDetails(t) \/ ShowList(t)
    \/ SellItem(t) \/ ServeSell(t) \/ RefuseSell(t) \/ ShowOk(t)
    \/ ReadSold(t) \/ ShowSold(t)

Fail(t) == ListFailed(t) \/ SellInDoubt(t) \/ SellFailed(t) \/ SoldFailed(t)

Next == PlaceBid \/ \E t \in Tabs : Work(t) \/ Fail(t)

Spec == Init /\ [][Next]_vars

\* Behaviours in which no request fails and no answer is lost.
HealthySpec == Init /\ [][PlaceBid \/ \E t \in Tabs : Work(t)]_vars

-----------------------------------------------------------------------------
(* Properties *)

\* The values the variables take.
TypeOK ==
    /\ items \in [Items -> ItemRows]
    /\ \A b \in bids : b.user \in Users /\ b.item \in Items /\ b.amount \in Int /\ b.seller = Seller
    /\ transactions \in Seq(SaleRows) /\ Len(transactions) <= MaxSales
    /\ list \in [Tabs -> {"closed", "asked", "detailed", "shown", "failed"}]
    /\ wanted \in [Tabs -> SUBSET Items]
    /\ DOMAIN found = Tabs /\ DOMAIN itemsListed = Tabs
    /\ \A t \in Tabs :
         /\ found[t] \in [DOMAIN found[t] -> Int] /\ DOMAIN found[t] \subseteq Items
         /\ itemsListed[t] \in [DOMAIN itemsListed[t] -> Int] /\ DOMAIN itemsListed[t] \subseteq Items
    /\ sells \in [Tabs -> [Items -> 0 .. MaxClicks]]
    /\ oks \in [Tabs -> [Items -> Nat]]
    /\ asks \in [Tabs -> Nat]
    /\ reads \in [Tabs -> [1 .. MaxSales -> Nat]]
    /\ itemsSold \in [Tabs -> 0 .. MaxSales]

HasSale(i) == \E k \in DOMAIN transactions : transactions[k].item = i

\* No item goes for less than the seller sees next to its button, in any tab,
\* although the price was read long before and bids go on.
NeverSoldBelowListed ==
    [][\A k \in DOMAIN transactions' \ DOMAIN transactions : \A t \in Tabs :
          LET sale == transactions'[k] IN
          sale.item \in DOMAIN itemsListed[t] => sale.price >= itemsListed[t][sale.item]]_vars

\* An item that a tab has taken off its list has been sold, also when sales
\* fail, are answered late or are clicked twice.
GoneIsSold ==
    \A t \in Tabs : list[t] = "shown" =>
        \A i \in DOMAIN found[t] \ DOMAIN itemsListed[t] : HasSale(i)

(* The inductive invariant behind them *)

\* Prices never fall, so what a tab has read is at most the price.
ListedAtMostPrice ==
    \A t \in Tabs :
        /\ \A i \in DOMAIN found[t] : found[t][i] <= items[i].price
        /\ \A i \in DOMAIN itemsListed[t] : itemsListed[t][i] <= items[i].price

\* Only a recorded sale is confirmed.
ConfirmedIsSold == \A t \in Tabs, i \in Items : oks[t][i] > 0 => HasSale(i)

IInv == TypeOK /\ ListedAtMostPrice /\ ConfirmedIsSold /\ GoneIsSold

-----------------------------------------------------------------------------
(* What a comment of the page says and the code does not do *)

\* "Refresh sold transactions to reflect the new sale.": a tab at rest shows as
\* many sales as it has seen confirmed items.
RestingTabShowsItsSales ==
    \A t \in Tabs :
        /\ list[t] = "shown" /\ asks[t] = 0
        /\ \A n \in 1 .. MaxSales : reads[t][n] = 0
        /\ \A i \in Items : sells[t][i] = 0 /\ oks[t][i] = 0
        => \A i \in DOMAIN found[t] \ DOMAIN itemsListed[t] :
             \E k \in 1 .. itemsSold[t] : transactions[k].item = i
=============================================================================
