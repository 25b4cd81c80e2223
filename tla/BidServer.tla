----------------------------- MODULE BidServer ------------------------------
(***************************************************************************)
(* The marketplace of BidNet: server processes that run the handlers       *)
(* create_auction, place_bid and complete_transaction of server/main.cpp   *)
(* against one PostgreSQL database.                                        *)
(*                                                                         *)
(* A process serves requests one at a time: Crow starts concurrency - 1    *)
(* worker threads, and the default concurrency is 2.  Each handler runs    *)
(* one transaction on the process's only connection, a step per SQL        *)
(* statement; the database runs READ COMMITTED, so a transaction sees what *)
(* is committed and its own writes appear at COMMIT.  Locks are not        *)
(* variables: who holds one follows from the program counters.             *)
(*                                                                         *)
(* Simplifications: names, descriptions and times are left out (no handler *)
(* decides on them); a row's serial id is chosen when the request that     *)
(* inserts it arrives; all users are registered before the first request.  *)
(***************************************************************************)
EXTENDS Money, Sequences, FiniteSets

CONSTANTS
    Servers,     \* server processes sharing the database
    Users,       \* ids of registered users
    UserIds,     \* user ids a request may carry, registered or not
    SellerIds,   \* seller ids a bid request may carry
    Items,       \* ids the database may give an item
    ItemIds,     \* item ids a request may carry
    Amounts,     \* amounts of bid requests, in mills
    Starts,      \* starting prices of create requests, in mills
    PriceLimit,  \* what a price column cannot hold, in cents
    MaxSales     \* bound: sales begun in a behaviour

ASSUME UserAssumption == Users \subseteq UserIds /\ UserIds \subseteq Int
ASSUME ItemAssumption == Items \subseteq ItemIds /\ ItemIds \subseteq Int
ASSUME SellerAssumption == SellerIds \subseteq Int
ASSUME MoneyAssumption == Amounts \subseteq Int /\ Starts \subseteq Int
                            /\ PriceLimit \in Nat /\ MaxSales \in Nat

VARIABLES
    items,         \* table items: a function from the ids in use to rows
    bids,          \* table bids: a set, its UNIQUE constraint is the key
    transactions,  \* table transactions, in commit order
    announced,     \* prices ever broadcast to the WebSocket clients
    connected,     \* connected[s]: the database link of s works
    pc,            \* pc[s]: the statement the handler of s runs next
    req,           \* req[s]: the request s is serving
    won,           \* won[s]: the row the top-bid SELECT returned
    status         \* status[s]: the HTTP status s is about to send

tables == <<items, bids, transactions>>
handler == <<pc, req, won, status>>
vars == <<tables, announced, connected, handler>>

-----------------------------------------------------------------------------
(* Data *)

NoRequest == [op |-> "none"]
BidRequests == [op : {"bid"}, user : UserIds, item : ItemIds,
                amount : Amounts, seller : SellerIds]
SaleRequests == [op : {"sale"}, item : ItemIds]
CreateRequests == [op : {"create"}, user : UserIds, item : Items, start : Starts]

NoBid == [user |-> 0]
BidRows == [user : Users, item : Items, amount : Int, seller : SellerIds]
ItemRows == [owner : Users, start : Int, price : Int, status : {"active", "sold"}]
SaleRows == [item : Items, buyer : Users, seller : Users, price : Int]

BidSteps == {"select_price", "insert_bid", "update_price", "commit_bid"}
SaleSteps == {"select_top", "insert_sale", "mark_sold", "commit_sale"}
CreateSteps == {"insert_item", "commit_item"}
TxnSteps == BidSteps \cup SaleSteps \cup CreateSteps
Steps == TxnSteps \cup {"idle", "broadcast", "respond", "down"}

\* The row a bid request stores: the column rounds the amount to cents.
BidRow(r) == [user |-> r.user, item |-> r.item,
              amount |-> Cents(r.amount), seller |-> r.seller]

BidsOn(i) == {b \in bids : b.item = i}

\* A bug: ORDER BY bid_amount without DESC.
LowestBids(i) == {b \in BidsOn(i) : \A c \in BidsOn(i) : b.amount <= c.amount}

\* Rows that ORDER BY bid_amount DESC LIMIT 1 may return; ties in any order.
TopBids(i) == {b \in BidsOn(i) : \A c \in BidsOn(i) : c.amount <= b.amount}

\* UNIQUE (user_id, item_id, bid_amount) of table bids.
SameKey(b, c) == b.user = c.user /\ b.item = c.item /\ b.amount = c.amount

\* A bug: there is no UNIQUE key, and each handler looks for its bid itself.
KeyFreeAlways(s) == TRUE

\* A transaction that inserted a bid keeps others off its key until it ends;
\* one that updated an item's row keeps other updates of the row waiting.
KeyFree(s) ==
    \A t \in Servers \ {s} : pc[t] \in {"update_price", "commit_bid"} =>
        ~SameKey(BidRow(req[t]), BidRow(req[s]))

\* A bug: the row is locked when the price is read, with SELECT ... FOR SHARE.
RowFreeOfReaders(s) ==
    \A t \in Servers \ {s} : pc[t] \in {"insert_bid", "update_price", "commit_bid", "commit_sale"} =>
        req[t].item # req[s].item

RowFree(s) ==
    \A t \in Servers \ {s} : pc[t] \in {"commit_bid", "commit_sale"} =>
        req[t].item # req[s].item

-----------------------------------------------------------------------------
Init ==
    /\ items = [i \in {} |-> {}]
    /\ bids = {}
    /\ transactions = <<>>
    /\ announced = {}
    /\ connected = [s \in Servers |-> TRUE]
    /\ pc = [s \in Servers |-> "idle"]
    /\ req = [s \in Servers |-> NoRequest]
    /\ won = [s \in Servers |-> NoBid]
    /\ status = [s \in Servers |-> 0]

Goto(s, step) == pc' = [pc EXCEPT ![s] = step] /\ UNCHANGED status
Answer(s, code) == pc' = [pc EXCEPT ![s] = "respond"]
                    /\ status' = [status EXCEPT ![s] = code]

\* A statement that writes nothing others can see.
Quiet == UNCHANGED <<tables, announced, connected, req>>

\* A request arrives and the handler opens its transaction (BEGIN fails on a
\* broken link: the connection is made once, when the process starts).
Begin(s, r, first) ==
    /\ req' = [req EXCEPT ![s] = r]
    /\ \/ connected[s] /\ Goto(s, first)
       \/ ~connected[s] /\ Answer(s, 500)
    /\ UNCHANGED <<tables, announced, connected, won>>

-----------------------------------------------------------------------------
(* POST /place_bid *)

ValidBid(r) == r.user > 0 /\ r.item > 0 /\ r.amount > 0

\* A body (of a bid or of a new auction) that is not JSON is refused with
\* 400; one that lacks a number throws, which is a 500.
Malformed(s) ==
    /\ pc[s] = "idle"
    /\ \E code \in {400, 500} : Answer(s, code)
    /\ Quiet /\ UNCHANGED won

InvalidBid(s) ==
    /\ pc[s] = "idle"
    /\ \E r \in BidRequests :
         ~ValidBid(r) /\ req' = [req EXCEPT ![s] = r]
    /\ Answer(s, 400)
    /\ UNCHANGED <<tables, announced, connected, won>>

PlaceBid(s) ==
    /\ pc[s] = "idle"
    /\ \E r \in BidRequests : ValidBid(r) /\ Begin(s, r, "select_price")

\* A bug: the bid is compared with the starting price.
SelectStartingPrice(s) ==
    /\ pc[s] = "select_price"
    /\ LET r == req[s] IN
         \/ r.item \notin DOMAIN items /\ Answer(s, 404)
         \/ /\ r.item \in DOMAIN items
            /\ \/ r.amount <= Mills(items[r.item].start) /\ Answer(s, 400)
               \/ r.amount > Mills(items[r.item].start) /\ Goto(s, "insert_bid")
    /\ Quiet /\ UNCHANGED won

\* The item's price is read; a bid at or below it is refused.
SelectPrice(s) ==
    /\ pc[s] = "select_price"
    /\ LET r == req[s] IN
         \/ r.item \notin DOMAIN items /\ Answer(s, 404)
         \/ /\ r.item \in DOMAIN items
            /\ \/ r.amount <= Mills(items[r.item].price) /\ Answer(s, 400)
               \/ r.amount > Mills(items[r.item].price) /\ Goto(s, "insert_bid")
    /\ Quiet /\ UNCHANGED won

\* A bug: the bidder need not be registered.
InsertableByAnyone(r) ==
    Fits(Cents(r.amount), PriceLimit) /\ \A b \in bids : ~SameKey(b, BidRow(r))

\* A bug: the request is checked, and the column rounds it afterwards.
InsertableUnrounded(r) ==
    /\ r.user \in Users
    /\ r.amount <= Mills(PriceLimit)
    /\ \A b \in bids : ~SameKey(b, BidRow(r))

\* What the table bids accepts: a registered user, an amount the column
\* holds, a key not in use.
Insertable(r) ==
    /\ r.user \in Users
    /\ Fits(Cents(r.amount), PriceLimit)
    /\ \A b \in bids : ~SameKey(b, BidRow(r))

\* A bug: an INSERT that fails is tried again.
InsertBidOrRetry(s) ==
    /\ pc[s] = "insert_bid"
    /\ KeyFree(s)
    /\ \/ Insertable(req[s]) /\ Goto(s, "update_price")
       \/ ~Insertable(req[s]) /\ UNCHANGED <<pc, status>>
    /\ Quiet /\ UNCHANGED won

InsertBid(s) ==
    /\ pc[s] = "insert_bid"
    /\ KeyFree(s)
    /\ \/ Insertable(req[s]) /\ Goto(s, "update_price")
       \/ ~Insertable(req[s]) /\ Answer(s, 500)
    /\ Quiet /\ UNCHANGED won

\* A bug: the price is broadcast before COMMIT.
UpdatePriceAndAnnounce(s) ==
    /\ pc[s] = "update_price"
    /\ RowFree(s)
    /\ Goto(s, "commit_bid")
    /\ announced' = announced \cup {[item |-> req[s].item, amount |-> req[s].amount]}
    /\ UNCHANGED <<tables, connected, req, won>>

\* A bug: the UPDATE is not part of the transaction.
UpdatePriceAtOnce(s) ==
    /\ pc[s] = "update_price"
    /\ RowFree(s)
    /\ Goto(s, "commit_bid")
    /\ items' = [items EXCEPT ![req[s].item].price = Cents(req[s].amount)]
    /\ UNCHANGED <<bids, transactions, announced, connected, req, won>>

UpdatePrice(s) ==
    /\ pc[s] = "update_price"
    /\ RowFree(s)
    /\ Goto(s, "commit_bid")
    /\ Quiet /\ UNCHANGED won

\* A bug: the UPDATE of the price is left out.
StoreBidOnly(s) ==
    /\ pc[s] = "commit_bid"
    /\ bids' = bids \cup {BidRow(req[s])}
    /\ UNCHANGED <<items, transactions>>

\* A bug: the UPDATE writes the whole row back as a fresh listing.
StoreBidRelist(s) ==
    /\ pc[s] = "commit_bid"
    /\ bids' = bids \cup {BidRow(req[s])}
    /\ items' = [items EXCEPT ![req[s].item].price = Cents(req[s].amount),
                              ![req[s].item].status = "active"]
    /\ UNCHANGED transactions

\* A bug: a user's new bid takes the place of his old one.
StoreBidOver(s) ==
    /\ pc[s] = "commit_bid"
    /\ bids' = {b \in bids : b.user # req[s].user \/ b.item # req[s].item} \cup {BidRow(req[s])}
    /\ items' = [items EXCEPT ![req[s].item].price = Cents(req[s].amount)]
    /\ UNCHANGED transactions

\* COMMIT as the database sees it: the row and the price appear together.
\* The price is the request's, whatever the price is by now.
StoreBid(s) ==
    /\ pc[s] = "commit_bid"
    /\ bids' = bids \cup {BidRow(req[s])}
    /\ items' = [items EXCEPT ![req[s].item].price = Cents(req[s].amount)]
    /\ UNCHANGED transactions

\* A bug: no COMMIT, so the transaction is rolled back when it goes out of scope.
ForgetCommitBid(s) ==
    /\ pc[s] = "commit_bid"
    /\ Goto(s, "broadcast")
    /\ Quiet /\ UNCHANGED won

CommitBid(s) ==
    /\ StoreBid(s)
    /\ Goto(s, "broadcast")
    /\ UNCHANGED <<announced, connected, req, won>>

\* The amount as it came in the request goes to every client of this process.
Broadcast(s) ==
    /\ pc[s] = "broadcast"
    /\ announced' = announced \cup {[item |-> req[s].item, amount |-> req[s].amount]}
    /\ Answer(s, 200)
    /\ UNCHANGED <<tables, connected, req, won>>

-----------------------------------------------------------------------------
(* POST /complete_transaction/<item> *)

\* MaxSales bounds the sales of a behaviour.
SaleBound == Len(transactions) + Cardinality({t \in Servers : req[t].op = "sale"})
               < MaxSales

CompleteTransaction(s) ==
    /\ pc[s] = "idle"
    /\ SaleBound
    /\ \E r \in SaleRequests : Begin(s, r, "select_top")

SelectTop(s) ==
    /\ pc[s] = "select_top"
    /\ \/ /\ BidsOn(req[s].item) = {}
          /\ Answer(s, 404)
          /\ UNCHANGED won
       \/ /\ \E b \in TopBids(req[s].item) : won' = [won EXCEPT ![s] = b]
          /\ Goto(s, "insert_sale")
    /\ Quiet

\* transactions.seller_id references users.
InsertSale(s) ==
    /\ pc[s] = "insert_sale"
    /\ \/ won[s].seller \in Users /\ Goto(s, "mark_sold")
       \/ won[s].seller \notin Users /\ Answer(s, 500)
    /\ Quiet /\ UNCHANGED won

MarkSold(s) ==
    /\ pc[s] = "mark_sold"
    /\ RowFree(s)
    /\ Goto(s, "commit_sale")
    /\ Quiet /\ UNCHANGED won

SaleRow(b) == [item |-> b.item, buyer |-> b.user, seller |-> b.seller, price |-> b.amount]

StoreSale(s) ==
    /\ pc[s] = "commit_sale"
    /\ transactions' = Append(transactions, SaleRow(won[s]))
    /\ items' = [items EXCEPT ![req[s].item].status = "sold"]
    /\ UNCHANGED bids

CommitSale(s) ==
    /\ StoreSale(s)
    /\ Answer(s, 200)
    /\ UNCHANGED <<announced, connected, req, won>>

-----------------------------------------------------------------------------
(* POST /create_auction *)

FreshId(i) == i \notin DOMAIN items /\ \A t \in Servers : req[t].op = "create" => req[t].item # i

CreateAuction(s) ==
    /\ pc[s] = "idle"
    /\ \E r \in CreateRequests : FreshId(r.item) /\ Begin(s, r, "insert_item")

InsertItem(s) ==
    /\ pc[s] = "insert_item"
    /\ LET ok == req[s].user \in Users /\ Fits(Cents(req[s].start), PriceLimit) IN
         \/ ok /\ Goto(s, "commit_item")
         \/ ~ok /\ Answer(s, 500)
    /\ Quiet /\ UNCHANGED won

\* A bug: current_price is left to its default, 0.00.
NewItemAtDefault(r) == [owner |-> r.user, start |-> Cents(r.start), price |-> 0, status |-> "active"]

\* The price starts at the starting price.
NewItem(r) == [owner |-> r.user, start |-> Cents(r.start),
               price |-> Cents(r.start), status |-> "active"]

StoreItem(s) ==
    /\ pc[s] = "commit_item"
    /\ items' = [i \in DOMAIN items \cup {req[s].item} |->
                   IF i = req[s].item THEN NewItem(req[s]) ELSE items[i]]
    /\ UNCHANGED <<bids, transactions>>

CommitItem(s) ==
    /\ StoreItem(s)
    /\ Answer(s, 201)
    /\ UNCHANGED <<announced, connected, req, won>>

-----------------------------------------------------------------------------
(* Ends of requests, and failures *)

Respond(s) ==
    /\ pc[s] = "respond"
    /\ pc' = [pc EXCEPT ![s] = "idle"]
    /\ status' = [status EXCEPT ![s] = 0]
    /\ req' = [req EXCEPT ![s] = NoRequest]
    /\ won' = [won EXCEPT ![s] = NoBid]
    /\ UNCHANGED <<tables, announced, connected>>

\* The link breaks for good.  An open transaction is rolled back and its
\* handler answers 500.
LinkLost(s) ==
    /\ connected[s]
    /\ connected' = [connected EXCEPT ![s] = FALSE]
    /\ \/ pc[s] \in TxnSteps /\ Answer(s, 500)
       \/ pc[s] \notin TxnSteps /\ UNCHANGED <<pc, status>>
    /\ UNCHANGED <<tables, announced, req, won>>

\* The link breaks once COMMIT is done and before the server hears of it:
\* pqxx throws, the handler answers 500 and broadcasts nothing.
CommitUnanswered(s) ==
    /\ StoreBid(s) \/ StoreSale(s) \/ StoreItem(s)
    /\ connected' = [connected EXCEPT ![s] = FALSE]
    /\ Answer(s, 500)
    /\ UNCHANGED <<announced, req, won>>

Die(s) ==
    /\ pc' = [pc EXCEPT ![s] = "down"]
    /\ status' = [status EXCEPT ![s] = 0]
    /\ req' = [req EXCEPT ![s] = NoRequest]
    /\ won' = [won EXCEPT ![s] = NoBid]
    /\ connected' = [connected EXCEPT ![s] = FALSE]
    /\ UNCHANGED announced

\* The process stops; the database rolls its transaction back ...
Crash(s) == pc[s] # "down" /\ Die(s) /\ UNCHANGED tables

\* ... unless COMMIT had reached it.
CrashInCommit(s) == (StoreBid(s) \/ StoreSale(s) \/ StoreItem(s)) /\ Die(s)

\* A process that cannot connect exits at once, so one that runs began connected.
Restart(s) ==
    /\ pc[s] = "down"
    /\ pc' = [pc EXCEPT ![s] = "idle"]
    /\ connected' = [connected EXCEPT ![s] = TRUE]
    /\ UNCHANGED <<tables, announced, req, won, status>>

-----------------------------------------------------------------------------
Arrive(s) ==
    \/ Malformed(s) \/ InvalidBid(s) \/ PlaceBid(s)
    \/ CompleteTransaction(s) \/ CreateAuction(s)

Handle(s) ==
    \/ SelectPrice(s) \/ InsertBid(s) \/ UpdatePrice(s) \/ CommitBid(s) \/ Broadcast(s)
    \/ SelectTop(s) \/ InsertSale(s) \/ MarkSold(s) \/ CommitSale(s)
    \/ InsertItem(s) \/ CommitItem(s)
    \/ Respond(s)

Fail(s) ==
    LinkLost(s) \/ CommitUnanswered(s) \/ Crash(s) \/ CrashInCommit(s) \/ Restart(s)

Next == \E s \in Servers : Arrive(s) \/ Handle(s) \/ Fail(s)

Spec == Init /\ [][Next]_vars

\* A handler that can run its next statement does.  Strong fairness, because
\* the database queues those that wait for a row or a key.
Fairness == \A s \in Servers : SF_vars(Handle(s))

FairSpec == Spec /\ Fairness

-----------------------------------------------------------------------------
(* Properties, for any number of server processes *)

\* The values the variables take: rows that satisfy the schema, requests and
\* program counters that fit together.
TypeOK ==
    /\ DOMAIN items \subseteq Items
    /\ items \in [DOMAIN items -> ItemRows]
    /\ bids \subseteq BidRows
    /\ transactions \in Seq(SaleRows)
    /\ announced \subseteq [item : Items, amount : Amounts]
    /\ connected \in [Servers -> BOOLEAN]
    /\ pc \in [Servers -> Steps]
    /\ req \in [Servers -> {NoRequest} \cup BidRequests \cup SaleRequests \cup CreateRequests]
    /\ won \in [Servers -> {NoBid} \cup BidRows]
    /\ status \in [Servers -> {0, 200, 201, 400, 404, 500}]

\* The books balance after any crash, lost link or race: an item is marked
\* sold exactly when a transaction records its sale (complete_transaction
\* writes both in one database transaction).
BooksBalance ==
    \A i \in DOMAIN items :
        items[i].status = "sold" <=> \E k \in DOMAIN transactions : transactions[k].item = i

\* Nobody is charged for what he did not offer: a sale's buyer, seller and
\* price are those of a bid that stayed in the table, also when the bid was
\* read in one step and the sale is written several steps later.
SalesMatchBids ==
    \A k \in DOMAIN transactions : \E b \in bids : transactions[k] = SaleRow(b)

\* A server that is about to answer 200 or 201 has its effect in the tables:
\* a bidder, seller or owner told of success never loses it to a rollback.
AckedIsStored ==
    \A s \in Servers : pc[s] = "respond" =>
        /\ status[s] = 201 => req[s].item \in DOMAIN items
        /\ status[s] = 200 /\ req[s].op = "bid" => BidRow(req[s]) \in bids
        /\ status[s] = 200 /\ req[s].op = "sale" =>
             \E k \in DOMAIN transactions : transactions[k] = SaleRow(won[s])

\* A price that any client was told of is the amount of a bid in the table:
\* place_bid broadcasts after COMMIT, so a rollback is never announced.
AnnouncedIsStored ==
    \A m \in announced : \E b \in bids : b.item = m.item /\ b.amount = Cents(m.amount)

\* No amount is stored that its column cannot hold, although only INSERT is
\* checked for it: the UPDATE of a price never fails.
AmountsFit ==
    /\ \A b \in bids : Fits(b.amount, PriceLimit)
    /\ \A i \in DOMAIN items : Fits(items[i].start, PriceLimit) /\ Fits(items[i].price, PriceLimit)

\* The price an item shows is one that was offered: its starting price before
\* the first bid, and then the amount of some bid for it, none of which is below
\* the starting price, however the processes overwrite each other's price.
PriceIsOffered ==
    \A i \in DOMAIN items :
        /\ \A b \in BidsOn(i) : b.amount >= items[i].start
        /\ IF BidsOn(i) = {} THEN items[i].price = items[i].start
           ELSE \E b \in BidsOn(i) : items[i].price = b.amount

Shared == INSTANCE SharedAuction WITH Prices <- {Cents(a) : a \in Amounts \cup Starts}

\* Any number of server processes are the marketplace of SharedAuction: what
\* they read may be old, but each bid and each sale is one atomic step.
ImplementsShared == Shared!Spec

\* s stands in a queue of the database.
Waits(s) ==
    \/ pc[s] = "insert_bid" /\ ~KeyFree(s)
    \/ pc[s] \in {"update_price", "mark_sold"} /\ ~RowFree(s)

\* The open transactions never all wait for one another, in whichever order
\* bids and sales of whichever items take their keys and rows.
SomeoneRuns ==
    \A s \in Servers : Waits(s) => \E t \in Servers : pc[t] \in TxnSteps /\ ~Waits(t)

\* Every request is answered unless its process dies: waiting for a row or a
\* key held by another process always ends, so no two handlers deadlock.
EveryRequestAnswered ==
    \A s \in Servers : pc[s] \in TxnSteps \cup {"broadcast"} ~> pc[s] \in {"respond", "down"}

(* Properties of a single server process *)

\* The price an item shows is its highest bid, or its starting price before
\* the first bid, whatever was refused, rolled back or left in doubt.
PriceIsHighestBid ==
    \A i \in DOMAIN items :
        IF BidsOn(i) = {} THEN items[i].price = items[i].start
        ELSE \E b \in TopBids(i) : items[i].price = b.amount

\* No step lowers the price of an item.
PriceNeverFalls ==
    [][\A i \in DOMAIN items :
          i \in DOMAIN items' /\ items'[i].price >= items[i].price]_vars

\* The clients of the process see an item's price go up only: a later
\* broadcast never names a lower price, to the cent, than an earlier one.
AnnouncementsNeverFall ==
    [][\A m \in announced' \ announced : \A n \in announced :
          m.item = n.item => Cents(m.amount) >= Cents(n.amount)]_vars

\* An item is sold at the price it shows at that moment, to a highest bidder,
\* although complete_transaction reads the bids and never the price.
SoldAtTopPrice ==
    [][\A k \in DOMAIN transactions' \ DOMAIN transactions :
          LET t == transactions'[k] IN
              /\ t.price = items[t.item].price
              /\ \E b \in TopBids(t.item) : t = SaleRow(b)]_vars

Abstract == INSTANCE Auction WITH Prices <- {Cents(a) : a \in Amounts \cup Starts}

\* A single server process is the atomic marketplace of Auction.
ImplementsAuction == Abstract!Spec

-----------------------------------------------------------------------------
(* The inductive invariants behind the safety properties *)

\* A handler serves a request of its own kind.
ServesItsRequest ==
    \A s \in Servers :
        /\ pc[s] \in BidSteps \cup {"broadcast"} => req[s] \in BidRequests
        /\ pc[s] \in SaleSteps => req[s] \in SaleRequests
        /\ pc[s] \in CreateSteps => req[s] \in CreateRequests

\* The foreign keys of bids, which its rows keep because no row is deleted.
BidsOnItems == \A b \in bids : b.item \in DOMAIN items

\* What a bid has been checked for, and stays so, at each step.
BidChecked ==
    \A s \in Servers :
        /\ pc[s] \in {"insert_bid", "update_price", "commit_bid", "broadcast"} =>
             req[s].item \in DOMAIN items
        /\ pc[s] \in {"update_price", "commit_bid", "broadcast"} => req[s].user \in Users
        /\ pc[s] = "broadcast" => BidRow(req[s]) \in bids

\* What a sale knows of the bid it read.
SaleChecked ==
    \A s \in Servers :
        /\ pc[s] \in {"insert_sale", "mark_sold", "commit_sale"} =>
             won[s] \in bids /\ won[s].item = req[s].item
        /\ pc[s] \in {"mark_sold", "commit_sale"} => won[s].seller \in Users

\* An id drawn for a new item is in no row and drawn by no one else.
IdsAreFresh ==
    \A s \in Servers : pc[s] \in CreateSteps =>
        /\ req[s].item \notin DOMAIN items
        /\ \A t \in Servers \ {s} : pc[t] \in CreateSteps => req[t].item # req[s].item
        /\ pc[s] = "commit_item" => req[s].user \in Users

\* The invariant of any number of servers: a step of one relies on the tables
\* still holding what it read, although others write between its steps.
IInv ==
    /\ TypeOK /\ ServesItsRequest /\ BidsOnItems /\ BidChecked /\ SaleChecked /\ IdsAreFresh
    /\ BooksBalance /\ SalesMatchBids /\ AckedIsStored /\ AnnouncedIsStored

\* A bid that passed the price check is worth the starting price, and one that
\* was inserted is alone with its key, until it is committed.
BidStillAlone ==
    \A s \in Servers :
        /\ pc[s] \in {"insert_bid", "update_price", "commit_bid"} =>
             Cents(req[s].amount) >= items[req[s].item].start
        /\ pc[s] \in {"update_price", "commit_bid"} =>
             /\ \A b \in bids : ~SameKey(b, BidRow(req[s]))
             /\ \A t \in Servers \ {s} : pc[t] \in {"update_price", "commit_bid"} =>
                  ~SameKey(BidRow(req[t]), BidRow(req[s]))

\* UNIQUE (user_id, item_id, bid_amount).
KeysAreUnique == \A b, c \in bids : SameKey(b, c) => b = c

\* What an INSERT has been checked for, and is committed several steps later.
CheckedFits ==
    \A s \in Servers :
        /\ pc[s] \in {"update_price", "commit_bid"} => Fits(Cents(req[s].amount), PriceLimit)
        /\ pc[s] = "commit_item" => Fits(Cents(req[s].start), PriceLimit)

\* What makes a COMMIT a step of SharedAuction.
SharedInv == PriceIsOffered /\ BidStillAlone /\ KeysAreUnique

SoleServer == \A s, t \in Servers : s = t

\* A bid that passed the price check is above the price until it commits, and
\* one that was inserted is alone with its key.
BidStillHigher ==
    \A s \in Servers :
        /\ pc[s] \in {"insert_bid", "update_price", "commit_bid"} =>
             req[s].amount > Mills(items[req[s].item].price)
        /\ pc[s] \in {"update_price", "commit_bid"} =>
             \A b \in bids : ~SameKey(b, BidRow(req[s]))
        /\ pc[s] = "broadcast" => items[req[s].item].price = Cents(req[s].amount)

\* The row the top-bid SELECT returned is the top bid until the sale commits.
SaleStillTop ==
    \A s \in Servers : pc[s] \in {"insert_sale", "mark_sold", "commit_sale"} =>
        won[s] \in TopBids(req[s].item)

AnnouncedAtMostPrice == \A m \in announced : Cents(m.amount) <= items[m.item].price

\* The invariant of a single server: nobody writes between a handler's steps,
\* so what it read is not only in the tables but still decisive.
SoleInv == PriceIsHighestBid /\ BidStillHigher /\ SaleStillTop /\ AnnouncedAtMostPrice

-----------------------------------------------------------------------------
(* What the texts of the repository say and the code does not do *)

\* "Mark item as sold": an item is sold at most once.
SoldOnce ==
    \A k, l \in DOMAIN transactions : transactions[k].item = transactions[l].item => k = l
=============================================================================
