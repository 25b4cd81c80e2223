--------------------------- MODULE BidServerProofs --------------------------
(***************************************************************************)
(* Theorems about BidServer, for every value of its constants.             *)
(***************************************************************************)
EXTENDS BidServer, MoneyProofs, TLAPS

\* What a step does to the tables: nothing, or the effect of one COMMIT.
Stores(s) == StoreBid(s) \/ StoreSale(s) \/ StoreItem(s)

LEMMA Step ==
    ASSUME NEW s \in Servers, Arrive(s) \/ Handle(s) \/ Fail(s)
    PROVE  UNCHANGED tables \/ Stores(s)
  BY Zenon DEF Arrive, Handle, Fail, Stores, tables, Quiet, Begin, Die,
     Malformed, InvalidBid, PlaceBid, SelectPrice, InsertBid, UpdatePrice, CommitBid, Broadcast,
     CompleteTransaction, SelectTop, InsertSale, MarkSold, CommitSale,
     CreateAuction, InsertItem, CommitItem, Respond,
     LinkLost, CommitUnanswered, Crash, CrashInCommit, Restart

LEMMA InitType == Init => TypeOK
  BY DEF Init, TypeOK, Steps, tables

LEMMA RowUpdate ==
    ASSUME NEW r \in ItemRows
    PROVE  /\ \A x \in Int : [r EXCEPT !.price = x] \in ItemRows
           /\ [r EXCEPT !.status = "sold"] \in ItemRows
  BY DEF ItemRows

LEMMA StoreType ==
    ASSUME IInv, NEW s \in Servers, Stores(s)
    PROVE  /\ DOMAIN items' \subseteq Items
           /\ items' \in [DOMAIN items' -> ItemRows]
           /\ bids' \subseteq BidRows
           /\ transactions' \in Seq(SaleRows)
  <1>1. CASE StoreBid(s)
    <2>1. req[s] \in BidRequests /\ req[s].item \in DOMAIN items /\ req[s].user \in Users
      BY <1>1 DEF StoreBid, IInv, ServesItsRequest, BidChecked, BidSteps
    <2>2. Cents(req[s].amount) \in Int
      BY <2>1, CentsInt, MoneyAssumption DEF BidRequests
    <2>3. BidRow(req[s]) \in BidRows
      BY <2>1, <2>2 DEF BidRow, BidRows, BidRequests, IInv, TypeOK
    <2>4. items' \in [DOMAIN items -> ItemRows]
      <3>1. [items[req[s].item] EXCEPT !.price = Cents(req[s].amount)] \in ItemRows
        BY <2>1, <2>2, RowUpdate, items[req[s].item] \in ItemRows DEF IInv, TypeOK
      <3>2. QED
        BY <1>1, <2>1, <3>1 DEF StoreBid, IInv, TypeOK
    <2>5. QED
      BY <1>1, <2>3, <2>4 DEF StoreBid, IInv, TypeOK
  <1>2. CASE StoreSale(s)
    <2>1. won[s] \in bids /\ won[s].item = req[s].item /\ won[s].seller \in Users
      BY <1>2 DEF StoreSale, IInv, SaleChecked
    <2>2. SaleRow(won[s]) \in SaleRows
      BY <2>1 DEF SaleRow, SaleRows, BidRows, IInv, TypeOK
    <2>3. items' \in [DOMAIN items -> ItemRows]
      <3>1. req[s].item \in DOMAIN items
        BY <2>1 DEF IInv, BidsOnItems
      <3>2. [items[req[s].item] EXCEPT !.status = "sold"] \in ItemRows
        BY <3>1, RowUpdate DEF IInv, TypeOK
      <3>3. QED
        BY <1>2, <3>1, <3>2 DEF StoreSale, IInv, TypeOK
    <2>4. QED
      BY <1>2, <2>2, <2>3 DEF StoreSale, IInv, TypeOK
  <1>3. CASE StoreItem(s)
    <2>1. req[s] \in CreateRequests /\ req[s].user \in Users
      BY <1>3 DEF StoreItem, IInv, ServesItsRequest, IdsAreFresh, CreateSteps
    <2>2. Cents(req[s].start) \in Int
      BY <2>1, CentsInt, MoneyAssumption DEF CreateRequests
    <2>3. NewItem(req[s]) \in ItemRows
      BY <2>1, <2>2 DEF NewItem, ItemRows
    <2>4. QED
      BY <1>3, <2>1, <2>3 DEF StoreItem, IInv, TypeOK, CreateRequests
  <1>4. QED
    BY <1>1, <1>2, <1>3 DEF Stores

LEMMA StepType ==
    ASSUME IInv, NEW s \in Servers, Arrive(s) \/ Handle(s) \/ Fail(s)
    PROVE  TypeOK'
  <1> USE DEF Steps, TxnSteps, BidSteps, SaleSteps, CreateSteps
  <1>1. /\ DOMAIN items' \subseteq Items
        /\ items' \in [DOMAIN items' -> ItemRows]
        /\ bids' \subseteq BidRows
        /\ transactions' \in Seq(SaleRows)
    <2>1. CASE UNCHANGED tables
      BY <2>1 DEF tables, IInv, TypeOK
    <2>2. QED
      BY <2>1, Step, StoreType
  <1>2. connected' \in [Servers -> BOOLEAN]
    <2>1. \/ UNCHANGED connected
          \/ \E link \in BOOLEAN : connected' = [connected EXCEPT ![s] = link]
      BY Zenon DEF Arrive, Handle, Fail, Quiet, Begin, Die,
       Malformed, InvalidBid, PlaceBid, SelectPrice, InsertBid, UpdatePrice, CommitBid, Broadcast,
       CompleteTransaction, SelectTop, InsertSale, MarkSold, CommitSale,
       CreateAuction, InsertItem, CommitItem, Respond,
       LinkLost, CommitUnanswered, Crash, CrashInCommit, Restart
    <2>2. QED
      BY <2>1 DEF IInv, TypeOK
  <1>3. pc' \in [Servers -> Steps] /\ status' \in [Servers -> {0, 200, 201, 400, 404, 500}]
    <2>1. CASE Arrive(s)
      BY <2>1 DEF IInv, TypeOK, Arrive, Begin, Goto, Answer,
         Malformed, InvalidBid, PlaceBid, CompleteTransaction, CreateAuction
    <2>2. CASE Handle(s)
      BY <2>2 DEF IInv, TypeOK, Handle, Goto, Answer,
         SelectPrice, InsertBid, UpdatePrice, CommitBid, Broadcast,
         SelectTop, InsertSale, MarkSold, CommitSale, InsertItem, CommitItem, Respond
    <2>3. CASE Fail(s)
      BY <2>3 DEF IInv, TypeOK, Fail, Die, Answer,
         LinkLost, CommitUnanswered, Crash, CrashInCommit, Restart
    <2>4. QED
      BY <2>1, <2>2, <2>3
  <1>4. req' \in [Servers -> {NoRequest} \cup BidRequests \cup SaleRequests \cup CreateRequests]
    <2>1. CASE Arrive(s)
      BY <2>1 DEF IInv, TypeOK, Arrive, Begin, Quiet,
         Malformed, InvalidBid, PlaceBid, CompleteTransaction, CreateAuction
    <2>2. CASE Handle(s)
      BY <2>2 DEF IInv, TypeOK, Handle, Quiet,
         SelectPrice, InsertBid, UpdatePrice, CommitBid, Broadcast,
         SelectTop, InsertSale, MarkSold, CommitSale, InsertItem, CommitItem, Respond
    <2>3. CASE Fail(s)
      BY <2>3 DEF IInv, TypeOK, Fail, Die,
         LinkLost, CommitUnanswered, Crash, CrashInCommit, Restart
    <2>4. QED
      BY <2>1, <2>2, <2>3
  <1>5. won' \in [Servers -> {NoBid} \cup BidRows]
    <2>1. CASE SelectTop(s)
      BY <2>1 DEF IInv, TypeOK, SelectTop, TopBids, BidsOn
    <2>2. CASE UNCHANGED won \/ won' = [won EXCEPT ![s] = NoBid]
      BY <2>2 DEF IInv, TypeOK
    <2>3. QED
      BY <2>1, <2>2 DEF Arrive, Handle, Fail, Begin, Die,
         Malformed, InvalidBid, PlaceBid, SelectPrice, InsertBid, UpdatePrice, CommitBid, Broadcast,
         CompleteTransaction, InsertSale, MarkSold, CommitSale,
         CreateAuction, InsertItem, CommitItem, Respond,
         LinkLost, CommitUnanswered, Crash, CrashInCommit, Restart
  <1>6. announced' \subseteq [item : Items, amount : Amounts]
    <2>1. CASE Broadcast(s)
      BY <2>1 DEF IInv, TypeOK, Broadcast, ServesItsRequest, BidChecked, BidRequests
    <2>2. CASE UNCHANGED announced
      BY <2>2 DEF IInv, TypeOK
    <2>3. QED
      BY <2>1, <2>2 DEF Arrive, Handle, Fail, Quiet, Begin, Die,
         Malformed, InvalidBid, PlaceBid, SelectPrice, InsertBid, UpdatePrice, CommitBid,
         CompleteTransaction, SelectTop, InsertSale, MarkSold, CommitSale,
         CreateAuction, InsertItem, CommitItem, Respond,
         LinkLost, CommitUnanswered, Crash, CrashInCommit, Restart
  <1>7. QED
    BY <1>1, <1>2, <1>3, <1>4, <1>5, <1>6 DEF TypeOK

\* A step of one server leaves the handlers of the others alone.
LEMMA Others ==
    ASSUME TypeOK, NEW s \in Servers, Arrive(s) \/ Handle(s) \/ Fail(s)
    PROVE  \A t \in Servers \ {s} : UNCHANGED <<pc[t], req[t], won[t], status[t]>>
  <1>1. CASE Arrive(s)
    BY <1>1 DEF TypeOK, Arrive, Begin, Goto, Answer, Quiet,
       Malformed, InvalidBid, PlaceBid, CompleteTransaction, CreateAuction
  <1>2. CASE Handle(s)
    BY <1>2 DEF TypeOK, Handle, Goto, Answer, Quiet,
       SelectPrice, InsertBid, UpdatePrice, CommitBid, Broadcast,
       SelectTop, InsertSale, MarkSold, CommitSale, InsertItem, CommitItem, Respond
  <1>3. CASE Fail(s)
    BY <1>3 DEF TypeOK, Fail, Die, Answer,
       LinkLost, CommitUnanswered, Crash, CrashInCommit, Restart
  <1>4. QED
    BY <1>1, <1>2, <1>3

\* No row of a table is lost, and no row of transactions changes.
LEMMA TablesGrow ==
    ASSUME IInv, NEW s \in Servers, Arrive(s) \/ Handle(s) \/ Fail(s)
    PROVE  /\ bids \subseteq bids'
           /\ DOMAIN items \subseteq DOMAIN items'
           /\ \A k \in DOMAIN transactions :
                k \in DOMAIN transactions' /\ transactions'[k] = transactions[k]
  <1>1. CASE UNCHANGED tables
    BY <1>1 DEF tables
  <1>2. CASE StoreBid(s)
    BY <1>2 DEF StoreBid
  <1>3. CASE StoreSale(s)
    BY <1>3 DEF StoreSale, IInv, TypeOK
  <1>4. CASE StoreItem(s)
    BY <1>4 DEF StoreItem
  <1>5. QED
    BY <1>1, <1>2, <1>3, <1>4, Step DEF Stores

LEMMA StepServesItsRequest ==
    ASSUME IInv, NEW s \in Servers, Arrive(s) \/ Handle(s) \/ Fail(s)
    PROVE  ServesItsRequest'
  <1> USE DEF TxnSteps, BidSteps, SaleSteps, CreateSteps
  <1>1. SUFFICES /\ pc'[s] \in BidSteps \cup {"broadcast"} => req'[s] \in BidRequests
                 /\ pc'[s] \in SaleSteps => req'[s] \in SaleRequests
                 /\ pc'[s] \in CreateSteps => req'[s] \in CreateRequests
    BY Others DEF IInv, ServesItsRequest
  <1>2. CASE Arrive(s)
    BY <1>2 DEF IInv, TypeOK, Arrive, Begin, Goto, Answer, Quiet,
       Malformed, InvalidBid, PlaceBid, CompleteTransaction, CreateAuction
  <1>3. CASE Handle(s)
    BY <1>3 DEF IInv, TypeOK, ServesItsRequest, Handle, Goto, Answer, Quiet,
       SelectPrice, InsertBid, UpdatePrice, CommitBid, Broadcast, StoreBid,
       SelectTop, InsertSale, MarkSold, CommitSale, InsertItem, CommitItem, Respond
  <1>4. CASE Fail(s)
    BY <1>4 DEF IInv, TypeOK, ServesItsRequest, Fail, Die, Answer,
       LinkLost, CommitUnanswered, Crash, CrashInCommit, Restart
  <1>5. QED
    BY <1>2, <1>3, <1>4

LEMMA StepBidsOnItems ==
    ASSUME IInv, NEW s \in Servers, Arrive(s) \/ Handle(s) \/ Fail(s)
    PROVE  BidsOnItems'
  <1>1. CASE StoreBid(s)
    BY <1>1 DEF StoreBid, BidRow, IInv, BidsOnItems, BidChecked
  <1>2. CASE UNCHANGED bids
    BY <1>2, TablesGrow DEF IInv, BidsOnItems
  <1>3. QED
    BY <1>1, <1>2, Step DEF Stores, StoreSale, StoreItem, tables

LEMMA StepBidChecked ==
    ASSUME IInv, NEW s \in Servers, Arrive(s) \/ Handle(s) \/ Fail(s)
    PROVE  BidChecked'
  <1>1. \A t \in Servers \ {s} :
           /\ pc'[t] \in {"insert_bid", "update_price", "commit_bid", "broadcast"} =>
                req'[t].item \in DOMAIN items'
           /\ pc'[t] \in {"update_price", "commit_bid", "broadcast"} => req'[t].user \in Users
           /\ pc'[t] = "broadcast" => BidRow(req'[t]) \in bids'
    BY Others, TablesGrow DEF IInv, BidChecked
  <1>2. /\ pc'[s] \in {"insert_bid", "update_price", "commit_bid", "broadcast"} =>
             req'[s].item \in DOMAIN items'
        /\ pc'[s] \in {"update_price", "commit_bid", "broadcast"} => req'[s].user \in Users
        /\ pc'[s] = "broadcast" => BidRow(req'[s]) \in bids'
    <2>1. CASE Arrive(s)
      BY <2>1 DEF IInv, TypeOK, Arrive, Begin, Goto, Answer, Quiet,
         Malformed, InvalidBid, PlaceBid, CompleteTransaction, CreateAuction
    <2>2. CASE SelectPrice(s)
      BY <2>2 DEF IInv, TypeOK, SelectPrice, Goto, Answer, Quiet, tables
    <2>3. CASE InsertBid(s)
      BY <2>3 DEF IInv, TypeOK, BidChecked, InsertBid, Insertable, Goto, Answer, Quiet, tables
    <2>4. CASE UpdatePrice(s)
      BY <2>4 DEF IInv, TypeOK, BidChecked, UpdatePrice, Goto, Answer, Quiet, tables
    <2>5. CASE CommitBid(s)
      BY <2>5 DEF IInv, TypeOK, BidChecked, CommitBid, StoreBid, Goto, Answer
    <2>6. CASE pc'[s] \notin {"insert_bid", "update_price", "commit_bid", "broadcast"}
      BY <2>6
    <2>7. CASE LinkLost(s)
      BY <2>7 DEF IInv, TypeOK, BidChecked, LinkLost, Answer, tables,
         TxnSteps, BidSteps, SaleSteps, CreateSteps
    <2>8. QED
      BY <2>1, <2>2, <2>3, <2>4, <2>5, <2>6, <2>7 DEF IInv, TypeOK, Handle, Fail, Goto, Answer, Die,
         Broadcast, SelectTop, InsertSale, MarkSold, CommitSale, InsertItem, CommitItem, Respond,
         CommitUnanswered, Crash, CrashInCommit, Restart
  <1>3. QED
    BY <1>1, <1>2 DEF BidChecked

LEMMA StepSaleChecked ==
    ASSUME IInv, NEW s \in Servers, Arrive(s) \/ Handle(s) \/ Fail(s)
    PROVE  SaleChecked'
  <1>1. \A t \in Servers \ {s} :
           /\ pc'[t] \in {"insert_sale", "mark_sold", "commit_sale"} =>
                won'[t] \in bids' /\ won'[t].item = req'[t].item
           /\ pc'[t] \in {"mark_sold", "commit_sale"} => won'[t].seller \in Users
    BY Others, TablesGrow DEF IInv, SaleChecked
  <1>2. /\ pc'[s] \in {"insert_sale", "mark_sold", "commit_sale"} =>
             won'[s] \in bids' /\ won'[s].item = req'[s].item
        /\ pc'[s] \in {"mark_sold", "commit_sale"} => won'[s].seller \in Users
    <2>1. CASE Arrive(s)
      BY <2>1 DEF IInv, TypeOK, Arrive, Begin, Goto, Answer, Quiet,
         Malformed, InvalidBid, PlaceBid, CompleteTransaction, CreateAuction
    <2>2. CASE SelectTop(s)
      BY <2>2 DEF IInv, TypeOK, SelectTop, TopBids, BidsOn, Goto, Answer, Quiet, tables
    <2>3. CASE InsertSale(s)
      BY <2>3 DEF IInv, TypeOK, SaleChecked, InsertSale, Goto, Answer, Quiet, tables
    <2>4. CASE MarkSold(s)
      BY <2>4 DEF IInv, TypeOK, SaleChecked, MarkSold, Goto, Answer, Quiet, tables
    <2>5. CASE pc'[s] \notin {"insert_sale", "mark_sold", "commit_sale"}
      BY <2>5
    <2>6. CASE LinkLost(s)
      BY <2>6 DEF IInv, TypeOK, SaleChecked, LinkLost, Answer, tables,
         TxnSteps, BidSteps, SaleSteps, CreateSteps
    <2>7. QED
      BY <2>1, <2>2, <2>3, <2>4, <2>5, <2>6 DEF IInv, TypeOK, Handle, Fail, Goto, Answer, Die,
         SelectPrice, InsertBid, UpdatePrice, CommitBid, Broadcast, CommitSale, InsertItem,
         CommitItem, Respond, CommitUnanswered, Crash, CrashInCommit, Restart
  <1>3. QED
    BY <1>1, <1>2 DEF SaleChecked

LEMMA StepIdsAreFresh ==
    ASSUME IInv, NEW s \in Servers, Arrive(s) \/ Handle(s) \/ Fail(s)
    PROVE  IdsAreFresh'
  <1> USE DEF CreateSteps
  <1>1. CASE CreateAuction(s) /\ pc'[s] = "insert_item"
    <2>1. /\ req'[s].item \notin DOMAIN items /\ UNCHANGED items
          /\ \A t \in Servers \ {s} : pc[t] \in CreateSteps => req[t].item # req'[s].item
      BY <1>1 DEF CreateAuction, FreshId, Begin, Goto, Answer, IInv, TypeOK, ServesItsRequest,
         CreateRequests, tables
    <2>2. QED
      BY <1>1, <2>1, Others DEF IInv, IdsAreFresh
  <1>2. CASE StoreItem(s) /\ pc'[s] \notin CreateSteps
    BY <1>2, Others DEF StoreItem, IInv, IdsAreFresh
  <1>3. CASE /\ pc'[s] \in CreateSteps => pc[s] \in CreateSteps /\ UNCHANGED req[s]
             /\ pc'[s] = "commit_item" => req[s].user \in Users
             /\ UNCHANGED DOMAIN items
    BY <1>3, Others DEF IInv, IdsAreFresh
  <1>4. CASE ~StoreItem(s) /\ ~(CreateAuction(s) /\ pc'[s] = "insert_item")
    <2>1. UNCHANGED DOMAIN items
      BY <1>4, Step DEF Stores, StoreBid, StoreSale, tables, IInv, TypeOK
    <2>2. CASE Arrive(s)
      BY <1>3, <1>4, <2>1, <2>2 DEF IInv, TypeOK, Arrive, Begin, Goto, Answer,
         Malformed, InvalidBid, PlaceBid, CompleteTransaction, CreateAuction
    <2>3. CASE Handle(s)
      BY <1>3, <1>4, <2>1, <2>3 DEF IInv, TypeOK, IdsAreFresh, Handle, Goto, Answer, Quiet,
         SelectPrice, InsertBid, UpdatePrice, CommitBid, Broadcast,
         SelectTop, InsertSale, MarkSold, CommitSale, InsertItem, CommitItem, Respond
    <2>4. CASE Fail(s)
      BY <1>3, <1>4, <2>1, <2>4 DEF IInv, TypeOK, IdsAreFresh, Fail, Die, Answer,
         LinkLost, CommitUnanswered, Crash, CrashInCommit, Restart
    <2>5. QED
      BY <2>2, <2>3, <2>4
  <1>5. CASE StoreItem(s)
    <2>1. pc'[s] \notin CreateSteps
      <3>1. pc[s] = "commit_item"
        BY <1>5 DEF StoreItem
      <3>2. CASE Handle(s)
        BY <3>1, <3>2 DEF IInv, TypeOK, Handle, Answer, StoreBid, StoreSale,
           SelectPrice, InsertBid, UpdatePrice, CommitBid, Broadcast,
           SelectTop, InsertSale, MarkSold, CommitSale, InsertItem, CommitItem, Respond
      <3>3. CASE Fail(s)
        BY <3>1, <3>3 DEF IInv, TypeOK, Fail, Die, Answer, TxnSteps,
           LinkLost, CommitUnanswered, Crash, CrashInCommit, Restart
      <3>4. QED
        BY <3>1, <3>2, <3>3 DEF Arrive, Malformed, InvalidBid, PlaceBid, CompleteTransaction,
           CreateAuction
    <2>2. QED
      BY <1>2, <1>5, <2>1
  <1>6. QED
    BY <1>1, <1>4, <1>5

LEMMA StepBooksBalance ==
    ASSUME IInv, NEW s \in Servers, Arrive(s) \/ Handle(s) \/ Fail(s)
    PROVE  BooksBalance'
  <1>1. CASE UNCHANGED tables
    BY <1>1 DEF tables, IInv, BooksBalance
  <1>2. CASE StoreBid(s)
    BY <1>2 DEF StoreBid, IInv, TypeOK, BooksBalance, ItemRows
  <1>3. CASE StoreSale(s)
    <2>1. /\ DOMAIN items' = DOMAIN items
          /\ \A i \in DOMAIN items : items'[i].status =
                IF i = req[s].item THEN "sold" ELSE items[i].status
      BY <1>3 DEF StoreSale, IInv, TypeOK, ItemRows
    <2>2. SaleRow(won[s]).item = req[s].item
      BY <1>3 DEF StoreSale, SaleRow, IInv, SaleChecked
    <2>3. /\ DOMAIN transactions' = DOMAIN transactions \cup {Len(transactions) + 1}
          /\ \A k \in DOMAIN transactions : transactions'[k] = transactions[k]
          /\ transactions'[Len(transactions) + 1].item = req[s].item
      BY <1>3, <2>2 DEF StoreSale, IInv, TypeOK
    <2>4. QED
      BY <2>1, <2>3 DEF IInv, BooksBalance
  <1>4. CASE StoreItem(s)
    <2>1. req[s].item \notin DOMAIN items
      BY <1>4 DEF StoreItem, IInv, IdsAreFresh, CreateSteps
    <2>2. \A k \in DOMAIN transactions : transactions[k].item \in DOMAIN items
      BY DEF IInv, SalesMatchBids, BidsOnItems, SaleRow
    <2>3. QED
      BY <1>4, <2>1, <2>2 DEF StoreItem, IInv, BooksBalance, NewItem
  <1>5. QED
    BY <1>1, <1>2, <1>3, <1>4, Step DEF Stores

LEMMA StepSalesMatchBids ==
    ASSUME IInv, NEW s \in Servers, Arrive(s) \/ Handle(s) \/ Fail(s)
    PROVE  SalesMatchBids'
  <1>1. CASE StoreSale(s)
    <2>1. won[s] \in bids'
      BY <1>1 DEF StoreSale, IInv, SaleChecked
    <2>2. QED
      BY <1>1, <2>1, TablesGrow DEF StoreSale, IInv, TypeOK, SalesMatchBids
  <1>2. CASE UNCHANGED transactions
    BY <1>2, TablesGrow DEF IInv, SalesMatchBids
  <1>3. QED
    BY <1>1, <1>2, Step DEF Stores, StoreBid, StoreItem, tables

LEMMA StepAckedIsStored ==
    ASSUME IInv, NEW s \in Servers, Arrive(s) \/ Handle(s) \/ Fail(s)
    PROVE  AckedIsStored'
  <1> DEFINE Stored(t) ==
        /\ status[t] = 201 => req[t].item \in DOMAIN items
        /\ status[t] = 200 /\ req[t].op = "bid" => BidRow(req[t]) \in bids
        /\ status[t] = 200 /\ req[t].op = "sale" =>
             \E k \in DOMAIN transactions : transactions[k] = SaleRow(won[t])
  <1>1. \A t \in Servers \ {s} : pc'[t] = "respond" => Stored(t)'
    BY Others, TablesGrow DEF IInv, AckedIsStored
  <1>2. ASSUME pc'[s] = "respond" PROVE Stored(s)'
    <2>1. CASE pc[s] = "respond" /\ UNCHANGED <<tables, req, won, status>>
      BY <2>1 DEF tables, IInv, AckedIsStored
    <2>2. CASE status'[s] \in {400, 404, 500}
      BY <2>2
    <2>3. CASE Broadcast(s)
      BY <2>3 DEF Broadcast, Answer, IInv, TypeOK, BidChecked, ServesItsRequest, BidRequests, tables
    <2>4. CASE CommitSale(s)
      <3>1. status'[s] = 200 /\ req'[s].op = "sale" /\ UNCHANGED won
        BY <2>4 DEF CommitSale, StoreSale, Answer, IInv, TypeOK, ServesItsRequest, SaleSteps,
           SaleRequests
      <3>2. transactions'[Len(transactions) + 1] = SaleRow(won[s])
            /\ Len(transactions) + 1 \in DOMAIN transactions'
        BY <2>4 DEF CommitSale, StoreSale, IInv, TypeOK
      <3>3. QED
        BY <3>1, <3>2
    <2>5. CASE CommitItem(s)
      BY <2>5 DEF CommitItem, StoreItem, Answer, IInv, TypeOK
    <2>6. CASE Arrive(s)
      BY <1>2, <2>2, <2>6 DEF IInv, TypeOK, Arrive, Begin, Goto, Answer, Steps, TxnSteps, BidSteps,
         SaleSteps, CreateSteps,
         Malformed, InvalidBid, PlaceBid, CompleteTransaction, CreateAuction
    <2>7. CASE Fail(s)
      BY <1>2, <2>1, <2>2, <2>7 DEF IInv, TypeOK, Fail, Die, Answer,
         LinkLost, CommitUnanswered, Crash, CrashInCommit, Restart
    <2>8. CASE Handle(s) /\ ~Broadcast(s) /\ ~CommitSale(s) /\ ~CommitItem(s)
      BY <1>2, <2>2, <2>8 DEF IInv, TypeOK, Handle, Goto, Answer,
         SelectPrice, InsertBid, UpdatePrice, CommitBid,
         SelectTop, InsertSale, MarkSold, InsertItem, Respond
    <2>9. QED
      BY <2>3, <2>4, <2>5, <2>6, <2>7, <2>8
  <1>3. QED
    BY <1>1, <1>2 DEF AckedIsStored

LEMMA StepAnnouncedIsStored ==
    ASSUME IInv, NEW s \in Servers, Arrive(s) \/ Handle(s) \/ Fail(s)
    PROVE  AnnouncedIsStored'
  <1>1. CASE Broadcast(s)
    <2>1. BidRow(req[s]) \in bids' /\ announced' =
            announced \cup {[item |-> req[s].item, amount |-> req[s].amount]}
      BY <1>1 DEF Broadcast, tables, IInv, BidChecked
    <2>2. QED
      BY <2>1, TablesGrow DEF IInv, AnnouncedIsStored, BidRow
  <1>2. CASE UNCHANGED announced
    BY <1>2, TablesGrow DEF IInv, AnnouncedIsStored
  <1>3. QED
    BY <1>1, <1>2 DEF Arrive, Handle, Fail, Quiet, Begin, Die,
       Malformed, InvalidBid, PlaceBid, SelectPrice, InsertBid, UpdatePrice, CommitBid,
       CompleteTransaction, SelectTop, InsertSale, MarkSold, CommitSale,
       CreateAuction, InsertItem, CommitItem, Respond,
       LinkLost, CommitUnanswered, Crash, CrashInCommit, Restart

LEMMA InitInv == Init => IInv
  <1> SUFFICES ASSUME Init PROVE IInv
    OBVIOUS
  <1>1. \A s \in Servers : pc[s] = "idle"
    BY DEF Init
  <1>2. DOMAIN transactions = {}
    BY DEF Init
  <1>3. ServesItsRequest /\ BidChecked /\ SaleChecked /\ IdsAreFresh /\ AckedIsStored
    BY <1>1 DEF ServesItsRequest, BidChecked, SaleChecked, IdsAreFresh, AckedIsStored,
       BidSteps, SaleSteps, CreateSteps
  <1>4. BidsOnItems /\ BooksBalance /\ SalesMatchBids /\ AnnouncedIsStored
    BY <1>2 DEF Init, BidsOnItems, BooksBalance, SalesMatchBids, AnnouncedIsStored
  <1>5. QED
    BY <1>3, <1>4, InitType DEF IInv

LEMMA StutterInv == ASSUME IInv, UNCHANGED vars PROVE IInv'
  BY DEF IInv, vars, tables, handler, TypeOK, ServesItsRequest, BidsOnItems, BidChecked,
     SaleChecked, IdsAreFresh, BooksBalance, SalesMatchBids, AckedIsStored, AnnouncedIsStored

\* Any number of servers, any interleaving of their SQL statements, any crash
\* or lost link: what a step relies on still holds when it runs.
THEOREM Invariance == Spec => []IInv
  <1>1. IInv /\ [Next]_vars => IInv'
    <2> SUFFICES ASSUME IInv, [Next]_vars PROVE IInv'
      OBVIOUS
    <2>1. ASSUME NEW s \in Servers, Arrive(s) \/ Handle(s) \/ Fail(s) PROVE IInv'
      BY <2>1, StepType, StepServesItsRequest, StepBidsOnItems, StepBidChecked, StepSaleChecked,
         StepIdsAreFresh, StepBooksBalance, StepSalesMatchBids, StepAckedIsStored,
         StepAnnouncedIsStored DEF IInv
    <2>2. QED
      BY <2>1, StutterInv DEF Next
  <1>2. QED
    BY <1>1, InitInv, PTL DEF Spec

\* The variables keep their types.
THEOREM TypeCorrect == Spec => []TypeOK
  <1>1. IInv => TypeOK
    BY DEF IInv
  <1>2. QED
    BY <1>1, Invariance, PTL

\* An item is marked sold exactly when a sale of it is recorded.
THEOREM BooksAlwaysBalance == Spec => []BooksBalance
  <1>1. IInv => BooksBalance
    BY DEF IInv
  <1>2. QED
    BY <1>1, Invariance, PTL

\* Every sale is the sale of a bid in the table.
THEOREM SalesAlwaysMatchBids == Spec => []SalesMatchBids
  <1>1. IInv => SalesMatchBids
    BY DEF IInv
  <1>2. QED
    BY <1>1, Invariance, PTL

\* A request answered with success has its effect in the tables.
THEOREM AckedIsDurable == Spec => []AckedIsStored
  <1>1. IInv => AckedIsStored
    BY DEF IInv
  <1>2. QED
    BY <1>1, Invariance, PTL

\* A price broadcast to the clients is that of a stored bid.
THEOREM AnnouncedIsDurable == Spec => []AnnouncedIsStored
  <1>1. IInv => AnnouncedIsStored
    BY DEF IInv
  <1>2. QED
    BY <1>1, Invariance, PTL

-----------------------------------------------------------------------------
(* One server process *)

LEMMA PriceBoundsBids ==
    ASSUME IInv, PriceIsHighestBid
    PROVE  \A b \in bids : b.item \in DOMAIN items /\ b.amount <= items[b.item].price
  <1> SUFFICES ASSUME NEW b \in bids PROVE b.item \in DOMAIN items /\ b.amount <= items[b.item].price
    OBVIOUS
  <1>1. b.item \in DOMAIN items /\ b \in BidsOn(b.item)
    BY DEF IInv, BidsOnItems, BidsOn
  <1>2. PICK top \in TopBids(b.item) : items[b.item].price = top.amount
    BY <1>1 DEF PriceIsHighestBid
  <1>3. QED
    BY <1>1, <1>2 DEF TopBids

\* A bid being committed is at least the price it replaces, to the cent, and
\* at least every bid on its item.
LEMMA CommitRaises ==
    ASSUME IInv, SoleInv, NEW s \in Servers, StoreBid(s)
    PROVE  /\ req[s].item \in DOMAIN items
           /\ Cents(req[s].amount) \in Int
           /\ items[req[s].item].price \in Int
           /\ Cents(req[s].amount) >= items[req[s].item].price
           /\ \A b \in BidsOn(req[s].item) : b.amount <= Cents(req[s].amount)
  <1>1. req[s] \in BidRequests /\ req[s].item \in DOMAIN items
    BY DEF StoreBid, IInv, ServesItsRequest, BidChecked, BidSteps
  <1>2. req[s].amount \in Int /\ items[req[s].item].price \in Int
    BY <1>1, MoneyAssumption DEF BidRequests, IInv, TypeOK, ItemRows
  <1>3. req[s].amount > Mills(items[req[s].item].price)
    BY DEF StoreBid, SoleInv, BidStillHigher
  <1>4. Cents(req[s].amount) >= items[req[s].item].price /\ Cents(req[s].amount) \in Int
    BY <1>2, <1>3, RoundingKeepsOrder, CentsInt
  <1>5. ASSUME NEW b \in BidsOn(req[s].item) PROVE b.amount <= Cents(req[s].amount)
    <2>1. b \in bids /\ b.item = req[s].item /\ b.amount \in Int
      BY DEF BidsOn, IInv, TypeOK, BidRows
    <2>2. b.amount <= items[req[s].item].price
      BY <2>1, PriceBoundsBids DEF SoleInv
    <2>3. QED
      BY <1>2, <1>4, <2>1, <2>2
  <1>6. QED
    BY <1>1, <1>2, <1>4, <1>5

LEMMA StepPriceIsHighestBid ==
    ASSUME IInv, SoleInv, NEW s \in Servers, Arrive(s) \/ Handle(s) \/ Fail(s)
    PROVE  PriceIsHighestBid'
  <1>1. CASE UNCHANGED tables
    BY <1>1 DEF tables, SoleInv, PriceIsHighestBid, TopBids, BidsOn
  <1>2. CASE StoreBid(s)
    <2>0. PICK i \in DOMAIN items : i = req[s].item
      BY <1>2, CommitRaises
    <2> DEFINE new == BidRow(req[s])
    <2>1. /\ DOMAIN items' = DOMAIN items
          /\ items'[i].price = Cents(req[s].amount)
          /\ \A j \in DOMAIN items \ {i} : items'[j] = items[j]
      <3>1. items[i] \in ItemRows
        BY DEF IInv, TypeOK
      <3>2. items' = [items EXCEPT ![i] = [items[i] EXCEPT !.price = Cents(req[s].amount)]]
        BY <1>2, <2>0 DEF StoreBid
      <3>3. [items[i] EXCEPT !.price = Cents(req[s].amount)].price = Cents(req[s].amount)
        BY <3>1 DEF ItemRows
      <3>4. QED
        BY <3>1, <3>2, <3>3 DEF IInv, TypeOK
    <2>2. /\ bids' = bids \cup {new} /\ new.item = i /\ new.amount = Cents(req[s].amount)
      BY <1>2, <2>0 DEF StoreBid, BidRow
    <2>3. new \in TopBids(i)' /\ BidsOn(i)' # {}
      <3>1. /\ Cents(req[s].amount) \in Int
            /\ \A b \in BidsOn(i) : b.amount <= Cents(req[s].amount)
        BY <1>2, <2>0, CommitRaises
      <3>2. \A b \in bids' : b.item = i => b.amount <= new.amount
        BY <2>2, <3>1 DEF BidsOn
      <3>3. QED
        BY <2>2, <3>2 DEF TopBids, BidsOn
    <2>4. \A j \in DOMAIN items \ {i} : BidsOn(j)' = BidsOn(j) /\ TopBids(j)' = TopBids(j)
      BY <2>2 DEF BidsOn, TopBids
    <2>5. \A j \in DOMAIN items :
             IF BidsOn(j)' = {} THEN items'[j].price = items'[j].start
             ELSE \E b \in TopBids(j)' : items'[j].price = b.amount
      <3> TAKE j \in DOMAIN items
      <3>1. CASE j = i
        BY <2>1, <2>2, <2>3, <3>1
      <3>2. CASE j # i
        BY <2>1, <2>4, <3>2 DEF SoleInv, PriceIsHighestBid
      <3>3. QED
        BY <3>1, <3>2
    <2>6. QED
      BY <2>1, <2>5 DEF PriceIsHighestBid
  <1>3. CASE StoreSale(s)
    <2>1. /\ DOMAIN items' = DOMAIN items /\ UNCHANGED bids
          /\ \A j \in DOMAIN items : items'[j].price = items[j].price /\ items'[j].start = items[j].start
      BY <1>3 DEF StoreSale, IInv, TypeOK, ItemRows
    <2>2. QED
      BY <2>1 DEF SoleInv, PriceIsHighestBid, TopBids, BidsOn
  <1>4. CASE StoreItem(s)
    <2> DEFINE i == req[s].item
    <2>1. BidsOn(i) = {} /\ i \notin DOMAIN items
      BY <1>4 DEF StoreItem, IInv, IdsAreFresh, CreateSteps, BidsOnItems, BidsOn
    <2>2. /\ DOMAIN items' = DOMAIN items \cup {i} /\ UNCHANGED bids
          /\ \A j \in DOMAIN items : items'[j] = items[j]
          /\ items'[i].price = items'[i].start
      BY <1>4, <2>1 DEF StoreItem, NewItem
    <2>3. QED
      BY <2>1, <2>2 DEF SoleInv, PriceIsHighestBid, TopBids, BidsOn
  <1>5. QED
    BY <1>1, <1>2, <1>3, <1>4, Step DEF Stores

LEMMA StepBidStillHigher ==
    ASSUME SoleServer, IInv, SoleInv, NEW s \in Servers, Arrive(s) \/ Handle(s) \/ Fail(s)
    PROVE  BidStillHigher'
  <1>1. SUFFICES /\ pc'[s] \in {"insert_bid", "update_price", "commit_bid"} =>
                      req'[s].amount > Mills(items'[req'[s].item].price)
                 /\ pc'[s] \in {"update_price", "commit_bid"} =>
                      \A b \in bids' : ~SameKey(b, BidRow(req'[s]))
                 /\ pc'[s] = "broadcast" => items'[req'[s].item].price = Cents(req'[s].amount)
    BY Zenon DEF BidStillHigher, SoleServer
  <1>2. CASE SelectPrice(s)
    BY <1>2 DEF IInv, TypeOK, SelectPrice, Goto, Answer, Quiet, tables
  <1>3. CASE InsertBid(s)
    <2>1. pc'[s] \in {"update_price", "respond"} /\ UNCHANGED <<tables, req>>
      BY <1>3 DEF IInv, TypeOK, InsertBid, Goto, Answer, Quiet
    <2>2. req[s].amount > Mills(items[req[s].item].price)
      BY <1>3 DEF InsertBid, SoleInv, BidStillHigher
    <2>3. CASE pc'[s] = "update_price"
      <3>1. Insertable(req[s])
        BY <1>3, <2>3 DEF IInv, TypeOK, InsertBid, Goto, Answer
      <3>2. QED
        BY <2>1, <2>2, <2>3, <3>1 DEF tables, Insertable
    <2>4. QED
      BY <2>1, <2>3
  <1>4. CASE UpdatePrice(s)
    <2>1. pc'[s] = "commit_bid" /\ pc[s] = "update_price" /\ UNCHANGED <<tables, req>>
      BY <1>4 DEF IInv, TypeOK, UpdatePrice, Goto, Quiet
    <2>2. QED
      BY <2>1 DEF tables, SoleInv, BidStillHigher
  <1>5. CASE CommitBid(s)
    <2>1. pc'[s] = "broadcast" /\ UNCHANGED req
      BY <1>5 DEF IInv, TypeOK, CommitBid, StoreBid, Goto
    <2>2. PICK i \in DOMAIN items : i = req[s].item
      BY <1>5, CommitRaises DEF CommitBid
    <2>3. PICK c \in Int : c = Cents(req[s].amount)
      BY <1>5, CommitRaises DEF CommitBid
    <2>4. items[i] \in ItemRows /\ items' = [items EXCEPT ![i] = [items[i] EXCEPT !.price = c]]
      BY <1>5, <2>2, <2>3 DEF CommitBid, StoreBid, IInv, TypeOK
    <2>5. items'[i].price = c
      BY <2>4 DEF ItemRows, IInv, TypeOK
    <2>6. QED
      BY <2>1, <2>2, <2>3, <2>5
  <1>6. CASE pc'[s] \notin {"insert_bid", "update_price", "commit_bid", "broadcast"}
    BY <1>6
  <1>7. CASE LinkLost(s)
    <2>1. /\ pc'[s] \in {"insert_bid", "update_price", "commit_bid", "broadcast"} =>
               pc'[s] = pc[s]
          /\ UNCHANGED <<tables, req>>
      BY <1>7 DEF IInv, TypeOK, LinkLost, Answer
    <2>2. QED
      BY <2>1 DEF tables, SoleInv, BidStillHigher
  <1>8. CASE Arrive(s)
    BY <1>6, <1>8 DEF IInv, TypeOK, Arrive, Begin, Goto, Answer,
       Malformed, InvalidBid, PlaceBid, CompleteTransaction, CreateAuction
  <1>9. QED
    BY <1>2, <1>3, <1>4, <1>5, <1>6, <1>7, <1>8 DEF IInv, TypeOK, Handle, Fail, Goto, Answer, Die,
       Broadcast, SelectTop, InsertSale, MarkSold, CommitSale, InsertItem, CommitItem, Respond,
       CommitUnanswered, Crash, CrashInCommit, Restart

LEMMA StepSaleStillTop ==
    ASSUME SoleServer, IInv, SoleInv, NEW s \in Servers, Arrive(s) \/ Handle(s) \/ Fail(s)
    PROVE  SaleStillTop'
  <1> DEFINE Selling == {"insert_sale", "mark_sold", "commit_sale"}
  <1>1. SUFFICES pc'[s] \in Selling => won'[s] \in TopBids(req[s].item)'
    BY Zenon DEF SaleStillTop, SoleServer
  <1>2. CASE pc'[s] \in Selling => pc[s] \in Selling /\ UNCHANGED <<bids, req, won>>
    BY <1>2 DEF SoleInv, SaleStillTop, TopBids, BidsOn
  <1>3. CASE SelectTop(s)
    BY <1>3 DEF IInv, TypeOK, SelectTop, TopBids, BidsOn, Goto, Answer, Quiet, tables
  <1>4. CASE Arrive(s)
    BY <1>2, <1>4 DEF IInv, TypeOK, Arrive, Begin, Goto, Answer,
       Malformed, InvalidBid, PlaceBid, CompleteTransaction, CreateAuction
  <1>5. CASE Handle(s) /\ ~SelectTop(s)
    BY <1>2, <1>5 DEF IInv, TypeOK, Handle, Goto, Answer, Quiet, tables,
       SelectPrice, InsertBid, UpdatePrice, CommitBid, Broadcast,
       InsertSale, MarkSold, CommitSale, InsertItem, CommitItem, Respond
  <1>6. CASE Fail(s)
    BY <1>2, <1>6 DEF IInv, TypeOK, Fail, Die, Answer, tables,
       LinkLost, CommitUnanswered, Crash, CrashInCommit, Restart
  <1>7. QED
    BY <1>3, <1>4, <1>5, <1>6

\* The price of an item, step by step.
LEMMA PriceGrows ==
    ASSUME IInv, SoleInv, NEW s \in Servers, Arrive(s) \/ Handle(s) \/ Fail(s),
           NEW i \in DOMAIN items
    PROVE  i \in DOMAIN items' /\ items'[i].price >= items[i].price
  <1>0. items[i] \in ItemRows /\ items[i].price \in Int
    BY DEF IInv, TypeOK, ItemRows
  <1>1. CASE UNCHANGED tables
    BY <1>0, <1>1 DEF tables
  <1>2. CASE StoreBid(s)
    <2>1. PICK c \in Int : c = Cents(req[s].amount) /\ (i = req[s].item => c >= items[i].price)
      BY <1>2, CommitRaises
    <2>2. CASE i = req[s].item
      <3>1. items' = [items EXCEPT ![i] = [items[i] EXCEPT !.price = c]]
        BY <1>2, <2>1, <2>2 DEF StoreBid
      <3>2. items'[i].price = c /\ i \in DOMAIN items'
        BY <1>0, <3>1 DEF ItemRows, IInv, TypeOK
      <3>3. QED
        BY <2>1, <2>2, <3>2
    <2>3. CASE i # req[s].item
      BY <1>0, <1>2, <2>3 DEF StoreBid, IInv, TypeOK
    <2>4. QED
      BY <2>2, <2>3
  <1>3. CASE StoreSale(s)
    BY <1>0, <1>3 DEF StoreSale, IInv, TypeOK, ItemRows
  <1>4. CASE StoreItem(s)
    BY <1>0, <1>4 DEF StoreItem, IInv, IdsAreFresh, CreateSteps
  <1>5. QED
    BY <1>1, <1>2, <1>3, <1>4, Step DEF Stores

LEMMA StepAnnouncedAtMostPrice ==
    ASSUME IInv, SoleInv, NEW s \in Servers, Arrive(s) \/ Handle(s) \/ Fail(s)
    PROVE  AnnouncedAtMostPrice'
  <1>1. \A m \in announced : m.item \in DOMAIN items /\ Cents(m.amount) \in Int
                              /\ items[m.item].price \in Int
    <2> TAKE m \in announced
    <2>1. m.item \in DOMAIN items
      BY DEF IInv, AnnouncedIsStored, BidsOnItems
    <2>2. m.amount \in Int
      BY MoneyAssumption DEF IInv, TypeOK
    <2>3. QED
      BY <2>1, <2>2, CentsInt DEF IInv, TypeOK, ItemRows
  <1>2. \A i \in DOMAIN items' : items'[i].price \in Int
    BY StepType DEF TypeOK, ItemRows
  <1>3. \A m \in announced : Cents(m.amount) <= items'[m.item].price
    BY <1>1, <1>2, PriceGrows DEF SoleInv, AnnouncedAtMostPrice
  <1>4. CASE Broadcast(s)
    <2>1. req[s] \in BidRequests /\ req[s].item \in DOMAIN items
      BY <1>4 DEF Broadcast, IInv, ServesItsRequest, BidChecked
    <2>2. items[req[s].item].price = Cents(req[s].amount) /\ items[req[s].item].price \in Int
      BY <1>4, <2>1 DEF Broadcast, SoleInv, BidStillHigher, IInv, TypeOK, ItemRows
    <2>3. announced' = announced \cup {[item |-> req[s].item, amount |-> req[s].amount]}
          /\ UNCHANGED items
      BY <1>4 DEF Broadcast, tables
    <2>4. QED
      BY <1>3, <2>2, <2>3 DEF AnnouncedAtMostPrice
  <1>5. CASE UNCHANGED announced
    BY <1>3, <1>5 DEF AnnouncedAtMostPrice
  <1>6. QED
    BY <1>4, <1>5 DEF Arrive, Handle, Fail, Quiet, Begin, Die,
       Malformed, InvalidBid, PlaceBid, SelectPrice, InsertBid, UpdatePrice, CommitBid,
       CompleteTransaction, SelectTop, InsertSale, MarkSold, CommitSale,
       CreateAuction, InsertItem, CommitItem, Respond,
       LinkLost, CommitUnanswered, Crash, CrashInCommit, Restart

LEMMA InitSole == Init => SoleInv
  <1> SUFFICES ASSUME Init PROVE SoleInv
    OBVIOUS
  <1>1. (\A s \in Servers : pc[s] = "idle") /\ DOMAIN items = {} /\ announced = {}
    BY DEF Init
  <1>2. QED
    BY <1>1 DEF SoleInv, PriceIsHighestBid, BidStillHigher, SaleStillTop, AnnouncedAtMostPrice

LEMMA StutterSole == ASSUME SoleInv, UNCHANGED vars PROVE SoleInv'
  BY DEF vars, tables, handler, SoleInv, PriceIsHighestBid, BidStillHigher, SaleStillTop,
     AnnouncedAtMostPrice, TopBids, BidsOn

\* With one server process, what a handler has read stays decisive until it
\* commits.
THEOREM SoleInvariance == ASSUME SoleServer PROVE Spec => []SoleInv
  <1>1. IInv /\ SoleInv /\ [Next]_vars => SoleInv'
    <2> SUFFICES ASSUME IInv, SoleInv, [Next]_vars PROVE SoleInv'
      OBVIOUS
    <2>1. ASSUME NEW s \in Servers, Arrive(s) \/ Handle(s) \/ Fail(s) PROVE SoleInv'
      BY <2>1, SoleServer, StepPriceIsHighestBid, StepBidStillHigher, StepSaleStillTop,
         StepAnnouncedAtMostPrice DEF SoleInv
    <2>2. QED
      BY <2>1, StutterSole DEF Next
  <1>2. QED
    BY <1>1, InitSole, Invariance, PTL DEF Spec

\* With one server process an item's price is its highest bid, or its
\* starting price.
THEOREM PriceIsAlwaysHighestBid == ASSUME SoleServer PROVE Spec => []PriceIsHighestBid
  <1>1. SoleInv => PriceIsHighestBid
    BY DEF SoleInv
  <1>2. QED
    BY <1>1, SoleInvariance, SoleServer, PTL

\* With one server process no step lowers the price of an item.
THEOREM PriceMonotone == ASSUME SoleServer PROVE Spec => PriceNeverFalls
  <1> DEFINE Up == \A i \in DOMAIN items :
                      i \in DOMAIN items' /\ items'[i].price >= items[i].price
  <1>1. IInv /\ SoleInv /\ [Next]_vars => [Up]_vars
    <2> SUFFICES ASSUME IInv, SoleInv, Next PROVE Up
      OBVIOUS
    <2>1. QED
      BY PriceGrows DEF Next
  <1>2. QED
    BY <1>1, Invariance, SoleInvariance, SoleServer, PTL DEF Spec, PriceNeverFalls

\* With one server process no later broadcast names a lower price.
THEOREM AnnouncementsMonotone == ASSUME SoleServer PROVE Spec => AnnouncementsNeverFall
  <1> DEFINE Up == \A m \in announced' \ announced : \A n \in announced :
                      m.item = n.item => Cents(m.amount) >= Cents(n.amount)
  <1>1. IInv /\ SoleInv /\ [Next]_vars => [Up]_vars
    <2> SUFFICES ASSUME IInv, SoleInv, Next, NEW m \in announced' \ announced,
                        NEW n \in announced, m.item = n.item
                 PROVE  Cents(m.amount) >= Cents(n.amount)
      OBVIOUS
    <2>1. PICK s \in Servers : Broadcast(s)
      BY Zenon DEF Next, Arrive, Handle, Fail, Quiet, Begin, Die,
         Malformed, InvalidBid, PlaceBid, SelectPrice, InsertBid, UpdatePrice, CommitBid,
         CompleteTransaction, SelectTop, InsertSale, MarkSold, CommitSale,
         CreateAuction, InsertItem, CommitItem, Respond,
         LinkLost, CommitUnanswered, Crash, CrashInCommit, Restart
    <2>2. m = [item |-> req[s].item, amount |-> req[s].amount]
      BY <2>1 DEF Broadcast
    <2>3. items[m.item].price = Cents(m.amount)
      BY <2>1, <2>2 DEF Broadcast, SoleInv, BidStillHigher
    <2>4. Cents(n.amount) <= items[n.item].price
      BY DEF SoleInv, AnnouncedAtMostPrice
    <2>5. m.amount \in Int /\ n.amount \in Int
      BY <2>1, <2>2, MoneyAssumption DEF Broadcast, IInv, TypeOK, ServesItsRequest, BidRequests
    <2>6. QED
      BY <2>3, <2>4, <2>5, CentsInt
  <1>2. QED
    BY <1>1, Invariance, SoleInvariance, SoleServer, PTL DEF Spec, AnnouncementsNeverFall

\* With one server process an item is sold at the price it shows.
THEOREM AlwaysSoldAtTopPrice == ASSUME SoleServer PROVE Spec => SoldAtTopPrice
  <1> DEFINE Fair == \A k \in DOMAIN transactions' \ DOMAIN transactions :
                        LET t == transactions'[k] IN
                            /\ t.price = items[t.item].price
                            /\ \E b \in TopBids(t.item) : t = SaleRow(b)
  <1>1. IInv /\ SoleInv /\ [Next]_vars => [Fair]_vars
    <2> SUFFICES ASSUME IInv, SoleInv, Next, NEW k \in DOMAIN transactions' \ DOMAIN transactions
                 PROVE  /\ transactions'[k].price = items[transactions'[k].item].price
                        /\ \E b \in TopBids(transactions'[k].item) : transactions'[k] = SaleRow(b)
      OBVIOUS
    <2>1. PICK s \in Servers : StoreSale(s)
      BY Step DEF Next, Stores, StoreBid, StoreItem, tables
    <2>2. transactions'[k] = SaleRow(won[s])
      BY <2>1 DEF StoreSale, IInv, TypeOK
    <2>3. won[s] \in TopBids(req[s].item) /\ won[s].item = req[s].item /\ won[s] \in bids
      BY <2>1 DEF StoreSale, SoleInv, SaleStillTop, IInv, SaleChecked
    <2>4. items[won[s].item].price = won[s].amount
      <3>1. won[s].item \in DOMAIN items /\ BidsOn(won[s].item) # {}
        BY <2>3 DEF IInv, BidsOnItems, BidsOn
      <3>2. PICK b \in TopBids(won[s].item) : items[won[s].item].price = b.amount
        BY <3>1 DEF SoleInv, PriceIsHighestBid
      <3>3. b.amount \in Int /\ won[s].amount \in Int
        BY <2>3 DEF TopBids, BidsOn, IInv, TypeOK, BidRows
      <3>4. b.amount <= won[s].amount /\ won[s].amount <= b.amount
        BY <2>3 DEF TopBids
      <3>5. QED
        BY <3>2, <3>3, <3>4
    <2>5. QED
      BY <2>2, <2>3, <2>4 DEF SaleRow
  <1>2. QED
    BY <1>1, Invariance, SoleInvariance, SoleServer, PTL DEF Spec, SoldAtTopPrice

\* What COMMIT does is a step of the abstract marketplace.
LEMMA CommitIsAbstract ==
    ASSUME IInv, SoleInv, NEW s \in Servers, Stores(s)
    PROVE  Abstract!Next
  <1> DEFINE Prices == {Cents(a) : a \in Amounts \cup Starts}
  <1>1. CASE StoreBid(s)
    <2>1. req[s] \in BidRequests /\ req[s].user \in Users /\ req[s].item \in DOMAIN items
      BY <1>1 DEF StoreBid, IInv, ServesItsRequest, BidChecked, BidSteps
    <2>2. PICK i \in DOMAIN items, u \in Users, c \in Prices, v \in SellerIds :
             i = req[s].item /\ u = req[s].user /\ c = Cents(req[s].amount) /\ v = req[s].seller
      BY <2>1 DEF BidRequests
    <2>3. i \in Items
      BY DEF IInv, TypeOK
    <2>4. c >= items[i].price
      BY <1>1, <2>2, CommitRaises
    <2>5. \A b \in Abstract!BidsOn(i) : b.user = u => b.amount # c
      BY <1>1, <2>2 DEF Abstract!BidsOn, StoreBid, SoleInv, BidStillHigher, SameKey, BidRow
    <2>6. Abstract!Bid(u, i, c, v)
      BY <1>1, <2>2, <2>4, <2>5 DEF Abstract!Bid, StoreBid, BidRow
    <2>7. QED
      BY <2>3, <2>6 DEF Abstract!Next
  <1>2. CASE StoreSale(s)
    <2>1. /\ won[s] \in TopBids(req[s].item) /\ won[s].item = req[s].item /\ won[s] \in bids
          /\ req[s].item \in DOMAIN items
      BY <1>2 DEF StoreSale, SoleInv, SaleStillTop, IInv, SaleChecked, BidsOnItems
    <2>2. PICK i \in DOMAIN items, b \in bids : i = req[s].item /\ b = won[s]
      BY <2>1
    <2>3. i \in Items
      BY DEF IInv, TypeOK
    <2>4. b \in TopBids(i) /\ b.item = i
      BY <2>1, <2>2
    <2>5. b.amount = items[i].price
      <3>1. PICK d \in TopBids(i) : items[i].price = d.amount
        BY <2>4 DEF SoleInv, PriceIsHighestBid, TopBids
      <3>2. d.amount \in Int /\ b.amount \in Int /\ d.amount <= b.amount /\ b.amount <= d.amount
        BY <2>4 DEF TopBids, BidsOn, IInv, TypeOK, BidRows
      <3>3. QED
        BY <3>1, <3>2
    <2>6. Abstract!Sell(i, b)
      BY <1>2, <2>2, <2>4, <2>5 DEF Abstract!Sell, Abstract!IsHighest, Abstract!BidsOn, StoreSale,
         SaleRow, TopBids, BidsOn
    <2>7. QED
      BY <2>3, <2>6 DEF Abstract!Next
  <1>3. CASE StoreItem(s)
    <2>1. req[s] \in CreateRequests /\ req[s].user \in Users /\ req[s].item \notin DOMAIN items
      BY <1>3 DEF StoreItem, IInv, ServesItsRequest, IdsAreFresh, CreateSteps
    <2>2. PICK i \in Items, u \in Users, c \in Prices :
             i = req[s].item /\ u = req[s].user /\ c = Cents(req[s].start)
      BY <2>1 DEF CreateRequests
    <2>3. Abstract!Open(i, u, c)
      BY <1>3, <2>1, <2>2 DEF Abstract!Open, StoreItem, NewItem
    <2>4. QED
      BY <2>2, <2>3 DEF Abstract!Next
  <1>4. QED
    BY <1>1, <1>2, <1>3 DEF Stores

\* With one server process the database behaves as the atomic marketplace:
\* the steps of handlers, refusals, crashes and lost links change nothing
\* there, and each COMMIT is one action of Auction.
THEOREM Refinement == ASSUME SoleServer PROVE Spec => ImplementsAuction
  <1>1. Init => Abstract!Init
    BY DEF Init, Abstract!Init
  <1>2. IInv /\ SoleInv /\ [Next]_vars => [Abstract!Next]_(Abstract!vars)
    <2> SUFFICES ASSUME IInv, SoleInv, [Next]_vars PROVE Abstract!Next \/ UNCHANGED Abstract!vars
      OBVIOUS
    <2>1. CASE UNCHANGED tables
      BY <2>1 DEF tables, Abstract!vars
    <2>2. CASE \E s \in Servers : Stores(s)
      BY <2>2, CommitIsAbstract
    <2>3. QED
      BY <2>1, <2>2, Step DEF Next, vars
  <1>3. QED
    BY <1>1, <1>2, Invariance, SoleInvariance, SoleServer, PTL DEF Spec, ImplementsAuction, Abstract!Spec
=============================================================================
