------------------------ MODULE SharedAuctionProofs -------------------------
(***************************************************************************)
(* Theorems about BidServer with any number of server processes: that they *)
(* implement SharedAuction, and that Auction is a stronger promise.        *)
(***************************************************************************)
EXTENDS BidServerProofs

Inserted == {"update_price", "commit_bid"}

\* Which statement leads a bid to its next step, and what it has found out.
LEMMA BidMoves ==
    ASSUME IInv, NEW s \in Servers, Arrive(s) \/ Handle(s) \/ Fail(s)
    PROVE  /\ pc'[s] = "insert_bid" =>
                /\ UNCHANGED <<tables, req>> /\ pc[s] = "select_price"
                /\ req[s].item \in DOMAIN items /\ req[s].amount > Mills(items[req[s].item].price)
           /\ pc'[s] = "update_price" =>
                /\ UNCHANGED <<tables, req>> /\ pc[s] = "insert_bid" /\ KeyFree(s) /\ Insertable(req[s])
           /\ pc'[s] = "commit_bid" => UNCHANGED <<tables, req>> /\ pc[s] = "update_price"
  <1>1. CASE Arrive(s)
    BY <1>1 DEF IInv, TypeOK, Arrive, Begin, Goto, Answer,
       Malformed, InvalidBid, PlaceBid, CompleteTransaction, CreateAuction
  <1>2. CASE SelectPrice(s)
    BY <1>2 DEF IInv, TypeOK, SelectPrice, Goto, Answer, Quiet
  <1>3. CASE InsertBid(s)
    BY <1>3 DEF IInv, TypeOK, InsertBid, Goto, Answer, Quiet
  <1>4. CASE UpdatePrice(s)
    BY <1>4 DEF IInv, TypeOK, UpdatePrice, Goto, Quiet
  <1>5. CASE Handle(s) /\ ~SelectPrice(s) /\ ~InsertBid(s) /\ ~UpdatePrice(s)
    BY <1>5 DEF IInv, TypeOK, Handle, Goto, Answer, CommitBid, Broadcast,
       SelectTop, InsertSale, MarkSold, CommitSale, InsertItem, CommitItem, Respond
  <1>6. CASE Fail(s)
    BY <1>6 DEF IInv, TypeOK, Fail, Die, Answer, TxnSteps, BidSteps,
       LinkLost, CommitUnanswered, Crash, CrashInCommit, Restart
  <1>7. QED
    BY <1>1, <1>2, <1>3, <1>4, <1>5, <1>6

\* What COMMIT of a bid does to the rows of items.
LEMMA StoreBidRows ==
    ASSUME IInv, NEW s \in Servers, StoreBid(s)
    PROVE  /\ req[s] \in BidRequests /\ req[s].item \in DOMAIN items /\ req[s].user \in Users
           /\ Cents(req[s].amount) \in Int
           /\ DOMAIN items' = DOMAIN items
           /\ items'[req[s].item].price = Cents(req[s].amount)
           /\ \A j \in DOMAIN items : items'[j].start = items[j].start
           /\ \A j \in DOMAIN items \ {req[s].item} : items'[j] = items[j]
  <1>1. req[s] \in BidRequests /\ req[s].item \in DOMAIN items /\ req[s].user \in Users
    BY DEF StoreBid, IInv, ServesItsRequest, BidChecked, BidSteps
  <1>2. PICK i \in DOMAIN items : i = req[s].item
    BY <1>1
  <1>3. PICK c \in Int : c = Cents(req[s].amount)
    BY <1>1, CentsInt, MoneyAssumption DEF BidRequests
  <1>4. items' = [items EXCEPT ![i] = [items[i] EXCEPT !.price = c]] /\ items[i] \in ItemRows
    BY <1>2, <1>3 DEF StoreBid, IInv, TypeOK
  <1>5. items'[i].price = c /\ items'[i].start = items[i].start
    BY <1>4 DEF ItemRows, IInv, TypeOK
  <1>6. QED
    BY <1>1, <1>2, <1>3, <1>4, <1>5 DEF IInv, TypeOK

\* A starting price is for ever.
LEMMA StartStays ==
    ASSUME IInv, NEW s \in Servers, Arrive(s) \/ Handle(s) \/ Fail(s), NEW i \in DOMAIN items
    PROVE  i \in DOMAIN items' /\ items'[i].start = items[i].start /\ items[i].start \in Int
  <1>0. items[i] \in ItemRows /\ items[i].start \in Int
    BY DEF IInv, TypeOK, ItemRows
  <1>1. CASE UNCHANGED tables
    BY <1>0, <1>1 DEF tables
  <1>2. CASE StoreBid(s)
    BY <1>0, <1>2, StoreBidRows
  <1>3. CASE StoreSale(s)
    BY <1>0, <1>3 DEF StoreSale, IInv, TypeOK, ItemRows
  <1>4. CASE StoreItem(s)
    BY <1>0, <1>4 DEF StoreItem, IInv, IdsAreFresh, CreateSteps
  <1>5. QED
    BY <1>1, <1>2, <1>3, <1>4, Step DEF Stores

\* Every price is at least the starting price.
LEMMA PriceAtLeastStart ==
    ASSUME IInv, PriceIsOffered, NEW i \in DOMAIN items
    PROVE  items[i].price \in Int /\ items[i].start \in Int /\ items[i].price >= items[i].start
  <1>1. items[i].price \in Int /\ items[i].start \in Int
    BY DEF IInv, TypeOK, ItemRows
  <1>2. items[i].price = items[i].start \/ \E b \in BidsOn(i) : items[i].price = b.amount
    BY DEF PriceIsOffered
  <1>3. QED
    BY <1>1, <1>2 DEF PriceIsOffered

LEMMA StepPriceIsOffered ==
    ASSUME IInv, SharedInv, NEW s \in Servers, Arrive(s) \/ Handle(s) \/ Fail(s)
    PROVE  PriceIsOffered'
  <1>0. PriceIsOffered /\ BidStillAlone
    BY DEF SharedInv
  <1>1. CASE UNCHANGED tables
    BY <1>0, <1>1 DEF tables, PriceIsOffered, BidsOn
  <1>2. CASE StoreBid(s)
    <2>1. PICK i \in DOMAIN items, c \in Int : i = req[s].item /\ c = Cents(req[s].amount)
      BY <1>2, StoreBidRows
    <2>2. /\ DOMAIN items' = DOMAIN items /\ items'[i].price = c
          /\ \A j \in DOMAIN items : items'[j].start = items[j].start
          /\ \A j \in DOMAIN items \ {i} : items'[j] = items[j]
      BY <1>2, <2>1, StoreBidRows
    <2>3. c >= items[i].start
      BY <1>0, <1>2, <2>1 DEF StoreBid, BidStillAlone
    <2>4. PICK new : new = BidRow(req[s])
      OBVIOUS
    <2>5. bids' = bids \cup {new} /\ new.item = i /\ new.amount = c
      BY <1>2, <2>1, <2>4 DEF StoreBid, BidRow
    <2>6. BidsOn(i)' = BidsOn(i) \cup {new} /\ \A j \in DOMAIN items \ {i} : BidsOn(j)' = BidsOn(j)
      BY <2>5 DEF BidsOn
    <2>7. QED
      BY <1>0, <2>2, <2>3, <2>5, <2>6 DEF PriceIsOffered
  <1>3. CASE StoreSale(s)
    <2>1. /\ DOMAIN items' = DOMAIN items /\ UNCHANGED bids
          /\ \A j \in DOMAIN items : items'[j].price = items[j].price /\ items'[j].start = items[j].start
      BY <1>3 DEF StoreSale, IInv, TypeOK, ItemRows
    <2>2. QED
      BY <1>0, <2>1 DEF PriceIsOffered, BidsOn
  <1>4. CASE StoreItem(s)
    <2>1. PICK i : i = req[s].item
      OBVIOUS
    <2>2. BidsOn(i) = {} /\ i \notin DOMAIN items
      BY <1>4, <2>1 DEF StoreItem, IInv, IdsAreFresh, CreateSteps, BidsOnItems, BidsOn
    <2>3. /\ DOMAIN items' = DOMAIN items \cup {i} /\ UNCHANGED bids
          /\ \A j \in DOMAIN items : items'[j] = items[j]
          /\ items'[i].price = items'[i].start
      BY <1>4, <2>1, <2>2 DEF StoreItem, NewItem
    <2>4. QED
      BY <1>0, <2>2, <2>3 DEF PriceIsOffered, BidsOn
  <1>5. QED
    BY <1>1, <1>2, <1>3, <1>4, Step DEF Stores

LEMMA StepBidStillAlone ==
    ASSUME IInv, SharedInv, NEW s \in Servers, Arrive(s) \/ Handle(s) \/ Fail(s)
    PROVE  BidStillAlone'
  <1>0. PriceIsOffered /\ BidStillAlone
    BY DEF SharedInv
  <1>1. ASSUME pc'[s] \in {"insert_bid"} \cup Inserted
        PROVE  Cents(req'[s].amount) >= items'[req'[s].item].start
    <2>1. CASE pc'[s] = "insert_bid"
      <3>1. PICK i \in DOMAIN items : i = req[s].item
        BY <2>1, BidMoves
      <3>2. req[s].amount \in Int
        BY <2>1, BidMoves, MoneyAssumption DEF IInv, ServesItsRequest, BidSteps, BidRequests
      <3>3. req[s].amount > Mills(items[i].price)
        BY <2>1, <3>1, BidMoves
      <3>4. Cents(req[s].amount) >= items[i].start
        BY <1>0, <3>2, <3>3, PriceAtLeastStart, RoundingKeepsOrder, CentsInt
      <3>5. QED
        BY <2>1, <3>1, <3>4, BidMoves DEF tables
    <2>2. CASE pc'[s] \in Inserted
      <3>1. pc[s] \in {"insert_bid"} \cup Inserted /\ UNCHANGED <<tables, req>>
        BY <2>2, BidMoves DEF Inserted
      <3>2. QED
        BY <1>0, <3>1 DEF BidStillAlone, Inserted, tables
    <2>3. QED
      BY <1>1, <2>1, <2>2
  <1>2. ASSUME pc'[s] \in Inserted
        PROVE  /\ UNCHANGED <<tables, req>>
               /\ \A b \in bids : ~SameKey(b, BidRow(req[s]))
               /\ \A t \in Servers \ {s} : pc[t] \in Inserted => ~SameKey(BidRow(req[t]), BidRow(req[s]))
    <2>1. CASE pc'[s] = "update_price"
      BY <2>1, BidMoves DEF KeyFree, Insertable, Inserted
    <2>2. CASE pc'[s] = "commit_bid"
      BY <1>0, <2>2, BidMoves DEF BidStillAlone, Inserted
    <2>3. QED
      BY <1>2, <2>1, <2>2 DEF Inserted
  <1>3. ASSUME NEW t \in Servers, t # s, pc'[t] \in {"insert_bid"} \cup Inserted
        PROVE  /\ UNCHANGED <<pc[t], req[t]>>
               /\ Cents(req'[t].amount) >= items'[req'[t].item].start
    <2>1. UNCHANGED <<pc[t], req[t]>>
      BY <1>3, Others DEF IInv
    <2>2. PICK i \in DOMAIN items : i = req[t].item
      BY <1>3, <2>1 DEF IInv, BidChecked, Inserted
    <2>3. Cents(req[t].amount) >= items[i].start
      BY <1>0, <1>3, <2>1, <2>2 DEF BidStillAlone, Inserted
    <2>4. QED
      BY <2>1, <2>2, <2>3, StartStays
  <1>4. ASSUME NEW t \in Servers, t # s, pc'[t] \in Inserted, NEW b \in bids'
        PROVE  ~SameKey(b, BidRow(req'[t]))
    <2>1. pc[t] \in Inserted /\ req'[t] = req[t]
      BY <1>3, <1>4
    <2>2. \A c \in bids : ~SameKey(c, BidRow(req[t]))
      BY <1>0, <2>1 DEF BidStillAlone, Inserted
    <2>3. CASE b \in bids
      BY <2>1, <2>2, <2>3
    <2>4. CASE b \notin bids
      <3>1. StoreBid(s)
        BY <1>4, <2>4, Step DEF Stores, StoreSale, StoreItem, tables
      <3>2. b = BidRow(req[s])
        BY <1>4, <2>4, <3>1 DEF StoreBid
      <3>3. pc[s] \in Inserted
        BY <3>1 DEF StoreBid, Inserted
      <3>4. ~SameKey(BidRow(req[s]), BidRow(req[t]))
        BY <1>0, <1>4, <2>1, <3>3 DEF BidStillAlone, Inserted
      <3>5. QED
        BY <2>1, <3>2, <3>4
    <2>5. QED
      BY <2>3, <2>4
  <1>5. ASSUME NEW t \in Servers, NEW u \in Servers \ {t}, pc'[t] \in Inserted, pc'[u] \in Inserted
        PROVE  ~SameKey(BidRow(req'[u]), BidRow(req'[t]))
    <2>1. CASE t = s
      <3>1. pc[u] \in Inserted /\ req'[u] = req[u]
        BY <1>3, <1>5, <2>1
      <3>2. QED
        BY <1>2, <1>5, <2>1, <3>1
    <2>2. CASE u = s
      <3>1. pc[t] \in Inserted /\ req'[t] = req[t]
        BY <1>3, <1>5, <2>2
      <3>2. ~SameKey(BidRow(req[t]), BidRow(req[s])) /\ req'[s] = req[s]
        BY <1>2, <1>5, <2>2, <3>1
      <3>3. QED
        BY <2>2, <3>1, <3>2 DEF SameKey
    <2>3. CASE t # s /\ u # s
      <3>1. pc[t] \in Inserted /\ req'[t] = req[t] /\ pc[u] \in Inserted /\ req'[u] = req[u]
        BY <1>3, <1>5, <2>3
      <3>2. QED
        BY <1>0, <1>5, <3>1 DEF BidStillAlone, Inserted
    <2>4. QED
      BY <2>1, <2>2, <2>3
  <1>6. ASSUME NEW t \in Servers
        PROVE  /\ pc'[t] \in {"insert_bid"} \cup Inserted =>
                    Cents(req'[t].amount) >= items'[req'[t].item].start
               /\ pc'[t] \in Inserted => \A b \in bids' : ~SameKey(b, BidRow(req'[t]))
    <2>1. CASE t = s
      BY <1>1, <1>2, <2>1 DEF tables
    <2>2. CASE t # s
      BY <1>3, <1>4, <2>2
    <2>3. QED
      BY <2>1, <2>2
  <1>7. QED
    BY <1>5, <1>6 DEF BidStillAlone, Inserted

LEMMA StepKeysAreUnique ==
    ASSUME IInv, SharedInv, NEW s \in Servers, Arrive(s) \/ Handle(s) \/ Fail(s)
    PROVE  KeysAreUnique'
  <1>1. CASE StoreBid(s)
    <2>1. \A b \in bids : ~SameKey(b, BidRow(req[s]))
      BY <1>1 DEF StoreBid, SharedInv, BidStillAlone
    <2>2. QED
      BY <1>1, <2>1 DEF StoreBid, SharedInv, KeysAreUnique, SameKey
  <1>2. CASE UNCHANGED bids
    BY <1>2 DEF SharedInv, KeysAreUnique
  <1>3. QED
    BY <1>1, <1>2, Step DEF Stores, StoreSale, StoreItem, tables

\* With any number of processes: what a handler that writes a bid relies on.
THEOREM SharedInvariance == Spec => []SharedInv
  <1>1. Init => SharedInv
    BY DEF Init, SharedInv, PriceIsOffered, BidStillAlone, KeysAreUnique
  <1>2. IInv /\ SharedInv /\ [Next]_vars => SharedInv'
    <2> SUFFICES ASSUME IInv, SharedInv, [Next]_vars PROVE SharedInv'
      OBVIOUS
    <2>1. ASSUME NEW s \in Servers, Arrive(s) \/ Handle(s) \/ Fail(s) PROVE SharedInv'
      BY <2>1, StepPriceIsOffered, StepBidStillAlone, StepKeysAreUnique DEF SharedInv
    <2>2. CASE UNCHANGED vars
      BY <2>2 DEF vars, tables, handler, SharedInv, PriceIsOffered, BidStillAlone, KeysAreUnique, BidsOn
    <2>3. QED
      BY <2>1, <2>2 DEF Next
  <1>3. QED
    BY <1>1, <1>2, Invariance, PTL DEF Spec

\* An item's price is its starting price or the amount of a bid for it, and no
\* bid is below the starting price, however many processes write prices.
THEOREM PriceIsAlwaysOffered == Spec => []PriceIsOffered
  <1>1. SharedInv => PriceIsOffered
    BY DEF SharedInv
  <1>2. QED
    BY <1>1, SharedInvariance, PTL

-----------------------------------------------------------------------------
(* Columns *)

\* Only a create request that was checked gets to its COMMIT.
LEMMA ItemMoves ==
    ASSUME IInv, NEW s \in Servers, Arrive(s) \/ Handle(s) \/ Fail(s), pc'[s] = "commit_item"
    PROVE  UNCHANGED req /\ pc[s] = "insert_item" /\ Fits(Cents(req[s].start), PriceLimit)
  <1>1. CASE Arrive(s)
    BY <1>1 DEF IInv, TypeOK, Arrive, Begin, Goto, Answer,
       Malformed, InvalidBid, PlaceBid, CompleteTransaction, CreateAuction
  <1>2. CASE InsertItem(s)
    BY <1>2 DEF IInv, TypeOK, InsertItem, Goto, Answer, Quiet
  <1>3. CASE Handle(s) /\ ~InsertItem(s)
    BY <1>3 DEF IInv, TypeOK, Handle, Goto, Answer, SelectPrice, InsertBid, UpdatePrice,
       CommitBid, Broadcast, SelectTop, InsertSale, MarkSold, CommitSale, CommitItem, Respond
  <1>4. CASE Fail(s)
    BY <1>4 DEF IInv, TypeOK, Fail, Die, Answer, TxnSteps, CreateSteps,
       LinkLost, CommitUnanswered, Crash, CrashInCommit, Restart
  <1>5. QED
    BY <1>1, <1>2, <1>3, <1>4

LEMMA StepCheckedFits ==
    ASSUME IInv, CheckedFits, NEW s \in Servers, Arrive(s) \/ Handle(s) \/ Fail(s)
    PROVE  CheckedFits'
  <1>1. pc'[s] \in Inserted => Fits(Cents(req'[s].amount), PriceLimit)
    BY BidMoves DEF CheckedFits, Inserted, Insertable
  <1>2. pc'[s] = "commit_item" => Fits(Cents(req'[s].start), PriceLimit)
    BY ItemMoves
  <1>3. \A t \in Servers \ {s} : UNCHANGED <<pc[t], req[t]>>
    BY Others DEF IInv
  <1>4. QED
    BY <1>1, <1>2, <1>3 DEF CheckedFits, Inserted

LEMMA StepAmountsFit ==
    ASSUME IInv, AmountsFit, CheckedFits, NEW s \in Servers, Arrive(s) \/ Handle(s) \/ Fail(s)
    PROVE  AmountsFit'
  <1>1. CASE UNCHANGED tables
    BY <1>1 DEF tables, AmountsFit
  <1>2. CASE StoreBid(s)
    <2>1. PICK i \in DOMAIN items, c \in Int : i = req[s].item /\ c = Cents(req[s].amount)
      BY <1>2, StoreBidRows
    <2>2. Fits(c, PriceLimit)
      BY <1>2, <2>1 DEF StoreBid, CheckedFits
    <2>3. PICK new : new = BidRow(req[s])
      OBVIOUS
    <2>4. bids' = bids \cup {new} /\ new.amount = c
      BY <1>2, <2>1, <2>3 DEF StoreBid, BidRow
    <2>5. /\ DOMAIN items' = DOMAIN items /\ items'[i].price = c
          /\ \A j \in DOMAIN items : items'[j].start = items[j].start
          /\ \A j \in DOMAIN items \ {i} : items'[j] = items[j]
      BY <1>2, <2>1, StoreBidRows
    <2>6. QED
      BY <2>2, <2>4, <2>5 DEF AmountsFit
  <1>3. CASE StoreSale(s)
    <2>1. /\ DOMAIN items' = DOMAIN items /\ UNCHANGED bids
          /\ \A j \in DOMAIN items : items'[j].price = items[j].price /\ items'[j].start = items[j].start
      BY <1>3 DEF StoreSale, IInv, TypeOK, ItemRows
    <2>2. QED
      BY <2>1 DEF AmountsFit
  <1>4. CASE StoreItem(s)
    <2>1. PICK i, c : i = req[s].item /\ c = Cents(req[s].start)
      OBVIOUS
    <2>2. Fits(c, PriceLimit)
      BY <1>4, <2>1 DEF StoreItem, CheckedFits
    <2>3. /\ DOMAIN items' = DOMAIN items \cup {i} /\ UNCHANGED bids
          /\ items'[i].start = c /\ items'[i].price = c
          /\ \A j \in DOMAIN items \ {i} : items'[j] = items[j]
      BY <1>4, <2>1 DEF StoreItem, NewItem
    <2>4. QED
      BY <2>2, <2>3 DEF AmountsFit
  <1>5. QED
    BY <1>1, <1>2, <1>3, <1>4, Step DEF Stores

\* No amount that a column cannot hold gets into a price, by whichever
\* process's UPDATE: it was checked when the same amount was inserted.
THEOREM AmountsAlwaysFit == Spec => []AmountsFit
  <1>1. Init => AmountsFit /\ CheckedFits
    BY DEF Init, AmountsFit, CheckedFits
  <1>2. IInv /\ AmountsFit /\ CheckedFits /\ [Next]_vars => AmountsFit' /\ CheckedFits'
    <2> SUFFICES ASSUME IInv, AmountsFit, CheckedFits, [Next]_vars PROVE AmountsFit' /\ CheckedFits'
      OBVIOUS
    <2>1. ASSUME NEW s \in Servers, Arrive(s) \/ Handle(s) \/ Fail(s) PROVE AmountsFit' /\ CheckedFits'
      BY <2>1, StepAmountsFit, StepCheckedFits
    <2>2. CASE UNCHANGED vars
      BY <2>2 DEF vars, tables, handler, AmountsFit, CheckedFits
    <2>3. QED
      BY <2>1, <2>2 DEF Next
  <1>3. QED
    BY <1>1, <1>2, Invariance, PTL DEF Spec

\* What a client was told and what is stored differ by half a cent at most: the
\* message has the amount of the request, the row what the column made of it.
THEOREM AnnouncedIsNearStored ==
    Spec => [](\A m \in announced : \E b \in bids :
                  /\ b.item = m.item
                  /\ Mills(b.amount) - m.amount <= 5 /\ m.amount - Mills(b.amount) <= 5)
  <1>1. IInv => \A m \in announced : \E b \in bids :
                  /\ b.item = m.item
                  /\ Mills(b.amount) - m.amount <= 5 /\ m.amount - Mills(b.amount) <= 5
    <2> SUFFICES ASSUME IInv, NEW m \in announced
                 PROVE  \E b \in bids : /\ b.item = m.item
                          /\ Mills(b.amount) - m.amount <= 5 /\ m.amount - Mills(b.amount) <= 5
      OBVIOUS
    <2>1. m.amount \in Int
      BY MoneyAssumption DEF IInv, TypeOK
    <2>2. \E b \in bids : b.item = m.item /\ b.amount = Cents(m.amount)
      BY DEF IInv, AnnouncedIsStored
    <2>3. QED
      BY <2>1, <2>2, CentsIsNearest
  <1>2. QED
    BY <1>1, Invariance, PTL

-----------------------------------------------------------------------------
(* The top bid *)

\* An item with a bid has a top bid.
HasTopBid == \A i \in Items : BidsOn(i) # {} => TopBids(i) # {}

\* ORDER BY bid_amount DESC LIMIT 1 finds a row for every item with a bid, so
\* complete_transaction answers 404 only where there is none.  What a finite
\* set has by induction, the table has because bids are added one by one.
THEOREM TopBidIsThere == Spec => []HasTopBid
  <1>1. Init => HasTopBid
    BY DEF Init, HasTopBid, BidsOn
  <1>2. IInv /\ HasTopBid /\ [Next]_vars => HasTopBid'
    <2> SUFFICES ASSUME IInv, HasTopBid, [Next]_vars, NEW i \in Items, BidsOn(i)' # {}
                 PROVE  TopBids(i)' # {}
      BY DEF HasTopBid
    <2>1. CASE UNCHANGED bids
      BY <2>1 DEF HasTopBid, TopBids, BidsOn
    <2>2. ASSUME NEW s \in Servers, StoreBid(s) PROVE TopBids(i)' # {}
      <3>0. PICK cents \in Int : cents = Cents(req[s].amount)
        BY <2>2, StoreBidRows
      <3>1. PICK new : new = BidRow(req[s])
        OBVIOUS
      <3>2. bids' = bids \cup {new} /\ new.amount \in Int
        BY <2>2, <3>0, <3>1 DEF StoreBid, BidRow
      <3>3. \A b \in bids : b.amount \in Int
        BY DEF IInv, TypeOK, BidRows
      <3>4. CASE TopBids(i) = {}
        <4>1. BidsOn(i)' = {new}
          BY <2>2, <3>2, <3>4 DEF HasTopBid, BidsOn
        <4>2. new \in TopBids(i)'
          BY <3>2, <4>1 DEF TopBids
        <4>3. QED
          BY <4>2
      <3>5. CASE TopBids(i) # {}
        <4>1. PICK top \in BidsOn(i) : \A c \in BidsOn(i) : c.amount <= top.amount
          BY <3>5 DEF TopBids
        <4>2. top \in BidsOn(i)' /\ top \in bids
          BY <3>2, <4>1 DEF BidsOn
        <4>3. CASE new.item = i /\ new.amount > top.amount
          <5>1. new \in TopBids(i)'
            BY <3>2, <3>3, <4>1, <4>2, <4>3 DEF TopBids, BidsOn
          <5>2. QED
            BY <5>1
        <4>4. CASE ~(new.item = i /\ new.amount > top.amount)
          <5>1. top \in TopBids(i)'
            BY <3>2, <3>3, <4>1, <4>2, <4>4 DEF TopBids, BidsOn
          <5>2. QED
            BY <5>1
        <4>5. QED
          BY <4>3, <4>4
      <3>6. QED
        BY <3>4, <3>5
    <2>3. QED
      BY <2>1, <2>2, Step DEF Next, vars, tables, Stores, StoreSale, StoreItem
  <1>3. QED
    BY <1>1, <1>2, Invariance, PTL DEF Spec

-----------------------------------------------------------------------------
(* Waiting *)

\* The statements that take keys and rows come in one order: INSERT before
\* UPDATE before COMMIT.  A wait is for a later step, and COMMIT waits for none.
LEMMA WaitsEnd == SomeoneRuns
  <1>1. ASSUME NEW t \in Servers, pc[t] \in {"commit_bid", "commit_sale"}
        PROVE  pc[t] \in TxnSteps /\ ~Waits(t)
    BY <1>1 DEF Waits, TxnSteps, BidSteps, SaleSteps
  <1>2. ASSUME NEW s \in Servers, ~RowFree(s)
        PROVE  \E t \in Servers : pc[t] \in TxnSteps /\ ~Waits(t)
    BY <1>1, <1>2 DEF RowFree
  <1>3. ASSUME NEW s \in Servers, ~KeyFree(s)
        PROVE  \E t \in Servers : pc[t] \in TxnSteps /\ ~Waits(t)
    <2>1. PICK t \in Servers : pc[t] \in {"update_price", "commit_bid"}
      BY <1>3 DEF KeyFree
    <2>2. CASE Waits(t)
      BY <1>2, <2>1, <2>2 DEF Waits
    <2>3. CASE ~Waits(t)
      BY <2>1, <2>3 DEF TxnSteps, BidSteps
    <2>4. QED
      BY <2>2, <2>3
  <1>4. QED
    BY <1>2, <1>3 DEF SomeoneRuns, Waits

\* However many processes, items and requests: while a handler waits, another
\* one is in a transaction and does not.
THEOREM SomeoneAlwaysRuns == Spec => []SomeoneRuns
  BY WaitsEnd, PTL

-----------------------------------------------------------------------------
(* The refinement *)

\* What COMMIT does is a step of the shared marketplace.
LEMMA CommitIsShared ==
    ASSUME IInv, SharedInv, NEW s \in Servers, Stores(s)
    PROVE  Shared!Next
  <1> DEFINE Prices == {Cents(a) : a \in Amounts \cup Starts}
  <1>1. CASE StoreBid(s)
    <2>1. req[s] \in BidRequests /\ req[s].user \in Users /\ req[s].item \in DOMAIN items
      BY <1>1, StoreBidRows
    <2>2. PICK i \in DOMAIN items, u \in Users, c \in Prices, v \in SellerIds :
             i = req[s].item /\ u = req[s].user /\ c = Cents(req[s].amount) /\ v = req[s].seller
      BY <2>1 DEF BidRequests
    <2>3. i \in Items
      BY DEF IInv, TypeOK
    <2>4. c >= items[i].start
      BY <1>1, <2>2 DEF StoreBid, SharedInv, BidStillAlone
    <2>5. \A b \in Shared!Sole!BidsOn(i) : b.user = u => b.amount # c
      BY <1>1, <2>2 DEF Shared!Sole!BidsOn, StoreBid, SharedInv, BidStillAlone, SameKey, BidRow
    <2>6. Shared!Bid(u, i, c, v)
      BY <1>1, <2>2, <2>4, <2>5 DEF Shared!Bid, StoreBid, BidRow
    <2>7. QED
      BY <2>3, <2>6 DEF Shared!Next
  <1>2. CASE StoreSale(s)
    <2>1. won[s].item = req[s].item /\ won[s] \in bids /\ req[s].item \in DOMAIN items
      BY <1>2 DEF StoreSale, IInv, SaleChecked, BidsOnItems
    <2>2. PICK i \in Items, b \in bids : i = req[s].item /\ b = won[s] /\ b.item = i
      BY <2>1 DEF IInv, TypeOK
    <2>3. Shared!Sell(i, b)
      BY <1>2, <2>2 DEF Shared!Sell, Shared!Sole!BidsOn, StoreSale, SaleRow
    <2>4. QED
      BY <2>2, <2>3 DEF Shared!Next
  <1>3. CASE StoreItem(s)
    <2>1. req[s] \in CreateRequests /\ req[s].user \in Users /\ req[s].item \notin DOMAIN items
      BY <1>3 DEF StoreItem, IInv, ServesItsRequest, IdsAreFresh, CreateSteps
    <2>2. PICK i \in Items, u \in Users, c \in Prices :
             i = req[s].item /\ u = req[s].user /\ c = Cents(req[s].start)
      BY <2>1 DEF CreateRequests
    <2>3. Shared!Sole!Open(i, u, c)
      BY <1>3, <2>1, <2>2 DEF Shared!Sole!Open, StoreItem, NewItem
    <2>4. QED
      BY <2>2, <2>3 DEF Shared!Next
  <1>4. QED
    BY <1>1, <1>2, <1>3 DEF Stores

\* Any number of server processes implement the shared marketplace.
THEOREM SharedRefinement == Spec => ImplementsShared
  <1>1. Init => Shared!Sole!Init
    BY DEF Init, Shared!Sole!Init
  <1>2. IInv /\ SharedInv /\ [Next]_vars => [Shared!Next]_(Shared!vars)
    <2> SUFFICES ASSUME IInv, SharedInv, [Next]_vars PROVE Shared!Next \/ UNCHANGED Shared!vars
      OBVIOUS
    <2>1. CASE UNCHANGED tables
      BY <2>1 DEF tables, Shared!vars
    <2>2. CASE \E s \in Servers : Stores(s)
      BY <2>2, CommitIsShared
    <2>3. QED
      BY <2>1, <2>2, Step DEF Next, vars
  <1>3. QED
    BY <1>1, <1>2, Invariance, SharedInvariance, PTL DEF Spec, ImplementsShared, Shared!Spec

-----------------------------------------------------------------------------
(* Auction promises more *)

\* In Auction no price is below the starting price.
AuctionInv ==
    /\ items \in [DOMAIN items -> ItemRows]
    /\ \A i \in DOMAIN items : items[i].price >= items[i].start

LEMMA PricedRow ==
    ASSUME NEW r \in ItemRows, NEW c \in Int
    PROVE  /\ [r EXCEPT !.price = c] \in ItemRows
           /\ [r EXCEPT !.price = c].price = c /\ [r EXCEPT !.price = c].start = r.start
  BY RowUpdate DEF ItemRows

LEMMA AuctionStep ==
    ASSUME AuctionInv, [Abstract!Next]_(Abstract!vars)
    PROVE  AuctionInv' /\ [Shared!Next]_(Shared!vars)
  <1> DEFINE Prices == {Cents(a) : a \in Amounts \cup Starts}
  <1>1. Prices \subseteq Int
    BY CentsInt, MoneyAssumption
  <1>2. ASSUME NEW i \in Items, NEW u \in Users, NEW c \in Prices, Abstract!Open(i, u, c)
        PROVE  AuctionInv' /\ Shared!Next
    <2>1. c \in Int
      BY <1>1
    <2>2. [owner |-> u, start |-> c, price |-> c, status |-> "active"] \in ItemRows
      BY <2>1 DEF ItemRows
    <2>3. AuctionInv'
      BY <1>2, <2>1, <2>2 DEF AuctionInv, Abstract!Open
    <2>4. Shared!Sole!Open(i, u, c)
      BY <1>2 DEF Abstract!Open, Shared!Sole!Open
    <2>5. QED
      BY <2>3, <2>4 DEF Shared!Next
  <1>3. ASSUME NEW i \in Items, NEW u \in Users, NEW c \in Prices, NEW v \in SellerIds,
               Abstract!Bid(u, i, c, v)
        PROVE  AuctionInv' /\ Shared!Next
    <2>1. c \in Int /\ i \in DOMAIN items /\ items[i] \in ItemRows /\ c >= items[i].price
      BY <1>1, <1>3 DEF Abstract!Bid, AuctionInv
    <2>2. items[i].price \in Int /\ items[i].start \in Int /\ c >= items[i].start
      BY <2>1 DEF AuctionInv, ItemRows
    <2>3. PICK r \in ItemRows : /\ r = [items[i] EXCEPT !.price = c]
                                /\ r.price = c /\ r.start = items[i].start
      BY <2>1, PricedRow
    <2>4. items' = [items EXCEPT ![i] = r]
      BY <1>3, <2>1, <2>3 DEF Abstract!Bid
    <2>5. AuctionInv'
      BY <2>1, <2>2, <2>3, <2>4 DEF AuctionInv
    <2>6. Shared!Bid(u, i, c, v)
      BY <1>3, <2>2 DEF Abstract!Bid, Shared!Bid, Abstract!BidsOn, Shared!Sole!BidsOn
    <2>7. QED
      BY <2>5, <2>6 DEF Shared!Next
  <1>4. ASSUME NEW i \in Items, NEW b \in bids, Abstract!Sell(i, b)
        PROVE  AuctionInv' /\ Shared!Next
    <2>1. items' = [items EXCEPT ![i].status = "sold"]
      BY <1>4 DEF Abstract!Sell
    <2>2. AuctionInv'
      BY <2>1 DEF AuctionInv, ItemRows
    <2>3. Shared!Sell(i, b)
      BY <1>4 DEF Abstract!Sell, Abstract!IsHighest, Abstract!BidsOn, Shared!Sell, Shared!Sole!BidsOn
    <2>4. QED
      BY <2>2, <2>3 DEF Shared!Next
  <1>5. CASE UNCHANGED Abstract!vars
    BY <1>5 DEF Abstract!vars, Shared!vars, AuctionInv
  <1>6. QED
    BY <1>2, <1>3, <1>4, <1>5 DEF Abstract!Next

\* What one process implements is also what several do: Auction differs from
\* SharedAuction in promising more, and in nothing else.
THEOREM AuctionIsShared == ImplementsAuction => ImplementsShared
  <1>1. Abstract!Init => AuctionInv /\ Shared!Sole!Init
    BY DEF Abstract!Init, AuctionInv, Shared!Sole!Init
  <1>2. QED
    BY <1>1, AuctionStep, PTL DEF ImplementsAuction, Abstract!Spec, ImplementsShared, Shared!Spec
=============================================================================
