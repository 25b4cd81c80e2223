-------------------------- MODULE SellerDeskProofs --------------------------
(***************************************************************************)
(* Theorems about SellerDesk, for any number of tabs, items and sales.     *)
(***************************************************************************)
EXTENDS SellerDesk, TLAPS

USE SellerAssumption, PriceAssumption, BoundAssumption

LEMMA InitInv == Init => IInv
  <1>. SUFFICES ASSUME Init PROVE IInv
    OBVIOUS
  <1>1. items \in [Items -> ItemRows]
    BY DEF Init, ItemRows
  <1>2. transactions \in Seq(SaleRows) /\ Len(transactions) <= MaxSales
    BY DEF Init
  <1>3. \A t \in Tabs : /\ found[t] \in [DOMAIN found[t] -> Int] /\ DOMAIN found[t] = {}
                        /\ itemsListed[t] \in [DOMAIN itemsListed[t] -> Int] /\ DOMAIN itemsListed[t] = {}
    BY DEF Init, Nothing
  <1>4. reads \in [Tabs -> [1 .. MaxSales -> Nat]] /\ sells \in [Tabs -> [Items -> 0 .. MaxClicks]]
    BY DEF Init
  <1>5. TypeOK
    BY <1>1, <1>2, <1>3, <1>4 DEF Init, TypeOK
  <1>6. ListedAtMostPrice
    BY <1>3 DEF ListedAtMostPrice
  <1>7. ConfirmedIsSold /\ GoneIsSold
    BY DEF Init, ConfirmedIsSold, GoneIsSold
  <1>8. QED
    BY <1>5, <1>6, <1>7 DEF IInv

-----------------------------------------------------------------------------
(* What a step does to the tables *)

Tables ==
    /\ items \in [Items -> ItemRows]
    /\ \A b \in bids : b.user \in Users /\ b.item \in Items /\ b.amount \in Int /\ b.seller = Seller
    /\ transactions \in Seq(SaleRows) /\ Len(transactions) <= MaxSales

\* The tables are well formed, no price falls, and no sale is undone.
TablesGrow ==
    /\ Tables'
    /\ \A i \in Items : items'[i].price >= items[i].price /\ (HasSale(i) => HasSale(i)')

LEMMA BidStep ==
    ASSUME TypeOK, PlaceBid
    PROVE  TablesGrow /\ UNCHANGED <<lists, clicks, solds, transactions>>
  <1>1. PICK u \in Users, i \in Items, a \in Prices : a > items[i].price /\ Market!Bid(u, i, a, Seller)
    BY DEF PlaceBid
  <1>2. /\ bids' = bids \cup {[user |-> u, item |-> i, amount |-> a, seller |-> Seller]}
        /\ items' = [items EXCEPT ![i].price = a]
        /\ UNCHANGED transactions
    BY <1>1 DEF Market!Bid
  <1>3. a \in Int
    OBVIOUS
  <1>4. items' \in [Items -> ItemRows]
    BY <1>2, <1>3 DEF TypeOK, ItemRows
  <1>5. \A j \in Items : items'[j].price >= items[j].price
    BY <1>1, <1>2, <1>3 DEF TypeOK, ItemRows
  <1>6. \A b \in bids' : b.user \in Users /\ b.item \in Items /\ b.amount \in Int /\ b.seller = Seller
    BY <1>2, <1>3 DEF TypeOK
  <1>7. Tables'
    BY <1>2, <1>4, <1>6 DEF Tables, TypeOK
  <1>8. QED
    BY <1>2, <1>5, <1>7 DEF TablesGrow, HasSale, PlaceBid

LEMMA SaleStep ==
    ASSUME TypeOK, NEW i \in Items, SellToHighest(i)
    PROVE  /\ TablesGrow /\ HasSale(i)'
           /\ \A k \in DOMAIN transactions' \ DOMAIN transactions :
                transactions'[k].item = i /\ transactions'[k].price = items[i].price
  <1>1. PICK b \in bids : Market!Sell(i, b)
    BY DEF SellToHighest
  <1>. DEFINE sale == [item |-> i, buyer |-> b.user, seller |-> b.seller, price |-> b.amount]
              n == Len(transactions)
  <1>2. /\ b.amount = items[i].price
        /\ transactions' = Append(transactions, sale)
        /\ items' = [items EXCEPT ![i].status = "sold"]
        /\ UNCHANGED bids
    BY <1>1 DEF Market!Sell
  <1>3. sale \in SaleRows
    BY DEF TypeOK, SaleRows
  <1>4. n \in Nat /\ n < MaxSales /\ transactions \in Seq(SaleRows)
    BY DEF TypeOK, SellToHighest
  <1>5. /\ transactions' \in Seq(SaleRows) /\ Len(transactions') = n + 1
        /\ transactions'[n + 1] = sale
        /\ \A k \in 1 .. n : transactions'[k] = transactions[k]
        /\ DOMAIN transactions = 1 .. n /\ DOMAIN transactions' = 1 .. n + 1
    BY <1>2, <1>3, <1>4
  <1>6. items' \in [Items -> ItemRows] /\ \A j \in Items : items'[j].price = items[j].price
    <2>1. \A j \in Items : items'[j] = IF j = i THEN [items[j] EXCEPT !.status = "sold"] ELSE items[j]
      BY <1>2 DEF TypeOK
    <2>2. DOMAIN items' = Items /\ items' = [j \in Items |-> items'[j]]
      BY <1>2 DEF TypeOK
    <2>3. \A j \in Items : items'[j] \in ItemRows /\ items'[j].price = items[j].price
      BY <2>1 DEF TypeOK, ItemRows
    <2>4. QED
      BY <2>2, <2>3
  <1>7. \A j \in Items : items[j].price \in Int
    BY DEF TypeOK, ItemRows
  <1>8. Tables'
    BY <1>2, <1>4, <1>5, <1>6 DEF Tables, TypeOK
  <1>9. \A j \in Items : HasSale(j) => HasSale(j)'
    BY <1>4, <1>5 DEF HasSale
  <1>10. HasSale(i)'
    <2>1. n + 1 \in DOMAIN transactions' /\ transactions'[n + 1].item = i
      BY <1>4, <1>5
    <2>2. QED
      BY <2>1 DEF HasSale
  <1>11. \A k \in DOMAIN transactions' \ DOMAIN transactions : k = n + 1
    BY <1>4, <1>5
  <1>12. QED
    BY <1>2, <1>5, <1>6, <1>7, <1>8, <1>9, <1>10, <1>11 DEF TablesGrow

LEMMA SameTables ==
    ASSUME TypeOK, UNCHANGED tables
    PROVE  TablesGrow
  <1>1. \A i \in Items : items[i].price \in Int
    BY DEF TypeOK, ItemRows
  <1>2. QED
    BY <1>1 DEF TypeOK, tables, TablesGrow, Tables, HasSale

\* The actions of a tab that leave the tables alone.
Page(t) ==
    \/ OpenTab(t) \/ ReadItems(t) \/ ReadDetails(t) \/ ShowList(t) \/ ListFailed(t)
    \/ SellItem(t) \/ RefuseSell(t) \/ SellFailed(t) \/ ShowOk(t)
    \/ ReadSold(t) \/ SoldFailed(t) \/ ShowSold(t)

LEMMA StepTables == ASSUME TypeOK, [Next]_vars PROVE TablesGrow
  <1>1. CASE PlaceBid
    BY <1>1, BidStep
  <1>2. ASSUME NEW t \in Tabs, ServeSell(t) \/ SellInDoubt(t) PROVE TablesGrow
    BY <1>2, SaleStep DEF ServeSell, SellInDoubt
  <1>3. ASSUME NEW t \in Tabs, Page(t) PROVE TablesGrow
    <2>1. UNCHANGED tables
      BY <1>3 DEF Page, OpenTab, ReadItems, ReadDetails, ShowList, ListFailed, SellItem, RefuseSell,
                  SellFailed, ShowOk, ReadSold, SoldFailed, ShowSold
    <2>2. QED
      BY <2>1, SameTables
  <1>4. CASE UNCHANGED vars
    BY <1>4, SameTables DEF vars
  <1>5. QED
    BY <1>1, <1>2, <1>3, <1>4 DEF Next, Work, Fail, Page

-----------------------------------------------------------------------------
(* Types *)

\* What a tab keeps for itself has the right types.
TabTypes ==
    /\ list \in [Tabs -> {"closed", "asked", "detailed", "shown", "failed"}]
    /\ wanted \in [Tabs -> SUBSET Items]
    /\ DOMAIN found = Tabs /\ DOMAIN itemsListed = Tabs
    /\ \A t \in Tabs :
         /\ found[t] \in [DOMAIN found[t] -> Int] /\ DOMAIN found[t] \subseteq Items
         /\ itemsListed[t] \in [DOMAIN itemsListed[t] -> Int] /\ DOMAIN itemsListed[t] \subseteq Items

\* What is on its way has the right types.
WireTypes ==
    /\ sells \in [Tabs -> [Items -> 0 .. MaxClicks]]
    /\ oks \in [Tabs -> [Items -> Nat]]
    /\ asks \in [Tabs -> Nat]
    /\ reads \in [Tabs -> [1 .. MaxSales -> Nat]]
    /\ itemsSold \in [Tabs -> 0 .. MaxSales]

LEMMA TypeParts == TypeOK <=> Tables /\ TabTypes /\ WireTypes
  BY DEF TypeOK, Tables, TabTypes, WireTypes

LEMMA StepTabTypes == ASSUME TypeOK, [Next]_vars PROVE TabTypes'
  <1>0. TabTypes /\ \A i \in Items : items[i].price \in Int
    BY TypeParts DEF TypeOK, ItemRows
  <1>1. CASE UNCHANGED lists
    BY <1>0, <1>1 DEF lists, TabTypes
  <1>2. ASSUME NEW t \in Tabs, OpenTab(t) \/ ListFailed(t) PROVE TabTypes'
    BY <1>0, <1>2 DEF OpenTab, ListFailed, TabTypes
  <1>3. ASSUME NEW t \in Tabs, ReadItems(t) PROVE TabTypes'
    BY <1>0, <1>3 DEF ReadItems, TabTypes
  <1>4. ASSUME NEW t \in Tabs, ReadDetails(t) PROVE TabTypes'
    <2>1. PICK i \in Items :
            found' = [found EXCEPT ![t] = [j \in DOMAIN @ \cup {i} |-> IF j = i THEN items[i].price ELSE @[j]]]
      BY <1>0, <1>4 DEF ReadDetails, TabTypes
    <2>2. /\ DOMAIN found' = Tabs /\ \A q \in Tabs \ {t} : found'[q] = found[q]
          /\ DOMAIN found'[t] = DOMAIN found[t] \cup {i}
          /\ found'[t] \in [DOMAIN found'[t] -> Int]
      BY <1>0, <2>1 DEF TabTypes
    <2>3. UNCHANGED <<list, wanted, itemsListed>>
      BY <1>4 DEF ReadDetails
    <2>4. QED
      BY <1>0, <2>2, <2>3 DEF TabTypes
  <1>5. ASSUME NEW t \in Tabs, ShowList(t) PROVE TabTypes'
    BY <1>0, <1>5 DEF ShowList, TabTypes
  <1>6. ASSUME NEW t \in Tabs, ShowOk(t) PROVE TabTypes'
    <2>1. PICK i \in Items : itemsListed' = WithoutItem(t, i)
      BY <1>6 DEF ShowOk
    <2>2. /\ DOMAIN itemsListed' = Tabs /\ \A q \in Tabs \ {t} : itemsListed'[q] = itemsListed[q]
          /\ itemsListed'[t] = [j \in DOMAIN itemsListed[t] \ {i} |-> itemsListed[t][j]]
      BY <1>0, <2>1 DEF TabTypes, WithoutItem
    <2>3. UNCHANGED <<list, wanted, found>>
      BY <1>6 DEF ShowOk
    <2>4. QED
      BY <1>0, <2>2, <2>3 DEF TabTypes
  <1>7. ASSUME NEW t \in Tabs, SellItem(t) \/ ServeSell(t) \/ SellInDoubt(t) \/ RefuseSell(t) \/ SellFailed(t)
                               \/ ReadSold(t) \/ SoldFailed(t) \/ ShowSold(t)
        PROVE UNCHANGED lists
    BY <1>7 DEF SellItem, ServeSell, SellInDoubt, RefuseSell, SellFailed, ReadSold, SoldFailed, ShowSold
  <1>8. CASE PlaceBid \/ UNCHANGED vars
    BY <1>1, <1>8 DEF PlaceBid, vars
  <1>9. QED
    BY <1>1, <1>2, <1>3, <1>4, <1>5, <1>6, <1>7, <1>8 DEF Next, Work, Fail

LEMMA StepWireTypes == ASSUME TypeOK, [Next]_vars PROVE WireTypes'
  <1>0. WireTypes
    BY TypeParts
  <1>1. CASE UNCHANGED <<clicks, solds>>
    BY <1>0, <1>1 DEF clicks, solds, WireTypes
  <1>2. ASSUME NEW t \in Tabs, OpenTab(t) \/ SoldFailed(t) PROVE WireTypes'
    BY <1>0, <1>2 DEF OpenTab, SoldFailed, clicks, WireTypes
  <1>3. ASSUME NEW t \in Tabs, SellItem(t) PROVE WireTypes'
    <2>1. PICK i \in Items : sells[t][i] < MaxClicks /\ sells' = [sells EXCEPT ![t][i] = @ + 1]
      BY <1>3 DEF SellItem, TypeOK
    <2>2. sells' \in [Tabs -> [Items -> 0 .. MaxClicks]]
      BY <1>0, <2>1 DEF WireTypes
    <2>3. QED
      BY <1>0, <1>3, <2>2 DEF SellItem, solds, WireTypes
  <1>4. ASSUME NEW t \in Tabs, NEW i \in Items, Receive(t, i)
        PROVE  sells' \in [Tabs -> [Items -> 0 .. MaxClicks]]
    BY <1>0, <1>4 DEF Receive, WireTypes
  <1>5. ASSUME NEW t \in Tabs, SellInDoubt(t) \/ RefuseSell(t) \/ SellFailed(t) PROVE WireTypes'
    BY <1>0, <1>4, <1>5 DEF SellInDoubt, RefuseSell, SellFailed, solds, WireTypes
  <1>6. ASSUME NEW t \in Tabs, ServeSell(t) PROVE WireTypes'
    <2>1. PICK i \in Items : Receive(t, i) /\ oks' = [oks EXCEPT ![t][i] = @ + 1]
      BY <1>6 DEF ServeSell
    <2>2. oks' \in [Tabs -> [Items -> Nat]]
      BY <1>0, <2>1 DEF WireTypes
    <2>3. QED
      BY <1>0, <1>4, <1>6, <2>1, <2>2 DEF ServeSell, solds, WireTypes
  <1>7. ASSUME NEW t \in Tabs, ShowOk(t) PROVE WireTypes'
    <2>1. PICK i \in Items : oks[t][i] > 0 /\ oks' = [oks EXCEPT ![t][i] = @ - 1]
      BY <1>7 DEF ShowOk
    <2>2. oks' \in [Tabs -> [Items -> Nat]]
      BY <1>0, <2>1 DEF WireTypes
    <2>3. asks' \in [Tabs -> Nat] /\ UNCHANGED <<sells, reads, itemsSold>>
      BY <1>0, <1>7 DEF ShowOk, WireTypes
    <2>4. QED
      BY <1>0, <2>2, <2>3 DEF WireTypes
  <1>8. ASSUME NEW t \in Tabs, ReadSold(t) PROVE WireTypes'
    <2>1. Len(transactions) \in Nat /\ Len(transactions) <= MaxSales
      BY DEF TypeOK
    <2>2. reads' \in [Tabs -> [1 .. MaxSales -> Nat]]
      <3>1. CASE Len(transactions) = 0
        BY <1>0, <1>8, <2>1, <3>1 DEF ReadSold, WireTypes
      <3>2. CASE Len(transactions) > 0
        <4>. DEFINE n == Len(transactions)
        <4>1. n \in 1 .. MaxSales /\ reads' = [reads EXCEPT ![t][n] = @ + 1]
          BY <1>8, <2>1, <3>2 DEF ReadSold
        <4>. HIDE DEF n
        <4>2. QED
          BY <1>0, <4>1 DEF WireTypes
      <3>3. QED
        BY <2>1, <3>1, <3>2
    <2>3. asks' \in [Tabs -> Nat] /\ UNCHANGED <<clicks, itemsSold>>
      BY <1>0, <1>8 DEF ReadSold, WireTypes
    <2>4. QED
      BY <1>0, <2>2, <2>3 DEF clicks, WireTypes
  <1>9. ASSUME NEW t \in Tabs, ShowSold(t) PROVE WireTypes'
    <2>1. PICK n \in 1 .. MaxSales : /\ reads[t][n] > 0 /\ reads' = [reads EXCEPT ![t][n] = @ - 1]
                                     /\ itemsSold' = [itemsSold EXCEPT ![t] = n]
      BY <1>9 DEF ShowSold
    <2>2. reads' \in [Tabs -> [1 .. MaxSales -> Nat]] /\ itemsSold' \in [Tabs -> 0 .. MaxSales]
      BY <1>0, <2>1 DEF WireTypes
    <2>3. QED
      BY <1>0, <1>9, <2>2 DEF ShowSold, clicks, WireTypes
  <1>10. ASSUME NEW t \in Tabs, ReadItems(t) \/ ReadDetails(t) \/ ShowList(t) \/ ListFailed(t)
         PROVE UNCHANGED <<clicks, solds>>
    BY <1>10 DEF ReadItems, ReadDetails, ShowList, ListFailed
  <1>11. CASE PlaceBid \/ UNCHANGED vars
    BY <1>1, <1>11 DEF PlaceBid, vars
  <1>12. QED
    BY <1>1, <1>2, <1>3, <1>5, <1>6, <1>7, <1>8, <1>9, <1>10, <1>11 DEF Next, Work, Fail

-----------------------------------------------------------------------------
(* The parts of the inductive invariant *)

LEMMA StepAtMostPrice == ASSUME IInv, [Next]_vars PROVE ListedAtMostPrice'
  <1>0. /\ TypeOK /\ TablesGrow /\ ListedAtMostPrice
        /\ \A i \in Items : items[i].price \in Int /\ items'[i].price \in Int
    BY StepTables DEF IInv, TablesGrow, Tables, TypeOK, ItemRows
  \* What a tab keeps stays at most the price, since that does not fall.
  <1>1. ASSUME NEW t \in Tabs, NEW f, f \in [DOMAIN f -> Int], DOMAIN f \subseteq Items,
               \A i \in DOMAIN f : f[i] <= items[i].price
        PROVE  \A i \in DOMAIN f : f[i] <= items'[i].price
    BY <1>0, <1>1 DEF TablesGrow
  <1>2. CASE UNCHANGED <<found, itemsListed>>
    BY <1>0, <1>1, <1>2 DEF ListedAtMostPrice, TypeOK
  <1>3. ASSUME NEW t \in Tabs, ReadDetails(t) PROVE ListedAtMostPrice'
    <2>1. PICK i \in Items :
            found' = [found EXCEPT ![t] = [j \in DOMAIN @ \cup {i} |-> IF j = i THEN items[i].price ELSE @[j]]]
      BY <1>0, <1>3, TypeParts DEF ReadDetails, TabTypes
    <2>2. UNCHANGED <<tables, itemsListed>>
      BY <1>3 DEF ReadDetails
    <2>3. \A q \in Tabs : \A j \in DOMAIN found'[q] :
            found'[q][j] = items[j].price \/ (j \in DOMAIN found[q] /\ found'[q][j] = found[q][j])
      BY <1>0, <2>1 DEF TypeOK
    <2>4. \A q \in Tabs : \A j \in DOMAIN found'[q] : j \in Items
      BY <1>0, <2>1 DEF TypeOK
    <2>5. QED
      BY <1>0, <2>2, <2>3, <2>4 DEF ListedAtMostPrice, tables
  <1>4. ASSUME NEW t \in Tabs, ShowList(t) PROVE ListedAtMostPrice'
    BY <1>0, <1>4 DEF ShowList, ListedAtMostPrice, TypeOK, tables
  <1>5. ASSUME NEW t \in Tabs, ShowOk(t) PROVE ListedAtMostPrice'
    <2>1. PICK i \in Items : itemsListed' = WithoutItem(t, i)
      BY <1>5 DEF ShowOk
    <2>2. \A q \in Tabs : \A j \in DOMAIN itemsListed'[q] :
            j \in DOMAIN itemsListed[q] /\ itemsListed'[q][j] = itemsListed[q][j]
      BY <1>0, <2>1 DEF TypeOK, WithoutItem
    <2>3. UNCHANGED <<tables, found>>
      BY <1>5 DEF ShowOk
    <2>4. QED
      BY <1>0, <2>2, <2>3 DEF ListedAtMostPrice, tables
  <1>6. ASSUME NEW t \in Tabs,
               OpenTab(t) \/ ReadItems(t) \/ ListFailed(t) \/ SellItem(t) \/ ServeSell(t) \/ SellInDoubt(t)
               \/ RefuseSell(t) \/ SellFailed(t) \/ ReadSold(t) \/ SoldFailed(t) \/ ShowSold(t)
        PROVE UNCHANGED <<found, itemsListed>>
    BY <1>6 DEF OpenTab, ReadItems, ListFailed, SellItem, ServeSell, SellInDoubt, RefuseSell, SellFailed,
                ReadSold, SoldFailed, ShowSold, lists
  <1>7. CASE PlaceBid \/ UNCHANGED vars
    BY <1>2, <1>7 DEF PlaceBid, vars, lists
  <1>8. QED
    BY <1>2, <1>3, <1>4, <1>5, <1>6, <1>7 DEF Next, Work, Fail

LEMMA StepConfirmed == ASSUME IInv, [Next]_vars PROVE ConfirmedIsSold'
  <1>0. TypeOK /\ TablesGrow /\ ConfirmedIsSold
    BY StepTables DEF IInv
  <1>1. CASE UNCHANGED oks
    BY <1>0, <1>1 DEF ConfirmedIsSold, TablesGrow
  <1>2. ASSUME NEW t \in Tabs, ServeSell(t) PROVE ConfirmedIsSold'
    <2>1. PICK i \in Items : SellToHighest(i) /\ oks' = [oks EXCEPT ![t][i] = @ + 1]
      BY <1>2 DEF ServeSell
    <2>2. HasSale(i)'
      BY <1>0, <2>1, SaleStep
    <2>3. \A q \in Tabs, j \in Items : j # i => oks'[q][j] = oks[q][j]
      BY <1>0, <2>1 DEF TypeOK
    <2>4. QED
      BY <1>0, <2>2, <2>3 DEF ConfirmedIsSold, TablesGrow
  <1>3. ASSUME NEW t \in Tabs, ShowOk(t) PROVE ConfirmedIsSold'
    <2>1. PICK i \in Items : oks[t][i] > 0 /\ oks' = [oks EXCEPT ![t][i] = @ - 1]
      BY <1>3 DEF ShowOk
    <2>2. \A q \in Tabs, j \in Items : oks'[q][j] > 0 => oks[q][j] > 0
      BY <1>0, <2>1 DEF TypeOK
    <2>3. QED
      BY <1>0, <2>2 DEF ConfirmedIsSold, TablesGrow
  <1>4. ASSUME NEW t \in Tabs,
               OpenTab(t) \/ ReadItems(t) \/ ReadDetails(t) \/ ShowList(t) \/ ListFailed(t) \/ SellItem(t)
               \/ SellInDoubt(t) \/ RefuseSell(t) \/ SellFailed(t) \/ ReadSold(t) \/ SoldFailed(t) \/ ShowSold(t)
        PROVE UNCHANGED oks
    BY <1>4 DEF OpenTab, ReadItems, ReadDetails, ShowList, ListFailed, SellItem, SellInDoubt, RefuseSell,
                SellFailed, ReadSold, SoldFailed, ShowSold, clicks
  <1>5. CASE PlaceBid \/ UNCHANGED vars
    BY <1>1, <1>5 DEF PlaceBid, vars, clicks
  <1>6. QED
    BY <1>1, <1>2, <1>3, <1>4, <1>5 DEF Next, Work, Fail

LEMMA StepGone == ASSUME IInv, [Next]_vars PROVE GoneIsSold'
  <1>0. TypeOK /\ TablesGrow /\ ConfirmedIsSold /\ GoneIsSold
    BY StepTables DEF IInv
  <1>1. CASE UNCHANGED <<list, found, itemsListed>>
    BY <1>0, <1>1 DEF GoneIsSold, TablesGrow, TypeOK
  <1>2. ASSUME NEW t \in Tabs, OpenTab(t) \/ ReadItems(t) \/ ListFailed(t) PROVE GoneIsSold'
    <2>1. UNCHANGED <<found, itemsListed>> /\ \A q \in Tabs : list'[q] = "shown" => list[q] = "shown"
      BY <1>0, <1>2 DEF OpenTab, ReadItems, ListFailed, TypeOK
    <2>2. QED
      BY <1>0, <2>1 DEF GoneIsSold, TablesGrow, TypeOK
  <1>3. ASSUME NEW t \in Tabs, ReadDetails(t) PROVE GoneIsSold'
    <2>1. list'[t] # "shown" /\ UNCHANGED <<list, itemsListed>>
      BY <1>3 DEF ReadDetails
    <2>2. \A q \in Tabs \ {t} : found'[q] = found[q]
      BY <1>0, <1>3 DEF ReadDetails, TypeOK
    <2>3. QED
      BY <1>0, <2>1, <2>2 DEF GoneIsSold, TablesGrow, TypeOK
  <1>4. ASSUME NEW t \in Tabs, ShowList(t) PROVE GoneIsSold'
    <2>1. found'[t] = itemsListed'[t]
      BY <1>0, <1>4 DEF ShowList, TypeOK
    <2>2. \A q \in Tabs \ {t} : /\ found'[q] = found[q] /\ itemsListed'[q] = itemsListed[q]
                               /\ list'[q] = list[q]
      BY <1>0, <1>4 DEF ShowList, TypeOK
    <2>3. QED
      BY <1>0, <2>1, <2>2 DEF GoneIsSold, TablesGrow, TypeOK
  <1>5. ASSUME NEW t \in Tabs, ShowOk(t) PROVE GoneIsSold'
    <2>1. PICK i \in Items : oks[t][i] > 0 /\ itemsListed' = WithoutItem(t, i)
      BY <1>5 DEF ShowOk
    <2>2. HasSale(i)'
      BY <1>0, <2>1 DEF ConfirmedIsSold, TablesGrow
    <2>3. \A q \in Tabs : DOMAIN itemsListed[q] \subseteq DOMAIN itemsListed'[q] \cup {i}
      BY <1>0, <2>1 DEF TypeOK, WithoutItem
    <2>4. UNCHANGED <<list, found>>
      BY <1>5 DEF ShowOk
    <2>5. QED
      BY <1>0, <2>2, <2>3, <2>4 DEF GoneIsSold, TablesGrow, TypeOK
  <1>6. ASSUME NEW t \in Tabs,
               SellItem(t) \/ ServeSell(t) \/ SellInDoubt(t) \/ RefuseSell(t) \/ SellFailed(t)
               \/ ReadSold(t) \/ SoldFailed(t) \/ ShowSold(t)
        PROVE UNCHANGED <<list, found, itemsListed>>
    BY <1>6 DEF SellItem, ServeSell, SellInDoubt, RefuseSell, SellFailed, ReadSold, SoldFailed, ShowSold, lists
  <1>7. CASE PlaceBid \/ UNCHANGED vars
    BY <1>1, <1>7 DEF PlaceBid, vars, lists
  <1>8. QED
    BY <1>1, <1>2, <1>3, <1>4, <1>5, <1>6, <1>7 DEF Next, Work, Fail

-----------------------------------------------------------------------------
\* The inductive invariant: what a tab has read is at most the price, only
\* sales are confirmed, and only what is confirmed leaves a list.
THEOREM DeskInvariance == Spec => []IInv
  <1>1. IInv /\ [Next]_vars => IInv'
    <2>. SUFFICES ASSUME IInv, [Next]_vars PROVE IInv'
      OBVIOUS
    <2>1. TypeOK
      BY DEF IInv
    <2>2. Tables' /\ TabTypes' /\ WireTypes'
      BY <2>1, StepTables, StepTabTypes, StepWireTypes DEF TablesGrow
    <2>3. TypeOK'
      BY <2>2 DEF TypeOK, Tables, TabTypes, WireTypes
    <2>4. QED
      BY <2>3, StepAtMostPrice, StepConfirmed, StepGone DEF IInv
  <1>2. QED
    BY <1>1, InitInv, PTL DEF Spec

\* The variables of tabs and tables keep their types.
THEOREM DeskTypeCorrect == Spec => []TypeOK
  <1>1. IInv => TypeOK
    BY DEF IInv
  <1>2. QED
    BY <1>1, DeskInvariance, PTL

\* An item that has left a tab's list has been sold.
THEOREM GoneItemsAreSold == Spec => []GoneIsSold
  <1>1. IInv => GoneIsSold
    BY DEF IInv
  <1>2. QED
    BY <1>1, DeskInvariance, PTL

LEMMA SaleAtListed ==
    ASSUME IInv, [Next]_vars, NEW k \in DOMAIN transactions' \ DOMAIN transactions, NEW t \in Tabs,
           transactions'[k].item \in DOMAIN itemsListed[t]
    PROVE  transactions'[k].price >= itemsListed[t][transactions'[k].item]
  <1>0. TypeOK /\ ListedAtMostPrice
    BY DEF IInv
  <1>1. ASSUME NEW i \in Items, SellToHighest(i)
        PROVE  transactions'[k].price >= itemsListed[t][transactions'[k].item]
    <2>1. transactions'[k].item = i /\ transactions'[k].price = items[i].price
      BY <1>0, <1>1, SaleStep
    <2>2. items[i].price \in Int /\ itemsListed[t][i] \in Int /\ itemsListed[t][i] <= items[i].price
      BY <1>0, <2>1 DEF TypeOK, ItemRows, ListedAtMostPrice
    <2>3. QED
      BY <2>1, <2>2
  <1>2. CASE PlaceBid
    BY <1>0, <1>2, BidStep
  <1>3. ASSUME NEW q \in Tabs, Page(q) PROVE UNCHANGED transactions
    BY <1>3 DEF Page, OpenTab, ReadItems, ReadDetails, ShowList, ListFailed, SellItem, RefuseSell,
                SellFailed, ShowOk, ReadSold, SoldFailed, ShowSold, tables
  <1>4. CASE UNCHANGED vars
    BY <1>4 DEF vars, tables
  <1>5. QED
    BY <1>1, <1>2, <1>3, <1>4 DEF Next, Work, Fail, Page, ServeSell, SellInDoubt

\* No sale is below the price that a tab shows next to the button.
THEOREM SoldAtListedOrMore == Spec => NeverSoldBelowListed
  <1>1. IInv /\ [Next]_vars =>
          [\A k \in DOMAIN transactions' \ DOMAIN transactions : \A t \in Tabs :
              LET sale == transactions'[k] IN
              sale.item \in DOMAIN itemsListed[t] => sale.price >= itemsListed[t][sale.item]]_vars
    BY SaleAtListed
  <1>2. QED
    BY <1>1, DeskInvariance, PTL DEF Spec, NeverSoldBelowListed
=============================================================================
