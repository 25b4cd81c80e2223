------------------------- MODULE LiveAuctionProofs --------------------------
(***************************************************************************)
(* Theorems about LiveAuction, for any number of pages and any amounts.    *)
(***************************************************************************)
EXTENDS LiveAuction, MoneyProofs, TLAPS

USE BidderAssumption, AmountAssumption

LEMMA InitInv == Init => IInv
  <1>. SUFFICES ASSUME Init PROVE IInv
    OBVIOUS
  <1>1. TypeOK
    <2>1. Start \in Int /\ <<>> \in Seq(Amounts)
      OBVIOUS
    <2>2. fetch \in [Pages -> [at : {"asked", "answered", "shown", "failed"}, price : Int]]
      BY DEF Init
    <2>3. inbox \in [Pages -> Seq(Amounts)]
      BY <2>1 DEF Init
    <2>4. QED
      BY <2>1, <2>2, <2>3 DEF Init, TypeOK
  <1>2. SocketAfterLoad /\ OnTheWayAtMostPrice /\ ShownAtMostPrice /\ WatcherInOrder /\ WatcherHears
    BY DEF Init, SocketAfterLoad, OnTheWayAtMostPrice, ShownAtMostPrice, WatcherInOrder,
           WatcherHears, Loaded
  <1>3. QED
    BY <1>1, <1>2 DEF IInv

\* A stored bid raises the price or, by rounding, leaves it.
LEMMA StoreRaises ==
    ASSUME IInv, NEW p \in Pages, NEW a \in Amounts, StoreBid(p, a)
    PROVE  /\ price' = Cents(a) /\ price' \in Int /\ price' >= price /\ p \in Bidders
           /\ bids' \subseteq [by : Bidders, amount : Int]
  <1>1. a \in Int /\ price \in Int
    BY DEF IInv, TypeOK
  <1>2. Cents(a) >= price
    BY <1>1, RoundingKeepsOrder DEF StoreBid, Acceptable
  <1>3. posts[p] # {}
    BY DEF StoreBid
  <1>4. p \in Bidders /\ Cents(a) \in Int
    BY <1>1, <1>3, CentsInt DEF IInv, SocketAfterLoad
  <1>5. bids' \subseteq [by : Bidders, amount : Int]
    BY <1>4 DEF StoreBid, IInv, TypeOK
  <1>6. QED
    BY <1>2, <1>4, <1>5 DEF StoreBid

\* What a broadcast does to the messages of one page.
LEMMA Delivery ==
    ASSUME TypeOK, NEW a \in Amounts, BroadcastBid(a), NEW q \in Pages
    PROVE  \/ /\ ws[q] = "open" /\ inbox'[q] = Append(inbox[q], a) /\ ~missed'[q]
              /\ inbox'[q] \in Seq(Amounts) /\ Len(inbox'[q]) = Len(inbox[q]) + 1
              /\ inbox'[q][Len(inbox'[q])] = a
              /\ \A k \in DOMAIN inbox[q] : inbox'[q][k] = inbox[q][k]
           \/ /\ ws[q] # "open" /\ inbox'[q] = inbox[q]
              /\ missed'[q] = (missed[q] \/ Informed(q))
  <1>1. inbox[q] \in Seq(Amounts)
    BY DEF TypeOK
  <1>2. CASE ws[q] = "open"
    <2>1. inbox'[q] = Append(inbox[q], a) /\ ~missed'[q]
      BY <1>2, Zenon DEF BroadcastBid
    <2>2. QED
      BY <1>1, <1>2, <2>1
  <1>3. CASE ws[q] # "open"
    BY <1>3 DEF BroadcastBid
  <1>4. QED
    BY <1>2, <1>3

-----------------------------------------------------------------------------
LEMMA StepType == ASSUME IInv, [Next]_vars PROVE TypeOK'
  <1>. USE DEF TypeOK, IInv
  <1>1. ASSUME NEW p \in Pages, AnswerFetch(p) PROVE TypeOK'
    BY <1>1, CentsOfMills DEF AnswerFetch, server
  <1>2. ASSUME NEW p \in Pages, FetchFailed(p) PROVE TypeOK'
    BY <1>2 DEF FetchFailed, server
  <1>3. ASSUME NEW p \in Pages, ShowFetch(p) PROVE TypeOK'
    BY <1>3 DEF ShowFetch, SetPrice, server
  <1>4. ASSUME NEW p \in Pages, RunEffects(p) PROVE TypeOK'
    BY <1>4 DEF RunEffects, server
  <1>5. ASSUME NEW p \in Pages, Accept(p) PROVE TypeOK'
    BY <1>5 DEF Accept, server
  <1>6. ASSUME NEW p \in Pages, LoseSocket(p) PROVE TypeOK'
    <2>1. PICK n \in 0 .. Len(inbox[p]) :
            /\ inbox' = [inbox EXCEPT ![p] = SubSeq(@, 1, n)]
            /\ missed' = [missed EXCEPT ![p] = @ \/ n < Len(inbox[p])]
      BY <1>6 DEF LoseSocket
    <2>2. SubSeq(inbox[p], 1, n) \in Seq(Amounts)
      OBVIOUS
    <2>3. inbox' \in [Pages -> Seq(Amounts)] /\ missed' \in [Pages -> BOOLEAN]
      BY <2>1, <2>2
    <2>4. QED
      BY <1>6, <2>3 DEF LoseSocket, server
  <1>7. ASSUME NEW p \in Pages, OnMessage(p) PROVE TypeOK'
    <2>1. inbox[p] \in Seq(Amounts) /\ inbox[p] # <<>>
      BY <1>7 DEF OnMessage
    <2>2. Head(inbox[p]) \in Amounts /\ Tail(inbox[p]) \in Seq(Amounts)
      BY <2>1
    <2>3. Head(inbox[p]) \in Int
      BY <2>2
    <2>4. QED
      BY <1>7, <2>2, <2>3 DEF OnMessage, SetPrice, server
  <1>8. ASSUME NEW p \in Pages, SubmitBid(p) PROVE TypeOK'
    BY <1>8 DEF SubmitBid, server
  <1>9. ASSUME NEW p \in Pages, ServePost(p) PROVE TypeOK'
    <2>1. PICK a \in Amounts : /\ StoreBid(p, a) /\ BroadcastBid(a)
                               /\ answers' = [answers EXCEPT ![p] = @ \cup {a}]
      BY <1>9 DEF ServePost
    <2>2. price' \in Int /\ bids' \subseteq [by : Bidders, amount : Int]
      BY <2>1, StoreRaises
    <2>3. inbox' \in [Pages -> Seq(Amounts)] /\ missed' \in [Pages -> BOOLEAN]
      BY <2>1 DEF BroadcastBid
    <2>4. QED
      BY <2>1, <2>2, <2>3 DEF StoreBid
  <1>10. ASSUME NEW p \in Pages, StoreInDoubt(p) PROVE TypeOK'
    <2>1. PICK a \in Amounts : StoreBid(p, a)
      BY <1>10 DEF StoreInDoubt
    <2>2. price' \in Int /\ bids' \subseteq [by : Bidders, amount : Int]
      BY <2>1, StoreRaises
    <2>3. missed' \in [Pages -> BOOLEAN]
      BY <1>10 DEF StoreInDoubt
    <2>4. QED
      BY <1>10, <2>1, <2>2, <2>3 DEF StoreBid, StoreInDoubt
  <1>11. ASSUME NEW p \in Pages, RefusePost(p) PROVE TypeOK'
    BY <1>11 DEF RefusePost, server
  <1>12. ASSUME NEW p \in Pages, LoseAnswer(p) PROVE TypeOK'
    BY <1>12 DEF LoseAnswer, server
  <1>13. ASSUME NEW p \in Pages, ShowAnswer(p) PROVE TypeOK'
    BY <1>13 DEF ShowAnswer, SetPrice, server
  <1>14. CASE UNCHANGED vars
    BY <1>14 DEF vars, server, page
  <1>15. QED
    BY <1>1, <1>2, <1>3, <1>4, <1>5, <1>6, <1>7, <1>8, <1>9, <1>10, <1>11, <1>12, <1>13,
       <1>14 DEF Next, Work, Fail

LEMMA StepSocket == ASSUME IInv, [Next]_vars PROVE SocketAfterLoad'
  <1>. USE DEF IInv, TypeOK, SocketAfterLoad, Loaded
  <1>1. ASSUME NEW p \in Pages, AnswerFetch(p) \/ FetchFailed(p) \/ ShowFetch(p) PROVE SocketAfterLoad'
    BY <1>1 DEF AnswerFetch, FetchFailed, ShowFetch, SetPrice, server
  <1>2. ASSUME NEW p \in Pages, RunEffects(p) PROVE SocketAfterLoad'
    BY <1>2 DEF RunEffects, server
  <1>3. ASSUME NEW p \in Pages, Accept(p) PROVE SocketAfterLoad'
    BY <1>3 DEF Accept, server
  <1>4. ASSUME NEW p \in Pages, LoseSocket(p) PROVE SocketAfterLoad'
    <2>1. ws' = [ws EXCEPT ![p] = "lost"] /\ ws[p] \in {"connecting", "open"}
      BY <1>4 DEF LoseSocket
    <2>2. \A q \in Pages \ {p} : inbox'[q] = inbox[q]
      BY <1>4 DEF LoseSocket
    <2>3. UNCHANGED <<fetch, due, posts, answers>>
      BY <1>4 DEF LoseSocket
    <2>4. QED
      BY <2>1, <2>2, <2>3
  <1>5. ASSUME NEW p \in Pages, OnMessage(p) PROVE SocketAfterLoad'
    BY <1>5 DEF OnMessage, SetPrice, server
  <1>6. ASSUME NEW p \in Pages, SubmitBid(p) PROVE SocketAfterLoad'
    BY <1>6 DEF SubmitBid, server
  <1>7. ASSUME NEW p \in Pages, NEW a \in Amounts, StoreBid(p, a)
        PROVE  /\ UNCHANGED <<fetch, due, ws>> /\ p \in Bidders /\ Loaded(p)
               /\ \A q \in Pages : posts'[q] \subseteq posts[q]
    BY <1>7, StoreRaises DEF StoreBid
  <1>8. ASSUME NEW p \in Pages, ServePost(p) PROVE SocketAfterLoad'
    <2>1. PICK a \in Amounts : /\ StoreBid(p, a) /\ BroadcastBid(a)
                               /\ answers' = [answers EXCEPT ![p] = @ \cup {a}]
      BY <1>8 DEF ServePost
    <2>2. \A q \in Pages : ws[q] # "open" => inbox'[q] = inbox[q]
      BY <2>1 DEF BroadcastBid
    <2>3. QED
      BY <1>7, <2>1, <2>2
  <1>9. ASSUME NEW p \in Pages, StoreInDoubt(p) PROVE SocketAfterLoad'
    BY <1>7, <1>9 DEF StoreInDoubt
  <1>10. ASSUME NEW p \in Pages, RefusePost(p) \/ LoseAnswer(p) PROVE SocketAfterLoad'
    BY <1>10 DEF RefusePost, LoseAnswer, server
  <1>11. ASSUME NEW p \in Pages, ShowAnswer(p) PROVE SocketAfterLoad'
    <2>1. p \in Bidders /\ \A q \in Pages : answers'[q] \subseteq answers[q]
      BY <1>11 DEF ShowAnswer
    <2>2. UNCHANGED <<fetch, ws, inbox, posts>>
      BY <1>11 DEF ShowAnswer
    <2>3. \A q \in Pages \ {p} : due'[q] = due[q]
      BY <1>11 DEF ShowAnswer, SetPrice
    <2>4. fetch[p].at = "shown"
      BY <1>11 DEF ShowAnswer
    <2>5. QED
      BY <2>1, <2>2, <2>3, <2>4
  <1>12. CASE UNCHANGED vars
    BY <1>12 DEF vars, page
  <1>13. QED
    BY <1>1, <1>2, <1>3, <1>4, <1>5, <1>6, <1>8, <1>9, <1>10, <1>11, <1>12 DEF Next, Work, Fail

\* Everything a page shows or may yet show has a price in cents.
LEMMA PricesAreInts ==
    ASSUME TypeOK, NEW p \in Pages
    PROVE  /\ price \in Int /\ Cents(currentPrice[p]) \in Int /\ Cents(fetch[p].price) \in Int
           /\ \A k \in DOMAIN inbox[p] : inbox[p][k] \in Amounts /\ Cents(inbox[p][k]) \in Int
           /\ \A a \in answers[p] : a \in Amounts /\ Cents(a) \in Int
  <1>1. fetch[p].price \in Int /\ currentPrice[p] \in Int /\ price \in Int
    BY DEF TypeOK
  <1>2. \A k \in DOMAIN inbox[p] : inbox[p][k] \in Amounts
    BY DEF TypeOK
  <1>3. \A a \in answers[p] : a \in Amounts
    BY DEF TypeOK
  <1>4. QED
    BY <1>1, <1>2, <1>3, CentsInt

AtMostPrice == OnTheWayAtMostPrice /\ ShownAtMostPrice

\* What was at most the old price is at most the new one.
LEMMA StoreKeepsBelow ==
    ASSUME IInv, NEW p \in Pages, NEW a \in Amounts, StoreBid(p, a), NEW q \in Pages
    PROVE  /\ fetch'[q].at = "answered" => Cents(fetch'[q].price) <= price'
           /\ Loaded(q)' => Cents(currentPrice'[q]) <= price'
           /\ \A k \in DOMAIN inbox[q] : Cents(inbox[q][k]) <= price'
           /\ \A b \in answers[q] : Cents(b) <= price'
           /\ Cents(a) <= price'
  <1>1. fetch' = fetch /\ currentPrice' = currentPrice
    BY DEF StoreBid
  <1>2. price \in Int /\ price' \in Int /\ price <= price' /\ price' = Cents(a)
    BY StoreRaises DEF IInv, TypeOK
  <1>3. QED
    BY <1>1, <1>2, PricesAreInts DEF IInv, OnTheWayAtMostPrice, ShownAtMostPrice, Loaded

LEMMA StepAtMost == ASSUME IInv, [Next]_vars PROVE AtMostPrice'
  <1>. USE DEF IInv, AtMostPrice, OnTheWayAtMostPrice, ShownAtMostPrice, Loaded
  <1>1. ASSUME NEW p \in Pages, AnswerFetch(p) PROVE AtMostPrice'
    <2>1. price' = price /\ price \in Int /\ Cents(Mills(price)) = price
      BY <1>1, PricesAreInts, CentsOfMills DEF AnswerFetch, server
    <2>2. fetch'[p] = [at |-> "answered", price |-> Mills(price)]
      BY <1>1 DEF AnswerFetch, TypeOK
    <2>3. \A q \in Pages \ {p} : fetch'[q] = fetch[q]
      BY <1>1 DEF AnswerFetch, TypeOK
    <2>4. QED
      BY <1>1, <2>1, <2>2, <2>3 DEF AnswerFetch
  <1>2. ASSUME NEW p \in Pages, FetchFailed(p) PROVE AtMostPrice'
    BY <1>2 DEF FetchFailed, TypeOK, server
  <1>3. ASSUME NEW p \in Pages, ShowFetch(p) PROVE AtMostPrice'
    BY <1>3 DEF ShowFetch, SetPrice, TypeOK, server
  <1>4. ASSUME NEW p \in Pages, RunEffects(p) PROVE AtMostPrice'
    BY <1>4 DEF RunEffects, TypeOK, server
  <1>5. ASSUME NEW p \in Pages, Accept(p) \/ SubmitBid(p) \/ RefusePost(p) PROVE AtMostPrice'
    BY <1>5 DEF Accept, SubmitBid, RefusePost, server
  <1>6. ASSUME NEW p \in Pages, LoseSocket(p) PROVE AtMostPrice'
    <2>1. PICK n \in 0 .. Len(inbox[p]) : inbox' = [inbox EXCEPT ![p] = SubSeq(@, 1, n)]
      BY <1>6 DEF LoseSocket
    <2>2. \A q \in Pages : \A k \in DOMAIN inbox'[q] :
            k \in DOMAIN inbox[q] /\ inbox'[q][k] = inbox[q][k]
      BY <2>1 DEF TypeOK
    <2>3. QED
      BY <1>6, <2>2 DEF LoseSocket, server
  <1>7. ASSUME NEW p \in Pages, OnMessage(p) PROVE AtMostPrice'
    <2>1. inbox[p] \in Seq(Amounts) /\ inbox[p] # <<>>
      BY <1>7 DEF OnMessage, TypeOK
    <2>2. 1 \in DOMAIN inbox[p] /\ Head(inbox[p]) = inbox[p][1]
      BY <2>1
    <2>3. \A q \in Pages : \A k \in DOMAIN inbox'[q] :
            \E l \in DOMAIN inbox[q] : inbox'[q][k] = inbox[q][l]
      <3>1. \A k \in DOMAIN Tail(inbox[p]) : k + 1 \in DOMAIN inbox[p] /\ Tail(inbox[p])[k] = inbox[p][k + 1]
        BY <2>1
      <3>2. QED
        BY <1>7, <3>1 DEF OnMessage, TypeOK
    <2>4. Cents(currentPrice'[p]) <= price /\ \A q \in Pages \ {p} : currentPrice'[q] = currentPrice[q]
      BY <1>7, <2>2 DEF OnMessage, SetPrice, TypeOK
    <2>5. UNCHANGED <<price, fetch, answers>>
      BY <1>7 DEF OnMessage, server
    <2>6. QED
      BY <2>3, <2>4, <2>5
  <1>8. ASSUME NEW p \in Pages, ServePost(p) PROVE AtMostPrice'
    <2>1. PICK a \in Amounts : /\ StoreBid(p, a) /\ BroadcastBid(a)
                               /\ answers' = [answers EXCEPT ![p] = @ \cup {a}]
      BY <1>8 DEF ServePost
    <2>2. ASSUME NEW q \in Pages, NEW k \in DOMAIN inbox'[q] PROVE Cents(inbox'[q][k]) <= price'
      <3>1. inbox[q] \in Seq(Amounts)
        BY DEF TypeOK
      <3>2. (k \in DOMAIN inbox[q] /\ inbox'[q][k] = inbox[q][k]) \/ inbox'[q][k] = a
        BY <2>1, <3>1, Delivery
      <3>3. QED
        BY <2>1, <3>2, StoreKeepsBelow
    <2>3. \A q \in Pages : \A b \in answers'[q] : b \in answers[q] \/ b = a
      BY <2>1 DEF TypeOK
    <2>4. QED
      BY <2>1, <2>2, <2>3, StoreKeepsBelow
  <1>9. ASSUME NEW p \in Pages, StoreInDoubt(p) PROVE AtMostPrice'
    <2>1. PICK a \in Amounts : StoreBid(p, a)
      BY <1>9 DEF StoreInDoubt
    <2>2. UNCHANGED <<inbox, answers>>
      BY <1>9 DEF StoreInDoubt
    <2>3. QED
      BY <2>1, <2>2, StoreKeepsBelow
  <1>10. ASSUME NEW p \in Pages, LoseAnswer(p) PROVE AtMostPrice'
    BY <1>10 DEF LoseAnswer, TypeOK, server
  <1>11. ASSUME NEW p \in Pages, ShowAnswer(p) PROVE AtMostPrice'
    BY <1>11 DEF ShowAnswer, SetPrice, TypeOK, server
  <1>12. CASE UNCHANGED vars
    BY <1>12 DEF vars, page, server
  <1>13. QED
    BY <1>1, <1>2, <1>3, <1>4, <1>5, <1>6, <1>7, <1>8, <1>9, <1>10, <1>11, <1>12 DEF Next, Work, Fail

-----------------------------------------------------------------------------
\* What a step does to a page that watches, seen from that page.
LEMMA OnMessageStep ==
    ASSUME TypeOK, NEW p \in Pages, OnMessage(p)
    PROVE  /\ inbox[p] \in Seq(Amounts) /\ 1 \in DOMAIN inbox[p] /\ currentPrice'[p] = inbox[p][1]
           /\ Len(inbox'[p]) = Len(inbox[p]) - 1 /\ inbox'[p] \in Seq(Amounts)
           /\ \A k \in DOMAIN inbox'[p] : k + 1 \in DOMAIN inbox[p] /\ inbox'[p][k] = inbox[p][k + 1]
           /\ \A q \in Pages \ {p} : inbox'[q] = inbox[q] /\ currentPrice'[q] = currentPrice[q]
           /\ UNCHANGED <<price, fetch, ws, missed>>
  <1>1. inbox[p] \in Seq(Amounts) /\ inbox[p] # <<>>
    BY DEF OnMessage, TypeOK
  <1>2. inbox'[p] = Tail(inbox[p]) /\ currentPrice'[p] = Head(inbox[p])
    BY DEF OnMessage, SetPrice, TypeOK
  <1>3. QED
    BY <1>1, <1>2 DEF OnMessage, SetPrice, server, TypeOK

LEMMA LoseSocketStep ==
    ASSUME TypeOK, NEW p \in Pages, LoseSocket(p)
    PROVE  /\ \A q \in Pages : \A k \in DOMAIN inbox'[q] :
                 k \in DOMAIN inbox[q] /\ inbox'[q][k] = inbox[q][k]
           /\ \A q \in Pages : ~missed'[q] => inbox'[q] = inbox[q] /\ ~missed[q]
           /\ UNCHANGED <<price, fetch, currentPrice>>
  <1>1. PICK n \in 0 .. Len(inbox[p]) :
          /\ inbox' = [inbox EXCEPT ![p] = SubSeq(@, 1, n)]
          /\ missed' = [missed EXCEPT ![p] = @ \/ n < Len(inbox[p])]
    BY DEF LoseSocket
  <1>2. \A q \in Pages \ {p} : inbox'[q] = inbox[q] /\ missed'[q] = missed[q]
    BY <1>1 DEF TypeOK
  <1>3. inbox[p] \in Seq(Amounts) /\ inbox'[p] = SubSeq(inbox[p], 1, n)
    BY <1>1 DEF TypeOK
  <1>4. ~missed'[p] => ~missed[p] /\ ~(n < Len(inbox[p]))
    BY <1>1, Zenon DEF TypeOK
  <1>5. ~(n < Len(inbox[p])) => SubSeq(inbox[p], 1, n) = inbox[p]
    BY <1>3
  <1>6. \A k \in DOMAIN inbox'[p] : k \in DOMAIN inbox[p] /\ inbox'[p][k] = inbox[p][k]
    BY <1>3
  <1>7. UNCHANGED <<price, fetch, currentPrice>>
    BY DEF LoseSocket, server
  <1>8. \A q \in Pages : ~missed'[q] => inbox'[q] = inbox[q] /\ ~missed[q]
    BY <1>2, <1>3, <1>4, <1>5
  <1>9. \A q \in Pages : \A k \in DOMAIN inbox'[q] :
                 k \in DOMAIN inbox[q] /\ inbox'[q][k] = inbox[q][k]
    BY <1>2, <1>6
  <1>10. QED
    BY <1>7, <1>8, <1>9

\* A page that shows no auction yet has no messages.
LEMMA NoMessagesBeforeLoad ==
    ASSUME IInv, NEW p \in Pages, ~Loaded(p)
    PROVE  inbox[p] = <<>> /\ ws[p] = "none"
  BY DEF IInv, SocketAfterLoad, TypeOK

LEMMA StepOrder == ASSUME IInv, [Next]_vars PROVE WatcherInOrder'
  <1>. SUFFICES ASSUME NEW q \in Pages \ Bidders
                PROVE  /\ \A k \in DOMAIN inbox'[q] : Cents(currentPrice'[q]) <= Cents(inbox'[q][k])
                       /\ \A k, l \in DOMAIN inbox'[q] : k <= l => Cents(inbox'[q][k]) <= Cents(inbox'[q][l])
    BY DEF WatcherInOrder
  <1>. DEFINE Ordered == /\ \A k \in DOMAIN inbox'[q] : Cents(currentPrice'[q]) <= Cents(inbox'[q][k])
                        /\ \A k, l \in DOMAIN inbox'[q] : k <= l => Cents(inbox'[q][k]) <= Cents(inbox'[q][l])
  <1>0. /\ TypeOK /\ inbox[q] \in Seq(Amounts)
        /\ \A k \in DOMAIN inbox[q] : Cents(currentPrice[q]) <= Cents(inbox[q][k])
        /\ \A k, l \in DOMAIN inbox[q] : k <= l => Cents(inbox[q][k]) <= Cents(inbox[q][l])
    BY DEF IInv, WatcherInOrder, TypeOK
  <1>1. ASSUME UNCHANGED <<inbox, currentPrice>> PROVE Ordered
    BY <1>0, <1>1
  <1>2. ASSUME NEW p \in Pages,
               AnswerFetch(p) \/ FetchFailed(p) \/ Accept(p) \/ SubmitBid(p) \/ RefusePost(p) \/ LoseAnswer(p)
        PROVE Ordered
    BY <1>1, <1>2 DEF AnswerFetch, FetchFailed, Accept, SubmitBid, RefusePost, LoseAnswer
  <1>3. ASSUME NEW p \in Pages, ShowFetch(p) PROVE Ordered
    <2>1. inbox' = inbox /\ (q # p => currentPrice'[q] = currentPrice[q])
      BY <1>3 DEF ShowFetch, SetPrice, TypeOK
    <2>2. inbox[p] = <<>>
      BY <1>3, NoMessagesBeforeLoad DEF ShowFetch, Loaded
    <2>3. QED
      BY <1>0, <2>1, <2>2
  <1>4. ASSUME NEW p \in Pages, RunEffects(p) PROVE Ordered
    <2>1. currentPrice' = currentPrice /\ (inbox'[q] = inbox[q] \/ inbox'[q] = <<>>)
      BY <1>0, <1>4 DEF RunEffects, TypeOK
    <2>2. QED
      BY <1>0, <2>1
  <1>5. ASSUME NEW p \in Pages, LoseSocket(p) PROVE Ordered
    BY <1>0, <1>5, LoseSocketStep
  <1>6. ASSUME NEW p \in Pages, OnMessage(p) PROVE Ordered
    <2>1. CASE q = p
      <3>1. \A k \in DOMAIN inbox'[q] : k \in Nat
        BY <1>0, <1>6, <2>1, OnMessageStep
      <3>2. \A k \in DOMAIN inbox[q] : k \in Nat /\ 1 <= k
        BY <1>0
      <3>3. QED
        BY <1>0, <1>6, <2>1, <3>1, <3>2, OnMessageStep
    <2>2. CASE q # p
      BY <1>0, <1>6, <2>2, OnMessageStep
    <2>3. QED
      BY <2>1, <2>2
  <1>7. ASSUME NEW p \in Pages, ServePost(p) PROVE Ordered
    <2>1. PICK a \in Amounts : StoreBid(p, a) /\ BroadcastBid(a)
      BY <1>7 DEF ServePost
    <2>2. currentPrice' = currentPrice
      BY <2>1 DEF StoreBid
    <2>3. CASE ws[q] = "open"
      <3>1. Loaded(q)
        BY <2>3, NoMessagesBeforeLoad
      <3>2. Cents(a) = price' /\ Cents(a) \in Int /\ Cents(currentPrice[q]) <= Cents(a)
        BY <2>1, <2>2, <3>1, StoreRaises, StoreKeepsBelow DEF StoreBid, Loaded
      <3>3. \A k \in DOMAIN inbox[q] : Cents(inbox[q][k]) <= Cents(a)
        BY <2>1, <3>2, StoreKeepsBelow
      <3>4. inbox'[q] = Append(inbox[q], a)
        BY <1>0, <2>1, <2>3, Delivery
      <3>5. /\ DOMAIN inbox'[q] = 1 .. Len(inbox[q]) + 1 /\ DOMAIN inbox[q] = 1 .. Len(inbox[q])
            /\ Len(inbox[q]) \in Nat /\ inbox'[q][Len(inbox[q]) + 1] = a
            /\ \A k \in DOMAIN inbox[q] : inbox'[q][k] = inbox[q][k]
        BY <1>0, <3>4
      <3>6. \A k \in DOMAIN inbox'[q] : k \in DOMAIN inbox[q] \/ k = Len(inbox[q]) + 1
        BY <3>5
      <3>7. \A k \in DOMAIN inbox'[q] : Cents(inbox'[q][k]) <= Cents(a)
        BY <3>2, <3>3, <3>5, <3>6
      <3>8. \A k \in DOMAIN inbox'[q] : Cents(currentPrice'[q]) <= Cents(inbox'[q][k])
        BY <1>0, <2>2, <3>2, <3>5, <3>6
      <3>9. ASSUME NEW k \in DOMAIN inbox'[q], NEW l \in DOMAIN inbox'[q], k <= l
            PROVE  Cents(inbox'[q][k]) <= Cents(inbox'[q][l])
        <4>1. CASE l = Len(inbox[q]) + 1
          BY <3>5, <3>7, <4>1
        <4>2. CASE l # Len(inbox[q]) + 1
          <5>1. l \in DOMAIN inbox[q] /\ k \in DOMAIN inbox[q]
            BY <3>5, <3>6, <3>9, <4>2
          <5>2. QED
            BY <1>0, <3>5, <3>9, <5>1
        <4>3. QED
          BY <4>1, <4>2
      <3>10. QED
        BY <3>8, <3>9
    <2>4. CASE ws[q] # "open"
      BY <1>0, <2>1, <2>2, <2>4, Delivery
    <2>5. QED
      BY <2>3, <2>4
  <1>8. ASSUME NEW p \in Pages, StoreInDoubt(p) PROVE Ordered
    BY <1>1, <1>8 DEF StoreInDoubt, StoreBid
  <1>9. ASSUME NEW p \in Pages, ShowAnswer(p) PROVE Ordered
    <2>1. p \in Bidders
      BY <1>9 DEF ShowAnswer, IInv, SocketAfterLoad
    <2>2. inbox' = inbox /\ currentPrice'[q] = currentPrice[q]
      BY <1>9, <2>1 DEF ShowAnswer, SetPrice, TypeOK
    <2>3. QED
      BY <1>0, <2>2
  <1>10. CASE UNCHANGED vars
    BY <1>1, <1>10 DEF vars, page
  <1>11. QED
    BY <1>2, <1>3, <1>4, <1>5, <1>6, <1>7, <1>8, <1>9, <1>10 DEF Next, Work, Fail

\* What WatcherHears says of one page.
Hears(q) ==
    ~missed[q] =>
        /\ fetch[q].at = "answered" => Cents(fetch[q].price) = price
        /\ Loaded(q) /\ inbox[q] = <<>> => Cents(currentPrice[q]) = price
        /\ inbox[q] # <<>> => Cents(inbox[q][Len(inbox[q])]) = price

LEMMA StepHears == ASSUME IInv, [Next]_vars PROVE WatcherHears'
  <1>. SUFFICES ASSUME NEW q \in Pages \ Bidders PROVE Hears(q)'
    BY DEF WatcherHears, Hears
  <1>0. TypeOK /\ inbox[q] \in Seq(Amounts) /\ Hears(q)
    BY DEF IInv, WatcherHears, Hears, TypeOK
  <1>1. ASSUME UNCHANGED <<price, fetch, currentPrice, inbox, missed>> PROVE Hears(q)'
    BY <1>0, <1>1 DEF Hears, Loaded
  <1>2. ASSUME NEW p \in Pages, Accept(p) \/ SubmitBid(p) \/ RefusePost(p) \/ LoseAnswer(p)
        PROVE Hears(q)'
    BY <1>1, <1>2 DEF Accept, SubmitBid, RefusePost, LoseAnswer, server
  <1>3. ASSUME NEW p \in Pages, AnswerFetch(p) PROVE Hears(q)'
    <2>1. UNCHANGED <<price, currentPrice, inbox, missed>>
      BY <1>3 DEF AnswerFetch, server
    <2>2. CASE q = p
      <3>1. fetch'[q] = [at |-> "answered", price |-> Mills(price)] /\ inbox[q] = <<>>
        BY <1>3, <2>2, NoMessagesBeforeLoad DEF AnswerFetch, Loaded, TypeOK, IInv
      <3>2. Cents(Mills(price)) = price
        BY <1>0, CentsOfMills DEF TypeOK
      <3>3. QED
        BY <2>1, <3>1, <3>2 DEF Hears, Loaded
    <2>3. CASE q # p
      BY <1>0, <1>3, <2>1, <2>3 DEF AnswerFetch, Hears, Loaded, TypeOK
    <2>4. QED
      BY <2>2, <2>3
  <1>4. ASSUME NEW p \in Pages, FetchFailed(p) PROVE Hears(q)'
    BY <1>0, <1>4 DEF FetchFailed, server, Hears, Loaded, TypeOK
  <1>5. ASSUME NEW p \in Pages, ShowFetch(p) PROVE Hears(q)'
    <2>1. UNCHANGED <<price, inbox, missed>>
      BY <1>5 DEF ShowFetch, server
    <2>2. CASE q = p
      <3>1. /\ fetch[q].at = "answered" /\ fetch'[q].at = "shown" /\ currentPrice'[q] = fetch[q].price
        BY <1>5, <2>2 DEF ShowFetch, SetPrice, TypeOK, IInv
      <3>2. inbox[q] = <<>>
        BY <3>1, NoMessagesBeforeLoad DEF Loaded
      <3>3. QED
        BY <1>0, <2>1, <3>1, <3>2 DEF Hears
    <2>3. CASE q # p
      BY <1>0, <1>5, <2>1, <2>3 DEF ShowFetch, SetPrice, Hears, Loaded, TypeOK
    <2>4. QED
      BY <2>2, <2>3
  <1>6. ASSUME NEW p \in Pages, RunEffects(p) PROVE Hears(q)'
    <2>1. UNCHANGED <<price, fetch, currentPrice>>
      BY <1>6 DEF RunEffects, server
    <2>2. CASE q = p
      <3>1. inbox'[q] = <<>> /\ (~missed'[q] => ~missed[q] /\ inbox[q] = <<>>)
        BY <1>6, <2>2, Zenon DEF RunEffects, TypeOK, IInv
      <3>2. QED
        BY <1>0, <2>1, <3>1 DEF Hears, Loaded
    <2>3. CASE q # p
      <3>1. inbox'[q] = inbox[q] /\ missed'[q] = missed[q]
        BY <1>6, <2>3 DEF RunEffects, TypeOK, IInv
      <3>2. QED
        BY <1>0, <2>1, <3>1 DEF Hears, Loaded
    <2>4. QED
      BY <2>2, <2>3
  <1>7. ASSUME NEW p \in Pages, LoseSocket(p) PROVE Hears(q)'
    BY <1>0, <1>7, LoseSocketStep DEF Hears, Loaded
  <1>8. ASSUME NEW p \in Pages, OnMessage(p) PROVE Hears(q)'
    <2>1. UNCHANGED <<price, fetch, missed>>
      BY <1>0, <1>8, OnMessageStep
    <2>2. CASE q = p
      <3>1. /\ inbox[q] # <<>> /\ currentPrice'[q] = inbox[q][1]
            /\ Len(inbox'[q]) = Len(inbox[q]) - 1 /\ inbox'[q] \in Seq(Amounts)
            /\ \A k \in DOMAIN inbox'[q] : inbox'[q][k] = inbox[q][k + 1]
        BY <1>0, <1>8, <2>2, OnMessageStep DEF OnMessage
      <3>2. fetch[q].at # "answered"
        BY <1>0, <3>1, NoMessagesBeforeLoad DEF Loaded
      <3>3. CASE inbox'[q] = <<>>
        <4>1. Len(inbox[q]) = 1
          BY <1>0, <3>1, <3>3
        <4>2. QED
          BY <1>0, <2>1, <3>1, <3>2, <3>3, <4>1 DEF Hears, Loaded
      <3>4. CASE inbox'[q] # <<>>
        <4>1. Len(inbox'[q]) \in DOMAIN inbox'[q] /\ Len(inbox'[q]) + 1 = Len(inbox[q])
          BY <1>0, <3>1, <3>4
        <4>2. inbox'[q][Len(inbox'[q])] = inbox[q][Len(inbox[q])]
          BY <3>1, <4>1
        <4>3. QED
          BY <1>0, <2>1, <3>1, <3>2, <3>4, <4>2 DEF Hears, Loaded
      <3>5. QED
        BY <3>3, <3>4
    <2>3. CASE q # p
      BY <1>0, <1>8, <2>1, <2>3, OnMessageStep DEF Hears, Loaded
    <2>4. QED
      BY <2>2, <2>3
  <1>9. ASSUME NEW p \in Pages, ServePost(p) PROVE Hears(q)'
    <2>1. PICK a \in Amounts : StoreBid(p, a) /\ BroadcastBid(a)
      BY <1>9 DEF ServePost
    <2>2. price' = Cents(a) /\ UNCHANGED <<fetch, currentPrice>>
      BY <2>1 DEF StoreBid
    <2>3. CASE ws[q] = "open"
      <3>1. Loaded(q)
        BY <2>3, NoMessagesBeforeLoad
      <3>2. inbox'[q] # <<>> /\ inbox'[q][Len(inbox'[q])] = a
        BY <1>0, <2>1, <2>3, Delivery
      <3>3. QED
        BY <2>2, <3>1, <3>2 DEF Hears, Loaded
    <2>4. CASE ws[q] # "open"
      <3>1. inbox'[q] = inbox[q] /\ (~missed'[q] => ~Informed(q))
        BY <1>0, <2>1, <2>4, Delivery
      <3>2. ~Informed(q) => ~Loaded(q) /\ fetch[q].at # "answered" /\ inbox[q] = <<>>
        BY NoMessagesBeforeLoad DEF Informed, Loaded
      <3>3. QED
        BY <2>2, <3>1, <3>2 DEF Hears, Loaded
    <2>5. QED
      BY <2>3, <2>4
  <1>10. ASSUME NEW p \in Pages, StoreInDoubt(p) PROVE Hears(q)'
    <2>1. PICK a \in Amounts : StoreBid(p, a)
      BY <1>10 DEF StoreInDoubt
    <2>2. UNCHANGED <<fetch, currentPrice, inbox>>
      BY <1>10, <2>1 DEF StoreBid, StoreInDoubt
    <2>3. ~missed'[q] => ~Informed(q)
      BY <1>10, Zenon DEF StoreInDoubt
    <2>4. ~Informed(q) => ~Loaded(q) /\ fetch[q].at # "answered" /\ inbox[q] = <<>>
      BY NoMessagesBeforeLoad DEF Informed, Loaded
    <2>5. QED
      BY <2>2, <2>3, <2>4 DEF Hears, Loaded
  <1>11. ASSUME NEW p \in Pages, ShowAnswer(p) PROVE Hears(q)'
    <2>1. p \in Bidders
      BY <1>11 DEF ShowAnswer, IInv, SocketAfterLoad
    <2>2. UNCHANGED <<price, fetch, inbox, missed>> /\ currentPrice'[q] = currentPrice[q]
      BY <1>0, <1>11, <2>1 DEF ShowAnswer, SetPrice, server, TypeOK
    <2>3. QED
      BY <1>0, <2>2 DEF Hears, Loaded
  <1>12. CASE UNCHANGED vars
    BY <1>1, <1>12 DEF vars, page, server
  <1>13. QED
    BY <1>2, <1>3, <1>4, <1>5, <1>6, <1>7, <1>8, <1>9, <1>10, <1>11, <1>12 DEF Next, Work, Fail

-----------------------------------------------------------------------------
\* The inductive invariant: whatever the order of answers and messages, what a
\* page holds and what is on its way to it fit the database.
THEOREM PageInvariance == Spec => []IInv
  <1>1. Init => IInv
    BY InitInv
  <1>2. IInv /\ [Next]_vars => IInv'
    BY StepType, StepSocket, StepAtMost, StepOrder, StepHears DEF IInv, AtMostPrice
  <1>3. QED
    BY <1>1, <1>2, PTL DEF Spec

\* The variables of pages and server keep their types.
THEOREM PagesTypeCorrect == Spec => []TypeOK
  <1>1. IInv => TypeOK
    BY DEF IInv
  <1>2. QED
    BY <1>1, PageInvariance, PTL

\* No page ever shows a price above the one in the database.
THEOREM NeverAbovePrice == Spec => []ShownAtMostPrice
  <1>1. IInv => ShownAtMostPrice
    BY DEF IInv
  <1>2. QED
    BY <1>1, PageInvariance, PTL

\* A page that only watches is out of date only if it was not sent the latest price.
THEOREM WatchersUpToDate == Spec => []WatcherUpToDate
  <1>1. IInv => WatcherUpToDate
    BY DEF IInv, WatcherHears, WatcherUpToDate
  <1>2. QED
    BY <1>1, PageInvariance, PTL

LEMMA WatcherStep ==
    ASSUME IInv, [Next]_vars, NEW q \in Pages \ Bidders, Loaded(q)
    PROVE  Cents(currentPrice'[q]) >= Cents(currentPrice[q])
  <1>0. TypeOK /\ Cents(currentPrice[q]) \in Int
    BY PricesAreInts DEF IInv
  <1>1. ASSUME currentPrice'[q] = currentPrice[q] PROVE Cents(currentPrice'[q]) >= Cents(currentPrice[q])
    BY <1>0, <1>1
  <1>2. ASSUME NEW p \in Pages,
               AnswerFetch(p) \/ FetchFailed(p) \/ RunEffects(p) \/ Accept(p) \/ LoseSocket(p)
               \/ SubmitBid(p) \/ RefusePost(p) \/ LoseAnswer(p) \/ StoreInDoubt(p) \/ ServePost(p)
        PROVE currentPrice'[q] = currentPrice[q]
    BY <1>2 DEF AnswerFetch, FetchFailed, RunEffects, Accept, LoseSocket, SubmitBid, RefusePost,
                LoseAnswer, StoreInDoubt, ServePost, StoreBid
  <1>3. ASSUME NEW p \in Pages, ShowFetch(p) PROVE currentPrice'[q] = currentPrice[q]
    <2>1. p # q
      BY <1>3 DEF ShowFetch, Loaded
    <2>2. QED
      BY <1>0, <1>3, <2>1 DEF ShowFetch, SetPrice, TypeOK
  <1>4. ASSUME NEW p \in Pages, ShowAnswer(p) PROVE currentPrice'[q] = currentPrice[q]
    <2>1. p # q
      BY <1>4 DEF ShowAnswer, IInv, SocketAfterLoad
    <2>2. QED
      BY <1>0, <1>4, <2>1 DEF ShowAnswer, SetPrice, TypeOK
  <1>5. ASSUME NEW p \in Pages, OnMessage(p)
        PROVE Cents(currentPrice'[q]) >= Cents(currentPrice[q])
    <2>1. CASE q = p
      <3>1. 1 \in DOMAIN inbox[q] /\ currentPrice'[q] = inbox[q][1]
        BY <1>0, <1>5, <2>1, OnMessageStep
      <3>2. Cents(inbox[q][1]) \in Int
        BY <1>0, <3>1, PricesAreInts
      <3>3. Cents(currentPrice[q]) <= Cents(inbox[q][1])
        BY <3>1 DEF IInv, WatcherInOrder
      <3>4. QED
        BY <1>0, <3>1, <3>2, <3>3
    <2>2. CASE q # p
      BY <1>0, <1>1, <1>5, <2>2, OnMessageStep
    <2>3. QED
      BY <2>1, <2>2
  <1>6. CASE UNCHANGED vars
    BY <1>1, <1>6 DEF vars, page
  <1>7. QED
    BY <1>1, <1>2, <1>3, <1>4, <1>5, <1>6 DEF Next, Work, Fail

\* On a page that only watches, no step lowers the price it shows.
THEOREM WatchersNeverFall == Spec => WatcherNeverFalls
  <1>1. IInv /\ [Next]_vars =>
          [\A p \in Pages \ Bidders :
              Loaded(p) => Cents(currentPrice'[p]) >= Cents(currentPrice[p])]_vars
    BY WatcherStep
  <1>2. QED
    BY <1>1, PageInvariance, PTL DEF Spec, WatcherNeverFalls

-----------------------------------------------------------------------------
(* The display *)

\* A price in cents stays a price of the past when another is stored.
LEMMA StoreKeepsHistory ==
    ASSUME IInv, NEW p \in Pages, NEW a \in Amounts, StoreBid(p, a)
    PROVE  History' = History \cup {price'} /\ price' = Cents(a)
  <1>. DEFINE bid == [by |-> p, amount |-> Cents(a)]
  <1>1. price' = Cents(a) /\ bids' = bids \cup {bid}
    BY DEF StoreBid
  <1>2. bid.amount = Cents(a)
    OBVIOUS
  <1>. HIDE DEF bid
  <1>3. \A v : v \in History' <=> v \in History \/ v = Cents(a)
    BY <1>1, <1>2 DEF History
  <1>4. QED
    BY <1>1, <1>3

LEMMA InitWasPrice == Init => OnTheWayWasPrice
  BY DEF Init, OnTheWayWasPrice, History

LEMMA StepWasPrice == ASSUME IInv, OnTheWayWasPrice, [Next]_vars PROVE OnTheWayWasPrice'
  <1>0. TypeOK
    BY DEF IInv
  <1>. USE DEF OnTheWayWasPrice
  <1>1. ASSUME NEW p \in Pages, AnswerFetch(p) PROVE OnTheWayWasPrice'
    <2>1. UNCHANGED <<price, inbox, answers, History>> /\ Cents(Mills(price)) = price
      BY <1>0, <1>1, CentsOfMills DEF AnswerFetch, server, History, TypeOK
    <2>2. fetch'[p] = [at |-> "answered", price |-> Mills(price)]
      BY <1>0, <1>1 DEF AnswerFetch, TypeOK
    <2>3. \A q \in Pages \ {p} : fetch'[q] = fetch[q]
      BY <1>0, <1>1 DEF AnswerFetch, TypeOK
    <2>4. QED
      BY <2>1, <2>2, <2>3
  <1>2. ASSUME NEW p \in Pages, FetchFailed(p) \/ ShowFetch(p) PROVE OnTheWayWasPrice'
    <2>1. UNCHANGED <<price, inbox, answers, History>>
      BY <1>2 DEF FetchFailed, ShowFetch, server, History
    <2>2. \A q \in Pages : fetch'[q].at = "answered" => fetch'[q] = fetch[q]
      BY <1>0, <1>2 DEF FetchFailed, ShowFetch, TypeOK
    <2>3. QED
      BY <2>1, <2>2
  <1>3. ASSUME UNCHANGED <<server, fetch>>,
               \A q \in Pages : \A k \in DOMAIN inbox'[q] :
                  \E l \in DOMAIN inbox[q] : inbox'[q][k] = inbox[q][l],
               \A q \in Pages : answers'[q] \subseteq answers[q]
        PROVE OnTheWayWasPrice'
    <2>1. UNCHANGED <<price, History>>
      BY <1>3 DEF server, History
    <2>2. QED
      BY <1>3, <2>1
  <1>4. ASSUME NEW p \in Pages, Accept(p) \/ SubmitBid(p) \/ RefusePost(p) PROVE OnTheWayWasPrice'
    BY <1>3, <1>4 DEF Accept, SubmitBid, RefusePost
  <1>5. ASSUME NEW p \in Pages, RunEffects(p) PROVE OnTheWayWasPrice'
    <2>1. \A q \in Pages : inbox'[q] = inbox[q] \/ inbox'[q] = <<>>
      BY <1>0, <1>5 DEF RunEffects, TypeOK
    <2>2. QED
      BY <1>3, <1>5, <2>1 DEF RunEffects
  <1>6. ASSUME NEW p \in Pages, LoseSocket(p) PROVE OnTheWayWasPrice'
    BY <1>0, <1>3, <1>6, LoseSocketStep DEF LoseSocket
  <1>7. ASSUME NEW p \in Pages, OnMessage(p) PROVE OnTheWayWasPrice'
    <2>1. \A q \in Pages : \A k \in DOMAIN inbox'[q] :
            \E l \in DOMAIN inbox[q] : inbox'[q][k] = inbox[q][l]
      BY <1>0, <1>7, OnMessageStep
    <2>2. QED
      BY <1>3, <1>7, <2>1 DEF OnMessage
  <1>8. ASSUME NEW p \in Pages, LoseAnswer(p) \/ ShowAnswer(p) PROVE OnTheWayWasPrice'
    <2>1. \A q \in Pages : answers'[q] \subseteq answers[q]
      BY <1>0, <1>8 DEF LoseAnswer, ShowAnswer, TypeOK
    <2>2. QED
      BY <1>3, <1>8, <2>1 DEF LoseAnswer, ShowAnswer
  <1>9. ASSUME NEW p \in Pages, ServePost(p) PROVE OnTheWayWasPrice'
    <2>1. PICK a \in Amounts : /\ StoreBid(p, a) /\ BroadcastBid(a)
                               /\ answers' = [answers EXCEPT ![p] = @ \cup {a}]
      BY <1>9 DEF ServePost
    <2>2. fetch' = fetch /\ History \subseteq History' /\ price' \in History' /\ Cents(a) \in History'
      BY <2>1, StoreKeepsHistory DEF StoreBid
    <2>3. ASSUME NEW q \in Pages, NEW k \in DOMAIN inbox'[q] PROVE Cents(inbox'[q][k]) \in History'
      <3>1. inbox[q] \in Seq(Amounts)
        BY <1>0 DEF TypeOK
      <3>2. inbox'[q] = inbox[q] \/ inbox'[q] = Append(inbox[q], a)
        BY <1>0, <2>1, Delivery
      <3>3. (k \in DOMAIN inbox[q] /\ inbox'[q][k] = inbox[q][k]) \/ inbox'[q][k] = a
        BY <3>1, <3>2
      <3>4. QED
        BY <2>2, <3>3
    <2>4. \A q \in Pages : \A b \in answers'[q] : b \in answers[q] \/ b = a
      BY <1>0, <2>1 DEF TypeOK
    <2>5. QED
      BY <2>2, <2>3, <2>4
  <1>10. ASSUME NEW p \in Pages, StoreInDoubt(p) PROVE OnTheWayWasPrice'
    <2>1. PICK a \in Amounts : StoreBid(p, a)
      BY <1>10 DEF StoreInDoubt
    <2>2. fetch' = fetch /\ History \subseteq History' /\ price' \in History'
      BY <2>1, StoreKeepsHistory DEF StoreBid
    <2>3. UNCHANGED <<inbox, answers>>
      BY <1>10 DEF StoreInDoubt
    <2>4. QED
      BY <2>2, <2>3
  <1>11. CASE UNCHANGED vars
    BY <1>3, <1>11 DEF vars, page
  <1>12. QED
    BY <1>1, <1>2, <1>4, <1>5, <1>6, <1>7, <1>8, <1>9, <1>10, <1>11 DEF Next, Work, Fail

\* Whatever a page shows or may yet show has been the item's price.
LEMMA WasPriceInvariance == Spec => []OnTheWayWasPrice
  BY InitWasPrice, StepWasPrice, PageInvariance, PTL DEF Spec

\* To show a price of the past is a step of the display, unless a page that
\* watches would go back.
LEMMA ShowIsAbstract ==
    ASSUME NEW p \in Pages, NEW a, Cents(a) \in History,
           currentPrice \in [Pages -> Int],
           UNCHANGED server, currentPrice' = [currentPrice EXCEPT ![p] = a],
           Loaded(p)', \A q \in Pages \ {p} : Loaded(q)' <=> Loaded(q),
           p \notin Bidders /\ Loaded(p) => Cents(currentPrice[p]) <= Cents(a)
    PROVE  Dsp!Next
  <1>1. Screen' = [Screen EXCEPT ![p] = {Cents(a)}]
    <2>1. \A q \in Pages : Screen'[q] = IF q = p THEN {Cents(a)} ELSE Screen[q]
      BY DEF Screen
    <2>2. QED
      BY <2>1 DEF Screen
  <1>2. UNCHANGED <<price, History>>
    BY DEF server, History
  <1>3. p \in Pages \ Bidders => \A w \in Screen[p] : w <= Cents(a)
    BY DEF Screen
  <1>4. Dsp!Show(p, Cents(a))
    BY <1>1, <1>2, <1>3 DEF Dsp!Show
  <1>5. QED
    BY <1>4 DEF Dsp!Next

\* A bid that is stored raises the price of the display.
LEMMA StoreIsAbstract ==
    ASSUME IInv, NEW p \in Pages, NEW a \in Amounts, StoreBid(p, a)
    PROVE  Dsp!Next
  <1>1. price' \in Int /\ price' >= price /\ History' = History \cup {price'}
    BY StoreRaises, StoreKeepsHistory
  <1>2. Screen' = Screen
    BY DEF StoreBid, Screen, Loaded
  <1>3. QED
    BY <1>1, <1>2 DEF Dsp!Next, Dsp!Raise

LEMMA StepIsAbstract ==
    ASSUME IInv, OnTheWayWasPrice, [Next]_vars
    PROVE  [Dsp!Next]_(Dsp!vars)
  <1>0. TypeOK /\ currentPrice \in [Pages -> Int]
    BY DEF IInv, TypeOK
  <1>1. ASSUME UNCHANGED <<server, currentPrice>>, \A q \in Pages : Loaded(q)' <=> Loaded(q)
        PROVE UNCHANGED Dsp!vars
    BY <1>1 DEF Dsp!vars, server, History, Screen
  <1>2. ASSUME NEW p \in Pages, AnswerFetch(p) \/ FetchFailed(p) PROVE UNCHANGED Dsp!vars
    <2>1. fetch[p].at # "shown" /\ fetch'[p].at # "shown" /\ \A q \in Pages \ {p} : fetch'[q] = fetch[q]
      BY <1>0, <1>2 DEF AnswerFetch, FetchFailed, TypeOK
    <2>2. ASSUME NEW q \in Pages PROVE Loaded(q)' <=> Loaded(q)
      BY <2>1 DEF Loaded
    <2>3. QED
      BY <1>1, <1>2, <2>2 DEF AnswerFetch, FetchFailed
  <1>3. ASSUME NEW p \in Pages,
               RunEffects(p) \/ Accept(p) \/ LoseSocket(p) \/ SubmitBid(p) \/ RefusePost(p) \/ LoseAnswer(p)
        PROVE UNCHANGED Dsp!vars
    BY <1>1, <1>3 DEF RunEffects, Accept, LoseSocket, SubmitBid, RefusePost, LoseAnswer, Loaded
  <1>4. ASSUME NEW p \in Pages, ShowFetch(p) PROVE Dsp!Next
    <2>1. /\ fetch[p].at = "answered" /\ Cents(fetch[p].price) \in History
          /\ fetch' = [fetch EXCEPT ![p].at = "shown"]
          /\ currentPrice' = [currentPrice EXCEPT ![p] = fetch[p].price]
          /\ UNCHANGED server
      BY <1>4 DEF ShowFetch, SetPrice, OnTheWayWasPrice
    <2>2. Loaded(p)' /\ ~Loaded(p) /\ \A q \in Pages \ {p} : Loaded(q)' <=> Loaded(q)
      BY <1>0, <2>1 DEF Loaded, TypeOK
    <2>3. QED
      BY <1>0, <2>1, <2>2, ShowIsAbstract
  <1>5. ASSUME NEW p \in Pages, OnMessage(p) PROVE Dsp!Next
    <2>1. inbox[p] # <<>> /\ fetch' = fetch /\ UNCHANGED server
          /\ currentPrice' = [currentPrice EXCEPT ![p] = Head(inbox[p])]
      BY <1>5 DEF OnMessage, SetPrice
    <2>2. 1 \in DOMAIN inbox[p] /\ Head(inbox[p]) = inbox[p][1]
      BY <1>0, <1>5, <2>1, OnMessageStep
    <2>3. Cents(Head(inbox[p])) \in History
      BY <2>2 DEF OnTheWayWasPrice
    <2>4. Loaded(p) /\ \A q \in Pages : Loaded(q)' <=> Loaded(q)
      BY <2>1, NoMessagesBeforeLoad DEF Loaded
    <2>5. p \notin Bidders => Cents(currentPrice[p]) <= Cents(Head(inbox[p]))
      BY <2>2 DEF IInv, WatcherInOrder
    <2>6. QED
      BY <1>0, <2>1, <2>3, <2>4, <2>5, ShowIsAbstract
  <1>6. ASSUME NEW p \in Pages, ShowAnswer(p) PROVE Dsp!Next
    <2>1. PICK a \in answers[p] : currentPrice' = [currentPrice EXCEPT ![p] = a]
      BY <1>6 DEF ShowAnswer, SetPrice
    <2>2. Cents(a) \in History /\ p \in Bidders /\ Loaded(p)
      BY <2>1 DEF OnTheWayWasPrice, IInv, SocketAfterLoad
    <2>3. UNCHANGED server /\ \A q \in Pages : Loaded(q)' <=> Loaded(q)
      BY <1>6 DEF ShowAnswer, Loaded
    <2>4. QED
      BY <1>0, <2>1, <2>2, <2>3, ShowIsAbstract
  <1>7. ASSUME NEW p \in Pages, ServePost(p) \/ StoreInDoubt(p) PROVE Dsp!Next
    BY <1>7, StoreIsAbstract DEF ServePost, StoreInDoubt
  <1>8. CASE UNCHANGED vars
    BY <1>1, <1>8 DEF vars, page, Loaded
  <1>9. QED
    BY <1>2, <1>3, <1>4, <1>5, <1>6, <1>7, <1>8 DEF Next, Work, Fail

\* The pages together implement a display of prices the item has really had,
\* on which no page that only watches goes back.
THEOREM PagesImplementDisplay == Spec => ImplementsDisplay
  <1>1. Init => Dsp!Init
    BY DEF Init, Dsp!Init, History, Screen, Loaded
  <1>2. IInv /\ OnTheWayWasPrice /\ [Next]_vars => [Dsp!Next]_(Dsp!vars)
    BY StepIsAbstract
  <1>3. QED
    BY <1>1, <1>2, PageInvariance, WasPriceInvariance, PTL DEF Spec, ImplementsDisplay, Dsp!Spec

-----------------------------------------------------------------------------
(* The server is that of Auction *)

\* A request of a page that is stored is a bid of Auction: not below the price
\* of that moment, and the bidder's first of that amount.
LEMMA StoreIsBid ==
    ASSUME IInv, NEW p \in Pages, NEW a \in Amounts, StoreBid(p, a)
    PROVE  Market!Next
  <1>1. PICK c \in Int : c = Cents(a) /\ price' = c /\ c >= price /\ p \in Bidders
    BY StoreRaises
  <1>2. bids' = bids \cup {[by |-> p, amount |-> c]} /\ [by |-> p, amount |-> c] \notin bids
    BY <1>1 DEF StoreBid, Acceptable
  <1>3. bids \subseteq [by : Bidders, amount : Int]
    BY DEF IInv, TypeOK
  <1> DEFINE Row(b) == [user |-> b.by, item |-> 1, amount |-> b.amount, seller |-> 0]
             rows == {Row(b) : b \in bids}
             table == [i \in {1} |-> [start |-> Start, price |-> price]]
  <1>4. rows' = rows \cup {[user |-> p, item |-> 1, amount |-> c, seller |-> 0]}
    BY <1>2
  <1>5. \A r \in rows : r.user = p => r.amount # c
    <2> SUFFICES ASSUME NEW b \in bids, b.by = p PROVE b.amount # c
      OBVIOUS
    <2>1. b \in [by : Bidders, amount : Int]
      BY <1>3
    <2>2. b = [by |-> b.by, amount |-> b.amount]
      BY <2>1
    <2>3. QED
      BY <1>2, <2>2
  <1>6. table' = [table EXCEPT ![1].price = c]
    <2>1. [[start |-> Start, price |-> price] EXCEPT !.price = c] = [start |-> Start, price |-> c]
      OBVIOUS
    <2>2. QED
      BY <1>1, <2>1
  <1>7. Market!Bid(p, 1, c, 0)
    BY <1>1, <1>4, <1>5, <1>6 DEF Market!Bid, Market!BidsOn
  <1>8. QED
    BY <1>1, <1>7 DEF Market!Next

\* Whatever the pages show and send, the database sees bids of Auction only.
THEOREM PostsAreAlwaysBids == Spec => PostsAreBids
  <1>1. IInv /\ [Next]_vars => [Market!Next]_(Market!vars)
    <2> SUFFICES ASSUME IInv, [Next]_vars PROVE Market!Next \/ UNCHANGED Market!vars
      OBVIOUS
    <2>1. CASE \E p \in Pages, a \in Amounts : StoreBid(p, a)
      BY <2>1, StoreIsBid
    <2>2. CASE UNCHANGED server
      BY <2>2 DEF server, Market!vars
    <2>3. QED
      BY <2>1, <2>2 DEF Next, Work, Fail, vars, AnswerFetch, FetchFailed, ShowFetch, RunEffects, Accept,
         LoseSocket, OnMessage, SubmitBid, ServePost, StoreInDoubt, RefusePost, LoseAnswer, ShowAnswer
  <1>2. QED
    BY <1>1, PageInvariance, PTL DEF Spec, PostsAreBids
=============================================================================
