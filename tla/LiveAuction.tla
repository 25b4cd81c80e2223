---------------------------- MODULE LiveAuction -----------------------------
(***************************************************************************)
(* The auction page (client AuctionDetail.tsx) of one item in several      *)
(* browsers, against the server.                                           *)
(*                                                                         *)
(* A page learns the price in three ways that nothing orders: the answer   *)
(* to its fetch, messages on its WebSocket, and the answers to its own     *)
(* bids.  Each of them changes `auction`, and the effect that depends on   *)
(* it then closes the socket and opens another.                            *)
(*                                                                         *)
(* The server is BidServer with one process, seen between transactions:    *)
(* a request takes effect in one step.  A page stands for a user of its    *)
(* own.  Left out are messages about other items, which change no page,    *)
(* and the end of the auction, which changes a text on the page only: form *)
(* and server go on as before.                                             *)
(***************************************************************************)
EXTENDS Money, Sequences, FiniteSets

CONSTANTS
    Pages,    \* open auction pages
    Bidders,  \* those whose user is logged in, and so may bid
    Amounts,  \* amounts the bid form may hold, in mills
    Start     \* starting price of the item, in cents

ASSUME BidderAssumption == Bidders \subseteq Pages
ASSUME AmountAssumption == Amounts \subseteq Int /\ Start \in Int

VARIABLES
    price,         \* the item's price in the database, in cents
    bids,          \* table bids, for this item
    fetch,         \* fetch[p]: the page's request for the auction
    currentPrice,  \* currentPrice[p]: the price p shows, in mills
    due,           \* due[p]: effects of a changed `auction` have yet to run
    ws,            \* ws[p]: the page's current socket
    inbox,         \* inbox[p]: messages on that socket, not yet handled
    posts,         \* posts[p]: bids of p on their way to the server
    answers,       \* answers[p]: amounts of bids of p confirmed, not yet seen
    missed         \* missed[p]: p was not sent the latest price (history variable)

server == <<price, bids>>
page == <<fetch, currentPrice, due, ws, inbox, posts, answers, missed>>
vars == <<server, page>>

Loaded(p) == fetch[p].at = "shown"

\* The page has been given a price that may grow old.
Informed(p) == fetch[p].at \in {"answered", "shown"}

Init ==
    /\ price = Start
    /\ bids = {}
    /\ fetch = [p \in Pages |-> [at |-> "asked", price |-> 0]]
    /\ currentPrice = [p \in Pages |-> 0]
    /\ due = [p \in Pages |-> FALSE]
    /\ ws = [p \in Pages |-> "none"]
    /\ inbox = [p \in Pages |-> <<>>]
    /\ posts = [p \in Pages |-> {}]
    /\ answers = [p \in Pages |-> {}]
    /\ missed = [p \in Pages |-> FALSE]

-----------------------------------------------------------------------------
(* Loading the page *)

AnswerFetch(p) ==
    /\ fetch[p].at = "asked"
    /\ fetch' = [fetch EXCEPT ![p] = [at |-> "answered", price |-> Mills(price)]]
    /\ UNCHANGED <<server, currentPrice, due, ws, inbox, posts, answers, missed>>

\* 404, 500 or no answer: the page says "Loading" for ever.
FetchFailed(p) ==
    /\ fetch[p].at \in {"asked", "answered"}
    /\ fetch' = [fetch EXCEPT ![p].at = "failed"]
    /\ UNCHANGED <<server, currentPrice, due, ws, inbox, posts, answers, missed>>

\* setAuction: the page shows a price, and its effects are to run.
SetPrice(p, amount) ==
    /\ currentPrice' = [currentPrice EXCEPT ![p] = amount]
    /\ due' = [due EXCEPT ![p] = TRUE]

ShowFetch(p) ==
    /\ fetch[p].at = "answered"
    /\ fetch' = [fetch EXCEPT ![p].at = "shown"]
    /\ SetPrice(p, fetch[p].price)
    /\ UNCHANGED <<server, ws, inbox, posts, answers, missed>>

-----------------------------------------------------------------------------
(* The socket *)

\* A bug: the fetch depends on `auction` too.
RunEffectsAndFetch(p) ==
    /\ due[p]
    /\ due' = [due EXCEPT ![p] = FALSE]
    /\ ws' = [ws EXCEPT ![p] = "connecting"]
    /\ missed' = [missed EXCEPT ![p] = @ \/ inbox[p] # <<>>]
    /\ inbox' = [inbox EXCEPT ![p] = <<>>]
    /\ fetch' = [fetch EXCEPT ![p].at = "asked"]
    /\ UNCHANGED <<server, currentPrice, posts, answers>>

\* The old socket is closed, and what it still held is never handled; a new
\* one is opened.
RunEffects(p) ==
    /\ due[p]
    /\ due' = [due EXCEPT ![p] = FALSE]
    /\ ws' = [ws EXCEPT ![p] = "connecting"]
    /\ missed' = [missed EXCEPT ![p] = @ \/ inbox[p] # <<>>]
    /\ inbox' = [inbox EXCEPT ![p] = <<>>]
    /\ UNCHANGED <<server, fetch, currentPrice, posts, answers>>

\* The handshake is done: the server lists the connection and sends it all
\* broadcasts from now on.
Accept(p) ==
    /\ ws[p] = "connecting"
    /\ ws' = [ws EXCEPT ![p] = "open"]
    /\ UNCHANGED <<server, fetch, currentPrice, due, inbox, posts, answers, missed>>

\* The connection breaks; the page still handles the messages that got
\* through.  It has no onclose handler, so it does not connect again.
LoseSocket(p) ==
    /\ ws[p] \in {"connecting", "open"}
    /\ ws' = [ws EXCEPT ![p] = "lost"]
    /\ \E n \in 0 .. Len(inbox[p]) :
         /\ inbox' = [inbox EXCEPT ![p] = SubSeq(@, 1, n)]
         /\ missed' = [missed EXCEPT ![p] = @ \/ n < Len(inbox[p])]
    /\ UNCHANGED <<server, fetch, currentPrice, due, posts, answers>>

\* onmessage
OnMessage(p) ==
    /\ inbox[p] # <<>>
    /\ SetPrice(p, Head(inbox[p]))
    /\ inbox' = [inbox EXCEPT ![p] = Tail(@)]
    /\ UNCHANGED <<server, fetch, ws, posts, answers, missed>>

-----------------------------------------------------------------------------
(* Bidding *)

\* A bug: the page shows the bid at once, before the server has it.
SubmitAndShow(p) ==
    /\ p \in Bidders /\ Loaded(p)
    /\ \E a \in Amounts \ posts[p] :
         /\ a > currentPrice[p]
         /\ posts' = [posts EXCEPT ![p] = @ \cup {a}]
         /\ SetPrice(p, a)
    /\ UNCHANGED <<server, fetch, ws, inbox, answers, missed>>

\* A bug: nobody looks whether the user is logged in.
SubmitWithoutLogin(p) ==
    /\ Loaded(p)
    /\ \E a \in Amounts \ posts[p] :
         /\ a > currentPrice[p]
         /\ posts' = [posts EXCEPT ![p] = @ \cup {a}]
    /\ UNCHANGED <<server, fetch, currentPrice, due, ws, inbox, answers, missed>>

\* handleBidSubmit: the bid must be above the price this page shows.  The
\* form stays usable while a bid is on its way and after the countdown.
\* Bound: a page has at most one bid of each amount on its way.
SubmitBid(p) ==
    /\ p \in Bidders /\ Loaded(p)
    /\ \E a \in Amounts \ posts[p] :
         /\ a > currentPrice[p]
         /\ posts' = [posts EXCEPT ![p] = @ \cup {a}]
    /\ UNCHANGED <<server, fetch, currentPrice, due, ws, inbox, answers, missed>>

\* A bug: the server relies on the comparison that the form makes.
AcceptableNew(p, a) == [by |-> p, amount |-> Cents(a)] \notin bids

\* The conditions under which place_bid stores a bid: above the price, and no
\* equal bid of the user.
Acceptable(p, a) ==
    /\ a > Mills(price)
    /\ [by |-> p, amount |-> Cents(a)] \notin bids

StoreBid(p, a) ==
    /\ a \in posts[p] /\ Acceptable(p, a)
    /\ price' = Cents(a)
    /\ bids' = bids \cup {[by |-> p, amount |-> Cents(a)]}
    /\ posts' = [posts EXCEPT ![p] = @ \ {a}]
    /\ UNCHANGED <<fetch, currentPrice, due, ws>>

\* A bug: the message carries the price that the bid was compared with.
BroadcastOldPrice(a) ==
    /\ inbox' = [q \in Pages |-> IF ws[q] = "open" THEN Append(inbox[q], Mills(price)) ELSE inbox[q]]
    /\ missed' = [q \in Pages |-> ws[q] # "open" /\ (missed[q] \/ Informed(q))]

\* A bug: the message overtakes those that wait to be written.
BroadcastInFront(a) ==
    /\ inbox' = [q \in Pages |-> IF ws[q] = "open" THEN <<a>> \o inbox[q] ELSE inbox[q]]
    /\ missed' = [q \in Pages |-> ws[q] # "open" /\ (missed[q] \/ Informed(q))]

\* A bug: the message carries by how much the price has risen.
BroadcastRise(a) ==
    /\ inbox' = [q \in Pages |-> IF ws[q] = "open" THEN Append(inbox[q], a - Mills(price)) ELSE inbox[q]]
    /\ missed' = [q \in Pages |-> ws[q] # "open" /\ (missed[q] \/ Informed(q))]

\* Every listed connection is sent the amount; the other pages miss it.
BroadcastBid(a) ==
    /\ inbox' = [q \in Pages |-> IF ws[q] = "open" THEN Append(inbox[q], a) ELSE inbox[q]]
    /\ missed' = [q \in Pages |-> ws[q] # "open" /\ (missed[q] \/ Informed(q))]

\* The bid is stored, broadcast, and confirmed.
ServePost(p) ==
    \E a \in Amounts :
        /\ StoreBid(p, a)
        /\ BroadcastBid(a)
        /\ answers' = [answers EXCEPT ![p] = @ \cup {a}]

\* COMMIT is done, but place_bid does not hear of it (BidServer's
\* CommitUnanswered and CrashInCommit): no message and no confirmation.
StoreInDoubt(p) ==
    /\ \E a \in Amounts : StoreBid(p, a)
    /\ missed' = [q \in Pages |-> missed[q] \/ Informed(q)]
    /\ UNCHANGED <<inbox, answers>>

\* The bid is refused, fails or never arrives.  The page shows a text and
\* keeps its price.
RefusePost(p) ==
    /\ \E a \in posts[p] : posts' = [posts EXCEPT ![p] = @ \ {a}]
    /\ UNCHANGED <<server, fetch, currentPrice, due, ws, inbox, answers, missed>>

\* A confirmation gets lost: the page shows a text and keeps its price.
LoseAnswer(p) ==
    /\ \E a \in answers[p] : answers' = [answers EXCEPT ![p] = @ \ {a}]
    /\ UNCHANGED <<server, fetch, currentPrice, due, ws, inbox, posts, missed>>

\* The page sees the confirmation of its bid, however late.
ShowAnswer(p) ==
    /\ \E a \in answers[p] :
         /\ SetPrice(p, a)
         /\ answers' = [answers EXCEPT ![p] = @ \ {a}]
    /\ UNCHANGED <<server, fetch, ws, inbox, posts, missed>>

-----------------------------------------------------------------------------
Work(p) ==
    \/ AnswerFetch(p) \/ ShowFetch(p) \/ RunEffects(p) \/ Accept(p) \/ OnMessage(p)
    \/ SubmitBid(p) \/ ServePost(p) \/ RefusePost(p) \/ ShowAnswer(p)

Fail(p) == FetchFailed(p) \/ LoseSocket(p) \/ StoreInDoubt(p) \/ LoseAnswer(p)

Next == \E p \in Pages : Work(p) \/ Fail(p)

Spec == Init /\ [][Next]_vars

\* Behaviours in which no connection breaks and no COMMIT is in doubt.
HealthySpec == Init /\ [][\E p \in Pages : Work(p)]_vars

\* A browser runs the effects of a rendered change and the handlers of what
\* has arrived.  Nothing is asked of the network, the users or the server.
Fairness == \A p \in Pages : WF_vars(RunEffects(p)) /\ WF_vars(OnMessage(p)) /\ WF_vars(ShowAnswer(p))

FairSpec == Spec /\ Fairness

-----------------------------------------------------------------------------
(* Properties *)

\* The values the variables take.
TypeOK ==
    /\ price \in Int /\ bids \subseteq [by : Bidders, amount : Int]
    /\ fetch \in [Pages -> [at : {"asked", "answered", "shown", "failed"}, price : Int]]
    /\ currentPrice \in [Pages -> Int]
    /\ due \in [Pages -> BOOLEAN]
    /\ ws \in [Pages -> {"none", "connecting", "open", "lost"}]
    /\ inbox \in [Pages -> Seq(Amounts)]
    /\ posts \in [Pages -> SUBSET Amounts]
    /\ answers \in [Pages -> SUBSET Amounts]
    /\ missed \in [Pages -> BOOLEAN]

\* No page shows a price that the item never reached: to the cent, what
\* AuctionDetail shows is at most the price in the database, whichever of
\* fetch, message and answer set it and however late it was.
ShownAtMostPrice == \A p \in Pages : Loaded(p) => Cents(currentPrice[p]) <= price

\* On a page that only watches, the price never goes down, although each
\* message makes the page drop its socket for a new one.
WatcherNeverFalls ==
    [][\A p \in Pages \ Bidders :
          Loaded(p) => Cents(currentPrice'[p]) >= Cents(currentPrice[p])]_vars

\* A page that only watches is out of date only because the latest price was
\* never sent to it, or is still waiting on its socket: no price that reached
\* the page is lost or hidden by an older one.
WatcherUpToDate ==
    \A p \in Pages \ Bidders :
        Loaded(p) /\ inbox[p] = <<>> /\ ~missed[p] => Cents(currentPrice[p]) = price

\* The prices the item has had.
History == {Start} \cup {b.amount : b \in bids}

Screen == [p \in Pages |-> IF Loaded(p) THEN {Cents(currentPrice[p])} ELSE {}]

Dsp == INSTANCE Display WITH Watchers <- Pages \ Bidders, history <- History, shown <- Screen

\* Fetch, messages and confirmations (AuctionDetail.tsx:50, 79, 160) together
\* implement a display of prices that the item has really had.
ImplementsDisplay == Dsp!Spec

Market == INSTANCE Auction
    WITH Users <- Bidders, SellerIds <- {0}, Items <- {1}, Prices <- {Cents(a) : a \in Amounts},
         items <- [i \in {1} |-> [start |-> Start, price |-> price]],
         bids <- {[user |-> b.by, item |-> 1, amount |-> b.amount, seller |-> 0] : b \in bids},
         transactions <- <<>>

\* What the pages' requests do to the database, however old the price was that
\* the form compared the bid with, is what Auction allows its bidders.
PostsAreBids == [][Market!Next]_(Market!vars)

\* The effects come to rest: a change of `auction` opens a socket, which does
\* not by itself change `auction` again.
PagesSettle == \A p \in Pages : <>[](~due[p])

(* The inductive invariants behind the safety properties *)

\* A page has a socket and bids only once it shows the auction, and messages
\* only on a socket.
SocketAfterLoad ==
    \A p \in Pages :
        /\ due[p] \/ ws[p] # "none" => Loaded(p)
        /\ ws[p] \in {"none", "connecting"} => inbox[p] = <<>>
        /\ posts[p] # {} \/ answers[p] # {} => p \in Bidders /\ Loaded(p)

\* Whatever a page may yet show is at most the price.
OnTheWayAtMostPrice ==
    \A p \in Pages :
        /\ fetch[p].at = "answered" => Cents(fetch[p].price) <= price
        /\ \A k \in DOMAIN inbox[p] : Cents(inbox[p][k]) <= price
        /\ \A a \in answers[p] : Cents(a) <= price

\* Whatever a page may yet show was the price at some time.
OnTheWayWasPrice ==
    /\ price \in History
    /\ \A p \in Pages :
          /\ fetch[p].at = "answered" => Cents(fetch[p].price) \in History
          /\ \A k \in DOMAIN inbox[p] : Cents(inbox[p][k]) \in History
          /\ \A a \in answers[p] : Cents(a) \in History

\* Messages wait in the order of their prices, none below the price shown.
WatcherInOrder ==
    \A p \in Pages \ Bidders :
        /\ \A k \in DOMAIN inbox[p] : Cents(currentPrice[p]) <= Cents(inbox[p][k])
        /\ \A k, l \in DOMAIN inbox[p] : k <= l => Cents(inbox[p][k]) <= Cents(inbox[p][l])

\* Unless the latest price was not sent to it, it is the last that a page that
\* watches will show.
WatcherHears ==
    \A p \in Pages \ Bidders : ~missed[p] =>
        /\ fetch[p].at = "answered" => Cents(fetch[p].price) = price
        /\ Loaded(p) /\ inbox[p] = <<>> => Cents(currentPrice[p]) = price
        /\ inbox[p] # <<>> => Cents(inbox[p][Len(inbox[p])]) = price

IInv ==
    /\ TypeOK /\ SocketAfterLoad /\ OnTheWayAtMostPrice /\ ShownAtMostPrice
    /\ WatcherInOrder /\ WatcherHears

-----------------------------------------------------------------------------
(* What the texts of the repository say and the code does not do *)

\* The page has handled all it was sent, and its socket is open.
AtRest(p) == Loaded(p) /\ ws[p] = "open" /\ ~due[p] /\ inbox[p] = <<>> /\ answers[p] = {}

\* "REAL-TIME BIDS": a page at rest shows the price.
RestingPageShowsPrice == \A p \in Pages : AtRest(p) => Cents(currentPrice[p]) = price

\* "update the currentPrice": a page at rest that was sent the latest price shows it.
ToldPageShowsPrice == \A p \in Pages : AtRest(p) /\ ~missed[p] => Cents(currentPrice[p]) = price
=============================================================================
