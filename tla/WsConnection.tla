---------------------------- MODULE WsConnection ----------------------------
(***************************************************************************)
(* The WebSocket objects of Crow (websocket.h) and ws_clients, the list of *)
(* pointers to them that main.cpp keeps for its broadcasts.                *)
(*                                                                         *)
(* An action is one callback of the worker thread: BidNet has one worker,  *)
(* so callbacks do not overlap.  An object deletes itself, in whichever    *)
(* callback finds that no read and no write is under way; nothing else     *)
(* tells the broadcast loop that a pointer is dead.                        *)
(*                                                                         *)
(* Simplifications: a frame is read as a whole (the reads of its header,   *)
(* its mask and its parts differ in nothing but what is read next); pages  *)
(* send no frame but Close, AuctionDetail.tsx has no ws.send; the server   *)
(* closes only in answer, main.cpp never calls close().                    *)
(***************************************************************************)
EXTENDS Integers, Sequences

CONSTANTS
    Conns,    \* TCP connections, one WebSocket object each at most
    MaxCasts  \* bound: broadcasts in a behaviour

ASSUME MaxCastsAssumption == MaxCasts \in Nat

VARIABLES
    conn,     \* conn[c]: the fields of the object of c
    clients,  \* ws_clients
    broken,   \* the connections that TCP has given up
    casts,    \* the number of broadcasts; a broadcast is known by its number
    got       \* got[c]: what was written to the socket of c, in order

wsVars == <<conn, clients, broken, casts, got>>

\* What is written: the answer to the upgrade, broadcasts, a close frame.
Hello == 0
CloseFrame == -1
Frames == {CloseFrame} \cup Nat

Objects == [life    : {"none", "live", "freed"},
            reading : BOOLEAN,      \* is_reading: a read is under way
            sending : Seq(Frames),  \* sending_buffers_: a write is under way
            queued  : Seq(Frames),  \* write_buffers_
            posted  : Seq(Frames),  \* sends the io_context has still to run
            closing : BOOLEAN,      \* has_recv_close_, and set with it:
                                    \* has_sent_close_, is_close_handler_called_
            doomed  : BOOLEAN,      \* close_connection_
            open    : BOOLEAN]      \* the socket is not closed

NoObject == [life |-> "none", reading |-> FALSE, sending |-> <<>>,
             queued |-> <<>>, posted |-> <<>>, closing |-> FALSE,
             doomed |-> FALSE, open |-> FALSE]

WsInit ==
    /\ conn = [c \in Conns |-> NoObject]
    /\ clients = {}
    /\ broken = {}
    /\ casts = 0
    /\ got = [c \in Conns |-> <<>>]

-----------------------------------------------------------------------------
(* Methods of an object k *)

\* All that is queued goes out in one write, and one write at a time.
DoWrite(k) ==
    IF k.sending = <<>> THEN [k EXCEPT !.sending = k.queued, !.queued = <<>>] ELSE k

Send(k, frame) == DoWrite([k EXCEPT !.queued = Append(@, frame)])

CloseSocket(k) == [k EXCEPT !.doomed = TRUE, !.open = FALSE]

\* A bug: the object is deleted with a read under way.
DestroyUnlessSending(k) == IF k.sending = <<>> THEN [k EXCEPT !.life = "freed"] ELSE k

\* A bug: the object waits for the write that it may have queued, too.
DestroyWhenDrained(k) ==
    IF k.sending = <<>> /\ k.queued = <<>> /\ ~k.reading
    THEN [k EXCEPT !.life = "freed"] ELSE k

CheckDestroy(k) ==
    IF k.sending = <<>> /\ ~k.reading THEN [k EXCEPT !.life = "freed"] ELSE k

DoRead(k) ==
    IF k.closing THEN CheckDestroy(CloseSocket(k)) ELSE [k EXCEPT !.reading = TRUE]

-----------------------------------------------------------------------------
(* Callbacks *)

\* The constructor and start(): the answer to the upgrade, onopen, a read.
Open(c) ==
    /\ conn[c].life = "none"
    /\ conn' = [conn EXCEPT ![c] =
                  DoRead(Send([@ EXCEPT !.life = "live", !.open = TRUE], Hello))]
    /\ clients' = clients \cup {c}
    /\ UNCHANGED <<broken, casts, got>>

\* The broadcast loop of place_bid: send_text posts to every client.
Broadcast ==
    /\ casts < MaxCasts
    /\ casts' = casts + 1
    /\ conn' = [c \in Conns |->
                  IF c \in clients THEN [conn[c] EXCEPT !.posted = Append(@, casts + 1)]
                                   ELSE conn[c]]
    /\ UNCHANGED <<clients, broken, got>>

\* What send_text posted runs, unless the object is gone.
RunPosted(c) ==
    /\ conn[c].posted # <<>>
    /\ LET k == [conn[c] EXCEPT !.posted = Tail(@)]
       IN conn' = [conn EXCEPT ![c] = IF k.life = "live" THEN Send(k, Head(conn[c].posted))
                                                          ELSE k]
    /\ UNCHANGED <<clients, broken, casts, got>>

\* A bug: the close frame is answered, and onclose left to the other side.
ReadCloseSilently(c) ==
    /\ conn[c].reading
    /\ conn' = [conn EXCEPT ![c] =
                  DoRead(Send([@ EXCEPT !.reading = FALSE, !.closing = TRUE], CloseFrame))]
    /\ UNCHANGED <<clients, broken, casts, got>>

\* A close frame: close() calls onclose and queues a close frame in answer;
\* do_read() then finds both sides closed.
ReadClose(c) ==
    /\ conn[c].reading
    /\ conn' = [conn EXCEPT ![c] =
                  DoRead(Send([@ EXCEPT !.reading = FALSE, !.closing = TRUE], CloseFrame))]
    /\ clients' = clients \ {c}
    /\ UNCHANGED <<broken, casts, got>>

\* onclose, as check_destroy() calls it: not after a close frame.
Unlist(c) == clients' = IF conn[c].closing THEN clients ELSE clients \ {c}

ReadFails(c) ==
    /\ conn[c].reading
    /\ c \in broken
    /\ conn' = [conn EXCEPT ![c] = CheckDestroy(CloseSocket([@ EXCEPT !.reading = FALSE]))]
    /\ Unlist(c)
    /\ UNCHANGED <<broken, casts, got>>

\* A bug: what was queued meanwhile is cleared with what was sent.
WriteDoneAndForget(c) ==
    /\ conn[c].sending # <<>>
    /\ ~conn[c].doomed
    /\ got' = [got EXCEPT ![c] = @ \o conn[c].sending]
    /\ conn' = [conn EXCEPT ![c] = [@ EXCEPT !.sending = <<>>, !.queued = <<>>]]
    /\ UNCHANGED <<clients, broken, casts>>

\* A bug: the next write waits for the next send.
WriteDoneAndRest(c) ==
    /\ conn[c].sending # <<>>
    /\ ~conn[c].doomed
    /\ got' = [got EXCEPT ![c] = @ \o conn[c].sending]
    /\ conn' = [conn EXCEPT ![c].sending = <<>>]
    /\ UNCHANGED <<clients, broken, casts>>

\* The write ended well: on a broken connection, too, as long as the system
\* has room for what is written.
WriteDone(c) ==
    /\ conn[c].sending # <<>>
    /\ ~conn[c].doomed
    /\ got' = [got EXCEPT ![c] = @ \o conn[c].sending]
    /\ LET k == DoWrite([conn[c] EXCEPT !.sending = <<>>])
       IN conn' = [conn EXCEPT ![c] = [k EXCEPT !.doomed = k.doomed \/ k.closing]]
    /\ UNCHANGED <<clients, broken, casts>>

\* A bug: nobody asks whether the object is to be deleted now.
WriteEndsSilently(c) ==
    /\ conn[c].sending # <<>>
    /\ conn[c].doomed \/ c \in broken
    /\ conn' = [conn EXCEPT ![c] = [@ EXCEPT !.sending = <<>>, !.doomed = TRUE]]
    /\ Unlist(c)
    /\ UNCHANGED <<broken, casts, got>>

\* The other branch: the write failed, or ended after the socket was closed.
\* What of it was written is of no interest, its page has gone.
WriteEnds(c) ==
    /\ conn[c].sending # <<>>
    /\ conn[c].doomed \/ c \in broken
    /\ conn' = [conn EXCEPT ![c] = CheckDestroy([@ EXCEPT !.sending = <<>>, !.doomed = TRUE])]
    /\ Unlist(c)
    /\ UNCHANGED <<broken, casts, got>>

\* TCP gives a connection up: reset by the page, or no answer for long.
Break(c) ==
    /\ c \notin broken
    /\ broken' = broken \cup {c}
    /\ UNCHANGED <<conn, clients, casts, got>>

Callback(c) ==
    RunPosted(c) \/ ReadFails(c) \/ WriteDone(c) \/ WriteEnds(c)

WsNext ==
    \/ Broadcast
    \/ \E c \in Conns : Open(c) \/ ReadClose(c) \/ Break(c) \/ Callback(c)

WsSpec == WsInit /\ [][WsNext]_wsVars

-----------------------------------------------------------------------------
(* Properties *)

\* The types of the variables (main.cpp:18, websocket.h:802-823).
WsTypeOK ==
    /\ conn \in [Conns -> Objects]
    /\ clients \subseteq Conns
    /\ broken \subseteq Conns
    /\ casts \in Nat
    /\ got \in [Conns -> Seq(Frames)]

\* The broadcast loop (main.cpp:231) dereferences no pointer to a deleted
\* object, nor posts to one whose socket is closed.
ListedIsLive == \A c \in clients : conn[c].life = "live" /\ conn[c].open

\* The callbacks of reads and writes use the object before they ask whether it
\* is still there (websocket.h:382, 733): it never deletes itself under one.
FreedIsQuiet ==
    \A c \in Conns : conn[c].life = "freed" => ~conn[c].reading /\ conn[c].sending = <<>>

\* No object is forgotten (websocket.h:763): while it lives a callback is on
\* its way that will ask again whether it is to be deleted.
LiveHasCallback ==
    \A c \in Conns : conn[c].life = "live" => conn[c].reading \/ conn[c].sending # <<>>

\* An object whose page has closed or whose connection broke is deleted.
GoneIsFreed ==
    \A c \in Conns :
        conn[c].life = "live" /\ (conn[c].closing \/ c \in broken) ~> conn[c].life = "freed"

\* What holds of each object and its place in the list; of which ListedIsLive,
\* FreedIsQuiet and LiveHasCallback are parts.
ObjectOK(c) ==
    LET k == conn[c]
    IN /\ k.life = "none" => k = NoObject /\ got[c] = <<>>
       /\ k.life = "freed" => ~k.reading /\ k.sending = <<>> /\ k.doomed
       /\ k.life = "live" => k.reading \/ k.sending # <<>>
       /\ k.life = "live" /\ ~k.doomed => c \in clients
       /\ k.reading => k.life = "live" /\ k.open /\ ~k.closing
       /\ k.closing => k.doomed
       /\ c \in clients => k.life = "live" /\ k.reading /\ ~k.doomed

WsInv == WsTypeOK /\ \A c \in Conns : ObjectOK(c)

\* The abstract channel: what a listed client is owed is what is under way.
Due == [c \in Conns |-> IF c \in clients THEN conn[c].sending \o conn[c].queued \o conn[c].posted
                                         ELSE <<>>]

Chan == INSTANCE Channel WITH listed <- clients, due <- Due

\* Whatever a listed client is owed reaches its socket, unless it leaves.
ListedHears ==
    \A c \in Conns : \A n \in 0 .. MaxCasts :
        (\E i \in DOMAIN Due[c] : Due[c][i] = n) ~> \A i \in DOMAIN Due[c] : Due[c][i] # n

\* The connections and the broadcast implement the channel the pages rely on.
ImplementsChannel == Chan!Spec
=============================================================================
