------------------------- MODULE WsConnectionProofs --------------------------
(***************************************************************************)
(* Theorems about WsConnection, for any number of connections.             *)
(***************************************************************************)
EXTENDS WsConnection, SequenceTheorems, TLAPS

-----------------------------------------------------------------------------
(* The methods of an object *)

LEMMA FramesFacts == Hello \in Frames /\ CloseFrame \in Frames /\ Nat \subseteq Frames
  BY DEF Frames, Hello, CloseFrame

\* do_write changes the two buffers only, and leaves none queued if idle.
LEMMA DoWriteFacts ==
    ASSUME NEW k \in Objects
    PROVE  /\ DoWrite(k) \in Objects
           /\ \E s, q \in Seq(Frames) :
                 /\ DoWrite(k) = [k EXCEPT !.sending = s, !.queued = q]
                 /\ k.sending # <<>> => s = k.sending /\ q = k.queued
                 /\ k.sending = <<>> => s = k.queued /\ q = <<>>
  <1>1. k.sending \in Seq(Frames) /\ k.queued \in Seq(Frames) /\ <<>> \in Seq(Frames)
    BY DEF Objects
  <1>2. CASE k.sending = <<>>
    <2>1. DoWrite(k) = [k EXCEPT !.sending = k.queued, !.queued = <<>>]
      BY <1>2 DEF DoWrite
    <2>2. QED
      BY <1>1, <1>2, <2>1 DEF Objects
  <1>3. CASE k.sending # <<>>
    <2>1. DoWrite(k) = k
      BY <1>3 DEF DoWrite
    <2>2. k = [k EXCEPT !.sending = k.sending, !.queued = k.queued]
      BY DEF Objects
    <2>3. QED
      BY <1>1, <1>3, <2>1, <2>2
  <1>4. QED
    BY <1>2, <1>3

\* After a send a write is under way, and what is owed has grown by the frame.
LEMMA SendFacts ==
    ASSUME NEW k \in Objects, NEW f \in Frames
    PROVE  /\ Send(k, f) \in Objects
           /\ \E s, q \in Seq(Frames) :
                 /\ Send(k, f) = [k EXCEPT !.sending = s, !.queued = q]
                 /\ s # <<>>
                 /\ s \o q = k.sending \o Append(k.queued, f)
  <1>. DEFINE j == [k EXCEPT !.queued = Append(@, f)]
  <1>1. /\ k.sending \in Seq(Frames) /\ k.queued \in Seq(Frames)
        /\ Append(k.queued, f) \in Seq(Frames) /\ Append(k.queued, f) # <<>>
    BY AppendProperties DEF Objects
  <1>2. /\ j \in Objects /\ j.sending = k.sending /\ j.queued = Append(k.queued, f)
        /\ \A s, q : [j EXCEPT !.sending = s, !.queued = q] = [k EXCEPT !.sending = s, !.queued = q]
    BY <1>1 DEF Objects
  <1>3. Send(k, f) = DoWrite(j)
    BY DEF Send
  <1>. HIDE DEF j
  <1>4. DoWrite(j) \in Objects
    BY <1>2, DoWriteFacts
  <1>5. PICK s \in Seq(Frames), q \in Seq(Frames) :
               /\ DoWrite(j) = [j EXCEPT !.sending = s, !.queued = q]
               /\ j.sending # <<>> => s = j.sending /\ q = j.queued
               /\ j.sending = <<>> => s = j.queued /\ q = <<>>
    BY <1>2, DoWriteFacts
  <1>6. s # <<>>
    BY <1>1, <1>2, <1>5
  <1>7. s \o q = k.sending \o Append(k.queued, f)
    <2>1. CASE k.sending = <<>>
      BY <1>1, <1>2, <1>5, <2>1, ConcatEmptySeq
    <2>2. CASE k.sending # <<>>
      BY <1>2, <1>5, <2>2
    <2>3. QED
      BY <2>1, <2>2
  <1>8. QED
    BY <1>2, <1>3, <1>4, <1>5, <1>6, <1>7

-----------------------------------------------------------------------------
(* The invariant *)

LEMMA WsInitInv == WsInit => WsInv
  <1>. SUFFICES ASSUME WsInit PROVE WsInv
    OBVIOUS
  <1>1. <<>> \in Seq(Frames) /\ NoObject \in Objects
    BY DEF NoObject, Objects
  <1>2. WsTypeOK
    BY <1>1 DEF WsInit, WsTypeOK
  <1>3. \A c \in Conns : ObjectOK(c)
    BY DEF WsInit, ObjectOK, NoObject
  <1>4. QED
    BY <1>2, <1>3 DEF WsInv

\* A step of one connection keeps the invariant if it does so for that one.
LEMMA OneObject ==
    ASSUME WsInv, NEW c \in Conns, NEW k \in Objects,
           conn' = [conn EXCEPT ![c] = k], ObjectOK(c)',
           clients' \subseteq Conns, \A d \in Conns \ {c} : d \in clients' <=> d \in clients,
           broken' \subseteq Conns, casts' \in Nat,
           got' \in [Conns -> Seq(Frames)], \A d \in Conns \ {c} : got'[d] = got[d]
    PROVE  WsInv'
  <1>1. conn \in [Conns -> Objects] /\ \A d \in Conns : ObjectOK(d)
    BY DEF WsInv, WsTypeOK
  <1>2. WsTypeOK'
    BY <1>1 DEF WsTypeOK
  <1>3. ASSUME NEW d \in Conns \ {c} PROVE ObjectOK(d)'
    <2>1. conn'[d] = conn[d] /\ got'[d] = got[d] /\ (d \in clients' <=> d \in clients)
      BY <1>1
    <2>2. ObjectOK(d)
      BY <1>1
    <2>3. QED
      BY <2>1, <2>2 DEF ObjectOK
  <1>4. QED
    BY <1>2, <1>3 DEF WsInv

LEMMA OpenInv == ASSUME WsInv, NEW c \in Conns, Open(c) PROVE WsInv'
  <1>. DEFINE j == [conn[c] EXCEPT !.life = "live", !.open = TRUE]
  <1>1. conn[c] = NoObject /\ conn[c] \in Objects
    BY DEF WsInv, WsTypeOK, ObjectOK, Open
  <1>2. /\ j \in Objects /\ j.life = "live" /\ j.open /\ ~j.closing /\ ~j.doomed
        /\ j.sending = <<>> /\ j.queued = <<>> /\ j.posted = <<>>
    <2>1. j = [NoObject EXCEPT !.life = "live", !.open = TRUE]
      BY <1>1
    <2>2. <<>> \in Seq(Frames)
      OBVIOUS
    <2>3. QED
      BY <2>1, <2>2 DEF Objects, NoObject
  <1>3. conn' = [conn EXCEPT ![c] = DoRead(Send(j, Hello))]
    BY DEF Open
  <1>. HIDE DEF j
  <1>4. PICK s \in Seq(Frames), q \in Seq(Frames) :
               Send(j, Hello) = [j EXCEPT !.sending = s, !.queued = q] /\ s # <<>>
    BY <1>2, FramesFacts, SendFacts
  <1>. DEFINE k == DoRead(Send(j, Hello))
  <1>5. /\ k = [j EXCEPT !.sending = s, !.queued = q, !.reading = TRUE]
        /\ k \in Objects
        /\ k.life = "live" /\ k.reading /\ k.open /\ ~k.closing /\ ~k.doomed
    BY <1>2, <1>4 DEF DoRead, Objects
  <1>. HIDE DEF k
  <1>6. conn' = [conn EXCEPT ![c] = k] /\ conn'[c] = k
    BY <1>3 DEF k, WsInv, WsTypeOK
  <1>7. ObjectOK(c)'
    BY <1>5, <1>6 DEF ObjectOK, Open
  <1>8. QED
    BY <1>5, <1>6, <1>7, OneObject DEF Open, WsInv, WsTypeOK

LEMMA BroadcastInv == ASSUME WsInv, Broadcast PROVE WsInv'
  <1>1. /\ WsTypeOK /\ casts' = casts + 1 /\ casts + 1 \in Frames
        /\ UNCHANGED <<clients, broken, got>>
    BY FramesFacts DEF WsInv, WsTypeOK, Broadcast
  <1>2. ASSUME NEW c \in Conns PROVE conn'[c] \in Objects /\ ObjectOK(c)'
    <2>1. conn[c] \in Objects /\ ObjectOK(c)
      BY DEF WsInv, WsTypeOK
    <2>2. CASE c \in clients
      <3>1. Append(conn[c].posted, casts + 1) \in Seq(Frames)
        BY <1>1, <2>1, AppendProperties DEF Objects
      <3>2. conn'[c] = [conn[c] EXCEPT !.posted = Append(@, casts + 1)]
        BY <2>2 DEF Broadcast
      <3>3. conn[c].life = "live"
        BY <2>1, <2>2 DEF ObjectOK
      <3>4. QED
        BY <1>1, <2>1, <3>1, <3>2, <3>3 DEF ObjectOK, Objects
    <2>3. CASE c \notin clients
      BY <1>1, <2>1, <2>3 DEF Broadcast, ObjectOK
    <2>4. QED
      BY <2>2, <2>3
  <1>3. conn' \in [Conns -> Objects]
    BY <1>2 DEF Broadcast
  <1>4. QED
    BY <1>1, <1>2, <1>3 DEF WsInv, WsTypeOK

LEMMA RunPostedInv == ASSUME WsInv, NEW c \in Conns, RunPosted(c) PROVE WsInv'
  <1>. DEFINE f == Head(conn[c].posted)
              j == [conn[c] EXCEPT !.posted = Tail(@)]
  <1>1. conn[c] \in Objects /\ ObjectOK(c)
    BY DEF WsInv, WsTypeOK
  <1>2. f \in Frames /\ Tail(conn[c].posted) \in Seq(Frames)
    BY <1>1, HeadTailProperties DEF Objects, RunPosted
  <1>3. /\ j \in Objects /\ j.life = conn[c].life /\ j.reading = conn[c].reading
        /\ j.open = conn[c].open /\ j.closing = conn[c].closing /\ j.doomed = conn[c].doomed
        /\ j.sending = conn[c].sending
    BY <1>1, <1>2 DEF Objects
  <1>4. conn' = [conn EXCEPT ![c] = IF j.life = "live" THEN Send(j, f) ELSE j]
    BY DEF RunPosted
  <1>5. conn[c].life # "none"
    BY <1>1 DEF ObjectOK, NoObject, RunPosted
  <1>. HIDE DEF j, f
  <1>6. CASE j.life = "live"
    <2>1. PICK s \in Seq(Frames), q \in Seq(Frames) :
                 
                 /\ Send(j, f) = [j EXCEPT !.sending = s, !.queued = q]
                 /\ s # <<>>
                 /\ s \o q = j.sending \o Append(j.queued, f)
      BY <1>2, <1>3, SendFacts, Zenon
    <2>. DEFINE k == Send(j, f)
    <2>2. /\ k \in Objects /\ k.life = "live" /\ k.reading = j.reading /\ k.open = j.open
          /\ k.closing = j.closing /\ k.doomed = j.doomed /\ k.sending # <<>>
      BY <1>3, <1>6, <2>1 DEF Objects
    <2>3. conn' = [conn EXCEPT ![c] = k]
      BY <1>4, <1>6
    <2>. HIDE DEF k
    <2>4. conn'[c] = k
      BY <2>3 DEF WsInv, WsTypeOK
    <2>5. ObjectOK(c)'
      BY <1>1, <1>3, <1>6, <2>2, <2>4 DEF ObjectOK, RunPosted
    <2>6. QED
      BY <2>2, <2>3, <2>5, OneObject DEF RunPosted, WsInv, WsTypeOK
  <1>7. CASE j.life # "live"
    <2>1. conn' = [conn EXCEPT ![c] = j]
      BY <1>4, <1>7
    <2>2. conn'[c] = j
      BY <2>1 DEF WsInv, WsTypeOK
    <2>3. ObjectOK(c)'
      BY <1>1, <1>3, <1>5, <1>7, <2>2 DEF ObjectOK, RunPosted
    <2>4. QED
      BY <1>3, <2>1, <2>3, OneObject DEF RunPosted, WsInv, WsTypeOK
  <1>8. QED
    BY <1>6, <1>7

LEMMA ReadCloseInv ==
    ASSUME WsInv, NEW c \in Conns, ReadClose(c)
    PROVE  WsInv' /\ c \notin clients'
  <1>. DEFINE j == [conn[c] EXCEPT !.reading = FALSE, !.closing = TRUE]
  <1>1. conn[c] \in Objects /\ ObjectOK(c) /\ conn[c].life = "live"
    BY DEF WsInv, WsTypeOK, ObjectOK, ReadClose
  <1>2. /\ j \in Objects /\ j.life = "live" /\ ~j.reading /\ j.closing
    BY <1>1 DEF Objects
  <1>3. conn' = [conn EXCEPT ![c] = DoRead(Send(j, CloseFrame))]
    BY DEF ReadClose
  <1>. HIDE DEF j
  <1>4. PICK s \in Seq(Frames), q \in Seq(Frames) :
                 /\ Send(j, CloseFrame) = [j EXCEPT !.sending = s, !.queued = q]
                 /\ s # <<>>
                 /\ s \o q = j.sending \o Append(j.queued, CloseFrame)
    BY <1>2, FramesFacts, SendFacts, Zenon
  <1>. DEFINE k == DoRead(Send(j, CloseFrame))
  <1>5. /\ k = [j EXCEPT !.sending = s, !.queued = q, !.doomed = TRUE, !.open = FALSE]
        /\ k \in Objects /\ k.life = "live" /\ ~k.reading /\ k.closing /\ k.doomed
        /\ k.sending # <<>>
    BY <1>2, <1>4 DEF DoRead, CloseSocket, CheckDestroy, Objects
  <1>. HIDE DEF k
  <1>6. conn' = [conn EXCEPT ![c] = k] /\ conn'[c] = k
    BY <1>3 DEF k, WsInv, WsTypeOK
  <1>7. ObjectOK(c)'
    BY <1>5, <1>6 DEF ObjectOK, ReadClose
  <1>8. QED
    BY <1>5, <1>6, <1>7, OneObject DEF ReadClose, WsInv, WsTypeOK

\* After check_destroy() the object is off the list, and deleted unless a
\* read or a write is under way.
LEMMA DestroyInv ==
    ASSUME WsInv, NEW c \in Conns, NEW j \in Objects,
           j.life = "live", j.doomed, j.reading => j.open /\ ~j.closing,
           j.closing = conn[c].closing, conn[c].life = "live",
           conn' = [conn EXCEPT ![c] = CheckDestroy(j)], Unlist(c),
           UNCHANGED <<broken, casts, got>>
    PROVE  WsInv' /\ c \notin clients'
  <1>1. conn[c] \in Objects /\ ObjectOK(c)
    BY DEF WsInv, WsTypeOK
  <1>2. c \notin clients'
    BY <1>1 DEF Unlist, ObjectOK
  <1>. DEFINE k == CheckDestroy(j)
  <1>3. /\ k \in Objects /\ k.life \in {"live", "freed"} /\ k.doomed
        /\ k.reading = j.reading /\ k.open = j.open /\ k.closing = j.closing
        /\ k.life = "live" => k.reading \/ k.sending # <<>>
        /\ k.life = "freed" => ~k.reading /\ k.sending = <<>>
    BY DEF CheckDestroy, Objects
  <1>. HIDE DEF k
  <1>4. conn' = [conn EXCEPT ![c] = k] /\ conn'[c] = k
    BY DEF k, WsInv, WsTypeOK
  <1>5. k.reading => k.life = "live"
    BY <1>3
  <1>6. ObjectOK(c)'
    BY <1>2, <1>3, <1>4, <1>5 DEF ObjectOK
  <1>7. QED
    BY <1>2, <1>3, <1>4, <1>6, OneObject DEF Unlist, WsInv, WsTypeOK

LEMMA ReadFailsInv ==
    ASSUME WsInv, NEW c \in Conns, ReadFails(c)
    PROVE  WsInv' /\ c \notin clients'
  <1>1. conn[c] \in Objects /\ ObjectOK(c) /\ conn[c].life = "live"
    BY DEF WsInv, WsTypeOK, ObjectOK, ReadFails
  <1>. DEFINE j == CloseSocket([conn[c] EXCEPT !.reading = FALSE])
  <1>2. /\ j \in Objects /\ j.life = "live" /\ j.doomed /\ ~j.reading
        /\ j.closing = conn[c].closing
    BY <1>1 DEF CloseSocket, Objects
  <1>3. /\ conn' = [conn EXCEPT ![c] = CheckDestroy(j)] /\ Unlist(c)
        /\ UNCHANGED <<broken, casts, got>>
    BY DEF ReadFails
  <1>. HIDE DEF j
  <1>4. QED
    BY <1>1, <1>2, <1>3, DestroyInv

LEMMA WriteEndsInv ==
    ASSUME WsInv, NEW c \in Conns, WriteEnds(c)
    PROVE  WsInv' /\ c \notin clients'
  <1>1. conn[c] \in Objects /\ ObjectOK(c) /\ conn[c].life = "live"
    BY DEF WsInv, WsTypeOK, ObjectOK, WriteEnds, NoObject, Objects
  <1>. DEFINE j == [conn[c] EXCEPT !.sending = <<>>, !.doomed = TRUE]
  <1>2. <<>> \in Seq(Frames)
    OBVIOUS
  <1>3. /\ j \in Objects /\ j.life = "live" /\ j.doomed /\ j.reading = conn[c].reading
        /\ j.open = conn[c].open /\ j.closing = conn[c].closing
    BY <1>1, <1>2 DEF Objects
  <1>4. j.reading => j.open /\ ~j.closing
    BY <1>1, <1>3 DEF ObjectOK
  <1>5. /\ conn' = [conn EXCEPT ![c] = CheckDestroy(j)] /\ Unlist(c)
        /\ UNCHANGED <<broken, casts, got>>
    BY DEF WriteEnds
  <1>. HIDE DEF j
  <1>6. QED
    BY <1>1, <1>3, <1>4, <1>5, DestroyInv

\* A write that ended well was made for a listed client, and what was queued
\* is sent next.
LEMMA WriteDoneFacts ==
    ASSUME WsInv, NEW c \in Conns, WriteDone(c)
    PROVE  /\ c \in clients /\ ~conn[c].closing
           /\ conn' = [conn EXCEPT ![c] = [@ EXCEPT !.sending = conn[c].queued, !.queued = <<>>]]
  <1>1. conn[c] \in Objects /\ ObjectOK(c)
    BY DEF WsInv, WsTypeOK
  <1>2. c \in clients /\ ~conn[c].closing
    BY <1>1 DEF ObjectOK, WriteDone, NoObject, Objects
  <1>. DEFINE k == DoWrite([conn[c] EXCEPT !.sending = <<>>])
  <1>3. k = [conn[c] EXCEPT !.sending = conn[c].queued, !.queued = <<>>]
    BY <1>1 DEF DoWrite, Objects
  <1>4. ~k.doomed /\ ~k.closing /\ k.doomed \in BOOLEAN
    BY <1>1, <1>2, <1>3 DEF WriteDone, Objects
  <1>5. [k EXCEPT !.doomed = k.doomed \/ k.closing] = k
    BY <1>1, <1>3, <1>4 DEF Objects
  <1>6. QED
    BY <1>2, <1>3, <1>5 DEF WriteDone

LEMMA WriteDoneInv == ASSUME WsInv, NEW c \in Conns, WriteDone(c) PROVE WsInv'
  <1>1. conn[c] \in Objects /\ ObjectOK(c)
    BY DEF WsInv, WsTypeOK
  <1>2. c \in clients /\ ~conn[c].closing
    BY WriteDoneFacts
  <1>. DEFINE k == [conn[c] EXCEPT !.sending = conn[c].queued, !.queued = <<>>]
  <1>3. conn' = [conn EXCEPT ![c] = k]
    BY WriteDoneFacts
  <1>4. <<>> \in Seq(Frames)
    OBVIOUS
  <1>5. /\ k \in Objects /\ k.life = "live" /\ k.reading /\ k.open /\ ~k.closing /\ ~k.doomed
    BY <1>1, <1>2, <1>4 DEF Objects, ObjectOK
  <1>. HIDE DEF k
  <1>6. conn'[c] = k
    BY <1>3 DEF WsInv, WsTypeOK
  <1>7. ObjectOK(c)'
    BY <1>2, <1>5, <1>6 DEF ObjectOK, WriteDone
  <1>8. got[c] \o conn[c].sending \in Seq(Frames)
    BY <1>1, ConcatProperties DEF WsInv, WsTypeOK, Objects
  <1>9. got' \in [Conns -> Seq(Frames)] /\ \A d \in Conns \ {c} : got'[d] = got[d]
    BY <1>8 DEF WriteDone, WsInv, WsTypeOK
  <1>10. QED
    BY <1>3, <1>5, <1>7, <1>9, OneObject DEF WriteDone, WsInv, WsTypeOK

LEMMA BreakInv == ASSUME WsInv, NEW c \in Conns, Break(c) PROVE WsInv'
  BY DEF WsInv, WsTypeOK, ObjectOK, Break

LEMMA WsStepInv == WsInv /\ [WsNext]_wsVars => WsInv'
  <1>. SUFFICES ASSUME WsInv, [WsNext]_wsVars PROVE WsInv'
    OBVIOUS
  <1>1. CASE Broadcast
    BY <1>1, BroadcastInv
  <1>2. ASSUME NEW c \in Conns, Open(c) PROVE WsInv'
    BY <1>2, OpenInv
  <1>3. ASSUME NEW c \in Conns, ReadClose(c) PROVE WsInv'
    BY <1>3, ReadCloseInv
  <1>4. ASSUME NEW c \in Conns, Break(c) PROVE WsInv'
    BY <1>4, BreakInv
  <1>5. ASSUME NEW c \in Conns, RunPosted(c) PROVE WsInv'
    BY <1>5, RunPostedInv
  <1>6. ASSUME NEW c \in Conns, ReadFails(c) PROVE WsInv'
    BY <1>6, ReadFailsInv
  <1>7. ASSUME NEW c \in Conns, WriteDone(c) PROVE WsInv'
    BY <1>7, WriteDoneInv
  <1>8. ASSUME NEW c \in Conns, WriteEnds(c) PROVE WsInv'
    BY <1>8, WriteEndsInv
  <1>9. CASE UNCHANGED wsVars
    BY <1>9 DEF wsVars, WsInv, WsTypeOK, ObjectOK
  <1>10. QED
    BY <1>1, <1>2, <1>3, <1>4, <1>5, <1>6, <1>7, <1>8, <1>9 DEF WsNext, Callback

\* The invariant in words the broadcast loop and the callbacks need.
LEMMA WsInvImplies == WsInv => ListedIsLive /\ FreedIsQuiet /\ LiveHasCallback
  <1>. SUFFICES ASSUME WsInv PROVE ListedIsLive /\ FreedIsQuiet /\ LiveHasCallback
    OBVIOUS
  <1>1. clients \subseteq Conns /\ \A c \in Conns : ObjectOK(c)
    BY DEF WsInv, WsTypeOK
  <1>2. ListedIsLive
    BY <1>1 DEF ListedIsLive, ObjectOK
  <1>3. FreedIsQuiet
    <2>1. ASSUME NEW c \in Conns, conn[c].life = "freed"
          PROVE  ~conn[c].reading /\ conn[c].sending = <<>>
      BY <1>1, <2>1 DEF ObjectOK
    <2>2. QED
      BY <2>1 DEF FreedIsQuiet
  <1>4. LiveHasCallback
    <2>1. ASSUME NEW c \in Conns, conn[c].life = "live"
          PROVE  conn[c].reading \/ conn[c].sending # <<>>
      BY <1>1, <2>1 DEF ObjectOK
    <2>2. QED
      BY <2>1 DEF LiveHasCallback
  <1>5. QED
    BY <1>2, <1>3, <1>4

THEOREM WsInvariance == WsSpec => []WsInv
  BY WsInitInv, WsStepInv, PTL DEF WsSpec

-----------------------------------------------------------------------------
(* The channel *)

\* What is owed after a step of one connection is owed to the others as before.
LEMMA DueOfOne ==
    ASSUME conn \in [Conns -> Objects], NEW c \in Conns, NEW k,
           conn' = [conn EXCEPT ![c] = k],
           \A d \in Conns \ {c} : d \in clients' <=> d \in clients
    PROVE  Due' = [Due EXCEPT ![c] = IF c \in clients' THEN k.sending \o k.queued \o k.posted
                                                       ELSE <<>>]
  BY DEF Due

\* Four sequences joined in two ways.
LEMMA Regroup ==
    ASSUME NEW S, NEW s \in Seq(S), NEW q \in Seq(S), NEW h \in Seq(S), NEW t \in Seq(S)
    PROVE  (s \o (q \o h)) \o t = (s \o q) \o (h \o t)
  <1>. DEFINE r == s \o q
  <1>1. r \in Seq(S)
    BY ConcatProperties
  <1>2. s \o (q \o h) = r \o h
    BY ConcatAssociative
  <1>. HIDE DEF r
  <1>3. (r \o h) \o t = r \o (h \o t)
    BY <1>1, ConcatAssociative
  <1>4. (s \o (q \o h)) \o t = r \o (h \o t)
    BY <1>2, <1>3
  <1>5. QED
    BY <1>4 DEF r

\* An appended element moves from the head of what follows.
LEMMA MoveHead ==
    ASSUME NEW S, NEW s \in Seq(S), NEW q \in Seq(S), NEW p \in Seq(S), p # <<>>
    PROVE  (s \o Append(q, Head(p))) \o Tail(p) = (s \o q) \o p
  <1>1. /\ Head(p) \in S /\ Tail(p) \in Seq(S) /\ <<Head(p)>> \in Seq(S)
        /\ <<Head(p)>> \o Tail(p) = p
        /\ Append(q, Head(p)) = q \o <<Head(p)>>
    BY HeadTailProperties
  <1>2. (s \o (q \o <<Head(p)>>)) \o Tail(p) = (s \o q) \o (<<Head(p)>> \o Tail(p))
    BY <1>1, Regroup
  <1>3. QED
    BY <1>1, <1>2

\* The first part of a sequence, and the rest.
LEMMA SplitFirst ==
    ASSUME NEW S, NEW s \in Seq(S), NEW t \in Seq(S), s # <<>>
    PROVE  /\ Len(s) \in 1 .. Len(s \o t)
           /\ SubSeq(s \o t, 1, Len(s)) = s
           /\ SubSeq(s \o t, Len(s) + 1, Len(s \o t)) = t
  <1>1. Len(s) \in Nat \ {0} /\ Len(t) \in Nat /\ Len(s \o t) = Len(s) + Len(t)
    BY EmptySeq, LenProperties, ConcatProperties
  <1>2. SubSeq(s \o t, 1, Len(s)) = s
    BY <1>1, SubSeqOfConcat1, SubSeqFull
  <1>3. CASE t = <<>>
    BY <1>1, <1>3, SubSeqEmpty
  <1>4. CASE t # <<>>
    <2>1. Len(t) \in Nat \ {0}
      BY <1>4, EmptySeq
    <2>2. SubSeq(s \o t, Len(s) + 1, Len(s) + Len(t))
            = SubSeq(t, (Len(s) + 1) - Len(s), (Len(s) + Len(t)) - Len(s))
      BY <1>1, <2>1, SubSeqOfConcat2
    <2>3. (Len(s) + 1) - Len(s) = 1 /\ (Len(s) + Len(t)) - Len(s) = Len(t)
      BY <1>1
    <2>4. QED
      BY <1>1, <1>2, <2>2, <2>3, SubSeqFull
  <1>5. QED
    BY <1>1, <1>2, <1>3, <1>4

LEMMA OpenJoins == ASSUME WsInv, NEW c \in Conns, Open(c) PROVE Chan!Join(c)
  <1>. DEFINE j == [conn[c] EXCEPT !.life = "live", !.open = TRUE]
  <1>1. conn[c] = NoObject /\ got[c] = <<>> /\ c \notin clients /\ WsTypeOK
    BY DEF WsInv, WsTypeOK, ObjectOK, Open
  <1>2. /\ j \in Objects /\ ~j.closing
        /\ j.sending = <<>> /\ j.queued = <<>> /\ j.posted = <<>>
    <2>1. j = [NoObject EXCEPT !.life = "live", !.open = TRUE] /\ <<>> \in Seq(Frames)
      BY <1>1
    <2>2. QED
      BY <2>1 DEF Objects, NoObject
  <1>3. conn' = [conn EXCEPT ![c] = DoRead(Send(j, Hello))]
    BY DEF Open
  <1>. HIDE DEF j
  <1>4. PICK s \in Seq(Frames), q \in Seq(Frames) :
               /\ Send(j, Hello) = [j EXCEPT !.sending = s, !.queued = q]
               /\ s # <<>>
               /\ s \o q = j.sending \o Append(j.queued, Hello)
    BY <1>2, FramesFacts, SendFacts, Zenon
  <1>. DEFINE k == DoRead(Send(j, Hello))
  <1>5. k.sending = s /\ k.queued = q /\ k.posted = <<>>
    BY <1>2, <1>4 DEF DoRead, Objects
  <1>6. conn' = [conn EXCEPT ![c] = k]
    BY <1>3
  <1>. HIDE DEF k
  <1>7. (k.sending \o k.queued) \o k.posted = <<Hello>>
    <2>1. Append(<<>>, Hello) = <<Hello>>
      OBVIOUS
    <2>2. <<Hello>> \in Seq(Frames)
      BY FramesFacts
    <2>3. s \o q = <<Hello>>
      BY <1>2, <1>4, <2>1, <2>2, ConcatEmptySeq
    <2>4. QED
      BY <1>5, <2>2, <2>3, ConcatEmptySeq
  <1>8. clients' = clients \cup {c} /\ UNCHANGED <<casts, got>>
    BY DEF Open
  <1>9. Due' = [Due EXCEPT ![c] = <<Hello>>]
    BY <1>1, <1>6, <1>7, <1>8, DueOfOne DEF WsTypeOK
  <1>10. QED
    BY <1>1, <1>8, <1>9 DEF Chan!Join, Chan!Hello, Hello

LEMMA BroadcastPublishes == ASSUME WsInv, Broadcast PROVE Chan!Publish
  <1>1. /\ WsTypeOK /\ casts + 1 \in Frames /\ UNCHANGED <<clients, got>>
        /\ casts < MaxCasts /\ casts' = casts + 1
    BY FramesFacts DEF WsInv, WsTypeOK, Broadcast
  <1>2. ASSUME NEW c \in Conns
        PROVE  Due'[c] = IF c \in clients THEN Append(Due[c], casts + 1) ELSE Due[c]
    <2>1. conn[c] \in Objects
      BY <1>1 DEF WsTypeOK
    <2>2. CASE c \in clients
      <3>. DEFINE s == conn[c].sending \o conn[c].queued
                  p == conn[c].posted
      <3>1. s \in Seq(Frames) /\ p \in Seq(Frames)
        BY <2>1, ConcatProperties DEF Objects
      <3>2. conn'[c] = [conn[c] EXCEPT !.posted = Append(@, casts + 1)]
        BY <2>2 DEF Broadcast
      <3>3. Due'[c] = s \o Append(p, casts + 1)
        BY <1>1, <2>1, <2>2, <3>2 DEF Due, Objects
      <3>4. Due[c] = s \o p
        BY <2>2 DEF Due
      <3>. HIDE DEF s, p
      <3>5. s \o Append(p, casts + 1) = Append(s \o p, casts + 1)
        <4>. DEFINE a == <<casts + 1>>
        <4>1. a \in Seq(Frames) /\ Append(p, casts + 1) = p \o a
          BY <1>1, <3>1
        <4>2. s \o p \in Seq(Frames)
          BY <3>1, ConcatProperties
        <4>3. Append(s \o p, casts + 1) = (s \o p) \o a
          BY <1>1, <4>2
        <4>. HIDE DEF a
        <4>4. QED
          BY <3>1, <4>1, <4>3, ConcatAssociative
      <3>6. QED
        BY <2>2, <3>3, <3>4, <3>5
    <2>3. CASE c \notin clients
      BY <1>1, <2>3 DEF Due
    <2>4. QED
      BY <2>2, <2>3
  <1>3. Due' = [c \in Conns |-> IF c \in clients THEN Append(Due[c], casts + 1) ELSE Due[c]]
    BY <1>2 DEF Due
  <1>4. QED
    BY <1>1, <1>3 DEF Chan!Publish

\* To run what was posted moves a frame nearer to the socket.
LEMMA RunPostedMoves == ASSUME WsInv, NEW c \in Conns, RunPosted(c) PROVE UNCHANGED Chan!vars
  <1>. DEFINE f == Head(conn[c].posted)
              j == [conn[c] EXCEPT !.posted = Tail(@)]
  <1>1. /\ WsTypeOK /\ conn[c] \in Objects /\ ObjectOK(c)
        /\ UNCHANGED <<clients, casts, got>>
    BY DEF WsInv, WsTypeOK, RunPosted
  <1>2. f \in Frames /\ Tail(conn[c].posted) \in Seq(Frames) /\ conn[c].posted # <<>>
    BY <1>1, HeadTailProperties DEF Objects, RunPosted
  <1>3. /\ j \in Objects /\ j.life = conn[c].life /\ j.sending = conn[c].sending
        /\ j.queued = conn[c].queued /\ j.posted = Tail(conn[c].posted)
    BY <1>1, <1>2 DEF Objects
  <1>4. conn' = [conn EXCEPT ![c] = IF j.life = "live" THEN Send(j, f) ELSE j]
    BY DEF RunPosted
  <1>. HIDE DEF j
  <1>5. CASE c \in clients
    <2>1. j.life = "live"
      BY <1>1, <1>3, <1>5 DEF ObjectOK
    <2>. HIDE DEF f
    <2>2. PICK s \in Seq(Frames), q \in Seq(Frames) :
                 /\ Send(j, f) = [j EXCEPT !.sending = s, !.queued = q]
                 /\ s # <<>>
                 /\ s \o q = j.sending \o Append(j.queued, f)
      BY <1>2, <1>3, SendFacts, Zenon
    <2>. DEFINE k == Send(j, f)
    <2>3. k.sending = s /\ k.queued = q /\ k.posted = Tail(conn[c].posted)
      BY <1>3, <2>2 DEF Objects
    <2>4. conn' = [conn EXCEPT ![c] = k]
      BY <1>4, <2>1
    <2>. HIDE DEF k
    <2>5. (k.sending \o k.queued) \o k.posted = Due[c]
      <3>1. /\ conn[c].sending \in Seq(Frames) /\ conn[c].queued \in Seq(Frames)
            /\ conn[c].posted \in Seq(Frames)
        BY <1>1 DEF Objects
      <3>2. (k.sending \o k.queued) \o k.posted
              = (conn[c].sending \o Append(conn[c].queued, f)) \o Tail(conn[c].posted)
        BY <1>3, <2>2, <2>3
      <3>3. (conn[c].sending \o Append(conn[c].queued, f)) \o Tail(conn[c].posted)
              = (conn[c].sending \o conn[c].queued) \o conn[c].posted
        <4>. DEFINE s0 == conn[c].sending
                    q0 == conn[c].queued
                    p0 == conn[c].posted
        <4>1. s0 \in Seq(Frames) /\ q0 \in Seq(Frames) /\ p0 \in Seq(Frames) /\ p0 # <<>>
          BY <1>2, <3>1
        <4>2. f = Head(p0)
          BY DEF f
        <4>. HIDE DEF s0, q0, p0
        <4>3. (s0 \o Append(q0, Head(p0))) \o Tail(p0) = (s0 \o q0) \o p0
          <5>. DEFINE P(s1, q1, p1) ==
                 (s1 \o Append(q1, Head(p1))) \o Tail(p1) = (s1 \o q1) \o p1
          <5>1. \A S : \A s1, q1, p1 \in Seq(S) : p1 # <<>> => P(s1, q1, p1)
            BY MoveHead
          <5>. HIDE DEF P
          <5>2. P(s0, q0, p0)
            BY <4>1, <5>1, Zenon
          <5>3. QED
            BY <5>2 DEF P
        <4>4. QED
          BY <4>2, <4>3 DEF s0, q0, p0
      <3>4. QED
        BY <1>5, <3>2, <3>3 DEF Due
    <2>6. Due' = [Due EXCEPT ![c] = Due[c]]
      BY <1>1, <1>5, <2>4, <2>5, DueOfOne DEF WsTypeOK
    <2>7. Due' = Due
      BY <2>6 DEF Due
    <2>8. QED
      BY <1>1, <2>7 DEF Chan!vars
  <1>6. CASE c \notin clients
    <2>. DEFINE k == IF j.life = "live" THEN Send(j, f) ELSE j
    <2>1. conn' = [conn EXCEPT ![c] = k]
      BY <1>4
    <2>. HIDE DEF k
    <2>2. Due' = [Due EXCEPT ![c] = <<>>]
      BY <1>1, <1>6, <2>1, DueOfOne DEF WsTypeOK
    <2>3. Due' = Due
      BY <1>6, <2>2 DEF Due
    <2>4. QED
      BY <1>1, <2>3 DEF Chan!vars
  <1>7. QED
    BY <1>5, <1>6

\* To go off the list is to leave.
LEMMA OffListLeaves ==
    ASSUME WsInv, NEW c \in Conns, NEW k, conn' = [conn EXCEPT ![c] = k],
           c \notin clients', clients' \in {clients, clients \ {c}},
           UNCHANGED <<casts, got>>
    PROVE  Chan!Leave(c) \/ UNCHANGED Chan!vars
  <1>1. WsTypeOK
    BY DEF WsInv
  <1>2. Due' = [Due EXCEPT ![c] = <<>>]
    BY <1>1, DueOfOne DEF WsTypeOK
  <1>3. CASE c \in clients
    BY <1>2, <1>3 DEF Chan!Leave
  <1>4. CASE c \notin clients
    <2>1. Due' = Due
      BY <1>2, <1>4 DEF Due
    <2>2. clients' = clients
      BY <1>4
    <2>3. QED
      BY <2>1, <2>2 DEF Chan!vars
  <1>5. QED
    BY <1>3, <1>4

\* A write that ended is heard.
LEMMA WriteDoneHears ==
    ASSUME WsInv, NEW c \in Conns, WriteDone(c)
    PROVE  \E n \in 1 .. Len(Due[c]) : Chan!Hear(c, n)
  <1>1. /\ WsTypeOK /\ conn[c] \in Objects /\ c \in clients
        /\ clients' = clients /\ casts' = casts
        /\ got' = [got EXCEPT ![c] = @ \o conn[c].sending]
        /\ conn[c].sending # <<>>
    BY WriteDoneFacts DEF WsInv, WsTypeOK, WriteDone
  <1>. DEFINE s == conn[c].sending
              q == conn[c].queued
              p == conn[c].posted
              k == [conn[c] EXCEPT !.sending = conn[c].queued, !.queued = <<>>]
  <1>2. s \in Seq(Frames) /\ q \in Seq(Frames) /\ p \in Seq(Frames) /\ s # <<>>
    BY <1>1 DEF Objects
  <1>3. k.sending = q /\ k.queued = <<>> /\ k.posted = p
    BY <1>1 DEF Objects
  <1>4. conn' = [conn EXCEPT ![c] = k]
    BY WriteDoneFacts
  <1>5. Due[c] = (s \o q) \o p
    BY <1>1 DEF Due
  <1>6. got' = [got EXCEPT ![c] = @ \o s]
    BY <1>1
  <1>. HIDE DEF s, q, p, k
  <1>7. q \o p \in Seq(Frames) /\ Due[c] = s \o (q \o p)
    BY <1>2, <1>5, ConcatProperties, ConcatAssociative
  <1>8. (k.sending \o k.queued) \o k.posted = q \o p
    BY <1>2, <1>3, ConcatEmptySeq
  <1>9. Due' = [Due EXCEPT ![c] = q \o p]
    BY <1>1, <1>4, <1>8, DueOfOne DEF WsTypeOK
  <1>10. /\ Len(s) \in 1 .. Len(Due[c])
         /\ SubSeq(Due[c], 1, Len(s)) = s
         /\ SubSeq(Due[c], Len(s) + 1, Len(Due[c])) = q \o p
    <2>. DEFINE t == q \o p
    <2>1. t \in Seq(Frames) /\ Due[c] = s \o t
      BY <1>7
    <2>. HIDE DEF t
    <2>2. /\ Len(s) \in 1 .. Len(s \o t)
          /\ SubSeq(s \o t, 1, Len(s)) = s
          /\ SubSeq(s \o t, Len(s) + 1, Len(s \o t)) = t
      BY <1>2, <2>1, SplitFirst
    <2>3. QED
      BY <2>1, <2>2 DEF t
  <1>11. Chan!Hear(c, Len(s))
    BY <1>1, <1>6, <1>9, <1>10 DEF Chan!Hear
  <1>12. QED
    BY <1>10, <1>11

LEMMA WsStepImplements == WsInv /\ WsInv' /\ [WsNext]_wsVars => [Chan!Next]_Chan!vars
  <1>. SUFFICES ASSUME WsInv, [WsNext]_wsVars PROVE [Chan!Next]_Chan!vars
    OBVIOUS
  <1>1. CASE Broadcast
    BY <1>1, BroadcastPublishes DEF Chan!Next
  <1>2. ASSUME NEW c \in Conns, Open(c) PROVE [Chan!Next]_Chan!vars
    BY <1>2, OpenJoins DEF Chan!Next
  <1>3. ASSUME NEW c \in Conns, ReadClose(c) PROVE [Chan!Next]_Chan!vars
    <2>1. c \notin clients'
      BY <1>3, ReadCloseInv
    <2>2. Chan!Leave(c) \/ UNCHANGED Chan!vars
      BY <1>3, <2>1, OffListLeaves DEF ReadClose
    <2>3. QED
      BY <2>2 DEF Chan!Next
  <1>4. ASSUME NEW c \in Conns, Break(c) PROVE [Chan!Next]_Chan!vars
    BY <1>4 DEF Break, Due, Chan!vars
  <1>5. ASSUME NEW c \in Conns, RunPosted(c) PROVE [Chan!Next]_Chan!vars
    BY <1>5, RunPostedMoves
  <1>6. ASSUME NEW c \in Conns, ReadFails(c) PROVE [Chan!Next]_Chan!vars
    <2>1. c \notin clients'
      BY <1>6, ReadFailsInv
    <2>2. Chan!Leave(c) \/ UNCHANGED Chan!vars
      BY <1>6, <2>1, OffListLeaves DEF ReadFails, Unlist
    <2>3. QED
      BY <2>2 DEF Chan!Next
  <1>7. ASSUME NEW c \in Conns, WriteDone(c) PROVE [Chan!Next]_Chan!vars
    BY <1>7, WriteDoneHears DEF Chan!Next
  <1>8. ASSUME NEW c \in Conns, WriteEnds(c) PROVE [Chan!Next]_Chan!vars
    <2>1. c \notin clients'
      BY <1>8, WriteEndsInv
    <2>2. Chan!Leave(c) \/ UNCHANGED Chan!vars
      BY <1>8, <2>1, OffListLeaves DEF WriteEnds, Unlist
    <2>3. QED
      BY <2>2 DEF Chan!Next
  <1>9. CASE UNCHANGED wsVars
    BY <1>9 DEF wsVars, Due, Chan!vars
  <1>10. QED
    BY <1>1, <1>2, <1>3, <1>4, <1>5, <1>6, <1>7, <1>8, <1>9 DEF WsNext, Callback

LEMMA WsInitImplements == WsInit => Chan!Init
  BY DEF WsInit, Chan!Init, Due

\* Every behaviour of the connections is one of the channel.
THEOREM WsImplementsChannel == WsSpec => ImplementsChannel
  BY WsInitImplements, WsInvariance, WsStepImplements, PTL
     DEF WsSpec, ImplementsChannel, Chan!Spec
=============================================================================
