----------------------------- MODULE CrowServer -----------------------------
(***************************************************************************)
(* A server process of BidNet below its handlers: Crow accepts TCP         *)
(* connections (http_server.h), reads requests and writes answers          *)
(* (http_connection.h), closes connections on which none comes             *)
(* (task_timer.h), and turns some into WebSockets (WsConnection).          *)
(*                                                                         *)
(* All callbacks run on one worker thread, in any order in which they get  *)
(* ready.  Answers are written synchronously: meanwhile nothing else runs, *)
(* which `worker' records.  A task's identifier is the highest issued so   *)
(* far plus one; all deadlines are equally long, so those that have passed *)
(* at a tick are those with the lowest identifiers.                        *)
(*                                                                         *)
(* Simplifications: what a request asks for is left out, but that it may   *)
(* end in a broadcast; a request is complete in one read or is begun by    *)
(* reads that do not complete it.                                          *)
(***************************************************************************)
EXTENDS WsConnection

CONSTANTS
    NoConn,  \* no connection
    MaxId    \* bound: task identifiers

ASSUME NoConnAssumption == NoConn \notin Conns /\ MaxId \in Nat

VARIABLES
    http,     \* http[c]: what the HTTP object of c is doing
    taskId,   \* taskId[c]: its task_id_, of the deadline it last set
    tasks,    \* the tasks of the worker's task_timer
    highest,  \* highest_id_ of the task_timer
    worker    \* the connection whose answer the worker is writing

httpVars == <<http, taskId, tasks, highest, worker>>
vars == <<wsVars, httpVars>>

\* "accepted": start() is posted; "shut": the deadline closed the socket and
\* the aborted read has not been reported yet; "done": nothing refers to the
\* object any more, or the socket has moved to a WebSocket.
HttpStates == {"none", "accepted", "reading", "answering", "shut", "done"}

Tasks == [id : 1 .. MaxId, of : Conns]

Init ==
    /\ WsInit
    /\ http = [c \in Conns |-> "none"]
    /\ taskId = [c \in Conns |-> 0]
    /\ tasks = {}
    /\ highest = 0
    /\ worker = NoConn

Idle == worker = NoConn

-----------------------------------------------------------------------------
(* task_timer *)

Without(id) == {t \in tasks : t.id # id}

\* A bug: the cancelled task stays.
CancelNothing(c) == tasks' = tasks /\ UNCHANGED <<taskId, highest>>

Cancel(c) == tasks' = Without(taskId[c]) /\ UNCHANGED <<taskId, highest>>

\* A bug: identifiers are issued from 0, which is no identifier.
StartDeadlineFromZero(c) ==
    /\ highest < MaxId
    /\ highest' = highest + 1
    /\ tasks' = Without(taskId[c]) \cup {[id |-> highest, of |-> c]}
    /\ taskId' = [taskId EXCEPT ![c] = highest]

\* start_deadline: cancel, schedule, keep the identifier.
StartDeadline(c) ==
    /\ highest < MaxId
    /\ highest' = highest + 1
    /\ tasks' = Without(taskId[c]) \cup {[id |-> highest + 1, of |-> c]}
    /\ taskId' = [taskId EXCEPT ![c] = highest + 1]

\* process_tasks at a tick: the deadlines with identifiers up to n have
\* passed.  Identifiers start anew when no task is left.
Tick(n) ==
    /\ Idle
    /\ LET passed == {t \in tasks : t.id <= n}
           late == {t.of : t \in passed}
       IN /\ tasks' = tasks \ passed
          /\ http' = [c \in Conns |-> IF c \in late /\ http[c] = "reading" THEN "shut"
                                                                           ELSE http[c]]
    /\ highest' = IF tasks' = {} THEN 0 ELSE highest
    /\ UNCHANGED <<wsVars, taskId, worker>>

-----------------------------------------------------------------------------
(* HTTP connections *)

Become(c, state) == http' = [http EXCEPT ![c] = state]

\* The acceptor, on a thread of its own, posts start() to the worker.
Accept(c) ==
    /\ http[c] = "none"
    /\ Become(c, "accepted")
    /\ UNCHANGED <<wsVars, taskId, tasks, highest, worker>>

Start(c) ==
    /\ Idle
    /\ http[c] = "accepted"
    /\ StartDeadline(c)
    /\ Become(c, "reading")
    /\ UNCHANGED <<wsVars, worker>>

\* A part of a request was read.
ReadPart(c) ==
    /\ Idle
    /\ http[c] = "reading"
    /\ StartDeadline(c)
    /\ UNCHANGED <<wsVars, http, worker>>

\* handle(): the deadline is cancelled, the handler runs, its answer is begun.
\* A bid that is accepted is broadcast before its answer is written.
HandleRequest(c) ==
    /\ Idle
    /\ http[c] = "reading"
    /\ c \notin broken
    /\ Cancel(c)
    /\ Broadcast \/ UNCHANGED wsVars
    /\ Become(c, "answering")
    /\ worker' = c

\* The answer is written, or failed to be: the next request is read, with a
\* new deadline, unless this one said "Connection: close".
FinishAnswer(c) ==
    /\ worker = c
    /\ worker' = NoConn
    /\ \/ StartDeadline(c) /\ Become(c, "reading")
       \/ Cancel(c) /\ Become(c, "done")
    /\ UNCHANGED wsVars

\* A bug: handle() does not set close_connection_, and do_read() reads on.
UpgradeAndReadOn(c) ==
    /\ Idle
    /\ http[c] = "reading"
    /\ c \notin broken
    /\ StartDeadline(c)
    /\ Open(c) \/ UNCHANGED wsVars
    /\ UNCHANGED <<http, worker>>

\* handle() of an upgrade: the route takes the socket over, or refuses and
\* the socket is closed.  The HTTP object finds its socket gone.
Upgrade(c) ==
    /\ Idle
    /\ http[c] = "reading"
    /\ c \notin broken
    /\ Cancel(c)
    /\ Become(c, "done")
    /\ Open(c) \/ UNCHANGED wsVars
    /\ UNCHANGED worker

\* The read failed, what was read is no request, or handle() threw since the
\* other side was gone.
HttpReadFails(c) ==
    /\ Idle
    /\ http[c] = "reading"
    /\ Cancel(c)
    /\ Become(c, "done")
    /\ UNCHANGED <<wsVars, worker>>

\* The read that the deadline aborted is reported.
ReadAborted(c) ==
    /\ Idle
    /\ http[c] = "shut"
    /\ Cancel(c)
    /\ Become(c, "done")
    /\ UNCHANGED <<wsVars, worker>>

-----------------------------------------------------------------------------

\* The callbacks of WebSockets run on the same worker.
WsCallback(c) ==
    /\ Idle
    /\ ReadClose(c) \/ Callback(c)
    /\ UNCHANGED httpVars

BreakLink(c) == Break(c) /\ UNCHANGED httpVars

Next ==
    \/ \E n \in 0 .. highest : Tick(n)
    \/ \E c \in Conns :
          \/ Accept(c) \/ Start(c) \/ ReadPart(c) \/ HandleRequest(c)
          \/ FinishAnswer(c) \/ Upgrade(c) \/ HttpReadFails(c) \/ ReadAborted(c)
          \/ WsCallback(c) \/ BreakLink(c)

Spec == Init /\ [][Next]_vars

\* io_context runs callbacks in the order in which they get ready: none that
\* is ready again and again is passed over for ever.  Answers are small beside
\* the send buffer of a socket, so writing one ends.
FairSpec ==
    /\ Spec
    /\ \A c \in Conns :
          /\ SF_vars(Idle /\ Callback(c) /\ UNCHANGED httpVars)
          /\ WF_vars(FinishAnswer(c))

-----------------------------------------------------------------------------
(* Properties *)

\* The types of the variables (http_connection.h:611, task_timer.h:160-164).
TypeOK ==
    /\ WsTypeOK
    /\ http \in [Conns -> HttpStates]
    /\ taskId \in [Conns -> 0 .. MaxId]
    /\ tasks \subseteq Tasks
    /\ highest \in 0 .. MaxId
    /\ worker \in Conns \cup {NoConn}

\* A deadline never strikes a connection that is being answered, has become a
\* WebSocket or is gone (http_connection.h:580): it is always the deadline
\* that a connection set last, of one that is waiting for a request.
DeadlineOfReader ==
    \A t \in tasks : http[t.of] = "reading" /\ taskId[t.of] = t.id

\* A WebSocket object is made of a connection whose HTTP object has let go of
\* it (http_connection.h:174): no socket has two readers.
OneReader ==
    \A c \in Conns : conn[c].life # "none" => http[c] = "done"

\* What the tests of Crow (unittest.cpp:3891) and app.h:325 say of every
\* connection: while it waits for a request it has a deadline.
ReaderHasDeadline ==
    \A c \in Conns : http[c] = "reading" => \E t \in tasks : t.of = c
=============================================================================
