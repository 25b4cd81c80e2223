-------------------------- MODULE CrowServerProofs --------------------------
(***************************************************************************)
(* Theorems about CrowServer, for any number of connections.               *)
(***************************************************************************)
EXTENDS CrowServer, WsConnectionProofs

-----------------------------------------------------------------------------
(* The WebSockets of a server behave as those of WsConnection alone. *)

LEMMA StepIsWsStep == [Next]_vars => [WsNext]_wsVars
  <1>. SUFFICES ASSUME [Next]_vars PROVE [WsNext]_wsVars
    OBVIOUS
  <1>1. ASSUME NEW n \in 0 .. highest, Tick(n) PROVE [WsNext]_wsVars
    BY <1>1 DEF Tick
  <1>2. ASSUME NEW c \in Conns,
               Accept(c) \/ Start(c) \/ ReadPart(c) \/ FinishAnswer(c)
                 \/ HttpReadFails(c) \/ ReadAborted(c)
        PROVE  [WsNext]_wsVars
    BY <1>2 DEF Accept, Start, ReadPart, FinishAnswer, HttpReadFails, ReadAborted
  <1>3. ASSUME NEW c \in Conns, HandleRequest(c) PROVE [WsNext]_wsVars
    BY <1>3 DEF HandleRequest, WsNext
  <1>4. ASSUME NEW c \in Conns, Upgrade(c) PROVE [WsNext]_wsVars
    BY <1>4 DEF Upgrade, WsNext
  <1>5. ASSUME NEW c \in Conns, WsCallback(c) PROVE [WsNext]_wsVars
    BY <1>5 DEF WsCallback, WsNext
  <1>6. ASSUME NEW c \in Conns, BreakLink(c) PROVE [WsNext]_wsVars
    BY <1>6 DEF BreakLink, WsNext
  <1>7. CASE UNCHANGED vars
    BY <1>7 DEF vars
  <1>8. QED
    BY <1>1, <1>2, <1>3, <1>4, <1>5, <1>6, <1>7 DEF Next

THEOREM ServerRefinesSockets == Spec => WsSpec
  <1>1. Init => WsInit
    BY DEF Init
  <1>2. QED
    BY <1>1, StepIsWsStep, PTL DEF Spec, WsSpec

\* The broadcast loop dereferences no pointer to a deleted object.
THEOREM ListedStayLive == Spec => []ListedIsLive
  BY ServerRefinesSockets, WsInvariance, WsInvImplies, PTL

\* No object deletes itself under a callback that will use it.
THEOREM FreedStayQuiet == Spec => []FreedIsQuiet
  BY ServerRefinesSockets, WsInvariance, WsInvImplies, PTL

\* No object is forgotten.
THEOREM LiveHaveCallbacks == Spec => []LiveHasCallback
  BY ServerRefinesSockets, WsInvariance, WsInvImplies, PTL

\* A listed page hears every broadcast once and in order.
THEOREM ServerImplementsChannel == Spec => ImplementsChannel
  BY ServerRefinesSockets, WsImplementsChannel, PTL

-----------------------------------------------------------------------------
(* The deadlines *)

\* Identifiers are unique in that a connection has one deadline at most, the
\* one whose identifier it keeps; one that has never started keeps none.
HttpTypeOK ==
    /\ http \in [Conns -> HttpStates]
    /\ taskId \in [Conns -> 0 .. MaxId]
    /\ tasks \subseteq Tasks
    /\ highest \in 0 .. MaxId
    /\ worker \in Conns \cup {NoConn}

DeadlineInv ==
    /\ HttpTypeOK
    /\ DeadlineOfReader
    /\ \A t \in tasks : t.id <= highest
    /\ \A c \in Conns : http[c] \in {"none", "accepted"} => taskId[c] = 0
    /\ worker # NoConn => http[worker] = "answering"

LEMMA StartDeadlineFacts ==
    ASSUME DeadlineInv, NEW c \in Conns, StartDeadline(c)
    PROVE  /\ taskId' \in [Conns -> 0 .. MaxId]
           /\ tasks' \subseteq Tasks
           /\ highest' \in 0 .. MaxId
           /\ \A t \in tasks' : t.id <= highest'
           /\ \A t \in tasks' : t.of # c => t \in tasks /\ taskId'[t.of] = taskId[t.of]
           /\ \A t \in tasks' : t.of = c => t.id = taskId'[c]
           /\ \A d \in Conns \ {c} : taskId'[d] = taskId[d]
  <1>1. /\ highest \in 0 .. MaxId /\ highest < MaxId /\ MaxId \in Nat /\ tasks \subseteq Tasks
        /\ taskId \in [Conns -> 0 .. MaxId]
        /\ highest' = highest + 1
        /\ tasks' = {t \in tasks : t.id # taskId[c]} \cup {[id |-> highest + 1, of |-> c]}
        /\ taskId' = [taskId EXCEPT ![c] = highest + 1]
    BY NoConnAssumption DEF DeadlineInv, HttpTypeOK, StartDeadline, Without
  <1>2. highest + 1 \in 1 .. MaxId /\ highest + 1 \in 0 .. MaxId
    BY <1>1
  <1>3. [id |-> highest + 1, of |-> c] \in Tasks
    BY <1>2 DEF Tasks
  <1>4. \A t \in tasks : t.id \in 1 .. MaxId /\ t.id <= highest /\ t.of \in Conns
    BY <1>1 DEF DeadlineInv, Tasks
  <1>5. \A t \in tasks : t.of = c => t.id = taskId[c]
    BY <1>4 DEF DeadlineInv, DeadlineOfReader
  <1>6. \A d \in Conns \ {c} : taskId'[d] = taskId[d]
    BY <1>1
  <1>7. taskId'[c] = highest + 1 /\ taskId' \in [Conns -> 0 .. MaxId]
    BY <1>1, <1>2
  <1>8. \A t \in tasks' : t.id <= highest'
    BY <1>1, <1>4
  <1>9. \A t \in tasks' : t.of # c => t \in tasks /\ taskId'[t.of] = taskId[t.of]
    BY <1>1, <1>4, <1>6
  <1>10. \A t \in tasks' : t.of = c => t.id = taskId'[c]
    BY <1>1, <1>5, <1>7
  <1>11. QED
    BY <1>1, <1>2, <1>3, <1>6, <1>7, <1>8, <1>9, <1>10

LEMMA CancelFacts ==
    ASSUME DeadlineInv, NEW c \in Conns, Cancel(c)
    PROVE  /\ tasks' \subseteq tasks
           /\ \A t \in tasks' : t.of # c
           /\ UNCHANGED <<taskId, highest>>
  BY DEF Cancel, Without, DeadlineInv, HttpTypeOK, DeadlineOfReader, Tasks

\* A step that sets a deadline for c, and has c wait for a request.
LEMMA StartsReading ==
    ASSUME DeadlineInv, NEW c \in Conns, StartDeadline(c),
           http' = [http EXCEPT ![c] = "reading"], worker' \in {worker, NoConn},
           worker' # c
    PROVE  DeadlineInv'
  <1>1. http' \in [Conns -> HttpStates] /\ http'[c] = "reading"
    BY DEF DeadlineInv, HttpTypeOK, HttpStates
  <1>2. HttpTypeOK'
    BY <1>1, StartDeadlineFacts DEF DeadlineInv, HttpTypeOK
  <1>3. \A d \in Conns \ {c} : http'[d] = http[d]
    BY DEF DeadlineInv, HttpTypeOK
  <1>4. DeadlineOfReader'
    <2>1. SUFFICES ASSUME NEW t \in tasks' PROVE http'[t.of] = "reading" /\ taskId'[t.of] = t.id
      BY DEF DeadlineOfReader
    <2>2. CASE t.of = c
      BY <1>1, <2>2, StartDeadlineFacts
    <2>3. CASE t.of # c
      <3>1. t \in tasks /\ taskId'[t.of] = taskId[t.of] /\ t.of \in Conns
        BY <2>3, StartDeadlineFacts DEF DeadlineInv, HttpTypeOK, Tasks
      <3>2. http[t.of] = "reading" /\ taskId[t.of] = t.id
        BY <3>1 DEF DeadlineInv, DeadlineOfReader
      <3>3. QED
        BY <1>3, <2>3, <3>1, <3>2
    <2>4. QED
      BY <2>2, <2>3
  <1>5. \A d \in Conns : http'[d] \in {"none", "accepted"} => taskId'[d] = 0
    BY <1>1, <1>3, StartDeadlineFacts DEF DeadlineInv
  <1>6. worker' # NoConn => http'[worker'] = "answering"
    BY <1>3 DEF DeadlineInv, HttpTypeOK
  <1>7. QED
    BY <1>2, <1>4, <1>5, <1>6, StartDeadlineFacts DEF DeadlineInv

\* A step that cancels the deadline of c, and has c wait no longer.
LEMMA StopsReading ==
    ASSUME DeadlineInv, NEW c \in Conns, NEW state \in HttpStates, Cancel(c),
           http' = [http EXCEPT ![c] = state], state \notin {"none", "accepted", "reading"},
           worker' \in Conns \cup {NoConn}, worker' # NoConn => http'[worker'] = "answering"
    PROVE  DeadlineInv'
  <1>1. http' \in [Conns -> HttpStates] /\ http'[c] = state
    BY DEF DeadlineInv, HttpTypeOK
  <1>2. HttpTypeOK'
    BY <1>1, CancelFacts DEF DeadlineInv, HttpTypeOK
  <1>3. \A d \in Conns \ {c} : http'[d] = http[d]
    BY DEF DeadlineInv, HttpTypeOK
  <1>4. DeadlineOfReader'
    <2>1. SUFFICES ASSUME NEW t \in tasks' PROVE http'[t.of] = "reading" /\ taskId'[t.of] = t.id
      BY DEF DeadlineOfReader
    <2>2. t \in tasks /\ t.of \in Conns \ {c} /\ taskId' = taskId
      BY CancelFacts DEF DeadlineInv, HttpTypeOK, Tasks
    <2>3. QED
      BY <1>3, <2>2 DEF DeadlineInv, DeadlineOfReader
  <1>5. \A d \in Conns : http'[d] \in {"none", "accepted"} => taskId'[d] = 0
    BY <1>1, <1>3, CancelFacts DEF DeadlineInv
  <1>6. \A t \in tasks' : t.id <= highest'
    BY CancelFacts DEF DeadlineInv
  <1>7. QED
    BY <1>2, <1>4, <1>5, <1>6 DEF DeadlineInv

LEMMA TickKeeps == ASSUME DeadlineInv, NEW n \in 0 .. highest, Tick(n) PROVE DeadlineInv'
  <1>. DEFINE passed == {t \in tasks : t.id <= n}
              late == {t.of : t \in passed}
  <1>1. /\ tasks' = tasks \ passed
        /\ http' = [c \in Conns |-> IF c \in late /\ http[c] = "reading" THEN "shut" ELSE http[c]]
        /\ highest' = IF tasks' = {} THEN 0 ELSE highest
        /\ UNCHANGED <<taskId, worker>> /\ worker = NoConn
    BY DEF Tick, Idle
  <1>2. HttpTypeOK'
    <2>1. http' \in [Conns -> HttpStates]
      BY <1>1 DEF DeadlineInv, HttpTypeOK, HttpStates
    <2>2. highest' \in 0 .. MaxId
      BY <1>1, NoConnAssumption DEF DeadlineInv, HttpTypeOK
    <2>3. QED
      BY <1>1, <2>1, <2>2 DEF DeadlineInv, HttpTypeOK
  <1>3. ASSUME NEW t \in tasks' PROVE http'[t.of] = "reading" /\ taskId'[t.of] = t.id
    <2>1. t \in tasks /\ t \notin passed /\ t.of \in Conns
      BY <1>1 DEF DeadlineInv, HttpTypeOK, Tasks
    <2>2. http[t.of] = "reading" /\ taskId[t.of] = t.id
      BY <2>1 DEF DeadlineInv, DeadlineOfReader
    <2>3. t.of \notin late
      <3>1. SUFFICES ASSUME NEW u \in passed, u.of = t.of PROVE FALSE
        OBVIOUS
      <3>2. taskId[u.of] = u.id
        BY DEF DeadlineInv, DeadlineOfReader
      <3>3. QED
        BY <2>1, <2>2, <3>1, <3>2
    <2>4. QED
      BY <1>1, <2>1, <2>2, <2>3
  <1>4. \A t \in tasks' : t.id <= highest'
    BY <1>1 DEF DeadlineInv
  <1>5. \A c \in Conns : http'[c] \in {"none", "accepted"} => taskId'[c] = 0
    BY <1>1 DEF DeadlineInv
  <1>6. DeadlineOfReader'
    BY <1>3 DEF DeadlineOfReader
  <1>7. QED
    BY <1>1, <1>2, <1>4, <1>5, <1>6 DEF DeadlineInv

LEMMA AcceptKeeps == ASSUME DeadlineInv, NEW c \in Conns, Accept(c) PROVE DeadlineInv'
  <1>1. /\ http[c] = "none" /\ http' = [http EXCEPT ![c] = "accepted"]
        /\ UNCHANGED <<taskId, tasks, highest, worker>>
    BY DEF Accept, Become
  <1>2. http' \in [Conns -> HttpStates] /\ http'[c] = "accepted" /\ taskId[c] = 0
        /\ \A d \in Conns \ {c} : http'[d] = http[d]
    BY <1>1 DEF DeadlineInv, HttpTypeOK, HttpStates
  <1>3. HttpTypeOK'
    BY <1>1, <1>2 DEF DeadlineInv, HttpTypeOK
  <1>4. \A t \in tasks : t.of \in Conns \ {c}
    BY <1>1 DEF DeadlineInv, HttpTypeOK, DeadlineOfReader, Tasks
  <1>5. DeadlineOfReader'
    BY <1>1, <1>2, <1>4 DEF DeadlineInv, DeadlineOfReader
  <1>6. worker' # NoConn => http'[worker'] = "answering"
    BY <1>1, <1>2 DEF DeadlineInv, HttpTypeOK
  <1>7. QED
    BY <1>1, <1>2, <1>3, <1>5, <1>6 DEF DeadlineInv

LEMMA FinishAnswerKeeps == ASSUME DeadlineInv, NEW c \in Conns, FinishAnswer(c) PROVE DeadlineInv'
  <1>1. worker' = NoConn /\ worker' # c
    BY NoConnAssumption DEF FinishAnswer
  <1>2. CASE StartDeadline(c) /\ Become(c, "reading")
    BY <1>1, <1>2, StartsReading DEF Become
  <1>3. CASE Cancel(c) /\ Become(c, "done")
    BY <1>1, <1>3, StopsReading DEF Become, HttpStates
  <1>4. QED
    BY <1>2, <1>3 DEF FinishAnswer

LEMMA DeadlineStep == DeadlineInv /\ [Next]_vars => DeadlineInv'
  <1>. SUFFICES ASSUME DeadlineInv, [Next]_vars PROVE DeadlineInv'
    OBVIOUS
  <1>. USE NoConnAssumption
  <1>1. ASSUME NEW n \in 0 .. highest, Tick(n) PROVE DeadlineInv'
    BY <1>1, TickKeeps
  <1>2. ASSUME NEW c \in Conns, Accept(c) PROVE DeadlineInv'
    BY <1>2, AcceptKeeps
  <1>3. ASSUME NEW c \in Conns, Start(c) PROVE DeadlineInv'
    BY <1>3, StartsReading DEF Start, Become, Idle
  <1>4. ASSUME NEW c \in Conns, ReadPart(c) PROVE DeadlineInv'
    <2>1. http' = [http EXCEPT ![c] = "reading"]
      BY <1>4 DEF ReadPart, DeadlineInv, HttpTypeOK
    <2>2. QED
      BY <1>4, <2>1, StartsReading DEF ReadPart, Idle
  <1>5. ASSUME NEW c \in Conns, HandleRequest(c) PROVE DeadlineInv'
    <2>1. http' = [http EXCEPT ![c] = "answering"] /\ worker' = c /\ Cancel(c)
      BY <1>5 DEF HandleRequest, Become
    <2>2. http'[c] = "answering"
      BY <2>1 DEF DeadlineInv, HttpTypeOK
    <2>3. QED
      BY <2>1, <2>2, StopsReading DEF HttpStates
  <1>6. ASSUME NEW c \in Conns, FinishAnswer(c) PROVE DeadlineInv'
    BY <1>6, FinishAnswerKeeps
  <1>7. ASSUME NEW c \in Conns, Upgrade(c) \/ HttpReadFails(c) \/ ReadAborted(c)
        PROVE  DeadlineInv'
    <2>1. http' = [http EXCEPT ![c] = "done"] /\ worker' = NoConn /\ Cancel(c)
      BY <1>7 DEF Upgrade, HttpReadFails, ReadAborted, Become, Idle
    <2>2. QED
      BY <2>1, StopsReading DEF HttpStates
  <1>8. CASE UNCHANGED httpVars
    BY <1>8 DEF httpVars, DeadlineInv, HttpTypeOK, DeadlineOfReader
  <1>9. QED
    BY <1>1, <1>2, <1>3, <1>4, <1>5, <1>6, <1>7, <1>8
       DEF Next, WsCallback, BreakLink, vars, httpVars

LEMMA DeadlineInit == Init => DeadlineInv
  BY NoConnAssumption DEF Init, DeadlineInv, HttpTypeOK, HttpStates, DeadlineOfReader

LEMMA DeadlineInvariance == Spec => []DeadlineInv
  BY DeadlineInit, DeadlineStep, PTL DEF Spec

\* The type invariant of a server and its WebSockets.
THEOREM ServerTypeCorrect == Spec => []TypeOK
  <1>1. WsInv /\ DeadlineInv => TypeOK
    BY DEF WsInv, DeadlineInv, HttpTypeOK, TypeOK
  <1>2. QED
    BY <1>1, ServerRefinesSockets, WsInvariance, DeadlineInvariance, PTL

\* A deadline never strikes a connection that is not waiting for a request.
THEOREM DeadlinesStrikeReaders == Spec => []DeadlineOfReader
  <1>1. DeadlineInv => DeadlineOfReader
    BY DEF DeadlineInv
  <1>2. QED
    BY <1>1, DeadlineInvariance, PTL

-----------------------------------------------------------------------------
(* One reader of a socket *)

\* Only the constructor makes an object.
LEMMA OnlyOpenMakes ==
    ASSUME WsInv, NEW d \in Conns, conn[d].life = "none",
           \/ Broadcast
           \/ \E c \in Conns : (c # d /\ Open(c)) \/ ReadClose(c) \/ Break(c) \/ Callback(c)
           \/ UNCHANGED wsVars
    PROVE  conn'[d] = conn[d]
  <1>1. conn \in [Conns -> Objects] /\ conn[d] = NoObject /\ d \notin clients
    BY DEF WsInv, WsTypeOK, ObjectOK
  <1>2. conn[d].posted = <<>> /\ conn[d].sending = <<>> /\ ~conn[d].reading
    BY <1>1 DEF NoObject
  <1>3. CASE Broadcast
    BY <1>1, <1>3 DEF Broadcast
  <1>4. ASSUME NEW c \in Conns,
               (c # d /\ Open(c)) \/ ReadClose(c) \/ Break(c) \/ RunPosted(c)
                 \/ ReadFails(c) \/ WriteDone(c) \/ WriteEnds(c)
        PROVE  conn'[d] = conn[d]
    <2>1. CASE c = d
      BY <1>2, <1>4, <2>1
         DEF ReadClose, Break, RunPosted, ReadFails, WriteDone, WriteEnds
    <2>2. CASE c # d
      BY <1>1, <1>4, <2>2
         DEF Open, ReadClose, Break, RunPosted, ReadFails, WriteDone, WriteEnds
    <2>3. QED
      BY <2>1, <2>2
  <1>5. CASE UNCHANGED wsVars
    BY <1>5 DEF wsVars
  <1>6. QED
    BY <1>3, <1>4, <1>5 DEF Callback

\* An HTTP object that has let go of its connection never takes it back.
LEMMA DoneStays ==
    ASSUME DeadlineInv, [Next]_vars, NEW c \in Conns, http[c] = "done"
    PROVE  http'[c] = "done"
  <1>1. http \in [Conns -> HttpStates] /\ worker # NoConn => http[worker] = "answering"
    BY DEF DeadlineInv, HttpTypeOK
  <1>2. ASSUME NEW n \in 0 .. highest, Tick(n) PROVE http'[c] = "done"
    BY <1>2 DEF Tick
  <1>3. ASSUME NEW d \in Conns, NEW state, http' = [http EXCEPT ![d] = state], http[d] # "done"
        PROVE  http'[c] = "done"
    BY <1>1, <1>3 DEF DeadlineInv, HttpTypeOK
  <1>4. ASSUME NEW d \in Conns,
               Accept(d) \/ Start(d) \/ HandleRequest(d) \/ Upgrade(d)
                 \/ HttpReadFails(d) \/ ReadAborted(d)
        PROVE  http'[c] = "done"
    BY <1>3, <1>4
       DEF Accept, Start, HandleRequest, Upgrade, HttpReadFails, ReadAborted, Become
  <1>5. ASSUME NEW d \in Conns, FinishAnswer(d) PROVE http'[c] = "done"
    <2>1. http[d] = "answering"
      BY <1>5, NoConnAssumption DEF DeadlineInv, FinishAnswer
    <2>2. QED
      BY <1>3, <1>5, <2>1 DEF FinishAnswer, Become
  <1>6. ASSUME NEW d \in Conns, ReadPart(d) PROVE http'[c] = "done"
    BY <1>6 DEF ReadPart
  <1>7. CASE UNCHANGED httpVars
    BY <1>7 DEF httpVars
  <1>8. QED
    BY <1>2, <1>4, <1>5, <1>6, <1>7 DEF Next, WsCallback, BreakLink, vars, httpVars

\* A socket is read by its HTTP object or by its WebSocket object, not by both.
THEOREM SocketsHaveOneReader == Spec => []OneReader
  <1>1. Init => OneReader
    BY DEF Init, WsInit, OneReader, NoObject
  <1>2. OneReader /\ WsInv /\ DeadlineInv /\ [Next]_vars => OneReader'
    <2>. SUFFICES ASSUME OneReader, WsInv, DeadlineInv, [Next]_vars,
                         NEW c \in Conns, conn'[c].life # "none"
                  PROVE  http'[c] = "done"
      BY DEF OneReader
    <2>1. CASE conn[c].life # "none"
      BY <2>1, DoneStays DEF OneReader
    <2>2. CASE conn[c].life = "none"
      <3>1. CASE Upgrade(c)
        BY <3>1 DEF Upgrade, Become, DeadlineInv, HttpTypeOK
      <3>2. CASE ~Upgrade(c)
        <4>1. \/ Broadcast
              \/ \E d \in Conns : (d # c /\ Open(d)) \/ ReadClose(d) \/ Break(d) \/ Callback(d)
              \/ UNCHANGED wsVars
          BY <3>2 DEF Next, vars, Tick, Accept, Start, ReadPart, HandleRequest, FinishAnswer,
                      Upgrade, HttpReadFails, ReadAborted, WsCallback, BreakLink
        <4>2. QED
          BY <2>2, <4>1, OnlyOpenMakes
      <3>3. QED
        BY <3>1, <3>2
    <2>3. QED
      BY <2>1, <2>2
  <1>3. QED
    BY <1>1, <1>2, ServerRefinesSockets, WsInvariance, DeadlineInvariance, PTL DEF Spec
=============================================================================
