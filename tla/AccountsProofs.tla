--------------------------- MODULE AccountsProofs ---------------------------
(***************************************************************************)
(* Theorems about Accounts, for any number of server processes.            *)
(***************************************************************************)
EXTENDS Accounts, TLAPS

USE IdAssumption

Act(s) == Arrive(s) \/ Handle(s) \/ BreakDeadlock(s) \/ Fail(s)

\* A step of s is its own: the other handlers stay where they are.
LEMMA Others ==
    ASSUME TypeOK, NEW s \in Servers, Act(s), NEW t \in Servers, t # s
    PROVE  pc'[t] = pc[t] /\ req'[t] = req[t] /\ row'[t] = row[t] /\ status'[t] = status[t]
  BY DEF Act, Arrive, Handle, Fail, TypeOK, Goto, Answer, Die, Malformed, Register, InsertUser,
     CommitUser, EditUser, UpdateRow, WriteEmail, BreakDeadlock, CommitEdit, Login, Respond,
     Rollback, CommitUnanswered, Crash, CrashInCommit, Restart

\* What a step does to the table: nothing, or the effect of one COMMIT.
LEMMA Effect ==
    ASSUME NEW s \in Servers, Act(s)
    PROVE  UNCHANGED users \/ StoreUser(s) \/ StoreEdit(s)
  BY Zenon DEF Act, Arrive, Handle, Fail, Malformed, Register, InsertUser, CommitUser, EditUser,
     UpdateRow, WriteEmail, BreakDeadlock, CommitEdit, Login, Respond, Rollback,
     CommitUnanswered, Crash, CrashInCommit, Restart

\* Where a handler goes when it writes the table.
LEMMA AfterStore ==
    ASSUME TypeOK, NEW s \in Servers, Act(s), users' # users
    PROVE  /\ pc'[s] \in {"respond", "down"}
           /\ StoreUser(s) \/ StoreEdit(s)
  <1>1. StoreUser(s) \/ StoreEdit(s)
    BY Effect
  <1>2. pc'[s] \in {"respond", "down"}
    BY <1>1 DEF Act, Arrive, Handle, Fail, TypeOK, Goto, Answer, Die, Malformed, Register, InsertUser,
     CommitUser, EditUser, UpdateRow, WriteEmail, BreakDeadlock, CommitEdit, Login, Respond,
     Rollback, CommitUnanswered, Crash, CrashInCommit, Restart, StoreUser, StoreEdit
  <1>3. QED
    BY <1>1, <1>2

LEMMA InitInv == Init => IInv
  BY DEF Init, IInv, TypeOK, ServesItsRequest, IdsAreFresh, EditsOwnRow, ReadyToCommit, UniqueUsers,
     AckedAccount, RegisterSteps, EditSteps, HasWritten

\* An account keeps its id and name; what a COMMIT writes is a row.
LEMMA TableGrows ==
    ASSUME IInv, NEW s \in Servers, Act(s)
    PROVE  /\ DOMAIN users \subseteq DOMAIN users'
           /\ \A i \in DOMAIN users : users'[i].name = users[i].name
           /\ DOMAIN users' \subseteq Ids /\ users' \in [DOMAIN users' -> UserRows]
  <1>0. TypeOK
    BY DEF IInv
  <1>1. CASE UNCHANGED users
    BY <1>0, <1>1 DEF TypeOK
  <1>2. CASE StoreUser(s)
    <2>1. req[s] \in Registrations /\ req[s].id \notin DOMAIN users
      BY <1>2 DEF StoreUser, IInv, ServesItsRequest, IdsAreFresh, RegisterSteps
    <2>2. RowOf(req[s]) \in UserRows /\ req[s].id \in Ids
      BY <2>1 DEF RowOf, UserRows, Registrations
    <2>3. QED
      BY <1>0, <1>2, <2>1, <2>2 DEF StoreUser, TypeOK
  <1>3. CASE StoreEdit(s)
    <2>1. req[s] \in Edits /\ (row[s] # 0 => row[s] \in DOMAIN users /\ users[row[s]].name = req[s].name)
      BY <1>3 DEF StoreEdit, IInv, ServesItsRequest, EditsOwnRow, EditSteps
    <2>2. RowOf(req[s]) \in UserRows /\ RowOf(req[s]).name = req[s].name
      BY <2>1 DEF RowOf, UserRows, Edits
    <2>3. QED
      BY <1>0, <1>3, <2>1, <2>2 DEF StoreEdit, TypeOK
  <1>4. QED
    BY <1>1, <1>2, <1>3, Effect

LEMMA StepType == ASSUME IInv, NEW s \in Servers, Act(s) PROVE TypeOK'
  <1>0. TypeOK
    BY DEF IInv
  <1>1. /\ pc' \in [Servers -> {"idle", "respond", "down"} \cup RegisterSteps \cup EditSteps]
        /\ status' \in [Servers -> {0, 200, 201, 400, 500}]
    <2>1. CASE Arrive(s)
      BY <1>0, <2>1 DEF Arrive, TypeOK, Goto, Answer, Malformed, Register, EditUser, Login,
         RegisterSteps, EditSteps
    <2>2. CASE Handle(s)
      BY <1>0, <2>2 DEF Handle, TypeOK, Goto, Answer, InsertUser, CommitUser, UpdateRow, WriteEmail,
         CommitEdit, Respond, RegisterSteps, EditSteps
    <2>3. CASE BreakDeadlock(s)
      BY <1>0, <2>3 DEF TypeOK, Answer, BreakDeadlock
    <2>4. CASE Fail(s)
      BY <1>0, <2>4 DEF Fail, TypeOK, Goto, Answer, Die, Rollback, CommitUnanswered, Crash,
         CrashInCommit, Restart
    <2>5. QED
      BY <2>1, <2>2, <2>3, <2>4 DEF Act
  <1>2. req' \in [Servers -> {NoRequest} \cup Registrations \cup Edits \cup Logins]
    BY <1>0 DEF Act, Arrive, Handle, Fail, TypeOK, Die, Malformed, Register, InsertUser,
     CommitUser, EditUser, UpdateRow, WriteEmail, BreakDeadlock, CommitEdit, Login, Respond,
     Rollback, CommitUnanswered, Crash, CrashInCommit, Restart
  <1>3. row' \in [Servers -> Ids \cup {0}]
    BY <1>0 DEF Act, Arrive, Handle, Fail, TypeOK, Die, Malformed, Register, InsertUser,
     CommitUser, EditUser, UpdateRow, WriteEmail, BreakDeadlock, CommitEdit, Login, Respond,
     Rollback, CommitUnanswered, Crash, CrashInCommit, Restart
  <1>4. QED
    BY <1>1, <1>2, <1>3, TableGrows DEF TypeOK

\* Which action leads a handler to a step, and what it has found out by then.
LEMMA Moves ==
    ASSUME TypeOK, NEW s \in Servers, Act(s)
    PROVE  /\ pc'[s] = "insert_user" => Register(s)
           /\ pc'[s] = "commit_user" => InsertUser(s) /\ NameUnused(req[s].name) /\ EmailUnused(req[s].email, 0)
           /\ pc'[s] = "update_row" => EditUser(s)
           /\ pc'[s] = "write_email" => UpdateRow(s) /\ row'[s] \in DOMAIN users
                                        /\ users[row'[s]].name = req[s].name /\ RowHolders(s, row'[s]) = {}
           /\ pc'[s] = "commit_edit" => \/ UpdateRow(s) /\ row' = row
                                        \/ WriteEmail(s) /\ EmailUnused(req[s].email, row[s])
           /\ pc'[s] \in {"idle", "down"} => row'[s] = 0 \/ (pc[s] = "down" /\ row' = row)
  <1>1. CASE Arrive(s)
    BY <1>1 DEF Arrive, TypeOK, Goto, Answer, Malformed, Register, EditUser, Login
  <1>2. CASE InsertUser(s)
    BY <1>2 DEF InsertUser, TypeOK, Goto, Answer
  <1>3. CASE UpdateRow(s)
    <2>1. CASE NameUnused(req[s].name) /\ Goto(s, "commit_edit") /\ UNCHANGED row
      BY <1>3, <2>1 DEF Goto, TypeOK
    <2>2. CASE /\ \E i \in DOMAIN users : /\ users[i].name = req[s].name
                                     /\ RowHolders(s, i) = {}
                                     /\ row' = [row EXCEPT ![s] = i]
               /\ Goto(s, "write_email")
      BY <1>3, <2>2 DEF Goto, TypeOK
    <2>3. QED
      BY <1>3, <2>1, <2>2 DEF UpdateRow
  <1>4. CASE WriteEmail(s)
    BY <1>4 DEF WriteEmail, TypeOK, Goto, Answer
  <1>5. CASE CommitUser(s) \/ CommitEdit(s) \/ Respond(s) \/ BreakDeadlock(s)
    <2>1. CASE CommitUser(s) \/ CommitEdit(s) \/ BreakDeadlock(s)
      <3>1. Answer(s, 200) \/ Answer(s, 201) \/ Answer(s, 500)
        BY <2>1, Zenon DEF CommitUser, CommitEdit, BreakDeadlock
      <3>2. pc'[s] = "respond"
        BY <3>1 DEF Answer, TypeOK
      <3>3. QED
        BY <3>2
    <2>2. CASE Respond(s)
      BY <2>2 DEF Respond, TypeOK
    <2>3. QED
      BY <1>5, <2>1, <2>2
  <1>6. CASE Fail(s)
    BY <1>6 DEF Fail, TypeOK, Goto, Answer, Die, Rollback, CommitUnanswered, Crash, CrashInCommit, Restart
  <1>7. QED
    BY <1>1, <1>2, <1>3, <1>4, <1>5, <1>6 DEF Act, Handle

LEMMA StepServes == ASSUME IInv, NEW s \in Servers, Act(s) PROVE ServesItsRequest'
  <1>0. TypeOK /\ ServesItsRequest
    BY DEF IInv
  <1>1. ASSUME NEW t \in Servers, t # s
        PROVE  /\ pc'[t] \in RegisterSteps => req'[t] \in Registrations /\ row'[t] = 0
               /\ pc'[t] \in EditSteps => req'[t] \in Edits
               /\ pc'[t] \in {"idle", "update_row", "down"} => row'[t] = 0
               /\ pc'[t] = "write_email" => row'[t] # 0
    BY <1>0, <1>1, Others DEF ServesItsRequest
  <1>2. /\ pc'[s] = "insert_user" => req'[s] \in Registrations /\ row'[s] = 0
        /\ pc'[s] = "update_row" => req'[s] \in Edits /\ row'[s] = 0
    BY <1>0, Moves DEF Register, EditUser, ServesItsRequest, TypeOK
  <1>3. pc'[s] = "commit_user" => req'[s] \in Registrations /\ row'[s] = 0
    BY <1>0, Moves DEF InsertUser, ServesItsRequest, RegisterSteps
  <1>4. pc'[s] = "write_email" => req'[s] \in Edits /\ row'[s] # 0
    BY <1>0, Moves DEF UpdateRow, ServesItsRequest, EditSteps, TypeOK
  <1>5. pc'[s] = "commit_edit" => req'[s] \in Edits
    BY <1>0, Moves DEF UpdateRow, WriteEmail, ServesItsRequest, EditSteps
  <1>6. pc'[s] \in {"idle", "down"} => row'[s] = 0
    BY <1>0, Moves DEF ServesItsRequest
  <1>7. QED
    BY <1>1, <1>2, <1>3, <1>4, <1>5, <1>6 DEF ServesItsRequest, RegisterSteps, EditSteps

\* The id of a registration in progress is not that of another one.
LEMMA StepFresh == ASSUME IInv, NEW s \in Servers, Act(s) PROVE IdsAreFresh'
  <1>0. TypeOK /\ ServesItsRequest /\ IdsAreFresh
    BY DEF IInv
  <1>1. \A t \in Servers : pc[t] \in RegisterSteps => req[t].op = "register"
    BY <1>0 DEF ServesItsRequest, Registrations
  <1>2. ASSUME pc'[s] \in RegisterSteps
        PROVE  /\ users' = users /\ req'[s].id \notin DOMAIN users
               /\ \A t \in Servers \ {s} : pc[t] \in RegisterSteps => req[t].id # req'[s].id
    <2>1. CASE Register(s)
      BY <1>0, <1>1, <2>1 DEF Register, FreshId, TypeOK
    <2>2. CASE InsertUser(s)
      BY <1>0, <2>2 DEF InsertUser, IdsAreFresh, RegisterSteps
    <2>3. QED
      BY <1>0, <1>2, <2>1, <2>2, Moves DEF RegisterSteps
  <1>3. ASSUME NEW t \in Servers, t # s, pc'[t] \in RegisterSteps
        PROVE  /\ req'[t].id \notin DOMAIN users'
               /\ \A u \in Servers \ {t} : pc'[u] \in RegisterSteps => req'[u].id # req'[t].id
    <2>1. pc[t] \in RegisterSteps /\ req'[t] = req[t] /\ req[t].id \notin DOMAIN users
      BY <1>0, <1>3, Others DEF IdsAreFresh
    <2>2. req[t].id \notin DOMAIN users'
      <3>1. CASE StoreUser(s)
        BY <1>0, <1>3, <2>1, <3>1 DEF StoreUser, IdsAreFresh, RegisterSteps
      <3>2. CASE StoreEdit(s) \/ UNCHANGED users
        BY <2>1, <3>2 DEF StoreEdit
      <3>3. QED
        BY <3>1, <3>2, Effect
    <2>3. ASSUME NEW u \in Servers \ {t}, pc'[u] \in RegisterSteps PROVE req'[u].id # req'[t].id
      <3>1. CASE u = s
        BY <1>2, <1>3, <2>1, <2>3, <3>1
      <3>2. CASE u # s
        BY <1>0, <2>1, <2>3, <3>2, Others DEF IdsAreFresh
      <3>3. QED
        BY <3>1, <3>2
    <2>4. QED
      BY <2>1, <2>2, <2>3
  <1>4. ASSUME pc'[s] \in RegisterSteps
        PROVE  /\ req'[s].id \notin DOMAIN users'
               /\ \A u \in Servers \ {s} : pc'[u] \in RegisterSteps => req'[u].id # req'[s].id
    BY <1>0, <1>2, <1>4, Others
  <1>5. QED
    BY <1>3, <1>4 DEF IdsAreFresh

LEMMA StepOwnRow == ASSUME IInv, NEW s \in Servers, Act(s) PROVE EditsOwnRow'
  <1>0. TypeOK /\ EditsOwnRow /\ ServesItsRequest
    BY DEF IInv
  <1>1. ASSUME pc'[s] \in EditSteps, row'[s] # 0
        PROVE  /\ users' = users /\ req'[s] = req[s] /\ row'[s] \in DOMAIN users
               /\ users[row'[s]].name = req[s].name /\ RowHolders(s, row'[s]) = {}
               /\ pc'[s] \in {"write_email", "commit_edit"}
    <2>1. CASE pc'[s] = "update_row"
      BY <1>0, <1>1, <2>1, Moves DEF EditUser, ServesItsRequest
    <2>2. CASE pc'[s] = "write_email"
      BY <1>0, <2>2, Moves DEF UpdateRow
    <2>3. CASE pc'[s] = "commit_edit"
      <3>1. CASE UpdateRow(s) /\ row' = row
        BY <1>0, <1>1, <3>1 DEF UpdateRow, ServesItsRequest
      <3>2. CASE WriteEmail(s)
        BY <1>0, <1>1, <2>3, <3>2 DEF WriteEmail, EditsOwnRow, EditSteps
      <3>3. QED
        BY <1>0, <2>3, <3>1, <3>2, Moves
    <2>4. QED
      BY <1>1, <2>1, <2>2, <2>3 DEF EditSteps
  <1>2. ASSUME NEW t \in Servers, pc'[t] \in EditSteps, row'[t] # 0
        PROVE  /\ row'[t] \in DOMAIN users' /\ users'[row'[t]].name = req'[t].name
               /\ \A u \in Servers \ {t} :
                    ~(pc'[u] \in {"write_email", "commit_edit"} /\ row'[u] = row'[t])
    <2>1. CASE t = s
      BY <1>0, <1>1, <1>2, <2>1, Others DEF RowHolders
    <2>2. CASE t # s
      <3>1. /\ pc'[t] = pc[t] /\ row'[t] = row[t] /\ req'[t] = req[t] /\ row[t] \in DOMAIN users
            /\ users[row[t]].name = req[t].name /\ RowHolders(t, row[t]) = {}
        BY <1>0, <1>2, <2>2, Others DEF EditsOwnRow
      <3>2. row[t] \in DOMAIN users' /\ users'[row[t]].name = req[t].name
        BY <3>1, TableGrows
      <3>3. pc[t] \in {"write_email", "commit_edit"}
        BY <1>0, <1>2, <3>1 DEF ServesItsRequest, EditSteps
      <3>4. ASSUME NEW u \in Servers \ {t}, pc'[u] \in {"write_email", "commit_edit"}, row'[u] = row'[t]
            PROVE FALSE
        <4>1. CASE u = s
          BY <1>1, <1>2, <2>2, <3>1, <3>3, <3>4, <4>1 DEF RowHolders, EditSteps
        <4>2. CASE u # s
          BY <1>0, <3>1, <3>4, <4>2, Others DEF RowHolders
        <4>3. QED
          BY <4>1, <4>2
      <3>5. QED
        BY <3>1, <3>2, <3>4
    <2>3. QED
      BY <2>1, <2>2
  <1>3. QED
    BY <1>2 DEF EditsOwnRow, RowHolders

\* What a COMMIT adds to or changes in the table.
LEMMA Stored ==
    ASSUME IInv, NEW s \in Servers, Act(s), users' # users
    PROVE  \/ /\ pc[s] = "commit_user" /\ HasWritten(s) /\ req[s].id \notin DOMAIN users
              /\ DOMAIN users' = DOMAIN users \cup {req[s].id}
              /\ \A i \in DOMAIN users : users'[i] = users[i]
              /\ users'[req[s].id].name = req[s].name /\ users'[req[s].id].email = req[s].email
           \/ /\ pc[s] = "commit_edit" /\ HasWritten(s) /\ row[s] # 0 /\ row[s] \in DOMAIN users
              /\ DOMAIN users' = DOMAIN users
              /\ \A i \in DOMAIN users \ {row[s]} : users'[i] = users[i]
              /\ users'[row[s]].name = users[row[s]].name /\ users'[row[s]].email = req[s].email
  <1>0. TypeOK
    BY DEF IInv
  <1>1. CASE StoreUser(s)
    <2>1. req[s].id \notin DOMAIN users
      BY <1>1 DEF StoreUser, IInv, IdsAreFresh, RegisterSteps
    <2>2. QED
      BY <1>1, <2>1 DEF StoreUser, HasWritten, RowOf
  <1>2. CASE StoreEdit(s)
    <2>1. row[s] # 0 /\ users' = [users EXCEPT ![row[s]] = RowOf(req[s])]
      BY <1>2 DEF StoreEdit
    <2>2. row[s] \in DOMAIN users /\ users[row[s]].name = req[s].name
      BY <1>2, <2>1 DEF StoreEdit, IInv, EditsOwnRow, EditSteps
    <2>3. QED
      BY <1>0, <1>2, <2>1, <2>2 DEF StoreEdit, HasWritten, RowOf, TypeOK
  <1>3. QED
    BY <1>0, <1>1, <1>2, AfterStore

LEMMA StepUnique == ASSUME IInv, NEW s \in Servers, Act(s) PROVE UniqueUsers'
  <1>0. TypeOK /\ UniqueUsers
    BY DEF IInv
  <1>1. CASE users' = users
    BY <1>0, <1>1 DEF UniqueUsers
  <1>2. CASE users' # users
    <2>1. CASE pc[s] = "commit_user"
      <3>1. NameUnused(req[s].name) /\ EmailUnused(req[s].email, 0)
        BY <2>1 DEF IInv, ReadyToCommit
      <3>2. 0 \notin DOMAIN users
        BY <1>0 DEF TypeOK
      <3>3. \A j \in DOMAIN users : users[j].name # req[s].name /\ users[j].email # req[s].email
        BY <3>1, <3>2 DEF NameUnused, EmailUnused
      <3>4. /\ DOMAIN users' = DOMAIN users \cup {req[s].id}
            /\ \A i \in DOMAIN users : users'[i] = users[i]
            /\ users'[req[s].id].name = req[s].name /\ users'[req[s].id].email = req[s].email
        BY <1>2, <2>1, Stored
      <3>5. QED
        BY <1>0, <3>3, <3>4 DEF UniqueUsers
    <2>2. CASE pc[s] = "commit_edit"
      <3>1. row[s] # 0 => EmailUnused(req[s].email, row[s])
        BY <2>2 DEF IInv, ReadyToCommit
      <3>2. /\ row[s] # 0 /\ row[s] \in DOMAIN users /\ DOMAIN users' = DOMAIN users
            /\ \A i \in DOMAIN users \ {row[s]} : users'[i] = users[i]
            /\ users'[row[s]].name = users[row[s]].name /\ users'[row[s]].email = req[s].email
        BY <1>2, <2>2, Stored
      <3>3. \A j \in DOMAIN users \ {row[s]} : users[j].email # req[s].email
        BY <3>1, <3>2 DEF EmailUnused
      <3>4. QED
        BY <1>0, <3>2, <3>3 DEF UniqueUsers
    <2>3. QED
      BY <1>2, <2>1, <2>2, Stored
  <1>3. QED
    BY <1>1, <1>2

LEMMA StepAcked == ASSUME IInv, NEW s \in Servers, Act(s) PROVE AckedAccount'
  <1>0. TypeOK /\ AckedAccount /\ ServesItsRequest
    BY DEF IInv
  <1>. DEFINE Acked(t) ==
         /\ status'[t] = 201 => req'[t].id \in DOMAIN users' /\ users'[req'[t].id].name = req'[t].name
         /\ status'[t] = 200 /\ req'[t].op = "login" =>
              row'[t] \in DOMAIN users' /\ users'[row'[t]].name = req'[t].name
  <1>1. ASSUME NEW t \in Servers, t # s, pc'[t] = "respond" PROVE Acked(t)
    <2>1. pc[t] = "respond" /\ UNCHANGED <<status[t], req[t], row[t]>>
      BY <1>0, <1>1, Others
    <2>2. QED
      BY <1>0, <2>1, TableGrows DEF AckedAccount
  <1>2. ASSUME pc'[s] = "respond" PROVE Acked(s)
    <2>1. CASE CommitUser(s)
      <3>1. req' = req /\ status'[s] = 201
        BY <1>0, <2>1 DEF CommitUser, Answer, TypeOK
      <3>2. req[s].id \in DOMAIN users' /\ users'[req[s].id].name = req[s].name
        BY <2>1 DEF CommitUser, StoreUser, RowOf
      <3>3. QED
        BY <3>1, <3>2
    <2>2. CASE Login(s)
      <3>1. PICK r \in Logins :
         /\ req' = [req EXCEPT ![s] = r]
         /\ \/ /\ \E i \in DOMAIN users : /\ users[i].name = r.name /\ users[i].password = r.password
                                          /\ row' = [row EXCEPT ![s] = i]
               /\ Answer(s, 200)
            \/ /\ \A i \in DOMAIN users : users[i].name # r.name \/ users[i].password # r.password
               /\ Answer(s, 400)
               /\ UNCHANGED row
        BY <2>2 DEF Login
      <3>2. users' = users /\ req'[s] = r /\ status'[s] # 201
        BY <1>0, <2>2, <3>1 DEF Login, Answer, TypeOK
      <3>3. status'[s] = 200 => row'[s] \in DOMAIN users /\ users[row'[s]].name = r.name
        BY <1>0, <3>1 DEF Answer, TypeOK
      <3>4. QED
        BY <3>2, <3>3
    <2>3. CASE CommitEdit(s)
      <3>1. req[s] \in Edits /\ req' = req /\ status'[s] = 200
        BY <1>0, <2>3 DEF CommitEdit, StoreEdit, Answer, TypeOK, ServesItsRequest, EditSteps
      <3>2. QED
        BY <3>1 DEF Edits
    <2>4. CASE Malformed(s) \/ InsertUser(s) \/ WriteEmail(s) \/ BreakDeadlock(s) \/ Rollback(s) \/ CommitUnanswered(s)
      <3>1. status'[s] \in {400, 500}
        <4>1. (\E code \in {400, 500} : Answer(s, code)) \/ pc'[s] # "respond"
          BY <1>0, <2>4 DEF Malformed, InsertUser, WriteEmail, BreakDeadlock, Rollback, CommitUnanswered,
                            Goto, TypeOK
        <4>2. QED
          BY <1>0, <1>2, <4>1 DEF Answer, TypeOK
      <3>2. QED
        BY <3>1
    <2>5. CASE Register(s) \/ EditUser(s) \/ UpdateRow(s) \/ Respond(s) \/ Restart(s)
      BY <1>0, <1>2, <2>5 DEF Register, EditUser, UpdateRow, Respond, Restart, Goto, TypeOK
    <2>6. CASE Crash(s) \/ CrashInCommit(s)
      BY <1>0, <1>2, <2>6 DEF Crash, CrashInCommit, Die, TypeOK
    <2>7. QED
      BY <2>1, <2>2, <2>3, <2>4, <2>5, <2>6 DEF Act, Arrive, Handle, Fail
  <1>3. QED
    BY <1>1, <1>2 DEF AckedAccount

\* The keys that a step of s leaves s about to commit.
LEMMA OwnKeys ==
    ASSUME IInv, NEW s \in Servers, Act(s)
    PROVE  /\ pc'[s] = "commit_user" =>
                /\ users' = users /\ req'[s] = req[s] /\ row'[s] = row[s]
                /\ NameUnused(req[s].name) /\ NameHolders(s, req[s].name) = {}
                /\ EmailUnused(req[s].email, 0) /\ EmailHolders(s, req[s].email) = {}
           /\ pc'[s] = "commit_edit" /\ row'[s] # 0 =>
                /\ users' = users /\ req'[s] = req[s] /\ row'[s] = row[s]
                /\ EmailUnused(req[s].email, row[s]) /\ EmailHolders(s, req[s].email) = {}
  <1>0. TypeOK /\ ServesItsRequest
    BY DEF IInv
  <1>1. ASSUME pc'[s] = "commit_user"
        PROVE  InsertUser(s) /\ NameUnused(req[s].name) /\ EmailUnused(req[s].email, 0)
    BY <1>0, <1>1, Moves
  <1>2. ASSUME pc'[s] = "commit_edit", row'[s] # 0 PROVE WriteEmail(s) /\ EmailUnused(req[s].email, row[s])
    <2>1. CASE UpdateRow(s) /\ row' = row
      BY <1>0, <1>2, <2>1 DEF UpdateRow, ServesItsRequest
    <2>2. QED
      BY <1>0, <1>2, <2>1, Moves
  <1>3. QED
    BY <1>1, <1>2 DEF InsertUser, WriteEmail

LEMMA StepReady == ASSUME IInv, NEW s \in Servers, Act(s) PROVE ReadyToCommit'
  <1>0. TypeOK /\ ReadyToCommit /\ EditsOwnRow /\ IdsAreFresh
    BY DEF IInv
  <1>. DEFINE Free(t) ==
         /\ pc'[t] = "commit_user" =>
              /\ \A j \in DOMAIN users' : users'[j].name # req'[t].name /\ users'[j].email # req'[t].email
              /\ \A u \in Servers \ {t} : pc'[u] = "commit_user" => req'[u].name # req'[t].name
         /\ pc'[t] = "commit_edit" /\ row'[t] # 0 =>
              \A j \in DOMAIN users' \ {row'[t]} : users'[j].email # req'[t].email
         /\ HasWritten(t)' =>
              \A u \in Servers \ {t} : HasWritten(u)' => req'[u].email # req'[t].email
  <1>1. 0 \notin DOMAIN users /\ 0 \notin DOMAIN users'
    BY <1>0, TableGrows DEF TypeOK
  <1>2. Free(s)
    <2>1. \A u \in Servers \ {s} :
            /\ pc'[u] = pc[u] /\ req'[u] = req[u] /\ (HasWritten(u)' <=> HasWritten(u))
      BY <1>0, Others DEF HasWritten
    <2>2. CASE pc'[s] = "commit_user"
      BY <1>1, <2>1, <2>2, OwnKeys DEF NameUnused, EmailUnused, NameHolders, EmailHolders
    <2>3. CASE pc'[s] = "commit_edit" /\ row'[s] # 0
      BY <1>1, <2>1, <2>3, OwnKeys DEF EmailUnused, EmailHolders
    <2>4. QED
      BY <2>2, <2>3 DEF HasWritten
  <1>3. ASSUME NEW t \in Servers, t # s PROVE Free(t)
    <2>1. /\ pc'[t] = pc[t] /\ req'[t] = req[t] /\ row'[t] = row[t]
          /\ (HasWritten(t)' <=> HasWritten(t))
      BY <1>0, <1>3, Others DEF HasWritten
    <2>2. HasWritten(t) /\ HasWritten(s) => req[s].email # req[t].email
      BY <1>0, <1>3 DEF ReadyToCommit
    <2>3. ASSUME pc[t] = "commit_user"
          PROVE  /\ \A j \in DOMAIN users' : users'[j].name # req[t].name /\ users'[j].email # req[t].email
                 /\ \A u \in Servers \ {t} : pc'[u] = "commit_user" => req'[u].name # req[t].name
      <3>1. /\ \A j \in DOMAIN users : users[j].name # req[t].name /\ users[j].email # req[t].email
            /\ \A u \in Servers \ {t} : pc[u] = "commit_user" => req[u].name # req[t].name
        BY <1>0, <1>1, <2>3 DEF ReadyToCommit, NameUnused, EmailUnused, NameHolders
      <3>2. HasWritten(t)
        BY <2>3 DEF HasWritten
      <3>3. \A j \in DOMAIN users' : users'[j].name # req[t].name /\ users'[j].email # req[t].email
        <4>1. CASE users' = users
          BY <3>1, <4>1
        <4>2. CASE users' # users
          <5>1. HasWritten(s) /\ req[s].email # req[t].email
            BY <2>2, <3>2, <4>2, Stored
          <5>2. CASE pc[s] = "commit_user"
            <6>1. req[s].name # req[t].name
              BY <1>3, <3>1, <5>2
            <6>2. QED
              BY <3>1, <4>2, <5>1, <5>2, <6>1, Stored
          <5>3. CASE pc[s] = "commit_edit"
            <6>1. /\ row[s] \in DOMAIN users /\ DOMAIN users' = DOMAIN users
                  /\ \A i \in DOMAIN users \ {row[s]} : users'[i] = users[i]
                  /\ users'[row[s]].name = users[row[s]].name /\ users'[row[s]].email = req[s].email
              BY <4>2, <5>3, Stored
            <6>2. QED
              BY <3>1, <5>1, <6>1
          <5>4. QED
            BY <4>2, <5>2, <5>3, Stored
        <4>3. QED
          BY <4>1, <4>2
      <3>4. ASSUME NEW u \in Servers \ {t}, pc'[u] = "commit_user" PROVE req'[u].name # req[t].name
        <4>1. CASE u = s
          BY <1>3, <2>3, <3>4, <4>1, OwnKeys DEF NameHolders
        <4>2. CASE u # s
          BY <1>0, <3>1, <3>4, <4>2, Others
        <4>3. QED
          BY <4>1, <4>2
      <3>5. QED
        BY <3>3, <3>4
    <2>4. ASSUME pc[t] = "commit_edit", row[t] # 0
          PROVE  \A j \in DOMAIN users' \ {row[t]} : users'[j].email # req[t].email
      <3>1. \A j \in DOMAIN users \ {row[t]} : users[j].email # req[t].email
        BY <1>0, <2>4 DEF ReadyToCommit, EmailUnused
      <3>2. HasWritten(t)
        BY <2>4 DEF HasWritten
      <3>3. CASE users' = users
        BY <3>1, <3>3
      <3>4. CASE users' # users
        <4>1. HasWritten(s) /\ req[s].email # req[t].email
          BY <2>2, <3>2, <3>4, Stored
        <4>2. CASE pc[s] = "commit_user"
          BY <3>1, <3>4, <4>1, <4>2, Stored
        <4>3. CASE pc[s] = "commit_edit"
          <5>1. /\ row[s] \in DOMAIN users /\ DOMAIN users' = DOMAIN users
                /\ \A i \in DOMAIN users \ {row[s]} : users'[i] = users[i]
                /\ users'[row[s]].name = users[row[s]].name /\ users'[row[s]].email = req[s].email
            BY <3>4, <4>3, Stored
          <5>2. QED
            BY <3>1, <4>1, <5>1
        <4>4. QED
          BY <3>4, <4>2, <4>3, Stored
      <3>5. QED
        BY <3>3, <3>4
    <2>5. ASSUME HasWritten(t), NEW u \in Servers \ {t}, HasWritten(u)' PROVE req'[u].email # req[t].email
      <3>1. CASE u = s
        <4>1. pc'[s] = "commit_user" \/ (pc'[s] = "commit_edit" /\ row'[s] # 0)
          BY <2>5, <3>1 DEF HasWritten
        <4>2. req'[s] = req[s] /\ EmailHolders(s, req[s].email) = {}
          BY <4>1, OwnKeys
        <4>3. QED
          BY <1>3, <2>5, <3>1, <4>2 DEF EmailHolders
      <3>2. CASE u # s
        <4>1. HasWritten(u) /\ req'[u] = req[u]
          BY <1>0, <2>5, <3>2, Others DEF HasWritten
        <4>2. QED
          BY <1>0, <2>5, <4>1 DEF ReadyToCommit
      <3>3. QED
        BY <3>1, <3>2
    <2>6. QED
      BY <2>1, <2>3, <2>4, <2>5
  <1>4. \A t \in Servers : Free(t)
    BY <1>2, <1>3
  <1>5. QED
    BY <1>4 DEF ReadyToCommit, NameUnused, EmailUnused, NameHolders

-----------------------------------------------------------------------------
\* The inductive invariant: what a transaction has been given by the indexes
\* stays its own until it commits.
THEOREM AccountInvariance == Spec => []IInv
  <1>1. Init => IInv
    BY InitInv
  <1>2. ASSUME IInv, [Next]_vars PROVE IInv'
    <2>1. ASSUME NEW s \in Servers, Act(s) PROVE IInv'
      BY <1>2, <2>1, StepType, StepServes, StepFresh, StepOwnRow, StepReady, StepUnique, StepAcked DEF IInv
    <2>2. CASE UNCHANGED vars
      BY <1>2, <2>2 DEF vars, handler, IInv, TypeOK, ServesItsRequest, IdsAreFresh, EditsOwnRow,
         ReadyToCommit, UniqueUsers, AckedAccount, RowHolders, NameHolders, NameUnused, EmailUnused,
         HasWritten
    <2>3. QED
      BY <1>2, <2>1, <2>2 DEF Next, Act
  <1>3. QED
    BY <1>1, <1>2, PTL DEF Spec

\* The variables keep their types.
THEOREM AccountsTypeCorrect == Spec => []TypeOK
  <1>1. IInv => TypeOK
    BY DEF IInv
  <1>2. QED
    BY <1>1, AccountInvariance, PTL

\* No two users share a name or an address, in any interleaving of processes.
THEOREM UsersAreUnique == Spec => []UniqueUsers
  <1>1. IInv => UniqueUsers
    BY DEF IInv
  <1>2. QED
    BY <1>1, AccountInvariance, PTL

\* Success is answered only for an account that is there.
THEOREM AckedAccountIsThere == Spec => []AckedAccount
  <1>1. IInv => AckedAccount
    BY DEF IInv
  <1>2. QED
    BY <1>1, AccountInvariance, PTL

\* An id never changes its owner.
THEOREM IdsAreForLife == Spec => IdsKeepTheirName
  <1>1. IInv /\ [Next]_vars =>
          [\A i \in DOMAIN users : i \in DOMAIN users' /\ users'[i].name = users[i].name]_vars
    BY TableGrows DEF Next, Act
  <1>2. QED
    BY <1>1, AccountInvariance, PTL DEF Spec, IdsKeepTheirName

-----------------------------------------------------------------------------
(* Waiting *)

\* Who is waited for and waits himself has locked a row and not yet got the
\* address he moves to.
LEMMA WaitersInWay == ASSUME NEW s \in Servers, NEW t \in WaitsFor(s), WaitsFor(t) # {}
                      PROVE  pc[t] = "write_email"
  <1>1. pc[t] \in {"commit_user", "write_email", "commit_edit"}
    BY DEF WaitsFor, NameHolders, EmailHolders, RowHolders, HasWritten, IsLeaving
  <1>2. pc[t] \in {"insert_user", "write_email", "update_row"}
    BY DEF WaitsFor
  <1>3. QED
    BY <1>1, <1>2

\* Every circle of waiting transactions is one that BreakDeadlock ends: all are
\* edits that wait for the address of another, for any number of processes.
THEOREM CirclesAlwaysEdits == Spec => []CirclesAreEdits
  <1>1. CirclesAreEdits
    <2> SUFFICES ASSUME NEW D \in SUBSET Servers, Circle(D), NEW s \in D PROVE pc[s] = "write_email"
      BY DEF CirclesAreEdits
    <2>1. PICK t \in D : s \in WaitsFor(t)
      BY DEF Circle
    <2>2. WaitsFor(s) # {}
      BY DEF Circle
    <2>3. QED
      BY <2>1, <2>2, WaitersInWay
  <1>2. QED
    BY <1>1, PTL

-----------------------------------------------------------------------------
(* The refinement *)

\* What a COMMIT writes was still free, although others ran since the indexes
\* were asked: the registration is one of the registry.
LEMMA StoreUserIsRegister ==
    ASSUME IInv, NEW s \in Servers, StoreUser(s)
    PROVE  Reg!Next
  <1>1. req[s] \in Registrations /\ req[s].id \notin DOMAIN users
    BY DEF StoreUser, IInv, ServesItsRequest, IdsAreFresh, RegisterSteps
  <1>2. NameUnused(req[s].name) /\ EmailUnused(req[s].email, 0)
    BY DEF StoreUser, IInv, ReadyToCommit
  <1>3. PICK i \in Ids, n \in Names, e \in Emails, w \in Passwords :
           i = req[s].id /\ n = req[s].name /\ e = req[s].email /\ w = req[s].password
    BY <1>1 DEF Registrations
  <1>4. 0 \notin DOMAIN users
    BY DEF IInv, TypeOK
  <1>5. (\A j \in DOMAIN users : users[j].name # n) /\ Reg!Leave(DOMAIN users, e)
    BY <1>2, <1>3, <1>4 DEF NameUnused, EmailUnused, Reg!Leave
  <1>6. Reg!Register(i, n, e, w)
    BY <1>1, <1>3, <1>5 DEF Reg!Register, StoreUser, RowOf
  <1>7. QED
    BY <1>6 DEF Reg!Next

\* Setting two fields of a row leaves its name.
LEMMA EditedRow ==
    ASSUME NEW u \in UserRows, NEW e \in Emails, NEW w \in Passwords
    PROVE  [u EXCEPT !.email = e, !.password = w] = [name |-> u.name, email |-> e, password |-> w]
  <1>1. PICK x \in UserRows : x = [u EXCEPT !.email = e]
    BY DEF UserRows
  <1>2. x = [name |-> u.name, email |-> e, password |-> u.password]
    BY <1>1 DEF UserRows
  <1>3. [x EXCEPT !.password = w] = [name |-> x.name, email |-> x.email, password |-> w]
    BY DEF UserRows
  <1>4. QED
    BY <1>1, <1>2, <1>3

\* A COMMIT of an edit changes the address and password of one row to those of
\* the request, and its name not at all.
LEMMA StoreEditIsEdit ==
    ASSUME IInv, NEW s \in Servers, StoreEdit(s)
    PROVE  Reg!Next \/ UNCHANGED users
  <1>1. CASE row[s] = 0
    BY <1>1 DEF StoreEdit
  <1>2. CASE row[s] # 0
    <2>1. req[s] \in Edits /\ users' = [users EXCEPT ![row[s]] = RowOf(req[s])]
      BY <1>2 DEF StoreEdit, IInv, ServesItsRequest, EditSteps
    <2>2. row[s] \in DOMAIN users /\ users[row[s]].name = req[s].name
      BY <1>2 DEF StoreEdit, IInv, EditsOwnRow, EditSteps
    <2>3. EmailUnused(req[s].email, row[s])
      BY <1>2 DEF StoreEdit, IInv, ReadyToCommit
    <2>4. PICK i \in Ids, e \in Emails, w \in Passwords :
             i = row[s] /\ e = req[s].email /\ w = req[s].password
      BY <2>1, <2>2 DEF Edits, IInv, TypeOK
    <2>5. users[i] \in UserRows /\ users \in [DOMAIN users -> UserRows]
      BY <2>2, <2>4 DEF IInv, TypeOK
    <2>6. [users[i] EXCEPT !.email = e, !.password = w] = RowOf(req[s])
      BY <2>2, <2>4, <2>5, EditedRow DEF RowOf
    <2>7. users' = [users EXCEPT ![i].email = e, ![i].password = w]
      BY <2>1, <2>2, <2>4, <2>5, <2>6
    <2>8. Reg!Leave(DOMAIN users \ {i}, e)
      BY <2>3, <2>4 DEF EmailUnused, Reg!Leave
    <2>9. Reg!Edit(i, e, w)
      BY <2>2, <2>4, <2>7, <2>8 DEF Reg!Edit
    <2>10. QED
      BY <2>9 DEF Reg!Next
  <1>3. QED
    BY <1>1, <1>2

\* Any number of processes implement the registry: each COMMIT is one of its
\* operations, and refusals, deadlocks, lost links and crashes are none.
THEOREM AccountsImplementRegistry == Spec => ImplementsRegistry
  <1>1. Init => Reg!Init
    BY DEF Init, Reg!Init
  <1>2. IInv /\ [Next]_vars => [Reg!Next]_users
    <2> SUFFICES ASSUME IInv, [Next]_vars PROVE Reg!Next \/ UNCHANGED users
      OBVIOUS
    <2>1. ASSUME NEW s \in Servers, Act(s) PROVE Reg!Next \/ UNCHANGED users
      BY <2>1, Effect, StoreUserIsRegister, StoreEditIsEdit
    <2>2. QED
      BY <2>1 DEF Next, Act, vars
  <1>3. QED
    BY <1>1, <1>2, AccountInvariance, PTL DEF Spec, ImplementsRegistry, Reg!Spec
=============================================================================
