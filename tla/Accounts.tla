------------------------------ MODULE Accounts ------------------------------
(***************************************************************************)
(* The account handlers register, edit_user and login of server/main.cpp,  *)
(* run by several server processes against one table of users.             *)
(*                                                                         *)
(* The handlers check nothing themselves: they send one statement and rely *)
(* on the UNIQUE columns username and email.  As in BidServer, a handler   *)
(* is a step per statement, except that the UPDATE of edit_user is two:    *)
(* it locks the row and then enters the new address into the index, and    *)
(* PostgreSQL may make it wait at either.  A transaction's writes appear   *)
(* at COMMIT, and what it holds until then follows from its step.          *)
(***************************************************************************)
EXTENDS Integers, FiniteSets

CONSTANTS
    Servers,   \* server processes sharing the database
    Ids,       \* ids the table users may give; bounds the registrations
    Names,     \* user names
    Emails,    \* addresses
    Passwords

ASSUME IdAssumption == Ids \subseteq Nat \ {0}

VARIABLES
    users,   \* table users: a function from the ids in use to rows
    pc,      \* pc[s]: what the handler of s does next
    req,     \* req[s]: the request s is serving
    row,     \* row[s]: id of the row that UPDATE or SELECT found, 0 for none
    status   \* status[s]: the HTTP status s is about to send

handler == <<pc, req, row, status>>
vars == <<users, handler>>

NoRequest == [op |-> "none"]
Registrations == [op : {"register"}, id : Ids, name : Names, email : Emails, password : Passwords]
Edits == [op : {"edit"}, name : Names, email : Emails, password : Passwords]
Logins == [op : {"login"}, name : Names, password : Passwords]

UserRows == [name : Names, email : Emails, password : Passwords]
RegisterSteps == {"insert_user", "commit_user"}
EditSteps == {"update_row", "write_email", "commit_edit"}

Init ==
    /\ users = [i \in {} |-> {}]
    /\ pc = [s \in Servers |-> "idle"]
    /\ req = [s \in Servers |-> NoRequest]
    /\ row = [s \in Servers |-> 0]
    /\ status = [s \in Servers |-> 0]

Goto(s, step) == pc' = [pc EXCEPT ![s] = step] /\ UNCHANGED status
Answer(s, code) == pc' = [pc EXCEPT ![s] = "respond"] /\ status' = [status EXCEPT ![s] = code]

-----------------------------------------------------------------------------
(* What transactions hold *)

\* A bug: a registration reserves its name and address by a statement of its own.
HasReserved(t) ==
    pc[t] \in {"insert_user", "commit_user"} \/ (pc[t] = "commit_edit" /\ row[t] # 0)

\* t has inserted or updated a row and not committed yet.
HasWritten(t) == pc[t] = "commit_user" \/ (pc[t] = "commit_edit" /\ row[t] # 0)

\* t has updated a row that had the address, and not committed yet.
IsLeaving(t, email) ==
    /\ pc[t] \in {"write_email", "commit_edit"} /\ row[t] # 0
    /\ users[row[t]].email = email

\* A bug: addresses are compared with committed rows, and no index holds a new one.
NoEmailHolders(s, email) == {}

\* The transactions whose end decides whether s may use the address.
EmailHolders(s, email) == {t \in Servers \ {s} :
    (HasWritten(t) /\ req[t].email = email) \/ IsLeaving(t, email)}

NameHolders(s, name) == {t \in Servers \ {s} : pc[t] = "commit_user" /\ req[t].name = name}

RowHolders(s, i) == {t \in Servers \ {s} : pc[t] \in {"write_email", "commit_edit"} /\ row[t] = i}

\* A bug: the column is not UNIQUE.
EmailShared(email, i) == TRUE

\* Nobody but the owner of row i has the address.
EmailUnused(email, i) == \A j \in DOMAIN users \ {i} : users[j].email # email

NameUnused(name) == \A j \in DOMAIN users : users[j].name # name

-----------------------------------------------------------------------------
(* POST /register *)

\* Not JSON: 400.  A field is missing: the handler throws, 500.
Malformed(s) ==
    /\ pc[s] = "idle"
    /\ \E code \in {400, 500} : Answer(s, code)
    /\ UNCHANGED <<users, req, row>>

FreshId(i) == i \notin DOMAIN users /\ \A t \in Servers : req[t].op = "register" => req[t].id # i

Register(s) ==
    /\ pc[s] = "idle"
    /\ \E r \in Registrations : FreshId(r.id) /\ req' = [req EXCEPT ![s] = r]
    /\ Goto(s, "insert_user")
    /\ UNCHANGED <<users, row>>

InsertUser(s) ==
    /\ pc[s] = "insert_user"
    /\ NameHolders(s, req[s].name) = {} /\ EmailHolders(s, req[s].email) = {}
    /\ LET ok == NameUnused(req[s].name) /\ EmailUnused(req[s].email, 0) IN
         \/ ok /\ Goto(s, "commit_user")
         \/ ~ok /\ Answer(s, 500)
    /\ UNCHANGED <<users, req, row>>

RowOf(r) == [name |-> r.name, email |-> r.email, password |-> r.password]

StoreUser(s) ==
    /\ pc[s] = "commit_user"
    /\ users' = [i \in DOMAIN users \cup {req[s].id} |->
                   IF i = req[s].id THEN RowOf(req[s]) ELSE users[i]]

\* A bug: no COMMIT.
ForgetCommitUser(s) == pc[s] = "commit_user" /\ Answer(s, 201) /\ UNCHANGED <<users, req, row>>

CommitUser(s) == StoreUser(s) /\ Answer(s, 201) /\ UNCHANGED <<req, row>>

-----------------------------------------------------------------------------
(* PUT /edit_user *)

EditUser(s) ==
    /\ pc[s] = "idle"
    /\ \E r \in Edits : req' = [req EXCEPT ![s] = r]
    /\ Goto(s, "update_row")
    /\ UNCHANGED <<users, row>>

\* A bug: the row is looked up by the address, and its name set.
UpdateRowByEmail(s) ==
    /\ pc[s] = "update_row"
    /\ \/ EmailUnused(req[s].email, 0) /\ Goto(s, "commit_edit") /\ UNCHANGED row
       \/ /\ \E i \in DOMAIN users : /\ users[i].email = req[s].email
                                     /\ RowHolders(s, i) = {}
                                     /\ row' = [row EXCEPT ![s] = i]
          /\ Goto(s, "write_email")
    /\ UNCHANGED <<users, req>>

\* WHERE username = ...: nothing to update, or one row, once it is free.
UpdateRow(s) ==
    /\ pc[s] = "update_row"
    /\ \/ NameUnused(req[s].name) /\ Goto(s, "commit_edit") /\ UNCHANGED row
       \/ /\ \E i \in DOMAIN users : /\ users[i].name = req[s].name
                                     /\ RowHolders(s, i) = {}
                                     /\ row' = [row EXCEPT ![s] = i]
          /\ Goto(s, "write_email")
    /\ UNCHANGED <<users, req>>

\* A bug: an address that is taken is waited for.
WriteEmailOrRetry(s) ==
    /\ pc[s] = "write_email"
    /\ EmailHolders(s, req[s].email) = {}
    /\ EmailUnused(req[s].email, row[s]) /\ Goto(s, "commit_edit")
    /\ UNCHANGED <<users, req, row>>

WriteEmail(s) ==
    /\ pc[s] = "write_email"
    /\ EmailHolders(s, req[s].email) = {}
    /\ LET ok == EmailUnused(req[s].email, row[s]) IN
         \/ ok /\ Goto(s, "commit_edit")
         \/ ~ok /\ Answer(s, 500)
    /\ UNCHANGED <<users, req, row>>

\* Two users who swap addresses wait for each other; PostgreSQL finds out and
\* aborts one that waits in the circle D.
BreakDeadlock(s) ==
    /\ \E D \in SUBSET Servers :
         /\ s \in D
         /\ \A t \in D : /\ pc[t] = "write_email"
                         /\ EmailHolders(t, req[t].email) \cap D # {}
                         /\ \E u \in D : t \in EmailHolders(u, req[u].email)
    /\ Answer(s, 500)
    /\ UNCHANGED <<users, req, row>>

StoreEdit(s) ==
    /\ pc[s] = "commit_edit"
    /\ \/ row[s] = 0 /\ UNCHANGED users
       \/ row[s] # 0 /\ users' = [users EXCEPT ![row[s]] = RowOf(req[s])]

\* The handler does not ask how many rows it updated.
CommitEdit(s) == StoreEdit(s) /\ Answer(s, 200) /\ UNCHANGED <<req, row>>

-----------------------------------------------------------------------------
(* POST /login *)

\* A bug: a user who is not found is answered 404.
LoginNotFound(s) ==
    /\ pc[s] = "idle"
    /\ \E r \in Logins : NameUnused(r.name) /\ req' = [req EXCEPT ![s] = r]
    /\ Answer(s, 404)
    /\ UNCHANGED <<users, row>>

\* One SELECT by name, and the password compared as it is stored.
Login(s) ==
    /\ pc[s] = "idle"
    /\ \E r \in Logins :
         /\ req' = [req EXCEPT ![s] = r]
         /\ \/ /\ \E i \in DOMAIN users : /\ users[i].name = r.name /\ users[i].password = r.password
                                          /\ row' = [row EXCEPT ![s] = i]
               /\ Answer(s, 200)
            \/ /\ \A i \in DOMAIN users : users[i].name # r.name \/ users[i].password # r.password
               /\ Answer(s, 400)
               /\ UNCHANGED row
    /\ UNCHANGED users

-----------------------------------------------------------------------------
(* Ends of requests, and failures *)

Respond(s) ==
    /\ pc[s] = "respond"
    /\ pc' = [pc EXCEPT ![s] = "idle"]
    /\ req' = [req EXCEPT ![s] = NoRequest]
    /\ row' = [row EXCEPT ![s] = 0]
    /\ status' = [status EXCEPT ![s] = 0]
    /\ UNCHANGED users

\* A statement fails, or the link breaks: rollback, and 500.
Rollback(s) ==
    /\ pc[s] \in RegisterSteps \cup EditSteps
    /\ Answer(s, 500)
    /\ UNCHANGED <<users, req, row>>

\* The link breaks once COMMIT is done.
CommitUnanswered(s) == (StoreUser(s) \/ StoreEdit(s)) /\ Answer(s, 500) /\ UNCHANGED <<req, row>>

Die(s) ==
    /\ pc' = [pc EXCEPT ![s] = "down"]
    /\ req' = [req EXCEPT ![s] = NoRequest]
    /\ row' = [row EXCEPT ![s] = 0]
    /\ status' = [status EXCEPT ![s] = 0]

Crash(s) == pc[s] # "down" /\ Die(s) /\ UNCHANGED users

CrashInCommit(s) == (StoreUser(s) \/ StoreEdit(s)) /\ Die(s)

Restart(s) == pc[s] = "down" /\ Goto(s, "idle") /\ UNCHANGED <<users, req, row>>

-----------------------------------------------------------------------------
Arrive(s) == Malformed(s) \/ Register(s) \/ EditUser(s) \/ Login(s)

Handle(s) ==
    InsertUser(s) \/ CommitUser(s) \/ UpdateRow(s) \/ WriteEmail(s) \/ CommitEdit(s) \/ Respond(s)

Fail(s) == Rollback(s) \/ CommitUnanswered(s) \/ Crash(s) \/ CrashInCommit(s) \/ Restart(s)

Next == \E s \in Servers : Arrive(s) \/ Handle(s) \/ BreakDeadlock(s) \/ Fail(s)

Spec == Init /\ [][Next]_vars

\* A handler that can run its next statement does (the database queues those
\* that wait), and a circle of waiting transactions is broken at last.
Fairness == \A s \in Servers : SF_vars(Handle(s)) /\ SF_vars(BreakDeadlock(s))

FairSpec == Spec /\ Fairness

-----------------------------------------------------------------------------
(* Properties *)

\* The values the variables take.
TypeOK ==
    /\ DOMAIN users \subseteq Ids
    /\ users \in [DOMAIN users -> UserRows]
    /\ pc \in [Servers -> {"idle", "respond", "down"} \cup RegisterSteps \cup EditSteps]
    /\ req \in [Servers -> {NoRequest} \cup Registrations \cup Edits \cup Logins]
    /\ row \in [Servers -> Ids \cup {0}]
    /\ status \in [Servers -> {0, 200, 201, 400, 500}]

\* No two users have the same name or address, although register and
\* edit_user check neither before they write and run in several processes.
UniqueUsers ==
    \A i, j \in DOMAIN users :
        users[i].name = users[j].name \/ users[i].email = users[j].email => i = j

\* Who is told that he is registered has an account, and a login is answered
\* with the id of the account of that name, whatever others do meanwhile.
AckedAccount ==
    \A s \in Servers : pc[s] = "respond" =>
        /\ status[s] = 201 => req[s].id \in DOMAIN users /\ users[req[s].id].name = req[s].name
        /\ status[s] = 200 /\ req[s].op = "login" =>
             row[s] \in DOMAIN users /\ users[row[s]].name = req[s].name

\* An id stays with its name: a page that keeps the id of a user acts for that
\* user after any edit.
IdsKeepTheirName ==
    [][\A i \in DOMAIN users : i \in DOMAIN users' /\ users'[i].name = users[i].name]_vars

\* Those whose transactions s waits for.
WaitsFor(s) ==
    {t \in Servers :
        \/ pc[s] = "insert_user" /\ t \in NameHolders(s, req[s].name)
        \/ pc[s] \in {"insert_user", "write_email"} /\ t \in EmailHolders(s, req[s].email)
        \/ /\ pc[s] = "update_row"
           /\ \E i \in DOMAIN users : users[i].name = req[s].name /\ t \in RowHolders(s, i)}

\* Transactions each of which waits for one of them and is waited for by one.
Circle(D) ==
    /\ D # {}
    /\ \A s \in D : WaitsFor(s) \cap D # {} /\ \E t \in D : s \in WaitsFor(t)

\* Only users who move to each other's addresses can wait in a circle: rows and
\* names are taken in an order that allows none, and no registration is in one.
CirclesAreEdits ==
    \A D \in SUBSET Servers : Circle(D) => \A s \in D : pc[s] = "write_email"

\* Every request is answered unless its process dies, also when two users swap
\* their addresses.
EveryAccountRequestAnswered ==
    \A s \in Servers : pc[s] \in RegisterSteps \cup EditSteps ~> pc[s] \in {"respond", "down"}

Reg == INSTANCE Registry

\* However their statements interleave, wait, fail or are aborted, the
\* processes together are one registry that changes in atomic steps.
ImplementsRegistry == Reg!Spec

(* The inductive invariant behind the safety properties *)

ServesItsRequest ==
    \A s \in Servers :
        /\ pc[s] \in RegisterSteps => req[s] \in Registrations /\ row[s] = 0
        /\ pc[s] \in EditSteps => req[s] \in Edits
        /\ pc[s] \in {"idle", "update_row", "down"} => row[s] = 0
        /\ pc[s] = "write_email" => row[s] # 0

\* The id of a registration is in no row and in no other registration.
IdsAreFresh ==
    \A s \in Servers : pc[s] \in RegisterSteps =>
        /\ req[s].id \notin DOMAIN users
        /\ \A t \in Servers \ {s} : pc[t] \in RegisterSteps => req[t].id # req[s].id

\* The row of an edit carries the name of the request and is nobody else's.
EditsOwnRow ==
    \A s \in Servers : pc[s] \in EditSteps /\ row[s] # 0 =>
        /\ row[s] \in DOMAIN users /\ users[row[s]].name = req[s].name
        /\ RowHolders(s, row[s]) = {}

\* A transaction that is about to commit a name or an address is alone with it.
ReadyToCommit ==
    \A s \in Servers :
        /\ pc[s] = "commit_user" =>
             /\ NameUnused(req[s].name) /\ NameHolders(s, req[s].name) = {}
             /\ EmailUnused(req[s].email, 0)
        /\ pc[s] = "commit_edit" /\ row[s] # 0 => EmailUnused(req[s].email, row[s])
        /\ HasWritten(s) => \A t \in Servers \ {s} : HasWritten(t) => req[t].email # req[s].email

IInv ==
    /\ TypeOK /\ ServesItsRequest /\ IdsAreFresh /\ EditsOwnRow /\ ReadyToCommit
    /\ UniqueUsers /\ AckedAccount
=============================================================================
