------------------------------ MODULE Registry ------------------------------
(***************************************************************************)
(* What BidNet promises about its accounts, with no server, transaction or *)
(* failure in sight: a table of users that changes in two atomic ways.     *)
(* Accounts implements it, whatever the number of server processes.        *)
(***************************************************************************)
EXTENDS Integers

CONSTANTS Ids, Names, Emails, Passwords

VARIABLE users  \* accounts by id

Init == users = [i \in {} |-> {}]

\* The accounts in S leave the address to others.
Leave(S, email) == \A j \in S : users[j].email # email

\* Somebody gets an account of a new id, with a name and an address of his own.
Register(i, name, email, password) ==
    /\ i \notin DOMAIN users
    /\ \A j \in DOMAIN users : users[j].name # name
    /\ Leave(DOMAIN users, email)
    /\ users' = [j \in DOMAIN users \cup {i} |->
                   IF j = i THEN [name |-> name, email |-> email, password |-> password]
                   ELSE users[j]]

\* A user changes his address, to one that is not taken, and his password.
Edit(i, email, password) ==
    /\ i \in DOMAIN users
    /\ Leave(DOMAIN users \ {i}, email)
    /\ users' = [users EXCEPT ![i].email = email, ![i].password = password]

Next ==
    \E i \in Ids, e \in Emails, w \in Passwords :
        Edit(i, e, w) \/ \E n \in Names : Register(i, n, e, w)

Spec == Init /\ [][Next]_users
=============================================================================
