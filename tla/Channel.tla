------------------------------ MODULE Channel -------------------------------
(***************************************************************************)
(* What the pages of BidNet rely on (AuctionDetail.tsx): an open socket is *)
(* told of every broadcast made since it was opened, once and in order,    *)
(* after the answer that opened it.  A page that leaves is owed nothing.   *)
(***************************************************************************)
EXTENDS Naturals, Sequences

CONSTANTS Conns, MaxCasts

VARIABLES
    listed,  \* the connections a broadcast is for
    casts,   \* the number of broadcasts; a broadcast is known by its number
    due,     \* due[c]: what c is still owed, in order
    got      \* got[c]: what c has received, in order

vars == <<listed, casts, due, got>>

\* The answer that opens a socket, "101 Switching Protocols".
Hello == 0

Init ==
    /\ listed = {}
    /\ casts = 0
    /\ due = [c \in Conns |-> <<>>]
    /\ got = [c \in Conns |-> <<>>]

Join(c) ==
    /\ c \notin listed
    /\ got[c] = <<>>
    /\ listed' = listed \cup {c}
    /\ due' = [due EXCEPT ![c] = <<Hello>>]
    /\ UNCHANGED <<casts, got>>

Publish ==
    /\ casts < MaxCasts
    /\ casts' = casts + 1
    /\ due' = [c \in Conns |-> IF c \in listed THEN Append(due[c], casts + 1)
                                                ELSE due[c]]
    /\ UNCHANGED <<listed, got>>

\* The first n of what is due arrive together.
Hear(c, n) ==
    /\ c \in listed
    /\ n \in 1 .. Len(due[c])
    /\ got' = [got EXCEPT ![c] = @ \o SubSeq(due[c], 1, n)]
    /\ due' = [due EXCEPT ![c] = SubSeq(@, n + 1, Len(@))]
    /\ UNCHANGED <<listed, casts>>

Leave(c) ==
    /\ c \in listed
    /\ listed' = listed \ {c}
    /\ due' = [due EXCEPT ![c] = <<>>]
    /\ UNCHANGED <<casts, got>>

Next ==
    \/ Publish
    \/ \E c \in Conns : Join(c) \/ Leave(c) \/ \E n \in 1 .. Len(due[c]) : Hear(c, n)

Spec == Init /\ [][Next]_vars
=============================================================================
