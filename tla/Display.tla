------------------------------ MODULE Display -------------------------------
(***************************************************************************)
(* What the auction pages promise to those who look at them: the price     *)
(* only rises, a page shows a price that the item has really had, and on a *)
(* page that only watches the price never goes back.  How a page learns of *)
(* a price, and when, is left open.                                        *)
(***************************************************************************)
EXTENDS Integers

CONSTANTS
    Pages,
    Watchers,  \* pages that only watch
    Start      \* starting price, in cents

VARIABLES
    price,    \* the item's price
    history,  \* the prices it has had
    shown     \* shown[p]: the price that p shows, {} while it loads

vars == <<price, history, shown>>

Init ==
    /\ price = Start
    /\ history = {Start}
    /\ shown = [p \in Pages |-> {}]

Raise ==
    /\ price' \in Int /\ price' >= price
    /\ history' = history \cup {price'}
    /\ UNCHANGED shown

Show(p, v) ==
    /\ p \in Watchers => \A w \in shown[p] : w <= v
    /\ shown' = [shown EXCEPT ![p] = {v}]
    /\ UNCHANGED <<price, history>>

Next == Raise \/ \E p \in Pages : \E v \in history : Show(p, v)

Spec == Init /\ [][Next]_vars
=============================================================================
