---------------------------- MODULE MoneyProofs -----------------------------
(***************************************************************************)
(* Facts about the rounding of amounts, for every amount.                  *)
(***************************************************************************)
EXTENDS Money, TLAPS

\* A column holds a whole number of cents.
LEMMA CentsInt == ASSUME NEW a \in Int PROVE Cents(a) \in Int
  BY DEF Cents

\* A higher amount is never stored as a lower one.
LEMMA CentsMonotone ==
    ASSUME NEW a \in Int, NEW b \in Int, a <= b
    PROVE  Cents(a) <= Cents(b)
  BY DEF Cents

\* A bid above the price (main.cpp:207) is not below it once it is rounded.
LEMMA RoundingKeepsOrder ==
    ASSUME NEW a \in Int, NEW p \in Int, a > Mills(p)
    PROVE  Cents(a) >= p
  BY DEF Cents, Mills

\* A price that was read back is the price that was stored.
LEMMA CentsOfMills == ASSUME NEW c \in Int PROVE Mills(c) \in Int /\ Cents(Mills(c)) = c
  BY DEF Cents, Mills

\* The column rounds to the nearest cent: what is recorded of an offer, and so
\* what a buyer is charged, is at most half a cent from what the request named.
THEOREM CentsIsNearest ==
    ASSUME NEW a \in Int
    PROVE  Mills(Cents(a)) - a <= 5 /\ a - Mills(Cents(a)) <= 5
  BY DEF Cents, Mills
=============================================================================
