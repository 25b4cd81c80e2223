------------------------------- MODULE Money --------------------------------
(***************************************************************************)
(* Amounts of money as BidNet handles them.                                *)
(*                                                                         *)
(* A price column of the database is DECIMAL(10,2): a whole number of      *)
(* cents.  A request carries a double, which can name any fraction of a    *)
(* cent.  An amount in a request is modelled in mills (tenths of a cent):  *)
(* 1..4 mills stand for the fractions that round down, 5..9 for those that *)
(* round up.                                                               *)
(***************************************************************************)
EXTENDS Integers

\* The column's value, in cents, once an amount in mills is written to it:
\* numeric(10,2) rounds half away from zero.
Cents(mills) ==
    IF mills >= 0 THEN (mills + 5) \div 10 ELSE -((5 - mills) \div 10)

\* A stored price read back into a double (row[..].as<double>()), in mills.
Mills(cents) == 10 * cents

\* The column refuses a value whose magnitude needs more digits than it has:
\* limit is 10^10 cents for DECIMAL(10,2).
Fits(cents, limit) == -limit < cents /\ cents < limit
=============================================================================
