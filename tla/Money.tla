------------------------------- MODULE Money -------------------------------
(* Rounding of amounts, lambda_erp/utils.py. *)
EXTENDS Integers

AbsOf(n) == IF n < 0 THEN -n ELSE n

\* flt(x, digits): the nearest multiple, and the even one of two that are as near.
Nearest(n, unit) ==
    LET low == n \div unit
        over == n - low * unit
    IN  IF 2 * over < unit \/ (2 * over = unit /\ low % 2 = 0) THEN low ELSE low + 1

\* Thousandths in cents.
Cents(mills) == Nearest(mills, 10)
=============================================================================
