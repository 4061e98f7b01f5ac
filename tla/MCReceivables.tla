--------------------------- MODULE MCReceivables ---------------------------
(***************************************************************************)
(* An instance of Receivables for TLC: two originals, two returns against  *)
(* the first, a payment, and journal entries that span several bills.      *)
(***************************************************************************)
EXTENDS Receivables

CONSTANTS inv, inv2, ret, ret2, pay, jou, off

MCTotal == [b \in Bills |-> IF b \in {inv, inv2} THEN 3 ELSE 2]
MCTendered == [b \in Bills |-> 0]
MCAgainst == [r \in Returns |-> inv]

\* pay: 2 of inv and 1 of inv2.  jou: 1 of inv against 1 of ret.
\* off: 2 of ret against 2 of inv2, which pay has not settled.
MCAlloc == [v \in Settlements |-> [b \in Bills |->
               CASE v = pay /\ b = inv  -> 2
                 [] v = pay /\ b = inv2 -> 1
                 [] v = jou /\ b \in {inv, ret} -> 1
                 [] v = off /\ b \in {inv2, ret} -> 2
                 [] OTHER -> 0]]
=============================================================================
