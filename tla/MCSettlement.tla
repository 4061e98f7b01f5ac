---------------------------- MODULE MCSettlement ----------------------------
(***************************************************************************)
(* Instances of Settlement for TLC: one original of 3, returns against it, *)
(* and settlements that compete for the original and for a return.         *)
(***************************************************************************)
EXTENDS Settlement, TLC

CONSTANTS inv, ret, pay

MCTotal == [b \in Bills |-> IF b = inv THEN 3 ELSE 2]
MCTendered == [b \in Bills |-> 0]
MCAgainst == [r \in Returns |-> inv]
MCRank == [b \in Bills |-> CASE b = inv -> 1 [] b = ret -> 2 [] OTHER -> 3]

\* A payment of 2 against the original; a journal entry that sets 1 of the
\* original off against 1 of the return.
MCAlloc == [v \in Settlements |-> [b \in Bills |->
               CASE b = inv -> IF v = pay THEN 2 ELSE 1
                 [] b = ret -> IF v = pay THEN 0 ELSE 1
                 [] OTHER -> 0]]

Symmetry == Permutations(Sessions)
=============================================================================
