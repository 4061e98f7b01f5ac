------------------------ MODULE MCBankReconciliation ------------------------
(* Two sessions over two bank transactions that together make up the leg of   *)
(* one voucher, and either of them alone the leg of another.                  *)
EXTENDS BankReconciliation, TLC

CONSTANTS t1, t2, both, single, new, chf, s1, s2

MCLedger == t1 :> chf @@ t2 :> chf
MCAmount == t1 :> 1 @@ t2 :> 1
MCMovement == both :> (chf :> 2) @@ single :> (chf :> 1)
=============================================================================
