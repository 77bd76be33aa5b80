--------------------------- MODULE MCClientVault ----------------------------
(* Two tabs, one configured to lock when hidden and one not.                 *)
EXTENDS ClientVault

CONSTANTS t1, t2
=============================================================================
