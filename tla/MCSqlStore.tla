----------------------------- MODULE MCSqlStore -----------------------------
(* Two calls of several statements beside all single ones, on each database. *)
EXTENDS SqlStore

CONSTANTS c1, c2, u1, u2, e1, x1, t1

\* SQLite keeps two copies of its rows while a transaction is open: its addresses
\* and wallets are explored without the short-lived rows, and those without faults.
Issued == [d \in Dialects |-> IF d = "sqlite" THEN 0 ELSE 2]
OneIssued == [d \in Dialects |-> 1]
=============================================================================
