----------------------------- MODULE MCAppKeys ------------------------------
(* One browser for two accounts by email, a biometric one and a hardware     *)
(* wallet, another to which the wallet is connected at the same time; two    *)
(* passkeys to type, two levels, and any two of the accounts registered.     *)
EXTENDS AppKeys, TLC

CONSTANTS d1, d2, e, e2, h, b, p, q, l1, l2

MCUses ==
  d1 :> {"auto", "login", "unlock"} \X {e} \cup {"register"} \X {e2, h, b} \cup {<<"login", b>>}
        \cup {"connect", "unlock", "lock", "logout"} \X {h} @@
  d2 :> {<<"connect", h>>}
MCSymmetry == Permutations({p, q}) \cup Permutations({l1, l2})
=============================================================================
