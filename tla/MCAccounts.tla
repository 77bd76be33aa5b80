----------------------------- MODULE MCAccounts -----------------------------
(* Accounts created in an empty store. Two clients, each with an identity    *)
(* key of its own, register one address while others ask for challenges by   *)
(* it; the first key is also that of a wallet that connects, registers and   *)
(* imports.                                                                  *)
EXTENDS AuthServer, TLC

CONSTANTS kn, km, e1, w1, c1, c2, c3, a1, a2, a3

MCReq == {c1, c2, c3, a1, a2, a3}
MCBody(kind, key, email, method, signer, slots) ==
  [kind |-> kind, key |-> key, email |-> email, method |-> method,
   signer |-> signer, slots |-> slots, sameAgent |-> TRUE]
MCInputs ==
  {MCBody("challenge", None, e1, "email", None, {}),
   MCBody("register", kn, e1, "email", kn, {w1}),
   MCBody("register", km, e1, "email", km, {}),
   MCBody("connect", kn, None, "wallet", kn, {w1}),
   MCBody("import", kn, None, "wallet", None, {w1})}
MCSeedOf == (kn :> None) @@ (km :> None)
MCSeedProfile == (kn :> None) @@ (km :> None)
MCSeedChallenge == {<<kn, c1>>, <<kn, c2>>, <<km, c3>>}
MCSymmetry == Permutations({a1, a2, a3}) \cup Permutations({c1, c2})
=============================================================================
