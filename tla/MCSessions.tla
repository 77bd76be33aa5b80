----------------------------- MODULE MCSessions -----------------------------
(* One email account: logins that overlap each other and the requests made  *)
(* with the tokens they return.                                             *)
EXTENDS AuthServer, TLC

CONSTANTS k1, e1, w1, s0, c1, c2, c3, a1, a2, a3

MCReq == {s0, c1, c2, c3, a1, a2, a3}
MCBody(kind, key, email, signer, slots, sameAgent) ==
  [kind |-> kind, key |-> key, email |-> email, method |-> "email",
   signer |-> signer, slots |-> slots, sameAgent |-> sameAgent]
MCInputs ==
  {MCBody("login", None, e1, k1, {}, TRUE),
   MCBody("loginWallet", k1, None, k1, {}, TRUE),
   MCBody("logout", k1, None, None, {}, TRUE),
   MCBody("userData", k1, None, None, {}, FALSE),
   MCBody("userData", k1, None, None, {}, TRUE),
   MCBody("import", k1, None, None, {w1}, TRUE)}
MCSeedOf == (k1 :> s0)
MCSeedProfile == (k1 :> [email |-> e1, method |-> "email"])
MCSeedChallenge == {<<k1, c1>>, <<k1, c2>>, <<k1, c3>>}
MCSymmetry == Permutations({a1, a2, a3}) \cup Permutations({c1, c2, c3})
=============================================================================
