--------------------------- MODULE EmailDirectory ---------------------------
(***************************************************************************)
(* What a store promises about addresses (the email cases of the suite in  *)
(* src/src/storage/conformance.ts): an account and its claim on an address *)
(* appear in one step, a claim is made on a free address only, and nobody  *)
(* loses one.                                                              *)
(***************************************************************************)
CONSTANTS User, Email, Nobody

VARIABLES
  address,  \* address[u]: the address in u's record, Nobody: no such record
  holder    \* holder[e]: the account e resolves to, or Nobody

dirVars == <<address, holder>>

Init == address = [u \in User |-> Nobody] /\ holder = [e \in Email |-> Nobody]

\* putUser: the first claim creates the entry, the holder's own rewrite keeps it.
Claim(u, e) ==
  /\ holder[e] \in {Nobody, u}
  /\ address' = [address EXCEPT ![u] = e]
  /\ holder' = [holder EXCEPT ![e] = u]

Next == \E u \in User, e \in Email : Claim(u, e)

Spec == Init /\ [][Next]_dirVars
=============================================================================
