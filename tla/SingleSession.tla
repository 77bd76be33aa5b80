--------------------------- MODULE SingleSession ----------------------------
(***************************************************************************)
(* What the server promises about session tokens, whatever the store does  *)
(* in between: an account accepts at most one token at a time, a token is  *)
(* granted once, and a token that is no longer accepted is never accepted  *)
(* again.  (SECURITY model of src/src/server/session.ts.)                  *)
(***************************************************************************)
CONSTANTS Key, Token, None

VARIABLES
  current,  \* current[k]: the token account k accepts, or None
  granted   \* tokens handed to a client so far

Init ==
  /\ current \in [Key -> granted \cup {None}]
  /\ granted \subseteq Token

\* A login hands out a new token, which replaces the account's current one.
Grant(k, t) ==
  /\ t \notin granted
  /\ granted' = granted \cup {t}
  /\ current' = [current EXCEPT ![k] = t]

\* Logout, expiry, or a login that failed half way.
End(k) ==
  /\ current[k] # None
  /\ current' = [current EXCEPT ![k] = None]
  /\ UNCHANGED granted

Next == \E k \in Key : End(k) \/ \E t \in Token : Grant(k, t)

Spec == Init /\ [][Next]_<<current, granted>>
=============================================================================
