----------------------------- MODULE AuthStore ------------------------------
(***************************************************************************)
(* What a store promises the handlers (interface AuthStore of              *)
(* src/src/storage/store.ts, and the suite every backend must pass,        *)
(* src/src/storage/conformance.ts): each operation is one step, a write to *)
(* one field leaves the others alone, challenges accumulate and are taken  *)
(* once, what expired or was deleted is gone, and every hit is counted.    *)
(* An operation that fails changes nothing.                                *)
(***************************************************************************)
EXTENDS EmailDirectory, Naturals

CONSTANTS Challenge, Token

VARIABLES
  wallet,   \* wallet[u]: who wrote the record's slot last
  pointed,  \* the accounts whose record points at a session
  live,     \* challenges that can be taken
  taken,    \* taken[x]: callers told that they took x
  session,  \* tokens getSession finds
  ended,    \* tokens reported deleted
  hits,     \* the bucket's count
  told      \* told[n]: hits told that they were the n-th

userVars == <<dirVars, wallet, pointed>>
challengeVars == <<live, taken>>
sessionVars == <<session, ended>>
hitVars == <<hits, told>>

StoreInit ==
  /\ Init
  /\ wallet = [u \in User |-> "none"] /\ pointed = {}
  /\ live = {} /\ \A x \in Challenge : taken[x] = 0
  /\ session = {} /\ ended = {}
  /\ hits = 0 /\ \A n \in DOMAIN told : told[n] = 0

PutUser(u, e) ==
  /\ Claim(u, e)
  /\ wallet' = [wallet EXCEPT ![u] = "created"]
  /\ pointed' = pointed \ {u}
  /\ UNCHANGED <<challengeVars, sessionVars, hitVars>>

PutWalletSlot(u) ==
  /\ address[u] # Nobody
  /\ wallet' = [wallet EXCEPT ![u] = "imported"]
  /\ UNCHANGED <<dirVars, pointed, challengeVars, sessionVars, hitVars>>

SetSessionPointer(u) ==
  /\ address[u] # Nobody
  /\ pointed' = pointed \cup {u}
  /\ UNCHANGED <<dirVars, wallet, challengeVars, sessionVars, hitVars>>

PutChallenge(x) ==
  /\ live' = live \cup {x}
  /\ UNCHANGED <<userVars, taken, sessionVars, hitVars>>

TakeChallenge(x) ==
  /\ x \in live
  /\ live' = live \ {x}
  /\ taken' = [taken EXCEPT ![x] = 1]
  /\ UNCHANGED <<userVars, sessionVars, hitVars>>

ExpireChallenge(x) ==
  /\ live' = live \ {x}
  /\ UNCHANGED <<userVars, taken, sessionVars, hitVars>>

PutSession(t) ==
  /\ t \notin ended
  /\ session' = session \cup {t}
  /\ UNCHANGED <<userVars, challengeVars, ended, hitVars>>

DeleteSession(t) ==
  /\ session' = session \ {t} /\ ended' = ended \cup {t}
  /\ UNCHANGED <<userVars, challengeVars, hitVars>>

ExpireSession(t) ==
  /\ session' = session \ {t}
  /\ UNCHANGED <<userVars, challengeVars, ended, hitVars>>

HitRateLimit ==
  /\ hits' = hits + 1
  /\ told' = [told EXCEPT ![hits'] = 1]
  /\ UNCHANGED <<userVars, challengeVars, sessionVars>>

StoreNext ==
  \/ \E u \in User : (\E e \in Email : PutUser(u, e)) \/ PutWalletSlot(u) \/ SetSessionPointer(u)
  \/ \E x \in Challenge : PutChallenge(x) \/ TakeChallenge(x) \/ ExpireChallenge(x)
  \/ \E t \in Token : PutSession(t) \/ DeleteSession(t) \/ ExpireSession(t)
  \/ HitRateLimit

StoreSpec == StoreInit /\ [][StoreNext]_<<userVars, challengeVars, sessionVars, hitVars>>
=============================================================================
