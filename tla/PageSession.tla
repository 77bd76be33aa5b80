---------------------------- MODULE PageSession -----------------------------
(* The session as one page shows it: react/AuthProvider.tsx over the storage *)
(* that client/session.ts shares with the other tabs. The page's publicKey   *)
(* follows the storage only when something in this page refreshes it, and    *)
(* the user record follows publicKey through an effect and a fetch, several  *)
(* of which may be under way. The deadlines of the vault are in ClientVault. *)
EXTENDS Naturals

CONSTANTS Account, None

ASSUME NoAccountAssumption == None \notin Account

VARIABLES
  stored,      \* the account of the token and public key in localStorage
  armed,       \* the account whose app key this page holds
  strayKey,    \* history: that key was another account's when it was armed, or a
               \* login elsewhere has replaced its account since
  ceremonies,  \* the re-authentications under way: whose key they derive, and
               \* whose wallet they try it on (None: the record was not loaded)
  loggedOut,   \* history: this page logged out, and since then nobody has logged
               \* in or begun to re-authenticate
  signal,      \* a storage event telling of another tab's logout is under way
  publicKey,   \* AuthProvider's state, as of its last refresh
  effectOf,    \* the publicKey its effect last ran for
  fetchSeq, user, userLoading,
  fetches,     \* the fetches under way: their number and whom they ask for
  astray       \* history: the newest fetch was refused or asked for another account

sessionVars == <<stored, armed, strayKey, ceremonies, loggedOut, signal, publicKey>>
userVars == <<effectOf, fetchSeq, user, userLoading, fetches, astray>>

SessionTypeOK ==
  /\ {stored, armed, publicKey, effectOf, user} \subseteq Account \cup {None}
  /\ fetchSeq \in Nat /\ {signal, strayKey, loggedOut} \subseteq BOOLEAN /\ userLoading \in BOOLEAN /\ astray \in BOOLEAN
  /\ ceremonies \subseteq [key : Account, wallet : Account \cup {None}]
  /\ \A f \in fetches : f.seq \in 1..fetchSeq /\ f.of \in Account \cup {None}
  /\ \A f, g \in fetches : f.seq = g.seq => f = g

\* A page opened on whatever the storage holds, before its first refresh.
SessionInit ==
  /\ stored \in Account \cup {None}
  /\ armed = None /\ strayKey = FALSE /\ ceremonies = {}
  /\ loggedOut = FALSE /\ signal = FALSE
  /\ publicKey = None /\ effectOf = None
  /\ fetchSeq = 0 /\ user = None /\ userLoading = FALSE
  /\ fetches = {} /\ astray = FALSE

refresh == publicKey' = stored'

armAppKey(a) ==
  /\ armed' = a
  /\ strayKey' = (stored' # a)
dropKey ==
  /\ armed' = None
  /\ strayKey' = FALSE

\* No session is looked for: a login may replace another one.
setSession(a) ==
  /\ stored' = a
  /\ armAppKey(a) /\ refresh
  /\ loggedOut' = FALSE
  /\ UNCHANGED <<ceremonies, signal>>

clearSession ==
  /\ stored' = None
  /\ dropKey /\ refresh
  /\ loggedOut' = TRUE
  /\ UNCHANGED <<ceremonies, signal>>

lockVault ==
  /\ dropKey
  /\ UNCHANGED <<stored, ceremonies, loggedOut, signal>>
  /\ refresh

\* A ceremony with the credentials of account a: nothing ties them, or the
\* ceremony, to a session. The wallet to try the key on is the shown record's.
reauthenticate(a) ==
  /\ ceremonies' = ceremonies \cup {[key |-> a, wallet |-> user]}
  /\ loggedOut' = FALSE
  /\ UNCHANGED <<stored, armed, strayKey, signal, publicKey>>

\* It ends in whatever session there is by then: the key, if it opens the
\* wallet or there is none to try, is armed.
reauthenticated(c) ==
  /\ ceremonies' = ceremonies \ {c}
  /\ UNCHANGED <<stored, loggedOut, signal>>
  /\ IF c.wallet \in {None, c.key} THEN armAppKey(c.key) /\ refresh
     ELSE UNCHANGED <<armed, strayKey, publicKey>>

\* Another tab. A token it sets is not looked at; one it removes drops the
\* key, and is noticed only by a page that held one.
otherTabLogin(a) ==
  /\ stored' = a
  /\ strayKey' = (strayKey \/ (armed # None /\ stored \notin {None, a}))
  /\ loggedOut' = FALSE
  /\ UNCHANGED <<armed, ceremonies, signal, publicKey>>
otherTabLogout ==
  /\ stored # None
  /\ stored' = None /\ signal' = TRUE
  /\ UNCHANGED <<armed, strayKey, ceremonies, loggedOut, publicKey>>
storage ==
  /\ signal /\ signal' = FALSE
  /\ UNCHANGED <<stored, ceremonies, loggedOut>>
  /\ dropKey
  /\ IF armed # None THEN refresh ELSE UNCHANGED publicKey

-----------------------------------------------------------------------------
\* Mutants of refetchUser and fetched: no number of its own; the answer of any
\* fetch is shown.
SameNumber ==
  /\ fetchSeq' = IF fetchSeq = 0 THEN 1 ELSE fetchSeq
  /\ fetches' = fetches \cup {[seq |-> fetchSeq', of |-> stored, astray |-> stored # publicKey]}
  /\ userLoading' = TRUE
  /\ UNCHANGED <<user, astray>>
AnyAnswer(f, who) ==
  /\ fetches' = fetches \ {f}
  /\ user' = who
  /\ IF f.seq = fetchSeq THEN userLoading' = FALSE /\ astray' = (who # f.of \/ f.astray)
     ELSE UNCHANGED <<userLoading, astray>>
  /\ UNCHANGED <<effectOf, fetchSeq>>

\* The request carries the headers of the storage, whoever is shown.
refetchUser ==
  /\ fetchSeq' = fetchSeq + 1
  /\ fetches' = fetches \cup {[seq |-> fetchSeq', of |-> stored, astray |-> stored # publicKey]}
  /\ userLoading' = TRUE
  /\ UNCHANGED <<user, astray>>

\* Only the newest fetch is listened to. A 401 counts as an empty record.
fetched(f, who) ==
  /\ fetches' = fetches \ {f}
  /\ IF f.seq = fetchSeq
     THEN /\ user' = who /\ userLoading' = FALSE
          /\ astray' = (who # f.of \/ f.astray)
     ELSE UNCHANGED <<user, userLoading, astray>>
  /\ UNCHANGED <<effectOf, fetchSeq>>

\* Any other failure leaves the record that was shown.
fetchFails(f) ==
  /\ fetches' = fetches \ {f}
  /\ IF f.seq = fetchSeq THEN userLoading' = FALSE /\ astray' = TRUE
     ELSE UNCHANGED <<userLoading, astray>>
  /\ UNCHANGED <<effectOf, fetchSeq, user>>

\* The effect on publicKey. Without an account it makes the fetches stale.
effect ==
  /\ effectOf # publicKey
  /\ effectOf' = publicKey
  /\ IF publicKey # None THEN refetchUser
     ELSE /\ fetchSeq' = fetchSeq + 1
          /\ user' = None /\ userLoading' = FALSE
          /\ astray' = FALSE
          /\ UNCHANGED fetches

UserEvent ==
  \/ effect
  \/ \E f \in fetches : (\E who \in {f.of, None} : fetched(f, who)) \/ fetchFails(f)

(* When the page has come to rest, the record it shows is that of the        *)
(* account it shows and nothing claims to be loading, whatever logins,       *)
(* logouts and late answers went before: unless the newest fetch itself was  *)
(* refused, or another tab had changed the account behind the page's back.    *)
SettledPageFits ==
  LET newestUnderWay == \E f \in fetches : f.seq = fetchSeq
  IN publicKey = effectOf /\ ~newestUnderWay =>
       ~userLoading /\ (~astray => user = publicKey)
=============================================================================
