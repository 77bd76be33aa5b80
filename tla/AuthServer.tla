----------------------------- MODULE AuthServer -----------------------------
(***************************************************************************)
(* The request handlers of createAuthHandlers (src/src/server/routes.ts)   *)
(* running concurrently over one KvAuthStore (src/src/storage/store.ts).   *)
(*                                                                         *)
(* A handler is an async function: it gives up control at every awaited    *)
(* store call, so between two store calls of one request any other request *)
(* may run.  Each action below is one store call together with the local   *)
(* code up to the next one; pc[r] names the call request r will make next. *)
(* Validation that only answers 400 is left out: it touches no state.      *)
(*                                                                         *)
(* Data is abstracted to identities.  A session token, a challenge and a   *)
(* wallet bundle are named by the request that minted or carried them: all *)
(* three are fresh random values in the code.  One appId is modelled: the  *)
(* keys of two apps never collide (storage keys are prefixed by appId).    *)
(***************************************************************************)
EXTENDS Naturals, FiniteSets

CONSTANTS
  Req,         \* requests; each one runs once
  Key,         \* identity public keys
  Email,       \* normalized email addresses
  Slot,        \* the (chain, role) wallet slots, WALLET_SLOTS
  None,        \* null / undefined
  Inputs,      \* the request bodies a client may send (see Input)
  SeedOf,      \* SeedOf[k]: the finished request that created account k, or None
  SeedProfile, \* the profile of each account that exists at the start, or None
  SeedChallenge, \* pairs <<k, c>>: challenges issued before the start
  CreateMax,   \* accountCreationRateLimit.maxAttempts
  MaxWindows,  \* bound: rate-limit windows explored
  MaxFailures  \* bound: requests that may end in a 500

Kind == {"challenge", "register", "login", "loginWallet", "connect",
         "logout", "userData", "import"}

\* What a login by address asks of a record: "email" if it has an authPublicKey,
\* which registrations by email and passkey must bring, "wallet" if it has none.
Method == {"email", "wallet"}
Profile == [email : Email \cup {None}, method : Method]

\* A request body.  signer is the key whose private half made the signature
\* (None: junk bytes); sameAgent says whether the User-Agent hash presented is
\* the one a session of this client was bound to.
Body == [kind : Kind, key : Key \cup {None}, email : Email \cup {None},
         method : Method, signer : Key \cup {None}, slots : SUBSET Slot,
         sameAgent : BOOLEAN]

\* The bodies the handlers do not answer with a 400.
WellFormed(b) ==
  /\ b.kind = "challenge" => b.key # None \/ b.email # None
  /\ b.kind = "login" => b.key = None /\ b.email # None
  /\ b.kind = "import" => b.slots # {}
  /\ b.kind \notin {"challenge", "login"} => b.key # None

\* What a handler holds of its request: the body, the challenge it presents and
\* the session token in its headers.
Input == [body : Body, challenge : Req \cup {None}, token : Req \cup {None}]

Seeds == {r \in Req : \E k \in Key : SeedOf[k] = r}
SeedMinters == {c \in Req : \E k \in Key : <<k, c>> \in SeedChallenge}

ASSUME ConstantsAssumption ==
  /\ None \notin Req /\ None \notin Key /\ None \notin Email
  /\ Inputs \subseteq Body /\ \A b \in Inputs : WellFormed(b)
  /\ SeedOf \in [Key -> Req \cup {None}]
  /\ SeedProfile \in [Key -> Profile \cup {None}]
  /\ None \notin Profile
  /\ \A k \in Key : SeedOf[k] = None <=> SeedProfile[k] = None
  /\ \A k, l \in Key : SeedOf[k] = SeedOf[l] /\ SeedOf[k] # None => k = l
  /\ SeedChallenge \subseteq Key \X Req
  /\ \A p, q \in SeedChallenge : p[2] = q[2] => p = q
  /\ Seeds \cap SeedMinters = {}
  /\ CreateMax \in Nat /\ MaxWindows \in Nat \ {0} /\ MaxFailures \in Nat

\* The body every request holds before it has arrived.
BlankBody == [kind |-> "challenge", key |-> None, email |-> None,
              method |-> "email", signer |-> None, slots |-> {},
              sameAgent |-> TRUE]
Blank == [body |-> BlankBody, challenge |-> None, token |-> None]

VARIABLES
  profile,     \* profile[k]: hash field "p" of the user record, or None
  pointer,     \* pointer[k]: hash field "t", the session the record names
  wallets,     \* wallets[k][s]: hash field "w:{chain}:{role}", whose bundle it holds
  emailIndex,  \* emailIndex[e]: the key that claimed the address
  challenges,  \* live challenge keys <<k, c>>
  sessions,    \* sessions[t]: the owner stored under token t, or None
  hits,        \* the account-creation counter of the current window
  windows,     \* rate-limit windows begun so far
  pc,          \* the next store call of each request, or its response
  input,       \* input[r]: what request r carries
  who,         \* who[r]: the account r works on
  prev,        \* prev[r]: user.authTokenHash as r's getUser returned it
  todo,        \* todo[r]: wallet slots r has yet to write
  took,        \* took[r]: r's consumeChallenge returned true
  began        \* history: what held when r arrived (see Begin)

storeVars == <<profile, pointer, wallets, emailIndex, challenges, sessions>>
limitVars == <<hits, windows>>
localVars == <<input, who, prev, todo, took>>
vars == <<storeVars, limitVars, localVars, pc, began>>

Working == {"challengeEmail", "putChallenge", "registerUser", "registerEmail",
            "loginEmail", "loginUser", "consume", "readUser", "connectUser",
            "chargeCreation", "putProfile", "putSlots", "claimEmail",
            "deletePrevious", "putSession", "setPointer", "getSession",
            "checkPointer", "revoke", "penalize"}
\* Responses: a challenge, a decoy challenge, a session, the user record, an
\* accepted import, logout's 200, a refusal (401, 403, 422, 429), a 409, a 500.
Answered == {"issued", "decoy", "granted", "authorised", "imported", "ok",
             "refused", "conflict", "failed"}
Label == {"idle"} \cup Working \cup Answered

TypeOK ==
  /\ profile \in [Key -> Profile \cup {None}]
  /\ pointer \in [Key -> Req \cup {None}]
  /\ wallets \in [Key -> [Slot -> Req \cup {None}]]
  /\ emailIndex \in [Email -> Key \cup {None}]
  /\ challenges \subseteq Key \X Req
  /\ sessions \in [Req -> Key \cup {None}]
  /\ hits \in 0 .. CreateMax + 1
  /\ windows \in 1 .. MaxWindows
  /\ pc \in [Req -> Label]
  /\ input \in [Req -> Input]
  /\ who \in [Req -> Key \cup {None}]
  /\ prev \in [Req -> Req \cup {None}]
  /\ todo \in [Req -> SUBSET Slot]
  /\ took \in [Req -> BOOLEAN]
  /\ began \in [Req -> [dead : BOOLEAN, stored : BOOLEAN]]

\* Token t opens its owner's account: its session key is stored and the owner's
\* record points at it.  This is what verifySession decides, on one instant.
Live(t) == \E k \in Key : sessions[t] = k /\ pointer[k] = t

HasWallets(k) == \E s \in Slot : wallets[k][s] # None

\* Accounts, sessions and challenges left by requests that finished earlier.
Init ==
  /\ profile = SeedProfile
  /\ pointer = SeedOf
  /\ wallets = [k \in Key |-> [s \in Slot |-> SeedOf[k]]]
  /\ emailIndex \in [Email -> Key \cup {None}]
  /\ \A e \in Email, k \in Key :
       emailIndex[e] = k <=> SeedProfile[k] # None /\ SeedProfile[k].email = e
  /\ challenges = SeedChallenge
  /\ sessions \in [Req -> Key \cup {None}]
  /\ \A r \in Req, k \in Key : sessions[r] = k <=> SeedOf[k] = r
  /\ hits = 0 /\ windows = 1
  /\ pc = [r \in Req |-> IF r \in Seeds THEN "granted"
                         ELSE IF r \in SeedMinters THEN "issued" ELSE "idle"]
  /\ input = [r \in Req |-> Blank]
  /\ who \in [Req -> Key \cup {None}]
  /\ \A r \in Req, k \in Key :
       who[r] = k <=> SeedOf[k] = r \/ <<k, r>> \in SeedChallenge
  /\ prev = [r \in Req |-> None]
  /\ todo = [r \in Req |-> {}]
  /\ took = [r \in Req |-> FALSE]
  /\ began = [r \in Req |-> [dead |-> FALSE, stored |-> FALSE]]

-----------------------------------------------------------------------------
(* Helpers shared by the handlers.                                          *)

At(r, label) == pc[r] = label
Goto(r, label) == pc' = [pc EXCEPT ![r] = label]

\* issueSession starts with a delete only when the snapshot names a session.
IssueFrom(p) == IF p = None THEN "putSession" ELSE "deletePrevious"

\* verifySolanaSignature / verifyAuthSignature over the presented challenge.
SignedBy(r, k) == input[r].body.signer = k

\* Where a handler goes once its last wallet slot is written.
AfterSlots(r) ==
  LET b == input[r].body IN
  IF b.kind = "import" THEN "imported"
  ELSE IF b.kind = "register" /\ b.email # None THEN "claimEmail"
  ELSE IssueFrom(prev[r])

\* Mutant of WriteSlots: a registration claims its address before its wallets.
WriteSlotsClaimFirst(r, s) ==
  /\ todo' = [todo EXCEPT ![r] = s]
  /\ Goto(r, IF s = {} \/ AfterSlots(r) = "claimEmail" THEN AfterSlots(r) ELSE "putSlots")

\* The slots left to write, and where that leaves the request.
WriteSlots(r, s) ==
  /\ todo' = [todo EXCEPT ![r] = s]
  /\ Goto(r, IF s = {} THEN AfterSlots(r) ELSE "putSlots")

\* A handler's first store call, after the checks it makes on the body alone.
FirstCall(b) ==
  IF b.kind = "challenge"
  THEN IF b.key # None THEN "putChallenge" ELSE "challengeEmail"
  ELSE IF b.kind = "register" THEN "registerUser"
  ELSE IF b.kind = "login" THEN "loginEmail"
  ELSE IF b.kind \in {"loginWallet", "connect"}
  THEN IF b.signer = b.key THEN "consume" ELSE "penalize"
  ELSE "getSession"

\* A request arrives.  It presents a challenge some /challenge answered, or a
\* token some login answered.  began records, for the properties only, whether
\* that token was already dead and whether its key already had wallets.
Begin(r, b, c, t) ==
  /\ At(r, "idle")
  /\ b.kind \in {"register", "login", "loginWallet", "connect"} <=> c # None
  /\ b.kind \in {"logout", "userData", "import"} <=> t # None
  /\ c # None => pc[c] = "issued"
  /\ t # None => pc[t] = "granted"
  /\ input' = [input EXCEPT ![r] = [body |-> b, challenge |-> c, token |-> t]]
  /\ who' = [who EXCEPT ![r] = b.key]
  /\ began' = [began EXCEPT ![r] =
                 [dead |-> t # None /\ ~Live(t),
                  stored |-> b.key # None /\ \E k \in Key : b.key = k /\ HasWallets(k)]]
  /\ Goto(r, FirstCall(b))
  /\ UNCHANGED <<storeVars, limitVars, prev, todo, took>>

-----------------------------------------------------------------------------
(* POST /challenge                                                          *)

\* Mutant of ChallengeEmail: an unknown address is given a stored challenge too.
ChallengeEmailNoDecoy(r) ==
  /\ At(r, "challengeEmail")
  /\ who' = [who EXCEPT ![r] = emailIndex[input[r].body.email]]
  /\ Goto(r, "putChallenge")
  /\ UNCHANGED <<storeVars, limitVars, input, prev, todo, took, began>>

\* getPublicKeyByEmail: an address nobody registered gets a decoy that is
\* never stored, any other the challenge of its account.
ChallengeEmail(r) ==
  /\ At(r, "challengeEmail")
  /\ who' = [who EXCEPT ![r] = emailIndex[input[r].body.email]]
  /\ Goto(r, IF emailIndex[input[r].body.email] = None THEN "decoy" ELSE "putChallenge")
  /\ UNCHANGED <<storeVars, limitVars, input, prev, todo, took, began>>

\* issueChallenge: putChallenge ADDS a key, named by the fresh challenge r.
PutChallenge(r) ==
  /\ At(r, "putChallenge")
  /\ challenges' = challenges \cup {<<who[r], r>>}
  /\ Goto(r, "issued")
  /\ UNCHANGED <<profile, pointer, wallets, emailIndex, sessions, limitVars,
                 localVars, began>>

\* The IP leg, or the target bucket once the account is known, answers 429.
ThrottleChallenge(r) ==
  /\ pc[r] \in {"challengeEmail", "putChallenge"}
  /\ Goto(r, "refused")
  /\ UNCHANGED <<storeVars, limitVars, localVars, began>>

-----------------------------------------------------------------------------
(* Proof of possession, shared by every handler that logs in or registers.  *)

\* A failed proof charges the endpoint's bucket; both answers refuse (401, 429).
Penalize(r) ==
  /\ At(r, "penalize")
  /\ Goto(r, "refused")
  /\ UNCHANGED <<storeVars, limitVars, localVars, began>>

\* What follows a consumed challenge.
AfterProof(r) ==
  LET kind == input[r].body.kind IN
  IF kind = "register" THEN "chargeCreation"
  ELSE IF kind = "login" THEN IssueFrom(prev[r])
  ELSE IF kind = "loginWallet" THEN "readUser"
  ELSE "connectUser"

\* Mutant of Consume: the challenge is read (get) and never removed.
ConsumeWithoutDelete(r) ==
  /\ At(r, "consume")
  /\ IF <<who[r], input[r].challenge>> \in challenges
     THEN took' = [took EXCEPT ![r] = TRUE] /\ Goto(r, AfterProof(r))
     ELSE UNCHANGED took /\ Goto(r, "penalize")
  /\ UNCHANGED <<storeVars, limitVars, input, who, prev, todo, began>>

\* Mutant of Consume: takeChallenge's answer is ignored.
ConsumeUnchecked(r) ==
  LET c == <<who[r], input[r].challenge>> IN
  /\ At(r, "consume")
  /\ challenges' = challenges \ {c}
  /\ took' = [took EXCEPT ![r] = c \in challenges]
  /\ Goto(r, AfterProof(r))
  /\ UNCHANGED <<profile, pointer, wallets, emailIndex, sessions, limitVars,
                 input, who, prev, todo, began>>

\* consumeChallenge: one atomic takeChallenge (GETDEL on the exact key).  Expiry
\* is enforced on read: a key past its TTL is dropped and reads as absent.
Consume(r) ==
  LET c == <<who[r], input[r].challenge>> IN
  /\ At(r, "consume")
  /\ challenges' = challenges \ {c}
  /\ \/ /\ c \in challenges
        /\ took' = [took EXCEPT ![r] = TRUE]
        /\ Goto(r, AfterProof(r))
     \/ /\ Goto(r, "penalize")
        /\ UNCHANGED took
  /\ UNCHANGED <<profile, pointer, wallets, emailIndex, sessions, limitVars,
                 input, who, prev, todo, began>>

-----------------------------------------------------------------------------
(* POST /login, /login-wallet                                               *)

LoginEmail(r) ==
  /\ At(r, "loginEmail")
  /\ who' = [who EXCEPT ![r] = emailIndex[input[r].body.email]]
  /\ Goto(r, IF emailIndex[input[r].body.email] = None THEN "penalize" ELSE "loginUser")
  /\ UNCHANGED <<storeVars, limitVars, input, prev, todo, took, began>>

\* getUser takes the snapshot issueSession will later use. The signature is
\* verified against the record's authPublicKey, whatever its authMethod says.
LoginUser(r) ==
  LET k == who[r] IN
  /\ At(r, "loginUser")
  /\ IF profile[k] # None /\ profile[k].method = "email" /\ SignedBy(r, k)
     THEN Goto(r, "consume") ELSE Goto(r, "penalize")
  /\ prev' = [prev EXCEPT ![r] = pointer[k]]
  /\ UNCHANGED <<storeVars, limitVars, input, who, todo, took, began>>

\* loginWallet reads the record after the challenge is spent; none is a 422.
ReadUser(r) ==
  LET k == who[r] IN
  /\ At(r, "readUser")
  /\ IF profile[k] = None
     THEN Goto(r, "refused") /\ UNCHANGED prev
     ELSE /\ prev' = [prev EXCEPT ![r] = pointer[k]]
          /\ Goto(r, IssueFrom(pointer[k]))
  /\ UNCHANGED <<storeVars, limitVars, input, who, todo, took, began>>

-----------------------------------------------------------------------------
(* POST /connect-wallet                                                     *)

\* Mutant of ConnectUser: a returning wallet's stored slots are backfilled again.
ConnectUserAlwaysHeals(r) ==
  LET k == who[r] IN
  /\ At(r, "connectUser")
  /\ IF profile[k] = None
     THEN Goto(r, "chargeCreation") /\ UNCHANGED <<prev, todo>>
     ELSE /\ prev' = [prev EXCEPT ![r] = pointer[k]]
          /\ WriteSlots(r, input[r].body.slots)
  /\ UNCHANGED <<storeVars, limitVars, input, who, took, began>>

\* Mutant of ConnectUser: the second creation path is not charged.
ConnectUserUncharged(r) ==
  LET k == who[r] IN
  /\ At(r, "connectUser")
  /\ prev' = [prev EXCEPT ![r] = pointer[k]]
  /\ Goto(r, IF profile[k] = None THEN "putProfile" ELSE IssueFrom(pointer[k]))
  /\ UNCHANGED <<storeVars, limitVars, input, who, todo, took, began>>

\* No record: create one.  A record of the email path is refused.  A wallet
\* record without any stored wallet is backfilled; otherwise this is a login.
ConnectUser(r) ==
  LET k == who[r]
      b == input[r].body
  IN
  /\ At(r, "connectUser")
  /\ \/ /\ profile[k] = None
        /\ Goto(r, "chargeCreation")
        /\ UNCHANGED <<prev, todo>>
     \/ /\ profile[k] # None
        /\ profile[k].method # "wallet"
        /\ Goto(r, "refused")
        /\ UNCHANGED <<prev, todo>>
     \/ /\ profile[k] # None
        /\ profile[k].method = "wallet"
        /\ prev' = [prev EXCEPT ![r] = pointer[k]]
        /\ IF HasWallets(k) \/ b.slots = {}
           THEN Goto(r, IssueFrom(pointer[k])) /\ UNCHANGED todo
           ELSE /\ todo' = [todo EXCEPT ![r] = b.slots]
                /\ Goto(r, "putSlots")
  /\ UNCHANGED <<storeVars, limitVars, input, who, took, began>>

-----------------------------------------------------------------------------
(* POST /register                                                           *)

ProveRegistration(r) ==
  IF SignedBy(r, input[r].body.key) THEN "consume" ELSE "penalize"

RegisterUser(r) ==
  /\ At(r, "registerUser")
  /\ Goto(r, IF profile[who[r]] # None THEN "conflict"
             ELSE IF input[r].body.email # None THEN "registerEmail"
             ELSE ProveRegistration(r))
  /\ UNCHANGED <<storeVars, limitVars, localVars, began>>

RegisterEmail(r) ==
  /\ At(r, "registerEmail")
  /\ Goto(r, IF emailIndex[input[r].body.email] # None THEN "conflict"
             ELSE ProveRegistration(r))
  /\ UNCHANGED <<storeVars, limitVars, localVars, began>>

-----------------------------------------------------------------------------
(* Creating the record: accountCreationLimited, then putUser hash field by  *)
(* hash field.  A new record carries no authTokenHash, so putUser leaves    *)
(* field "t" alone.                                                         *)

\* The integrator's gate may refuse (403) before anything is charged.
ChargeCreation(r) ==
  /\ At(r, "chargeCreation")
  /\ \/ /\ hits' = IF hits > CreateMax THEN hits ELSE hits + 1
        /\ Goto(r, IF hits < CreateMax THEN "putProfile" ELSE "refused")
     \/ /\ Goto(r, "refused")
        /\ UNCHANGED hits
  /\ UNCHANGED <<storeVars, windows, localVars, began>>

PutProfile(r) ==
  LET b == input[r].body IN
  /\ At(r, "putProfile")
  /\ profile' = [profile EXCEPT ![who[r]] =
                   [email |-> b.email,
                    method |-> IF b.kind = "connect" THEN "wallet" ELSE b.method]]
  /\ WriteSlots(r, b.slots)
  /\ UNCHANGED <<pointer, wallets, emailIndex, challenges, sessions, limitVars,
                 input, who, prev, took, began>>

\* Mutant of PutSlot: an import rewrites the whole record it read, session
\* pointer included, as every write did before slots were fields of their own.
PutSlotWholeRecord(r) ==
  /\ At(r, "putSlots")
  /\ \E s \in todo[r] :
       /\ wallets' = [wallets EXCEPT ![who[r]][s] = r]
       /\ WriteSlots(r, todo[r] \ {s})
  /\ pointer' = IF input[r].body.kind = "import"
                THEN [pointer EXCEPT ![who[r]] = input[r].token] ELSE pointer
  /\ UNCHANGED <<profile, emailIndex, challenges, sessions, limitVars,
                 input, who, prev, took, began>>

\* One hset of a "w:" field (putUser, putWalletSlot), in the body's own order.
PutSlot(r) ==
  /\ At(r, "putSlots")
  /\ \E s \in todo[r] :
       /\ wallets' = [wallets EXCEPT ![who[r]][s] = r]
       /\ WriteSlots(r, todo[r] \ {s})
  /\ UNCHANGED <<profile, pointer, emailIndex, challenges, sessions, limitVars,
                 input, who, prev, took, began>>

\* Mutant of ClaimEmail: hset, the last registration wins the address.
ClaimEmailOverwrites(r) ==
  /\ At(r, "claimEmail")
  /\ emailIndex' = [emailIndex EXCEPT ![input[r].body.email] = who[r]]
  /\ Goto(r, IssueFrom(prev[r]))
  /\ UNCHANGED <<profile, pointer, wallets, challenges, sessions, limitVars,
                 localVars, began>>

\* hsetnx, and on a field already claimed the hget that compares its holder.
ClaimEmail(r) ==
  LET e == input[r].body.email IN
  /\ At(r, "claimEmail")
  /\ IF emailIndex[e] = None
     THEN /\ emailIndex' = [emailIndex EXCEPT ![e] = who[r]]
          /\ Goto(r, IssueFrom(prev[r]))
     ELSE /\ Goto(r, IF emailIndex[e] = who[r] THEN IssueFrom(prev[r]) ELSE "conflict")
          /\ UNCHANGED emailIndex
  /\ UNCHANGED <<profile, pointer, wallets, challenges, sessions, limitVars,
                 localVars, began>>

-----------------------------------------------------------------------------
(* issueSession                                                             *)

\* The session deleted is the one the request's own snapshot names.
DeletePrevious(r) ==
  /\ At(r, "deletePrevious")
  /\ sessions' = [sessions EXCEPT ![prev[r]] = None]
  /\ Goto(r, "putSession")
  /\ UNCHANGED <<profile, pointer, wallets, emailIndex, challenges, limitVars,
                 localVars, began>>

PutSession(r) ==
  /\ At(r, "putSession")
  /\ sessions' = [sessions EXCEPT ![r] = who[r]]
  /\ Goto(r, "setPointer")
  /\ UNCHANGED <<profile, pointer, wallets, emailIndex, challenges, limitVars,
                 localVars, began>>

SetPointer(r) ==
  /\ At(r, "setPointer")
  /\ pointer' = [pointer EXCEPT ![who[r]] = r]
  /\ Goto(r, "granted")
  /\ UNCHANGED <<profile, wallets, emailIndex, challenges, sessions, limitVars,
                 localVars, began>>

-----------------------------------------------------------------------------
(* verifySession, and the three handlers behind it                          *)

\* logout answers 200 whatever the token was worth.
Deny(r) == Goto(r, IF input[r].body.kind = "logout" THEN "ok" ELSE "refused")

\* The third case is a session past its TTL: dropped on read, read as absent.
GetSession(r) ==
  /\ At(r, "getSession")
  /\ \/ /\ sessions[input[r].token] = who[r]
        /\ input[r].body.sameAgent
        /\ Goto(r, "checkPointer")
        /\ UNCHANGED sessions
     \/ /\ sessions[input[r].token] # who[r] \/ ~input[r].body.sameAgent
        /\ Deny(r)
        /\ UNCHANGED sessions
     \/ /\ sessions' = [sessions EXCEPT ![input[r].token] = None]
        /\ Deny(r)
  /\ UNCHANGED <<profile, pointer, wallets, emailIndex, challenges, limitVars,
                 localVars, began>>

\* Mutant of CheckPointer: the session key alone authorises.
CheckPointerTrustsSession(r) ==
  LET b == input[r].body IN
  /\ At(r, "checkPointer")
  /\ IF b.kind = "import"
     THEN WriteSlots(r, b.slots)
     ELSE /\ Goto(r, IF b.kind = "logout" THEN "revoke" ELSE "authorised")
          /\ UNCHANGED todo
  /\ UNCHANGED <<storeVars, limitVars, input, who, prev, took, began>>

\* The record's pointer is the authority.  An import then writes its slots.
CheckPointer(r) ==
  LET k == who[r]
      b == input[r].body
  IN
  /\ At(r, "checkPointer")
  /\ IF profile[k] = None \/ pointer[k] # input[r].token
     THEN Deny(r) /\ UNCHANGED todo
     ELSE \/ /\ b.kind = "import"
             /\ WriteSlots(r, b.slots)
          \/ /\ b.kind # "import"
             /\ Goto(r, IF b.kind = "logout" THEN "revoke" ELSE "authorised")
             /\ UNCHANGED todo
  /\ UNCHANGED <<storeVars, limitVars, input, who, prev, took, began>>

\* revokeSession deletes the session key; the pointer keeps naming it.
Revoke(r) ==
  /\ At(r, "revoke")
  /\ sessions' = [sessions EXCEPT ![input[r].token] = None]
  /\ Goto(r, "ok")
  /\ UNCHANGED <<profile, pointer, wallets, emailIndex, challenges, limitVars,
                 localVars, began>>

-----------------------------------------------------------------------------
(* Failure, and the creation window                                         *)

\* A store call throws, or the process dies: the request ends where it stands
\* and whatever it already wrote stays written.
Fail(r) ==
  /\ pc[r] \in Working
  /\ Cardinality({q \in Req : pc[q] = "failed"}) < MaxFailures
  /\ Goto(r, "failed")
  /\ UNCHANGED <<storeVars, limitVars, localVars, began>>

\* The window of the creation counter elapses.
NewWindow ==
  /\ windows < MaxWindows
  /\ windows' = windows + 1
  /\ hits' = 0
  /\ UNCHANGED <<storeVars, localVars, pc, began>>

Arrive(r) ==
  \E b \in Inputs, c, t \in Req \cup {None} : Begin(r, b, c, t)

Step(r) ==
  \/ Arrive(r)
  \/ ChallengeEmail(r) \/ PutChallenge(r) \/ ThrottleChallenge(r)
  \/ Penalize(r) \/ Consume(r)
  \/ LoginEmail(r) \/ LoginUser(r) \/ ReadUser(r) \/ ConnectUser(r)
  \/ RegisterUser(r) \/ RegisterEmail(r)
  \/ ChargeCreation(r) \/ PutProfile(r) \/ PutSlot(r) \/ ClaimEmail(r)
  \/ DeletePrevious(r) \/ PutSession(r) \/ SetPointer(r)
  \/ GetSession(r) \/ CheckPointer(r) \/ Revoke(r)
  \/ Fail(r)

Next ==
  \/ \E r \in Req : Step(r)
  \/ NewWindow

Spec == Init /\ [][Next]_vars

-----------------------------------------------------------------------------
(* Properties                                                               *)

\* takeChallenge is atomic: of all requests presenting one challenge, at most
\* one ever gets past consumeChallenge (replay, double submit, retry).
ChallengeSingleUse ==
  \A r, s \in Req :
    took[r] /\ took[s] /\ input[r].challenge = input[s].challenge => r = s

\* verifySession reads the session key and the record in two calls.  A request
\* whose token was already dead when it arrived (logged out, superseded by a
\* later login, expired, or never the winner of overlapping logins) is denied
\* all the same, whatever happens between the two reads.
DeadTokenRefused ==
  \A r \in Req :
    began[r].dead => pc[r] \notin {"authorised", "revoke", "putSlots", "imported"}

\* A request about to use issueSession's or revokeSession's power over a token.
Supersedes(r, k) ==
  who[r] = k /\ took[r] /\ pc[r] \in {"deletePrevious", "setPointer"} /\ pc'[r] # pc[r]
FindsExpired(r, t) == pc[r] = "getSession" /\ input[r].token = t /\ pc'[r] # pc[r]
LogsOut(r, t) == pc[r] = "revoke" /\ input[r].token = t /\ pc'[r] # pc[r]

\* One step never ends somebody's session except by that session's own logout,
\* by a login of the same account that consumed a challenge, or by its TTL.
SessionEndsForCause ==
  [][\A t \in Req, k \in Key :
       /\ sessions[t] = k /\ pointer[k] = t
       /\ ~(sessions'[t] = k /\ pointer'[k] = t)
       => \E r \in Req : Supersedes(r, k) \/ LogsOut(r, t) \/ FindsExpired(r, t)]_vars

\* Of concurrent registrations of one address the store lets one claim it: an
\* account whose registration was answered 201 is the one its email resolves to.
RegisteredEmailResolves ==
  \A r \in Req :
    pc[r] = "granted" /\ input[r].body.kind = "register" /\ input[r].body.email # None
      => emailIndex[input[r].body.email] = input[r].body.key

\* putUser writes a record in several store calls and may die after any of them.
\* An address leads to no half of one: the account it resolves to has its record
\* and every wallet of a registration that brought that address.
IndexedAccountIsWhole ==
  \A e \in Email, k \in Key : emailIndex[e] = k =>
    /\ profile[k] # None
    /\ \/ SeedProfile[k] # None
       \/ \E r \in Req :
            /\ input[r].body.kind = "register"
            /\ input[r].body.email = e /\ input[r].body.key = k
            /\ \A s \in input[r].body.slots : wallets[k][s] # None

\* r writes wallet slots in this step.
WritesSlot(r) == pc[r] = "putSlots" /\ todo'[r] # todo[r]

\* A stored wallet key is the only copy.  It is replaced only by an import, or
\* by a creation that arrived while the account still had no wallet: a connect
\* or login that arrives later never touches it, however requests interleave.
StoredWalletsKept ==
  [][\A k \in Key, s \in Slot :
       wallets[k][s] # None /\ wallets'[k][s] # wallets[k][s]
       => \E r \in Req : /\ WritesSlot(r)
                         /\ input[r].body.kind = "import" \/ ~began[r].stored]_vars

\* connectWallet's comment, "Wallets that already have keys are never touched",
\* read literally: no slot write of a connect replaces a wallet already stored.
ConnectNeverOverwrites ==
  [][\A r \in Req, k \in Key, s \in Slot :
       WritesSlot(r) /\ input[r].body.kind = "connect" /\ wallets[k][s] # None
       => wallets'[k][s] = wallets[k][s]]_vars

\* Whatever path creates them, no more records appear than the ceiling allows
\* for the windows that have begun.
CreationCeiling ==
  Cardinality({k \in Key : profile[k] # None /\ SeedProfile[k] = None})
    <= CreateMax * windows

\* What the session store promises (SingleSession), seen through verifySession.
current == [k \in Key |-> IF \E t \in Req : pointer[k] = t /\ sessions[t] = k
                          THEN pointer[k] ELSE None]
granted == {t \in Req : pc[t] = "granted"}

SingleSession == INSTANCE SingleSession WITH Token <- Req
ImplementsSingleSession == SingleSession!Spec
=============================================================================
