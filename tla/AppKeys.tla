------------------------------ MODULE AppKeys -------------------------------
(* The app key: how client/authClient.ts derives it in every flow, and what  *)
(* it is derived from. The server never sees the key, only wallets sealed    *)
(* under it, so a flow that derives another key than the one the account's   *)
(* wallets were sealed under has lost them. Two inputs can vary between two  *)
(* derivations of one account: the PBKDF2 iteration count, which follows the *)
(* configured security level, and the off-chain envelope a hardware wallet   *)
(* signs, which follows its firmware. Both are pinned in the record, handed  *)
(* out with the challenge, and kept in the browser's localStorage.           *)
(*                                                                           *)
(* A re-authentication derives the key again, and awaits it: a login or a    *)
(* logout of the page may come between. A handler of the server is one step, *)
(* but for the creation of a wallet's account, which is decided on one read  *)
(* and written awaits later; the other interleavings inside the handlers are *)
(* the subject of AuthServer.                                                *)
EXTENDS Naturals, FiniteSets

CONSTANTS Device,    \* browsers, each with its localStorage and one call
          Account,
          Email, Hardware,  \* accounts by email, and wallets on a hardware device
          Biometric,        \* accounts whose passkey's PRF secret is the app key
          Uses,      \* Uses[d]: the flows somebody runs on browser d, each for an account
          Passkey,   \* what a user may type or the panel may generate
          MaxAccounts,  \* bound: accounts created on the server
          Count,     \* PBKDF2_ITERATIONS: a count for each level
          None

ASSUME AccountAssumption ==
  /\ Email \cup Hardware \cup Biometric \subseteq Account
  /\ Email \cap Hardware = {} /\ Biometric \cap (Email \cup Hardware) = {}
Op == {"register", "auto", "login", "connect"}

ASSUME UsesAssumption ==
  Uses \in [Device -> SUBSET ((Op \cup {"unlock", "lock", "logout"}) \X Account)]

OffchainEnvelope == {"legacy", "v0"}

ASSUME NoneAssumption == None \notin Account \cup Passkey \cup Count \cup OffchainEnvelope

Firmware == SUBSET OffchainEnvelope \ {{}}

\* The accounts that are wallets: they prove themselves by signature.
Wallet == Account \ (Email \cup Biometric)
Secret(a) == IF a \in Email THEN Passkey ELSE {None}
Input(a) == IF a \in Email THEN Count ELSE IF a \in Hardware THEN OffchainEnvelope ELSE {None}

\* The key of account `of` under a secret and a derivation input.
AppKey(of, secret, input) == [of |-> of, secret |-> secret, input |-> input]
Key == UNION {{AppKey(a, secret, input) : secret \in Secret(a), input \in Input(a)} : a \in Account}

\* What the record keeps of it: the input is pinned, the wallets are sealed.
Record == [pin : Count \cup OffchainEnvelope \cup {None}, sealed : Key]

ASSUME RecordAssumption == None \notin Record \cup [key : Key, crossed : BOOLEAN]

VARIABLES
  record,     \* record[a]: its pinned input and the key its wallets are under
  session,    \* session[d]: the account of d's token and public key
  key,        \* key[d]: the armed app key
  email, iter, envelope,  \* the derivation inputs in d's localStorage
  call,       \* call[d]: the flow under way
  ceremony,   \* ceremony[d]: the key a re-authentication is about to arm
  early,      \* history: the record behind d's session is newer than its challenge
  crossed,    \* history: d's key comes from a ceremony a login or logout overtook
  turnedAway  \* history: a login with the right secret was refused

pins == <<email, iter, envelope>>
ceremonies == <<ceremony, crossed>>
vars == <<record, session, key, pins, call, ceremonies, early, turnedAway>>

Idle == [op |-> "none", step |-> "idle"]
TypeOK ==
  /\ record \in [Account -> Record \cup {None}]
  /\ session \in [Device -> Account \cup {None}]
  /\ key \in [Device -> Key \cup {None}]
  /\ email \in [Device -> Email \cup {None}]
  /\ iter \in [Device -> Count \cup {None}]
  /\ envelope \in [Device -> OffchainEnvelope \cup {None}]
  /\ \A d \in Device : call[d].step \in {"post", "create", "answer"} => call[d].key \in Key
  /\ ceremony \in [Device -> [key : Key, crossed : BOOLEAN] \cup {None}]
  /\ crossed \in [Device -> BOOLEAN]
  /\ early \in [Device -> BOOLEAN]
  /\ turnedAway \in BOOLEAN

Init ==
  /\ record = [a \in Account |-> None]
  /\ session = [d \in Device |-> None]
  /\ key = [d \in Device |-> None]
  /\ email = [d \in Device |-> None]
  /\ iter = [d \in Device |-> None]
  /\ envelope = [d \in Device |-> None]
  /\ call = [d \in Device |-> Idle]
  /\ ceremony = [d \in Device |-> None]
  /\ early = [d \in Device |-> FALSE]
  /\ crossed = [d \in Device |-> FALSE]
  /\ turnedAway = FALSE

\* AES-GCM: a wallet of a opens under the key it was sealed with, and no other.
Opens(k, a) == record[a] # None /\ record[a].sealed = k

-----------------------------------------------------------------------------
(* Derivation.                                                               *)

\* Mutant of signMessage: the pin is not honoured.
CascadesAlways(pinned, firmware) ==
  IF "legacy" \in firmware THEN {"legacy"} ELSE {"v0"}

\* The Ledger signer under the firmware of the day: unpinned it tries legacy,
\* then v0; with a pinned envelope it signs that one or fails.
signMessage(pinned, firmware) ==
  IF pinned # None THEN {pinned} \cap firmware
  ELSE IF "legacy" \in firmware THEN {"legacy"} ELSE {"v0"}

\* The keys a ceremony for a may yield, given the pin it was handed.
deriveAppKey(a, secret, pin, firmware) ==
  {AppKey(a, secret, input) :
     input \in IF a \in Hardware THEN signMessage(pin, firmware)
               ELSE IF a \in Email THEN {pin} ELSE {None}}

\* Mutant of setSession: a derivation input, once stored, is kept.
KeepsOldInputs(d, c) ==
  /\ session' = [session EXCEPT ![d] = c.a]
  /\ key' = [key EXCEPT ![d] = c.key]
  /\ email' = [email EXCEPT ![d] = IF c.a \in Email THEN c.a ELSE @]
  /\ iter' = [iter EXCEPT ![d] = IF c.a \in Email /\ @ = None THEN c.key.input ELSE @]
  /\ envelope' = [envelope EXCEPT ![d] = IF c.a \in Hardware THEN c.key.input ELSE @]

\* What setSession leaves in localStorage: a value it is not given stays.
setSession(d, c) ==
  /\ session' = [session EXCEPT ![d] = c.a]
  /\ key' = [key EXCEPT ![d] = c.key]
  /\ email' = [email EXCEPT ![d] = IF c.a \in Email THEN c.a ELSE @]
  /\ iter' = [iter EXCEPT ![d] = IF c.a \in Email THEN c.key.input ELSE @]
  /\ envelope' = [envelope EXCEPT ![d] = IF c.a \in Hardware THEN c.key.input ELSE @]

-----------------------------------------------------------------------------
(* The flows. A register by email derives at once, at the level its page is  *)
(* built with, and one by passkey from the new credential; every other flow  *)
(* asks for a challenge first.                                               *)

Await(d, c) == call' = [call EXCEPT ![d] = c]

registerWithEmail(d, op, a, secret) ==
  /\ call[d] = Idle /\ a \in Email /\ op \in {"register", "auto"}
  /\ \E level \in Count : \E k \in deriveAppKey(a, secret, level, {}) :
       Await(d, [op |-> op, step |-> "post", a |-> a, secret |-> secret,
                 key |-> k, known |-> FALSE])
  /\ UNCHANGED <<record, session, key, pins, ceremonies, early, turnedAway>>

\* A passkey is made first, so that the account is a new one every time.
registerWithBiometric(d, a) ==
  /\ call[d] = Idle /\ a \in Biometric
  /\ record[a] = None /\ \A x \in Device : call[x] # Idle => call[x].a # a
  /\ \E k \in deriveAppKey(a, None, None, {}) :
       Await(d, [op |-> "register", step |-> "post", a |-> a, secret |-> None,
                 key |-> k, known |-> FALSE])
  /\ UNCHANGED <<record, session, key, pins, ceremonies, early, turnedAway>>

\* The challenge is asked for under the identifier derived from the credential.
loginWithBiometric(d, a) ==
  /\ call[d] = Idle /\ a \in Biometric
  /\ Await(d, [op |-> "login", step |-> "challenge", a |-> a, secret |-> None])
  /\ UNCHANGED <<record, session, key, pins, ceremonies, early, turnedAway>>

\* The bound on the accounts a creation is begun for.
Room(a) == Cardinality({x \in Account : record[x] # None} \cup {a}) <= MaxAccounts

Begin(d, op, a, secret) ==
  /\ call[d] = Idle
  /\ \/ a \in Wallet /\ op \in {"register", "login", "connect"}
     \/ a \in Email /\ op = "login"
  /\ Await(d, [op |-> op, step |-> "challenge", a |-> a, secret |-> secret])
  /\ UNCHANGED <<record, session, key, pins, ceremonies, early, turnedAway>>

\* Mutants of pinFor: the configured count for every email; no count for an
\* email without a record.
HandsOutDefault(a) ==
  IF a \in Email THEN Count ELSE IF record[a] # None THEN {record[a].pin} ELSE {None}
OmitsDefault(a) ==
  IF record[a] # None /\ record[a].pin # None THEN {record[a].pin} ELSE {None}

\* What /challenge hands out: the record's pin, and for an email without one
\* the count of whatever level the server is configured with.
pinFor(a) ==
  IF record[a] # None /\ record[a].pin # None THEN {record[a].pin}
  ELSE IF a \in Email THEN Count ELSE {None}

challenge(d) ==
  /\ call[d].step = "challenge"
  /\ LET c == call[d]
         known == record[c.a] # None
     IN \E pin \in pinFor(c.a) :
          Await(d, [op |-> c.op, step |-> "derive", a |-> c.a, secret |-> c.secret,
                    known |-> known, pin |-> pin])
  /\ UNCHANGED <<record, session, key, pins, ceremonies, early, turnedAway>>

\* The ceremony. A hardware wallet that no longer signs the pin ends it: lose.
walletHandshake(d) ==
  /\ call[d].step = "derive"
  /\ LET c == call[d]
     IN \E firmware \in Firmware : \E k \in deriveAppKey(c.a, c.secret, c.pin, firmware) :
          Await(d, [op |-> c.op, step |-> "post", a |-> c.a, secret |-> c.secret,
                    key |-> k, known |-> c.known])
  /\ UNCHANGED <<record, session, key, pins, ceremonies, early, turnedAway>>

Creating == {"register", "auto", "connect"}
Answered(d) == Await(d, [call[d] EXCEPT !.step = "answer"])
\* What a registration pins: the input of its key, if it has one.
Pinned(c) == [pin |-> c.key.input, sealed |-> c.key]

\* The account of a wallet is created on the strength of this read.
decide(d) ==
  /\ call[d].step = "post" /\ call[d].op \in Creating
  /\ call[d].a \in Wallet /\ record[call[d].a] = None /\ Room(call[d].a)
  /\ Await(d, [call[d] EXCEPT !.step = "create"])
  /\ UNCHANGED <<record, session, key, pins, ceremonies, early, turnedAway>>

\* The record written: an address or a credential is claimed in the same step,
\* a wallet's record replaces one that a racing creation wrote meanwhile.
create(d) ==
  /\ \/ call[d].step = "create"
     \/ /\ call[d].step = "post" /\ call[d].op \in Creating
        /\ call[d].a \notin Wallet /\ record[call[d].a] = None /\ Room(call[d].a)
  /\ LET a == call[d].a
         replaced == record[a] \notin {None, Pinned(call[d])}
         Overtaken(c) == replaced /\ c # Idle /\ c.a = a /\ c.step # "challenge"
     IN /\ record' = [record EXCEPT ![a] = Pinned(call[d])]
        /\ call' = [x \in Device |->
             IF x = d THEN [call[d] EXCEPT !.step = "answer"]
             ELSE IF Overtaken(call[x]) THEN [call[x] EXCEPT !.known = FALSE]
             ELSE call[x]]
        /\ early' = [x \in Device |-> early[x] \/ (replaced /\ session[x] = a)]
  /\ UNCHANGED <<session, key, pins, ceremonies, turnedAway>>

\* 409. The panel's auto mode goes on to log in with what was typed.
collision(d) ==
  /\ call[d].step = "post" /\ call[d].op \in {"register", "auto"}
  /\ record[call[d].a] # None
  /\ LET c == call[d]
     IN \/ c.op = "auto" /\ Await(d, [op |-> "login", step |-> "challenge", a |-> c.a, secret |-> c.secret])
        \/ Await(d, Idle)
  /\ UNCHANGED <<record, session, key, pins, ceremonies, early, turnedAway>>

\* An account by email or passkey is let in by the auth key derived from its
\* app key, over a challenge that was really issued; a wallet by its signature.
LetIn(c) ==
  /\ record[c.a] # None
  /\ c.a \in Wallet \/ (c.known /\ record[c.a].sealed = c.key)

login(d) ==
  /\ call[d].step = "post" /\ call[d].op \in {"login", "connect"}
  /\ call[d].op = "connect" => record[call[d].a] # None
  /\ LET c == call[d]
     IN /\ IF LetIn(c) THEN Answered(d) ELSE Await(d, Idle)
        /\ turnedAway' = (turnedAway \/
             (~LetIn(c) /\ c.known /\ record[c.a].sealed.secret = c.secret))
  /\ UNCHANGED <<record, session, key, pins, ceremonies, early>>

\* A login or a logout overtakes the ceremony under way.
overtake(d) ==
  /\ crossed' = [crossed EXCEPT ![d] = FALSE]
  /\ ceremony' = [ceremony EXCEPT ![d] = IF @ = None THEN None ELSE [@ EXCEPT !.crossed = TRUE]]

receive(d) ==
  /\ call[d].step = "answer"
  /\ setSession(d, call[d])
  /\ early' = [early EXCEPT ![d] =
                 ~call[d].known /\ record[call[d].a].sealed # call[d].key]
  /\ overtake(d)
  /\ Await(d, Idle)
  /\ UNCHANGED <<record, turnedAway>>

\* The request, the answer or the ceremony fails: what the server did stays.
lose(d) ==
  /\ call[d] # Idle
  /\ Await(d, Idle)
  /\ UNCHANGED <<record, session, key, pins, ceremonies, early, turnedAway>>

\* A re-authentication begins: by passkey for the address in localStorage, by
\* signature for the wallet at hand, from the pins in localStorage. With the
\* user record loaded the key is to open a wallet of the account signed in;
\* without it, it is taken as it is. No session and no lock is asked for. The
\* wallet or passkey at hand is that of the session, if there is one: the key
\* another one would arm, and the key unwrapped from the device, are strayKey's
\* subject in PageSession and BiometricUnlock.
reauthenticate(d, a, secret, loaded) ==
  /\ ceremony[d] = None
  /\ IF a \in Email THEN email[d] = a ELSE session[d] \in {None, a}
  /\ LET pin == IF a \in Email THEN iter[d] ELSE envelope[d]
     IN \E firmware \in Firmware : \E k \in deriveAppKey(a, secret, pin, firmware) :
          /\ loaded => session[d] # None /\ Opens(k, session[d])
          /\ ceremony' = [ceremony EXCEPT ![d] = [key |-> k, crossed |-> FALSE]]
  /\ UNCHANGED <<record, session, key, pins, call, crossed, early, turnedAway>>

\* It ends: the key is armed, whoever is signed in by now.
unlock(d) ==
  /\ ceremony[d] # None
  /\ key' = [key EXCEPT ![d] = ceremony[d].key]
  /\ crossed' = [crossed EXCEPT ![d] = ceremony[d].crossed]
  /\ ceremony' = [ceremony EXCEPT ![d] = None]
  /\ UNCHANGED <<record, session, pins, call, early, turnedAway>>

\* It is declined.
lapse(d) ==
  /\ ceremony[d] # None
  /\ ceremony' = [ceremony EXCEPT ![d] = None]
  /\ UNCHANGED <<record, session, key, pins, call, crossed, early, turnedAway>>

lockVault(d) ==
  /\ key[d] # None
  /\ key' = [key EXCEPT ![d] = None]
  /\ crossed' = [crossed EXCEPT ![d] = FALSE]
  /\ UNCHANGED <<record, session, pins, call, ceremony, early, turnedAway>>

clearSession(d) ==
  /\ session' = [session EXCEPT ![d] = None]
  /\ key' = [key EXCEPT ![d] = None]
  /\ email' = [email EXCEPT ![d] = None]
  /\ iter' = [iter EXCEPT ![d] = None]
  /\ envelope' = [envelope EXCEPT ![d] = None]
  /\ early' = [early EXCEPT ![d] = FALSE]
  /\ overtake(d)
  /\ UNCHANGED <<record, call, turnedAway>>

Flow(d) ==
  \/ \E op \in Op, a \in Account : \E secret \in Secret(a) :
       /\ <<op, a>> \in Uses[d]
       /\ registerWithEmail(d, op, a, secret) \/ Begin(d, op, a, secret)
  \/ \E a \in Account :  \* the user of a
       \/ <<"register", a>> \in Uses[d] /\ registerWithBiometric(d, a)
       \/ <<"login", a>> \in Uses[d] /\ loginWithBiometric(d, a)
       \/ <<"unlock", a>> \in Uses[d] /\ \E secret \in Secret(a), loaded \in BOOLEAN :
            reauthenticate(d, a, secret, loaded)
       \/ <<"lock", a>> \in Uses[d] /\ session[d] \in {None, a} /\ lockVault(d)
       \/ <<"logout", a>> \in Uses[d] /\ session[d] \in {None, a} /\ clearSession(d)
  \/ challenge(d) \/ walletHandshake(d) \/ decide(d) \/ create(d) \/ collision(d)
  \/ login(d) \/ receive(d) \/ lose(d) \/ unlock(d) \/ lapse(d)

Next == \E d \in Device : Flow(d)

Spec == Init /\ [][Next]_vars

-----------------------------------------------------------------------------
(* Whoever holds a session and armed it with the right secret holds the key  *)
(* that opens the account's wallets, after any change of security level or   *)
(* firmware and on any browser. Two exceptions are kept as history. `early`: *)
(* the record behind the session is newer than the session's challenge (a    *)
(* first connect logged in to a record made meanwhile, or two creations of   *)
(* one wallet raced and the later one replaced pin and key). `crossed`: the  *)
(* key comes from a re-authentication that a login or a logout of the page   *)
(* overtook, which armed what it had derived before.                         *)
SessionKeyOpensWallets ==
  \A d \in Device :
    /\ session[d] # None /\ key[d] # None /\ ~early[d] /\ ~crossed[d]
    /\ key[d].secret = record[session[d]].sealed.secret
    => Opens(key[d], session[d])

(* The right passkey, over a challenge that was really issued, is never      *)
(* refused, whatever level the account was registered at.                    *)
RightSecretLogsIn == ~turnedAway

(* A browser that locks can re-derive on its own what it armed at login: the *)
(* inputs in its localStorage are those of the account it is signed in to,   *)
(* whichever accounts it was signed in to before, unless the record is newer *)
(* than the session's challenge (`early`).                                   *)
LocalPinsFitSession ==
  \A d \in Device : session[d] # None /\ ~early[d] =>
    /\ session[d] \in Email => email[d] = session[d] /\ iter[d] = record[session[d]].pin
    /\ session[d] \in Hardware => envelope[d] = record[session[d]].pin
=============================================================================
