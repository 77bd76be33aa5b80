--------------------------- MODULE AppKeysProofs ----------------------------
(* Every property of AppKeys that a run checks, for any set of browsers and  *)
(* accounts: one inductive invariant relates what a flow in flight was       *)
(* handed, what the record pins and what the browser keeps.                  *)
EXTENDS AppKeys, TLAPS

Post == [op : Op, step : {"post", "create", "answer"}, a : Account, secret : Passkey \cup {None},
         key : Key, known : BOOLEAN]

Call ==
  {Idle}
  \cup [op : Op, step : {"challenge"}, a : Account, secret : Passkey \cup {None}]
  \cup [op : Op, step : {"derive"}, a : Account, secret : Passkey \cup {None},
        known : BOOLEAN, pin : Count \cup OffchainEnvelope \cup {None}]
  \cup Post

\* A flow that was told the account exists derives under the record's pin.
CallFits(c) ==
  /\ c \in Call
  /\ c.step # "idle" => c.secret \in Secret(c.a)
  /\ c.step = "derive" =>
       /\ c.a \in Email => c.pin \in Count
       /\ c.known => record[c.a] # None /\ c.pin = record[c.a].pin
  /\ c.step \in {"post", "create", "answer"} =>
       /\ c.key.of = c.a /\ c.key.secret = c.secret
       /\ c.known => record[c.a] # None /\ c.key.input = record[c.a].pin
  /\ c.step = "answer" => record[c.a] # None

CallsFit == call \in [Device -> Call] /\ \A d \in Device : CallFits(call[d])

RecordsPinned ==
  \A a \in Account : record[a] # None =>
    record[a].sealed.of = a /\ record[a].sealed.input = record[a].pin

\* A key derived on d is that of the account signed in, under the pinned input
\* unless the session was early. (With a wallet signed in, an address that is
\* left in localStorage may still yield a key of the account by email.)
KeyFits(k, d) ==
  (k.of \in Email => session[d] \in Email) =>
    k.of = session[d] /\ (~early[d] => k.input = record[session[d]].pin)

\* What a session rests on; what it knows of the input, unless it was early;
\* the key in memory and the one that is under way, unless they were crossed.
SessionFits(d) ==
  session[d] # None =>
    /\ record[session[d]] # None
    /\ session[d] \in Email => email[d] = session[d] /\ iter[d] \in Count
    /\ ~early[d] =>
         /\ session[d] \in Email => iter[d] = record[session[d]].pin
         /\ session[d] \in Hardware => envelope[d] = record[session[d]].pin
    /\ key[d] # None /\ ~crossed[d] => KeyFits(key[d], d)
    /\ ceremony[d] # None /\ ~ceremony[d].crossed => KeyFits(ceremony[d].key, d)

SessionsFit == \A d \in Device : SessionFits(d)

\* An address in localStorage comes with its count, and goes with the session.
StoredIters == \A d \in Device : email[d] # None => session[d] # None /\ iter[d] \in Count

IInv == TypeOK /\ StoredIters /\ CallsFit /\ RecordsPinned /\ SessionsFit /\ RightSecretLogsIn

-----------------------------------------------------------------------------
(* Keys.                                                                     *)

LEMMA KeyFields ==
  ASSUME NEW k \in Key
  PROVE  /\ k.of \in Account /\ k.secret \in Secret(k.of) /\ k.input \in Input(k.of)
         /\ k = AppKey(k.of, k.secret, k.input)
<1>1. PICK a \in Account : k \in {AppKey(a, s, i) : s \in Secret(a), i \in Input(a)}
  BY DEF Key
<1>2. PICK s \in Secret(a), i \in Input(a) : k = AppKey(a, s, i)
  BY <1>1
<1> QED  BY <1>2 DEF AppKey

LEMMA KeyMade ==
  ASSUME NEW a \in Account, NEW s \in Secret(a), NEW i \in Input(a)
  PROVE  /\ AppKey(a, s, i) \in Key
         /\ AppKey(a, s, i).of = a /\ AppKey(a, s, i).secret = s /\ AppKey(a, s, i).input = i
<1>1. AppKey(a, s, i) \in {AppKey(a, x, y) : x \in Secret(a), y \in Input(a)}
  OBVIOUS
<1> QED  BY <1>1 DEF Key, AppKey

\* A ceremony yields a key of the account and the secret; under a pin that is
\* an input of the account, it is the pinned one.
LEMMA Derived ==
  ASSUME NEW a \in Account, NEW s \in Secret(a), NEW pin, NEW firmware \in SUBSET OffchainEnvelope,
         a \in Email => pin \in Count,
         NEW k \in deriveAppKey(a, s, pin, firmware)
  PROVE  /\ k \in Key /\ k.of = a /\ k.secret = s
         /\ pin \in Input(a) => k.input = pin
<1>1. PICK input \in (IF a \in Hardware THEN signMessage(pin, firmware)
                      ELSE IF a \in Email THEN {pin} ELSE {None}) : k = AppKey(a, s, input)
  BY DEF deriveAppKey
<1>2. input \in Input(a) /\ (pin \in Input(a) => input = pin)
  BY <1>1, AccountAssumption, NoneAssumption DEF Input, signMessage, OffchainEnvelope
<1> QED  BY <1>1, <1>2, KeyMade

-----------------------------------------------------------------------------
(* Steps.                                                                    *)

LEMMA IdleFits == CallFits(Idle)
  BY DEF CallFits, Call, Post, Idle

LEMMA InitIInv == Init => IInv
<1> SUFFICES ASSUME Init PROVE IInv
  OBVIOUS
<1>1. Idle \in Call /\ Idle.step = "idle"
  BY DEF Call, Post, Idle
<1>2. CallsFit
  BY <1>1, IdleFits DEF Init, CallsFit
<1>3. TypeOK /\ StoredIters
  BY <1>1 DEF Init, TypeOK, StoredIters
<1> QED  BY <1>2, <1>3 DEF Init, IInv, RecordsPinned, SessionsFit, SessionFits, RightSecretLogsIn

\* A record with its pin: an input of the account, never None for an email or
\* a hardware wallet.
LEMMA PinIsInput ==
  ASSUME IInv, NEW a \in Account, record[a] # None
  PROVE  /\ record[a].sealed \in Key /\ record[a].pin \in Input(a)
         /\ record[a].pin \in Count \cup OffchainEnvelope \cup {None}
         /\ a \in Email => record[a].pin \in Count
<1>1. /\ record[a].sealed \in Key /\ record[a].sealed.of = a
      /\ record[a].sealed.input = record[a].pin
      /\ record[a].pin \in Count \cup OffchainEnvelope \cup {None}
  BY DEF IInv, TypeOK, RecordsPinned, Record
<1> QED  BY <1>1, KeyFields DEF Input

\* A step that only moves d's flow to a fitting state.
LEMMA CallStep ==
  ASSUME IInv, NEW d \in Device, NEW c, CallFits(c), Await(d, c),
         UNCHANGED <<record, session, key, pins, ceremonies, early, turnedAway>>
  PROVE  IInv'
<1>1. c \in Call  BY DEF CallFits
<1>2. call' \in [Device -> Call] /\ call'[d] = c /\ \A x \in Device \ {d} : call'[x] = call[x]
  BY <1>1 DEF IInv, CallsFit, Await
<1>3. \A x \in Device : CallFits(call'[x])
  BY <1>2 DEF IInv, CallsFit
<1>4. CallsFit'
  BY <1>2, <1>3 DEF CallsFit, CallFits
<1>5. \A x \in Device : call'[x].step \in {"post", "create", "answer"} => call'[x].key \in Key
  BY <1>2, <1>3 DEF CallFits, Call, Post, Idle
<1>6. TypeOK'
  BY <1>5 DEF IInv, TypeOK, pins, ceremonies
<1> QED
  BY <1>4, <1>6 DEF IInv, RecordsPinned, SessionsFit, SessionFits, StoredIters, KeyFits, RightSecretLogsIn,
          pins, ceremonies

LEMMA registerStep ==
  ASSUME IInv, NEW d \in Device, NEW op \in Op, NEW a \in Account, NEW secret \in Secret(a),
         registerWithEmail(d, op, a, secret)
  PROVE  IInv'
<1>1. PICK level \in Count : \E k \in deriveAppKey(a, secret, level, {}) :
        Await(d, [op |-> op, step |-> "post", a |-> a, secret |-> secret,
                  key |-> k, known |-> FALSE])
  BY DEF registerWithEmail
<1>2. PICK k \in deriveAppKey(a, secret, level, {}) :
        Await(d, [op |-> op, step |-> "post", a |-> a, secret |-> secret,
                  key |-> k, known |-> FALSE])
  BY <1>1
<1> DEFINE c == [op |-> op, step |-> "post", a |-> a, secret |-> secret,
                 key |-> k, known |-> FALSE]
<1>3. k \in Key /\ k.of = a /\ k.secret = secret
  BY <1>2, Derived
<1>4. secret \in Passkey \cup {None}
  BY DEF Secret
<1>5. c \in Call
  BY <1>3, <1>4 DEF Call, Post
<1>6. CallFits(c)
  BY <1>3, <1>5 DEF CallFits
<1> HIDE DEF c
<1> QED  BY <1>2, <1>6, CallStep DEF c, registerWithEmail

LEMMA registerWithBiometricStep ==
  ASSUME IInv, NEW d \in Device, NEW a \in Account, registerWithBiometric(d, a)
  PROVE  IInv'
<1>1. PICK k \in deriveAppKey(a, None, None, {}) :
        Await(d, [op |-> "register", step |-> "post", a |-> a, secret |-> None,
                  key |-> k, known |-> FALSE])
  BY DEF registerWithBiometric
<1> DEFINE c == [op |-> "register", step |-> "post", a |-> a, secret |-> None,
                 key |-> k, known |-> FALSE]
<1>2. None \in Secret(a) /\ a \notin Email
  BY AccountAssumption DEF registerWithBiometric, Secret
<1>3. k \in Key /\ k.of = a /\ k.secret = None
  BY <1>1, <1>2, Derived
<1>4. c \in Call
  BY <1>3 DEF Call, Post, Op
<1>5. CallFits(c)
  BY <1>2, <1>3, <1>4 DEF CallFits
<1> HIDE DEF c
<1> QED  BY <1>1, <1>5, CallStep DEF c, registerWithBiometric

LEMMA AskFits ==
  ASSUME NEW op \in Op, NEW a \in Account, NEW secret \in Secret(a)
  PROVE  CallFits([op |-> op, step |-> "challenge", a |-> a, secret |-> secret])
<1>1. secret \in Passkey \cup {None}
  BY DEF Secret
<1> QED  BY <1>1 DEF CallFits, Call, Post

LEMMA loginWithBiometricStep ==
  ASSUME IInv, NEW d \in Device, NEW a \in Account, loginWithBiometric(d, a)
  PROVE  IInv'
<1>1. None \in Secret(a)
  BY AccountAssumption DEF loginWithBiometric, Secret
<1>2. CallFits([op |-> "login", step |-> "challenge", a |-> a, secret |-> None])
  BY <1>1, AskFits DEF Op
<1> QED  BY <1>2, CallStep DEF loginWithBiometric

LEMMA BeginStep ==
  ASSUME IInv, NEW d \in Device, NEW op \in Op, NEW a \in Account, NEW secret \in Secret(a),
         Begin(d, op, a, secret)
  PROVE  IInv'
  BY AskFits, CallStep DEF Begin

LEMMA challengeStep ==
  ASSUME IInv, NEW d \in Device, challenge(d)
  PROVE  IInv'
<1> DEFINE c == call[d]
           known == record[c.a] # None
<1>1. c \in Call /\ c.step = "challenge" /\ CallFits(c)
  BY DEF IInv, CallsFit, challenge
<1>2. c.op \in Op /\ c.a \in Account /\ c.secret \in Secret(c.a)
      /\ c.secret \in Passkey \cup {None}
  BY <1>1 DEF Call, Post, CallFits, Idle
<1>3. PICK pin \in pinFor(c.a) :
        Await(d, [op |-> c.op, step |-> "derive", a |-> c.a, secret |-> c.secret,
                  known |-> known, pin |-> pin])
  BY DEF challenge
<1> DEFINE n == [op |-> c.op, step |-> "derive", a |-> c.a, secret |-> c.secret,
                 known |-> known, pin |-> pin]
<1>4. known => /\ record[c.a].pin \in Count \cup OffchainEnvelope \cup {None}
               /\ c.a \in Email => record[c.a].pin \in Count
  BY <1>2, PinIsInput
<1>5. /\ pin \in Count \cup OffchainEnvelope \cup {None}
      /\ c.a \in Email => pin \in Count
      /\ known => pin = record[c.a].pin
  BY <1>3, <1>4, NoneAssumption DEF pinFor
<1>6. n \in Call
  BY <1>2, <1>5 DEF Call, Post
<1>7. CallFits(n)
  BY <1>2, <1>5, <1>6 DEF CallFits
<1>8. UNCHANGED <<record, session, key, pins, ceremonies, early, turnedAway>>
  BY DEF challenge
<1> HIDE DEF n
<1> QED  BY <1>3, <1>7, <1>8, CallStep DEF n

LEMMA walletHandshakeStep ==
  ASSUME IInv, NEW d \in Device, walletHandshake(d)
  PROVE  IInv'
<1> DEFINE c == call[d]
<1>1. c \in Call /\ c.step = "derive" /\ CallFits(c)
  BY DEF IInv, CallsFit, walletHandshake
<1>2. /\ c.op \in Op /\ c.a \in Account /\ c.secret \in Secret(c.a)
      /\ c.secret \in Passkey \cup {None} /\ c.known \in BOOLEAN
      /\ c.a \in Email => c.pin \in Count
  BY <1>1 DEF Call, Post, CallFits, Idle
<1>3. PICK firmware \in Firmware : \E k \in deriveAppKey(c.a, c.secret, c.pin, firmware) :
        Await(d, [op |-> c.op, step |-> "post", a |-> c.a, secret |-> c.secret,
                  key |-> k, known |-> c.known])
  BY DEF walletHandshake
<1>4. PICK k \in deriveAppKey(c.a, c.secret, c.pin, firmware) :
        Await(d, [op |-> c.op, step |-> "post", a |-> c.a, secret |-> c.secret,
                  key |-> k, known |-> c.known])
  BY <1>3
<1> DEFINE n == [op |-> c.op, step |-> "post", a |-> c.a, secret |-> c.secret,
                 key |-> k, known |-> c.known]
<1>5. /\ k \in Key /\ k.of = c.a /\ k.secret = c.secret
      /\ c.pin \in Input(c.a) => k.input = c.pin
  BY <1>2, <1>4, Derived DEF Firmware
<1>6. c.known => record[c.a] # None /\ c.pin = record[c.a].pin /\ c.pin \in Input(c.a)
  BY <1>1, <1>2, PinIsInput DEF CallFits
<1>7. n \in Call
  BY <1>2, <1>5 DEF Call, Post
<1>8. CallFits(n)
  BY <1>2, <1>5, <1>6, <1>7 DEF CallFits
<1>9. UNCHANGED <<record, session, key, pins, ceremonies, early, turnedAway>>
  BY DEF walletHandshake
<1> HIDE DEF n
<1> QED  BY <1>4, <1>8, <1>9, CallStep DEF n

\* What a request in flight carries.
LEMMA Posting ==
  ASSUME IInv, NEW d \in Device, call[d].step \in {"post", "create", "answer"}
  PROVE  LET c == call[d]
         IN /\ c \in Call /\ c.op \in Op /\ c.a \in Account /\ c.secret \in Secret(c.a)
            /\ c.secret \in Passkey \cup {None} /\ c.known \in BOOLEAN
            /\ c.key \in Key /\ c.key.of = c.a /\ c.key.secret = c.secret
            /\ c.known => record[c.a] # None /\ c.key.input = record[c.a].pin
            /\ c.step = "answer" => record[c.a] # None
            /\ c \in Post
<1>1. call[d] \in Call /\ CallFits(call[d])
  BY DEF IInv, CallsFit
<1> QED  BY <1>1 DEF CallFits, Call, Post, Idle

LEMMA collisionStep ==
  ASSUME IInv, NEW d \in Device, collision(d)
  PROVE  IInv'
<1> DEFINE c == call[d]
<1>1. c.a \in Account /\ c.secret \in Secret(c.a)
  BY Posting DEF collision
<1>2. CallFits([op |-> "login", step |-> "challenge", a |-> c.a, secret |-> c.secret])
  BY <1>1, AskFits DEF Op
<1> QED  BY <1>2, IdleFits, CallStep DEF collision

LEMMA loseStep ==
  ASSUME IInv, NEW d \in Device, lose(d)
  PROVE  IInv'
  BY IdleFits, CallStep DEF lose

\* Keys of one account from one secret and one input are one key: whoever was
\* told the record's pin and has its secret has its key, and is let in.
LEMMA OneKey ==
  ASSUME IInv, NEW k \in Key, record[k.of] # None,
         k.secret = record[k.of].sealed.secret, k.input = record[k.of].pin
  PROVE  k = record[k.of].sealed
<1>1. k.of \in Account /\ k = AppKey(k.of, k.secret, k.input)
  BY KeyFields
<1>2. record[k.of].sealed \in Key
  BY <1>1, PinIsInput
<1>3. record[k.of].sealed = AppKey(record[k.of].sealed.of, record[k.of].sealed.secret, record[k.of].sealed.input)
  BY <1>2, KeyFields
<1>4. record[k.of].sealed.of = k.of /\ record[k.of].sealed.input = k.input
  BY <1>1 DEF IInv, RecordsPinned
<1> QED  BY <1>1, <1>3, <1>4

LEMMA Answering ==
  ASSUME NEW c \in Post
  PROVE  LET n == [c EXCEPT !.step = "answer"]
         IN /\ n \in Post /\ n.step = "answer" /\ n.op = c.op /\ n.a = c.a
            /\ n.secret = c.secret /\ n.key = c.key /\ n.known = c.known
  BY DEF Post

LEMMA loginStep ==
  ASSUME IInv, NEW d \in Device, login(d)
  PROVE  IInv'
<1> DEFINE c == call[d]
<1>1. c.step = "post"
  BY DEF login
<1>2. /\ c.a \in Account /\ c.key \in Key /\ c.key.of = c.a /\ c.key.secret = c.secret
      /\ c.known => record[c.a] # None /\ c.key.input = record[c.a].pin
  BY <1>1, Posting
<1>3. ~(~LetIn(c) /\ c.known /\ record[c.a].sealed.secret = c.secret)
  BY <1>2, OneKey DEF LetIn
<1>4. turnedAway' = turnedAway
  <2>1. turnedAway = FALSE
    BY DEF IInv, TypeOK, RightSecretLogsIn
  <2>2. turnedAway' = (turnedAway \/
          (~LetIn(c) /\ c.known /\ record[c.a].sealed.secret = c.secret))
    BY DEF login
  <2> HIDE DEF c
  <2> QED  BY <1>3, <2>1, <2>2, Zenon
<1>5. CASE LetIn(c)
  <2> DEFINE n == [c EXCEPT !.step = "answer"]
  <2>1. /\ n \in Post /\ n.step = "answer" /\ n.a = c.a
        /\ n.secret = c.secret /\ n.key = c.key /\ n.known = c.known
    BY <1>1, Posting, Answering
  <2>2. CallFits(n)
    BY <1>1, <1>5, <2>1, Posting DEF CallFits, LetIn, Call
  <2>3. Await(d, n)
    BY <1>5 DEF login, Answered
  <2> HIDE DEF n
  <2> QED  BY <1>4, <2>2, <2>3, CallStep DEF login
<1>6. CASE ~LetIn(c)
  <2>1. Await(d, Idle)
    BY <1>6 DEF login
  <2> QED  BY <1>4, <2>1, IdleFits, CallStep DEF login
<1> QED  BY <1>5, <1>6

LEMMA decideStep ==
  ASSUME IInv, NEW d \in Device, decide(d)
  PROVE  IInv'
<1> DEFINE c == call[d]
           n == [c EXCEPT !.step = "create"]
<1>1. c.step = "post"
  BY DEF decide
<1>2. c \in Post /\ CallFits(c)
  BY <1>1, Posting DEF IInv, CallsFit
<1>3. /\ n \in Post /\ n.step = "create" /\ n.a = c.a
      /\ n.secret = c.secret /\ n.key = c.key /\ n.known = c.known
  BY <1>2 DEF Post
<1>4. CallFits(n)
  BY <1>1, <1>2, <1>3 DEF CallFits, Call
<1>5. Await(d, n)
  BY DEF decide
<1> HIDE DEF c, n
<1> QED  BY <1>4, <1>5, CallStep DEF decide

LEMMA createStep ==
  ASSUME IInv, NEW d \in Device, create(d)
  PROVE  IInv'
<1> DEFINE c == call[d]
           a == c.a
           n == [c EXCEPT !.step = "answer"]
           replaced == record[a] \notin {None, Pinned(c)}
           Over(x) == replaced /\ call[x] # Idle /\ call[x].a = a /\ call[x].step # "challenge"
<1>1. /\ c.step \in {"post", "create"} /\ record' = [record EXCEPT ![a] = Pinned(c)]
      /\ call' = [x \in Device |-> IF x = d THEN n
                                  ELSE IF Over(x) THEN [call[x] EXCEPT !.known = FALSE]
                                  ELSE call[x]]
      /\ early' = [x \in Device |-> early[x] \/ (replaced /\ session[x] = a)]
      /\ UNCHANGED <<session, key, pins, ceremonies, turnedAway>>
  BY DEF create
<1>2. /\ a \in Account /\ c.key \in Key /\ c.key.of = a /\ c.key.secret = c.secret
      /\ c.secret \in Secret(a) /\ c \in Post
  BY <1>1, Posting
<1>3. /\ n \in Call /\ n.step = "answer" /\ n.a = a
      /\ n.secret = c.secret /\ n.key = c.key /\ n.known = c.known
  BY <1>2, Answering DEF Call
<1>4. Pinned(c) \in Record /\ Pinned(c) # None
  <2>1. c.key.input \in Count \cup OffchainEnvelope \cup {None}
    BY <1>2, KeyFields DEF Input
  <2> QED  BY <1>2, <2>1, RecordAssumption DEF Pinned, Record
<1>5. /\ record' \in [Account -> Record \cup {None}] /\ record'[a] = Pinned(c)
      /\ \A b \in Account \ {a} : record'[b] = record[b]
      /\ ~replaced /\ record[a] # None => record'[a] = record[a]
  BY <1>1, <1>2, <1>4 DEF IInv, TypeOK
<1> HIDE DEF replaced
<1>6. ASSUME NEW x \in Device \ {d}
      PROVE  call'[x] \in Call /\ CallFits(call[x])'
  <2>1. CallFits(call[x]) /\ call[x] \in Call
    BY DEF IInv, CallsFit
  <2>2. call'[x] = IF Over(x) THEN [call[x] EXCEPT !.known = FALSE] ELSE call[x]
    BY <1>1
  <2>3. CASE Over(x)
    <3> DEFINE y == call[x]
               z == [y EXCEPT !.known = FALSE]
    <3>1. y # Idle /\ y.step # "challenge" /\ y \in Call
      BY <2>1, <2>3
    <3>2. \/ y \in Post
          \/ y \in [op : Op, step : {"derive"}, a : Account, secret : Passkey \cup {None},
                    known : BOOLEAN, pin : Count \cup OffchainEnvelope \cup {None}]
      BY <3>1 DEF Call
    <3>3. CASE y \in Post
      <4>1. /\ z \in Post /\ z.known = FALSE /\ z.step = y.step /\ z.a = y.a
            /\ z.secret = y.secret /\ z.key = y.key
            /\ y.step \in {"post", "create", "answer"}
        BY <3>3 DEF Post
      <4>2. z \in Call
        BY <4>1 DEF Call
      <4>3. y.a = a
        BY <2>3
      <4> HIDE DEF y, z, c
      <4>4. record'[a] # None
        BY <1>4, <1>5
      <4>5. CallFits(y) /\ call'[x] = z
        BY <2>1, <2>2, <2>3 DEF y, z
      <4> QED  BY <4>1, <4>2, <4>3, <4>4, <4>5 DEF CallFits
    <3>4. CASE y \in [op : Op, step : {"derive"}, a : Account, secret : Passkey \cup {None},
                      known : BOOLEAN, pin : Count \cup OffchainEnvelope \cup {None}]
      <4>1. /\ z \in [op : Op, step : {"derive"}, a : Account, secret : Passkey \cup {None},
                      known : BOOLEAN, pin : Count \cup OffchainEnvelope \cup {None}]
            /\ z.known = FALSE /\ z.step = y.step /\ z.a = y.a
            /\ z.secret = y.secret /\ z.pin = y.pin /\ y.step = "derive"
        BY <3>4
      <4>2. z \in Call
        BY <4>1 DEF Call
      <4> HIDE DEF y, z, c
      <4>3. CallFits(y) /\ call'[x] = z
        BY <2>1, <2>2, <2>3 DEF y, z
      <4> QED  BY <4>1, <4>2, <4>3 DEF CallFits
    <3> QED  BY <3>2, <3>3, <3>4
  <2>4. CASE ~Over(x)
    <3>1. call'[x] = call[x]
      BY <2>2, <2>4
    <3>2. CASE call[x] = Idle
      BY <3>1, <3>2, <2>1 DEF CallFits, Idle
    <3>3. CASE call[x] # Idle
      <4>1. call[x].a \in Account
        BY <2>1, <3>3 DEF Call, Post
      <4>2. call[x].step # "challenge" /\ record[call[x].a] # None => record'[call[x].a] = record[call[x].a]
        BY <1>5, <2>4, <3>3, <4>1
      <4>3. record[call[x].a] # None => record'[call[x].a] # None
        BY <1>4, <1>5, <4>1
      <4> HIDE DEF c, n, a, Over
      <4> QED  BY <2>1, <3>1, <4>2, <4>3 DEF CallFits
    <3> QED  BY <3>2, <3>3
  <2> QED  BY <2>3, <2>4
<1>7. call'[d] = n /\ CallFits(call[d])'
  <2>1. call'[d] = n
    BY <1>1
  <2>2. record'[a] # None /\ record'[a].pin = c.key.input
    BY <1>4, <1>5 DEF Pinned
  <2> HIDE DEF c, n, a
  <2> QED  BY <1>2, <1>3, <2>1, <2>2 DEF CallFits
<1>8. CallsFit'
  <2>1. call' = [x \in Device |-> call'[x]]
    BY <1>1
  <2>2. \A x \in Device : call'[x] \in Call /\ CallFits(call[x])'
    BY <1>3, <1>6, <1>7
  <2> QED  BY <2>1, <2>2 DEF CallsFit
<1>9. TypeOK'
  <2>1. \A x \in Device : call'[x].step \in {"post", "create", "answer"} => call'[x].key \in Key
    BY <1>8 DEF CallsFit, CallFits, Call, Post, Idle
  <2>2. early' \in [Device -> BOOLEAN]
    BY <1>1 DEF IInv, TypeOK
  <2> HIDE DEF c, n, a, Over
  <2> QED  BY <1>1, <1>5, <2>1, <2>2 DEF pins, ceremonies, IInv, TypeOK
<1>10. RecordsPinned'
  <2>1. record'[a].sealed.of = a /\ record'[a].sealed.input = record'[a].pin
    BY <1>2, <1>5 DEF Pinned
  <2> HIDE DEF c, n, a
  <2> QED  BY <1>5, <2>1 DEF IInv, RecordsPinned
<1>11. SessionsFit'
  <2>1. SUFFICES ASSUME NEW x \in Device, session[x] # None PROVE SessionFits(x)'
    BY <1>1 DEF SessionsFit, SessionFits
  <2>2. SessionFits(x) /\ session[x] \in Account
    BY <2>1 DEF IInv, SessionsFit, TypeOK
  <2>3. /\ record'[session[x]] # None
        /\ ~early'[x] => ~early[x] /\ record'[session[x]] = record[session[x]]
    BY <1>1, <1>4, <1>5, <2>1, <2>2 DEF IInv, TypeOK, SessionFits
  <2> HIDE DEF c, n, a, Over
  <2> QED  BY <1>1, <2>1, <2>2, <2>3 DEF SessionFits, KeyFits, pins, ceremonies
<1>12. StoredIters'
  BY <1>1 DEF IInv, StoredIters, pins
<1> QED  BY <1>1, <1>8, <1>9, <1>10, <1>11, <1>12 DEF IInv, RightSecretLogsIn

\* A step that only moves d's session, key or pins: what is left is to show
\* that d's session fits and its type.
LEMMA SessionStep ==
  ASSUME IInv, NEW d \in Device, UNCHANGED <<record, call, turnedAway>>,
         TypeOK', StoredIters', SessionFits(d)',
         \A x \in Device \ {d} :
           /\ session'[x] = session[x] /\ key'[x] = key[x] /\ early'[x] = early[x]
           /\ email'[x] = email[x] /\ iter'[x] = iter[x] /\ envelope'[x] = envelope[x]
           /\ ceremony'[x] = ceremony[x] /\ crossed'[x] = crossed[x]
  PROVE  IInv'
<1>1. CallsFit'
  BY DEF IInv, CallsFit, CallFits
<1>2. RecordsPinned' /\ RightSecretLogsIn'
  BY DEF IInv, RecordsPinned, RightSecretLogsIn
<1>3. ASSUME NEW x \in Device \ {d} PROVE SessionFits(x)'
  BY DEF IInv, SessionsFit, SessionFits, KeyFits
<1> QED  BY <1>1, <1>2, <1>3 DEF IInv, SessionsFit

LEMMA lockVaultStep ==
  ASSUME IInv, NEW d \in Device, lockVault(d)
  PROVE  IInv'
<1>1. TypeOK' /\ StoredIters' /\ key'[d] = None
  BY DEF lockVault, IInv, TypeOK, StoredIters, pins
<1>2. SessionFits(d)'
  BY <1>1 DEF lockVault, IInv, SessionsFit, SessionFits, KeyFits, pins
<1> QED  BY <1>1, <1>2, SessionStep DEF lockVault, pins, IInv, TypeOK

LEMMA clearSessionStep ==
  ASSUME IInv, NEW d \in Device, clearSession(d)
  PROVE  IInv'
<1>1. TypeOK' /\ StoredIters' /\ session'[d] = None
  BY DEF clearSession, overtake, IInv, TypeOK, StoredIters
<1>2. SessionFits(d)'
  BY <1>1 DEF SessionFits
<1> QED  BY <1>1, <1>2, SessionStep DEF clearSession, overtake, IInv, TypeOK

LEMMA receiveStep ==
  ASSUME IInv, NEW d \in Device, receive(d)
  PROVE  IInv'
<1> DEFINE c == call[d]
<1>1. c.step = "answer"
  BY DEF receive
<1>2. /\ c.a \in Account /\ c.key \in Key /\ c.key.of = c.a /\ c.known \in BOOLEAN
      /\ record[c.a] # None
      /\ c.known => c.key.input = record[c.a].pin
  BY <1>1, Posting
<1>3. c.key.input \in Input(c.a)
  BY <1>2, KeyFields
<1>4. PICK a \in Account, k \in Key, known \in BOOLEAN :
        /\ session' = [session EXCEPT ![d] = a] /\ key' = [key EXCEPT ![d] = k]
        /\ email' = [email EXCEPT ![d] = IF a \in Email THEN a ELSE @]
        /\ iter' = [iter EXCEPT ![d] = IF a \in Email THEN k.input ELSE @]
        /\ envelope' = [envelope EXCEPT ![d] = IF a \in Hardware THEN k.input ELSE @]
        /\ early' = [early EXCEPT ![d] = ~known /\ record[a].sealed # k]
        /\ call' = [call EXCEPT ![d] = Idle] /\ overtake(d) /\ UNCHANGED <<record, turnedAway>>
        /\ k.of = a /\ record[a] # None /\ k.input \in Input(a)
        /\ known => k.input = record[a].pin
  <2>1. /\ session' = [session EXCEPT ![d] = c.a] /\ key' = [key EXCEPT ![d] = c.key]
        /\ email' = [email EXCEPT ![d] = IF c.a \in Email THEN c.a ELSE @]
        /\ iter' = [iter EXCEPT ![d] = IF c.a \in Email THEN c.key.input ELSE @]
        /\ envelope' = [envelope EXCEPT ![d] = IF c.a \in Hardware THEN c.key.input ELSE @]
        /\ early' = [early EXCEPT ![d] = ~c.known /\ record[c.a].sealed # c.key]
        /\ call' = [call EXCEPT ![d] = Idle] /\ overtake(d) /\ UNCHANGED <<record, turnedAway>>
    BY DEF receive, setSession, Await
  <2> HIDE DEF c
  <2>2. c.a \in Account /\ c.key \in Key /\ c.known \in BOOLEAN
    BY <1>2
  <2> USE <2>2
  <2> WITNESS c.a \in Account, c.key \in Key, c.known \in BOOLEAN
  <2> QED  BY <1>2, <1>3, <2>1
<1> HIDE DEF c
<1>5. /\ k.of = a /\ record[a] # None /\ k.input \in Input(a)
      /\ known => k.input = record[a].pin
  BY <1>4
<1>6. record[a].sealed = k => k.input = record[a].pin
  BY <1>5 DEF IInv, RecordsPinned
<1>7. CallsFit'
  <2>1. Idle \in Call
    BY DEF Call
  <2>2. call' \in [Device -> Call]
    BY <1>4, <2>1 DEF IInv, CallsFit
  <2>3. ASSUME NEW x \in Device PROVE CallFits(call[x])'
    BY <1>4, IdleFits DEF IInv, CallsFit, CallFits
  <2> QED  BY <2>2, <2>3 DEF CallsFit
<1>8. TypeOK'
  <2>1. a \in Email => k.input \in Count
    BY <1>5, AccountAssumption DEF Input
  <2>2. a \in Hardware => k.input \in OffchainEnvelope
    BY <1>5, AccountAssumption DEF Input
  <2>3. call' \in [Device -> Call] /\ \A x \in Device : call'[x] = call[x] \/ call'[x] = Idle
    BY <1>4, <1>7 DEF IInv, CallsFit
  <2>4. \A x \in Device : call'[x].step \in {"post", "create", "answer"} => call'[x].key \in Key
    BY <2>3 DEF IInv, TypeOK, Idle
  <2> QED  BY <1>4, <1>5, <2>1, <2>2, <2>4 DEF IInv, TypeOK, overtake
<1>9. SessionsFit'
  <2>1. SessionFits(d)'
    <3>1. /\ session'[d] = a /\ key'[d] = k /\ record'[a] = record[a]
          /\ a \in Email => email'[d] = a /\ iter'[d] = k.input
          /\ a \in Hardware => envelope'[d] = k.input
          /\ ~early'[d] => known \/ record[a].sealed = k
          /\ ceremony'[d] # None => ceremony'[d].crossed
      BY <1>4 DEF IInv, TypeOK, overtake
    <3>2. a \in Email => k.input \in Count
      BY <1>5, AccountAssumption DEF Input
    <3> QED  BY <1>4, <1>5, <1>6, <3>1, <3>2 DEF SessionFits, KeyFits
  <2>2. ASSUME NEW x \in Device \ {d} PROVE SessionFits(x)'
    BY <1>4 DEF IInv, TypeOK, SessionsFit, SessionFits, KeyFits, overtake
  <2> QED  BY <2>1, <2>2 DEF SessionsFit
<1>10. StoredIters'
  <2>1. a \in Email => k.input \in Count
    BY <1>5, AccountAssumption DEF Input
  <2> QED  BY <1>4, <2>1, NoneAssumption DEF IInv, TypeOK, StoredIters
<1> QED  BY <1>4, <1>7, <1>8, <1>9, <1>10 DEF IInv, RecordsPinned, RightSecretLogsIn

LEMMA reauthenticateStep ==
  ASSUME IInv, NEW d \in Device, NEW a \in Account, NEW secret \in Secret(a), NEW loaded,
         reauthenticate(d, a, secret, loaded)
  PROVE  IInv'
<1> DEFINE pin == IF a \in Email THEN iter[d] ELSE envelope[d]
           Begun(k) == [key |-> k, crossed |-> FALSE]
<1>1. PICK firmware \in Firmware : \E k \in deriveAppKey(a, secret, pin, firmware) :
        ceremony' = [ceremony EXCEPT ![d] = Begun(k)]
  BY DEF reauthenticate
<1>2. PICK k \in deriveAppKey(a, secret, pin, firmware) :
        ceremony' = [ceremony EXCEPT ![d] = Begun(k)]
  BY <1>1
<1>3. /\ IF a \in Email THEN email[d] = a ELSE session[d] \in {None, a}
      /\ UNCHANGED <<record, session, key, pins, call, crossed, early, turnedAway>>
  BY DEF reauthenticate
<1>4. a \in Email => session[d] # None /\ iter[d] \in Count
  BY <1>3, NoneAssumption DEF IInv, StoredIters
<1>5. k \in Key /\ k.of = a /\ (pin \in Input(a) => k.input = pin)
  BY <1>2, <1>4, Derived DEF Firmware
<1>6. Begun(k) \in [key : Key, crossed : BOOLEAN]
  BY <1>5
<1>7. ceremony'[d] = Begun(k) /\ \A x \in Device \ {d} : ceremony'[x] = ceremony[x]
  BY <1>2 DEF IInv, TypeOK
<1>8. TypeOK' /\ StoredIters'
  BY <1>2, <1>3, <1>6 DEF IInv, TypeOK, StoredIters, pins
<1>9. ASSUME session[d] # None, a \in Email => session[d] \in Email
      PROVE  a = session[d] /\ (~early[d] => k.input = record[a].pin)
  <2>1. a = session[d] /\ record[a] # None
    BY <1>3, <1>9 DEF IInv, SessionsFit, SessionFits
  <2>2. record[a].pin \in Input(a)
    BY <2>1, PinIsInput
  <2>3. ASSUME ~early[d] PROVE k.input = record[a].pin
    <3>1. /\ a \in Email => iter[d] = record[a].pin
          /\ a \in Hardware => envelope[d] = record[a].pin
      BY <1>9, <2>1, <2>3 DEF IInv, SessionsFit, SessionFits
    <3>2. CASE a \in Email \cup Hardware
      <4>1. pin = record[a].pin
        BY <3>1, <3>2, AccountAssumption
      <4> HIDE DEF pin
      <4> QED  BY <1>5, <2>2, <4>1
    <3>3. CASE a \notin Email \cup Hardware
      BY <1>5, <2>2, <3>3, KeyFields DEF Input
    <3> QED  BY <3>2, <3>3
  <2> QED  BY <2>1, <2>3
<1>10. SessionFits(d)'
  <2>1. SUFFICES ASSUME session[d] # None PROVE SessionFits(d)'
    BY <1>3 DEF SessionFits
  <2>2. SessionFits(d)
    BY DEF IInv, SessionsFit
  <2>3. KeyFits(k, d)
    BY <1>5, <1>9, <2>1 DEF KeyFits
  <2>4. ceremony'[d].key = k
    BY <1>7
  <2> QED  BY <1>3, <2>1, <2>2, <2>3, <2>4 DEF SessionFits, KeyFits, pins
<1> QED  BY <1>3, <1>7, <1>8, <1>10, SessionStep DEF pins

LEMMA unlockStep ==
  ASSUME IInv, NEW d \in Device, unlock(d)
  PROVE  IInv'
<1>1. /\ ceremony[d] # None /\ ceremony[d] \in [key : Key, crossed : BOOLEAN]
  BY DEF unlock, IInv, TypeOK
<1>2. /\ key'[d] = ceremony[d].key /\ crossed'[d] = ceremony[d].crossed /\ ceremony'[d] = None
      /\ \A x \in Device \ {d} :
           key'[x] = key[x] /\ crossed'[x] = crossed[x] /\ ceremony'[x] = ceremony[x]
      /\ UNCHANGED <<record, session, pins, call, early, turnedAway>>
  BY DEF unlock, IInv, TypeOK
<1>3. TypeOK' /\ StoredIters'
  BY <1>1 DEF unlock, IInv, TypeOK, StoredIters, pins
<1>4. SessionFits(d)'
  BY <1>1, <1>2 DEF IInv, SessionsFit, SessionFits, KeyFits, pins
<1> QED  BY <1>2, <1>3, <1>4, SessionStep DEF pins

LEMMA lapseStep ==
  ASSUME IInv, NEW d \in Device, lapse(d)
  PROVE  IInv'
<1>1. TypeOK' /\ StoredIters' /\ ceremony'[d] = None
  BY DEF lapse, IInv, TypeOK, StoredIters, pins
<1>2. SessionFits(d)'
  BY <1>1 DEF lapse, IInv, SessionsFit, SessionFits, KeyFits, pins
<1> QED  BY <1>1, <1>2, SessionStep DEF lapse, pins, IInv, TypeOK

LEMMA NextIInv == IInv /\ [Next]_vars => IInv'
<1> SUFFICES ASSUME IInv, [Next]_vars PROVE IInv'
  OBVIOUS
<1>1. ASSUME NEW d \in Device, Flow(d) PROVE IInv'
  <2>1. ASSUME NEW op \in Op, NEW a \in Account, NEW secret \in Secret(a),
               registerWithEmail(d, op, a, secret) \/ Begin(d, op, a, secret)
        PROVE  IInv'
    BY <2>1, registerStep, BeginStep
  <2>2. ASSUME NEW a \in Account, registerWithBiometric(d, a) \/ loginWithBiometric(d, a)
        PROVE  IInv'
    BY <2>2, registerWithBiometricStep, loginWithBiometricStep
  <2>3. ASSUME NEW a \in Account, NEW secret \in Secret(a), NEW loaded,
               reauthenticate(d, a, secret, loaded)
        PROVE  IInv'
    BY <2>3, reauthenticateStep
  <2>4. CASE challenge(d)                       BY <2>4, challengeStep
  <2>5. CASE walletHandshake(d)                 BY <2>5, walletHandshakeStep
  <2>6. CASE decide(d)                          BY <2>6, decideStep
  <2>7. CASE create(d)                          BY <2>7, createStep
  <2>8. CASE collision(d)                       BY <2>8, collisionStep
  <2>9. CASE login(d)                           BY <2>9, loginStep
  <2>10. CASE receive(d)                        BY <2>10, receiveStep
  <2>11. CASE lose(d)                           BY <2>11, loseStep
  <2>12. CASE unlock(d)                         BY <2>12, unlockStep
  <2>13. CASE lapse(d)                          BY <2>13, lapseStep
  <2>14. CASE lockVault(d)                      BY <2>14, lockVaultStep
  <2>15. CASE clearSession(d)                   BY <2>15, clearSessionStep
  <2> QED
    BY <1>1, <2>1, <2>2, <2>3, <2>4, <2>5, <2>6, <2>7, <2>8, <2>9, <2>10, <2>11, <2>12, <2>13,
       <2>14, <2>15 DEF Flow
<1>2. CASE UNCHANGED vars
  BY <1>2 DEF vars, pins, ceremonies, IInv, TypeOK, CallsFit, CallFits, RecordsPinned,
          SessionsFit, SessionFits, KeyFits, StoredIters, RightSecretLogsIn
<1> QED  BY <1>1, <1>2 DEF Next

-----------------------------------------------------------------------------
(* The theorems.                                                             *)

THEOREM Invariance == Spec => []IInv
<1> QED  BY InitIInv, NextIInv, PTL DEF Spec

\* Calls, records and what the browser keeps have the shapes authClient.ts and
\* session.ts give them.
THEOREM Typing == Spec => []TypeOK
<1>1. IInv => TypeOK
  BY DEF IInv
<1> QED  BY <1>1, Invariance, PTL

\* A session armed with the right secret opens the account's wallets: the flows
\* of authClient.ts and its re-authentication derive one key, whatever level and
\* firmware they meet, but where the record is newer than the session's challenge
\* and where a login or logout came between a ceremony and its end.
THEOREM KeysOpenWallets == Spec => []SessionKeyOpensWallets
<1>1. ASSUME IInv PROVE SessionKeyOpensWallets
  <2>1. SUFFICES ASSUME NEW d \in Device, session[d] # None, key[d] # None, ~early[d],
                        ~crossed[d], key[d].secret = record[session[d]].sealed.secret
                 PROVE  Opens(key[d], session[d])
    BY DEF SessionKeyOpensWallets
  <2>2. /\ key[d] \in Key /\ record[session[d]] # None /\ session[d] \in Account
        /\ KeyFits(key[d], d)
    BY <1>1, <2>1 DEF IInv, TypeOK, SessionsFit, SessionFits
  <2>3. /\ key[d].secret \in Secret(key[d].of)
        /\ record[session[d]].sealed.secret \in Secret(session[d])
    <3>1. record[session[d]].sealed \in Key /\ record[session[d]].sealed.of = session[d]
      BY <1>1, <2>2, PinIsInput DEF IInv, RecordsPinned
    <3> QED  BY <2>2, <3>1, KeyFields
  <2>4. key[d].of \in Email => session[d] \in Email
    BY <2>1, <2>3, NoneAssumption DEF Secret
  <2>5. key[d].of = session[d] /\ key[d].input = record[session[d]].pin
    BY <2>1, <2>2, <2>4 DEF KeyFits
  <2> QED  BY <1>1, <2>1, <2>2, <2>5, OneKey DEF Opens
<1> QED  BY <1>1, Invariance, PTL

\* Nobody with the right passkey and a real challenge is refused (routes.ts login).
THEOREM NobodyTurnedAway == Spec => []RightSecretLogsIn
<1>1. IInv => RightSecretLogsIn
  BY DEF IInv
<1> QED  BY <1>1, Invariance, PTL

\* The derivation inputs session.ts keeps are those of the account signed in,
\* unless its record is newer than the session's challenge.
THEOREM PinsFit == Spec => []LocalPinsFitSession
<1>1. IInv => LocalPinsFitSession
  BY DEF IInv, SessionsFit, SessionFits, LocalPinsFitSession
<1> QED  BY <1>1, Invariance, PTL
=============================================================================
