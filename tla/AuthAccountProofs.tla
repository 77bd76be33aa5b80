------------------------- MODULE AuthAccountProofs --------------------------
(***************************************************************************)
(* Theorems about the accounts AuthServer creates and keeps: an address    *)
(* resolves to the account that was granted it, a session ends only for    *)
(* cause, a stored wallet is kept, and the creation ceiling holds.         *)
(***************************************************************************)
EXTENDS AuthServerProofs, FiniteSetTheorems

\* Labels behind a consumed challenge; an import reaches the slots without one.
Proved == {"readUser", "connectUser", "chargeCreation", "putProfile", "claimEmail",
           "deletePrevious", "putSession", "setPointer"}
Issuing == {"deletePrevious", "putSession", "setPointer", "granted"}

\* How a request got where it is.
PathOf(r) ==
  LET b == input[r].body IN
  /\ pc[r] \in Proved => took[r] /\ b.kind # "import"
  /\ pc[r] = "putSlots" => took[r] \/ b.kind = "import"
  /\ pc[r] = "consume" => b.kind \in {"register", "login", "loginWallet", "connect"}
  /\ pc[r] = "readUser" => b.kind = "loginWallet"
  /\ pc[r] = "connectUser" => b.kind = "connect"
  /\ pc[r] \in {"chargeCreation", "putProfile"} => b.kind \in {"register", "connect"}
  /\ pc[r] = "putSlots" => b.kind \in {"register", "connect", "import"}
  /\ pc[r] # "idle" /\ b.kind \in {"connect", "import"} => who[r] = b.key
Paths == \A r \in Req : PathOf(r)

\* The snapshot names a session of the request's own account.
SnapshotInv ==
  \A r \in Req : prev[r] # None =>
    who[prev[r]] = who[r] /\ pc[r] \notin {"idle", "challengeEmail", "loginEmail"}

\* A registration past its claim holds its address.
EmailInv ==
  \A r \in Req :
    LET b == input[r].body IN
    pc[r] \in Issuing /\ b.kind = "register" /\ b.email # None
      => who[r] \in Key /\ emailIndex[b.email] = who[r]

\* A request that arrived after its account's first wallet was stored is past
\* no creation, and writes slots only to import.
ArrivedLate(r) ==
  LET b == input[r].body IN
  began[r].stored =>
    /\ b.key \in Key /\ HasWallets(b.key)
    /\ pc[r] \notin {"idle", "chargeCreation", "putProfile"}
    /\ b.kind = "register" => pc[r] \notin {"consume", "registerEmail"}
    /\ pc[r] = "putSlots" => b.kind = "import"

\* A wallet is stored only under a record.
WalletInv ==
  /\ \A k \in Key : HasWallets(k) => profile[k] # None
  /\ \A r \in Req : pc[r] = "putSlots" => profile[who[r]] # None
  /\ \A r \in Req : ArrivedLate(r)

AInv == IInv /\ Paths /\ SnapshotInv /\ EmailInv /\ WalletInv

-----------------------------------------------------------------------------
(* Paths through the handlers                                                *)

LEMMA PathsStep ==
  ASSUME TypeOK, Held, Paths, [Next]_vars
  PROVE  Paths'
<1> USE ConstantsAssumption DEF At, Goto, Label, Working, Answered, Proved, storeVars,
       limitVars, localVars
<1>1. CASE UNCHANGED vars
  BY <1>1 DEF Paths, PathOf, vars
<1>2. CASE NewWindow
  BY <1>2 DEF Paths, PathOf, NewWindow
<1>3. ASSUME NEW r \in Req, Step(r) PROVE Paths'
  <2>1. ASSUME NEW q \in Req \ {r} PROVE PathOf(q)'
    BY <1>3, <2>1, StepOfOneRequest DEF Paths, PathOf
  <2>2. PathOf(r)'
    <3> PathOf(r) /\ HeldBy(r) /\ r \in Req
      BY DEF Paths, Held
    <3>1. CASE Arrive(r)
      <4>1. PICK b \in Inputs, c \in Req \cup {None}, t \in Req \cup {None} : Begin(r, b, c, t)
        BY <3>1 DEF Arrive
      <4>2. /\ input'[r].body = b /\ who'[r] = b.key /\ pc'[r] = FirstCall(b)
            /\ b \in Body
        BY <4>1 DEF TypeOK, Begin
      <4> QED
        BY <4>2 DEF PathOf, FirstCall, Body, Kind
    <3>2. CASE ChallengeEmail(r)
      BY <3>2 DEF TypeOK, PathOf, HeldBy, Registering, ChallengeEmail
    <3>3. CASE PutChallenge(r)
      BY <3>3 DEF TypeOK, PathOf, HeldBy, Registering, PutChallenge
    <3>4. CASE ThrottleChallenge(r)
      BY <3>4 DEF TypeOK, PathOf, HeldBy, Registering, ThrottleChallenge
    <3>5. CASE Penalize(r)
      BY <3>5 DEF TypeOK, PathOf, HeldBy, Registering, Penalize
    <3>6. CASE Consume(r)
      BY <3>6 DEF TypeOK, PathOf, HeldBy, Registering, Consume, AfterProof, IssueFrom
    <3>7. CASE LoginEmail(r)
      BY <3>7 DEF TypeOK, PathOf, HeldBy, Registering, LoginEmail
    <3>8. CASE LoginUser(r)
      BY <3>8 DEF TypeOK, PathOf, HeldBy, Registering, LoginUser
    <3>9. CASE ReadUser(r)
      BY <3>9 DEF TypeOK, PathOf, HeldBy, Registering, ReadUser, IssueFrom
    <3>10. CASE ConnectUser(r)
      BY <3>10 DEF TypeOK, PathOf, HeldBy, Registering, ConnectUser, IssueFrom
    <3>11. CASE RegisterUser(r)
      BY <3>11 DEF TypeOK, PathOf, HeldBy, Registering, RegisterUser, ProveRegistration
    <3>12. CASE RegisterEmail(r)
      BY <3>12 DEF TypeOK, PathOf, HeldBy, Registering, RegisterEmail, ProveRegistration
    <3>13. CASE ChargeCreation(r)
      BY <3>13 DEF TypeOK, PathOf, HeldBy, Registering, ChargeCreation
    <3>14. CASE PutProfile(r)
      <4>1. UNCHANGED <<who, input, took>> /\ pc[r] = "putProfile" /\ \E s : WriteSlots(r, s)
        BY <3>14 DEF PutProfile
      <4> QED
        BY <4>1 DEF TypeOK, PathOf, WriteSlots, AfterSlots, IssueFrom
    <3>15. CASE PutSlot(r)
      <4>1. UNCHANGED <<who, input, took>> /\ pc[r] = "putSlots" /\ \E s : WriteSlots(r, s)
        BY <3>15 DEF PutSlot
      <4> QED
        BY <4>1 DEF TypeOK, PathOf, WriteSlots, AfterSlots, IssueFrom
    <3>16. CASE ClaimEmail(r)
      BY <3>16 DEF TypeOK, PathOf, HeldBy, Registering, ClaimEmail, IssueFrom
    <3>17. CASE DeletePrevious(r)
      BY <3>17 DEF TypeOK, PathOf, HeldBy, Registering, DeletePrevious
    <3>18. CASE PutSession(r)
      BY <3>18 DEF TypeOK, PathOf, HeldBy, Registering, PutSession
    <3>19. CASE SetPointer(r)
      BY <3>19 DEF TypeOK, PathOf, HeldBy, Registering, SetPointer
    <3>20. CASE GetSession(r)
      BY <3>20 DEF TypeOK, PathOf, HeldBy, Registering, GetSession, Deny
    <3>21. CASE CheckPointer(r)
      <4>1. CASE WriteSlots(r, input[r].body.slots) /\ input[r].body.kind = "import"
        BY <3>21, <4>1 DEF TypeOK, PathOf, HeldBy, Verifying, CheckPointer, WriteSlots, AfterSlots
      <4>2. CASE \E l \in {"ok", "refused", "revoke", "authorised"} : Goto(r, l)
        BY <3>21, <4>2 DEF TypeOK, PathOf, CheckPointer
      <4> QED
        BY <3>21, <4>1, <4>2, Zenon DEF CheckPointer, Deny
    <3>22. CASE Revoke(r)
      BY <3>22 DEF TypeOK, PathOf, HeldBy, Registering, Revoke
    <3>23. CASE Fail(r)
      BY <3>23 DEF TypeOK, PathOf, HeldBy, Registering, Fail
    <3>24. QED
      BY <1>3, <3>1, <3>2, <3>3, <3>4, <3>5, <3>6, <3>7, <3>8, <3>9, <3>10, <3>11, <3>12, <3>13, <3>14, <3>15, <3>16, <3>17, <3>18, <3>19, <3>20, <3>21, <3>22, <3>23 DEF Step
  <2> QED
    BY <2>1, <2>2 DEF Paths
<1> QED
  BY <1>1, <1>2, <1>3 DEF Next

LEMMA SnapshotStep ==
  ASSUME TypeOK, Held, TokenInv, SnapshotInv, [Next]_vars
  PROVE  SnapshotInv'
<1> USE ConstantsAssumption
<1>1. CASE UNCHANGED vars \/ NewWindow
  BY <1>1 DEF SnapshotInv, vars, NewWindow, localVars
<1>2. ASSUME NEW r \in Req, Step(r) PROVE SnapshotInv'
  <2>1. \A t \in Req : pc[t] = "granted" => who'[t] = who[t]
    BY AnsweredStays DEF Answered
  <2>2. ASSUME NEW q \in Req \ {r}, prev'[q] # None
        PROVE  who'[prev'[q]] = who'[q] /\ pc'[q] \notin {"idle", "challengeEmail", "loginEmail"}
    <3>1. /\ prev'[q] = prev[q] /\ who'[q] = who[q] /\ pc'[q] = pc[q]
          /\ prev[q] \in Req
      <4>1. prev'[q] = prev[q] /\ who'[q] = who[q] /\ pc'[q] = pc[q]
        BY <1>2, <2>2, StepOfOneRequest
      <4>2. prev[q] \in Req \cup {None}
        BY DEF TypeOK
      <4> QED
        BY <2>2, <4>1, <4>2
    <3>2. pc[prev[q]] = "granted"
      BY <2>2, <3>1 DEF TokenInv
    <3> QED
      BY <2>1, <2>2, <3>1, <3>2 DEF SnapshotInv
  <2>3. ASSUME prev'[r] # None
        PROVE  who'[prev'[r]] = who'[r] /\ pc'[r] \notin {"idle", "challengeEmail", "loginEmail"}
    <3>1. CASE prev' = prev
      <4>1. pc[r] \notin {"idle", "challengeEmail", "loginEmail"} /\ who[prev[r]] = who[r]
        BY <2>3, <3>1 DEF SnapshotInv
      <4>2. ~Arrive(r) /\ who' = who
        BY <1>2, <4>1, StepFrame DEF Arrive, Begin, ChallengeEmail, LoginEmail, At
      <4> QED
        BY <1>2, <3>1, <4>1, <4>2, StepEdges
    <3>2. CASE LoginUser(r) \/ ReadUser(r) \/ ConnectUser(r)
      <4>1. who[r] \in Key /\ who' = who
        BY <3>2 DEF LoginUser, ReadUser, ConnectUser, Held, HeldBy, At, Keyed, Working,
                    localVars
      <4>2. prev' = prev \/ prev' = [prev EXCEPT ![r] = pointer[who[r]]]
        BY <3>2, Zenon DEF LoginUser, ReadUser, ConnectUser
      <4>3. CASE prev' = [prev EXCEPT ![r] = pointer[who[r]]]
        <5>1. who[prev'[r]] = who[r]
          BY <2>3, <4>1, <4>3 DEF TokenInv, TypeOK
        <5>2. ~Arrive(r)
          BY <3>2 DEF LoginUser, ReadUser, ConnectUser, Arrive, Begin, At
        <5> QED
          BY <1>2, <4>1, <5>1, <5>2, StepEdges
      <4> QED
        BY <3>1, <4>2, <4>3
    <3> QED
      BY <1>2, <3>1, <3>2, StepFrame
  <2> QED
    BY <2>2, <2>3 DEF SnapshotInv
<1> QED
  BY <1>1, <1>2 DEF Next

-----------------------------------------------------------------------------
(* The email index                                                           *)

\* A registration by email reaches issueSession through its claim only.
LEMMA IssuingEdges ==
  ASSUME TypeOK, Held, Paths, NEW r \in Req, Step(r), ~ClaimEmail(r),
         pc[r] \notin Issuing, pc'[r] \in Issuing,
         input'[r].body.kind = "register", input'[r].body.email # None
  PROVE  FALSE
<1> USE DEF TypeOK, At, Goto, Issuing
<1> PathOf(r) /\ r \in Req
  BY DEF Paths
<1>1. CASE Arrive(r)
  BY <1>1 DEF Arrive, Begin, FirstCall
<1>2. CASE ChallengeEmail(r)
  BY <1>2 DEF ChallengeEmail
<1>3. CASE PutChallenge(r)
  BY <1>3 DEF PutChallenge
<1>4. CASE ThrottleChallenge(r)
  BY <1>4 DEF ThrottleChallenge
<1>5. CASE Penalize(r)
  BY <1>5 DEF Penalize
<1>6. CASE Consume(r)
  BY <1>6 DEF Consume, AfterProof, IssueFrom, PathOf
<1>7. CASE LoginEmail(r)
  BY <1>7 DEF LoginEmail
<1>8. CASE LoginUser(r)
  BY <1>8 DEF LoginUser
<1>9. CASE ReadUser(r)
  BY <1>9 DEF ReadUser, PathOf, localVars
<1>10. CASE ConnectUser(r)
  BY <1>10 DEF ConnectUser, PathOf, localVars
<1>11. CASE RegisterUser(r)
  BY <1>11 DEF RegisterUser, ProveRegistration
<1>12. CASE RegisterEmail(r)
  BY <1>12 DEF RegisterEmail, ProveRegistration
<1>13. CASE ChargeCreation(r)
  BY <1>13 DEF ChargeCreation
<1>14. CASE PutProfile(r)
  <2>1. input' = input /\ \E s : WriteSlots(r, s)
    BY <1>14 DEF PutProfile
  <2> QED
    BY <2>1 DEF WriteSlots, AfterSlots
<1>15. CASE PutSlot(r)
  <2>1. input' = input /\ \E s : WriteSlots(r, s)
    BY <1>15 DEF PutSlot
  <2> QED
    BY <2>1 DEF WriteSlots, AfterSlots
<1>16. CASE ClaimEmail(r)
  BY <1>16
<1>17. CASE DeletePrevious(r)
  BY <1>17 DEF DeletePrevious
<1>18. CASE PutSession(r)
  BY <1>18 DEF PutSession
<1>19. CASE SetPointer(r)
  BY <1>19 DEF SetPointer
<1>20. CASE GetSession(r)
  BY <1>20 DEF GetSession, Deny
<1>21. CASE CheckPointer(r)
  <2>1. \/ WriteSlots(r, input[r].body.slots) /\ input[r].body.kind = "import"
        \/ \E l \in {"ok", "refused", "revoke", "authorised"} : Goto(r, l)
    BY <1>21, Zenon DEF CheckPointer, Deny
  <2>2. input' = input
    BY <1>21 DEF CheckPointer
  <2> QED
    BY <2>1, <2>2 DEF WriteSlots, AfterSlots
<1>22. CASE Revoke(r)
  BY <1>22 DEF Revoke
<1>23. CASE Fail(r)
  BY <1>23 DEF Fail
<1>24. QED
  BY <1>1, <1>2, <1>3, <1>4, <1>5, <1>6, <1>7, <1>8, <1>9, <1>10, <1>11, <1>12, <1>13, <1>14, <1>15, <1>16, <1>17, <1>18, <1>19, <1>20, <1>21, <1>22, <1>23 DEF Step

LEMMA EmailStep ==
  ASSUME TypeOK, Held, Paths, EmailInv, [Next]_vars
  PROVE  EmailInv'
<1> USE ConstantsAssumption
<1> DEFINE Holds(r) ==
      LET b == input[r].body IN
      pc[r] \in Issuing /\ b.kind = "register" /\ b.email # None
        => who[r] \in Key /\ emailIndex[b.email] = who[r]
<1>0. \A r \in Req : input[r].body.email \in Email \cup {None}
  BY DEF TypeOK, Input, Body
<1>1. CASE UNCHANGED vars \/ NewWindow
  BY <1>1 DEF EmailInv, vars, NewWindow, localVars, storeVars
<1>2. ASSUME NEW r \in Req, Step(r) PROVE EmailInv'
  <2>1. \A e \in Email : emailIndex[e] # None => emailIndex'[e] = emailIndex[e]
    <3>1. CASE ClaimEmail(r)
      BY <3>1 DEF ClaimEmail, TypeOK
    <3> QED
      BY <1>2, <3>1, StepFrame
  <2>2. ASSUME NEW q \in Req, Holds(q), pc[q] \in Issuing, who'[q] = who[q],
               input'[q] = input[q]
        PROVE  Holds(q)'
    <3>1. SUFFICES ASSUME input[q].body.kind = "register", input[q].body.email # None
                   PROVE  who[q] \in Key /\ emailIndex'[input[q].body.email] = who[q]
      BY <2>2
    <3> QED
      BY <1>0, <2>1, <2>2, <3>1
  <2>3. ASSUME NEW q \in Req \ {r} PROVE Holds(q)'
    <3>1. pc'[q] = pc[q] /\ who'[q] = who[q] /\ input'[q] = input[q] /\ Holds(q)
      BY <1>2, <2>3, StepOfOneRequest DEF EmailInv
    <3>2. CASE pc[q] \in Issuing
      BY <2>2, <3>1, <3>2
    <3>3. CASE pc[q] \notin Issuing
      BY <3>1, <3>3
    <3> QED
      BY <3>2, <3>3
  <2>4. Holds(r)'
    <3>1. CASE pc[r] \in Issuing
      <4>1. who'[r] = who[r] /\ input'[r] = input[r] /\ Holds(r)
        <5>1. ~Arrive(r) /\ ~ChallengeEmail(r) /\ ~LoginEmail(r)
          BY <3>1 DEF Issuing, Arrive, Begin, ChallengeEmail, LoginEmail, At
        <5> QED
          BY <1>2, <5>1, StepFrame DEF EmailInv
      <4> QED
        BY <2>2, <3>1, <4>1
    <3>2. CASE pc[r] \notin Issuing
      <4>1. SUFFICES ASSUME pc'[r] \in Issuing, input'[r].body.kind = "register",
                            input'[r].body.email # None
                     PROVE  /\ who'[r] \in Key
                            /\ emailIndex'[input'[r].body.email] = who'[r]
        OBVIOUS
      <4>2. CASE ClaimEmail(r)
        <5>1. who' = who /\ input' = input
          BY <4>2 DEF ClaimEmail, localVars
        <5>2. pc[r] = "claimEmail" /\ who[r] \in Key /\ input[r].body.email \in Email
          BY <4>2 DEF ClaimEmail, At, Held, HeldBy, Keyed, Working
        <5>3. pc'[r] # "conflict"
          BY <4>1 DEF Issuing
        <5>4. \/ emailIndex[input[r].body.email] = who[r] /\ emailIndex' = emailIndex
              \/ emailIndex' = [emailIndex EXCEPT ![input[r].body.email] = who[r]]
          BY <4>2, <5>3 DEF ClaimEmail, TypeOK, Goto
        <5> QED
          BY <5>1, <5>2, <5>4 DEF TypeOK
      <4>3. ASSUME ~ClaimEmail(r) PROVE FALSE
        BY <1>2, <3>2, <4>1, <4>3, IssuingEdges
      <4> QED
        BY <4>2, <4>3
    <3> QED
      BY <3>1, <3>2
  <2> QED
    BY <2>3, <2>4 DEF EmailInv
<1> QED
  BY <1>1, <1>2 DEF Next

-----------------------------------------------------------------------------
(* Stored wallets                                                            *)

LEMMA RecordsAndWalletsStay ==
  ASSUME TypeOK, Held, NEW r \in Req, Step(r), NEW k \in Key
  PROVE  /\ profile[k] # None => profile'[k] # None
         /\ HasWallets(k) => HasWallets(k)'
<1> USE ConstantsAssumption
<1>1. CASE PutProfile(r)
  <2>1. input[r].body \in Body
    BY DEF TypeOK, Input
  <2>2. [email |-> input[r].body.email,
         method |-> IF input[r].body.kind = "connect" THEN "wallet" ELSE input[r].body.method]
          \in Profile
    BY <2>1 DEF Body, Profile, Method
  <2> QED
    BY <1>1, <2>2 DEF PutProfile, TypeOK, HasWallets
<1>2. CASE PutSlot(r)
  <2>1. profile' = profile
    BY <1>2 DEF PutSlot
  <2>2. PICK s \in todo[r] : wallets' = [wallets EXCEPT ![who[r]][s] = r]
    BY <1>2 DEF PutSlot
  <2>3. \A w \in Slot : wallets[k][w] # None => wallets'[k][w] # None
    BY <2>2 DEF TypeOK
  <2> QED
    BY <2>1, <2>3 DEF HasWallets
<1> QED
  BY <1>1, <1>2, StepFrame DEF HasWallets

\* The steps after which slots are left to write.
LEMMA SlotEdges ==
  ASSUME TypeOK, NEW r \in Req, Step(r),
         pc'[r] = "putSlots"
  PROVE  PutSlot(r) \/ PutProfile(r) \/ ConnectUser(r) \/ CheckPointer(r)
<1> USE DEF TypeOK, At, Goto
<1>1. CASE Arrive(r)
  BY <1>1 DEF Arrive, Begin, FirstCall
<1>2. CASE ChallengeEmail(r)
  BY <1>2 DEF ChallengeEmail
<1>3. CASE PutChallenge(r)
  BY <1>3 DEF PutChallenge
<1>4. CASE ThrottleChallenge(r)
  BY <1>4 DEF ThrottleChallenge
<1>5. CASE Penalize(r)
  BY <1>5 DEF Penalize
<1>6. CASE Consume(r)
  BY <1>6 DEF Consume, AfterProof, IssueFrom
<1>7. CASE LoginEmail(r)
  BY <1>7 DEF LoginEmail
<1>8. CASE LoginUser(r)
  BY <1>8 DEF LoginUser
<1>9. CASE ReadUser(r)
  BY <1>9 DEF ReadUser, IssueFrom
<1>10. CASE ConnectUser(r)
  BY <1>10
<1>11. CASE RegisterUser(r)
  BY <1>11 DEF RegisterUser, ProveRegistration
<1>12. CASE RegisterEmail(r)
  BY <1>12 DEF RegisterEmail, ProveRegistration
<1>13. CASE ChargeCreation(r)
  BY <1>13 DEF ChargeCreation
<1>14. CASE PutProfile(r)
  BY <1>14
<1>15. CASE PutSlot(r)
  BY <1>15
<1>16. CASE ClaimEmail(r)
  BY <1>16 DEF ClaimEmail, IssueFrom
<1>17. CASE DeletePrevious(r)
  BY <1>17 DEF DeletePrevious
<1>18. CASE PutSession(r)
  BY <1>18 DEF PutSession
<1>19. CASE SetPointer(r)
  BY <1>19 DEF SetPointer
<1>20. CASE GetSession(r)
  BY <1>20 DEF GetSession, Deny
<1>21. CASE CheckPointer(r)
  BY <1>21
<1>22. CASE Revoke(r)
  BY <1>22 DEF Revoke
<1>23. CASE Fail(r)
  BY <1>23 DEF Fail
<1>24. QED
  BY <1>1, <1>2, <1>3, <1>4, <1>5, <1>6, <1>7, <1>8, <1>9, <1>10, <1>11, <1>12, <1>13, <1>14, <1>15, <1>16, <1>17, <1>18, <1>19, <1>20, <1>21, <1>22, <1>23 DEF Step

\* The remaining steps lead no finished check back towards a creation.
LEMMA CreationEdges ==
  ASSUME TypeOK, NEW r \in Req, Step(r),
         ~Arrive(r), ~ConnectUser(r), ~CheckPointer(r), ~RegisterUser(r), ~PutSlot(r),
         ~LoginUser(r), ~Consume(r),
         pc[r] \notin {"chargeCreation", "putProfile", "registerEmail"}
  PROVE  pc'[r] \notin {"idle", "chargeCreation", "putProfile", "consume", "registerEmail",
                       "putSlots"}
<1> USE DEF TypeOK, At, Goto
<1>1. CASE Arrive(r)
  BY <1>1
<1>2. CASE ChallengeEmail(r)
  BY <1>2 DEF ChallengeEmail
<1>3. CASE PutChallenge(r)
  BY <1>3 DEF PutChallenge
<1>4. CASE ThrottleChallenge(r)
  BY <1>4 DEF ThrottleChallenge
<1>5. CASE Penalize(r)
  BY <1>5 DEF Penalize
<1>6. CASE Consume(r)
  BY <1>6
<1>7. CASE LoginEmail(r)
  BY <1>7 DEF LoginEmail
<1>8. CASE LoginUser(r)
  BY <1>8
<1>9. CASE ReadUser(r)
  BY <1>9 DEF ReadUser, IssueFrom
<1>10. CASE ConnectUser(r)
  BY <1>10
<1>11. CASE RegisterUser(r)
  BY <1>11
<1>12. CASE RegisterEmail(r)
  BY <1>12 DEF RegisterEmail, ProveRegistration
<1>13. CASE ChargeCreation(r)
  BY <1>13 DEF ChargeCreation
<1>14. CASE PutProfile(r)
  BY <1>14 DEF PutProfile
<1>15. CASE PutSlot(r)
  BY <1>15
<1>16. CASE ClaimEmail(r)
  BY <1>16 DEF ClaimEmail, IssueFrom
<1>17. CASE DeletePrevious(r)
  BY <1>17 DEF DeletePrevious
<1>18. CASE PutSession(r)
  BY <1>18 DEF PutSession
<1>19. CASE SetPointer(r)
  BY <1>19 DEF SetPointer
<1>20. CASE GetSession(r)
  BY <1>20 DEF GetSession, Deny
<1>21. CASE CheckPointer(r)
  BY <1>21
<1>22. CASE Revoke(r)
  BY <1>22 DEF Revoke
<1>23. CASE Fail(r)
  BY <1>23 DEF Fail
<1>24. QED
  BY <1>1, <1>2, <1>3, <1>4, <1>5, <1>6, <1>7, <1>8, <1>9, <1>10, <1>11, <1>12, <1>13, <1>14, <1>15, <1>16, <1>17, <1>18, <1>19, <1>20, <1>21, <1>22, <1>23 DEF Step

LEMMA WalletStep ==
  ASSUME TypeOK, Held, Paths, WalletInv, [Next]_vars
  PROVE  WalletInv'
<1> USE ConstantsAssumption
<1>1. CASE UNCHANGED vars \/ NewWindow
  BY <1>1 DEF WalletInv, ArrivedLate, HasWallets, vars, NewWindow, localVars, storeVars
<1>2. ASSUME NEW r \in Req, Step(r) PROVE WalletInv'
  <2>1. \A k \in Key : profile[k] # None => profile'[k] # None
    BY <1>2, RecordsAndWalletsStay
  <2>2. \A k \in Key : HasWallets(k) => HasWallets(k)'
    BY <1>2, RecordsAndWalletsStay
  <2>3. ASSUME NEW k \in Key, HasWallets(k)' PROVE profile'[k] # None
    <3>1. CASE PutSlot(r)
      <4>1. profile[who[r]] # None /\ who[r] \in Key
        BY <3>1 DEF PutSlot, At, WalletInv, Held, HeldBy, Keyed, Working
      <4>2. k # who[r] => HasWallets(k)
        BY <2>3, <3>1 DEF PutSlot, HasWallets, TypeOK
      <4> QED
        BY <2>1, <4>1, <4>2 DEF WalletInv
    <3> QED
      BY <1>2, <2>1, <2>3, <3>1, StepFrame DEF WalletInv, HasWallets
  <2>4. ASSUME NEW q \in Req, pc'[q] = "putSlots" PROVE profile'[who'[q]] # None
    <3>1. CASE q # r
      <4>1. pc[q] = "putSlots" /\ who'[q] = who[q]
        BY <1>2, <2>4, <3>1, StepOfOneRequest
      <4> QED
        BY <2>1, <4>1 DEF WalletInv, Held, HeldBy, Keyed, Working
    <3>2. CASE q = r
      <4>1. PutSlot(r) \/ PutProfile(r) \/ ConnectUser(r) \/ CheckPointer(r)
        BY <1>2, <2>4, <3>2, SlotEdges
      <4>2. who' = who /\ who[r] \in Key
        BY <4>1 DEF PutSlot, PutProfile, ConnectUser, CheckPointer, At, Held, HeldBy, Keyed,
                    Working, localVars
      <4>3. CASE PutProfile(r)
        <5>1. profile'[who[r]] \in Profile
          <6>1. input[r].body \in Body
            BY DEF TypeOK, Input
          <6> QED
            BY <4>2, <4>3, <6>1 DEF PutProfile, TypeOK, Body, Profile, Method
        <5> QED
          BY <3>2, <4>2, <5>1
      <4>4. CASE PutSlot(r) \/ ConnectUser(r) \/ CheckPointer(r)
        <5>1. profile[who[r]] # None
          BY <2>4, <3>2, <4>4 DEF PutSlot, ConnectUser, CheckPointer, At, Goto, WalletInv, TypeOK,
                                  IssueFrom, Deny
        <5> QED
          BY <2>1, <3>2, <4>2, <5>1
      <4> QED
        BY <4>1, <4>3, <4>4
    <3> QED
      BY <3>1, <3>2
  <2>5. ASSUME NEW q \in Req \ {r} PROVE ArrivedLate(q)'
    BY <1>2, <2>2, <2>5, StepOfOneRequest DEF WalletInv, ArrivedLate
  <2>6. ArrivedLate(r)'
    <3> USE DEF At, Goto
    <3> DEFINE b == input[r].body
    <3>1. ArrivedLate(r) /\ PathOf(r) /\ HeldBy(r) /\ r \in Req
      BY DEF WalletInv, Paths, Held
    <3>2. CASE Arrive(r)
      <4>1. PICK body \in Inputs, c \in Req \cup {None}, t \in Req \cup {None} :
              Begin(r, body, c, t)
        BY <3>2 DEF Arrive
      <4>2. /\ input'[r].body = body /\ pc'[r] = FirstCall(body) /\ wallets' = wallets
        BY <4>1 DEF Begin, TypeOK, storeVars
      <4>3. began'[r].stored => body.key # None /\ \E k \in Key : body.key = k /\ HasWallets(k)
        BY <4>1 DEF Begin, TypeOK
      <4> QED
        BY <4>2, <4>3 DEF ArrivedLate, FirstCall, HasWallets
    <3>3. CASE ~Arrive(r)
      <4>1. input' = input /\ began' = began
        BY <1>2, <3>3, StepFrame
      <4>2. SUFFICES ASSUME began[r].stored
                     PROVE  /\ pc'[r] \notin {"idle", "chargeCreation", "putProfile"}
                            /\ b.kind = "register" => pc'[r] \notin {"consume", "registerEmail"}
                            /\ pc'[r] = "putSlots" => b.kind = "import"
        BY <2>2, <3>1, <4>1 DEF ArrivedLate
      <4>3. /\ b.key \in Key /\ HasWallets(b.key) /\ profile[b.key] # None
            /\ pc[r] \notin {"chargeCreation", "putProfile"}
            /\ b.kind = "register" => pc[r] \notin {"consume", "registerEmail"}
            /\ pc[r] = "putSlots" => b.kind = "import"
        BY <3>1, <4>2 DEF ArrivedLate, WalletInv
      <4>4. CASE ConnectUser(r)
        <5>1. who[r] = b.key
          BY <3>1, <4>4 DEF ConnectUser, PathOf
        <5>2. pc'[r] \in {"refused", "putSession", "deletePrevious"}
          BY <4>3, <4>4, <5>1, IssueFromRange DEF ConnectUser, TypeOK
        <5> QED
          BY <5>2
      <4>5. CASE CheckPointer(r)
        <5>1. \/ WriteSlots(r, input[r].body.slots) /\ b.kind = "import"
              \/ \E l \in {"ok", "refused", "revoke", "authorised"} : Goto(r, l)
          BY <4>5, Zenon DEF CheckPointer, Deny
        <5>2. pc'[r] \in {"imported", "putSlots", "ok", "refused", "revoke", "authorised"}
              /\ (pc'[r] = "putSlots" => b.kind = "import")
          BY <5>1 DEF WriteSlots, AfterSlots, TypeOK
        <5> QED
          BY <5>2
      <4>6. CASE RegisterUser(r)
        <5>1. pc'[r] = "conflict"
          BY <3>1, <4>3, <4>6 DEF RegisterUser, HeldBy, Registering, TypeOK
        <5> QED
          BY <5>1
      <4>7. CASE PutSlot(r)
        <5>1. PICK s \in todo[r] : WriteSlots(r, todo[r] \ {s})
          BY <4>7 DEF PutSlot
        <5>2. pc'[r] \in AfterWrite /\ b.kind = "import"
          BY <4>3, <4>7, <5>1, WriteSlotsMoves DEF PutSlot, TypeOK
        <5> QED
          BY <5>2 DEF AfterWrite
      <4>8. CASE LoginUser(r) \/ Consume(r)
        <5>1. CASE LoginUser(r)
          <6>1. b.kind = "login" /\ pc'[r] \in {"consume", "penalize"}
            BY <3>1, <5>1 DEF LoginUser, HeldBy, TypeOK
          <6> QED
            BY <6>1
        <5>2. CASE Consume(r)
          <6>1. AfterProof(r) \in {"putSession", "deletePrevious", "readUser", "connectUser"}
            BY <4>3, <5>2, IssueFromRange DEF Consume, AfterProof
          <6>2. pc'[r] = AfterProof(r) \/ pc'[r] = "penalize"
            BY <5>2 DEF Consume, TypeOK
          <6> QED
            BY <6>1, <6>2
        <5> QED
          BY <4>8, <5>1, <5>2
      <4>9. CASE ~(ConnectUser(r) \/ CheckPointer(r) \/ RegisterUser(r) \/ PutSlot(r)
                    \/ LoginUser(r) \/ Consume(r))
        <5>1. pc[r] # "registerEmail"
          BY <3>1, <4>3 DEF HeldBy, Registering
        <5> QED
          BY <1>2, <3>3, <4>3, <4>9, <5>1, CreationEdges
      <4> QED
        BY <4>4, <4>5, <4>6, <4>7, <4>8, <4>9
    <3> QED
      BY <3>2, <3>3
  <2> QED
    BY <2>3, <2>4, <2>5, <2>6 DEF WalletInv
<1> QED
  BY <1>1, <1>2 DEF Next

-----------------------------------------------------------------------------
(* The inductive invariant                                                   *)

LEMMA AccountInit == Init => AInv
<1> USE ConstantsAssumption
<1> SUFFICES ASSUME Init PROVE AInv
  OBVIOUS
<1>1. IInv
  BY InitInv
<1>2. Paths
  BY DEF Init, Paths, PathOf, Blank, BlankBody, Proved
<1>3. SnapshotInv
  BY DEF Init, SnapshotInv
<1>4. EmailInv
  BY DEF Init, EmailInv, Blank, BlankBody
<1>5. WalletInv
  <2>1. \A k \in Key : HasWallets(k) => profile[k] # None
    BY DEF Init, HasWallets
  <2> QED
    BY <2>1 DEF Init, WalletInv, ArrivedLate
<1> QED
  BY <1>1, <1>2, <1>3, <1>4, <1>5 DEF AInv

LEMMA AccountInductive == Spec => []AInv
<1>1. IInv /\ [Next]_vars => IInv'
  BY TypeStep, HeldStep, ChallengeStep, TokenStep, DeadStep DEF IInv
<1>2. AInv /\ [Next]_vars => AInv'
  BY <1>1, PathsStep, SnapshotStep, EmailStep, WalletStep DEF AInv, IInv
<1> QED
  BY AccountInit, <1>2, PTL DEF Spec

-----------------------------------------------------------------------------
(* Theorems                                                                  *)

\* putUser's hsetnx: whoever was answered 201 is whom the address resolves to.
THEOREM EmailsResolve == Spec => []RegisteredEmailResolves
<1>1. AInv => RegisteredEmailResolves
  <2> SUFFICES ASSUME AInv, NEW r \in Req, pc[r] = "granted",
                      input[r].body.kind = "register", input[r].body.email # None
               PROVE  emailIndex[input[r].body.email] = input[r].body.key
    BY DEF RegisteredEmailResolves
  <2>1. emailIndex[input[r].body.email] = who[r]
    BY DEF AInv, EmailInv, Issuing
  <2>2. who[r] = input[r].body.key
    BY DEF AInv, IInv, Held, HeldBy
  <2> QED
    BY <2>1, <2>2
<1> QED
  BY AccountInductive, <1>1, PTL

\* issueSession, verifySession, revokeSession: a session ends by its own logout,
\* a proved login of its account, or its TTL.
THEOREM SessionsEndForCause == Spec => SessionEndsForCause
<1> USE ConstantsAssumption
<1> DEFINE Caused ==
      \A t \in Req, k \in Key :
        /\ sessions[t] = k /\ pointer[k] = t
        /\ ~(sessions'[t] = k /\ pointer'[k] = t)
        => \E r \in Req : Supersedes(r, k) \/ LogsOut(r, t) \/ FindsExpired(r, t)
<1>1. ASSUME AInv, [Next]_vars PROVE Caused
  <2> USE <1>1 DEF AInv, IInv
  <2> SUFFICES ASSUME NEW t \in Req, NEW k \in Key, sessions[t] = k, pointer[k] = t,
                      ~(sessions'[t] = k /\ pointer'[k] = t)
               PROVE  \E r \in Req : Supersedes(r, k) \/ LogsOut(r, t) \/ FindsExpired(r, t)
    OBVIOUS
  <2>1. CASE UNCHANGED vars \/ NewWindow
    BY <2>1 DEF vars, NewWindow, storeVars
  <2>2. ASSUME NEW r \in Req, Step(r)
        PROVE  Supersedes(r, k) \/ LogsOut(r, t) \/ FindsExpired(r, t)
    <3>1. pc[t] = "granted" /\ who[t] = k
      BY DEF TokenInv
    <3>2. CASE SetPointer(r)
      <4>1. who[r] = k /\ pc[r] = "setPointer" /\ pc'[r] = "granted"
        BY <3>2 DEF SetPointer, TypeOK, At, Goto
      <4>2. took[r]
        BY <4>1 DEF Paths, PathOf, Proved
      <4> QED
        BY <4>1, <4>2 DEF Supersedes
    <3>3. CASE DeletePrevious(r)
      <4>1. prev[r] = t /\ pc[r] = "deletePrevious" /\ pc'[r] = "putSession"
        BY <3>3 DEF DeletePrevious, TypeOK, At, Goto
      <4>2. who[r] = k /\ took[r]
        BY <3>1, <4>1 DEF SnapshotInv, Paths, PathOf, Proved
      <4> QED
        BY <4>1, <4>2 DEF Supersedes
    <3>4. CASE GetSession(r)
      BY <3>4 DEF GetSession, TypeOK, At, Goto, Deny, FindsExpired
    <3>5. CASE Revoke(r)
      BY <3>5 DEF Revoke, TypeOK, At, Goto, LogsOut
    <3>6. CASE PutSession(r)
      <4>1. r # t
        BY <3>1, <3>6 DEF PutSession, At
      <4> QED
        BY <3>6, <4>1 DEF PutSession, TypeOK
    <3> QED
      BY <2>2, <3>2, <3>3, <3>4, <3>5, <3>6, StepFrame
  <2> QED
    BY <2>1, <2>2 DEF Next
<1>2. AInv /\ [Next]_vars => [Caused]_vars
  BY <1>1
<1> QED
  BY AccountInductive, <1>2, PTL DEF Spec, SessionEndsForCause

\* connectWallet, register, importWallet: only an import, or a creation that
\* arrived before the account's first wallet, replaces a stored wallet.
THEOREM WalletsAreKept == Spec => StoredWalletsKept
<1> USE ConstantsAssumption
<1> DEFINE Kept ==
      \A k \in Key, s \in Slot :
        wallets[k][s] # None /\ wallets'[k][s] # wallets[k][s]
        => \E r \in Req : /\ WritesSlot(r)
                          /\ input[r].body.kind = "import" \/ ~began[r].stored
<1>1. ASSUME AInv, [Next]_vars PROVE Kept
  <2> USE <1>1 DEF AInv, IInv
  <2> SUFFICES ASSUME NEW k \in Key, NEW s \in Slot, wallets'[k][s] # wallets[k][s]
               PROVE  \E r \in Req : /\ WritesSlot(r)
                                     /\ input[r].body.kind = "import" \/ ~began[r].stored
    OBVIOUS
  <2>1. CASE UNCHANGED vars \/ NewWindow
    BY <2>1 DEF vars, NewWindow, storeVars
  <2>2. ASSUME NEW r \in Req, Step(r)
        PROVE  WritesSlot(r) /\ (input[r].body.kind = "import" \/ ~began[r].stored)
    <3>1. PutSlot(r)
      BY <2>2, StepFrame
    <3>2. PICK w \in todo[r] : WriteSlots(r, todo[r] \ {w})
      BY <3>1 DEF PutSlot
    <3>3. pc[r] = "putSlots" /\ todo'[r] = todo[r] \ {w}
      BY <3>1, <3>2 DEF PutSlot, At, WriteSlots, TypeOK
    <3> QED
      BY <3>2, <3>3 DEF WritesSlot, WalletInv, ArrivedLate
  <2> QED
    BY <2>1, <2>2 DEF Next
<1>2. AInv /\ [Next]_vars => [Kept]_vars
  BY <1>1
<1> QED
  BY AccountInductive, <1>2, PTL DEF Spec, StoredWalletsKept

-----------------------------------------------------------------------------
(* What an address resolves to                                               *)

\* A registration about to claim its address, or writing its slots, has stored
\* its record, and the slots it no longer has to write.
WrittenBy(r) ==
  LET b == input[r].body IN
  b.kind = "register" /\ pc[r] \in {"putSlots", "claimEmail"} =>
    /\ profile[b.key] # None
    /\ \A s \in b.slots : (pc[r] = "putSlots" /\ s \in todo[r]) \/ wallets[b.key][s] # None

\* Registration r brought address e to account k, with all of its wallets.
Brought(r, e, k) ==
  LET b == input[r].body IN
  /\ pc[r] # "idle" /\ b.kind = "register" /\ b.email = e /\ b.key = k
  /\ \A s \in b.slots : wallets[k][s] # None

WholeInv ==
  /\ \A r \in Req : WrittenBy(r)
  /\ \A e \in Email, k \in Key : emailIndex[e] = k =>
       /\ profile[k] # None
       /\ SeedProfile[k] # None \/ \E r \in Req : Brought(r, e, k)

LEMMA TodoStays ==
  ASSUME NEW r \in Req, TypeOK, Step(r)
  PROVE  /\ \A q \in Req \ {r} : todo'[q] = todo[q]
         /\ \/ PutProfile(r) \/ PutSlot(r) \/ ConnectUser(r) \/ CheckPointer(r)
            \/ todo' = todo
<1> USE DEF TypeOK, localVars
<1>1. CASE PutProfile(r)
  BY <1>1 DEF PutProfile, WriteSlots
<1>2. CASE PutSlot(r)
  BY <1>2 DEF PutSlot, WriteSlots
<1>3. CASE ConnectUser(r)
  BY <1>3 DEF ConnectUser
<1>4. CASE CheckPointer(r)
  BY <1>4 DEF CheckPointer, WriteSlots
<1>5. CASE Arrive(r) \/ ChallengeEmail(r) \/ PutChallenge(r) \/ ThrottleChallenge(r)
           \/ Penalize(r) \/ Consume(r) \/ LoginEmail(r) \/ LoginUser(r) \/ ReadUser(r)
  BY <1>5 DEF Arrive, Begin, ChallengeEmail, PutChallenge, ThrottleChallenge, Penalize, Consume,
              LoginEmail, LoginUser, ReadUser
<1>6. CASE RegisterUser(r) \/ RegisterEmail(r) \/ ChargeCreation(r) \/ ClaimEmail(r)
           \/ DeletePrevious(r) \/ PutSession(r) \/ SetPointer(r) \/ GetSession(r)
           \/ Revoke(r) \/ Fail(r)
  BY <1>6 DEF RegisterUser, RegisterEmail, ChargeCreation, ClaimEmail, DeletePrevious, PutSession,
              SetPointer, GetSession, Revoke, Fail
<1> QED
  BY <1>1, <1>2, <1>3, <1>4, <1>5, <1>6 DEF Step

\* A registration comes to its claim, or to its slots, through putUser alone.
LEMMA ClaimEdges ==
  ASSUME TypeOK, Held, Paths, NEW r \in Req, Step(r), pc'[r] \in {"claimEmail", "putSlots"},
         input'[r].body.kind = "register"
  PROVE  PutProfile(r) \/ PutSlot(r)
<1> USE DEF TypeOK, At, Goto
<1> PathOf(r) /\ r \in Req
  BY DEF Paths
<1>1. CASE Arrive(r)
  BY <1>1 DEF Arrive, Begin, FirstCall
<1>2. CASE ChallengeEmail(r)
  BY <1>2 DEF ChallengeEmail
<1>3. CASE PutChallenge(r)
  BY <1>3 DEF PutChallenge
<1>4. CASE ThrottleChallenge(r)
  BY <1>4 DEF ThrottleChallenge
<1>5. CASE Penalize(r)
  BY <1>5 DEF Penalize
<1>6. CASE Consume(r)
  BY <1>6 DEF Consume, AfterProof, IssueFrom
<1>7. CASE LoginEmail(r)
  BY <1>7 DEF LoginEmail
<1>8. CASE LoginUser(r)
  BY <1>8 DEF LoginUser
<1>9. CASE ReadUser(r)
  BY <1>9 DEF ReadUser, IssueFrom
<1>10. CASE ConnectUser(r)
  BY <1>10 DEF ConnectUser, PathOf
<1>11. CASE RegisterUser(r)
  BY <1>11 DEF RegisterUser, ProveRegistration
<1>12. CASE RegisterEmail(r)
  BY <1>12 DEF RegisterEmail, ProveRegistration
<1>13. CASE ChargeCreation(r)
  BY <1>13 DEF ChargeCreation
<1>16. CASE ClaimEmail(r)
  BY <1>16 DEF ClaimEmail, IssueFrom
<1>17. CASE DeletePrevious(r)
  BY <1>17 DEF DeletePrevious
<1>18. CASE PutSession(r)
  BY <1>18 DEF PutSession
<1>19. CASE SetPointer(r)
  BY <1>19 DEF SetPointer
<1>20. CASE GetSession(r)
  BY <1>20 DEF GetSession, Deny
<1>21. CASE CheckPointer(r)
  <2>1. input' = input /\ pc[r] = "checkPointer"
    BY <1>21 DEF CheckPointer
  <2>2. input[r].body.kind # "register"
    BY <2>1 DEF Held, HeldBy, Verifying
  <2> QED
    BY <2>1, <2>2
<1>22. CASE Revoke(r)
  BY <1>22 DEF Revoke
<1>23. CASE Fail(r)
  BY <1>23 DEF Fail
<1>24. QED
  BY <1>1, <1>2, <1>3, <1>4, <1>5, <1>6, <1>7, <1>8, <1>9, <1>10, <1>11, <1>12, <1>13, <1>16, <1>17, <1>18, <1>19, <1>20, <1>21, <1>22, <1>23 DEF Step

\* No step takes a wallet or a record away.
LEMMA EachWalletStays ==
  ASSUME TypeOK, Held, NEW r \in Req, Step(r), NEW k \in Key
  PROVE  /\ profile[k] # None => profile'[k] # None
         /\ \A s \in Slot : wallets[k][s] # None => wallets'[k][s] # None
<1>1. profile[k] # None => profile'[k] # None
  BY RecordsAndWalletsStay
<1>2. ASSUME NEW s \in Slot, wallets[k][s] # None PROVE wallets'[k][s] # None
  <2>1. CASE PutSlot(r)
    BY <1>2, <2>1, ConstantsAssumption DEF PutSlot, TypeOK
  <2> QED
    BY <1>2, <2>1, StepFrame
<1> QED
  BY <1>1, <1>2

LEMMA WholeStep ==
  ASSUME AInv, WholeInv, [Next]_vars
  PROVE  WholeInv'
<1> USE ConstantsAssumption DEF AInv, IInv
<1>0. \A r \in Req : input[r].body \in Body
  BY DEF TypeOK, Input
<1>1. CASE UNCHANGED vars \/ NewWindow
  <2>1. UNCHANGED <<profile, wallets, emailIndex, pc, input, todo>>
    BY <1>1 DEF vars, NewWindow, localVars, storeVars
  <2>2. \A r \in Req : WrittenBy(r)' = WrittenBy(r)
    BY <2>1 DEF WrittenBy
  <2>3. \A r \in Req, e \in Email, k \in Key : Brought(r, e, k)' = Brought(r, e, k)
    BY <2>1 DEF Brought
  <2>4. WholeInv /\ emailIndex' = emailIndex /\ profile' = profile
    BY <2>1
  <2>5. \A r \in Req : WrittenBy(r)'
    BY <2>2, <2>4 DEF WholeInv
  <2>6. ASSUME NEW e \in Email, NEW k \in Key, emailIndex'[e] = k
        PROVE  profile'[k] # None /\ (SeedProfile[k] # None \/ \E q \in Req : Brought(q, e, k)')
    BY <2>3, <2>4, <2>6 DEF WholeInv
  <2> QED
    BY <2>5, <2>6 DEF WholeInv
<1>2. ASSUME NEW r \in Req, Step(r) PROVE WholeInv'
  <2>1. \A k \in Key : /\ profile[k] # None => profile'[k] # None
                       /\ \A s \in Slot : wallets[k][s] # None => wallets'[k][s] # None
    BY <1>2, EachWalletStays
  <2>2. ASSUME NEW q \in Req, pc[q] # "idle"
        PROVE  input'[q] = input[q] /\ pc'[q] # "idle"
    <3>1. CASE q = r
      <4>1. ~Arrive(r)
        BY <2>2, <3>1 DEF Arrive, Begin, At
      <4> QED
        BY <1>2, <3>1, <4>1, StepFrame, StepEdges
    <3>2. CASE q # r
      BY <1>2, <2>2, <3>2, StepOfOneRequest
    <3> QED
      BY <3>1, <3>2
  <2>3. ASSUME NEW q \in Req, NEW e \in Email, NEW k \in Key, Brought(q, e, k)
        PROVE  Brought(q, e, k)'
    <3>1. input'[q] = input[q] /\ pc'[q] # "idle" /\ input[q].body.slots \subseteq Slot
      BY <1>0, <2>2, <2>3 DEF Brought, Body
    <3> QED
      BY <2>1, <2>3, <3>1 DEF Brought
  <2>4. ASSUME NEW q \in Req \ {r} PROVE WrittenBy(q)'
    <3>1. /\ pc'[q] = pc[q] /\ input'[q] = input[q] /\ todo'[q] = todo[q]
      BY <1>2, <2>4, StepOfOneRequest, TodoStays
    <3>2. SUFFICES ASSUME input[q].body.kind = "register", pc[q] \in {"putSlots", "claimEmail"}
                   PROVE  WrittenBy(q)'
      BY <3>1 DEF WrittenBy
    <3>3. input[q].body.key \in Key /\ input[q].body.slots \subseteq Slot
      BY <1>0, <3>2 DEF Held, HeldBy, Keyed, Working, Body
    <3> QED
      BY <2>1, <3>1, <3>2, <3>3 DEF WholeInv, WrittenBy
  <2>5. WrittenBy(r)'
    <3>1. SUFFICES ASSUME pc'[r] \in {"claimEmail", "putSlots"}, input'[r].body.kind = "register"
                   PROVE  WrittenBy(r)'
      BY DEF WrittenBy
    <3>2. PutProfile(r) \/ PutSlot(r)
      BY <1>2, <3>1, ClaimEdges
    <3>3. /\ input' = input /\ input[r].body.kind = "register" /\ who[r] = input[r].body.key
          /\ input[r].body.key \in Key /\ input[r].body.slots \subseteq Slot
      <4>1. input' = input /\ pc[r] \in {"putProfile", "putSlots"}
        BY <3>2 DEF PutProfile, PutSlot, At
      <4> QED
        BY <1>0, <3>1, <4>1 DEF Held, HeldBy, Keyed, Working, Body
    <3>4. CASE PutProfile(r)
      <4>1. profile'[who[r]] \in Profile
        BY <1>0, <3>3, <3>4 DEF PutProfile, TypeOK, Body, Profile, Method
      <4>2. WriteSlots(r, input[r].body.slots)
        BY <3>4 DEF PutProfile
      <4>3. /\ todo'[r] = input[r].body.slots
            /\ pc'[r] = "claimEmail" => input[r].body.slots = {}
        BY <3>3, <4>2 DEF WriteSlots, AfterSlots, TypeOK, Goto
      <4> QED
        BY <3>1, <3>3, <4>1, <4>3 DEF WrittenBy
    <3>5. CASE PutSlot(r)
      <4>1. PICK s \in todo[r] : /\ wallets' = [wallets EXCEPT ![who[r]][s] = r]
                                 /\ WriteSlots(r, todo[r] \ {s})
        BY <3>5 DEF PutSlot
      <4>2. /\ todo'[r] = todo[r] \ {s}
            /\ pc'[r] = "claimEmail" => todo[r] \ {s} = {}
        BY <4>1 DEF WriteSlots, AfterSlots, TypeOK, Goto
      <4>3. pc[r] = "putSlots" /\ WrittenBy(r) /\ profile' = profile /\ s \in Slot
        BY <3>5, <4>1 DEF PutSlot, At, WholeInv, TypeOK
      <4>4. wallets'[who[r]][s] # None
        BY <3>3, <4>1, <4>3 DEF TypeOK
      <4> QED
        BY <2>1, <3>1, <3>3, <4>2, <4>3, <4>4 DEF WrittenBy
    <3> QED
      BY <3>2, <3>4, <3>5
  <2>6. ASSUME NEW e \in Email, NEW k \in Key, emailIndex'[e] = k
        PROVE  profile'[k] # None /\ (SeedProfile[k] # None \/ \E q \in Req : Brought(q, e, k)')
    <3>1. CASE emailIndex[e] = k
      BY <2>1, <2>3, <3>1 DEF WholeInv
    <3>2. CASE emailIndex[e] # k
      <4>1. ClaimEmail(r)
        BY <1>2, <2>6, <3>2, StepFrame
      <4>2. e = input[r].body.email /\ who[r] = k /\ pc[r] = "claimEmail"
        BY <2>6, <3>2, <4>1 DEF ClaimEmail, At, TypeOK
      <4>3. input[r].body.kind = "register" /\ input[r].body.key = k
        BY <4>2 DEF Held, HeldBy, Registering
      <4>4. profile[k] # None /\ \A s \in input[r].body.slots : wallets[k][s] # None
        BY <4>2, <4>3 DEF WholeInv, WrittenBy
      <4>5. Brought(r, e, k)
        BY <4>2, <4>3, <4>4 DEF Brought
      <4> QED
        BY <2>1, <2>3, <4>4, <4>5
    <3> QED
      BY <3>1, <3>2
  <2> QED
    BY <2>4, <2>5, <2>6 DEF WholeInv
<1> QED
  BY <1>1, <1>2 DEF Next

\* putUser claims the address after the record and its last wallet: wherever a
\* registration fails, its address resolves to a whole account or to none.
THEOREM IndexedAccountsAreWhole == Spec => []IndexedAccountIsWhole
<1>1. Init => WholeInv
  <2> USE ConstantsAssumption
  <2> SUFFICES ASSUME Init PROVE WholeInv
    OBVIOUS
  <2>1. \A r \in Req : WrittenBy(r)
    BY DEF Init, WrittenBy, Blank, BlankBody
  <2>2. \A e \in Email, k \in Key : emailIndex[e] = k => profile[k] # None /\ SeedProfile[k] # None
    BY DEF Init
  <2> QED
    BY <2>1, <2>2 DEF WholeInv
<1>2. AInv /\ WholeInv /\ [Next]_vars => WholeInv'
  BY WholeStep
<1>3. WholeInv => IndexedAccountIsWhole
  BY DEF WholeInv, Brought, IndexedAccountIsWhole
<1> QED
  BY <1>1, <1>2, <1>3, AccountInductive, PTL DEF Spec

-----------------------------------------------------------------------------
(* Proof of possession                                                       *)

\* The labels a handler reaches with a verified signature only.
Verified(r) ==
  \/ pc[r] \in {"consume", "granted"} \cup Proved
  \/ pc[r] = "putSlots" /\ input[r].body.kind # "import"

\* The signature is by the key of the account, and the challenge that was
\* consumed had been issued for that account.
ProofInv ==
  \A r \in Req :
    /\ Verified(r) /\ r \notin Seeds => input[r].body.signer = who[r]
    /\ pc[r] = "granted" /\ r \notin Seeds => took[r] /\ who[r] \in Key
    /\ took[r] => /\ pc[r] \notin {"idle", "challengeEmail", "loginEmail"}
                  /\ who[input[r].challenge] = who[r]

\* A session is granted only to a request that consumed a challenge issued for
\* the account and signed it with the account's own key.
GrantsAreSigned ==
  \A r \in Req \ Seeds : pc[r] = "granted" =>
    /\ who[r] \in Key /\ input[r].body.signer = who[r]
    /\ took[r] /\ pc[input[r].challenge] = "issued" /\ who[input[r].challenge] = who[r]

LEMMA VerifiedEdges ==
  ASSUME TypeOK, Held, Paths, NEW r \in Req, Step(r), Verified(r)'
  PROVE  Verified(r) \/ input'[r].body.signer = who'[r]
<1> USE DEF TypeOK, At, Goto, Verified, Proved
<1> PathOf(r) /\ HeldBy(r) /\ r \in Req
  BY DEF Paths, Held
<1>1. CASE Arrive(r)
  <2>1. PICK b \in Inputs, c \in Req \cup {None}, t \in Req \cup {None} : Begin(r, b, c, t)
    BY <1>1 DEF Arrive
  <2>2. /\ input'[r].body = b /\ who'[r] = b.key /\ pc'[r] = FirstCall(b)
    BY <2>1 DEF Begin
  <2> QED
    BY <2>2 DEF FirstCall
<1>2. CASE ChallengeEmail(r)
  BY <1>2 DEF ChallengeEmail
<1>3. CASE PutChallenge(r)
  BY <1>3 DEF PutChallenge
<1>4. CASE ThrottleChallenge(r)
  BY <1>4 DEF ThrottleChallenge
<1>5. CASE Penalize(r)
  BY <1>5 DEF Penalize
<1>6. CASE Consume(r)
  BY <1>6 DEF Consume
<1>7. CASE LoginEmail(r)
  BY <1>7 DEF LoginEmail
<1>8. CASE LoginUser(r)
  BY <1>8 DEF LoginUser, SignedBy
<1>9. CASE ReadUser(r)
  BY <1>9 DEF ReadUser
<1>10. CASE ConnectUser(r)
  BY <1>10 DEF ConnectUser
<1>11. CASE RegisterUser(r)
  BY <1>11 DEF RegisterUser, ProveRegistration, SignedBy, HeldBy, Registering, localVars
<1>12. CASE RegisterEmail(r)
  BY <1>12 DEF RegisterEmail, ProveRegistration, SignedBy, HeldBy, Registering, localVars
<1>13. CASE ChargeCreation(r)
  BY <1>13 DEF ChargeCreation
<1>14. CASE PutProfile(r)
  BY <1>14 DEF PutProfile
<1>15. CASE PutSlot(r)
  <2>1. pc[r] = "putSlots" /\ input' = input /\ \E s : WriteSlots(r, s)
    BY <1>15 DEF PutSlot
  <2>2. CASE input[r].body.kind = "import"
    BY <2>1, <2>2 DEF WriteSlots, AfterSlots
  <2> QED
    BY <2>1, <2>2
<1>16. CASE ClaimEmail(r)
  BY <1>16 DEF ClaimEmail
<1>17. CASE DeletePrevious(r)
  BY <1>17 DEF DeletePrevious
<1>18. CASE PutSession(r)
  BY <1>18 DEF PutSession
<1>19. CASE SetPointer(r)
  BY <1>19 DEF SetPointer
<1>20. CASE GetSession(r)
  BY <1>20 DEF GetSession, Deny
<1>21. CASE CheckPointer(r)
  <2>1. \/ WriteSlots(r, input[r].body.slots) /\ input[r].body.kind = "import"
        \/ \E l \in {"ok", "refused", "revoke", "authorised"} : Goto(r, l)
    BY <1>21, Zenon DEF CheckPointer, Deny
  <2>2. input' = input
    BY <1>21 DEF CheckPointer
  <2> QED
    BY <2>1, <2>2 DEF WriteSlots, AfterSlots
<1>22. CASE Revoke(r)
  BY <1>22 DEF Revoke
<1>23. CASE Fail(r)
  BY <1>23 DEF Fail
<1>24. QED
  BY <1>1, <1>2, <1>3, <1>4, <1>5, <1>6, <1>7, <1>8, <1>9, <1>10, <1>11, <1>12, <1>13, <1>14, <1>15, <1>16, <1>17, <1>18, <1>19, <1>20, <1>21, <1>22, <1>23 DEF Step

LEMMA ProofStep ==
  ASSUME AInv, ProofInv, [Next]_vars
  PROVE  ProofInv'
<1> USE ConstantsAssumption DEF AInv, IInv
<1> DEFINE Proves(r) ==
      /\ Verified(r) /\ r \notin Seeds => input[r].body.signer = who[r]
      /\ pc[r] = "granted" /\ r \notin Seeds => took[r] /\ who[r] \in Key
      /\ took[r] => /\ pc[r] \notin {"idle", "challengeEmail", "loginEmail"}
                    /\ who[input[r].challenge] = who[r]
<1>1. CASE UNCHANGED vars \/ NewWindow
  <2>1. UNCHANGED <<pc, input, who, took>>
    BY <1>1 DEF vars, NewWindow, localVars
  <2> QED
    BY <2>1 DEF ProofInv, Verified
<1>2. ASSUME NEW r \in Req, Step(r) PROVE ProofInv'
  <2>1. \A t \in Req : pc[t] = "issued" => who'[t] = who[t]
    BY <1>2, AnsweredStays DEF Answered
  <2>2. \A q \in Req : took[q] => input[q].challenge \in Req /\ pc[input[q].challenge] = "issued"
    BY DEF ChallengeInv
  <2>3. ASSUME NEW q \in Req \ {r} PROVE Proves(q)'
    <3>1. /\ pc'[q] = pc[q] /\ who'[q] = who[q] /\ input'[q] = input[q] /\ took'[q] = took[q]
      BY <1>2, <2>3, StepOfOneRequest
    <3>2. Proves(q)
      BY DEF ProofInv
    <3> QED
      BY <2>1, <2>2, <3>1, <3>2 DEF Verified
  <2>4. Proves(r)'
    <3>0. Proves(r)
      BY DEF ProofInv
    <3>1. ASSUME Verified(r)', r \notin Seeds PROVE input'[r].body.signer = who'[r]
      <4>1. CASE ~Verified(r)
        BY <1>2, <3>1, <4>1, VerifiedEdges
      <4>2. CASE Verified(r)
        <5>1. ~Arrive(r) /\ ~ChallengeEmail(r) /\ ~LoginEmail(r)
          BY <4>2 DEF Arrive, Begin, ChallengeEmail, LoginEmail, At, Verified, Proved
        <5> QED
          BY <1>2, <3>0, <3>1, <4>2, <5>1, StepFrame
      <4> QED
        BY <4>1, <4>2
    <3>2. ASSUME pc'[r] = "granted" PROVE took'[r] /\ who'[r] \in Key
      <4>1. pc[r] = "setPointer" /\ UNCHANGED <<took, who>>
        BY <1>2, <3>2, StepEdges DEF SetPointer, At, localVars
      <4> QED
        BY <4>1 DEF Paths, PathOf, Proved, Held, HeldBy, Keyed, Working
    <3>3. ASSUME took'[r]
          PROVE  /\ pc'[r] \notin {"idle", "challengeEmail", "loginEmail"}
                 /\ who'[input'[r].challenge] = who'[r]
      <4>1. CASE took[r]
        <5>1. ~Arrive(r) /\ ~ChallengeEmail(r) /\ ~LoginEmail(r)
          BY <3>0, <4>1 DEF Arrive, Begin, ChallengeEmail, LoginEmail, At
        <5>2. who' = who /\ input' = input
          BY <1>2, <5>1, StepFrame
        <5> QED
          BY <1>2, <3>0, <4>1, <5>1, <5>2, StepEdges
      <4>2. CASE ~took[r]
        <5>1. Consume(r)
          BY <1>2, <3>3, <4>2, StepFrame
        <5>2. who' = who /\ input' = input /\ pc[r] = "consume"
          BY <5>1 DEF Consume, At
        <5>3. <<who[r], input[r].challenge>> \in challenges
          BY <3>3, <4>2, <5>1 DEF Consume
        <5>4. who[r] \in Key /\ input[r].challenge \in Req
          BY <5>2 DEF Held, HeldBy, Keyed, Working, BeforeConsume
        <5>5. who[input[r].challenge] = who[r]
          BY <5>3, <5>4 DEF ChallengeInv
        <5>6. ~Arrive(r)
          BY <5>2 DEF Arrive, Begin, At
        <5> QED
          BY <1>2, <5>2, <5>5, <5>6, StepEdges
      <4> QED
        BY <4>1, <4>2
    <3> QED
      BY <3>1, <3>2, <3>3
  <2> QED
    BY <2>3, <2>4 DEF ProofInv
<1> QED
  BY <1>1, <1>2 DEF Next

\* register, login, loginWallet and connectWallet end in issueSession only behind
\* a signature by the account's key over a challenge issued for it, read once.
THEOREM GrantsRequireProof == Spec => []GrantsAreSigned
<1>1. Init => ProofInv
  BY ConstantsAssumption DEF Init, ProofInv, Verified, Proved, Blank, BlankBody
<1>2. AInv /\ ProofInv /\ [Next]_vars => ProofInv'
  BY ProofStep
<1>3. AInv /\ ProofInv => GrantsAreSigned
  BY DEF AInv, IInv, ChallengeInv, ProofInv, GrantsAreSigned, Verified
<1> QED
  BY <1>1, <1>2, <1>3, AccountInductive, PTL DEF Spec

-----------------------------------------------------------------------------
(* The creation ceiling                                                      *)

Created == {k \in Key : profile[k] # None /\ SeedProfile[k] = None}
\* Requests that have paid for a record they have not created yet.
Charged == {r \in Req : pc[r] = "putProfile"}
Budget == CreateMax * (windows - 1) + (IF hits < CreateMax THEN hits ELSE CreateMax)

\* Every record created, and every one about to be, was paid for.
CountInv ==
  /\ IsFiniteSet(Created) /\ IsFiniteSet(Charged)
  /\ Cardinality(Created) + Cardinality(Charged) <= Budget

LEMMA ChargeEdges ==
  ASSUME TypeOK, NEW r \in Req, Step(r), ~ChargeCreation(r)
  PROVE  pc'[r] # "putProfile" /\ (hits' = hits /\ windows' = windows)
<1> USE DEF TypeOK, At, Goto, limitVars
<1>1. CASE Arrive(r)
  BY <1>1 DEF Arrive, Begin, FirstCall
<1>2. CASE ChallengeEmail(r)
  BY <1>2 DEF ChallengeEmail
<1>3. CASE PutChallenge(r)
  BY <1>3 DEF PutChallenge
<1>4. CASE ThrottleChallenge(r)
  BY <1>4 DEF ThrottleChallenge
<1>5. CASE Penalize(r)
  BY <1>5 DEF Penalize
<1>6. CASE Consume(r)
  BY <1>6 DEF Consume, AfterProof, IssueFrom
<1>7. CASE LoginEmail(r)
  BY <1>7 DEF LoginEmail
<1>8. CASE LoginUser(r)
  BY <1>8 DEF LoginUser
<1>9. CASE ReadUser(r)
  BY <1>9 DEF ReadUser, IssueFrom
<1>10. CASE ConnectUser(r)
  BY <1>10 DEF ConnectUser, IssueFrom
<1>11. CASE RegisterUser(r)
  BY <1>11 DEF RegisterUser, ProveRegistration
<1>12. CASE RegisterEmail(r)
  BY <1>12 DEF RegisterEmail, ProveRegistration
<1>13. CASE ChargeCreation(r)
  BY <1>13
<1>14. CASE PutProfile(r)
  <2>1. UNCHANGED limitVars /\ \E s : WriteSlots(r, s)
    BY <1>14 DEF PutProfile
  <2> QED
    BY <2>1, IssueFromRange DEF WriteSlots, AfterSlots
<1>15. CASE PutSlot(r)
  <2>1. UNCHANGED limitVars /\ \E s : WriteSlots(r, s)
    BY <1>15 DEF PutSlot
  <2> QED
    BY <2>1, IssueFromRange DEF WriteSlots, AfterSlots
<1>16. CASE ClaimEmail(r)
  BY <1>16 DEF ClaimEmail, IssueFrom
<1>17. CASE DeletePrevious(r)
  BY <1>17 DEF DeletePrevious
<1>18. CASE PutSession(r)
  BY <1>18 DEF PutSession
<1>19. CASE SetPointer(r)
  BY <1>19 DEF SetPointer
<1>20. CASE GetSession(r)
  BY <1>20 DEF GetSession, Deny
<1>21. CASE CheckPointer(r)
  <2>1. \/ WriteSlots(r, input[r].body.slots)
        \/ \E l \in {"ok", "refused", "revoke", "authorised"} : Goto(r, l)
    BY <1>21, Zenon DEF CheckPointer, Deny
  <2>2. UNCHANGED limitVars
    BY <1>21 DEF CheckPointer
  <2> QED
    BY <2>1, <2>2, IssueFromRange DEF WriteSlots, AfterSlots
<1>22. CASE Revoke(r)
  BY <1>22 DEF Revoke
<1>23. CASE Fail(r)
  BY <1>23 DEF Fail
<1>24. QED
  BY <1>1, <1>2, <1>3, <1>4, <1>5, <1>6, <1>7, <1>8, <1>9, <1>10, <1>11, <1>12, <1>13, <1>14, <1>15, <1>16, <1>17, <1>18, <1>19, <1>20, <1>21, <1>22, <1>23 DEF Step

LEMMA CountStep ==
  ASSUME TypeOK, Held, CountInv, [Next]_vars
  PROVE  CountInv'
<1> USE ConstantsAssumption
<1>0. Cardinality(Created) \in Nat /\ Cardinality(Charged) \in Nat
  BY FS_CardinalityType DEF CountInv
<1>1. CASE UNCHANGED vars
  BY <1>1 DEF CountInv, Created, Charged, Budget, vars, storeVars, limitVars
<1>2. CASE NewWindow
  <2>1. Created' = Created /\ Charged' = Charged
    BY <1>2 DEF NewWindow, Created, Charged, storeVars
  <2>2. Budget <= Budget'
    <3>1. windows \in Nat /\ hits \in Nat /\ windows' = windows + 1 /\ hits' = 0
      BY <1>2 DEF TypeOK, NewWindow
    <3>2. CreateMax * (windows' - 1) = CreateMax * (windows - 1) + CreateMax
      BY <3>1
    <3> QED
      BY <3>1, <3>2 DEF Budget
  <2>3. Budget \in Int /\ Budget' \in Int
    BY <1>2 DEF TypeOK, NewWindow, Budget
  <2> QED
    BY <1>0, <2>1, <2>2, <2>3 DEF CountInv
<1>3. ASSUME NEW r \in Req, Step(r) PROVE CountInv'
  <2>1. \A q \in Req \ {r} : pc'[q] = pc[q]
    BY <1>3, StepOfOneRequest
  <2>2. Budget \in Int
    BY DEF TypeOK, Budget
  <2>3. CASE ChargeCreation(r)
    <3>1. Created' = Created /\ pc[r] = "chargeCreation" /\ windows' = windows
      BY <2>3 DEF ChargeCreation, At, Created, storeVars
    <3>2. CASE hits < CreateMax /\ hits' = hits + 1 /\ pc'[r] = "putProfile"
      <4>1. Charged' = Charged \cup {r} /\ r \notin Charged
        BY <2>1, <3>1, <3>2 DEF Charged
      <4>2. IsFiniteSet(Charged') /\ Cardinality(Charged') = Cardinality(Charged) + 1
        BY <4>1, FS_AddElement DEF CountInv
      <4>3. Budget' = Budget + 1
        <5> DEFINE bought == CreateMax * (windows - 1)
        <5>1. bought \in Int /\ hits \in Nat /\ CreateMax \in Nat
          BY DEF TypeOK
        <5>2. /\ Budget = bought + (IF hits < CreateMax THEN hits ELSE CreateMax)
              /\ Budget' = bought + (IF hits' < CreateMax THEN hits' ELSE CreateMax)
          BY <3>1 DEF Budget
        <5> HIDE DEF bought
        <5> QED
          BY <3>2, <5>1, <5>2
      <4> QED
        BY <1>0, <2>2, <3>1, <4>2, <4>3 DEF CountInv
    <3>3. CASE pc'[r] = "refused" /\ (hits' = hits \/ (hits >= CreateMax /\ hits' >= CreateMax))
      <4>1. Charged' = Charged
        BY <2>1, <3>1, <3>3 DEF Charged
      <4>2. hits \in Nat /\ hits' \in Nat
        BY <2>3 DEF ChargeCreation, TypeOK
      <4>3. Budget' = Budget
        BY <3>1, <3>3, <4>2 DEF Budget
      <4> QED
        BY <3>1, <4>1, <4>3 DEF CountInv
    <3> QED
      BY <2>3, <3>2, <3>3 DEF ChargeCreation, TypeOK, Goto
  <2>4. CASE ~ChargeCreation(r)
    <3>1. pc'[r] # "putProfile" /\ Budget' = Budget
      BY <1>3, <2>4, ChargeEdges DEF Budget
    <3>2. CASE PutProfile(r)
      <4>1. Charged' = Charged \ {r} /\ r \in Charged
        BY <2>1, <3>1, <3>2 DEF Charged, PutProfile, At
      <4>2. IsFiniteSet(Charged') /\ Cardinality(Charged') = Cardinality(Charged) - 1
        BY <4>1, FS_RemoveElement DEF CountInv
      <4>3. Created' \subseteq Created \cup {who[r]}
        BY <3>2 DEF PutProfile, Created, TypeOK
      <4>4. /\ IsFiniteSet(Created \cup {who[r]})
            /\ Cardinality(Created \cup {who[r]}) <= Cardinality(Created) + 1
        <5>1. CASE who[r] \in Created
          <6>1. Created \cup {who[r]} = Created
            BY <5>1
          <6>2. IsFiniteSet(Created) /\ Cardinality(Created) <= Cardinality(Created) + 1
            BY <1>0 DEF CountInv
          <6> HIDE DEF Created
          <6> QED
            BY <6>1, <6>2
        <5>2. CASE who[r] \notin Created
          BY <1>0, <5>2, FS_AddElement DEF CountInv
        <5> QED
          BY <5>1, <5>2
      <4>5. IsFiniteSet(Created') /\ Cardinality(Created') <= Cardinality(Created \cup {who[r]})
        BY <4>3, <4>4, FS_Subset
      <4>6. Cardinality(Created') \in Nat /\ Cardinality(Created \cup {who[r]}) \in Nat
        BY <4>4, <4>5, FS_CardinalityType
      <4> QED
        BY <1>0, <2>2, <3>1, <4>2, <4>4, <4>5, <4>6 DEF CountInv
    <3>3. CASE ~PutProfile(r)
      <4>1. Created' = Created
        BY <1>3, <3>3, StepFrame DEF Created
      <4>2. Charged' \subseteq Charged
        BY <2>1, <3>1 DEF Charged
      <4>3. IsFiniteSet(Charged') /\ Cardinality(Charged') <= Cardinality(Charged)
        BY <4>2, FS_Subset DEF CountInv
      <4>4. Cardinality(Charged') \in Nat
        BY <4>3, FS_CardinalityType
      <4> QED
        BY <1>0, <2>2, <3>1, <4>1, <4>3, <4>4 DEF CountInv
    <3> QED
      BY <3>2, <3>3
  <2> QED
    BY <2>3, <2>4
<1> QED
  BY <1>1, <1>2, <1>3 DEF Next

LEMMA CountInit == Init => CountInv
<1> USE ConstantsAssumption
<1> SUFFICES ASSUME Init PROVE CountInv
  OBVIOUS
<1>1. Created = {} /\ Charged = {}
  BY DEF Init, Created, Charged
<1>2. Budget = 0
  BY DEF Init, Budget
<1> QED
  BY <1>1, <1>2, FS_EmptySet DEF CountInv

\* accountCreationLimited, called by both creation paths: each window of the
\* counter buys at most CreateMax records.
THEOREM CreationIsCapped == Spec => []CreationCeiling
<1>1. AInv /\ CountInv /\ [Next]_vars => CountInv'
  BY CountStep DEF AInv, IInv
<1>2. AInv /\ CountInv => CreationCeiling
  <2> SUFFICES ASSUME TypeOK, CountInv PROVE CreationCeiling
    BY DEF AInv, IInv
  <2>1. Cardinality(Created) \in Nat /\ Cardinality(Charged) \in Nat
    BY FS_CardinalityType DEF CountInv
  <2>2. windows \in Nat /\ hits \in Nat /\ CreateMax \in Nat
    BY ConstantsAssumption DEF TypeOK
  <2>3. CreateMax * windows = CreateMax * (windows - 1) + CreateMax
    BY <2>2
  <2>4. Budget <= CreateMax * windows /\ Budget \in Int /\ CreateMax * windows \in Int
    BY <2>2, <2>3 DEF Budget
  <2>5. Cardinality(Created) <= CreateMax * windows
    BY <2>1, <2>4 DEF CountInv
  <2> QED
    BY <2>5 DEF CreationCeiling, Created
<1> QED
  BY AccountInductive, CountInit, <1>1, <1>2, PTL DEF Spec

=============================================================================
