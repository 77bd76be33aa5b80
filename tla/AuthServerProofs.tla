-------------------------- MODULE AuthServerProofs --------------------------
(***************************************************************************)
(* Theorems about AuthServer: its type invariant, that a challenge is used *)
(* at most once, that a dead token is refused, and that the server         *)
(* implements SingleSession, for any number of requests, accounts and      *)
(* addresses.                                                              *)
(***************************************************************************)
EXTENDS AuthServer, TLAPS

-----------------------------------------------------------------------------
(* The inductive invariant, in parts                                        *)

\* Labels at which a handler works on an account it knows.
Keyed == Working \ {"challengeEmail", "loginEmail", "penalize"}

\* What request r holds when it is about to use it.
Registering == {"registerUser", "registerEmail", "claimEmail"}
Verifying == {"getSession", "checkPointer", "revoke"}
BeforeConsume == {"registerUser", "registerEmail", "loginEmail", "loginUser", "consume"}

HeldBy(r) ==
  LET b == input[r].body IN
  /\ pc[r] \in Keyed => who[r] \in Key
  /\ pc[r] \in {"challengeEmail", "loginEmail", "registerEmail", "claimEmail"}
       => b.email \in Email
  /\ pc[r] = "challengeEmail" => b.kind = "challenge"
  /\ pc[r] \in {"loginEmail", "loginUser"} => b.kind = "login"
  /\ pc[r] \in Registering => b.kind = "register"
  /\ pc[r] # "idle" /\ b.kind = "register" => who[r] = b.key
  /\ pc[r] \in BeforeConsume => input[r].challenge \in Req
  /\ pc[r] = "deletePrevious" => prev[r] \in Req
  /\ pc[r] \in Verifying => b.kind \in {"logout", "userData", "import"}
                              /\ input[r].token \in Req

Held == \A r \in Req : HeldBy(r)

\* A stored challenge was answered to somebody, and one that was taken is gone
\* for good: only the request that minted it ever stores it.
ChallengeInv ==
  /\ \A k \in Key, c \in Req : <<k, c>> \in challenges => pc[c] = "issued" /\ who[c] = k
  /\ \A r \in Req : took[r] =>
       /\ pc[r] # "idle"
       /\ input[r].challenge \in Req
       /\ pc[input[r].challenge] = "issued"
       /\ \A k \in Key : <<k, input[r].challenge>> \notin challenges
  /\ ChallengeSingleUse

\* Pointers and snapshots name granted tokens only; a session key belongs to
\* the account its login worked on.
TokenInv ==
  /\ \A k \in Key : pointer[k] # None => pc[pointer[k]] = "granted" /\ who[pointer[k]] = k
  /\ \A t \in Req : sessions[t] # None =>
       sessions[t] = who[t] /\ pc[t] \in {"setPointer", "granted", "failed"}
  /\ \A r \in Req : prev[r] # None => pc[prev[r]] = "granted"
  /\ \A r \in Req : pc[r] = "setPointer" => sessions[r] = who[r]
  /\ \A r \in Req : input[r].token # None => pc[input[r].token] = "granted"

\* A request that arrived with a dead token never gets past verifySession.
DeadInv ==
  \A r \in Req : began[r].dead =>
    /\ pc[r] \in {"getSession", "checkPointer", "ok", "refused", "failed"}
    /\ input[r].token \in Req
    /\ sessions[input[r].token] = None \/ pointer[who[input[r].token]] # input[r].token
    /\ pc[r] = "checkPointer" => pointer[who[r]] # input[r].token

IInv == TypeOK /\ Held /\ ChallengeInv /\ TokenInv /\ DeadInv

-----------------------------------------------------------------------------
(* Type correctness                                                          *)

\* Where a request that has just written a slot goes.
AfterWrite == {"imported", "claimEmail", "deletePrevious", "putSession", "putSlots"}

LEMMA IssueFromRange ==
  ASSUME NEW p PROVE IssueFrom(p) \in {"putSession", "deletePrevious"}
BY DEF IssueFrom

\* WriteSlots moves r alone, to its next slot or to what follows the last one.
LEMMA WriteSlotsMoves ==
  ASSUME TypeOK, NEW r \in Req, NEW s \in SUBSET Slot, WriteSlots(r, s)
  PROVE  /\ todo' \in [Req -> SUBSET Slot]
         /\ \A q \in Req \ {r} : pc'[q] = pc[q] /\ todo'[q] = todo[q]
         /\ pc'[r] \in AfterWrite
         /\ pc' \in [Req -> Label]
<1>1. AfterSlots(r) \in AfterWrite
  BY IssueFromRange DEF AfterSlots, AfterWrite
<1>2. AfterWrite \subseteq Label
  BY DEF AfterWrite, Label, Working, Answered
<1>3. PICK l \in AfterWrite : pc' = [pc EXCEPT ![r] = l]
  BY <1>1 DEF WriteSlots, Goto, AfterWrite
<1> QED
  BY <1>2, <1>3 DEF TypeOK, WriteSlots

LEMMA TypeStep ==
  ASSUME TypeOK, Held, [Next]_vars
  PROVE  TypeOK'
<1> USE ConstantsAssumption DEF At, Goto, Label, Working, Answered, Keyed,
       storeVars, limitVars, localVars
<1>0. CASE UNCHANGED vars
  BY <1>0 DEF TypeOK, vars
<1>1. ASSUME NEW r \in Req, Arrive(r) PROVE TypeOK'
  <2>1. PICK b \in Inputs, c \in Req \cup {None}, t \in Req \cup {None} : Begin(r, b, c, t)
    BY <1>1 DEF Arrive
  <2>2. b \in Body
    OBVIOUS
  <2>3. FirstCall(b) \in Label
    BY DEF FirstCall
  <2>4. PICK h \in [dead : BOOLEAN, stored : BOOLEAN] : began' = [began EXCEPT ![r] = h]
    <3> DEFINE stored == b.key # None /\ \E k \in Key : b.key = k /\ HasWallets(k)
               dead == t # None /\ ~Live(t)
    <3>1. dead \in BOOLEAN /\ stored \in BOOLEAN
      OBVIOUS
    <3>2. began' = [began EXCEPT ![r] = [dead |-> dead, stored |-> stored]]
      BY <2>1, Zenon DEF Begin
    <3> HIDE DEF dead, stored
    <3> QED
      BY <3>1, <3>2
  <2>5. [body |-> b, challenge |-> c, token |-> t] \in Input /\ b.key \in Key \cup {None}
    BY <2>2 DEF Input, Body
  <2>6. pc' \in [Req -> Label] /\ began' \in [Req -> [dead : BOOLEAN, stored : BOOLEAN]]
    BY <2>1, <2>3, <2>4 DEF TypeOK, Begin
  <2>7. input' \in [Req -> Input] /\ who' \in [Req -> Key \cup {None}]
    BY <2>1, <2>5 DEF TypeOK, Begin
  <2> QED
    BY <2>1, <2>6, <2>7 DEF TypeOK, Begin
<1>2. ASSUME NEW r \in Req, ChallengeEmail(r) PROVE TypeOK'
  BY <1>2 DEF TypeOK, Held, HeldBy, ChallengeEmail
<1>3. ASSUME NEW r \in Req, PutChallenge(r) PROVE TypeOK'
  <2>1. who[r] \in Key
    BY <1>3 DEF Held, HeldBy, PutChallenge
  <2>2. challenges' \subseteq Key \X Req
    BY <1>3, <2>1 DEF TypeOK, PutChallenge
  <2>3. pc' \in [Req -> Label]
    BY <1>3 DEF TypeOK, PutChallenge
  <2> QED
    BY <1>3, <2>2, <2>3 DEF TypeOK, PutChallenge
<1>4. ASSUME NEW r \in Req, ThrottleChallenge(r) PROVE TypeOK'
  BY <1>4 DEF TypeOK, Held, HeldBy, ThrottleChallenge
<1>5. ASSUME NEW r \in Req, Penalize(r) PROVE TypeOK'
  BY <1>5 DEF TypeOK, Held, HeldBy, Penalize
<1>6. ASSUME NEW r \in Req, Consume(r) PROVE TypeOK'
  <2>1. AfterProof(r) \in Label
    BY IssueFromRange DEF AfterProof
  <2>2. PICK l \in Label : pc' = [pc EXCEPT ![r] = l]
    BY <1>6, <2>1 DEF Consume
  <2>3. pc' \in [Req -> Label]
    BY <2>2 DEF TypeOK
  <2>4. took' \in [Req -> BOOLEAN] /\ challenges' \subseteq Key \X Req
    BY <1>6 DEF TypeOK, Consume
  <2> QED
    BY <1>6, <2>3, <2>4 DEF TypeOK, Consume
<1>7. ASSUME NEW r \in Req, LoginEmail(r) PROVE TypeOK'
  BY <1>7 DEF TypeOK, Held, HeldBy, LoginEmail
<1>8. ASSUME NEW r \in Req, LoginUser(r) PROVE TypeOK'
  <2>1. PICK l \in Label : pc' = [pc EXCEPT ![r] = l]
    BY <1>8 DEF LoginUser
  <2>2. pc' \in [Req -> Label]
    BY <2>1 DEF TypeOK
  <2>3. who[r] \in Key
    BY <1>8 DEF Held, HeldBy, LoginUser
  <2>4. prev' \in [Req -> Req \cup {None}]
    BY <1>8, <2>3 DEF TypeOK, LoginUser
  <2> QED
    BY <1>8, <2>2, <2>4 DEF TypeOK, LoginUser
<1>9. ASSUME NEW r \in Req, ReadUser(r) PROVE TypeOK'
  <2>1. who[r] \in Key
    BY <1>9 DEF Held, HeldBy, ReadUser
  <2>2. PICK l \in Label : pc' = [pc EXCEPT ![r] = l]
    BY <1>9, IssueFromRange DEF ReadUser
  <2>3. prev' \in [Req -> Req \cup {None}]
    <3>1. pointer[who[r]] \in Req \cup {None}
      BY <2>1 DEF TypeOK
    <3>2. prev' = prev \/ prev' = [prev EXCEPT ![r] = pointer[who[r]]]
      BY <1>9, Zenon DEF ReadUser
    <3> QED
      BY <3>1, <3>2 DEF TypeOK
  <2> QED
    BY <1>9, <2>2, <2>3 DEF TypeOK, ReadUser
<1>10. ASSUME NEW r \in Req, ConnectUser(r) PROVE TypeOK'
  <2>1. who[r] \in Key /\ input[r].body.slots \in SUBSET Slot
    BY <1>10 DEF TypeOK, Held, HeldBy, Input, Body, ConnectUser
  <2>2. PICK l \in Label : pc' = [pc EXCEPT ![r] = l]
    BY <1>10, IssueFromRange DEF ConnectUser
  <2>3. prev' \in [Req -> Req \cup {None}] /\ todo' \in [Req -> SUBSET Slot]
    <3>1. pointer[who[r]] \in Req \cup {None}
      BY <2>1 DEF TypeOK
    <3>2. prev' = prev \/ prev' = [prev EXCEPT ![r] = pointer[who[r]]]
      BY <1>10, Zenon DEF ConnectUser
    <3>3. todo' = todo \/ todo' = [todo EXCEPT ![r] = input[r].body.slots]
      BY <1>10, Zenon DEF ConnectUser
    <3> QED
      BY <2>1, <3>1, <3>2, <3>3 DEF TypeOK
  <2> QED
    BY <1>10, <2>2, <2>3 DEF TypeOK, ConnectUser
<1>11. ASSUME NEW r \in Req, RegisterUser(r) PROVE TypeOK'
  BY <1>11 DEF TypeOK, Held, HeldBy, RegisterUser, ProveRegistration
<1>12. ASSUME NEW r \in Req, RegisterEmail(r) PROVE TypeOK'
  BY <1>12 DEF TypeOK, Held, HeldBy, RegisterEmail, ProveRegistration
<1>13. ASSUME NEW r \in Req, ChargeCreation(r) PROVE TypeOK'
  BY <1>13 DEF TypeOK, Held, HeldBy, ChargeCreation
<1>14. ASSUME NEW r \in Req, PutProfile(r) PROVE TypeOK'
  <2>1. who[r] \in Key /\ input[r].body \in Body
    BY <1>14 DEF TypeOK, Held, HeldBy, Input, PutProfile
  <2>2. input[r].body.slots \in SUBSET Slot
    BY <2>1 DEF Body
  <2>3. profile' \in [Key -> Profile \cup {None}]
    BY <1>14, <2>1 DEF TypeOK, PutProfile, Body, Profile, Method
  <2>4. pc' \in [Req -> Label] /\ todo' \in [Req -> SUBSET Slot]
    BY <1>14, <2>2, WriteSlotsMoves DEF PutProfile
  <2> QED
    BY <1>14, <2>3, <2>4 DEF TypeOK, PutProfile
<1>15. ASSUME NEW r \in Req, PutSlot(r) PROVE TypeOK'
  <2>1. PICK s \in todo[r] : /\ wallets' = [wallets EXCEPT ![who[r]][s] = r]
                             /\ WriteSlots(r, todo[r] \ {s})
    BY <1>15 DEF PutSlot
  <2>2. s \in Slot /\ todo[r] \ {s} \in SUBSET Slot /\ who[r] \in Key
    BY <1>15 DEF TypeOK, Held, HeldBy, PutSlot
  <2>3. pc' \in [Req -> Label] /\ todo' \in [Req -> SUBSET Slot]
    BY <2>1, <2>2, WriteSlotsMoves
  <2>4. wallets' \in [Key -> [Slot -> Req \cup {None}]]
    BY <2>1, <2>2 DEF TypeOK
  <2> QED
    BY <1>15, <2>3, <2>4 DEF TypeOK, PutSlot
<1>16. ASSUME NEW r \in Req, ClaimEmail(r) PROVE TypeOK'
  <2>1. PICK l \in Label : pc' = [pc EXCEPT ![r] = l]
    BY <1>16, IssueFromRange DEF ClaimEmail
  <2>2. pc' \in [Req -> Label]
    BY <2>1 DEF TypeOK
  <2>3. who[r] \in Key
    BY <1>16 DEF Held, HeldBy, ClaimEmail
  <2>4. \/ emailIndex' = emailIndex
        \/ emailIndex' = [emailIndex EXCEPT ![input[r].body.email] = who[r]]
    BY <1>16 DEF ClaimEmail
  <2>5. emailIndex' \in [Email -> Key \cup {None}]
    BY <2>3, <2>4 DEF TypeOK
  <2> QED
    BY <1>16, <2>2, <2>5 DEF TypeOK, ClaimEmail
<1>17. ASSUME NEW r \in Req, DeletePrevious(r) PROVE TypeOK'
  BY <1>17 DEF TypeOK, Held, HeldBy, DeletePrevious
<1>18. ASSUME NEW r \in Req, PutSession(r) PROVE TypeOK'
  BY <1>18 DEF TypeOK, Held, HeldBy, PutSession
<1>19. ASSUME NEW r \in Req, SetPointer(r) PROVE TypeOK'
  BY <1>19 DEF TypeOK, Held, HeldBy, SetPointer
<1>20. ASSUME NEW r \in Req, GetSession(r) PROVE TypeOK'
  <2>1. PICK l \in Label : pc' = [pc EXCEPT ![r] = l]
    BY <1>20 DEF GetSession, Deny
  <2>2. pc' \in [Req -> Label]
    BY <2>1 DEF TypeOK
  <2>3. sessions' \in [Req -> Key \cup {None}]
    BY <1>20 DEF TypeOK, GetSession
  <2> QED
    BY <1>20, <2>2, <2>3 DEF TypeOK, GetSession
<1>21. ASSUME NEW r \in Req, CheckPointer(r) PROVE TypeOK'
  <2>1. input[r].body.slots \in SUBSET Slot
    BY DEF TypeOK, Input, Body
  <2>2. CASE WriteSlots(r, input[r].body.slots)
    BY <1>21, <2>1, <2>2, WriteSlotsMoves DEF TypeOK, CheckPointer
  <2>3. CASE UNCHANGED todo /\ \E l \in Label : pc' = [pc EXCEPT ![r] = l]
    BY <1>21, <2>3 DEF TypeOK, CheckPointer
  <2> QED
    BY <1>21, <2>2, <2>3 DEF CheckPointer, Deny
<1>22. ASSUME NEW r \in Req, Revoke(r) PROVE TypeOK'
  BY <1>22 DEF TypeOK, Held, HeldBy, Revoke
<1>23. ASSUME NEW r \in Req, Fail(r) PROVE TypeOK'
  BY <1>23 DEF TypeOK, Held, HeldBy, Fail
<1>24. CASE NewWindow
  BY <1>24 DEF TypeOK, NewWindow
<1>25. QED
  BY <1>0, <1>1, <1>2, <1>3, <1>4, <1>5, <1>6, <1>7, <1>8, <1>9, <1>10, <1>11, <1>12, <1>13, <1>14, <1>15, <1>16, <1>17, <1>18, <1>19, <1>20, <1>21, <1>22, <1>23, <1>24 DEF Next, Step
-----------------------------------------------------------------------------
(* What a request holds                                                      *)

\* A step of request r leaves what any other request holds alone.
LEMMA StepOfOneRequest ==
  ASSUME NEW r \in Req, NEW q \in Req \ {r}, TypeOK, Step(r)
  PROVE  /\ pc'[q] = pc[q] /\ who'[q] = who[q] /\ input'[q] = input[q]
         /\ prev'[q] = prev[q] /\ took'[q] = took[q] /\ began'[q] = began[q]
<1> USE DEF TypeOK, Goto, storeVars, limitVars, localVars
<1>1. CASE Arrive(r)
  BY <1>1 DEF Arrive, Begin
<1>2. CASE ChallengeEmail(r)
  BY <1>2 DEF ChallengeEmail
<1>3. CASE PutChallenge(r)
  BY <1>3 DEF PutChallenge
<1>4. CASE ThrottleChallenge(r)
  BY <1>4 DEF ThrottleChallenge
<1>5. CASE Penalize(r)
  BY <1>5 DEF Penalize
<1>6. CASE Consume(r)
  BY <1>6 DEF Consume
<1>7. CASE LoginEmail(r)
  BY <1>7 DEF LoginEmail
<1>8. CASE LoginUser(r)
  BY <1>8 DEF LoginUser
<1>9. CASE ReadUser(r)
  BY <1>9 DEF ReadUser
<1>10. CASE ConnectUser(r)
  BY <1>10 DEF ConnectUser
<1>11. CASE RegisterUser(r)
  BY <1>11 DEF RegisterUser
<1>12. CASE RegisterEmail(r)
  BY <1>12 DEF RegisterEmail
<1>13. CASE ChargeCreation(r)
  BY <1>13 DEF ChargeCreation
<1>14. CASE PutProfile(r)
  BY <1>14 DEF PutProfile, WriteSlots
<1>15. CASE PutSlot(r)
  BY <1>15 DEF PutSlot, WriteSlots
<1>16. CASE ClaimEmail(r)
  BY <1>16 DEF ClaimEmail
<1>17. CASE DeletePrevious(r)
  BY <1>17 DEF DeletePrevious
<1>18. CASE PutSession(r)
  BY <1>18 DEF PutSession
<1>19. CASE SetPointer(r)
  BY <1>19 DEF SetPointer
<1>20. CASE GetSession(r)
  BY <1>20 DEF GetSession, Deny
<1>21. CASE CheckPointer(r)
  <2>1. CASE profile[who[r]] = None \/ pointer[who[r]] # input[r].token
    BY <1>21, <2>1 DEF CheckPointer, Deny
  <2>2. CASE ~(profile[who[r]] = None \/ pointer[who[r]] # input[r].token)
    BY <1>21, <2>2 DEF CheckPointer, WriteSlots
  <2> QED
    BY <2>1, <2>2
<1>22. CASE Revoke(r)
  BY <1>22 DEF Revoke
<1>23. CASE Fail(r)
  BY <1>23 DEF Fail
<1>24. QED
  BY <1>1, <1>2, <1>3, <1>4, <1>5, <1>6, <1>7, <1>8, <1>9, <1>10, <1>11, <1>12, <1>13, <1>14, <1>15, <1>16, <1>17, <1>18, <1>19, <1>20, <1>21, <1>22, <1>23 DEF Step

LEMMA HeldStep ==
  ASSUME TypeOK, Held, [Next]_vars
  PROVE  Held'
<1> USE ConstantsAssumption DEF At, Goto, Label, Working, Answered, Keyed, Registering,
       Verifying, BeforeConsume, storeVars, limitVars, localVars
<1>1. CASE UNCHANGED vars
  BY <1>1 DEF Held, HeldBy, vars
<1>2. CASE NewWindow
  BY <1>2 DEF Held, HeldBy, NewWindow
<1>3. ASSUME NEW r \in Req, Step(r) PROVE Held'
  <2>1. ASSUME NEW q \in Req \ {r} PROVE HeldBy(q)'
    BY <1>3, <2>1, StepOfOneRequest DEF Held, HeldBy
  <2>2. HeldBy(r)'
    <3> HeldBy(r) /\ r \in Req
      BY DEF Held
    <3>1. CASE Arrive(r)
      <4>1. PICK b \in Inputs, c \in Req \cup {None}, t \in Req \cup {None} : Begin(r, b, c, t)
        BY <3>1 DEF Arrive
      <4>2. b \in Body /\ WellFormed(b)
        OBVIOUS
      <4>3. /\ input'[r] = [body |-> b, challenge |-> c, token |-> t]
            /\ who'[r] = b.key /\ pc'[r] = FirstCall(b) /\ prev'[r] = prev[r]
            /\ b.kind \in {"register", "login", "loginWallet", "connect"} <=> c # None
            /\ b.kind \in {"logout", "userData", "import"} <=> t # None
        BY <4>1 DEF TypeOK, Begin
      <4> QED
        BY <4>2, <4>3 DEF HeldBy, FirstCall, Body, Kind, WellFormed
    <3>2. CASE ChallengeEmail(r)
      BY <3>2 DEF TypeOK, HeldBy, ChallengeEmail
    <3>3. CASE PutChallenge(r)
      BY <3>3 DEF TypeOK, HeldBy, PutChallenge
    <3>4. CASE ThrottleChallenge(r)
      BY <3>4 DEF TypeOK, HeldBy, ThrottleChallenge
    <3>5. CASE Penalize(r)
      BY <3>5 DEF TypeOK, HeldBy, Penalize
    <3>6. CASE Consume(r)
      BY <3>6 DEF TypeOK, HeldBy, Consume, AfterProof, IssueFrom
    <3>7. CASE LoginEmail(r)
      BY <3>7 DEF TypeOK, HeldBy, LoginEmail
    <3>8. CASE LoginUser(r)
      BY <3>8 DEF TypeOK, HeldBy, LoginUser
    <3>9. CASE ReadUser(r)
      BY <3>9 DEF TypeOK, HeldBy, ReadUser, IssueFrom
    <3>10. CASE ConnectUser(r)
      BY <3>10 DEF TypeOK, HeldBy, ConnectUser, IssueFrom
    <3>11. CASE RegisterUser(r)
      BY <3>11 DEF TypeOK, HeldBy, RegisterUser, ProveRegistration, Input, Body
    <3>12. CASE RegisterEmail(r)
      BY <3>12 DEF TypeOK, HeldBy, RegisterEmail, ProveRegistration
    <3>13. CASE ChargeCreation(r)
      BY <3>13 DEF TypeOK, HeldBy, ChargeCreation
    <3>14. CASE PutProfile(r)
      <4>1. input[r].body.email \in Email \cup {None} /\ prev[r] \in Req \cup {None}
        BY DEF TypeOK, Input, Body
      <4>2. UNCHANGED <<who, input, prev>> /\ \E s : WriteSlots(r, s)
        BY <3>14 DEF PutProfile
      <4>3. pc[r] = "putProfile"
        BY <3>14 DEF PutProfile
      <4> QED
        BY <4>1, <4>2, <4>3 DEF TypeOK, HeldBy, WriteSlots, AfterSlots, IssueFrom
    <3>15. CASE PutSlot(r)
      <4>1. input[r].body.email \in Email \cup {None} /\ prev[r] \in Req \cup {None}
        BY DEF TypeOK, Input, Body
      <4>2. UNCHANGED <<who, input, prev>> /\ \E s : WriteSlots(r, s)
        BY <3>15 DEF PutSlot
      <4>3. pc[r] = "putSlots"
        BY <3>15 DEF PutSlot
      <4> QED
        BY <4>1, <4>2, <4>3 DEF TypeOK, HeldBy, WriteSlots, AfterSlots, IssueFrom
    <3>16. CASE ClaimEmail(r)
      BY <3>16 DEF TypeOK, HeldBy, ClaimEmail, IssueFrom
    <3>17. CASE DeletePrevious(r)
      BY <3>17 DEF TypeOK, HeldBy, DeletePrevious
    <3>18. CASE PutSession(r)
      BY <3>18 DEF TypeOK, HeldBy, PutSession
    <3>19. CASE SetPointer(r)
      BY <3>19 DEF TypeOK, HeldBy, SetPointer
    <3>20. CASE GetSession(r)
      BY <3>20 DEF TypeOK, HeldBy, GetSession, Deny
    <3>21. CASE CheckPointer(r)
      BY <3>21 DEF TypeOK, HeldBy, CheckPointer, WriteSlots, AfterSlots, IssueFrom, Deny
    <3>22. CASE Revoke(r)
      BY <3>22 DEF TypeOK, HeldBy, Revoke
    <3>23. CASE Fail(r)
      BY <3>23 DEF TypeOK, HeldBy, Fail
    <3>24. QED
      BY <1>3, <3>1, <3>2, <3>3, <3>4, <3>5, <3>6, <3>7, <3>8, <3>9, <3>10, <3>11, <3>12, <3>13, <3>14, <3>15, <3>16, <3>17, <3>18, <3>19, <3>20, <3>21, <3>22, <3>23 DEF Step
  <2> QED
    BY <2>1, <2>2 DEF Held
<1>4. QED
  BY <1>1, <1>2, <1>3 DEF Next

-----------------------------------------------------------------------------
(* What each step leaves alone                                               *)

LEMMA StepFrame ==
  ASSUME NEW r \in Req, Step(r)
  PROVE  /\ pc[r] \in {"idle"} \cup Working
         /\ Arrive(r) \/ (input' = input /\ began' = began)
         /\ Arrive(r) \/ ChallengeEmail(r) \/ LoginEmail(r) \/ who' = who
         /\ LoginUser(r) \/ ReadUser(r) \/ ConnectUser(r) \/ prev' = prev
         /\ Consume(r) \/ took' = took
         /\ Consume(r) \/ PutChallenge(r) \/ challenges' = challenges
         /\ PutSession(r) \/ DeletePrevious(r) \/ GetSession(r) \/ Revoke(r)
              \/ sessions' = sessions
         /\ SetPointer(r) \/ pointer' = pointer
         /\ PutProfile(r) \/ profile' = profile
         /\ ClaimEmail(r) \/ emailIndex' = emailIndex
         /\ PutSlot(r) \/ wallets' = wallets
<1> USE DEF At, Working, storeVars, limitVars, localVars
<1>1. CASE Arrive(r)
  BY <1>1 DEF Arrive, Begin
<1>2. CASE ChallengeEmail(r)
  BY <1>2 DEF ChallengeEmail
<1>3. CASE PutChallenge(r)
  BY <1>3 DEF PutChallenge
<1>4. CASE ThrottleChallenge(r)
  BY <1>4 DEF ThrottleChallenge
<1>5. CASE Penalize(r)
  BY <1>5 DEF Penalize
<1>6. CASE Consume(r)
  BY <1>6 DEF Consume
<1>7. CASE LoginEmail(r)
  BY <1>7 DEF LoginEmail
<1>8. CASE LoginUser(r)
  BY <1>8 DEF LoginUser
<1>9. CASE ReadUser(r)
  BY <1>9 DEF ReadUser
<1>10. CASE ConnectUser(r)
  BY <1>10 DEF ConnectUser
<1>11. CASE RegisterUser(r)
  BY <1>11 DEF RegisterUser
<1>12. CASE RegisterEmail(r)
  BY <1>12 DEF RegisterEmail
<1>13. CASE ChargeCreation(r)
  BY <1>13 DEF ChargeCreation
<1>14. CASE PutProfile(r)
  BY <1>14 DEF PutProfile
<1>15. CASE PutSlot(r)
  BY <1>15 DEF PutSlot
<1>16. CASE ClaimEmail(r)
  BY <1>16 DEF ClaimEmail
<1>17. CASE DeletePrevious(r)
  BY <1>17 DEF DeletePrevious
<1>18. CASE PutSession(r)
  BY <1>18 DEF PutSession
<1>19. CASE SetPointer(r)
  BY <1>19 DEF SetPointer
<1>20. CASE GetSession(r)
  BY <1>20 DEF GetSession
<1>21. CASE CheckPointer(r)
  BY <1>21 DEF CheckPointer
<1>22. CASE Revoke(r)
  BY <1>22 DEF Revoke
<1>23. CASE Fail(r)
  BY <1>23 DEF Fail
<1>24. QED
  BY <1>1, <1>2, <1>3, <1>4, <1>5, <1>6, <1>7, <1>8, <1>9, <1>10, <1>11, <1>12, <1>13, <1>14, <1>15, <1>16, <1>17, <1>18, <1>19, <1>20, <1>21, <1>22, <1>23 DEF Step

\* Where the steps lead that the invariant distinguishes.
LEMMA StepEdges ==
  ASSUME TypeOK, NEW r \in Req, Step(r)
  PROVE  /\ pc'[r] # "idle"
         /\ pc'[r] \in {"challengeEmail", "loginEmail"} => Arrive(r)
         /\ pc'[r] = "setPointer" => PutSession(r)
         /\ pc'[r] = "granted" => SetPointer(r)
         /\ pc[r] = "setPointer" => SetPointer(r) \/ Fail(r)
         /\ pc[r] = "getSession" => GetSession(r) \/ Fail(r)
         /\ pc[r] = "checkPointer" => CheckPointer(r) \/ Fail(r)
<1> USE DEF TypeOK, At, Goto
<1>1. CASE Arrive(r)
  <2>1. PICK b \in Inputs, c \in Req \cup {None}, t \in Req \cup {None} : Begin(r, b, c, t)
    BY <1>1 DEF Arrive
  <2>2. /\ FirstCall(b) # "idle" /\ FirstCall(b) # "setPointer" /\ FirstCall(b) # "granted"
        /\ pc[r] = "idle" /\ pc'[r] = FirstCall(b)
    BY <2>1 DEF Begin, FirstCall
  <2> QED
    BY <1>1, <2>2
<1>2. CASE ChallengeEmail(r)
  BY <1>2 DEF ChallengeEmail
<1>3. CASE PutChallenge(r)
  BY <1>3 DEF PutChallenge
<1>4. CASE ThrottleChallenge(r)
  BY <1>4 DEF ThrottleChallenge
<1>5. CASE Penalize(r)
  BY <1>5 DEF Penalize
<1>6. CASE Consume(r)
  BY <1>6 DEF Consume, AfterProof, IssueFrom
<1>7. CASE LoginEmail(r)
  BY <1>7 DEF LoginEmail
<1>8. CASE LoginUser(r)
  BY <1>8 DEF LoginUser
<1>9. CASE ReadUser(r)
  BY <1>9 DEF ReadUser, IssueFrom
<1>10. CASE ConnectUser(r)
  BY <1>10 DEF ConnectUser, IssueFrom
<1>11. CASE RegisterUser(r)
  BY <1>11 DEF RegisterUser, ProveRegistration
<1>12. CASE RegisterEmail(r)
  BY <1>12 DEF RegisterEmail, ProveRegistration
<1>13. CASE ChargeCreation(r)
  BY <1>13 DEF ChargeCreation
<1>14. CASE PutProfile(r)
  BY <1>14 DEF PutProfile, WriteSlots, AfterSlots, IssueFrom
<1>15. CASE PutSlot(r)
  BY <1>15 DEF PutSlot, WriteSlots, AfterSlots, IssueFrom
<1>16. CASE ClaimEmail(r)
  BY <1>16 DEF ClaimEmail, IssueFrom
<1>17. CASE DeletePrevious(r)
  BY <1>17 DEF DeletePrevious
<1>18. CASE PutSession(r)
  BY <1>18 DEF PutSession
<1>19. CASE SetPointer(r)
  BY <1>19 DEF SetPointer
<1>20. CASE GetSession(r)
  BY <1>20 DEF GetSession, Deny
<1>21. CASE CheckPointer(r)
  BY <1>21 DEF CheckPointer, WriteSlots, AfterSlots, IssueFrom, Deny
<1>22. CASE Revoke(r)
  BY <1>22 DEF Revoke
<1>23. CASE Fail(r)
  BY <1>23 DEF Fail
<1>24. QED
  BY <1>1, <1>2, <1>3, <1>4, <1>5, <1>6, <1>7, <1>8, <1>9, <1>10, <1>11, <1>12, <1>13, <1>14, <1>15, <1>16, <1>17, <1>18, <1>19, <1>20, <1>21, <1>22, <1>23 DEF Step

\* A request that has been answered does nothing more.
LEMMA AnsweredStays ==
  ASSUME TypeOK, [Next]_vars, NEW q \in Req, pc[q] \in Answered
  PROVE  /\ pc'[q] = pc[q] /\ who'[q] = who[q] /\ input'[q] = input[q]
         /\ prev'[q] = prev[q] /\ took'[q] = took[q] /\ began'[q] = began[q]
<1>1. CASE UNCHANGED vars
  BY <1>1 DEF vars, localVars
<1>2. CASE NewWindow
  BY <1>2 DEF NewWindow, localVars
<1>3. ASSUME NEW r \in Req, Step(r)
      PROVE  /\ pc'[q] = pc[q] /\ who'[q] = who[q] /\ input'[q] = input[q]
             /\ prev'[q] = prev[q] /\ took'[q] = took[q] /\ began'[q] = began[q]
  <2>1. q # r
    BY <1>3, StepFrame DEF Working, Answered
  <2> QED
    BY <1>3, <2>1, StepOfOneRequest
<1> QED
  BY <1>1, <1>2, <1>3 DEF Next

-----------------------------------------------------------------------------
(* A challenge is used once                                                  *)

LEMMA ChallengeStep ==
  ASSUME TypeOK, Held, ChallengeInv, [Next]_vars
  PROVE  ChallengeInv'
<1> USE DEF ChallengeInv, ChallengeSingleUse
<1>1. CASE UNCHANGED vars
  BY <1>1 DEF vars, localVars, storeVars
<1>2. CASE NewWindow
  BY <1>2 DEF NewWindow, localVars, storeVars
<1>3. ASSUME NEW c \in Req, pc[c] = "issued" PROVE pc'[c] = "issued" /\ who'[c] = who[c]
  BY <1>3, AnsweredStays DEF Answered
<1>4. ASSUME NEW r \in Req, Step(r) PROVE ChallengeInv'
  <2>1. CASE Consume(r)
    <3>1. input[r].challenge \in Req /\ who[r] \in Key /\ pc[r] = "consume"
      BY <2>1 DEF Held, HeldBy, Consume, At, Keyed, Working, BeforeConsume
    <3>2. input' = input /\ challenges' = challenges \ {<<who[r], input[r].challenge>>}
      BY <2>1 DEF Consume
    <3>3. /\ pc'[r] # "idle" /\ \A q \in Req \ {r} : pc'[q] = pc[q] /\ took'[q] = took[q]
          /\ took'[r] = took[r] \/ <<who[r], input[r].challenge>> \in challenges
      <4>1. pc'[r] # "idle" /\ \A q \in Req \ {r} : pc'[q] = pc[q] /\ took'[q] = took[q]
        BY <1>4, StepEdges, StepOfOneRequest
      <4>2. took' = took \/ <<who[r], input[r].challenge>> \in challenges
        BY <2>1, Zenon DEF Consume
      <4> QED
        BY <4>1, <4>2
    <3>4. \A k \in Key, c \in Req :
            <<k, c>> \in challenges' => pc'[c] = "issued" /\ who'[c] = k
      BY <1>3, <3>2
    <3>5. ASSUME NEW q \in Req, took'[q]
          PROVE  /\ pc'[q] # "idle" /\ input'[q].challenge \in Req
                 /\ pc'[input'[q].challenge] = "issued"
                 /\ \A k \in Key : <<k, input'[q].challenge>> \notin challenges'
      BY <1>3, <3>1, <3>2, <3>3, <3>5
    <3>6. ChallengeSingleUse'
      BY <3>1, <3>2, <3>3
    <3> QED
      BY <3>4, <3>5, <3>6
  <2>2. CASE PutChallenge(r)
    <3>1. /\ challenges' = challenges \cup {<<who[r], r>>} /\ pc[r] = "putChallenge"
          /\ UNCHANGED <<took, input, who>> /\ pc'[r] = "issued"
          /\ \A q \in Req \ {r} : pc'[q] = pc[q]
      BY <2>2 DEF PutChallenge, TypeOK, At, Goto, localVars
    <3> QED
      BY <1>3, <3>1
  <2>3. CASE Arrive(r)
    <3>1. /\ challenges' = challenges /\ took' = took /\ pc[r] = "idle"
          /\ \A q \in Req \ {r} : input'[q] = input[q] /\ pc'[q] = pc[q]
      BY <2>3 DEF Arrive, Begin, TypeOK, At, Goto, storeVars
    <3> QED
      BY <1>3, <3>1
  <2>4. CASE challenges' = challenges /\ took' = took /\ input' = input
    <3>1. \A q \in Req : pc[q] # "idle" => pc'[q] # "idle"
      BY <1>4, StepEdges, StepOfOneRequest
    <3> QED
      BY <1>3, <2>4, <3>1
  <2> QED
    BY <1>4, <2>1, <2>2, <2>3, <2>4, StepFrame
<1> QED
  BY <1>1, <1>2, <1>4 DEF Next

-----------------------------------------------------------------------------
(* Tokens                                                                    *)

\* A granted token is never stored again nor pointed at again.
LEMMA GrantedOnlyDies ==
  ASSUME TypeOK, TokenInv, [Next]_vars, NEW t \in Req, pc[t] = "granted"
  PROVE  /\ sessions'[t] = sessions[t] \/ sessions'[t] = None
         /\ \A k \in Key : pointer'[k] = t => pointer[k] = t
<1>1. CASE UNCHANGED vars
  BY <1>1 DEF vars, storeVars
<1>2. CASE NewWindow
  BY <1>2 DEF NewWindow, storeVars
<1>3. ASSUME NEW r \in Req, Step(r)
      PROVE  /\ sessions'[t] = sessions[t] \/ sessions'[t] = None
             /\ \A k \in Key : pointer'[k] = t => pointer[k] = t
  <2>1. r # t
    BY <1>3, StepFrame DEF Working
  <2>2. sessions'[t] = sessions[t] \/ sessions'[t] = None
    <3>1. CASE PutSession(r)
      BY <2>1, <3>1 DEF PutSession, TypeOK
    <3>2. CASE DeletePrevious(r)
      BY <3>2 DEF DeletePrevious, TypeOK
    <3>3. CASE GetSession(r)
      BY <3>3 DEF GetSession, TypeOK
    <3>4. CASE Revoke(r)
      BY <3>4 DEF Revoke, TypeOK
    <3> QED
      BY <1>3, <3>1, <3>2, <3>3, <3>4, StepFrame
  <2>3. \A k \in Key : pointer'[k] = t => pointer[k] = t
    <3>1. CASE SetPointer(r)
      BY <2>1, <3>1 DEF SetPointer, TypeOK
    <3> QED
      BY <1>3, <3>1, StepFrame
  <2> QED
    BY <2>2, <2>3
<1> QED
  BY <1>1, <1>2, <1>3 DEF Next

LEMMA TokenStep ==
  ASSUME TypeOK, Held, TokenInv, [Next]_vars
  PROVE  TokenInv'
<1> USE ConstantsAssumption
<1>1. CASE UNCHANGED vars
  BY <1>1 DEF TokenInv, vars, localVars, storeVars
<1>2. CASE NewWindow
  BY <1>2 DEF TokenInv, NewWindow, localVars, storeVars
<1>3. ASSUME NEW r \in Req, Step(r) PROVE TokenInv'
  <2>1. \A t \in Req : pc[t] = "granted" => pc'[t] = "granted" /\ who'[t] = who[t]
    BY AnsweredStays DEF Answered
  <2>2. \A k \in Key : pointer'[k] # None => pc'[pointer'[k]] = "granted" /\ who'[pointer'[k]] = k
    <3>1. CASE SetPointer(r)
      <4>1. /\ pointer' = [pointer EXCEPT ![who[r]] = r]
            /\ pc'[r] = "granted" /\ who' = who /\ who[r] \in Key
        BY <3>1 DEF SetPointer, TypeOK, Held, HeldBy, At, Goto, localVars, Keyed, Working
      <4> QED
        BY <2>1, <4>1 DEF TokenInv, TypeOK
    <3>2. CASE pointer' = pointer
      BY <2>1, <3>2 DEF TokenInv, TypeOK
    <3> QED
      BY <1>3, <3>1, <3>2, StepFrame
  <2>3. \A q \in Req : prev'[q] # None => pc'[prev'[q]] = "granted"
    <3>1. CASE prev' = prev
      BY <2>1, <3>1 DEF TokenInv, TypeOK
    <3>2. CASE who[r] \in Key /\ prev' = [prev EXCEPT ![r] = pointer[who[r]]]
      <4>1. pointer[who[r]] \in Req \cup {None}
        BY <3>2 DEF TypeOK
      <4>2. pointer[who[r]] # None => pc'[pointer[who[r]]] = "granted"
        BY <2>1, <3>2, <4>1 DEF TokenInv
      <4>3. \A q \in Req : prev[q] # None => pc'[prev[q]] = "granted"
        BY <2>1 DEF TokenInv, TypeOK
      <4> QED
        BY <3>2, <4>2, <4>3 DEF TypeOK
    <3>3. CASE LoginUser(r) \/ ReadUser(r) \/ ConnectUser(r)
      <4>1. who[r] \in Key
        BY <3>3 DEF LoginUser, ReadUser, ConnectUser, Held, HeldBy, At, Keyed, Working
      <4>2. prev' = prev \/ prev' = [prev EXCEPT ![r] = pointer[who[r]]]
        BY <3>3, Zenon DEF LoginUser, ReadUser, ConnectUser
      <4> QED
        BY <3>1, <3>2, <4>1, <4>2
    <3> QED
      BY <1>3, <3>1, <3>3, StepFrame
  <2>4. \A q \in Req : input'[q].token # None => pc'[input'[q].token] = "granted"
    <3>1. \A q \in Req : input[q].token \in Req \cup {None}
      BY DEF TypeOK, Input
    <3>2. CASE Arrive(r)
      <4>1. PICK b \in Inputs, c \in Req \cup {None}, t \in Req \cup {None} : Begin(r, b, c, t)
        BY <3>2 DEF Arrive
      <4>2. input' = [input EXCEPT ![r] = [body |-> b, challenge |-> c, token |-> t]]
        BY <4>1 DEF Begin
      <4>3. input'[r].token = t /\ (t # None => t \in Req /\ pc[t] = "granted")
        BY <4>1, <4>2 DEF Begin, TypeOK
      <4> QED
        BY <2>1, <3>1, <4>2, <4>3 DEF TokenInv, TypeOK
    <3> QED
      BY <1>3, <2>1, <3>1, <3>2, StepFrame DEF TokenInv
  <2>5. /\ \A t \in Req : sessions'[t] # None =>
             sessions'[t] = who'[t] /\ pc'[t] \in {"setPointer", "granted", "failed"}
        /\ \A q \in Req : pc'[q] = "setPointer" => sessions'[q] = who'[q]
    <3>1. \A t \in Req : pc[t] \in {"setPointer", "granted", "failed"} =>
            who'[t] = who[t] /\ pc'[t] \in {"setPointer", "granted", "failed"}
      <4>1. \A t \in Req : pc[t] \in {"granted", "failed"} => pc'[t] = pc[t] /\ who'[t] = who[t]
        BY AnsweredStays DEF Answered
      <4>2. pc[r] = "setPointer" => who'[r] = who[r] /\ pc'[r] \in {"granted", "failed"}
        <5>1. pc[r] = "setPointer" => SetPointer(r) \/ Fail(r)
          BY <1>3, StepEdges
        <5>2. SetPointer(r) => who'[r] = who[r] /\ pc'[r] = "granted"
          BY DEF SetPointer, TypeOK, Goto, localVars
        <5>3. Fail(r) => who'[r] = who[r] /\ pc'[r] = "failed"
          BY DEF Fail, TypeOK, Goto, localVars
        <5> QED
          BY <5>1, <5>2, <5>3
      <4> QED
        BY <1>3, <4>1, <4>2, StepOfOneRequest
    <3>2. CASE PutSession(r)
      <4>1. /\ sessions' = [sessions EXCEPT ![r] = who[r]] /\ who' = who
            /\ pc' = [pc EXCEPT ![r] = "setPointer"]
        BY <3>2 DEF PutSession, Goto, localVars
      <4> QED
        BY <4>1 DEF TokenInv, TypeOK
    <3>3. \A q \in Req : pc'[q] = "setPointer" /\ ~PutSession(r) => pc[q] = "setPointer"
      BY <1>3, StepEdges, StepOfOneRequest
    <3>4. ASSUME NEW u \in Req, pc[u] = "granted", sessions' = [sessions EXCEPT ![u] = None],
                 ~PutSession(r)
          PROVE  <2>5!1 /\ <2>5!2
      BY <3>1, <3>3, <3>4 DEF TokenInv, TypeOK
    <3>5. CASE DeletePrevious(r)
      <4>1. pc[r] = "deletePrevious" /\ sessions' = [sessions EXCEPT ![prev[r]] = None]
        BY <3>5 DEF DeletePrevious, At
      <4>2. prev[r] \in Req /\ prev[r] # None
        BY <4>1 DEF Held, HeldBy
      <4>3. pc[prev[r]] = "granted" /\ ~PutSession(r)
        BY <4>1, <4>2 DEF TokenInv, PutSession, At
      <4> QED
        BY <3>4, <4>1, <4>2, <4>3
    <3>6. CASE Revoke(r)
      <4>1. pc[r] = "revoke" /\ sessions' = [sessions EXCEPT ![input[r].token] = None]
        BY <3>6 DEF Revoke, At
      <4>2. input[r].token \in Req /\ input[r].token # None
        BY <4>1 DEF Held, HeldBy, Verifying
      <4>3. pc[input[r].token] = "granted" /\ ~PutSession(r)
        BY <4>1, <4>2 DEF TokenInv, PutSession, At
      <4> QED
        BY <3>4, <4>1, <4>2, <4>3
    <3>7. CASE sessions' = sessions /\ ~PutSession(r)
      BY <3>1, <3>3, <3>7 DEF TokenInv, TypeOK
    <3>8. CASE GetSession(r)
      BY <3>4, <3>7, <3>8 DEF GetSession, PutSession, At, Held, HeldBy, Verifying, TokenInv
    <3> QED
      BY <1>3, <3>2, <3>5, <3>6, <3>7, <3>8, StepFrame
  <2> QED
    BY <2>2, <2>3, <2>4, <2>5 DEF TokenInv
<1> QED
  BY <1>1, <1>2, <1>3 DEF Next

-----------------------------------------------------------------------------
(* Dead tokens                                                               *)

\* No step revives a granted token.
LEMMA DeadStaysDead ==
  ASSUME TypeOK, TokenInv, [Next]_vars, NEW t \in Req, pc[t] = "granted",
         sessions[t] = None \/ pointer[who[t]] # t
  PROVE  sessions'[t] = None \/ pointer'[who'[t]] # t
<1>1. who'[t] = who[t]
  BY AnsweredStays DEF Answered
<1>2. CASE sessions[t] = None
  BY <1>2, GrantedOnlyDies
<1>3. CASE sessions[t] # None /\ pointer[who[t]] # t
  <2>1. who[t] \in Key
    BY <1>3 DEF TokenInv, TypeOK
  <2> QED
    BY <1>1, <1>3, <2>1, GrantedOnlyDies
<1> QED
  BY <1>2, <1>3

LEMMA DeadStep ==
  ASSUME TypeOK, Held, TokenInv, DeadInv, [Next]_vars
  PROVE  DeadInv'
<1> USE ConstantsAssumption
<1> DEFINE Refused(r) ==
      began[r].dead =>
        /\ pc[r] \in {"getSession", "checkPointer", "ok", "refused", "failed"}
        /\ input[r].token \in Req
        /\ sessions[input[r].token] = None \/ pointer[who[input[r].token]] # input[r].token
        /\ pc[r] = "checkPointer" => pointer[who[r]] # input[r].token
<1>1. \A r \in Req : Refused(r)
  BY DEF DeadInv
<1>2. ASSUME NEW q \in Req, began[q].dead, input'[q].token = input[q].token
      PROVE  \/ sessions'[input'[q].token] = None
             \/ pointer'[who'[input'[q].token]] # input'[q].token
  <2>1. input[q].token \in Req /\ pc[input[q].token] = "granted"
    BY <1>1, <1>2 DEF TokenInv
  <2> QED
    BY <1>1, <1>2, <2>1, DeadStaysDead
<1>3. ASSUME NEW q \in Req, began'[q] = began[q], pc'[q] = pc[q], who'[q] = who[q],
             input'[q] = input[q]
      PROVE  Refused(q)'
  <2>1. SUFFICES ASSUME began[q].dead
                 PROVE  pc[q] = "checkPointer" => pointer'[who[q]] # input[q].token
    BY <1>1, <1>2, <1>3
  <2>2. input[q].token \in Req /\ pc[input[q].token] = "granted"
    BY <1>1, <2>1 DEF TokenInv
  <2>3. pc[q] = "checkPointer" => who[q] \in Key /\ pointer[who[q]] # input[q].token
    BY <1>1, <2>1 DEF Held, HeldBy, Keyed, Working
  <2> QED
    BY <2>2, <2>3, GrantedOnlyDies
<1>4. CASE UNCHANGED vars \/ NewWindow
  BY <1>3, <1>4 DEF DeadInv, vars, NewWindow, localVars
<1>5. ASSUME NEW r \in Req, Step(r) PROVE DeadInv'
  <2>1. \A q \in Req \ {r} : Refused(q)'
    BY <1>3, <1>5, StepOfOneRequest
  <2>2. CASE Arrive(r)
    <3>1. PICK b \in Inputs, c \in Req \cup {None}, t \in Req \cup {None} : Begin(r, b, c, t)
      BY <2>2 DEF Arrive
    <3>2. SUFFICES ASSUME began'[r].dead PROVE Refused(r)'
      BY <2>1 DEF DeadInv
    <3>3. t # None /\ ~Live(t)
      BY <3>1, <3>2 DEF Begin, TypeOK
    <3>4. /\ input'[r].token = t /\ pc'[r] = FirstCall(b) /\ pc[t] = "granted"
          /\ b.kind \in {"logout", "userData", "import"}
          /\ sessions' = sessions /\ pointer' = pointer /\ pc[r] = "idle"
          /\ \A q \in Req \ {r} : who'[q] = who[q]
      BY <3>1, <3>3 DEF Begin, TypeOK, At, Goto, storeVars
    <3>5. pc'[r] = "getSession"
      BY <3>4 DEF FirstCall
    <3>6. t \in Req /\ who'[t] = who[t]
      BY <3>3, <3>4
    <3>7. sessions[t] = None \/ pointer[who[t]] # t
      BY <3>3, <3>6 DEF Live, TokenInv, TypeOK
    <3> QED
      BY <3>4, <3>5, <3>6, <3>7
  <2>3. CASE ~Arrive(r)
    <3>1. SUFFICES ASSUME began[r].dead PROVE Refused(r)'
      BY <1>5, <2>1, <2>3, StepFrame DEF DeadInv
    <3>2. input' = input /\ pc[r] \in {"getSession", "checkPointer"}
      BY <1>1, <1>5, <2>3, <3>1, StepFrame DEF Working
    <3>3. \/ sessions'[input'[r].token] = None
          \/ pointer'[who'[input'[r].token]] # input'[r].token
      BY <1>2, <3>1, <3>2
    <3>4. input[r].token \in Req /\ pc[input[r].token] = "granted"
      BY <1>1, <3>1 DEF TokenInv
    <3>5. CASE GetSession(r)
      <4>1. /\ pc'[r] \in {"checkPointer", "ok", "refused"}
            /\ pc'[r] = "checkPointer" => sessions[input[r].token] = who[r]
            /\ pointer' = pointer /\ who' = who
        BY <3>5 DEF GetSession, Deny, Goto, TypeOK, localVars
      <4>2. who[r] \in Key
        BY <3>2 DEF Held, HeldBy, Keyed, Working
      <4>3. sessions[input[r].token] = who[r] => who[input[r].token] = who[r]
        BY <3>4, <4>2 DEF TokenInv
      <4>4. pc'[r] = "checkPointer" => pointer'[who'[r]] # input'[r].token
        BY <1>1, <3>1, <3>2, <3>4, <4>1, <4>2, <4>3
      <4> QED
        BY <3>2, <3>3, <3>4, <4>1, <4>4
    <3>6. CASE CheckPointer(r)
      <4>1. pointer[who[r]] # input[r].token
        BY <1>1, <3>1, <3>6 DEF CheckPointer, At
      <4>2. pc'[r] \in {"ok", "refused"}
        BY <3>6, <4>1 DEF CheckPointer, Deny, Goto, TypeOK
      <4> QED
        BY <3>2, <3>3, <3>4, <4>2
    <3>7. CASE Fail(r)
      <4>1. pc'[r] = "failed"
        BY <3>7 DEF Fail, Goto, TypeOK
      <4> QED
        BY <3>2, <3>3, <3>4, <4>1
    <3> QED
      BY <1>5, <3>2, <3>5, <3>6, <3>7, StepEdges
  <2> QED
    BY <2>2, <2>3
<1> QED
  BY <1>4, <1>5 DEF Next

-----------------------------------------------------------------------------
(* Initial states                                                            *)

LEMMA InitType == Init => TypeOK
BY ConstantsAssumption
DEF Init, TypeOK, Label, Working, Answered, Input, Body, Blank, BlankBody, Kind, Method,
    Seeds, SeedMinters

LEMMA InitInv == Init => IInv
<1> USE ConstantsAssumption
<1> SUFFICES ASSUME Init PROVE IInv
  OBVIOUS
<1>1. TypeOK
  BY InitType
<1>2. Held
  BY DEF Init, Held, HeldBy, Blank, BlankBody, Keyed, Working, Registering, Verifying,
         BeforeConsume
<1>3. \A r \in Req : pc[r] \in {"idle", "granted", "issued"} /\ input[r].token = None
  BY DEF Init, Blank
<1>4. ChallengeInv
  BY DEF Init, ChallengeInv, ChallengeSingleUse, Seeds, SeedMinters
<1>5. TokenInv
  BY <1>1, <1>3 DEF Init, TokenInv, TypeOK, Seeds, SeedMinters
<1>6. DeadInv
  BY DEF Init, DeadInv
<1> QED
  BY <1>1, <1>2, <1>4, <1>5, <1>6 DEF IInv

\* IInv is inductive.
LEMMA Inductive == Spec => []IInv
<1>1. IInv /\ [Next]_vars => IInv'
  BY TypeStep, HeldStep, ChallengeStep, TokenStep, DeadStep DEF IInv
<1> QED
  BY InitInv, <1>1, PTL DEF Spec

-----------------------------------------------------------------------------
(* Theorems                                                                  *)

\* Every variable keeps its type: no handler dereferences a missing record,
\* email, token or slot.
THEOREM TypeCorrect == Spec => []TypeOK
BY Inductive, PTL DEF IInv

\* consumeChallenge: however many requests present a challenge, one gets past.
THEOREM ChallengesAreSingleUse == Spec => []ChallengeSingleUse
<1>1. IInv => ChallengeSingleUse
  BY DEF IInv, ChallengeInv
<1> QED
  BY Inductive, <1>1, PTL

\* verifySession: a token dead on arrival opens nothing, whatever runs between
\* its two reads.
THEOREM DeadTokensAreRefused == Spec => []DeadTokenRefused
<1>1. IInv => DeadTokenRefused
  BY DEF IInv, DeadInv, DeadTokenRefused
<1> QED
  BY Inductive, <1>1, PTL

-----------------------------------------------------------------------------
(* AuthServer implements SingleSession                                       *)

LEMMA RefineInit == IInv /\ Init => SingleSession!Init
BY ConstantsAssumption DEF IInv, TokenInv, TypeOK, SingleSession!Init, current, granted

\* Only SetPointer grants.
LEMMA GrantedFrame ==
  ASSUME TypeOK, NEW r \in Req, Step(r), ~SetPointer(r)
  PROVE  granted' = granted
<1>1. pc'[r] # "granted" /\ pc[r] # "granted"
  BY StepEdges, StepFrame DEF Working
<1> QED
  BY <1>1, StepOfOneRequest DEF granted

\* Removing a session key ends the session of at most the account it opened.
LEMMA RemovalEnds ==
  ASSUME TypeOK, NEW t \in Req, pointer' = pointer, granted' = granted,
         sessions' = [sessions EXCEPT ![t] = None]
  PROVE  (\E k \in Key : SingleSession!End(k)) \/ UNCHANGED <<current, granted>>
<1> USE ConstantsAssumption DEF current, TypeOK
<1>1. CASE \E k \in Key : pointer[k] = t /\ sessions[t] = k
  <2>1. PICK k \in Key : pointer[k] = t /\ sessions[t] = k
    BY <1>1
  <2>2. current[k] # None
    BY <2>1
  <2>3. current' = [current EXCEPT ![k] = None]
    BY <2>1
  <2> QED
    BY <2>2, <2>3 DEF SingleSession!End
<1>2. CASE ~\E k \in Key : pointer[k] = t /\ sessions[t] = k
  BY <1>2
<1> QED
  BY <1>1, <1>2

LEMMA RefineStep ==
  ASSUME IInv, [Next]_vars
  PROVE  [SingleSession!Next]_<<current, granted>>
<1> USE ConstantsAssumption DEF IInv
<1>1. CASE UNCHANGED vars \/ NewWindow
  BY <1>1 DEF vars, NewWindow, storeVars, current, granted
<1>2. ASSUME NEW r \in Req, Step(r)
      PROVE  [SingleSession!Next]_<<current, granted>>
  <2>1. CASE SetPointer(r)
    <3>1. /\ pointer' = [pointer EXCEPT ![who[r]] = r] /\ sessions' = sessions
          /\ pc' = [pc EXCEPT ![r] = "granted"] /\ pc[r] = "setPointer"
          /\ who[r] \in Key
      BY <2>1 DEF SetPointer, At, Goto, Held, HeldBy, Keyed, Working
    <3>2. sessions[r] = who[r]
      BY <3>1 DEF TokenInv
    <3>3. r \notin granted /\ granted' = granted \cup {r}
      BY <3>1 DEF granted, TypeOK
    <3>4. current' = [current EXCEPT ![who[r]] = r]
      BY <3>1, <3>2 DEF current, TypeOK
    <3> QED
      BY <3>1, <3>3, <3>4 DEF SingleSession!Next, SingleSession!Grant
  <2>2. CASE PutSession(r)
    <3>1. /\ pointer' = pointer /\ sessions' = [sessions EXCEPT ![r] = who[r]]
          /\ pc[r] = "putSession"
      BY <2>2 DEF PutSession, At
    <3>2. \A k \in Key : pointer[k] # r
      BY <3>1 DEF TokenInv
    <3>3. current' = current
      BY <3>1, <3>2 DEF current, TypeOK
    <3>4. granted' = granted
      BY <1>2, <3>1, GrantedFrame DEF SetPointer, At
    <3> QED
      BY <3>3, <3>4
  <2>3. CASE \E t \in Req : sessions' = [sessions EXCEPT ![t] = None] /\ ~SetPointer(r)
    <3>1. pointer' = pointer /\ granted' = granted
      BY <1>2, <2>3, StepFrame, GrantedFrame
    <3> QED
      BY <2>3, <3>1, RemovalEnds DEF SingleSession!Next
  <2>4. CASE sessions' = sessions /\ ~SetPointer(r)
    <3>1. pointer' = pointer /\ granted' = granted
      BY <1>2, <2>4, StepFrame, GrantedFrame
    <3> QED
      BY <2>4, <3>1 DEF current
  <2>5. CASE DeletePrevious(r)
    <3>1. prev[r] \in Req /\ ~SetPointer(r)
      BY <2>5 DEF DeletePrevious, SetPointer, At, Held, HeldBy
    <3> QED
      BY <2>3, <2>5, <3>1 DEF DeletePrevious
  <2>6. CASE GetSession(r) \/ Revoke(r)
    <3>1. input[r].token \in Req /\ ~SetPointer(r)
      BY <2>6 DEF GetSession, Revoke, SetPointer, At, Held, HeldBy, Verifying
    <3>2. \/ sessions' = sessions
          \/ sessions' = [sessions EXCEPT ![input[r].token] = None]
      BY <2>6, Zenon DEF GetSession, Revoke
    <3> QED
      BY <2>3, <2>4, <3>1, <3>2
  <2> QED
    BY <1>2, <2>1, <2>2, <2>4, <2>5, <2>6, StepFrame
<1> QED
  BY <1>1, <1>2 DEF Next

\* The handlers, over the store, keep the promise of SingleSession: one token
\* per account, granted once, never back once it is gone.
THEOREM ServerIsSingleSession == Spec => ImplementsSingleSession
<1>1. IInv /\ Init => SingleSession!Init
  BY RefineInit
<1>2. IInv /\ [Next]_vars => [SingleSession!Next]_<<current, granted>>
  BY RefineStep
<1> QED
  BY Inductive, <1>1, <1>2, PTL DEF Spec, ImplementsSingleSession, SingleSession!Spec
=============================================================================
