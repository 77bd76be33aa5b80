------------------------- MODULE KvRateLimitProofs --------------------------
(***************************************************************************)
(* KvRateLimit keeps its inductive invariant and implements WindowLimiter, *)
(* for every set of callers, limit, window and number of lost EXPIREs.     *)
(***************************************************************************)
EXTENDS KvRateLimit, TLAPS

LEMMA InitKvInv == Init => KvInv
BY LimitAssumption DEF Init, KvInv, TypeOK, Counted, FullWindow

\* One step of any caller, of time, or the loss of an EXPIRE keeps KvInv.
LEMMA NextKvInv == KvInv /\ [Next]_vars => KvInv'
<1> SUFFICES ASSUME KvInv, [Next]_vars PROVE KvInv'
  OBVIOUS
<1> USE LimitAssumption DEF KvInv, TypeOK, Counted, FullWindow
<1>1. ASSUME NEW r \in Caller, Hit(r) PROVE KvInv'
  BY <1>1 DEF Hit, Incremented, Allowed
<1>2. CASE Tick
  BY <1>2 DEF Tick
<1>3. ASSUME NEW r \in Caller, Stamp(r) PROVE KvInv'
  BY <1>3 DEF Stamp
<1>4. ASSUME NEW r \in Caller, Lose(r) PROVE KvInv'
  BY <1>4 DEF Lose
<1>5. CASE UNCHANGED vars
  BY <1>5 DEF vars
<1> QED
  BY <1>1, <1>2, <1>3, <1>4, <1>5 DEF Next, SomeHit

\* Every reachable state of the bucket satisfies KvInv.
THEOREM KvInvariant == Spec => []KvInv
BY InitKvInv, NextKvInv, PTL DEF Spec

\* Every step keeps the account of the EXPIREs a key without a TTL is owed.
LEMMA NextOwed == KvInv /\ Owed /\ [Next]_vars => Owed'
<1> SUFFICES ASSUME KvInv, Owed, [Next]_vars PROVE Owed'
  OBVIOUS
<1> USE LimitAssumption DEF KvInv, TypeOK, FullWindow, Owed, Pending
<1>1. ASSUME NEW r \in Caller, Hit(r) PROVE Owed'
  <2>1. /\ pc[r] = "idle" /\ ttl' = ttl /\ lost' = lost /\ count' = Incremented
        /\ \A q \in Caller \ {r} : pc'[q] = pc[q]
        /\ count' \in {1, MaxAttempts + 1} => pc'[r] = "stamp"
    BY <1>1 DEF Hit, Stamps
  <2>2. \A q \in Caller : Pending(q) => q # r /\ Pending(q)'
    BY <2>1
  <2>3. CASE count = 0
    BY <2>1, <2>3 DEF Incremented
  <2>4. CASE count = MaxAttempts
    BY <2>1, <2>2, <2>4 DEF Incremented
  <2>5. CASE count > 0 /\ count # MaxAttempts
    BY <2>1, <2>2, <2>5 DEF Incremented
  <2> QED
    BY <2>3, <2>4, <2>5
<1>2. CASE Tick
  BY <1>2 DEF Tick
<1>3. ASSUME NEW r \in Caller, Stamp(r) PROVE Owed'
  BY <1>3 DEF Stamp
<1>4. ASSUME NEW r \in Caller, Lose(r) PROVE Owed'
  <2>1. /\ lost' = lost + 1 /\ count' = count /\ ttl' = ttl
        /\ \A q \in Caller \ {r} : Pending(q) => Pending(q)'
    BY <1>4 DEF Lose
  <2> QED
    BY <2>1
<1>5. CASE UNCHANGED vars
  BY <1>5 DEF vars
<1> QED
  BY <1>1, <1>2, <1>3, <1>4, <1>5 DEF Next, SomeHit

\* A bucket that stays past its cap without a TTL has lost two EXPIREs, however
\* many callers race and whatever EXPIRE comes late.
THEOREM LockoutCause == Spec => []LockoutTakesTwoLosses
<1>1. Init => Owed
  BY LimitAssumption DEF Init, Owed
<1>2. Owed => LockoutTakesTwoLosses
  BY DEF Owed, Pending, LockoutTakesTwoLosses
<1> QED
  BY <1>1, <1>2, KvInvariant, NextOwed, PTL DEF Spec

\* A step from a state that satisfies KvInv is a step of the abstract window, or
\* changes nothing it sees.
LEMMA StepImplements == KvInv /\ [Next]_vars => [Limiter!Next]_<<passed, age>>
<1> SUFFICES ASSUME KvInv, [Next]_vars
             PROVE  Limiter!Next \/ UNCHANGED <<passed, age>>
  OBVIOUS
<1> USE LimitAssumption DEF KvInv, TypeOK, Counted, FullWindow
<1>1. ASSUME NEW r \in Caller, Hit(r)
      PROVE  Limiter!Next \/ UNCHANGED <<passed, age>>
  <2>1. CASE count < MaxAttempts
    <3>1. Limiter!Allow
      BY <1>1, <2>1 DEF Hit, Incremented, Allowed, Limiter!Allow
    <3> QED BY <3>1 DEF Limiter!Next
  <2>2. CASE ~(count < MaxAttempts)
    BY <1>1, <2>2 DEF Hit, Incremented, Allowed
  <2> QED BY <2>1, <2>2
<1>2. CASE Tick
  <2>1. Limiter!Tick
    BY <1>2 DEF Tick, Limiter!Tick
  <2> QED BY <2>1 DEF Limiter!Next
<1>3. ASSUME NEW r \in Caller, Stamp(r) \/ Lose(r) PROVE UNCHANGED <<passed, age>>
  BY <1>3 DEF Stamp, Lose
<1>4. CASE UNCHANGED vars
  BY <1>4 DEF vars
<1> QED
  BY <1>1, <1>2, <1>3, <1>4 DEF Next, SomeHit

\* The Redis-like bucket implements WindowLimiter: at most MaxAttempts hits per
\* window, and windows at least Window long, whatever EXPIRE comes late or never.
THEOREM KvLimits == Spec => ImplementsWindow
<1>1. Init => Limiter!Init
  BY DEF Init, Limiter!Init
<1> QED
  BY <1>1, KvInvariant, StepImplements, PTL DEF Spec, ImplementsWindow, Limiter!Spec
=============================================================================
