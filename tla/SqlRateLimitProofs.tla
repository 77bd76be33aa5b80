------------------------- MODULE SqlRateLimitProofs -------------------------
(***************************************************************************)
(* SqlRateLimit keeps its inductive invariant and implements WindowLimiter *)
(* with MinWindow = Window - MaxLag, for every set of callers and limits.  *)
(***************************************************************************)
EXTENDS SqlRateLimit, TLAPS

LEMMA InitSqlInv == Init => SqlInv
BY LimitAssumption DEF Init, SqlInv, TypeOK, Counted, Lags, FullWindow, Ages, MinWindow

\* Reading a clock, running a statement, a sweep and time passing keep SqlInv.
LEMMA NextSqlInv == SqlInv /\ [Next]_vars => SqlInv'
<1> SUFFICES ASSUME SqlInv, [Next]_vars PROVE SqlInv'
  OBVIOUS
<1> USE LimitAssumption DEF SqlInv, TypeOK, Counted, Lags, FullWindow, Ages, MinWindow
<1>1. ASSUME NEW r \in Caller, Send(r) PROVE SqlInv'
  BY <1>1 DEF Send
<1>2. ASSUME NEW r \in Caller, Upsert(r) PROVE SqlInv'
  <2>1. lag[r] \in 0 .. MaxLag
    OBVIOUS
  <2>2. CASE count = 0 \/ Expired(r)
    <3>1. count' = 1 /\ left' = Window - lag[r] /\ passed' = 1 /\ age' = 0
      BY <1>2, <2>2 DEF Upsert, NewCount, NewLeft, Fresh
    <3>2. Window - lag[r] \in 1 .. Window /\ Window - lag[r] >= MinWindow
      BY <2>1
    <3>3. TypeOK' /\ Lags'
      BY <1>2, <3>1, <3>2 DEF Upsert
    <3>4. Counted' /\ FullWindow' /\ Ages'
      BY <3>1, <3>2
    <3> QED BY <3>3, <3>4
  <2>3. CASE ~(count = 0 \/ Expired(r))
    BY <1>2, <2>1, <2>3 DEF Upsert, NewCount, NewLeft, More, Expired
  <2> QED BY <2>2, <2>3
<1>3. CASE Sweep
  BY <1>3 DEF Sweep
<1>4. CASE Tick
  BY <1>4 DEF Tick
<1>5. CASE UNCHANGED vars
  BY <1>5 DEF vars
<1> QED
  BY <1>1, <1>2, <1>3, <1>4, <1>5 DEF Next

\* Every reachable state of the bucket satisfies SqlInv.
THEOREM SqlInvariant == Spec => []SqlInv
BY InitSqlInv, NextSqlInv, PTL DEF Spec

\* A step from a state that satisfies SqlInv is a step of the abstract window, or
\* changes nothing it sees.
LEMMA StepImplements == SqlInv /\ [Next]_vars => [Limiter!Next]_<<passed, age>>
<1> SUFFICES ASSUME SqlInv, [Next]_vars
             PROVE  Limiter!Next \/ UNCHANGED <<passed, age>>
  OBVIOUS
<1> USE LimitAssumption DEF SqlInv, TypeOK, Counted, Lags, FullWindow, Ages, MinWindow
<1>1. ASSUME NEW r \in Caller, Upsert(r)
      PROVE  Limiter!Next \/ UNCHANGED <<passed, age>>
  <2>1. lag[r] \in 0 .. MaxLag
    OBVIOUS
  <2>2. CASE count = 0
    <3>1. Limiter!Allow
      BY <1>1, <2>2 DEF Upsert, NewCount, Limiter!Allow
    <3> QED BY <3>1 DEF Limiter!Next
  <2>3. CASE count > 0 /\ Expired(r)
    <3>1. Limiter!Renew
      BY <1>1, <2>1, <2>3 DEF Upsert, NewCount, Expired, Limiter!Renew
    <3> QED BY <3>1 DEF Limiter!Next
  <2>4. CASE count > 0 /\ ~Expired(r) /\ count < MaxAttempts
    <3>1. Limiter!Allow
      BY <1>1, <2>4 DEF Upsert, NewCount, More, Limiter!Allow
    <3> QED BY <3>1 DEF Limiter!Next
  <2>5. CASE count > 0 /\ ~Expired(r) /\ count >= MaxAttempts
    BY <1>1, <2>5 DEF Upsert, NewCount, More
  <2> QED BY <2>2, <2>3, <2>4, <2>5
<1>2. CASE Sweep
  <2>1. Limiter!Close
    BY <1>2 DEF Sweep, Limiter!Close
  <2> QED BY <2>1 DEF Limiter!Next
<1>3. CASE Tick
  <2>1. CASE count = 0
    BY <1>3, <2>1 DEF Tick
  <2>2. CASE count > 0
    <3>1. Limiter!Tick
      BY <1>3, <2>2 DEF Tick, Limiter!Tick
    <3> QED BY <3>1 DEF Limiter!Next
  <2> QED BY <2>1, <2>2
<1>4. ASSUME NEW r \in Caller, Send(r) PROVE UNCHANGED <<passed, age>>
  BY <1>4 DEF Send
<1>5. CASE UNCHANGED vars
  BY <1>5 DEF vars
<1> QED
  BY <1>1, <1>2, <1>3, <1>4, <1>5 DEF Next

\* The SQL bucket implements WindowLimiter: at most MaxAttempts hits per window,
\* and no window reset earlier than MaxLag short of Window.
THEOREM SqlLimits == Spec => ImplementsWindow
<1>1. Init => Limiter!Init
  BY DEF Init, Limiter!Init
<1> QED
  BY <1>1, SqlInvariant, StepImplements, PTL DEF Spec, ImplementsWindow, Limiter!Spec
=============================================================================
