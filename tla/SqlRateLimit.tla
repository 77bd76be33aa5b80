---------------------------- MODULE SqlRateLimit ----------------------------
(***************************************************************************)
(* SqlAuthStore.hitRateLimit (src/src/storage/sql/engine.ts) on one bucket *)
(* of a SQL table: one upsert, atomic in the database, whose CASE starts a *)
(* fresh window on an expired row.  The caller reads its clock before it   *)
(* sends the statement, so statements run in another order than their      *)
(* clocks were read, each up to MaxLag ticks late.  The sweeper of         *)
(* sweepExpired deletes expired rows at any time.                          *)
(***************************************************************************)
EXTENDS Integers

CONSTANTS
  Caller,       \* concurrent requests charging the bucket
  MaxAttempts,  \* config.rateLimit.maxAttempts
  Window,       \* config.rateLimit.windowSeconds, in ticks
  MaxLag        \* the longest a statement runs behind the clock it carries

ASSUME LimitAssumption ==
  /\ MaxAttempts \in Nat \ {0} /\ Window \in Nat \ {0}
  /\ MaxLag \in Nat /\ MaxLag < Window

\* Statements run up to MaxLag late, so a window is at least this long.
MinWindow == Window - MaxLag

VARIABLES
  count,   \* the row's count, 0: no row; past MaxAttempts + 1 it is not told apart
  left,    \* the row's expires_at, relative to the present, down to -MaxLag
  pc,      \* "idle", or "sent": now() is read, the statement has yet to run
  lag,     \* lag[r]: how long ago r read its clock
  passed,  \* history: hits allowed in the open window
  age      \* history: ticks since it opened, up to MinWindow

vars == <<count, left, pc, lag, passed, age>>

TypeOK ==
  /\ count \in 0 .. MaxAttempts + 1
  /\ left \in -MaxLag .. Window
  /\ pc \in [Caller -> {"idle", "sent"}]
  /\ lag \in [Caller -> 0 .. MaxLag]
  /\ passed \in 0 .. MaxAttempts
  /\ age \in 0 .. MinWindow

Init ==
  /\ count = 0 /\ left = 0
  /\ pc = [r \in Caller |-> "idle"] /\ lag = [r \in Caller |-> 0]
  /\ passed = 0 /\ age = 0

\* now = this.now(), and fresh = now + windowSeconds computed from it.
Send(r) ==
  /\ pc[r] = "idle"
  /\ pc' = [pc EXCEPT ![r] = "sent"]
  /\ lag' = [lag EXCEPT ![r] = 0]
  /\ UNCHANGED <<count, left, passed, age>>

\* The CASE conditions, expires_at <= now, on the row as it is when it runs.
Expired(r) == left <= -lag[r]
Fresh(r) == Window - lag[r]

\* The two assignments of the upsert: the count, and the expiry the row keeps.
More == IF count > MaxAttempts THEN count ELSE count + 1

\* Mutant of NewCount: no CASE; or on MySQL, which assigns left to right, the
\* expiry is assigned first and the CASE of the count finds it fresh.
NewCountResumed(r) == IF count = 0 THEN 1 ELSE More

NewCount(r) == IF count = 0 \/ Expired(r) THEN 1 ELSE More

\* Mutant of NewLeft: only an INSERT sets expires_at, an expired row keeps its own.
NewLeftKept(r) == IF count = 0 THEN Fresh(r) ELSE left

NewLeft(r) == IF count = 0 \/ Expired(r) THEN Fresh(r) ELSE left

Upsert(r) ==
  /\ pc[r] = "sent"
  /\ pc' = [pc EXCEPT ![r] = "idle"]
  /\ lag' = [lag EXCEPT ![r] = 0]
  /\ count' = NewCount(r)
  /\ left' = NewLeft(r)
  /\ passed' = IF count' = 1 THEN 1
               ELSE IF count' <= MaxAttempts THEN passed + 1 ELSE passed
  /\ age' = IF count' = 1 THEN 0 ELSE age

\* deleteExpiredLimited: the row, if it expired by the sweeper's clock.
Sweep ==
  /\ count > 0 /\ left <= 0
  /\ count' = 0 /\ left' = 0 /\ passed' = 0 /\ age' = 0
  /\ UNCHANGED <<pc, lag>>

\* Time passes; no statement runs later than MaxLag after its clock was read.
Tick ==
  /\ \A r \in Caller : pc[r] = "sent" => lag[r] < MaxLag
  /\ lag' = [r \in Caller |-> IF pc[r] = "sent" THEN lag[r] + 1 ELSE 0]
  /\ left' = IF count = 0 \/ left = -MaxLag THEN left ELSE left - 1
  /\ age' = IF count = 0 \/ age = MinWindow THEN age ELSE age + 1
  /\ UNCHANGED <<count, pc, passed>>

Next == Tick \/ Sweep \/ \E r \in Caller : Send(r) \/ Upsert(r)

\* Time does not stop and a statement that was sent runs.
Fairness == WF_vars(Tick) /\ \A r \in Caller : WF_vars(Upsert(r))

Spec == Init /\ [][Next]_vars /\ Fairness

-----------------------------------------------------------------------------
(* Properties                                                               *)

\* With clocks read up to MaxLag before the statement runs, no window lets more
\* than MaxAttempts hits through, and none is reset, by an upsert that finds it
\* expired or by the sweeper, before Window - MaxLag has passed.
Limiter == INSTANCE WindowLimiter
ImplementsWindow == Limiter!Spec

\* The inductive invariant behind it: the hits let through are those counted,
\* and a row that a caller could find expired belongs to a window that is over.
Counted == passed = IF count < MaxAttempts THEN count ELSE MaxAttempts
Lags == \A r \in Caller : pc[r] = "idle" => lag[r] = 0
FullWindow == count > 0 /\ left <= 0 => age = MinWindow
Ages == count > 0 /\ left > 0 => age + left >= MinWindow
SqlInv == TypeOK /\ Counted /\ Lags /\ FullWindow /\ Ages

\* An expired row is never resumed: under traffic that never lets up, with or
\* without a sweeper, the bucket lets a hit through again and again.
SustainedTraffic == \A r \in Caller : WF_vars(Send(r))
Drains ==
  SustainedTraffic => []<><<\E r \in Caller : Upsert(r) /\ count' <= MaxAttempts>>_vars
=============================================================================
