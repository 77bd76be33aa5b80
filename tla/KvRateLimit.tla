----------------------------- MODULE KvRateLimit ----------------------------
(***************************************************************************)
(* KvAuthStore.hitRateLimit (src/src/storage/store.ts) on one bucket of a  *)
(* Redis-like store: INCR, and on the first hit and on the first hit past  *)
(* the cap a separate EXPIRE.  The two are two awaited calls, so other     *)
(* callers run in between, the key may expire in between, and the second   *)
(* one may never happen.  Time advances in ticks, Window to a window.      *)
(***************************************************************************)
EXTENDS Naturals

CONSTANTS
  Caller,       \* concurrent requests charging the bucket
  MaxAttempts,  \* config.rateLimit.maxAttempts
  Window,       \* config.rateLimit.windowSeconds, in ticks
  MaxLost       \* bound: expires that never happen (crash, dropped connection)

ASSUME LimitAssumption ==
  MaxAttempts \in Nat \ {0} /\ Window \in Nat \ {0} /\ MaxLost \in Nat

VARIABLES
  count,   \* the counter; 0: no such key; past MaxAttempts + 2 it is not told apart
  ttl,     \* ticks until the key expires; 0: the key carries no TTL
  pc,      \* "idle", or "stamp": the INCR is answered, the EXPIRE not yet sent
  lost,    \* EXPIREs lost so far
  passed,  \* history: hits allowed since the key last appeared
  age      \* history: ticks since then, up to Window

vars == <<count, ttl, pc, lost, passed, age>>

TypeOK ==
  /\ count \in 0 .. MaxAttempts + 2
  /\ ttl \in 0 .. Window
  /\ pc \in [Caller -> {"idle", "stamp"}]
  /\ lost \in 0 .. MaxLost
  /\ passed \in 0 .. MaxAttempts
  /\ age \in 0 .. Window

Init ==
  /\ count = 0 /\ ttl = 0
  /\ pc = [r \in Caller |-> "idle"]
  /\ lost = 0 /\ passed = 0 /\ age = 0

\* INCR: a key that is absent or expired starts from 0, without a TTL.
Incremented == IF count = MaxAttempts + 2 THEN count ELSE count + 1

\* Mutant of Stamps: heal on every hit past the cap.
StampsEveryTime(n) == n = 1 \/ n > MaxAttempts

\* Mutant of Stamps: only the hit that creates the key sets its TTL.
StampsFirstOnly(n) == n = 1

\* The hits that go on to EXPIRE the key: the first one, and the first past the cap.
Stamps(n) == n = 1 \/ n = MaxAttempts + 1

\* Mutant of Allowed: compares the count before this hit.
AllowedBefore(n) == n <= MaxAttempts + 1

Allowed(n) == n <= MaxAttempts

Hit(r) ==
  /\ pc[r] = "idle"
  /\ count' = Incremented
  /\ pc' = [pc EXCEPT ![r] = IF Stamps(count') THEN "stamp" ELSE "idle"]
  /\ passed' = IF Allowed(count') THEN passed + 1 ELSE passed
  /\ age' = IF count = 0 THEN 0 ELSE age
  /\ UNCHANGED <<ttl, lost>>

\* EXPIRE on the key as it is by now; on a key that has gone it does nothing.
Stamp(r) ==
  /\ pc[r] = "stamp"
  /\ pc' = [pc EXCEPT ![r] = "idle"]
  /\ ttl' = IF count = 0 THEN ttl ELSE Window
  /\ UNCHANGED <<count, lost, passed, age>>

\* The process dies, or the call throws, between INCR and EXPIRE.
Lose(r) ==
  /\ pc[r] = "stamp"
  /\ lost < MaxLost
  /\ lost' = lost + 1
  /\ pc' = [pc EXCEPT ![r] = "idle"]
  /\ UNCHANGED <<count, ttl, passed, age>>

\* Time passes for a key that exists; at the end of its TTL it is gone.
Tick ==
  /\ count > 0
  /\ IF ttl = 1
     THEN count' = 0 /\ ttl' = 0 /\ passed' = 0 /\ age' = 0
     ELSE /\ ttl' = IF ttl = 0 THEN 0 ELSE ttl - 1
          /\ age' = IF age < Window THEN age + 1 ELSE age
          /\ UNCHANGED <<count, passed>>
  /\ UNCHANGED <<pc, lost>>

SomeHit == \E r \in Caller : Hit(r)

Next == SomeHit \/ Tick \/ \E r \in Caller : Stamp(r) \/ Lose(r)

\* Time does not stop, and a call that is not lost is eventually sent.
Fairness == WF_vars(Tick) /\ \A r \in Caller : WF_vars(Stamp(r))

Spec == Init /\ [][Next]_vars /\ Fairness

-----------------------------------------------------------------------------
(* Properties                                                               *)

\* However callers interleave and whatever EXPIRE comes late or never, no window
\* lets more than MaxAttempts hits through and none is cut short by a stale
\* EXPIRE or a reset count: the bucket implements WindowLimiter.
Limiter == INSTANCE WindowLimiter WITH MinWindow <- Window
ImplementsWindow == Limiter!Spec

\* The inductive invariant behind it: the hits let through are those counted,
\* and a TTL never ends a window that is younger than Window.
Counted == passed = IF count < MaxAttempts THEN count ELSE MaxAttempts
FullWindow == ttl > 0 => count > 0 /\ age + ttl >= Window
KvInv == TypeOK /\ Counted /\ FullWindow

\* "Once a window elapses, a previously-limited identifier is allowed again",
\* under traffic that never lets up and with one EXPIRE lost: again and again
\* the bucket lets a hit through.
SustainedTraffic == WF_vars(SomeHit)
Drains ==
  SustainedTraffic => []<><<\E r \in Caller : Hit(r) /\ count' <= MaxAttempts>>_vars

\* hitRateLimit's comment: firing on the first hit past the cap heals a counter
\* that was left without a TTL.  So past the cap a key carries one, or an
\* EXPIRE is on its way.
HealedPastCap ==
  count > MaxAttempts => ttl > 0 \/ \E r \in Caller : pc[r] = "stamp"

\* What the healing does achieve, of any number of racing callers and of EXPIREs
\* that come late: nobody is locked out for good unless two of them are lost.
LockoutTakesTwoLosses ==
  count > MaxAttempts /\ ttl = 0 /\ (\A r \in Caller : pc[r] = "idle") => lost >= 2

\* The inductive invariant behind it: a key without a TTL is owed an EXPIRE for
\* its first hit, and another for its first hit past the cap.
Pending(r) == pc[r] = "stamp"
Owed ==
  ttl = 0 =>
    /\ count > 0 => lost >= 1 \/ \E r \in Caller : Pending(r)
    /\ count > MaxAttempts =>
         \/ lost >= 2
         \/ lost >= 1 /\ \E r \in Caller : Pending(r)
         \/ \E r, q \in Caller : r # q /\ Pending(r) /\ Pending(q)
=============================================================================
