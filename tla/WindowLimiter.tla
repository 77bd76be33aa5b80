---------------------------- MODULE WindowLimiter ---------------------------
(***************************************************************************)
(* What AuthStore.hitRateLimit promises of one bucket                      *)
(* (src/src/storage/store.ts), whichever backend implements it: a window   *)
(* opens with an allowed hit, lets at most MaxAttempts hits through, and   *)
(* is not over before MinWindow has passed since it opened.                *)
(***************************************************************************)
EXTENDS Naturals

CONSTANTS MaxAttempts, MinWindow

VARIABLES
  passed,  \* hits allowed in the open window; 0 when none is open
  age      \* time since it opened, counted up to MinWindow

Init == passed = 0 /\ age = 0

Allow ==
  /\ passed < MaxAttempts
  /\ passed' = passed + 1
  /\ age' = IF passed = 0 THEN 0 ELSE age

\* Time passes; a window that has lasted long enough may end with it.
Tick ==
  /\ passed > 0
  /\ \/ passed' = passed /\ age' = IF age < MinWindow THEN age + 1 ELSE age
     \/ age + 1 >= MinWindow /\ passed' = 0 /\ age' = 0

\* A window that is over is dropped, or replaced by a hit that opens another.
Close == age >= MinWindow /\ passed' = 0 /\ age' = 0
Renew == age >= MinWindow /\ passed' = 1 /\ age' = 0

Next == Allow \/ Tick \/ Close \/ Renew

Spec == Init /\ [][Next]_<<passed, age>>
=============================================================================
