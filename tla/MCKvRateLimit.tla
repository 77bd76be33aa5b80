---------------------------- MODULE MCKvRateLimit ---------------------------
(* Three callers at once on a bucket of two attempts per three ticks.       *)
EXTENDS KvRateLimit, TLC

CONSTANTS r1, r2, r3
MCCaller == {r1, r2, r3}
=============================================================================
