--------------------------- MODULE MCSqlRateLimit ---------------------------
(* Three callers at once on a bucket of two attempts per three ticks, with  *)
(* statements up to one tick late.                                          *)
EXTENDS SqlRateLimit, TLC

CONSTANTS r1, r2, r3
MCCaller == {r1, r2, r3}
=============================================================================
