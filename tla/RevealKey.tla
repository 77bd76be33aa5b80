----------------------------- MODULE RevealKey ------------------------------
(* react/useExportKey.ts: each reveal is a ceremony that ends in a plaintext *)
(* held in React state until it is cleared, by hand or by the timer the      *)
(* plaintext starts. Reveals are numbered so that a late one can tell that   *)
(* it was overtaken.                                                         *)
EXTENDS Naturals

VARIABLES
  revealSeq,
  reveals,       \* the numbers of the reveals under way
  plaintext,     \* the reveal whose secret is shown, 0 for none
  revealLoading,
  clearedAt      \* history: revealSeq at the last clear or auto-clear

revealVars == <<revealSeq, reveals, plaintext, revealLoading, clearedAt>>

RevealTypeOK ==
  /\ revealSeq \in Nat /\ reveals \subseteq 1..revealSeq
  /\ plaintext \in 0..revealSeq /\ clearedAt \in 0..revealSeq
  /\ revealLoading \in BOOLEAN

RevealInit ==
  /\ revealSeq = 0 /\ reveals = {} /\ plaintext = 0
  /\ revealLoading = FALSE /\ clearedAt = 0

reveal ==
  /\ revealSeq' = revealSeq + 1
  /\ reveals' = reveals \cup {revealSeq'}
  /\ revealLoading' = TRUE
  /\ UNCHANGED <<plaintext, clearedAt>>

\* Mutant of revealed: the secret is shown whoever was overtaken.
RevealedLate(n, ok) ==
  /\ reveals' = reveals \ {n}
  /\ plaintext' = IF ok THEN n ELSE plaintext
  /\ revealLoading' = IF n = revealSeq THEN FALSE ELSE revealLoading
  /\ UNCHANGED <<revealSeq, clearedAt>>

revealed(n, ok) ==
  /\ reveals' = reveals \ {n}
  /\ IF n = revealSeq
     THEN plaintext' = (IF ok THEN n ELSE plaintext) /\ revealLoading' = FALSE
     ELSE UNCHANGED <<plaintext, revealLoading>>
  /\ UNCHANGED <<revealSeq, clearedAt>>

clear ==
  /\ revealSeq' = revealSeq + 1
  /\ plaintext' = 0
  /\ clearedAt' = revealSeq'
  /\ UNCHANGED <<reveals, revealLoading>>

\* The timer the plaintext started: it also overtakes a reveal under way.
autoClear == plaintext # 0 /\ clear

RevealEvent ==
  \/ \E n \in reveals, ok \in BOOLEAN : revealed(n, ok)
  \/ autoClear

(* Cleared stays cleared: a secret on screen was asked for after the last    *)
(* clear, and a hook that reports a reveal under way has one, or was cleared *)
(* during its newest one, whose end it then no longer notices.               *)
ClearedStaysCleared ==
  /\ plaintext # 0 => plaintext > clearedAt
  /\ revealLoading => revealSeq \in reveals \/ revealSeq = clearedAt
=============================================================================
