-------------------------------- MODULE Page --------------------------------
(* One page with every hook of the SDK mounted: AuthProvider, the biometric  *)
(* unlock, the reveal of a key and the Ledger connection. The application    *)
(* calls them in any order, up to MaxCalls times; their awaits are answered  *)
(* in any order and never have to be.                                        *)
EXTENDS BiometricUnlock, RevealKey, SolanaLedger

CONSTANTS MaxCalls   \* bound: the calls the application and other tabs make

VARIABLES calls

account == <<sessionVars, userVars, bioVars>>
vars == <<account, revealVars, ledgerVars, calls>>

TypeOK == SessionTypeOK /\ BioTypeOK /\ RevealTypeOK /\ LedgerTypeOK

Init ==
  /\ SessionInit /\ BioInit /\ RevealInit /\ LedgerInit
  /\ calls = 0

\* React flushes the pending effects before it handles the next event, so the
\* application never calls a hook with one outstanding; other tabs may.
Flushed == effectOf = publicKey

\* Logging in and out, in this page and in another tab: the hooks that
\* clearSession runs belong to the same storage whichever tab runs them.
SessionCall ==
  \/ \E a \in Account : ((Flushed /\ setSession(a)) \/ otherTabLogin(a)) /\ Replaces(a) /\ UNCHANGED userVars
  \/ ((Flushed /\ clearSession) \/ otherTabLogout) /\ clearHooks /\ UNCHANGED userVars
  \/ Flushed /\ (lockVault \/ \E a \in Account : reauthenticate(a)) /\ UNCHANGED <<userVars, bioVars>>
  \/ Flushed /\ refetchUser /\ UNCHANGED <<sessionVars, effectOf, bioVars>>

BioCall ==
  /\ \/ ((\E c \in Cred : enable(c)) \/ disable) /\ UNCHANGED sessionVars
     \/ \E wallet \in {None, user} : unlock(wallet)
  /\ UNCHANGED userVars

SessionEvent ==
  \/ storage /\ UNCHANGED <<userVars, bioVars>>
  \/ (\E c \in ceremonies : reauthenticated(c)) /\ UNCHANGED <<userVars, bioVars>>
  \/ publicKey' = stored /\ UNCHANGED <<stored, armed, strayKey, ceremonies, loggedOut, signal, userVars, bioVars>>
  \/ UserEvent /\ UNCHANGED <<sessionVars, bioVars>>

BioEvent ==
  /\ \/ (\E e \in enabling : wrapAppKey(e) \/ enabled(e) \/ enableFails(e)) /\ UNCHANGED sessionVars
     \/ (\E c \in disabling : disabled(c) \/ disableFails(c)) /\ UNCHANGED sessionVars
     \/ (\E c \in deleting, ok \in BOOLEAN : blobDelete(c, ok)) /\ UNCHANGED sessionVars
     \/ \E u \in unlocking : unlockViaBiometric(u)
  /\ UNCHANGED userVars

Call ==
  /\ calls < MaxCalls /\ calls' = calls + 1
  /\ \/ (SessionCall \/ BioCall) /\ UNCHANGED <<revealVars, ledgerVars>>
     \/ (reveal \/ clear) /\ UNCHANGED <<account, ledgerVars>>
     \/ LedgerCall /\ UNCHANGED <<account, revealVars>>

Event ==
  /\ UNCHANGED calls
  /\ \/ (SessionEvent \/ BioEvent) /\ UNCHANGED <<revealVars, ledgerVars>>
     \/ RevealEvent /\ UNCHANGED <<account, ledgerVars>>
     \/ LedgerEvent /\ UNCHANGED <<account, revealVars>>

Next == Call \/ Event

Spec == Init /\ [][Next]_vars
=============================================================================
