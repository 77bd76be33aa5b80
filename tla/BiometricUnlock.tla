-------------------------- MODULE BiometricUnlock ---------------------------
(* The optional unlock by passkey: client/biometricUnlock.ts and its hook    *)
(* react/useBiometricUnlock.ts. The wrapped app key is a blob in IndexedDB;  *)
(* a marker and the registration in localStorage say which credential opens  *)
(* it. Enabling, disabling and unlocking are ceremonies of several awaits,   *)
(* and a logout, in this tab or another, may come between any two.           *)
EXTENDS PageSession

CONSTANTS Cred   \* the credentials registerPasskey may yet create

ASSUME CredAssumption == None \notin Cred

VARIABLES
  marker, reg,  \* MARKER_KEY and REG_KEY: a credential or None
  blob,         \* blob[c]: the account whose key is wrapped under c
  used,         \* the credentials registered so far
  enabling,     \* the enable calls under way
  disabling,    \* the credentials of the disable calls under way
  deleting,     \* the credentials whose blobDelete is under way for a logout
  unlocking,    \* the unlock calls under way: the credential, and whose wallet
                \* the key is tried on (None: it is armed as it is)
  strayMarker   \* history: the blob was another account's when the marker was
                \* set, or a login has replaced its account since

bioVars == <<marker, reg, blob, used, enabling, disabling, deleting, unlocking, strayMarker>>

BioTypeOK ==
  /\ {marker, reg} \subseteq Cred \cup {None}
  /\ blob \in [Cred -> Account \cup {None}]
  /\ used \subseteq Cred /\ disabling \subseteq used
  /\ deleting \subseteq used /\ \A u \in unlocking : u.cred \in used /\ u.wallet \in Account \cup {None}
  /\ \A e \in enabling : e.cred \in used /\ e.key \in Account
  /\ strayMarker \in BOOLEAN

BioInit ==
  /\ marker = None /\ reg = None
  /\ blob = [c \in Cred |-> None]
  /\ used = {} /\ enabling = {} /\ disabling = {} /\ deleting = {} /\ unlocking = {}
  /\ strayMarker = FALSE

\* enableBiometricUnlock reads the key before its two ceremonies.
enable(c) ==
  /\ armed # None /\ c \notin used
  /\ used' = used \cup {c}
  /\ enabling' = enabling \cup {[cred |-> c, key |-> armed]}
  /\ UNCHANGED <<marker, reg, blob, disabling, deleting, unlocking, strayMarker>>

wrapAppKey(e) ==
  /\ blob[e.cred] = None
  /\ blob' = [blob EXCEPT ![e.cred] = e.key]
  /\ UNCHANGED <<marker, reg, used, enabling, disabling, deleting, unlocking, strayMarker>>

\* Mutant of enabled: the marker does not wait for the blob.
EnabledAtOnce(e) ==
  /\ marker' = e.cred /\ reg' = e.cred
  /\ enabling' = enabling \ {e}
  /\ strayMarker' = (stored # e.key)
  /\ UNCHANGED <<blob, used, disabling, deleting, unlocking>>

enabled(e) ==
  /\ blob[e.cred] # None
  /\ marker' = e.cred /\ reg' = e.cred
  /\ enabling' = enabling \ {e}
  /\ strayMarker' = (stored # e.key)
  /\ UNCHANGED <<blob, used, disabling, deleting, unlocking>>

\* A declined ceremony, or an IndexedDB that refuses the blob.
enableFails(e) ==
  /\ blob[e.cred] = None
  /\ enabling' = enabling \ {e}
  /\ UNCHANGED <<marker, reg, blob, used, disabling, deleting, unlocking, strayMarker>>

\* purge: whatever credential the marker names, it is removed first.
disable ==
  /\ reg # None /\ reg \notin disabling
  /\ marker' = None /\ strayMarker' = FALSE
  /\ disabling' = disabling \cup {reg}
  /\ UNCHANGED <<reg, blob, used, enabling, deleting, unlocking>>

\* The registration is cleared once the blob is gone, if it ever is.
disabled(c) ==
  /\ blob' = [blob EXCEPT ![c] = None]
  /\ reg' = None
  /\ disabling' = disabling \ {c}
  /\ UNCHANGED <<marker, used, enabling, deleting, unlocking, strayMarker>>
disableFails(c) ==
  /\ disabling' = disabling \ {c}
  /\ UNCHANGED <<marker, reg, blob, used, enabling, deleting, unlocking, strayMarker>>

\* Mutant of clearHooks: the marker and the blob outlive the session.
HookClearsRegOnly ==
  /\ reg' = None
  /\ UNCHANGED <<marker, blob, used, enabling, disabling, deleting, unlocking, strayMarker>>

\* The two hooks of clearSession: marker, blob (in the background) and reg.
clearHooks ==
  /\ marker' = None /\ reg' = None /\ strayMarker' = FALSE
  /\ deleting' = deleting \cup ({marker} \ {None})
  /\ UNCHANGED <<blob, used, enabling, disabling, unlocking>>

blobDelete(c, ok) ==
  /\ deleting' = deleting \ {c}
  /\ blob' = IF ok THEN [blob EXCEPT ![c] = None] ELSE blob
  /\ UNCHANGED <<marker, reg, used, enabling, disabling, unlocking, strayMarker>>

\* The hook's unlock arms what it unwraps; re-authentication with the same
\* credential tries it on the wallet of the record that is shown.
unlock(wallet) ==
  /\ reg # None /\ wallet \in {None, user}
  /\ unlocking' = unlocking \cup {[cred |-> reg, wallet |-> wallet]}
  /\ loggedOut' = FALSE
  /\ UNCHANGED <<stored, armed, strayKey, ceremonies, signal, publicKey>>
  /\ UNCHANGED <<marker, reg, blob, used, enabling, disabling, deleting, strayMarker>>

\* Without a blob it fails; with one its key is armed, in whatever session.
unlockViaBiometric(u) ==
  /\ unlocking' = unlocking \ {u}
  /\ UNCHANGED <<stored, ceremonies, loggedOut, signal>>
  /\ IF blob[u.cred] # None /\ u.wallet \in {None, blob[u.cred]}
     THEN armAppKey(blob[u.cred]) /\ refresh
     ELSE UNCHANGED <<armed, strayKey, publicKey>>
  /\ UNCHANGED <<marker, reg, blob, used, enabling, disabling, deleting, strayMarker>>

\* A login that finds another account's session in the storage.
Replaces(a) ==
  /\ strayMarker' = (strayMarker \/ (marker # None /\ stored \notin {None, a}))
  /\ UNCHANGED <<marker, reg, blob, used, enabling, disabling, deleting, unlocking>>

(* A device that reports a biometric unlock has a blob to open: the marker   *)
(* is set after the blob is stored and gone before anything deletes it.      *)
EnabledMeansUsable ==
  marker # None => blob[marker] # None /\ marker \notin deleting \cup disabling

(* What the biometric unlock opens is the account signed in, and the key in  *)
(* memory is that account's, up to the news of another tab's logout: a       *)
(* change of session takes both along, whatever is under way. The one way    *)
(* either comes to differ is at the end of the call that sets it (a ceremony *)
(* begun in another session, or with another account's credentials), or by a *)
(* login without a logout; the other of the two, and a later one, still fit. *)
UnlockFitsSession ==
  /\ marker # None /\ ~strayMarker => blob[marker] = stored
  /\ armed # None /\ ~strayKey => armed = stored \/ signal

(* A page that logged out holds no key that a signer would still use, and    *)
(* leaves no descriptor of the session's biometric unlock, until somebody    *)
(* logs in or begins to re-authenticate.                                     *)
LogoutLeavesNothing == loggedOut => armed = None /\ reg = None
=============================================================================
