----------------------------- MODULE PageProofs -----------------------------
(* Every invariant of Page that a run checks, for any number of accounts,    *)
(* credentials, devices and calls. The hooks share little, so each has its   *)
(* own inductive invariant; the biometric one looks at the session too.      *)
EXTENDS Page, TLAPS

-----------------------------------------------------------------------------
(* AuthProvider.                                                             *)

\* The newest fetch asks for the account of the effect, unless it is astray;
\* with none under way the record is that account's.
UserFits ==
  /\ \A f \in fetches : f.seq = fetchSeq => f.astray \/ f.of = effectOf
  /\ (\A f \in fetches : f.seq # fetchSeq) => ~userLoading /\ (astray \/ user = effectOf)

SessionInv == SessionTypeOK /\ UserFits

LEMMA SessionInitially == Init => SessionInv
<1> SUFFICES ASSUME Init PROVE SessionInv
  OBVIOUS
<1>1. SessionTypeOK
  BY DEF Init, SessionInit, SessionTypeOK
<1>2. UserFits
  BY DEF Init, SessionInit, UserFits
<1> QED  BY <1>1, <1>2 DEF SessionInv

LEMMA RefetchStep ==
  ASSUME SessionInv, refetchUser, publicKey = effectOf', UNCHANGED sessionVars
  PROVE  SessionInv'
<1> DEFINE n == [seq |-> fetchSeq + 1, of |-> stored, astray |-> stored # publicKey]
<1>1. /\ fetchSeq' = fetchSeq + 1 /\ fetches' = fetches \cup {n} /\ userLoading' = TRUE
      /\ UNCHANGED <<user, astray>>
  BY DEF refetchUser
<1>2. /\ n.seq = fetchSeq' /\ n.of = stored /\ (n.astray \/ n.of = effectOf')
  BY <1>1
<1>3. \A f \in fetches : f.seq \in 1..fetchSeq' /\ f.seq # fetchSeq'
  BY <1>1 DEF SessionInv, SessionTypeOK
<1> HIDE DEF n
<1>4. SessionTypeOK'
  <2>1. fetchSeq \in Nat /\ fetchSeq' \in Nat /\ n.seq \in 1..fetchSeq'
    BY <1>1, <1>2 DEF SessionInv, SessionTypeOK
  <2>2. \A f, g \in fetches' : f.seq = g.seq => f = g
    BY <1>1, <1>2, <1>3 DEF SessionInv, SessionTypeOK
  <2> QED  BY <1>1, <1>2, <1>3, <2>1, <2>2 DEF SessionInv, SessionTypeOK, sessionVars
<1>5. UserFits'
  BY <1>1, <1>2, <1>3 DEF UserFits
<1> QED  BY <1>4, <1>5 DEF SessionInv

LEMMA UserStep ==
  ASSUME SessionInv, UserEvent, UNCHANGED sessionVars
  PROVE  SessionInv'
<1>1. CASE effect /\ publicKey # None
  <2>1. refetchUser /\ publicKey = effectOf'
    BY <1>1 DEF effect
  <2> QED  BY <2>1, RefetchStep
<1>2. CASE effect /\ publicKey = None
  <2>1. /\ fetchSeq' = fetchSeq + 1 /\ user' = None /\ effectOf' = None
        /\ userLoading' = FALSE /\ astray' = FALSE /\ fetches' = fetches
    BY <1>2 DEF effect
  <2>2. \A f \in fetches : f.seq \in 1..fetchSeq' /\ f.seq # fetchSeq'
    BY <2>1 DEF SessionInv, SessionTypeOK
  <2>3. fetchSeq' \in Nat
    BY <2>1 DEF SessionInv, SessionTypeOK
  <2>4. SessionTypeOK'
    BY <2>1, <2>2, <2>3 DEF SessionInv, SessionTypeOK, sessionVars
  <2>5. UserFits'
    BY <2>1, <2>2 DEF UserFits
  <2> QED  BY <2>4, <2>5 DEF SessionInv
<1>3. ASSUME NEW f \in fetches, NEW who \in {f.of, None}, fetched(f, who)
      PROVE  SessionInv'
  <2>1. who \in Account \cup {None}
    BY <1>3 DEF SessionInv, SessionTypeOK
  <2>2. SessionTypeOK'
    BY <1>3, <2>1 DEF fetched, SessionInv, SessionTypeOK, sessionVars
  <2>3. UserFits'
    <3>1. CASE f.seq = fetchSeq
      BY <1>3, <3>1 DEF fetched, SessionInv, SessionTypeOK, UserFits
    <3>2. CASE f.seq # fetchSeq
      BY <1>3, <3>2 DEF fetched, SessionInv, SessionTypeOK, UserFits
    <3> QED  BY <3>1, <3>2
  <2> QED  BY <2>2, <2>3 DEF SessionInv
<1>4. ASSUME NEW f \in fetches, fetchFails(f)
      PROVE  SessionInv'
  <2>1. SessionTypeOK'
    BY <1>4 DEF fetchFails, SessionInv, SessionTypeOK, sessionVars
  <2>2. UserFits'
    <3>1. CASE f.seq = fetchSeq
      BY <1>4, <3>1 DEF fetchFails, SessionInv, SessionTypeOK, UserFits
    <3>2. CASE f.seq # fetchSeq
      BY <1>4, <3>2 DEF fetchFails, SessionInv, SessionTypeOK, UserFits
    <3> QED  BY <3>1, <3>2
  <2> QED  BY <2>1, <2>2 DEF SessionInv
<1> QED  BY <1>1, <1>2, <1>3, <1>4 DEF UserEvent

SessionMoved ==
  /\ {stored, armed, publicKey} \subseteq Account \cup {None}
  /\ {signal, strayKey, loggedOut} \subseteq BOOLEAN
  /\ ceremonies \subseteq [key : Account, wallet : Account \cup {None}]

\* Whatever moves only the session leaves the user's record to its effect.
LEMMA MovesSession ==
  ASSUME SessionInv, UNCHANGED userVars, SessionMoved'
  PROVE  SessionInv'
<1>1. UserFits'
  BY DEF SessionInv, UserFits, userVars
<1>2. SessionTypeOK'
  BY DEF SessionInv, SessionTypeOK, SessionMoved, userVars
<1> QED  BY <1>1, <1>2 DEF SessionInv

-----------------------------------------------------------------------------
(* The biometric unlock.                                                     *)

\* A credential being enabled is known to nobody else yet, and what is under
\* it is the key that was read; one never used has nothing under it.
EnablingFits ==
  /\ {marker, reg} \subseteq used \cup {None}
  /\ \A c \in Cred \ used : blob[c] = None
  /\ \A e \in enabling :
       /\ e.cred \notin {marker, reg} \cup deleting \cup disabling
       /\ blob[e.cred] \in {None, e.key}
  /\ \A e, f \in enabling : e.cred = f.cred => e = f

BioInv == BioTypeOK /\ EnablingFits /\ EnabledMeansUsable

Inv == SessionInv /\ BioInv /\ UnlockFitsSession

LEMMA BioInitially == Init => BioInv /\ UnlockFitsSession
<1> SUFFICES ASSUME Init PROVE BioInv /\ UnlockFitsSession
  OBVIOUS
<1>1. BioTypeOK
  BY DEF Init, BioInit, BioTypeOK
<1>2. EnablingFits /\ EnabledMeansUsable
  BY DEF Init, BioInit, EnablingFits, EnabledMeansUsable
<1>3. UnlockFitsSession
  BY DEF Init, SessionInit, BioInit, UnlockFitsSession
<1> QED  BY <1>1, <1>2, <1>3 DEF BioInv

LEMMA BioUnchanged ==
  ASSUME BioInv, UNCHANGED <<marker, reg, blob, used, enabling, disabling, deleting>>,
         \A u \in unlocking' : u.cred \in used /\ u.wallet \in Account \cup {None},
         strayMarker' \in BOOLEAN
  PROVE  BioInv'
<1>1. BioTypeOK'
  BY DEF BioInv, BioTypeOK
<1>2. EnablingFits'
  BY DEF BioInv, EnablingFits
<1>3. EnabledMeansUsable'
  BY DEF BioInv, EnabledMeansUsable
<1> QED  BY <1>1, <1>2, <1>3 DEF BioInv

\* Logging in and out.
LEMMA SessionCallStep ==
  ASSUME Inv, SessionCall
  PROVE  Inv'
<1>1. ASSUME NEW x \in Account, setSession(x) \/ otherTabLogin(x), Replaces(x), UNCHANGED userVars
      PROVE  Inv'
  <2>1. SessionInv'
    <3>1. SessionMoved'
      BY <1>1 DEF setSession, otherTabLogin, armAppKey, refresh, Inv, SessionInv, SessionTypeOK, SessionMoved
    <3> QED  BY <1>1, <3>1, MovesSession DEF Inv
  <2>2. BioInv'
    BY <1>1, BioUnchanged DEF Replaces, Inv, BioInv, BioTypeOK
  <2>3. ASSUME marker # None, ~strayMarker' PROVE blob[marker] = x
    <3>1. ~strayMarker /\ stored \in {None, x}
      BY <2>3, <1>1 DEF Replaces, Inv, BioInv, BioTypeOK
    <3>2. blob[marker] # None /\ blob[marker] = stored
      BY <2>3, <3>1 DEF Inv, BioInv, EnabledMeansUsable, UnlockFitsSession
    <3> QED  BY <3>1, <3>2
  <2>4. CASE setSession(x)
    BY <1>1, <2>1, <2>2, <2>3, <2>4 DEF setSession, armAppKey, Replaces, Inv, UnlockFitsSession
  <2>5. CASE otherTabLogin(x)
    <3>1. ASSUME armed # None, ~strayKey' PROVE armed = x \/ signal
      <4>1. ~strayKey /\ stored \in {None, x}
        BY <2>5, <3>1 DEF otherTabLogin, Inv, SessionInv, SessionTypeOK
      <4> QED  BY <3>1, <4>1 DEF Inv, UnlockFitsSession
    <3> QED  BY <1>1, <2>1, <2>2, <2>3, <2>5, <3>1 DEF otherTabLogin, Replaces, Inv, UnlockFitsSession
  <2> QED  BY <1>1, <2>1, <2>2, <2>4, <2>5 DEF Inv
<1>2. CASE (clearSession \/ otherTabLogout) /\ clearHooks /\ UNCHANGED userVars
  <2>1. SessionInv'
    <3>1. SessionMoved'
      BY <1>2 DEF clearSession, dropKey, otherTabLogout, refresh, Inv, SessionInv, SessionTypeOK, SessionMoved
    <3> QED  BY <1>2, <3>1, MovesSession DEF Inv
  <2>2. BioInv'
    <3>1. BioTypeOK'
      BY <1>2 DEF clearHooks, Inv, BioInv, BioTypeOK, EnablingFits
    <3>2. EnablingFits'
      BY <1>2, CredAssumption DEF clearHooks, Inv, BioInv, BioTypeOK, EnablingFits
    <3>3. EnabledMeansUsable'
      BY <1>2 DEF clearHooks, EnabledMeansUsable
    <3> QED  BY <3>1, <3>2, <3>3 DEF BioInv
  <2>3. UnlockFitsSession'
    BY <1>2 DEF clearSession, dropKey, otherTabLogout, clearHooks, UnlockFitsSession
  <2> QED  BY <2>1, <2>2, <2>3 DEF Inv
<1>3. ASSUME lockVault \/ \E a \in Account : reauthenticate(a), UNCHANGED <<userVars, bioVars>>
      PROVE  Inv'
  <2>1. SessionInv'
    <3>1. ASSUME NEW a \in Account, reauthenticate(a) PROVE SessionMoved'
      <4>1. [key |-> a, wallet |-> user] \in [key : Account, wallet : Account \cup {None}]
        BY DEF Inv, SessionInv, SessionTypeOK
      <4>2. ceremonies' \subseteq [key : Account, wallet : Account \cup {None}]
        BY <3>1, <4>1 DEF reauthenticate, Inv, SessionInv, SessionTypeOK
      <4> QED  BY <3>1, <4>2 DEF reauthenticate, Inv, SessionInv, SessionTypeOK, SessionMoved
    <3>2. ASSUME lockVault PROVE SessionMoved'
      BY <3>2 DEF lockVault, dropKey, refresh, Inv, SessionInv, SessionTypeOK, SessionMoved
    <3> QED  BY <1>3, <3>1, <3>2, MovesSession DEF Inv
  <2>2. BioInv'
    BY <1>3, BioUnchanged DEF bioVars, Inv, BioInv, BioTypeOK
  <2>3. UnlockFitsSession'
    BY <1>3 DEF lockVault, dropKey, reauthenticate, bioVars, Inv, UnlockFitsSession
  <2> QED  BY <2>1, <2>2, <2>3 DEF Inv
<1>4. CASE Flushed /\ refetchUser /\ UNCHANGED <<sessionVars, effectOf, bioVars>>
  <2>1. SessionInv'
    BY <1>4, RefetchStep DEF Flushed, Inv
  <2>2. BioInv' /\ UnlockFitsSession'
    BY <1>4, BioUnchanged DEF bioVars, sessionVars, Inv, BioInv, BioTypeOK, UnlockFitsSession
  <2> QED  BY <2>1, <2>2 DEF Inv
<1> QED  BY <1>1, <1>2, <1>3, <1>4 DEF SessionCall

\* A key armed, and the session refreshed, at the end of a ceremony.
LEMMA ArmingStep ==
  ASSUME Inv, NEW a \in Account,
         (armAppKey(a) /\ refresh) \/ UNCHANGED <<armed, strayKey, publicKey>>,
         UNCHANGED <<stored, loggedOut, signal, userVars, marker, blob, strayMarker>>,
         ceremonies' \subseteq ceremonies
  PROVE  SessionInv' /\ UnlockFitsSession'
<1>1. SessionMoved'
  BY DEF armAppKey, refresh, Inv, SessionInv, SessionTypeOK, SessionMoved
<1>2. SessionInv'
  BY <1>1, MovesSession DEF Inv
<1>3. UnlockFitsSession'
  BY DEF armAppKey, Inv, UnlockFitsSession
<1> QED  BY <1>2, <1>3

LEMMA SessionEventStep ==
  ASSUME Inv, SessionEvent
  PROVE  Inv'
<1>1. CASE storage /\ UNCHANGED <<userVars, bioVars>>
  <2>1. SessionMoved'
    BY <1>1 DEF storage, dropKey, refresh, Inv, SessionInv, SessionTypeOK, SessionMoved
  <2>2. SessionInv'
    BY <1>1, <2>1, MovesSession DEF Inv
  <2>3. BioInv'
    BY <1>1, BioUnchanged DEF bioVars, Inv, BioInv, BioTypeOK
  <2>4. UnlockFitsSession'
    BY <1>1 DEF storage, dropKey, bioVars, Inv, UnlockFitsSession
  <2> QED  BY <2>2, <2>3, <2>4 DEF Inv
<1>2. CASE /\ publicKey' = stored
           /\ UNCHANGED <<stored, armed, strayKey, ceremonies, loggedOut, signal, userVars, bioVars>>
  <2>1. SessionInv'
    BY <1>2, MovesSession DEF Inv, SessionInv, SessionTypeOK, SessionMoved
  <2>2. BioInv' /\ UnlockFitsSession'
    BY <1>2, BioUnchanged DEF bioVars, Inv, BioInv, BioTypeOK, UnlockFitsSession
  <2> QED  BY <2>1, <2>2 DEF Inv
<1>4. ASSUME NEW c \in ceremonies, reauthenticated(c), UNCHANGED <<userVars, bioVars>> PROVE Inv'
  <2>1. c.key \in Account
    BY DEF Inv, SessionInv, SessionTypeOK
  <2>2. SessionInv' /\ UnlockFitsSession'
    BY <1>4, <2>1, ArmingStep DEF reauthenticated, bioVars
  <2>3. BioInv'
    BY <1>4, BioUnchanged DEF bioVars, Inv, BioInv, BioTypeOK
  <2> QED  BY <2>2, <2>3 DEF Inv
<1>3. CASE UserEvent /\ UNCHANGED <<sessionVars, bioVars>>
  <2>1. SessionInv'
    BY <1>3, UserStep DEF Inv
  <2>2. BioInv' /\ UnlockFitsSession'
    BY <1>3, BioUnchanged DEF bioVars, sessionVars, Inv, BioInv, BioTypeOK, UnlockFitsSession
  <2> QED  BY <2>1, <2>2 DEF Inv
<1> QED  BY <1>1, <1>2, <1>3, <1>4 DEF SessionEvent

LEMMA SessionKept ==
  ASSUME SessionInv, UNCHANGED <<sessionVars, userVars>>
  PROVE  SessionInv'
  BY MovesSession DEF SessionInv, SessionTypeOK, SessionMoved, sessionVars

LEMMA BioCallStep ==
  ASSUME Inv, BioCall
  PROVE  Inv'
<1>1. SessionInv'
  <2>1. CASE UNCHANGED sessionVars
    BY <2>1, SessionKept DEF BioCall, Inv
  <2>2. ASSUME NEW wallet, unlock(wallet) PROVE SessionInv'
    <3>1. SessionMoved'
      BY <2>2 DEF unlock, Inv, SessionInv, SessionTypeOK, SessionMoved
    <3> QED  BY <3>1, MovesSession DEF BioCall, Inv
  <2> QED  BY <2>1, <2>2 DEF BioCall
<1>2. UNCHANGED <<stored, armed, strayKey, signal>>
  BY DEF BioCall, sessionVars, unlock
<1>3. ASSUME NEW c \in Cred, enable(c) PROVE BioInv' /\ UnlockFitsSession'
  <2> DEFINE n == [cred |-> c, key |-> armed]
  <2>1. /\ c \notin used /\ used' = used \cup {c} /\ enabling' = enabling \cup {n}
        /\ UNCHANGED <<marker, reg, blob, disabling, deleting, unlocking, strayMarker>>
    BY <1>3 DEF enable
  <2>2. n.cred = c /\ n.key \in Account
    BY <1>3 DEF enable, Inv, SessionInv, SessionTypeOK
  <2>3. c # None /\ blob[c] = None
    BY <2>1, CredAssumption DEF Inv, BioInv, EnablingFits
  <2> HIDE DEF n
  <2>4. BioTypeOK'
    BY <2>1, <2>2 DEF Inv, BioInv, BioTypeOK
  <2>5. \A e \in enabling : e.cred \in used
    BY DEF Inv, BioInv, BioTypeOK
  <2>6. c \notin {marker, reg} \cup deleting \cup disabling
    BY <2>1, <2>3 DEF Inv, BioInv, BioTypeOK, EnablingFits
  <2>7. EnablingFits'
    BY <2>1, <2>2, <2>3, <2>5, <2>6 DEF Inv, BioInv, EnablingFits
  <2> QED  BY <1>2, <2>1, <2>4, <2>7 DEF Inv, BioInv, EnabledMeansUsable, UnlockFitsSession
<1>4. CASE disable
  <2>1. BioTypeOK'
    BY <1>4 DEF disable, Inv, BioInv, BioTypeOK, EnablingFits
  <2>2. EnablingFits'
    BY <1>4, CredAssumption DEF disable, Inv, BioInv, BioTypeOK, EnablingFits
  <2> QED  BY <1>1, <1>2, <1>4, <2>1, <2>2 DEF disable, Inv, BioInv, EnabledMeansUsable, UnlockFitsSession
<1>5. ASSUME NEW wallet \in {None, user}, unlock(wallet) PROVE BioInv' /\ UnlockFitsSession'
  <2>1. BioInv'
    <3>1. wallet \in Account \cup {None} /\ reg \in used
      BY <1>5 DEF unlock, Inv, SessionInv, SessionTypeOK, BioInv, EnablingFits
    <3>2. unlocking' = unlocking \cup {[cred |-> reg, wallet |-> wallet]}
      BY <1>5 DEF unlock
    <3>3. \A u \in unlocking' : u.cred \in used /\ u.wallet \in Account \cup {None}
      BY <3>1, <3>2 DEF Inv, BioInv, BioTypeOK
    <3> QED  BY <1>5, <3>3, BioUnchanged DEF unlock, Inv, BioInv, BioTypeOK
  <2> QED  BY <1>1, <1>2, <1>5, <2>1 DEF unlock, Inv, UnlockFitsSession
<1> QED  BY <1>1, <1>3, <1>4, <1>5 DEF BioCall, Inv

\* A blob is written or deleted under a credential the marker does not name.
LEMMA BlobStep ==
  ASSUME Inv, NEW c \in used, c # marker, NEW k \in Account \cup {None},
         \A e \in enabling' : e.cred = c => k \in {None, e.key},
         blob' = [blob EXCEPT ![c] = k] \/ blob' = blob,
         UNCHANGED <<marker, used, unlocking, strayMarker>>, reg' \in {reg, None},
         enabling' \subseteq enabling, disabling' \subseteq disabling, deleting' \subseteq deleting,
         UNCHANGED <<stored, armed, strayKey, signal>>
  PROVE  BioInv' /\ UnlockFitsSession'
<1>1. BioTypeOK'
  BY DEF Inv, BioInv, BioTypeOK
<1>2. \A e \in enabling : e.cred \in Cred /\ e.cred # None
  BY CredAssumption DEF Inv, BioInv, BioTypeOK
<1>3. \A x \in Cred : blob'[x] = blob[x] \/ (x = c /\ blob'[x] = k)
  BY DEF Inv, BioInv, BioTypeOK
<1>4. EnablingFits'
  <2>1. \A e \in enabling' : blob'[e.cred] \in {None, e.key}
    BY <1>2, <1>3 DEF Inv, BioInv, EnablingFits
  <2>2. \A e \in enabling' : e.cred \notin {marker', reg'} \cup deleting' \cup disabling'
    BY <1>2 DEF Inv, BioInv, EnablingFits
  <2>3. \A x \in Cred \ used' : blob'[x] = None
    BY <1>3 DEF Inv, BioInv, EnablingFits
  <2> QED  BY <2>1, <2>2, <2>3 DEF Inv, BioInv, EnablingFits
<1>5. marker # None => blob'[marker] = blob[marker]
  BY <1>3 DEF Inv, BioInv, BioTypeOK
<1> QED  BY <1>1, <1>4, <1>5 DEF Inv, BioInv, EnabledMeansUsable, UnlockFitsSession

LEMMA BioEventStep ==
  ASSUME Inv, BioEvent
  PROVE  Inv'
<1>1. ASSUME NEW e \in enabling, wrapAppKey(e), UNCHANGED <<sessionVars, userVars>> PROVE Inv'
  <2>1. e.cred \in used /\ e.cred # marker /\ e.key \in Account
    BY DEF Inv, BioInv, BioTypeOK, EnablingFits
  <2>2. \A f \in enabling' : f.cred = e.cred => e.key \in {None, f.key}
    BY <1>1 DEF wrapAppKey, Inv, BioInv, EnablingFits
  <2>3. BioInv' /\ UnlockFitsSession'
    BY <1>1, <2>1, <2>2, BlobStep DEF wrapAppKey, sessionVars
  <2> QED  BY <1>1, <2>3, SessionKept DEF Inv
<1>2. ASSUME NEW e \in enabling, enabled(e), UNCHANGED <<sessionVars, userVars>> PROVE Inv'
  <2>1. /\ e.cred \in used /\ e.cred \in Cred /\ e.cred # None
        /\ e.cred \notin deleting \cup disabling /\ blob[e.cred] = e.key /\ blob[e.cred] # None
    BY <1>2, CredAssumption DEF enabled, Inv, BioInv, BioTypeOK, EnablingFits
  <2>2. /\ marker' = e.cred /\ reg' = e.cred /\ enabling' = enabling \ {e}
        /\ strayMarker' = (stored # e.key)
        /\ UNCHANGED <<blob, used, disabling, deleting, unlocking>>
    BY <1>2 DEF enabled
  <2>3. BioTypeOK'
    BY <2>1, <2>2 DEF Inv, BioInv, BioTypeOK
  <2>4. EnablingFits'
    BY <2>1, <2>2 DEF Inv, BioInv, EnablingFits
  <2>5. EnabledMeansUsable'
    BY <2>1, <2>2 DEF EnabledMeansUsable
  <2>6. UnlockFitsSession'
    BY <1>2, <2>1, <2>2 DEF sessionVars, Inv, BioInv, BioTypeOK, UnlockFitsSession
  <2> QED  BY <1>2, <2>3, <2>4, <2>5, <2>6, SessionKept DEF Inv, BioInv
<1>3. ASSUME NEW e \in enabling, enableFails(e), UNCHANGED <<sessionVars, userVars>> PROVE Inv'
  <2>1. e.cred \in used /\ e.cred # marker /\ blob' = blob
    BY <1>3 DEF enableFails, Inv, BioInv, BioTypeOK, EnablingFits
  <2>2. BioInv' /\ UnlockFitsSession'
    BY <1>3, <2>1, BlobStep DEF enableFails, sessionVars
  <2> QED  BY <1>3, <2>2, SessionKept DEF Inv
<1>4. ASSUME NEW c \in disabling, disabled(c) \/ disableFails(c),
             UNCHANGED <<sessionVars, userVars>> PROVE Inv'
  <2>1. c \in used /\ c # marker
    BY CredAssumption DEF Inv, BioInv, BioTypeOK, EnabledMeansUsable
  <2>2. BioInv' /\ UnlockFitsSession'
    BY <1>4, <2>1, BlobStep DEF disabled, disableFails, sessionVars
  <2> QED  BY <1>4, <2>2, SessionKept DEF Inv
<1>5. ASSUME NEW c \in deleting, NEW ok \in BOOLEAN, blobDelete(c, ok),
             UNCHANGED <<sessionVars, userVars>> PROVE Inv'
  <2>1. c \in used /\ c # marker
    BY CredAssumption DEF Inv, BioInv, BioTypeOK, EnabledMeansUsable
  <2>2. BioInv' /\ UnlockFitsSession'
    BY <1>5, <2>1, BlobStep DEF blobDelete, sessionVars
  <2> QED  BY <1>5, <2>2, SessionKept DEF Inv
<1>6. ASSUME NEW u \in unlocking, unlockViaBiometric(u), UNCHANGED userVars PROVE Inv'
  <2>1. blob[u.cred] \in Account \cup {None}
    BY DEF Inv, BioInv, BioTypeOK
  <2>2. SessionInv' /\ UnlockFitsSession'
    <3>1. CASE blob[u.cred] # None /\ u.wallet \in {None, blob[u.cred]}
      BY <1>6, <2>1, <3>1, ArmingStep DEF unlockViaBiometric
    <3>2. CASE ~(blob[u.cred] # None /\ u.wallet \in {None, blob[u.cred]})
      <4>1. UNCHANGED <<armed, strayKey, publicKey, stored, ceremonies, loggedOut, signal, marker, blob, strayMarker>>
        BY <1>6, <3>2 DEF unlockViaBiometric
      <4>2. SessionInv'
        BY <1>6, <4>1, SessionKept DEF sessionVars, Inv
      <4> QED  BY <4>1, <4>2 DEF Inv, UnlockFitsSession
    <3> QED  BY <3>1, <3>2
  <2>3. BioInv'
    BY <1>6, BioUnchanged DEF unlockViaBiometric, Inv, BioInv, BioTypeOK
  <2> QED  BY <2>2, <2>3 DEF Inv
<1> QED  BY <1>1, <1>2, <1>3, <1>4, <1>5, <1>6 DEF BioEvent

-----------------------------------------------------------------------------
(* The reveal of a key.                                                      *)

\* A number that a clear took was never a reveal's.
RevealInv == RevealTypeOK /\ ClearedStaysCleared /\ clearedAt \notin reveals

LEMMA RevealInitially == Init => RevealInv
<1> SUFFICES ASSUME Init PROVE RevealInv
  OBVIOUS
<1>1. /\ revealSeq = 0 /\ reveals = {} /\ plaintext = 0
      /\ revealLoading = FALSE /\ clearedAt = 0
  BY DEF Init, RevealInit
<1>3. RevealTypeOK
  <2>1. reveals \subseteq 1..revealSeq
    BY <1>1
  <2>2. revealSeq \in Nat /\ plaintext \in 0..revealSeq /\ clearedAt \in 0..revealSeq
    BY <1>1
  <2>3. revealLoading \in BOOLEAN
    BY <1>1
  <2> QED  BY <2>1, <2>2, <2>3 DEF RevealTypeOK
<1>4. clearedAt \notin reveals
  BY <1>1
<1>2. ClearedStaysCleared
  BY <1>1 DEF ClearedStaysCleared
<1> QED  BY <1>2, <1>3, <1>4 DEF RevealInv

LEMMA RevealStep ==
  ASSUME RevealInv, reveal \/ clear \/ RevealEvent \/ UNCHANGED revealVars
  PROVE  RevealInv'
<1>1. CASE reveal
  BY <1>1 DEF reveal, RevealInv, RevealTypeOK, ClearedStaysCleared
<1>2. CASE clear
  BY <1>2 DEF clear, RevealInv, RevealTypeOK, ClearedStaysCleared
<1>3. ASSUME NEW n \in reveals, NEW ok \in BOOLEAN, revealed(n, ok)
      PROVE  RevealInv'
  <2>1. /\ revealSeq' = revealSeq /\ clearedAt' = clearedAt /\ reveals' = reveals \ {n}
        /\ n \in 1..revealSeq /\ n # clearedAt /\ revealSeq \in Nat /\ clearedAt \in 0..revealSeq
    BY <1>3 DEF revealed, RevealInv, RevealTypeOK
  <2>2. CASE n = revealSeq
    <3>1. revealLoading' = FALSE /\ plaintext' \in {plaintext, n} /\ n > clearedAt
      BY <1>3, <2>1, <2>2 DEF revealed
    <3>2. plaintext \in 0..revealSeq /\ (plaintext # 0 => plaintext > clearedAt)
      BY DEF RevealInv, RevealTypeOK, ClearedStaysCleared
    <3>3. plaintext' \in 0..revealSeq /\ (plaintext' # 0 => plaintext' > clearedAt)
      BY <2>1, <3>1, <3>2
    <3> QED  BY <2>1, <3>1, <3>3 DEF RevealInv, RevealTypeOK, ClearedStaysCleared
  <2>3. CASE n # revealSeq
    <3>1. UNCHANGED <<plaintext, revealLoading>>
      BY <1>3, <2>3 DEF revealed
    <3> QED  BY <2>1, <2>3, <3>1 DEF RevealInv, RevealTypeOK, ClearedStaysCleared
  <2> QED  BY <2>2, <2>3
<1>4. CASE UNCHANGED revealVars
  BY <1>4 DEF revealVars, RevealInv, RevealTypeOK, ClearedStaysCleared
<1> QED  BY <1>1, <1>2, <1>3, <1>4 DEF RevealEvent, autoClear

-----------------------------------------------------------------------------
(* The Ledger connection.                                                    *)

Transport == [device : Ledger, alive : BOOLEAN, heard : BOOLEAN]

ConnSteps == {"idle", "closing", "opening", "probing", "releasing"}

LedgerShape ==
  /\ transports \in Seq(Transport)
  /\ conn \in [step : ConnSteps, t : 0..Len(transports)]

\* Only a connect that is closing the old transport may find it in the refs;
\* a connection that stands is listened to.
ConnFits ==
  /\ conn.step = "closing" => ref \in {0, conn.t}
  /\ conn.step \in {"opening", "probing", "releasing"} => ref = 0
  /\ conn.step \in {"idle", "opening"} => conn.t = 0
  /\ conn.step \in {"probing", "releasing"} => conn.t # 0
  /\ conn.step = "idle" /\ isConnected /\ ref # 0 /\ transports[ref].alive => transports[ref].heard

\* A transport that reports its end is dead.
NoticesDead == \A t \in notices : ~transports[t].alive

LedgerInv ==
  /\ LedgerTypeOK /\ LedgerShape /\ ConnFits /\ NoticesDead
  /\ TransportsAccountedFor /\ ConnectedIsUsable

LEMMA LedgerInitially == Init => LedgerInv
<1> SUFFICES ASSUME Init PROVE LedgerInv
  OBVIOUS
<1>1. transports = <<>> /\ transports \in Seq(Transport) /\ DOMAIN transports = {}
  BY DEF Init, LedgerInit
<1>2. LedgerTypeOK
  BY <1>1 DEF Init, LedgerInit, NotConnecting, LedgerTypeOK
<1>3. LedgerShape /\ ConnFits
  BY <1>1 DEF Init, LedgerInit, NotConnecting, LedgerShape, ConnFits, ConnSteps
<1>4. NoticesDead /\ TransportsAccountedFor /\ ConnectedIsUsable
  BY <1>1 DEF Init, LedgerInit, NoticesDead, TransportsAccountedFor, ConnectedIsUsable
<1> QED  BY <1>2, <1>3, <1>4 DEF LedgerInv

\* No transport is opened: the same ones, some of them dead or unheard.
SameTransports ==
  /\ transports' \in Seq(Transport) /\ Len(transports') = Len(transports)
  /\ \A t \in 1..Len(transports) : transports'[t].alive => transports[t].alive

LEMMA Domains ==
  ASSUME LedgerInv
  PROVE  /\ DOMAIN transports = 1..Len(transports) /\ Len(transports) \in Nat
         /\ \A t \in 1..Len(transports) : transports[t] \in Transport
  BY DEF LedgerInv, LedgerShape

LEMMA Closing ==
  ASSUME LedgerInv, NEW t \in 1..Len(transports), close(t)
  PROVE  /\ SameTransports /\ ~transports'[t].alive
         /\ \A u \in 1..Len(transports) \ {t} : transports'[u] = transports[u]
<1>1. transports \in Seq(Transport)
  BY DEF LedgerInv, LedgerShape
<1>2. [transports[t] EXCEPT !.alive = FALSE] \in Transport
  <2>1. transports[t] \in Transport
    BY <1>1
  <2> QED  BY <2>1 DEF Transport
<1>3. transports' = [transports EXCEPT ![t] = [transports[t] EXCEPT !.alive = FALSE]]
  BY DEF close
<1> QED  BY <1>1, <1>2, <1>3 DEF SameTransports, Transport

LEMMA StillTyped ==
  ASSUME LedgerInv, SameTransports, conn' \in [step : ConnSteps, t : 0..Len(transports)],
         plugged' \subseteq Ledger, ref' \in 0..Len(transports),
         closing' \subseteq 0..Len(transports), deriving' \subseteq 1..Len(transports),
         notices' \subseteq 1..Len(transports), orphaned' \subseteq 1..Len(transports),
         addresses' \subseteq Ledger, isConnected' \in BOOLEAN
  PROVE  LedgerTypeOK' /\ LedgerShape'
<1>1. DOMAIN transports' = 1..Len(transports) /\ transports' \in Seq(Transport)
      /\ Len(transports') = Len(transports)
  BY DEF SameTransports
<1>2. \A t \in 1..Len(transports) : transports'[t].device \in Ledger
  <2>1. \A t \in 1..Len(transports) : transports'[t] \in Transport
    BY <1>1
  <2> QED  BY <2>1 DEF Transport
<1>3. 0..Len(transports) = {0} \cup 1..Len(transports) /\ Len(transports) \in Nat
  BY Domains
<1> QED  BY <1>1, <1>2, <1>3 DEF LedgerTypeOK, LedgerShape, ConnSteps

LEMMA Accounted ==
  ASSUME LedgerInv, SameTransports,
         \A t \in 1..Len(transports) :
           transports'[t].alive /\ t \in {ref, conn.t} \cup closing \cup orphaned
             => t \in {ref', conn'.t} \cup closing' \cup orphaned'
  PROVE  TransportsAccountedFor'
<1>1. DOMAIN transports' = 1..Len(transports) /\ DOMAIN transports = 1..Len(transports)
  BY Domains DEF SameTransports
<1> QED  BY <1>1 DEF SameTransports, LedgerInv, TransportsAccountedFor

LEMMA LedgerTypes ==
  ASSUME LedgerInv
  PROVE  /\ plugged \subseteq Ledger /\ addresses \subseteq Ledger /\ isConnected \in BOOLEAN
         /\ ref \in 0..Len(transports) /\ conn.t \in 0..Len(transports)
         /\ closing \subseteq 0..Len(transports) /\ deriving \subseteq 1..Len(transports)
         /\ notices \subseteq 1..Len(transports) /\ orphaned \subseteq 1..Len(transports)
         /\ Len(transports) \in Nat /\ transports \in Seq(Transport)
         /\ conn \in [step : ConnSteps, t : 0..Len(transports)]
<1>1. DOMAIN transports = 1..Len(transports) /\ Len(transports) \in Nat
  BY Domains
<1> QED  BY <1>1 DEF LedgerInv, LedgerTypeOK, LedgerShape

LEMMA Unopened ==
  ASSUME LedgerInv, UNCHANGED transports
  PROVE  SameTransports
  BY LedgerTypes DEF SameTransports

LEMMA NoticesKept ==
  ASSUME LedgerInv, SameTransports, notices' \subseteq notices
  PROVE  NoticesDead'
  BY LedgerTypes DEF SameTransports, LedgerInv, NoticesDead

LEMMA LedgerCallStep ==
  ASSUME LedgerInv, LedgerCall
  PROVE  LedgerInv'
<1>1. CASE connect
  <2>1. /\ conn.step = "idle" /\ conn' = [step |-> "closing", t |-> ref] /\ SameTransports
        /\ UNCHANGED <<plugged, transports, ref, closing, isConnected, addresses, deriving, notices, orphaned>>
    BY <1>1, Unopened DEF connect
  <2>2. LedgerTypeOK' /\ LedgerShape'
    <3>1. conn' \in [step : ConnSteps, t : 0..Len(transports)]
      BY <2>1, LedgerTypes DEF ConnSteps
    <3> QED  BY <2>1, <3>1, LedgerTypes, StillTyped
  <2>3. TransportsAccountedFor'
    <3>1. conn.t = 0
      BY <2>1 DEF LedgerInv, ConnFits
    <3>2. \A t \in 1..Len(transports) : t # 0
      BY LedgerTypes
    <3> QED  BY <2>1, <3>1, <3>2, Accounted
  <2> QED  BY <2>1, <2>2, <2>3, NoticesKept DEF LedgerInv, ConnFits, ConnectedIsUsable
<1>2. CASE disconnect
  <2>1. /\ closing' = closing \cup {ref} /\ SameTransports
        /\ UNCHANGED <<plugged, transports, ref, conn, isConnected, addresses, deriving, notices, orphaned>>
    BY <1>2, Unopened DEF disconnect
  <2>2. LedgerTypeOK' /\ LedgerShape'
    BY <2>1, LedgerTypes, StillTyped
  <2>3. TransportsAccountedFor'
    BY <2>1, Accounted
  <2> QED  BY <2>1, <2>2, <2>3, NoticesKept DEF LedgerInv, ConnFits, ConnectedIsUsable
<1>3. CASE deriveAddresses
  <2>1. /\ ref # 0 /\ deriving' = deriving \cup {ref} /\ SameTransports
        /\ UNCHANGED <<plugged, transports, ref, conn, closing, isConnected, addresses, notices, orphaned>>
    BY <1>3, Unopened DEF deriveAddresses
  <2>2. LedgerTypeOK' /\ LedgerShape'
    BY <2>1, LedgerTypes, StillTyped
  <2>3. TransportsAccountedFor'
    BY <2>1, Accounted
  <2> QED  BY <2>1, <2>2, <2>3, NoticesKept DEF LedgerInv, ConnFits, ConnectedIsUsable
<1> QED  BY <1>1, <1>2, <1>3 DEF LedgerCall

LEMMA LedgerConnStep ==
  ASSUME LedgerInv, priorClosed \/ openFails \/ probed \/ probeFails \/ released
  PROVE  LedgerInv'
<1> USE LedgerTypes
<1>1. CASE priorClosed
  <2>1. /\ conn.step = "closing" /\ ref' = 0 /\ conn' = [step |-> "opening", t |-> 0]
        /\ ref \in {0, conn.t}
        /\ UNCHANGED <<plugged, closing, isConnected, addresses, deriving, notices, orphaned>>
    BY <1>1 DEF priorClosed, LedgerInv, ConnFits
  <2>2. SameTransports /\ (conn.t # 0 => ~transports'[conn.t].alive)
    BY <1>1, Closing, Unopened DEF priorClosed
  <2>3. LedgerTypeOK' /\ LedgerShape'
    <3>1. conn' \in [step : ConnSteps, t : 0..Len(transports)]
      BY <2>1 DEF ConnSteps
    <3> QED  BY <2>1, <2>2, <3>1, StillTyped
  <2>4. TransportsAccountedFor'
    BY <2>1, <2>2, Accounted
  <2> QED  BY <2>1, <2>2, <2>3, <2>4, NoticesKept DEF LedgerInv, ConnFits, ConnectedIsUsable
<1>2. CASE openFails
  <2>1. /\ conn.step = "opening" /\ ref' = 0 /\ isConnected' = FALSE
        /\ conn' = [step |-> "idle", t |-> 0] /\ ref = 0 /\ conn.t = 0 /\ SameTransports
        /\ UNCHANGED <<plugged, closing, addresses, deriving, notices, orphaned>>
    BY <1>2, Unopened DEF openFails, resetConnection, NotConnecting, LedgerInv, ConnFits
  <2>2. LedgerTypeOK' /\ LedgerShape'
    <3>1. conn' \in [step : ConnSteps, t : 0..Len(transports)]
      BY <2>1 DEF ConnSteps
    <3> QED  BY <2>1, <3>1, StillTyped
  <2>3. TransportsAccountedFor'
    BY <2>1, Accounted
  <2> QED  BY <2>1, <2>2, <2>3, NoticesKept DEF LedgerInv, ConnFits, ConnectedIsUsable
<1>3. CASE probed
  <2>1. /\ conn.step = "probing" /\ transports[conn.t].alive /\ ref' = conn.t
        /\ conn' = [step |-> "idle", t |-> 0] /\ ref = 0 /\ conn.t \in 1..Len(transports)
        /\ isConnected' = TRUE /\ transports' = [transports EXCEPT ![conn.t].heard = TRUE]
        /\ UNCHANGED <<plugged, closing, addresses, deriving, notices, orphaned>>
    BY <1>3 DEF probed, NotConnecting, LedgerInv, ConnFits
  <2>2. transports[conn.t] \in Transport
    BY <2>1
  <2>3. [transports[conn.t] EXCEPT !.heard = TRUE] \in Transport
    BY <2>2 DEF Transport
  <2>4. SameTransports /\ transports'[conn.t].heard /\ transports'[conn.t].alive
    BY <2>1, <2>2, <2>3 DEF SameTransports, Transport
  <2>5. LedgerTypeOK' /\ LedgerShape'
    <3>1. conn' \in [step : ConnSteps, t : 0..Len(transports)]
      BY <2>1 DEF ConnSteps
    <3> QED  BY <2>1, <2>4, <3>1, StillTyped
  <2>6. TransportsAccountedFor'
    BY <2>1, <2>4, Accounted
  <2>7. ConnFits' /\ ConnectedIsUsable'
    BY <2>1, <2>4 DEF ConnFits, ConnectedIsUsable
  <2>8. NoticesDead'
    BY <2>1, <2>4, NoticesKept
  <2> QED  BY <2>5, <2>6, <2>7, <2>8 DEF LedgerInv
<1>4. CASE probeFails
  <2>1. /\ conn.step = "probing" /\ conn' = [conn EXCEPT !.step = "releasing"] /\ SameTransports
        /\ UNCHANGED <<plugged, transports, ref, closing, isConnected, addresses, deriving, notices, orphaned>>
    BY <1>4, Unopened DEF probeFails
  <2>2. conn'.step = "releasing" /\ conn'.t = conn.t
        /\ conn' \in [step : ConnSteps, t : 0..Len(transports)]
    BY <2>1 DEF ConnSteps
  <2>3. LedgerTypeOK' /\ LedgerShape'
    BY <2>1, <2>2, StillTyped
  <2>4. TransportsAccountedFor'
    BY <2>1, <2>2, Accounted
  <2> QED  BY <2>1, <2>2, <2>3, <2>4, NoticesKept DEF LedgerInv, ConnFits, ConnectedIsUsable
<1>5. CASE released
  <2>1. /\ conn.step = "releasing" /\ ref' = 0 /\ isConnected' = FALSE /\ ref = 0
        /\ conn' = [step |-> "idle", t |-> 0] /\ conn.t \in 1..Len(transports) /\ close(conn.t)
        /\ UNCHANGED <<plugged, closing, addresses, deriving, notices, orphaned>>
    BY <1>5 DEF released, resetConnection, NotConnecting, LedgerInv, ConnFits
  <2>2. SameTransports /\ ~transports'[conn.t].alive
    BY <2>1, Closing
  <2>3. LedgerTypeOK' /\ LedgerShape'
    <3>1. conn' \in [step : ConnSteps, t : 0..Len(transports)]
      BY <2>1 DEF ConnSteps
    <3> QED  BY <2>1, <2>2, <3>1, StillTyped
  <2>4. TransportsAccountedFor'
    BY <2>1, <2>2, Accounted
  <2> QED  BY <2>1, <2>2, <2>3, <2>4, NoticesKept DEF LedgerInv, ConnFits, ConnectedIsUsable
<1> QED  BY <1>1, <1>2, <1>3, <1>4, <1>5

LEMMA createStep ==
  ASSUME LedgerInv, NEW d \in Ledger, createLedgerTransport(d)
  PROVE  LedgerInv'
<1> USE LedgerTypes
<1> DEFINE n == [device |-> d, alive |-> TRUE, heard |-> FALSE]
<1>1. /\ conn.step = "opening" /\ ref = 0 /\ conn.t = 0
      /\ transports' = Append(transports, n)
      /\ conn' = [step |-> "probing", t |-> Len(transports')]
      /\ UNCHANGED <<plugged, ref, closing, isConnected, addresses, deriving, notices, orphaned>>
  BY DEF createLedgerTransport, LedgerInv, ConnFits
<1>2. n \in Transport /\ n.device \in Ledger
  BY DEF Transport
<1> HIDE DEF n
<1>3. /\ transports' \in Seq(Transport) /\ Len(transports') = Len(transports) + 1
      /\ DOMAIN transports' = 1..(Len(transports) + 1) /\ DOMAIN transports = 1..Len(transports)
      /\ transports'[Len(transports) + 1] = n
      /\ \A t \in 1..Len(transports) : transports'[t] = transports[t]
  BY <1>1, <1>2
<1>4. LedgerShape'
  BY <1>1, <1>3 DEF LedgerShape, ConnSteps
<1>5. LedgerTypeOK'
  <2>1. \A t \in DOMAIN transports' : transports'[t].device \in Ledger
    BY <1>2, <1>3 DEF LedgerInv, LedgerTypeOK
  <2>2. DOMAIN transports \subseteq DOMAIN transports' /\ conn'.t \in DOMAIN transports'
    BY <1>1, <1>3
  <2>3. conn'.step = "probing"
    BY <1>1
  <2> QED  BY <1>1, <2>1, <2>2, <2>3 DEF LedgerInv, LedgerTypeOK
<1>6. TransportsAccountedFor'
  BY <1>1, <1>3 DEF LedgerInv, TransportsAccountedFor
<1>7. ConnFits' /\ ConnectedIsUsable'
  BY <1>1, <1>3 DEF ConnFits, ConnectedIsUsable
<1>8. NoticesDead'
  BY <1>1, <1>3 DEF LedgerInv, NoticesDead
<1> QED  BY <1>4, <1>5, <1>6, <1>7, <1>8 DEF LedgerInv

LEMMA unplugStep ==
  ASSUME LedgerInv, NEW d \in Ledger, unplug(d)
  PROVE  LedgerInv'
<1> USE LedgerTypes
<1> DEFINE of == {t \in DOMAIN transports : transports[t].device = d}
           heard == {t \in of : transports[t].heard}
           dead(t) == [transports[t] EXCEPT !.alive = FALSE, !.heard = FALSE]
<1>1. DOMAIN transports = 1..Len(transports) /\ \A t \in 1..Len(transports) : transports[t] \in Transport
  BY Domains
<1>2. /\ plugged' \subseteq Ledger /\ notices \subseteq notices'
      /\ \A t \in heard : transports[t].alive => t \in notices'
      /\ notices' \subseteq notices \cup heard
      /\ transports' = [t \in DOMAIN transports |-> IF t \in of THEN dead(t) ELSE transports[t]]
      /\ UNCHANGED <<ref, conn, closing, isConnected, addresses, deriving, orphaned>>
  BY DEF unplug
<1>3. \A t \in 1..Len(transports) : dead(t) \in Transport /\ ~dead(t).alive
  BY <1>1 DEF Transport
<1> HIDE DEF dead
<1>4. /\ SameTransports
      /\ \A t \in 1..Len(transports) : transports'[t] = IF t \in of THEN dead(t) ELSE transports[t]
  BY <1>1, <1>2, <1>3 DEF SameTransports
<1>5. notices' \subseteq 1..Len(transports)
  BY <1>1, <1>2
<1>6. LedgerTypeOK' /\ LedgerShape'
  BY <1>2, <1>4, <1>5, StillTyped
<1>7. TransportsAccountedFor'
  BY <1>2, <1>4, Accounted
<1>8. ConnFits'
  BY <1>2, <1>3, <1>4 DEF LedgerInv, ConnFits
<1>9. ConnectedIsUsable'
  <2>1. SUFFICES ASSUME isConnected, conn.step = "idle"
                 PROVE  ref # 0 /\ (transports'[ref].alive \/ ref \in notices')
    BY <1>2 DEF ConnectedIsUsable
  <2>2. ref # 0 /\ (transports[ref].alive \/ ref \in notices)
    BY <2>1 DEF LedgerInv, ConnectedIsUsable
  <2>3. transports[ref].alive => transports[ref].heard
    BY <2>1, <2>2 DEF LedgerInv, ConnFits
  <2> QED  BY <1>1, <1>2, <1>4, <2>2, <2>3
<1>10. NoticesDead'
  BY <1>1, <1>2, <1>3, <1>4 DEF SameTransports, LedgerInv, NoticesDead
<1> QED  BY <1>6, <1>7, <1>8, <1>9, <1>10 DEF LedgerInv

\* A disconnect that completes, or a transport that reports its end, takes the
\* refs: they are the connection's own, or orphan it.
LEMMA ForgetStep ==
  ASSUME LedgerInv, NEW t \in 0..Len(transports), SameTransports,
         ref' = 0, isConnected' = FALSE, orphaned' = orphaned \cup ({ref} \ {0, t}),
         UNCHANGED <<plugged, conn, deriving>>,
         closing' \subseteq closing, notices' \subseteq notices, addresses' \subseteq addresses,
         \A u \in 1..Len(transports) : transports'[u].alive =>
           /\ u \in closing => u \in closing'
           /\ u = t => u # ref
  PROVE  LedgerInv'
<1> USE LedgerTypes
<1>1. LedgerTypeOK' /\ LedgerShape'
  <2>1. orphaned' \subseteq 1..Len(transports)
    OBVIOUS
  <2>2. /\ plugged' \subseteq Ledger /\ deriving' \subseteq 1..Len(transports)
        /\ conn' \in [step : ConnSteps, t : 0..Len(transports)]
    OBVIOUS
  <2>3. closing' \subseteq 0..Len(transports) /\ notices' \subseteq 1..Len(transports)
        /\ addresses' \subseteq Ledger
    OBVIOUS
  <2>4. ref' \in 0..Len(transports)
    OBVIOUS
  <2>5. isConnected' \in BOOLEAN
    OBVIOUS
  <2> QED  BY <2>1, <2>2, <2>3, <2>4, <2>5, StillTyped
<1>2. TransportsAccountedFor'
  BY Accounted
<1>3. ConnFits' /\ ConnectedIsUsable'
  BY DEF LedgerInv, ConnFits, ConnectedIsUsable
<1> QED  BY <1>1, <1>2, <1>3, NoticesKept DEF LedgerInv

LEMMA LedgerEventStep ==
  ASSUME LedgerInv, LedgerEvent
  PROVE  LedgerInv'
<1> USE LedgerTypes
<1>1. CASE priorClosed \/ openFails \/ probed \/ probeFails \/ released
  BY <1>1, LedgerConnStep
<1>2. ASSUME NEW d \in Ledger, createLedgerTransport(d) PROVE LedgerInv'
  BY <1>2, createStep
<1>3. ASSUME NEW d \in Ledger, unplug(d) PROVE LedgerInv'
  BY <1>3, unplugStep
<1>4. ASSUME NEW d \in Ledger, plug(d) PROVE LedgerInv'
  <2>1. /\ plugged' \subseteq Ledger /\ SameTransports
        /\ UNCHANGED <<transports, ref, conn, closing, isConnected, addresses, deriving, notices, orphaned>>
    BY <1>4, Unopened DEF plug
  <2>2. LedgerTypeOK' /\ LedgerShape' /\ TransportsAccountedFor'
    BY <2>1, StillTyped, Accounted
  <2> QED  BY <2>1, <2>2, NoticesKept DEF LedgerInv, ConnFits, ConnectedIsUsable
<1>5. ASSUME NEW t \in closing, disconnected(t) PROVE LedgerInv'
  <2>1. /\ orphaned' = orphaned \cup ({ref} \ {0, t}) /\ ref' = 0 /\ isConnected' = FALSE
        /\ closing' = closing \ {t} /\ addresses' = {}
        /\ UNCHANGED <<plugged, conn, deriving, notices>>
    BY <1>5 DEF disconnected, Forget, resetConnection
  <2>2. SameTransports /\ (t # 0 => ~transports'[t].alive)
    BY <1>5, Closing, Unopened DEF disconnected
  <2>3. \A u \in 1..Len(transports) : transports'[u].alive => u # t
    BY <2>2
  <2>4. addresses' \subseteq addresses /\ t \in 0..Len(transports)
    BY <2>1
  <2> QED  BY <2>1, <2>2, <2>3, <2>4, ForgetStep
<1>6. ASSUME NEW t \in deriving, derived(t) PROVE LedgerInv'
  <2>1. addresses' \subseteq Ledger
    BY <1>6 DEF derived, LedgerInv, LedgerTypeOK
  <2>2. /\ deriving' = deriving \ {t} /\ SameTransports
        /\ UNCHANGED <<plugged, transports, ref, conn, closing, isConnected, notices, orphaned>>
    BY <1>6, Unopened DEF derived
  <2>3. LedgerTypeOK' /\ LedgerShape' /\ TransportsAccountedFor'
    BY <2>1, <2>2, StillTyped, Accounted
  <2> QED  BY <2>2, <2>3, NoticesKept DEF LedgerInv, ConnFits, ConnectedIsUsable
<1>7. ASSUME NEW t \in notices, notice(t) PROVE LedgerInv'
  <2>1. /\ orphaned' = orphaned \cup ({ref} \ {0, t}) /\ ref' = 0 /\ isConnected' = FALSE
        /\ notices' = notices \ {t} /\ SameTransports
        /\ UNCHANGED <<plugged, transports, conn, closing, addresses, deriving>>
    BY <1>7, Unopened DEF notice, Forget, resetConnection
  <2>2. ~transports[t].alive
    BY DEF LedgerInv, NoticesDead
  <2>3. \A u \in 1..Len(transports) : transports'[u].alive => u # t
    BY <2>1, <2>2
  <2>4. t \in 0..Len(transports)
    OBVIOUS
  <2> QED  BY <2>1, <2>3, <2>4, ForgetStep
<1> QED  BY <1>1, <1>2, <1>3, <1>4, <1>5, <1>6, <1>7 DEF LedgerEvent

LEMMA LedgerKept ==
  ASSUME LedgerInv, UNCHANGED ledgerVars
  PROVE  LedgerInv'
  BY DEF LedgerInv, ledgerVars, LedgerTypeOK, LedgerShape, ConnFits, NoticesDead,
         TransportsAccountedFor, ConnectedIsUsable

-----------------------------------------------------------------------------
(* The page: every step is a step of one hook that leaves the others alone.  *)

PageInv == Inv /\ RevealInv /\ LedgerInv

LEMMA AccountKept ==
  ASSUME Inv, UNCHANGED account
  PROVE  Inv'
<1>1. SessionInv'
  BY SessionKept DEF account, Inv
<1>2. BioInv' /\ UnlockFitsSession'
  BY BioUnchanged DEF account, sessionVars, bioVars, Inv, BioInv, BioTypeOK, UnlockFitsSession
<1> QED  BY <1>1, <1>2 DEF Inv

THEOREM PageInvariance == Spec => []PageInv
<1>1. Init => PageInv
  BY SessionInitially, BioInitially, RevealInitially, LedgerInitially DEF PageInv, Inv
<1>2. PageInv /\ [Next]_vars => PageInv'
  <2> SUFFICES ASSUME PageInv, [Next]_vars PROVE PageInv'
    OBVIOUS
  <2>1. Inv'
    <3>1. SessionCall \/ BioCall \/ SessionEvent \/ BioEvent \/ UNCHANGED account
      BY DEF Next, Call, Event, vars
    <3> QED
      BY <3>1, SessionCallStep, BioCallStep, SessionEventStep, BioEventStep, AccountKept DEF PageInv
  <2>2. RevealInv'
    <3>1. reveal \/ clear \/ RevealEvent \/ UNCHANGED revealVars
      BY DEF Next, Call, Event, vars
    <3> QED  BY <3>1, RevealStep DEF PageInv
  <2>3. LedgerInv'
    <3>1. LedgerCall \/ LedgerEvent \/ UNCHANGED ledgerVars
      BY DEF Next, Call, Event, vars
    <3> QED  BY <3>1, LedgerCallStep, LedgerEventStep, LedgerKept DEF PageInv
  <2> QED  BY <2>1, <2>2, <2>3 DEF PageInv
<1> QED  BY <1>1, <1>2, PTL DEF Spec

\* The states of the four hooks have the shapes their useState and useRef give.
THEOREM PageTyping == Spec => []TypeOK
<1>1. PageInv => TypeOK
  BY DEF PageInv, Inv, SessionInv, BioInv, RevealInv, LedgerInv, TypeOK
<1> QED  BY <1>1, PageInvariance, PTL

\* Late answers to AuthProvider's fetches never show: at rest the user is the account's.
THEOREM SettledFits == Spec => []SettledPageFits
<1>1. PageInv => SettledPageFits
  BY DEF PageInv, Inv, SessionInv, UserFits, SettledPageFits
<1> QED  BY <1>1, PageInvariance, PTL

\* The biometric marker of biometricUnlock.ts always has its blob.
THEOREM EnabledUsable == Spec => []EnabledMeansUsable
<1>1. PageInv => EnabledMeansUsable
  BY DEF PageInv, Inv, BioInv
<1> QED  BY <1>1, PageInvariance, PTL

\* What biometricUnlock.ts opens, and the key in memory, are the session's: every
\* change of session takes them along, but a key or a marker that a ceremony of
\* another session's sets at its end (useAuth.ts), and a login over a login.
THEOREM UnlockFits == Spec => []UnlockFitsSession
<1>1. PageInv => UnlockFitsSession
  BY DEF PageInv, Inv
<1> QED  BY <1>1, PageInvariance, PTL

\* No late reveal of useExportKey.ts outlives a clear.
THEOREM ClearedCleared == Spec => []ClearedStaysCleared
<1>1. PageInv => ClearedStaysCleared
  BY DEF PageInv, RevealInv
<1> QED  BY <1>1, PageInvariance, PTL

\* Every live transport of useSolanaLedger.ts has an owner.
THEOREM TransportsAccounted == Spec => []TransportsAccountedFor
<1>1. PageInv => TransportsAccountedFor
  BY DEF PageInv, LedgerInv
<1> QED  BY <1>1, PageInvariance, PTL

\* isConnected of useSolanaLedger.ts means a transport to talk to.
THEOREM ConnectedUsable == Spec => []ConnectedIsUsable
<1>1. PageInv => ConnectedIsUsable
  BY DEF PageInv, LedgerInv
<1> QED  BY <1>1, PageInvariance, PTL
=============================================================================
