------------------------- MODULE ClientVaultProofs --------------------------
(* The safety of ClientVault for any number of tabs and any auto-lock time:  *)
(* the one timer of a tab keeps step with the deadline of its key, and what  *)
(* a tab hears of is an explicit lock or logout.                             *)
EXTENDS ClientVault, TLAPS

\* A timer is set exactly while a key is armed, and is due at its deadline.
TimerInStep ==
  /\ ArmedKeyIsTimed
  /\ \A t \in Tab : timer[t] # Off => key[t]

InboxExplains ==
  \A t \in Tab : \A i \in 1..Len(inbox[t]) : inbox[t][i] # "set" => explicit

IInv == TypeOK /\ TimerInStep /\ InboxExplains /\ StaleStatusIsLazyExpiry

VaultType == /\ key \in [Tab -> BOOLEAN]
             /\ left \in [Tab -> -1..AutoLock]
             /\ timer \in [Tab -> {Off} \cup 0..AutoLock]
             /\ late \in [Tab -> BOOLEAN]

Event == {"set", "removed", "lock"}

-----------------------------------------------------------------------------
(* The functions of session.ts.                                              *)

LEMMA Arming ==
  ASSUME IInv, NEW t \in Tab, armAppKey(t), late' \in [Tab -> BOOLEAN]
  PROVE  VaultType' /\ TimerInStep' /\ key'[t] = TRUE
<1>1. /\ key'[t] = TRUE /\ left'[t] = AutoLock /\ timer'[t] = AutoLock
      /\ \A u \in Tab \ {t} : key'[u] = key[u] /\ left'[u] = left[u] /\ timer'[u] = timer[u]
      /\ key' \in [Tab -> BOOLEAN] /\ left' \in [Tab -> -1..AutoLock]
      /\ timer' \in [Tab -> {Off} \cup 0..AutoLock]
  BY AutoLockAssumption DEF armAppKey, scheduleLock, IInv, TypeOK, VaultType
<1>2. VaultType'
  BY <1>1 DEF VaultType
<1> QED  BY <1>1, <1>2, AutoLockAssumption DEF IInv, TimerInStep, ArmedKeyIsTimed, Off

LEMMA Touching ==
  ASSUME IInv, NEW t \in Tab, key[t], touchVault(t)
  PROVE  VaultType' /\ TimerInStep'
<1>1. /\ left'[t] = AutoLock /\ timer'[t] = AutoLock /\ key' = key
      /\ \A u \in Tab \ {t} : left'[u] = left[u] /\ timer'[u] = timer[u]
      /\ VaultType'
  BY AutoLockAssumption DEF touchVault, scheduleLock, IInv, TypeOK, VaultType
<1> QED  BY <1>1, AutoLockAssumption DEF IInv, TimerInStep, ArmedKeyIsTimed, Off

LEMMA Clearing ==
  ASSUME IInv, NEW t \in Tab, clearKeyState(t)
  PROVE  /\ VaultType' /\ TimerInStep' /\ key'[t] = FALSE /\ left'[t] = 0
         /\ \A u \in Tab \ {t} : key'[u] = key[u] /\ left'[u] = left[u] /\ late'[u] = late[u]
<1>1. /\ key'[t] = FALSE /\ left'[t] = 0 /\ timer'[t] = Off
      /\ \A u \in Tab \ {t} : /\ key'[u] = key[u] /\ left'[u] = left[u]
                            /\ timer'[u] = timer[u] /\ late'[u] = late[u]
      /\ VaultType'
  BY AutoLockAssumption DEF clearKeyState, IInv, TypeOK, VaultType
<1> QED  BY <1>1 DEF IInv, TimerInStep, ArmedKeyIsTimed

\* A tab that is told reads a status that fits its key.
LEMMA Notifying ==
  ASSUME IInv, NEW t \in Tab, notify(t), key' \in [Tab -> BOOLEAN],
         \A u \in Tab \ {t} : key'[u] = key[u]
  PROVE  /\ shown' \in [Tab -> Status] /\ silent' \in [Tab -> BOOLEAN]
         /\ StaleStatusIsLazyExpiry'
<1>1. getAuthStatus(t) \in Status /\ (getAuthStatus(t) = "authenticated" => key'[t])
  BY DEF getAuthStatus, Status
<1>2. /\ shown' \in [Tab -> Status] /\ shown'[t] = getAuthStatus(t)
      /\ silent' \in [Tab -> BOOLEAN]
      /\ \A u \in Tab \ {t} : shown'[u] = shown[u] /\ silent'[u] = silent[u]
  BY <1>1 DEF notify, IInv, TypeOK
<1> QED  BY <1>1, <1>2 DEF IInv, StaleStatusIsLazyExpiry

LEMMA Dropping ==
  ASSUME IInv, NEW t \in Tab, dropKey(t)
  PROVE  /\ VaultType' /\ TimerInStep' /\ key'[t] = FALSE /\ left'[t] = 0 /\ token' = token
         /\ \A u \in Tab \ {t} : key'[u] = key[u] /\ left'[u] = left[u] /\ late'[u] = late[u]
         /\ shown' \in [Tab -> Status] /\ silent' \in [Tab -> BOOLEAN]
         /\ StaleStatusIsLazyExpiry'
<1>1. /\ VaultType' /\ TimerInStep' /\ key'[t] = FALSE /\ left'[t] = 0 /\ token' = token
      /\ \A u \in Tab \ {t} : key'[u] = key[u] /\ left'[u] = left[u] /\ late'[u] = late[u]
  BY Clearing DEF dropKey
<1>2. CASE key[t]
  BY <1>1, <1>2, Notifying DEF dropKey, VaultType
<1>3. CASE ~key[t]
  BY <1>1, <1>3 DEF dropKey, IInv, TypeOK, StaleStatusIsLazyExpiry
<1> QED  BY <1>1, <1>2, <1>3

LEMMA Signalling ==
  ASSUME IInv, NEW t \in Tab, NEW what \in Event, Signal(t, what),
         explicit' \in BOOLEAN, explicit => explicit', what # "set" => explicit'
  PROVE  inbox' \in [Tab -> Seq(Event)] /\ InboxExplains'
<1>1. inbox \in [Tab -> Seq(Event)]
  BY DEF IInv, TypeOK, Event
<1>2. inbox' \in [Tab -> Seq(Event)]
  BY <1>1 DEF Signal
<1>3. ASSUME NEW u \in Tab, NEW i \in 1..Len(inbox'[u]), inbox'[u][i] # "set" PROVE explicit'
  <2>1. CASE u = t
    BY <1>1, <1>3, <2>1 DEF Signal, IInv, InboxExplains
  <2>2. CASE u # t
    <3>1. inbox'[u] = Append(inbox[u], what) /\ inbox[u] \in Seq(Event)
      BY <1>1, <2>2 DEF Signal
    <3>2. i = Len(inbox[u]) + 1 \/ i \in 1..Len(inbox[u])
      BY <3>1
    <3> QED  BY <1>3, <3>1, <3>2 DEF IInv, InboxExplains
  <2> QED  BY <2>1, <2>2
<1> QED  BY <1>2, <1>3 DEF InboxExplains

-----------------------------------------------------------------------------
(* Steps. The page's own flow and visibility, and the queues, on the side.   *)

Rest == flow \in [Tab -> {"idle", "login", "unlock"}]
        /\ page \in [Tab -> {"visible", "hidden", "frozen"}]

LEMMA Assemble ==
  ASSUME VaultType, Rest, token \in BOOLEAN, shown \in [Tab -> Status],
         silent \in [Tab -> BOOLEAN], explicit \in BOOLEAN, inbox \in [Tab -> Seq(Event)],
         TimerInStep, InboxExplains, StaleStatusIsLazyExpiry
  PROVE  IInv
  BY DEF IInv, TypeOK, VaultType, Rest, Event

\* Neither the queues nor what they explain are touched.
LEMMA QuietInbox ==
  ASSUME IInv, UNCHANGED inbox, explicit' \in BOOLEAN, explicit => explicit'
  PROVE  inbox' \in [Tab -> Seq(Event)] /\ InboxExplains'
  BY DEF IInv, TypeOK, InboxExplains, Event

\* A flow begins or is abandoned, or the page comes back to view.
LEMMA IdleStep ==
  ASSUME IInv, UNCHANGED <<token, vault, shown, inbox, silent, explicit>>, Rest'
  PROVE  IInv'
  BY DEF IInv, TypeOK, TimerInStep, ArmedKeyIsTimed, InboxExplains, StaleStatusIsLazyExpiry, vault, Rest

LEMMA PageIdle ==
  ASSUME IInv, NEW t \in Tab,
         \/ \E what \in {"login", "unlock"} : Start(t, what)
         \/ Abandon(t) \/ resume(t)
  PROVE  IInv'
<1>1. Rest'
  BY DEF Start, Abandon, resume, IInv, TypeOK, Rest
<1> QED  BY <1>1, IdleStep DEF Start, Abandon, resume

LEMMA setSessionStep ==
  ASSUME IInv, NEW t \in Tab, setSession(t)
  PROVE  IInv'
<1>1. VaultType' /\ TimerInStep' /\ \A u \in Tab \ {t} : key'[u] = key[u]
  BY Arming DEF setSession, armAppKey, IInv, TypeOK
<1>2. /\ shown' \in [Tab -> Status] /\ silent' \in [Tab -> BOOLEAN]
      /\ StaleStatusIsLazyExpiry'
  BY <1>1, Notifying DEF setSession, VaultType
<1>3. explicit' = explicit /\ explicit \in BOOLEAN /\ Signal(t, "set")
  BY DEF setSession, IInv, TypeOK
<1>4. inbox' \in [Tab -> Seq(Event)] /\ InboxExplains'
  BY <1>3, Signalling DEF Event
<1>5. Rest' /\ token' = TRUE
  BY DEF setSession, IInv, TypeOK, Rest
<1> QED  BY <1>1, <1>2, <1>3, <1>4, <1>5, Assemble DEF IInv, TypeOK, VaultType, Rest, Event

LEMMA unlockStep ==
  ASSUME IInv, NEW t \in Tab, unlock(t)
  PROVE  IInv'
<1>1. VaultType' /\ TimerInStep' /\ \A u \in Tab \ {t} : key'[u] = key[u]
  BY Arming DEF unlock, armAppKey, IInv, TypeOK
<1>2. /\ shown' \in [Tab -> Status] /\ silent' \in [Tab -> BOOLEAN]
      /\ StaleStatusIsLazyExpiry'
  BY <1>1, Notifying DEF unlock, VaultType
<1>3. inbox' \in [Tab -> Seq(Event)] /\ InboxExplains' /\ explicit' \in BOOLEAN
  BY QuietInbox DEF unlock, IInv, TypeOK
<1>4. Rest' /\ token' \in BOOLEAN
  BY DEF unlock, IInv, TypeOK, Rest
<1> QED  BY <1>1, <1>2, <1>3, <1>4 DEF IInv, TypeOK, VaultType, Rest, Event

LEMMA signStep ==
  ASSUME IInv, NEW t \in Tab, sign(t)
  PROVE  IInv'
<1>1. VaultType' /\ TimerInStep' /\ key' = key
  BY Touching DEF sign, touchVault
<1>2. inbox' \in [Tab -> Seq(Event)] /\ InboxExplains'
  BY QuietInbox DEF sign, IInv, TypeOK
<1> QED
  BY <1>1, <1>2 DEF sign, IInv, TypeOK, VaultType, Event, StaleStatusIsLazyExpiry

LEMMA isLockedStep ==
  ASSUME IInv, NEW t \in Tab, isLocked(t)
  PROVE  IInv'
<1>1. VaultType' /\ TimerInStep' /\ \A u \in Tab \ {t} : key'[u] = key[u]
  BY Clearing DEF isLocked
<1>2. inbox' \in [Tab -> Seq(Event)] /\ InboxExplains'
  BY QuietInbox DEF isLocked, IInv, TypeOK
<1>3. silent' \in [Tab -> BOOLEAN] /\ StaleStatusIsLazyExpiry'
  BY <1>1 DEF isLocked, IInv, TypeOK, StaleStatusIsLazyExpiry
<1> QED  BY <1>1, <1>2, <1>3 DEF isLocked, IInv, TypeOK, VaultType, Event

LEMMA refreshStep ==
  ASSUME IInv, NEW t \in Tab, refresh(t)
  PROVE  IInv'
<1>1. VaultType' /\ TimerInStep' /\ \A u \in Tab \ {t} : key'[u] = key[u]
  <2>1. CASE Overdue(t)
    BY <2>1, Clearing DEF refresh
  <2>2. CASE ~Overdue(t)
    BY <2>2 DEF refresh, vault, IInv, TypeOK, VaultType, TimerInStep, ArmedKeyIsTimed
  <2> QED  BY <2>1, <2>2
<1>2. /\ shown' \in [Tab -> Status] /\ silent' \in [Tab -> BOOLEAN]
      /\ StaleStatusIsLazyExpiry'
  BY <1>1, Notifying DEF refresh, VaultType
<1>3. inbox' \in [Tab -> Seq(Event)] /\ InboxExplains'
  BY QuietInbox DEF refresh, IInv, TypeOK
<1> QED  BY <1>1, <1>2, <1>3 DEF refresh, IInv, TypeOK, VaultType, Event

LEMMA lockStep ==
  ASSUME IInv, NEW t \in Tab, lock(t) \/ clearSession(t)
  PROVE  IInv'
<1>1. VaultType' /\ TimerInStep' /\ \A u \in Tab \ {t} : key'[u] = key[u]
  BY Clearing DEF lock, clearSession
<1>2. /\ shown' \in [Tab -> Status] /\ silent' \in [Tab -> BOOLEAN]
      /\ StaleStatusIsLazyExpiry'
  BY <1>1, Notifying DEF lock, clearSession, VaultType
<1>3. explicit' = TRUE
  BY DEF lock, clearSession
<1>4. \/ Signal(t, "lock") \/ Signal(t, "removed") \/ UNCHANGED inbox
  BY DEF lock, clearSession
<1>5. inbox' \in [Tab -> Seq(Event)] /\ InboxExplains'
  BY <1>3, <1>4, QuietInbox, Signalling DEF Event
<1>6. token' \in BOOLEAN /\ UNCHANGED <<flow, page>>
  BY DEF lock, clearSession, IInv, TypeOK
<1> QED  BY <1>1, <1>2, <1>3, <1>5, <1>6 DEF IInv, TypeOK, VaultType, Event

LEMMA reloadStep ==
  ASSUME IInv, NEW t \in Tab, reload(t)
  PROVE  IInv'
<1>1. VaultType' /\ TimerInStep' /\ \A u \in Tab \ {t} : key'[u] = key[u]
  BY Clearing DEF reload
<1>2. /\ shown' \in [Tab -> Status] /\ silent' \in [Tab -> BOOLEAN]
      /\ StaleStatusIsLazyExpiry'
  BY <1>1, Notifying DEF reload, VaultType
<1>3. inbox' \in [Tab -> Seq(Event)] /\ InboxExplains'
  BY DEF reload, IInv, TypeOK, InboxExplains, Event
<1>4. Rest'
  BY DEF reload, IInv, TypeOK, Rest
<1> QED  BY <1>1, <1>2, <1>3, <1>4 DEF reload, IInv, TypeOK, VaultType, Rest, Event

\* Every automatic lock: of the timer, of a page that goes away, of one that is back.
LEMMA lockVaultStep ==
  ASSUME IInv, NEW t \in Tab, lockVault(t, FALSE), explicit' = explicit,
         page' \in [Tab -> {"visible", "hidden", "frozen"}]
  PROVE  IInv'
<1>1. /\ VaultType' /\ TimerInStep' /\ token' = token
      /\ shown' \in [Tab -> Status] /\ silent' \in [Tab -> BOOLEAN]
      /\ StaleStatusIsLazyExpiry'
  BY Dropping DEF lockVault
<1>2. inbox' \in [Tab -> Seq(Event)] /\ InboxExplains'
  BY QuietInbox DEF lockVault, IInv, TypeOK
<1>3. flow' = flow
  BY DEF lockVault
<1> QED  BY <1>1, <1>2, <1>3 DEF IInv, TypeOK, VaultType, Event

LEMMA storageStep ==
  ASSUME IInv, NEW t \in Tab, storage(t)
  PROVE  IInv'
<1>1. /\ VaultType' /\ TimerInStep' /\ token' = token
      /\ shown' \in [Tab -> Status] /\ silent' \in [Tab -> BOOLEAN]
      /\ StaleStatusIsLazyExpiry'
  <2>1. CASE LocksOn(Head(inbox[t]))
    BY <2>1, Dropping DEF storage
  <2>2. CASE ~LocksOn(Head(inbox[t]))
    BY <2>2 DEF storage, vault, IInv, TypeOK, VaultType, TimerInStep, ArmedKeyIsTimed, StaleStatusIsLazyExpiry
  <2> QED  BY <2>1, <2>2
<1>2. inbox \in [Tab -> Seq(Event)] /\ inbox[t] # <<>>
      /\ inbox' = [inbox EXCEPT ![t] = Tail(@)] /\ explicit' = explicit
  BY DEF storage, IInv, TypeOK, Event
<1>3. inbox' \in [Tab -> Seq(Event)]
  BY <1>2
<1>4. ASSUME NEW u \in Tab, NEW i \in 1..Len(inbox'[u]), inbox'[u][i] # "set" PROVE explicit
  <2>1. CASE u # t
    BY <1>2, <1>4, <2>1 DEF IInv, InboxExplains
  <2>2. CASE u = t
    <3>1. inbox'[u] = Tail(inbox[u]) /\ inbox[u] \in Seq(Event) /\ inbox[u] # <<>>
      BY <1>2, <2>2
    <3>2. inbox'[u][i] = inbox[u][i + 1] /\ i + 1 \in 1..Len(inbox[u])
      BY <3>1
    <3> QED  BY <1>4, <3>2 DEF IInv, InboxExplains
  <2> QED  BY <2>1, <2>2
<1>5. InboxExplains'
  BY <1>2, <1>4 DEF InboxExplains
<1> QED  BY <1>1, <1>2, <1>3, <1>5 DEF storage, IInv, TypeOK, VaultType, Event

LEMMA TickStep ==
  ASSUME IInv, Tick
  PROVE  IInv'
<1>1. VaultType'
  <2>1. left' \in [Tab -> -1..AutoLock]
    BY AutoLockAssumption DEF Tick, IInv, TypeOK
  <2>2. timer' \in [Tab -> {Off} \cup 0..AutoLock]
    <3>1. ASSUME NEW t \in Tab
          PROVE  (IF timer[t] > 0 THEN timer[t] - 1 ELSE timer[t]) \in {Off} \cup 0..AutoLock
      <4>1. timer[t] \in {Off} \cup 0..AutoLock
        BY DEF IInv, TypeOK
      <4> QED  BY <4>1, AutoLockAssumption DEF Off
    <3> QED  BY <3>1 DEF Tick
  <2> QED  BY <2>1, <2>2 DEF Tick, IInv, TypeOK, VaultType
<1>2. TimerInStep'
  BY <1>1 DEF Tick, IInv, TypeOK, TimerInStep, ArmedKeyIsTimed, Off
<1>3. inbox' \in [Tab -> Seq(Event)] /\ InboxExplains'
  BY QuietInbox DEF Tick, IInv, TypeOK
<1> QED
  BY <1>1, <1>2, <1>3 DEF Tick, IInv, TypeOK, VaultType, StaleStatusIsLazyExpiry, Event

LEMMA InitIInv == Init => IInv
<1> SUFFICES ASSUME Init PROVE IInv
  OBVIOUS
<1>1. TypeOK
  <2>1. inbox \in [Tab -> Seq({"set", "removed", "lock"})]
    BY DEF Init
  <2>2. left \in [Tab -> -1..AutoLock] /\ timer \in [Tab -> {Off} \cup 0..AutoLock]
    BY AutoLockAssumption DEF Init
  <2> QED  BY <2>1, <2>2 DEF Init, TypeOK, Status
<1> QED  BY <1>1 DEF Init, IInv, TimerInStep, ArmedKeyIsTimed, InboxExplains, StaleStatusIsLazyExpiry

LEMMA NextIInv == IInv /\ [Next]_vars => IInv'
<1> SUFFICES ASSUME IInv, [Next]_vars PROVE IInv'
  OBVIOUS
<1>1. CASE Tick
  BY <1>1, TickStep
<1>2. ASSUME NEW t \in Tab, PageStep(t) PROVE IInv'
  BY <1>2, PageIdle, setSessionStep, unlockStep, signStep, isLockedStep, refreshStep,
     lockStep, reloadStep DEF PageStep
<1>3. ASSUME NEW t \in Tab, BrowserStep(t) PROVE IInv'
  <2>1. CASE timerFires(t)
    BY <2>1, lockVaultStep DEF timerFires, IInv, TypeOK
  <2>2. CASE storage(t)
    BY <2>2, storageStep
  <2>3. CASE hide(t) \/ freeze(t)
    <3>1. page' \in [Tab -> {"visible", "hidden", "frozen"}]
      BY <2>3 DEF hide, freeze, IInv, TypeOK
    <3>2. CASE t \in LockOnHide
      BY <2>3, <3>1, <3>2, lockVaultStep DEF hide, freeze
    <3>3. CASE t \notin LockOnHide
      BY <2>3, <3>1, <3>3, IdleStep DEF hide, freeze, Rest, IInv, TypeOK
    <3> QED  BY <3>2, <3>3
  <2>4. CASE pageshow(t)
    <3>1. page' \in [Tab -> {"visible", "hidden", "frozen"}]
      BY <2>4 DEF pageshow, IInv, TypeOK
    <3> QED  BY <2>4, <3>1, lockVaultStep DEF pageshow
  <2>5. CASE resume(t)
    BY <2>5, PageIdle
  <2> QED  BY <1>3, <2>1, <2>2, <2>3, <2>4, <2>5 DEF BrowserStep
<1>4. CASE UNCHANGED vars
  BY <1>4 DEF vars, vault, IInv, TypeOK, TimerInStep, ArmedKeyIsTimed, InboxExplains, StaleStatusIsLazyExpiry
<1> QED  BY <1>1, <1>2, <1>3, <1>4 DEF Next

-----------------------------------------------------------------------------
(* A logout is under way to every page that outlives its session.            *)

LEMMA ToldAppend ==
  ASSUME NEW s \in Seq(Event), NEW what \in Event
  PROVE  /\ \A i \in 1..Len(s) : i \in 1..Len(Append(s, what)) /\ Append(s, what)[i] = s[i]
         /\ Len(s) + 1 \in 1..Len(Append(s, what)) /\ Append(s, what)[Len(s) + 1] = what
OBVIOUS

\* Who is told stays told while events are only added, and a logout tells all others.
LEMMA StaysTold ==
  ASSUME IInv, NEW t \in Tab, NEW what \in Event, Signal(t, what), NEW u \in Tab \ {t}
  PROVE  Told(u) \/ what = "removed" => Told(u)'
<1>1. inbox[u] \in Seq(Event) /\ inbox'[u] = Append(inbox[u], what)
  BY DEF Signal, IInv, TypeOK, Event
<1> QED  BY <1>1, ToldAppend DEF Told

\* What a step of t's page does to its own news and to everybody else's.
LEMMA OwnStep ==
  ASSUME IInv, LogoutIsUnderWay, NEW t \in Tab,
         \A u \in Tab \ {t} : key'[u] = key[u] /\ late'[u] = late[u],
         \A u \in Tab \ {t} : Told(u) => Told(u)',
         token \/ token' = token,
         token /\ ~token' => \A u \in Tab \ {t} : Told(u)',
         key'[t] /\ ~late'[t] => token'
  PROVE  LogoutIsUnderWay'
BY DEF LogoutIsUnderWay

\* Every drop of a key: by the timer, by the page, by an event.
LEMMA DropTold ==
  ASSUME IInv, LogoutIsUnderWay, NEW t \in Tab, dropKey(t),
         \A u \in Tab \ {t} : inbox'[u] = inbox[u]
  PROVE  LogoutIsUnderWay'
<1>1. /\ key'[t] = FALSE /\ token' = token
      /\ \A u \in Tab \ {t} : key'[u] = key[u] /\ late'[u] = late[u]
  BY Dropping
<1>2. \A u \in Tab \ {t} : Told(u) => Told(u)'
  BY DEF Told
<1> QED  BY <1>1, <1>2, OwnStep

LEMMA NewsPageStep ==
  ASSUME IInv, LogoutIsUnderWay, NEW t \in Tab, PageStep(t)
  PROVE  LogoutIsUnderWay'
<1>1. CASE (\E what \in {"login", "unlock"} : Start(t, what)) \/ Abandon(t) \/ sign(t)
  BY <1>1 DEF Start, Abandon, sign, touchVault, vault, LogoutIsUnderWay, Told
<1>2. CASE setSession(t)
  <2>1. token' = TRUE
    BY <1>2 DEF setSession
  <2> QED  BY <2>1 DEF LogoutIsUnderWay
<1>3. CASE unlock(t)
  <2>1. /\ token' = token /\ inbox' = inbox /\ late'[t] = ~token
        /\ \A u \in Tab \ {t} : key'[u] = key[u] /\ late'[u] = late[u]
    BY <1>3 DEF unlock, armAppKey, IInv, TypeOK
  <2> QED  BY <2>1, OwnStep DEF Told
<1>4. CASE isLocked(t)
  <2>1. clearKeyState(t) /\ UNCHANGED <<token, inbox>>
    BY <1>4 DEF isLocked
  <2> QED  BY <2>1, Clearing, OwnStep DEF Told
<1>5. CASE refresh(t)
  <2>1. token' = token /\ inbox' = inbox /\ (clearKeyState(t) \/ UNCHANGED vault)
    BY <1>5 DEF refresh
  <2>2. CASE clearKeyState(t)
    BY <2>1, <2>2, Clearing, OwnStep DEF Told
  <2>3. CASE UNCHANGED vault
    BY <2>1, <2>3 DEF vault, LogoutIsUnderWay, Told
  <2> QED  BY <2>1, <2>2, <2>3
<1>6. CASE lock(t)
  <2>1. token' = token /\ clearKeyState(t) /\ Signal(t, "lock")
    BY <1>6 DEF lock
  <2>2. \A u \in Tab \ {t} : Told(u) => Told(u)'
    BY <2>1, StaysTold DEF Event
  <2> QED  BY <2>1, <2>2, Clearing, OwnStep
<1>7. CASE clearSession(t)
  <2>1. clearKeyState(t) /\ ~token'
    BY <1>7 DEF clearSession
  <2>2. CASE token
    <3>1. Signal(t, "removed")
      BY <1>7, <2>2 DEF clearSession
    <3>2. \A u \in Tab \ {t} : Told(u)'
      BY <3>1, StaysTold DEF Event
    <3> QED  BY <2>1, <2>2, <3>2, Clearing, OwnStep
  <2>3. CASE ~token
    <3>1. inbox' = inbox /\ token' = token
      BY <1>7, <2>1, <2>3 DEF clearSession, IInv, TypeOK
    <3> QED  BY <2>1, <3>1, Clearing, OwnStep DEF Told
  <2> QED  BY <2>2, <2>3
<1>8. CASE reload(t)
  <2>1. /\ token' = token /\ clearKeyState(t)
        /\ \A u \in Tab \ {t} : inbox'[u] = inbox[u]
    BY <1>8 DEF reload, IInv, TypeOK
  <2>2. \A u \in Tab \ {t} : Told(u) => Told(u)'
    BY <2>1 DEF Told
  <2>3. ~key'[t] /\ \A u \in Tab \ {t} : key'[u] = key[u] /\ late'[u] = late[u]
    BY <2>1, Clearing
  <2> QED  BY <2>1, <2>2, <2>3, OwnStep
<1> QED  BY <1>1, <1>2, <1>3, <1>4, <1>5, <1>6, <1>7, <1>8 DEF PageStep

\* Only an event that is no logout is taken from a tab that keeps its key.
LEMMA NewsStorage ==
  ASSUME IInv, LogoutIsUnderWay, NEW t \in Tab, storage(t)
  PROVE  LogoutIsUnderWay'
<1>1. /\ inbox[t] \in Seq(Event) /\ inbox[t] # <<>> /\ inbox'[t] = Tail(inbox[t])
      /\ \A u \in Tab \ {t} : inbox'[u] = inbox[u]
  BY DEF storage, IInv, TypeOK, Event
<1>2. CASE LocksOn(Head(inbox[t]))
  BY <1>1, <1>2, DropTold DEF storage
<1>3. CASE ~LocksOn(Head(inbox[t]))
  <2>1. UNCHANGED <<token, vault>>
    BY <1>3 DEF storage
  <2>2. Told(t) => Told(t)'
    <3>1. SUFFICES ASSUME NEW i \in 1..Len(inbox[t]), inbox[t][i] = "removed"
                   PROVE  Told(t)'
      BY DEF Told
    <3>2. i # 1
      BY <1>1, <1>3, <3>1 DEF LocksOn
    <3>3. i - 1 \in 1..Len(Tail(inbox[t])) /\ Tail(inbox[t])[i - 1] = inbox[t][i]
      BY <1>1, <3>2
    <3> QED  BY <1>1, <3>1, <3>3 DEF Told
  <2> QED  BY <1>1, <2>1, <2>2 DEF LogoutIsUnderWay, Told, vault
<1> QED  BY <1>2, <1>3

LEMMA NewsStep ==
  ASSUME IInv, LogoutIsUnderWay, [Next]_vars
  PROVE  LogoutIsUnderWay'
<1>1. CASE Tick \/ UNCHANGED vars
  BY <1>1 DEF Tick, vars, vault, LogoutIsUnderWay, Told
<1>2. ASSUME NEW t \in Tab, BrowserStep(t) PROVE LogoutIsUnderWay'
  <2>1. CASE timerFires(t) \/ hide(t) \/ freeze(t) \/ pageshow(t) \/ resume(t)
    <3>1. inbox' = inbox /\ (dropKey(t) \/ UNCHANGED <<token, vault>>)
      BY <2>1 DEF timerFires, hide, freeze, pageshow, resume, lockVault
    <3> QED  BY <3>1, DropTold DEF LogoutIsUnderWay, Told, vault
  <2>2. CASE storage(t)
    BY <2>2, NewsStorage
  <2> QED  BY <1>2, <2>1, <2>2 DEF BrowserStep
<1> QED  BY <1>1, <1>2, NewsPageStep DEF Next

-----------------------------------------------------------------------------
(* The theorems.                                                             *)

THEOREM Invariance == Spec => []IInv
<1> QED  BY InitIInv, NextIInv, PTL DEF Spec

\* Keys, deadlines, timers and queues have the shapes session.ts gives them.
THEOREM Typing == Spec => []TypeOK
<1>1. IInv => TypeOK
  BY DEF IInv
<1> QED  BY <1>1, Invariance, PTL

\* The safety behind the automatic lock of session.ts: no order of arming, use,
\* lazy expiry and late timers leaves an armed key without its timer.
THEOREM ArmedKeysAreTimed == Spec => []ArmedKeyIsTimed
<1>1. IInv => ArmedKeyIsTimed
  BY DEF IInv, TimerInStep
<1> QED  BY <1>1, Invariance, PTL

\* The safety behind clearSession's reach: a key that is armed without a token in
\* localStorage, and was not armed so, has the event of the logout still to come.
THEOREM LogoutsUnderWay == Spec => []LogoutIsUnderWay
<1>1. Init => LogoutIsUnderWay
  BY DEF Init, LogoutIsUnderWay
<1> QED  BY <1>1, Invariance, NewsStep, PTL DEF Spec

\* AuthProvider's status is stale for one reason, the lazy expiry of isLocked.
THEOREM StaleStatus == Spec => []StaleStatusIsLazyExpiry
<1>1. IInv => StaleStatusIsLazyExpiry
  BY DEF IInv
<1> QED  BY <1>1, Invariance, PTL

\* Until somebody locks or logs out, session.ts takes a key from a tab only at
\* its own deadline or for what happens to its own page: the timer is never
\* left over from an earlier use, and no event of a sibling's timer arrives.
THEOREM AutoLockLocal == Spec => AutoLockStaysLocal
<1>1. ASSUME IInv, [Next]_vars, NEW t \in Tab, key[t], ~key'[t], ~explicit'
      PROVE  left[t] <= 0 \/ page'[t] # page[t] \/ reload(t)
  <2>1. CASE Tick \/ UNCHANGED vars
    BY <1>1, <2>1 DEF Tick, vars, vault
  <2>2. ASSUME NEW u \in Tab, PageStep(u)
        PROVE  left[t] <= 0 \/ page'[t] # page[t] \/ reload(t)
    <3>1. CASE (\E what \in {"login", "unlock"} : Start(u, what)) \/ Abandon(u)
      BY <1>1, <3>1 DEF Start, Abandon, vault
    <3>2. CASE setSession(u) \/ unlock(u)
      BY <1>1, <3>2 DEF setSession, unlock, armAppKey, IInv, TypeOK
    <3>3. CASE sign(u)
      BY <1>1, <3>3 DEF sign, touchVault
    <3>4. CASE isLocked(u) \/ refresh(u)
      <4>1. key' = key \/ (Overdue(u) /\ clearKeyState(u))
        BY <3>4 DEF isLocked, refresh, vault
      <4>2. u = t
        BY <1>1, <4>1, Clearing
      <4>3. Overdue(u)
        BY <1>1, <4>1, <4>2
      <4>4. left[t] \in -1..AutoLock
        BY <1>1 DEF IInv, TypeOK
      <4> QED  BY <4>2, <4>3, <4>4, AutoLockAssumption DEF Overdue
    <3>5. CASE lock(u) \/ clearSession(u)
      BY <1>1, <3>5 DEF lock, clearSession
    <3>6. CASE reload(u)
      <4>1. clearKeyState(u)
        BY <3>6 DEF reload
      <4>2. u # t => key'[t] = key[t]
        BY <1>1, <4>1, Clearing
      <4>3. u = t => reload(t)
        BY <3>6 DEF reload, clearKeyState, notify, getAuthStatus
      <4> QED  BY <1>1, <4>2, <4>3
    <3> QED  BY <2>2, <3>1, <3>2, <3>3, <3>4, <3>5, <3>6 DEF PageStep
  <2>3. ASSUME NEW u \in Tab, BrowserStep(u)
        PROVE  left[t] <= 0 \/ page'[t] # page[t] \/ reload(t)
    <3>1. CASE timerFires(u)
      <4>1. left[u] <= 0
        <5>1. timer[u] = 0 /\ timer[u] # Off
          BY <3>1 DEF timerFires, Off
        <5> QED  BY <1>1, <5>1 DEF IInv, TimerInStep, ArmedKeyIsTimed
      <4> QED  BY <1>1, <3>1, <4>1, Dropping DEF timerFires, lockVault
    <3>2. CASE storage(u)
      <4>1. inbox[u] # <<>> /\ inbox[u] \in Seq(Event) /\ explicit' = explicit
        BY <1>1, <3>2 DEF storage, IInv, TypeOK, Event
      <4>2. Head(inbox[u]) = inbox[u][1] /\ 1 \in 1..Len(inbox[u])
        BY <4>1
      <4>3. ~LocksOn(Head(inbox[u]))
        BY <1>1, <4>1, <4>2 DEF LocksOn, IInv, InboxExplains
      <4> QED  BY <1>1, <3>2, <4>3 DEF storage, vault
    <3>3. CASE hide(u) \/ freeze(u) \/ pageshow(u)
      <4>1. page'[u] # page[u]
        BY <1>1, <3>3 DEF hide, freeze, pageshow, Runs, IInv, TypeOK
      <4>2. key' = key \/ lockVault(u, FALSE)
        BY <3>3 DEF hide, freeze, pageshow, vault
      <4> QED  BY <1>1, <4>1, <4>2, Dropping DEF lockVault
    <3>4. CASE resume(u)
      BY <1>1, <3>4 DEF resume, vault
    <3> QED  BY <2>3, <3>1, <3>2, <3>3, <3>4 DEF BrowserStep
  <2> QED  BY <1>1, <2>1, <2>2, <2>3 DEF Next
<1>2. IInv /\ [Next]_vars =>
        [\A t \in Tab : key[t] /\ ~key'[t] /\ ~explicit' =>
           left[t] <= 0 \/ page'[t] # page[t] \/ reload(t)]_vars
  BY <1>1
<1> QED  BY <1>2, Invariance, PTL DEF Spec, AutoLockStaysLocal

\* No use of an overdue key is let through: getAppKey and touchVault look at the
\* deadline first, however late the timer is.
THEOREM OverdueNeverExtended == Spec => OverdueKeyNeverExtended
<1>1. ASSUME IInv, [Next]_vars, NEW t \in Tab, Overdue(t)
      PROVE  left'[t] < 0 \/ ~key'[t] \/ flow[t] # "idle"
  <2>1. CASE Tick \/ UNCHANGED vars
    <3>1. left \in [Tab -> -1..AutoLock]
      BY <1>1 DEF IInv, TypeOK
    <3> QED  BY <1>1, <2>1, <3>1, AutoLockAssumption DEF Tick, vars, vault, Overdue
  <2>2. ASSUME NEW u \in Tab, PageStep(u)
        PROVE  left'[t] < 0 \/ ~key'[t] \/ flow[t] # "idle"
    <3>1. CASE (\E what \in {"login", "unlock"} : Start(u, what)) \/ Abandon(u)
      BY <1>1, <3>1 DEF Start, Abandon, vault, Overdue
    <3>2. CASE setSession(u) \/ unlock(u)
      BY <1>1, <3>2 DEF setSession, unlock, armAppKey, Overdue, IInv, TypeOK
    <3>3. CASE sign(u)
      BY <1>1, <3>3 DEF sign, touchVault, Overdue, IInv, TypeOK
    <3>4. CASE isLocked(u) \/ refresh(u) \/ lock(u) \/ clearSession(u) \/ reload(u)
      <4>1. UNCHANGED vault \/ clearKeyState(u)
        BY <3>4 DEF isLocked, refresh, lock, clearSession, reload
      <4> QED  BY <1>1, <4>1, Clearing DEF vault, Overdue
    <3> QED  BY <2>2, <3>1, <3>2, <3>3, <3>4 DEF PageStep
  <2>3. ASSUME NEW u \in Tab, BrowserStep(u)
        PROVE  left'[t] < 0 \/ ~key'[t] \/ flow[t] # "idle"
    <3>1. UNCHANGED vault \/ clearKeyState(u)
      BY <2>3 DEF BrowserStep, timerFires, storage, hide, freeze, pageshow, resume,
                  lockVault, dropKey
    <3> QED  BY <1>1, <3>1, Clearing DEF vault, Overdue
  <2> QED  BY <1>1, <2>1, <2>2, <2>3 DEF Next
<1>2. IInv /\ [Next]_vars =>
        [\A t \in Tab : Overdue(t) => left'[t] < 0 \/ ~key'[t] \/ flow[t] # "idle"]_vars
  BY <1>1
<1> QED  BY <1>2, Invariance, PTL DEF Spec, OverdueKeyNeverExtended
=============================================================================
