---------------------------- MODULE ClientVault -----------------------------
(* The app-key vault of client/session.ts in several tabs of one origin.     *)
(* Each tab holds its key in memory, with a deadline and one timer; the tabs *)
(* share localStorage (here: whether an account's token is in it) and hear   *)
(* of each other's logouts and locks through storage events, which arrive    *)
(* later and in order. AuthProvider shows each tab the status it last read,  *)
(* which nothing asks for: a ceremony may be begun, and the key be used, in  *)
(* whatever session there is, or in none.                                    *)
(*                                                                           *)
(* Time is relative: left[t] is what remains until the deadline, -1 once it  *)
(* has passed. A timer that is due may fire arbitrarily late, and in a       *)
(* frozen page nothing runs at all.                                          *)
EXTENDS Integers, Sequences

CONSTANTS Tab,         \* the open tabs
          AutoLock,    \* autoLockMs, in ticks
          LockOnHide,  \* the tabs whose AuthClient is configured lockOnHide
          MaxInbox     \* bound: storage events under way to one tab

ASSUME AutoLockAssumption == AutoLock \in Nat \ {0}
ASSUME LockOnHideAssumption == LockOnHide \subseteq Tab
ASSUME MaxInboxAssumption == MaxInbox \in Nat

Off == -2              \* no timer is set

VARIABLES
  token,     \* localStorage holds a token and public key
  key,       \* key[t]: memoryAppKey is armed
  left,      \* left[t]: lockDeadline - now
  timer,     \* timer[t]: ticks until lockTimer is due, or Off
  shown,     \* shown[t]: the status AuthProvider last read
  flow,      \* flow[t]: the ceremony under way
  page,      \* page[t]: visible, hidden or frozen
  inbox,     \* inbox[t]: storage events under way to t
  silent,    \* history: t's key was dropped by a lazy expiry, unannounced
  late,      \* history: t's key was armed with nobody signed in, nor since then
  explicit   \* history: some page locked or logged out

vault == <<key, left, timer, late>>
vars == <<token, vault, shown, flow, page, inbox, silent, explicit>>

Status == {"authenticated", "session_expired", "unauthenticated"}

TypeOK ==
  /\ token \in BOOLEAN
  /\ key \in [Tab -> BOOLEAN]
  /\ left \in [Tab -> -1..AutoLock]
  /\ timer \in [Tab -> {Off} \cup 0..AutoLock]
  /\ shown \in [Tab -> Status]
  /\ flow \in [Tab -> {"idle", "login", "unlock"}]
  /\ page \in [Tab -> {"visible", "hidden", "frozen"}]
  /\ inbox \in [Tab -> Seq({"set", "removed", "lock"})]
  /\ silent \in [Tab -> BOOLEAN]
  /\ late \in [Tab -> BOOLEAN]
  /\ explicit \in BOOLEAN

Init ==
  /\ token \in BOOLEAN
  /\ key = [t \in Tab |-> FALSE]
  /\ left = [t \in Tab |-> 0]
  /\ timer = [t \in Tab |-> Off]
  /\ shown = [t \in Tab |-> IF token THEN "session_expired" ELSE "unauthenticated"]
  /\ flow = [t \in Tab |-> "idle"]
  /\ page = [t \in Tab |-> "visible"]
  /\ inbox = [t \in Tab |-> <<>>]
  /\ silent = [t \in Tab |-> FALSE]
  /\ late = [t \in Tab |-> FALSE]
  /\ explicit = FALSE

-----------------------------------------------------------------------------
(* The functions of session.ts that the handlers below are made of.          *)

Overdue(t) == key[t] /\ left[t] < 0
Runs(t) == page[t] # "frozen"

scheduleLock(t) == timer' = [timer EXCEPT ![t] = left'[t]]

\* Mutants of touchVault: the window is added to what is left of the last one;
\* the timer is cleared and not set again.
TouchAddsUp(t) ==
  /\ left' = [left EXCEPT ![t] = @ + AutoLock]
  /\ UNCHANGED <<key, timer, late>>
TouchWithoutTimer(t) ==
  /\ left' = [left EXCEPT ![t] = AutoLock]
  /\ timer' = [timer EXCEPT ![t] = Off]
  /\ UNCHANGED <<key, late>>

touchVault(t) ==
  /\ left' = [left EXCEPT ![t] = AutoLock]
  /\ scheduleLock(t)
  /\ UNCHANGED <<key, late>>

armAppKey(t) ==
  /\ key' = [key EXCEPT ![t] = TRUE]
  /\ left' = [left EXCEPT ![t] = AutoLock]
  /\ scheduleLock(t)

clearKeyState(t) ==
  /\ key' = [key EXCEPT ![t] = FALSE]
  /\ left' = [left EXCEPT ![t] = 0]
  /\ timer' = [timer EXCEPT ![t] = Off]
  /\ late' = [late EXCEPT ![t] = FALSE]

getAuthStatus(t) ==
  IF ~token' THEN "unauthenticated"
  ELSE IF key'[t] THEN "authenticated" ELSE "session_expired"

\* The subscriber AuthProvider registers: it reads the status again.
notify(t) ==
  /\ shown' = [shown EXCEPT ![t] = getAuthStatus(t)]
  /\ silent' = [silent EXCEPT ![t] = FALSE]

\* A change of localStorage by t fires a storage event in every other tab.
Signal(t, what) ==
  /\ \A u \in Tab \ {t} : Len(inbox[u]) < MaxInbox
  /\ inbox' = [u \in Tab |-> IF u = t THEN inbox[u] ELSE Append(inbox[u], what)]

\* Mutant of dropKey: nobody is told.
DropInSilence(t) ==
  /\ clearKeyState(t)
  /\ token' = token
  /\ UNCHANGED <<shown, silent>>

\* lockVault without the propagation: only an armed key is announced.
dropKey(t) ==
  /\ clearKeyState(t)
  /\ token' = token
  /\ IF key[t] THEN notify(t) ELSE UNCHANGED <<shown, silent>>

lockVault(t, propagate) ==
  /\ dropKey(t)
  /\ IF propagate THEN Signal(t, "lock") ELSE UNCHANGED inbox
  /\ UNCHANGED flow

-----------------------------------------------------------------------------
(* The page: the flows, signing, locking, logging out, reloading.            *)

\* Whatever the status: a login over a live session, an unlock while unlocked
\* or logged out. Bound: one ceremony at a time in each tab.
Start(t, what) ==
  /\ Runs(t) /\ flow[t] = "idle"
  /\ flow' = [flow EXCEPT ![t] = what]
  /\ UNCHANGED <<token, vault, shown, page, inbox, silent, explicit>>

\* A declined ceremony or a refused request leaves the session alone.
Abandon(t) ==
  /\ Runs(t) /\ flow[t] # "idle"
  /\ flow' = [flow EXCEPT ![t] = "idle"]
  /\ UNCHANGED <<token, vault, shown, page, inbox, silent, explicit>>

setSession(t) ==
  /\ Runs(t) /\ flow[t] = "login"
  /\ flow' = [flow EXCEPT ![t] = "idle"]
  /\ token' = TRUE
  /\ armAppKey(t) /\ notify(t)
  /\ late' = [u \in Tab |-> FALSE]
  /\ Signal(t, "set")
  /\ UNCHANGED <<page, explicit>>

\* No account is asked for: a ceremony that outlives its session still arms.
unlock(t) ==
  /\ Runs(t) /\ flow[t] = "unlock"
  /\ flow' = [flow EXCEPT ![t] = "idle"]
  /\ UNCHANGED <<token, page, inbox, explicit>>
  /\ armAppKey(t) /\ notify(t)
  /\ late' = [late EXCEPT ![t] = ~token]

\* Mutant of sign: the key is read without looking at its deadline.
SignWithAnyKey(t) ==
  /\ Runs(t) /\ key[t]
  /\ touchVault(t)
  /\ UNCHANGED <<token, shown, flow, page, inbox, silent, explicit>>

\* getAppKey and touchVault, the helpers of useSigner: no status is asked for.
sign(t) ==
  /\ Runs(t) /\ key[t] /\ ~Overdue(t)
  /\ touchVault(t)
  /\ UNCHANGED <<token, shown, flow, page, inbox, silent, explicit>>

\* isLocked: whoever asks for an overdue key drops it, and tells nobody.
isLocked(t) ==
  /\ Runs(t) /\ Overdue(t)
  /\ clearKeyState(t)
  /\ silent' = [silent EXCEPT ![t] = TRUE]
  /\ UNCHANGED <<token, shown, flow, page, inbox, explicit>>

refresh(t) ==
  /\ Runs(t)
  /\ IF Overdue(t) THEN clearKeyState(t) ELSE UNCHANGED vault
  /\ token' = token
  /\ notify(t)
  /\ UNCHANGED <<flow, page, inbox, explicit>>

lock(t) ==
  /\ Runs(t)
  /\ clearKeyState(t)
  /\ token' = token
  /\ notify(t)
  /\ Signal(t, "lock")
  /\ explicit' = TRUE
  /\ UNCHANGED <<flow, page>>

clearSession(t) ==
  /\ Runs(t)
  /\ clearKeyState(t)
  /\ token' = FALSE
  /\ notify(t)
  /\ IF token THEN Signal(t, "removed") ELSE UNCHANGED inbox
  /\ explicit' = TRUE
  /\ UNCHANGED <<flow, page>>

\* A new realm: the key, the flows and the queued events are gone.
reload(t) ==
  /\ clearKeyState(t)
  /\ token' = token
  /\ notify(t)
  /\ flow' = [flow EXCEPT ![t] = "idle"]
  /\ page' = [page EXCEPT ![t] = "visible"]
  /\ inbox' = [inbox EXCEPT ![t] = <<>>]
  /\ UNCHANGED explicit

-----------------------------------------------------------------------------
(* The browser: time, timers, visibility and storage events.                 *)

\* Mutant of timerFires: lockVault with its default argument.
TimerPropagates(t) ==
  /\ Runs(t) /\ timer[t] = 0
  /\ lockVault(t, TRUE)
  /\ UNCHANGED <<page, explicit>>

timerFires(t) ==
  /\ Runs(t) /\ timer[t] = 0
  /\ lockVault(t, FALSE)
  /\ UNCHANGED <<page, explicit>>

hide(t) ==
  /\ page[t] = "visible"
  /\ page' = [page EXCEPT ![t] = "hidden"]
  /\ IF t \in LockOnHide THEN lockVault(t, FALSE)
     ELSE UNCHANGED <<token, vault, shown, flow, inbox, silent>>
  /\ UNCHANGED explicit

\* The freeze of a hidden page, or pagehide before the back/forward cache.
freeze(t) ==
  /\ Runs(t)
  /\ page' = [page EXCEPT ![t] = "frozen"]
  /\ IF t \in LockOnHide THEN lockVault(t, FALSE)
     ELSE UNCHANGED <<token, vault, shown, flow, inbox, silent>>
  /\ UNCHANGED explicit

\* pageshow with event.persisted locks whatever the configuration.
pageshow(t) ==
  /\ page[t] = "frozen"
  /\ page' = [page EXCEPT ![t] = "visible"]
  /\ lockVault(t, FALSE)
  /\ UNCHANGED explicit

resume(t) ==
  /\ page[t] # "visible"
  /\ page' = [page EXCEPT ![t] = IF @ = "frozen" THEN "hidden" ELSE "visible"]
  /\ UNCHANGED <<token, vault, shown, flow, inbox, silent, explicit>>

\* Mutant of LocksOn: only explicit locks are heard.
HearsLocksOnly(what) == what = "lock"

\* A token removed or the lock signal written, but not a token set.
LocksOn(what) == what \in {"removed", "lock"}

storage(t) ==
  /\ Runs(t) /\ inbox[t] # <<>>
  /\ IF LocksOn(Head(inbox[t])) THEN dropKey(t)
     ELSE UNCHANGED <<token, vault, shown, silent>>
  /\ inbox' = [inbox EXCEPT ![t] = Tail(@)]
  /\ UNCHANGED <<flow, page, explicit>>

Tick ==
  /\ \E t \in Tab : key[t] /\ left[t] >= 0
  /\ left' = [t \in Tab |-> IF key[t] /\ left[t] >= 0 THEN left[t] - 1 ELSE left[t]]
  /\ timer' = [t \in Tab |-> IF timer[t] > 0 THEN timer[t] - 1 ELSE timer[t]]
  /\ UNCHANGED <<token, key, late, shown, flow, page, inbox, silent, explicit>>

PageStep(t) ==
  \/ \E what \in {"login", "unlock"} : Start(t, what)
  \/ Abandon(t) \/ setSession(t) \/ unlock(t)
  \/ sign(t) \/ isLocked(t) \/ refresh(t)
  \/ lock(t) \/ clearSession(t) \/ reload(t)

BrowserStep(t) ==
  \/ timerFires(t) \/ storage(t)
  \/ hide(t) \/ freeze(t) \/ pageshow(t) \/ resume(t)

Next == Tick \/ \E t \in Tab : PageStep(t) \/ BrowserStep(t)

\* Time passes; a due timer and a queued event are dispatched in a page that
\* keeps running. Nothing is promised of what the user does.
Fairness ==
  /\ WF_vars(Tick)
  /\ \A t \in Tab : WF_vars(timerFires(t)) /\ WF_vars(storage(t))

Spec == Init /\ [][Next]_vars /\ Fairness

-----------------------------------------------------------------------------
(* As long as nobody locked or logged out, a tab loses its key only to its   *)
(* own idleness or to what happens to its own page: neither a timer that a   *)
(* later use should have moved nor the automatic lock of a sibling takes it. *)
AutoLockStaysLocal ==
  [][\A t \in Tab : key[t] /\ ~key'[t] /\ ~explicit' =>
       left[t] <= 0 \/ page'[t] # page[t] \/ reload(t)]_vars

(* A key whose deadline has passed, the timer being late or the page having  *)
(* been frozen, is never used or extended: only a ceremony arms one again.   *)
OverdueKeyNeverExtended ==
  [][\A t \in Tab : Overdue(t) => left'[t] < 0 \/ ~key'[t] \/ flow[t] # "idle"]_vars

(* A status that still says unlocked without a key has one explanation: the  *)
(* lazy expiry of isLocked. Every other loss of the key reaches AuthProvider.*)
StaleStatusIsLazyExpiry ==
  \A t \in Tab : shown[t] = "authenticated" /\ ~key[t] => silent[t]

(* What stands behind the automatic lock, however arming, use, lazy expiry   *)
(* and late timers interleave: an armed key always has its timer set, due at *)
(* its deadline, or overdue with it and still to fire.                       *)
ArmedKeyIsTimed ==
  \A t \in Tab : key[t] => timer[t] = left[t] \/ (timer[t] = 0 /\ left[t] = -1)

(* An armed key that outlives its session has the news of the logout under   *)
(* way to its tab, whatever the tab shows: no order of events, locks, logins *)
(* and logouts loses it. The vault does not keep a ceremony from ending with *)
(* nobody signed in: the key that one arms is no session's, and is `late`.   *)
Told(t) == \E i \in 1..Len(inbox[t]) : inbox[t][i] = "removed"
LogoutIsUnderWay ==
  \A t \in Tab : ~token /\ key[t] /\ ~late[t] => Told(t)

(* An idle key is dropped: in a page that keeps running it is used again or  *)
(* gone, whatever order ticks, timers and events come in.                    *)
IdleKeyIsDropped ==
  \A t \in Tab : key[t] /\ left[t] < AutoLock ~>
                    ~key[t] \/ left[t] = AutoLock \/ ~Runs(t)

(* A logout takes every key armed before it, in each tab that keeps running, *)
(* those included that are used all the time or hear of other events first.  *)
(* A key that a ceremony arms after the logout (`late`) is not taken.        *)
LogoutReachesEveryTab ==
  \A t \in Tab : ~token ~> token \/ ~key[t] \/ ~Runs(t) \/ late[t]
=============================================================================
