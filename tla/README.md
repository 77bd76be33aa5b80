# Verification of tetrac-login-sdk

TLA+ models of the login SDK in `src/`, the TLC runs that check them on small
instances, and the theorems TLAPS proves about them for every instance.

The SDK is a library in two halves. The **server** half is a set of request
handlers (`server/routes.ts`) over a pluggable store (`storage/`): they register
accounts, hand out single-use challenges, verify signatures over them, issue one
session per account, and keep each account's encrypted wallet keys. The
**client** half keeps the key that decrypts those wallets in memory
(`client/session.ts`), derives or unwraps it in asynchronous ceremonies
(`client/authClient.ts`, `client/biometricUnlock.ts`), and wraps all of it in
React hooks and a Ledger connection.

## 1. Inventory

`PROJECT.json` lists every component with its status, and every hazard at its line.

| component | state it keeps | operations | interacts by | what is hard | what makes it correct |
|---|---|---|---|---|---|
| Request handlers, `server/routes.ts` | none of their own; a request holds its body, the record it read, and what it has yet to write | challenge, register, login, loginWallet, connectWallet, logout, userData, importWallet, searchWallet | awaited store calls; a handler gives up control at each | every await is a point where other requests run; decisions taken on an earlier read; a failure half way | one account per address, stored wallet keys never lost to a race, creation stays under its ceiling |
| Sessions, `server/session.ts` | the session key per token, the pointer in the user record | issueSession, verifySession, revokeSession | store calls | overlapping logins with stale snapshots, the two reads of verifySession, orphaned session keys | one live token per account, dead tokens stay dead, a session ends only for cause |
| Challenges, `server/challenge.ts` | pending challenges per key, with a TTL | issue, consume | store calls | replay, double submit, a decoy for unknown addresses | each is consumed at most once |
| KV store, `storage/store.ts` with `memory.ts`, `redis.ts`, `kv.ts` | user hash (profile, pointer, one field per wallet slot), email index, sessions, challenges, counters | the AuthStore operations | several adapter calls per operation | no transactions: a crash or another caller between two fields | exactly one holder per address, slot writes never touch other fields |
| SQL store, `storage/sql/engine.ts` and dialects | the same as rows | the same | one transaction or one statement each | dialect differences, statements running in another order than their clocks were read | the same contract |
| SQL drivers, `storage/sql/drivers.ts` | connection, for SQLite a promise chain | query, transaction | the engine | one shared SQLite connection; queries beside an open transaction | a reported write is durable; transactions do not mix |
| Rate limiting, `server/rateLimit.ts`, `hitRateLimit` | a counter and its expiry per bucket | hit | handlers | INCR and EXPIRE are two calls, either may be late or lost; expiry boundary | at most the limit per window, and every window ends |
| Vault, `client/session.ts` | app key, deadline, timer, subscribers per tab; token and account in shared localStorage | arm, touch, lock, clear, subscribe | timers, page events, storage events between tabs | late timers, lost or late storage events, lazy expiry | a key never outlives its deadline, a logout reaches every tab, subscribers learn of it |
| Client flows, `client/authClient.ts`, `biometricUnlock.ts`, `webauthn.ts` | wrapped key and marker on the device | register, login, unlock, reveal, enable, disable, logout | HTTP, the vault | completion after a logout, stale account fields | no key armed and none left on the device after logout |
| React hooks, `react/` | user record, last request number | fetch, reveal, subscribe | vault subscription, fetch | late answers | the newest answer wins |
| Ledger, `ledger/` | transport, app handle, addresses | connect, disconnect, derive, sign | device events | unplugging, reconnecting | state shown belongs to the open transport |
| HTTP, routing, configuration, crypto, UI | none that changes | parsing, merging, primitives, forms | | header parsing, boundary cases | pure functions |

## 2. Modules

| module | models | state and actions |
|---|---|---|
| `AuthServer` | all state-changing handlers over one `KvAuthStore` | below |
| `SingleSession` | abstract: what the server promises about tokens | the token an account accepts, the tokens ever granted; Grant, End |
| `WindowLimiter` | abstract: what `hitRateLimit` promises of a bucket | hits let through, age of the window; Allow, Tick, Close, Renew |
| `KvRateLimit` | `KvAuthStore.hitRateLimit` on `incr` and `expire` | counter, TTL, callers between the two calls; Hit, Stamp, Lose, Tick |
| `SqlRateLimit` | `SqlAuthStore.hitRateLimit` and `sweepExpired` | row count and expiry, callers' clocks; Send, Upsert, Sweep, Tick |
| `EmailDirectory` | abstract: what a store promises about addresses | the address in each record, the account each address resolves to; Claim |
| `AuthStore` (extends it) | abstract: the store's operations, each in one step | records, challenges, sessions, hits, and what callers were told |
| `SqlStore` | `SqlAuthStore` on its three dialects and drivers, from the preflight on | below |
| `ClientVault` | `client/session.ts` in several tabs | below |
| `AppKeys` | the derivation and pinning of app keys, client and server | below |
| `PageSession`, `BiometricUnlock`, `RevealKey`, `SolanaLedger` | the hooks of one page | below |
| `Page` | those four composed: one application calling all hooks | calls, and the events that answer them |
| `MC*` | instances for TLC | |
| `AuthServerProofs`, `AuthAccountProofs`, `KvRateLimitProofs`, `SqlRateLimitProofs`, `SqlStoreProofs`, `AppKeysProofs`, `ClientVaultProofs`, `PageProofs` | theorems and proofs | |

### AuthServer

A handler is an async function, so the unit of interleaving is the code from one
awaited store call to the next. `pc[r]` names the store call request `r` makes
next, or its answer; each action is that call with the local code after it.

| code | model |
|---|---|
| user hash: profile, session pointer, one field per wallet slot | `profile`, `pointer`, `wallets` |
| email index hash | `emailIndex` |
| session and challenge keys | `sessions`, `challenges` |
| creation counter of `accountCreationLimited` | `hits`, `windows` |
| `user.authTokenHash` in a handler's snapshot | `prev` |
| wallet slots a loop has yet to write | `todo` |
| `challenge` | `ChallengeEmail`, `PutChallenge`, `ThrottleChallenge` |
| `register` | `RegisterUser`, `RegisterEmail`, `Consume`, `ChargeCreation`, `PutProfile`, `PutSlot`, `ClaimEmail` |
| `login`, `loginWallet` | `LoginEmail`, `LoginUser`, `Consume`, `ReadUser` |
| `connectWallet` | `Consume`, `ConnectUser`, then the creation, backfill or login steps |
| `issueSession` | `DeletePrevious`, `PutSession`, `SetPointer` |
| `verifySession`, `logout`, `userData`, `importWallet` | `GetSession`, `CheckPointer`, `Revoke`, `PutSlot` |
| a store call that throws, or the process dying | `Fail` |
| TTLs of sessions and challenges | choices of `GetSession` and `Consume`: the stores enforce expiry on read |

Abstractions. A token, a challenge and a wallet bundle are named by the request
that minted or carried them, because all three are fresh random values. The
authentication key of an email account is identified with the account. One
`appId`: store keys of two apps are disjoint. The store's single-key operations
(GETDEL, HSETNX, HGETALL, HSET) are atomic, as Redis and the in-memory adapter
make them. A request runs once; clients that retry are further requests with the
same challenge or token. A request that is a session or challenge of the start
(`SeedOf`, `SeedChallenge`) is one that finished earlier.

Left out of the handlers: validation that answers 400 and touches nothing,
`searchWallet` and the final read of `importWallet`, which only read, and the
failure buckets, which only choose between 401 and 429.

### Rate limiting

Both models keep time relative to the present (ticks left), so that they are
finite without bounding how long the system runs. `KvRateLimit` separates
`incr` and `expire`, as the code does, and lets an `expire` be late (it then
lands on another window, or on no key) or be lost. `SqlRateLimit` separates the
reading of the clock from the statement that uses it, by up to `MaxLag` ticks,
and lets the sweeper delete an expired row at any time. The counter saturates
just above the limit, where the code no longer tells values apart.

### SqlStore

`dialect` is chosen once. The boot comes first: `flaws` is what may be wrong with
the deployment's database, `createSqlAuthStore` returns a store only when the
preflight of that dialect reports no error, and the operator mends what it named.

| code | model |
|---|---|
| tables `ttc_users`, `ttc_user_wallets`, `ttc_email_index`, `ttc_challenges`, `ttc_sessions`, `ttc_rate_limits` | `rows`, keyed by table and key |
| a pooled connection in a transaction | `draft[c]`: its uncommitted and locked rows; `free` counts the others |
| the single SQLite connection and its promise chain | `open`, `undo`, `queue` |
| `pgDriver`, `mysqlDriver`, `sqliteDriver`: `transaction` | `Transaction`, `Begin`, `Commit`, `Rollback`, `Release`, `Fail` |
| `putUser` | `putUser`, `UpsertUser`, `UpsertWallet`, `SelectHolder`, `InsertEmail`, `CommitUser` |
| `getUser` | `getUser`, `SelectUser`, `SelectWallets` |
| `takeChallenge` | `takeReturning`, or `takeChallenge`, `SelectForUpdate`, `DeleteTaken`, `CommitTaken` |
| `hitRateLimit` | `hitReturning`, or `hitRateLimit`, `UpsertHit`, `ReadBack`, `CommitHit` |
| the operations of one statement | one action each |
| the process dying, a statement, `COMMIT`, `BEGIN` or checkout failing | `Crash`, `Fail` |

The databases are external: row locks held until commit, reads of committed rows,
a unique key that makes a second `INSERT` wait and then fail. A record has one
wallet slot. Public keys are taken to differ in nothing but their case, which is
what a case-insensitive collation cannot see (`Stored`). On SQLite a query made
outside a transaction runs inside the open one, as the driver's `query` does; the
mapping to `AuthStore` is therefore stated for pools only (`OnPool`), and the
`sqlite_driver` run shows what SQLite does instead. Preflight warnings,
`skipPreflight`, and what an exposed schema or a served database file gives away
are not modelled.

### ClientVault

`key`, `left` and `timer` are `memoryAppKey`, `lockDeadline - now` and
`lockTimer` of each tab; `token` is the shared `localStorage`; `shown` is the
status `AuthProvider` read last. A due timer may fire arbitrarily late, a frozen
page runs nothing, and `storage` events wait in `inbox`. `armAppKey`,
`touchVault`, `lockVault`, `clearKeyState`, `isLocked`, `setSession` and
`clearSession` keep their names; `sign` stands for every use of the key through
the signer hooks, which ask for an armed key and for no status; `hide`, `freeze`
and `pageshow` for the page events the vault listens to. A flow (`flow`) may be
started whatever the status, one at a time in each tab, and survives a lock and a
logout, as an awaited ceremony does. `late[t]` records that the key of `t` was
armed by a ceremony that ended with nobody signed in.

### AppKeys

A key is a record of the account, the secret and the derivation input: the
PBKDF2 iteration count for an account by email, the off-chain envelope for a
hardware wallet, nothing for a passkey or a software wallet. `record` is what the
server pinned and what the wallets were sealed under; `email`, `iter` and
`envelope` are the client's `localStorage`. Each flow (register, the panel's
auto mode, login, connect, by passkey) is a challenge, a ceremony, a request and
its answer, and may be lost at any of them.

| code | model |
|---|---|
| `AuthClient.registerWith...`, `loginWith...`, `connectWallet` up to the request | `registerWithEmail`, `registerWithBiometric`, `loginWithBiometric`, `Begin`, `challenge`, `walletHandshake` |
| `/register` and `/connect`: is there a record (`routes.ts:860`), and `persistUser` | `decide`, then `create`; a wallet's record may replace one made in between |
| a registration by email or passkey, whose claim the store settles; its 409 | `create`; `collision` |
| a request of a login, the answer stored by `setSession`, any failure | `login`, `receive`, `lose` |
| `AuthClient.unlock`: what is derived and tried, then armed, or thrown | `reauthenticate`, then `unlock`, or `lapse` |

A handler of the server is one step except for that creation; the other
interleavings inside handlers are the subject of `AuthServer`. A browser makes
one call at a time, and one re-authentication beside it: `ceremony[d]` is the key
it derived and awaits to arm, and a login or logout meanwhile sets its `crossed`.
The unlock that unwraps a key stored on the device is in `BiometricUnlock`. Security
level and firmware are free at every use of them, which is more than any sequence
of updates can do. Each registration by passkey makes a new account. Two bounds:
`Uses[d]` lists the flows somebody runs on browser `d`, and `MaxAccounts` how many
accounts are created.

### Page

Each hook is a module; `Page` interleaves the calls of the application with the
answers to their awaits, in any order.

| code | model |
|---|---|
| `AuthProvider`: `refresh`, `refetchUser`, its effect, `fetchSeq` | `PageSession` |
| `useAuth`: login (over a live session too), logout, lock, and another tab doing the same | `setSession`, `clearSession`, `lockVault`, `otherTabLogin`, `otherTabLogout`, `storage` |
| `useAuth.reauthenticate`: the call, and its end after `client.unlock` | `reauthenticate`, `reauthenticated`; with `biometricUnlock` credentials `unlock`, `unlockViaBiometric` |
| `biometricUnlock.ts`, `useBiometricUnlock` | `BiometricUnlock`: `enable`, `wrapAppKey`, `enabled`; `disable`, `disabled`; `clearHooks`, `blobDelete`; `unlock`, `unlockViaBiometric` |
| `useExportKey`: `reveal`, `clear`, the auto-clear effect, `revealSeq` | `RevealKey` |
| `useSolanaLedger`: `connect`, `disconnect`, `deriveAddresses`, the `disconnect` event | `SolanaLedger` |

`Flushed` says that React runs pending effects before the next call of this
page; other tabs do not wait for that. The history variables `astray`,
`strayKey`, `strayMarker` and `orphaned` name the exceptions the properties need,
because the code does not exclude them: a fetch that was refused or sent with
another account's token; a key, or a wrapped key, that was another account's than
the one signed in when the call that set it ended, or whose account a login
replaced; a transport whose references were reset by the end of another one.
`loggedOut` says that this page logged out and that nobody has logged in, or begun
to re-authenticate, since. A transport closed before its device is
unplugged may (WebHID) or may not (WebUSB) still announce it.

## 3. Runs

| run | question | instance | distinct states |
|---|---|---|---|
| `sessions` | `ChallengeSingleUse`, `DeadTokenRefused`, `SessionEndsForCause`, `ImplementsSingleSession` | one email account with a session and three pending challenges; three requests (login, wallet login, logout, user data with the right or a wrong browser, import) in any order and overlap; one may fail | 43,838 |
| `accounts` | `TypeOK`, `RegisteredEmailResolves`, `IndexedAccountIsWhole`, `CreationCeiling`, `StoredWalletsKept` | empty store, two keys, one address, three pending challenges; three requests that register, connect a wallet with its bundle, ask for a challenge, or import into the account that results; one may fail; a ceiling of one per window, two windows | 317,379 |
| `connect_overwrite` | `ConnectNeverOverwrites`, expected to fail | as `accounts` | stops at the violation |
| `kv_limit` | `ImplementsWindow`, `LockoutTakesTwoLosses`, `Drains` | three callers, two attempts per three ticks, one lost `expire` | 730 |
| `kv_lockout` | `HealedPastCap`, expected to fail | the same with two lost `expire`s | stops at the violation |
| `sql_limit` | `ImplementsWindow`, `Drains` | three callers, two attempts per three ticks, clocks one tick behind | 588 |
| `sql_store` | `TypeOK`, `ReportedClaimsHold`, `PooledReadsWhole`, `ImplementsDirectory`, `PoolsImplementStore`, `SomebodyMoves`, `EveryCallAnswered` | two calls of several statements beside all single ones on each of the three databases, two accounts, one address, a failure or crash; on the pools two challenges, sessions or hits in all | 321,240 |
| `sqlite_driver` | `ChallengeTakenOnce`, expected to fail | SQLite alone, one challenge, no failure | stops at the violation |
| `client_vault` | `TypeOK`, `StaleStatusIsLazyExpiry`, `AutoLockStaysLocal`, `OverdueKeyNeverExtended`, `ArmedKeyIsTimed`, `LogoutIsUnderWay`, `IdleKeyIsDropped`, `LogoutReachesEveryTab` | two tabs, one locking when hidden, a window of two ticks, one storage event under way per tab | 186,084 |
| `app_keys` | `TypeOK`, `SessionKeyOpensWallets`, `RightSecretLogsIn`, `LocalPinsFitSession` | one browser for two accounts by email, a passkey and a hardware wallet, another for that wallet, at most two accounts created in all; two passkeys to type, two levels, two envelopes | 1,446,102 |
| `page` | `TypeOK`, `SettledPageFits`, `EnabledMeansUsable`, `UnlockFitsSession`, `ClearedStaysCleared`, `TransportsAccountedFor`, `ConnectedIsUsable` | any four calls of any hooks and of another tab; two accounts, two credentials, two Ledgers | 2,703,394 |
| `page_logout` | `LogoutLeavesNothing`, expected to fail | as `page` | stops at the violation |

Three overlapping requests are enough for the races of the handlers: each of the
hazards is a race of two, and the third is the one that would notice (a check of
a token, a later connect). One address, one wallet slot and one or two keys are
enough because no code relates two of them other than through the email index.
The proofs remove these bounds. `SYMMETRY` is used for interchangeable requests
and challenges; every property checked under it is a safety property. `Fail` is
bounded by `MaxFailures`, windows by `MaxWindows`, lost `expire`s by `MaxLost`;
deadlock is not checked in the AuthServer runs, where a behaviour ends once all
requests are answered. `MaxAccounts` and `Uses` bound `app_keys`, `MaxCalls` bounds
`page`.

In `sql_store`, the races are of two transactions, and the third party that
notices is a single statement. SQLite copies its rows at every `BEGIN`, so its
addresses are explored with a failure but without the short-lived rows
(`MaxIssued` is 0 there), and those rows in `sqlite_driver`. In `client_vault`
one tab acts and the other is affected; `MaxInbox` of 1 still has an event arrive
after the tab logged in again. In `app_keys` two browsers are needed for the one
registration that overtakes another, and two accounts are enough because the
properties relate a session to the one before it on the same browser: any two of
the four may be those created. The re-authentications are those of one email
account and of the hardware wallet, whose keys depend on a pin. In `page`, four calls let each hook's call
be overtaken by a logout, a login and a newer call. `TypeOK` and deadlock:
`client_vault`, `app_keys` and `page` may end with nobody doing anything.

What the expected violations show:

- `connect_overwrite`. `connectWallet` decides that an account is new from a
  read, and creates it later with `putUser`, which writes every slot. Two
  overlapping first connects both create, and the second replaces wallet keys
  the first one stored and was answered with. The comment at `routes.ts:889`
  says stored keys are never touched. `StoredWalletsKept` states what does hold:
  only a creation that arrived before the account had any wallet can do this.
- `kv_lockout`. If the `expire` of the first hit and the healing one are both
  lost, the counter stays past the cap without a TTL for good. The comment at
  `store.ts:392-395` promises that it heals. With one lost `expire`, `Drains`
  holds; `LockoutTakesTwoLosses` says that it takes two, whatever races.
- `sqlite_driver`. `sqliteDriver` serialises transactions only. `takeChallenge`
  is a bare `DELETE ... RETURNING`; made while another caller's `putUser` is
  suspended between two statements, it runs inside that transaction, and is
  undone when that one rolls back because its address is taken. The challenge
  is then consumed again, against the comment at `engine.ts:236-237` that
  exactly one caller may.
- `page_logout`. `AuthClient.unlock` arms what it derived without asking whether
  the session it began in still exists, and so do the other ceremonies that end
  after a logout: re-authenticate, log out, and the end of the ceremony leaves a
  key armed with nobody signed in. The signer hooks use and extend it, where
  `useSigner.ts:2-3` says that every helper throws when logged out. In the same way
  `enableBiometricUnlock` writes marker and descriptor after the logout purged
  them, against `useBiometricUnlock.ts:42-43`.

What the exceptions in the properties say of the code, for a reader who would
expect them not to be there:

- `StaleStatusIsLazyExpiry`: `isLocked` says that the scheduled timer will notify
  (`session.ts:267`), but clears that timer; the page goes on showing an unlocked
  vault until something else refreshes it.
- `SessionKeyOpensWallets` and `LocalPinsFitSession` except `early`: a first connect
  of a hardware wallet that another browser's connect overtakes was handed no pin;
  it logs in, and may have derived a key that opens nothing. And when two first
  connects both create (`connect_overwrite`), the later one replaces the pin and
  the sealed key under the session of the earlier one.
- `SessionKeyOpensWallets` excepts `crossed`: a re-authentication that a logout and
  another login overtake arms, in the new session, the key it had derived for the
  old one. Without either exception TLC finds the property violated.
- `LogoutIsUnderWay` and `LogoutReachesEveryTab` except `late`: a key that a ceremony
  arms after the logout is nobody's to drop, until it idles.
- `UnlockFitsSession` excepts `strayKey` and `strayMarker`: no ceremony asks whose
  session it ends in, and a login does not drop another tab's key or another
  account's marker. What the property keeps is that the end of such a call is the
  only moment at which key or marker goes astray.
- `TransportsAccountedFor`: the `disconnect` listener and `disconnect` reset the
  references whatever they point to by now; a transport of a newer connect is
  then open and forgotten.
- `ClearedStaysCleared`: after a clear during a reveal, `loading` stays on, since
  the reveal that would reset it no longer matches.
- `deriveAddresses` keeps the device it captured: the addresses shown after a
  reconnect may be those of the device used before. No property is stated.

## 4. Fairness

`AuthServer`, `AppKeys` and `Page` state none: their properties are safety
properties, and a request or an await may never be answered. In the two limiter
modules, time passes (`WF` on `Tick`) and a call that was issued and not lost is
made (`WF` on `Stamp` and `Upsert`). Traffic is not assumed to continue by the
specification; `Drains` names it as its hypothesis (`SustainedTraffic`), because
the claim of the code is about traffic that never lets up.

`SqlStore` assumes strong fairness of each caller's next statement: the database
runs what it is sent, and a pool and a row lock serve those who wait in turn, so
that a caller who is enabled again and again is not passed over for ever.
Nothing is assumed of callers that have not begun. `ClientVault` assumes that
time passes, that a due timer is fired and a queued storage event is delivered in
a page that keeps running (`WF` each); it assumes nothing of the user, and
freezing a page disables both.

## 5. Proofs

All theorems hold for every set of requests, keys, addresses and slots, for
every limit, for any number of failures, tabs, browsers, accounts, calls,
credentials and devices, from the assumptions named in the modules
(`ConstantsAssumption`, `LimitAssumption`, `AccountAssumption`, `StoreAssumption`,
`AutoLockAssumption`, ...), which TLC evaluates. The
creation ceiling, which counts records, also assumes that requests and keys are
finite sets; `StoreTyping`, `PoolsAreStores` and `NoDeadlock`, which count
connections, that callers are.

| theorem | establishes |
|---|---|
| `AuthServerProofs!TypeCorrect` | `TypeOK` |
| `AuthServerProofs!ChallengesAreSingleUse` | `ChallengeSingleUse` |
| `AuthServerProofs!DeadTokensAreRefused` | `DeadTokenRefused` |
| `AuthServerProofs!ServerIsSingleSession` | `AuthServer` implements `SingleSession` |
| `AuthAccountProofs!EmailsResolve` | `RegisteredEmailResolves` |
| `AuthAccountProofs!SessionsEndForCause` | `SessionEndsForCause` |
| `AuthAccountProofs!WalletsAreKept` | `StoredWalletsKept` |
| `AuthAccountProofs!CreationIsCapped` | `CreationCeiling` |
| `AuthAccountProofs!IndexedAccountsAreWhole` | `IndexedAccountIsWhole` |
| `AuthAccountProofs!GrantsRequireProof` | a session is granted only for a challenge of that account, read once, under the account's own signature |
| `KvRateLimitProofs!KvLimits` | `KvRateLimit` implements `WindowLimiter` |
| `KvRateLimitProofs!LockoutCause` | `LockoutTakesTwoLosses` |
| `SqlRateLimitProofs!SqlLimits` | `SqlRateLimit` implements `WindowLimiter` with windows `MaxLag` shorter |
| `SqlStoreProofs!StoreTyping`, `ClaimsHold`, `ReadsWhole` | `TypeOK`, `ReportedClaimsHold`, `PooledReadsWhole` |
| `SqlStoreProofs!IsDirectory` | what is durable in `SqlStore` implements `EmailDirectory`, on the three databases |
| `SqlStoreProofs!PoolsAreStores` | `SqlStore` on a pool implements `AuthStore` |
| `SqlStoreProofs!ConnectionsAccounted` | every connection of a pool is free or in one call's transaction |
| `SqlStoreProofs!NoDeadlock` | `SomebodyMoves` |
| `SqlStoreProofs!AddressesUnique` | two durable accounts never share an address, on the three databases |
| `ClientVaultProofs!Typing`, `StaleStatus`, `AutoLockLocal`, `OverdueNeverExtended`, `ArmedKeysAreTimed`, `LogoutsUnderWay` | `TypeOK`, `StaleStatusIsLazyExpiry`, `AutoLockStaysLocal`, `OverdueKeyNeverExtended`, `ArmedKeyIsTimed`, `LogoutIsUnderWay` |
| `AppKeysProofs!Typing`, `KeysOpenWallets`, `NobodyTurnedAway`, `PinsFit` | `TypeOK`, `SessionKeyOpensWallets`, `RightSecretLogsIn`, `LocalPinsFitSession` |
| `PageProofs!PageTyping`, `SettledFits`, `EnabledUsable`, `UnlockFits`, `ClearedCleared`, `TransportsAccounted`, `ConnectedUsable` | the seven invariants of `page` |

The inductive invariants. `TypeOK` alone is not inductive: `who[r]` may be
`None`, and a handler that then indexed a record by it would break it. `Held`
ties each program counter to what its request holds (an account, an address, a
snapshot, slots to write). `ChallengeInv` says that a consumed challenge is gone
and that a pending one names an answered request of that key. `TokenInv` says
that every stored session and every pointer names a request that has reached
that point of `issueSession` for that account, so that a token becomes live at
most once, at its own `SetPointer`; `DeadInv` then follows a dead token to the
end of the request that carries it. Together they are `IInv`. The account proofs
add `Paths` (which kinds of request reach which calls), `SnapshotInv` (a wallet
creation began before the account had wallets), `EmailInv` (past the claim, the
index names the request's key) and `WalletInv`; the ceiling adds a count of the
records created against the hits charged, window by window. `IndexedAccountIsWhole`
speaks of a claim that comes last, so `WholeInv` follows the record and each slot
a registration has stored until then (`WrittenBy`), and keeps them afterwards:
nothing in the handlers removes either. `GrantsRequireProof` is about `ProofInv`:
every label behind the signature check is reached with the account's own
signature, and a challenge that was taken was issued for that account. No run
lists it, but its invariant was checked on the instances of `sessions` and
`accounts`.

The limiters need that the hits let through are those counted, and that a key or
row that may be dropped or reset belongs to a window that is old enough. `Owed`
counts what a key without a TTL still waits for: an `expire` for its first hit
and another for its first hit past the cap, each under way or lost, so that with
nobody under way a lockout has lost both. Each invariant was first checked by TLC
as an invariant of the runs.

The store's invariant says what each transaction has done and not committed.
`DraftFits` (pools) lists the rows that a `putUser` has written by the time it
reaches each statement, and why its claim may be committed: the entry is locked by
it and absent, or its own already. `Undone` (SQLite) says the same as a
difference between the rows and those at the `BEGIN`, which is what makes a
rollback undo an account and its claim together. `Whole` keeps a record and its
wallet together between the two queries of `getUser`. With them a commit is one
`Claim` of `EmailDirectory` and every other step changes nothing durable about
addresses. `Own` adds what the row locks of a pool protect: a challenge that was
read as live stays live until its transaction ends, and a count that was written
is still the next one when it is committed; so every commit is one operation of
`AuthStore`. `Connections` counts the transactions against the free connections.

`SomebodyMoves` is a statement about states: some call in progress has every
guard of its next statement true. `CanStep` spells those guards out, because
`ENABLED` is not available to the prover; TLC agrees that the two are equal in
every state of `sql_store`. The argument is the usual one of an order on the
resources. A transaction that has rows locked is in one of three places: past its
last lock; at a statement whose row it holds already; or in `putUser`, whose
tables come in the order users, wallets, index, so that whoever holds the row it
waits for is at a later statement. The call at the latest statement therefore
moves. If no call is in a transaction, `Connections` makes every connection free
and whoever asks for one gets it; on SQLite the head of the chain (`Chain`) may
open. `AddressesUnique` follows from `IsDirectory` alone.

The client's invariants (`Invariance`, `PageInvariance`):

- `ClientVault`. A lost key is explained by `TimerInStep` (a timer is set exactly
  when a key is armed, and is due at its deadline, or overdue with it, so that a
  firing timer means an idle key) and `InboxExplains` (a `removed` or `lock` event under way was sent by
  somebody's logout or lock). Neither follows from `TypeOK`.
- `AppKeys`. `SessionKeyOpensWallets` speaks of a session that begins many steps
  after the derivation it depends on, so the invariant follows it: `CallFits` (the
  key a call carries belongs to its account, and agrees with the record's pin if
  the account was known when the challenge was answered), `RecordsPinned` (a
  record's pin is the input of the key its wallets are under) and `SessionFits`
  (a session's key and pins came from such a call, and the key a re-authentication
  awaits was derived from the session's pins, unless it was overtaken). `KeyFits`
  says that a key armed from the session's own pins belongs to its account, and
  `StoredIters` that an address in `localStorage` always has a count beside it.
- `Page`. Four invariants, one per hook, none of which needs another's:
  `UserFits` (the newest fetch asks for the account of the effect, and with none under
  way the record is that account's), `EnablingFits` (a credential being enabled is
  known to nobody else yet, and holds nothing but the key that was read), that a cleared number is not under way, and `ConnFits` with
  `NoticesDead` (what each step of a connect knows of the references, and that only dead
  transports announce their end).

Only model-checked: the liveness properties (`Drains`, `EveryCallAnswered`,
`IdleKeyIsDropped`, `LogoutReachesEveryTab`), which are out of the prover's reach.
What each of them rests on is proved: that a counter past its cap is owed an
`expire` unless two were lost (`LockoutCause`), that calls never block one another
for good (`NoDeadlock`), that an armed key has a timer (`ArmedKeysAreTimed`), that
the news of a logout is under way (`LogoutsUnderWay`). What TLC adds on the small
instances is that under the fairness of §4 these steps are then taken.

## 6. Plan

Done: the server core and its abstract specification, the rate limiters, the SQL
store with its drivers, the vault, the keys, the hooks and the Ledger connection,
and a proof of every safety property of the passing runs. Left, in order of
importance:

1. A composition of `AuthServer` with the store of `SqlStore` in place of the KV
   store's steps.
2. Pure algorithms against reference definitions: `clientIp` over header chains,
   `readWallets`, `sortWalletsBySlot`.

## 7. Not modelled

Styling and wording; WebAuthn, WebCrypto, PBKDF2, AES-GCM and signature
primitives, which are taken to do what they promise; DDL and option merging;
HTTP parsing, scripts and the Next.js adapter, which only route; the hooks and
handlers that only read (`searchWallet`, `useWallets`, `useUser`,
`useActiveWallet`); the answers 400 and the choice between 401 and 429. In
`SqlStore`, a `ROLLBACK` that fails itself, and the clock of `takeChallenge`, which the
code reads before it waits for the row lock (`engine.ts:243`) where the model tests
liveness once it has it. The
conformance suite is a test: what it demands is in `AuthStore` and
`EmailDirectory`, and its cases about encodings, order and tenants are not.
