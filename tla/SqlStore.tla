------------------------------ MODULE SqlStore ------------------------------
(***************************************************************************)
(* SqlAuthStore (src/src/storage/sql/engine.ts) on its three databases,    *)
(* with the transactions their drivers give it (sql/drivers.ts).           *)
(*                                                                         *)
(* Postgres and MySQL hand out one pooled connection per transaction: its  *)
(* writes stay in a draft that locks their rows until it commits.  SQLite  *)
(* has one connection: transactions queue behind one another, and a query  *)
(* made outside them runs at once, inside whichever transaction is open.   *)
(*                                                                         *)
(* Calls of one statement are one action; the calls of several statements  *)
(* (putUser, getUser and, without RETURNING, takeChallenge and             *)
(* hitRateLimit) advance by one statement per action.                      *)
(***************************************************************************)
EXTENDS Integers, Sequences, FiniteSets

CONSTANTS
  Caller,     \* requests whose calls take several statements
  User,       \* public keys; every record holds one wallet slot
  Email,      \* normalised addresses
  Challenge,  \* challenge values, each issued once
  Token,      \* session token hashes, each issued once
  Dialects,   \* the databases: "postgres", "mysql", "sqlite"
  PoolSize,   \* connections of a pool
  MaxIssued,  \* bound: challenges, sessions and hits on the one bucket, per database
  MaxFaults,  \* bound: statements that fail, and crashes
  Absent      \* no row

ASSUME StoreAssumption ==
  /\ Dialects \subseteq {"postgres", "mysql", "sqlite"}
  /\ PoolSize \in Nat \ {0} /\ MaxIssued \in [Dialects -> Nat] /\ MaxFaults \in Nat
  /\ Absent \notin Caller \cup User \cup Email

Record == [email : Email, pointer : BOOLEAN]

ASSUME AbsentAssumption ==
  Absent \notin Record \cup {"created", "imported", "live"} /\ Absent \notin Nat

VARIABLES
  dialect,  \* the database, chosen once
  flaws,    \* what is wrong with the deployment's database
  booted,   \* createSqlAuthStore returned a store
  rows,     \* rows[key]: a table row, as a query outside any transaction sees it
  open,     \* SQLite: the caller between BEGIN and COMMIT, or Absent
  undo,     \* SQLite: the rows at its BEGIN
  queue,    \* SQLite: the callers of transaction() chained on `tail`
  draft,    \* pools: draft[c], the rows c has written or locked and not committed
  free,     \* pools: connections nobody holds
  pc, arg,  \* the statement a caller runs next, and what it was called with
  faults,   \* failures left
  issued,   \* history: challenges, sessions and hits begun
  wins,     \* history: wins[x], callers told that they consumed challenge x, up to 2
  told,     \* history: told[n], hits told that they were the n-th, up to 2
  claimed,  \* history: claimed[e], the account reported to hold e, or Absent
  revoked,  \* history: tokens reported deleted
  torn      \* history: a caller was given a record without its wallet

conn == <<open, undo, queue, draft, free>>
history == <<issued, wins, told, claimed, revoked, torn>>
deployment == <<dialect, flaws, booted>>
vars == <<deployment, rows, conn, pc, arg, faults, history>>

\* MySQL's default collation compares keys without their case: the keys of User
\* are taken to differ in nothing else.
Stored(u) == IF "non_binary_key_columns" \in flaws THEN CHOOSE v \in User : TRUE ELSE u

UserRow(u) == <<"user", Stored(u)>>
SlotRow(u) == <<"slot", Stored(u)>>
EmailRow(e) == <<"email", e>>
ChallengeRow(x) == <<"challenge", x>>
SessionRow(t) == <<"session", t>>
RateRow == <<"rate">>
Key == ({"user", "slot"} \X User)
       \cup {EmailRow(e) : e \in Email} \cup {ChallengeRow(x) : x \in Challenge}
       \cup {SessionRow(t) : t \in Token} \cup {RateRow}

NoRows == [k \in {} |-> Absent]
Pooled == dialect # "sqlite"
supportsReturning == dialect # "mysql"

-----------------------------------------------------------------------------
(* The boot: the `error` issues of each dialect's preflight refuse it.      *)

Flaw == {"missing_tables", "public_schema", "not_strict_mode", "non_binary_key_columns",
         "web_served_path"}

postgresPreflight == flaws \cap {"public_schema", "missing_tables"}

\* The collations are looked at only when the tables are there.
mysqlPreflight ==
  flaws \cap ({"not_strict_mode", "missing_tables"}
              \cup IF "missing_tables" \in flaws THEN {} ELSE {"non_binary_key_columns"})

sqlitePreflight == flaws \cap {"missing_tables", "web_served_path"}

preflight == [postgres |-> postgresPreflight, mysql |-> mysqlPreflight,
              sqlite |-> sqlitePreflight]

\* What can be wrong with each database.
FlawsOf == [postgres |-> {"missing_tables", "public_schema"},
            mysql |-> {"missing_tables", "not_strict_mode", "non_binary_key_columns"},
            sqlite |-> {"missing_tables", "web_served_path"}]

-----------------------------------------------------------------------------
(* The tables                                                               *)

\* A value column cut short by a MySQL that is not in strict mode, or whole.
Fitted(w) == IF "not_strict_mode" \in flaws THEN "truncated" ELSE w

Statements == {"begin", "user", "slot", "select", "insert", "lock", "delete",
               "upsert", "readback", "row", "wallets", "commit"}
InTransaction(c) == pc[c] \notin {"idle", "begin", "row", "wallets"}

TypeOK ==
  /\ dialect \in Dialects
  /\ flaws \subseteq Flaw /\ booted \in BOOLEAN
  /\ DOMAIN rows = Key
  /\ \A u \in User :
       rows[UserRow(u)] \in {Absent} \cup Record
  /\ \A u \in User : rows[SlotRow(u)] \in {Absent, "created", "imported", "truncated"}
  /\ \A e \in Email : rows[EmailRow(e)] \in User \cup {Absent}
  /\ \A x \in Challenge : rows[ChallengeRow(x)] \in {Absent, "live", "expired"}
  /\ open \in Caller \cup {Absent} /\ queue \in Seq(Caller)
  /\ \A c \in Caller : DOMAIN draft[c] \subseteq Key
  /\ free \in 0 .. PoolSize
  /\ pc \in [Caller -> Statements \cup {"idle"}]
  /\ faults \in 0 .. MaxFaults
  /\ wins \in [Challenge -> 0 .. 2] /\ told \in [1 .. MaxIssued[dialect] -> 0 .. 2]
  /\ claimed \in [Email -> User \cup {Absent}] /\ revoked \subseteq Token
  /\ torn \in BOOLEAN

Init ==
  /\ dialect \in Dialects /\ flaws \in SUBSET FlawsOf[dialect] /\ booted = FALSE
  /\ rows = [k \in Key |-> Absent]
  /\ open = Absent /\ undo = NoRows /\ queue = << >>
  /\ draft = [c \in Caller |-> NoRows] /\ free = PoolSize
  /\ pc = [c \in Caller |-> "idle"] /\ arg = [c \in Caller |-> << >>]
  /\ faults = MaxFaults
  /\ issued = [challenge |-> {}, token |-> {}, hits |-> 0]
  /\ wins = [x \in Challenge |-> 0] /\ told = [n \in 1 .. MaxIssued[dialect] |-> 0]
  /\ claimed = [e \in Email |-> Absent] /\ revoked = {} /\ torn = FALSE

-----------------------------------------------------------------------------
(* Connections                                                              *)

\* What a statement of c reads: its own uncommitted rows, then the committed ones.
Seen(c, k) == IF k \in DOMAIN draft[c] THEN draft[c][k] ELSE rows[k]

Unlocked(c, k) == \A d \in Caller \ {c} : k \notin DOMAIN draft[d]

Put(f, k, v) == [x \in DOMAIN f \cup {k} |-> IF x = k THEN v ELSE f[x]]

\* A write of c's transaction; on a pool it waits for the row's lock.
Write(c, k, v) ==
  IF Pooled
  THEN /\ Unlocked(c, k)
       /\ draft' = [draft EXCEPT ![c] = Put(@, k, v)]
       /\ UNCHANGED <<rows, open, undo, queue, free>>
  ELSE rows' = [rows EXCEPT ![k] = v] /\ UNCHANGED conn

\* A single statement outside a transaction.
Bare(k, v) ==
  /\ Pooled => free > 0 /\ \A d \in Caller : k \notin DOMAIN draft[d]
  /\ rows' = [rows EXCEPT ![k] = v]

Goto(c, l) == pc' = [pc EXCEPT ![c] = l]
Call(c, l, a) == Goto(c, l) /\ arg' = [arg EXCEPT ![c] = a]
Return(c) == Call(c, "idle", << >>)

\* driver.transaction(fn): SQLite chains the call on the tail.
Transaction(c, a) ==
  /\ Call(c, "begin", a)
  /\ queue' = IF Pooled THEN queue ELSE Append(queue, c)
  /\ UNCHANGED <<deployment, rows, open, undo, draft, free, faults>>

First == [putUser |-> "user", take |-> "lock", hit |-> "upsert"]

\* A connection is checked out, or the chain reaches c; BEGIN.
Begin(c) ==
  /\ pc[c] = "begin"
  /\ Goto(c, First[arg[c].op])
  /\ IF Pooled
     THEN free > 0 /\ free' = free - 1 /\ UNCHANGED <<open, undo, queue>>
     ELSE /\ Head(queue) = c /\ open = Absent
          /\ open' = c /\ undo' = rows /\ UNCHANGED <<queue, free>>
  /\ UNCHANGED <<deployment, rows, draft, arg, faults, history>>

\* Mutant of Release: the connection goes back, and the chain goes on, only
\* after a commit.
ReleaseOnCommit(c) ==
  /\ open' = Absent /\ undo' = NoRows
  /\ draft' = [draft EXCEPT ![c] = NoRows]
  /\ IF pc[c] # "commit" THEN UNCHANGED <<free, queue>>
     ELSE IF Pooled THEN free' = free + 1 /\ UNCHANGED queue
     ELSE queue' = Tail(queue) /\ UNCHANGED free

\* Mutant of Release: the connection goes back in the catch and in the finally.
ReleaseTwice(c) ==
  /\ open' = Absent /\ undo' = NoRows
  /\ draft' = [draft EXCEPT ![c] = NoRows]
  /\ IF Pooled THEN free' = free + (IF pc[c] = "commit" THEN 1 ELSE 2) /\ UNCHANGED queue
     ELSE queue' = Tail(queue) /\ UNCHANGED free

\* Mutant of Release: the connection goes back without a ROLLBACK, and what it
\* had locked stays locked.
ReleaseLocked(c) ==
  /\ open' = Absent /\ undo' = NoRows
  /\ draft' = IF pc[c] = "commit" THEN [draft EXCEPT ![c] = NoRows] ELSE draft
  /\ IF Pooled THEN free' = free + 1 /\ UNCHANGED queue
     ELSE queue' = Tail(queue) /\ UNCHANGED free

\* The finally of a pool, and the settled promise the next transaction waits for.
Release(c) ==
  /\ open' = Absent /\ undo' = NoRows
  /\ draft' = [draft EXCEPT ![c] = NoRows]
  /\ IF Pooled THEN free' = free + 1 /\ UNCHANGED queue
     ELSE queue' = Tail(queue) /\ UNCHANGED free

\* COMMIT, and the transaction's caller has its answer.
Commit(c) ==
  /\ rows' = [k \in Key |-> Seen(c, k)]
  /\ Release(c) /\ Return(c)
  /\ UNCHANGED <<deployment, faults>>

\* The callback threw: ROLLBACK, and the error goes on to the caller.
Rollback(c) ==
  /\ rows' = IF Pooled THEN rows ELSE undo
  /\ Release(c) /\ Return(c)

\* A statement, a COMMIT, a BEGIN on a locked database or a checkout fails.
Fail(c) ==
  /\ faults > 0 /\ faults' = faults - 1
  /\ \/ InTransaction(c) /\ Rollback(c)
     \/ /\ pc[c] = "begin" /\ (~Pooled => Head(queue) = c)
        /\ Return(c)
        /\ queue' = IF Pooled THEN queue ELSE Tail(queue)
        /\ UNCHANGED <<rows, open, undo, draft, free>>
     \/ pc[c] \in {"row", "wallets"} /\ Return(c) /\ UNCHANGED <<rows, conn>>
  /\ UNCHANGED <<deployment, history>>

Durable(k) == IF open = Absent THEN rows[k] ELSE undo[k]

\* The process dies: the databases drop what was not committed.
Crash ==
  /\ faults > 0 /\ faults' = faults - 1
  /\ rows' = [k \in Key |-> Durable(k)]
  /\ open' = Absent /\ undo' = NoRows /\ queue' = << >>
  /\ draft' = [c \in Caller |-> NoRows] /\ free' = PoolSize
  /\ pc' = [c \in Caller |-> "idle"] /\ arg' = [c \in Caller |-> << >>]
  /\ UNCHANGED <<deployment, history>>

More(n) == IF n = 2 THEN 2 ELSE n + 1

MayIssue ==
  Cardinality(issued.challenge) + Cardinality(issued.token) + issued.hits < MaxIssued[dialect]

-----------------------------------------------------------------------------
(* Users                                                                    *)

putUser(c, u, e) ==
  /\ pc[c] = "idle"
  /\ Transaction(c, [op |-> "putUser", user |-> u, email |-> e])
  /\ UNCHANGED history

\* Mutant of UpsertUser: the statement runs on this.driver, not on tx.
UpsertUserOutside(c) ==
  /\ pc[c] = "user" /\ Goto(c, "slot")
  /\ Bare(UserRow(arg[c].user), [email |-> arg[c].email, pointer |-> FALSE])
  /\ UNCHANGED <<deployment, conn, arg, faults, history>>

\* INSERT the row, or replace data and auth_token_hash (a new record has none).
UpsertUser(c) ==
  /\ pc[c] = "user" /\ Goto(c, "slot")
  /\ Write(c, UserRow(arg[c].user), [email |-> arg[c].email, pointer |-> FALSE])
  /\ UNCHANGED <<deployment, arg, faults, history>>

UpsertWallet(c) ==
  /\ pc[c] = "slot" /\ Goto(c, "select")
  /\ Write(c, SlotRow(arg[c].user), Fitted("created"))
  /\ UNCHANGED <<deployment, arg, faults, history>>

\* Mutant of SelectHolder: whoever holds the address, the entry is upserted.
SelectHolderSteals(c) ==
  /\ pc[c] = "select" /\ Goto(c, "commit")
  /\ Write(c, EmailRow(arg[c].email), arg[c].user)
  /\ UNCHANGED <<deployment, arg, faults, history>>

\* SELECT the holder: nobody, somebody else (EmailTakenError), or ourselves.
SelectHolder(c) ==
  LET holder == Seen(c, EmailRow(arg[c].email)) IN
  /\ pc[c] = "select"
  /\ IF holder \in {Absent, arg[c].user}
     THEN /\ Goto(c, IF holder = Absent THEN "insert" ELSE "commit")
          /\ UNCHANGED <<rows, conn, arg>>
     ELSE Rollback(c)
  /\ UNCHANGED <<deployment, faults, history>>

\* Mutant of InsertEmail: the catch does not rethrow, the transaction goes on.
InsertEmailSwallows(c) ==
  LET key == EmailRow(arg[c].email) IN
  /\ pc[c] = "insert" /\ Unlocked(c, key) /\ Goto(c, "commit")
  /\ IF rows[key] = Absent
     THEN Write(c, key, arg[c].user)
     ELSE UNCHANGED <<rows, conn>>
  /\ UNCHANGED <<deployment, arg, faults, history>>

\* INSERT waits for another transaction's entry; a committed one is a duplicate
\* key, and any throw is answered as EmailTakenError.
InsertEmail(c) ==
  LET key == EmailRow(arg[c].email) IN
  /\ pc[c] = "insert" /\ Unlocked(c, key)
  /\ IF rows[key] = Absent
     THEN Write(c, key, arg[c].user) /\ Goto(c, "commit") /\ UNCHANGED arg
     ELSE Rollback(c)
  /\ UNCHANGED <<deployment, faults, history>>

CommitUser(c) ==
  /\ pc[c] = "commit" /\ arg[c].op = "putUser"
  /\ Commit(c)
  /\ claimed' = [claimed EXCEPT ![arg[c].email] = arg[c].user]
  /\ UNCHANGED <<issued, wins, told, revoked, torn>>

\* getUser: the row of the record, then its wallets, two queries of their own.
getUser(c, u) ==
  /\ pc[c] = "idle" /\ Call(c, "row", [op |-> "getUser", user |-> u])
  /\ UNCHANGED <<deployment, rows, conn, faults, history>>

SelectUser(c) ==
  /\ pc[c] = "row" /\ (Pooled => free > 0)
  /\ IF rows[UserRow(arg[c].user)] = Absent THEN Return(c)
     ELSE Goto(c, "wallets") /\ UNCHANGED arg
  /\ UNCHANGED <<deployment, rows, conn, faults, history>>

SelectWallets(c) ==
  /\ pc[c] = "wallets" /\ (Pooled => free > 0)
  /\ torn' = (torn \/ rows[SlotRow(arg[c].user)] \in {Absent, "truncated"})
  /\ Return(c)
  /\ UNCHANGED <<deployment, rows, conn, faults, issued, wins, told, claimed, revoked>>

putWalletSlot(u) ==
  /\ rows[UserRow(u)] # Absent
  /\ Bare(SlotRow(u), Fitted("imported"))
  /\ UNCHANGED <<deployment, conn, pc, arg, faults, history>>

\* UPDATE of one column: no row, no effect.
setSessionPointer(u) ==
  /\ rows[UserRow(u)] # Absent
  /\ Bare(UserRow(u), [rows[UserRow(u)] EXCEPT !.pointer = TRUE])
  /\ UNCHANGED <<deployment, conn, pc, arg, faults, history>>

-----------------------------------------------------------------------------
(* Challenges, sessions and the rate-limit counter                          *)

putChallenge(x) ==
  /\ MayIssue /\ x \notin issued.challenge
  /\ Bare(ChallengeRow(x), "live")
  /\ issued' = [issued EXCEPT !.challenge = @ \cup {x}]
  /\ UNCHANGED <<deployment, conn, pc, arg, faults, wins, told, claimed, revoked, torn>>

\* DELETE ... RETURNING, one statement.
takeReturning(x) ==
  /\ supportsReturning
  /\ rows[ChallengeRow(x)] = "live"
  /\ Bare(ChallengeRow(x), Absent)
  /\ wins' = [wins EXCEPT ![x] = More(@)]
  /\ UNCHANGED <<deployment, conn, pc, arg, faults, issued, told, claimed, revoked, torn>>

\* Without it: a transaction of a locking read, a delete and the commit.
takeChallenge(c, x) ==
  /\ pc[c] = "idle" /\ ~supportsReturning /\ x \in issued.challenge
  /\ Transaction(c, [op |-> "take", challenge |-> x])
  /\ UNCHANGED history

\* Mutant of SelectForUpdate: dialect.forUpdate is empty.
SelectForUpdateBare(c) ==
  LET key == ChallengeRow(arg[c].challenge) IN
  /\ pc[c] = "lock"
  /\ IF Seen(c, key) = "live"
     THEN Goto(c, "delete") /\ UNCHANGED <<rows, conn, arg>>
     ELSE Commit(c) /\ UNCHANGED faults
  /\ UNCHANGED <<deployment, faults, history>>

\* SELECT ... FOR UPDATE: waits for the row, then reads what was committed.
SelectForUpdate(c) ==
  LET key == ChallengeRow(arg[c].challenge) IN
  /\ pc[c] = "lock" /\ Unlocked(c, key)
  /\ IF rows[key] = "live"
     THEN Write(c, key, "live") /\ Goto(c, "delete") /\ UNCHANGED arg
     ELSE Commit(c)
  /\ UNCHANGED <<deployment, faults, history>>

DeleteTaken(c) ==
  /\ pc[c] = "delete" /\ Goto(c, "commit")
  /\ Write(c, ChallengeRow(arg[c].challenge), Absent)
  /\ UNCHANGED <<deployment, arg, faults, history>>

CommitTaken(c) ==
  /\ pc[c] = "commit" /\ arg[c].op = "take"
  /\ Commit(c)
  /\ wins' = [wins EXCEPT ![arg[c].challenge] = More(@)]
  /\ UNCHANGED <<issued, told, claimed, revoked, torn>>

putSession(t) ==
  /\ MayIssue /\ t \notin issued.token
  /\ Bare(SessionRow(t), "live")
  /\ issued' = [issued EXCEPT !.token = @ \cup {t}]
  /\ UNCHANGED <<deployment, conn, pc, arg, faults, wins, told, claimed, revoked, torn>>

deleteSession(t) ==
  /\ t \in issued.token
  /\ Bare(SessionRow(t), Absent)
  /\ revoked' = revoked \cup {t}
  /\ UNCHANGED <<deployment, conn, pc, arg, faults, issued, wins, told, claimed, torn>>

\* A challenge or session passes its expires_at: every read filters it out.
Expire(k) ==
  /\ rows[k] = "live" /\ \A d \in Caller : k \notin DOMAIN draft[d]
  /\ rows' = [rows EXCEPT ![k] = "expired"]
  /\ undo' = IF open = Absent THEN undo
             ELSE [undo EXCEPT ![k] = IF @ = "live" THEN "expired" ELSE @]
  /\ UNCHANGED <<deployment, open, queue, draft, free, pc, arg, faults, history>>

\* sweepExpired: deleteExpiredLimited removes expired rows, some of them.
sweepExpired(k) ==
  /\ rows[k] = "expired"
  /\ Bare(k, Absent)
  /\ UNCHANGED <<deployment, conn, pc, arg, faults, history>>

Counted(k) == IF k = Absent THEN 1 ELSE k + 1

Hit == MayIssue /\ issued' = [issued EXCEPT !.hits = @ + 1]

\* hitRateLimit: an upsert RETURNING the count, one statement.
hitReturning ==
  /\ supportsReturning /\ Hit
  /\ Bare(RateRow, Counted(rows[RateRow]))
  /\ told' = [told EXCEPT ![rows'[RateRow]] = More(@)]
  /\ UNCHANGED <<deployment, conn, pc, arg, faults, wins, claimed, revoked, torn>>

\* Without it: a transaction of the upsert and a read of the count.
hitRateLimit(c) ==
  /\ pc[c] = "idle" /\ ~supportsReturning /\ Hit
  /\ Transaction(c, [op |-> "hit"])
  /\ UNCHANGED <<wins, told, claimed, revoked, torn>>

\* Mutant of UpsertHit: the upsert runs on the pool, outside the transaction.
UpsertHitOutside(c) ==
  /\ pc[c] = "upsert" /\ Goto(c, "readback")
  /\ rows' = [rows EXCEPT ![RateRow] = Counted(@)] /\ UNCHANGED conn
  /\ UNCHANGED <<deployment, arg, faults, history>>

UpsertHit(c) ==
  /\ pc[c] = "upsert" /\ Goto(c, "readback")
  /\ Write(c, RateRow, Counted(rows[RateRow]))
  /\ UNCHANGED <<deployment, arg, faults, history>>

ReadBack(c) ==
  /\ pc[c] = "readback" /\ Call(c, "commit", [op |-> "hit", count |-> Seen(c, RateRow)])
  /\ UNCHANGED <<deployment, rows, conn, faults, history>>

CommitHit(c) ==
  /\ pc[c] = "commit" /\ arg[c].op = "hit"
  /\ Commit(c)
  /\ told' = [told EXCEPT ![arg[c].count] = More(@)]
  /\ UNCHANGED <<issued, wins, claimed, revoked, torn>>

-----------------------------------------------------------------------------
\* The statements of a call that has begun.
Step(c) ==
  \/ Begin(c)
  \/ UpsertUser(c) \/ UpsertWallet(c) \/ SelectHolder(c) \/ InsertEmail(c) \/ CommitUser(c)
  \/ SelectUser(c) \/ SelectWallets(c)
  \/ SelectForUpdate(c) \/ DeleteTaken(c) \/ CommitTaken(c)
  \/ UpsertHit(c) \/ ReadBack(c) \/ CommitHit(c)

\* The calls of one statement, and the clock.
Single ==
  \/ \E u \in User : putWalletSlot(u) \/ setSessionPointer(u)
  \/ \E x \in Challenge : putChallenge(x) \/ takeReturning(x)
  \/ \E t \in Token : putSession(t) \/ deleteSession(t)
  \/ \E k \in Key : k[1] \in {"challenge", "session"} /\ (Expire(k) \/ sweepExpired(k))
  \/ hitReturning

Arrive(c) ==
  \/ \E u \in User, e \in Email : putUser(c, u, e)
  \/ \E u \in User : getUser(c, u)
  \/ \E x \in Challenge : takeChallenge(c, x)
  \/ hitRateLimit(c)

\* createSqlAuthStore: the preflight throws PreflightError, or the store is there.
createSqlAuthStore ==
  /\ ~booted /\ preflight[dialect] = {}
  /\ booted' = TRUE
  /\ UNCHANGED <<dialect, flaws, rows, conn, pc, arg, faults, history>>

\* The operator mends what a refused boot named.
Repair(f) ==
  /\ ~booted /\ f \in preflight[dialect]
  /\ flaws' = flaws \ {f}
  /\ UNCHANGED <<dialect, booted, rows, conn, pc, arg, faults, history>>

Next ==
  \/ createSqlAuthStore
  \/ \E f \in Flaw : Repair(f)
  \/ booted /\ (Crash \/ Single \/ \E c \in Caller : Arrive(c) \/ Step(c) \/ Fail(c))

\* The database runs every statement it is sent, and a pool and a row lock serve
\* those who wait for them in turn.
Fairness == \A c \in Caller : SF_vars(Step(c))

Spec == Init /\ [][Next]_vars /\ Fairness

-----------------------------------------------------------------------------
(* Properties                                                               *)

\* On every database, through rollbacks and crashes, what is durable is a
\* directory in which an account and its claim appear together and no address
\* changes hands (putUser claims, it does not upsert).
Address(u) == IF Durable(UserRow(u)) = Absent THEN Absent
              ELSE Durable(UserRow(u)).email
Directory == INSTANCE EmailDirectory
  WITH Nobody <- Absent,
       address <- [u \in User |-> Address(u)],
       holder <- [e \in Email |-> Durable(EmailRow(e))]
ImplementsDirectory == Directory!Spec

\* An account whose putUser returned is reachable by its address for good.
ReportedClaimsHold ==
  \A e \in Email : claimed[e] # Absent => Durable(EmailRow(e)) = claimed[e]

\* takeChallenge tells one caller that it consumed a challenge.
ChallengeTakenOnce == \A x \in Challenge : wins[x] <= 1

\* On a pool the calls, of however many statements, are the one-step operations
\* of AuthStore: no write is lost to another, what was reported stands, a
\* challenge is taken once, and no two hits are told the same count.
OnPool(v, idle) == IF Pooled THEN v ELSE idle
Slot(u) == IF rows[SlotRow(u)] = Absent THEN "none" ELSE rows[SlotRow(u)]
Contract == INSTANCE AuthStore
  WITH Nobody <- Absent,
       address <- [u \in User |-> OnPool(Address(u), Absent)],
       holder <- [e \in Email |-> OnPool(rows[EmailRow(e)], Absent)],
       wallet <- [u \in User |-> OnPool(Slot(u), "none")],
       pointed <- OnPool({u \in User : rows[UserRow(u)] # Absent /\ rows[UserRow(u)].pointer}, {}),
       live <- OnPool({x \in Challenge : rows[ChallengeRow(x)] = "live"}, {}),
       taken <- OnPool(wins, [x \in Challenge |-> 0]),
       session <- OnPool({t \in Token : rows[SessionRow(t)] = "live"}, {}),
       ended <- OnPool(revoked, {}),
       hits <- OnPool(IF rows[RateRow] = Absent THEN 0 ELSE rows[RateRow], 0),
       told <- OnPool(told, [n \in DOMAIN told |-> 0])
PoolsImplementStore == Contract!StoreSpec

\* On a pool getUser, two queries beside everything else, never gives out a
\* record without the wallets it was stored with.
PooledReadsWhole == Pooled => ~torn

\* Every call is answered: no failure keeps a connection or breaks the chain.
EveryCallAnswered == \A c \in Caller : pc[c] # "idle" ~> pc[c] = "idle"

\* The row whose lock the next statement of c waits for.
Needed(c) ==
  CASE pc[c] = "user" -> UserRow(arg[c].user)
    [] pc[c] = "slot" -> SlotRow(arg[c].user)
    [] pc[c] = "insert" -> EmailRow(arg[c].email)
    [] pc[c] \in {"lock", "delete"} -> ChallengeRow(arg[c].challenge)
    [] pc[c] = "upsert" -> RateRow

\* The next statement of c is waiting for nothing: the guards of Step(c).
CanStep(c) ==
  /\ pc[c] # "idle"
  /\ pc[c] \in {"begin", "row", "wallets"} /\ Pooled => free > 0
  /\ pc[c] = "begin" /\ ~Pooled => Head(queue) = c /\ open = Absent
  /\ pc[c] \in {"user", "slot", "insert", "lock", "delete", "upsert"} /\ Pooled
       => Unlocked(c, Needed(c))

\* No deadlock: calls wait for rows, connections and the chain, but never all of
\* them at once (the tables are written in one order, and a connection is held
\* by nobody who waits for another).
SomebodyMoves == (\E c \in Caller : pc[c] # "idle") => \E c \in Caller : CanStep(c)
=============================================================================
