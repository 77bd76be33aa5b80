--------------------------- MODULE SqlStoreProofs ---------------------------
(***************************************************************************)
(* What a transaction of SqlStore has done and not yet committed, on a     *)
(* pool and on the one connection of SQLite, for any number of callers,    *)
(* accounts, addresses and failures: what becomes durable is an            *)
(* EmailDirectory, a reported claim holds, a pool reads records whole, and *)
(* the calls on a pool are the one-step operations of AuthStore.           *)
(***************************************************************************)
EXTENDS SqlStore, FiniteSetTheorems, TLAPS

UserKey(u) == <<"user", u>>
SlotKey(u) == <<"slot", u>>

\* A row of none of the tables these theorems are about.
Aside(k) == /\ \A u \in User : k # UserKey(u) /\ k # SlotKey(u)
            /\ \A e \in Email : k # EmailRow(e)

PutArg == [op : {"putUser"}, user : User, email : Email]

\* c is inside a putUser.
Putting(c) == pc[c] \in {"user", "slot", "select", "insert"}
              \/ (pc[c] = "commit" /\ arg[c].op = "putUser")

Shape ==
  /\ dialect \in {"postgres", "mysql", "sqlite"}
  /\ DOMAIN rows = Key /\ DOMAIN draft = Caller
  /\ pc \in [Caller -> Statements \cup {"idle"}] /\ DOMAIN arg = Caller
  /\ claimed \in [Email -> User \cup {Absent}]
  /\ \A u \in User : rows[UserKey(u)] \in {Absent} \cup Record
  /\ \A e \in Email : rows[EmailRow(e)] \in {Absent} \cup User

ArgFits(c) ==
  /\ Putting(c) => arg[c] \in PutArg
  /\ pc[c] = "begin" => arg[c].op \in {"putUser", "take", "hit"}
  /\ pc[c] = "begin" /\ arg[c].op = "putUser" => arg[c] \in PutArg
  /\ pc[c] \in {"lock", "delete"} => arg[c].op # "putUser"
  /\ pc[c] \in {"row", "wallets"} => arg[c].user \in User

\* On a pool: the rows that c has written so far, and its claim's right to be
\* committed.
DraftFits(c) ==
  /\ Putting(c) /\ pc[c] # "user" => UserKey(arg[c].user) \in DOMAIN draft[c]
  /\ Putting(c) /\ pc[c] \notin {"user", "slot"} => SlotKey(arg[c].user) \in DOMAIN draft[c]
  /\ Putting(c) /\ pc[c] = "commit" =>
       \/ EmailRow(arg[c].email) \in DOMAIN draft[c]
       \/ rows[EmailRow(arg[c].email)] = arg[c].user
  /\ \A u \in User : UserKey(u) \in DOMAIN draft[c] =>
       /\ Putting(c) /\ pc[c] # "user" /\ arg[c].user = u
       /\ draft[c][UserKey(u)] = [email |-> arg[c].email, pointer |-> FALSE]
  /\ \A u \in User : SlotKey(u) \in DOMAIN draft[c] =>
       /\ Putting(c) /\ pc[c] \notin {"user", "slot"} /\ arg[c].user = u
       /\ draft[c][SlotKey(u)] = "created"
  /\ \A e \in Email : EmailRow(e) \in DOMAIN draft[c] =>
       /\ Putting(c) /\ pc[c] = "commit" /\ arg[c].email = e
       /\ draft[c][EmailRow(e)] = arg[c].user /\ rows[EmailRow(e)] = Absent

PoolFits ==
  /\ open = Absent
  /\ \A c \in Caller : DraftFits(c)
  /\ \A c, d \in Caller, e \in Email :
       EmailRow(e) \in DOMAIN draft[c] /\ EmailRow(e) \in DOMAIN draft[d] => c = d

\* On SQLite: how the rows differ from those at the BEGIN of c.
AddressIn(r, u) == IF r[UserKey(u)] = Absent THEN Absent ELSE r[UserKey(u)].email
Undone(c) ==
  /\ DOMAIN undo = Key
  /\ \A u \in User : undo[UserKey(u)] \in {Absent} \cup Record
  /\ \A u \in User : u # arg[c].user \/ pc[c] = "user" => AddressIn(rows, u) = AddressIn(undo, u)
  /\ pc[c] # "user" => AddressIn(rows, arg[c].user) = arg[c].email
  /\ \A e \in Email : e # arg[c].email \/ pc[c] # "commit" => rows[EmailRow(e)] = undo[EmailRow(e)]
  /\ pc[c] = "commit" => /\ rows[EmailRow(arg[c].email)] = arg[c].user
                         /\ undo[EmailRow(arg[c].email)] \in {Absent, arg[c].user}

LineFits ==
  /\ \A c \in Caller : DOMAIN draft[c] = {}
  /\ \A c \in Caller : InTransaction(c) => open = c /\ Putting(c)
  /\ \A c \in Caller : pc[c] = "begin" => arg[c].op = "putUser"
  /\ open # Absent => open \in Caller /\ Putting(open) /\ Undone(open)

\* A record never stands without its wallet, on a pool.
Whole ==
  /\ ~torn
  /\ \A u \in User : rows[UserKey(u)] # Absent => rows[SlotKey(u)] \in {"created", "imported"}
  /\ \A c \in Caller : pc[c] = "wallets" => rows[UserKey(arg[c].user)] # Absent

Claims == \A e \in Email : claimed[e] # Absent => Durable(EmailRow(e)) = claimed[e]

Core ==
  /\ Shape
  /\ \A c \in Caller : ArgFits(c)
  /\ Pooled => PoolFits /\ Whole
  /\ ~Pooled => LineFits
  /\ Claims

\* Nothing is wrong with a database that booted; before that, nothing ran.
Boots ==
  /\ dialect \in Dialects /\ flaws \subseteq FlawsOf[dialect]
  /\ booted => flaws = {}
  /\ ~booted => \A k \in Key : Durable(k) = Absent

Inv == Core /\ Boots

\* What the directory sees does not change.
AddressOf(u) == IF Durable(UserKey(u)) = Absent THEN Absent ELSE Durable(UserKey(u)).email
Same == /\ \A u \in User : AddressOf(u)' = AddressOf(u)
        /\ \A e \in Email : Durable(EmailRow(e))' = Durable(EmailRow(e))

-----------------------------------------------------------------------------
(* Keys                                                                     *)

LEMMA Keys ==
  /\ \A u \in User : UserKey(u) \in Key /\ SlotKey(u) \in Key
  /\ \A e \in Email : EmailRow(e) \in Key
  /\ \A u, v \in User : UserKey(u) = UserKey(v) => u = v
  /\ \A u, v \in User : SlotKey(u) = SlotKey(v) => u = v
  /\ \A u, v \in User : UserKey(u) # SlotKey(v)
  /\ \A u \in User, e \in Email : EmailRow(e) # UserKey(u) /\ EmailRow(e) # SlotKey(u)
  /\ \A e, f \in Email : EmailRow(e) = EmailRow(f) => e = f
  BY DEF Key, UserKey, SlotKey, EmailRow

LEMMA AsideKeys ==
  /\ \A x : Aside(ChallengeRow(x)) /\ Aside(SessionRow(x))
  /\ Aside(RateRow)
  /\ \A k \in Key : k[1] \in {"challenge", "session"} => Aside(k)
<1>1. \A x : Aside(ChallengeRow(x)) /\ Aside(SessionRow(x))
  BY DEF Aside, UserKey, SlotKey, EmailRow, ChallengeRow, SessionRow
<1>2. Aside(RateRow)
  BY DEF Aside, UserKey, SlotKey, EmailRow, RateRow
<1>3. ASSUME NEW k \in Key, k[1] \in {"challenge", "session"} PROVE Aside(k)
  BY <1>3 DEF Aside, UserKey, SlotKey, EmailRow
<1> QED BY <1>1, <1>2, <1>3

LEMMA Empty == DOMAIN NoRows = {}
  BY DEF NoRows

\* In a database that booted the key and the wallet are stored as they are given.
LEMMA Clean ==
  ASSUME flaws = {}, NEW u \in User
  PROVE  UserRow(u) = UserKey(u) /\ SlotRow(u) = SlotKey(u) /\ \A w : Fitted(w) = w
  BY DEF UserRow, SlotRow, UserKey, SlotKey, Stored, Fitted

-----------------------------------------------------------------------------
(* Steps beside the users and addresses                                     *)

CoreSame(f, g) ==
  /\ \A u \in User : f[UserKey(u)] = g[UserKey(u)] /\ f[SlotKey(u)] = g[SlotKey(u)]
  /\ \A e \in Email : f[EmailRow(e)] = g[EmailRow(e)]

LEMMA AsideStep ==
  ASSUME Core, UNCHANGED <<dialect, open, draft, pc, arg, claimed, torn>>,
         DOMAIN rows' = Key, CoreSame(rows', rows),
         open # Absent => DOMAIN undo' = Key /\ CoreSame(undo', undo)
  PROVE  Core' /\ Same
<1> USE DEF Core
<1>1. Shape'
  BY DEF Shape, CoreSame
<1>2. \A c \in Caller : ArgFits(c)'
  BY DEF ArgFits, Putting
<1>3. Pooled' = Pooled
  BY DEF Pooled
<1>4. Pooled => PoolFits'
  <2> SUFFICES ASSUME Pooled PROVE PoolFits'
    OBVIOUS
  <2>1. ASSUME NEW c \in Caller PROVE DraftFits(c)'
    <3>1. DraftFits(c)
      BY DEF PoolFits
    <3>2. arg[c] \in PutArg \/ ~Putting(c)
      BY DEF ArgFits
    <3> QED BY <3>1, <3>2 DEF DraftFits, Putting, CoreSame, PutArg
  <2> QED BY <2>1 DEF PoolFits
<1>5. Pooled => Whole'
  <2> SUFFICES ASSUME Pooled PROVE Whole'
    OBVIOUS
  <2>1. \A c \in Caller : pc[c] = "wallets" => arg[c].user \in User
    BY DEF ArgFits
  <2> QED BY <2>1 DEF Whole, CoreSame
<1>6. ~Pooled => LineFits'
  <2> SUFFICES ASSUME ~Pooled PROVE LineFits'
    OBVIOUS
  <2>1. ASSUME open # Absent PROVE Undone(open)'
    <3>1. open \in Caller /\ Putting(open) /\ Undone(open)
      BY <2>1 DEF LineFits
    <3>2. arg[open] \in PutArg
      BY <3>1 DEF ArgFits
    <3>3. \A u \in User : AddressIn(rows, u)' = AddressIn(rows, u) /\ AddressIn(undo, u)' = AddressIn(undo, u)
      BY <2>1 DEF AddressIn, CoreSame
    <3>4. \A u \in User : undo'[UserKey(u)] \in {Absent} \cup Record
      BY <2>1, <3>1 DEF Undone, CoreSame
    <3> QED BY <2>1, <3>1, <3>2, <3>3, <3>4 DEF Undone, CoreSame, PutArg
  <2> QED BY <2>1 DEF LineFits, InTransaction, Putting
<1>7. Same
  BY Keys DEF Same, AddressOf, Durable, CoreSame
<1>8. Claims'
  BY <1>7 DEF Claims, Same
<1> QED BY <1>1, <1>2, <1>3, <1>4, <1>5, <1>6, <1>7, <1>8

-----------------------------------------------------------------------------
(* Steps of one caller                                                      *)

\* Only c moves.
Moves(c, l, a) == /\ pc' = [pc EXCEPT ![c] = l]
                  /\ arg' = [arg EXCEPT ![c] = a] \/ (arg' = arg /\ a = arg[c])

LEMMA MovesOnly ==
  ASSUME Shape, NEW c \in Caller, NEW l, NEW a, Moves(c, l, a)
  PROVE  /\ pc'[c] = l /\ arg'[c] = a
         /\ \A d \in Caller \ {c} : pc'[d] = pc[d] /\ arg'[d] = arg[d]
         /\ DOMAIN arg' = Caller
         /\ l \in Statements \cup {"idle"} => pc' \in [Caller -> Statements \cup {"idle"}]
  BY DEF Shape, Moves

\* The draft of a caller on a pool fits as long as what it relies on stays.
LEMMA OthersFit ==
  ASSUME Core, Pooled, NEW d \in Caller,
         pc'[d] = pc[d], arg'[d] = arg[d], draft'[d] = draft[d],
         \A e \in Email : rows[EmailRow(e)] # Absent \/ EmailRow(e) \in DOMAIN draft[d]
                            => rows'[EmailRow(e)] = rows[EmailRow(e)]
  PROVE  DraftFits(d)'
<1>1. DraftFits(d)
  BY DEF Core, PoolFits
<1>2. Putting(d)' = Putting(d)
  BY DEF Putting
<1>3. Putting(d) => arg[d].user \in User /\ arg[d].email \in Email
  BY DEF Core, ArgFits, PutArg
<1>4. Absent \notin User
  BY StoreAssumption
<1> QED BY <1>1, <1>2, <1>3, <1>4 DEF DraftFits

LEMMA OutsideStep ==
  ASSUME Core, NEW c \in Caller, ~InTransaction(c),
         NEW l \in {"idle", "begin", "row", "wallets"}, NEW a, Moves(c, l, a),
         UNCHANGED <<dialect, rows, open, undo, draft, claimed>>,
         l = "begin" => a.op \in {"putUser", "take", "hit"} /\ (a.op = "putUser" => a \in PutArg),
         l = "begin" /\ ~Pooled => a.op = "putUser",
         l \in {"row", "wallets"} => a.user \in User,
         l = "wallets" => rows[UserKey(a.user)] # Absent,
         Pooled => ~torn'
  PROVE  Core' /\ Same
<1>1. /\ pc'[c] = l /\ arg'[c] = a
      /\ \A d \in Caller \ {c} : pc'[d] = pc[d] /\ arg'[d] = arg[d]
      /\ DOMAIN arg' = Caller /\ pc' \in [Caller -> Statements \cup {"idle"}]
  BY MovesOnly DEF Core, Statements
<1>2. Shape'
  BY <1>1 DEF Core, Shape
<1>3. ~Putting(c) /\ ~Putting(c)' /\ ~InTransaction(c)'
  BY <1>1 DEF Putting, InTransaction
<1>4. \A d \in Caller : ArgFits(d)'
  BY <1>1, <1>3 DEF Core, ArgFits, Putting
<1>5. Pooled' = Pooled
  BY DEF Pooled
<1>6. Pooled => PoolFits'
  <2> SUFFICES ASSUME Pooled PROVE PoolFits'
    OBVIOUS
  <2>1. DraftFits(c)'
    <3>1. DraftFits(c)
      BY DEF Core, PoolFits
    <3> QED BY <3>1, <1>3 DEF DraftFits
  <2>2. \A d \in Caller : DraftFits(d)'
    BY <1>1, <2>1, OthersFit
  <2> QED BY <2>2 DEF Core, PoolFits
<1>7. Pooled => Whole'
  BY <1>1 DEF Core, Whole
<1>8. ~Pooled => LineFits'
  <2> SUFFICES ASSUME ~Pooled PROVE LineFits'
    OBVIOUS
  <2>1. LineFits
    BY DEF Core
  <2>2. open # c
    BY <2>1, <1>3, StoreAssumption DEF LineFits
  <2>3. \A d \in Caller : InTransaction(d)' => open = d /\ Putting(d)'
    BY <1>1, <1>3, <2>1 DEF LineFits, InTransaction, Putting
  <2>4. \A d \in Caller : pc'[d] = "begin" => arg'[d].op = "putUser"
    BY <1>1, <2>1 DEF LineFits
  <2>5. open # Absent => Putting(open)' /\ Undone(open)'
    BY <1>1, <2>1, <2>2 DEF LineFits, Putting, Undone, AddressIn
  <2> QED BY <2>1, <2>3, <2>4, <2>5 DEF LineFits
<1>9. Same
  BY DEF Same, AddressOf, Durable
<1>10. Claims'
  BY <1>9 DEF Core, Claims, Same
<1> QED BY <1>2, <1>4, <1>5, <1>6, <1>7, <1>8, <1>9, <1>10 DEF Core

\* Inside a transaction that is no putUser: a pool's, and none of its rows count.
LEMMA OtherTransaction ==
  ASSUME Core, NEW c \in Caller, InTransaction(c), ~Putting(c),
         NEW l \in {"lock", "delete", "upsert", "readback", "commit"}, NEW a, Moves(c, l, a),
         l # "readback" => a.op # "putUser",
         UNCHANGED <<dialect, rows, open, claimed, torn>>,
         DOMAIN draft' = Caller, \A d \in Caller \ {c} : draft'[d] = draft[d],
         \A k \in DOMAIN draft'[c] : Aside(k) \/ k \in DOMAIN draft[c]
  PROVE  Core' /\ Same
<1>1. /\ pc'[c] = l /\ arg'[c] = a
      /\ \A d \in Caller \ {c} : pc'[d] = pc[d] /\ arg'[d] = arg[d]
      /\ DOMAIN arg' = Caller /\ pc' \in [Caller -> Statements \cup {"idle"}]
  BY MovesOnly DEF Core, Statements
<1>2. Pooled
  BY DEF Core, LineFits
<1>3. Shape'
  BY <1>1 DEF Core, Shape
<1>4. ~Putting(c)'
  BY <1>1 DEF Putting
<1>5. \A d \in Caller : ArgFits(d)'
  BY <1>1, <1>4 DEF Core, ArgFits, Putting
<1>6. /\ \A u \in User : UserKey(u) \notin DOMAIN draft'[c] /\ SlotKey(u) \notin DOMAIN draft'[c]
      /\ \A e \in Email : EmailRow(e) \notin DOMAIN draft'[c]
  <2>1. DraftFits(c)
    BY <1>2 DEF Core, PoolFits
  <2> QED BY <2>1 DEF DraftFits, Aside
<1>7. PoolFits'
  <2>1. DraftFits(c)'
    BY <1>4, <1>6 DEF DraftFits
  <2>2. \A d \in Caller : DraftFits(d)'
    BY <1>1, <1>2, <2>1, OthersFit
  <2> QED BY <1>2, <1>6, <2>2 DEF Core, PoolFits
<1>8. Whole'
  BY <1>1, <1>2 DEF Core, Whole
<1>9. Same
  BY <1>2 DEF Same, AddressOf, Durable, Core, PoolFits
<1>10. Claims'
  BY <1>9 DEF Core, Claims, Same
<1>11. Pooled'
  BY <1>2 DEF Pooled
<1> QED BY <1>3, <1>5, <1>7, <1>8, <1>9, <1>10, <1>11 DEF Core

\* The end of a transaction that leaves its rows as they were at its BEGIN.
LEMMA LeaveStep ==
  ASSUME Core, NEW c \in Caller, InTransaction(c), Moves(c, "idle", << >>),
         open' = Absent, draft' = [draft EXCEPT ![c] = NoRows],
         DOMAIN rows' = Key, Pooled => CoreSame(rows', rows), ~Pooled => rows' = undo,
         UNCHANGED <<dialect, claimed, torn>>
  PROVE  Core' /\ Same
<1>1. /\ pc'[c] = "idle"
      /\ \A d \in Caller \ {c} : pc'[d] = pc[d] /\ arg'[d] = arg[d]
      /\ DOMAIN arg' = Caller /\ pc' \in [Caller -> Statements \cup {"idle"}]
  BY MovesOnly DEF Core, Statements
<1>2. /\ DOMAIN draft' = Caller /\ DOMAIN draft'[c] = {}
      /\ \A d \in Caller \ {c} : draft'[d] = draft[d]
  BY Empty DEF Core, Shape
<1>3. ~Pooled => open = c /\ LineFits /\ Undone(c) /\ Putting(c) /\ arg[c] \in PutArg
  BY StoreAssumption DEF Core, LineFits, ArgFits
<1>4. Pooled => open = Absent
  BY DEF Core, PoolFits
<1>5. \A u \in User : rows'[UserKey(u)] \in {Absent} \cup Record
  BY <1>3 DEF Core, Shape, CoreSame, Undone
<1>6. \A e \in Email : rows'[EmailRow(e)] \in {Absent} \cup User
  BY <1>3 DEF Core, Shape, CoreSame, Undone, PutArg
<1>7. Shape'
  BY <1>1, <1>2, <1>5, <1>6 DEF Core, Shape
<1>8. ~Putting(c)' /\ ~InTransaction(c)'
  BY <1>1 DEF Putting, InTransaction
<1>9. \A d \in Caller : ArgFits(d)'
  BY <1>1, <1>8 DEF Core, ArgFits, Putting
<1>10. Pooled' = Pooled
  BY DEF Pooled
<1>11. Pooled => PoolFits'
  <2> SUFFICES ASSUME Pooled PROVE PoolFits'
    OBVIOUS
  <2>1. DraftFits(c)'
    BY <1>2, <1>8 DEF DraftFits
  <2>2. \A d \in Caller : DraftFits(d)'
    BY <1>1, <1>2, <2>1, OthersFit DEF CoreSame
  <2> QED BY <1>2, <2>2 DEF Core, PoolFits
<1>12. Pooled => Whole'
  <2>1. \A d \in Caller : pc[d] = "wallets" => arg[d].user \in User
    BY DEF Core, ArgFits
  <2> QED BY <1>1, <2>1 DEF Core, Whole, CoreSame
<1>13. ~Pooled => LineFits'
  BY <1>1, <1>2, <1>3, <1>8 DEF LineFits, InTransaction, Putting
<1>14. Same
  <2>1. CASE Pooled
    BY <1>4, <2>1 DEF Same, AddressOf, Durable, CoreSame
  <2>2. CASE ~Pooled
    BY <1>3, <2>2, StoreAssumption DEF Same, AddressOf, Durable
  <2> QED BY <2>1, <2>2
<1>15. Claims'
  BY <1>14 DEF Core, Claims, Same
<1> QED BY <1>7, <1>9, <1>10, <1>11, <1>12, <1>13, <1>14, <1>15 DEF Core

-----------------------------------------------------------------------------
(* putUser                                                                  *)

LEMMA BeginStep ==
  ASSUME Core, NEW c \in Caller, Begin(c)
  PROVE  Core' /\ Same
<1>1. /\ pc[c] = "begin" /\ pc' = [pc EXCEPT ![c] = First[arg[c].op]]
      /\ UNCHANGED <<dialect, rows, draft, arg, claimed, torn>>
  BY DEF Begin, Goto, history, deployment
<1>2. ~Putting(c) /\ ~InTransaction(c)
  BY <1>1 DEF Putting, InTransaction
<1>3. \/ arg[c].op = "putUser" /\ pc'[c] = "user" /\ arg[c] \in PutArg
      \/ arg[c].op # "putUser" /\ pc'[c] \in {"lock", "upsert"}
  <2>1. arg[c].op \in {"putUser", "take", "hit"} /\ (arg[c].op = "putUser" => arg[c] \in PutArg)
    BY <1>1 DEF Core, ArgFits
  <2>2. First["putUser"] = "user" /\ First["take"] = "lock" /\ First["hit"] = "upsert"
    BY DEF First
  <2> QED BY <1>1, <2>1, <2>2 DEF Core, Shape
<1>4. \A d \in Caller \ {c} : pc'[d] = pc[d]
  BY <1>1 DEF Core, Shape
<1>5. Shape'
  <2>1. First[arg[c].op] \in Statements
    BY <1>1, <1>3 DEF Core, Shape, Statements
  <2> QED BY <1>1, <2>1 DEF Core, Shape
<1>6. \A d \in Caller : ArgFits(d)'
  BY <1>1, <1>3, <1>4 DEF Core, ArgFits, Putting
<1>7. Pooled' = Pooled
  BY <1>1 DEF Pooled
<1>8. Pooled => PoolFits' /\ Whole'
  <2> SUFFICES ASSUME Pooled PROVE PoolFits' /\ Whole'
    OBVIOUS
  <2>1. open' = open
    BY DEF Begin
  <2>2. DraftFits(c)'
    <3>1. DraftFits(c)
      BY DEF Core, PoolFits
    <3> QED BY <1>1, <1>2, <1>3, <3>1 DEF DraftFits, Putting
  <2>3. \A d \in Caller : DraftFits(d)'
    BY <1>1, <1>4, <2>2, OthersFit
  <2>4. Whole'
    BY <1>1, <1>3, <1>4 DEF Core, Whole
  <2> QED BY <1>1, <2>1, <2>3, <2>4 DEF Core, PoolFits
<1>9. ~Pooled => LineFits'
  <2> SUFFICES ASSUME ~Pooled PROVE LineFits'
    OBVIOUS
  <2>1. open = Absent /\ open' = c /\ undo' = rows /\ LineFits
    BY DEF Begin, Core
  <2>2. pc'[c] = "user" /\ Putting(c)' /\ arg[c] \in PutArg
    BY <1>1, <1>3, <2>1 DEF LineFits, Putting
  <2>3. Undone(c)'
    BY <1>1, <2>1, <2>2 DEF Undone, Core, Shape, AddressIn
  <2>4. \A d \in Caller \ {c} : ~InTransaction(d) /\ ~InTransaction(d)'
    BY <1>4, <2>1, StoreAssumption DEF LineFits, InTransaction
  <2> QED BY <1>1, <1>4, <2>1, <2>2, <2>3, <2>4 DEF LineFits
<1>10. Same
  <2>1. CASE Pooled
    <3>1. open = Absent /\ open' = Absent
      BY <2>1 DEF Begin, Core, PoolFits
    <3> QED BY <1>1, <3>1 DEF Same, AddressOf, Durable
  <2>2. CASE ~Pooled
    <3>1. open = Absent /\ open' = c /\ undo' = rows /\ c # Absent
      BY <2>2, StoreAssumption DEF Begin
    <3> QED BY <1>1, <3>1 DEF Same, AddressOf, Durable
  <2> QED BY <2>1, <2>2
<1>11. Claims'
  BY <1>1, <1>10 DEF Core, Claims, Same
<1> QED BY <1>5, <1>6, <1>7, <1>8, <1>9, <1>10, <1>11 DEF Core

\* A putUser goes on, on a pool and on SQLite.
GoesOn(c, l) == pc' = [pc EXCEPT ![c] = l] /\ arg' = arg

LEMMA GoesOnFacts ==
  ASSUME Core, NEW c \in Caller, Putting(c), NEW l \in {"slot", "select", "insert", "commit"},
         GoesOn(c, l)
  PROVE  /\ pc'[c] = l /\ \A d \in Caller \ {c} : pc'[d] = pc[d]
         /\ arg[c] \in PutArg /\ Putting(c)' /\ InTransaction(c)
         /\ \A d \in Caller : ArgFits(d)'
         /\ pc' \in [Caller -> Statements \cup {"idle"}]
<1>1. pc'[c] = l /\ \A d \in Caller \ {c} : pc'[d] = pc[d]
  BY DEF Core, Shape, GoesOn
<1>2. arg[c] \in PutArg /\ InTransaction(c)
  BY DEF Core, ArgFits, Putting, InTransaction
<1>3. arg[c].op = "putUser"
  BY <1>2 DEF PutArg
<1>4. Putting(c)'
  BY <1>1, <1>3 DEF Putting, GoesOn
<1>5. \A d \in Caller : ArgFits(d)'
  BY <1>1, <1>2 DEF Core, ArgFits, Putting, GoesOn
<1>6. pc' \in [Caller -> Statements \cup {"idle"}]
  BY DEF Core, Shape, GoesOn, Statements
<1> QED BY <1>1, <1>2, <1>4, <1>5, <1>6

LEMMA PoolPut ==
  ASSUME Core, Pooled, NEW c \in Caller, Putting(c),
         NEW l \in {"slot", "select", "insert", "commit"}, GoesOn(c, l),
         UNCHANGED <<dialect, rows, open, claimed, torn>>,
         DOMAIN draft' = Caller, \A d \in Caller \ {c} : draft'[d] = draft[d],
         DraftFits(c)',
         \A e \in Email : EmailRow(e) \in DOMAIN draft'[c] => Unlocked(c, EmailRow(e))
  PROVE  Core' /\ Same
<1>1. /\ pc'[c] = l /\ \A d \in Caller \ {c} : pc'[d] = pc[d]
      /\ \A d \in Caller : ArgFits(d)'
      /\ pc' \in [Caller -> Statements \cup {"idle"}]
  BY GoesOnFacts
<1>2. Shape'
  BY <1>1 DEF Core, Shape, GoesOn
<1>3. \A d \in Caller : DraftFits(d)'
  BY <1>1, OthersFit DEF GoesOn
<1>4. PoolFits'
  <2>1. ASSUME NEW x \in Caller, NEW y \in Caller, NEW e \in Email,
               EmailRow(e) \in DOMAIN draft'[x], EmailRow(e) \in DOMAIN draft'[y]
        PROVE  x = y
    BY <2>1 DEF Core, PoolFits, Unlocked
  <2> QED BY <1>3, <2>1 DEF Core, PoolFits
<1>5. Whole'
  BY <1>1 DEF Core, Whole, GoesOn
<1>6. Same
  BY DEF Core, PoolFits, Same, AddressOf, Durable
<1>7. Claims'
  BY <1>6 DEF Core, Claims, Same
<1>8. Pooled'
  BY DEF Pooled
<1> QED BY <1>1, <1>2, <1>4, <1>5, <1>6, <1>7, <1>8 DEF Core

LEMMA LinePut ==
  ASSUME Core, ~Pooled, NEW c \in Caller, Putting(c),
         NEW l \in {"slot", "select", "insert", "commit"}, GoesOn(c, l),
         UNCHANGED <<dialect, open, undo, draft, claimed, torn>>,
         DOMAIN rows' = Key,
         \A u \in User : rows'[UserKey(u)] \in {Absent} \cup Record,
         \A e \in Email : rows'[EmailRow(e)] \in {Absent} \cup User,
         Undone(c)'
  PROVE  Core' /\ Same
<1>1. /\ pc'[c] = l /\ \A d \in Caller \ {c} : pc'[d] = pc[d]
      /\ Putting(c)' /\ InTransaction(c) /\ \A d \in Caller : ArgFits(d)'
      /\ pc' \in [Caller -> Statements \cup {"idle"}]
  BY GoesOnFacts
<1>2. LineFits /\ open = c /\ c # Absent
  BY <1>1, StoreAssumption DEF Core, LineFits
<1>3. Shape'
  BY <1>1 DEF Core, Shape, GoesOn
<1>4. LineFits'
  <2>1. \A d \in Caller : InTransaction(d)' => d = c
    BY <1>1, <1>2 DEF LineFits, InTransaction
  <2>2. \A d \in Caller : pc'[d] = "begin" => arg'[d].op = "putUser"
    BY <1>1, <1>2 DEF LineFits, GoesOn
  <2> QED BY <1>1, <1>2, <2>1, <2>2 DEF LineFits
<1>5. Same
  BY <1>2 DEF Same, AddressOf, Durable
<1>6. Claims'
  BY <1>5 DEF Core, Claims, Same
<1>7. ~Pooled'
  BY DEF Pooled
<1> QED BY <1>1, <1>3, <1>4, <1>5, <1>6, <1>7 DEF Core

-----------------------------------------------------------------------------
(* The statements of putUser                                                *)

\* What a write does, on a pool and on SQLite.
LEMMA WriteDoes ==
  ASSUME Core, NEW c \in Caller, NEW k \in Key, NEW v, Write(c, k, v)
  PROVE  /\ open' = open
         /\ Pooled => /\ Unlocked(c, k) /\ rows' = rows /\ DOMAIN draft' = Caller
                      /\ draft'[c] = Put(draft[c], k, v)
                      /\ \A d \in Caller \ {c} : draft'[d] = draft[d]
         /\ ~Pooled => /\ UNCHANGED <<undo, draft>> /\ DOMAIN rows' = Key
                       /\ rows'[k] = v /\ \A x \in Key \ {k} : rows'[x] = rows[x]
  BY DEF Core, Shape, Write, conn

LEMMA UserStep ==
  ASSUME Core, flaws = {}, NEW c \in Caller, UpsertUser(c)
  PROVE  Core' /\ Same
<1> DEFINE u == arg[c].user
           e == arg[c].email
           r == [email |-> e, pointer |-> FALSE]
<1>1. /\ pc[c] = "user" /\ GoesOn(c, "slot") /\ Write(c, UserRow(u), r)
      /\ UNCHANGED <<dialect, claimed, torn>>
  BY DEF UpsertUser, GoesOn, Goto, deployment, history
<1>2. Putting(c) /\ arg[c] \in PutArg /\ u \in User /\ e \in Email /\ r \in Record
  BY <1>1 DEF Putting, Core, ArgFits, PutArg, Record
<1>3. UserRow(u) = UserKey(u) /\ UserKey(u) \in Key
  BY <1>2, Clean, Keys
<1>4. /\ pc'[c] = "slot" /\ Putting(c)'
  BY <1>1, <1>2, GoesOnFacts
<1>5. open' = open
  BY <1>1, <1>3, WriteDoes
<1>6. CASE Pooled
  <2>1. /\ Unlocked(c, UserKey(u)) /\ rows' = rows /\ DOMAIN draft' = Caller
        /\ draft'[c] = Put(draft[c], UserKey(u), r)
        /\ \A d \in Caller \ {c} : draft'[d] = draft[d]
    BY <1>1, <1>3, <1>6, WriteDoes
  <2>2. /\ DOMAIN draft'[c] = DOMAIN draft[c] \cup {UserKey(u)}
        /\ draft'[c][UserKey(u)] = r
    BY <2>1 DEF Put
  <2>3. DraftFits(c)
    BY <1>6 DEF Core, PoolFits
  <2>4. DraftFits(c)'
    <3> HIDE DEF r
    <3>1. /\ \A v \in User : UserKey(v) \notin DOMAIN draft[c] /\ SlotKey(v) \notin DOMAIN draft[c]
          /\ \A f \in Email : EmailRow(f) \notin DOMAIN draft[c]
      BY <1>1, <2>3 DEF DraftFits
    <3>2. /\ \A v \in User : UserKey(v) \in DOMAIN draft'[c] => v = u
          /\ \A v \in User : SlotKey(v) \notin DOMAIN draft'[c]
          /\ \A f \in Email : EmailRow(f) \notin DOMAIN draft'[c]
      BY <1>2, <2>2, <3>1, Keys
    <3>3. arg' = arg
      BY <1>1 DEF GoesOn
    <3> QED BY <1>4, <2>2, <3>2, <3>3 DEF DraftFits, r
  <2>5. \A f \in Email : EmailRow(f) \notin DOMAIN draft'[c]
    BY <1>2, <2>2, <2>3, <1>1, Keys DEF DraftFits
  <2> QED BY <1>1, <1>2, <1>5, <1>6, <2>1, <2>4, <2>5, PoolPut
<1>7. CASE ~Pooled
  <2>1. /\ UNCHANGED <<undo, draft>> /\ DOMAIN rows' = Key
        /\ rows'[UserKey(u)] = r /\ \A x \in Key \ {UserKey(u)} : rows'[x] = rows[x]
    BY <1>1, <1>3, <1>7, WriteDoes
  <2>2. /\ \A v \in User : v # u => rows'[UserKey(v)] = rows[UserKey(v)]
        /\ \A f \in Email : rows'[EmailRow(f)] = rows[EmailRow(f)]
    BY <1>2, <2>1, Keys
  <2>3. Undone(c)
    BY <1>1, <1>2, <1>7, StoreAssumption DEF Core, LineFits, InTransaction
  <2>4. Undone(c)'
    <3>1. arg' = arg
      BY <1>1 DEF GoesOn
    <3>2. AddressIn(rows, u)' = e /\ \A v \in User : v # u => AddressIn(rows, v)' = AddressIn(rows, v)
      BY <1>2, <2>1, <2>2, AbsentAssumption, <3>1 DEF AddressIn
    <3>3. \A v \in User : AddressIn(undo, v)' = AddressIn(undo, v)
      BY <2>1 DEF AddressIn
    <3> QED BY <1>1, <1>2, <1>4, <2>1, <2>2, <2>3, <3>1, <3>2, <3>3 DEF Undone
  <2>5. /\ \A v \in User : rows'[UserKey(v)] \in {Absent} \cup Record
        /\ \A f \in Email : rows'[EmailRow(f)] \in {Absent} \cup User
    BY <1>2, <2>1, <2>2 DEF Core, Shape
  <2> QED BY <1>1, <1>2, <1>5, <1>7, <2>1, <2>4, <2>5, LinePut
<1> QED BY <1>6, <1>7

LEMMA WalletStep ==
  ASSUME Core, flaws = {}, NEW c \in Caller, UpsertWallet(c)
  PROVE  Core' /\ Same
<1> DEFINE u == arg[c].user
<1>1. /\ pc[c] = "slot" /\ GoesOn(c, "select") /\ Write(c, SlotRow(u), Fitted("created"))
      /\ UNCHANGED <<dialect, claimed, torn>>
  BY DEF UpsertWallet, GoesOn, Goto, deployment, history
<1>2. Putting(c) /\ arg[c] \in PutArg /\ u \in User
  BY <1>1 DEF Putting, Core, ArgFits, PutArg
<1>3. SlotRow(u) = SlotKey(u) /\ Fitted("created") = "created" /\ SlotKey(u) \in Key
  BY <1>2, Clean, Keys
<1>4. pc'[c] = "select" /\ Putting(c)' /\ arg' = arg
  BY <1>1, <1>2, GoesOnFacts DEF GoesOn
<1>5. open' = open
  BY <1>1, <1>3, WriteDoes
<1>6. CASE Pooled
  <2>1. /\ rows' = rows /\ DOMAIN draft' = Caller
        /\ draft'[c] = Put(draft[c], SlotKey(u), "created")
        /\ \A d \in Caller \ {c} : draft'[d] = draft[d]
    BY <1>1, <1>3, <1>6, WriteDoes
  <2>2. /\ DOMAIN draft'[c] = DOMAIN draft[c] \cup {SlotKey(u)}
        /\ draft'[c][SlotKey(u)] = "created"
        /\ \A v \in User : UserKey(v) \in DOMAIN draft[c] => draft'[c][UserKey(v)] = draft[c][UserKey(v)]
    BY <1>2, <2>1, Keys DEF Put
  <2>3. DraftFits(c)
    BY <1>6 DEF Core, PoolFits
  <2>4. /\ \A v \in User : SlotKey(v) \in DOMAIN draft'[c] => v = u
        /\ \A v \in User : UserKey(v) \in DOMAIN draft'[c] => UserKey(v) \in DOMAIN draft[c]
        /\ \A f \in Email : EmailRow(f) \notin DOMAIN draft'[c]
    BY <1>1, <1>2, <2>2, <2>3, Keys DEF DraftFits
  <2>5. DraftFits(c)'
    BY <1>1, <1>2, <1>4, <2>1, <2>2, <2>3, <2>4 DEF DraftFits
  <2> QED BY <1>1, <1>2, <1>5, <1>6, <2>1, <2>4, <2>5, PoolPut
<1>7. CASE ~Pooled
  <2>1. /\ UNCHANGED <<undo, draft>> /\ DOMAIN rows' = Key
        /\ \A x \in Key \ {SlotKey(u)} : rows'[x] = rows[x]
    BY <1>1, <1>3, <1>7, WriteDoes
  <2>2. /\ \A v \in User : rows'[UserKey(v)] = rows[UserKey(v)]
        /\ \A f \in Email : rows'[EmailRow(f)] = rows[EmailRow(f)]
    BY <1>2, <2>1, Keys
  <2>3. Undone(c)
    BY <1>1, <1>2, <1>7, StoreAssumption DEF Core, LineFits, InTransaction
  <2>4. Undone(c)'
    BY <1>1, <1>2, <1>4, <2>1, <2>2, <2>3 DEF Undone, AddressIn
  <2>5. /\ \A v \in User : rows'[UserKey(v)] \in {Absent} \cup Record
        /\ \A f \in Email : rows'[EmailRow(f)] \in {Absent} \cup User
    BY <2>2 DEF Core, Shape
  <2> QED BY <1>1, <1>2, <1>5, <1>7, <2>1, <2>4, <2>5, LinePut
<1> QED BY <1>6, <1>7

LEMMA RollbackStep ==
  ASSUME Core, NEW c \in Caller, InTransaction(c), Rollback(c),
         UNCHANGED <<dialect, claimed, torn>>
  PROVE  Core' /\ Same
<1>1. /\ Moves(c, "idle", << >>) /\ open' = Absent /\ draft' = [draft EXCEPT ![c] = NoRows]
      /\ rows' = IF Pooled THEN rows ELSE undo
  BY DEF Rollback, Release, Return, Call, Goto, Moves
<1>2. DOMAIN rows' = Key
  BY <1>1, StoreAssumption DEF Core, Shape, LineFits, Undone
<1>3. Pooled => CoreSame(rows', rows)
  BY <1>1 DEF CoreSame
<1> QED BY <1>1, <1>2, <1>3, LeaveStep

LEMMA HolderStep ==
  ASSUME Core, NEW c \in Caller, SelectHolder(c)
  PROVE  Core' /\ Same
<1>1. pc[c] = "select" /\ UNCHANGED <<dialect, claimed, torn>>
  BY DEF SelectHolder, deployment, history
<1>0. Putting(c) /\ InTransaction(c) /\ arg[c] \in PutArg
  BY <1>1 DEF Putting, InTransaction, Core, ArgFits
<1>2. PICK u \in User, e \in Email : arg[c].user = u /\ arg[c].email = e
  BY <1>0 DEF PutArg
<1>3. Seen(c, EmailRow(e)) = rows[EmailRow(e)]
  <2>1. EmailRow(e) \notin DOMAIN draft[c]
    BY <1>1, <1>2 DEF Core, PoolFits, LineFits, DraftFits
  <2> QED BY <2>1 DEF Seen
<1>4. CASE rows[EmailRow(e)] \in {Absent, u}
  <2> DEFINE l == IF rows[EmailRow(e)] = Absent THEN "insert" ELSE "commit"
  <2>1. GoesOn(c, l) /\ UNCHANGED <<rows, open, undo, draft>>
    BY <1>2, <1>3, <1>4 DEF SelectHolder, GoesOn, Goto, conn
  <2>2. l \in {"insert", "commit"} /\ (l = "commit" => rows[EmailRow(e)] = u)
    BY <1>4
  <2> HIDE DEF l
  <2>3. pc'[c] = l /\ Putting(c)' /\ arg' = arg
    BY <1>0, <1>2, <2>1, <2>2, GoesOnFacts DEF GoesOn
  <2>4. CASE Pooled
    <3>1. DraftFits(c)
      BY <2>4 DEF Core, PoolFits
    <3>2. DraftFits(c)'
      <4>1. draft' = draft /\ rows' = rows /\ pc'[c] \notin {"user", "slot"}
        BY <2>1, <2>2, <2>3
      <4>2. /\ UserKey(u) \in DOMAIN draft[c] /\ SlotKey(u) \in DOMAIN draft[c]
            /\ \A f \in Email : EmailRow(f) \notin DOMAIN draft[c]
        BY <1>0, <1>1, <1>2, <3>1 DEF DraftFits
      <4>3. \A v \in User : UserKey(v) \in DOMAIN draft[c] =>
              v = u /\ draft[c][UserKey(v)] = [email |-> e, pointer |-> FALSE]
        BY <1>0, <1>1, <1>2, <3>1 DEF DraftFits
      <4>4. \A v \in User : SlotKey(v) \in DOMAIN draft[c] => v = u /\ draft[c][SlotKey(v)] = "created"
        BY <1>0, <1>1, <1>2, <3>1 DEF DraftFits
      <4>5. pc'[c] = "commit" => rows[EmailRow(e)] = u
        BY <2>2, <2>3
      <4> QED BY <1>2, <2>3, <4>1, <4>2, <4>3, <4>4, <4>5 DEF DraftFits
    <3>3. \A f \in Email : EmailRow(f) \notin DOMAIN draft'[c]
      BY <1>1, <2>1, <3>1 DEF DraftFits
    <3> QED BY <1>0, <1>1, <1>2, <2>1, <2>2, <2>4, <3>2, <3>3, PoolPut DEF Core, Shape
  <2>5. CASE ~Pooled
    <3>1. Undone(c)
      BY <1>0, <1>2, <2>5, StoreAssumption DEF Core, LineFits
    <3>2. rows[EmailRow(e)] = undo[EmailRow(e)]
      BY <1>0, <1>1, <1>2, <3>1 DEF Undone
    <3>3. Undone(c)'
      BY <1>0, <1>1, <1>2, <2>1, <2>2, <2>3, <3>1, <3>2 DEF Undone, AddressIn
    <3> QED BY <1>0, <1>1, <1>2, <2>1, <2>2, <2>5, <3>3, LinePut DEF Core, Shape
  <2> QED BY <2>4, <2>5
<1>5. CASE rows[EmailRow(e)] \notin {Absent, u}
  <2>1. Rollback(c)
    BY <1>2, <1>3, <1>5 DEF SelectHolder
  <2> QED BY <1>0, <1>1, <1>2, <2>1, RollbackStep
<1> QED BY <1>4, <1>5

LEMMA EmailStep ==
  ASSUME Core, NEW c \in Caller, InsertEmail(c)
  PROVE  Core' /\ Same
<1> DEFINE u == arg[c].user
           e == arg[c].email
<1>1. /\ pc[c] = "insert" /\ Unlocked(c, EmailRow(e))
      /\ UNCHANGED <<dialect, claimed, torn>>
  BY DEF InsertEmail, deployment, history
<1>2. Putting(c) /\ InTransaction(c) /\ arg[c] \in PutArg /\ u \in User /\ e \in Email
  BY <1>1 DEF Putting, InTransaction, Core, ArgFits, PutArg
<1>3. EmailRow(e) \in Key
  BY <1>2, Keys
<1>4. CASE rows[EmailRow(e)] = Absent
  <2>1. GoesOn(c, "commit") /\ Write(c, EmailRow(e), u)
    BY <1>4 DEF InsertEmail, GoesOn, Goto
  <2>2. pc'[c] = "commit" /\ Putting(c)' /\ arg' = arg
    BY <1>2, <2>1, GoesOnFacts DEF GoesOn
  <2>3. open' = open
    BY <1>3, <2>1, WriteDoes
  <2>4. CASE Pooled
    <3>1. /\ rows' = rows /\ DOMAIN draft' = Caller
          /\ draft'[c] = Put(draft[c], EmailRow(e), u)
          /\ \A d \in Caller \ {c} : draft'[d] = draft[d]
      BY <1>3, <2>1, <2>4, WriteDoes
    <3>2. /\ DOMAIN draft'[c] = DOMAIN draft[c] \cup {EmailRow(e)}
          /\ draft'[c][EmailRow(e)] = u
          /\ \A v \in User : UserKey(v) \in DOMAIN draft[c] => draft'[c][UserKey(v)] = draft[c][UserKey(v)]
          /\ \A v \in User : SlotKey(v) \in DOMAIN draft[c] => draft'[c][SlotKey(v)] = draft[c][SlotKey(v)]
      BY <1>2, <3>1, Keys DEF Put
    <3>3. DraftFits(c)
      BY <2>4 DEF Core, PoolFits
    <3>4. /\ \A v \in User : /\ UserKey(v) \in DOMAIN draft'[c] => UserKey(v) \in DOMAIN draft[c]
                             /\ SlotKey(v) \in DOMAIN draft'[c] => SlotKey(v) \in DOMAIN draft[c]
          /\ \A f \in Email : EmailRow(f) \in DOMAIN draft'[c] => f = e
      BY <1>1, <1>2, <3>2, <3>3, Keys DEF DraftFits
    <3>5. DraftFits(c)'
      BY <1>1, <1>2, <1>4, <2>2, <3>1, <3>2, <3>3, <3>4 DEF DraftFits
    <3> QED BY <1>1, <1>2, <2>1, <2>3, <2>4, <3>1, <3>4, <3>5, PoolPut
  <2>5. CASE ~Pooled
    <3>1. /\ UNCHANGED <<undo, draft>> /\ DOMAIN rows' = Key
          /\ rows'[EmailRow(e)] = u /\ \A x \in Key \ {EmailRow(e)} : rows'[x] = rows[x]
      BY <1>3, <2>1, <2>5, WriteDoes
    <3>2. /\ \A v \in User : rows'[UserKey(v)] = rows[UserKey(v)]
          /\ \A f \in Email : f # e => rows'[EmailRow(f)] = rows[EmailRow(f)]
      BY <1>2, <3>1, Keys
    <3>3. Undone(c)
      BY <1>2, <2>5, StoreAssumption DEF Core, LineFits
    <3>4. Undone(c)'
      BY <1>1, <1>2, <1>4, <2>2, <3>1, <3>2, <3>3 DEF Undone, AddressIn
    <3>5. /\ \A v \in User : rows'[UserKey(v)] \in {Absent} \cup Record
          /\ \A f \in Email : rows'[EmailRow(f)] \in {Absent} \cup User
      BY <1>2, <3>1, <3>2 DEF Core, Shape
    <3> QED BY <1>1, <1>2, <2>1, <2>3, <2>5, <3>1, <3>4, <3>5, LinePut
  <2> QED BY <2>4, <2>5
<1>5. CASE rows[EmailRow(e)] # Absent
  <2>1. Rollback(c)
    BY <1>5 DEF InsertEmail
  <2> QED BY <1>1, <1>2, <2>1, RollbackStep
<1> QED BY <1>4, <1>5

\* A putUser becomes durable: its account and its claim, in one step.
ClaimedBy(u, e) ==
  /\ Durable(EmailRow(e)) \in {Absent, u} /\ Durable(EmailRow(e))' = u
  /\ AddressOf(u)' = e
  /\ \A v \in User \ {u} : AddressOf(v)' = AddressOf(v)
  /\ \A f \in Email \ {e} : Durable(EmailRow(f))' = Durable(EmailRow(f))

LEMMA CommitUserStep ==
  ASSUME Core, NEW c \in Caller, CommitUser(c)
  PROVE  Core' /\ \E u \in User, e \in Email : ClaimedBy(u, e)
<1>0. arg[c] \in PutArg
  BY DEF CommitUser, Putting, Core, ArgFits
<1>a. PICK u \in User, e \in Email : arg[c].user = u /\ arg[c].email = e
  BY <1>0 DEF PutArg
<1>1. /\ pc[c] = "commit" /\ arg[c].op = "putUser"
      /\ rows' = [k \in Key |-> Seen(c, k)]
      /\ open' = Absent /\ draft' = [draft EXCEPT ![c] = NoRows]
      /\ Moves(c, "idle", << >>)
      /\ claimed' = [claimed EXCEPT ![e] = u] /\ UNCHANGED <<dialect, torn>>
  BY <1>a DEF CommitUser, Commit, Release, Return, Call, Goto, Moves, deployment
<1>2. Putting(c) /\ InTransaction(c) 
  BY <1>1 DEF Putting, InTransaction
<1>3. /\ pc'[c] = "idle"
      /\ \A d \in Caller \ {c} : pc'[d] = pc[d] /\ arg'[d] = arg[d]
      /\ DOMAIN arg' = Caller /\ pc' \in [Caller -> Statements \cup {"idle"}]
  BY <1>1, MovesOnly DEF Core, Statements
<1>4. /\ DOMAIN draft' = Caller /\ DOMAIN draft'[c] = {}
      /\ \A d \in Caller \ {c} : draft'[d] = draft[d]
  BY <1>1, Empty DEF Core, Shape
<1>5. ~Putting(c)' /\ ~InTransaction(c)'
  BY <1>3 DEF Putting, InTransaction
<1>6. \A d \in Caller : ArgFits(d)'
  BY <1>3, <1>5 DEF Core, ArgFits, Putting
<1>7. Pooled' = Pooled
  BY <1>1 DEF Pooled
<1>8. /\ DOMAIN rows' = Key
      /\ \A v \in User : rows'[UserKey(v)] = Seen(c, UserKey(v)) /\ rows'[SlotKey(v)] = Seen(c, SlotKey(v))
      /\ \A f \in Email : rows'[EmailRow(f)] = Seen(c, EmailRow(f))
  BY <1>1, Keys
<1>9. claimed' \in [Email -> User \cup {Absent}] /\ claimed'[e] = u
      /\ \A f \in Email \ {e} : claimed'[f] = claimed[f]
  BY <1>1, <1>2 DEF Core, Shape
<1>10. CASE Pooled
  <2>1. DraftFits(c) /\ open = Absent
    BY <1>10 DEF Core, PoolFits
  <2>2. /\ rows'[UserKey(u)] = [email |-> e, pointer |-> FALSE]
        /\ rows'[SlotKey(u)] = "created"
        /\ \A v \in User \ {u} : rows'[UserKey(v)] = rows[UserKey(v)] /\ rows'[SlotKey(v)] = rows[SlotKey(v)]
    <3>1. UserKey(u) \in DOMAIN draft[c] /\ SlotKey(u) \in DOMAIN draft[c]
      BY <1>a, <1>1, <1>2, <2>1 DEF DraftFits
    <3>2. /\ draft[c][UserKey(u)] = [email |-> e, pointer |-> FALSE]
          /\ draft[c][SlotKey(u)] = "created"
      BY <1>a, <2>1, <3>1 DEF DraftFits
    <3>3. \A v \in User \ {u} : UserKey(v) \notin DOMAIN draft[c] /\ SlotKey(v) \notin DOMAIN draft[c]
      BY <1>a, <2>1 DEF DraftFits
    <3>4. Seen(c, UserKey(u)) = [email |-> e, pointer |-> FALSE] /\ Seen(c, SlotKey(u)) = "created"
      BY <3>1, <3>2 DEF Seen
    <3>5. \A v \in User \ {u} : /\ Seen(c, UserKey(v)) = rows[UserKey(v)]
                              /\ Seen(c, SlotKey(v)) = rows[SlotKey(v)]
      BY <3>3 DEF Seen
    <3> QED BY <1>8, <3>4, <3>5
  <2>3. /\ rows'[EmailRow(e)] = u /\ rows[EmailRow(e)] \in {Absent, u}
        /\ EmailRow(e) \notin DOMAIN draft[c] => rows[EmailRow(e)] = u
        /\ \A f \in Email \ {e} : rows'[EmailRow(f)] = rows[EmailRow(f)]
    BY <1>a, <1>0, <1>1, <1>2, <1>8, <2>1 DEF DraftFits, Seen
  <2>4. rows'[UserKey(u)] \in Record /\ rows'[UserKey(u)] # Absent /\ rows'[UserKey(u)].email = e
    <3>1. [email |-> e, pointer |-> FALSE] \in Record
      BY DEF Record
    <3>2. PICK r : r = [email |-> e, pointer |-> FALSE]
      OBVIOUS
    <3>3. r.email = e /\ r \in Record /\ r # Absent
      BY <3>1, <3>2, AbsentAssumption
    <3> QED BY <2>2, <3>2, <3>3
  <2>5. Shape'
    <3>1. \A v \in User : rows'[UserKey(v)] \in {Absent} \cup Record
      BY <2>2, <2>4 DEF Core, Shape
    <3>2. \A f \in Email : rows'[EmailRow(f)] \in {Absent} \cup User
      BY <2>3 DEF Core, Shape
    <3> QED BY <1>1, <1>3, <1>4, <1>8, <1>9, <3>1, <3>2 DEF Core, Shape
  <2>6. ClaimedBy(u, e)
    <3>1. \A v \in User \ {u} : AddressOf(v)' = AddressOf(v)
      BY <1>1, <2>1, <2>2 DEF AddressOf, Durable
    <3>2. AddressOf(u)' = e
      BY <1>1, <2>4 DEF AddressOf, Durable
    <3> QED BY <1>1, <2>1, <2>3, <3>1, <3>2 DEF ClaimedBy, Durable
  <2>7. \A d \in Caller : DraftFits(d)'
    <3>1. DraftFits(c)'
      BY <1>4, <1>5 DEF DraftFits
    <3>2. ASSUME NEW d \in Caller, d # c PROVE DraftFits(d)'
      <4>1. \A f \in Email : rows[EmailRow(f)] # Absent \/ EmailRow(f) \in DOMAIN draft[d]
                               => rows'[EmailRow(f)] = rows[EmailRow(f)]
        BY <1>a, <1>0, <1>2, <1>10, <2>3, <3>2 DEF Core, PoolFits
      <4> QED BY <1>3, <1>4, <1>10, <3>2, <4>1, OthersFit
    <3> QED BY <3>1, <3>2
  <2>8. PoolFits'
    BY <1>1, <1>4, <2>7, <1>10 DEF Core, PoolFits
  <2>9. Whole'
    <3>1. \A d \in Caller : pc[d] = "wallets" => arg[d].user \in User
      BY DEF Core, ArgFits
    <3> QED BY <1>1, <1>3, <1>10, <2>2, <2>4, <3>1 DEF Core, Whole
  <2>10. Claims'
    BY <1>a, <1>0, <1>2, <1>9, <2>6 DEF Core, Claims, ClaimedBy
  <2> QED BY <1>a, <1>0, <1>2, <1>6, <1>7, <1>10, <2>5, <2>6, <2>8, <2>9, <2>10 DEF Core
<1>11. CASE ~Pooled
  <2>1. LineFits /\ open = c /\ Undone(c) /\ c # Absent
    BY <1>a, <1>0, <1>2, <1>11, StoreAssumption DEF Core, LineFits
  <2>2. /\ \A v \in User : rows'[UserKey(v)] = rows[UserKey(v)]
        /\ \A f \in Email : rows'[EmailRow(f)] = rows[EmailRow(f)]
    BY <1>8, <2>1 DEF LineFits, Seen
  <2>3. Shape'
    BY <1>1, <1>3, <1>4, <1>8, <1>9, <2>2 DEF Core, Shape
  <2>4. ClaimedBy(u, e)
    <3>1. AddressIn(rows, u) = e /\ \A v \in User \ {u} : AddressIn(rows, v) = AddressIn(undo, v)
      BY <1>a, <1>1, <2>1 DEF Undone
    <3>2. \A v \in User : AddressOf(v) = AddressIn(undo, v) /\ AddressOf(v)' = AddressIn(rows, v)
      BY <1>1, <2>1, <2>2 DEF AddressOf, AddressIn, Durable
    <3>3. \A f \in Email : Durable(EmailRow(f)) = undo[EmailRow(f)] /\ Durable(EmailRow(f))' = rows[EmailRow(f)]
      BY <1>1, <2>1, <2>2 DEF Durable
    <3> QED BY <1>a, <1>0, <1>1, <1>2, <2>1, <3>1, <3>2, <3>3 DEF ClaimedBy, Undone
  <2>5. LineFits'
    BY <1>1, <1>3, <1>4, <1>5, <2>1 DEF LineFits, InTransaction, Putting
  <2>6. Claims'
    BY <1>a, <1>0, <1>2, <1>9, <2>4 DEF Core, Claims, ClaimedBy
  <2> QED BY <1>a, <1>0, <1>2, <1>6, <1>7, <1>11, <2>3, <2>4, <2>5, <2>6 DEF Core
<1> QED BY <1>10, <1>11

-----------------------------------------------------------------------------
(* Calls of one statement                                                   *)

\* A change of one row of another table.
LEMMA AsideWrite ==
  ASSUME Core, NEW k \in Key, Aside(k), UNCHANGED <<dialect, open, draft, pc, arg, claimed, torn>>,
         DOMAIN rows' = Key, \A x \in Key \ {k} : rows'[x] = rows[x],
         open # Absent => DOMAIN undo' = DOMAIN undo /\ \A x \in Key \ {k} : undo'[x] = undo[x]
  PROVE  Core' /\ Same
<1>1. \A u \in User : UserKey(u) \in Key \ {k} /\ SlotKey(u) \in Key \ {k}
  BY Keys DEF Aside
<1>2. \A e \in Email : EmailRow(e) \in Key \ {k}
  BY Keys DEF Aside
<1>3. CoreSame(rows', rows)
  BY <1>1, <1>2 DEF CoreSame
<1>4. open # Absent => DOMAIN undo' = Key /\ CoreSame(undo', undo)
  BY <1>1, <1>2 DEF CoreSame, Core, PoolFits, LineFits, Undone
<1> QED BY <1>3, <1>4, AsideStep

\* A change of a record that keeps its address, or of a wallet.
LEMMA RecordStep ==
  ASSUME Core, UNCHANGED <<dialect, open, undo, draft, pc, arg, claimed, torn>>,
         DOMAIN rows' = Key,
         \A e \in Email : rows'[EmailRow(e)] = rows[EmailRow(e)],
         \A v \in User : /\ rows'[UserKey(v)] \in {Absent} \cup Record
                         /\ AddressIn(rows, v)' = AddressIn(rows, v)
                         /\ rows'[UserKey(v)] = Absent <=> rows[UserKey(v)] = Absent
                         /\ rows'[SlotKey(v)] \in {rows[SlotKey(v)], "imported"}
  PROVE  Core' /\ Same
<1>1. Shape' /\ Pooled' = Pooled
  BY DEF Core, Shape, Pooled
<1>2. \A c \in Caller : ArgFits(c)'
  BY DEF Core, ArgFits, Putting
<1>3. Pooled => PoolFits'
  <2> SUFFICES ASSUME Pooled PROVE PoolFits'
    OBVIOUS
  <2>1. \A d \in Caller : DraftFits(d)'
    BY OthersFit
  <2> QED BY <2>1 DEF Core, PoolFits
<1>4. Pooled => Whole'
  <2>1. \A d \in Caller : pc[d] = "wallets" => arg[d].user \in User
    BY DEF Core, ArgFits
  <2> QED BY <2>1 DEF Core, Whole
<1>5. ~Pooled => LineFits'
  <2> SUFFICES ASSUME ~Pooled PROVE LineFits'
    OBVIOUS
  <2>1. ASSUME open # Absent PROVE Undone(open)'
    <3>1. open \in Caller /\ Putting(open) /\ Undone(open)
      BY <2>1 DEF Core, LineFits
    <3>2. arg[open] \in PutArg
      BY <3>1 DEF Core, ArgFits
    <3>3. \A v \in User : AddressIn(undo, v)' = AddressIn(undo, v)
      BY DEF AddressIn
    <3> QED BY <2>1, <3>1, <3>2, <3>3 DEF Undone, PutArg
  <2> QED BY <2>1 DEF Core, LineFits, InTransaction, Putting
<1>6. Same
  BY DEF Same, AddressOf, AddressIn, Durable
<1>7. Claims'
  BY <1>6 DEF Core, Claims, Same
<1> QED BY <1>1, <1>2, <1>3, <1>4, <1>5, <1>6, <1>7 DEF Core

LEMMA WalletSlotStep ==
  ASSUME Core, flaws = {}, NEW u \in User, putWalletSlot(u)
  PROVE  Core' /\ Same
<1>1. /\ rows' = [rows EXCEPT ![SlotKey(u)] = "imported"]
      /\ UNCHANGED <<dialect, open, undo, draft, pc, arg, claimed, torn>>
  BY Clean DEF putWalletSlot, Bare, deployment, conn, history
<1>2. SlotKey(u) \in Key /\ DOMAIN rows = Key
  BY Keys DEF Core, Shape
<1>3. /\ DOMAIN rows' = Key /\ rows'[SlotKey(u)] = "imported"
      /\ \A x \in Key \ {SlotKey(u)} : rows'[x] = rows[x]
  BY <1>1, <1>2
<1>4. /\ \A e \in Email : rows'[EmailRow(e)] = rows[EmailRow(e)]
      /\ \A v \in User : /\ rows'[UserKey(v)] = rows[UserKey(v)]
                         /\ rows'[SlotKey(v)] \in {rows[SlotKey(v)], "imported"}
  BY <1>3, Keys
<1>5. \A v \in User : /\ rows'[UserKey(v)] \in {Absent} \cup Record
                      /\ AddressIn(rows, v)' = AddressIn(rows, v)
  BY <1>4 DEF Core, Shape, AddressIn
<1> QED BY <1>1, <1>3, <1>4, <1>5, RecordStep

LEMMA PointerStep ==
  ASSUME Core, flaws = {}, NEW u \in User, setSessionPointer(u)
  PROVE  Core' /\ Same
<1>1. /\ rows[UserKey(u)] # Absent
      /\ rows' = [rows EXCEPT ![UserKey(u)] = [rows[UserKey(u)] EXCEPT !.pointer = TRUE]]
      /\ UNCHANGED <<dialect, open, undo, draft, pc, arg, claimed, torn>>
  BY Clean DEF setSessionPointer, Bare, deployment, conn, history
<1>2. UserKey(u) \in Key /\ DOMAIN rows = Key /\ rows[UserKey(u)] \in Record
  BY <1>1, Keys DEF Core, Shape
<1>3. PICK r : r = [rows[UserKey(u)] EXCEPT !.pointer = TRUE]
  OBVIOUS
<1>4. r \in Record /\ r.email = rows[UserKey(u)].email
  BY <1>2, <1>3 DEF Record
<1>5. /\ DOMAIN rows' = Key /\ rows'[UserKey(u)] = r /\ r # Absent
      /\ \A x \in Key \ {UserKey(u)} : rows'[x] = rows[x]
  BY <1>1, <1>2, <1>3, <1>4, AbsentAssumption
<1>6. /\ \A e \in Email : rows'[EmailRow(e)] = rows[EmailRow(e)]
      /\ \A v \in User : v # u => rows'[UserKey(v)] = rows[UserKey(v)]
      /\ \A v \in User : rows'[SlotKey(v)] = rows[SlotKey(v)]
  BY <1>5, Keys
<1>7. \A v \in User : /\ rows'[UserKey(v)] \in {Absent} \cup Record
                      /\ AddressIn(rows, v)' = AddressIn(rows, v)
                      /\ rows'[UserKey(v)] = Absent <=> rows[UserKey(v)] = Absent
  <2>1. /\ rows'[UserKey(u)] \in {Absent} \cup Record /\ rows[UserKey(u)] # Absent
        /\ rows'[UserKey(u)] # Absent /\ AddressIn(rows, u)' = AddressIn(rows, u)
    BY <1>1, <1>4, <1>5 DEF AddressIn
  <2>2. \A v \in User \ {u} : /\ rows'[UserKey(v)] \in {Absent} \cup Record
                              /\ AddressIn(rows, v)' = AddressIn(rows, v)
    BY <1>6 DEF AddressIn, Core, Shape
  <2> QED BY <1>6, <2>1, <2>2
<1> QED BY <1>1, <1>5, <1>6, <1>7, RecordStep

LEMMA SingleStep ==
  ASSUME Core, flaws = {}, Single
  PROVE  Core' /\ Same
<1>1. ASSUME NEW u \in User, putWalletSlot(u) \/ setSessionPointer(u) PROVE Core' /\ Same
  BY <1>1, WalletSlotStep, PointerStep
<1>2. ASSUME NEW k \in Key, Aside(k), NEW v, Bare(k, v),
             UNCHANGED <<dialect, conn, pc, arg, claimed, torn>>
      PROVE  Core' /\ Same
  <2>1. DOMAIN rows' = Key /\ \A x \in Key \ {k} : rows'[x] = rows[x]
    BY <1>2 DEF Bare, Core, Shape
  <2> QED BY <1>2, <2>1, AsideWrite DEF conn
<1>3. ASSUME NEW x \in Challenge, putChallenge(x) \/ takeReturning(x) PROVE Core' /\ Same
  <2>1. ChallengeRow(x) \in Key /\ Aside(ChallengeRow(x))
    BY AsideKeys DEF Key
  <2> QED BY <1>2, <1>3, <2>1 DEF putChallenge, takeReturning, deployment
<1>4. ASSUME NEW t \in Token, putSession(t) \/ deleteSession(t) PROVE Core' /\ Same
  <2>1. SessionRow(t) \in Key /\ Aside(SessionRow(t))
    BY AsideKeys DEF Key
  <2> QED BY <1>2, <1>4, <2>1 DEF putSession, deleteSession, deployment
<1>5. ASSUME NEW k \in Key, k[1] \in {"challenge", "session"}, Expire(k) PROVE Core' /\ Same
  <2>1. Aside(k)
    BY <1>5, AsideKeys
  <2>2. DOMAIN rows' = Key /\ \A x \in Key \ {k} : rows'[x] = rows[x]
    BY <1>5 DEF Expire, Core, Shape
  <2>3. open # Absent => DOMAIN undo' = DOMAIN undo /\ \A x \in Key \ {k} : undo'[x] = undo[x]
    <3>1. open # Absent => DOMAIN undo = Key
      BY DEF Core, PoolFits, LineFits, Undone
    <3> QED BY <1>5, <3>1 DEF Expire
  <2>4. UNCHANGED <<dialect, open, draft, pc, arg, claimed, torn>>
    BY <1>5 DEF Expire, deployment, history
  <2> QED BY <2>1, <2>2, <2>3, <2>4, AsideWrite
<1>6. ASSUME NEW k \in Key, k[1] \in {"challenge", "session"}, sweepExpired(k) PROVE Core' /\ Same
  <2>1. Aside(k)
    BY <1>6, AsideKeys
  <2> QED BY <1>2, <1>6, <2>1 DEF sweepExpired, deployment, history
<1>7. CASE hitReturning
  <2>1. RateRow \in Key /\ Aside(RateRow)
    BY AsideKeys DEF Key
  <2> QED BY <1>2, <1>7, <2>1 DEF hitReturning, deployment
<1> QED BY <1>1, <1>3, <1>4, <1>5, <1>6, <1>7 DEF Single

-----------------------------------------------------------------------------
(* Arrivals, failures and crashes                                           *)

LEMMA ArriveStep ==
  ASSUME Core, NEW c \in Caller, Arrive(c)
  PROVE  Core' /\ Same
<1>1. pc[c] = "idle" /\ ~InTransaction(c)
  BY DEF Arrive, putUser, getUser, takeChallenge, hitRateLimit, InTransaction
<1>2. Pooled => ~torn
  BY DEF Core, Whole
<1>3. ASSUME NEW a, Moves(c, "begin", a), UNCHANGED <<dialect, rows, open, undo, draft, claimed, torn>>,
             a.op \in {"putUser", "take", "hit"}, a.op = "putUser" => a \in PutArg,
             ~Pooled => a.op = "putUser"
      PROVE  Core' /\ Same
  BY <1>1, <1>2, <1>3, OutsideStep
<1>4. ASSUME NEW u \in User, NEW e \in Email, putUser(c, u, e) PROVE Core' /\ Same
  <2>1. PICK a : a = [op |-> "putUser", user |-> u, email |-> e]
    OBVIOUS
  <2>2. a.op = "putUser" /\ a \in PutArg
    BY <2>1 DEF PutArg
  <2>3. Moves(c, "begin", a) /\ UNCHANGED <<dialect, rows, open, undo, draft, claimed, torn>>
    BY <1>4, <2>1 DEF putUser, Transaction, Call, Goto, Moves, deployment, history
  <2> QED BY <1>3, <2>2, <2>3
<1>5. ASSUME NEW u \in User, getUser(c, u) PROVE Core' /\ Same
  <2>1. PICK a : a = [op |-> "getUser", user |-> u]
    OBVIOUS
  <2>2. a.user \in User
    BY <2>1
  <2>3. Moves(c, "row", a) /\ UNCHANGED <<dialect, rows, open, undo, draft, claimed, torn>>
    BY <1>5, <2>1 DEF getUser, Call, Goto, Moves, deployment, conn, history
  <2> QED BY <1>1, <1>2, <2>2, <2>3, OutsideStep
<1>6. ~supportsReturning => Pooled
  BY DEF supportsReturning, Pooled
<1>7. ASSUME NEW x \in Challenge, takeChallenge(c, x) PROVE Core' /\ Same
  <2>1. PICK a : a = [op |-> "take", challenge |-> x]
    OBVIOUS
  <2>2. a.op = "take" /\ Pooled
    BY <1>6, <1>7, <2>1 DEF takeChallenge
  <2>3. Moves(c, "begin", a) /\ UNCHANGED <<dialect, rows, open, undo, draft, claimed, torn>>
    BY <1>7, <2>1 DEF takeChallenge, Transaction, Call, Goto, Moves, deployment, history
  <2> QED BY <1>3, <2>2, <2>3
<1>8. ASSUME hitRateLimit(c) PROVE Core' /\ Same
  <2>1. PICK a : a = [op |-> "hit"]
    OBVIOUS
  <2>2. a.op = "hit" /\ Pooled
    BY <1>6, <1>8, <2>1 DEF hitRateLimit
  <2>3. Moves(c, "begin", a) /\ UNCHANGED <<dialect, rows, open, undo, draft, claimed, torn>>
    BY <1>8, <2>1 DEF hitRateLimit, Transaction, Call, Goto, Moves, deployment
  <2> QED BY <1>3, <2>2, <2>3
<1> QED BY <1>4, <1>5, <1>7, <1>8 DEF Arrive

LEMMA FailStep ==
  ASSUME Core, NEW c \in Caller, Fail(c)
  PROVE  Core' /\ Same
<1>1. UNCHANGED <<dialect, claimed, torn>> /\ (Pooled => ~torn)
  BY DEF Fail, deployment, history, Core, Whole
<1>2. CASE InTransaction(c) /\ Rollback(c)
  BY <1>1, <1>2, RollbackStep
<1>3. CASE /\ pc[c] \in {"begin", "row", "wallets"} /\ Return(c)
           /\ UNCHANGED <<rows, open, undo, draft>>
  <2>1. ~InTransaction(c) /\ Moves(c, "idle", << >>)
    BY <1>3 DEF InTransaction, Return, Call, Goto, Moves
  <2> QED BY <1>1, <1>3, <2>1, OutsideStep
<1> QED BY <1>2, <1>3 DEF Fail, conn

LEMMA CrashStep ==
  ASSUME Core, Crash
  PROVE  Core' /\ Same
<1>1. /\ rows' = [k \in Key |-> Durable(k)] /\ open' = Absent
      /\ draft' = [c \in Caller |-> NoRows]
      /\ pc' = [c \in Caller |-> "idle"] /\ arg' = [c \in Caller |-> << >>]
      /\ UNCHANGED <<dialect, claimed, torn>>
  BY DEF Crash, deployment, history
<1>2. /\ DOMAIN rows' = Key
      /\ \A u \in User : rows'[UserKey(u)] = Durable(UserKey(u)) /\ rows'[SlotKey(u)] = Durable(SlotKey(u))
      /\ \A e \in Email : rows'[EmailRow(e)] = Durable(EmailRow(e))
  BY <1>1, Keys
<1>3. open # Absent => ~Pooled /\ Undone(open) /\ open \in Caller /\ arg[open] \in PutArg
  BY DEF Core, PoolFits, LineFits, ArgFits
<1>4. \A u \in User : rows'[UserKey(u)] \in {Absent} \cup Record
  BY <1>2, <1>3 DEF Core, Shape, Durable, Undone
<1>5. \A e \in Email : rows'[EmailRow(e)] \in {Absent} \cup User
  BY <1>2, <1>3 DEF Core, Shape, Durable, Undone, PutArg
<1>6. \A c \in Caller : pc'[c] = "idle" /\ DOMAIN draft'[c] = {} /\ ~Putting(c)' /\ ~InTransaction(c)'
  BY <1>1, Empty DEF Putting, InTransaction
<1>7. Shape'
  BY <1>1, <1>2, <1>4, <1>5 DEF Core, Shape
<1>8. \A c \in Caller : ArgFits(c)' /\ DraftFits(c)'
  BY <1>6 DEF ArgFits, DraftFits
<1>9. PoolFits' /\ (Pooled' = Pooled)
  BY <1>1, <1>6, <1>8 DEF PoolFits, Pooled
<1>10. Pooled => Whole'
  BY <1>1, <1>2, <1>3, <1>6 DEF Core, Whole, Durable
<1>11. LineFits'
  BY <1>1, <1>6 DEF LineFits
<1>12. Same
  BY <1>1, <1>2 DEF Same, AddressOf, Durable
<1>13. Claims'
  BY <1>1, <1>12 DEF Core, Claims, Same
<1> QED BY <1>7, <1>8, <1>9, <1>10, <1>11, <1>12, <1>13 DEF Core

-----------------------------------------------------------------------------
(* The transactions of MySQL without RETURNING, and getUser                 *)

LEMMA PoolWrite ==
  ASSUME Core, Pooled, NEW c \in Caller, NEW k, NEW v, Write(c, k, v)
  PROVE  /\ UNCHANGED <<rows, open>> /\ DOMAIN draft' = Caller
         /\ \A d \in Caller \ {c} : draft'[d] = draft[d]
         /\ \A x \in DOMAIN draft'[c] : x = k \/ x \in DOMAIN draft[c]
  BY DEF Write, Core, Shape, Put

\* A transaction that is no putUser commits nothing the directory sees.
LEMMA OtherCommit ==
  ASSUME Core, NEW c \in Caller, InTransaction(c), ~Putting(c), Commit(c),
         UNCHANGED <<claimed, torn>>
  PROVE  Core' /\ Same
<1>1. /\ Moves(c, "idle", << >>) /\ open' = Absent /\ draft' = [draft EXCEPT ![c] = NoRows]
      /\ rows' = [k \in Key |-> Seen(c, k)] /\ dialect' = dialect
  BY DEF Commit, Release, Return, Call, Goto, Moves, deployment
<1>2. Pooled
  BY DEF Core, LineFits
<1>3. DraftFits(c)
  BY <1>2 DEF Core, PoolFits
<1>4. /\ \A u \in User : Seen(c, UserKey(u)) = rows[UserKey(u)] /\ Seen(c, SlotKey(u)) = rows[SlotKey(u)]
      /\ \A e \in Email : Seen(c, EmailRow(e)) = rows[EmailRow(e)]
  BY <1>3 DEF DraftFits, Seen
<1>5. DOMAIN rows' = Key /\ CoreSame(rows', rows)
  BY <1>1, <1>4, Keys DEF CoreSame
<1> QED BY <1>1, <1>2, <1>5, LeaveStep

LEMMA OtherStep ==
  ASSUME Core, NEW c \in Caller,
         SelectForUpdate(c) \/ DeleteTaken(c) \/ CommitTaken(c)
         \/ UpsertHit(c) \/ ReadBack(c) \/ CommitHit(c)
  PROVE  Core' /\ Same
<1>1. InTransaction(c) /\ ~Putting(c)
  BY DEF SelectForUpdate, DeleteTaken, CommitTaken, UpsertHit, ReadBack, CommitHit,
         InTransaction, Putting
<1>2. Pooled
  BY <1>1 DEF Core, LineFits
<1>3. ASSUME NEW l \in {"delete", "readback", "commit"}, pc' = [pc EXCEPT ![c] = l], arg' = arg,
             l # "readback" => arg[c].op # "putUser",
             NEW k, Aside(k), NEW v, Write(c, k, v), UNCHANGED <<dialect, claimed, torn>>
      PROVE  Core' /\ Same
  <2>1. Moves(c, l, arg[c])
    BY <1>3 DEF Moves
  <2>2. /\ UNCHANGED <<rows, open>> /\ DOMAIN draft' = Caller
        /\ \A d \in Caller \ {c} : draft'[d] = draft[d]
        /\ \A x \in DOMAIN draft'[c] : x = k \/ x \in DOMAIN draft[c]
    BY <1>2, <1>3, PoolWrite
  <2> QED BY <1>1, <1>3, <2>1, <2>2, OtherTransaction
<1>4. CASE SelectForUpdate(c)
  <2>1. \/ /\ pc' = [pc EXCEPT ![c] = "delete"] /\ arg' = arg
           /\ Write(c, ChallengeRow(arg[c].challenge), "live")
        \/ Commit(c)
    BY <1>4 DEF SelectForUpdate, Goto
  <2>2. UNCHANGED <<dialect, claimed, torn>> /\ arg[c].op # "putUser"
    BY <1>4 DEF SelectForUpdate, deployment, history, Core, ArgFits
  <2> QED BY <1>1, <1>3, <2>1, <2>2, AsideKeys, OtherCommit
<1>5. CASE DeleteTaken(c)
  <2>1. arg[c].op # "putUser"
    BY <1>5 DEF DeleteTaken, Core, ArgFits
  <2> QED BY <1>3, <1>5, <2>1, AsideKeys DEF DeleteTaken, Goto, deployment, history
<1>6. CASE CommitTaken(c)
  BY <1>1, <1>6, OtherCommit DEF CommitTaken
<1>7. CASE UpsertHit(c)
  BY <1>3, <1>7, AsideKeys DEF UpsertHit, Goto, deployment, history
<1>8. CASE ReadBack(c)
  <2>1. PICK a : a = [op |-> "hit", count |-> Seen(c, RateRow)]
    OBVIOUS
  <2>2. a.op # "putUser"
    BY <2>1
  <2>3. Moves(c, "commit", a) /\ UNCHANGED <<dialect, rows, open, draft, claimed, torn>>
    BY <1>8, <2>1 DEF ReadBack, Call, Goto, Moves, deployment, conn, history
  <2> QED BY <1>1, <2>2, <2>3, OtherTransaction DEF Core, Shape
<1>9. CASE CommitHit(c)
  BY <1>1, <1>9, OtherCommit DEF CommitHit
<1> QED BY <1>4, <1>5, <1>6, <1>7, <1>8, <1>9

LEMMA ReadStep ==
  ASSUME Core, flaws = {}, NEW c \in Caller, SelectUser(c) \/ SelectWallets(c)
  PROVE  Core' /\ Same
<1>1. pc[c] \in {"row", "wallets"} /\ ~InTransaction(c) /\ arg[c].user \in User
  BY DEF SelectUser, SelectWallets, InTransaction, Core, ArgFits
<1>2. UserRow(arg[c].user) = UserKey(arg[c].user) /\ SlotRow(arg[c].user) = SlotKey(arg[c].user)
  BY <1>1, Clean
<1>3. UNCHANGED <<dialect, rows, open, undo, draft, claimed>>
  BY DEF SelectUser, SelectWallets, deployment, conn, history
<1>4. CASE SelectUser(c)
  <2>1. \/ Moves(c, "idle", << >>)
        \/ Moves(c, "wallets", arg[c]) /\ rows[UserKey(arg[c].user)] # Absent
    BY <1>2, <1>4 DEF SelectUser, Return, Call, Goto, Moves
  <2>2. Pooled => ~torn'
    BY <1>4 DEF SelectUser, history, Core, Whole
  <2> QED BY <1>1, <1>3, <2>1, <2>2, OutsideStep
<1>5. CASE SelectWallets(c)
  <2>1. Moves(c, "idle", << >>)
    BY <1>5 DEF SelectWallets, Return, Call, Goto, Moves
  <2>2. Pooled => ~torn'
    <3> SUFFICES ASSUME Pooled PROVE ~torn'
      OBVIOUS
    <3>1. rows[SlotKey(arg[c].user)] \in {"created", "imported"}
      BY <1>1, <1>5 DEF SelectWallets, Core, Whole
    <3>2. rows[SlotKey(arg[c].user)] \notin {Absent, "truncated"}
      BY <3>1, AbsentAssumption
    <3> QED BY <1>2, <1>5, <3>2 DEF SelectWallets, Core, Whole
  <2> QED BY <1>1, <1>3, <2>1, <2>2, OutsideStep
<1> QED BY <1>4, <1>5

-----------------------------------------------------------------------------
(* The theorems                                                             *)

\* Every step of a store that booted keeps Core, and is a claim or changes
\* nothing the directory sees.
LEMMA RunStep ==
  ASSUME Core, flaws = {},
         Crash \/ Single \/ \E c \in Caller : Arrive(c) \/ Step(c) \/ Fail(c)
  PROVE  Core' /\ (Same \/ \E u \in User, e \in Email : ClaimedBy(u, e))
<1>1. ASSUME NEW c \in Caller, Step(c)
      PROVE  Core' /\ (Same \/ \E u \in User, e \in Email : ClaimedBy(u, e))
  BY <1>1, BeginStep, UserStep, WalletStep, HolderStep, EmailStep, CommitUserStep,
     ReadStep, OtherStep DEF Step
<1> QED BY <1>1, CrashStep, SingleStep, ArriveStep, FailStep

\* The boot and the repairs before it touch no row.
LEMMA BootStep ==
  ASSUME Inv, createSqlAuthStore \/ \E f \in Flaw : Repair(f)
  PROVE  Inv' /\ Same
<1>1. UNCHANGED <<dialect, rows, open, undo, draft, pc, arg, claimed, torn>>
  BY DEF createSqlAuthStore, Repair, conn, history
<1>2. Core' /\ Same
  <2>1. CoreSame(rows', rows) /\ CoreSame(undo', undo)
    BY <1>1 DEF CoreSame
  <2>2. open # Absent => DOMAIN undo = Key
    BY DEF Inv, Core, PoolFits, LineFits, Undone
  <2> QED BY <1>1, <2>1, <2>2, AsideStep DEF Inv, Core, Shape
<1>3. \A k \in Key : Durable(k)' = Durable(k)
  BY <1>1 DEF Durable
<1>4. CASE createSqlAuthStore
  <2>1. preflight[dialect] = {} /\ booted' /\ flaws' = flaws
    BY <1>4 DEF createSqlAuthStore
  <2>2. flaws = {}
    BY <2>1 DEF preflight, postgresPreflight, mysqlPreflight, sqlitePreflight, FlawsOf, Inv,
         Boots, Core, Shape
  <2> QED BY <1>1, <1>2, <2>1, <2>2 DEF Inv, Boots
<1>5. ASSUME NEW f \in Flaw, Repair(f) PROVE Inv'
  BY <1>1, <1>2, <1>3, <1>5 DEF Repair, Inv, Boots
<1> QED BY <1>2, <1>4, <1>5

LEMMA InitInv == Init => Inv
<1> SUFFICES ASSUME Init PROVE Inv
  OBVIOUS
<1>1. \A u \in User : rows[UserKey(u)] = Absent /\ rows[SlotKey(u)] = Absent
  BY Keys DEF Init
<1>2. \A e \in Email : rows[EmailRow(e)] = Absent
  BY Keys DEF Init
<1>3. \A c \in Caller : pc[c] = "idle" /\ DOMAIN draft[c] = {} /\ ~Putting(c) /\ ~InTransaction(c)
  BY Empty DEF Init, Putting, InTransaction
<1>4. Shape
  BY <1>1, <1>2, StoreAssumption DEF Init, Shape
<1>5. \A c \in Caller : ArgFits(c) /\ DraftFits(c)
  BY <1>3 DEF ArgFits, DraftFits
<1>6. PoolFits /\ Whole /\ LineFits
  BY <1>1, <1>3, <1>5 DEF Init, PoolFits, Whole, LineFits
<1>7. Claims
  BY DEF Init, Claims
<1>8. Boots
  BY DEF Init, Boots, Durable
<1> QED BY <1>4, <1>5, <1>6, <1>7, <1>8 DEF Inv, Core

LEMMA NextInv ==
  Inv /\ [Next]_vars => Inv' /\ (Same \/ \E u \in User, e \in Email : ClaimedBy(u, e))
<1> SUFFICES ASSUME Inv, [Next]_vars
             PROVE  Inv' /\ (Same \/ \E u \in User, e \in Email : ClaimedBy(u, e))
  OBVIOUS
<1>1. CASE createSqlAuthStore \/ \E f \in Flaw : Repair(f)
  BY <1>1, BootStep
<1>2. CASE booted /\ (Crash \/ Single \/ \E c \in Caller : Arrive(c) \/ Step(c) \/ Fail(c))
  <2>1. Core' /\ (Same \/ \E u \in User, e \in Email : ClaimedBy(u, e))
    BY <1>2, RunStep DEF Inv, Boots
  <2>2. UNCHANGED deployment
    BY <1>2 DEF Crash, Single, Arrive, Step, Fail, putWalletSlot, setSessionPointer,
       putChallenge, takeReturning, putSession, deleteSession, Expire, sweepExpired,
       hitReturning, putUser, getUser, takeChallenge, hitRateLimit, Transaction, Begin,
       UpsertUser, UpsertWallet, SelectHolder, InsertEmail, CommitUser, SelectUser,
       SelectWallets, SelectForUpdate, DeleteTaken, CommitTaken, UpsertHit, ReadBack,
       CommitHit, Commit
  <2> QED BY <1>2, <2>1, <2>2 DEF Inv, Boots, deployment
<1>3. CASE UNCHANGED vars
  <2>1. CoreSame(rows', rows) /\ CoreSame(undo', undo)
    BY <1>3 DEF CoreSame, vars, conn
  <2>2. open # Absent => DOMAIN undo = Key
    BY DEF Inv, Core, PoolFits, LineFits, Undone
  <2>3. Core' /\ Same
    BY <1>3, <2>1, <2>2, AsideStep DEF Inv, Core, Shape, vars, deployment, conn, history
  <2>4. Boots'
    BY <1>3 DEF Inv, Boots, Durable, vars, deployment, conn
  <2> QED BY <2>3, <2>4 DEF Inv
<1> QED BY <1>1, <1>2, <1>3 DEF Next

\* Pools, their drafts and locks, and the one SQLite connection keep Inv, in every
\* order of the statements, with any number of failures and crashes.
THEOREM StoreInvariance == Spec => []Inv
BY InitInv, NextInv, PTL DEF Spec

\* An address whose putUser was reported stays with its account (CommitUser), on
\* the three databases, whatever rolls back or dies.
THEOREM ClaimsHold == Spec => []ReportedClaimsHold
<1>1. Inv => ReportedClaimsHold
  BY DEF Inv, Core, Claims, ReportedClaimsHold
<1> QED BY <1>1, StoreInvariance, PTL

\* On a pool getUser, two queries, gives out no record without its wallet
\* (SelectUser, SelectWallets).
THEOREM ReadsWhole == Spec => []PooledReadsWhole
<1>1. Inv => PooledReadsWhole
  BY DEF Inv, Core, Whole, PooledReadsWhole
<1> QED BY <1>1, StoreInvariance, PTL

-----------------------------------------------------------------------------
(* The directory                                                            *)

\* In a state of Inv an account is looked up under its own key, or there is none.
LEMMA AddressIs == Inv => \A u \in User : Address(u) = AddressOf(u)
<1> SUFFICES ASSUME Inv, NEW u \in User PROVE Address(u) = AddressOf(u)
  OBVIOUS
<1>1. CASE booted
  BY <1>1, Clean DEF Inv, Boots, Address, AddressOf
<1>2. CASE ~booted
  <2>1. Stored(u) \in User
    BY DEF Stored
  <2>2. UserRow(u) \in Key /\ UserKey(u) \in Key
    BY <2>1 DEF UserRow, UserKey, Key
  <2> QED BY <1>2, <2>2 DEF Inv, Boots, Address, AddressOf
<1> QED BY <1>1, <1>2

LEMMA DirectoryStep == Inv /\ Inv' /\ [Next]_vars => [Directory!Next]_(Directory!dirVars)
<1>a. Inv' => (\A u \in User : Address(u) = AddressOf(u))'
  BY AddressIs, PTL
<1> SUFFICES ASSUME Inv, Inv', [Next]_vars
             PROVE  Directory!Next \/ UNCHANGED Directory!dirVars
  BY DEF Directory!dirVars
<1>1. \A u \in User : Address(u) = AddressOf(u) /\ Address(u)' = AddressOf(u)'
  BY <1>a, AddressIs
<1>2. CASE Same
  <2>1. \A u \in User : Address(u)' = Address(u)
    BY <1>1, <1>2 DEF Same
  <2>2. \A e \in Email : Durable(EmailRow(e))' = Durable(EmailRow(e))
    BY <1>2 DEF Same
  <2> QED BY <2>1, <2>2 DEF Directory!dirVars
<1>3. ASSUME NEW u \in User, NEW e \in Email, ClaimedBy(u, e) PROVE Directory!Next
  <2>1. Durable(EmailRow(e)) \in {Absent, u}
    BY <1>3 DEF ClaimedBy
  <2>2. /\ Address(u)' = e
        /\ \A v \in User \ {u} : Address(v)' = Address(v)
    BY <1>1, <1>3 DEF ClaimedBy
  <2>3. /\ Durable(EmailRow(e))' = u
        /\ \A f \in Email \ {e} : Durable(EmailRow(f))' = Durable(EmailRow(f))
    BY <1>3 DEF ClaimedBy
  <2>4. Directory!Claim(u, e)
    BY <2>1, <2>2, <2>3 DEF Directory!Claim
  <2> QED BY <2>4 DEF Directory!Next
<1> QED BY <1>2, <1>3, NextInv

\* What is durable on Postgres, MySQL and SQLite is a directory in which account
\* and claim appear together and no address changes hands (putUser).
THEOREM IsDirectory == Spec => ImplementsDirectory
<1>1. Init => Directory!Init
  <2> SUFFICES ASSUME Init PROVE Directory!Init
    OBVIOUS
  <2>1. \A u \in User : Address(u) = Absent
    <3>1. ASSUME NEW u \in User PROVE UserRow(u) \in Key
      <4>1. Stored(u) \in User
        BY DEF Stored
      <4> QED BY <4>1 DEF UserRow, Key
    <3> QED BY <3>1 DEF Init, Address, Durable
  <2>2. \A e \in Email : Durable(EmailRow(e)) = Absent
    BY Keys DEF Init, Durable
  <2> QED BY <2>1, <2>2 DEF Directory!Init
<1> QED BY <1>1, StoreInvariance, DirectoryStep, PTL DEF Spec, ImplementsDirectory, Directory!Spec

-----------------------------------------------------------------------------
(* What follows for the addresses                                           *)

\* The durable claim of an account's address is the account's.
Held == \A u \in User : Address(u) # Absent =>
          Address(u) \in Email /\ Durable(EmailRow(Address(u))) = u

LEMMA HeldNext == Inv /\ Inv' /\ Held /\ [Next]_vars => Held'
<1> SUFFICES ASSUME Inv, Inv', Held, [Next]_vars PROVE Held'
  OBVIOUS
<1>1. Directory!Next \/ UNCHANGED Directory!dirVars
  BY DirectoryStep DEF Directory!dirVars
<1>2. CASE UNCHANGED Directory!dirVars
  <2>1. /\ \A u \in User : Address(u)' = Address(u)
        /\ \A e \in Email : Durable(EmailRow(e))' = Durable(EmailRow(e))
    BY <1>2 DEF Directory!dirVars
  <2> QED BY <2>1 DEF Held
<1>3. ASSUME NEW u \in User, NEW e \in Email, Directory!Claim(u, e) PROVE Held'
  <2>1. /\ Durable(EmailRow(e)) \in {Absent, u}
        /\ Address(u)' = e /\ \A v \in User \ {u} : Address(v)' = Address(v)
        /\ Durable(EmailRow(e))' = u
        /\ \A f \in Email \ {e} : Durable(EmailRow(f))' = Durable(EmailRow(f))
    BY <1>3 DEF Directory!Claim
  <2>2. ASSUME NEW v \in User \ {u}, Address(v) # Absent
        PROVE  Address(v) \in Email \ {e} /\ Durable(EmailRow(Address(v))) = v
    BY <2>1, <2>2, StoreAssumption DEF Held
  <2> QED BY <2>1, <2>2 DEF Held
<1> QED BY <1>1, <1>2, <1>3 DEF Directory!Next

\* Two durable accounts never share an address, and each is found under its own,
\* on the three databases, whatever raced, failed or died (putUser).
THEOREM AddressesUnique ==
  Spec => [](\A u, v \in User : Address(u) = Address(v) /\ Address(u) # Absent => u = v)
<1>1. Init => Held
  <2> SUFFICES ASSUME Init, NEW u \in User PROVE Address(u) = Absent
    BY DEF Held
  <2>1. UserRow(u) \in Key
    BY DEF UserRow, Stored, Key
  <2> QED BY <2>1 DEF Init, Address, Durable
<1>2. Inv /\ Inv' /\ Held /\ [Next]_vars => Held'
  BY HeldNext
<1>3. Held => \A u, v \in User : Address(u) = Address(v) /\ Address(u) # Absent => u = v
  BY DEF Held
<1> QED BY <1>1, <1>2, <1>3, StoreInvariance, PTL DEF Spec

-----------------------------------------------------------------------------
(* Connections, and the types of the rest                                   *)

Busy == {c \in Caller : InTransaction(c)}

\* A pool's connections are free or in a transaction; the chain of SQLite begins
\* with the transaction that is open, and holds every other that waits.
Connections ==
  /\ Pooled => free \in Nat /\ free + Cardinality(Busy) = PoolSize
  /\ ~Pooled => free = PoolSize
  /\ queue \in Seq(Caller)
  /\ ~Pooled => /\ open # Absent => queue # << >> /\ Head(queue) = open
                /\ \A c \in Caller : pc[c] = "begin" => \E i \in 1 .. Len(queue) : queue[i] = c

\* What may stand in a row of the wallets or of the challenges.
Fit(k, v) ==
  /\ \A u \in User : k = SlotKey(u) => v \in {Absent, "created", "imported", "truncated"}
  /\ \A x \in Challenge : k = ChallengeRow(x) => v \in {Absent, "live", "expired"}

Tables ==
  /\ \A k \in Key : Fit(k, rows[k])
  /\ \A c \in Caller : \A k \in DOMAIN draft[c] : k \in Key /\ Fit(k, draft[c][k])
  /\ open # Absent => \A k \in Key : Fit(k, undo[k])

Taking(c) == pc[c] \in {"lock", "delete"} \/ (pc[c] = "begin" /\ arg[c].op = "take")
Takes == \A c \in Caller : Taking(c) => arg[c].challenge \in Challenge

Histories ==
  /\ booted \in BOOLEAN /\ faults \in 0 .. MaxFaults
  /\ wins \in [Challenge -> 0 .. 2] /\ told \in [1 .. MaxIssued[dialect] -> 0 .. 2]
  /\ revoked \subseteq Token /\ torn \in BOOLEAN

Typed == Connections /\ Tables /\ Takes /\ Histories

LEMMA ConnectionsStay ==
  ASSUME Connections, UNCHANGED <<dialect, open, free, queue>>,
         \A c \in Caller : /\ InTransaction(c)' = InTransaction(c)
                           /\ pc'[c] = "begin" => pc[c] = "begin"
  PROVE  Connections'
<1>1. Busy' = Busy
  BY DEF Busy
<1> QED BY <1>1 DEF Connections, Pooled

LEMMA ConnectionsQueued ==
  ASSUME Inv, Connections, NEW c \in Caller, pc[c] = "idle", NEW a, Transaction(c, a)
  PROVE  Connections'
<1>1. /\ UNCHANGED <<dialect, open, free>> /\ pc' = [pc EXCEPT ![c] = "begin"]
      /\ queue' = IF Pooled THEN queue ELSE Append(queue, c)
  BY DEF Transaction, Call, Goto, deployment
<1>2. /\ pc'[c] = "begin" /\ \A d \in Caller \ {c} : pc'[d] = pc[d]
  BY <1>1 DEF Inv, Core, Shape
<1>3. Busy' = Busy
  BY <1>2 DEF Busy, InTransaction
<1>4. queue' \in Seq(Caller)
  BY <1>1 DEF Connections
<1>5. CASE Pooled
  BY <1>1, <1>3, <1>4, <1>5 DEF Connections, Pooled
<1>6. CASE ~Pooled
  <2>1. queue \in Seq(Caller) /\ queue' = Append(queue, c)
    BY <1>1, <1>6 DEF Connections
  <2>2. open' # Absent => queue' # << >> /\ Head(queue') = open'
    BY <1>1, <1>6, <2>1 DEF Connections
  <2>3. Len(queue') = Len(queue) + 1 /\ queue'[Len(queue) + 1] = c
        /\ \A i \in 1 .. Len(queue) : queue'[i] = queue[i]
    BY <2>1
  <2>4. Len(queue) \in Nat
    BY <2>1
  <2>5. \A d \in Caller : pc'[d] = "begin" => \E i \in 1 .. Len(queue') : queue'[i] = d
    BY <1>2, <1>6, <2>3, <2>4 DEF Connections
  <2> QED BY <1>1, <1>4, <1>6, <2>2, <2>5 DEF Connections, Pooled
<1> QED BY <1>5, <1>6

LEMMA ConnectionsTaken ==
  ASSUME Inv, Connections, IsFiniteSet(Caller), NEW c \in Caller, Begin(c)
  PROVE  Connections'
<1>1. pc[c] = "begin" /\ pc' = [pc EXCEPT ![c] = First[arg[c].op]] /\ dialect' = dialect
  BY DEF Begin, Goto, deployment
<1>2. pc'[c] \in {"user", "lock", "upsert"}
  <2>1. arg[c].op \in {"putUser", "take", "hit"}
    BY <1>1 DEF Inv, Core, ArgFits
  <2>2. First["putUser"] = "user" /\ First["take"] = "lock" /\ First["hit"] = "upsert"
    BY DEF First
  <2> QED BY <1>1, <2>1, <2>2 DEF Inv, Core, Shape
<1>3. \A d \in Caller \ {c} : pc'[d] = pc[d]
  BY <1>1 DEF Inv, Core, Shape
<1>4. Busy' = Busy \cup {c} /\ c \notin Busy
  BY <1>1, <1>2, <1>3 DEF Busy, InTransaction
<1>5. IsFiniteSet(Busy)
  BY FS_Subset DEF Busy
<1>6. Cardinality(Busy') = Cardinality(Busy) + 1 /\ Cardinality(Busy) \in Nat
  BY <1>4, <1>5, FS_AddElement, FS_CardinalityType
<1>7. CASE Pooled
  <2>1. free > 0 /\ free' = free - 1 /\ queue' = queue
    BY <1>7 DEF Begin
  <2>2. free \in Nat /\ free + Cardinality(Busy) = PoolSize
    BY <1>7 DEF Connections
  <2>3. free' \in Nat /\ free' + Cardinality(Busy') = PoolSize
    BY <1>6, <2>1, <2>2, StoreAssumption
  <2> QED BY <1>1, <1>7, <2>1, <2>3 DEF Connections, Pooled
<1>8. CASE ~Pooled
  <2>1. Head(queue) = c /\ open' = c /\ UNCHANGED <<queue, free>>
    BY <1>8 DEF Begin
  <2>2. queue # << >>
    BY <1>1, <1>8 DEF Connections
  <2>3. \A d \in Caller : pc'[d] = "begin" => pc[d] = "begin"
    BY <1>1, <1>3
  <2> QED BY <1>1, <1>8, <2>1, <2>2, <2>3 DEF Connections, Pooled
<1> QED BY <1>7, <1>8

\* The chain goes on to the next that waits.
LEMMA QueueMoves ==
  ASSUME Connections, ~Pooled, NEW c \in Caller, queue # << >>, Head(queue) = c, queue' = Tail(queue),
         \A d \in Caller : pc'[d] = "begin" => pc[d] = "begin" /\ d # c
  PROVE  /\ queue' \in Seq(Caller)
         /\ \A d \in Caller : pc'[d] = "begin" => \E i \in 1 .. Len(queue') : queue'[i] = d
<1>1. queue \in Seq(Caller) /\ queue[1] = c
  BY DEF Connections
<1>2. /\ queue' \in Seq(Caller) /\ Len(queue') = Len(queue) - 1 /\ Len(queue) \in Nat
      /\ \A i \in 1 .. Len(queue') : queue'[i] = queue[i + 1]
  BY <1>1
<1>3. ASSUME NEW d \in Caller, pc'[d] = "begin" PROVE \E i \in 1 .. Len(queue') : queue'[i] = d
  <2>1. PICK j \in 1 .. Len(queue) : queue[j] = d
    BY <1>3 DEF Connections
  <2>2. j # 1
    BY <1>1, <1>3, <2>1
  <2>3. j - 1 \in 1 .. Len(queue') /\ queue'[j - 1] = d
    BY <1>2, <2>1, <2>2
  <2> QED BY <2>3
<1> QED BY <1>2, <1>3

LEMMA ConnectionsReleased ==
  ASSUME Inv, Connections, IsFiniteSet(Caller), NEW c \in Caller, InTransaction(c),
         Release(c), Return(c), dialect' = dialect
  PROVE  Connections'
<1>1. pc'[c] = "idle" /\ \A d \in Caller \ {c} : pc'[d] = pc[d]
  BY DEF Inv, Core, Shape, Return, Call, Goto
<1>2. Busy' = Busy \ {c} /\ c \in Busy
  BY <1>1 DEF Busy, InTransaction
<1>3. IsFiniteSet(Busy)
  BY FS_Subset DEF Busy
<1>4. Cardinality(Busy') = Cardinality(Busy) - 1 /\ Cardinality(Busy) \in Nat
  BY <1>2, <1>3, FS_RemoveElement, FS_CardinalityType
<1>5. CASE Pooled
  <2>1. free' = free + 1 /\ queue' = queue
    BY <1>5 DEF Release
  <2>2. free \in Nat /\ free + Cardinality(Busy) = PoolSize
    BY <1>5 DEF Connections
  <2>3. free' \in Nat /\ free' + Cardinality(Busy') = PoolSize
    BY <1>4, <2>1, <2>2, StoreAssumption
  <2> QED BY <1>5, <2>1, <2>3 DEF Connections, Pooled
<1>6. CASE ~Pooled
  <2>1. open = c /\ c # Absent
    BY <1>6, StoreAssumption DEF Inv, Core, LineFits
  <2>2. queue # << >> /\ Head(queue) = c
    BY <1>6, <2>1 DEF Connections
  <2>3. open' = Absent /\ queue' = Tail(queue) /\ free' = free
    BY <1>6 DEF Release
  <2>4. \A d \in Caller : pc'[d] = "begin" => pc[d] = "begin" /\ d # c
    BY <1>1
  <2>5. /\ queue' \in Seq(Caller)
        /\ \A d \in Caller : pc'[d] = "begin" => \E i \in 1 .. Len(queue') : queue'[i] = d
    BY <1>6, <2>2, <2>3, <2>4, QueueMoves
  <2> QED BY <1>6, <2>3, <2>5 DEF Connections, Pooled
<1> QED BY <1>5, <1>6

LEMMA ConnectionsCrash ==
  ASSUME Connections, Crash PROVE Connections'
<1>1. /\ open' = Absent /\ queue' = << >> /\ free' = PoolSize /\ dialect' = dialect
      /\ \A c \in Caller : pc'[c] = "idle"
  BY DEF Crash, deployment
<1>2. Busy' = {}
  BY <1>1 DEF Busy, InTransaction
<1>3. free' \in Nat /\ free' + Cardinality(Busy') = PoolSize
  BY <1>1, <1>2, FS_EmptySet, StoreAssumption
<1> QED BY <1>1, <1>3 DEF Connections, Pooled

\* The call gives up before its BEGIN: the chain goes on without it.
LEMMA ConnectionsRefused ==
  ASSUME Inv, Connections, NEW c \in Caller, pc[c] = "begin", ~Pooled => Head(queue) = c,
         Return(c), queue' = IF Pooled THEN queue ELSE Tail(queue),
         UNCHANGED <<dialect, open, free>>, Pooled \/ open = Absent
  PROVE  Connections'
<1>1. pc'[c] = "idle" /\ \A d \in Caller \ {c} : pc'[d] = pc[d]
  BY DEF Inv, Core, Shape, Return, Call, Goto
<1>2. Busy' = Busy
  BY <1>1 DEF Busy, InTransaction
<1>3. CASE Pooled
  BY <1>1, <1>2, <1>3 DEF Connections, Pooled
<1>4. CASE ~Pooled
  <2>1. queue # << >> /\ \A d \in Caller : pc'[d] = "begin" => pc[d] = "begin" /\ d # c
    BY <1>1, <1>4 DEF Connections
  <2>2. /\ queue' \in Seq(Caller)
        /\ \A d \in Caller : pc'[d] = "begin" => \E i \in 1 .. Len(queue') : queue'[i] = d
    BY <1>4, <2>1, QueueMoves
  <2> QED BY <1>4, <2>2 DEF Connections, Pooled
<1> QED BY <1>3, <1>4

-----------------------------------------------------------------------------
(* The rows                                                                 *)

\* A key of another table takes anything.
LEMMA FitsAny ==
  /\ \A u \in User : \A w : Fit(UserKey(u), w)
  /\ \A e \in Email : \A w : Fit(EmailRow(e), w)
  /\ \A t \in Token : \A w : Fit(SessionRow(t), w)
  /\ \A w : Fit(RateRow, w)
  /\ \A u \in User : Fit(SlotKey(u), "created") /\ Fit(SlotKey(u), "imported")
  /\ \A x \in Challenge : Fit(ChallengeRow(x), "live") /\ Fit(ChallengeRow(x), Absent)
  /\ \A k \in Key : k[1] \in {"challenge", "session"} => Fit(k, "expired") /\ Fit(k, Absent)
  BY DEF Fit, UserKey, SlotKey, EmailRow, SessionRow, RateRow, ChallengeRow

LEMMA TablesStay ==
  ASSUME Tables, UNCHANGED <<rows, open, undo, draft>> PROVE Tables'
  BY DEF Tables, Fit

LEMMA TablesWrite ==
  ASSUME Inv, Tables, NEW c \in Caller, NEW k \in Key, NEW v, Fit(k, v), Write(c, k, v)
  PROVE  Tables'
<1>1. CASE Pooled
  <2>1. /\ UNCHANGED <<rows, open, undo>> /\ draft'[c] = Put(draft[c], k, v)
        /\ \A d \in Caller \ {c} : draft'[d] = draft[d]
    BY <1>1 DEF Write, Inv, Core, Shape
  <2>2. \A x \in DOMAIN draft'[c] : x \in Key /\ Fit(x, draft'[c][x])
    BY <2>1 DEF Tables, Put
  <2> QED BY <2>1, <2>2 DEF Tables, Fit
<1>2. CASE ~Pooled
  BY <1>2 DEF Write, conn, Inv, Core, Shape, Tables, Fit
<1> QED BY <1>1, <1>2

LEMMA TablesBare ==
  ASSUME Inv, Tables, NEW k \in Key, NEW v, Fit(k, v), Bare(k, v), UNCHANGED conn
  PROVE  Tables'
  BY DEF Bare, conn, Inv, Core, Shape, Tables, Fit

LEMMA TablesReleased ==
  ASSUME Inv, Tables, NEW c \in Caller, InTransaction(c), Release(c),
         \/ rows' = [k \in Key |-> Seen(c, k)]
         \/ rows' = IF Pooled THEN rows ELSE undo
  PROVE  Tables'
<1>1. /\ open' = Absent /\ DOMAIN draft'[c] = {}
      /\ \A d \in Caller \ {c} : draft'[d] = draft[d]
  BY Empty DEF Release, Inv, Core, Shape
<1>2. ~Pooled => open # Absent
  BY StoreAssumption DEF Inv, Core, LineFits
<1>3. \A k \in Key : Fit(k, rows'[k])
  BY <1>2 DEF Tables, Seen
<1> QED BY <1>1, <1>3 DEF Tables, Fit

LEMMA TablesBegin ==
  ASSUME Tables, NEW c \in Caller, Begin(c) PROVE Tables'
  BY DEF Begin, Tables, Fit

LEMMA TablesCrash ==
  ASSUME Tables, Crash PROVE Tables'
<1>1. /\ rows' = [k \in Key |-> Durable(k)] /\ open' = Absent
      /\ draft' = [c \in Caller |-> NoRows]
  BY DEF Crash
<1> QED BY <1>1, Empty DEF Tables, Durable, Fit

LEMMA TablesExpire ==
  ASSUME Inv, Tables, NEW k \in Key, k[1] \in {"challenge", "session"}, Expire(k)
  PROVE  Tables'
<1>1. Fit(k, "expired") /\ DOMAIN rows = Key /\ (open # Absent => DOMAIN undo = Key)
  BY FitsAny DEF Inv, Core, Shape, PoolFits, LineFits, Undone
<1>2. UNCHANGED <<open, draft>> /\ rows' = [rows EXCEPT ![k] = "expired"]
  BY DEF Expire
<1>3. \A x \in Key : Fit(x, rows'[x])
  BY <1>1, <1>2 DEF Tables
<1>4. ASSUME open # Absent PROVE \A x \in Key : Fit(x, undo'[x])
  <2>1. undo' = [undo EXCEPT ![k] = IF undo[k] = "live" THEN "expired" ELSE undo[k]]
    BY <1>4 DEF Expire
  <2> QED BY <1>1, <1>4, <2>1 DEF Tables
<1> QED BY <1>2, <1>3, <1>4 DEF Tables, Fit

-----------------------------------------------------------------------------
(* Every action                                                             *)

LEMMA TakesMove ==
  ASSUME Inv, Takes, NEW c \in Caller, NEW l, NEW a, Moves(c, l, a),
         l \in {"lock", "delete"} \/ (l = "begin" /\ a.op = "take") => a.challenge \in Challenge
  PROVE  Takes'
<1>1. /\ pc'[c] = l /\ arg'[c] = a
      /\ \A d \in Caller \ {c} : pc'[d] = pc[d] /\ arg'[d] = arg[d]
  BY DEF Inv, Core, Shape, Moves
<1> QED BY <1>1 DEF Takes, Taking

LEMMA TakesStay ==
  ASSUME Takes, UNCHANGED <<pc, arg>> PROVE Takes'
  BY DEF Takes, Taking

LEMMA HistoriesStay ==
  ASSUME Histories, UNCHANGED <<deployment, faults, history>> PROVE Histories'
  BY DEF Histories, deployment, history

LEMMA HistoriesFault ==
  ASSUME Histories, faults > 0, faults' = faults - 1, UNCHANGED <<deployment, history>>
  PROVE  Histories'
<1>1. faults' \in 0 .. MaxFaults
  BY StoreAssumption DEF Histories
<1> QED BY <1>1 DEF Histories, deployment, history

LEMMA MoreFits == \A n \in 0 .. 2 : More(n) \in 0 .. 2
  BY DEF More

\* A statement inside a transaction.
LEMMA TypedWrite ==
  ASSUME Inv, Typed, NEW c \in Caller, InTransaction(c),
         NEW l \in {"slot", "select", "insert", "delete", "readback", "commit"},
         pc' = [pc EXCEPT ![c] = l], arg' = arg, l = "delete" => arg[c].challenge \in Challenge,
         NEW k \in Key, NEW v, Fit(k, v), Write(c, k, v),
         UNCHANGED <<deployment, faults, history>>
  PROVE  Typed'
<1>1. pc'[c] = l /\ \A d \in Caller \ {c} : pc'[d] = pc[d]
  BY DEF Inv, Core, Shape
<1>2. UNCHANGED <<dialect, open, free, queue>>
  BY DEF Write, conn, deployment
<1>3. \A d \in Caller : InTransaction(d)' = InTransaction(d) /\ (pc'[d] = "begin" => pc[d] = "begin")
  BY <1>1 DEF InTransaction
<1>4. Connections'
  BY <1>2, <1>3, ConnectionsStay DEF Typed
<1>5. Moves(c, l, arg[c])
  BY DEF Moves
<1>6. Takes'
  BY <1>5, TakesMove DEF Typed
<1> QED BY <1>4, <1>6, TablesWrite, HistoriesStay DEF Typed

\* A statement that only reads, and the answers outside a transaction.
LEMMA TypedRead ==
  ASSUME Inv, Typed, NEW c \in Caller, NEW l, NEW a, Moves(c, l, a), l # "begin",
         l \notin {"lock", "delete"}, l \in {"idle", "row", "wallets"} <=> ~InTransaction(c),
         UNCHANGED <<dialect, rows, conn>>, Histories'
  PROVE  Typed'
<1>1. pc'[c] = l /\ \A d \in Caller \ {c} : pc'[d] = pc[d]
  BY DEF Inv, Core, Shape, Moves
<1>2. \A d \in Caller : InTransaction(d)' = InTransaction(d) /\ (pc'[d] = "begin" => pc[d] = "begin")
  BY <1>1 DEF InTransaction
<1>3. Connections'
  BY <1>2, ConnectionsStay DEF Typed, conn
<1>4. Takes'
  BY TakesMove DEF Typed
<1>5. Tables'
  BY TablesStay DEF Typed, conn
<1> QED BY <1>3, <1>4, <1>5 DEF Typed

\* The end of a transaction.
LEMMA TypedEnd ==
  ASSUME Inv, Typed, IsFiniteSet(Caller), NEW c \in Caller, InTransaction(c),
         Commit(c) \/ Rollback(c), dialect' = dialect, Histories'
  PROVE  Typed'
<1>1. /\ Release(c) /\ Return(c)
      /\ \/ rows' = [k \in Key |-> Seen(c, k)]
         \/ rows' = IF Pooled THEN rows ELSE undo
  BY DEF Commit, Rollback
<1>2. Moves(c, "idle", << >>)
  BY <1>1 DEF Return, Call, Goto, Moves
<1>3. Connections'
  BY <1>1, ConnectionsReleased DEF Typed
<1>4. Tables'
  BY <1>1, TablesReleased DEF Typed
<1>5. Takes'
  BY <1>2, TakesMove DEF Typed
<1> QED BY <1>3, <1>4, <1>5 DEF Typed

LEMMA TypedBegin ==
  ASSUME Inv, Typed, IsFiniteSet(Caller), NEW c \in Caller, Begin(c)
  PROVE  Typed'
<1>1. /\ pc[c] = "begin" /\ pc' = [pc EXCEPT ![c] = First[arg[c].op]] /\ arg' = arg
      /\ UNCHANGED <<deployment, faults, history>>
  BY DEF Begin, Goto
<1>2. First[arg[c].op] = "lock" => arg[c].op = "take"
  <2>1. arg[c].op \in {"putUser", "take", "hit"}
    BY <1>1 DEF Inv, Core, ArgFits
  <2>2. First["putUser"] = "user" /\ First["take"] = "lock" /\ First["hit"] = "upsert"
    BY DEF First
  <2> QED BY <2>1, <2>2
<1>3. First[arg[c].op] \notin {"begin", "delete"}
  <2>1. arg[c].op \in {"putUser", "take", "hit"}
    BY <1>1 DEF Inv, Core, ArgFits
  <2>2. First["putUser"] = "user" /\ First["take"] = "lock" /\ First["hit"] = "upsert"
    BY DEF First
  <2> QED BY <2>1, <2>2
<1>4. Moves(c, First[arg[c].op], arg[c])
  BY <1>1 DEF Moves
<1>5. arg[c].op = "take" => arg[c].challenge \in Challenge
  BY <1>1 DEF Typed, Takes, Taking
<1>6. Takes'
  BY <1>2, <1>3, <1>4, <1>5, TakesMove DEF Typed
<1> QED BY <1>1, <1>6, ConnectionsTaken, TablesBegin, HistoriesStay DEF Typed

LEMMA TypedPutUser ==
  ASSUME Inv, flaws = {}, Typed, IsFiniteSet(Caller), NEW c \in Caller,
         UpsertUser(c) \/ UpsertWallet(c) \/ SelectHolder(c) \/ InsertEmail(c) \/ CommitUser(c)
  PROVE  Typed'
<1>1. Putting(c) /\ InTransaction(c) /\ arg[c] \in PutArg
  BY DEF UpsertUser, UpsertWallet, SelectHolder, InsertEmail, CommitUser, Putting,
     InTransaction, Inv, Core, ArgFits
<1>2. PICK u \in User, e \in Email : arg[c].user = u /\ arg[c].email = e
  BY <1>1 DEF PutArg
<1>3. UserKey(u) \in Key /\ SlotKey(u) \in Key /\ EmailRow(e) \in Key
  BY Keys
<1>4. UserRow(u) = UserKey(u) /\ SlotRow(u) = SlotKey(u) /\ Fitted("created") = "created"
  BY Clean
<1>5. CASE UpsertUser(c)
  <2>1. /\ pc' = [pc EXCEPT ![c] = "slot"] /\ arg' = arg
        /\ Write(c, UserKey(u), [email |-> arg[c].email, pointer |-> FALSE])
        /\ UNCHANGED <<deployment, faults, history>>
    BY <1>2, <1>4, <1>5 DEF UpsertUser, Goto
  <2> QED BY <1>1, <1>3, <2>1, FitsAny, TypedWrite
<1>6. CASE UpsertWallet(c)
  <2>1. /\ pc' = [pc EXCEPT ![c] = "select"] /\ arg' = arg /\ Write(c, SlotKey(u), "created")
        /\ UNCHANGED <<deployment, faults, history>>
    BY <1>2, <1>4, <1>6 DEF UpsertWallet, Goto
  <2> QED BY <1>1, <1>3, <2>1, FitsAny, TypedWrite
<1>7. CASE SelectHolder(c)
  <2>1. UNCHANGED <<deployment, faults, history>> /\ dialect' = dialect /\ Histories'
    BY <1>7, HistoriesStay DEF SelectHolder, Typed, deployment
  <2>2. CASE Rollback(c)
    BY <1>1, <2>1, <2>2, TypedEnd
  <2>3. ASSUME NEW l \in {"insert", "commit"}, Goto(c, l), UNCHANGED <<rows, conn, arg>>
        PROVE  Typed'
    <3>1. Moves(c, l, arg[c])
      BY <2>3 DEF Goto, Moves
    <3> QED BY <1>1, <2>1, <2>3, <3>1, TypedRead
  <2> QED BY <1>7, <2>2, <2>3 DEF SelectHolder
<1>8. CASE InsertEmail(c)
  <2>1. UNCHANGED <<deployment, faults, history>> /\ dialect' = dialect /\ Histories'
    BY <1>8, HistoriesStay DEF InsertEmail, Typed, deployment
  <2>2. CASE Rollback(c)
    BY <1>1, <2>1, <2>2, TypedEnd
  <2>3. CASE Write(c, EmailRow(e), u) /\ Goto(c, "commit") /\ arg' = arg
    BY <1>1, <1>3, <2>1, <2>3, FitsAny, TypedWrite DEF Goto
  <2> QED BY <1>2, <1>8, <2>2, <2>3 DEF InsertEmail
<1>9. CASE CommitUser(c)
  <2>1. Commit(c) /\ UNCHANGED <<deployment, faults, issued, wins, told, revoked, torn>>
    BY <1>9 DEF CommitUser, Commit
  <2>2. Histories' /\ dialect' = dialect
    BY <2>1 DEF Typed, Histories, deployment
  <2> QED BY <1>1, <2>1, <2>2, TypedEnd
<1> QED BY <1>5, <1>6, <1>7, <1>8, <1>9

LEMMA TypedGetUser ==
  ASSUME Inv, Typed, NEW c \in Caller, SelectUser(c) \/ SelectWallets(c)
  PROVE  Typed'
<1>1. ~InTransaction(c) /\ UNCHANGED <<dialect, rows, conn>>
  BY DEF SelectUser, SelectWallets, InTransaction, deployment
<1>2. Moves(c, "idle", << >>) \/ Moves(c, "wallets", arg[c])
  BY DEF SelectUser, SelectWallets, Return, Call, Goto, Moves
<1>3. Histories'
  <2>1. UNCHANGED <<booted, dialect, faults, wins, told, revoked>>
    BY DEF SelectUser, SelectWallets, deployment, history
  <2>2. torn' \in BOOLEAN
    BY DEF SelectUser, SelectWallets, history, Typed, Histories
  <2> QED BY <2>1, <2>2 DEF Typed, Histories
<1> QED BY <1>1, <1>2, <1>3, TypedRead

LEMMA TypedOther ==
  ASSUME Inv, Typed, IsFiniteSet(Caller), NEW c \in Caller,
         SelectForUpdate(c) \/ DeleteTaken(c) \/ CommitTaken(c)
         \/ UpsertHit(c) \/ ReadBack(c) \/ CommitHit(c)
  PROVE  Typed'
<1>1. InTransaction(c)
  BY DEF SelectForUpdate, DeleteTaken, CommitTaken, UpsertHit, ReadBack, CommitHit,
         InTransaction
<1>2. ASSUME pc[c] \in {"lock", "delete"}
      PROVE  /\ arg[c].challenge \in Challenge /\ ChallengeRow(arg[c].challenge) \in Key
             /\ Fit(ChallengeRow(arg[c].challenge), "live")
             /\ Fit(ChallengeRow(arg[c].challenge), Absent)
  <2>1. arg[c].challenge \in Challenge
    BY <1>2 DEF Typed, Takes, Taking
  <2> QED BY <2>1, FitsAny DEF Key
<1>3. RateRow \in Key
  BY DEF Key
<1>4. CASE SelectForUpdate(c)
  <2>1. UNCHANGED <<deployment, faults, history>> /\ pc[c] = "lock" /\ Histories'
    BY <1>4, HistoriesStay DEF SelectForUpdate, Typed
  <2>2. CASE Commit(c)
    BY <1>1, <2>1, <2>2, TypedEnd DEF deployment
  <2>3. CASE Write(c, ChallengeRow(arg[c].challenge), "live") /\ Goto(c, "delete") /\ arg' = arg
    BY <1>1, <1>2, <2>1, <2>3, TypedWrite DEF Goto
  <2> QED BY <1>4, <2>2, <2>3 DEF SelectForUpdate
<1>5. CASE DeleteTaken(c)
  BY <1>1, <1>2, <1>5, TypedWrite DEF DeleteTaken, Goto
<1>6. CASE CommitTaken(c)
  <2>1. Commit(c) /\ UNCHANGED <<deployment, faults, told, revoked, torn>>
    BY <1>6 DEF CommitTaken, Commit
  <2>2. wins' \in [Challenge -> 0 .. 2]
    BY <1>6, MoreFits DEF CommitTaken, Typed, Histories
  <2>3. Histories' /\ dialect' = dialect
    BY <2>1, <2>2 DEF Typed, Histories, deployment
  <2> QED BY <1>1, <2>1, <2>3, TypedEnd
<1>7. CASE UpsertHit(c)
  BY <1>1, <1>3, <1>7, FitsAny, TypedWrite DEF UpsertHit, Goto
<1>8. CASE ReadBack(c)
  <2>1. PICK a : a = [op |-> "hit", count |-> Seen(c, RateRow)]
    OBVIOUS
  <2>2. Moves(c, "commit", a) /\ UNCHANGED <<deployment, rows, conn, faults, history>>
    BY <1>8, <2>1 DEF ReadBack, Call, Goto, Moves
  <2> QED BY <1>1, <2>2, TypedRead, HistoriesStay DEF Typed, deployment
<1>9. CASE CommitHit(c)
  <2>1. Commit(c) /\ UNCHANGED <<deployment, faults, wins, revoked, torn>>
    BY <1>9 DEF CommitHit, Commit
  <2>2. told' \in [1 .. MaxIssued[dialect] -> 0 .. 2]
    BY <1>9, MoreFits DEF CommitHit, Typed, Histories
  <2>3. Histories' /\ dialect' = dialect
    BY <2>1, <2>2 DEF Typed, Histories, deployment
  <2> QED BY <1>1, <2>1, <2>3, TypedEnd
<1> QED BY <1>4, <1>5, <1>6, <1>7, <1>8, <1>9

LEMMA TypedArrive ==
  ASSUME Inv, Typed, NEW c \in Caller, Arrive(c)
  PROVE  Typed'
<1>1. ASSUME NEW a, pc[c] = "idle", Transaction(c, a), a.op = "take" => a.challenge \in Challenge,
             UNCHANGED <<wins, told, claimed, revoked, torn>>
      PROVE  Typed'
  <2>1. Connections'
    BY <1>1, ConnectionsQueued DEF Typed
  <2>2. Tables'
    BY <1>1, TablesStay DEF Transaction, Typed
  <2>3. Takes'
    BY <1>1, TakesMove DEF Transaction, Call, Goto, Moves, Typed
  <2>4. Histories'
    BY <1>1 DEF Transaction, deployment, Typed, Histories
  <2> QED BY <2>1, <2>2, <2>3, <2>4 DEF Typed
<1>2. ASSUME NEW u \in User, NEW e \in Email, putUser(c, u, e) PROVE Typed'
  <2>1. PICK a : a = [op |-> "putUser", user |-> u, email |-> e]
    OBVIOUS
  <2>2. a.op # "take"
    BY <2>1
  <2> QED BY <1>1, <1>2, <2>1, <2>2 DEF putUser, history
<1>3. ASSUME NEW u \in User, getUser(c, u) PROVE Typed'
  <2>1. PICK a : a = [op |-> "getUser", user |-> u]
    OBVIOUS
  <2>2. Moves(c, "row", a) /\ ~InTransaction(c) /\ UNCHANGED <<deployment, rows, conn, faults, history>>
    BY <1>3, <2>1 DEF getUser, Call, Goto, Moves, InTransaction
  <2> QED BY <2>2, TypedRead, HistoriesStay DEF Typed, deployment
<1>4. ASSUME NEW x \in Challenge, takeChallenge(c, x) PROVE Typed'
  <2>1. PICK a : a = [op |-> "take", challenge |-> x]
    OBVIOUS
  <2>2. a.challenge \in Challenge
    BY <2>1
  <2> QED BY <1>1, <1>4, <2>1, <2>2 DEF takeChallenge, history
<1>5. ASSUME hitRateLimit(c) PROVE Typed'
  <2>1. PICK a : a = [op |-> "hit"]
    OBVIOUS
  <2>2. a.op # "take"
    BY <2>1
  <2> QED BY <1>1, <1>5, <2>1, <2>2 DEF hitRateLimit
<1> QED BY <1>2, <1>3, <1>4, <1>5 DEF Arrive

LEMMA TypedSingle ==
  ASSUME Inv, flaws = {}, Typed, Single
  PROVE  Typed'
<1>1. ASSUME NEW k \in Key, NEW v, Fit(k, v), Bare(k, v), UNCHANGED <<dialect, conn, pc, arg>>, Histories'
      PROVE  Typed'
  <2>1. Connections'
    BY <1>1, ConnectionsStay DEF conn, InTransaction, Typed
  <2>2. Tables'
    BY <1>1, TablesBare DEF Typed
  <2> QED BY <1>1, <2>1, <2>2, TakesStay DEF Typed
<1>2. ASSUME NEW u \in User, putWalletSlot(u) PROVE Typed'
  <2>1. SlotRow(u) = SlotKey(u) /\ Fitted("imported") = "imported" /\ SlotKey(u) \in Key
    BY Clean, Keys
  <2>2. Histories'
    BY <1>2, HistoriesStay DEF putWalletSlot, Typed
  <2> QED BY <1>1, <1>2, <2>1, <2>2, FitsAny DEF putWalletSlot, deployment
<1>3. ASSUME NEW u \in User, setSessionPointer(u) PROVE Typed'
  <2>1. UserRow(u) = UserKey(u) /\ UserKey(u) \in Key
    BY Clean, Keys
  <2>2. Histories'
    BY <1>3, HistoriesStay DEF setSessionPointer, Typed
  <2> QED BY <1>1, <1>3, <2>1, <2>2, FitsAny DEF setSessionPointer, deployment
<1>4. ASSUME NEW x \in Challenge, putChallenge(x) \/ takeReturning(x) PROVE Typed'
  <2>1. ChallengeRow(x) \in Key
    BY DEF Key
  <2>2. Histories'
    <3>1. UNCHANGED <<booted, dialect, faults, told, revoked, torn>>
      BY <1>4 DEF putChallenge, takeReturning, deployment
    <3>2. wins' \in [Challenge -> 0 .. 2]
      BY <1>4, MoreFits DEF putChallenge, takeReturning, Typed, Histories
    <3> QED BY <3>1, <3>2 DEF Typed, Histories
  <2> QED BY <1>1, <1>4, <2>1, <2>2, FitsAny DEF putChallenge, takeReturning, deployment
<1>5. ASSUME NEW t \in Token, putSession(t) \/ deleteSession(t) PROVE Typed'
  <2>1. SessionRow(t) \in Key
    BY DEF Key
  <2>2. Histories'
    BY <1>5 DEF putSession, deleteSession, deployment, Typed, Histories
  <2> QED BY <1>1, <1>5, <2>1, <2>2, FitsAny DEF putSession, deleteSession, deployment
<1>6. ASSUME NEW k \in Key, k[1] \in {"challenge", "session"}, sweepExpired(k) PROVE Typed'
  <2>1. Histories'
    BY <1>6, HistoriesStay DEF sweepExpired, Typed
  <2> QED BY <1>1, <1>6, <2>1, FitsAny DEF sweepExpired, deployment
<1>7. ASSUME NEW k \in Key, k[1] \in {"challenge", "session"}, Expire(k) PROVE Typed'
  <2>1. UNCHANGED <<deployment, open, queue, draft, free, pc, arg, faults, history>>
    BY <1>7 DEF Expire
  <2>2. Connections'
    BY <2>1, ConnectionsStay DEF deployment, InTransaction, Typed
  <2> QED BY <1>7, <2>1, <2>2, TablesExpire, TakesStay, HistoriesStay DEF Typed
<1>8. CASE hitReturning
  <2>1. RateRow \in Key
    BY DEF Key
  <2>2. Histories'
    <3>1. UNCHANGED <<booted, dialect, faults, wins, revoked, torn>>
      BY <1>8 DEF hitReturning, deployment
    <3>2. told' \in [1 .. MaxIssued[dialect] -> 0 .. 2]
      BY <1>8, MoreFits DEF hitReturning, Typed, Histories
    <3> QED BY <3>1, <3>2 DEF Typed, Histories
  <2> QED BY <1>1, <1>8, <2>1, <2>2, FitsAny DEF hitReturning, deployment
<1> QED BY <1>2, <1>3, <1>4, <1>5, <1>6, <1>7, <1>8 DEF Single

LEMMA TypedFail ==
  ASSUME Inv, Typed, IsFiniteSet(Caller), NEW c \in Caller, Fail(c)
  PROVE  Typed'
<1>1. Histories' /\ dialect' = dialect
  BY HistoriesFault DEF Fail, deployment, Typed
<1>2. CASE InTransaction(c) /\ Rollback(c)
  BY <1>1, <1>2, TypedEnd
<1>3. CASE /\ pc[c] = "begin" /\ (~Pooled => Head(queue) = c)
           /\ Return(c)
           /\ queue' = IF Pooled THEN queue ELSE Tail(queue)
           /\ UNCHANGED <<rows, open, undo, draft, free>>
  <2>1. Pooled \/ open = Absent
    <3>1. ~Pooled /\ open # Absent => open = c /\ Putting(open)
      BY <1>3 DEF Typed, Connections, Inv, Core, LineFits
    <3> QED BY <1>3, <3>1 DEF Putting
  <2>2. Connections'
    BY <1>1, <1>3, <2>1, ConnectionsRefused DEF Typed
  <2>3. Takes'
    BY <1>3, TakesMove DEF Return, Call, Goto, Moves, Typed
  <2> QED BY <1>1, <1>3, <2>2, <2>3, TablesStay DEF Typed
<1>4. CASE pc[c] \in {"row", "wallets"} /\ Return(c) /\ UNCHANGED <<rows, conn>>
  <2>1. ~InTransaction(c) /\ Moves(c, "idle", << >>)
    BY <1>4 DEF InTransaction, Return, Call, Goto, Moves
  <2> QED BY <1>1, <1>4, <2>1, TypedRead
<1> QED BY <1>2, <1>3, <1>4 DEF Fail

LEMMA TypedCrash ==
  ASSUME Typed, Crash
  PROVE  Typed'
<1>1. Histories'
  BY HistoriesFault DEF Crash, Typed
<1>2. Takes'
  BY DEF Crash, Takes, Taking
<1> QED BY <1>1, <1>2, ConnectionsCrash, TablesCrash DEF Typed

LEMMA TypedNext ==
  ASSUME Inv, Typed, IsFiniteSet(Caller), [Next]_vars
  PROVE  Typed'
<1>1. CASE createSqlAuthStore \/ \E f \in Flaw : Repair(f)
  <2>1. UNCHANGED <<dialect, rows, conn, pc, arg, faults, history>> /\ booted' \in BOOLEAN
    BY <1>1 DEF createSqlAuthStore, Repair, Typed, Histories
  <2>2. Histories'
    BY <2>1 DEF history, Typed, Histories
  <2>3. Connections'
    BY <2>1, ConnectionsStay DEF conn, InTransaction, Typed
  <2> QED BY <2>1, <2>2, <2>3, TablesStay, TakesStay DEF conn, Typed
<1>2. CASE booted /\ (Crash \/ Single \/ \E c \in Caller : Arrive(c) \/ Step(c) \/ Fail(c))
  <2>1. flaws = {}
    BY <1>2 DEF Inv, Boots
  <2>2. ASSUME NEW c \in Caller, Step(c) PROVE Typed'
    BY <2>1, <2>2, TypedBegin, TypedPutUser, TypedGetUser, TypedOther DEF Step
  <2> QED BY <1>2, <2>1, <2>2, TypedCrash, TypedSingle, TypedArrive, TypedFail
<1>3. CASE UNCHANGED vars
  <2>1. Connections'
    BY <1>3, ConnectionsStay DEF vars, deployment, conn, InTransaction, Typed
  <2> QED BY <1>3, <2>1, TablesStay, TakesStay, HistoriesStay DEF vars, conn, Typed
<1> QED BY <1>1, <1>2, <1>3 DEF Next

LEMMA InitTyped ==
  ASSUME Init PROVE Typed
<1>1. Connections
  <2>1. Busy = {}
    BY DEF Init, Busy, InTransaction
  <2>2. free \in Nat /\ free + Cardinality(Busy) = PoolSize
    BY <2>1, FS_EmptySet, StoreAssumption DEF Init
  <2> QED BY <2>2 DEF Init, Connections
<1>2. Tables
  BY Empty DEF Init, Tables, Fit
<1>3. Takes
  BY DEF Init, Takes, Taking
<1>4. Histories
  <2>1. faults \in 0 .. MaxFaults
    BY StoreAssumption DEF Init
  <2>2. wins \in [Challenge -> 0 .. 2] /\ told \in [1 .. MaxIssued[dialect] -> 0 .. 2]
    BY DEF Init
  <2> QED BY <2>1, <2>2 DEF Init, Histories
<1> QED BY <1>1, <1>2, <1>3, <1>4 DEF Typed

LEMMA TypesFollow ==
  ASSUME Inv, Typed, IsFiniteSet(Caller)
  PROVE  TypeOK
<1>1. /\ dialect \in Dialects /\ flaws \subseteq Flaw /\ booted \in BOOLEAN
      /\ DOMAIN rows = Key /\ queue \in Seq(Caller)
      /\ pc \in [Caller -> Statements \cup {"idle"}]
  <2>1. FlawsOf[dialect] \subseteq Flaw
    BY DEF Inv, Core, Shape, FlawsOf, Flaw
  <2> QED BY <2>1 DEF Inv, Core, Shape, Boots, Typed, Histories, Connections
<1>2. ASSUME NEW u \in User
      PROVE  /\ rows[UserRow(u)] \in {Absent} \cup Record
             /\ rows[SlotRow(u)] \in {Absent, "created", "imported", "truncated"}
  <2>1. PICK v \in User : UserRow(u) = UserKey(v) /\ SlotRow(u) = SlotKey(v)
    BY DEF UserRow, SlotRow, UserKey, SlotKey, Stored
  <2>2. SlotKey(v) \in Key
    BY Keys
  <2> QED BY <2>1, <2>2 DEF Inv, Core, Shape, Typed, Tables, Fit
<1>3. ASSUME NEW x \in Challenge PROVE rows[ChallengeRow(x)] \in {Absent, "live", "expired"}
  <2>1. ChallengeRow(x) \in Key
    BY DEF Key
  <2> QED BY <2>1 DEF Typed, Tables, Fit
<1>4. \A e \in Email : rows[EmailRow(e)] \in User \cup {Absent}
  BY DEF Inv, Core, Shape
<1>5. open \in Caller \cup {Absent} /\ \A c \in Caller : DOMAIN draft[c] \subseteq Key
  BY DEF Inv, Core, PoolFits, LineFits, Typed, Tables
<1>6. free \in 0 .. PoolSize
  <2>1. IsFiniteSet(Busy)
    BY FS_Subset DEF Busy
  <2>2. Cardinality(Busy) \in Nat
    BY <2>1, FS_CardinalityType
  <2> QED BY <2>2, StoreAssumption DEF Typed, Connections
<1>7. /\ faults \in 0 .. MaxFaults
      /\ wins \in [Challenge -> 0 .. 2] /\ told \in [1 .. MaxIssued[dialect] -> 0 .. 2]
      /\ claimed \in [Email -> User \cup {Absent}] /\ revoked \subseteq Token
      /\ torn \in BOOLEAN
  BY DEF Inv, Core, Shape, Typed, Histories
<1> QED BY <1>1, <1>2, <1>3, <1>4, <1>5, <1>6, <1>7 DEF TypeOK

\* Every variable of the store keeps its type: no connection is given back twice
\* or lost (Release), and the chain of SQLite never moves past its end.
THEOREM StoreTyping == ASSUME IsFiniteSet(Caller) PROVE Spec => []TypeOK
<1>1. Init => Inv /\ Typed
  BY InitInv, InitTyped
<1>2. Inv /\ Typed /\ [Next]_vars => Inv' /\ Typed'
  BY NextInv, TypedNext
<1>3. Inv /\ Typed => TypeOK
  BY TypesFollow
<1> QED BY <1>1, <1>2, <1>3, PTL DEF Spec

\* Every connection of a pool is free or in the transaction of one call, whatever
\* failed before (the finally of pgDriver and mysqlDriver, Release).
THEOREM ConnectionsAccounted == ASSUME IsFiniteSet(Caller) PROVE Spec => []Connections
<1>1. Init => Inv /\ Typed
  BY InitInv, InitTyped
<1>2. Inv /\ Typed /\ [Next]_vars => Inv' /\ Typed'
  BY NextInv, TypedNext
<1>3. Inv /\ Typed => Connections
  BY DEF Typed
<1> QED BY <1>1, <1>2, <1>3, PTL DEF Spec

-----------------------------------------------------------------------------
(* Pools: what a transaction has locked is its own                          *)

Consuming(c) == pc[c] = "delete" \/ (pc[c] = "commit" /\ arg[c].op = "take")
Counting(c) == pc[c] = "readback" \/ (pc[c] = "commit" /\ arg[c].op = "hit")

\* The challenge that c locked can still be taken, and the count that c wrote is
\* the next one.
Own(c) ==
  /\ pc[c] \in {"lock", "delete"} => arg[c].op = "take"
  /\ Consuming(c) => ChallengeRow(arg[c].challenge) \in DOMAIN draft[c]
  /\ \A x \in Challenge : ChallengeRow(x) \in DOMAIN draft[c] =>
       /\ Consuming(c) /\ arg[c].challenge = x /\ rows[ChallengeRow(x)] = "live"
       /\ pc[c] = "commit" => draft[c][ChallengeRow(x)] = Absent
  /\ \A t \in Token : SessionRow(t) \notin DOMAIN draft[c]
  /\ Counting(c) => RateRow \in DOMAIN draft[c]
  /\ RateRow \in DOMAIN draft[c] => Counting(c) /\ draft[c][RateRow] = Counted(rows[RateRow])
  /\ pc[c] = "commit" /\ arg[c].op = "hit" => arg[c].count = draft[c][RateRow]

Locks == /\ \A c \in Caller : Own(c)
         /\ \A c, d \in Caller : \A k \in DOMAIN draft[c] : k \in DOMAIN draft[d] => c = d

\* What was told agrees with the rows.
Issued ==
  /\ issued \in [challenge : SUBSET Challenge, token : SUBSET Token, hits : Int]
  /\ \A x \in Challenge : /\ rows[ChallengeRow(x)] = "live" => wins[x] = 0 /\ x \in issued.challenge
                          /\ wins[x] # 0 => x \in issued.challenge
  /\ revoked \subseteq issued.token
  /\ rows[RateRow] \in {Absent} \cup Nat
  /\ \A n \in DOMAIN told : told[n] # 0 => rows[RateRow] # Absent /\ n <= rows[RateRow]

Shared == Pooled => Locks /\ Issued

MoreKeys ==
  /\ \A x \in Challenge : ChallengeRow(x) \in Key
  /\ \A t \in Token : SessionRow(t) \in Key
  /\ RateRow \in Key
  /\ \A x, y \in Challenge : ChallengeRow(x) = ChallengeRow(y) => x = y
  /\ \A x \in Challenge, t \in Token : ChallengeRow(x) # SessionRow(t)
  /\ \A x : ChallengeRow(x) # RateRow /\ SessionRow(x) # RateRow

LEMMA OtherKeys == MoreKeys
  BY DEF MoreKeys, Key, ChallengeRow, SessionRow, RateRow

LEMMA OwnOthers ==
  ASSUME NEW d \in Caller, Own(d), DOMAIN draft'[d] \subseteq Key,
         pc'[d] = pc[d], arg'[d] = arg[d], draft'[d] = draft[d],
         \A k \in DOMAIN draft[d] : rows'[k] = rows[k]
  PROVE  Own(d)'
  BY DEF Own, Consuming, Counting

\* A step inside the transaction of c, or outside every transaction.
LEMMA LocksMove ==
  ASSUME Inv, Tables, Locks, NEW c \in Caller, rows' = rows,
         \A d \in Caller \ {c} : pc'[d] = pc[d] /\ arg'[d] = arg[d] /\ draft'[d] = draft[d],
         Own(c)', \A k \in DOMAIN draft'[c] : k \in DOMAIN draft[c] \/ Unlocked(c, k)
  PROVE  Locks'
<1>1. ASSUME NEW d \in Caller \ {c} PROVE Own(d)'
  BY OwnOthers DEF Locks, Tables
<1>2. ASSUME NEW d \in Caller, NEW e \in Caller, NEW k \in DOMAIN draft'[d], k \in DOMAIN draft'[e]
      PROVE  d = e
  BY <1>2 DEF Locks, Unlocked
<1> QED BY <1>1, <1>2 DEF Locks

\* The end of the transaction of c.
LEMMA LocksEnd ==
  ASSUME Inv, Tables, Locks, NEW c \in Caller, Release(c), Return(c),
         \A k \in Key : rows'[k] = rows[k] \/ k \in DOMAIN draft[c]
  PROVE  Locks'
<1>1. /\ pc'[c] = "idle" /\ DOMAIN draft'[c] = {}
      /\ \A d \in Caller \ {c} : pc'[d] = pc[d] /\ arg'[d] = arg[d] /\ draft'[d] = draft[d]
  BY Empty DEF Release, Return, Call, Goto, Inv, Core, Shape
<1>2. ASSUME NEW d \in Caller \ {c} PROVE Own(d)'
  <2>1. \A k \in DOMAIN draft[d] : k \in Key /\ k \notin DOMAIN draft[c]
    BY DEF Locks, Tables
  <2> QED BY <1>1, <2>1, OwnOthers DEF Locks
<1>3. Own(c)'
  BY <1>1 DEF Own, Consuming, Counting
<1>4. ASSUME NEW d \in Caller, NEW e \in Caller, NEW k \in DOMAIN draft'[d], k \in DOMAIN draft'[e]
      PROVE  d = e
  BY <1>1, <1>4 DEF Locks
<1> QED BY <1>2, <1>3, <1>4 DEF Locks

\* A statement outside every transaction waits for the row.
LEMMA LocksBare ==
  ASSUME Locks, Tables, NEW k, \A d \in Caller : k \notin DOMAIN draft[d],
         \A x \in Key \ {k} : rows'[x] = rows[x], UNCHANGED <<draft, pc, arg>>
  PROVE  Locks'
<1>1. ASSUME NEW d \in Caller PROVE Own(d)'
  BY OwnOthers DEF Locks, Tables
<1> QED BY <1>1 DEF Locks

LEMMA IssuedStays ==
  ASSUME Issued, UNCHANGED <<rows, issued, wins, told, revoked>> PROVE Issued'
  BY DEF Issued

-----------------------------------------------------------------------------
(* The one-step operations                                                  *)

UsersKept == /\ \A u \in User : rows'[UserKey(u)] = rows[UserKey(u)] /\ rows'[SlotKey(u)] = rows[SlotKey(u)]
             /\ \A e \in Email : rows'[EmailRow(e)] = rows[EmailRow(e)]
ChallengesKept == /\ \A x \in Challenge : rows'[ChallengeRow(x)] = "live" <=> rows[ChallengeRow(x)] = "live"
                  /\ wins' = wins
SessionsKept == /\ \A t \in Token : rows'[SessionRow(t)] = "live" <=> rows[SessionRow(t)] = "live"
                /\ revoked' = revoked
HitsKept == rows'[RateRow] = rows[RateRow] /\ told' = told

\* What the contract sees, by the keys as they are given.
Shown(u) == IF rows[SlotKey(u)] = Absent THEN "none" ELSE rows[SlotKey(u)]
PointedIn == {u \in User : rows[UserKey(u)] # Absent /\ rows[UserKey(u)].pointer}

View == \A u \in User : /\ Address(u) = AddressIn(rows, u) /\ Slot(u) = Shown(u)
                        /\ rows[UserRow(u)] = rows[UserKey(u)]

LEMMA ViewIs == Inv /\ Pooled => View
<1> SUFFICES ASSUME Inv, Pooled, NEW u \in User
             PROVE  Address(u) = AddressIn(rows, u) /\ Slot(u) = Shown(u)
                    /\ rows[UserRow(u)] = rows[UserKey(u)]
  BY DEF View
<1>1. open = Absent
  BY DEF Inv, Core, PoolFits
<1>2. CASE booted
  BY <1>1, <1>2, Clean DEF Inv, Boots, Address, AddressIn, Durable, Slot, Shown
<1>3. CASE ~booted
  <2>1. Stored(u) \in User
    BY DEF Stored
  <2>2. UserRow(u) \in Key /\ UserKey(u) \in Key /\ SlotRow(u) \in Key /\ SlotKey(u) \in Key
    BY <2>1 DEF UserRow, UserKey, SlotRow, SlotKey, Key
  <2> QED BY <1>1, <1>3, <2>2 DEF Inv, Boots, Address, AddressIn, Durable, Slot, Shown
<1> QED BY <1>2, <1>3

LEMMA ViewKept ==
  ASSUME View, View', Pooled, dialect' = dialect
  PROVE  /\ UsersKept => UNCHANGED Contract!userVars
         /\ ChallengesKept => UNCHANGED Contract!challengeVars
         /\ SessionsKept => UNCHANGED Contract!sessionVars
         /\ HitsKept => UNCHANGED Contract!hitVars
<1>1. Pooled'
  BY DEF Pooled
<1>2. ASSUME UsersKept PROVE UNCHANGED Contract!userVars
  <2>1. \A u \in User : /\ Address(u)' = Address(u) /\ Slot(u)' = Slot(u)
                        /\ rows[UserRow(u)]' = rows[UserRow(u)]
    BY <1>1, <1>2 DEF View, UsersKept, AddressIn, Shown
  <2> QED BY <1>1, <1>2, <2>1 DEF UsersKept, OnPool, Contract!userVars, Contract!dirVars
<1>3. ASSUME ChallengesKept PROVE UNCHANGED Contract!challengeVars
  BY <1>1, <1>3 DEF ChallengesKept, OnPool, Contract!challengeVars
<1>4. ASSUME SessionsKept PROVE UNCHANGED Contract!sessionVars
  BY <1>1, <1>4 DEF SessionsKept, OnPool, Contract!sessionVars
<1>5. ASSUME HitsKept PROVE UNCHANGED Contract!hitVars
  BY <1>1, <1>5 DEF HitsKept, OnPool, Contract!hitVars
<1> QED BY <1>2, <1>3, <1>4, <1>5

Kept == UsersKept /\ ChallengesKept /\ SessionsKept /\ HitsKept
Stepped == Contract!StoreNext \/ Kept

\* No operation of the contract yet: nothing committed.
LEMMA NothingYet ==
  ASSUME rows' = rows, UNCHANGED <<wins, told, revoked>> PROVE Kept
  BY DEF Kept, UsersKept, ChallengesKept, SessionsKept, HitsKept

Ready == Inv /\ Typed /\ Locks /\ Issued /\ Pooled /\ flaws = {}

LEMMA PoolPutting ==
  ASSUME Ready, NEW c \in Caller, Putting(c), NEW l \in {"slot", "select", "insert", "commit"},
         GoesOn(c, l), rows' = rows, UNCHANGED <<issued, wins, told, revoked>>,
         \A d \in Caller \ {c} : draft'[d] = draft[d],
         \A k \in DOMAIN draft'[c] : \/ k \in DOMAIN draft[c]
                                     \/ ~Aside(k) /\ Unlocked(c, k)
  PROVE  Locks' /\ Issued' /\ Kept
<1>1. /\ pc'[c] = l /\ \A d \in Caller \ {c} : pc'[d] = pc[d]
      /\ arg' = arg /\ arg[c] \in PutArg /\ Putting(c)'
  BY GoesOnFacts DEF Ready, Inv, GoesOn
<1>2. arg[c].op = "putUser"
  BY <1>1 DEF PutArg
<1>3. ~Consuming(c) /\ ~Counting(c) /\ ~Consuming(c)' /\ ~Counting(c)'
  BY <1>1, <1>2 DEF Consuming, Counting, Putting
<1>4. Own(c)
  BY DEF Ready, Locks
<1>5. \A k \in DOMAIN draft'[c] : Aside(k) => k \in DOMAIN draft[c]
  OBVIOUS
<1>6. Own(c)'
  BY <1>1, <1>2, <1>3, <1>4, <1>5, AsideKeys DEF Own
<1>7. Locks'
  BY <1>1, <1>6, LocksMove DEF Ready, Typed
<1> QED BY <1>7, IssuedStays, NothingYet DEF Ready

LEMMA PoolUserStep ==
  ASSUME Ready, NEW c \in Caller, UpsertUser(c) \/ UpsertWallet(c)
  PROVE  Locks' /\ Issued' /\ Kept
<1>1. Putting(c) /\ arg[c] \in PutArg
  BY DEF UpsertUser, UpsertWallet, Putting, Ready, Inv, Core, ArgFits
<1>2. PICK u \in User : arg[c].user = u
  BY <1>1 DEF PutArg
<1>3. ~Aside(UserKey(u)) /\ ~Aside(SlotKey(u)) /\ UserRow(u) = UserKey(u) /\ SlotRow(u) = SlotKey(u)
  BY Clean DEF Aside, Ready
<1>4. UNCHANGED <<issued, wins, told, revoked>>
  BY DEF UpsertUser, UpsertWallet, history
<1>5. ASSUME NEW k, ~Aside(k), NEW v, Write(c, k, v), NEW l \in {"slot", "select"}, GoesOn(c, l)
      PROVE  Locks' /\ Issued' /\ Kept
  <2>1. /\ rows' = rows /\ \A d \in Caller \ {c} : draft'[d] = draft[d]
        /\ \A x \in DOMAIN draft'[c] : x = k \/ x \in DOMAIN draft[c]
        /\ Unlocked(c, k)
    BY <1>5, PoolWrite DEF Ready, Inv, Write
  <2> QED BY <1>1, <1>4, <1>5, <2>1, PoolPutting
<1>6. CASE UpsertUser(c)
  BY <1>2, <1>3, <1>5, <1>6 DEF UpsertUser, GoesOn, Goto
<1>7. CASE UpsertWallet(c)
  BY <1>2, <1>3, <1>5, <1>7 DEF UpsertWallet, GoesOn, Goto
<1> QED BY <1>6, <1>7

\* A transaction rolls back: nothing was done.
LEMMA PoolRollback ==
  ASSUME Ready, NEW c \in Caller, Rollback(c), UNCHANGED <<issued, wins, told, revoked>>
  PROVE  Locks' /\ Issued' /\ Kept
<1>1. rows' = rows /\ Release(c) /\ Return(c)
  BY DEF Rollback, Ready
<1>2. Locks'
  BY <1>1, LocksEnd DEF Ready, Typed
<1> QED BY <1>1, <1>2, IssuedStays, NothingYet DEF Ready

LEMMA PoolClaimStep ==
  ASSUME Ready, NEW c \in Caller, SelectHolder(c) \/ InsertEmail(c)
  PROVE  Locks' /\ Issued' /\ Kept
<1>1. Putting(c) /\ arg[c] \in PutArg /\ UNCHANGED <<issued, wins, told, revoked>>
  BY DEF SelectHolder, InsertEmail, Putting, history, Ready, Inv, Core, ArgFits
<1>2. PICK u \in User, e \in Email : arg[c].user = u /\ arg[c].email = e
  BY <1>1 DEF PutArg
<1>3. CASE Rollback(c)
  BY <1>1, <1>3, PoolRollback
<1>4. ASSUME NEW l \in {"insert", "commit"}, GoesOn(c, l), UNCHANGED <<rows, conn>>
      PROVE  Locks' /\ Issued' /\ Kept
  BY <1>1, <1>4, PoolPutting DEF conn
<1>5. CASE GoesOn(c, "commit") /\ Write(c, EmailRow(e), u)
  <2>1. /\ rows' = rows /\ \A d \in Caller \ {c} : draft'[d] = draft[d]
        /\ \A x \in DOMAIN draft'[c] : x = EmailRow(e) \/ x \in DOMAIN draft[c]
        /\ Unlocked(c, EmailRow(e))
    BY <1>5, PoolWrite DEF Ready, Inv, Write
  <2>2. ~Aside(EmailRow(e))
    BY DEF Aside
  <2> QED BY <1>1, <1>5, <2>1, <2>2, PoolPutting
<1> QED BY <1>2, <1>3, <1>4, <1>5 DEF SelectHolder, InsertEmail, GoesOn, Goto

\* COMMIT of a putUser is the operation PutUser.
LEMMA PoolCommitUser ==
  ASSUME Ready, View, View', NEW c \in Caller, CommitUser(c)
  PROVE  Locks' /\ Issued' /\ Contract!StoreNext
<1>1. /\ pc[c] = "commit" /\ arg[c].op = "putUser" /\ Putting(c)
      /\ rows' = [k \in Key |-> Seen(c, k)] /\ Release(c) /\ Return(c)
      /\ UNCHANGED <<dialect, issued, wins, told, revoked>>
  BY DEF CommitUser, Commit, Putting, deployment
<1>2. arg[c] \in PutArg /\ DraftFits(c) /\ Own(c)
  BY <1>1 DEF Ready, Locks, Inv, Core, ArgFits, PoolFits
<1>3. PICK u \in User, e \in Email : arg[c].user = u /\ arg[c].email = e
  BY <1>2 DEF PutArg
<1>4. /\ \A k \in Key : rows'[k] = Seen(c, k)
      /\ \A k \in Key : rows'[k] = rows[k] \/ k \in DOMAIN draft[c]
  BY <1>1 DEF Seen
<1>5. Locks'
  BY <1>1, <1>4, LocksEnd DEF Ready, Typed
<1>6. ~Consuming(c) /\ ~Counting(c)
  BY <1>1 DEF Consuming, Counting
<1>7. /\ \A x \in Challenge : rows'[ChallengeRow(x)] = rows[ChallengeRow(x)]
      /\ \A t \in Token : rows'[SessionRow(t)] = rows[SessionRow(t)]
      /\ rows'[RateRow] = rows[RateRow]
  BY <1>2, <1>4, <1>6, OtherKeys DEF Own, Seen, MoreKeys
<1>8. Issued'
  BY <1>1, <1>7 DEF Ready, Issued
<1>9. ChallengesKept /\ SessionsKept /\ HitsKept
  BY <1>1, <1>7 DEF ChallengesKept, SessionsKept, HitsKept
<1>10. UNCHANGED Contract!challengeVars /\ UNCHANGED Contract!sessionVars /\ UNCHANGED Contract!hitVars
  BY <1>1, <1>9, ViewKept DEF Ready
<1>11. PICK r : r = [email |-> e, pointer |-> FALSE]
  OBVIOUS
<1>12. r.email = e /\ r.pointer = FALSE /\ r # Absent
  <2>1. [email |-> e, pointer |-> FALSE] \in Record
    BY DEF Record
  <2> QED BY <1>11, <2>1, AbsentAssumption
<1>13. /\ rows'[UserKey(u)] = r /\ rows'[SlotKey(u)] = "created"
       /\ \A v \in User \ {u} : rows'[UserKey(v)] = rows[UserKey(v)] /\ rows'[SlotKey(v)] = rows[SlotKey(v)]
  BY <1>1, <1>2, <1>3, <1>4, <1>11, Keys DEF DraftFits, Seen
<1>14. /\ rows'[EmailRow(e)] = u /\ rows[EmailRow(e)] \in {Absent, u}
       /\ \A f \in Email \ {e} : rows'[EmailRow(f)] = rows[EmailRow(f)]
  BY <1>1, <1>2, <1>3, <1>4, Keys DEF DraftFits, Seen
<1>15. Pooled /\ Pooled'
  BY <1>1 DEF Ready, Pooled
<1>16. /\ Address(u)' = e /\ \A v \in User \ {u} : Address(v)' = Address(v)
       /\ Slot(u)' = "created" /\ \A v \in User \ {u} : Slot(v)' = Slot(v)
  BY <1>12, <1>13, AbsentAssumption DEF View, AddressIn, Shown
<1>17. /\ rows[UserRow(u)]' = r
       /\ \A v \in User \ {u} : rows[UserRow(v)]' = rows[UserRow(v)]
  BY <1>13 DEF View
<1>18. Contract!Claim(u, e)
  BY <1>14, <1>15, <1>16 DEF Contract!Claim, OnPool
<1>19. Contract!PutUser(u, e)
  BY <1>10, <1>12, <1>15, <1>16, <1>17, <1>18 DEF Contract!PutUser, OnPool
<1> QED BY <1>5, <1>8, <1>19 DEF Contract!StoreNext

\* A step outside every transaction, or into one.
LEMMA PoolOutside ==
  ASSUME Ready, NEW c \in Caller, ~InTransaction(c), NEW l, NEW a, Moves(c, l, a),
         l \in {"idle", "begin", "row", "wallets", "user", "upsert"} \/ (l = "lock" /\ a.op = "take"),
         rows' = rows, draft' = draft, issued' \in [challenge : {issued.challenge}, token : {issued.token}, hits : Int],
         UNCHANGED <<wins, told, revoked>>
  PROVE  Locks' /\ Issued' /\ Kept
<1>1. /\ pc'[c] = l /\ arg'[c] = a
      /\ \A d \in Caller \ {c} : pc'[d] = pc[d] /\ arg'[d] = arg[d]
  BY MovesOnly DEF Ready, Inv, Core
<1>2. Own(c) /\ ~Consuming(c) /\ ~Counting(c) /\ ~Consuming(c)' /\ ~Counting(c)'
  BY <1>1 DEF Ready, Locks, InTransaction, Consuming, Counting
<1>3. Own(c)'
  BY <1>1, <1>2 DEF Own
<1>4. Locks'
  BY <1>1, <1>3, LocksMove DEF Ready, Typed
<1>5. Issued'
  BY DEF Ready, Issued
<1> QED BY <1>4, <1>5, NothingYet

LEMMA PoolBegin ==
  ASSUME Ready, NEW c \in Caller, Begin(c)
  PROVE  Locks' /\ Issued' /\ Kept
<1>1. /\ pc[c] = "begin" /\ pc' = [pc EXCEPT ![c] = First[arg[c].op]]
      /\ UNCHANGED <<rows, draft, arg, issued, wins, told, revoked>>
  BY DEF Begin, Goto, history
<1>2. \/ First[arg[c].op] \in {"user", "upsert"}
      \/ First[arg[c].op] = "lock" /\ arg[c].op = "take"
  <2>1. arg[c].op \in {"putUser", "take", "hit"}
    BY <1>1 DEF Ready, Inv, Core, ArgFits
  <2>2. First["putUser"] = "user" /\ First["take"] = "lock" /\ First["hit"] = "upsert"
    BY DEF First
  <2> QED BY <2>1, <2>2
<1>3. Moves(c, First[arg[c].op], arg[c]) /\ ~InTransaction(c)
  BY <1>1 DEF Moves, InTransaction
<1>4. issued' \in [challenge : {issued.challenge}, token : {issued.token}, hits : Int]
  BY <1>1 DEF Ready, Issued
<1> QED BY <1>1, <1>2, <1>3, <1>4, PoolOutside

LEMMA PoolArrive ==
  ASSUME Ready, NEW c \in Caller, Arrive(c) \/ SelectUser(c) \/ SelectWallets(c)
  PROVE  Locks' /\ Issued' /\ Kept
<1>1. ~InTransaction(c) /\ UNCHANGED <<rows, draft, wins, told, revoked>>
  BY DEF Arrive, putUser, getUser, takeChallenge, hitRateLimit, Transaction, SelectUser,
     SelectWallets, InTransaction, conn, history
<1>2. \E l \in {"idle", "begin", "row", "wallets"} : \E a : Moves(c, l, a)
  BY DEF Arrive, putUser, getUser, takeChallenge, hitRateLimit, Transaction, SelectUser,
     SelectWallets, Return, Call, Goto, Moves
<1>3. issued' \in [challenge : {issued.challenge}, token : {issued.token}, hits : Int]
  <2>1. issued \in [challenge : SUBSET Challenge, token : SUBSET Token, hits : Int]
    BY DEF Ready, Issued
  <2>2. issued' = issued \/ issued' = [issued EXCEPT !.hits = issued.hits + 1]
    BY DEF Arrive, putUser, getUser, takeChallenge, hitRateLimit, Hit, SelectUser,
       SelectWallets, history
  <2> QED BY <2>1, <2>2
<1> QED BY <1>1, <1>2, <1>3, PoolOutside

LEMMA PoolFail ==
  ASSUME Ready, NEW c \in Caller, Fail(c)
  PROVE  Locks' /\ Issued' /\ Kept
<1>1. UNCHANGED <<issued, wins, told, revoked>>
  BY DEF Fail, history
<1>2. CASE Rollback(c)
  BY <1>1, <1>2, PoolRollback
<1>3. CASE pc[c] \in {"begin", "row", "wallets"} /\ Return(c) /\ UNCHANGED <<rows, draft>>
  <2>1. ~InTransaction(c) /\ Moves(c, "idle", << >>)
    BY <1>3 DEF InTransaction, Return, Call, Goto, Moves
  <2>2. issued' \in [challenge : {issued.challenge}, token : {issued.token}, hits : Int]
    BY <1>1 DEF Ready, Issued
  <2> QED BY <1>1, <1>3, <2>1, <2>2, PoolOutside
<1> QED BY <1>2, <1>3 DEF Fail, conn

LEMMA PoolCrash ==
  ASSUME Ready, Crash
  PROVE  Locks' /\ Issued' /\ Kept
<1>1. /\ rows' = [k \in Key |-> Durable(k)] /\ draft' = [c \in Caller |-> NoRows]
      /\ pc' = [c \in Caller |-> "idle"] /\ UNCHANGED <<issued, wins, told, revoked>>
  BY DEF Crash, history
<1>2. \A k \in Key : rows'[k] = rows[k]
  BY <1>1 DEF Durable, Ready, Inv, Core, PoolFits
<1>3. Locks'
  BY <1>1, Empty DEF Locks, Own, Consuming, Counting
<1>4. /\ \A x \in Challenge : rows'[ChallengeRow(x)] = rows[ChallengeRow(x)]
      /\ \A t \in Token : rows'[SessionRow(t)] = rows[SessionRow(t)]
      /\ rows'[RateRow] = rows[RateRow]
  BY <1>2, OtherKeys DEF MoreKeys
<1>5. Issued'
  BY <1>1, <1>4 DEF Ready, Issued
<1>6. UsersKept
  BY <1>2, Keys DEF UsersKept
<1> QED BY <1>1, <1>3, <1>4, <1>5, <1>6 DEF Kept, ChallengesKept, SessionsKept, HitsKept

-----------------------------------------------------------------------------
(* takeChallenge and hitRateLimit as transactions                           *)

LEMMA PoolTaking ==
  ASSUME Ready, NEW c \in Caller, SelectForUpdate(c) \/ DeleteTaken(c)
  PROVE  Locks' /\ Issued' /\ Kept
<1>1. /\ pc[c] \in {"lock", "delete"} /\ arg[c].op = "take" /\ arg[c].challenge \in Challenge
      /\ UNCHANGED <<issued, wins, told, revoked>> /\ Own(c)
  BY DEF SelectForUpdate, DeleteTaken, Ready, Locks, Own, Typed, Takes, Taking, history
<1>2. PICK x \in Challenge : arg[c].challenge = x
  BY <1>1
<1>3. ASSUME NEW v, Write(c, ChallengeRow(x), v), NEW l \in {"delete", "commit"},
             pc' = [pc EXCEPT ![c] = l], arg' = arg, rows[ChallengeRow(x)] = "live",
             l = "commit" => v = Absent
      PROVE  Locks' /\ Issued' /\ Kept
  <2>1. pc'[c] = l /\ \A d \in Caller \ {c} : pc'[d] = pc[d]
    BY <1>3 DEF Ready, Inv, Core, Shape
  <2>2. /\ rows' = rows /\ Unlocked(c, ChallengeRow(x))
        /\ \A d \in Caller \ {c} : draft'[d] = draft[d]
        /\ draft'[c] = Put(draft[c], ChallengeRow(x), v)
    BY <1>3 DEF Write, Ready, Inv, Core, Shape
  <2>3. /\ DOMAIN draft'[c] = DOMAIN draft[c] \cup {ChallengeRow(x)}
        /\ draft'[c][ChallengeRow(x)] = v
    BY <2>2 DEF Put
  <2>4. RateRow \notin DOMAIN draft[c] /\ RateRow # ChallengeRow(x)
    BY <1>1, OtherKeys DEF Own, Counting, MoreKeys
  <2>5. \A y \in Challenge : ChallengeRow(y) \in DOMAIN draft'[c] => y = x
    BY <1>1, <1>2, <2>3, OtherKeys DEF Own, MoreKeys
  <2>6. \A t \in Token : SessionRow(t) \notin DOMAIN draft'[c]
    BY <1>1, <2>3, OtherKeys DEF Own, MoreKeys
  <2>7. Consuming(c)' /\ ~Counting(c)'
    BY <1>1, <1>3, <2>1 DEF Consuming, Counting
  <2>8. Own(c)'
    BY <1>1, <1>2, <1>3, <2>1, <2>2, <2>3, <2>4, <2>5, <2>6, <2>7 DEF Own
  <2>9. Locks'
    BY <1>3, <2>1, <2>2, <2>3, <2>8, LocksMove DEF Ready, Typed
  <2> QED BY <1>1, <2>2, <2>9, IssuedStays, NothingYet DEF Ready
<1>4. CASE DeleteTaken(c)
  <2>1. rows[ChallengeRow(x)] = "live"
    BY <1>1, <1>2, <1>4 DEF DeleteTaken, Own, Consuming
  <2> QED BY <1>2, <1>3, <1>4, <2>1 DEF DeleteTaken, Goto
<1>5. CASE SelectForUpdate(c) /\ rows[ChallengeRow(x)] = "live"
  BY <1>2, <1>3, <1>5 DEF SelectForUpdate, Goto
<1>6. CASE SelectForUpdate(c) /\ Commit(c)
  <2>1. pc[c] = "lock" /\ ~Consuming(c) /\ ~Counting(c) /\ ~Putting(c)
    BY <1>6 DEF SelectForUpdate, Consuming, Counting, Putting
  <2>2. DraftFits(c)
    BY DEF Ready, Inv, Core, PoolFits
  <2>3. rows' = [k \in Key |-> Seen(c, k)] /\ Release(c) /\ Return(c)
    BY <1>6 DEF Commit
  <2>4. \A k \in Key : rows'[k] = rows[k] \/ k \in DOMAIN draft[c]
    BY <2>3 DEF Seen
  <2>5. Locks'
    BY <2>3, <2>4, LocksEnd DEF Ready, Typed
  <2>6. UsersKept
    BY <2>1, <2>2, <2>4, Keys DEF DraftFits, UsersKept
  <2>7. /\ \A y \in Challenge : rows'[ChallengeRow(y)] = rows[ChallengeRow(y)]
        /\ \A t \in Token : rows'[SessionRow(t)] = rows[SessionRow(t)]
        /\ rows'[RateRow] = rows[RateRow]
    BY <1>1, <2>1, <2>4, OtherKeys DEF Own, MoreKeys
  <2>8. Issued'
    BY <1>1, <2>7 DEF Ready, Issued
  <2> QED BY <1>1, <2>5, <2>6, <2>7, <2>8 DEF Kept, ChallengesKept, SessionsKept, HitsKept
<1> QED BY <1>2, <1>4, <1>5, <1>6 DEF SelectForUpdate

LEMMA PoolCounting ==
  ASSUME Ready, NEW c \in Caller, UpsertHit(c) \/ ReadBack(c)
  PROVE  Locks' /\ Issued' /\ Kept
<1>1. UNCHANGED <<issued, wins, told, revoked>> /\ Own(c)
  BY DEF UpsertHit, ReadBack, history, Ready, Locks
<1>2. CASE UpsertHit(c)
  <2>1. pc[c] = "upsert" /\ pc' = [pc EXCEPT ![c] = "readback"] /\ arg' = arg
    BY <1>2 DEF UpsertHit, Goto
  <2>2. pc'[c] = "readback" /\ \A d \in Caller \ {c} : pc'[d] = pc[d]
    BY <2>1 DEF Ready, Inv, Core, Shape
  <2>3. /\ rows' = rows /\ Unlocked(c, RateRow)
        /\ \A d \in Caller \ {c} : draft'[d] = draft[d]
        /\ draft'[c] = Put(draft[c], RateRow, Counted(rows[RateRow]))
    BY <1>2 DEF UpsertHit, Write, Ready, Inv, Core, Shape
  <2>4. /\ DOMAIN draft'[c] = DOMAIN draft[c] \cup {RateRow}
        /\ draft'[c][RateRow] = Counted(rows[RateRow])
    BY <2>3 DEF Put
  <2>5. /\ \A y \in Challenge : ChallengeRow(y) \notin DOMAIN draft'[c]
        /\ \A t \in Token : SessionRow(t) \notin DOMAIN draft'[c]
    BY <1>1, <2>1, <2>4, OtherKeys DEF Own, Consuming, MoreKeys
  <2>6. Counting(c)' /\ ~Consuming(c)'
    BY <2>2 DEF Counting, Consuming
  <2>7. Own(c)'
    BY <2>2, <2>3, <2>4, <2>5, <2>6 DEF Own, Counted
  <2>8. Locks'
    BY <2>1, <2>2, <2>3, <2>4, <2>7, LocksMove DEF Ready, Typed
  <2> QED BY <1>1, <2>3, <2>8, IssuedStays, NothingYet DEF Ready
<1>3. CASE ReadBack(c)
  <2>1. PICK a : a = [op |-> "hit", count |-> Seen(c, RateRow)]
    OBVIOUS
  <2>2. /\ pc[c] = "readback" /\ Moves(c, "commit", a) /\ UNCHANGED <<rows, draft>>
        /\ a.op = "hit" /\ a.count = Seen(c, RateRow)
    BY <1>3, <2>1 DEF ReadBack, Call, Goto, Moves, conn
  <2>3. /\ pc'[c] = "commit" /\ arg'[c] = a
        /\ \A d \in Caller \ {c} : pc'[d] = pc[d] /\ arg'[d] = arg[d]
    BY <2>2, MovesOnly DEF Ready, Inv, Core
  <2>4. Counting(c) /\ ~Consuming(c) /\ Counting(c)' /\ ~Consuming(c)'
    BY <2>2, <2>3 DEF Counting, Consuming
  <2>5. RateRow \in DOMAIN draft[c] /\ a.count = draft[c][RateRow]
    BY <1>1, <2>2, <2>4 DEF Own, Seen
  <2>6. Own(c)'
    BY <1>1, <2>2, <2>3, <2>4, <2>5 DEF Own, Counted
  <2>7. Locks'
    BY <2>2, <2>3, <2>6, LocksMove DEF Ready, Typed
  <2> QED BY <1>1, <2>2, <2>7, IssuedStays, NothingYet DEF Ready
<1> QED BY <1>2, <1>3

\* The bucket goes from one count to the next, and one hit is told so.
LEMMA HitCounts ==
  ASSUME Ready, View, View', UNCHANGED <<dialect, wins, revoked>>, UsersKept, SessionsKept, ChallengesKept,
         issued' \in [challenge : {issued.challenge}, token : {issued.token}, hits : Int],
         \A x \in Challenge : rows'[ChallengeRow(x)] = rows[ChallengeRow(x)],
         NEW n, n = Counted(rows[RateRow]), rows'[RateRow] = n,
         told' = [told EXCEPT ![n] = More(told[n])]
  PROVE  Issued' /\ Contract!HitRateLimit
<1> DEFINE hits == IF rows[RateRow] = Absent THEN 0 ELSE rows[RateRow]
<1>1. hits \in Nat /\ n = hits + 1 /\ n # Absent /\ n \in Nat
  BY AbsentAssumption DEF Ready, Issued, Counted
<1>2. told \in [1 .. MaxIssued[dialect] -> 0 .. 2]
  BY DEF Ready, Typed, Histories
<1>3. \A m \in DOMAIN told : told[m] # 0 => m <= hits
  BY DEF Ready, Issued
<1>4. n \in DOMAIN told => told[n] = 0
  BY <1>1, <1>3
<1>5. told' = [told EXCEPT ![n] = 1]
  <2>1. CASE n \in DOMAIN told
    <3>1. More(told[n]) = 1
      BY <1>4, <2>1 DEF More
    <3> QED BY <3>1
  <2>2. CASE n \notin DOMAIN told
    <3>1. told' = told /\ [told EXCEPT ![n] = 1] = told
      BY <1>2, <2>2
    <3> QED BY <3>1
  <2> QED BY <2>1, <2>2
<1>6. Issued'
  <2>1. \A m \in DOMAIN told' : told'[m] # 0 => m <= n
    BY <1>1, <1>2, <1>3, <1>5
  <2> QED BY <1>1, <2>1 DEF Ready, Issued
<1>7. Pooled /\ Pooled'
  BY DEF Ready, Pooled
<1>8. UNCHANGED Contract!userVars /\ UNCHANGED Contract!sessionVars /\ UNCHANGED Contract!challengeVars
  BY ViewKept DEF Ready
<1>9. Contract!HitRateLimit
  BY <1>1, <1>5, <1>7, <1>8 DEF Contract!HitRateLimit, OnPool
<1> QED BY <1>6, <1>9

\* COMMIT of a taken challenge is the operation TakeChallenge.
LEMMA PoolCommitTaken ==
  ASSUME Ready, View, View', NEW c \in Caller, CommitTaken(c)
  PROVE  Locks' /\ Issued' /\ Contract!StoreNext
<1>1. /\ pc[c] = "commit" /\ arg[c].op = "take"
      /\ rows' = [k \in Key |-> Seen(c, k)] /\ Release(c) /\ Return(c)
      /\ UNCHANGED <<dialect, issued, told, revoked>>
      /\ wins' = [wins EXCEPT ![arg[c].challenge] = More(wins[arg[c].challenge])]
  BY DEF CommitTaken, Commit, deployment
<1>2. Consuming(c) /\ ~Counting(c) /\ ~Putting(c) /\ DraftFits(c) /\ Own(c)
  BY <1>1 DEF Consuming, Counting, Putting, Ready, Locks, Inv, Core, PoolFits
<1>3. PICK x \in Challenge : arg[c].challenge = x /\ ChallengeRow(x) \in DOMAIN draft[c]
  <2>1. ChallengeRow(arg[c].challenge) \in DOMAIN draft[c]
    BY <1>2 DEF Own
  <2>2. arg[c].challenge \in Challenge
    <3>1. ChallengeRow(arg[c].challenge) \in Key
      BY <2>1 DEF Ready, Typed, Tables
    <3> QED BY <3>1 DEF Key, ChallengeRow, EmailRow, SessionRow, RateRow
  <2> QED BY <2>1, <2>2
<1>4. rows[ChallengeRow(x)] = "live" /\ draft[c][ChallengeRow(x)] = Absent
      /\ \A y \in Challenge : ChallengeRow(y) \in DOMAIN draft[c] => y = x
  BY <1>1, <1>2, <1>3 DEF Own
<1>5. /\ \A k \in Key : rows'[k] = Seen(c, k)
      /\ \A k \in Key : rows'[k] = rows[k] \/ k \in DOMAIN draft[c]
  BY <1>1 DEF Seen
<1>6. /\ rows'[ChallengeRow(x)] = Absent
      /\ \A y \in Challenge \ {x} : rows'[ChallengeRow(y)] = rows[ChallengeRow(y)]
  BY <1>3, <1>4, <1>5, OtherKeys DEF Seen, MoreKeys
<1>7. /\ \A t \in Token : rows'[SessionRow(t)] = rows[SessionRow(t)]
      /\ rows'[RateRow] = rows[RateRow]
  BY <1>2, <1>5, OtherKeys DEF Own, MoreKeys
<1>8. UsersKept /\ SessionsKept /\ HitsKept
  BY <1>1, <1>2, <1>5, <1>7, Keys DEF DraftFits, UsersKept, SessionsKept, HitsKept
<1>9. Locks'
  BY <1>1, <1>5, LocksEnd DEF Ready, Typed
<1>10. wins \in [Challenge -> 0 .. 2] /\ wins[x] = 0
  BY <1>4 DEF Ready, Typed, Histories, Issued
<1>11. wins' = [wins EXCEPT ![x] = 1]
  BY <1>1, <1>3, <1>10 DEF More
<1>12. Absent # "live"
  BY AbsentAssumption
<1>13. Issued'
  BY <1>1, <1>4, <1>6, <1>7, <1>10, <1>11, <1>12 DEF Ready, Issued
<1>14. Pooled /\ Pooled'
  BY <1>1 DEF Ready, Pooled
<1>15. Contract!TakeChallenge(x)
  <2>1. UNCHANGED Contract!userVars /\ UNCHANGED Contract!sessionVars /\ UNCHANGED Contract!hitVars
    BY <1>1, <1>8, ViewKept DEF Ready
  <2>2. \A y \in Challenge : rows'[ChallengeRow(y)] = "live" <=> y # x /\ rows[ChallengeRow(y)] = "live"
    BY <1>6, <1>12
  <2> QED BY <1>4, <1>11, <1>14, <2>1, <2>2 DEF Contract!TakeChallenge, OnPool
<1> QED BY <1>9, <1>13, <1>15 DEF Contract!StoreNext

\* COMMIT of a counted hit is the operation HitRateLimit.
LEMMA PoolCommitHit ==
  ASSUME Ready, View, View', NEW c \in Caller, CommitHit(c)
  PROVE  Locks' /\ Issued' /\ Contract!StoreNext
<1>1. /\ pc[c] = "commit" /\ arg[c].op = "hit"
      /\ rows' = [k \in Key |-> Seen(c, k)] /\ Release(c) /\ Return(c)
      /\ UNCHANGED <<dialect, issued, wins, revoked>>
      /\ told' = [told EXCEPT ![arg[c].count] = More(told[arg[c].count])]
  BY DEF CommitHit, Commit, deployment
<1>2. Counting(c) /\ ~Consuming(c) /\ ~Putting(c) /\ DraftFits(c) /\ Own(c)
  BY <1>1 DEF Consuming, Counting, Putting, Ready, Locks, Inv, Core, PoolFits
<1>3. PICK n : n = Counted(rows[RateRow])
  OBVIOUS
<1>4. arg[c].count = n /\ draft[c][RateRow] = n /\ RateRow \in DOMAIN draft[c]
  BY <1>1, <1>2, <1>3 DEF Own
<1>5. /\ \A k \in Key : rows'[k] = Seen(c, k)
      /\ \A k \in Key : rows'[k] = rows[k] \/ k \in DOMAIN draft[c]
  BY <1>1 DEF Seen
<1>6. rows'[RateRow] = n
  BY <1>4, <1>5, OtherKeys DEF Seen, MoreKeys
<1>7. /\ \A x \in Challenge : rows'[ChallengeRow(x)] = rows[ChallengeRow(x)]
      /\ \A t \in Token : rows'[SessionRow(t)] = rows[SessionRow(t)]
  BY <1>2, <1>5, OtherKeys DEF Own, MoreKeys
<1>8. UsersKept /\ SessionsKept /\ ChallengesKept
  BY <1>1, <1>2, <1>5, <1>7, Keys DEF DraftFits, UsersKept, SessionsKept, ChallengesKept
<1>9. Locks'
  BY <1>1, <1>5, LocksEnd DEF Ready, Typed
<1>10. issued' \in [challenge : {issued.challenge}, token : {issued.token}, hits : Int]
  BY <1>1 DEF Ready, Issued
<1>11. told' = [told EXCEPT ![n] = More(told[n])]
  BY <1>1, <1>4
<1>12. Issued' /\ Contract!HitRateLimit
  BY <1>1, <1>3, <1>6, <1>7, <1>8, <1>10, <1>11, HitCounts
<1> QED BY <1>9, <1>12 DEF Contract!StoreNext

-----------------------------------------------------------------------------
(* The operations of one statement                                          *)

\* A single statement: what it leaves alone.
LEMMA PoolBare ==
  ASSUME Ready, NEW k \in Key, \A d \in Caller : k \notin DOMAIN draft[d],
         \A x \in Key \ {k} : rows'[x] = rows[x], UNCHANGED <<draft, pc, arg>>
  PROVE  /\ Locks'
         /\ Aside(k) => UsersKept
         /\ (\A x \in Challenge : k # ChallengeRow(x)) =>
              \A x \in Challenge : rows'[ChallengeRow(x)] = rows[ChallengeRow(x)]
         /\ (\A t \in Token : k # SessionRow(t)) =>
              \A t \in Token : rows'[SessionRow(t)] = rows[SessionRow(t)]
         /\ k # RateRow => rows'[RateRow] = rows[RateRow]
<1>1. Locks'
  BY LocksBare DEF Ready, Typed
<1>2. Aside(k) => UsersKept
  BY Keys DEF Aside, UsersKept
<1> QED BY <1>1, <1>2, OtherKeys DEF MoreKeys

LEMMA PoolRecords ==
  ASSUME Ready, View, View', NEW u \in User, putWalletSlot(u) \/ setSessionPointer(u)
  PROVE  Locks' /\ Issued' /\ Contract!StoreNext
<1>1. UNCHANGED <<dialect, draft, pc, arg, issued, wins, told, revoked>>
  BY DEF putWalletSlot, setSessionPointer, deployment, conn, history
<1>2. rows[UserKey(u)] \in Record /\ rows[UserKey(u)] # Absent /\ UserRow(u) = UserKey(u) /\ SlotRow(u) = SlotKey(u)
      /\ Fitted("imported") = "imported" /\ DOMAIN rows = Key /\ UserKey(u) \in Key /\ SlotKey(u) \in Key
  BY Clean, Keys DEF putWalletSlot, setSessionPointer, Ready, Inv, Core, Shape
<1>3. Address(u) # Absent
  BY <1>2, AbsentAssumption, StoreAssumption DEF View, AddressIn, Record
<1>4. Pooled /\ Pooled'
  BY <1>1 DEF Ready, Pooled
<1>5. ASSUME NEW k \in {UserKey(u), SlotKey(u)}, NEW v, Bare(k, v)
      PROVE  /\ Locks' /\ Issued'
             /\ UNCHANGED Contract!challengeVars /\ UNCHANGED Contract!sessionVars
             /\ UNCHANGED Contract!hitVars
             /\ rows'[k] = v /\ \A x \in Key \ {k} : rows'[x] = rows[x]
  <2>1. /\ \A d \in Caller : k \notin DOMAIN draft[d]
        /\ rows'[k] = v /\ \A x \in Key \ {k} : rows'[x] = rows[x]
    BY <1>2, <1>4, <1>5 DEF Bare
  <2>2. \A x : k # ChallengeRow(x) /\ k # SessionRow(x) /\ k # RateRow
    BY DEF UserKey, SlotKey, ChallengeRow, SessionRow, RateRow
  <2>3. /\ Locks' /\ \A x \in Challenge : rows'[ChallengeRow(x)] = rows[ChallengeRow(x)]
        /\ \A t \in Token : rows'[SessionRow(t)] = rows[SessionRow(t)]
        /\ rows'[RateRow] = rows[RateRow]
    BY <1>1, <1>2, <2>1, <2>2, PoolBare
  <2>4. Issued'
    BY <1>1, <2>3 DEF Ready, Issued
  <2>5. ChallengesKept /\ SessionsKept /\ HitsKept
    BY <1>1, <2>3 DEF ChallengesKept, SessionsKept, HitsKept
  <2> QED BY <1>1, <2>1, <2>3, <2>4, <2>5, ViewKept DEF Ready
<1>6. CASE putWalletSlot(u)
  <2>1. Bare(SlotKey(u), "imported")
    BY <1>2, <1>6 DEF putWalletSlot
  <2>2. /\ Locks' /\ Issued'
        /\ UNCHANGED Contract!challengeVars /\ UNCHANGED Contract!sessionVars
        /\ UNCHANGED Contract!hitVars
        /\ rows'[SlotKey(u)] = "imported" /\ \A x \in Key \ {SlotKey(u)} : rows'[x] = rows[x]
    BY <1>5, <2>1
  <2>3. /\ \A v \in User : rows'[UserKey(v)] = rows[UserKey(v)]
        /\ \A v \in User \ {u} : rows'[SlotKey(v)] = rows[SlotKey(v)]
        /\ \A e \in Email : rows'[EmailRow(e)] = rows[EmailRow(e)]
    BY <2>2, Keys
  <2>4. /\ \A v \in User : Address(v)' = Address(v) /\ rows[UserRow(v)]' = rows[UserRow(v)]
        /\ Slot(u)' = "imported" /\ \A v \in User \ {u} : Slot(v)' = Slot(v)
    BY <2>2, <2>3, AbsentAssumption DEF View, AddressIn, Shown
  <2>5. UNCHANGED Contract!dirVars
    BY <1>4, <2>3, <2>4 DEF Contract!dirVars, OnPool
  <2>6. Contract!PutWalletSlot(u)
    BY <1>3, <1>4, <2>2, <2>4, <2>5 DEF Contract!PutWalletSlot, OnPool
  <2> QED BY <2>2, <2>6 DEF Contract!StoreNext
<1>7. CASE setSessionPointer(u)
  <2>1. PICK r : r = [rows[UserKey(u)] EXCEPT !.pointer = TRUE]
    OBVIOUS
  <2>2. r.pointer = TRUE /\ r.email = rows[UserKey(u)].email /\ r # Absent
    <3>1. r.pointer = TRUE /\ r.email = rows[UserKey(u)].email /\ r \in Record
      BY <1>2, <2>1 DEF Record
    <3> QED BY <3>1, AbsentAssumption
  <2>3. Bare(UserKey(u), r)
    BY <1>2, <1>7, <2>1 DEF setSessionPointer
  <2>4. /\ Locks' /\ Issued'
        /\ UNCHANGED Contract!challengeVars /\ UNCHANGED Contract!sessionVars
        /\ UNCHANGED Contract!hitVars
        /\ rows'[UserKey(u)] = r /\ \A x \in Key \ {UserKey(u)} : rows'[x] = rows[x]
    BY <1>5, <2>3
  <2>5. /\ \A v \in User : rows'[SlotKey(v)] = rows[SlotKey(v)]
        /\ \A v \in User \ {u} : rows'[UserKey(v)] = rows[UserKey(v)]
        /\ \A e \in Email : rows'[EmailRow(e)] = rows[EmailRow(e)]
    BY <2>4, Keys
  <2>6. /\ \A v \in User : Address(v)' = Address(v) /\ Slot(v)' = Slot(v)
        /\ rows[UserRow(u)]' = r /\ \A v \in User \ {u} : rows[UserRow(v)]' = rows[UserRow(v)]
    BY <1>2, <2>2, <2>4, <2>5 DEF View, AddressIn, Shown
  <2>7. UNCHANGED Contract!dirVars
    BY <1>4, <2>5, <2>6 DEF Contract!dirVars, OnPool
  <2>8. Contract!SetSessionPointer(u)
    BY <1>3, <1>4, <2>2, <2>4, <2>6, <2>7 DEF Contract!SetSessionPointer, OnPool
  <2> QED BY <2>4, <2>8 DEF Contract!StoreNext
<1> QED BY <1>6, <1>7

LEMMA PoolChallenges ==
  ASSUME Ready, View, View', NEW x \in Challenge, putChallenge(x) \/ takeReturning(x)
  PROVE  Locks' /\ Issued' /\ Contract!StoreNext
<1>1. UNCHANGED <<dialect, draft, pc, arg, told, revoked>>
  BY DEF putChallenge, takeReturning, deployment, conn
<1>2. Pooled /\ Pooled' /\ DOMAIN rows = Key /\ ChallengeRow(x) \in Key
  BY <1>1, OtherKeys DEF Ready, Pooled, Inv, Core, Shape, MoreKeys
<1>3. /\ \A d \in Caller : ChallengeRow(x) \notin DOMAIN draft[d]
      /\ \A y \in Key \ {ChallengeRow(x)} : rows'[y] = rows[y]
  BY <1>2 DEF putChallenge, takeReturning, Bare
<1>4. /\ Locks' /\ UsersKept
      /\ \A t \in Token : rows'[SessionRow(t)] = rows[SessionRow(t)]
      /\ rows'[RateRow] = rows[RateRow]
  BY <1>1, <1>2, <1>3, PoolBare, AsideKeys, OtherKeys DEF MoreKeys
<1>5. \A y \in Challenge \ {x} : rows'[ChallengeRow(y)] = rows[ChallengeRow(y)]
  BY <1>3, OtherKeys DEF MoreKeys
<1>6. SessionsKept /\ HitsKept
  BY <1>1, <1>4 DEF SessionsKept, HitsKept
<1>7. UNCHANGED Contract!userVars /\ UNCHANGED Contract!sessionVars /\ UNCHANGED Contract!hitVars
  BY <1>1, <1>4, <1>6, ViewKept DEF Ready
<1>8. wins \in [Challenge -> 0 .. 2]
  BY DEF Ready, Typed, Histories
<1>9. CASE putChallenge(x)
  <2>1. /\ rows'[ChallengeRow(x)] = "live" /\ x \notin issued.challenge /\ wins' = wins
        /\ issued' = [issued EXCEPT !.challenge = issued.challenge \cup {x}]
    BY <1>2, <1>9 DEF putChallenge, Bare
  <2>2. wins[x] = 0
    BY <2>1 DEF Ready, Issued
  <2>3. /\ issued' \in [challenge : SUBSET Challenge, token : SUBSET Token, hits : Int]
        /\ issued'.challenge = issued.challenge \cup {x} /\ issued'.token = issued.token
    BY <2>1 DEF Ready, Issued
  <2>4. Issued'
    BY <1>1, <1>4, <1>5, <2>1, <2>2, <2>3 DEF Ready, Issued
  <2>5. Contract!PutChallenge(x)
    BY <1>2, <1>5, <1>7, <2>1 DEF Contract!PutChallenge, OnPool
  <2> QED BY <1>4, <2>4, <2>5 DEF Contract!StoreNext
<1>10. CASE takeReturning(x)
  <2>1. /\ rows[ChallengeRow(x)] = "live" /\ rows'[ChallengeRow(x)] = Absent /\ issued' = issued
        /\ wins' = [wins EXCEPT ![x] = More(wins[x])]
    BY <1>2, <1>10 DEF takeReturning, Bare
  <2>2. wins[x] = 0
    BY <2>1 DEF Ready, Issued
  <2>3. wins' = [wins EXCEPT ![x] = 1]
    BY <2>1, <2>2 DEF More
  <2>4. Issued'
    BY <1>1, <1>4, <1>5, <1>8, <2>1, <2>3, AbsentAssumption DEF Ready, Issued
  <2>5. Contract!TakeChallenge(x)
    BY <1>2, <1>5, <1>7, <2>1, <2>3, AbsentAssumption DEF Contract!TakeChallenge, OnPool
  <2> QED BY <1>4, <2>4, <2>5 DEF Contract!StoreNext
<1> QED BY <1>9, <1>10

LEMMA PoolSessions ==
  ASSUME Ready, View, View', NEW t \in Token, putSession(t) \/ deleteSession(t)
  PROVE  Locks' /\ Issued' /\ Contract!StoreNext
<1>1. UNCHANGED <<dialect, draft, pc, arg, told, wins>>
  BY DEF putSession, deleteSession, deployment, conn
<1>2. Pooled /\ Pooled' /\ DOMAIN rows = Key /\ SessionRow(t) \in Key
  BY <1>1, OtherKeys DEF Ready, Pooled, Inv, Core, Shape, MoreKeys
<1>3. /\ \A d \in Caller : SessionRow(t) \notin DOMAIN draft[d]
      /\ \A y \in Key \ {SessionRow(t)} : rows'[y] = rows[y]
  BY <1>2 DEF putSession, deleteSession, Bare
<1>4. /\ Locks' /\ UsersKept
      /\ \A x \in Challenge : rows'[ChallengeRow(x)] = rows[ChallengeRow(x)]
      /\ rows'[RateRow] = rows[RateRow]
  BY <1>1, <1>2, <1>3, PoolBare, AsideKeys, OtherKeys DEF MoreKeys
<1>5. \A s \in Token \ {t} : rows'[SessionRow(s)] = rows[SessionRow(s)]
  <2>1. \A s \in Token \ {t} : SessionRow(s) # SessionRow(t) /\ SessionRow(s) \in Key
    BY OtherKeys DEF MoreKeys, SessionRow
  <2> QED BY <1>3, <2>1
<1>6. ChallengesKept /\ HitsKept
  BY <1>1, <1>4 DEF ChallengesKept, HitsKept
<1>7. UNCHANGED Contract!userVars /\ UNCHANGED Contract!challengeVars /\ UNCHANGED Contract!hitVars
  BY <1>1, <1>4, <1>6, ViewKept DEF Ready
<1>8. CASE putSession(t)
  <2>1. /\ rows'[SessionRow(t)] = "live" /\ t \notin issued.token /\ revoked' = revoked
        /\ issued' = [issued EXCEPT !.token = issued.token \cup {t}]
    BY <1>2, <1>8 DEF putSession, Bare
  <2>2. t \notin revoked
    BY <2>1 DEF Ready, Issued
  <2>3. /\ issued' \in [challenge : SUBSET Challenge, token : SUBSET Token, hits : Int]
        /\ issued'.challenge = issued.challenge /\ issued'.token = issued.token \cup {t}
    BY <2>1 DEF Ready, Issued
  <2>4. Issued'
    BY <1>1, <1>4, <2>1, <2>3 DEF Ready, Issued
  <2>5. Contract!PutSession(t)
    BY <1>2, <1>5, <1>7, <2>1, <2>2 DEF Contract!PutSession, OnPool
  <2> QED BY <1>4, <2>4, <2>5 DEF Contract!StoreNext
<1>9. CASE deleteSession(t)
  <2>1. /\ rows'[SessionRow(t)] = Absent /\ t \in issued.token /\ revoked' = revoked \cup {t}
        /\ issued' = issued
    BY <1>2, <1>9 DEF deleteSession, Bare
  <2>2. Issued'
    BY <1>1, <1>4, <2>1 DEF Ready, Issued
  <2>3. Contract!DeleteSession(t)
    BY <1>2, <1>5, <1>7, <2>1, AbsentAssumption DEF Contract!DeleteSession, OnPool
  <2> QED BY <1>4, <2>2, <2>3 DEF Contract!StoreNext
<1> QED BY <1>8, <1>9

\* What expires is gone for every reader, and the sweep only removes what is.
LEMMA PoolClock ==
  ASSUME Ready, View, View', NEW k \in Key, k[1] \in {"challenge", "session"},
         Expire(k) \/ sweepExpired(k)
  PROVE  Locks' /\ Issued' /\ Stepped
<1>1. UNCHANGED <<dialect, draft, pc, arg, issued, wins, told, revoked>>
  BY DEF Expire, sweepExpired, deployment, conn, history
<1>2. Pooled /\ Pooled' /\ DOMAIN rows = Key
  BY <1>1 DEF Ready, Pooled, Inv, Core, Shape
<1>3. /\ \A d \in Caller : k \notin DOMAIN draft[d]
      /\ \A y \in Key \ {k} : rows'[y] = rows[y]
      /\ rows'[k] \in {"expired", Absent}
  BY <1>2 DEF Expire, sweepExpired, Bare
<1>4. rows'[k] # "live"
  BY <1>3, AbsentAssumption
<1>5. Aside(k) /\ k # RateRow
  BY AsideKeys DEF RateRow
<1>6. Locks' /\ UsersKept /\ rows'[RateRow] = rows[RateRow]
  BY <1>1, <1>3, <1>5, PoolBare
<1>7. /\ \A x \in Challenge : ChallengeRow(x) # k => rows'[ChallengeRow(x)] = rows[ChallengeRow(x)]
      /\ \A t \in Token : SessionRow(t) # k => rows'[SessionRow(t)] = rows[SessionRow(t)]
  BY <1>3, OtherKeys DEF MoreKeys
<1>8. Issued'
  BY <1>1, <1>4, <1>6, <1>7 DEF Ready, Issued
<1>9. HitsKept /\ UNCHANGED Contract!userVars /\ UNCHANGED Contract!hitVars
  BY <1>1, <1>6, ViewKept DEF Ready, HitsKept
<1>10. ASSUME NEW x \in Challenge, k = ChallengeRow(x) PROVE Contract!ExpireChallenge(x)
  <2>1. \A t \in Token : rows'[SessionRow(t)] = rows[SessionRow(t)]
    BY <1>7, <1>10, OtherKeys DEF MoreKeys
  <2>2. UNCHANGED Contract!sessionVars
    BY <1>1, <2>1, ViewKept DEF SessionsKept, Ready
  <2>3. \A y \in Challenge \ {x} : rows'[ChallengeRow(y)] = rows[ChallengeRow(y)]
    BY <1>7, <1>10, OtherKeys DEF MoreKeys
  <2> QED BY <1>1, <1>2, <1>4, <1>9, <1>10, <2>2, <2>3 DEF Contract!ExpireChallenge, OnPool
<1>11. ASSUME NEW t \in Token, k = SessionRow(t) PROVE Contract!ExpireSession(t)
  <2>1. \A x \in Challenge : rows'[ChallengeRow(x)] = rows[ChallengeRow(x)]
    BY <1>7, <1>11, OtherKeys DEF MoreKeys
  <2>2. UNCHANGED Contract!challengeVars
    BY <1>1, <2>1, ViewKept DEF ChallengesKept, Ready
  <2>3. \A s \in Token \ {t} : rows'[SessionRow(s)] = rows[SessionRow(s)]
    <3>1. \A s \in Token \ {t} : SessionRow(s) # SessionRow(t)
      BY DEF SessionRow
    <3> QED BY <1>7, <1>11, <3>1
  <2> QED BY <1>1, <1>2, <1>4, <1>9, <1>11, <2>2, <2>3 DEF Contract!ExpireSession, OnPool
<1>12. (\E x \in Challenge : k = ChallengeRow(x)) \/ (\E t \in Token : k = SessionRow(t))
  BY DEF Key, UserRow, SlotRow, EmailRow, ChallengeRow, SessionRow, RateRow
<1> QED BY <1>6, <1>8, <1>10, <1>11, <1>12 DEF Stepped, Contract!StoreNext

LEMMA PoolHit ==
  ASSUME Ready, View, View', hitReturning
  PROVE  Locks' /\ Issued' /\ Contract!StoreNext
<1>1. /\ UNCHANGED <<dialect, draft, pc, arg, wins, revoked>>
      /\ issued' = [issued EXCEPT !.hits = issued.hits + 1]
  BY DEF hitReturning, Hit, deployment, conn
<1>2. PICK n : n = Counted(rows[RateRow])
  OBVIOUS
<1>3. RateRow \in Key /\ DOMAIN rows = Key
  BY OtherKeys DEF Ready, Inv, Core, Shape, MoreKeys
<1>4. /\ \A d \in Caller : RateRow \notin DOMAIN draft[d]
      /\ rows'[RateRow] = n /\ \A y \in Key \ {RateRow} : rows'[y] = rows[y]
  BY <1>2, <1>3 DEF hitReturning, Bare, Ready
<1>5. told' = [told EXCEPT ![n] = More(told[n])]
  BY <1>4 DEF hitReturning
<1>6. /\ Locks' /\ UsersKept
      /\ \A x \in Challenge : rows'[ChallengeRow(x)] = rows[ChallengeRow(x)]
      /\ \A t \in Token : rows'[SessionRow(t)] = rows[SessionRow(t)]
  BY <1>1, <1>3, <1>4, PoolBare, AsideKeys, OtherKeys DEF MoreKeys
<1>7. SessionsKept /\ ChallengesKept
  BY <1>1, <1>6 DEF SessionsKept, ChallengesKept
<1>8. issued' \in [challenge : {issued.challenge}, token : {issued.token}, hits : Int]
  BY <1>1 DEF Ready, Issued
<1>9. Issued' /\ Contract!HitRateLimit
  BY <1>1, <1>2, <1>4, <1>5, <1>6, <1>7, <1>8, HitCounts
<1> QED BY <1>6, <1>9 DEF Contract!StoreNext

\* Every step of a pool that booted is one operation of the contract, or none.
LEMMA PoolStep ==
  ASSUME Ready, View, View',
         Crash \/ Single \/ \E c \in Caller : Arrive(c) \/ Step(c) \/ Fail(c)
  PROVE  Locks' /\ Issued' /\ Stepped
<1>1. ASSUME NEW c \in Caller, Step(c) PROVE Locks' /\ Issued' /\ Stepped
  BY <1>1, PoolBegin, PoolUserStep, PoolClaimStep, PoolCommitUser, PoolArrive, PoolTaking,
     PoolCommitTaken, PoolCounting, PoolCommitHit DEF Step, Stepped
<1>2. ASSUME NEW c \in Caller, Arrive(c) \/ Fail(c) PROVE Locks' /\ Issued' /\ Stepped
  BY <1>2, PoolArrive, PoolFail DEF Stepped
<1>3. CASE Single
  BY <1>3, PoolRecords, PoolChallenges, PoolSessions, PoolClock, PoolHit DEF Single, Stepped
<1> QED BY <1>1, <1>2, <1>3, PoolCrash DEF Stepped

\* A step that leaves the rows and the calls alone.
LEMMA PoolStill ==
  ASSUME Locks, Issued, UNCHANGED <<rows, draft, pc, arg, issued, wins, told, revoked>>
  PROVE  Locks' /\ Issued' /\ Kept
<1>1. Locks'
  BY DEF Locks, Own, Consuming, Counting
<1> QED BY <1>1, IssuedStays, NothingYet

LEMMA SharedNext ==
  Inv /\ Inv' /\ Typed /\ Typed' /\ Shared /\ [Next]_vars
    => Shared' /\ [Contract!StoreNext]_<<Contract!userVars, Contract!challengeVars,
                                         Contract!sessionVars, Contract!hitVars>>
<1>a. Inv' /\ Pooled' => View'
  BY ViewIs, PTL
<1> SUFFICES ASSUME Inv, Inv', Typed, Typed', Shared, [Next]_vars
             PROVE  /\ Shared'
                    /\ \/ Contract!StoreNext
                       \/ /\ UNCHANGED Contract!userVars /\ UNCHANGED Contract!challengeVars
                          /\ UNCHANGED Contract!sessionVars /\ UNCHANGED Contract!hitVars
  OBVIOUS
<1>1. dialect' = dialect /\ Pooled' = Pooled
  <2>1. CASE Crash \/ Single \/ \E c \in Caller : Arrive(c) \/ Step(c) \/ Fail(c)
    BY <2>1 DEF Crash, Single, Arrive, Step, Fail, putWalletSlot, setSessionPointer,
       putChallenge, takeReturning, putSession, deleteSession, Expire, sweepExpired,
       hitReturning, putUser, getUser, takeChallenge, hitRateLimit, Transaction, Begin,
       UpsertUser, UpsertWallet, SelectHolder, InsertEmail, CommitUser, SelectUser,
       SelectWallets, SelectForUpdate, DeleteTaken, CommitTaken, UpsertHit, ReadBack,
       CommitHit, Commit, deployment, Pooled
  <2>2. CASE createSqlAuthStore \/ (\E f \in Flaw : Repair(f)) \/ UNCHANGED vars
    BY <2>2 DEF createSqlAuthStore, Repair, vars, deployment, Pooled
  <2> QED BY <2>1, <2>2 DEF Next
<1>2. CASE ~Pooled
  <2>1. DOMAIN told' = DOMAIN told
    BY <1>1 DEF Typed, Histories
  <2> QED BY <1>1, <1>2, <2>1 DEF Shared, OnPool, Contract!userVars, Contract!dirVars,
          Contract!challengeVars, Contract!sessionVars, Contract!hitVars
<1>3. CASE Pooled
  <2>1. View /\ View' /\ Locks /\ Issued
    BY <1>a, <1>1, <1>3, ViewIs DEF Shared
  <2>2. Locks' /\ Issued' /\ Stepped
    <3>1. CASE booted /\ (Crash \/ Single \/ \E c \in Caller : Arrive(c) \/ Step(c) \/ Fail(c))
      <4>1. Ready
        BY <1>3, <2>1, <3>1 DEF Ready, Inv, Boots
      <4> QED BY <2>1, <3>1, <4>1, PoolStep
    <3>2. CASE createSqlAuthStore \/ (\E f \in Flaw : Repair(f)) \/ UNCHANGED vars
      <4>1. UNCHANGED <<rows, draft, pc, arg, issued, wins, told, revoked>>
        BY <3>2 DEF createSqlAuthStore, Repair, vars, conn, history
      <4> QED BY <2>1, <4>1, PoolStill DEF Stepped
    <3> QED BY <3>1, <3>2 DEF Next
  <2> QED BY <1>1, <1>3, <2>1, <2>2, ViewKept DEF Shared, Stepped, Kept
<1> QED BY <1>2, <1>3

LEMMA InitShared == Init => Shared
<1> SUFFICES ASSUME Init PROVE Locks /\ Issued
  BY DEF Shared
<1>1. \A k \in Key : rows[k] = Absent
  BY DEF Init
<1>2. Locks
  BY Empty DEF Init, Locks, Own, Consuming, Counting
<1>3. /\ \A x \in Challenge : rows[ChallengeRow(x)] # "live" /\ wins[x] = 0
      /\ rows[RateRow] = Absent /\ \A n \in DOMAIN told : told[n] = 0
  BY <1>1, OtherKeys, AbsentAssumption DEF Init, MoreKeys
<1>4. issued \in [challenge : SUBSET Challenge, token : SUBSET Token, hits : Int] /\ revoked = {}
  BY DEF Init
<1>5. Issued
  BY <1>3, <1>4 DEF Issued
<1> QED BY <1>2, <1>5

LEMMA InitContract == Init => Contract!StoreInit
<1> SUFFICES ASSUME Init PROVE Contract!StoreInit
  OBVIOUS
<1>1. \A u \in User : UserRow(u) \in Key /\ SlotRow(u) \in Key
  <2>1. \A u \in User : Stored(u) \in User
    BY DEF Stored
  <2> QED BY <2>1 DEF UserRow, SlotRow, Key
<1>2. /\ \A u \in User : Address(u) = Absent /\ Slot(u) = "none" /\ rows[UserRow(u)] = Absent
      /\ \A e \in Email : rows[EmailRow(e)] = Absent
  BY <1>1, Keys DEF Init, Address, Slot, Durable
<1>3. /\ \A x \in Challenge : rows[ChallengeRow(x)] # "live"
      /\ \A t \in Token : rows[SessionRow(t)] # "live"
      /\ rows[RateRow] = Absent
  BY OtherKeys, AbsentAssumption DEF Init, MoreKeys
<1>4. /\ \A x \in Challenge : wins[x] = 0
      /\ \A n \in DOMAIN told : told[n] = 0
      /\ revoked = {}
  BY DEF Init
<1>5. Contract!Init
  BY <1>2 DEF Contract!Init, OnPool
<1> QED BY <1>2, <1>3, <1>4, <1>5 DEF Contract!StoreInit, OnPool

\* On Postgres and MySQL the store's calls, of however many statements, are the
\* one-step operations of AuthStore: no write is lost to another, a challenge is
\* taken once, no two hits are told the same count.
THEOREM PoolsAreStores == ASSUME IsFiniteSet(Caller) PROVE Spec => PoolsImplementStore
<1>1. Init => Inv /\ Typed /\ Shared /\ Contract!StoreInit
  BY InitInv, InitTyped, InitShared, InitContract
<1>2. Inv /\ Typed /\ Shared /\ [Next]_vars => Inv' /\ Typed' /\ Shared'
  BY NextInv, TypedNext, SharedNext
<1>3. Inv /\ Inv' /\ Typed /\ Typed' /\ Shared /\ [Next]_vars
        => [Contract!StoreNext]_<<Contract!userVars, Contract!challengeVars,
                                  Contract!sessionVars, Contract!hitVars>>
  BY SharedNext
<1> QED BY <1>1, <1>2, <1>3, PTL DEF Spec, PoolsImplementStore, Contract!StoreSpec

-----------------------------------------------------------------------------
(* No deadlock                                                              *)

\* Nothing runs before the boot.  The chain of SQLite holds each waiting call
\* once, and begins with the open transaction or with one that may open.
Chain ==
  /\ ~booted => \A c \in Caller : pc[c] = "idle"
  /\ ~Pooled => \A i \in 1 .. Len(queue) :
       /\ pc[queue[i]] = "begin" \/ (i = 1 /\ open = queue[1])
       /\ \A j \in 1 .. Len(queue) : queue[i] = queue[j] => i = j

LEMMA SameDatabase ==
  ASSUME Crash \/ Single \/ \E c \in Caller : Arrive(c) \/ Step(c) \/ Fail(c)
  PROVE  UNCHANGED deployment
  BY DEF Crash, Single, Arrive, Step, Fail, putWalletSlot, setSessionPointer,
     putChallenge, takeReturning, putSession, deleteSession, Expire, sweepExpired,
     hitReturning, putUser, getUser, takeChallenge, hitRateLimit, Transaction, Begin,
     UpsertUser, UpsertWallet, SelectHolder, InsertEmail, CommitUser, SelectUser,
     SelectWallets, SelectForUpdate, DeleteTaken, CommitTaken, UpsertHit, ReadBack,
     CommitHit, Commit

\* A step that neither queues a call nor takes one from the chain.
LEMMA ChainStays ==
  ASSUME Chain, UNCHANGED <<dialect, booted, open, queue>>, booted, queue \in Seq(Caller),
         \A c \in Caller : pc[c] = "begin" => pc'[c] = "begin"
  PROVE  Chain'
<1>1. \A i \in 1 .. Len(queue) : queue[i] \in Caller
  OBVIOUS
<1> QED BY <1>1 DEF Chain, Pooled

\* The first of the chain leaves it, for good.
LEMMA ChainMoves ==
  ASSUME Chain, ~Pooled, UNCHANGED deployment, booted, queue \in Seq(Caller),
         NEW c \in Caller, queue # << >>, Head(queue) = c, queue' = Tail(queue),
         \A d \in Caller \ {c} : pc'[d] = pc[d]
  PROVE  Chain'
<1>1. /\ queue' \in Seq(Caller) /\ Len(queue') = Len(queue) - 1 /\ Len(queue) \in Nat
      /\ \A i \in 1 .. Len(queue') : queue'[i] = queue[i + 1]
      /\ queue[1] = c /\ 1 \in 1 .. Len(queue)
      /\ \A i \in 1 .. Len(queue) : queue[i] \in Caller
  OBVIOUS
<1>2. ASSUME NEW i \in 1 .. Len(queue')
      PROVE  /\ i + 1 \in 1 .. Len(queue) /\ i + 1 # 1 /\ queue'[i] \in Caller \ {c}
             /\ pc'[queue'[i]] = "begin"
             /\ \A j \in 1 .. Len(queue') : queue'[i] = queue'[j] => i = j
  <2>1. i + 1 \in 1 .. Len(queue) /\ i + 1 # 1
    BY <1>1
  <2>2. \A j \in 1 .. Len(queue) : queue[i + 1] = queue[j] => i + 1 = j
    BY <2>1 DEF Chain
  <2>3. queue[i + 1] # c /\ queue[i + 1] \in Caller
    BY <1>1, <2>1, <2>2
  <2>4. pc[queue[i + 1]] = "begin"
    BY <2>1 DEF Chain
  <2>5. ASSUME NEW j \in 1 .. Len(queue'), queue'[i] = queue'[j] PROVE i = j
    <3>1. j + 1 \in 1 .. Len(queue) /\ queue[i + 1] = queue[j + 1]
      BY <1>1, <2>5
    <3> QED BY <2>2, <3>1
  <2> QED BY <1>1, <2>1, <2>3, <2>4, <2>5
<1> QED BY <1>2 DEF Chain, deployment, Pooled

\* A call joins the end of the chain.
LEMMA ChainJoined ==
  ASSUME Inv, Typed, Chain, booted, NEW c \in Caller, pc[c] = "idle", NEW a, Transaction(c, a)
  PROVE  Chain'
<1>1. /\ UNCHANGED <<dialect, booted, open>> /\ pc' = [pc EXCEPT ![c] = "begin"]
      /\ queue' = IF Pooled THEN queue ELSE Append(queue, c)
  BY DEF Transaction, Call, Goto, deployment
<1>2. pc'[c] = "begin" /\ \A d \in Caller \ {c} : pc'[d] = pc[d]
  BY <1>1 DEF Inv, Core, Shape
<1>3. CASE Pooled
  BY <1>1, <1>3 DEF Chain, Pooled
<1>4. CASE ~Pooled
  <2>1. /\ queue \in Seq(Caller) /\ Len(queue') = Len(queue) + 1 /\ Len(queue) \in Nat
        /\ queue'[Len(queue) + 1] = c /\ \A i \in 1 .. Len(queue) : queue'[i] = queue[i]
        /\ \A i \in 1 .. Len(queue) : queue[i] \in Caller
    BY <1>1, <1>4 DEF Typed, Connections
  <2>2. \A i \in 1 .. Len(queue) : queue[i] # c
    <3>1. open # c
      BY <1>4, StoreAssumption DEF Inv, Core, LineFits, Putting
    <3> QED BY <1>4, <3>1 DEF Chain
  <2>3. ASSUME NEW i \in 1 .. Len(queue')
        PROVE  pc'[queue'[i]] = "begin" \/ (i = 1 /\ open' = queue'[1])
    <3>1. CASE i = Len(queue) + 1
      BY <1>2, <2>1, <3>1
    <3>2. CASE i \in 1 .. Len(queue)
      <4>1. pc[queue[i]] = "begin" \/ (i = 1 /\ open = queue[1])
        BY <1>4, <3>2 DEF Chain
      <4> QED BY <1>1, <1>2, <2>1, <2>2, <3>2, <4>1
    <3> QED BY <2>1, <3>1, <3>2
  <2>4. ASSUME NEW i \in 1 .. Len(queue'), NEW j \in 1 .. Len(queue'), queue'[i] = queue'[j]
        PROVE  i = j
    <3>1. CASE i \in 1 .. Len(queue) /\ j \in 1 .. Len(queue)
      BY <1>4, <2>1, <2>4, <3>1 DEF Chain
    <3>2. CASE i = Len(queue) + 1 \/ j = Len(queue) + 1
      BY <2>1, <2>2, <2>4, <3>2
    <3> QED BY <2>1, <3>1, <3>2
  <2> QED BY <1>1, <1>4, <2>3, <2>4 DEF Chain, Pooled
<1> QED BY <1>3, <1>4

LEMMA ChainBegin ==
  ASSUME Inv, Typed, Chain, booted, NEW c \in Caller, Begin(c)
  PROVE  Chain'
<1>1. /\ UNCHANGED <<dialect, booted, queue>> /\ pc[c] = "begin"
      /\ pc' = [pc EXCEPT ![c] = First[arg[c].op]]
  BY DEF Begin, Goto, deployment
<1>2. \A d \in Caller \ {c} : pc'[d] = pc[d]
  BY <1>1 DEF Inv, Core, Shape
<1>3. CASE Pooled
  BY <1>1, <1>3 DEF Chain, Pooled
<1>4. CASE ~Pooled
  <2>1. /\ Head(queue) = c /\ open = Absent /\ open' = c
    BY <1>4 DEF Begin
  <2>2. queue \in Seq(Caller) /\ queue # << >>
    BY <1>1, <1>4 DEF Typed, Connections
  <2>3. queue[1] = c /\ 1 \in 1 .. Len(queue) /\ \A i \in 1 .. Len(queue) : queue[i] \in Caller
    BY <2>1, <2>2
  <2>4. ASSUME NEW i \in 1 .. Len(queue)
        PROVE  pc'[queue[i]] = "begin" \/ (i = 1 /\ open' = queue[1])
    <3>1. CASE i = 1
      BY <2>1, <2>3, <3>1
    <3>2. CASE i # 1
      <4>1. queue[i] # c /\ pc[queue[i]] = "begin"
        BY <1>4, <2>3, <3>2 DEF Chain
      <4> QED BY <1>2, <2>3, <4>1
    <3> QED BY <3>1, <3>2
  <2> QED BY <1>1, <1>4, <2>4 DEF Chain, Pooled
<1> QED BY <1>3, <1>4

LEMMA ChainReleased ==
  ASSUME Inv, Typed, Chain, booted, NEW c \in Caller, InTransaction(c),
         Release(c), Return(c), UNCHANGED deployment
  PROVE  Chain'
<1>1. \A d \in Caller \ {c} : pc'[d] = pc[d]
  BY DEF Inv, Core, Shape, Return, Call, Goto
<1>2. CASE Pooled
  BY <1>2 DEF Chain, deployment, Pooled
<1>3. CASE ~Pooled
  <2>1. open = c /\ c # Absent
    BY <1>3, StoreAssumption DEF Inv, Core, LineFits
  <2>2. queue # << >> /\ Head(queue) = c /\ queue \in Seq(Caller)
    BY <1>3, <2>1 DEF Typed, Connections
  <2>3. queue' = Tail(queue)
    BY <1>3 DEF Release
  <2> QED BY <1>1, <1>3, <2>2, <2>3, ChainMoves
<1> QED BY <1>2, <1>3

LEMMA ChainFail ==
  ASSUME Inv, Typed, Chain, booted, NEW c \in Caller, Fail(c)
  PROVE  Chain'
<1>1. UNCHANGED deployment /\ queue \in Seq(Caller)
  BY DEF Fail, Typed, Connections
<1>2. CASE InTransaction(c) /\ Rollback(c)
  BY <1>1, <1>2, ChainReleased DEF Rollback
<1>3. CASE /\ pc[c] = "begin" /\ (~Pooled => Head(queue) = c)
           /\ Return(c) /\ queue' = IF Pooled THEN queue ELSE Tail(queue)
  <2>1. \A d \in Caller \ {c} : pc'[d] = pc[d]
    BY <1>3 DEF Inv, Core, Shape, Return, Call, Goto
  <2>2. CASE Pooled
    BY <1>1, <2>2 DEF Chain, deployment, Pooled
  <2>3. CASE ~Pooled
    <3>1. queue # << >>
      BY <1>3, <2>3 DEF Typed, Connections
    <3> QED BY <1>1, <1>3, <2>1, <2>3, <3>1, ChainMoves
  <2> QED BY <2>2, <2>3
<1>4. CASE pc[c] \in {"row", "wallets"} /\ Return(c) /\ UNCHANGED <<rows, conn>>
  <2>1. \A d \in Caller : pc[d] = "begin" => pc'[d] = "begin"
    BY <1>4 DEF Inv, Core, Shape, Return, Call, Goto
  <2> QED BY <1>1, <1>4, <2>1, ChainStays DEF deployment, conn
<1> QED BY <1>2, <1>3, <1>4 DEF Fail

\* A caller inside its call goes on, and leaves the chain as it is.
LEMMA ChainKept ==
  ASSUME Inv, Typed, Chain, booted, NEW c \in Caller, pc[c] # "begin", NEW l,
         pc' = [pc EXCEPT ![c] = l], UNCHANGED <<deployment, open, queue>>
  PROVE  Chain'
<1>1. \A d \in Caller : pc[d] = "begin" => pc'[d] = "begin"
  BY DEF Inv, Core, Shape
<1> QED BY <1>1, ChainStays DEF deployment, Typed, Connections

LEMMA ChainStep ==
  ASSUME Inv, Typed, Chain, booted, NEW c \in Caller, Step(c)
  PROVE  Chain'
<1>0. UNCHANGED deployment
  BY SameDatabase
<1>1. ASSUME NEW k, NEW v, Write(c, k, v) PROVE UNCHANGED <<open, queue>>
  BY <1>1 DEF Write, conn
<1>2. ASSUME InTransaction(c), Rollback(c) \/ Commit(c) PROVE Chain'
  BY <1>0, <1>2, ChainReleased DEF Rollback, Commit
<1>3. CASE Begin(c)
  BY <1>3, ChainBegin
<1>4. CASE UpsertUser(c) \/ UpsertWallet(c)
  BY <1>0, <1>1, <1>4, ChainKept DEF UpsertUser, UpsertWallet, Goto
<1>5. CASE SelectHolder(c)
  BY <1>0, <1>2, <1>5, ChainKept DEF SelectHolder, Goto, InTransaction, conn
<1>6. CASE InsertEmail(c)
  BY <1>0, <1>1, <1>2, <1>6, ChainKept DEF InsertEmail, Goto, InTransaction
<1>7. CASE CommitUser(c) \/ CommitTaken(c) \/ CommitHit(c)
  BY <1>2, <1>7 DEF CommitUser, CommitTaken, CommitHit, InTransaction
<1>8. CASE SelectUser(c) \/ SelectWallets(c)
  BY <1>0, <1>8, ChainKept DEF SelectUser, SelectWallets, Return, Call, Goto, conn
<1>9. CASE SelectForUpdate(c)
  BY <1>0, <1>1, <1>2, <1>9, ChainKept DEF SelectForUpdate, Goto, InTransaction
<1>10. CASE DeleteTaken(c) \/ UpsertHit(c)
  BY <1>0, <1>1, <1>10, ChainKept DEF DeleteTaken, UpsertHit, Goto
<1>11. CASE ReadBack(c)
  BY <1>0, <1>11, ChainKept DEF ReadBack, Call, Goto, conn
<1> QED BY <1>3, <1>4, <1>5, <1>6, <1>7, <1>8, <1>9, <1>10, <1>11 DEF Step

LEMMA NextChain == Inv /\ Typed /\ Chain /\ [Next]_vars => Chain'
<1> SUFFICES ASSUME Inv, Typed, Chain, [Next]_vars PROVE Chain'
  OBVIOUS
<1>1. CASE createSqlAuthStore \/ \E f \in Flaw : Repair(f)
  <2>1. UNCHANGED <<dialect, conn, pc>> /\ ~booted
    BY <1>1 DEF createSqlAuthStore, Repair
  <2> QED BY <2>1 DEF Chain, Pooled, conn
<1>2. CASE booted /\ (Crash \/ Single \/ \E c \in Caller : Arrive(c) \/ Step(c) \/ Fail(c))
  <2>1. UNCHANGED deployment
    BY <1>2, SameDatabase
  <2>2. CASE Crash
    BY <1>2, <2>1, <2>2 DEF Crash, Chain, deployment
  <2>3. CASE Single
    <3>1. UNCHANGED <<open, queue, pc>>
      BY <2>3 DEF Single, putWalletSlot, setSessionPointer, putChallenge, takeReturning,
         putSession, deleteSession, Expire, sweepExpired, hitReturning, conn
    <3> QED BY <1>2, <2>1, <3>1, ChainStays DEF deployment, Typed, Connections
  <2>4. ASSUME NEW c \in Caller, Arrive(c) PROVE Chain'
    <3>1. CASE \E u \in User : getUser(c, u)
      BY <1>2, <2>1, <3>1, ChainKept DEF getUser, Call, Goto, conn
    <3>2. CASE ~\E u \in User : getUser(c, u)
      BY <1>2, <2>4, <3>2, ChainJoined DEF Arrive, putUser, takeChallenge, hitRateLimit
    <3> QED BY <3>1, <3>2
  <2> QED BY <1>2, <2>2, <2>3, <2>4, ChainStep, ChainFail
<1>3. CASE UNCHANGED vars
  BY <1>3 DEF vars, deployment, conn, Chain, Pooled
<1> QED BY <1>1, <1>2, <1>3 DEF Next

\* On a pool, a row is locked by a call at a later statement: the caller at the
\* latest of them waits for no row.
LEMMA PoolMoves ==
  ASSUME Inv, Typed, Shared, Chain, Pooled, NEW c \in Caller, InTransaction(c)
  PROVE  \E d \in Caller : CanStep(d)
<1>0. /\ booted /\ flaws = {} /\ PoolFits /\ Locks
  BY DEF Chain, InTransaction, Inv, Core, Boots, Shared
<1>1. ASSUME NEW d \in Caller, pc[d] \in {"select", "readback", "commit"} PROVE CanStep(d)
  BY <1>1 DEF CanStep
<1>2. ASSUME NEW d \in Caller, pc[d] = "delete" PROVE CanStep(d)
  <2>1. Own(d) /\ ChallengeRow(arg[d].challenge) \in DOMAIN draft[d]
    BY <1>0, <1>2 DEF Locks, Own, Consuming
  <2>2. Unlocked(d, ChallengeRow(arg[d].challenge))
    BY <1>0, <2>1 DEF Unlocked, Locks
  <2> QED BY <1>2, <2>2 DEF CanStep, Needed
<1>3. ASSUME NEW d \in Caller, pc[d] = "upsert" PROVE \E h \in Caller : CanStep(h)
  <2>1. CASE Unlocked(d, RateRow)
    BY <1>3, <2>1 DEF CanStep, Needed
  <2>2. CASE ~Unlocked(d, RateRow)
    <3>1. PICK h \in Caller : RateRow \in DOMAIN draft[h]
      BY <2>2 DEF Unlocked
    <3>2. pc[h] \in {"readback", "commit"}
      BY <1>0, <3>1 DEF Locks, Own, Counting
    <3> QED BY <1>1, <3>2
  <2> QED BY <2>1, <2>2
<1>4. ASSUME NEW d \in Caller, pc[d] = "lock" PROVE \E h \in Caller : CanStep(h)
  <2>1. arg[d].challenge \in Challenge
    BY <1>4 DEF Typed, Takes, Taking
  <2>2. CASE Unlocked(d, ChallengeRow(arg[d].challenge))
    BY <1>4, <2>2 DEF CanStep, Needed
  <2>3. CASE ~Unlocked(d, ChallengeRow(arg[d].challenge))
    <3>1. PICK h \in Caller : ChallengeRow(arg[d].challenge) \in DOMAIN draft[h]
      BY <2>3 DEF Unlocked
    <3>2. pc[h] \in {"delete", "commit"}
      BY <1>0, <2>1, <3>1 DEF Locks, Own, Consuming
    <3> QED BY <1>1, <1>2, <3>2
  <2> QED BY <2>2, <2>3
<1>5. ASSUME NEW d \in Caller, pc[d] \in {"user", "slot", "insert"}
      PROVE  arg[d].user \in User /\ arg[d].email \in Email
  BY <1>5 DEF Inv, Core, ArgFits, Putting, PutArg
<1>6. ASSUME NEW d \in Caller, pc[d] = "insert" PROVE \E h \in Caller : CanStep(h)
  <2>1. CASE Unlocked(d, EmailRow(arg[d].email))
    BY <1>6, <2>1 DEF CanStep, Needed
  <2>2. CASE ~Unlocked(d, EmailRow(arg[d].email))
    <3>1. PICK h \in Caller : EmailRow(arg[d].email) \in DOMAIN draft[h]
      BY <2>2 DEF Unlocked
    <3>2. DraftFits(h)
      BY <1>0 DEF PoolFits
    <3>3. pc[h] = "commit"
      BY <1>5, <1>6, <3>1, <3>2 DEF DraftFits
    <3> QED BY <1>1, <3>3
  <2> QED BY <2>1, <2>2
<1>7. ASSUME NEW d \in Caller, pc[d] = "slot" PROVE \E h \in Caller : CanStep(h)
  <2>1. SlotRow(arg[d].user) = SlotKey(arg[d].user)
    BY <1>0, <1>5, <1>7, Clean
  <2>2. CASE Unlocked(d, SlotKey(arg[d].user))
    BY <1>7, <2>1, <2>2 DEF CanStep, Needed
  <2>3. CASE ~Unlocked(d, SlotKey(arg[d].user))
    <3>1. PICK h \in Caller : SlotKey(arg[d].user) \in DOMAIN draft[h]
      BY <2>3 DEF Unlocked
    <3>2. DraftFits(h)
      BY <1>0 DEF PoolFits
    <3>3. pc[h] \in {"select", "insert", "commit"}
      BY <1>5, <1>7, <3>1, <3>2 DEF DraftFits, Putting
    <3> QED BY <1>1, <1>6, <3>3
  <2> QED BY <2>2, <2>3
<1>8. ASSUME NEW d \in Caller, pc[d] = "user" PROVE \E h \in Caller : CanStep(h)
  <2>1. UserRow(arg[d].user) = UserKey(arg[d].user)
    BY <1>0, <1>5, <1>8, Clean
  <2>2. CASE Unlocked(d, UserKey(arg[d].user))
    BY <1>8, <2>1, <2>2 DEF CanStep, Needed
  <2>3. CASE ~Unlocked(d, UserKey(arg[d].user))
    <3>1. PICK h \in Caller : UserKey(arg[d].user) \in DOMAIN draft[h]
      BY <2>3 DEF Unlocked
    <3>2. DraftFits(h)
      BY <1>0 DEF PoolFits
    <3>3. pc[h] \in {"slot", "select", "insert", "commit"}
      BY <1>5, <1>8, <3>1, <3>2 DEF DraftFits, Putting
    <3> QED BY <1>1, <1>6, <1>7, <3>3
  <2> QED BY <2>2, <2>3
<1>9. pc[c] \in Statements \ {"begin", "row", "wallets"}
  BY DEF Inv, Core, Shape, InTransaction
<1> QED BY <1>1, <1>2, <1>3, <1>4, <1>6, <1>7, <1>8, <1>9 DEF Statements

\* Outside the transactions a pool has a connection for everybody, and the chain
\* of SQLite begins with a call that may open its own.
LEMMA SomeMoves ==
  ASSUME Inv, Typed, Shared, Chain, NEW c \in Caller, pc[c] # "idle"
  PROVE  \E d \in Caller : CanStep(d)
<1>1. CASE Pooled /\ \E d \in Caller : InTransaction(d)
  BY <1>1, PoolMoves
<1>2. CASE Pooled /\ ~\E d \in Caller : InTransaction(d)
  <2>1. Busy = {} /\ pc[c] \in {"begin", "row", "wallets"}
    BY <1>2 DEF Busy, InTransaction
  <2>2. free > 0
    BY <1>2, <2>1, FS_EmptySet, StoreAssumption DEF Typed, Connections
  <2> QED BY <1>2, <2>1, <2>2 DEF CanStep
<1>3. CASE ~Pooled /\ open # Absent
  <2>1. open \in Caller /\ Putting(open)
    BY <1>3 DEF Inv, Core, LineFits
  <2> QED BY <1>3, <2>1 DEF CanStep, Putting
<1>4. CASE ~Pooled /\ open = Absent /\ pc[c] # "begin"
  BY <1>4 DEF CanStep
<1>5. CASE ~Pooled /\ open = Absent /\ pc[c] = "begin"
  <2>1. queue \in Seq(Caller) /\ queue # << >>
    BY <1>5 DEF Typed, Connections
  <2>2. 1 \in 1 .. Len(queue) /\ queue[1] \in Caller /\ Head(queue) = queue[1]
    BY <2>1
  <2>3. pc[queue[1]] = "begin"
    BY <1>5, <2>2, StoreAssumption DEF Chain
  <2> QED BY <1>5, <2>2, <2>3 DEF CanStep
<1> QED BY <1>1, <1>2, <1>3, <1>4, <1>5

\* Calls wait for rows, connections and the chain, and never all of them at once:
\* the tables are written in one order (putUser), what a single-row transaction
\* needs it holds, and no connection is kept by a call that failed (Release).
THEOREM NoDeadlock == ASSUME IsFiniteSet(Caller) PROVE Spec => []SomebodyMoves
<1>1. Init => Inv /\ Typed /\ Shared /\ Chain
  <2>1. Init => Chain
    BY DEF Init, Chain
  <2> QED BY <2>1, InitInv, InitTyped, InitShared
<1>2. Inv /\ Typed /\ Shared /\ Chain /\ [Next]_vars => Inv' /\ Typed' /\ Shared' /\ Chain'
  BY NextInv, TypedNext, SharedNext, NextChain
<1>3. Inv /\ Typed /\ Shared /\ Chain => SomebodyMoves
  BY SomeMoves DEF SomebodyMoves
<1> QED BY <1>1, <1>2, <1>3, PTL DEF Spec
=============================================================================
