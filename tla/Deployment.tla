----------------------------- MODULE Deployment -----------------------------
(***************************************************************************)
(* The commands that prepare the database: `alembic upgrade head`,         *)
(* `alembic downgrade` (migrations/) and the seed (scripts/seed.py), run   *)
(* one after the other or, by mistake, at once.                            *)
(*                                                                         *)
(* A run of alembic is one transaction, the DDL included, and the row of   *)
(* alembic_version is written in it after every revision. A seed is one    *)
(* transaction too. Tables, the row of alembic_version and the rows a seed *)
(* looks at are rows of ReadCommitted; CREATE and DROP own a table until   *)
(* their transaction ends, and everybody else holds the table in a weaker  *)
(* mode, also until then.                                                  *)
(***************************************************************************)
EXTENDS Naturals, Sequences, Functions

CONSTANTS
  Procs,     \* the commands of a behaviour; bounds the model
  Workload,  \* what each may be
  Killable,  \* the commands that may be killed
  NoRow, Nobody

Commands == {"upgrade", "downgrade", "seed"}

(***************************************************************************)
(* The revisions, in order: what upgrade() creates and downgrade() drops.  *)
(***************************************************************************)
Creates ==
  << <<"roles", "users", "password_reset_tokens", "user_roles", "user_sessions">>,
     <<"rate_limit_hits">>,
     <<"notes">> >>

(* Mutant: the parents go first. *)
DropsParentsFirst ==
  << <<"users", "user_sessions", "user_roles", "password_reset_tokens", "roles">>,
     <<"rate_limit_hits">>,
     <<"notes">> >>

Drops ==
  << <<"user_sessions", "user_roles", "password_reset_tokens", "users", "roles">>,
     <<"rate_limit_hits">>,
     <<"notes">> >>

Latest == Len(Creates)

(* alembic_version is alembic's own. *)
Tables == (UNION {Range(Creates[i]) : i \in 1..Latest}) \cup {"alembic_version"}

(* Foreign keys.                                                           *)
References ==
  [t \in Tables |->
     CASE t \in {"password_reset_tokens", "user_sessions", "notes"} -> {"users"}
       [] t = "user_roles" -> {"users", "roles"}
       [] OTHER -> {}]

TableRow(t) == <<"table", t>>
Version     == <<"row", "version">>       \* the revision, 0 for no row
AdminRole   == <<"row", "admin role">>
AdminUser   == <<"row", "admin user">>    \* the account of ADMIN_EMAIL
Grant       == <<"row", "grant">>         \* that account has that role
DataRows    == {Version, AdminRole, AdminUser, Grant}
Row         == {TableRow(t) : t \in Tables} \cup DataRows

RowsOf(t) == {TableRow(t)} \cup
  CASE t = "roles" -> {AdminRole} [] t = "users" -> {AdminUser}
    [] t = "user_roles" -> {Grant} [] OTHER -> {}

(* env: hashed from ADMIN_PASSWORD. own: chosen by a person.               *)
Passwords == {"env", "own"}

ASSUME WorkloadAssumption == Workload \in [Procs -> SUBSET Commands] /\ Killable \subseteq Procs
ASSUME AbsentAssumption ==
  NoRow \notin Passwords \cup {"there"} /\ NoRow \notin 0..Latest /\ Nobody \notin Procs

VARIABLES
  db, work, lock,  \* the database
  held,            \* the tables each command uses, and how
  pc, job,
  at, goal,        \* the revision a run of alembic has reached, and the one it is for
  line,            \* the statement it has come to on the way to the next
  alone            \* observation: nothing else has run since it started

vars == <<db, work, lock, held, pc, job, at, goal, line, alone>>
Walk == <<at, goal, line>>

PG == INSTANCE ReadCommitted WITH Tx <- Procs

Visible(p, row) == PG!Visible(p, row)

(***************************************************************************)
(* Table locks. "read" a SELECT, "write" an INSERT or UPDATE, "refer" the  *)
(* creation of a foreign key to the table. CREATE and DROP exclude all.    *)
(***************************************************************************)
Conflicts == {{"write", "refer"}, {"refer"}}

Compatible(p, t, mode) ==
  /\ PG!Writable(p, TableRow(t))
  /\ \A q \in Procs \ {p} : \A other \in held[q] :
       other[1] = t => {mode, other[2]} \notin Conflicts

Use(p, uses) == held' = [held EXCEPT ![p] = @ \cup uses]

Unused(p, t) ==
  /\ PG!Writable(p, TableRow(t))
  /\ \A q \in Procs \ {p} : \A other \in held[q] : other[1] # t

NoJob == [cmd |-> "none"]
Jobs  == [cmd : Commands, admin : BOOLEAN, migrated : BOOLEAN, granted : BOOLEAN]

Over      == {"done", "failed", "killed"}
SeedSteps == {"find", "make", "load", "role", "flush"}
Active(p) == pc[p] \notin {"idle"} \cup Over

TypeOK ==
  /\ \A rows \in {db, work} :
       /\ DOMAIN rows = Row
       /\ \A t \in Tables : rows[TableRow(t)] \in {"there", NoRow}
       /\ rows[Version] \in 0..Latest
       /\ rows[AdminRole] \in {"there", NoRow} /\ rows[Grant] \in {"there", NoRow}
       /\ rows[AdminUser] \in Passwords \cup {NoRow}
  /\ lock \in [Row -> Procs \cup {Nobody}]
  /\ held \in [Procs -> SUBSET (Tables \X {"read", "write", "refer"})]
  /\ pc \in [Procs -> {"idle", "begin", "table", "run", "commit"} \cup SeedSteps \cup Over]
  /\ job \in [Procs -> Jobs \cup {NoJob}]
  /\ at \in [Procs -> 0..Latest] /\ goal \in [Procs -> 0..Latest]
  /\ line \in [Procs -> 1..(Len(Creates[1]) + 2)]
  /\ alone \in [Procs -> BOOLEAN]

(* The tables of a database at revision v. *)
SchemaOf(v) == UNION {Range(Creates[i]) : i \in 1..v}

(* A new database, or one at any revision, with or without the account the *)
(* seed is about: somebody may have registered that address.               *)
Init ==
  /\ \E v \in 0..Latest, user \in Passwords \cup {NoRow} :
       /\ v = 0 => user = NoRow
       /\ db = [row \in Row |->
            CASE row = Version -> v
              [] row = AdminUser -> user
              [] row = AdminRole -> IF v > 0 THEN "there" ELSE NoRow
              [] row = Grant -> IF user = "env" THEN "there" ELSE NoRow
              [] row = TableRow("alembic_version") -> IF v > 0 THEN "there" ELSE NoRow
              [] OTHER -> IF row[2] \in SchemaOf(v) THEN "there" ELSE NoRow]
  /\ work = db
  /\ lock = [row \in Row |-> Nobody]
  /\ held = [p \in Procs |-> {}]
  /\ pc = [p \in Procs |-> "idle"]
  /\ job = [p \in Procs |-> NoJob]
  /\ at = [p \in Procs |-> 0] /\ goal = [p \in Procs |-> 0]
  /\ line = [p \in Procs |-> 1]
  /\ alone = [p \in Procs |-> TRUE]

Goto(p, step) == pc' = [pc EXCEPT ![p] = step]
NoSql == UNCHANGED <<db, work, lock>>

(* The connection is given back, with every table lock.                    *)
Ends(p, outcome) ==
  /\ held' = [held EXCEPT ![p] = {}]
  /\ at' = [at EXCEPT ![p] = 0] /\ goal' = [goal EXCEPT ![p] = 0] /\ line' = [line EXCEPT ![p] = 1]
  /\ Goto(p, outcome)

(* Mutant: every statement is a transaction of its own. *)
RollbackNothing(p, outcome) == PG!CommitTx(p) /\ Ends(p, outcome)

(* Mutant: the connection is not closed when a statement fails. *)
LeaveOpen(p, outcome) ==
  /\ Goto(p, outcome)
  /\ UNCHANGED <<held, Walk>> /\ NoSql

Rollback(p, outcome) == PG!RollbackTx(p) /\ Ends(p, outcome)

Fail(p) == Rollback(p, "failed")

(* A seed without ADMIN_EMAIL or ADMIN_PASSWORD has nothing to do.         *)
Start(p) ==
  /\ pc[p] = "idle"
  /\ LET others == {q \in Procs : Active(q)}
     IN  alone' = [q \in Procs |-> IF q = p THEN others = {} ELSE alone[q] /\ q \notin others]
  /\ \E cmd \in Workload[p], admin \in BOOLEAN :
       /\ job' = [job EXCEPT ![p] =
            [cmd |-> cmd, admin |-> admin /\ cmd = "seed", migrated |-> db[Version] > 0,
             granted |-> FALSE]]
       /\ Goto(p, IF cmd # "seed" THEN "begin" ELSE IF admin THEN "find" ELSE "commit")
  /\ NoSql /\ UNCHANGED <<held, Walk>>

(***************************************************************************)
(* alembic.                                                                *)
(***************************************************************************)
(* The tables that upgrade() of the next revision creates, or downgrade()  *)
(* of this one drops, in order.                                            *)
Script(p) == IF at[p] < goal[p] THEN Creates[at[p] + 1] ELSE Drops[at[p]]
Table(p)  == Script(p)[line[p]]

(* What p executes next. upgrade() of the first revision ends with         *)
(* _seed_default_roles, and each revision with the row of alembic_version. *)
Doing(p) ==
  IF at[p] = goal[p] THEN "nothing"
  ELSE IF line[p] \in DOMAIN Script(p) THEN IF at[p] < goal[p] THEN "create" ELSE "drop"
  ELSE IF at[p] = 0 /\ line[p] = Len(Script(p)) + 1 THEN "fill"
  ELSE "stamp"

(* Mutant: the down_revision of a revision skips one. *)
TowardTwo(p) == IF at[p] < goal[p] THEN at[p] + 1 ELSE at[p] - 2

Toward(p) == IF at[p] < goal[p] THEN at[p] + 1 ELSE at[p] - 1

(* The revision is read once; alembic_version is created if there is none. *)
Begin(p) ==
  /\ pc[p] = "begin"
  /\ at' = [at EXCEPT ![p] = Visible(p, Version)]
  /\ \E to \in IF job[p].cmd = "upgrade" THEN {Latest} ELSE 0..Visible(p, Version) :
       goal' = [goal EXCEPT ![p] = to]
  /\ Use(p, {<<"alembic_version", "read">>})
  /\ Goto(p, IF Visible(p, TableRow("alembic_version")) = NoRow THEN "table" ELSE "run")
  /\ NoSql /\ UNCHANGED <<job, line, alone>>

Now(p, do) == pc[p] = "run" /\ Doing(p) = do

Exists(p, t) == Visible(p, TableRow(t)) # NoRow

TableOf == [find |-> "users", make |-> "users", load |-> "user_roles",
            role |-> "roles", flush |-> "user_roles"]

(* A statement looks its tables up before it waits for anybody: one that   *)
(* another transaction is creating is not there yet, and one that it is    *)
(* dropping still is. The tables a new one refers to come after its name.  *)
WrongName(p) ==
  \/ pc[p] \in SeedSteps /\ ~Exists(p, TableOf[pc[p]])
  \/ pc[p] = "table" /\ Exists(p, "alembic_version")
  \/ Now(p, "drop") /\ ~Exists(p, Table(p))
  \/ /\ Now(p, "create")
     /\ LET t == Table(p)
        IN  \/ Exists(p, t)
            \/ Compatible(p, t, "read") /\ \E s \in References[t] : ~Exists(p, s)

FailByName(p) == WrongName(p) /\ Fail(p) /\ UNCHANGED <<job, alone>>

Advance(p) == line' = [line EXCEPT ![p] = @ + 1] /\ UNCHANGED <<pc, at, goal>>

(* A rival CREATE of the same name makes this one wait, and then fail.     *)
CreateTable(p) ==
  /\ Now(p, "create") /\ ~WrongName(p)
  /\ LET t == Table(p)
     IN  /\ Compatible(p, t, "read")
         /\ \A s \in References[t] : Compatible(p, s, "refer")
         /\ PG!Store(p, TableRow(t), "there")
         /\ Use(p, References[t] \X {"refer"})
  /\ Advance(p)
  /\ UNCHANGED <<job, alone>>

CreateVersionTable(p) ==
  /\ pc[p] = "table" /\ ~WrongName(p)
  /\ Compatible(p, "alembic_version", "read")
  /\ PG!Store(p, TableRow("alembic_version"), "there")
  /\ Goto(p, "run")
  /\ UNCHANGED <<held, Walk, job, alone>>

FillRoles(p) ==
  /\ Now(p, "fill")
  /\ PG!Store(p, AdminRole, "there")
  /\ Use(p, {<<"roles", "write">>})
  /\ Advance(p)
  /\ UNCHANGED <<job, alone>>

(* A table goes with its rows, once nobody uses it or what it refers to,   *)
(* unless another table refers to it.                                      *)
DropTable(p) ==
  /\ Now(p, "drop") /\ ~WrongName(p)
  /\ LET t == Table(p)
         parents  == {TableRow(s) : s \in References[t]}
         children == {s \in Tables : t \in References[s] /\ work[TableRow(s)] # NoRow}
     IN  /\ \A s \in {t} \cup References[t] : Unused(p, s)
         /\ \/ children # {} /\ Fail(p)
            \/ /\ children = {}
               /\ PG!StoreRows(p, [row \in RowsOf(t) \cup parents |->
                                     IF row \in parents THEN work[row] ELSE NoRow])
               /\ Advance(p)
               /\ UNCHANGED held
  /\ UNCHANGED <<job, alone>>

(* The row of alembic_version must be the one that was read.               *)
StampVersion(p) ==
  /\ Now(p, "stamp")
  /\ PG!Writable(p, Version)
  /\ \/ /\ work[Version] # at[p]
        /\ Fail(p)
     \/ /\ work[Version] = at[p]
        /\ PG!Store(p, Version, Toward(p))
        /\ Use(p, {<<"alembic_version", "write">>})
        /\ at' = [at EXCEPT ![p] = Toward(p)]
        /\ line' = [line EXCEPT ![p] = 1]
        /\ UNCHANGED <<pc, goal>>
  /\ UNCHANGED <<job, alone>>

Migrated(p) ==
  /\ Now(p, "nothing")
  /\ Goto(p, "commit")
  /\ NoSql /\ UNCHANGED <<held, job, Walk, alone>>

(***************************************************************************)
(* The seed.                                                               *)
(***************************************************************************)
(* A statement on table t finds it, after waiting for who is changing it.  *)
On(p, step, t, mode) ==
  /\ pc[p] = step
  /\ Compatible(p, t, mode) /\ Exists(p, t)
  /\ Use(p, {<<t, mode>>})
  /\ UNCHANGED <<Walk, alone>>

(* Mutant: the row is updated, as the data of the worked example is. *)
FindAndRefresh(p) ==
  /\ On(p, "find", "users", "write")
  /\ IF Visible(p, AdminUser) = NoRow
       THEN Goto(p, "make") /\ NoSql
       ELSE Goto(p, "load") /\ PG!Store(p, AdminUser, "env")
  /\ UNCHANGED job

FindAdmin(p) ==
  /\ On(p, "find", "users", "read")
  /\ Goto(p, IF Visible(p, AdminUser) = NoRow THEN "make" ELSE "load")
  /\ NoSql /\ UNCHANGED job

MakeAdmin(p) ==
  /\ work[AdminUser] = NoRow
  /\ On(p, "make", "users", "write")
  /\ PG!Store(p, AdminUser, "env")
  /\ Goto(p, "role")
  /\ UNCHANGED job

(* The roles of an account come with it (lazy="selectin") and are not read *)
(* again.                                                                  *)
LoadRoles(p) ==
  /\ On(p, "load", "user_roles", "read")
  /\ job' = [job EXCEPT ![p].granted = Visible(p, Grant) # NoRow]
  /\ Goto(p, "role")
  /\ NoSql

(* Without the role, the account is kept as it is.                         *)
FindRole(p) ==
  /\ On(p, "role", "roles", "read")
  /\ Goto(p, IF Visible(p, AdminRole) = NoRow \/ job[p].granted THEN "commit" ELSE "flush")
  /\ NoSql /\ UNCHANGED job

FlushRole(p) ==
  /\ work[Grant] = NoRow
  /\ On(p, "flush", "user_roles", "write")
  /\ PG!Store(p, Grant, "there")
  /\ Goto(p, "commit")
  /\ UNCHANGED job

(* The row was inserted by another seed that has committed since.          *)
Duplicate(p) ==
  /\ \/ pc[p] = "make" /\ PG!Writable(p, AdminUser) /\ work[AdminUser] # NoRow
     \/ pc[p] = "flush" /\ PG!Writable(p, Grant) /\ work[Grant] # NoRow
  /\ Fail(p)
  /\ UNCHANGED <<job, alone>>

(***************************************************************************)
(* The end of a command, and what else happens.                            *)
(***************************************************************************)
Commit(p) ==
  /\ pc[p] = "commit"
  /\ PG!CommitTx(p)
  /\ Ends(p, "done")
  /\ UNCHANGED <<job, alone>>

Kill(p) ==
  /\ p \in Killable /\ Active(p)
  /\ Rollback(p, "killed")
  /\ UNCHANGED <<job, alone>>

(* Whom the next statement of p waits for.                                 *)
Holders(p, t, modes) ==
  {q \in Procs \ {p} : \/ lock[TableRow(t)] = q
                       \/ \E mode \in modes, other \in held[q] :
                            other[1] = t /\ {mode, other[2]} \in Conflicts}

Users(p, t) == {q \in Procs \ {p} : lock[TableRow(t)] = q \/ \E other \in held[q] : other[1] = t}

Blockers(p) ==
  IF WrongName(p) THEN {}
  ELSE CASE pc[p] \in {"find", "load", "role"} -> Holders(p, TableOf[pc[p]], {"read"})
         [] pc[p] = "make"  -> Holders(p, "users", {"write"}) \cup ({lock[AdminUser]} \ {p, Nobody})
         [] pc[p] = "flush" -> Holders(p, "user_roles", {"write"}) \cup ({lock[Grant]} \ {p, Nobody})
         [] pc[p] = "table" -> Holders(p, "alembic_version", {"read"})
         [] Now(p, "create") -> Holders(p, Table(p), {"read"})
                                \cup UNION {Holders(p, s, {"refer"}) : s \in References[Table(p)]}
         [] Now(p, "drop")  -> UNION {Users(p, s) : s \in {Table(p)} \cup References[Table(p)]}
         [] Now(p, "stamp") -> {lock[Version]} \ {p, Nobody}
         [] OTHER -> {}

Deadlocked(p) ==
  \E S \in SUBSET Procs :
    /\ p \in S
    /\ \A q \in S : Blockers(q) \cap S # {} /\ \E r \in S : q \in Blockers(r)

(* PostgreSQL's deadlock detector picks a victim.                          *)
DeadlockVictim(p) ==
  /\ Deadlocked(p)
  /\ Fail(p)
  /\ UNCHANGED <<job, alone>>

(* Through the application: that address registers, or changes its password*)
ChooseOwnPassword ==
  /\ work[TableRow("users")] # NoRow /\ db[AdminUser] # "own"
  /\ {lock[TableRow("users")], lock[AdminUser]} = {Nobody}
  /\ \A p \in Procs : <<"users", "refer">> \notin held[p]
  /\ db' = [db EXCEPT ![AdminUser] = "own"] /\ work' = [work EXCEPT ![AdminUser] = "own"]
  /\ alone' = [p \in Procs |-> alone[p] /\ ~Active(p)]
  /\ UNCHANGED <<lock, held, pc, job, Walk>>

Step(p) ==
  \/ Begin(p) \/ CreateVersionTable(p) \/ CreateTable(p) \/ FillRoles(p) \/ DropTable(p)
  \/ StampVersion(p) \/ Migrated(p)
  \/ FindAdmin(p) \/ MakeAdmin(p) \/ FindRole(p) \/ LoadRoles(p) \/ FlushRole(p)
  \/ Duplicate(p) \/ FailByName(p) \/ Commit(p) \/ DeadlockVictim(p)

Next ==
  \/ \E p \in Procs : Start(p) \/ Step(p) \/ Kill(p)
  \/ ChooseOwnPassword

Spec == Init /\ [][Next]_vars

(* While a command can go on, some command does.                           *)
FairSpec == Spec /\ WF_vars(\E p \in Procs : Step(p))
-----------------------------------------------------------------------------
(***************************************************************************)
(* Properties.                                                             *)
(***************************************************************************)
(* Whatever runs at once, fails or is killed, the committed tables are     *)
(* those of the committed revision, and the roles the code relies on are   *)
(* there with their table (run_migrations_online, _seed_default_roles).    *)
SchemaMatchesVersion ==
  /\ {t \in Tables \ {"alembic_version"} : db[TableRow(t)] # NoRow} = SchemaOf(db[Version])
  /\ db[AdminRole] # NoRow <=> db[Version] > 0
  /\ db[Version] = 0 => {db[AdminUser], db[Grant]} = {NoRow}

(* A command that runs by itself succeeds, forwards and backwards, except  *)
(* a seed before any migration: the orders in which tables are created and *)
(* dropped agree with their foreign keys.                                  *)
AloneSucceeds ==
  \A p \in Procs : pc[p] = "failed" /\ alone[p] => job[p].cmd = "seed" /\ ~job[p].migrated

(* However seeds overlap with each other and with migrations, one that     *)
(* reports success leaves the account an administrator, and never with     *)
(* another password than the one it had (seed_admin).                      *)
SeedGrants ==
  [][\A p \in Procs : job[p].cmd = "seed" /\ pc[p] = "commit" /\ pc'[p] = "done" =>
       /\ db[AdminUser] # NoRow => db'[AdminUser] = db[AdminUser]
       /\ job[p].admin => {db'[AdminUser], db'[Grant]} \cap {NoRow} = {}]_vars

(* Every command ends, though two that need each other's tables can        *)
(* deadlock.                                                               *)
EveryCommandEnds == \A p \in Procs : Active(p) ~> pc[p] \in Over

=============================================================================
