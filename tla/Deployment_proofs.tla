------------------------- MODULE Deployment_proofs -------------------------
(***************************************************************************)
(* Proofs about Deployment, for any number of migrations and seeds at once *)
(* and whatever is killed.                                                 *)
(***************************************************************************)
EXTENDS Deployment, TLAPS

VersionTable == "alembic_version"

(* What migrations make and unmake, and what is there at revision v.       *)
Built == {TableRow(t) : t \in Tables \ {VersionTable}} \cup {AdminRole}

BuiltAt(v, row) == (row = AdminRole /\ v > 0) \/ \E t \in SchemaOf(v) : row = TableRow(t)

Seeding(p) == job[p].cmd = "seed"
Own(p)     == {row \in Row : lock[row] = p}

(* What the statements before line l, of the revision a migration from a   *)
(* to g has in hand, have written.                                         *)
ScriptOf(a, g)  == IF a < g THEN Creates[a + 1] ELSE Drops[a]
Before(a, g, l) == {ScriptOf(a, g)[j] : j \in {k \in DOMAIN ScriptOf(a, g) : k < l}}

Written(a, g, l, row) ==
  \/ a < g /\ \E t \in Before(a, g, l) : row = TableRow(t)
  \/ a < g /\ a = 0 /\ row = AdminRole /\ l > Len(ScriptOf(a, g)) + 1
  \/ a > g /\ \E t \in Before(a, g, l) : row \in RowsOf(t)

(* What is there by then, where revision a was.                            *)
ThereAt(a, g, l, row) ==
  IF a < g THEN BuiltAt(a, row) \/ Written(a, g, l, row)
           ELSE BuiltAt(a, row) /\ ~ Written(a, g, l, row)

Wrote(p, row) == Written(at[p], goal[p], line[p], row)
There(p, row) == ThereAt(at[p], goal[p], line[p], row)

(* The rows of an account and of its role live in a table of their own.    *)
Housed == {<<AdminUser, "users">>, <<Grant, "user_roles">>}

Schema ==
  /\ \A row \in Built : db[row] # NoRow <=> BuiltAt(db[Version], row)
  /\ \A h \in Housed : db[h[1]] # NoRow => db[TableRow(h[2])] # NoRow
  /\ db[Grant] # NoRow => db[AdminUser] # NoRow

Clean == \A row \in Row : lock[row] = Nobody => work[row] = db[row]

JobInv(p) ==
  /\ Active(p) => job[p] \in Jobs
  /\ pc[p] \in SeedSteps => Seeding(p) /\ job[p].admin
  /\ pc[p] \in {"begin", "table", "run"} => ~ Seeding(p)
  /\ pc[p] \in {"find", "make", "load", "flush"} => ~ job[p].granted
  /\ ~ Active(p) \/ pc[p] \in {"begin", "table"} => Own(p) = {}
  /\ ~ Active(p) => held[p] = {}
  /\ at[p] = goal[p] \/ pc[p] # "run" => line[p] = 1
  /\ pc[p] = "run" /\ at[p] # goal[p] =>
       line[p] \in 1..(Len(ScriptOf(at[p], goal[p])) + (IF at[p] = 0 THEN 2 ELSE 1))
  /\ pc[p] = "commit" /\ ~ Seeding(p) => at[p] = goal[p]

MigrationInv(p) ==
  Active(p) /\ ~ Seeding(p) =>
    /\ \A row \in Row : Wrote(p, row) => lock[row] = p /\ (work[row] # NoRow <=> at[p] < goal[p])
    /\ lock[Version] = p =>
         /\ work[Version] = at[p]
         /\ \A row \in Built : Visible(p, row) # NoRow <=> There(p, row)
    /\ lock[Version] # p =>
         \A row \in Built : lock[row] = p /\ ~ Wrote(p, row) => work[row] = db[row]
    /\ lock[AdminUser] = p => lock[Grant] = p
    /\ \A h \in Housed :
         /\ lock[h[1]] = p => work[h[1]] = NoRow /\ lock[TableRow(h[2])] = p
         /\ LET t == TableRow(h[2])
            IN  lock[t] = p /\ work[t] = NoRow /\ db[t] # NoRow => lock[h[1]] = p

Uses(p, t) == \E u \in held[p] : u[1] = t

SeedInv(p) ==
  Active(p) /\ Seeding(p) =>
    /\ \A t \in Tables : Uses(p, t) => lock[TableRow(t)] = Nobody /\ db[TableRow(t)] # NoRow
    /\ Own(p) \subseteq {row \in {AdminUser, Grant} : job[p].admin}
    /\ lock[AdminUser] = p => /\ pc[p] \in {"role", "flush", "commit"}
                              /\ db[AdminUser] = NoRow /\ work[AdminUser] # NoRow
                              /\ Uses(p, "users")
    /\ lock[Grant] = p => pc[p] = "commit" /\ work[Grant] # NoRow /\ Uses(p, "user_roles")
    /\ job[p].admin /\ pc[p] \in {"load", "role", "flush", "commit"} =>
         Uses(p, "users") /\ Visible(p, AdminUser) # NoRow
    /\ job[p].admin /\ (pc[p] = "commit" \/ job[p].granted) =>
         Uses(p, "user_roles") /\ Visible(p, Grant) # NoRow

(* What a command that runs by itself has seen is still so.                *)
AloneInv(p) ==
  alone[p] /\ Active(p) =>
    /\ \A q \in Procs : Active(q) => q = p
    /\ Seeding(p) =>
         /\ job[p].migrated => db[Version] > 0
         /\ pc[p] = "make" => db[AdminUser] = NoRow
         /\ pc[p] \in {"role", "flush"} /\ ~ job[p].granted => db[Grant] = NoRow
    /\ pc[p] = "table" => db[TableRow(VersionTable)] = NoRow
    /\ ~ Seeding(p) /\ pc[p] # "begin" /\ lock[Version] # p => db[Version] = at[p]

Inv ==
  /\ TypeOK /\ Schema /\ Clean /\ AloneSucceeds
  /\ \A p \in Procs : JobInv(p) /\ MigrationInv(p) /\ SeedInv(p) /\ AloneInv(p)

(* What a step of p may do to the rest: only a commit publishes, and only  *)
(* what p locked; nobody takes a table that a seed is using.               *)
Frame(p) ==
  /\ \A row \in Row, q \in Procs \ {p} :
       /\ lock'[row] = q <=> lock[row] = q
       /\ lock[row] = q => work'[row] = work[row]
  /\ \A row \in Row : db'[row] # db[row] =>
       lock[row] = p /\ db'[row] = work[row] /\ pc[p] = "commit"
  /\ \A q \in Procs \ {p}, t \in Tables :
       Active(q) /\ Seeding(q) /\ Uses(q, t) => lock'[TableRow(t)] = Nobody

(* The private state of a command that takes no step.                      *)
Still(q) ==
  /\ pc'[q] = pc[q] /\ job'[q] = job[q] /\ held'[q] = held[q]
  /\ at'[q] = at[q] /\ goal'[q] = goal[q] /\ line'[q] = line[q]

OwnInv(p) == JobInv(p) /\ MigrationInv(p) /\ SeedInv(p) /\ AloneInv(p)

-----------------------------------------------------------------------------
(***************************************************************************)
(* The revisions.                                                          *)
(***************************************************************************)
LEMMA RevisionFacts ==
  /\ Latest = 3
  /\ Creates[1] = <<"roles", "users", "password_reset_tokens", "user_roles", "user_sessions">>
  /\ Creates[2] = <<"rate_limit_hits">> /\ Creates[3] = <<"notes">>
  /\ Drops[1] = <<"user_sessions", "user_roles", "password_reset_tokens", "users", "roles">>
  /\ Drops[2] = <<"rate_limit_hits">> /\ Drops[3] = <<"notes">>
BY DEF Latest, Creates, Drops

FirstTables == {"roles", "users", "password_reset_tokens", "user_roles", "user_sessions"}

LEMMA RangeFacts ==
  /\ Range(Creates[1]) = FirstTables /\ Range(Drops[1]) = FirstTables
  /\ Range(Creates[2]) = {"rate_limit_hits"} /\ Range(Drops[2]) = {"rate_limit_hits"}
  /\ Range(Creates[3]) = {"notes"} /\ Range(Drops[3]) = {"notes"}
BY RevisionFacts DEF Range, FirstTables

LEMMA TableFacts == Tables = FirstTables \cup {"rate_limit_hits", "notes", VersionTable}
<1>1. 1..Latest = {1, 2, 3} BY RevisionFacts
<1>2. UNION {Range(Creates[i]) : i \in {1, 2, 3}}
        = Range(Creates[1]) \cup Range(Creates[2]) \cup Range(Creates[3])
  OBVIOUS
<1>3. UNION {Range(Creates[i]) : i \in 1..Latest}
        = Range(Creates[1]) \cup Range(Creates[2]) \cup Range(Creates[3])
  BY <1>1, <1>2
<1>4. Tables = (Range(Creates[1]) \cup Range(Creates[2]) \cup Range(Creates[3])) \cup {VersionTable}
  BY <1>3 DEF Tables, VersionTable
<1> QED BY <1>4, RangeFacts

LEMMA SchemaFacts ==
  /\ SchemaOf(0) = {}
  /\ SchemaOf(1) = FirstTables
  /\ SchemaOf(2) = FirstTables \cup {"rate_limit_hits"}
  /\ SchemaOf(3) = FirstTables \cup {"rate_limit_hits", "notes"}
<1>1. 1..0 = {} /\ 1..1 = {1} /\ 1..2 = {1, 2} /\ 1..3 = {1, 2, 3} OBVIOUS
<1> QED BY <1>1, RangeFacts DEF SchemaOf

LEMMA ReferenceFacts ==
  /\ References \in [Tables -> SUBSET Tables]
  /\ References["user_roles"] = {"users", "roles"}
  /\ \A t \in {"password_reset_tokens", "user_sessions", "notes"} : References[t] = {"users"}
  /\ \A t \in {"roles", "users", "rate_limit_hits", VersionTable} : References[t] = {}
BY TableFacts DEF References, FirstTables, VersionTable

LEMMA RowFacts ==
  /\ \A s, t \in Tables : TableRow(s) = TableRow(t) => s = t
  /\ \A t \in Tables : TableRow(t) \in Row /\ TableRow(t) \notin DataRows
  /\ Version \in Row /\ AdminRole \in Row /\ AdminUser \in Row /\ Grant \in Row
  /\ Version \notin {AdminRole, AdminUser, Grant} /\ AdminRole \notin {AdminUser, Grant}
  /\ AdminUser # Grant
  /\ \A row \in Row : row \in DataRows \/ \E t \in Tables : row = TableRow(t)
BY DEF TableRow, Row, DataRows, Version, AdminRole, AdminUser, Grant

LEMMA BuiltFacts ==
  /\ Built \subseteq Row /\ AdminRole \in Built
  /\ Version \notin Built /\ AdminUser \notin Built /\ Grant \notin Built
  /\ TableRow(VersionTable) \notin Built
  /\ \A t \in Tables \ {VersionTable} : TableRow(t) \in Built
BY RowFacts, TableFacts DEF Built, DataRows

LEMMA RowsOfFacts ==
  \A t \in Tables :
    /\ TableRow(t) \in RowsOf(t) /\ RowsOf(t) \subseteq Row
    /\ \A s \in Tables : TableRow(s) \in RowsOf(t) => s = t
    /\ Version \notin RowsOf(t)
    /\ AdminRole \in RowsOf(t) <=> t = "roles"
    /\ AdminUser \in RowsOf(t) <=> t = "users"
    /\ Grant \in RowsOf(t) <=> t = "user_roles"
BY RowFacts DEF RowsOf, DataRows

(* How the scripts and the foreign keys agree.                             *)
LEMMA CreateOrder ==
  ASSUME NEW i \in 1..Latest, NEW j \in DOMAIN Creates[i]
  PROVE  /\ Creates[i][j] \in Tables \ {VersionTable}
         /\ Creates[i][j] \notin SchemaOf(i - 1)
         /\ \A k \in DOMAIN Creates[i] : k # j => Creates[i][k] # Creates[i][j]
         /\ \A s \in References[Creates[i][j]] :
              s \in SchemaOf(i - 1) \/ \E k \in DOMAIN Creates[i] : k < j /\ s = Creates[i][k]
<1> USE RevisionFacts, TableFacts, SchemaFacts, ReferenceFacts DEF FirstTables, VersionTable
<1>1. i \in {1, 2, 3} OBVIOUS
<1>2. CASE i = 1
  <2>1. j \in {1, 2, 3, 4, 5} /\ DOMAIN Creates[1] = {1, 2, 3, 4, 5} BY <1>2
  <2>2. CASE j = 1 BY <1>2, <2>1, <2>2
  <2>3. CASE j = 2 BY <1>2, <2>1, <2>3
  <2>4. CASE j = 3 BY <1>2, <2>1, <2>4
  <2>5. CASE j = 4 BY <1>2, <2>1, <2>5
  <2>6. CASE j = 5 BY <1>2, <2>1, <2>6
  <2> QED BY <2>1, <2>2, <2>3, <2>4, <2>5, <2>6
<1>3. CASE i = 2 BY <1>3
<1>4. CASE i = 3 BY <1>4
<1> QED BY <1>1, <1>2, <1>3, <1>4

LEMMA DropOrder ==
  ASSUME NEW i \in 1..Latest, NEW j \in DOMAIN Drops[i]
  PROVE  /\ Drops[i][j] \in Tables \ {VersionTable}
         /\ Drops[i][j] \in SchemaOf(i)
         /\ \A k \in DOMAIN Drops[i] : k # j => Drops[i][k] # Drops[i][j]
         /\ \A s \in Tables : Drops[i][j] \in References[s] =>
              \/ s \notin SchemaOf(i) /\ s # VersionTable
              \/ \E k \in DOMAIN Drops[i] : k < j /\ s = Drops[i][k]
<1> USE RevisionFacts, TableFacts, SchemaFacts, ReferenceFacts DEF FirstTables, VersionTable
<1>1. i \in {1, 2, 3} OBVIOUS
<1>2. CASE i = 1
  <2>1. j \in {1, 2, 3, 4, 5} /\ DOMAIN Drops[1] = 1..5 BY <1>2
  <2>2. \A s \in Tables : Drops[1][j] \in References[s] =>
          \/ s = "notes" \/ \E k \in DOMAIN Drops[1] : k < j /\ s = Drops[1][k]
    <3>1. CASE j = 1 BY <3>1
    <3>2. CASE j = 2 BY <3>2
    <3>3. CASE j = 3 BY <3>3
    <3>4. CASE j = 4
      <4>1. Drops[1][1] = "user_sessions" /\ Drops[1][2] = "user_roles"
            /\ Drops[1][3] = "password_reset_tokens"
        OBVIOUS
      <4> QED BY <2>1, <3>4, <4>1
    <3>5. CASE j = 5
      <4>1. Drops[1][2] = "user_roles" OBVIOUS
      <4> QED BY <2>1, <3>5, <4>1
    <3> QED BY <2>1, <3>1, <3>2, <3>3, <3>4, <3>5
  <2> QED BY <1>2, <2>1, <2>2
<1>3. CASE i = 2 BY <1>3
<1>4. CASE i = 3 BY <1>4
<1> QED BY <1>1, <1>2, <1>3, <1>4

LEMMA ScriptFacts ==
  ASSUME NEW i \in 1..Latest
  PROVE  /\ i - 1 \in 0..Latest /\ i \in 0..Latest
         /\ DOMAIN Creates[i] = 1..Len(Creates[i]) /\ Len(Creates[i]) \in 1..Len(Creates[1])
         /\ DOMAIN Drops[i] = 1..Len(Drops[i]) /\ Len(Drops[i]) = Len(Creates[i])
         /\ Range(Drops[i]) = Range(Creates[i])
         /\ SchemaOf(i) = SchemaOf(i - 1) \cup Range(Creates[i])
         /\ SchemaOf(i - 1) \cap Range(Creates[i]) = {}
         /\ {"roles", "users", "user_roles"} \subseteq SchemaOf(i)
         /\ \A t \in {"roles", "users", "user_roles"} : t \in Range(Creates[i]) <=> i = 1
<1>1. i \in {1, 2, 3} BY RevisionFacts
<1>2. Len(Creates[1]) = 5 /\ Len(Creates[2]) = 1 /\ Len(Creates[3]) = 1 BY RevisionFacts
<1>3. Len(Drops[1]) = 5 /\ Len(Drops[2]) = 1 /\ Len(Drops[3]) = 1 BY RevisionFacts
<1>4. DOMAIN Creates[1] = 1..5 /\ DOMAIN Creates[2] = 1..1 /\ DOMAIN Creates[3] = 1..1
  BY RevisionFacts
<1>5. DOMAIN Drops[1] = 1..5 /\ DOMAIN Drops[2] = 1..1 /\ DOMAIN Drops[3] = 1..1
  BY RevisionFacts
<1>6. /\ i - 1 \in 0..Latest /\ i \in 0..Latest
      /\ DOMAIN Creates[i] = 1..Len(Creates[i]) /\ Len(Creates[i]) \in 1..Len(Creates[1])
      /\ DOMAIN Drops[i] = 1..Len(Drops[i]) /\ Len(Drops[i]) = Len(Creates[i])
  <2>1. Latest = 3 BY RevisionFacts
  <2>2. CASE i = 1 BY <1>2, <1>3, <1>4, <1>5, <2>1, <2>2
  <2>3. CASE i = 2 BY <1>2, <1>3, <1>4, <1>5, <2>1, <2>3
  <2>4. CASE i = 3 BY <1>2, <1>3, <1>4, <1>5, <2>1, <2>4
  <2> QED BY <1>1, <2>2, <2>3, <2>4
<1>7. Range(Drops[i]) = Range(Creates[i]) BY <1>1, RangeFacts
<1>8. /\ SchemaOf(i) = SchemaOf(i - 1) \cup Range(Creates[i])
      /\ SchemaOf(i - 1) \cap Range(Creates[i]) = {}
      /\ {"roles", "users", "user_roles"} \subseteq SchemaOf(i)
      /\ \A t \in {"roles", "users", "user_roles"} : t \in Range(Creates[i]) <=> i = 1
  <2>1. 1 - 1 = 0 /\ 2 - 1 = 1 /\ 3 - 1 = 2 OBVIOUS
  <2> USE SchemaFacts, RangeFacts DEF FirstTables
  <2>2. CASE i = 1 BY <2>1, <2>2
  <2>3. CASE i = 2 BY <2>1, <2>3
  <2>4. CASE i = 3 BY <2>1, <2>4
  <2> QED BY <1>1, <2>2, <2>3, <2>4
<1> QED BY <1>6, <1>7, <1>8

LEMMA SchemaTables ==
  ASSUME NEW v \in 0..Latest
  PROVE  SchemaOf(v) \subseteq Tables \ {VersionTable}
<1>1. v \in {0, 1, 2, 3} BY RevisionFacts
<1> QED BY <1>1, SchemaFacts, TableFacts DEF FirstTables, VersionTable

(***************************************************************************)
(* What the statements of a revision write, one line further.              *)
(***************************************************************************)
LEMMA ScriptIs ==
  ASSUME NEW a \in 0..Latest, NEW g \in 0..Latest, a # g
  PROVE  /\ a < g \/ a > g
         /\ a < g => a + 1 \in 1..Latest /\ ScriptOf(a, g) = Creates[a + 1]
         /\ a > g => a \in 1..Latest /\ ScriptOf(a, g) = Drops[a]
         /\ DOMAIN ScriptOf(a, g) = 1..Len(ScriptOf(a, g))
         /\ Len(ScriptOf(a, g)) \in 1..Len(Creates[1])
         /\ Len(Creates[1]) \in Nat
<1>1. Latest = 3 /\ Len(Creates[1]) \in Nat BY RevisionFacts
<1>2. CASE a < g
  <2>1. a + 1 \in 1..Latest /\ ScriptOf(a, g) = Creates[a + 1] BY <1>1, <1>2 DEF ScriptOf
  <2> QED BY <1>1, <1>2, <2>1, ScriptFacts
<1>3. CASE a > g
  <2>1. a \in 1..Latest /\ ScriptOf(a, g) = Drops[a] BY <1>1, <1>3 DEF ScriptOf
  <2>2. Len(Drops[a]) = Len(Creates[a]) /\ DOMAIN Drops[a] = 1..Len(Drops[a])
        /\ Len(Creates[a]) \in 1..Len(Creates[1])
    BY <2>1, ScriptFacts
  <2> QED BY <1>1, <1>3, <2>1, <2>2
<1> QED BY <1>1, <1>2, <1>3

LEMMA NothingWritten ==
  ASSUME NEW a \in 0..Latest, NEW g \in 0..Latest, NEW l, a = g \/ l = 1, NEW row
  PROVE  ~ Written(a, g, l, row)
<1>1. CASE a = g BY <1>1, RevisionFacts DEF Written
<1>2. CASE a # g /\ l = 1
  <2>1. Before(a, g, 1) = {} BY <1>2, ScriptIs DEF Before
  <2>2. ~ (1 > Len(ScriptOf(a, g)) + 1) BY <1>2, ScriptIs
  <2> QED BY <1>2, <2>1, <2>2 DEF Written
<1> QED BY <1>1, <1>2

LEMMA BeforeNext ==
  ASSUME NEW a \in 0..Latest, NEW g \in 0..Latest, a # g, NEW l \in DOMAIN ScriptOf(a, g)
  PROVE  Before(a, g, l + 1) = Before(a, g, l) \cup {ScriptOf(a, g)[l]}
<1>1. \A k \in DOMAIN ScriptOf(a, g) : k < l + 1 <=> k < l \/ k = l BY ScriptIs
<1> QED BY <1>1 DEF Before

LEMMA CreatedNext ==
  ASSUME NEW a \in 0..Latest, NEW g \in 0..Latest, a < g, NEW l \in DOMAIN ScriptOf(a, g), NEW row
  PROVE  Written(a, g, l + 1, row) <=> Written(a, g, l, row) \/ row = TableRow(ScriptOf(a, g)[l])
<1>1. a # g /\ ~ (a > g) BY RevisionFacts
<1>2. ~ (l + 1 > Len(ScriptOf(a, g)) + 1) /\ ~ (l > Len(ScriptOf(a, g)) + 1) BY <1>1, ScriptIs
<1>3. Before(a, g, l + 1) = Before(a, g, l) \cup {ScriptOf(a, g)[l]} BY <1>1, BeforeNext
<1> QED BY <1>1, <1>2, <1>3 DEF Written

LEMMA FilledNext ==
  ASSUME NEW g \in 0..Latest, 0 < g, NEW l, l = Len(ScriptOf(0, g)) + 1, NEW row
  PROVE  Written(0, g, l + 1, row) <=> Written(0, g, l, row) \/ row = AdminRole
<1>0. 0 \in 0..Latest /\ 0 # g /\ ~ (0 > g) BY RevisionFacts
<1>1. \A k \in DOMAIN ScriptOf(0, g) : k < l + 1 <=> k < l BY <1>0, ScriptIs
<1>2. l + 1 > Len(ScriptOf(0, g)) + 1 /\ ~ (l > Len(ScriptOf(0, g)) + 1) BY <1>0, ScriptIs
<1>3. Before(0, g, l + 1) = Before(0, g, l) BY <1>1 DEF Before
<1> QED BY <1>0, <1>2, <1>3 DEF Written

LEMMA DroppedNext ==
  ASSUME NEW a \in 0..Latest, NEW g \in 0..Latest, a > g, NEW l \in DOMAIN ScriptOf(a, g), NEW row
  PROVE  Written(a, g, l + 1, row) <=> Written(a, g, l, row) \/ row \in RowsOf(ScriptOf(a, g)[l])
<1>1. a # g /\ ~ (a < g) BY RevisionFacts
<1>3. Before(a, g, l + 1) = Before(a, g, l) \cup {ScriptOf(a, g)[l]} BY <1>1, BeforeNext
<1> QED BY <1>1, <1>3 DEF Written

(* All tables are written once the lines are done.                         *)
LEMMA BeforeAll ==
  ASSUME NEW a \in 0..Latest, NEW g \in 0..Latest, a # g, NEW l \in Nat, l > Len(ScriptOf(a, g))
  PROVE  /\ a < g => Before(a, g, l) = Range(Creates[a + 1])
         /\ a > g => Before(a, g, l) = Range(Creates[a])
<1>1. \A k \in DOMAIN ScriptOf(a, g) : k < l BY ScriptIs
<1>2. Before(a, g, l) = Range(ScriptOf(a, g)) BY <1>1 DEF Before, Range
<1> QED BY <1>2, ScriptIs, ScriptFacts

LEMMA Upgraded ==
  ASSUME NEW a \in 0..Latest, NEW g \in 0..Latest, a < g, NEW l \in Nat,
         l > Len(ScriptOf(a, g)) + (IF a = 0 THEN 1 ELSE 0), NEW row \in Built
  PROVE  ThereAt(a, g, l, row) <=> BuiltAt(a + 1, row)
<1>1. a # g /\ ~ (a > g) /\ a \in Nat BY RevisionFacts
<1>2. a + 1 \in 1..Latest /\ (a + 1) - 1 = a BY <1>1, ScriptIs
<1>3. Before(a, g, l) = Range(Creates[a + 1]) BY <1>1, ScriptIs, BeforeAll
<1>4. SchemaOf(a + 1) = SchemaOf(a) \cup Range(Creates[a + 1]) BY <1>2, ScriptFacts
<1>5. row = AdminRole => ThereAt(a, g, l, row) BY <1>1, ScriptIs DEF ThereAt, BuiltAt, Written
<1>6. row = AdminRole => BuiltAt(a + 1, row) BY <1>1 DEF BuiltAt
<1>7. row # AdminRole => (ThereAt(a, g, l, row) <=>
        \E t \in SchemaOf(a) \cup Range(Creates[a + 1]) : row = TableRow(t))
  BY <1>1, <1>3 DEF ThereAt, BuiltAt, Written
<1>8. row # AdminRole => (BuiltAt(a + 1, row) <=> \E t \in SchemaOf(a + 1) : row = TableRow(t))
  BY DEF BuiltAt
<1> QED BY <1>4, <1>5, <1>6, <1>7, <1>8

LEMMA Downgraded ==
  ASSUME NEW a \in 0..Latest, NEW g \in 0..Latest, a > g, NEW l \in Nat,
         l > Len(ScriptOf(a, g)), NEW row \in Built
  PROVE  ThereAt(a, g, l, row) <=> BuiltAt(a - 1, row)
<1>1. a # g /\ ~ (a < g) /\ a \in Nat BY RevisionFacts
<1>2. a \in 1..Latest /\ a - 1 \in 0..Latest BY <1>1, ScriptIs, ScriptFacts
<1>3. Before(a, g, l) = Range(Creates[a]) BY <1>1, BeforeAll
<1>4. /\ SchemaOf(a) = SchemaOf(a - 1) \cup Range(Creates[a])
      /\ SchemaOf(a - 1) \cap Range(Creates[a]) = {}
      /\ "roles" \in Range(Creates[a]) <=> a = 1
  BY <1>2, ScriptFacts
<1>5. SchemaOf(a) \subseteq Tables BY <1>2, SchemaTables
<1>6. Written(a, g, l, row) <=> \E t \in Range(Creates[a]) : row \in RowsOf(t)
  BY <1>1, <1>3 DEF Written
<1>7. CASE row = AdminRole
  <2>1. Written(a, g, l, row) <=> a = 1 BY <1>4, <1>5, <1>6, <1>7, RowsOfFacts
  <2>2. (BuiltAt(a, row) <=> a > 0) /\ (BuiltAt(a - 1, row) <=> a - 1 > 0)
    BY <1>5, <1>4, <1>7, RowFacts DEF BuiltAt, DataRows
  <2> QED BY <1>1, <1>2, <2>1, <2>2 DEF ThereAt
<1>8. CASE row # AdminRole
  <2>1. PICK s \in Tables : row = TableRow(s) BY <1>8 DEF Built
  <2>2. \A v \in 0..Latest : BuiltAt(v, row) <=> s \in SchemaOf(v)
    BY <1>8, <2>1, SchemaTables, RowFacts DEF BuiltAt
  <2>3. Written(a, g, l, row) <=> s \in Range(Creates[a])
    BY <1>4, <1>5, <1>6, <2>1, RowsOfFacts
  <2> QED BY <1>1, <1>2, <1>4, <2>2, <2>3 DEF ThereAt
<1> QED BY <1>7, <1>8

(* The order of the statements agrees with the foreign keys.               *)
LEMMA CreateInOrder ==
  ASSUME NEW a \in 0..Latest, NEW g \in 0..Latest, a < g, NEW l \in DOMAIN ScriptOf(a, g)
  PROVE  /\ ScriptOf(a, g)[l] \in Tables \ {VersionTable}
         /\ ~ ThereAt(a, g, l, TableRow(ScriptOf(a, g)[l]))
         /\ \A s \in References[ScriptOf(a, g)[l]] :
              s \in Tables \ {VersionTable} /\ ThereAt(a, g, l, TableRow(s))
<1> DEFINE t == ScriptOf(a, g)[l]
<1>1. a # g /\ ~ (a > g) /\ a \in Nat BY RevisionFacts
<1>2. a + 1 \in 1..Latest /\ (a + 1) - 1 = a /\ ScriptOf(a, g) = Creates[a + 1]
  BY <1>1, ScriptIs
<1>3. /\ t \in Tables \ {VersionTable} /\ t \notin SchemaOf(a)
      /\ \A k \in DOMAIN Creates[a + 1] : k # l => Creates[a + 1][k] # t
      /\ \A s \in References[t] :
           s \in SchemaOf(a) \/ \E k \in DOMAIN Creates[a + 1] : k < l /\ s = Creates[a + 1][k]
  BY <1>2, CreateOrder
<1>4. \A k \in DOMAIN Creates[a + 1] : Creates[a + 1][k] \in Tables \ {VersionTable}
  BY <1>2, CreateOrder
<1>5. SchemaOf(a) \subseteq Tables \ {VersionTable} BY SchemaTables
<1>6. \A s \in Tables : ThereAt(a, g, l, TableRow(s)) <=> s \in SchemaOf(a) \cup Before(a, g, l)
  <2>1. Before(a, g, l) \subseteq Tables BY <1>2, <1>4 DEF Before
  <2>2. AdminRole \notin {TableRow(s) : s \in Tables} BY RowFacts DEF DataRows
  <2> QED BY <1>1, <1>5, <2>1, <2>2, RowFacts DEF ThereAt, Written, BuiltAt
<1>7. t \notin Before(a, g, l)
  <2>1. \A k \in DOMAIN Creates[a + 1] : k < l => k # l
    <3>1. DOMAIN ScriptOf(a, g) = 1..Len(ScriptOf(a, g)) /\ Len(ScriptOf(a, g)) \in Nat
      BY <1>1, ScriptIs
    <3> QED BY <1>2, <3>1
  <2> QED BY <1>2, <1>3, <2>1 DEF Before
<1>8. \A s \in References[t] : s \in SchemaOf(a) \cup Before(a, g, l) BY <1>2, <1>3 DEF Before
<1>9. \A s \in References[t] : s \in Tables \ {VersionTable}
  <2>1. Before(a, g, l) \subseteq Tables \ {VersionTable} BY <1>2, <1>4 DEF Before
  <2> QED BY <1>5, <1>8, <2>1
<1> QED BY <1>3, <1>6, <1>7, <1>8, <1>9

LEMMA DropInOrder ==
  ASSUME NEW a \in 0..Latest, NEW g \in 0..Latest, a > g, NEW l \in DOMAIN ScriptOf(a, g)
  PROVE  /\ ScriptOf(a, g)[l] \in Tables \ {VersionTable}
         /\ ThereAt(a, g, l, TableRow(ScriptOf(a, g)[l]))
         /\ \A s \in Tables : ScriptOf(a, g)[l] \in References[s] =>
              s \in Tables \ {VersionTable} /\ ~ ThereAt(a, g, l, TableRow(s))
         /\ ScriptOf(a, g)[l] = "users" => Written(a, g, l, Grant)
<1> DEFINE t == ScriptOf(a, g)[l]
<1>1. a # g /\ ~ (a < g) /\ a \in Nat BY RevisionFacts
<1>2. a \in 1..Latest /\ ScriptOf(a, g) = Drops[a] BY <1>1, ScriptIs
<1>3. /\ t \in Tables \ {VersionTable} /\ t \in SchemaOf(a)
      /\ \A k \in DOMAIN Drops[a] : k # l => Drops[a][k] # t
      /\ \A s \in Tables : t \in References[s] =>
           \/ s \notin SchemaOf(a) /\ s # VersionTable
           \/ \E k \in DOMAIN Drops[a] : k < l /\ s = Drops[a][k]
  BY <1>2, DropOrder
<1>4. \A k \in DOMAIN Drops[a] : Drops[a][k] \in Tables \ {VersionTable} BY <1>2, DropOrder
<1>5. SchemaOf(a) \subseteq Tables \ {VersionTable} BY SchemaTables
<1>6. \A s \in Tables : ThereAt(a, g, l, TableRow(s)) <=> s \in SchemaOf(a) \ Before(a, g, l)
  <2>1. Before(a, g, l) \subseteq Tables BY <1>2, <1>4 DEF Before
  <2>2. AdminRole \notin {TableRow(s) : s \in Tables} BY RowFacts DEF DataRows
  <2>3. \A s \in Tables : Written(a, g, l, TableRow(s)) <=> s \in Before(a, g, l)
    BY <1>1, <2>1, RowsOfFacts DEF Written
  <2>4. \A s \in Tables : BuiltAt(a, TableRow(s)) <=> s \in SchemaOf(a)
    BY <1>5, <2>2, RowFacts DEF BuiltAt
  <2> QED BY <1>1, <2>3, <2>4 DEF ThereAt
<1>7. t \notin Before(a, g, l)
  <2>1. \A k \in DOMAIN Drops[a] : k < l => k # l BY <1>1, ScriptIs
  <2> QED BY <1>2, <1>3, <2>1 DEF Before
<1>8. \A s \in Tables : t \in References[s] =>
        s # VersionTable /\ s \notin SchemaOf(a) \ Before(a, g, l)
  BY <1>2, <1>3, <1>4 DEF Before
<1>9. t = "users" => Written(a, g, l, Grant)
  <2>1. "user_roles" \in Tables /\ "users" \in References["user_roles"]
    BY TableFacts, ReferenceFacts DEF FirstTables
  <2>2. "user_roles" \in SchemaOf(a) BY <1>2, ScriptFacts
  <2>3. t = "users" => "user_roles" \in Before(a, g, l) BY <1>8, <2>1, <2>2
  <2> QED BY <1>1, <2>1, <2>3, RowsOfFacts DEF Written
<1> QED BY <1>3, <1>6, <1>7, <1>8, <1>9

-----------------------------------------------------------------------------
(***************************************************************************)
(* Types.                                                                  *)
(***************************************************************************)
Fits(row, v) ==
  /\ row = Version => v \in 0..Latest
  /\ row = AdminUser => v \in Passwords \cup {NoRow}
  /\ row \notin {Version, AdminUser} => v \in {"there", NoRow}

DbOK ==
  /\ DOMAIN db = Row /\ DOMAIN work = Row
  /\ lock \in [Row -> Procs \cup {Nobody}]
  /\ \A row \in Row : Fits(row, db[row]) /\ Fits(row, work[row])

PrivateOK ==
  /\ held \in [Procs -> SUBSET (Tables \X {"read", "write", "refer"})]
  /\ pc \in [Procs -> {"idle", "begin", "table", "run", "commit"} \cup SeedSteps \cup Over]
  /\ job \in [Procs -> Jobs \cup {NoJob}]
  /\ at \in [Procs -> 0..Latest] /\ goal \in [Procs -> 0..Latest]
  /\ line \in [Procs -> 1..(Len(Creates[1]) + 2)]
  /\ alone \in [Procs -> BOOLEAN]

LEMMA FitsFacts ==
  ASSUME NEW rows
  PROVE  (\A row \in Row : Fits(row, rows[row])) <=>
         /\ \A t \in Tables : rows[TableRow(t)] \in {"there", NoRow}
         /\ rows[Version] \in 0..Latest
         /\ rows[AdminRole] \in {"there", NoRow} /\ rows[Grant] \in {"there", NoRow}
         /\ rows[AdminUser] \in Passwords \cup {NoRow}
<1>1. \A t \in Tables : TableRow(t) \in Row \ {Version, AdminUser} BY RowFacts DEF DataRows
<1>2. \A row \in Row : \/ row \in {Version, AdminRole, AdminUser, Grant}
                       \/ \E t \in Tables : row = TableRow(t)
  BY RowFacts DEF DataRows
<1>3. /\ {Version, AdminRole, AdminUser, Grant} \subseteq Row
      /\ Version # AdminUser /\ {AdminRole, Grant} \cap {Version, AdminUser} = {}
  BY RowFacts
<1> QED BY <1>1, <1>2, <1>3 DEF Fits

LEMMA TypeSplit == TypeOK <=> DbOK /\ PrivateOK
BY FitsFacts DEF TypeOK, DbOK, PrivateOK

LEMMA TypeSplitNext == TypeOK' <=> DbOK' /\ PrivateOK'
BY FitsFacts DEF TypeOK, DbOK, PrivateOK

(* What the statements do to the database: p takes some rows and writes    *)
(* them, gives all of them up, or publishes them.                          *)
Takes(p, rows) ==
  /\ db' = db
  /\ \A r \in Row : /\ r \in rows => lock[r] \in {Nobody, p} /\ lock'[r] = p
                    /\ r \notin rows => lock'[r] = lock[r] /\ work'[r] = work[r]

Releases(p) == \A r \in Row : lock'[r] = IF lock[r] = p THEN Nobody ELSE lock[r]

LEMMA NothingTaken == ASSUME NEW p \in Procs, NoSql PROVE Takes(p, {}) /\ (DbOK => DbOK')
BY DEF NoSql, Takes, DbOK

LEMMA StoreFacts ==
  ASSUME DbOK, NEW p \in Procs, NEW row \in Row, NEW val, Fits(row, val), PG!Store(p, row, val)
  PROVE  DbOK' /\ Takes(p, {row}) /\ work'[row] = val
BY DEF DbOK, Takes, PG!Store, PG!Writable

LEMMA StoreRowsFacts ==
  ASSUME DbOK, NEW p \in Procs, NEW vals, DOMAIN vals \subseteq Row,
         \A row \in DOMAIN vals : Fits(row, vals[row]), PG!StoreRows(p, vals)
  PROVE  DbOK' /\ Takes(p, DOMAIN vals) /\ \A row \in DOMAIN vals : work'[row] = vals[row]
BY DEF DbOK, Takes, PG!StoreRows, PG!Writable

LEMMA RollbackFacts ==
  ASSUME DbOK, NEW p \in Procs, PG!RollbackTx(p)
  PROVE  /\ DbOK' /\ db' = db /\ Releases(p)
         /\ \A r \in Row : work'[r] = IF lock[r] = p THEN db[r] ELSE work[r]
BY DEF DbOK, Releases, PG!RollbackTx, PG!Release

LEMMA CommitFacts ==
  ASSUME DbOK, NEW p \in Procs, PG!CommitTx(p)
  PROVE  /\ DbOK' /\ work' = work /\ Releases(p)
         /\ \A r \in Row : db'[r] = IF lock[r] = p THEN work[r] ELSE db[r]
BY DEF DbOK, Releases, PG!CommitTx, PG!Release

LEMMA VisibleIs ==
  ASSUME NEW p, NEW row
  PROVE  /\ Visible(p, row) = IF lock[row] = p THEN work[row] ELSE db[row]
         /\ Visible(p, row)' = IF lock'[row] = p THEN work'[row] ELSE db'[row]
BY DEF Visible, PG!Visible

LEMMA NoRowFacts ==
  /\ \A v \in 0..Latest : v # NoRow
  /\ \A w \in Passwords \cup {"there"} : w # NoRow
  /\ Nobody \notin Procs
BY AbsentAssumption

LEMMA HousedFacts ==
  \A h \in Housed : /\ h[1] \in Row /\ h[1] \notin Built /\ h[2] \in Tables \ {VersionTable}
                    /\ h[1] \in RowsOf(h[2])
                    /\ \A t \in Tables : h[1] \in RowsOf(t) => t = h[2]
                    /\ h[1] \notin {TableRow(t) : t \in Tables} \cup {Version, AdminRole}
                    /\ \A v : Fits(h[1], v) => v \in {NoRow} \cup Passwords \cup {"there"}
<1>1. "users" \in Tables \ {VersionTable} /\ "user_roles" \in Tables \ {VersionTable}
  BY TableFacts DEF FirstTables, VersionTable
<1>2. \A h \in Housed : h = <<AdminUser, "users">> \/ h = <<Grant, "user_roles">> BY DEF Housed
<1> QED BY <1>1, <1>2, RowFacts, BuiltFacts, RowsOfFacts DEF DataRows, Fits

-----------------------------------------------------------------------------
(***************************************************************************)
(* A command that takes no step, while p takes one.                        *)
(***************************************************************************)
LEMMA ActiveStill ==
  ASSUME NEW q \in Procs, Still(q)
  PROVE  /\ (Active(q)' <=> Active(q)) /\ (Seeding(q)' <=> Seeding(q))
         /\ \A row : Wrote(q, row)' <=> Wrote(q, row)
         /\ \A row : There(q, row)' <=> There(q, row)
         /\ \A t : Uses(q, t)' <=> Uses(q, t)
BY DEF Still, Active, Seeding, Wrote, There, Uses

LEMMA OthersJob ==
  ASSUME Inv, NEW p \in Procs, NEW q \in Procs \ {p}, Frame(p), Still(q)
  PROVE  JobInv(q)'
<1>1. Own(q)' = Own(q) BY DEF Frame, Own
<1>2. JobInv(q) BY DEF Inv
<1> QED BY <1>1, <1>2 DEF JobInv, Still, Active, Seeding

LEMMA OthersMigration ==
  ASSUME Inv, NEW p \in Procs, NEW q \in Procs \ {p}, Frame(p), Still(q)
  PROVE  MigrationInv(q)'
<1> SUFFICES ASSUME Active(q)', ~ Seeding(q)'
             PROVE  MigrationInv(q)'
  BY DEF MigrationInv
<1>1. Active(q) /\ ~ Seeding(q) BY ActiveStill
<1>2. MigrationInv(q) BY DEF Inv
<1>3. \A row \in Row : /\ lock'[row] = q <=> lock[row] = q
                       /\ lock[row] = q => work'[row] = work[row] /\ db'[row] = db[row]
  BY DEF Frame
<1>4. \A row \in Row : Wrote(q, row)' => lock'[row] = q /\ (work'[row] # NoRow <=> at'[q] < goal'[q])
  BY <1>1, <1>2, <1>3, ActiveStill DEF MigrationInv, Still
<1>5. ASSUME lock'[Version] = q
      PROVE  /\ work'[Version] = at'[q]
             /\ \A row \in Built : Visible(q, row)' # NoRow <=> There(q, row)'
  <2>1. lock[Version] = q BY <1>3, <1>5, RowFacts
  <2>2. work'[Version] = at'[q] BY <1>1, <1>2, <1>3, <2>1, RowFacts DEF MigrationInv, Still
  <2>3. ASSUME NEW row \in Built PROVE Visible(q, row)' = Visible(q, row)
    <3>1. row \in Row /\ row \notin {AdminUser, Grant, Version} BY BuiltFacts
    <3>2. CASE lock[row] = q BY <1>3, <3>1, <3>2, VisibleIs
    <3>3. CASE lock[row] # q
      <4>1. db'[row] = db[row]
        <5>1. SUFFICES ASSUME db'[row] # db[row] PROVE FALSE OBVIOUS
        <5>2. lock[row] = p /\ db'[row] = work[row] /\ pc[p] = "commit" BY <3>1, <5>1 DEF Frame
        <5>3. Active(p) BY <5>2 DEF Active, Over
        <5>4. ~ Seeding(p) BY <3>1, <5>2, <5>3 DEF Inv, SeedInv, Own
        <5>5. at[p] = goal[p] /\ at[p] \in 0..Latest /\ goal[p] \in 0..Latest
          BY <5>2, <5>4, TypeSplit DEF Inv, JobInv, PrivateOK
        <5>6. ~ Wrote(p, row) BY <5>5, NothingWritten DEF Wrote
        <5>7. work[row] = db[row]
          BY <2>1, <5>2, <5>3, <5>4, <5>6 DEF Inv, MigrationInv
        <5> QED BY <5>1, <5>2, <5>7
      <4> QED BY <1>3, <3>1, <3>3, <4>1, VisibleIs
    <3> QED BY <3>2, <3>3
  <2> QED BY <1>1, <1>2, <2>1, <2>2, <2>3, ActiveStill DEF MigrationInv
<1>6. ASSUME lock'[Version] # q, NEW row \in Built, lock'[row] = q, ~ Wrote(q, row)'
      PROVE  work'[row] = db'[row]
  <2>1. lock[Version] # q /\ lock[row] = q /\ ~ Wrote(q, row)
    BY <1>3, <1>6, RowFacts, BuiltFacts, ActiveStill
  <2>2. work[row] = db[row] BY <1>1, <1>2, <2>1 DEF MigrationInv
  <2> QED BY <1>3, <2>1, <2>2, BuiltFacts
<1>7. lock'[AdminUser] = q => lock'[Grant] = q BY <1>1, <1>2, <1>3, RowFacts DEF MigrationInv
<1>8. ASSUME NEW h \in Housed
      PROVE  /\ lock'[h[1]] = q => work'[h[1]] = NoRow /\ lock'[TableRow(h[2])] = q
             /\ lock'[TableRow(h[2])] = q /\ work'[TableRow(h[2])] = NoRow /\ db'[TableRow(h[2])] # NoRow
                  => lock'[h[1]] = q
  <2>1. h[1] \in Row /\ TableRow(h[2]) \in Row BY HousedFacts, RowFacts
  <2>2. /\ lock[h[1]] = q => work[h[1]] = NoRow /\ lock[TableRow(h[2])] = q
        /\ lock[TableRow(h[2])] = q /\ work[TableRow(h[2])] = NoRow /\ db[TableRow(h[2])] # NoRow
             => lock[h[1]] = q
    BY <1>1, <1>2 DEF MigrationInv
  <2> QED BY <1>3, <2>1, <2>2
<1> QED BY <1>4, <1>5, <1>6, <1>7, <1>8 DEF MigrationInv

LEMMA OthersSeed ==
  ASSUME Inv, NEW p \in Procs, NEW q \in Procs \ {p}, Frame(p), Still(q)
  PROVE  SeedInv(q)'
<1> SUFFICES ASSUME Active(q)', Seeding(q)'
             PROVE  SeedInv(q)'
  BY DEF SeedInv
<1>1. Active(q) /\ Seeding(q) BY ActiveStill
<1>2. SeedInv(q) BY DEF Inv
<1>3. \A row \in Row : /\ lock'[row] = q <=> lock[row] = q
                       /\ lock[row] = q => work'[row] = work[row] /\ db'[row] = db[row]
  BY DEF Frame
<1>4. ASSUME NEW t \in Tables, Uses(q, t)'
      PROVE  lock'[TableRow(t)] = Nobody /\ db'[TableRow(t)] # NoRow
  <2>1. Uses(q, t) BY <1>4, ActiveStill
  <2>2. lock[TableRow(t)] = Nobody /\ db[TableRow(t)] # NoRow BY <1>1, <1>2, <2>1 DEF SeedInv
  <2>3. lock'[TableRow(t)] = Nobody BY <1>1, <2>1 DEF Frame
  <2>4. db'[TableRow(t)] = db[TableRow(t)] BY <2>2, RowFacts, NoRowFacts DEF Frame
  <2> QED BY <2>2, <2>3, <2>4
<1>5. Own(q)' \subseteq {row \in {AdminUser, Grant} : job'[q].admin}
  BY <1>1, <1>2, <1>3 DEF SeedInv, Own, Still
<1>6. lock'[AdminUser] = q => /\ pc'[q] \in {"role", "flush", "commit"}
                              /\ db'[AdminUser] = NoRow /\ work'[AdminUser] # NoRow
                              /\ Uses(q, "users")'
  BY <1>1, <1>2, <1>3, RowFacts, ActiveStill DEF SeedInv, Still
<1>7. lock'[Grant] = q => pc'[q] = "commit" /\ work'[Grant] # NoRow /\ Uses(q, "user_roles")'
  BY <1>1, <1>2, <1>3, RowFacts, ActiveStill DEF SeedInv, Still
(* Rows that a seed has seen stay, while it uses their table.              *)
<1>8. ASSUME NEW h \in Housed, Uses(q, h[2]), Visible(q, h[1]) # NoRow
      PROVE  Visible(q, h[1])' # NoRow
  <2>1. h[1] \in Row /\ h[2] \in Tables BY HousedFacts
  <2>2. CASE lock[h[1]] = q BY <1>3, <1>8, <2>1, <2>2, VisibleIs
  <2>3. CASE lock[h[1]] # q /\ db'[h[1]] = db[h[1]] BY <1>3, <1>8, <2>1, <2>3, VisibleIs
  <2>4. CASE lock[h[1]] # q /\ db'[h[1]] # db[h[1]]
    <3>1. lock[h[1]] = p /\ db'[h[1]] = work[h[1]] /\ pc[p] = "commit" BY <2>1, <2>4 DEF Frame
    <3>2. Active(p) BY <3>1 DEF Active, Over
    <3>3. lock[TableRow(h[2])] = Nobody BY <1>1, <1>2, <1>8, <2>1 DEF SeedInv
    <3>4. Seeding(p) BY <3>1, <3>2, <3>3, NoRowFacts DEF Inv, MigrationInv
    <3>5. work[h[1]] # NoRow
      <4>1. h[1] \in {AdminUser, Grant} BY DEF Housed
      <4> QED BY <3>1, <3>2, <3>4, <4>1 DEF Inv, SeedInv
    <3> QED BY <1>3, <2>1, <2>4, <3>1, <3>5, VisibleIs
  <2> QED BY <2>2, <2>3, <2>4
<1>9. job'[q].admin /\ pc'[q] \in {"load", "role", "flush", "commit"} =>
        Uses(q, "users")' /\ Visible(q, AdminUser)' # NoRow
  <2>1. <<AdminUser, "users">> \in Housed BY DEF Housed
  <2> QED BY <1>1, <1>2, <1>8, <2>1, ActiveStill DEF SeedInv, Still
<1>10. job'[q].admin /\ (pc'[q] = "commit" \/ job'[q].granted) =>
         Uses(q, "user_roles")' /\ Visible(q, Grant)' # NoRow
  <2>1. <<Grant, "user_roles">> \in Housed BY DEF Housed
  <2> QED BY <1>1, <1>2, <1>8, <2>1, ActiveStill DEF SeedInv, Still
<1> QED BY <1>4, <1>5, <1>6, <1>7, <1>9, <1>10 DEF SeedInv

LEMMA OthersAlone ==
  ASSUME Inv, NEW p \in Procs, NEW q \in Procs \ {p}, Frame(p), Still(q),
         alone'[q] => alone[q] /\ (Active(p) \/ ~ Active(q))
  PROVE  AloneInv(q)'
<1> SUFFICES ASSUME alone'[q], Active(q)' PROVE FALSE BY DEF AloneInv
<1>1. Active(q) /\ alone[q] /\ Active(p) BY ActiveStill
<1> QED BY <1>1 DEF Inv, AloneInv

(* What is left to show of a step.                                         *)
Kept(p) ==
  /\ Frame(p)
  /\ \A q \in Procs \ {p} : Still(q) /\ (alone'[q] => alone[q] /\ (Active(p) \/ ~ Active(q)))

LEMMA StepKeeps ==
  ASSUME Inv, TypeOK', NEW p \in Procs, Kept(p), Schema', Clean', OwnInv(p)',
         pc'[p] = "failed" /\ alone'[p] => job'[p].cmd = "seed" /\ ~ job'[p].migrated
  PROVE  Inv'
<1>1. ASSUME NEW q \in Procs
      PROVE  (JobInv(q) /\ MigrationInv(q) /\ SeedInv(q) /\ AloneInv(q))'
  <2>1. CASE q = p BY <2>1 DEF OwnInv
  <2>2. CASE q # p BY <2>2, OthersJob, OthersMigration, OthersSeed, OthersAlone DEF Kept
  <2> QED BY <2>1, <2>2
<1>2. AloneSucceeds'
  <2>1. AloneSucceeds BY DEF Inv
  <2> QED BY <2>1 DEF AloneSucceeds, Kept, Still
<1> QED BY <1>1, <1>2 DEF Inv

(* A statement.                                                            *)
LEMMA TakesKeeps ==
  ASSUME Inv, TypeOK', NEW p \in Procs, NEW rows, Takes(p, rows),
         \A q \in Procs \ {p} : Still(q) /\ (alone'[q] => alone[q] /\ (Active(p) \/ ~ Active(q))),
         \A q \in Procs \ {p}, t \in Tables :
           Active(q) /\ Seeding(q) /\ Uses(q, t) => TableRow(t) \notin rows,
         OwnInv(p)', pc'[p] # "failed"
  PROVE  Inv'
<1>1. \A row \in Row, q \in Procs \ {p} :
        (lock'[row] = q <=> lock[row] = q) /\ (lock[row] = q => work'[row] = work[row])
  BY NoRowFacts DEF Takes
<1>2. \A q \in Procs \ {p}, t \in Tables :
        Active(q) /\ Seeding(q) /\ Uses(q, t) => lock'[TableRow(t)] = Nobody
  BY RowFacts DEF Takes, Inv, SeedInv
<1>3. Kept(p) BY <1>1, <1>2 DEF Kept, Frame, Takes
<1>4. Schema'
  <2>1. Schema BY DEF Inv
  <2> QED BY <2>1 DEF Schema, Takes
<1>5. Clean'
  <2>1. Clean BY DEF Inv
  <2> QED BY <2>1, NoRowFacts DEF Clean, Takes
<1> QED BY <1>3, <1>4, <1>5, StepKeeps

(* A command that has ended holds nothing.                                 *)
LEMMA EndedOwn ==
  ASSUME NEW p \in Procs, ~ Active(p)', Own(p)' = {}, held'[p] = {}, at'[p] = goal'[p], line'[p] = 1,
         pc'[p] \in Over
  PROVE  OwnInv(p)'
BY DEF OwnInv, JobInv, MigrationInv, SeedInv, AloneInv, Over, SeedSteps

LEMMA EndsFacts ==
  ASSUME PrivateOK, NEW p \in Procs, NEW outcome \in Over, Ends(p, outcome), UNCHANGED <<job, alone>>
  PROVE  /\ PrivateOK' /\ pc'[p] = outcome /\ ~ Active(p)'
         /\ held'[p] = {} /\ at'[p] = goal'[p] /\ line'[p] = 1
         /\ \A q \in Procs \ {p} : Still(q)
<1>1. 0 \in 0..Latest /\ 1 \in 1..(Len(Creates[1]) + 2) BY RevisionFacts
<1> QED BY <1>1 DEF PrivateOK, Ends, Goto, Active, Still

LEMMA ReleasesOwn ==
  ASSUME NEW p \in Procs, Releases(p)
  PROVE  /\ Own(p)' = {}
         /\ \A row \in Row, q \in Procs \ {p} : lock'[row] = q <=> lock[row] = q
         /\ \A row \in Row : lock[row] = Nobody => lock'[row] = Nobody
BY NoRowFacts DEF Releases, Own

LEMMA RollbackKeeps ==
  ASSUME Inv, NEW p \in Procs, NEW outcome \in Over, Active(p), Rollback(p, outcome),
         UNCHANGED <<job, alone>>,
         outcome = "failed" /\ alone[p] => job[p].cmd = "seed" /\ ~ job[p].migrated
  PROVE  Inv'
<1>0. DbOK /\ PrivateOK BY TypeSplit DEF Inv
<1>1. PG!RollbackTx(p) /\ Ends(p, outcome) BY DEF Rollback
<1>2. /\ DbOK' /\ db' = db /\ Releases(p)
      /\ \A r \in Row : work'[r] = IF lock[r] = p THEN db[r] ELSE work[r]
  BY <1>0, <1>1, RollbackFacts
<1>3. /\ PrivateOK' /\ pc'[p] = outcome /\ ~ Active(p)'
      /\ held'[p] = {} /\ at'[p] = goal'[p] /\ line'[p] = 1
      /\ \A q \in Procs \ {p} : Still(q)
  BY <1>0, <1>1, EndsFacts
<1>4. /\ Own(p)' = {}
      /\ \A row \in Row, q \in Procs \ {p} : lock'[row] = q <=> lock[row] = q
      /\ \A row \in Row : lock[row] = Nobody => lock'[row] = Nobody
  BY <1>2, ReleasesOwn
<1>5. OwnInv(p)' BY <1>3, <1>4, EndedOwn
<1>6. Frame(p)
  <2>1. \A q \in Procs \ {p}, t \in Tables :
          Active(q) /\ Seeding(q) /\ Uses(q, t) => lock'[TableRow(t)] = Nobody
    BY <1>4, RowFacts DEF Inv, SeedInv
  <2> QED BY <1>2, <1>4, <2>1 DEF Frame
<1>7. Kept(p) BY <1>3, <1>6 DEF Kept
<1>8. Schema'
  <2>1. Schema BY DEF Inv
  <2> QED BY <2>1, <1>2 DEF Schema
<1>9. Clean'
  <2>1. Clean BY DEF Inv
  <2> QED BY <2>1, <1>2 DEF Clean, Releases
<1>10. TypeOK' BY <1>2, <1>3, TypeSplitNext
<1> QED BY <1>3, <1>5, <1>7, <1>8, <1>9, <1>10, StepKeeps

(* A commit publishes a schema and its revision together.                  *)
LEMMA CommitSchema ==
  ASSUME Inv, NEW p \in Procs, pc[p] = "commit",
         \A r \in Row : db'[r] = IF lock[r] = p THEN work[r] ELSE db[r]
  PROVE  Schema'
<1>1. Active(p) BY DEF Active, Over
<1>2. /\ \A row \in Built : row \in Row /\ row \notin {AdminUser, Grant, Version}
      /\ \A h \in Housed : h[1] \in Row /\ h[1] \in {AdminUser, Grant} /\ TableRow(h[2]) \in Row
                         /\ h[2] \in Tables
      /\ Version \in Row /\ AdminUser \in Row /\ Grant \in Row /\ Version \notin {AdminUser, Grant}
  BY BuiltFacts, HousedFacts, RowFacts DEF Housed
<1>3. Schema /\ SeedInv(p) /\ MigrationInv(p) /\ JobInv(p) /\ PrivateOK BY TypeSplit DEF Inv
<1>4. \A t \in Tables : TableRow(t) \notin {AdminUser, Grant} BY RowFacts DEF DataRows
<1>5. CASE Seeding(p)
  <2>1. \A row \in Row : lock[row] = p => row \in {AdminUser, Grant} /\ job[p].admin
    BY <1>1, <1>3, <1>5 DEF SeedInv, Own
  <2>2. \A row \in Built \cup {Version} : db'[row] = db[row] BY <1>2, <2>1
  <2>3. \A row \in Built : db'[row] # NoRow <=> BuiltAt(db'[Version], row)
    BY <1>3, <2>2 DEF Schema
  <2>4. \A h \in Housed : db'[TableRow(h[2])] = db[TableRow(h[2])] BY <1>2, <1>4, <2>1
  <2>5. ASSUME NEW h \in Housed, db'[h[1]] # NoRow PROVE db'[TableRow(h[2])] # NoRow
    <3>1. CASE lock[h[1]] = p
      <4>1. Uses(p, h[2]) BY <1>1, <1>3, <1>5, <3>1, RowFacts DEF SeedInv, Housed
      <4> QED BY <1>1, <1>2, <1>3, <1>5, <2>4, <4>1 DEF SeedInv
    <3>2. CASE lock[h[1]] # p BY <1>2, <1>3, <2>4, <2>5, <3>2 DEF Schema
    <3> QED BY <3>1, <3>2
  <2>6. ASSUME db'[Grant] # NoRow PROVE db'[AdminUser] # NoRow
    <3>1. CASE lock[Grant] = p
      <4>1. Visible(p, AdminUser) # NoRow BY <1>1, <1>2, <1>3, <1>5, <2>1, <3>1 DEF SeedInv
      <4> QED BY <1>2, <4>1, VisibleIs
    <3>2. CASE lock[Grant] # p /\ lock[AdminUser] = p BY <1>1, <1>2, <1>3, <1>5, <3>2 DEF SeedInv
    <3>3. CASE lock[Grant] # p /\ lock[AdminUser] # p BY <1>2, <1>3, <2>6, <3>3 DEF Schema
    <3> QED BY <3>1, <3>2, <3>3
  <2> QED BY <2>3, <2>5, <2>6 DEF Schema
<1>6. CASE ~ Seeding(p)
  <2>1. at[p] = goal[p] /\ at[p] \in 0..Latest /\ goal[p] \in 0..Latest
    BY <1>3, <1>6 DEF JobInv, PrivateOK
  <2>2. \A row : ~ Wrote(p, row) BY <2>1, NothingWritten DEF Wrote
  <2>3. ~ (at[p] < goal[p]) BY <2>1, RevisionFacts
  <2>4. \A row \in Built : There(p, row) <=> BuiltAt(at[p], row) BY <2>2, <2>3 DEF There, ThereAt, Wrote
  <2>5. \A row \in Built : db'[row] # NoRow <=> BuiltAt(db'[Version], row)
    <3>1. CASE lock[Version] = p
      <4>1. db'[Version] = at[p] BY <1>1, <1>2, <1>3, <1>6, <3>1 DEF MigrationInv
      <4>2. \A row \in Built : db'[row] = Visible(p, row) BY <1>2, VisibleIs
      <4> QED BY <1>1, <1>3, <1>6, <2>4, <3>1, <4>1, <4>2 DEF MigrationInv
    <3>2. CASE lock[Version] # p
      <4>1. db'[Version] = db[Version] BY <1>2, <3>2
      <4>2. \A row \in Built : db'[row] = db[row] BY <1>1, <1>2, <1>3, <1>6, <2>2, <3>2 DEF MigrationInv
      <4> QED BY <1>3, <4>1, <4>2 DEF Schema
    <3> QED BY <3>1, <3>2
  <2>6. ASSUME NEW h \in Housed, db'[h[1]] # NoRow PROVE db'[TableRow(h[2])] # NoRow
    <3>1. lock[h[1]] # p BY <1>1, <1>2, <1>3, <1>6, <2>6 DEF MigrationInv
    <3>2. db[TableRow(h[2])] # NoRow BY <1>2, <1>3, <2>6, <3>1 DEF Schema
    <3> QED BY <1>1, <1>2, <1>3, <1>6, <3>1, <3>2 DEF MigrationInv
  <2>7. ASSUME db'[Grant] # NoRow PROVE db'[AdminUser] # NoRow
    <3>1. <<Grant, "user_roles">> \in Housed BY DEF Housed
    <3>2. lock[Grant] # p BY <1>1, <1>2, <1>3, <1>6, <2>7, <3>1 DEF MigrationInv
    <3>3. lock[AdminUser] # p BY <1>1, <1>3, <1>6, <3>2 DEF MigrationInv
    <3> QED BY <1>2, <1>3, <2>7, <3>2, <3>3 DEF Schema
  <2> QED BY <2>5, <2>6, <2>7 DEF Schema
<1> QED BY <1>5, <1>6

LEMMA CommitKeeps ==
  ASSUME Inv, NEW p \in Procs, Commit(p)
  PROVE  Inv'
<1>0. DbOK /\ PrivateOK /\ "done" \in Over BY TypeSplit DEF Inv, Over
<1>1. pc[p] = "commit" /\ PG!CommitTx(p) /\ Ends(p, "done") /\ UNCHANGED <<job, alone>>
  BY DEF Commit
<1>2. /\ DbOK' /\ work' = work /\ Releases(p)
      /\ \A r \in Row : db'[r] = IF lock[r] = p THEN work[r] ELSE db[r]
  BY <1>0, <1>1, CommitFacts
<1>3. /\ PrivateOK' /\ pc'[p] = "done" /\ ~ Active(p)'
      /\ held'[p] = {} /\ at'[p] = goal'[p] /\ line'[p] = 1
      /\ \A q \in Procs \ {p} : Still(q)
  BY <1>0, <1>1, EndsFacts
<1>4. /\ Own(p)' = {}
      /\ \A row \in Row, q \in Procs \ {p} : lock'[row] = q <=> lock[row] = q
      /\ \A row \in Row : lock[row] = Nobody => lock'[row] = Nobody
  BY <1>2, ReleasesOwn
<1>5. OwnInv(p)' BY <1>0, <1>3, <1>4, EndedOwn
<1>6. Frame(p)
  <2>1. \A q \in Procs \ {p}, t \in Tables :
          Active(q) /\ Seeding(q) /\ Uses(q, t) => lock'[TableRow(t)] = Nobody
    BY <1>4, RowFacts DEF Inv, SeedInv
  <2> QED BY <1>1, <1>2, <1>4, <2>1 DEF Frame
<1>7. Active(p) BY <1>1 DEF Active, Over
<1>8. Kept(p) BY <1>1, <1>3, <1>6, <1>7 DEF Kept
<1>9. Schema' BY <1>1, <1>2, CommitSchema
<1>10. Clean'
  <2>1. Clean BY DEF Inv
  <2> QED BY <2>1, <1>2 DEF Clean, Releases
<1>11. TypeOK' BY <1>2, <1>3, TypeSplitNext
<1> QED BY <1>3, <1>5, <1>8, <1>9, <1>10, <1>11, StepKeeps

-----------------------------------------------------------------------------
(***************************************************************************)
(* Where a migration is.                                                   *)
(***************************************************************************)
LEMMA MigrationAt ==
  ASSUME Inv, NEW p \in Procs
  PROVE  /\ at[p] \in 0..Latest /\ goal[p] \in 0..Latest /\ line[p] \in Nat
         /\ Script(p) = ScriptOf(at[p], goal[p])
         /\ Table(p) = ScriptOf(at[p], goal[p])[line[p]]
         /\ Active(p) => job[p] \in Jobs
         /\ pc[p] = "run" => Active(p) /\ ~ Seeding(p)
         /\ \A row \in Row : lock[row] = Nobody => Visible(p, row) = db[row] /\ work[row] = db[row]
<1>1. PrivateOK /\ DbOK /\ JobInv(p) /\ Clean BY TypeSplit DEF Inv
<1>2. line[p] \in Nat BY <1>1, RevisionFacts DEF PrivateOK
<1>3. pc[p] = "run" => Active(p) /\ ~ Seeding(p) BY <1>1 DEF JobInv, Active, Over
<1> QED BY <1>1, <1>2, <1>3, NoRowFacts, VisibleIs
    DEF PrivateOK, Script, ScriptOf, Table, Clean, JobInv

LEMMA DoingFacts ==
  ASSUME Inv, NEW p \in Procs, pc[p] = "run"
  PROVE  /\ Doing(p) = "nothing" => at[p] = goal[p]
         /\ Doing(p) \in {"create", "drop"} => line[p] \in DOMAIN ScriptOf(at[p], goal[p])
         /\ Doing(p) = "create" => at[p] < goal[p]
         /\ Doing(p) = "drop" => at[p] > goal[p]
         /\ Doing(p) = "fill" => /\ at[p] = 0 /\ 0 < goal[p]
                                /\ line[p] = Len(ScriptOf(at[p], goal[p])) + 1
         /\ Doing(p) = "stamp" => /\ at[p] # goal[p]
                                 /\ line[p] > Len(ScriptOf(at[p], goal[p]))
                                              + (IF at[p] = 0 THEN 1 ELSE 0)
         /\ Doing(p) # "nothing" => at[p] # goal[p]
<1> DEFINE a == at[p]  g == goal[p]  l == line[p]  n == Len(ScriptOf(a, g))
<1>1. a \in 0..Latest /\ g \in 0..Latest /\ l \in Nat /\ Script(p) = ScriptOf(a, g) BY MigrationAt
<1>2. CASE a = g
  <2>1. Doing(p) = "nothing" BY <1>2 DEF Doing
  <2> QED BY <1>2, <2>1
<1>3. CASE a # g
  <2>1. l \in 1..(n + (IF a = 0 THEN 2 ELSE 1)) BY <1>3 DEF Inv, JobInv
  <2>2. (a < g \/ a > g) /\ DOMAIN ScriptOf(a, g) = 1..n /\ n \in Nat
    <3>1. n \in 1..Len(Creates[1]) /\ Len(Creates[1]) \in Nat BY <1>1, <1>3, ScriptIs
    <3>2. n \in Nat BY <3>1
    <3> QED BY <1>1, <1>3, <3>2, ScriptIs
  <2>3. a \in Nat /\ g \in Nat BY <1>1, RevisionFacts
  <2>4. CASE l \in 1..n
    <3>1. Doing(p) = IF a < g THEN "create" ELSE "drop" BY <1>1, <1>3, <2>2, <2>4 DEF Doing
    <3>2. (a < g => ~ (a > g)) /\ l \in DOMAIN ScriptOf(a, g) BY <2>2, <2>3, <2>4
    <3>3. CASE a < g
      <4>1. Doing(p) = "create" BY <3>1, <3>3
      <4> QED BY <1>3, <3>2, <3>3, <4>1
    <3>4. CASE a > g
      <4>1. Doing(p) = "drop" BY <3>1, <3>2, <3>4
      <4> QED BY <1>3, <3>2, <3>4, <4>1
    <3> QED BY <2>2, <3>3, <3>4
  <2>5. CASE l \notin 1..n
    <3>1. l > n BY <1>1, <2>1, <2>2, <2>5
    <3>2. Doing(p) = IF a = 0 /\ l = n + 1 THEN "fill" ELSE "stamp"
      BY <1>1, <1>3, <2>2, <2>5 DEF Doing
    <3>3. ~ (a = 0 /\ l = n + 1) => l > n + (IF a = 0 THEN 1 ELSE 0) BY <1>1, <2>2, <3>1
    <3>4. a = 0 => 0 < g BY <1>3, <2>3
    <3> QED BY <1>3, <3>2, <3>3, <3>4
  <2> QED BY <2>4, <2>5
<1> QED BY <1>2, <1>3

(* Whoever has stamped, or has read a revision that is still the committed *)
(* one, finds exactly what its statements so far have left.                *)
LEMMA Sees ==
  ASSUME Inv, NEW p \in Procs, Active(p), ~ Seeding(p), lock[Version] = p \/ db[Version] = at[p]
  PROVE  \A row \in Built : Visible(p, row) # NoRow <=> There(p, row)
<1>1. Schema /\ MigrationInv(p) BY DEF Inv
<1>2. CASE lock[Version] = p BY <1>1, <1>2 DEF MigrationInv
<1>3. CASE lock[Version] # p
  <2> SUFFICES ASSUME NEW row \in Built PROVE Visible(p, row) # NoRow <=> There(p, row) OBVIOUS
  <2>1. row \in Row BY BuiltFacts
  <2>2. db[row] # NoRow <=> BuiltAt(at[p], row) BY <1>1, <1>3 DEF Schema
  <2>3. CASE Wrote(p, row)
    <3>1. lock[row] = p /\ (work[row] # NoRow <=> at[p] < goal[p]) BY <1>1, <2>1, <2>3 DEF MigrationInv
    <3>2. There(p, row) <=> at[p] < goal[p] BY <2>3 DEF There, ThereAt, Wrote
    <3> QED BY <3>1, <3>2, VisibleIs
  <2>4. CASE ~ Wrote(p, row)
    <3>1. Visible(p, row) = db[row] BY <1>1, <1>3, <2>4, VisibleIs DEF MigrationInv
    <3>2. There(p, row) <=> BuiltAt(at[p], row) BY <2>4 DEF There, ThereAt, Wrote
    <3> QED BY <2>2, <3>1, <3>2
  <2> QED BY <2>3, <2>4
<1> QED BY <1>2, <1>3

-----------------------------------------------------------------------------
(***************************************************************************)
(* A command that runs by itself does not fail.                            *)
(***************************************************************************)
LEMMA Unrivalled ==
  ASSUME Inv, NEW p \in Procs, Active(p), alone[p]
  PROVE  /\ \A q \in Procs \ {p} : held[q] = {} /\ \A row \in Row : lock[row] # q
         /\ \A row \in Row : lock[row] \in {Nobody, p} /\ work[row] = Visible(p, row)
<1>1. \A q \in Procs \ {p} : held[q] = {} /\ Own(q) = {} BY DEF Inv, AloneInv, JobInv
<1>2. \A q \in Procs \ {p} : \A row \in Row : lock[row] # q BY <1>1 DEF Own
<1>3. \A row \in Row : lock[row] \in Procs \cup {Nobody} BY TypeSplit DEF Inv, DbOK
<1>4. \A row \in Row : lock[row] \in {Nobody, p} BY <1>2, <1>3
<1> QED BY <1>1, <1>2, <1>4, MigrationAt, VisibleIs

LEMMA AloneRuns ==
  ASSUME Inv, NEW p \in Procs, pc[p] = "run", alone[p]
  PROVE  /\ work[Version] = at[p]
         /\ \A row \in Built : work[row] # NoRow <=> There(p, row)
<1>1. Active(p) /\ ~ Seeding(p) BY MigrationAt
<1>2. MigrationInv(p) /\ AloneInv(p) BY DEF Inv
<1>3. lock[Version] # p => db[Version] = at[p] BY <1>1, <1>2 DEF AloneInv
<1>4. \A row \in Row : work[row] = Visible(p, row) BY <1>1, Unrivalled
<1>5. \A row \in Built : Visible(p, row) # NoRow <=> There(p, row) BY <1>1, <1>3, Sees
<1>6. work[Version] = at[p]
  <2>1. Version \in Row BY RowFacts
  <2> QED BY <1>1, <1>2, <1>3, <1>4, <2>1, VisibleIs DEF MigrationInv
<1> QED BY <1>4, <1>5, <1>6, BuiltFacts

LEMMA AloneCreates ==
  ASSUME Inv, NEW p \in Procs, Now(p, "create"), alone[p]
  PROVE  /\ work[TableRow(Table(p))] = NoRow
         /\ \A s \in References[Table(p)] : work[TableRow(s)] # NoRow
<1>1. pc[p] = "run" /\ Doing(p) = "create" BY DEF Now
<1>2. at[p] < goal[p] /\ line[p] \in DOMAIN ScriptOf(at[p], goal[p]) BY <1>1, DoingFacts
<1>3. at[p] \in 0..Latest /\ goal[p] \in 0..Latest
      /\ Table(p) = ScriptOf(at[p], goal[p])[line[p]]
  BY MigrationAt
<1>4. /\ Table(p) \in Tables \ {VersionTable}
      /\ ~ There(p, TableRow(Table(p)))
      /\ \A s \in References[Table(p)] : s \in Tables \ {VersionTable} /\ There(p, TableRow(s))
  BY <1>2, <1>3, CreateInOrder DEF There
<1> QED BY <1>1, <1>4, AloneRuns, BuiltFacts

LEMMA AloneDrops ==
  ASSUME Inv, NEW p \in Procs, Now(p, "drop"), alone[p]
  PROVE  /\ work[TableRow(Table(p))] # NoRow
         /\ \A s \in Tables : Table(p) \in References[s] => work[TableRow(s)] = NoRow
<1>1. pc[p] = "run" /\ Doing(p) = "drop" BY DEF Now
<1>2. at[p] > goal[p] /\ line[p] \in DOMAIN ScriptOf(at[p], goal[p]) BY <1>1, DoingFacts
<1>3. at[p] \in 0..Latest /\ goal[p] \in 0..Latest
      /\ Table(p) = ScriptOf(at[p], goal[p])[line[p]]
  BY MigrationAt
<1>4. /\ Table(p) \in Tables \ {VersionTable}
      /\ There(p, TableRow(Table(p)))
      /\ \A s \in Tables : Table(p) \in References[s] =>
           s \in Tables \ {VersionTable} /\ ~ There(p, TableRow(s))
  BY <1>2, <1>3, DropInOrder DEF There
<1> QED BY <1>1, <1>4, AloneRuns, BuiltFacts

(* What a seed by itself, after a migration, finds.                        *)
LEMMA AloneSeeds ==
  ASSUME Inv, NEW p \in Procs, pc[p] \in SeedSteps, alone[p]
  PROVE  /\ pc[p] = "make" => work[AdminUser] = NoRow
         /\ pc[p] = "flush" => work[Grant] = NoRow
         /\ job[p].migrated => Exists(p, TableOf[pc[p]])
<1>1. Active(p) /\ Seeding(p) BY DEF Inv, JobInv, SeedSteps, Active, Over
<1>2. SeedInv(p) /\ AloneInv(p) /\ JobInv(p) /\ Schema BY DEF Inv
<1>3. AdminUser \in Row /\ Grant \in Row BY RowFacts
<1>4. \A row \in Row : work[row] = Visible(p, row) BY <1>1, Unrivalled
<1>5. pc[p] = "make" => work[AdminUser] = NoRow
  BY <1>1, <1>2, <1>3, <1>4, VisibleIs DEF SeedInv, AloneInv
<1>6. pc[p] = "flush" => work[Grant] = NoRow
  BY <1>1, <1>2, <1>3, <1>4, VisibleIs DEF SeedInv, AloneInv, JobInv
<1>7. ASSUME job[p].migrated PROVE Exists(p, TableOf[pc[p]])
  <2>1. TableOf[pc[p]] \in {"users", "user_roles", "roles"} BY DEF TableOf, SeedSteps
  <2>2. db[Version] > 0 /\ db[Version] \in 0..Latest
    BY <1>1, <1>2, <1>7, RowFacts, TypeSplit DEF AloneInv, Inv, DbOK, Fits
  <2>3. TableOf[pc[p]] \in SchemaOf(db[Version])
    <3>1. db[Version] \in 1..Latest BY <2>2, RevisionFacts
    <3> QED BY <2>1, <3>1, ScriptFacts
  <2>4. TableOf[pc[p]] \in Tables \ {VersionTable} BY <2>2, <2>3, SchemaTables
  <2>5. db[TableRow(TableOf[pc[p]])] # NoRow BY <1>2, <2>3, <2>4, BuiltFacts DEF Schema, BuiltAt
  <2>6. lock[TableRow(TableOf[pc[p]])] # p
    BY <1>1, <1>2, <2>4, RowFacts DEF SeedInv, Own, DataRows
  <2> QED BY <2>5, <2>6, VisibleIs DEF Exists
<1> QED BY <1>5, <1>6, <1>7

(* The table of the next statement, and those it refers to.                *)
LEMMA NextTable ==
  ASSUME Inv, NEW p \in Procs, pc[p] = "run", Doing(p) \in {"create", "drop"}
  PROVE  Table(p) \in Tables /\ References[Table(p)] \subseteq Tables
<1>1. line[p] \in DOMAIN ScriptOf(at[p], goal[p]) /\ (at[p] < goal[p] \/ at[p] > goal[p])
  BY DoingFacts
<1>2. Table(p) \in Tables BY <1>1, MigrationAt, CreateInOrder, DropInOrder
<1> QED BY <1>2, ReferenceFacts

LEMMA AloneIsNotBlocked ==
  ASSUME Inv, NEW p \in Procs, Active(p), alone[p]
  PROVE  Blockers(p) = {}
<1>1. \A q \in Procs \ {p} : held[q] = {} /\ \A row \in Row : lock[row] # q BY Unrivalled
<1>2. \A row \in Row : {lock[row]} \ {p, Nobody} = {} BY Unrivalled
<1>3. ASSUME NEW t \in Tables, NEW modes PROVE Holders(p, t, modes) = {}
  <2>1. TableRow(t) \in Row BY RowFacts
  <2> SUFFICES ASSUME NEW q \in Holders(p, t, modes) PROVE FALSE OBVIOUS
  <2>2. q \in Procs \ {p} /\ (lock[TableRow(t)] = q \/ held[q] # {}) BY DEF Holders
  <2> QED BY <1>1, <2>1, <2>2
<1>4. \A t \in Tables : Users(p, t) = {} BY <1>1, RowFacts DEF Users
<1>5. VersionTable \in Tables /\ {"users", "user_roles", "roles"} \subseteq Tables
  BY TableFacts DEF FirstTables
<1>6. pc[p] \in SeedSteps => TableOf[pc[p]] \in Tables BY <1>5 DEF SeedSteps, TableOf
<1>7. ASSUME pc[p] = "run", Doing(p) \in {"create", "drop"}
      PROVE  Table(p) \in Tables /\ References[Table(p)] \subseteq Tables
  BY <1>7, NextTable
<1> QED BY <1>2, <1>3, <1>4, <1>5, <1>6, <1>7, RowFacts
    DEF Blockers, Now, SeedSteps, VersionTable

-----------------------------------------------------------------------------
(***************************************************************************)
(* The statements of a migration.                                          *)
(***************************************************************************)
(* The next statement takes rows and writes those of new, and no other     *)
(* command moves.                                                          *)
Statement(p, rows, new) ==
  /\ Takes(p, rows) /\ rows \subseteq Row /\ new \subseteq rows /\ Version \notin rows
  /\ \A row \in Row : Wrote(p, row)' <=> Wrote(p, row) \/ row \in new
  /\ \A row \in new : work'[row] # NoRow <=> at[p] < goal[p]
  /\ \A row \in rows \ new : work'[row] = work[row]
  /\ \A h \in Housed :
       /\ h[1] \in rows => h[1] \in new /\ work'[h[1]] = NoRow /\ TableRow(h[2]) \in rows
       /\ TableRow(h[2]) \in new => work'[TableRow(h[2])] # NoRow \/ h[1] \in rows
  /\ AdminUser \in rows => lock'[Grant] = p

Advances(p) ==
  /\ pc'[p] = "run" /\ at'[p] = at[p] /\ goal'[p] = goal[p]
  /\ line'[p] \in 1..(Len(ScriptOf(at[p], goal[p])) + (IF at[p] = 0 THEN 2 ELSE 1))
  /\ job' = job /\ alone' = alone
  /\ \A q \in Procs \ {p} : Still(q)

LEMMA StatementMigration ==
  ASSUME Inv, NEW p \in Procs, pc[p] = "run", at[p] # goal[p],
         NEW rows, NEW new, Statement(p, rows, new), Advances(p)
  PROVE  MigrationInv(p)'
<1>1. Active(p) /\ ~ Seeding(p) BY MigrationAt
<1>2. MigrationInv(p) /\ Clean BY DEF Inv
<1>3. \A row \in Row : /\ row \in rows => lock[row] \in {Nobody, p} /\ lock'[row] = p
                       /\ row \notin rows => lock'[row] = lock[row] /\ work'[row] = work[row]
                       /\ row \notin new => work'[row] = work[row]
                       /\ lock[row] = p => lock'[row] = p
                       /\ lock[row] = Nobody => work[row] = db[row]
                       /\ db'[row] = db[row]
  BY <1>2 DEF Statement, Takes, Clean
<1>4. (at[p] < goal[p] \/ at[p] > goal[p]) /\ ~ (at[p] < goal[p] /\ at[p] > goal[p])
  BY MigrationAt, RevisionFacts
<1>5. \A row \in Row : (There(p, row)' <=> IF row \in new THEN at[p] < goal[p] ELSE There(p, row))
  BY <1>4 DEF There, ThereAt, Wrote, Statement, Advances
<1>6. \A row \in Row : Wrote(p, row)' => lock'[row] = p /\ (work'[row] # NoRow <=> at'[p] < goal'[p])
  BY <1>1, <1>2, <1>3 DEF MigrationInv, Statement, Advances
<1>7. ASSUME lock'[Version] = p
      PROVE  /\ work'[Version] = at'[p]
             /\ \A row \in Built : Visible(p, row)' # NoRow <=> There(p, row)'
  <2>1. lock[Version] = p /\ work'[Version] = work[Version]
    BY <1>3, <1>7, RowFacts DEF Statement
  <2>2. work'[Version] = at'[p] BY <1>1, <1>2, <2>1 DEF MigrationInv, Advances
  <2>3. ASSUME NEW row \in Built PROVE Visible(p, row)' # NoRow <=> There(p, row)'
    <3>1. row \in Row BY BuiltFacts
    <3>2. CASE row \in new
      <4>1. row \in rows /\ (work'[row] # NoRow <=> at[p] < goal[p]) BY <3>2 DEF Statement
      <4> QED BY <1>3, <1>5, <3>1, <3>2, <4>1, VisibleIs
    <3>3. CASE row \notin new
      <4>1. Visible(p, row)' = Visible(p, row) BY <1>3, <3>1, <3>3, VisibleIs
      <4> QED BY <1>1, <1>2, <1>5, <2>1, <3>1, <3>3, <4>1 DEF MigrationInv
    <3> QED BY <3>2, <3>3
  <2> QED BY <2>2, <2>3
<1>8. ASSUME lock'[Version] # p, NEW row \in Built, lock'[row] = p, ~ Wrote(p, row)'
      PROVE  work'[row] = db'[row]
  <2>1. row \in Row BY BuiltFacts
  <2>2. row \notin new /\ ~ Wrote(p, row) BY <1>8, <2>1 DEF Statement
  <2>3. lock[Version] # p BY <1>3, <1>8, RowFacts
  <2> QED BY <1>1, <1>2, <1>3, <1>8, <2>1, <2>2, <2>3 DEF MigrationInv
<1>9. lock'[AdminUser] = p => lock'[Grant] = p
  BY <1>1, <1>2, <1>3, RowFacts DEF MigrationInv, Statement
<1>10. ASSUME NEW h \in Housed
      PROVE  /\ lock'[h[1]] = p => work'[h[1]] = NoRow /\ lock'[TableRow(h[2])] = p
             /\ lock'[TableRow(h[2])] = p /\ work'[TableRow(h[2])] = NoRow /\ db'[TableRow(h[2])] # NoRow
                  => lock'[h[1]] = p
  <2>1. h[1] \in Row /\ TableRow(h[2]) \in Row BY HousedFacts, RowFacts
  <2>2. /\ lock[h[1]] = p => work[h[1]] = NoRow /\ lock[TableRow(h[2])] = p
        /\ lock[TableRow(h[2])] = p /\ work[TableRow(h[2])] = NoRow /\ db[TableRow(h[2])] # NoRow
             => lock[h[1]] = p
    BY <1>1, <1>2 DEF MigrationInv
  <2>3. /\ h[1] \in rows => h[1] \in new /\ work'[h[1]] = NoRow /\ TableRow(h[2]) \in rows
        /\ TableRow(h[2]) \in new => work'[TableRow(h[2])] # NoRow \/ h[1] \in rows
    BY DEF Statement
  <2>4. lock'[h[1]] = p => work'[h[1]] = NoRow /\ lock'[TableRow(h[2])] = p
    BY <1>3, <2>1, <2>2, <2>3
  <2>5. ASSUME lock'[TableRow(h[2])] = p, work'[TableRow(h[2])] = NoRow, db'[TableRow(h[2])] # NoRow
        PROVE  lock'[h[1]] = p
    <3>1. CASE TableRow(h[2]) \in new BY <1>3, <2>1, <2>3, <2>5, <3>1
    <3>2. CASE TableRow(h[2]) \notin new
      <4>1. work[TableRow(h[2])] = NoRow /\ db[TableRow(h[2])] # NoRow BY <1>3, <2>1, <2>5, <3>2
      <4>2. lock[TableRow(h[2])] = p BY <1>3, <2>1, <2>5, <4>1
      <4> QED BY <1>3, <2>1, <2>2, <4>1, <4>2
    <3> QED BY <3>1, <3>2
  <2> QED BY <2>4, <2>5
<1> QED BY <1>6, <1>7, <1>8, <1>9, <1>10 DEF MigrationInv

LEMMA StatementKeeps ==
  ASSUME Inv, NEW p \in Procs, pc[p] = "run", at[p] # goal[p],
         NEW rows, NEW new, Statement(p, rows, new), Advances(p), DbOK', PrivateOK',
         \A q \in Procs \ {p}, t \in Tables :
           Active(q) /\ Seeding(q) /\ Uses(q, t) => TableRow(t) \notin rows
  PROVE  Inv'
<1>1. Active(p) /\ ~ Seeding(p) BY MigrationAt
<1>2. MigrationInv(p)' BY StatementMigration
<1>3. Active(p)' /\ ~ Seeding(p)' BY <1>1 DEF Advances, Active, Over, Seeding
<1>4. JobInv(p) /\ AloneInv(p) BY DEF Inv
<1>5. JobInv(p)'
  BY <1>1, <1>3, <1>4 DEF JobInv, Advances, SeedSteps, Seeding, Over
<1>6. SeedInv(p)' BY <1>3 DEF SeedInv
<1>7. AloneInv(p)'
  <2>1. lock'[Version] # p => lock[Version] # p /\ db'[Version] = db[Version] /\ at'[p] = at[p]
    BY RowFacts DEF Statement, Takes, Advances
  <2>2. \A q \in Procs \ {p} : Active(q)' <=> Active(q) BY ActiveStill DEF Advances
  <2> QED BY <1>1, <1>3, <1>4, <2>1, <2>2 DEF AloneInv, Advances
<1>8. OwnInv(p)' BY <1>2, <1>5, <1>6, <1>7 DEF OwnInv
<1> QED BY <1>1, <1>8, TypeSplitNext, TakesKeeps DEF Statement, Advances

LEMMA UsesTyped ==
  ASSUME NEW p \in Procs, held \in [Procs -> SUBSET (Tables \X {"read", "write", "refer"})],
         NEW uses \in SUBSET (Tables \X {"read", "write", "refer"}), Use(p, uses) \/ UNCHANGED held
  PROVE  held' \in [Procs -> SUBSET (Tables \X {"read", "write", "refer"})]
<1> DEFINE All == Tables \X {"read", "write", "refer"}
<1>1. CASE UNCHANGED held BY <1>1
<1>2. CASE Use(p, uses)
  <2>1. held \in [Procs -> SUBSET All] /\ uses \in SUBSET All OBVIOUS
  <2>2. held' = [held EXCEPT ![p] = @ \cup uses] BY <1>2 DEF Use
  <2> HIDE DEF All
  <2>3. held[p] \cup uses \in SUBSET All BY <2>1
  <2>4. held' \in [Procs -> SUBSET All] BY <2>1, <2>2, <2>3
  <2> QED BY <2>4 DEF All
<1> QED BY <1>1, <1>2

(* From one line to the next.                                              *)
LEMMA AdvanceFacts ==
  ASSUME PrivateOK, NEW p \in Procs, pc[p] = "run", at[p] # goal[p], Advance(p), UNCHANGED <<job, alone>>,
         NEW uses \in SUBSET (Tables \X {"read", "write", "refer"}), Use(p, uses) \/ UNCHANGED held,
         line[p] + 1 \in 1..(Len(ScriptOf(at[p], goal[p])) + (IF at[p] = 0 THEN 2 ELSE 1))
  PROVE  PrivateOK' /\ Advances(p) /\ line'[p] = line[p] + 1
<1>1. /\ pc' = pc /\ at' = at /\ goal' = goal /\ job' = job /\ alone' = alone
      /\ line' = [line EXCEPT ![p] = @ + 1]
  BY DEF Advance
<1>2. Len(ScriptOf(at[p], goal[p])) \in 1..Len(Creates[1]) /\ Len(Creates[1]) \in Nat
  BY ScriptIs DEF PrivateOK
<1>3. line[p] + 1 \in 1..(Len(Creates[1]) + 2) BY <1>2
<1>4. line'[p] = line[p] + 1 /\ line' \in [Procs -> 1..(Len(Creates[1]) + 2)]
  BY <1>1, <1>3 DEF PrivateOK
<1>5. held' \in [Procs -> SUBSET (Tables \X {"read", "write", "refer"})] BY UsesTyped DEF PrivateOK
<1>6. \A q \in Procs \ {p} : held'[q] = held[q] /\ line'[q] = line[q] BY <1>1 DEF PrivateOK, Use
<1> QED BY <1>1, <1>4, <1>5, <1>6 DEF PrivateOK, Advances, Still

(* A statement that fails ends its command.                                *)
LEMMA FailKeeps ==
  ASSUME Inv, NEW p \in Procs, Active(p), Fail(p), UNCHANGED <<job, alone>>,
         alone[p] => job[p].cmd = "seed" /\ ~ job[p].migrated
  PROVE  Inv'
BY RollbackKeeps DEF Fail, Over

LEMMA CreateTableKeeps ==
  ASSUME Inv, NEW p \in Procs, CreateTable(p)
  PROVE  Inv'
<1> DEFINE t == Table(p)
<1>1. pc[p] = "run" /\ Doing(p) = "create" /\ UNCHANGED <<job, alone>> BY DEF CreateTable, Now
<1>2. Active(p) /\ ~ Seeding(p) BY <1>1, MigrationAt
<1>3. Visible(p, TableRow(t)) = NoRow BY <1>1 DEF CreateTable, WrongName, Exists
<1>4. CASE /\ PG!Store(p, TableRow(t), "there")
           /\ Use(p, References[t] \X {"refer"})
           /\ Advance(p)
  <2>1. DbOK /\ PrivateOK /\ Clean BY TypeSplit DEF Inv
  <2>2. /\ at[p] \in 0..Latest /\ goal[p] \in 0..Latest /\ line[p] \in Nat
        /\ t = ScriptOf(at[p], goal[p])[line[p]]
        /\ line[p] \in DOMAIN ScriptOf(at[p], goal[p]) /\ at[p] < goal[p] /\ at[p] # goal[p]
    BY <1>1, DoingFacts, MigrationAt
  <2>3. t \in Tables BY <2>2, CreateInOrder
  <2>4. TableRow(t) \in Row /\ TableRow(t) \notin DataRows /\ Fits(TableRow(t), "there")
    BY <2>3, RowFacts DEF Fits, DataRows
  <2>5. DbOK' /\ Takes(p, {TableRow(t)}) /\ work'[TableRow(t)] = "there"
    BY <1>4, <2>1, <2>4, StoreFacts
  <2>6. References[t] \X {"refer"} \in SUBSET (Tables \X {"read", "write", "refer"})
    BY <2>3, ReferenceFacts
  <2>7. line[p] + 1 \in 1..(Len(ScriptOf(at[p], goal[p])) + (IF at[p] = 0 THEN 2 ELSE 1))
    <3>1. Len(ScriptOf(at[p], goal[p])) \in Nat
          /\ DOMAIN ScriptOf(at[p], goal[p]) = 1..Len(ScriptOf(at[p], goal[p]))
      BY <2>2, ScriptIs
    <3> QED BY <2>2, <3>1
  <2>8. PrivateOK' /\ Advances(p) /\ line'[p] = line[p] + 1
    BY <1>1, <1>4, <2>1, <2>2, <2>6, <2>7, AdvanceFacts
  <2>9. \A row : Wrote(p, row)' <=> Wrote(p, row) \/ row = TableRow(t)
    BY <2>2, <2>8, CreatedNext DEF Wrote, Advances
  <2>10. Statement(p, {TableRow(t)}, {TableRow(t)})
    <3>1. \A h \in Housed : h[1] # TableRow(t) BY <2>3, HousedFacts
    <3>2. Version # TableRow(t) /\ AdminUser # TableRow(t) BY <2>4 DEF DataRows
    <3>3. "there" # NoRow BY NoRowFacts
    <3> QED BY <2>2, <2>4, <2>5, <2>9, <3>1, <3>2, <3>3 DEF Statement
  <2>11. \A q \in Procs \ {p}, s \in Tables :
           Active(q) /\ Seeding(q) /\ Uses(q, s) => TableRow(s) \notin {TableRow(t)}
    BY <1>3, <2>3, NoRowFacts, VisibleIs DEF Inv, SeedInv
  <2> QED BY <1>1, <2>2, <2>5, <2>8, <2>10, <2>11, StatementKeeps
<1> QED BY <1>4 DEF CreateTable

LEMMA FillRolesKeeps ==
  ASSUME Inv, NEW p \in Procs, FillRoles(p)
  PROVE  Inv'
<1>1. pc[p] = "run" /\ Doing(p) = "fill" /\ UNCHANGED <<job, alone>> BY DEF FillRoles, Now
<1>2. PG!Store(p, AdminRole, "there") /\ Use(p, {<<"roles", "write">>}) /\ Advance(p)
  BY DEF FillRoles
<1>3. DbOK /\ PrivateOK BY TypeSplit DEF Inv
<1>4. /\ at[p] \in 0..Latest /\ goal[p] \in 0..Latest /\ line[p] \in Nat
      /\ at[p] = 0 /\ 0 < goal[p] /\ at[p] # goal[p]
      /\ line[p] = Len(ScriptOf(at[p], goal[p])) + 1
  BY <1>1, DoingFacts, MigrationAt
<1>5. AdminRole \in Row /\ Fits(AdminRole, "there") BY RowFacts DEF Fits
<1>6. DbOK' /\ Takes(p, {AdminRole}) /\ work'[AdminRole] = "there"
  BY <1>2, <1>3, <1>5, StoreFacts
<1>7. {<<"roles", "write">>} \in SUBSET (Tables \X {"read", "write", "refer"})
  BY TableFacts DEF FirstTables
<1>8. line[p] + 1 \in 1..(Len(ScriptOf(at[p], goal[p])) + (IF at[p] = 0 THEN 2 ELSE 1))
  <2>1. Len(ScriptOf(at[p], goal[p])) \in 1..Len(Creates[1]) /\ Len(Creates[1]) \in Nat
    BY <1>4, ScriptIs
  <2>2. Len(ScriptOf(at[p], goal[p])) \in Nat BY <2>1
  <2> QED BY <1>4, <2>2
<1>9. PrivateOK' /\ Advances(p) /\ line'[p] = line[p] + 1
  BY <1>1, <1>2, <1>3, <1>4, <1>7, <1>8, AdvanceFacts
<1>10. \A row : Wrote(p, row)' <=> Wrote(p, row) \/ row = AdminRole
  BY <1>4, <1>9, FilledNext DEF Wrote, Advances
<1>11. Statement(p, {AdminRole}, {AdminRole})
  <2>1. \A h \in Housed : h[1] # AdminRole /\ TableRow(h[2]) # AdminRole
    BY HousedFacts, RowFacts DEF DataRows
  <2>2. "there" # NoRow BY NoRowFacts
  <2> QED BY <1>4, <1>5, <1>6, <1>10, <2>1, <2>2, RowFacts DEF Statement
<1>12. \A q \in Procs \ {p}, s \in Tables :
         Active(q) /\ Seeding(q) /\ Uses(q, s) => TableRow(s) \notin {AdminRole}
  BY RowFacts DEF DataRows
<1> QED BY <1>1, <1>4, <1>6, <1>9, <1>11, <1>12, StatementKeeps

LEMMA DropTableKeeps ==
  ASSUME Inv, NEW p \in Procs, DropTable(p)
  PROVE  Inv'
<1> DEFINE t == Table(p)
           parents  == {TableRow(s) : s \in References[t]}
           children == {s \in Tables : t \in References[s] /\ work[TableRow(s)] # NoRow}
           vals == [row \in RowsOf(t) \cup parents |-> IF row \in parents THEN work[row] ELSE NoRow]
<1>1. pc[p] = "run" /\ Doing(p) = "drop" /\ UNCHANGED <<job, alone>> BY DEF DropTable, Now
<1>2. Active(p) /\ ~ Seeding(p) BY <1>1, MigrationAt
<1>3. CASE Fail(p) /\ children # {}
  <2>1. ~ alone[p] BY <1>1, <1>3, AloneDrops DEF Now
  <2> QED BY <1>1, <1>2, <1>3, <2>1, FailKeeps
<1>4. CASE /\ \A s \in {t} \cup References[t] : Unused(p, s)
           /\ PG!StoreRows(p, vals) /\ Advance(p) /\ UNCHANGED held
  <2>1. DbOK /\ PrivateOK BY TypeSplit DEF Inv
  <2>2. /\ at[p] \in 0..Latest /\ goal[p] \in 0..Latest /\ line[p] \in Nat
        /\ t = ScriptOf(at[p], goal[p])[line[p]]
        /\ line[p] \in DOMAIN ScriptOf(at[p], goal[p]) /\ at[p] > goal[p] /\ at[p] # goal[p]
    BY <1>1, DoingFacts, MigrationAt
  <2>3. t \in Tables /\ (t = "users" => Wrote(p, Grant)) BY <2>2, DropInOrder DEF Wrote
  <2>4. References[t] \subseteq Tables /\ t \notin References[t]
    BY <2>3, TableFacts, ReferenceFacts DEF FirstTables
  <2>5. RowsOf(t) \subseteq Row /\ parents \subseteq Row /\ RowsOf(t) \cap parents = {}
        /\ Version \notin RowsOf(t) \cup parents
    BY <2>3, <2>4, RowsOfFacts, RowFacts DEF DataRows
  <2>6. DOMAIN vals = RowsOf(t) \cup parents /\ DOMAIN vals \subseteq Row BY <2>5
  <2>7. \A row \in DOMAIN vals : Fits(row, vals[row])
    <3>1. \A row \in parents : vals[row] = work[row] OBVIOUS
    <3>2. \A row \in RowsOf(t) : vals[row] = NoRow /\ row # Version BY <2>5
    <3> QED BY <2>1, <2>5, <2>6, <3>1, <3>2 DEF DbOK, Fits
  <2>8. DbOK' /\ Takes(p, DOMAIN vals) /\ \A row \in DOMAIN vals : work'[row] = vals[row]
    BY <1>4, <2>1, <2>6, <2>7, StoreRowsFacts
  <2>9. /\ \A row \in RowsOf(t) : work'[row] = NoRow
        /\ \A row \in (RowsOf(t) \cup parents) \ RowsOf(t) : work'[row] = work[row]
    BY <2>5, <2>6, <2>8
  <2>10. line[p] + 1 \in 1..(Len(ScriptOf(at[p], goal[p])) + (IF at[p] = 0 THEN 2 ELSE 1))
    <3>1. Len(ScriptOf(at[p], goal[p])) \in Nat
          /\ DOMAIN ScriptOf(at[p], goal[p]) = 1..Len(ScriptOf(at[p], goal[p]))
      BY <2>2, ScriptIs
    <3> QED BY <2>2, <3>1
  <2>11. PrivateOK' /\ Advances(p) /\ line'[p] = line[p] + 1
    BY <1>1, <1>4, <2>1, <2>2, <2>10, AdvanceFacts
  <2>12. \A row : Wrote(p, row)' <=> Wrote(p, row) \/ row \in RowsOf(t)
    BY <2>2, <2>11, DroppedNext DEF Wrote, Advances
  <2>13. Takes(p, RowsOf(t) \cup parents) BY <2>6, <2>8
  <2>14. ~ (at[p] < goal[p]) BY <2>2, RevisionFacts
  <2>15. ASSUME NEW h \in Housed
         PROVE  /\ h[1] \in RowsOf(t) \cup parents =>
                     h[1] \in RowsOf(t) /\ work'[h[1]] = NoRow /\ TableRow(h[2]) \in RowsOf(t) \cup parents
                /\ TableRow(h[2]) \in RowsOf(t) => h[1] \in RowsOf(t) \cup parents
    <3>1. h[1] \notin parents BY <2>4, HousedFacts
    <3>2. h[1] \in RowsOf(t) => h[2] = t BY <2>3, HousedFacts
    <3>3. TableRow(h[2]) \in RowsOf(t) => h[2] = t BY <2>3, HousedFacts, RowsOfFacts
    <3>4. h[2] = t => h[1] \in RowsOf(t) /\ TableRow(h[2]) \in RowsOf(t)
      BY <2>3, HousedFacts, RowsOfFacts
    <3> QED BY <2>9, <3>1, <3>2, <3>3, <3>4
  <2>16. AdminUser \in RowsOf(t) \cup parents => lock'[Grant] = p
    <3>1. AdminUser \in RowsOf(t) \cup parents => t = "users"
      BY <2>3, <2>4, RowsOfFacts, RowFacts DEF DataRows
    <3>2. t = "users" => lock[Grant] = p BY <1>2, <2>3, RowFacts DEF Inv, MigrationInv
    <3> QED BY <2>13, <3>1, <3>2, RowFacts DEF Takes
  <2> HIDE DEF parents, vals
  <2>17. Statement(p, RowsOf(t) \cup parents, RowsOf(t))
    BY <2>5, <2>9, <2>12, <2>13, <2>14, <2>15, <2>16 DEF Statement
  <2>18. \A q \in Procs \ {p}, s \in Tables :
           Active(q) /\ Seeding(q) /\ Uses(q, s) => TableRow(s) \notin RowsOf(t) \cup parents
    <3>1. ASSUME NEW q \in Procs \ {p}, NEW s \in {t} \cup References[t] PROVE ~ Uses(q, s)
      BY <1>4, <3>1 DEF Unused, Uses
    <3>2. \A s \in Tables : TableRow(s) \in RowsOf(t) \cup parents => s \in {t} \cup References[t]
      BY <2>3, <2>4, RowsOfFacts, RowFacts DEF parents
    <3> QED BY <3>1, <3>2
  <2> QED BY <1>1, <2>2, <2>8, <2>11, <2>17, <2>18, StatementKeeps
<1> QED BY <1>3, <1>4 DEF DropTable

(* A revision is stamped when it is all there, or all gone.                *)
LEMMA StampedSees ==
  ASSUME Inv, NEW p \in Procs, Now(p, "stamp"), PG!Writable(p, Version), work[Version] = at[p]
  PROVE  /\ Toward(p) \in 0..Latest
         /\ \A row \in Built : Visible(p, row) # NoRow <=> BuiltAt(Toward(p), row)
<1>1. pc[p] = "run" /\ Doing(p) = "stamp" BY DEF Now
<1>2. Active(p) /\ ~ Seeding(p) BY <1>1, MigrationAt
<1>3. /\ at[p] \in 0..Latest /\ goal[p] \in 0..Latest /\ line[p] \in Nat /\ at[p] # goal[p]
      /\ line[p] > Len(ScriptOf(at[p], goal[p])) + (IF at[p] = 0 THEN 1 ELSE 0)
  BY <1>1, DoingFacts, MigrationAt
<1>4. lock[Version] = p \/ db[Version] = at[p]
  BY RowFacts DEF PG!Writable, Inv, Clean
<1>5. \A row \in Built : Visible(p, row) # NoRow <=> There(p, row) BY <1>2, <1>4, Sees
<1>6. (at[p] < goal[p] \/ at[p] > goal[p]) /\ at[p] \in Nat /\ goal[p] \in Nat /\ Latest \in Nat
  BY <1>3, RevisionFacts
<1>7. CASE at[p] < goal[p]
  <2>1. Toward(p) = at[p] + 1 BY <1>7 DEF Toward
  <2>2. Toward(p) \in 0..Latest BY <1>3, <1>6, <1>7, <2>1
  <2>3. \A row \in Built : There(p, row) <=> BuiltAt(at[p] + 1, row)
    BY <1>3, <1>7, Upgraded DEF There
  <2> QED BY <1>5, <2>1, <2>2, <2>3
<1>8. CASE at[p] > goal[p]
  <2>1. ~ (at[p] < goal[p]) /\ at[p] # 0 BY <1>6, <1>8
  <2>2. Toward(p) = at[p] - 1 BY <2>1 DEF Toward
  <2>3. Toward(p) \in 0..Latest BY <1>3, <1>6, <1>8, <2>2
  <2>4. line[p] > Len(ScriptOf(at[p], goal[p]))
    <3>1. Len(ScriptOf(at[p], goal[p])) \in 1..Len(Creates[1]) /\ Len(Creates[1]) \in Nat
      BY <1>3, ScriptIs
    <3> QED BY <1>3, <2>1, <3>1
  <2>5. \A row \in Built : There(p, row) <=> BuiltAt(at[p] - 1, row)
    BY <1>3, <1>8, <2>4, Downgraded DEF There
  <2> QED BY <1>5, <2>2, <2>3, <2>5
<1> QED BY <1>6, <1>7, <1>8

LEMMA FirstLine ==
  ASSUME NEW a \in 0..Latest, NEW g \in 0..Latest, a # g
  PROVE  1 \in 1..(Len(ScriptOf(a, g)) + (IF a = 0 THEN 2 ELSE 1))
<1>1. Len(ScriptOf(a, g)) \in 1..Len(Creates[1]) /\ Len(Creates[1]) \in Nat BY ScriptIs
<1> QED BY <1>1

LEMMA StampVersionKeeps ==
  ASSUME Inv, NEW p \in Procs, StampVersion(p)
  PROVE  Inv'
<1>1. /\ pc[p] = "run" /\ Doing(p) = "stamp" /\ Now(p, "stamp")
      /\ PG!Writable(p, Version) /\ job' = job /\ alone' = alone
  BY DEF StampVersion, Now
<1>2. Active(p) /\ ~ Seeding(p) BY <1>1, MigrationAt
<1>3. CASE Fail(p) /\ work[Version] # at[p]
  <2>1. ~ alone[p] BY <1>1, <1>3, AloneRuns
  <2> QED BY <1>1, <1>2, <1>3, <2>1, FailKeeps
<1>4. CASE /\ work[Version] = at[p]
           /\ PG!Store(p, Version, Toward(p))
           /\ Use(p, {<<"alembic_version", "write">>})
           /\ at' = [at EXCEPT ![p] = Toward(p)]
           /\ line' = [line EXCEPT ![p] = 1]
           /\ UNCHANGED <<pc, goal>>
  <2>1. DbOK /\ PrivateOK /\ JobInv(p) /\ MigrationInv(p) /\ AloneInv(p) BY TypeSplit DEF Inv
  <2>2. /\ Toward(p) \in 0..Latest
        /\ \A row \in Built : Visible(p, row) # NoRow <=> BuiltAt(Toward(p), row)
    BY <1>1, <1>4, StampedSees
  <2>3. Version \in Row /\ Fits(Version, Toward(p)) BY <2>2, RowFacts DEF Fits
  <2>4. DbOK' /\ Takes(p, {Version}) /\ work'[Version] = Toward(p)
    BY <1>4, <2>1, <2>3, StoreFacts
  <2>5. /\ pc' = pc /\ goal' = goal /\ at'[p] = Toward(p) /\ line'[p] = 1
        /\ \A q \in Procs \ {p} : Still(q)
    BY <1>1, <1>4, <2>1 DEF PrivateOK, Use, Still
  <2>6. PrivateOK'
    <3>1. {<<"alembic_version", "write">>} \in SUBSET (Tables \X {"read", "write", "refer"})
      BY TableFacts DEF VersionTable
    <3>2. held' \in [Procs -> SUBSET (Tables \X {"read", "write", "refer"})]
      BY <1>4, <2>1, <3>1, UsesTyped DEF PrivateOK
    <3>3. 1 \in 1..(Len(Creates[1]) + 2) BY RevisionFacts
    <3> QED BY <1>1, <1>4, <2>1, <2>2, <3>2, <3>3 DEF PrivateOK
  <2>7. at'[p] \in 0..Latest /\ goal'[p] \in 0..Latest BY <2>1, <2>2, <2>5 DEF PrivateOK
  <2>8. \A row : ~ Wrote(p, row)' BY <2>5, <2>7, NothingWritten DEF Wrote
  <2>9. \A row : There(p, row)' <=> BuiltAt(Toward(p), row)
    BY <2>5, <2>8 DEF There, ThereAt, Wrote
  <2>10. \A row \in Row : /\ row # Version => lock'[row] = lock[row] /\ work'[row] = work[row]
                          /\ db'[row] = db[row]
    BY <2>4 DEF Takes
  <2>11. lock'[Version] = p BY <2>3, <2>4 DEF Takes
  <2>12. \A row \in Built : Visible(p, row)' # NoRow <=> There(p, row)'
    <3>1. \A row \in Built : row \in Row /\ row # Version BY BuiltFacts
    <3>2. \A row \in Built : Visible(p, row)' = Visible(p, row) BY <2>10, <3>1, VisibleIs
    <3> QED BY <2>2, <2>9, <3>2
  <2>13. \A h \in Housed : /\ h[1] \in Row \ {Version} /\ TableRow(h[2]) \in Row \ {Version}
    BY HousedFacts, RowFacts DEF DataRows
  <2>14. MigrationInv(p)'
    <3>1. AdminUser \in Row \ {Version} /\ Grant \in Row \ {Version} BY RowFacts
    <3> QED BY <1>2, <2>1, <2>4, <2>5, <2>8, <2>10, <2>11, <2>12, <2>13, <3>1 DEF MigrationInv
  <2>15. Active(p)' /\ ~ Seeding(p)' BY <1>1, <1>2, <2>5 DEF Active, Seeding
  <2>16. JobInv(p)'
    <3>1. at'[p] # goal'[p] =>
            1 \in 1..(Len(ScriptOf(at'[p], goal'[p])) + (IF at'[p] = 0 THEN 2 ELSE 1))
      BY <2>7, FirstLine
    <3>2. pc'[p] = "run" /\ line'[p] = 1 /\ job' = job BY <1>1, <2>5
    <3> QED BY <1>2, <2>1, <2>15, <3>1, <3>2 DEF JobInv, SeedSteps, Seeding
  <2>17. SeedInv(p)' BY <2>15 DEF SeedInv
  <2>18. AloneInv(p)'
    <3>1. \A q \in Procs \ {p} : Active(q)' <=> Active(q) BY <2>5, ActiveStill
    <3> QED BY <1>1, <1>2, <2>1, <2>5, <2>11, <2>15, <3>1 DEF AloneInv
  <2>19. OwnInv(p)' BY <2>14, <2>16, <2>17, <2>18 DEF OwnInv
  <2>20. \A t \in Tables : TableRow(t) \notin {Version} BY RowFacts DEF DataRows
  <2> QED BY <1>1, <1>2, <2>4, <2>5, <2>6, <2>19, <2>20, TypeSplitNext, TakesKeeps
<1> QED BY <1>3, <1>4 DEF StampVersion

-----------------------------------------------------------------------------
(***************************************************************************)
(* The other steps of a migration.                                         *)
(***************************************************************************)
(* A migration whose revision is untouched, and that has written nothing   *)
(* that a property looks at.                                               *)
LEMMA FreshMigration ==
  ASSUME NEW p \in Procs, PrivateOK', line'[p] = 1,
         \A row \in Built \cup {Version, AdminUser, Grant} : lock'[row] # p
  PROVE  MigrationInv(p)'
<1>1. \A row : ~ Wrote(p, row)' BY NothingWritten DEF Wrote, PrivateOK
<1>2. \A h \in Housed : TableRow(h[2]) \in Built /\ h[1] \in {AdminUser, Grant}
  BY HousedFacts, BuiltFacts DEF Housed
<1> QED BY <1>1, <1>2 DEF MigrationInv

LEMMA BeginKeeps ==
  ASSUME Inv, NEW p \in Procs, Begin(p)
  PROVE  Inv'
<1>1. /\ pc[p] = "begin" /\ NoSql /\ job' = job /\ line' = line /\ alone' = alone
      /\ at' = [at EXCEPT ![p] = Visible(p, Version)]
      /\ Use(p, {<<"alembic_version", "read">>})
      /\ Goto(p, IF Visible(p, TableRow(VersionTable)) = NoRow THEN "table" ELSE "run")
  BY DEF Begin, VersionTable
<1>2. PICK to \in IF job[p].cmd = "upgrade" THEN {Latest} ELSE 0..Visible(p, Version) :
        goal' = [goal EXCEPT ![p] = to]
  BY DEF Begin
<1>3. DbOK /\ PrivateOK /\ JobInv(p) /\ AloneInv(p) BY TypeSplit DEF Inv
<1>4. Active(p) /\ ~ Seeding(p) BY <1>1, <1>3 DEF JobInv, Active, Over
<1>5. \A row \in Row : lock[row] # p BY <1>1, <1>3 DEF JobInv, Own
<1>6. /\ Version \in Row /\ TableRow(VersionTable) \in Row /\ AdminUser \in Row /\ Grant \in Row
      /\ Built \subseteq Row
  BY RowFacts, BuiltFacts, TableFacts
<1>7. Visible(p, Version) = db[Version] /\ db[Version] \in 0..Latest
      /\ Visible(p, TableRow(VersionTable)) = db[TableRow(VersionTable)]
  BY <1>3, <1>5, <1>6, VisibleIs DEF DbOK, Fits
<1>8. to \in 0..Latest BY <1>2, <1>7, RevisionFacts
<1>9. DbOK' /\ Takes(p, {}) BY <1>1, <1>3, NothingTaken
<1>10. PrivateOK'
  <2>1. {<<"alembic_version", "read">>} \in SUBSET (Tables \X {"read", "write", "refer"})
    BY TableFacts DEF VersionTable
  <2>2. held' \in [Procs -> SUBSET (Tables \X {"read", "write", "refer"})]
    BY <1>1, <1>3, <2>1, UsesTyped DEF PrivateOK
  <2> QED BY <1>1, <1>2, <1>3, <1>7, <1>8, <2>2 DEF PrivateOK, Goto
<1>11. /\ pc'[p] \in {"table", "run"} /\ at'[p] = db[Version] /\ line'[p] = 1
       /\ pc'[p] = "table" => db[TableRow(VersionTable)] = NoRow
       /\ \A q \in Procs \ {p} : Still(q)
  BY <1>1, <1>2, <1>3, <1>7 DEF PrivateOK, Goto, Use, Still, JobInv
<1>12. \A row \in Row : lock'[row] # p /\ db'[row] = db[row] BY <1>1, <1>5 DEF NoSql
<1>13. Active(p)' /\ ~ Seeding(p)' BY <1>1, <1>4, <1>11 DEF Active, Seeding, Over
<1>14. MigrationInv(p)' BY <1>6, <1>10, <1>11, <1>12, FreshMigration
<1>15. JobInv(p)'
  <2>1. at'[p] \in 0..Latest /\ goal'[p] \in 0..Latest BY <1>10 DEF PrivateOK
  <2>2. at'[p] # goal'[p] =>
          1 \in 1..(Len(ScriptOf(at'[p], goal'[p])) + (IF at'[p] = 0 THEN 2 ELSE 1))
    BY <2>1, FirstLine
  <2> QED BY <1>1, <1>3, <1>4, <1>11, <1>12, <1>13, <2>2 DEF JobInv, SeedSteps, Over, Own
<1>16. AloneInv(p)'
  <2>1. \A q \in Procs \ {p} : Active(q)' <=> Active(q) BY <1>11, ActiveStill
  <2> QED BY <1>1, <1>3, <1>4, <1>6, <1>11, <1>12, <1>13, <2>1 DEF AloneInv
<1>17. OwnInv(p)' BY <1>13, <1>14, <1>15, <1>16 DEF OwnInv, SeedInv
<1>18. pc'[p] # "failed" BY <1>11
<1> QED BY <1>1, <1>4, <1>9, <1>10, <1>11, <1>17, <1>18, TypeSplitNext, TakesKeeps

LEMMA CreateVersionTableKeeps ==
  ASSUME Inv, NEW p \in Procs, CreateVersionTable(p)
  PROVE  Inv'
<1> DEFINE v == TableRow(VersionTable)
<1>1. pc[p] = "table" /\ job' = job /\ alone' = alone BY DEF CreateVersionTable
<1>2. DbOK /\ PrivateOK /\ JobInv(p) /\ AloneInv(p) /\ Clean BY TypeSplit DEF Inv
<1>3. Active(p) /\ ~ Seeding(p) BY <1>1, <1>2 DEF JobInv, Active, Over
<1>4. v \in Row /\ v \notin DataRows /\ v \notin Built BY RowFacts, BuiltFacts, TableFacts
<1>5. \A row \in Row : lock[row] # p BY <1>1, <1>2 DEF JobInv, Own
<1>6. Visible(p, v) = NoRow BY <1>1 DEF CreateVersionTable, WrongName, Exists, VersionTable
<1>7. CASE /\ PG!Store(p, v, "there") /\ Goto(p, "run")
           /\ UNCHANGED <<held, Walk>>
  <2>1. Fits(v, "there") BY <1>4 DEF Fits, DataRows
  <2>2. DbOK' /\ Takes(p, {v}) BY <1>2, <1>4, <1>7, <2>1, StoreFacts
  <2>3. /\ pc'[p] = "run" /\ held' = held /\ at' = at /\ goal' = goal /\ line' = line
        /\ line'[p] = 1 /\ \A q \in Procs \ {p} : Still(q)
    BY <1>1, <1>2, <1>7 DEF PrivateOK, Goto, Walk, Still, JobInv
  <2>4. PrivateOK' BY <1>1, <1>2, <1>7, <2>3 DEF PrivateOK, Goto
  <2>5. \A row \in Row \ {v} : lock'[row] # p BY <1>5, <2>2 DEF Takes
  <2>6. \A row \in Built \cup {Version, AdminUser, Grant} : lock'[row] # p
    BY <1>4, <2>5, RowFacts, BuiltFacts DEF DataRows
  <2>7. Active(p)' /\ ~ Seeding(p)' BY <1>1, <1>3, <2>3 DEF Active, Seeding, Over
  <2>8. MigrationInv(p)' BY <2>3, <2>4, <2>6, FreshMigration
  <2>9. JobInv(p)'
    <3>1. at'[p] \in 0..Latest /\ goal'[p] \in 0..Latest BY <2>4 DEF PrivateOK
    <3>2. at'[p] # goal'[p] =>
            1 \in 1..(Len(ScriptOf(at'[p], goal'[p])) + (IF at'[p] = 0 THEN 2 ELSE 1))
      BY <3>1, FirstLine
    <3> QED BY <1>1, <1>2, <1>3, <2>3, <2>7, <3>2 DEF JobInv, SeedSteps, Over, Own
  <2>10. AloneInv(p)'
    <3>1. \A q \in Procs \ {p} : Active(q)' <=> Active(q) BY <2>3, ActiveStill
    <3>2. db' = db /\ lock[Version] # p BY <1>5, <2>2, RowFacts DEF Takes
    <3> QED BY <1>1, <1>2, <1>3, <2>3, <2>7, <3>1, <3>2 DEF AloneInv
  <2>11. OwnInv(p)' BY <2>7, <2>8, <2>9, <2>10 DEF OwnInv, SeedInv
  <2>12. \A q \in Procs \ {p}, s \in Tables :
           Active(q) /\ Seeding(q) /\ Uses(q, s) => TableRow(s) \notin {v}
    BY <1>4, <1>6, NoRowFacts, VisibleIs, RowFacts DEF Inv, SeedInv
  <2>13. pc'[p] # "failed" BY <2>3
  <2> QED BY <1>1, <1>3, <2>2, <2>3, <2>4, <2>11, <2>12, <2>13, TypeSplitNext, TakesKeeps
<1> QED BY <1>7 DEF CreateVersionTable, VersionTable

LEMMA MigratedKeeps ==
  ASSUME Inv, NEW p \in Procs, Migrated(p)
  PROVE  Inv'
<1>1. /\ pc[p] = "run" /\ Doing(p) = "nothing" /\ NoSql /\ job' = job /\ alone' = alone
      /\ held' = held /\ at' = at /\ goal' = goal /\ line' = line
      /\ db' = db /\ work' = work /\ lock' = lock
      /\ Goto(p, "commit")
  BY DEF Migrated, Now, Walk, NoSql
<1>2. DbOK /\ PrivateOK /\ JobInv(p) /\ AloneInv(p) /\ MigrationInv(p) BY TypeSplit DEF Inv
<1>3. Active(p) /\ ~ Seeding(p) /\ at[p] = goal[p] BY <1>1, MigrationAt, DoingFacts
<1>4. pc'[p] = "commit" /\ \A q \in Procs \ {p} : Still(q)
  BY <1>1, <1>2 DEF PrivateOK, Goto, Still
<1>5. PrivateOK' BY <1>1, <1>2 DEF PrivateOK, Goto
<1>6. DbOK' /\ Takes(p, {}) BY <1>1, <1>2, NothingTaken
<1>7. Active(p)' /\ ~ Seeding(p)' BY <1>1, <1>3, <1>4 DEF Active, Seeding, Over
<1>8. JobInv(p)' BY <1>1, <1>2, <1>3, <1>4, <1>7 DEF JobInv, SeedSteps
<1>9. MigrationInv(p)'
  BY <1>1, <1>2, <1>3 DEF MigrationInv, Wrote, There, Visible, PG!Visible
<1>10. AloneInv(p)'
  <2>1. \A q \in Procs \ {p} : Active(q)' <=> Active(q) BY <1>4, ActiveStill
  <2> QED BY <1>1, <1>2, <1>3, <1>4, <1>7, <2>1 DEF AloneInv
<1>11. OwnInv(p)' BY <1>7, <1>8, <1>9, <1>10 DEF OwnInv, SeedInv
<1>12. pc'[p] # "failed" BY <1>4
<1> QED BY <1>1, <1>3, <1>4, <1>5, <1>6, <1>11, <1>12, TypeSplitNext, TakesKeeps

LEMMA StartKeeps ==
  ASSUME Inv, NEW p \in Procs, Start(p)
  PROVE  Inv'
<1>1. /\ pc[p] = "idle" /\ NoSql /\ held' = held /\ at' = at /\ goal' = goal /\ line' = line
      /\ db' = db /\ work' = work /\ lock' = lock
  BY DEF Start, Walk, NoSql
<1>2. alone' = [q \in Procs |-> IF q = p THEN \A r \in Procs : ~ Active(r) ELSE alone[q] /\ ~ Active(q)]
  BY DEF Start
<1>3. PICK cmd \in Workload[p], admin \in BOOLEAN :
        /\ job' = [job EXCEPT ![p] =
             [cmd |-> cmd, admin |-> admin /\ cmd = "seed", migrated |-> db[Version] > 0,
              granted |-> FALSE]]
        /\ Goto(p, IF cmd # "seed" THEN "begin" ELSE IF admin THEN "find" ELSE "commit")
  BY DEF Start
<1>4. DbOK /\ PrivateOK /\ JobInv(p) BY TypeSplit DEF Inv
<1>5. cmd \in Commands BY <1>3, WorkloadAssumption
<1>6. ~ Active(p) BY <1>1 DEF Active
<1>7. /\ \A row \in Row : lock'[row] # p
      /\ held'[p] = {} /\ line'[p] = 1
  BY <1>1, <1>4, <1>6 DEF JobInv, Own
<1>8. /\ job'[p] \in Jobs /\ job'[p].cmd = cmd /\ job'[p].admin = (admin /\ cmd = "seed")
      /\ job'[p].migrated = (db[Version] > 0) /\ job'[p].granted = FALSE
      /\ pc'[p] = (IF cmd # "seed" THEN "begin" ELSE IF admin THEN "find" ELSE "commit")
      /\ \A q \in Procs \ {p} : Still(q)
  BY <1>1, <1>3, <1>4, <1>5 DEF PrivateOK, Goto, Still, Jobs
<1>9. PrivateOK'
  <2>1. alone' \in [Procs -> BOOLEAN] BY <1>2, <1>4 DEF PrivateOK
  <2>2. job' \in [Procs -> Jobs \cup {NoJob}] BY <1>3, <1>4, <1>8 DEF PrivateOK
  <2>3. pc' \in [Procs -> {"idle", "begin", "table", "run", "commit"} \cup SeedSteps \cup Over]
    BY <1>3, <1>4 DEF PrivateOK, Goto, SeedSteps
  <2> QED BY <1>1, <1>4, <2>1, <2>2, <2>3 DEF PrivateOK
<1>10. DbOK' /\ Takes(p, {}) BY <1>1, <1>4, NothingTaken
<1>11. /\ Active(p)' /\ (Seeding(p)' <=> cmd = "seed")
       /\ pc'[p] \in {"begin", "find", "commit"}
       /\ pc'[p] = "begin" <=> cmd # "seed"
       /\ pc'[p] = "find" <=> cmd = "seed" /\ admin
  BY <1>8 DEF Active, Seeding, Over
<1>12. JobInv(p)' BY <1>7, <1>8, <1>11 DEF JobInv, SeedSteps, Own
<1>13. MigrationInv(p)'
  <2>1. Built \cup {Version, AdminUser, Grant} \subseteq Row BY BuiltFacts, RowFacts
  <2> QED BY <1>7, <1>9, <2>1, FreshMigration
<1>14. SeedInv(p)'
  <2>1. AdminUser \in Row /\ Grant \in Row BY RowFacts
  <2> QED BY <1>7, <1>8, <1>11, <2>1 DEF SeedInv, Uses, Own
<1>15. AloneInv(p)'
  <2>1. \A q \in Procs \ {p} : Active(q)' <=> Active(q) BY <1>8, ActiveStill
  <2> QED BY <1>1, <1>2, <1>8, <1>11, <2>1 DEF AloneInv
<1>16. OwnInv(p)' BY <1>12, <1>13, <1>14, <1>15 DEF OwnInv
<1>17. \A q \in Procs \ {p} : alone'[q] => alone[q] /\ ~ Active(q) BY <1>2
<1>18. pc'[p] # "failed" BY <1>11
<1> QED BY <1>8, <1>9, <1>10, <1>16, <1>17, <1>18, TypeSplitNext, TakesKeeps

-----------------------------------------------------------------------------
(***************************************************************************)
(* The statements of a seed.                                               *)
(***************************************************************************)
(* What a seed knows of the account, and one by itself of what is missing. *)
SeedKnows(p) ==
  /\ lock[AdminUser] = p => /\ pc[p] \in {"role", "flush", "commit"}
                            /\ db[AdminUser] = NoRow /\ work[AdminUser] # NoRow
                            /\ Uses(p, "users")
  /\ lock[Grant] = p => pc[p] = "commit" /\ work[Grant] # NoRow /\ Uses(p, "user_roles")
  /\ pc[p] \in {"load", "role", "flush", "commit"} =>
       Uses(p, "users") /\ Visible(p, AdminUser) # NoRow
  /\ pc[p] = "commit" \/ job[p].granted => Uses(p, "user_roles") /\ Visible(p, Grant) # NoRow

SeedMisses(p) ==
  /\ pc[p] = "make" => db[AdminUser] = NoRow
  /\ pc[p] \in {"role", "flush"} /\ ~ job[p].granted => db[Grant] = NoRow

(* One after a find.                                                       *)
LEMMA SeedAt ==
  ASSUME Inv, NEW p \in Procs, pc[p] \in SeedSteps
  PROVE  /\ Active(p) /\ Seeding(p) /\ job[p] \in Jobs /\ job[p].admin
         /\ SeedKnows(p) /\ (alone[p] => SeedMisses(p))
         /\ \A row \in Row \ {AdminUser, Grant} : lock[row] # p
         /\ Visible(p, Grant) = db[Grant] /\ lock[Grant] # p
         /\ pc[p] \in {"find", "make", "load"} => Visible(p, AdminUser) = db[AdminUser] /\ lock[AdminUser] # p
<1>1. Active(p) /\ Seeding(p) /\ job[p] \in Jobs /\ job[p].admin
  BY DEF Inv, JobInv, SeedSteps, Active, Over
<1>2. SeedInv(p) /\ AloneInv(p) BY DEF Inv
<1>3. SeedKnows(p) BY <1>1, <1>2 DEF SeedInv, SeedKnows
<1>4. alone[p] => SeedMisses(p) BY <1>1, <1>2 DEF AloneInv, SeedMisses
<1>5. lock[Grant] # p BY <1>3 DEF SeedKnows, SeedSteps
<1>6. pc[p] \in {"find", "make", "load"} => lock[AdminUser] # p BY <1>3 DEF SeedKnows
<1>7. \A row \in Row \ {AdminUser, Grant} : lock[row] # p BY <1>1, <1>2 DEF SeedInv, Own
<1> QED BY <1>1, <1>3, <1>4, <1>5, <1>6, <1>7, VisibleIs

LEMMA SeedKeeps ==
  ASSUME Inv, NEW p \in Procs, NEW step \in SeedSteps, NEW t \in {"users", "user_roles", "roles"},
         NEW mode \in {"read", "write"}, On(p, step, t, mode),
         NEW rows \in SUBSET {AdminUser, Grant}, Takes(p, rows), DbOK',
         NEW next \in {"make", "load", "role", "flush", "commit"}, Goto(p, next),
         NEW granted \in BOOLEAN,
         \/ job' = [job EXCEPT ![p].granted = granted]
         \/ job' = job /\ granted = job[p].granted,
         next \in {"make", "load", "flush"} => ~ granted,
         (\A s \in Tables : Uses(p, s)' <=> Uses(p, s) \/ s = t) => SeedKnows(p)',
         alone[p] => SeedMisses(p)'
  PROVE  Inv'
<1>1. /\ pc[p] = step /\ Compatible(p, t, mode) /\ Exists(p, t) /\ Use(p, {<<t, mode>>})
      /\ at' = at /\ goal' = goal /\ line' = line /\ alone' = alone
  BY DEF On, Walk
<1>2. DbOK /\ PrivateOK /\ JobInv(p) /\ AloneInv(p) /\ SeedInv(p) BY TypeSplit DEF Inv
<1>3. /\ Active(p) /\ Seeding(p) /\ job[p] \in Jobs /\ job[p].admin
      /\ \A row \in Row \ {AdminUser, Grant} : lock[row] # p
  BY <1>1, SeedAt
<1>4. t \in Tables /\ TableRow(t) \in Row \ {AdminUser, Grant}
  BY TableFacts, RowFacts DEF FirstTables, DataRows
<1>5. lock[TableRow(t)] = Nobody /\ db[TableRow(t)] # NoRow
  BY <1>1, <1>3, <1>4, VisibleIs DEF Compatible, Exists, PG!Writable
<1>6. /\ job'[p] \in Jobs /\ job'[p].admin /\ job'[p].cmd = "seed" /\ job'[p].granted = granted
      /\ job'[p].migrated = job[p].migrated /\ job' \in [Procs -> Jobs \cup {NoJob}]
      /\ \A q \in Procs \ {p} : job'[q] = job[q]
  <2>1. CASE job' = job /\ granted = job[p].granted BY <1>2, <1>3, <2>1 DEF PrivateOK, Seeding
  <2>2. CASE job' = [job EXCEPT ![p].granted = granted]
    <3>1. job'[p] = [job[p] EXCEPT !.granted = granted] BY <1>2, <2>2 DEF PrivateOK
    <3>2. \A q \in Procs \ {p} : job'[q] = job[q] BY <1>2, <2>2 DEF PrivateOK
    <3>3. job'[p] \in Jobs BY <1>3, <3>1 DEF Jobs
    <3>4. DOMAIN job' = Procs /\ job' = [q \in Procs |-> job'[q]] BY <1>2, <2>2 DEF PrivateOK
    <3>5. job' \in [Procs -> Jobs \cup {NoJob}] BY <1>2, <3>2, <3>3, <3>4 DEF PrivateOK
    <3>6. /\ job'[p].admin = job[p].admin /\ job'[p].cmd = job[p].cmd
          /\ job'[p].migrated = job[p].migrated /\ job'[p].granted = granted
      BY <1>3, <3>1, Zenon DEF Jobs
    <3> QED BY <1>3, <3>2, <3>3, <3>5, <3>6 DEF Seeding
  <2> QED BY <2>1, <2>2
<1>7. held'[p] = held[p] \cup {<<t, mode>>} /\ \A q \in Procs \ {p} : held'[q] = held[q]
  BY <1>1, <1>2 DEF PrivateOK, Use
<1>8. \A s \in Tables : Uses(p, s)' <=> Uses(p, s) \/ s = t
  <2> DEFINE use == <<t, mode>>
  <2>1. use[1] = t OBVIOUS
  <2>2. held'[p] = held[p] \cup {use} BY <1>7
  <2> HIDE DEF use
  <2> QED BY <2>1, <2>2 DEF Uses
<1>9. pc'[p] = next /\ \A q \in Procs \ {p} : Still(q)
  BY <1>1, <1>2, <1>6, <1>7 DEF PrivateOK, Goto, Still
<1>10. PrivateOK'
  <2>1. {<<t, mode>>} \in SUBSET (Tables \X {"read", "write", "refer"}) BY <1>4
  <2>2. held' \in [Procs -> SUBSET (Tables \X {"read", "write", "refer"})]
    BY <1>1, <1>2, <2>1, UsesTyped DEF PrivateOK
  <2>3. pc' \in [Procs -> {"idle", "begin", "table", "run", "commit"} \cup SeedSteps \cup Over]
    BY <1>2 DEF PrivateOK, Goto, SeedSteps
  <2> QED BY <1>1, <1>2, <1>6, <2>2, <2>3 DEF PrivateOK
<1>11. Active(p)' /\ Seeding(p)' BY <1>6, <1>9 DEF Active, Seeding, Over
<1>12. line'[p] = 1
  BY <1>1, <1>2 DEF JobInv, SeedSteps
<1>13. JobInv(p)' BY <1>6, <1>9, <1>11, <1>12 DEF JobInv, SeedSteps
<1>14. MigrationInv(p)' BY <1>11 DEF MigrationInv
<1>15. SeedInv(p)'
  <2>1. \A s \in Tables : TableRow(s) \in Row /\ TableRow(s) \notin rows BY RowFacts DEF DataRows
  <2>2. \A s \in Tables : Uses(p, s)' => lock'[TableRow(s)] = Nobody /\ db'[TableRow(s)] # NoRow
    BY <1>2, <1>3, <1>5, <1>8, <2>1 DEF SeedInv, Takes
  <2>3. Own(p)' \subseteq {AdminUser, Grant} BY <1>3 DEF Own, Takes
  <2>4. Own(p)' \subseteq {row \in {AdminUser, Grant} : job'[p].admin} BY <1>6, <2>3
  <2>5. SeedKnows(p)' BY <1>8
  <2> QED BY <2>2, <2>4, <2>5 DEF SeedInv, SeedKnows
<1>16. AloneInv(p)'
  <2>1. \A q \in Procs \ {p} : Active(q)' <=> Active(q) BY <1>9, ActiveStill
  <2>2. db' = db BY DEF Takes
  <2> QED BY <1>1, <1>2, <1>3, <1>6, <1>9, <1>11, <2>1, <2>2 DEF AloneInv, SeedMisses
<1>17. OwnInv(p)' BY <1>13, <1>14, <1>15, <1>16 DEF OwnInv
<1>18. \A q \in Procs \ {p}, s \in Tables :
         Active(q) /\ Seeding(q) /\ Uses(q, s) => TableRow(s) \notin rows
  BY RowFacts DEF DataRows
<1>19. pc'[p] # "failed" BY <1>9
<1> QED BY <1>1, <1>3, <1>9, <1>10, <1>17, <1>18, <1>19, TypeSplitNext, TakesKeeps

LEMMA FindAdminKeeps ==
  ASSUME Inv, NEW p \in Procs, FindAdmin(p)
  PROVE  Inv'
<1> DEFINE next == IF Visible(p, AdminUser) = NoRow THEN "make" ELSE "load"
<1>1. /\ On(p, "find", "users", "read") /\ pc[p] = "find" /\ Goto(p, next) /\ NoSql /\ job' = job
      /\ db' = db /\ work' = work /\ lock' = lock
  BY DEF FindAdmin, On, NoSql
<1>2. pc[p] \in SeedSteps BY <1>1 DEF SeedSteps
<1>3. DbOK /\ PrivateOK /\ JobInv(p) BY TypeSplit DEF Inv
<1>4. job[p] \in Jobs /\ ~ job[p].granted /\ job[p].granted \in BOOLEAN
  BY <1>1, <1>2, <1>3, SeedAt DEF JobInv, Jobs
<1>5. DbOK' /\ Takes(p, {}) BY <1>1, <1>3, NothingTaken
<1>6. pc'[p] = next BY <1>1, <1>3 DEF PrivateOK, Goto
<1>7. Visible(p, AdminUser) = db[AdminUser] /\ lock[AdminUser] # p /\ lock[Grant] # p
  BY <1>1, <1>2, SeedAt
<1>8. ASSUME \A s \in Tables : Uses(p, s)' <=> Uses(p, s) \/ s = "users"
      PROVE  SeedKnows(p)'
  <2>1. Uses(p, "users")' BY <1>8, TableFacts DEF FirstTables
  <2>2. Visible(p, AdminUser)' = Visible(p, AdminUser) BY <1>1, VisibleIs
  <2> QED BY <1>1, <1>4, <1>6, <1>7, <2>1, <2>2 DEF SeedKnows
<1>9. SeedMisses(p)' BY <1>1, <1>6, <1>7 DEF SeedMisses
<1>10. next \in {"make", "load", "role", "flush", "commit"} OBVIOUS
<1>11. "find" \in SeedSteps BY DEF SeedSteps
<1> HIDE DEF next
<1> QED BY <1>1, <1>4, <1>5, <1>8, <1>9, <1>10, <1>11, SeedKeeps

LEMMA MakeAdminKeeps ==
  ASSUME Inv, NEW p \in Procs, MakeAdmin(p)
  PROVE  Inv'
<1>1. /\ On(p, "make", "users", "write") /\ pc[p] = "make" /\ Goto(p, "role") /\ job' = job
      /\ PG!Store(p, AdminUser, "env") /\ work[AdminUser] = NoRow
  BY DEF MakeAdmin, On
<1>2. pc[p] \in SeedSteps /\ "make" \in SeedSteps BY <1>1 DEF SeedSteps
<1>3. DbOK /\ PrivateOK /\ JobInv(p) /\ Schema /\ Clean BY TypeSplit DEF Inv
<1>4. job[p] \in Jobs /\ ~ job[p].granted /\ job[p].granted \in BOOLEAN
  BY <1>1, <1>2, <1>3, SeedAt DEF JobInv, Jobs
<1>5. AdminUser \in Row /\ Grant \in Row /\ Grant # AdminUser /\ Fits(AdminUser, "env")
  BY RowFacts DEF Fits, Passwords
<1>6. DbOK' /\ Takes(p, {AdminUser}) /\ work'[AdminUser] = "env" BY <1>1, <1>3, <1>5, StoreFacts
<1>7. pc'[p] = "role" BY <1>1, <1>3 DEF PrivateOK, Goto
<1>8. lock[AdminUser] # p /\ lock[Grant] # p BY <1>1, <1>2, SeedAt
<1>9. /\ db[AdminUser] = NoRow /\ db' = db /\ lock'[AdminUser] = p /\ lock'[Grant] # p
  BY <1>1, <1>3, <1>5, <1>6, <1>8 DEF Takes, Clean
<1>10. ASSUME \A s \in Tables : Uses(p, s)' <=> Uses(p, s) \/ s = "users"
       PROVE  SeedKnows(p)'
  <2>1. Uses(p, "users")' BY <1>10, TableFacts DEF FirstTables
  <2>2. "env" # NoRow BY NoRowFacts DEF Passwords
  <2>3. Visible(p, AdminUser)' = "env" BY <1>6, <1>9, VisibleIs
  <2> QED BY <1>1, <1>4, <1>6, <1>7, <1>9, <2>1, <2>2, <2>3 DEF SeedKnows
<1>11. SeedMisses(p)'
  <2>1. db[Grant] = NoRow BY <1>3, <1>9 DEF Schema
  <2> QED BY <1>7, <1>9, <2>1 DEF SeedMisses
<1> QED BY <1>1, <1>2, <1>4, <1>6, <1>10, <1>11, SeedKeeps

LEMMA LoadRolesKeeps ==
  ASSUME Inv, NEW p \in Procs, LoadRoles(p)
  PROVE  Inv'
<1> DEFINE granted == Visible(p, Grant) # NoRow
<1>1. /\ On(p, "load", "user_roles", "read") /\ pc[p] = "load" /\ Goto(p, "role") /\ NoSql
      /\ job' = [job EXCEPT ![p].granted = granted]
      /\ db' = db /\ work' = work /\ lock' = lock
  BY DEF LoadRoles, On, NoSql
<1>2. pc[p] \in SeedSteps /\ "load" \in SeedSteps BY <1>1 DEF SeedSteps
<1>3. DbOK /\ PrivateOK BY TypeSplit DEF Inv
<1>4. job[p] \in Jobs /\ SeedKnows(p) BY <1>2, SeedAt
<1>5. DbOK' /\ Takes(p, {}) BY <1>1, <1>3, NothingTaken
<1>6. pc'[p] = "role" BY <1>1, <1>3 DEF PrivateOK, Goto
<1>7. job'[p].granted = granted
  <2>1. job'[p] = [job[p] EXCEPT !.granted = granted] BY <1>1, <1>3 DEF PrivateOK
  <2> QED BY <1>4, <2>1, Zenon DEF Jobs
<1>8. /\ Visible(p, Grant) = db[Grant] /\ lock[AdminUser] # p /\ lock[Grant] # p
  BY <1>1, <1>2, SeedAt
<1>9. Visible(p, AdminUser)' = Visible(p, AdminUser) /\ Visible(p, Grant)' = Visible(p, Grant)
  BY <1>1, VisibleIs
<1>10. ASSUME \A s \in Tables : Uses(p, s)' <=> Uses(p, s) \/ s = "user_roles"
       PROVE  SeedKnows(p)'
  <2>1. /\ Uses(p, "user_roles")'
        /\ Uses(p, "users") => Uses(p, "users")'
    BY <1>10, TableFacts DEF FirstTables
  <2> QED BY <1>1, <1>4, <1>6, <1>7, <1>8, <1>9, <2>1 DEF SeedKnows
<1>11. SeedMisses(p)' BY <1>1, <1>6, <1>7, <1>8 DEF SeedMisses
<1>12. granted \in BOOLEAN OBVIOUS
<1> HIDE DEF granted
<1> QED BY <1>1, <1>2, <1>5, <1>10, <1>11, <1>12, SeedKeeps

LEMMA FindRoleKeeps ==
  ASSUME Inv, NEW p \in Procs, FindRole(p)
  PROVE  Inv'
<1> DEFINE next == IF Visible(p, AdminRole) = NoRow \/ job[p].granted THEN "commit" ELSE "flush"
<1>1. /\ On(p, "role", "roles", "read") /\ pc[p] = "role" /\ Goto(p, next) /\ NoSql /\ job' = job
      /\ db' = db /\ work' = work /\ lock' = lock /\ Exists(p, "roles")
  BY DEF FindRole, On, NoSql
<1>2. pc[p] \in SeedSteps /\ "role" \in SeedSteps BY <1>1 DEF SeedSteps
<1>3. DbOK /\ PrivateOK /\ Schema BY TypeSplit DEF Inv
<1>4. /\ job[p] \in Jobs /\ job[p].granted \in BOOLEAN /\ SeedKnows(p)
      /\ alone[p] => SeedMisses(p)
      /\ \A row \in Row \ {AdminUser, Grant} : lock[row] # p
      /\ lock[Grant] # p
  BY <1>2, SeedAt DEF Jobs
<1>5. DbOK' /\ Takes(p, {}) BY <1>1, <1>3, NothingTaken
<1>6. pc'[p] = next BY <1>1, <1>3 DEF PrivateOK, Goto
(* The table comes with the role.                                          *)
<1>7. Visible(p, AdminRole) # NoRow
  <2>1. "roles" \in Tables \ {VersionTable} BY TableFacts DEF FirstTables, VersionTable
  <2>2. TableRow("roles") \in Row \ {AdminUser, Grant} /\ TableRow("roles") \in Built
        /\ TableRow("roles") # AdminRole
        /\ AdminRole \in Row \ {AdminUser, Grant} /\ AdminRole \in Built
    BY <2>1, RowFacts, BuiltFacts DEF DataRows
  <2>3. db[TableRow("roles")] # NoRow BY <1>1, <1>4, <2>2, VisibleIs DEF Exists
  <2>4. PICK s \in SchemaOf(db[Version]) : TableRow("roles") = TableRow(s)
    BY <1>3, <2>2, <2>3 DEF Schema, BuiltAt
  <2>5. db[Version] \in 0..Latest BY <1>3, RowFacts DEF DbOK, Fits
  <2>6. db[Version] > 0 BY <2>4, <2>5, SchemaFacts, RevisionFacts
  <2>7. db[AdminRole] # NoRow BY <1>3, <2>2, <2>6 DEF Schema, BuiltAt
  <2> QED BY <1>4, <2>2, <2>7, VisibleIs
<1>8. next = IF job[p].granted THEN "commit" ELSE "flush" BY <1>7
<1>9. next \in {"make", "load", "role", "flush", "commit"}
      /\ (next \in {"make", "load", "flush"} => ~ job[p].granted)
  BY <1>8
<1> HIDE DEF next
<1>10. ASSUME \A s \in Tables : Uses(p, s)' <=> Uses(p, s) \/ s = "roles"
       PROVE  SeedKnows(p)'
  <2>1. /\ Uses(p, "user_roles") => Uses(p, "user_roles")'
        /\ Uses(p, "users") => Uses(p, "users")'
    BY <1>10, TableFacts DEF FirstTables
  <2>2. Visible(p, AdminUser)' = Visible(p, AdminUser) /\ Visible(p, Grant)' = Visible(p, Grant)
    BY <1>1, VisibleIs
  <2>3. pc'[p] = "commit" => job[p].granted BY <1>6, <1>8
  <2>4. pc'[p] \in {"flush", "commit"} BY <1>6, <1>8
  <2> QED BY <1>1, <1>4, <2>1, <2>2, <2>3, <2>4 DEF SeedKnows
<1>11. alone[p] => SeedMisses(p)' BY <1>1, <1>4, <1>6, <1>8 DEF SeedMisses
<1> QED BY <1>1, <1>2, <1>4, <1>5, <1>9, <1>10, <1>11, SeedKeeps

LEMMA FlushRoleKeeps ==
  ASSUME Inv, NEW p \in Procs, FlushRole(p)
  PROVE  Inv'
<1>1. /\ On(p, "flush", "user_roles", "write") /\ pc[p] = "flush" /\ Goto(p, "commit") /\ job' = job
      /\ PG!Store(p, Grant, "there")
  BY DEF FlushRole, On
<1>2. pc[p] \in SeedSteps /\ "flush" \in SeedSteps BY <1>1 DEF SeedSteps
<1>3. DbOK /\ PrivateOK BY TypeSplit DEF Inv
<1>4. job[p] \in Jobs /\ job[p].granted \in BOOLEAN /\ SeedKnows(p) BY <1>2, SeedAt DEF Jobs
<1>5. AdminUser \in Row /\ Grant \in Row /\ Grant # AdminUser /\ Fits(Grant, "there")
  BY RowFacts DEF Fits
<1>6. DbOK' /\ Takes(p, {Grant}) /\ work'[Grant] = "there" BY <1>1, <1>3, <1>5, StoreFacts
<1>7. pc'[p] = "commit" BY <1>1, <1>3 DEF PrivateOK, Goto
<1>8. /\ db' = db /\ lock'[AdminUser] = lock[AdminUser] /\ work'[AdminUser] = work[AdminUser]
      /\ lock'[Grant] = p
  BY <1>5, <1>6 DEF Takes
<1>9. ASSUME \A s \in Tables : Uses(p, s)' <=> Uses(p, s) \/ s = "user_roles"
      PROVE  SeedKnows(p)'
  <2>1. /\ Uses(p, "user_roles")' /\ (Uses(p, "users") => Uses(p, "users")')
    BY <1>9, TableFacts DEF FirstTables
  <2>2. "there" # NoRow BY NoRowFacts
  <2>3. Visible(p, AdminUser)' = Visible(p, AdminUser) /\ Visible(p, Grant)' = "there"
    BY <1>6, <1>8, VisibleIs
  <2> QED BY <1>1, <1>4, <1>6, <1>7, <1>8, <2>1, <2>2, <2>3 DEF SeedKnows
<1>10. SeedMisses(p)' BY <1>7 DEF SeedMisses
<1> QED BY <1>1, <1>2, <1>4, <1>6, <1>9, <1>10, SeedKeeps

-----------------------------------------------------------------------------
(***************************************************************************)
(* What else happens.                                                      *)
(***************************************************************************)
LEMMA DuplicateKeeps ==
  ASSUME Inv, NEW p \in Procs, Duplicate(p)
  PROVE  Inv'
<1>1. /\ Fail(p) /\ UNCHANGED <<job, alone>>
      /\ \/ pc[p] = "make" /\ work[AdminUser] # NoRow
         \/ pc[p] = "flush" /\ work[Grant] # NoRow
  BY DEF Duplicate
<1>2. pc[p] \in SeedSteps BY <1>1 DEF SeedSteps
<1>3. Active(p) /\ ~ alone[p] BY <1>1, <1>2, SeedAt, AloneSeeds
<1> QED BY <1>1, <1>3, FailKeeps

LEMMA FailByNameKeeps ==
  ASSUME Inv, NEW p \in Procs, FailByName(p)
  PROVE  Inv'
<1>1. WrongName(p) /\ Fail(p) /\ UNCHANGED <<job, alone>> BY DEF FailByName
<1>2. pc[p] \in SeedSteps \/ pc[p] \in {"table", "run"} BY <1>1 DEF WrongName, Now
<1>3. Active(p) BY <1>2 DEF Active, Over, SeedSteps
<1>4. CASE pc[p] \in SeedSteps
  <2>1. Seeding(p) BY <1>4, SeedAt
  <2>2. ~ Exists(p, TableOf[pc[p]]) BY <1>1, <1>4 DEF WrongName, Now, SeedSteps
  <2>3. alone[p] => ~ job[p].migrated BY <1>4, <2>2, AloneSeeds
  <2> QED BY <1>1, <1>3, <2>1, <2>3, FailKeeps DEF Seeding
<1>5. CASE pc[p] \notin SeedSteps
  <2>1. \A t \in Tables : alone[p] => (Exists(p, t) <=> work[TableRow(t)] # NoRow)
    BY <1>3, Unrivalled, RowFacts DEF Exists
  <2>2. CASE pc[p] = "table" /\ Exists(p, VersionTable)
    <3>1. VersionTable \in Tables BY TableFacts
    <3>2. JobInv(p) /\ AloneInv(p) BY DEF Inv
    <3>3. lock[TableRow(VersionTable)] # p BY <2>2, <3>1, <3>2, RowFacts DEF JobInv, Own
    <3>4. ~ alone[p] BY <1>3, <2>2, <3>2, <3>3, VisibleIs DEF AloneInv, Exists
    <3> QED BY <1>1, <1>3, <3>4, FailKeeps
  <2>3. CASE Now(p, "drop") /\ ~ Exists(p, Table(p))
    <3>1. Table(p) \in Tables BY <2>3, NextTable DEF Now
    <3>2. ~ alone[p] BY <2>1, <2>3, <3>1, AloneDrops
    <3> QED BY <1>1, <1>3, <3>2, FailKeeps
  <2>4. CASE /\ Now(p, "create")
             /\ Exists(p, Table(p)) \/ \E s \in References[Table(p)] : ~ Exists(p, s)
    <3>1. Table(p) \in Tables /\ References[Table(p)] \subseteq Tables BY <2>4, NextTable DEF Now
    <3>2. ~ alone[p] BY <2>1, <2>4, <3>1, AloneCreates
    <3> QED BY <1>1, <1>3, <3>2, FailKeeps
  <2> QED BY <1>1, <1>5, <2>2, <2>3, <2>4 DEF WrongName, VersionTable
<1> QED BY <1>4, <1>5

LEMMA DeadlockVictimKeeps ==
  ASSUME Inv, NEW p \in Procs, DeadlockVictim(p)
  PROVE  Inv'
<1>1. Deadlocked(p) /\ Fail(p) /\ UNCHANGED <<job, alone>> BY DEF DeadlockVictim
<1>2. Blockers(p) # {} BY <1>1 DEF Deadlocked
<1>3. Active(p)
  <2> SUFFICES ASSUME pc[p] \in {"idle"} \cup Over PROVE Blockers(p) = {} BY <1>2 DEF Active
  <2> QED BY DEF Blockers, Now, Over
<1>4. ~ alone[p] BY <1>2, <1>3, AloneIsNotBlocked
<1> QED BY <1>1, <1>3, <1>4, FailKeeps

LEMMA KillKeeps ==
  ASSUME Inv, NEW p \in Procs, Kill(p)
  PROVE  Inv'
BY RollbackKeeps DEF Kill, Over

LEMMA ChooseOwnPasswordKeeps ==
  ASSUME Inv, ChooseOwnPassword
  PROVE  Inv'
<1>1. /\ work[TableRow("users")] # NoRow
      /\ lock[TableRow("users")] = Nobody /\ lock[AdminUser] = Nobody
      /\ db' = [db EXCEPT ![AdminUser] = "own"] /\ work' = [work EXCEPT ![AdminUser] = "own"]
      /\ alone' = [p \in Procs |-> alone[p] /\ ~ Active(p)]
      /\ lock' = lock /\ held' = held /\ pc' = pc /\ job' = job
      /\ at' = at /\ goal' = goal /\ line' = line
  BY DEF ChooseOwnPassword, Walk
<1>2. DbOK /\ PrivateOK /\ Clean /\ Schema /\ AloneSucceeds BY TypeSplit DEF Inv
<1>3. /\ AdminUser \in Row /\ Grant \in Row /\ Grant # AdminUser /\ Fits(AdminUser, "own")
      /\ TableRow("users") \in Row /\ "own" # NoRow
  BY RowFacts, TableFacts, NoRowFacts DEF Fits, Passwords, FirstTables
<1>4. \A row \in Row : row # AdminUser => db'[row] = db[row] /\ work'[row] = work[row]
  BY <1>1, <1>2 DEF DbOK
<1>5. db'[AdminUser] = "own" /\ work'[AdminUser] = "own" BY <1>1, <1>2, <1>3 DEF DbOK
<1>6. TypeOK'
  <2>1. DbOK' BY <1>1, <1>2, <1>3 DEF DbOK
  <2>2. PrivateOK' BY <1>1, <1>2 DEF PrivateOK
  <2> QED BY <2>1, <2>2, TypeSplitNext
<1>7. db[TableRow("users")] # NoRow BY <1>1, <1>2, <1>3 DEF Clean
<1>8. /\ \A row \in Built \cup {Version, Grant} : row \in Row /\ row # AdminUser
      /\ \A t \in Tables : TableRow(t) \in Row /\ TableRow(t) # AdminUser
      /\ \A h \in Housed : h = <<AdminUser, "users">> \/ h = <<Grant, "user_roles">>
      /\ "users" \in Tables /\ "user_roles" \in Tables
  BY RowFacts, BuiltFacts, TableFacts DEF DataRows, Housed, FirstTables
<1>9. Schema'
  <2>1. \A row \in Built : db'[row] # NoRow <=> BuiltAt(db'[Version], row)
    BY <1>2, <1>4, <1>8 DEF Schema
  <2>2. ASSUME NEW h \in Housed, db'[h[1]] # NoRow PROVE db'[TableRow(h[2])] # NoRow
    <3>1. CASE h = <<AdminUser, "users">> BY <1>4, <1>7, <1>8, <3>1
    <3>2. CASE h = <<Grant, "user_roles">>
      <4>1. h[1] = Grant /\ h[2] = "user_roles" BY <3>2
      <4>2. db[TableRow(h[2])] # NoRow BY <1>2, <1>4, <1>8, <2>2, <4>1 DEF Schema
      <4> QED BY <1>4, <1>8, <4>1, <4>2
    <3> QED BY <1>8, <3>1, <3>2
  <2> QED BY <1>3, <1>5, <2>1, <2>2 DEF Schema
<1>10. Clean' BY <1>1, <1>2, <1>4, <1>5 DEF Clean
<1>11. AloneSucceeds' BY <1>1, <1>2 DEF AloneSucceeds
<1>12. ASSUME NEW p \in Procs PROVE (JobInv(p) /\ MigrationInv(p) /\ SeedInv(p) /\ AloneInv(p))'
  <2>1. JobInv(p) /\ MigrationInv(p) /\ SeedInv(p) BY DEF Inv
  <2>2. Still(p) BY <1>1 DEF Still
  <2>3. JobInv(p)' BY <1>1, <2>1 DEF JobInv, Active, Seeding, Own
  <2>4. lock[AdminUser] # p BY <1>1, NoRowFacts
  <2>5. \A row \in Row : row # AdminUser => Visible(p, row)' = Visible(p, row)
    BY <1>1, <1>4, VisibleIs
  <2>6. Visible(p, AdminUser)' = "own" BY <1>1, <1>5, VisibleIs
  <2>7. MigrationInv(p)'
    <3> SUFFICES ASSUME Active(p)', ~ Seeding(p)' PROVE MigrationInv(p)' BY DEF MigrationInv
    <3>1. Active(p) /\ ~ Seeding(p) BY <2>2, ActiveStill
    <3>2. \A row \in Row : Wrote(p, row)' => lock'[row] = p /\ (work'[row] # NoRow <=> at'[p] < goal'[p])
      BY <1>1, <1>4, <2>1, <2>2, <2>4, <3>1, ActiveStill DEF MigrationInv
    <3>3. lock'[Version] = p =>
            /\ work'[Version] = at'[p]
            /\ \A row \in Built : Visible(p, row)' # NoRow <=> There(p, row)'
      BY <1>1, <1>4, <1>8, <2>1, <2>2, <2>5, <3>1, ActiveStill DEF MigrationInv
    <3>4. lock'[Version] # p =>
            \A row \in Built : lock'[row] = p /\ ~ Wrote(p, row)' => work'[row] = db'[row]
      BY <1>1, <1>4, <1>8, <2>1, <2>2, <3>1, ActiveStill DEF MigrationInv
    <3>5. ASSUME NEW h \in Housed
          PROVE  /\ lock'[h[1]] = p => work'[h[1]] = NoRow /\ lock'[TableRow(h[2])] = p
                 /\ lock'[TableRow(h[2])] = p /\ work'[TableRow(h[2])] = NoRow
                      /\ db'[TableRow(h[2])] # NoRow => lock'[h[1]] = p
      <4>1. /\ lock[h[1]] = p => work[h[1]] = NoRow /\ lock[TableRow(h[2])] = p
            /\ lock[TableRow(h[2])] = p /\ work[TableRow(h[2])] = NoRow /\ db[TableRow(h[2])] # NoRow
                 => lock[h[1]] = p
        BY <2>1, <3>1 DEF MigrationInv
      <4>2. h[1] \in Row /\ TableRow(h[2]) \in Row /\ TableRow(h[2]) # AdminUser
        BY <1>8, HousedFacts
      <4> QED BY <1>1, <1>4, <2>4, <4>1, <4>2
    <3> QED BY <1>1, <2>4, <3>2, <3>3, <3>4, <3>5 DEF MigrationInv
  <2>8. SeedInv(p)'
    <3> SUFFICES ASSUME Active(p)', Seeding(p)' PROVE SeedInv(p)' BY DEF SeedInv
    <3>1. Active(p) /\ Seeding(p) BY <2>2, ActiveStill
    <3>2. /\ \A t \in Tables : Uses(p, t)' => lock'[TableRow(t)] = Nobody /\ db'[TableRow(t)] # NoRow
          /\ Own(p)' \subseteq {row \in {AdminUser, Grant} : job'[p].admin}
      BY <1>1, <1>4, <1>8, <2>1, <2>2, <3>1, ActiveStill DEF SeedInv, Own
    <3>3. lock'[Grant] = p => pc'[p] = "commit" /\ work'[Grant] # NoRow /\ Uses(p, "user_roles")'
      BY <1>1, <1>3, <1>4, <2>1, <2>2, <3>1, ActiveStill DEF SeedInv
    <3>4. job'[p].admin /\ pc'[p] \in {"load", "role", "flush", "commit"} =>
            Uses(p, "users")' /\ Visible(p, AdminUser)' # NoRow
      BY <1>1, <1>3, <2>1, <2>2, <2>6, <3>1, ActiveStill DEF SeedInv
    <3>5. job'[p].admin /\ (pc'[p] = "commit" \/ job'[p].granted) =>
            Uses(p, "user_roles")' /\ Visible(p, Grant)' # NoRow
      BY <1>1, <1>3, <2>1, <2>2, <2>5, <3>1, ActiveStill DEF SeedInv
    <3> QED BY <1>1, <2>4, <3>2, <3>3, <3>4, <3>5 DEF SeedInv
  <2>9. AloneInv(p)' BY <1>1, <2>2, ActiveStill DEF AloneInv
  <2> QED BY <2>3, <2>7, <2>8, <2>9
<1> QED BY <1>6, <1>9, <1>10, <1>11, <1>12 DEF Inv

LEMMA NothingKeeps == ASSUME Inv, UNCHANGED vars PROVE Inv'
<1>1. TypeOK' /\ Schema' /\ Clean' /\ AloneSucceeds'
  BY DEF Inv, vars, TypeOK, Schema, Clean, AloneSucceeds
<1>2. ASSUME NEW p \in Procs PROVE (JobInv(p) /\ MigrationInv(p) /\ SeedInv(p) /\ AloneInv(p))'
  <2>1. JobInv(p) /\ MigrationInv(p) /\ SeedInv(p) /\ AloneInv(p) BY DEF Inv
  <2>2. /\ Still(p) /\ db' = db /\ work' = work /\ lock' = lock /\ alone' = alone
        /\ \A q \in Procs : Still(q)
    BY DEF vars, Still
  <2>3. JobInv(p)' BY <2>1, <2>2 DEF JobInv, Still, Active, Seeding, Own
  <2>4. MigrationInv(p)'
    BY <2>1, <2>2 DEF MigrationInv, Still, Active, Seeding, Wrote, There, Visible, PG!Visible
  <2>5. SeedInv(p)'
    BY <2>1, <2>2 DEF SeedInv, Still, Active, Seeding, Uses, Own, Visible, PG!Visible
  <2>6. AloneInv(p)' BY <2>1, <2>2, ActiveStill DEF AloneInv, Still
  <2> QED BY <2>3, <2>4, <2>5, <2>6
<1> QED BY <1>1, <1>2 DEF Inv

LEMMA NextKeeps ==
  ASSUME Inv, [Next]_vars
  PROVE  Inv'
<1>1. ASSUME NEW p \in Procs, Step(p) PROVE Inv'
  BY <1>1, BeginKeeps, CreateVersionTableKeeps, CreateTableKeeps, FillRolesKeeps, DropTableKeeps,
     StampVersionKeeps, MigratedKeeps, FindAdminKeeps, MakeAdminKeeps, FindRoleKeeps, LoadRolesKeeps,
     FlushRoleKeeps, DuplicateKeeps, FailByNameKeeps, CommitKeeps, DeadlockVictimKeeps
     DEF Step
<1>2. ASSUME NEW p \in Procs, Start(p) \/ Kill(p) PROVE Inv' BY <1>2, StartKeeps, KillKeeps
<1>3. CASE ChooseOwnPassword BY <1>3, ChooseOwnPasswordKeeps
<1>4. CASE UNCHANGED vars BY <1>4, NothingKeeps
<1> QED BY <1>1, <1>2, <1>3, <1>4 DEF Next

-----------------------------------------------------------------------------
LEMMA InitInv ==
  ASSUME Init
  PROVE  Inv
<1>1. PICK v \in 0..Latest, user \in Passwords \cup {NoRow} :
        /\ v = 0 => user = NoRow
        /\ db = [row \in Row |->
             CASE row = Version -> v
               [] row = AdminUser -> user
               [] row = AdminRole -> IF v > 0 THEN "there" ELSE NoRow
               [] row = Grant -> IF user = "env" THEN "there" ELSE NoRow
               [] row = TableRow(VersionTable) -> IF v > 0 THEN "there" ELSE NoRow
               [] OTHER -> IF row[2] \in SchemaOf(v) THEN "there" ELSE NoRow]
  BY DEF Init, VersionTable
<1>2. /\ work = db
      /\ lock = [row \in Row |-> Nobody]
      /\ held = [p \in Procs |-> {}]
      /\ pc = [p \in Procs |-> "idle"]
      /\ job = [p \in Procs |-> NoJob]
      /\ at = [p \in Procs |-> 0] /\ goal = [p \in Procs |-> 0]
      /\ line = [p \in Procs |-> 1]
      /\ alone = [p \in Procs |-> TRUE]
  BY DEF Init
<1>3. /\ db[Version] = v /\ db[AdminUser] = user
      /\ db[AdminRole] = (IF v > 0 THEN "there" ELSE NoRow)
      /\ db[Grant] = (IF user = "env" THEN "there" ELSE NoRow)
  <2>1. TableRow(VersionTable) \notin {Version, AdminUser, AdminRole, Grant}
    BY RowFacts, TableFacts DEF DataRows
  <2>2. db[Version] = v BY <1>1, <2>1, RowFacts
  <2>3. db[AdminUser] = user BY <1>1, <2>1, RowFacts
  <2>4. db[AdminRole] = IF v > 0 THEN "there" ELSE NoRow BY <1>1, <2>1, RowFacts
  <2>5. db[Grant] = IF user = "env" THEN "there" ELSE NoRow BY <1>1, <2>1, RowFacts
  <2> QED BY <2>2, <2>3, <2>4, <2>5
<1>4. ASSUME NEW t \in Tables
      PROVE  db[TableRow(t)] = IF t = VersionTable THEN IF v > 0 THEN "there" ELSE NoRow
                               ELSE IF t \in SchemaOf(v) THEN "there" ELSE NoRow
  <2>1. TableRow(t) \in Row /\ TableRow(t) \notin {Version, AdminUser, AdminRole, Grant}
    BY RowFacts DEF DataRows
  <2>2. TableRow(t) = TableRow(VersionTable) <=> t = VersionTable BY RowFacts, TableFacts
  <2>3. TableRow(t)[2] = t BY DEF TableRow
  <2> QED BY <1>1, <2>1, <2>2, <2>3
<1>5. "there" # NoRow /\ \A w \in Passwords : w # NoRow BY NoRowFacts
<1>6. DbOK
  <2>1. DOMAIN db = Row BY <1>1
  <2>2. \A t \in Tables : db[TableRow(t)] \in {"there", NoRow} BY <1>4
  <2>3. \A row \in Row : Fits(row, db[row]) BY <1>3, <2>2, FitsFacts
  <2> QED BY <1>2, <2>1, <2>3 DEF DbOK
<1>7. PrivateOK
  <2>1. 0 \in 0..Latest /\ 1 \in 1..(Len(Creates[1]) + 2) BY RevisionFacts
  <2> QED BY <1>2, <2>1 DEF PrivateOK
<1>8. Schema
  <2>1. SchemaOf(v) \subseteq Tables \ {VersionTable} BY SchemaTables
  <2>2. v > 0 => "users" \in SchemaOf(v) /\ "user_roles" \in SchemaOf(v)
    <3>1. v > 0 => v \in 1..Latest BY RevisionFacts
    <3> QED BY <3>1, ScriptFacts
  <2>3. ASSUME NEW row \in Built PROVE db[row] # NoRow <=> BuiltAt(db[Version], row)
    <3>1. CASE row = AdminRole
      <4>1. \A t \in SchemaOf(v) : TableRow(t) # AdminRole BY <2>1, RowFacts DEF DataRows
      <4> QED BY <1>3, <1>5, <3>1, <4>1 DEF BuiltAt
    <3>2. CASE row # AdminRole
      <4>1. PICK t \in Tables \ {VersionTable} : row = TableRow(t) BY <3>2 DEF Built
      <4>2. BuiltAt(v, row) <=> t \in SchemaOf(v) BY <2>1, <3>2, <4>1, RowFacts DEF BuiltAt
      <4> QED BY <1>3, <1>4, <1>5, <4>1, <4>2
    <3> QED BY <3>1, <3>2
  <2>4. user # NoRow => v > 0 BY <1>1, RevisionFacts
  <2>5. db[AdminUser] # NoRow => db[TableRow("users")] # NoRow
    BY <1>3, <1>4, <1>5, <2>1, <2>2, <2>4
  <2>6. db[Grant] # NoRow => db[TableRow("user_roles")] # NoRow /\ db[AdminUser] # NoRow
    BY <1>3, <1>4, <1>5, <2>1, <2>2, <2>4 DEF Passwords
  <2>7. \A h \in Housed : db[h[1]] # NoRow => db[TableRow(h[2])] # NoRow
    <3>1. <<AdminUser, "users">>[1] = AdminUser /\ <<AdminUser, "users">>[2] = "users" OBVIOUS
    <3>2. <<Grant, "user_roles">>[1] = Grant /\ <<Grant, "user_roles">>[2] = "user_roles" OBVIOUS
    <3> QED BY <2>5, <2>6, <3>1, <3>2 DEF Housed
  <2> QED BY <2>3, <2>6, <2>7 DEF Schema
<1>9. Clean BY <1>2 DEF Clean
<1>10. AloneSucceeds BY <1>2 DEF AloneSucceeds
<1>11. ASSUME NEW p \in Procs PROVE JobInv(p) /\ MigrationInv(p) /\ SeedInv(p) /\ AloneInv(p)
  <2>1. ~ Active(p) /\ pc[p] = "idle" /\ Own(p) = {}
    BY <1>2, NoRowFacts DEF Active, Own
  <2>2. held[p] = {} /\ line[p] = 1 BY <1>2
  <2> QED BY <2>1, <2>2 DEF JobInv, MigrationInv, SeedInv, AloneInv, SeedSteps
<1> QED BY <1>6, <1>7, <1>8, <1>9, <1>10, <1>11, TypeSplit DEF Inv

-----------------------------------------------------------------------------
(***************************************************************************)
(* Theorems.                                                               *)
(***************************************************************************)
(* What any number of migrations and seeds own, use and know at each step, *)
(* against the committed tables (env.py, versions/, scripts/seed.py).      *)
THEOREM Invariant == Spec => []Inv
<1>1. Init => Inv BY InitInv
<1>2. Inv /\ [Next]_vars => Inv' BY NextKeeps
<1> QED BY <1>1, <1>2, PTL DEF Spec

(* Every reachable state of the database and of its commands has its type. *)
THEOREM TypeCorrect == Spec => []TypeOK
<1>1. Inv => TypeOK BY DEF Inv
<1> QED BY <1>1, Invariant, PTL

LEMMA SchemaIsThat == Inv => SchemaMatchesVersion
<1> SUFFICES ASSUME Inv PROVE SchemaMatchesVersion OBVIOUS
<1>1. Schema /\ DbOK BY TypeSplit DEF Inv
<1>2. db[Version] \in 0..Latest BY <1>1, RowFacts DEF DbOK, Fits
<1>3. SchemaOf(db[Version]) \subseteq Tables \ {VersionTable} BY <1>2, SchemaTables
<1>4. \A t \in Tables \ {VersionTable} : BuiltAt(db[Version], TableRow(t)) <=> t \in SchemaOf(db[Version])
  BY <1>3, RowFacts DEF BuiltAt, DataRows
<1>5. \A t \in Tables \ {VersionTable} : db[TableRow(t)] # NoRow <=> t \in SchemaOf(db[Version])
  BY <1>1, <1>4, BuiltFacts DEF Schema
<1>6. {t \in Tables \ {VersionTable} : db[TableRow(t)] # NoRow} = SchemaOf(db[Version])
  BY <1>3, <1>5
<1>7. db[AdminRole] # NoRow <=> db[Version] > 0
  <2>1. \A t \in SchemaOf(db[Version]) : TableRow(t) # AdminRole BY <1>3, RowFacts DEF DataRows
  <2> QED BY <1>1, <2>1, BuiltFacts DEF Schema, BuiltAt
<1>8. ASSUME db[Version] = 0 PROVE db[AdminUser] = NoRow /\ db[Grant] = NoRow
  <2>1. "users" \in Tables \ {VersionTable} BY TableFacts DEF FirstTables, VersionTable
  <2>2. db[TableRow("users")] = NoRow BY <1>5, <1>8, <2>1, SchemaFacts
  <2>3. <<AdminUser, "users">> \in Housed BY DEF Housed
  <2> QED BY <1>1, <2>2, <2>3 DEF Schema
<1> QED BY <1>6, <1>7, <1>8 DEF SchemaMatchesVersion, VersionTable

(* Whatever migrations and seeds run at once, fail or are killed, what is  *)
(* committed is the schema of the committed revision (env.py:74).          *)
THEOREM SchemaMatches == Spec => []SchemaMatchesVersion
BY Invariant, SchemaIsThat, PTL

(* A command that nothing runs beside succeeds, up, down and again, unless *)
(* it is a seed before any migration (versions/, scripts/seed.py).         *)
THEOREM AloneNeverFails == Spec => []AloneSucceeds
<1>1. Inv => AloneSucceeds BY DEF Inv
<1> QED BY <1>1, Invariant, PTL

(* A command reports success by its commit and in no other way.            *)
LEMMA DoneByCommit ==
  ASSUME TypeOK, [Next]_vars, NEW p \in Procs, pc[p] = "commit", pc'[p] = "done"
  PROVE  Commit(p)
<1> DEFINE Moves(q) == \E step : pc' = [pc EXCEPT ![q] = step] /\ (step = "done" => Commit(q))
<1>1. pc \in [Procs -> {"idle", "begin", "table", "run", "commit"} \cup SeedSteps \cup Over]
  BY DEF TypeOK
<1>2. ASSUME NEW q \in Procs, Moves(q) PROVE Commit(p) BY <1>1, <1>2
<1>3. ASSUME NEW q \in Procs, NEW outcome, outcome # "done", Rollback(q, outcome) PROVE Moves(q)
  BY <1>3 DEF Rollback, Ends, Goto
<1>4. ASSUME NEW q \in Procs, Start(q) PROVE Moves(q) BY <1>4 DEF Start, Goto
<1>5. ASSUME NEW q \in Procs, Kill(q) PROVE Moves(q) BY <1>3, <1>5 DEF Kill
<1>6. ASSUME NEW q \in Procs, Step(q), pc' # pc PROVE Moves(q)
  <2>1. CASE Fail(q) BY <1>3, <2>1 DEF Fail
  <2>2. CASE Begin(q) \/ Migrated(q) BY <2>2 DEF Begin, Migrated, Goto
  <2>3. CASE CreateVersionTable(q) BY <2>1, <2>3 DEF CreateVersionTable, Goto
  <2>4. CASE CreateTable(q) \/ DropTable(q) BY <1>6, <2>1, <2>4 DEF CreateTable, DropTable, Advance
  <2>5. CASE FillRoles(q) BY <1>6, <2>5 DEF FillRoles, Advance
  <2>6. CASE StampVersion(q) BY <1>6, <2>1, <2>6 DEF StampVersion
  <2>7. CASE FindAdmin(q) \/ MakeAdmin(q) \/ FindRole(q) \/ LoadRoles(q) \/ FlushRole(q)
    BY <2>7 DEF FindAdmin, MakeAdmin, FindRole, LoadRoles, FlushRole, Goto
  <2>8. CASE Duplicate(q) \/ FailByName(q) \/ DeadlockVictim(q)
    BY <2>1, <2>8 DEF Duplicate, FailByName, DeadlockVictim
  <2>9. CASE Commit(q) BY <2>9 DEF Commit, Ends, Goto
  <2> QED BY <1>6, <2>2, <2>3, <2>4, <2>5, <2>6, <2>7, <2>8, <2>9 DEF Step
<1>7. pc' # pc OBVIOUS
<1>8. ~ ChooseOwnPassword /\ ~ UNCHANGED vars BY <1>7 DEF ChooseOwnPassword, vars
<1> HIDE DEF Moves
<1> QED BY <1>2, <1>4, <1>5, <1>6, <1>7, <1>8 DEF Next

(* What a seed that reports success leaves.                                *)
LEMMA SeedCommits ==
  ASSUME Inv, NEW p \in Procs, Commit(p), Seeding(p)
  PROVE  /\ db[AdminUser] # NoRow => db'[AdminUser] = db[AdminUser]
         /\ job[p].admin => db'[AdminUser] # NoRow /\ db'[Grant] # NoRow
<1>1. pc[p] = "commit" /\ PG!CommitTx(p) BY DEF Commit
<1>2. Active(p) BY <1>1 DEF Active, Over
<1>3. DbOK /\ SeedInv(p) /\ AdminUser \in Row /\ Grant \in Row BY TypeSplit, RowFacts DEF Inv
<1>4. \A r \in Row : db'[r] = IF lock[r] = p THEN work[r] ELSE db[r] BY <1>1, <1>3, CommitFacts
<1>5. db'[AdminUser] = Visible(p, AdminUser) /\ db'[Grant] = Visible(p, Grant)
  BY <1>3, <1>4, VisibleIs
<1>6. lock[AdminUser] = p => db[AdminUser] = NoRow BY <1>2, <1>3 DEF SeedInv
<1> QED BY <1>1, <1>2, <1>3, <1>4, <1>5, <1>6 DEF SeedInv

(* However seeds overlap with each other and with migrations, one that     *)
(* reports success leaves an administrator, and the password it had        *)
(* (seed_admin).                                                           *)
THEOREM SeedsGrant == Spec => SeedGrants
<1>1. Inv /\ [Next]_vars =>
        [\A p \in Procs : job[p].cmd = "seed" /\ pc[p] = "commit" /\ pc'[p] = "done" =>
           /\ db[AdminUser] # NoRow => db'[AdminUser] = db[AdminUser]
           /\ job[p].admin => {db'[AdminUser], db'[Grant]} \cap {NoRow} = {}]_vars
  <2> SUFFICES ASSUME Inv, [Next]_vars, NEW p \in Procs,
                      job[p].cmd = "seed", pc[p] = "commit", pc'[p] = "done"
               PROVE  /\ db[AdminUser] # NoRow => db'[AdminUser] = db[AdminUser]
                      /\ job[p].admin => {db'[AdminUser], db'[Grant]} \cap {NoRow} = {}
    OBVIOUS
  <2>1. TypeOK BY DEF Inv
  <2>2. Commit(p) BY <2>1, DoneByCommit
  <2> QED BY <2>2, SeedCommits DEF Seeding
<1> QED BY <1>1, Invariant, PTL DEF Spec, SeedGrants
=============================================================================
