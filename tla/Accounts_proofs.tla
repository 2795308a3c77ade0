-------------------------- MODULE Accounts_proofs --------------------------
(***************************************************************************)
(* Proofs about Accounts, for any number of requests, accounts and         *)
(* passwords, any workload and any failures. IInv (module AccountsInv) is  *)
(* inductive; the theorems at the end follow from it.                      *)
(***************************************************************************)
EXTENDS AccountsInv, TLAPS

DbTypes ==
  /\ Tables(db) /\ Tables(work)
  /\ lock \in [Row -> Requests \cup {Nobody}]

LocalTypes(r) ==
  /\ pc[r] \in Steps
  /\ job[r] \in Jobs \cup {NoJob}
  /\ who[r] \in Users \cup {Nobody}
  /\ todo[r] \in SUBSET Credentials
  /\ verdict[r] \in {"none", "ok", "refused", "conflict"}
  /\ past[r] \in [open : SUBSET Credentials, ended : SUBSET Credentials]

(* What a step of r may do to the tables, as far as the others can tell.   *)
Frame(r) ==
  /\ \A row \in Row : Present(row) =>
       /\ Present(row)'
       /\ row \in Credentials =>
            db'[row].owner = db[row].owner /\ (db[row].ended => db'[row].ended)
  /\ \A row \in Row : Present(row)' => Present(row) \/ (r \in Requests /\ lock[row] = r)
  /\ \A row \in Row, q \in Requests : q # r =>
       /\ lock[row] = q => lock'[row] = q /\ work'[row] = work[row]
       /\ lock'[row] = q => lock[row] = q

(* The private state of a request that takes no step.                      *)
Still(q) ==
  /\ pc'[q] = pc[q] /\ job'[q] = job[q] /\ who'[q] = who[q]
  /\ todo'[q] = todo[q] /\ verdict'[q] = verdict[q] /\ past'[q] = past[q]

(* What r may store in a row.                                              *)
Storable(r, row, val) ==
  /\ row \in UserRows => val \in Account
  /\ row \in Credentials =>
       /\ val \in Credential
       /\ Present(row) \/ row \in Minted(r)
       /\ Present(row) => val.owner = db[row].owner /\ (db[row].ended => val.ended)
       /\ Visible(r, UserRow(val.owner)) # NoRow

-----------------------------------------------------------------------------
(* The keys of the three tables do not overlap.                            *)
LEMMA RowFacts ==
  /\ UserRows \cap Credentials = {}
  /\ \A u \in Users : UserRow(u) \in UserRows /\ UserRow(u) \in Row
  /\ \A r \in Requests : /\ SessionRow(r) \in SessionRows /\ SessionRow(r) \in Credentials
                         /\ LinkRow(r) \in LinkRows /\ LinkRow(r) \in Credentials
  /\ SessionRows \cap LinkRows = {}
  /\ Credentials \subseteq Row /\ UserRows \subseteq Row
  /\ Row = UserRows \cup Credentials
  /\ \A r, q \in Requests : r # q => Minted(r) \cap Minted(q) = {}
  /\ \A r \in Requests : Minted(r) \subseteq Credentials
BY DEF UserRows, Credentials, SessionRows, LinkRows, Row, UserRow, SessionRow, LinkRow, Minted

(* An INSERT or UPDATE keeps the invariant of the tables.                  *)
LEMMA StoreStep ==
  ASSUME DbTypes, DbInv, NEW r \in Requests, NEW row \in Row, NEW val,
         Store(r, row, val), Storable(r, row, val)
  PROVE  DbTypes' /\ DbInv' /\ Frame(r)
<1> USE RowFacts, AbsentAssumption
<1>1. /\ db' = db
      /\ work' = [work EXCEPT ![row] = val]
      /\ lock' = [lock EXCEPT ![row] = r]
      /\ lock[row] \in {Nobody, r}
  BY DEF Store, PG!Store, PG!Writable
<1>2. DbTypes'
  BY <1>1 DEF DbTypes, Tables, Storable
<1>3. Frame(r)
  BY <1>1 DEF DbTypes, Tables, Frame, Present
<1>4. LockedWrites' /\ OwnMinting'
  BY <1>1 DEF DbTypes, Tables, DbInv, LockedWrites, OwnMinting, Present, Storable
<1>5. WorkFollows'
  BY <1>1 DEF DbTypes, Tables, DbInv, WorkFollows, Present, Storable
<1>6. OwnersExist'
  <2>1. ASSUME NEW c \in Credentials, Present(c)'
        PROVE  Present(UserRow(db[c].owner))'
    BY <1>1, <2>1 DEF DbInv, OwnersExist, Present
  <2>2. ASSUME NEW c \in Credentials, NEW q \in Requests, lock'[c] = q, work'[c] # NoRow
        PROVE  Visible(q, UserRow(work[c].owner))' # NoRow
    <3>1. work'[c] \in Credential
      BY <1>2, <2>2 DEF DbTypes, Tables
    <3>2. work'[c].owner \in Users
      BY <3>1 DEF Credential
    <3> DEFINE o == UserRow(work'[c].owner)
    <3>3. Visible(q, o) # NoRow
      <4>1. CASE c = row
        BY <4>1, <1>1, <2>2 DEF DbTypes, Tables, Storable
      <4>2. CASE c # row
        BY <4>2, <1>1, <2>2 DEF DbTypes, DbInv, OwnersExist
      <4> QED BY <4>1, <4>2
    <3>4. CASE o = row
      BY <3>4, <3>3, <1>1, <3>2 DEF DbTypes, Tables, Visible, PG!Visible, Storable
    <3>5. CASE o # row
      BY <3>5, <3>3, <1>1, <3>2 DEF DbTypes, Tables, Visible, PG!Visible
    <3> QED BY <3>4, <3>5
  <2> QED BY <2>1, <2>2 DEF OwnersExist
<1> QED BY <1>2, <1>3, <1>4, <1>5, <1>6 DEF DbInv

(* COMMIT publishes exactly what the invariant allowed to be written.      *)
LEMMA CommitStep ==
  ASSUME DbTypes, DbInv, NEW r \in Requests, PG!CommitTx(r)
  PROVE  DbTypes' /\ DbInv' /\ Frame(r)
<1> USE RowFacts, AbsentAssumption
<1>1. /\ db' = [row \in Row |-> IF lock[row] = r THEN work[row] ELSE db[row]]
      /\ lock' = [row \in Row |-> IF lock[row] = r THEN Nobody ELSE lock[row]]
      /\ work' = work
  BY DEF PG!CommitTx, PG!Release
<1>2. DbTypes'
  BY <1>1 DEF DbTypes, Tables
<1>3. Frame(r)
  BY <1>1 DEF DbTypes, Tables, Frame, Present, DbInv, WorkFollows
<1>4. LockedWrites' /\ OwnMinting'
  BY <1>1, <1>3 DEF DbTypes, Tables, DbInv, LockedWrites, OwnMinting, Present, Frame
<1>5. WorkFollows'
  BY <1>1 DEF DbTypes, Tables, DbInv, WorkFollows, Present
<1>6. OwnersExist'
  <2>1. ASSUME NEW c \in Credentials, Present(c)'
        PROVE  Present(UserRow(db[c].owner))'
    <3>1. db'[c] \in Credential
      BY <1>2, <2>1 DEF DbTypes, Tables, Present
    <3>2. UserRow(db'[c].owner) \in Row
      BY <3>1 DEF Credential
    <3>3. CASE lock[c] = r
      BY <3>2, <3>3, <1>1, <2>1 DEF DbInv, OwnersExist, Present, Visible, PG!Visible
    <3>4. CASE lock[c] # r
      BY <3>2, <3>4, <1>1, <1>3, <2>1 DEF DbInv, OwnersExist, Present, Frame
    <3> QED BY <3>3, <3>4
  <2>2. ASSUME NEW c \in Credentials, NEW q \in Requests, lock'[c] = q, work'[c] # NoRow
        PROVE  Visible(q, UserRow(work[c].owner))' # NoRow
    <3>1. work[c].owner \in Users /\ UserRow(work[c].owner) \in Row
      BY <1>1, <2>2 DEF DbTypes, Tables, Credential
    <3>2. q # r /\ lock[c] = q
      BY <1>1, <2>2
    <3>3. Visible(q, UserRow(work[c].owner)) # NoRow
      BY <3>2, <1>1, <2>2 DEF DbInv, OwnersExist
    <3> QED BY <3>1, <3>2, <3>3, <1>1, <1>3 DEF Visible, PG!Visible, Frame, Present
  <2> QED BY <2>1, <2>2 DEF OwnersExist
<1> QED BY <1>2, <1>3, <1>4, <1>5, <1>6 DEF DbInv

(* ROLLBACK restores the committed versions of what r locked.              *)
LEMMA RollbackStep ==
  ASSUME DbTypes, DbInv, NEW r \in Requests, PG!RollbackTx(r)
  PROVE  DbTypes' /\ DbInv' /\ Frame(r)
<1> USE RowFacts, AbsentAssumption
<1>1. /\ work' = [row \in Row |-> IF lock[row] = r THEN db[row] ELSE work[row]]
      /\ lock' = [row \in Row |-> IF lock[row] = r THEN Nobody ELSE lock[row]]
      /\ db' = db
  BY DEF PG!RollbackTx, PG!Release
<1>2. DbTypes'
  BY <1>1 DEF DbTypes, Tables
<1>3. Frame(r)
  BY <1>1 DEF DbTypes, Tables, Frame, Present
<1>4. LockedWrites' /\ OwnMinting'
  BY <1>1 DEF DbTypes, Tables, DbInv, LockedWrites, OwnMinting, Present
<1>5. WorkFollows'
  BY <1>1 DEF DbTypes, Tables, DbInv, WorkFollows, Present
<1>6. OwnersExist'
  <2>1. ASSUME NEW c \in Credentials, Present(c)'
        PROVE  Present(UserRow(db[c].owner))'
    BY <1>1, <2>1 DEF DbInv, OwnersExist, Present
  <2>2. ASSUME NEW c \in Credentials, NEW q \in Requests, lock'[c] = q, work'[c] # NoRow
        PROVE  Visible(q, UserRow(work[c].owner))' # NoRow
    <3>1. q # r /\ lock[c] = q /\ work'[c] = work[c]
      BY <1>1, <2>2
    <3>2. work[c].owner \in Users /\ UserRow(work[c].owner) \in Row
      BY <3>1, <2>2 DEF DbTypes, Tables, Credential
    <3>3. Visible(q, UserRow(work[c].owner)) # NoRow
      BY <3>1, <2>2 DEF DbInv, OwnersExist
    <3> QED BY <3>1, <3>2, <3>3, <1>1 DEF Visible, PG!Visible
  <2> QED BY <2>1, <2>2 DEF OwnersExist
<1> QED BY <1>2, <1>3, <1>4, <1>5, <1>6 DEF DbInv

(* Disabling an account touches no lock and no credential.                 *)
LEMMA DisableStep ==
  ASSUME DbTypes, DbInv, NEW u \in Users, Disable(u)
  PROVE  DbTypes' /\ DbInv' /\ Frame(Nobody)
<1> USE RowFacts, AbsentAssumption
<1> DEFINE U == UserRow(u)
<1>1. /\ db' = [db EXCEPT ![U].active = FALSE]
      /\ work' = [work EXCEPT ![U].active = FALSE]
      /\ lock' = lock /\ lock[U] = Nobody
      /\ db[U] \in Account /\ work[U] = db[U] /\ U \in Row /\ U \in UserRows
  BY DEF Disable, DbTypes, Tables, DbInv, LockedWrites
<1>2. /\ db'[U] \in Account /\ work'[U] \in Account
      /\ \A row \in Row : row # U => db'[row] = db[row] /\ work'[row] = work[row]
      /\ work'[U] = db'[U]
  BY <1>1 DEF DbTypes, Tables, Account
<1>3. DbTypes'
  <2>1. DOMAIN db' = Row /\ DOMAIN work' = Row
    BY <1>1 DEF DbTypes, Tables
  <2>2. /\ db' = [row \in Row |-> db'[row]]
        /\ work' = [row \in Row |-> work'[row]]
    BY <2>1, <1>1 DEF DbTypes, Tables
  <2>3. \A row \in Row : /\ db'[row] \in Account \cup Credential \cup {NoRow}
                         /\ work'[row] \in Account \cup Credential \cup {NoRow}
    BY <1>2 DEF DbTypes, Tables
  <2>4. \A row \in Credentials : db'[row] = db[row] /\ work'[row] = work[row]
    BY <1>1, <1>2
  <2>5. \A row \in UserRows : /\ db'[row] \in Account \cup {NoRow}
                              /\ work'[row] \in Account \cup {NoRow}
    BY <1>2 DEF DbTypes, Tables
  <2> QED BY <1>1, <2>2, <2>3, <2>4, <2>5 DEF DbTypes, Tables
<1>4. Frame(Nobody)
  BY <1>1, <1>2 DEF Frame, Present
<1>5. LockedWrites' /\ OwnMinting' /\ WorkFollows'
  <2>1. \A row \in Credentials : db'[row] = db[row] /\ work'[row] = work[row]
    BY <1>1, <1>2
  <2>2. \A row \in Row : (Present(row)' <=> Present(row)) /\ (work'[row] = NoRow <=> work[row] = NoRow)
    BY <1>1, <1>2 DEF Present
  <2>3. LockedWrites'
    BY <1>1, <1>2 DEF DbInv, LockedWrites
  <2>4. OwnMinting'
    BY <1>1, <2>2 DEF DbInv, OwnMinting
  <2>5. WorkFollows'
    BY <2>1, <2>2 DEF DbInv, WorkFollows
  <2> QED BY <2>3, <2>4, <2>5
<1>6. OwnersExist'
  <2>1. ASSUME NEW c \in Credentials, Present(c)'
        PROVE  Present(UserRow(db[c].owner))'
    <3>1. db'[c] = db[c] /\ UserRow(db[c].owner) \in Row
      BY <1>1, <1>2, <2>1 DEF DbTypes, Tables, Present, Credential
    <3> QED BY <3>1, <1>1, <1>2, <2>1 DEF DbInv, OwnersExist, Present
  <2>2. ASSUME NEW c \in Credentials, NEW q \in Requests, lock'[c] = q, work'[c] # NoRow
        PROVE  Visible(q, UserRow(work[c].owner))' # NoRow
    <3>1. work'[c] = work[c] /\ UserRow(work[c].owner) \in Row
      BY <1>1, <1>2, <2>2 DEF DbTypes, Tables, Credential
    <3> QED BY <3>1, <1>1, <1>2, <2>2 DEF DbInv, OwnersExist, Visible, PG!Visible
  <2> QED BY <2>1, <2>2 DEF OwnersExist
<1> QED BY <1>3, <1>4, <1>5, <1>6 DEF DbInv

(* A step that leaves the tables alone.                                    *)
LEMMA NoWriteStep ==
  ASSUME DbTypes, DbInv, NEW r \in Requests, NoWrite
  PROVE  DbTypes' /\ DbInv' /\ Frame(r) /\ Frame(Nobody)
BY DEF NoWrite, DbTypes, Tables, DbInv, LockedWrites, WorkFollows, OwnMinting, OwnersExist,
       Frame, Present, Visible, PG!Visible

(* What a request may count on survives the steps of everybody else.       *)
LEMMA OthersKeep ==
  ASSUME DbTypes, DbTypes', DbInv, NEW r \in Requests \cup {Nobody}, Frame(r),
         NEW q \in Requests, q # r, LocalTypes(q), ReqInv(q), Still(q)
  PROVE  ReqInv(q)'
<1> USE RowFacts, AbsentAssumption
<1>1. Loaded(q)'
  BY DEF ReqInv, Loaded, Still, Frame, Visible, PG!Visible, Present, DbTypes, LocalTypes
<1>2. Script(q)'
  BY DEF ReqInv, Script, Still
<1>3. Targets(q)'
  <2>1. pc[q] \in {"spend", "touch", "end"} => job[q].key \in Requests
    BY DEF ReqInv, Script, Jobs
  <2> QED BY <2>1 DEF ReqInv, Targets, Still, Frame, LocalTypes
<1>4. \A row \in past[q].open : /\ row \in Row /\ Present(row) /\ db'[row].owner = db[row].owner
                                /\ Gone(q, row) => Gone(q, row)'
                                /\ db[row].ended => db'[row].ended
  BY DEF ReqInv, Targets, Frame, LocalTypes, Gone
<1>5. Swept(q)'
  BY <1>4 DEF ReqInv, Swept, Still, Earlier, Answered, Granted
<1>6. Unborn(q)'
  BY DEF ReqInv, Unborn, Still, Frame, DbInv, OwnMinting
<1> QED BY <1>1, <1>2, <1>3, <1>5, <1>6 DEF ReqInv

-----------------------------------------------------------------------------
(* A step of r changes no other request's private state.                   *)
Moves(r) ==
  /\ pc' = [pc EXCEPT ![r] = pc'[r]]
  /\ job' = [job EXCEPT ![r] = job'[r]]
  /\ who' = [who EXCEPT ![r] = who'[r]]
  /\ todo' = [todo EXCEPT ![r] = todo'[r]]
  /\ verdict' = [verdict EXCEPT ![r] = verdict'[r]]
  /\ past' = [past EXCEPT ![r] = past'[r]]

(* So for a step of r it is enough to look at the tables and at r.         *)
LEMMA OneRequest ==
  ASSUME IInv, NEW r \in Requests, DbTypes', DbInv', Frame(r), Moves(r),
         LocalTypes(r)', ReqInv(r)', mail' \subseteq Requests, expired' \subseteq Credentials
  PROVE  IInv'
<1>1. \A q \in Requests : LocalTypes(q) /\ ReqInv(q)
  BY DEF IInv, TypeOK, LocalTypes
<1>2. ASSUME NEW q \in Requests, q # r
      PROVE  Still(q)
  BY <1>2 DEF IInv, TypeOK, Moves, Still
<1>3. \A q \in Requests : ReqInv(q)'
  <2>1. DbTypes /\ DbInv
    BY DEF IInv, TypeOK, DbTypes
  <2> QED BY <1>1, <1>2, <2>1, OthersKeep
<1>4. TypeOK'
  BY DEF IInv, TypeOK, DbTypes, Moves, LocalTypes
<1> QED BY <1>3, <1>4 DEF IInv

LEMMA TypeFacts ==
  ASSUME IInv, NEW r \in Requests
  PROVE  DbTypes /\ DbInv /\ LocalTypes(r) /\ ReqInv(r)
BY DEF IInv, TypeOK, DbTypes, LocalTypes

(* The steps that write nothing: what they read is in the tables.          *)
LEMMA ArriveStep ==
  ASSUME IInv, NEW r \in Requests, Arrive(r)
  PROVE  IInv' /\ Frame(r)
<1> USE RowFacts, AbsentAssumption
<1>1. DbTypes /\ DbInv /\ LocalTypes(r) /\ ReqInv(r)
  BY TypeFacts
<1>2. DbTypes' /\ DbInv' /\ Frame(r)
  BY <1>1, NoWriteStep DEF Arrive
<1>3. /\ Moves(r) /\ mail' = mail /\ expired' = expired
      /\ pc[r] = "idle" /\ pc'[r] = "read" /\ job'[r] \in Jobs
      /\ who'[r] = who[r] /\ todo'[r] = todo[r] /\ verdict'[r] = verdict[r]
      /\ past'[r] = [open |-> OpenNow, ended |-> EndedNow]
      /\ UNCHANGED <<db, work, lock>>
  BY DEF Arrive, Moves, Goto, NoWrite, World, IInv, TypeOK
<1>4. LocalTypes(r)'
  BY <1>1, <1>3 DEF LocalTypes, Steps, OpenNow, EndedNow
<1>5. ReqInv(r)'
  BY <1>1, <1>3 DEF ReqInv, Loaded, Script, Targets, Swept, Unborn, Steps, Minting, AfterRevoke,
       AfterInvalidate, Answered, Granted, OpenNow, Present
<1> QED BY <1>2, <1>3, <1>4, <1>5, OneRequest DEF IInv, TypeOK

LEMMA ReadStep ==
  ASSUME IInv, NEW r \in Requests,
         \/ RefuseEarly(r) \/ ReadLogin(r) \/ ReadRegister(r) \/ ReadForgot(r)
         \/ ReadLink(r) \/ ReadPage(r) \/ ReadLogout(r)
  PROVE  IInv' /\ Frame(r)
<1> USE RowFacts, AbsentAssumption
<1>1. DbTypes /\ DbInv /\ LocalTypes(r) /\ ReqInv(r)
  BY TypeFacts
<1>2. DbTypes' /\ DbInv' /\ Frame(r)
  BY <1>1, NoWriteStep
  DEF RefuseEarly, ReadLogin, ReadRegister, ReadForgot, ReadLink, ReadPage, ReadLogout
<1>3. /\ pc[r] = "read" /\ job[r] \in Jobs
      /\ UNCHANGED <<db, work, lock>>
      /\ job' = job /\ todo' = todo /\ past' = past /\ mail' = mail /\ expired' = expired
  BY <1>1 DEF RefuseEarly, ReadLogin, ReadRegister, ReadForgot, ReadLink, ReadPage, ReadLogout,
       At, NoWrite, World, ReqInv, Script
<1>4. /\ Moves(r)
      /\ \/ /\ pc'[r] = "respond" /\ verdict'[r] = "refused" /\ who'[r] = who[r]
         \/ /\ pc'[r] = "respond" /\ verdict'[r] = "ok"
            /\ \/ who'[r] = who[r] /\ job[r].op \in {"forgot", "logout"}
               \/ who'[r] \in Users /\ job[r].op \in {"form", "page"}
         \/ /\ verdict'[r] = verdict[r]
            /\ \/ /\ pc'[r] \in {"rehash", "open"} /\ job[r].op = "login"
                  /\ who'[r] \in Users /\ Present(UserRow(who'[r]))
               \/ /\ pc'[r] = "create" /\ job[r].op = "register" /\ who'[r] \in Users
               \/ /\ pc'[r] = "invalidate" /\ job[r].op = "forgot"
                  /\ who'[r] \in Users /\ Present(UserRow(who'[r]))
               \/ /\ pc'[r] = "spend" /\ job[r].op = "reset" /\ Present(LinkRow(job[r].key))
                  /\ who'[r] \in Users /\ Present(UserRow(who'[r]))
               \/ /\ pc'[r] = "touch" /\ job[r].op = "page" /\ Present(SessionRow(job[r].key))
                  /\ who'[r] \in Users
               \/ /\ pc'[r] = "end" /\ job[r].op = "logout" /\ Present(SessionRow(job[r].key))
                  /\ who'[r] = who[r]
  <2>1. \A row \in Row : Visible(r, row) = db[row]
    BY <1>1, <1>3 DEF ReqInv, Unborn, Visible, PG!Visible
  <2>2. \A row \in Credentials : Present(row) =>
          db[row].owner \in Users /\ Present(UserRow(db[row].owner))
    BY <1>1 DEF DbTypes, Tables, Credential, Present, DbInv, OwnersExist
  <2>3. CASE RefuseEarly(r)
    BY <2>3 DEF RefuseEarly, Answer, Goto, Moves, IInv, TypeOK
  <2>4. CASE ReadLogin(r)
    <3>1. job[r].user \in Users /\ job[r].op = "login"
      BY <1>3, <2>4 DEF ReadLogin, At, Jobs
    <3> QED BY <3>1, <2>1, <2>4 DEF ReadLogin, Answer, Goto, Load, Moves, IInv, TypeOK, Present
  <2>5. CASE ReadRegister(r)
    <3>1. job[r].user \in Users /\ job[r].op = "register"
      BY <1>3, <2>5 DEF ReadRegister, At, Jobs
    <3> QED BY <3>1, <2>5 DEF ReadRegister, Answer, Goto, Load, Moves, IInv, TypeOK
  <2>6. CASE ReadForgot(r)
    <3>1. job[r].user \in Users /\ job[r].op = "forgot"
      BY <1>3, <2>6 DEF ReadForgot, At, Jobs
    <3> QED BY <3>1, <2>1, <2>6 DEF ReadForgot, Answer, Goto, Load, Moves, IInv, TypeOK, Present
  <2>7. CASE ReadLink(r)
    <3>1. job[r].key \in Requests /\ job[r].op \in {"form", "reset"}
      BY <1>3, <2>7 DEF ReadLink, At, Jobs
    <3> QED BY <3>1, <2>1, <2>2, <2>7
        DEF ReadLink, Usable, Answer, Goto, Load, Moves, IInv, TypeOK, Present
  <2>8. CASE ReadPage(r)
    <3>1. job[r].key \in Requests /\ job[r].op = "page"
      BY <1>3, <2>8 DEF ReadPage, At, Jobs
    <3> QED BY <3>1, <2>1, <2>2, <2>8
        DEF ReadPage, Usable, Answer, Goto, Load, Moves, IInv, TypeOK, Present
  <2>9. CASE ReadLogout(r)
    <3>1. job[r].key \in Requests /\ job[r].op = "logout"
      BY <1>3, <2>9 DEF ReadLogout, At, Jobs
    <3> QED BY <3>1, <2>1, <2>9 DEF ReadLogout, Answer, Goto, Moves, IInv, TypeOK, Present
  <2> QED BY <2>3, <2>4, <2>5, <2>6, <2>7, <2>8, <2>9
<1>5. LocalTypes(r)'
  BY <1>1, <1>3, <1>4 DEF LocalTypes, Steps
<1>6. mail' \subseteq Requests /\ expired' \subseteq Credentials
  BY <1>3 DEF IInv, TypeOK
<1>7. Loaded(r)'
  BY <1>1, <1>3, <1>4 DEF DbInv, WorkFollows, ReqInv, Loaded, Unborn, Visible, PG!Visible, Present
<1>8. Script(r)'
  BY <1>1, <1>3, <1>4 DEF ReqInv, Script, Steps, Openers
<1>9. Targets(r)' /\ Unborn(r)'
  BY <1>1, <1>3, <1>4 DEF ReqInv, Targets, Unborn, Present, Steps, Minting
<1>10. Swept(r)'
  BY <1>1, <1>3, <1>4 DEF ReqInv, Script, Swept, Answered, Granted, AfterRevoke, AfterInvalidate, Steps
<1>11. ReqInv(r)'
  BY <1>7, <1>8, <1>9, <1>10 DEF ReqInv
<1> QED BY <1>2, <1>4, <1>5, <1>6, <1>11, OneRequest

(* The steps that write one row. Only the row a request mints is new, and  *)
(* writing it disturbs nothing the request has already ended.              *)
LEMMA WriteStep ==
  ASSUME IInv, NEW r \in Requests,
         \/ Rehash(r) \/ MarkUsed(r) \/ SetPassword(r) \/ IssueLink(r)
         \/ Touch(r) \/ EndSession(r) \/ StartSession(r) \/ CreateUser(r)
  PROVE  IInv' /\ Frame(r)
<1> USE RowFacts, AbsentAssumption
<1> DEFINE To(from, step) == pc[r] = from /\ pc'[r] = step /\ verdict'[r] = verdict[r]
           Ok(from) == pc[r] = from /\ pc'[r] = "respond" /\ verdict'[r] = "ok"
<1>1. DbTypes /\ DbInv /\ LocalTypes(r) /\ ReqInv(r)
  BY TypeFacts
<1>2. PICK row, val :
        /\ row \in Row
        /\ Store(r, row, val) /\ Storable(r, row, val)
        /\ \/ row \in Minted(r) /\ (To("issue", "send") \/ Ok("open"))
           \/ /\ row \notin Minted(r)
              /\ \/ To("rehash", "open") \/ To("spend", "setpw") \/ To("setpw", "revoke")
                 \/ Ok("touch") \/ Ok("end")
                 \/ To("create", "open") /\ row = UserRow(who[r]) /\ val # NoRow
  <2>1. \A u \in Users : Present(UserRow(u)) =>
          /\ work[UserRow(u)] \in Account
          /\ Visible(r, UserRow(u)) # NoRow
    BY <1>1 DEF DbTypes, Tables, DbInv, WorkFollows, Present, Visible, PG!Visible
  <2>2. \A row \in Credentials : Present(row) =>
          /\ work[row] \in Credential /\ db[row] \in Credential
          /\ work[row].owner = db[row].owner /\ (db[row].ended => work[row].ended)
          /\ row \notin Minted(r) \/ pc[r] = "done"
          /\ Visible(r, UserRow(db[row].owner)) # NoRow
    BY <1>1, <2>1 DEF DbTypes, Tables, DbInv, WorkFollows, OwnersExist, Present, ReqInv, Unborn,
       Credential
  <2>3. \A row \in Credentials : Present(row) /\ pc[r] # "done" =>
          /\ Storable(r, row, work[row]) /\ Storable(r, row, Ended(row))
          /\ row \notin Minted(r)
    BY <2>2 DEF Storable, Ended, Credential
  <2>4. CASE Rehash(r) \/ SetPassword(r)
    <3>1. /\ who[r] \in Users /\ Present(UserRow(who[r])) /\ job[r].pw \in Passwords
          /\ UserRow(who[r]) \notin Minted(r)
      BY <1>1, <2>4 DEF ReqInv, Loaded, Script, Jobs, Rehash, SetPassword
    <3>2. PasswordSet(r) \in Account
      BY <2>1, <3>1 DEF PasswordSet, Account
    <3>3. Storable(r, UserRow(who[r]), PasswordSet(r))
      BY <3>1, <3>2 DEF Storable
    <3> QED BY <3>1, <3>3, <1>1, <2>4 DEF Rehash, SetPassword, Goto, IInv, TypeOK
  <2>5. CASE MarkUsed(r)
    <3>1. job[r].key \in Requests /\ Present(LinkRow(job[r].key))
      BY <1>1, <2>5 DEF ReqInv, Script, Targets, Jobs, MarkUsed
    <3> QED BY <3>1, <2>3, <2>5 DEF MarkUsed, Goto, IInv, TypeOK
  <2>6. CASE Touch(r) \/ EndSession(r)
    <3>1. job[r].key \in Requests /\ Present(SessionRow(job[r].key))
      BY <1>1, <2>6 DEF ReqInv, Script, Targets, Jobs, Touch, EndSession
    <3> QED BY <3>1, <2>3, <2>6 DEF Touch, EndSession, Answer, Goto, IInv, TypeOK
  <2>7. CASE IssueLink(r) \/ StartSession(r)
    <3> DEFINE new == [owner |-> who[r], ended |-> FALSE]
    <3>1. /\ who[r] \in Users /\ Visible(r, UserRow(who[r])) # NoRow
          /\ ~Present(SessionRow(r)) /\ ~Present(LinkRow(r))
      BY <1>1, <2>1, <2>7 DEF ReqInv, Loaded, Unborn, Minted, IssueLink, StartSession
    <3>2. new \in Credential /\ new.owner = who[r]
      BY <3>1 DEF Credential
    <3>3. /\ Storable(r, SessionRow(r), new) /\ Storable(r, LinkRow(r), new)
          /\ SessionRow(r) \in Minted(r) /\ LinkRow(r) \in Minted(r)
      BY <3>1, <3>2 DEF Storable, Minted
    <3>4. CASE IssueLink(r)
      BY <3>3, <3>4 DEF IssueLink, Goto, IInv, TypeOK
    <3>5. CASE StartSession(r)
      BY <3>3, <3>5 DEF StartSession, Answer, Goto, IInv, TypeOK
    <3> QED BY <2>7, <3>4, <3>5
  <2>8. CASE CreateUser(r)
    <3> DEFINE new == [pw |-> job[r].pw, weak |-> FALSE, active |-> TRUE]
    <3>1. who[r] \in Users /\ job[r].pw \in Passwords
      BY <1>1, <2>8 DEF ReqInv, Loaded, Script, Jobs, CreateUser
    <3>2. new \in Account
      BY <3>1 DEF Account
    <3>3. Storable(r, UserRow(who[r]), new) /\ UserRow(who[r]) \notin Minted(r) /\ new # NoRow
      BY <3>1, <3>2 DEF Storable
    <3> QED BY <3>1, <3>3, <2>8 DEF CreateUser, Goto, IInv, TypeOK
  <2> QED BY <2>4, <2>5, <2>6, <2>7, <2>8
<1>3. DbTypes' /\ DbInv' /\ Frame(r)
  BY <1>1, <1>2, StoreStep
<1>4. /\ db' = db /\ lock' = [lock EXCEPT ![row] = r] /\ work' = [work EXCEPT ![row] = val]
  BY <1>2 DEF Store, PG!Store
<1>5. /\ Moves(r) /\ mail' = mail /\ expired' = expired
      /\ job' = job /\ who' = who /\ todo' = todo /\ past' = past
  BY DEF Rehash, MarkUsed, SetPassword, IssueLink, Touch, EndSession, StartSession, CreateUser,
     Goto, Answer, Moves, World, IInv, TypeOK
<1>6. LocalTypes(r)'
  BY <1>1, <1>2, <1>5 DEF LocalTypes, Steps
<1>7. Loaded(r)'
  <2>1. \A u \in Users : Present(UserRow(u)) => Present(UserRow(u))' /\ Visible(r, UserRow(u))' # NoRow
    BY <1>3 DEF Frame, DbInv, WorkFollows, Present, Visible, PG!Visible
  <2>2. CASE pc[r] = "create"
    BY <2>2, <1>1, <1>2, <1>4, <1>5 DEF ReqInv, Loaded, Visible, PG!Visible, DbTypes, Tables
  <2>3. CASE pc[r] # "create"
    BY <2>1, <2>3, <1>1, <1>2, <1>5 DEF ReqInv, Loaded
  <2> QED BY <2>2, <2>3
<1>8. Script(r)'
  BY <1>1, <1>2, <1>5 DEF ReqInv, Script, Steps, Openers
<1>9. Targets(r)' /\ Unborn(r)'
  BY <1>1, <1>2, <1>4, <1>5 DEF ReqInv, Targets, Unborn, Present, Steps, Minting, DbTypes
<1>10. Swept(r)'
  <2>1. CASE row \in Minted(r)
    <3>1. \A s \in past[r].open : s # row /\ (Gone(r, s) => Gone(r, s)')
      BY <2>1, <1>1, <1>2, <1>4 DEF ReqInv, Targets, Unborn, Gone, LocalTypes, DbTypes, Tables
    <3>2. Earlier(r, SessionRows)' = Earlier(r, SessionRows) /\ Earlier(r, LinkRows)' = Earlier(r, LinkRows)
      BY <1>4, <1>5 DEF Earlier
    <3> QED BY <3>1, <3>2, <2>1, <1>1, <1>2, <1>5
        DEF ReqInv, Script, Swept, Earlier, Answered, Granted, AfterRevoke, AfterInvalidate, Openers
  <2>2. CASE row \notin Minted(r)
    BY <2>2, <1>1, <1>2, <1>5
    DEF ReqInv, Script, Swept, Answered, Granted, AfterRevoke, AfterInvalidate
  <2> QED BY <2>1, <2>2
<1>11. ReqInv(r)'
  BY <1>7, <1>8, <1>9, <1>10 DEF ReqInv
<1>12. mail' \subseteq Requests /\ expired' \subseteq Credentials
  BY <1>5 DEF IInv, TypeOK
<1> QED BY <1>3, <1>5, <1>6, <1>11, <1>12, OneRequest

(* The UPDATEs over all the sessions, or all the links, of an account.     *)
LEMMA SweepStartStep ==
  ASSUME IInv, NEW r \in Requests, RevokeAll(r) \/ InvalidateAll(r)
  PROVE  IInv' /\ Frame(r)
<1> USE RowFacts, AbsentAssumption
<1>1. DbTypes /\ DbInv /\ LocalTypes(r) /\ ReqInv(r)
  BY TypeFacts
<1>2. DbTypes' /\ DbInv' /\ Frame(r)
  BY <1>1, NoWriteStep DEF RevokeAll, InvalidateAll
<1>3. /\ Moves(r) /\ mail' = mail /\ expired' = expired
      /\ job' = job /\ who' = who /\ verdict' = verdict /\ past' = past
      /\ UNCHANGED <<db, work, lock>>
      /\ \/ /\ pc[r] = "revoke" /\ pc'[r] = "revoking" /\ todo'[r] = Matching(r, SessionRows)
         \/ /\ pc[r] = "invalidate" /\ pc'[r] = "invalidating" /\ todo'[r] = Matching(r, LinkRows)
  BY DEF RevokeAll, InvalidateAll, Moves, Goto, NoWrite, World, IInv, TypeOK
<1>4. ASSUME NEW table \in {SessionRows, LinkRows}, NEW row \in Matching(r, table)
      PROVE  Present(row) /\ row \in Credentials
  <2>1. row \in Credentials /\ Visible(r, row) # NoRow
    BY DEF Matching, Credentials
  <2> QED BY <2>1, <1>1, <1>3
      DEF DbInv, OwnMinting, ReqInv, Unborn, Visible, PG!Visible, Present, Steps, Minting
<1>5. ASSUME NEW table \in {SessionRows, LinkRows}, NEW row \in Earlier(r, table)
      PROVE  row \in Matching(r, table) \/ Gone(r, row)
  <2>1. /\ row \in table /\ row \in Credentials /\ row \in Row
        /\ Present(row) /\ db[row].owner = who[r]
    BY <1>1 DEF Earlier, Credentials, ReqInv, Targets
  <2> QED BY <2>1, <1>1 DEF DbInv, WorkFollows, Matching, Gone, Visible, PG!Visible, Present
<1>6. LocalTypes(r)'
  <2>1. todo'[r] \subseteq Credentials
    BY <1>3, <1>4
  <2> QED BY <2>1, <1>1, <1>3 DEF LocalTypes, Steps
<1>7. Loaded(r)' /\ Script(r)'
  BY <1>1, <1>3 DEF ReqInv, Loaded, Script, Steps, Present
<1>8. Targets(r)' /\ Unborn(r)'
  BY <1>1, <1>3, <1>4 DEF ReqInv, Targets, Unborn, Present, Steps, Minting
<1>9. Swept(r)'
  <2>1. CASE pc[r] = "revoke"
    BY <2>1, <1>3, <1>5 DEF Swept, Earlier, Gone, Answered, AfterRevoke, AfterInvalidate
  <2>2. CASE pc[r] = "invalidate"
    BY <2>2, <1>3, <1>5, <1>1 DEF ReqInv, Swept, Earlier, Gone, Answered, AfterRevoke, AfterInvalidate
  <2> QED BY <2>1, <2>2, <1>3
<1>10. ReqInv(r)'
  BY <1>7, <1>8, <1>9 DEF ReqInv
<1>11. mail' \subseteq Requests /\ expired' \subseteq Credentials
  BY <1>3 DEF IInv, TypeOK
<1> QED BY <1>2, <1>3, <1>6, <1>10, <1>11, OneRequest

LEMMA EndRowStep ==
  ASSUME IInv, NEW r \in Requests, EndRow(r)
  PROVE  IInv' /\ Frame(r)
<1> USE RowFacts, AbsentAssumption
<1>1. DbTypes /\ DbInv /\ LocalTypes(r) /\ ReqInv(r)
  BY TypeFacts
<1>2. PICK row \in todo[r] :
        /\ Store(r, row, Ended(row))
        /\ todo' = [todo EXCEPT ![r] = @ \ {row}]
  BY DEF EndRow
<1>3. /\ row \in Credentials /\ row \in Row /\ Present(row) /\ row \notin Minted(r)
      /\ pc[r] \in {"revoking", "invalidating"} /\ pc'[r] = pc[r]
  BY <1>1, <1>2 DEF ReqInv, Targets, Unborn, LocalTypes, EndRow, Steps, Minting
<1>4. /\ work[row] \in Credential /\ work[row].owner = db[row].owner
      /\ Ended(row) \in Credential /\ Ended(row).owner = db[row].owner /\ Ended(row).ended = TRUE
  BY <1>1, <1>3 DEF DbTypes, Tables, DbInv, WorkFollows, Present, Ended, Credential
<1>5. Visible(r, UserRow(db[row].owner)) # NoRow
  <2>1. Present(UserRow(db[row].owner)) /\ UserRow(db[row].owner) \in Row
    BY <1>1, <1>3, <1>4 DEF DbInv, OwnersExist, Credential
  <2> QED BY <2>1, <1>1 DEF DbInv, WorkFollows, Present, Visible, PG!Visible
<1>6. Storable(r, row, Ended(row))
  BY <1>3, <1>4, <1>5 DEF Storable
<1>7. DbTypes' /\ DbInv' /\ Frame(r)
  BY <1>1, <1>2, <1>3, <1>6, StoreStep
<1>8. /\ db' = db /\ lock' = [lock EXCEPT ![row] = r] /\ work' = [work EXCEPT ![row] = Ended(row)]
  BY <1>2 DEF Store, PG!Store
<1>9. /\ Moves(r) /\ mail' = mail /\ expired' = expired /\ pc' = pc
      /\ job' = job /\ who' = who /\ verdict' = verdict /\ past' = past
      /\ todo'[r] = todo[r] \ {row}
  BY <1>2 DEF EndRow, Moves, World, IInv, TypeOK
<1>10. LocalTypes(r)'
  BY <1>1, <1>9 DEF LocalTypes
<1>11. Loaded(r)' /\ Script(r)'
  BY <1>1, <1>3, <1>8, <1>9 DEF ReqInv, Loaded, Script, Present
<1>12. Targets(r)' /\ Unborn(r)'
  BY <1>1, <1>3, <1>8, <1>9 DEF ReqInv, Targets, Unborn, Present, DbTypes
<1>13. Swept(r)'
  <2>1. /\ Gone(r, row)'
        /\ \A s \in Row : Gone(r, s) => Gone(r, s)'
    BY <1>1, <1>3, <1>4, <1>8 DEF Gone, DbTypes, Tables
  <2>2. Earlier(r, SessionRows)' = Earlier(r, SessionRows) /\ Earlier(r, LinkRows)' = Earlier(r, LinkRows)
    BY <1>8, <1>9 DEF Earlier
  <2>3. Earlier(r, SessionRows) \subseteq Row /\ Earlier(r, LinkRows) \subseteq Row
    BY <1>1 DEF Earlier, LocalTypes
  <2> QED BY <2>1, <2>2, <2>3, <1>1, <1>3, <1>9
      DEF ReqInv, Script, Swept, Answered, AfterRevoke, AfterInvalidate
<1>14. ReqInv(r)'
  BY <1>11, <1>12, <1>13 DEF ReqInv
<1>15. mail' \subseteq Requests /\ expired' \subseteq Credentials
  BY <1>9 DEF IInv, TypeOK
<1> QED BY <1>7, <1>9, <1>10, <1>14, <1>15, OneRequest

(* The steps between two statements: an UPDATE is through, the message     *)
(* leaves, the response leaves.                                            *)
LEMMA QuietStep ==
  ASSUME IInv, NEW r \in Requests, AllEnded(r) \/ SendEmail(r) \/ Respond(r)
  PROVE  IInv' /\ Frame(r)
<1> USE RowFacts, AbsentAssumption
<1>1. DbTypes /\ DbInv /\ LocalTypes(r) /\ ReqInv(r)
  BY TypeFacts
<1>2. DbTypes' /\ DbInv' /\ Frame(r)
  BY <1>1, NoWriteStep DEF AllEnded, SendEmail, Respond
<1>3. /\ Moves(r) /\ mail' \subseteq Requests /\ expired' \subseteq Credentials
      /\ job' = job /\ who' = who /\ todo' = todo /\ past' = past
      /\ UNCHANGED <<db, work, lock>>
      /\ \/ /\ verdict' = verdict /\ todo[r] = {}
            /\ \/ pc[r] = "revoking" /\ pc'[r] = "invalidate"
               \/ pc[r] = "invalidating" /\ pc'[r] = "open" /\ job[r].op = "reset"
               \/ pc[r] = "invalidating" /\ pc'[r] = "issue" /\ job[r].op # "reset"
         \/ /\ pc[r] = "send" /\ pc'[r] = "respond" /\ verdict'[r] = "ok"
         \/ /\ pc[r] = "respond" /\ pc'[r] = "told" /\ verdict' = verdict
  <2>1. CASE AllEnded(r)
    BY <2>1 DEF AllEnded, Moves, Goto, NoWrite, World, IInv, TypeOK
  <2>2. CASE SendEmail(r)
    BY <2>2 DEF SendEmail, Moves, Goto, Answer, NoWrite, IInv, TypeOK
  <2>3. CASE Respond(r)
    BY <2>3 DEF Respond, Moves, Goto, NoWrite, World, IInv, TypeOK
  <2> QED BY <2>1, <2>2, <2>3
<1>4. LocalTypes(r)'
  BY <1>1, <1>3 DEF LocalTypes, Steps
<1>5. Script(r)'
  BY <1>1, <1>3 DEF ReqInv, Script, Steps, Openers
<1>6. Loaded(r)'
  BY <1>1, <1>3 DEF ReqInv, Loaded, DbInv, WorkFollows, Present, Visible, PG!Visible
<1>7. Targets(r)' /\ Unborn(r)'
  BY <1>1, <1>3 DEF ReqInv, Targets, Unborn, Present, Steps, Minting
<1>8. Swept(r)'
  <2>1. /\ Earlier(r, SessionRows)' = Earlier(r, SessionRows)
        /\ Earlier(r, LinkRows)' = Earlier(r, LinkRows)
        /\ \A row : Gone(r, row)' = Gone(r, row)
    BY <1>3 DEF Earlier, Gone
  <2> QED BY <2>1, <1>1, <1>3
      DEF ReqInv, Script, Swept, Answered, Granted, AfterRevoke, AfterInvalidate
<1>9. ReqInv(r)'
  BY <1>5, <1>6, <1>7, <1>8 DEF ReqInv
<1> QED BY <1>2, <1>3, <1>4, <1>9, OneRequest

(* The end of the transaction.                                             *)
LEMMA CommitRequest ==
  ASSUME IInv, NEW r \in Requests, Commit(r)
  PROVE  IInv' /\ Frame(r)
<1> USE RowFacts, AbsentAssumption
<1>1. DbTypes /\ DbInv /\ LocalTypes(r) /\ ReqInv(r)
  BY TypeFacts
<1>2. DbTypes' /\ DbInv' /\ Frame(r)
  BY <1>1, CommitStep DEF Commit
<1>3. /\ Moves(r) /\ mail' = mail /\ expired' = expired
      /\ job' = job /\ who' = who /\ todo' = todo /\ verdict' = verdict /\ past' = past
      /\ pc[r] = "told" /\ pc'[r] = "done"
      /\ db' = [row \in Row |-> IF lock[row] = r THEN work[row] ELSE db[row]]
  BY DEF Commit, PG!CommitTx, Moves, Goto, World, IInv, TypeOK
<1>4. LocalTypes(r)'
  BY <1>1, <1>3 DEF LocalTypes, Steps
<1>5. Script(r)' /\ Loaded(r)'
  BY <1>1, <1>3 DEF ReqInv, Script, Loaded
<1>6. Targets(r)' /\ Unborn(r)'
  BY <1>1, <1>2, <1>3 DEF ReqInv, Targets, Unborn, Frame, LocalTypes, Steps, Minting
<1>7. Swept(r)'
  <2>1. \A row \in past[r].open : /\ row \in Row /\ db'[row].owner = db[row].owner
                                  /\ Gone(r, row) => db'[row].ended
    BY <1>1, <1>2, <1>3 DEF ReqInv, Targets, Frame, LocalTypes, Gone
  <2>2. /\ Earlier(r, SessionRows)' = Earlier(r, SessionRows)
        /\ Earlier(r, LinkRows)' = Earlier(r, LinkRows)
    BY <2>1, <1>3 DEF Earlier
  <2>3. /\ \A row \in Earlier(r, SessionRows) : Gone(r, row) => db'[row].ended
        /\ \A row \in Earlier(r, LinkRows) : Gone(r, row) => db'[row].ended
    BY <2>1 DEF Earlier
  <2>4. \A op : Granted(r, op)' = Granted(r, op)
    BY <1>3 DEF Granted
  <2> QED BY <2>2, <2>3, <2>4, <1>1, <1>3
      DEF ReqInv, Swept, Answered, AfterRevoke, AfterInvalidate
<1>8. ReqInv(r)'
  BY <1>5, <1>6, <1>7 DEF ReqInv
<1>9. mail' \subseteq Requests /\ expired' \subseteq Credentials
  BY <1>3 DEF IInv, TypeOK
<1> QED BY <1>2, <1>3, <1>4, <1>8, <1>9, OneRequest

LEMMA UndoRequest ==
  ASSUME IInv, NEW r \in Requests, DuplicateUser(r) \/ Fail(r) \/ DeadlockVictim(r)
  PROVE  IInv' /\ Frame(r)
<1> USE RowFacts, AbsentAssumption
<1>1. DbTypes /\ DbInv /\ LocalTypes(r) /\ ReqInv(r)
  BY TypeFacts
<1>2. DbTypes' /\ DbInv' /\ Frame(r)
  BY <1>1, RollbackStep DEF DuplicateUser, Fail, DeadlockVictim, Undo
<1>3. pc[r] \notin {"idle", "done"}
  BY DEF DuplicateUser, Fail, DeadlockVictim, Deadlocked, WaitsFor, Needs, Running, Over
<1>4. /\ Moves(r) /\ mail' = mail /\ expired' = expired
      /\ job' = job /\ who' = who /\ todo'[r] = {} /\ past' = past
      /\ verdict'[r] \in {verdict[r], "conflict"}
      /\ pc'[r] \in {"failed", "lost"} /\ db' = db
  BY DEF DuplicateUser, Fail, DeadlockVictim, Undo, PG!RollbackTx, Moves, Goto, World, IInv, TypeOK
<1>5. LocalTypes(r)'
  BY <1>1, <1>4 DEF LocalTypes, Steps
<1>6. Script(r)' /\ Loaded(r)' /\ Swept(r)'
  BY <1>1, <1>3, <1>4
  DEF ReqInv, Script, Loaded, Swept, Answered, AfterRevoke, AfterInvalidate, LocalTypes
<1>7. Targets(r)' /\ Unborn(r)'
  BY <1>1, <1>3, <1>4 DEF ReqInv, Targets, Unborn, Present, Steps, Minting
<1>8. ReqInv(r)'
  BY <1>6, <1>7 DEF ReqInv
<1>9. mail' \subseteq Requests /\ expired' \subseteq Credentials
  BY <1>4 DEF IInv, TypeOK
<1> QED BY <1>2, <1>4, <1>5, <1>8, <1>9, OneRequest

-----------------------------------------------------------------------------
LEMMA InitIInv == Init => IInv
<1> USE RowFacts, AbsentAssumption
<1> SUFFICES ASSUME Init PROVE IInv
  OBVIOUS
<1>1. PICK account \in [Users -> [pw : Passwords, weak : BOOLEAN, active : {TRUE}] \cup {NoRow}] :
        db = [row \in Row |-> IF row \in UserRows THEN account[row[2]] ELSE NoRow]
  BY DEF Init
<1>2. \A row \in UserRows : db[row] \in Account \cup {NoRow}
  <2>1. \A row \in UserRows : row[2] \in Users
    BY DEF UserRows
  <2>2. [pw : Passwords, weak : BOOLEAN, active : {TRUE}] \subseteq Account
    BY DEF Account
  <2> QED BY <1>1, <2>1, <2>2
<1>3. \A row \in Credentials : db[row] = NoRow
  BY <1>1
<1>4. Tables(db) /\ Tables(work)
  BY <1>1, <1>2, <1>3 DEF Init, Tables
<1>5. TypeOK
  BY <1>4 DEF Init, TypeOK, Steps
<1>6. DbInv
  BY <1>3, <1>4 DEF Init, DbInv, LockedWrites, WorkFollows, OwnMinting, OwnersExist, Present, Tables
<1>7. ASSUME NEW r \in Requests PROVE ReqInv(r)
  BY <1>3, <1>4 DEF Init, ReqInv, Loaded, Script, Targets, Swept, Unborn, Present, NoJob,
     AfterRevoke, AfterInvalidate, Answered, Steps, Minting
<1> QED BY <1>5, <1>6, <1>7 DEF IInv

LEMMA NextIInv == IInv /\ [Next]_vars => IInv' /\ \E r \in Requests \cup {Nobody} : Frame(r)
<1> SUFFICES ASSUME IInv, [Next]_vars
             PROVE  IInv' /\ \E r \in Requests \cup {Nobody} : Frame(r)
  OBVIOUS
<1> USE RowFacts, AbsentAssumption
<1>1. ASSUME NEW r \in Requests, Arrive(r) PROVE IInv' /\ Frame(r)
  BY <1>1, ArriveStep
<1>2. ASSUME NEW r \in Requests, Advance(r) PROVE IInv' /\ Frame(r)
  BY <1>2, ReadStep, WriteStep, SweepStartStep, EndRowStep, QuietStep, CommitRequest, UndoRequest
  DEF Advance
<1>3. ASSUME NEW r \in Requests, Fail(r) PROVE IInv' /\ Frame(r)
  BY <1>3, UndoRequest
<1>4. ASSUME NEW r \in Requests PROVE DbTypes /\ DbInv /\ LocalTypes(r) /\ ReqInv(r)
  BY <1>4, TypeFacts
<1>5. DbTypes /\ DbInv
  BY DEF IInv, TypeOK, DbTypes
<1>6. ASSUME NEW row \in Credentials, Expire(row) PROVE IInv' /\ Frame(Nobody)
  <2>1. UNCHANGED <<db, work, lock, pc, job, who, todo, verdict, mail, past>>
    BY <1>6 DEF Expire, NoWrite
  <2>2. expired' \subseteq Credentials
    BY <1>6 DEF Expire, IInv, TypeOK
  <2>3. TypeOK'
    BY <2>1, <2>2 DEF IInv, TypeOK, Tables
  <2>4. DbInv'
    BY <2>1 DEF IInv, DbInv, LockedWrites, WorkFollows, OwnMinting, OwnersExist, Present, Visible,
       PG!Visible
  <2>5. \A r \in Requests : ReqInv(r)'
    BY <2>1 DEF IInv, ReqInv, Loaded, Script, Targets, Swept, Unborn, Present, Visible, PG!Visible,
       Gone, Earlier, Answered, Granted
  <2>6. Frame(Nobody)
    BY <1>5, <2>1 DEF Frame, Present, DbTypes
  <2> QED BY <2>3, <2>4, <2>5, <2>6 DEF IInv
<1>7. ASSUME NEW u \in MayDisable, Disable(u) PROVE IInv' /\ Frame(Nobody)
  <2>1. u \in Users
    BY BoundsAssumption
  <2>2. DbTypes' /\ DbInv' /\ Frame(Nobody)
    BY <1>5, <1>7, <2>1, DisableStep
  <2>3. UNCHANGED <<pc, job, who, todo, verdict, mail, expired, past>>
    BY <1>7 DEF Disable, World
  <2>4. ASSUME NEW q \in Requests PROVE ReqInv(q)'
    BY <1>4, <1>5, <2>2, <2>3, OthersKeep DEF Still
  <2>5. TypeOK'
    BY <2>2, <2>3 DEF IInv, TypeOK, DbTypes
  <2> QED BY <2>2, <2>4, <2>5 DEF IInv
<1>8. ASSUME UNCHANGED vars PROVE IInv' /\ Frame(Nobody)
  <2>1. IInv'
    BY <1>8 DEF vars, IInv, TypeOK, Tables, DbInv, LockedWrites, WorkFollows, OwnMinting, OwnersExist,
       ReqInv, Loaded, Script, Targets, Swept, Unborn, Present, Visible, PG!Visible, Gone, Earlier,
       Answered, Granted
  <2>2. Frame(Nobody)
    BY <1>5, <1>8 DEF vars, Frame, Present, DbTypes
  <2> QED BY <2>1, <2>2
<1> QED BY <1>1, <1>2, <1>3, <1>6, <1>7, <1>8 DEF Next

(* The invariant the other theorems rest on.                               *)
THEOREM Invariant == Spec => []IInv
<1>1. IInv /\ [Next]_vars => IInv'
  BY NextIInv
<1> QED BY <1>1, InitIInv, PTL DEF Spec

(* Every column keeps its type, and every request its script, whatever the *)
(* requests, their interleaving and their failures.                        *)
THEOREM TypeCorrect == Spec => []TypeOK
<1>1. IInv => TypeOK
  BY DEF IInv
<1> QED BY <1>1, Invariant, PTL

(* A committed password reset has ended every session that was open when   *)
(* its request arrived (AuthService.set_password, revoke_all_for_user).    *)
THEOREM ResetsEndSessions == Spec => []ResetEndsEarlierSessions
<1>1. IInv => ResetEndsEarlierSessions
  BY DEF IInv, ReqInv, Swept, Earlier, ResetEndsEarlierSessions
<1> QED BY <1>1, Invariant, PTL

(* A committed reset, or request for a link, has ended every link that was *)
(* outstanding when it arrived (invalidate_all_for_user).                  *)
THEOREM NewLinksEndLinks == Spec => []EarlierLinksEnd
<1>1. IInv => EarlierLinksEnd
  BY DEF IInv, ReqInv, Swept, Earlier, EarlierLinksEnd
<1> QED BY <1>1, Invariant, PTL

(* A revoked session or a used link is never written back as a good one    *)
(* (UserSession.revoked_at, PasswordResetToken.used_at).                   *)
THEOREM EndedIsFinal == Spec => EndedStaysEnded
<1>1. IInv /\ IInv' /\ [Next]_vars => [\A row \in EndedNow : db'[row] = db[row]]_vars
  <2> SUFFICES ASSUME IInv, IInv', [Next]_vars, NEW row \in EndedNow
               PROVE  db'[row] = db[row]
    OBVIOUS
  <2>1. PICK r \in Requests \cup {Nobody} : Frame(r)
    BY NextIInv
  <2>2. /\ row \in Credentials /\ row \in Row /\ Present(row) /\ db[row].ended
        /\ db[row] \in Credential
    BY RowFacts DEF EndedNow, IInv, TypeOK, Tables, Present
  <2>3. /\ db'[row] \in Credential /\ db'[row].owner = db[row].owner /\ db'[row].ended
    BY <2>1, <2>2 DEF Frame, IInv, TypeOK, Tables, Present
  <2> QED BY <2>2, <2>3 DEF Credential
<1> QED BY <1>1, Invariant, PTL DEF Spec, EndedStaysEnded

-----------------------------------------------------------------------------
(***************************************************************************)
(* The traces: what requests leave behind when they are rolled back, what  *)
(* ended credentials are good for, and what becomes of registrations that  *)
(* race. TInv is inductive beside IInv.                                    *)
(***************************************************************************)

(* The requests that end a row, when they commit.                          *)
Ends(r, row) == job[r].op \in IF row \in LinkRows THEN {"reset", "forgot"} ELSE {"reset", "logout"}

EndedBySomebody == \A row \in EndedNow : \E q \in Requests : pc[q] = "done" /\ Ends(q, row)

(* What r has written over a credential that nobody had ended.             *)
Ending(r) ==
  \A row \in Credentials : lock[row] = r /\ work[row] # NoRow /\ work[row].ended =>
    (Present(row) /\ db[row].ended) \/ Ends(r, row)

Aim(r) ==
  /\ pc[r] = "revoking" => todo[r] \subseteq SessionRows
  /\ pc[r] = "invalidating" => todo[r] \subseteq LinkRows

(* What was ended stays ended, and the row that let r in was not.          *)
PastEnded(r) == \A row \in past[r].ended : row \in Credentials /\ Present(row) /\ db[row].ended

LetIn(r) ==
  verdict[r] = "ok" \/ (verdict[r] = "none" /\ pc[r] \notin {"idle", "read", "failed"}) =>
    /\ job[r].op = "page" => SessionRow(job[r].key) \notin past[r].ended
    /\ job[r].op \in {"form", "reset"} => LinkRow(job[r].key) \notin past[r].ended

(* A registration owns the key of its account until it commits; from then  *)
(* on the account is there.                                                *)
Registers(r) ==
  job[r].op = "register" /\ (pc[r] = "open" \/ (pc[r] \in {"respond", "told"} /\ verdict[r] = "ok"))

Registered(r) == job[r].op = "register" /\ pc[r] = "done" /\ verdict[r] = "ok"

Claim(r) ==
  /\ Registers(r) =>
       /\ who[r] \in Users /\ lock[UserRow(who[r])] = r
       /\ ~ Present(UserRow(who[r])) /\ work[UserRow(who[r])] # NoRow
  /\ Registered(r) => who[r] \in Users /\ Present(UserRow(who[r]))

OneEach == \A r, q \in Requests : Registered(r) /\ Registered(q) /\ who[r] = who[q] => r = q

TraceInv(r) == Ending(r) /\ Aim(r) /\ PastEnded(r) /\ LetIn(r) /\ Claim(r)

TInv == EndedBySomebody /\ OneEach /\ \A r \in Requests : TraceInv(r)

-----------------------------------------------------------------------------
LEMMA Actor ==
  ASSUME IInv, NEW r \in Requests, Arrive(r) \/ Advance(r) \/ Fail(r)
  PROVE  IInv' /\ Frame(r)
BY ArriveStep, ReadStep, WriteStep, SweepStartStep, EndRowStep, QuietStep, CommitRequest, UndoRequest
   DEF Advance

LEMMA OthersStill ==
  ASSUME IInv, NEW r \in Requests, Arrive(r) \/ Advance(r) \/ Fail(r)
  PROVE  \A q \in Requests : q # r => Still(q)
<1> SUFFICES ASSUME NEW q \in Requests, q # r PROVE Still(q) OBVIOUS
<1> USE DEF IInv, TypeOK, Still, World
<1>1. CASE Arrive(r) BY <1>1 DEF Arrive, Goto
<1>2. CASE \/ RefuseEarly(r) \/ ReadLogin(r) \/ ReadRegister(r) \/ ReadForgot(r)
           \/ ReadLink(r) \/ ReadPage(r) \/ ReadLogout(r)
  BY <1>2
     DEF RefuseEarly, ReadLogin, ReadRegister, ReadForgot, ReadLink, ReadPage, ReadLogout, Goto,
         Answer, Load
<1>3. CASE \/ Rehash(r) \/ MarkUsed(r) \/ SetPassword(r) \/ IssueLink(r) \/ Touch(r)
           \/ EndSession(r) \/ StartSession(r) \/ CreateUser(r)
  BY <1>3
     DEF Rehash, MarkUsed, SetPassword, IssueLink, Touch, EndSession, StartSession, CreateUser,
         Goto, Answer
<1>4. CASE \/ RevokeAll(r) \/ InvalidateAll(r) \/ EndRow(r) \/ AllEnded(r) \/ SendEmail(r)
           \/ Respond(r) \/ Commit(r)
  BY <1>4 DEF RevokeAll, InvalidateAll, EndRow, AllEnded, SendEmail, Respond, Commit, Goto, Answer
<1>5. CASE DuplicateUser(r) \/ DeadlockVictim(r) \/ Fail(r)
  BY <1>5 DEF DuplicateUser, DeadlockVictim, Fail, Undo, Goto
<1> QED BY <1>1, <1>2, <1>3, <1>4, <1>5 DEF Advance

(* A step of r keeps what is said of the others.                           *)
LEMMA OthersTraces ==
  ASSUME IInv, NEW r \in Requests \cup {Nobody}, Frame(r), NEW q \in Requests, q # r, Still(q),
         TraceInv(q)
  PROVE  TraceInv(q)'
<1> USE RowFacts, AbsentAssumption
<1>1. Ending(q)' BY DEF TraceInv, Ending, Ends, Still, Frame
<1>2. Aim(q)' /\ LetIn(q)' BY DEF TraceInv, Aim, LetIn, Still
<1>3. PastEnded(q)' BY DEF TraceInv, PastEnded, Still, Frame
<1>4. Claim(q)'
  <2>1. (Registers(q)' <=> Registers(q)) /\ (Registered(q)' <=> Registered(q)) /\ who'[q] = who[q]
    BY DEF Still, Registers, Registered
  <2>2. Claim(q) BY DEF TraceInv
  <2>3. ASSUME NEW row \in Row
        PROVE  /\ Present(row) => Present(row)'
               /\ lock[row] = q =>
                    lock'[row] = q /\ work'[row] = work[row] /\ (Present(row)' => Present(row))
    BY DEF Frame
  <2>4. who[q] \in Users => UserRow(who[q]) \in Row OBVIOUS
  <2> QED BY <2>1, <2>2, <2>3, <2>4 DEF Claim, Present
<1> QED BY <1>1, <1>2, <1>3, <1>4 DEF TraceInv

-----------------------------------------------------------------------------
(* What a step of r owes: its own half of TInv, and nothing ended or       *)
(* registered that was not so before, but by its commit.                   *)
Own(r) ==
  /\ pc[r] # "done"
  /\ TraceInv(r)'
  /\ \A row \in EndedNow' : row \in EndedNow \/ (pc'[r] = "done" /\ Ends(r, row)')
  /\ Registered(r)' => Registers(r) /\ who'[r] = who[r]

(* The tables are untouched, and so are the old versions of past.          *)
LEMMA QuietTraces ==
  ASSUME IInv, NEW r \in Requests, TraceInv(r), NoWrite, pc[r] # "done", pc'[r] # "done",
         Aim(r)', PastEnded(r)', LetIn(r)',
         job'[r] = job[r] \/ pc[r] = "idle", Registers(r)' => Registers(r) /\ who'[r] = who[r]
  PROVE  Own(r)
<1> USE RowFacts, AbsentAssumption
<1>1. db' = db /\ work' = work /\ lock' = lock BY DEF NoWrite
<1>2. Ending(r)'
  <2>1. CASE pc[r] = "idle" BY <2>1, <1>1 DEF IInv, ReqInv, Unborn, Ending
  <2>2. CASE job'[r] = job[r] BY <2>2, <1>1 DEF TraceInv, Ending, Ends, Present
  <2> QED BY <2>1, <2>2
<1>3. Claim(r)' BY <1>1 DEF TraceInv, Claim, Registered, Present
<1>4. EndedNow' = EndedNow BY <1>1 DEF EndedNow, Present
<1> QED BY <1>2, <1>3, <1>4 DEF Own, TraceInv, Registered

LEMMA ArriveTraces ==
  ASSUME IInv, NEW r \in Requests, TraceInv(r), Arrive(r)
  PROVE  Own(r)
<1> USE RowFacts, AbsentAssumption
<1>1. /\ pc[r] = "idle" /\ pc'[r] = "read" /\ verdict'[r] = "none" /\ who' = who /\ NoWrite
      /\ past'[r] = [open |-> OpenNow, ended |-> EndedNow]
  BY DEF Arrive, Goto, IInv, TypeOK, ReqInv, Script, Steps
<1>2. Aim(r)' /\ LetIn(r)' /\ ~ Registers(r)' BY <1>1 DEF Aim, LetIn, Registers
<1>3. PastEnded(r)' BY <1>1 DEF PastEnded, EndedNow, NoWrite, Present
<1> QED BY <1>1, <1>2, <1>3, QuietTraces

(* The row that lets a request in is read before the request owns a lock,  *)
(* so what is read is committed.                                           *)
LEMMA ReadTraces ==
  ASSUME IInv, NEW r \in Requests, TraceInv(r),
         \/ RefuseEarly(r) \/ ReadLogin(r) \/ ReadRegister(r) \/ ReadForgot(r)
         \/ ReadLink(r) \/ ReadPage(r) \/ ReadLogout(r)
  PROVE  Own(r)
<1> USE RowFacts, AbsentAssumption
<1>1. LocalTypes(r) /\ ReqInv(r) /\ DbTypes BY TypeFacts
<1>2. /\ pc[r] = "read" /\ NoWrite /\ job' = job /\ past' = past /\ verdict[r] = "none"
      /\ \A row \in Row : Visible(r, row) = db[row]
  BY <1>1
     DEF RefuseEarly, ReadLogin, ReadRegister, ReadForgot, ReadLink, ReadPage, ReadLogout, At,
         ReqInv, Script, Unborn, Visible, PG!Visible, Steps
<1>3. /\ pc'[r] \in {"respond", "rehash", "open", "create", "invalidate", "spend", "touch", "end"}
      /\ pc'[r] = "open" => job[r].op = "login"
      /\ verdict'[r] = "refused" \/ job[r].op # "register" \/ pc'[r] = "create"
  BY <1>1, <1>2
     DEF RefuseEarly, ReadLogin, ReadRegister, ReadForgot, ReadLink, ReadPage, ReadLogout, At,
         Answer, Goto, LocalTypes, IInv, TypeOK
<1>4. ASSUME verdict'[r] \in {"ok", "none"}
      PROVE  /\ job[r].op = "page" => Usable(r, SessionRow(job[r].key))
             /\ job[r].op \in {"form", "reset"} => Usable(r, LinkRow(job[r].key))
  BY <1>1, <1>2, <1>4
     DEF RefuseEarly, ReadLogin, ReadRegister, ReadForgot, ReadLink, ReadPage, ReadLogout, At,
         Answer, Goto, LocalTypes, IInv, TypeOK
<1>5. PastEnded(r)' BY <1>2 DEF TraceInv, PastEnded, NoWrite, Present
<1>6. LetIn(r)'
  <2>1. ASSUME NEW row \in Row, Usable(r, row) PROVE row \notin past[r].ended
    BY <1>2, <2>1 DEF Usable, TraceInv, PastEnded, Present
  <2>2. /\ job[r] \in Jobs
        /\ job[r].op = "page" => SessionRow(job[r].key) \in Row
        /\ job[r].op \in {"form", "reset"} => LinkRow(job[r].key) \in Row
    BY <1>1, <1>2 DEF ReqInv, Script, Jobs
  <2> QED BY <1>2, <1>4, <2>1, <2>2 DEF LetIn
<1>7. Aim(r)' /\ ~ Registers(r)' BY <1>2, <1>3 DEF Aim, Registers
<1> QED BY <1>2, <1>3, <1>5, <1>6, <1>7, QuietTraces

LEMMA MoveTraces ==
  ASSUME IInv, NEW r \in Requests, TraceInv(r),
         RevokeAll(r) \/ InvalidateAll(r) \/ AllEnded(r) \/ SendEmail(r) \/ Respond(r)
  PROVE  Own(r)
<1> USE RowFacts, AbsentAssumption
<1>1. LocalTypes(r) /\ ReqInv(r) BY TypeFacts
<1>2. /\ NoWrite /\ job' = job /\ past' = past /\ who' = who
      /\ \/ /\ pc[r] = "revoke" /\ pc'[r] = "revoking"
            /\ todo'[r] \subseteq SessionRows /\ verdict' = verdict
         \/ /\ pc[r] = "invalidate" /\ pc'[r] = "invalidating"
            /\ todo'[r] \subseteq LinkRows /\ verdict' = verdict
         \/ pc[r] = "revoking" /\ pc'[r] = "invalidate" /\ verdict' = verdict
         \/ pc[r] = "invalidating" /\ job[r].op = "reset" /\ pc'[r] = "open" /\ verdict' = verdict
         \/ pc[r] = "invalidating" /\ pc'[r] = "issue" /\ verdict' = verdict
         \/ pc[r] = "send" /\ pc'[r] = "respond" /\ verdict'[r] = "ok"
         \/ pc[r] = "respond" /\ pc'[r] = "told" /\ verdict' = verdict
  BY DEF RevokeAll, InvalidateAll, AllEnded, SendEmail, Respond, Goto, Answer, Matching, IInv, TypeOK
<1>3. PastEnded(r)' BY <1>2 DEF TraceInv, PastEnded, NoWrite, Present
<1>4. Aim(r)' BY <1>2 DEF Aim
<1>5. verdict[r] = "none" \/ pc[r] = "respond"
  BY <1>1, <1>2 DEF ReqInv, Script, Steps
<1>6. LetIn(r)' BY <1>2, <1>5 DEF TraceInv, LetIn
<1>7. Registers(r)' => Registers(r) BY <1>1, <1>2 DEF Registers, ReqInv, Script
<1> QED BY <1>2, <1>3, <1>4, <1>6, <1>7, QuietTraces

(* A write of one row: what is written as ended was ended, or is r's to    *)
(* end.                                                                    *)
LEMMA StoreTraces ==
  ASSUME IInv, NEW r \in Requests, TraceInv(r), NEW row \in Row, NEW val, Store(r, row, val),
         row \in Credentials =>
           (val.ended => (work[row] # NoRow /\ work[row].ended) \/ Ends(r, row)),
         pc[r] # "done", pc'[r] # "done", job' = job, past' = past
  PROVE  /\ Ending(r)' /\ PastEnded(r)'
         /\ EndedNow' = EndedNow
         /\ db' = db /\ lock' = [lock EXCEPT ![row] = r] /\ work' = [work EXCEPT ![row] = val]
<1> USE RowFacts, AbsentAssumption
<1>1. /\ db' = db /\ lock' = [lock EXCEPT ![row] = r] /\ work' = [work EXCEPT ![row] = val]
      /\ lock[row] \in {Nobody, r}
  BY DEF Store, PG!Store, PG!Writable
<1>2. ASSUME NEW c \in Credentials, lock'[c] = r, work'[c] # NoRow, work'[c].ended
      PROVE  (Present(c)' /\ db'[c].ended) \/ Ends(r, c)'
  <2>1. DbTypes /\ LockedWrites BY DEF IInv, TypeOK, DbTypes, DbInv
  <2>2. lock[c] = r /\ work[c] # NoRow /\ work[c].ended => (Present(c) /\ db[c].ended) \/ Ends(r, c)
    BY DEF TraceInv, Ending
  <2>3. (Ends(r, c)' <=> Ends(r, c)) /\ (Present(c)' <=> Present(c)) BY <1>1 DEF Ends, Present
  <2>4. CASE c = row
    <3>1. (work[c] # NoRow /\ work[c].ended) \/ Ends(r, c) BY <1>1, <1>2, <2>1, <2>4 DEF DbTypes, Tables
    <3>2. CASE lock[c] = r BY <1>1, <2>2, <2>3, <3>1, <3>2
    <3>3. CASE lock[c] = Nobody BY <1>1, <2>1, <2>3, <3>1, <3>3 DEF LockedWrites, Present
    <3> QED BY <1>1, <2>4, <3>2, <3>3
  <2>5. CASE c # row BY <1>1, <1>2, <2>1, <2>2, <2>3, <2>5 DEF DbTypes, Tables
  <2> QED BY <2>4, <2>5
<1>3. Ending(r)' BY <1>2 DEF Ending
<1>4. PastEnded(r)' BY <1>1 DEF TraceInv, PastEnded, Present
<1>5. EndedNow' = EndedNow BY <1>1 DEF EndedNow, Present
<1> QED BY <1>1, <1>3, <1>4, <1>5

LEMMA UpdateTraces ==
  ASSUME IInv, NEW r \in Requests, TraceInv(r),
         \/ Rehash(r) \/ MarkUsed(r) \/ SetPassword(r) \/ IssueLink(r) \/ Touch(r) \/ EndSession(r)
         \/ StartSession(r)
  PROVE  Own(r)
<1> USE RowFacts, AbsentAssumption
<1>1. LocalTypes(r) /\ ReqInv(r) BY TypeFacts
<1>2. /\ job' = job /\ past' = past /\ who' = who /\ verdict[r] = "none"
      /\ \/ pc[r] = "rehash" /\ pc'[r] = "open" /\ verdict' = verdict
         \/ pc[r] = "spend" /\ pc'[r] = "setpw" /\ verdict' = verdict
         \/ pc[r] = "setpw" /\ pc'[r] = "revoke" /\ verdict' = verdict
         \/ pc[r] = "issue" /\ pc'[r] = "send" /\ verdict' = verdict
         \/ pc[r] \in {"touch", "end", "open"} /\ pc'[r] = "respond" /\ verdict'[r] = "ok"
  BY <1>1
     DEF Rehash, MarkUsed, SetPassword, IssueLink, Touch, EndSession, StartSession, Goto, Answer, IInv,
         TypeOK, ReqInv, Script, Steps
<1>3. PICK row, val :
        /\ row \in Row /\ Store(r, row, val)
        /\ row \in Credentials =>
             (val.ended => (work[row] # NoRow /\ work[row].ended) \/ Ends(r, row))
        /\ pc[r] \in {"touch", "end", "open"} => row \in Credentials
  <2>1. CASE Rehash(r) \/ SetPassword(r)
    <3>1. who[r] \in Users /\ pc[r] \in {"rehash", "setpw"}
      BY <1>1, <2>1 DEF ReqInv, Loaded, Rehash, SetPassword
    <3> QED BY <2>1, <3>1 DEF Rehash, SetPassword
  <2>2. CASE MarkUsed(r)
    <3>1. job[r].key \in Requests /\ job[r].op = "reset" /\ pc[r] = "spend"
      BY <1>1, <2>2 DEF ReqInv, Script, Jobs, MarkUsed
    <3> QED BY <2>2, <3>1 DEF MarkUsed, Ends
  <2>3. CASE EndSession(r)
    <3>1. job[r].key \in Requests /\ job[r].op = "logout" /\ pc[r] = "end"
      BY <1>1, <2>3 DEF ReqInv, Script, Jobs, EndSession
    <3> QED BY <2>3, <3>1 DEF EndSession, Ends
  <2>4. CASE Touch(r)
    <3>1. job[r].key \in Requests /\ pc[r] = "touch" /\ Present(SessionRow(job[r].key))
      BY <1>1, <2>4 DEF ReqInv, Script, Jobs, Targets, Touch
    <3>2. work[SessionRow(job[r].key)] # NoRow BY <3>1 DEF IInv, DbInv, WorkFollows
    <3> QED BY <2>4, <3>1, <3>2 DEF Touch
  <2>5. CASE IssueLink(r) \/ StartSession(r)
    <3>1. ~ [owner |-> who[r], ended |-> FALSE].ended OBVIOUS
    <3>2. CASE IssueLink(r) BY <3>1, <3>2 DEF IssueLink
    <3>3. CASE StartSession(r) BY <3>1, <3>3 DEF StartSession
    <3> QED BY <2>5, <3>2, <3>3
  <2> QED BY <2>1, <2>2, <2>3, <2>4, <2>5
<1>4. /\ Ending(r)' /\ PastEnded(r)' /\ EndedNow' = EndedNow
      /\ db' = db /\ lock' = [lock EXCEPT ![row] = r] /\ work' = [work EXCEPT ![row] = val]
  BY <1>2, <1>3, StoreTraces
<1>5. Aim(r)' /\ LetIn(r)' BY <1>2 DEF Aim, TraceInv, LetIn
<1>6. Registers(r)' => Registers(r) /\ pc[r] = "open"
  BY <1>1, <1>2 DEF Registers, ReqInv, Script
<1>7. Claim(r)'
  BY <1>2, <1>3, <1>4, <1>6 DEF TraceInv, Claim, Registered, Present, IInv, TypeOK, Tables
<1> QED BY <1>2, <1>4, <1>5, <1>7 DEF Own, TraceInv, Registered

LEMMA CreateTraces ==
  ASSUME IInv, NEW r \in Requests, TraceInv(r), CreateUser(r)
  PROVE  Own(r)
<1> USE RowFacts, AbsentAssumption
<1> DEFINE row == UserRow(who[r])
           val == [pw |-> job[r].pw, weak |-> FALSE, active |-> TRUE]
<1>1. LocalTypes(r) /\ ReqInv(r) BY TypeFacts
<1>2. /\ job' = job /\ past' = past /\ who' = who /\ verdict' = verdict /\ verdict[r] = "none"
      /\ pc[r] = "create" /\ pc'[r] = "open" /\ who[r] \in Users /\ job[r].pw \in Passwords
      /\ work[row] = NoRow /\ Store(r, row, val)
  BY <1>1 DEF CreateUser, Goto, IInv, TypeOK, ReqInv, Script, Loaded, Steps, Jobs
<1>3. val # NoRow /\ row \in Row /\ row \notin Credentials
  <2>1. val \in Account BY <1>2 DEF Account
  <2>2. row \in UserRows /\ row \in Row BY <1>2
  <2> QED BY <2>1, <2>2
<1>4. /\ Ending(r)' /\ PastEnded(r)' /\ EndedNow' = EndedNow
      /\ db' = db /\ lock' = [lock EXCEPT ![row] = r] /\ work' = [work EXCEPT ![row] = val]
  BY <1>2, <1>3, StoreTraces
<1>5. ~ Present(row) BY <1>2, <1>3 DEF IInv, DbInv, WorkFollows
<1>6. Aim(r)' /\ LetIn(r)' BY <1>2 DEF Aim, TraceInv, LetIn
<1>7. Claim(r)'
  <2>1. /\ who'[r] = who[r] /\ lock'[row] = r /\ work'[row] = val /\ db'[row] = NoRow
    BY <1>2, <1>3, <1>4, <1>5 DEF IInv, TypeOK, Tables, Present
  <2> QED BY <2>1, <1>2, <1>3 DEF Claim, Registered, Present
<1> QED BY <1>2, <1>4, <1>6, <1>7 DEF Own, TraceInv, Registered

LEMMA EndRowTraces ==
  ASSUME IInv, NEW r \in Requests, TraceInv(r), EndRow(r)
  PROVE  Own(r)
<1> USE RowFacts, AbsentAssumption
<1>1. LocalTypes(r) /\ ReqInv(r) BY TypeFacts
<1>2. PICK row \in todo[r] : Store(r, row, Ended(row)) /\ todo' = [todo EXCEPT ![r] = @ \ {row}]
  BY DEF EndRow
<1>3. /\ pc[r] \in {"revoking", "invalidating"} /\ pc' = pc /\ job' = job /\ past' = past
      /\ who' = who /\ verdict' = verdict /\ todo'[r] \subseteq todo[r]
  BY <1>2 DEF EndRow, IInv, TypeOK
<1>4. row \in Credentials /\ row \in Row BY <1>1, <1>2 DEF LocalTypes
<1>5. Ends(r, row)
  BY <1>1, <1>2, <1>3, <1>4 DEF TraceInv, Aim, ReqInv, Script, Ends
<1>6. /\ Ending(r)' /\ PastEnded(r)' /\ EndedNow' = EndedNow
  BY <1>2, <1>3, <1>4, <1>5, StoreTraces
<1>7. Aim(r)' /\ LetIn(r)' BY <1>3 DEF Aim, TraceInv, LetIn
<1>8. ~ Registers(r)' /\ ~ Registered(r)' BY <1>3 DEF Registers, Registered
<1> QED BY <1>3, <1>6, <1>7, <1>8 DEF Own, TraceInv, Claim

(* What a commit ends, r has ended; the account it publishes was its own.  *)
LEMMA CommitTraces ==
  ASSUME IInv, NEW r \in Requests, TraceInv(r), Commit(r)
  PROVE  Own(r)
<1> USE RowFacts, AbsentAssumption
<1>1. LocalTypes(r) /\ ReqInv(r) /\ DbTypes /\ WorkFollows
  BY TypeFacts DEF IInv, DbInv
<1>2. Frame(r) BY CommitRequest
<1>3. /\ db' = [row \in Row |-> IF lock[row] = r THEN work[row] ELSE db[row]]
      /\ lock' = [row \in Row |-> IF lock[row] = r THEN Nobody ELSE lock[row]]
      /\ pc[r] = "told" /\ pc'[r] = "done"
      /\ job' = job /\ past' = past /\ who' = who /\ verdict' = verdict /\ todo' = todo
  BY DEF Commit, PG!CommitTx, PG!Release, Goto, IInv, TypeOK
<1>4. Ending(r)' BY <1>3 DEF Ending
<1>5. PastEnded(r)' BY <1>2, <1>3 DEF TraceInv, PastEnded, Frame
<1>6. Aim(r)' /\ LetIn(r)' BY <1>3 DEF Aim, TraceInv, LetIn
<1>7. /\ Registered(r)' => Registers(r)
      /\ ~ Registers(r)'
  BY <1>3 DEF Registered, Registers
<1>8. Claim(r)'
  <2>1. ASSUME Registers(r)
        PROVE  who[r] \in Users /\ db'[UserRow(who[r])] # NoRow
    BY <1>3, <2>1 DEF TraceInv, Claim
  <2> QED BY <1>3, <1>7, <2>1 DEF Claim, Present
<1>9. ASSUME NEW row \in EndedNow' PROVE row \in EndedNow \/ Ends(r, row)'
  <2>1. row \in Credentials /\ db'[row] # NoRow /\ db'[row].ended
    BY <1>9 DEF EndedNow, Present
  <2>2. CASE lock[row] = r
    BY <1>3, <2>1, <2>2 DEF TraceInv, Ending, EndedNow, Ends
  <2>3. CASE lock[row] # r
    BY <1>3, <2>1, <2>3 DEF EndedNow, Present
  <2> QED BY <2>2, <2>3
<1> QED BY <1>3, <1>4, <1>5, <1>6, <1>7, <1>8, <1>9 DEF Own, TraceInv

LEMMA UndoTraces ==
  ASSUME IInv, NEW r \in Requests, TraceInv(r), DuplicateUser(r) \/ Fail(r) \/ DeadlockVictim(r)
  PROVE  Own(r)
<1> USE RowFacts, AbsentAssumption
<1>1. LocalTypes(r) /\ ReqInv(r) BY TypeFacts
<1>2. pc[r] \notin {"idle", "done"}
  BY DEF DuplicateUser, Fail, DeadlockVictim, Deadlocked, WaitsFor, Needs, Running, Over
<1>3. /\ db' = db /\ lock' = [row \in Row |-> IF lock[row] = r THEN Nobody ELSE lock[row]]
      /\ pc'[r] = IF Told(r) THEN "lost" ELSE "failed"
      /\ job' = job /\ past' = past /\ who' = who /\ verdict'[r] \in {verdict[r], "conflict"}
  BY DEF DuplicateUser, Fail, DeadlockVictim, Undo, PG!RollbackTx, PG!Release, Goto, IInv, TypeOK
<1>4. Ending(r)' BY <1>3 DEF Ending
<1>5. PastEnded(r)' BY <1>3 DEF TraceInv, PastEnded, Present
<1>6. Aim(r)' BY <1>3 DEF Aim
<1>7. LetIn(r)'
  <2>1. CASE Told(r) BY <1>3, <2>1 DEF Told, TraceInv, LetIn
  <2>2. CASE ~ Told(r) BY <1>3, <2>2 DEF TraceInv, LetIn
  <2> QED BY <2>1, <2>2
<1>8. ~ Registered(r)' /\ ~ Registers(r)' BY <1>3 DEF Registered, Registers
<1>9. EndedNow' = EndedNow BY <1>3 DEF EndedNow, Present
<1> QED BY <1>2, <1>4, <1>5, <1>6, <1>7, <1>8, <1>9 DEF Own, TraceInv, Claim

-----------------------------------------------------------------------------
LEMMA OwnStep ==
  ASSUME IInv, NEW r \in Requests, TraceInv(r), Arrive(r) \/ Advance(r) \/ Fail(r)
  PROVE  Own(r)
BY ArriveTraces, ReadTraces, MoveTraces, UpdateTraces, CreateTraces, EndRowTraces, CommitTraces,
   UndoTraces
   DEF Advance

LEMMA RequestTraces ==
  ASSUME IInv, TInv, NEW r \in Requests, Arrive(r) \/ Advance(r) \/ Fail(r)
  PROVE  TInv'
<1>1. Own(r) /\ Frame(r) BY OwnStep, Actor DEF TInv
<1>2. \A q \in Requests : q # r => Still(q) BY OthersStill
<1>3. \A q \in Requests : TraceInv(q)'
  BY <1>1, <1>2, OthersTraces DEF TInv, Own
<1>4. EndedBySomebody'
  <2> SUFFICES ASSUME NEW row \in EndedNow'
               PROVE  \E q \in Requests : pc'[q] = "done" /\ Ends(q, row)'
    BY DEF EndedBySomebody
  <2>1. CASE row \in EndedNow
    <3>1. PICK q \in Requests : pc[q] = "done" /\ Ends(q, row) BY <2>1 DEF TInv, EndedBySomebody
    <3>2. q # r BY <1>1, <3>1 DEF Own
    <3> QED BY <1>2, <3>1, <3>2 DEF Still, Ends
  <2>2. CASE row \notin EndedNow BY <1>1, <2>2 DEF Own
  <2> QED BY <2>1, <2>2
<1>5. OneEach'
  <2> SUFFICES ASSUME NEW p \in Requests, NEW q \in Requests, p # q,
                      Registered(p)', Registered(q)', who'[p] = who'[q]
               PROVE  FALSE
    BY DEF OneEach
  <2>1. ASSUME NEW o \in Requests, o # r, Registered(o)'
        PROVE  Registered(o) /\ who'[o] = who[o] /\ who[o] \in Users /\ Present(UserRow(who[o]))
    BY <1>2, <2>1 DEF Still, Registered, TInv, TraceInv, Claim
  <2>2. Registered(r)' => who'[r] = who[r] /\ ~ Present(UserRow(who[r]))
    BY <1>1 DEF Own, TInv, TraceInv, Claim
  <2>3. CASE p # r /\ q # r BY <2>1, <2>3 DEF TInv, OneEach
  <2>4. CASE p = r BY <2>1, <2>2, <2>4
  <2>5. CASE q = r BY <2>1, <2>2, <2>5
  <2> QED BY <2>3, <2>4, <2>5
<1> QED BY <1>3, <1>4, <1>5 DEF TInv

(* The steps of the world take no request anywhere and end nothing.        *)
LEMMA WorldTraces ==
  ASSUME IInv, TInv, Frame(Nobody), \A q \in Requests : Still(q),
         \A row \in Credentials : db'[row] = db[row]
  PROVE  TInv'
<1> USE RowFacts, AbsentAssumption
<1>1. \A q \in Requests : TraceInv(q)' BY OthersTraces DEF TInv
<1>2. EndedNow' = EndedNow BY DEF EndedNow, Present
<1>3. EndedBySomebody' BY <1>2 DEF TInv, EndedBySomebody, Ends, Still
<1>4. OneEach' BY DEF TInv, OneEach, Registered, Still
<1> QED BY <1>1, <1>3, <1>4 DEF TInv

LEMMA InitTInv == Init => TInv
<1> SUFFICES ASSUME Init PROVE TInv OBVIOUS
<1> USE RowFacts, AbsentAssumption
<1>1. /\ \A row \in Credentials : db[row] = NoRow
      /\ \A row \in Row : lock[row] = Nobody
      /\ \A r \in Requests : pc[r] = "idle" /\ past[r].ended = {} /\ verdict[r] = "none"
  BY DEF Init
<1> QED BY <1>1 DEF TInv, EndedBySomebody, OneEach, TraceInv, Ending, Aim, PastEnded, LetIn, Claim,
       Registers, Registered, EndedNow, Present

LEMMA NextTInv == IInv /\ TInv /\ [Next]_vars => TInv'
<1> SUFFICES ASSUME IInv, TInv, [Next]_vars PROVE TInv' OBVIOUS
<1> USE RowFacts
<1>1. ASSUME NEW r \in Requests, Arrive(r) \/ Advance(r) \/ Fail(r) PROVE TInv'
  BY <1>1, RequestTraces
<1>2. ASSUME NEW row \in Credentials, Expire(row) PROVE TInv'
  <2>1. UNCHANGED <<db, work, lock, pc, job, who, todo, verdict, past>>
    BY <1>2 DEF Expire, NoWrite
  <2>2. Frame(Nobody) BY <2>1 DEF Frame, Present
  <2> QED BY <2>1, <2>2, WorldTraces DEF Still
<1>3. ASSUME NEW u \in MayDisable, Disable(u) PROVE TInv'
  <2>1. u \in Users /\ DbTypes /\ DbInv BY BoundsAssumption DEF IInv, TypeOK, DbTypes
  <2>2. Frame(Nobody) BY <1>3, <2>1, DisableStep
  <2>3. /\ UNCHANGED <<pc, job, who, todo, verdict, past>>
        /\ db' = [db EXCEPT ![UserRow(u)].active = FALSE]
    BY <1>3 DEF Disable
  <2>4. \A row \in Credentials : db'[row] = db[row] BY <2>1, <2>3
  <2> QED BY <2>2, <2>3, <2>4, WorldTraces DEF Still
<1>4. ASSUME UNCHANGED vars PROVE TInv'
  <2>1. Frame(Nobody) BY <1>4 DEF vars, Frame, Present
  <2> QED BY <1>4, <2>1, WorldTraces DEF vars, Still
<1> QED BY <1>1, <1>2, <1>3, <1>4 DEF Next

(* The invariant the three theorems below rest on.                         *)
THEOREM TracesInvariant == Spec => [](IInv /\ TInv)
<1>1. IInv /\ TInv /\ [Next]_vars => (IInv /\ TInv)' BY NextIInv, NextTInv
<1>2. Init => IInv /\ TInv BY InitIInv, InitTInv
<1> QED BY <1>1, <1>2, PTL DEF Spec

(* A request that is rolled back leaves no session and no link, and what   *)
(* is ended was ended by a request that committed (get_db).                *)
THEOREM RollbacksLeaveNothing == Spec => []RollbackLeavesNoTrace
<1>1. IInv /\ TInv => RollbackLeavesNoTrace
  <2> SUFFICES ASSUME IInv, TInv PROVE RollbackLeavesNoTrace OBVIOUS
  <2>1. ASSUME NEW r \in Requests, pc[r] \in {"failed", "lost"}
        PROVE  ~ Present(SessionRow(r)) /\ ~ Present(LinkRow(r))
    BY <2>1 DEF IInv, ReqInv, Unborn, Minted
  <2>2. ASSUME NEW row \in EndedNow
        PROVE  \E r \in Requests :
                 pc[r] = "done"
                 /\ job[r].op \in IF row \in LinkRows THEN {"reset", "forgot"} ELSE {"reset", "logout"}
    BY DEF TInv, EndedBySomebody, Ends
  <2> QED BY <2>1, <2>2 DEF RollbackLeavesNoTrace
<1> QED BY <1>1, TracesInvariant, PTL

(* What was revoked or used before a request arrived does not let it in    *)
(* (resolve_session, reset_password, user_for_reset_token).                *)
THEOREM EndedIsUseless == Spec => []EndedIsRefused
<1>1. IInv /\ TInv => EndedIsRefused
  BY DEF TInv, TraceInv, LetIn, EndedIsRefused, Granted
<1> QED BY <1>1, TracesInvariant, PTL

(* One address, one registration (register, the constraint on email).      *)
THEOREM OneRegistrationWins == Spec => []OneAccountPerEmail
<1>1. IInv /\ TInv => OneAccountPerEmail
  BY DEF TInv, OneEach, Registered, OneAccountPerEmail, Granted
<1> QED BY <1>1, TracesInvariant, PTL
=============================================================================
