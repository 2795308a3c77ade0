--------------------------- MODULE Server_proofs ---------------------------
(***************************************************************************)
(* Proofs about Server, for any requests, browsers, accounts and analytics *)
(* destinations, any workload, any failures, and any number of threads and *)
(* connections.                                                            *)
(***************************************************************************)
EXTENDS Server, FiniteSetTheorems, TLAPS

(* The conjuncts of TypeOK, grouped by what a step changes together.       *)
StoreTypes ==
  /\ \A rows \in {db, work} :
       /\ rows \in [Row -> Users \cup Session \cup {NoRow}]
       /\ \A row \in SessionRows : rows[row] \in Session \cup {NoRow}
       /\ \A row \in NoteRows : rows[row] \in Users \cup {NoRow}
  /\ lock \in [Row -> Requests \cup {Nobody}]

LocalTypes ==
  /\ pc \in [Requests -> Steps]
  /\ job \in [Requests -> Jobs \cup {NoJob}]
  /\ verdict \in [Requests -> Outcomes]
  /\ tried \in [Requests -> SUBSET Destinations]

ThreadTypes == thread \subseteq Requests /\ IsFiniteSet(thread) /\ Cardinality(thread) <= Threads

PoolTypes == conn \subseteq Requests /\ IsFiniteSet(conn) /\ Cardinality(conn) <= Pool

BrowserTypes ==
  /\ jar \in [Browsers -> Tokens]
  /\ pages \in [Browsers -> SUBSET Names]
  /\ signed \subseteq Browsers /\ agreed \subseteq Browsers /\ excused \subseteq Browsers

Types == StoreTypes /\ LocalTypes /\ ThreadTypes /\ PoolTypes /\ BrowserTypes

LEMMA TypesImplyTypeOK == Types => TypeOK
BY DEF Types, StoreTypes, LocalTypes, ThreadTypes, PoolTypes, BrowserTypes, TypeOK

-----------------------------------------------------------------------------
(* The inductive invariant. First, which request can be at which step,     *)
(* with what outcome, and what it has tracked by then.                     *)
Before == {"idle", "depend", "anonymous", "handle", "answer"} \cup Sql

Script(r) ==
  /\ pc[r] = "idle" => job[r] = NoJob
  /\ pc[r] # "idle" => job[r] \in Jobs
  /\ pc[r] \in {"depend", "load", "touch", "anonymous"} => job[r].op \in WantsUser
  /\ pc[r] \in {"load", "touch"} => job[r].signed
  /\ pc[r] = "answer" => job[r].op \in {"health", "home", "consent"}
  /\ pc[r] = "select" => job[r].op = "list"
  /\ pc[r] = "open"   => job[r].op = "login"
  /\ pc[r] = "insert" => job[r].op = "create"
  /\ pc[r] \in {"find", "erase"} => job[r].op = "delete"
  /\ pc[r] \in Before => verdict[r] = "none"
  /\ pc[r] \in {"error", "render", "failed"} => verdict[r] \in Failures
  /\ pc[r] \in {"track", "send"} => Made(r, "login") /\ job[r].agreed
  /\ pc[r] \in {"told", "done", "lost"} => verdict[r] \in {"ok", "invalid"}
  /\ pc[r] = "lost" => r \in Faulty

Tracked(r) ==
  /\ pc[r] \notin {"send", "told", "done", "lost"} => tried[r] = {}
  /\ pc[r] \in {"told", "done", "lost"} =>
       tried[r] = IF Made(r, "login") /\ job[r].agreed THEN Destinations ELSE {}

(* What it occupies.                                                       *)
Holds(r) ==
  /\ r \in conn => /\ pc[r] \notin {"idle", "error", "render"} \cup Over
                   /\ job[r].op \in NeedsDb
  /\ r \in thread => pc[r] \notin {"idle", "told"} \cup Queues \cup Over
  /\ \A row \in Row : lock[row] = r => r \in conn

RequestInv == \A r \in Requests : Script(r) /\ Tracked(r) /\ Holds(r)

-----------------------------------------------------------------------------
LEMMA RowFacts ==
  /\ Row = SessionRows \cup NoteRows
  /\ SessionRows \cap NoteRows = {}
  /\ \A b \in Browsers : SessionRow(b) \in SessionRows
  /\ \A n \in Names : NoteRow(n) \in NoteRows
  /\ \A b, c \in Browsers : SessionRow(b) = SessionRow(c) => b = c
  /\ \A m, n \in Names : NoteRow(m) = NoteRow(n) => m = n
  /\ \A row \in NoteRows : \E n \in Names : row = NoteRow(n)
BY DEF Row, SessionRows, NoteRows, SessionRow, NoteRow

LEMMA HandlerType == \A op \in Ops : Handler[op] \in {"answer", "select", "open", "insert", "find"}
BY DEF Handler, Ops, Safe

LEMMA InitTypes == Init => Types
<1> SUFFICES ASSUME Init PROVE Types OBVIOUS
<1> USE AbsentAssumption, PoolAssumption
<1>1. PICK note \in Users :
        db = [row \in Row |-> IF row = NoteRow(Earlier) THEN note
                             ELSE IF row \in {SessionRow(b) : b \in signed} THEN "stale"
                             ELSE NoRow]
  BY DEF Init
<1>2. Earlier \in Names BY DEF Names
<1>3. \A row \in Row : db[row] \in Users \cup Session \cup {NoRow}
  BY <1>1 DEF Session
<1>4. \A row \in SessionRows : db[row] \in Session \cup {NoRow}
  BY <1>1 DEF Session, SessionRows, NoteRow, Row
<1>5. \A row \in NoteRows : db[row] \in Users \cup {NoRow}
  BY <1>1 DEF NoteRows, SessionRow, Row
<1>6. StoreTypes
  BY <1>1, <1>3, <1>4, <1>5 DEF Init, StoreTypes
<1>7. ThreadTypes /\ PoolTypes
  BY FS_EmptySet DEF Init, ThreadTypes, PoolTypes
<1>8. BrowserTypes
  BY <1>2 DEF Init, BrowserTypes, Tokens, NoToken
<1>9. LocalTypes
  BY DEF Init, LocalTypes, Steps, Outcomes
<1> QED BY <1>6, <1>7, <1>8, <1>9 DEF Types

-----------------------------------------------------------------------------
(* What the parts of an action do to the types.                            *)
LEMMA StoreKeeps ==
  ASSUME StoreTypes, NEW r \in Requests, NEW row \in Row, NEW val, PG!Store(r, row, val),
         \/ row \in SessionRows /\ val \in Session
         \/ row \in NoteRows /\ val \in Users \cup {NoRow}
  PROVE  StoreTypes'
BY RowFacts DEF StoreTypes, PG!Store

LEMMA RollbackKeeps ==
  ASSUME StoreTypes, NEW r \in Requests, PG!RollbackTx(r)
  PROVE  StoreTypes'
BY RowFacts DEF StoreTypes, PG!RollbackTx, PG!Release

LEMMA CommitKeeps ==
  ASSUME StoreTypes, NEW r \in Requests, PG!CommitTx(r)
  PROVE  StoreTypes'
BY RowFacts DEF StoreTypes, PG!CommitTx, PG!Release

LEMMA NoSqlKeeps ==
  ASSUME StoreTypes, NoSql
  PROVE  StoreTypes'
BY DEF StoreTypes, NoSql

LEMMA LeaveKeeps ==
  ASSUME ThreadTypes, NEW r, thread' = thread \ {r}
  PROVE  ThreadTypes'
<1>1. IsFiniteSet(thread') /\ Cardinality(thread') <= Cardinality(thread)
  BY FS_Subset DEF ThreadTypes
<1> QED BY <1>1, FS_CardinalityType, PoolAssumption DEF ThreadTypes

LEMMA EnterKeeps ==
  ASSUME ThreadTypes, NEW r \in Requests, Cardinality(thread) < Threads, thread' = thread \cup {r}
  PROVE  ThreadTypes'
<1>1. IsFiniteSet(thread) /\ Cardinality(thread) \in Nat /\ Threads \in Nat
  BY FS_CardinalityType, PoolAssumption DEF ThreadTypes
<1>2. /\ IsFiniteSet(thread')
      /\ Cardinality(thread') = IF r \in thread THEN Cardinality(thread) ELSE Cardinality(thread) + 1
  BY <1>1, FS_AddElement
<1>3. Cardinality(thread') <= Threads
  BY <1>1, <1>2
<1> QED BY <1>2, <1>3 DEF ThreadTypes

LEMMA ReleaseKeeps ==
  ASSUME PoolTypes, NEW r, conn' = conn \ {r}
  PROVE  PoolTypes'
<1>1. IsFiniteSet(conn') /\ Cardinality(conn') <= Cardinality(conn)
  BY FS_Subset DEF PoolTypes
<1> QED BY <1>1, FS_CardinalityType, PoolAssumption DEF PoolTypes

LEMMA TakeKeeps ==
  ASSUME PoolTypes, NEW r \in Requests, Cardinality(conn) < Pool, conn' = conn \cup {r}
  PROVE  PoolTypes'
<1>1. IsFiniteSet(conn) /\ Cardinality(conn) \in Nat /\ Pool \in Nat
  BY FS_CardinalityType, PoolAssumption DEF PoolTypes
<1>2. /\ IsFiniteSet(conn')
      /\ Cardinality(conn') = IF r \in conn THEN Cardinality(conn) ELSE Cardinality(conn) + 1
  BY <1>1, FS_AddElement
<1>3. Cardinality(conn') <= Pool
  BY <1>1, <1>2
<1> QED BY <1>2, <1>3 DEF PoolTypes

(* What concerns a browser is only changed by a response.                  *)
LEMMA RespondKeeps ==
  ASSUME LocalTypes, BrowserTypes, NEW r \in Requests, job[r] \in Jobs,
         NEW outcome \in Outcomes, Respond(r, outcome)
  PROVE  BrowserTypes' /\ verdict' \in [Requests -> Outcomes]
<1>1. job[r].browser \in Browsers /\ job[r].cookie \in Tokens
  BY DEF Jobs
<1>2. r \in Names /\ Token(r) \in Names /\ r \in Tokens
  BY <1>1 DEF Names, Token, Tokens, NoToken
<1>3. verdict' \in [Requests -> Outcomes]
  BY DEF Respond, Conclude, LocalTypes
<1>4. jar' \in [Browsers -> Tokens] /\ pages' \in [Browsers -> SUBSET Names]
  BY <1>1, <1>2 DEF Respond, From, BrowserTypes
<1>5. signed' \subseteq Browsers /\ agreed' \subseteq Browsers /\ excused' \subseteq Browsers
  BY <1>1 DEF Respond, From, BrowserTypes, Decisions
<1> QED BY <1>3, <1>4, <1>5 DEF BrowserTypes

-----------------------------------------------------------------------------
(* Every step of a request that has arrived keeps the types.               *)
LEMMA GotoKeeps ==
  ASSUME LocalTypes, NEW r \in Requests, NEW step \in Steps, Goto(r, step)
  PROVE  pc' \in [Requests -> Steps] /\ pc'[r] = step
BY DEF LocalTypes, Goto

LEMMA RaiseKeeps ==
  ASSUME Types, NEW r \in Requests, NEW outcome \in Outcomes, Raise(r, outcome),
         UNCHANGED <<job, tried, browser>>
  PROVE  Types'
<1>1. StoreTypes' BY RollbackKeeps DEF Types, Raise
<1>2. ThreadTypes' /\ PoolTypes' BY LeaveKeeps, ReleaseKeeps DEF Types, Raise, Leave
<1>3. LocalTypes'
  BY DEF Types, LocalTypes, Raise, Leave, Goto, Conclude, Steps, Queues
<1>4. BrowserTypes' BY DEF Types, BrowserTypes, browser
<1> QED BY <1>1, <1>2, <1>3, <1>4 DEF Types

LEMMA ReturnKeeps ==
  ASSUME Types, StoreTypes', NEW r \in Requests, job[r] \in Jobs, NEW outcome \in Outcomes,
         Return(r, outcome), UNCHANGED <<job, conn, tried>>
  PROVE  Types'
<1>1. BrowserTypes' /\ verdict' \in [Requests -> Outcomes]
  BY RespondKeeps DEF Types, Return
<1>2. ThreadTypes' BY LeaveKeeps DEF Types, Return, Leave
<1>3. pc' \in [Requests -> Steps]
  BY DEF Types, LocalTypes, Return, Leave, Goto, Steps, Queues, Over
<1> QED BY <1>1, <1>2, <1>3 DEF Types, LocalTypes, PoolTypes

(* A step that moves r on, in its thread or out of it.                     *)
LEMMA MoveKeeps ==
  ASSUME Types, StoreTypes', NEW r \in Requests, NEW step \in Steps, Goto(r, step),
         thread' = thread \/ thread' = thread \ {r},
         conn' = conn \/ conn' = conn \ {r},
         tried' \in [Requests -> SUBSET Destinations],
         UNCHANGED <<job, verdict, browser>>
  PROVE  Types'
<1>1. ThreadTypes'
  <2>1. CASE thread' = thread BY <2>1 DEF Types, ThreadTypes
  <2>2. CASE thread' = thread \ {r} BY <2>2, LeaveKeeps DEF Types
  <2> QED BY <2>1, <2>2
<1>2. PoolTypes'
  <2>1. CASE conn' = conn BY <2>1 DEF Types, PoolTypes
  <2>2. CASE conn' = conn \ {r} BY <2>2, ReleaseKeeps DEF Types
  <2> QED BY <2>1, <2>2
<1>3. LocalTypes' BY DEF Types, LocalTypes, Goto
<1>4. BrowserTypes' BY DEF Types, BrowserTypes, browser
<1> QED BY <1>1, <1>2, <1>3, <1>4 DEF Types

LEMMA StepTypes ==
  ASSUME Types, NEW r \in Requests, pc[r] # "idle" => job[r] \in Jobs,
         Step(r) \/ Crash(r) \/ LoseCommit(r)
  PROVE  Types'
<1> USE DEF Steps, Queues, Sql, Over, Outcomes, Failures
<1>0. /\ StoreTypes /\ LocalTypes /\ ThreadTypes /\ PoolTypes /\ BrowserTypes
      /\ tried \in [Requests -> SUBSET Destinations]
  BY DEF Types, LocalTypes
<1>1. CASE Enter(r)
  <2>1. job[r] \in Jobs /\ Handler[job[r].op] \in Steps
    BY <1>1, HandlerType DEF Enter, Jobs
  <2>2. PICK step \in Steps : Goto(r, step)
    <3>1. \/ Goto(r, "load") \/ Goto(r, "anonymous") \/ Goto(r, Handler[job[r].op])
          \/ Goto(r, "render") \/ Goto(r, "send")
      BY <1>1 DEF Enter
    <3> QED BY <3>1, <2>1
  <2>3. LocalTypes' BY <1>0, <1>1, <2>2 DEF Enter, Goto, LocalTypes
  <2>4. ThreadTypes' BY <1>0, <1>1, EnterKeeps DEF Enter
  <2>5. StoreTypes' BY <1>0, <1>1, NoSqlKeeps DEF Enter
  <2> QED BY <1>0, <1>1, <2>3, <2>4, <2>5 DEF Enter, Types, PoolTypes, BrowserTypes, browser
<1>2. CASE TakeConnection(r)
  <2>1. PoolTypes' BY <1>0, <1>2, TakeKeeps DEF TakeConnection
  <2>2. StoreTypes' BY <1>0, <1>2, NoSqlKeeps DEF TakeConnection
  <2> QED
    BY <1>0, <1>2, <2>1, <2>2
       DEF TakeConnection, Types, LocalTypes, ThreadTypes, BrowserTypes, browser
<1>3. CASE PoolTimeout(r)
  BY <1>3, RaiseKeeps DEF PoolTimeout
<1>4. CASE LoadSession(r)
  <2>1. StoreTypes' BY <1>0, <1>4, NoSqlKeeps DEF LoadSession
  <2>2. CASE Goto(r, "anonymous") /\ UNCHANGED thread
    BY <1>0, <1>4, <2>1, <2>2, MoveKeeps DEF LoadSession
  <2>3. CASE Goto(r, "touch") /\ UNCHANGED thread
    BY <1>0, <1>4, <2>1, <2>3, MoveKeeps DEF LoadSession
  <2>4. CASE Leave(r, "handle")
    BY <1>0, <1>4, <2>1, <2>4, MoveKeeps DEF LoadSession, Leave
  <2> QED BY <1>4, <2>2, <2>3, <2>4 DEF LoadSession
<1>5. CASE TouchSession(r)
  <2>1. SessionRow(From(r)) \in SessionRows
    BY <1>5, RowFacts DEF TouchSession, Runs, From, Jobs
  <2>2. StoreTypes'
    BY <1>0, <1>5, <2>1, RowFacts, StoreKeeps DEF TouchSession, Session
  <2> QED BY <1>0, <1>5, <2>2, MoveKeeps DEF TouchSession, Leave
<1>6. CASE Anonymous(r)
  <2>1. CASE Raise(r, "login")
    BY <1>6, <2>1, RaiseKeeps DEF Anonymous
  <2>2. CASE Leave(r, "handle") /\ NoSql /\ UNCHANGED <<verdict, conn>>
    <3>1. StoreTypes' BY <1>0, <2>2, NoSqlKeeps
    <3> QED BY <1>0, <1>6, <2>2, <3>1, MoveKeeps DEF Anonymous, Leave
  <2> QED BY <1>6, <2>1, <2>2 DEF Anonymous
<1>7. CASE AnswerAtOnce(r)
  BY <1>0, <1>7, NoSqlKeeps, ReturnKeeps DEF AnswerAtOnce, Runs
<1>8. CASE ListNotes(r)
  BY <1>0, <1>8, NoSqlKeeps, ReturnKeeps DEF ListNotes, Runs
<1>9. CASE OpenSession(r)
  <2>1. SessionRow(From(r)) \in SessionRows /\ job[r] \in Jobs
    BY <1>9, RowFacts DEF OpenSession, Write, Runs, From, Jobs
  <2>2. StoreTypes'
    BY <1>0, <1>9, <2>1, RowFacts, StoreKeeps, NoSqlKeeps DEF OpenSession, Write, Session
  <2>3. Return(r, "ok") \/ Return(r, "invalid") BY <1>9 DEF OpenSession, Write
  <2> QED BY <1>9, <2>1, <2>2, <2>3, ReturnKeeps DEF OpenSession, Write
<1>10. CASE CreateNote(r)
  <2>1. NoteRow(r) \in NoteRows /\ job[r] \in Jobs /\ Me(r) \in Users
    BY <1>10, RowFacts, WorkloadAssumption DEF CreateNote, Write, Runs, From, Me, Jobs, Names
  <2>2. StoreTypes'
    BY <1>0, <1>10, <2>1, RowFacts, StoreKeeps, NoSqlKeeps DEF CreateNote, Write
  <2>3. Return(r, "ok") \/ Return(r, "invalid") BY <1>10 DEF CreateNote, Write
  <2> QED BY <1>10, <2>1, <2>2, <2>3, ReturnKeeps DEF CreateNote, Write
<1>11. CASE FindNote(r)
  <2>1. CASE Raise(r, IF PG!Visible(r, NoteRow(job[r].note)) = NoRow
                        THEN "missing" ELSE "forbidden")
    BY <1>11, <2>1, RaiseKeeps DEF FindNote
  <2>2. CASE Goto(r, "erase") /\ NoSql /\ UNCHANGED <<verdict, thread, conn>>
    <3>1. StoreTypes' BY <1>0, <2>2, NoSqlKeeps
    <3> QED BY <1>0, <1>11, <2>2, <3>1, MoveKeeps DEF FindNote
  <2> QED BY <1>11, <2>1, <2>2 DEF FindNote
<1>12. CASE EraseNote(r)
  <2>1. NoteRow(job[r].note) \in NoteRows /\ job[r] \in Jobs
    BY <1>12, RowFacts DEF EraseNote, Runs, Jobs
  <2>2. StoreTypes'
    BY <1>0, <1>12, <2>1, RowFacts, StoreKeeps, NoSqlKeeps DEF EraseNote
  <2> QED BY <1>12, <2>1, <2>2, ReturnKeeps DEF EraseNote
<1>13. CASE RenderError(r)
  <2>1. StoreTypes' BY <1>0, <1>13, NoSqlKeeps DEF RenderError
  <2>2. verdict[r] \in Outcomes /\ job[r] \in Jobs
    BY <1>0, <1>13 DEF LocalTypes, RenderError, Runs
  <2>3. BrowserTypes' /\ verdict' \in [Requests -> Outcomes]
    BY <1>0, <1>13, <2>2, RespondKeeps DEF RenderError
  <2>4. ThreadTypes' BY <1>0, <1>13, LeaveKeeps DEF RenderError, Leave
  <2> QED
    BY <1>0, <1>13, <2>1, <2>3, <2>4
       DEF RenderError, Leave, Goto, Types, LocalTypes, PoolTypes
<1>14. CASE Track(r)
  <2>1. StoreTypes' BY <1>0, <1>14, NoSqlKeeps DEF Track
  <2>2. tried' \in [Requests -> SUBSET Destinations]
    BY <1>0, <1>14 DEF Track, Attempt
  <2>3. CASE UNCHANGED <<pc, thread>>
    BY <1>0, <1>14, <2>1, <2>2, <2>3
       DEF Track, Types, LocalTypes, ThreadTypes, PoolTypes, BrowserTypes, browser
  <2>4. CASE Leave(r, "told")
    BY <1>0, <1>14, <2>1, <2>2, <2>4, MoveKeeps DEF Track, Leave
  <2> QED BY <1>14, <2>3, <2>4 DEF Track
<1>15. CASE Commit(r)
  BY <1>0, <1>15, CommitKeeps, MoveKeeps DEF Commit, EndTx
<1>16. CASE Crash(r)
  BY <1>16, RaiseKeeps DEF Crash
<1>17. CASE LoseCommit(r)
  BY <1>0, <1>17, RollbackKeeps, MoveKeeps DEF LoseCommit, EndTx
<1> QED
  BY <1>1, <1>2, <1>3, <1>4, <1>5, <1>6, <1>7, <1>8, <1>9, <1>10, <1>11, <1>12, <1>13, <1>14,
     <1>15, <1>16, <1>17 DEF Step

LEMMA ArriveFacts ==
  ASSUME Types, NEW r \in Requests, Arrive(r)
  PROVE  \E b \in Browsers, op \in Ops, note \in Names, form \in Tokens :
           form \in pages[b] \cup {NoToken} /\ Arrival(r, b, op, note, form)
<1>1. Workload[r].browsers \subseteq Browsers /\ Workload[r].ops \subseteq Ops
  BY WorkloadAssumption
<1>2. \A b \in Browsers : pages[b] \subseteq Tokens
  BY DEF Types, BrowserTypes, Tokens
<1> QED BY <1>1, <1>2 DEF Arrive, Tokens

LEMMA ArriveTypes ==
  ASSUME Types, NEW r \in Requests, Arrive(r)
  PROVE  Types' /\ job'[r] \in Jobs
<1> USE DEF Steps, Queues, Outcomes, Failures
<1>1. PICK b \in Browsers, op \in Ops, note \in Names, form \in Tokens :
             Arrival(r, b, op, note, form)
  BY ArriveFacts
<1> DEFINE early == \E q \in Siblings(b) : Made(q, "login") /\ pc[q] # "done"
           new == [op |-> op, browser |-> b, cookie |-> jar[b], form |-> form, note |-> note,
                   signed |-> b \in signed, agreed |-> HasConsent(b), early |-> early]
<1>2. form \in Tokens /\ jar[b] \in Tokens
  BY DEF Types, BrowserTypes
<1>3. early \in BOOLEAN /\ HasConsent(b) \in BOOLEAN /\ (b \in signed) \in BOOLEAN
  BY DEF HasConsent
<1>4. job' = [job EXCEPT ![r] = new] /\ new \in Jobs /\ job'[r] = new
  <2>1. job' = [job EXCEPT ![r] = new] BY <1>1 DEF Arrival
  <2> HIDE DEF early
  <2>2. new \in Jobs BY <1>2, <1>3 DEF Jobs
  <2> QED BY <2>1, <2>2 DEF Types, LocalTypes
<1> HIDE DEF new
<1>9. excused' \in {excused, excused \cup {b}} BY <1>1 DEF Arrival
<1>5. LocalTypes'
  <2>1. \/ (Goto(r, "depend") \/ Goto(r, "handle")) /\ UNCHANGED verdict
        \/ Goto(r, "error") /\ Conclude(r, "csrf")
    BY <1>1 DEF Arrival
  <2>2. UNCHANGED tried BY DEF Arrive
  <2> QED BY <1>4, <2>1, <2>2 DEF Types, LocalTypes, Goto, Conclude
<1>6. StoreTypes' BY NoSqlKeeps DEF Types, Arrive
<1>7. BrowserTypes' BY <1>9 DEF Types, BrowserTypes, Arrive
<1> QED BY <1>4, <1>5, <1>6, <1>7 DEF Types, ThreadTypes, PoolTypes, Arrive

LEMMA ForgetTypes ==
  ASSUME Types, NEW b \in Browsers, Forget(b)
  PROVE  Types'
<1>1. StoreTypes' BY NoSqlKeeps DEF Types, Forget
<1>2. BrowserTypes' BY DEF Types, BrowserTypes, Forget, Tokens
<1> QED BY <1>1, <1>2 DEF Types, LocalTypes, ThreadTypes, PoolTypes, Forget

LEMMA NextTypes == Types /\ RequestInv /\ [Next]_vars => Types'
<1> SUFFICES ASSUME Types, RequestInv, [Next]_vars PROVE Types' OBVIOUS
<1>1. ASSUME NEW r \in Requests, Arrive(r) PROVE Types'
  BY <1>1, ArriveTypes
<1>2. ASSUME NEW r \in Requests, Step(r) \/ Crash(r) \/ LoseCommit(r) PROVE Types'
  BY <1>2, StepTypes DEF RequestInv, Script
<1>3. ASSUME NEW b \in Browsers, Forget(b) PROVE Types'
  BY <1>3, ForgetTypes
<1>4. CASE UNCHANGED vars
  BY <1>4 DEF vars, browser, Types, StoreTypes, LocalTypes, ThreadTypes, PoolTypes, BrowserTypes
<1> QED BY <1>1, <1>2, <1>3, <1>4 DEF Next

-----------------------------------------------------------------------------
(* A step of r leaves what the others are at, and what they hold.          *)
Still(q) ==
  /\ pc'[q] = pc[q] /\ job'[q] = job[q] /\ verdict'[q] = verdict[q] /\ tried'[q] = tried[q]
  /\ q \in thread' <=> q \in thread
  /\ q \in conn' <=> q \in conn
  /\ \A row \in Row : lock'[row] = q => lock[row] = q

LEMMA StillInv ==
  ASSUME RequestInv, NEW q \in Requests, Still(q)
  PROVE  Script(q)' /\ Tracked(q)' /\ Holds(q)'
BY DEF RequestInv, Still, Script, Tracked, Holds, Made

LEMMA LocksStay ==
  ASSUME Types, NEW r \in Requests,
         \/ NoSql \/ PG!RollbackTx(r) \/ PG!CommitTx(r)
         \/ \E row \in Row, val \in Users \cup Session \cup {NoRow} : PG!Store(r, row, val)
  PROVE  /\ \A row \in Row, q \in Requests \ {r} : lock'[row] = q <=> lock[row] = q
         /\ PG!RollbackTx(r) \/ PG!CommitTx(r) => \A row \in Row : lock'[row] # r
BY AbsentAssumption
   DEF Types, StoreTypes, NoSql, PG!RollbackTx, PG!CommitTx, PG!Release, PG!Store, PG!Writable, Names

(* A step of r keeps the invariant when it keeps it for r.                 *)
LEMMA OthersStay ==
  ASSUME Types, NEW r \in Requests, Arrive(r) \/ Step(r) \/ Crash(r) \/ LoseCommit(r)
  PROVE  \A q \in Requests \ {r} : Still(q)
<1> SUFFICES ASSUME NEW q \in Requests, q # r PROVE Still(q) OBVIOUS
<1> USE DEF Types, LocalTypes
<1>1. pc'[q] = pc[q] /\ job'[q] = job[q] /\ verdict'[q] = verdict[q] /\ tried'[q] = tried[q]
  <2>1. CASE Arrive(r)
    BY <2>1 DEF Arrive, Arrival, Goto, Conclude
  <2>2. CASE Crash(r) \/ LoseCommit(r)
    BY <2>2 DEF Crash, LoseCommit, Raise, Leave, EndTx, Goto, Conclude
  <2>3. CASE Step(r)
    BY <2>3
       DEF Step, Enter, TakeConnection, PoolTimeout, LoadSession, TouchSession, Anonymous,
           AnswerAtOnce, ListNotes, OpenSession, CreateNote, FindNote, EraseNote, RenderError,
           Track, Commit, Write, Raise, Return, Respond, Leave, EndTx, Goto, Conclude, Attempt
  <2> QED BY <2>1, <2>2, <2>3
<1>2. (q \in thread' <=> q \in thread) /\ (q \in conn' <=> q \in conn)
  <2>1. CASE Arrive(r)
    BY <2>1 DEF Arrive
  <2>2. CASE Crash(r) \/ LoseCommit(r)
    BY <2>2 DEF Crash, LoseCommit, Raise, Leave, EndTx
  <2>3. CASE Step(r)
    BY <2>3
       DEF Step, Enter, TakeConnection, PoolTimeout, LoadSession, TouchSession, Anonymous,
           AnswerAtOnce, ListNotes, OpenSession, CreateNote, FindNote, EraseNote, RenderError,
           Track, Commit, Write, Raise, Return, Leave, EndTx
  <2> QED BY <2>1, <2>2, <2>3
<1>3. \A row \in Row : lock'[row] = q => lock[row] = q
  <2>1. CASE Arrive(r)
    BY <2>1 DEF Arrive, NoSql
  <2>2. CASE Crash(r) \/ LoseCommit(r)
    BY <2>2, AbsentAssumption
       DEF Crash, LoseCommit, Raise, StoreTypes, Names, PG!RollbackTx, PG!Release
  <2>3. CASE Step(r)
    BY <2>3, AbsentAssumption
       DEF Step, Enter, TakeConnection, PoolTimeout, LoadSession, TouchSession, Anonymous,
           AnswerAtOnce, ListNotes, OpenSession, CreateNote, FindNote, EraseNote, RenderError,
           Track, Commit, Write, Raise, StoreTypes, NoSql, Names,
           PG!RollbackTx, PG!CommitTx, PG!Release, PG!Store
  <2> QED BY <2>1, <2>2, <2>3
<1> QED BY <1>1, <1>2, <1>3 DEF Still

-----------------------------------------------------------------------------
Mine(r) == Script(r) /\ Tracked(r) /\ Holds(r)

(* Once a transaction is over, r holds nothing.                            *)
LEMMA NoLocks ==
  ASSUME Types, NEW r \in Requests, PG!RollbackTx(r) \/ PG!CommitTx(r)
  PROVE  \A row \in Row : lock'[row] # r
BY AbsentAssumption
   DEF Types, StoreTypes, PG!RollbackTx, PG!CommitTx, PG!Release, Names

LEMMA RaiseMine ==
  ASSUME Types, NEW r \in Requests, Mine(r), NEW outcome \in Failures, Raise(r, outcome),
         pc[r] \in Sql \cup {"anonymous", "answer"}, UNCHANGED <<job, tried, browser>>
  PROVE  Mine(r)'
<1>1. pc'[r] = "error" /\ verdict'[r] = outcome /\ r \notin thread' /\ r \notin conn'
  BY DEF Types, LocalTypes, Raise, Leave, Goto, Conclude
<1>2. \A row \in Row : lock'[row] # r
  BY NoLocks DEF Raise
<1>3. Script(r)'
  BY <1>1 DEF Mine, Script, Before, Sql
<1>4. Tracked(r)' /\ Holds(r)'
  BY <1>1, <1>2 DEF Mine, Tracked, Holds, Sql
<1> QED BY <1>3, <1>4 DEF Mine

LEMMA ReturnMine ==
  ASSUME Types, NEW r \in Requests, Mine(r), NEW outcome \in {"ok", "invalid"},
         Return(r, outcome), UNCHANGED <<job, conn, tried>>,
         pc[r] \in {"answer", "select", "open", "insert", "erase"},
         \A row \in Row : lock'[row] = r => r \in conn
  PROVE  Mine(r)'
<1>1. /\ pc'[r] = IF Signals(r, outcome) THEN "track"
                  ELSE IF job[r].op \in NeedsDb THEN "told" ELSE "done"
      /\ verdict'[r] = outcome /\ r \notin thread'
  BY DEF Types, LocalTypes, Return, Respond, Leave, Goto, Conclude
<1>2. tried[r] = {} /\ job[r] \in Jobs
  BY DEF Mine, Tracked, Script
<1>3. Script(r)'
  BY <1>1, <1>2 DEF Script, Signals, Made, Before, Sql
<1>4. Tracked(r)'
  BY <1>1, <1>2 DEF Tracked, Signals, Made, NeedsDb
<1>5. Holds(r)'
  BY <1>1 DEF Mine, Holds, Queues, Over
<1> QED BY <1>3, <1>4, <1>5 DEF Mine

LEMMA StepMine ==
  ASSUME Types, NEW r \in Requests, Mine(r), Step(r) \/ Crash(r) \/ LoseCommit(r)
  PROVE  Mine(r)'
<1> USE DEF Sql
<1>0. /\ pc[r] \in Steps /\ job[r] \in Jobs \cup {NoJob} /\ verdict[r] \in Outcomes
      /\ \A step : Goto(r, step) => pc'[r] = step
      /\ Script(r) /\ Tracked(r) /\ Holds(r)
  BY DEF Types, LocalTypes, Goto, Mine
<1>1. CASE Enter(r)
  <2>1. /\ pc[r] \in Queues /\ r \in thread'
        /\ UNCHANGED <<job, verdict, conn, tried, lock>>
    BY <1>1 DEF Enter, NoSql
  <2>2. CASE pc[r] = "depend"
    <3>1. pc'[r] = IF job[r].signed THEN "load" ELSE "anonymous"
      BY <1>0, <1>1, <2>2 DEF Enter
    <3> QED BY <1>0, <2>1, <2>2, <3>1 DEF Mine, Script, Tracked, Holds, Before, Queues, Over
  <2>3. CASE pc[r] = "handle"
    <3>1. job[r].op \in Ops BY <1>0, <2>3 DEF Script, Jobs
    <3>2. pc'[r] = Handler[job[r].op]
      BY <1>0, <1>1, <2>3 DEF Enter
    <3>3. \/ pc'[r] = "answer" /\ job[r].op \in {"health", "home", "consent"}
          \/ pc'[r] = "select" /\ job[r].op = "list"
          \/ pc'[r] = "open" /\ job[r].op = "login"
          \/ pc'[r] = "insert" /\ job[r].op = "create"
          \/ pc'[r] = "find" /\ job[r].op = "delete"
      BY <3>1, <3>2 DEF Handler, Ops, Safe
    <3> QED
      BY <1>0, <2>1, <2>3, <3>3 DEF Mine, Script, Tracked, Holds, Before, Queues, Over
  <2>4. CASE pc[r] = "error"
    <3>1. pc'[r] = "render" BY <1>0, <1>1, <2>4 DEF Enter
    <3> QED BY <1>0, <2>1, <2>4, <3>1 DEF Mine, Script, Tracked, Holds, Before, Queues, Over
  <2>5. CASE pc[r] = "track"
    <3>1. pc'[r] = "send" BY <1>0, <1>1, <2>5 DEF Enter
    <3> QED
      BY <1>0, <2>1, <2>5, <3>1 DEF Mine, Script, Tracked, Holds, Before, Made, Queues, Over
  <2> QED BY <2>1, <2>2, <2>3, <2>4, <2>5 DEF Queues
<1>2. CASE TakeConnection(r)
  <2>1. /\ pc[r] \in Sql /\ r \in conn' /\ job[r] \in Jobs
        /\ UNCHANGED <<pc, job, verdict, thread, tried, lock>>
    BY <1>0, <1>2 DEF TakeConnection, NoSql, Script
  <2>2. job[r].op \in NeedsDb
    BY <1>0, <2>1 DEF Script, NeedsDb, WantsUser, NeedsUser
  <2> QED BY <1>0, <2>1, <2>2 DEF Mine, Script, Tracked, Holds, Made, Over
<1>3. CASE PoolTimeout(r)
  BY <1>3, RaiseMine DEF PoolTimeout, Failures
<1>4. CASE LoadSession(r)
  <2>1. /\ pc[r] = "load" /\ pc'[r] \in {"anonymous", "touch", "handle"}
        /\ UNCHANGED <<job, verdict, conn, tried, lock>>
        /\ r \in thread' => r \in thread /\ pc'[r] # "handle"
    BY <1>0, <1>4 DEF LoadSession, Runs, NoSql, Leave
  <2> QED BY <1>0, <2>1 DEF Mine, Script, Tracked, Holds, Before, Queues, Over
<1>5. CASE TouchSession(r)
  <2>1. /\ pc[r] = "touch" /\ pc'[r] = "handle" /\ r \notin thread' /\ r \in conn
        /\ UNCHANGED <<job, verdict, conn, tried>>
    BY <1>0, <1>5 DEF TouchSession, Runs, Leave
  <2> QED BY <1>0, <2>1 DEF Mine, Script, Tracked, Holds, Before, Queues, Over
<1>6. CASE Anonymous(r)
  <2>1. CASE Raise(r, "login")
    BY <1>6, <2>1, RaiseMine DEF Anonymous, Runs, Failures
  <2>2. CASE Leave(r, "handle") /\ NoSql /\ UNCHANGED <<verdict, conn>>
    <3>1. /\ pc[r] = "anonymous" /\ pc'[r] = "handle" /\ r \notin thread'
          /\ UNCHANGED <<job, verdict, conn, tried, lock>>
      BY <1>0, <1>6, <2>2 DEF Anonymous, Runs, Leave, NoSql
    <3> QED BY <1>0, <3>1 DEF Mine, Script, Tracked, Holds, Before, Queues, Over
  <2> QED BY <1>6, <2>1, <2>2 DEF Anonymous
<1>7. CASE AnswerAtOnce(r)
  BY <1>0, <1>7, ReturnMine DEF AnswerAtOnce, Runs, NoSql, Holds
<1>8. CASE ListNotes(r)
  BY <1>0, <1>8, ReturnMine DEF ListNotes, Runs, NoSql, Holds
<1>9. CASE OpenSession(r)
  <2>1. pc[r] = "open" /\ r \in conn BY <1>9 DEF OpenSession, Write, Runs
  <2>2. Return(r, "ok") \/ Return(r, "invalid") BY <1>9 DEF OpenSession, Write
  <2> QED BY <1>9, <2>1, <2>2, ReturnMine DEF OpenSession, Write
<1>10. CASE CreateNote(r)
  <2>1. pc[r] = "insert" /\ r \in conn BY <1>10 DEF CreateNote, Write, Runs
  <2>2. Return(r, "ok") \/ Return(r, "invalid") BY <1>10 DEF CreateNote, Write
  <2> QED BY <1>10, <2>1, <2>2, ReturnMine DEF CreateNote, Write
<1>11. CASE FindNote(r)
  <2>0. pc[r] = "find" BY <1>11 DEF FindNote, Runs
  <2>1. CASE Raise(r, IF PG!Visible(r, NoteRow(job[r].note)) = NoRow
                        THEN "missing" ELSE "forbidden")
    BY <1>11, <2>0, <2>1, RaiseMine DEF FindNote, Failures
  <2>2. CASE Goto(r, "erase") /\ NoSql /\ UNCHANGED <<verdict, thread, conn>>
    <3>1. pc'[r] = "erase" /\ UNCHANGED <<job, verdict, thread, conn, tried, lock>>
      BY <1>0, <1>11, <2>2 DEF FindNote, NoSql
    <3> QED BY <1>0, <2>0, <3>1 DEF Mine, Script, Tracked, Holds, Before, Queues, Over
  <2> QED BY <1>11, <2>1, <2>2 DEF FindNote
<1>12. CASE EraseNote(r)
  <2>1. pc[r] = "erase" /\ r \in conn BY <1>12 DEF EraseNote, Runs
  <2> QED BY <1>12, <2>1, ReturnMine DEF EraseNote
<1>13. CASE RenderError(r)
  <2>1. /\ pc[r] = "render" /\ pc'[r] = "failed" /\ verdict'[r] = verdict[r] /\ r \notin thread'
        /\ UNCHANGED <<job, conn, tried, lock>>
    BY <1>0, <1>13 DEF RenderError, Runs, Leave, Respond, Conclude, NoSql, Types, LocalTypes
  <2> QED BY <1>0, <2>1 DEF Mine, Script, Tracked, Holds, Before, Made, Queues, Over
<1>14. CASE Track(r)
  <2>1. pc[r] = "send" /\ UNCHANGED <<job, verdict, conn, lock>>
    BY <1>14 DEF Track, Runs, NoSql
  <2>2. CASE UNCHANGED <<pc, thread>>
    BY <1>0, <2>1, <2>2 DEF Mine, Script, Tracked, Holds, Made, Over
  <2>3. CASE tried[r] = Destinations /\ Leave(r, "told") /\ UNCHANGED tried
    <3>1. pc'[r] = "told" /\ r \notin thread' BY <1>0, <2>3 DEF Leave
    <3> QED BY <1>0, <2>1, <2>3, <3>1 DEF Mine, Script, Tracked, Holds, Before, Made, Queues, Over
  <2> QED BY <1>14, <2>2, <2>3 DEF Track
<1>15. CASE Commit(r) \/ LoseCommit(r)
  <2>0. /\ pc[r] = "told"
        /\ EndTx(r, "done") \/ (EndTx(r, "lost") /\ r \in Faulty)
        /\ UNCHANGED <<job, verdict, thread, tried>>
    BY <1>15 DEF Commit, LoseCommit
  <2>1. /\ r \notin conn' /\ r \notin thread
        /\ pc'[r] = "done" \/ (pc'[r] = "lost" /\ r \in Faulty)
    BY <1>0, <2>0 DEF EndTx, Holds
  <2>2. \A row \in Row : lock'[row] # r BY <1>15, NoLocks DEF Commit, LoseCommit
  <2> QED
    BY <1>0, <2>0, <2>1, <2>2 DEF Mine, Script, Tracked, Holds, Before, Made, Queues, Over
<1>16. CASE Crash(r)
  <2>1. pc[r] \in {"anonymous", "answer"} \cup Sql
    BY <1>0, <1>16 DEF Crash, Holds, Steps, Queues, Over
  <2> QED BY <1>16, <2>1, RaiseMine DEF Crash, Failures
<1> QED
  BY <1>1, <1>2, <1>3, <1>4, <1>5, <1>6, <1>7, <1>8, <1>9, <1>10, <1>11, <1>12, <1>13, <1>14,
     <1>15, <1>16 DEF Step

LEMMA ArriveMine ==
  ASSUME Types, NEW r \in Requests, Mine(r), Arrive(r)
  PROVE  Mine(r)'
<1>1. PICK b \in Browsers, op \in Ops, note \in Names, form \in Tokens :
             Arrival(r, b, op, note, form)
  BY ArriveFacts
<1>2. pc[r] = "idle" /\ UNCHANGED <<lock, thread, conn, tried>>
  BY DEF Arrive, NoSql
<1>3. job'[r] \in Jobs /\ job'[r].op = op
  <2>1. job'[r] \in Jobs BY ArriveTypes
  <2>2. job'[r].op = op BY <1>1 DEF Arrival, Types, LocalTypes
  <2> QED BY <2>1, <2>2
<1>4. \/ pc'[r] = "depend" /\ op \in WantsUser /\ verdict'[r] = verdict[r]
      \/ pc'[r] = "handle" /\ verdict'[r] = verdict[r]
      \/ pc'[r] = "error" /\ verdict'[r] = "csrf"
  BY <1>1 DEF Arrival, Goto, Conclude, Types, LocalTypes
<1> QED
  BY <1>2, <1>3, <1>4
     DEF Mine, Script, Tracked, Holds, Before, Sql, Made, Failures, Queues, Over

LEMMA RequestStep == Types /\ RequestInv /\ [Next]_vars => RequestInv'
<1> SUFFICES ASSUME Types, RequestInv, [Next]_vars, NEW q \in Requests
             PROVE  Mine(q)'
  BY DEF RequestInv, Mine
<1>1. ASSUME NEW r \in Requests, Arrive(r) \/ Step(r) \/ Crash(r) \/ LoseCommit(r)
      PROVE  Mine(q)'
  <2>1. CASE q = r
    BY <1>1, <2>1, StepMine, ArriveMine DEF RequestInv, Mine
  <2>2. CASE q # r
    BY <1>1, <2>2, OthersStay, StillInv DEF Mine
  <2> QED BY <2>1, <2>2
<1>2. ASSUME NEW b \in Browsers, Forget(b) PROVE Mine(q)'
  <2>1. Still(q) BY <1>2 DEF Forget, Still, NoSql
  <2> QED BY <2>1, StillInv DEF Mine
<1>3. CASE UNCHANGED vars
  <2>1. Still(q) BY <1>3 DEF vars, Still
  <2> QED BY <2>1, StillInv DEF Mine
<1> QED BY <1>1, <1>2, <1>3 DEF Next

LEMMA RequestStart == Init => RequestInv
<1> SUFFICES ASSUME Init, NEW r \in Requests PROVE Mine(r) BY DEF RequestInv, Mine
<1>1. /\ pc[r] = "idle" /\ job[r] = NoJob /\ verdict[r] = "none" /\ tried[r] = {}
      /\ r \notin conn /\ r \notin thread /\ \A row \in Row : lock[row] # r
  BY AbsentAssumption DEF Init, Names
<1> QED BY <1>1 DEF Mine, Script, Tracked, Holds, Before

-----------------------------------------------------------------------------
(* Second, the tables. What nobody has locked is committed.                *)
Clean == \A row \in Row : lock[row] = Nobody => work[row] = db[row]

(* A browser logs in once, and its session row exists, for good, from the  *)
(* commit of that login on. It has the cookie from the answer on.          *)
LogsIn(r) == pc[r] # "idle" /\ job[r].op = "login"
MySession(r) == SessionRow(From(r))

LoginInv(r) ==
  LogsIn(r) =>
    /\ \A q \in Requests : LogsIn(q) /\ From(q) = From(r) => q = r
    /\ verdict[r] # "ok" => From(r) \notin signed
    /\ db[MySession(r)] # NoRow => verdict[r] = "ok" /\ pc[r] = "done"
    /\ verdict[r] = "ok" /\ pc[r] \in {"track", "send", "told"} =>
         lock[MySession(r)] = r /\ work[MySession(r)] # NoRow

SessionInv(b) ==
  LET row == SessionRow(b)
  IN  /\ db[row] # NoRow => work[row] # NoRow
      /\ work[row] # NoRow => b \in signed
      /\ b \in signed /\ db[row] = NoRow =>
           \E q \in Requests : Made(q, "login") /\ From(q) = b /\ pc[q] \notin {"idle", "done"}
      /\ \A q \in Requests : lock[row] = q =>
           /\ pc[q] # "idle" /\ From(q) = b /\ work[row] # NoRow
           /\ db[row] # NoRow \/ Made(q, "login")

(* Until get_current_user is through, a request has written nothing. It    *)
(* takes its browser for a stranger only if it came early.                 *)
Entering == {"idle", "depend", "load", "touch", "anonymous"}

EntryInv(r) ==
  /\ pc[r] \in Entering => \A row \in Row : lock[row] # r
  /\ pc[r] = "touch" => db[MySession(r)] # NoRow
  /\ pc[r] # "idle" /\ job[r].signed /\ ~ job[r].early =>
       db[MySession(r)] # NoRow /\ pc[r] # "anonymous" /\ verdict[r] # "login"

(* A note is there when the request that makes it has committed. It is     *)
(* locked by that request, or by a deletion, between answer and commit.    *)
Making(q, n)   == Made(q, "create") /\ q = n
Deleting(q, n) == Made(q, "delete") /\ job[q].note = n

NoteInv(n) ==
  LET row == NoteRow(n)
  IN  /\ db[row] # NoRow => n = Earlier \/ (Made(n, "create") /\ pc[n] = "done")
      /\ \A q \in Requests : lock[row] = q =>
           /\ pc[q] = "told"
           /\ \/ Making(q, n)
              \/ Deleting(q, n) /\ work[row] = NoRow /\ db[row] = Me(q)

(* A deletion that has read its note finds it as it was, or gone.          *)
EraseInv(r) ==
  pc[r] = "erase" =>
    /\ job[r].note = Earlier \/ pc[job[r].note] = "done"
    /\ db[NoteRow(job[r].note)] \in {Me(r), NoRow}

TableInv ==
  /\ Clean
  /\ \A r \in Requests : LoginInv(r) /\ EntryInv(r) /\ EraseInv(r)
  /\ \A b \in Browsers : SessionInv(b)
  /\ \A n \in Names : NoteInv(n)

-----------------------------------------------------------------------------
LEMMA Rows ==
  /\ \A b \in Browsers : SessionRow(b) \in Row
  /\ \A n \in Names : NoteRow(n) \in Row
  /\ \A b, c \in Browsers : SessionRow(b) = SessionRow(c) => b = c
  /\ \A m, n \in Names : NoteRow(m) = NoteRow(n) => m = n
  /\ \A b \in Browsers, n \in Names : SessionRow(b) # NoteRow(n)
BY DEF Row, SessionRows, NoteRows, SessionRow, NoteRow

LEMMA JobFacts ==
  ASSUME Types, RequestInv, NEW q \in Requests
  PROVE  /\ pc[q] # "idle" =>
              /\ job[q] \in Jobs /\ From(q) \in Browsers /\ Me(q) \in Users
              /\ job[q].note \in Names /\ job[q].op \in Ops
              /\ job[q].signed \in BOOLEAN /\ job[q].early \in BOOLEAN
         /\ pc[q] = "idle" => \A op \in Ops : ~ Made(q, op)
<1>1. CASE pc[q] # "idle"
  <2>1. job[q] \in Jobs BY <1>1 DEF RequestInv, Script
  <2> QED BY <1>1, <2>1, WorkloadAssumption DEF Jobs, From, Me
<1>2. CASE pc[q] = "idle"
  BY <1>2 DEF RequestInv, Script, Made, NoJob, Ops, Safe
<1> QED BY <1>1, <1>2

(* What a step of r leaves alone.                                          *)
Others(r) ==
  \A q \in Requests \ {r} : pc'[q] = pc[q] /\ job'[q] = job[q] /\ verdict'[q] = verdict[q]

LEMMA OthersFacts ==
  ASSUME NEW r \in Requests, Others(r), NEW q \in Requests, job'[q] = job[q]
  PROVE  /\ From(q)' = From(q) /\ Me(q)' = Me(q) /\ MySession(q)' = MySession(q)
         /\ q # r => /\ LogsIn(q)' <=> LogsIn(q)
                     /\ \A op \in Ops : Made(q, op)' <=> Made(q, op)
                     /\ \A n \in Names : /\ Making(q, n)' <=> Making(q, n)
                                         /\ Deleting(q, n)' <=> Deleting(q, n)
         /\ verdict'[q] = verdict[q] => \A op \in Ops : Made(q, op)' <=> Made(q, op)
BY DEF Others, From, Me, MySession, LogsIn, Made, Making, Deleting

(* A step of r that writes nothing.                                        *)
LEMMA QuietTable ==
  ASSUME Types, RequestInv, RequestInv', TableInv, NEW r \in Requests, Others(r),
         UNCHANGED <<db, work, lock, signed>>, job'[r] = job[r],
         pc[r] \notin {"idle", "told"} \cup Over, pc'[r] # "idle",
         job[r].op = "login" => /\ verdict'[r] = "ok" <=> verdict[r] = "ok"
                                /\ pc'[r] # "done",
         EntryInv(r)', EraseInv(r)'
  PROVE  TableInv'
<1> USE DEF TableInv
<1>0. \A q \in Requests : job'[q] = job[q] BY DEF Others
<1>1. Clean' BY DEF Clean
<1>2. /\ LogsIn(r)' <=> LogsIn(r)
      /\ Made(r, "login")' <=> Made(r, "login")
      /\ Made(r, "login")' => pc'[r] # "done"
  BY DEF LogsIn, Made
<1>3. ASSUME NEW q \in Requests PROVE LoginInv(q)'
  <2>1. CASE q = r
    <3>1. pc'[r] \in {"track", "send", "told"} /\ verdict'[r] = "ok" /\ job[r].op = "login"
            => pc[r] \in {"track", "send"}
      <4>1. pc[r] \in Before \cup {"track", "error", "render", "send"}
        BY DEF Types, LocalTypes, Before, Steps, Queues, Sql, Over
      <4> QED BY <4>1 DEF RequestInv, Script, Failures
    <3>2. LoginInv(r) OBVIOUS
    <3>3. /\ \A p \in Requests : (LogsIn(p)' <=> LogsIn(p)) /\ From(p)' = From(p)
          /\ MySession(r)' = MySession(r)
      BY <1>0, <1>2, OthersFacts
    <3>4. LogsIn(r) => job[r].op = "login" BY DEF LogsIn
    <3> QED BY <1>0, <2>1, <3>1, <3>2, <3>3, <3>4 DEF LoginInv, Over
  <2>2. CASE q # r
    <3>1. LoginInv(q) OBVIOUS
    <3>2. /\ \A p \in Requests : (LogsIn(p)' <=> LogsIn(p)) /\ From(p)' = From(p)
          /\ MySession(q)' = MySession(q)
      BY <1>0, <1>2, OthersFacts
    <3> QED BY <2>2, <3>1, <3>2 DEF LoginInv, Others
  <2> QED BY <2>1, <2>2
<1>4. ASSUME NEW b \in Browsers PROVE SessionInv(b)'
  <2>1. SessionInv(b) OBVIOUS
  <2>2. \A q \in Requests : /\ From(q)' = From(q)
                            /\ Made(q, "login")' <=> Made(q, "login")
                            /\ Made(q, "login") /\ pc[q] \notin {"idle", "done"}
                                 => pc'[q] \notin {"idle", "done"}
                            /\ pc[q] # "idle" => pc'[q] # "idle"
    BY <1>0, <1>2, OthersFacts DEF Ops, Others
  <2> QED BY <2>1, <2>2 DEF SessionInv
<1>5. ASSUME NEW q \in Requests PROVE EntryInv(q)' /\ EraseInv(q)'
  <2>1. CASE q = r BY <2>1
  <2>2. CASE q # r
    <3>1. EntryInv(q) /\ EraseInv(q) OBVIOUS
    <3>2. /\ pc'[q] = pc[q] /\ job'[q] = job[q] /\ verdict'[q] = verdict[q]
          /\ MySession(q)' = MySession(q) /\ Me(q)' = Me(q)
      BY <1>0, <2>2, OthersFacts DEF Others
    <3>3. pc[q] = "erase" => job[q].note \in Names BY JobFacts
    <3>4. \A n \in Names : pc[n] = "done" /\ n # Earlier => pc'[n] = "done"
      BY DEF Names, Others, Over
    <3> QED BY <3>1, <3>2, <3>3, <3>4 DEF EntryInv, EraseInv
  <2> QED BY <2>1, <2>2
<1>6. ASSUME NEW n \in Names PROVE NoteInv(n)'
  <2>1. NoteInv(n) OBVIOUS
  <2>2. n # Earlier /\ Made(n, "create") /\ pc[n] = "done" => Made(n, "create")' /\ pc'[n] = "done"
    BY <1>0, OthersFacts DEF Names, Ops, Others, Over
  <2>3. \A q \in Requests : pc[q] = "told" =>
          /\ pc'[q] = "told" /\ Me(q)' = Me(q)
          /\ Making(q, n)' <=> Making(q, n)
          /\ Deleting(q, n)' <=> Deleting(q, n)
    BY <1>0, OthersFacts DEF Others
  <2> QED BY <2>1, <2>2, <2>3 DEF NoteInv
<1> QED BY <1>1, <1>3, <1>4, <1>5, <1>6

(* A step of r that undoes what it wrote.                                  *)
LEMMA RollbackTable ==
  ASSUME Types, RequestInv, TableInv, NEW r \in Requests, Others(r),
         PG!RollbackTx(r), UNCHANGED signed, job'[r] = job[r],
         pc[r] \notin {"idle"} \cup Over, pc'[r] \in {"error", "lost"},
         verdict'[r] = "ok" <=> verdict[r] = "ok",
         verdict'[r] = "login" => ~ (job[r].signed /\ ~ job[r].early)
  PROVE  TableInv'
<1> USE DEF TableInv
<1>0. \A q \in Requests : job'[q] = job[q] BY DEF Others
<1>1. /\ \A row \in Row : /\ work'[row] = IF lock[row] = r THEN db[row] ELSE work[row]
                          /\ lock'[row] = IF lock[row] = r THEN Nobody ELSE lock[row]
      /\ db' = db /\ r # Nobody
  BY AbsentAssumption DEF PG!RollbackTx, PG!Release, Names
<1>2. Clean' BY <1>1 DEF Clean
<1>3. /\ LogsIn(r)' <=> LogsIn(r)
      /\ Made(r, "login")' <=> Made(r, "login")
      /\ pc'[r] \notin Entering \cup {"idle", "done", "track", "send", "told", "erase"}
  BY DEF LogsIn, Made, Over, Entering
<1>4. ASSUME NEW q \in Requests PROVE LoginInv(q)'
  <2>1. /\ \A p \in Requests : (LogsIn(p)' <=> LogsIn(p)) /\ From(p)' = From(p)
        /\ MySession(q)' = MySession(q)
    BY <1>0, <1>3, OthersFacts
  <2>2. LogsIn(q) => MySession(q) \in Row
    BY JobFacts, Rows DEF LogsIn, MySession
  <2>3. LoginInv(q) OBVIOUS
  <2>4. CASE q = r
    <3>1. LogsIn(r) => ~ (verdict[r] = "ok" /\ pc[r] = "done") BY DEF Over
    <3> QED BY <1>1, <1>3, <2>1, <2>3, <2>4, <3>1 DEF LoginInv
  <2>5. CASE q # r
    <3>1. pc'[q] = pc[q] /\ verdict'[q] = verdict[q] BY <2>5 DEF Others
    <3>2. MySession(q) \in Row /\ lock[MySession(q)] = q
            => lock'[MySession(q)] = q /\ work'[MySession(q)] = work[MySession(q)]
      BY <1>1, <2>5
    <3> QED BY <1>1, <2>1, <2>2, <2>3, <3>1, <3>2 DEF LoginInv
  <2> QED BY <2>4, <2>5
<1>5. ASSUME NEW b \in Browsers PROVE SessionInv(b)'
  <2>1. SessionInv(b) /\ SessionRow(b) \in Row BY Rows
  <2>2. \A q \in Requests : /\ From(q)' = From(q)
                            /\ Made(q, "login")' <=> Made(q, "login")
                            /\ pc[q] \notin {"idle", "done"} => pc'[q] \notin {"idle", "done"}
                            /\ pc[q] # "idle" => pc'[q] # "idle"
    BY <1>0, <1>3, OthersFacts DEF Ops, Others
  <2> QED BY <1>1, <2>1, <2>2, AbsentAssumption DEF SessionInv, Names
<1>6. ASSUME NEW q \in Requests PROVE EntryInv(q)' /\ EraseInv(q)'
  <2>1. EntryInv(q) /\ EraseInv(q) OBVIOUS
  <2>2. MySession(q)' = MySession(q) /\ Me(q)' = Me(q) /\ job'[q] = job[q]
    BY <1>0, OthersFacts
  <2>3. \A row \in Row : lock'[row] = q => lock[row] = q
    BY <1>1, AbsentAssumption DEF Names
  <2>4. CASE q = r
    BY <1>1, <1>3, <2>1, <2>2, <2>4 DEF EntryInv, EraseInv, Entering
  <2>5. CASE q # r
    <3>1. pc'[q] = pc[q] /\ verdict'[q] = verdict[q] BY <2>5 DEF Others
    <3>2. pc[q] = "erase" => job[q].note \in Names BY JobFacts
    <3>3. \A n \in Names : pc[n] = "done" /\ n # Earlier => pc'[n] = "done"
      BY DEF Names, Others, Over
    <3> QED BY <1>1, <2>1, <2>2, <2>3, <3>1, <3>2, <3>3 DEF EntryInv, EraseInv
  <2> QED BY <2>4, <2>5
<1>7. ASSUME NEW n \in Names PROVE NoteInv(n)'
  <2>1. NoteInv(n) /\ NoteRow(n) \in Row BY Rows
  <2>2. n # Earlier /\ Made(n, "create") /\ pc[n] = "done" => Made(n, "create")' /\ pc'[n] = "done"
    BY <1>0, OthersFacts DEF Names, Ops, Others, Over
  <2>3. \A q \in Requests \ {r} :
          /\ pc'[q] = pc[q] /\ Me(q)' = Me(q)
          /\ Making(q, n)' <=> Making(q, n)
          /\ Deleting(q, n)' <=> Deleting(q, n)
    BY <1>0, OthersFacts DEF Others
  <2>4. \A q \in Requests : lock'[NoteRow(n)] = q =>
          q # r /\ lock[NoteRow(n)] = q /\ work'[NoteRow(n)] = work[NoteRow(n)]
    BY <1>1, <2>1, AbsentAssumption DEF Names
  <2> QED BY <1>1, <2>1, <2>2, <2>3, <2>4 DEF NoteInv
<1> QED BY <1>2, <1>4, <1>5, <1>6, <1>7

(* A step of r that writes its session: the middle of get_current_user,    *)
(* and the login.                                                          *)
LEMMA SessionWriteTable ==
  ASSUME Types, RequestInv, TableInv, NEW r \in Requests, Others(r),
         PG!Store(r, MySession(r), "fresh"), signed' = signed \cup {From(r)},
         job'[r] = job[r],
         \/ /\ pc[r] = "touch" /\ pc'[r] = "handle" /\ verdict'[r] = verdict[r]
         \/ /\ pc[r] = "open" /\ pc'[r] \in {"track", "told"} /\ verdict'[r] = "ok"
  PROVE  TableInv'
<1> USE DEF TableInv
<1> DEFINE mine == MySession(r)
<1>0. \A q \in Requests : job'[q] = job[q] BY DEF Others
<1>1. /\ pc[r] = "touch" => job[r].op # "login"
      /\ pc[r] = "open" => job[r].op = "login" /\ LogsIn(r) /\ verdict[r] = "none"
      /\ pc[r] # "idle" /\ From(r) \in Browsers /\ mine \in Row
  BY JobFacts, Rows DEF RequestInv, Script, LogsIn, WantsUser, NeedsUser, Before, Sql, MySession
<1>2. /\ \A row \in Row : /\ work'[row] = IF row = mine THEN "fresh" ELSE work[row]
                          /\ lock'[row] = IF row = mine THEN r ELSE lock[row]
      /\ db' = db /\ r # Nobody /\ lock[mine] \in {Nobody, r} /\ "fresh" # NoRow
  BY <1>1, AbsentAssumption DEF PG!Store, PG!Writable, Names, Types, StoreTypes, Session
<1>3. Clean' BY <1>2 DEF Clean
<1>4. /\ pc[r] = "touch" => db[mine] # NoRow /\ From(r) \in signed
      /\ pc[r] = "open" => From(r) \notin signed /\ db[mine] = NoRow
  <2>1. pc[r] = "touch" => db[mine] # NoRow BY DEF EntryInv
  <2>2. db[mine] # NoRow => From(r) \in signed BY <1>1 DEF SessionInv, MySession
  <2>3. pc[r] = "open" => From(r) \notin signed BY <1>1 DEF LoginInv
  <2> QED BY <2>1, <2>2, <2>3
<1>5. /\ LogsIn(r)' <=> LogsIn(r)
      /\ pc'[r] \notin {"idle", "depend", "load", "touch", "anonymous", "done", "erase"}
      /\ Made(r, "login")' <=> pc[r] = "open"
  BY <1>1 DEF LogsIn, Made
<1>6. ASSUME NEW q \in Requests PROVE LoginInv(q)'
  <2>1. /\ \A p \in Requests : (LogsIn(p)' <=> LogsIn(p)) /\ From(p)' = From(p)
        /\ MySession(q)' = MySession(q)
    BY <1>0, <1>5, OthersFacts
  <2>2. LoginInv(q) /\ LoginInv(r) OBVIOUS
  <2>3. CASE q = r
    <3>1. LogsIn(r) => pc[r] = "open" /\ verdict'[r] = "ok" BY <1>1 DEF LogsIn
    <3> QED BY <1>1, <1>2, <1>4, <2>1, <2>2, <2>3, <3>1 DEF LoginInv
  <2>4. CASE q # r
    <3>1. pc'[q] = pc[q] /\ verdict'[q] = verdict[q] BY <2>4 DEF Others
    <3>2. LogsIn(q) => MySession(q) \in Row
      BY JobFacts, Rows DEF LogsIn, MySession
    <3>3. LogsIn(q) /\ From(q) = From(r) => From(r) \in signed
      BY <1>1, <1>4, <2>2, <2>4 DEF LoginInv
    <3>4. LogsIn(q) /\ lock[MySession(q)] = q
            => lock'[MySession(q)] = q /\ work'[MySession(q)] = work[MySession(q)]
      BY <1>2, <2>4, <3>2, AbsentAssumption DEF Names
    <3> QED BY <1>2, <2>1, <2>2, <3>1, <3>3, <3>4 DEF LoginInv
  <2> QED BY <2>3, <2>4
<1>7. ASSUME NEW b \in Browsers PROVE SessionInv(b)'
  <2>1. SessionInv(b) /\ SessionRow(b) \in Row BY Rows
  <2>2. \A q \in Requests \ {r} : /\ From(q)' = From(q) /\ pc'[q] = pc[q]
                                  /\ Made(q, "login")' <=> Made(q, "login")
    BY <1>0, OthersFacts DEF Ops, Others
  <2>3. From(r)' = From(r) BY <1>0, OthersFacts
  <2>4. CASE b = From(r)
    <3>1. mine = SessionRow(b) BY <2>4 DEF MySession
    <3>2. \A q \in Requests : lock'[mine] = q => q = r BY <1>1, <1>2
    <3>3. b \in signed' BY <2>4
    <3>4. db[mine] = NoRow => Made(r, "login")' BY <1>4, <1>5
    <3> QED
      BY <1>1, <1>2, <1>5, <2>3, <2>4, <3>1, <3>2, <3>3, <3>4 DEF SessionInv
  <2>5. CASE b # From(r)
    <3>1. SessionRow(b) # mine BY <1>1, <2>5, Rows DEF MySession
    <3>2. b \in signed' <=> b \in signed BY <2>5
    <3>3. \A q \in Requests : From(q) = b => q # r BY <2>5
    <3> QED BY <1>2, <2>1, <2>2, <3>1, <3>2, <3>3 DEF SessionInv
  <2> QED BY <2>4, <2>5
<1>8. ASSUME NEW q \in Requests PROVE EntryInv(q)' /\ EraseInv(q)'
  <2>1. EntryInv(q) /\ EraseInv(q) OBVIOUS
  <2>2. MySession(q)' = MySession(q) /\ Me(q)' = Me(q) /\ job'[q] = job[q]
    BY <1>0, OthersFacts
  <2>3. CASE q = r
    <3>1. verdict'[r] # "login" \/ verdict'[r] = verdict[r] OBVIOUS
    <3> QED BY <1>1, <1>2, <1>5, <2>1, <2>2, <2>3, <3>1 DEF EntryInv, EraseInv, Entering
  <2>4. CASE q # r
    <3>1. pc'[q] = pc[q] /\ verdict'[q] = verdict[q] BY <2>4 DEF Others
    <3>2. pc[q] = "erase" => job[q].note \in Names BY JobFacts
    <3>3. \A n \in Names : pc[n] = "done" /\ n # Earlier => pc'[n] = "done"
      BY DEF Names, Others
    <3>4. \A row \in Row : lock'[row] = q => lock[row] = q BY <1>2, <2>4
    <3> QED BY <1>2, <2>1, <2>2, <3>1, <3>2, <3>3, <3>4 DEF EntryInv, EraseInv
  <2> QED BY <2>3, <2>4
<1>9. ASSUME NEW n \in Names PROVE NoteInv(n)'
  <2>1. NoteInv(n) /\ NoteRow(n) \in Row /\ NoteRow(n) # mine
    BY <1>1, Rows DEF MySession
  <2>2. n # Earlier /\ Made(n, "create") /\ pc[n] = "done" => Made(n, "create")' /\ pc'[n] = "done"
    BY <1>0, OthersFacts DEF Names, Ops, Others
  <2>3. \A q \in Requests \ {r} :
          /\ pc'[q] = pc[q] /\ Me(q)' = Me(q)
          /\ Making(q, n)' <=> Making(q, n)
          /\ Deleting(q, n)' <=> Deleting(q, n)
    BY <1>0, OthersFacts DEF Others
  <2>4. lock[NoteRow(n)] # r BY <2>1 DEF NoteInv
  <2> QED BY <1>2, <2>1, <2>2, <2>3, <2>4 DEF NoteInv
<1> QED BY <1>3, <1>6, <1>7, <1>8, <1>9

(* A step of r that writes a note: the handlers of notes.py.               *)
LEMMA NoteWriteTable ==
  ASSUME Types, RequestInv, TableInv, NEW r \in Requests, Others(r),
         NEW m \in Names, NEW val, PG!Store(r, NoteRow(m), val), UNCHANGED signed,
         job'[r] = job[r], verdict'[r] = "ok", pc[r] \in {"insert", "erase"}, pc'[r] = "told",
         \/ Making(r, m)'
         \/ Deleting(r, m)' /\ val = NoRow /\ db[NoteRow(m)] = Me(r)
  PROVE  TableInv'
<1> USE DEF TableInv
<1> DEFINE mine == NoteRow(m)
<1>0. \A q \in Requests : job'[q] = job[q] BY DEF Others
<1>1. /\ job[r].op # "login" /\ verdict[r] = "none" /\ mine \in Row
  BY Rows DEF RequestInv, Script, Before, Sql
<1>2. /\ \A row \in Row : /\ work'[row] = IF row = mine THEN val ELSE work[row]
                          /\ lock'[row] = IF row = mine THEN r ELSE lock[row]
      /\ db' = db /\ r # Nobody /\ lock[mine] \in {Nobody, r}
  BY <1>1, AbsentAssumption DEF PG!Store, PG!Writable, Names, Types, StoreTypes
<1>3. Clean' BY <1>2 DEF Clean
<1>4. /\ LogsIn(r)' <=> LogsIn(r)
      /\ ~ LogsIn(r) /\ ~ Made(r, "login") /\ ~ Made(r, "login")'
  BY <1>1 DEF LogsIn, Made
<1>5. \A b \in Browsers : /\ SessionRow(b) \in Row
                          /\ lock'[SessionRow(b)] = lock[SessionRow(b)]
                          /\ work'[SessionRow(b)] = work[SessionRow(b)]
  BY <1>2, Rows
<1>6. ASSUME NEW q \in Requests PROVE LoginInv(q)'
  <2>1. /\ \A p \in Requests : (LogsIn(p)' <=> LogsIn(p)) /\ From(p)' = From(p)
        /\ MySession(q)' = MySession(q)
    BY <1>0, <1>4, OthersFacts
  <2>2. LoginInv(q) OBVIOUS
  <2>3. CASE q = r BY <1>4, <2>3 DEF LoginInv
  <2>4. CASE q # r
    <3>1. pc'[q] = pc[q] /\ verdict'[q] = verdict[q] BY <2>4 DEF Others
    <3>2. LogsIn(q) => /\ lock'[MySession(q)] = lock[MySession(q)]
                       /\ work'[MySession(q)] = work[MySession(q)]
      BY <1>5, JobFacts DEF LogsIn, MySession
    <3> QED BY <1>2, <2>1, <2>2, <3>1, <3>2 DEF LoginInv
  <2> QED BY <2>3, <2>4
<1>7. ASSUME NEW b \in Browsers PROVE SessionInv(b)'
  <2>1. SessionInv(b) OBVIOUS
  <2>2. \A q \in Requests : /\ From(q)' = From(q)
                            /\ Made(q, "login")' <=> Made(q, "login")
                            /\ pc[q] \notin {"idle", "done"} => pc'[q] \notin {"idle", "done"}
                            /\ pc[q] # "idle" => pc'[q] # "idle"
    BY <1>0, <1>4, OthersFacts DEF Ops, Others
  <2> QED BY <1>2, <1>5, <2>1, <2>2 DEF SessionInv
<1>8. ASSUME NEW q \in Requests PROVE EntryInv(q)' /\ EraseInv(q)'
  <2>1. EntryInv(q) /\ EraseInv(q) OBVIOUS
  <2>2. MySession(q)' = MySession(q) /\ Me(q)' = Me(q) /\ job'[q] = job[q]
    BY <1>0, OthersFacts
  <2>3. CASE q = r
    BY <1>1, <1>2, <2>1, <2>2, <2>3 DEF EntryInv, EraseInv, Entering
  <2>4. CASE q # r
    <3>1. pc'[q] = pc[q] /\ verdict'[q] = verdict[q] BY <2>4 DEF Others
    <3>2. pc[q] = "erase" => job[q].note \in Names BY JobFacts
    <3>3. \A n \in Names : pc[n] = "done" /\ n # Earlier => pc'[n] = "done"
      BY DEF Names, Others
    <3>4. \A row \in Row : lock'[row] = q => lock[row] = q BY <1>2, <2>4
    <3> QED BY <1>2, <2>1, <2>2, <3>1, <3>2, <3>3, <3>4 DEF EntryInv, EraseInv
  <2> QED BY <2>3, <2>4
<1>9. ASSUME NEW n \in Names PROVE NoteInv(n)'
  <2>1. NoteInv(n) /\ NoteRow(n) \in Row
    BY Rows
  <2>2. n # Earlier /\ Made(n, "create") /\ pc[n] = "done" => Made(n, "create")' /\ pc'[n] = "done"
    BY <1>0, OthersFacts DEF Names, Ops, Others
  <2>3. \A q \in Requests \ {r} :
          /\ pc'[q] = pc[q] /\ Me(q)' = Me(q)
          /\ Making(q, n)' <=> Making(q, n)
          /\ Deleting(q, n)' <=> Deleting(q, n)
    BY <1>0, OthersFacts DEF Others
  <2>4. Me(r)' = Me(r) BY <1>0, OthersFacts
  <2>5. lock[NoteRow(n)] # r BY <2>1 DEF NoteInv
  <2>6. CASE n = m
    <3>1. \A q \in Requests : lock'[mine] = q => q = r BY <1>1, <1>2
    <3>2. work'[mine] = val BY <1>1, <1>2
    <3> QED BY <1>1, <1>2, <2>1, <2>2, <2>4, <2>6, <3>1, <3>2 DEF NoteInv
  <2>7. CASE n # m
    <3>1. NoteRow(n) # mine BY <2>7, Rows
    <3> QED BY <1>2, <2>1, <2>2, <2>3, <2>5, <3>1 DEF NoteInv
  <2> QED BY <2>6, <2>7
<1> QED BY <1>3, <1>6, <1>7, <1>8, <1>9

(* The commit of r publishes what it wrote.                                *)
LEMMA CommitTable ==
  ASSUME Types, RequestInv, TableInv, NEW r \in Requests, Others(r),
         PG!CommitTx(r), UNCHANGED signed, job'[r] = job[r], verdict'[r] = verdict[r],
         pc[r] = "told", pc'[r] = "done"
  PROVE  TableInv'
<1> USE DEF TableInv
<1>0. \A q \in Requests : job'[q] = job[q] BY DEF Others
<1>1. /\ \A row \in Row : /\ db'[row] = IF lock[row] = r THEN work[row] ELSE db[row]
                          /\ lock'[row] = IF lock[row] = r THEN Nobody ELSE lock[row]
      /\ work' = work /\ r # Nobody
  BY AbsentAssumption DEF PG!CommitTx, PG!Release, Names
<1>2. Clean' BY <1>1 DEF Clean
<1>3. /\ LogsIn(r)' <=> LogsIn(r)
      /\ Made(r, "login")' <=> Made(r, "login")
  BY DEF LogsIn, Made
<1>4. \A q \in Requests : (LogsIn(q)' <=> LogsIn(q)) /\ From(q)' = From(q)
  BY <1>0, <1>3, OthersFacts
<1>5. ASSUME NEW b \in Browsers, SessionInv(b)
      PROVE  /\ SessionRow(b) \in Row
             /\ db[SessionRow(b)] # NoRow => db'[SessionRow(b)] # NoRow
             /\ db'[SessionRow(b)] # NoRow =>
                  db[SessionRow(b)] # NoRow \/ (Made(r, "login") /\ From(r) = b)
  BY <1>1, <1>5, Rows DEF SessionInv
<1>6. ASSUME NEW q \in Requests PROVE LoginInv(q)'
  <2>1. MySession(q)' = MySession(q)
    BY <1>0, OthersFacts
  <2>2. LoginInv(q) /\ LoginInv(r) OBVIOUS
  <2>3. LogsIn(q) /\ db'[MySession(q)] # NoRow =>
          \/ db[MySession(q)] # NoRow
          \/ LogsIn(r) /\ From(r) = From(q) /\ verdict[r] = "ok"
    BY <1>5, JobFacts DEF LogsIn, MySession, Made
  <2>4. CASE q = r
    BY <1>1, <1>4, <2>1, <2>2, <2>3, <2>4 DEF LoginInv
  <2>5. CASE q # r
    <3>1. pc'[q] = pc[q] /\ verdict'[q] = verdict[q] BY <2>5 DEF Others
    <3>2. LogsIn(q) => MySession(q) \in Row
      BY JobFacts, Rows DEF LogsIn, MySession
    <3>3. MySession(q) \in Row /\ lock[MySession(q)] = q => lock'[MySession(q)] = q
      BY <1>1, <2>5
    <3> QED BY <1>1, <1>4, <2>1, <2>2, <2>3, <2>5, <3>1, <3>2, <3>3 DEF LoginInv
  <2> QED BY <2>4, <2>5
<1>7. ASSUME NEW b \in Browsers PROVE SessionInv(b)'
  <2>1. SessionInv(b) /\ SessionRow(b) \in Row BY Rows
  <2>2. \A q \in Requests \ {r} : /\ From(q)' = From(q) /\ pc'[q] = pc[q]
                                  /\ Made(q, "login")' <=> Made(q, "login")
    BY <1>0, OthersFacts DEF Ops, Others
  <2>3. Made(r, "login") /\ From(r) = b => lock[SessionRow(b)] = r
    BY DEF Made, LoginInv, LogsIn, MySession
  <2>4. \A q \in Requests : lock'[SessionRow(b)] = q => q # r /\ lock[SessionRow(b)] = q
    BY <1>1, <2>1, AbsentAssumption DEF Names
  <2>5. db'[SessionRow(b)] = NoRow => db[SessionRow(b)] = NoRow /\ lock[SessionRow(b)] # r
    BY <1>1, <2>1 DEF SessionInv
  <2>6. db'[SessionRow(b)] # NoRow => work[SessionRow(b)] # NoRow
    BY <1>1, <2>1 DEF SessionInv
  <2>7. b \in signed /\ db'[SessionRow(b)] = NoRow =>
          \E q \in Requests : Made(q, "login")' /\ From(q)' = b /\ pc'[q] \notin {"idle", "done"}
    BY <2>1, <2>2, <2>3, <2>5 DEF SessionInv
  <2>8. \A q \in Requests : lock'[SessionRow(b)] = q =>
          db'[SessionRow(b)] # NoRow \/ Made(q, "login")'
    BY <1>1, <2>1, <2>2, <2>4 DEF SessionInv
  <2> QED BY <1>1, <2>1, <2>2, <2>4, <2>6, <2>7, <2>8 DEF SessionInv
<1>8. ASSUME NEW q \in Requests PROVE EntryInv(q)' /\ EraseInv(q)'
  <2>1. EntryInv(q) /\ EraseInv(q) OBVIOUS
  <2>2. MySession(q)' = MySession(q) /\ Me(q)' = Me(q) /\ job'[q] = job[q]
    BY <1>0, OthersFacts
  <2>3. pc[q] # "idle" /\ db[MySession(q)] # NoRow => db'[MySession(q)] # NoRow
    BY <1>5, JobFacts DEF MySession
  <2>4. CASE q = r
    BY <1>1, <2>1, <2>2, <2>3, <2>4 DEF EntryInv, EraseInv, Entering
  <2>5. CASE q # r
    <3>1. pc'[q] = pc[q] /\ verdict'[q] = verdict[q] BY <2>5 DEF Others
    <3>2. \A row \in Row : lock'[row] = q => lock[row] = q
      BY <1>1, AbsentAssumption DEF Names
    <3>3. EntryInv(q)' BY <2>1, <2>2, <2>3, <3>1, <3>2 DEF EntryInv
    <3>4. EraseInv(q)'
      <4>1. SUFFICES ASSUME pc[q] = "erase"
                     PROVE  /\ job[q].note = Earlier \/ pc'[job[q].note] = "done"
                            /\ db'[NoteRow(job[q].note)] \in {Me(q), NoRow}
        BY <2>2, <3>1 DEF EraseInv
      <4>2. job[q].note \in Names /\ NoteRow(job[q].note) \in Row
        BY <4>1, JobFacts, Rows
      <4>3. /\ job[q].note = Earlier \/ pc[job[q].note] = "done"
            /\ db[NoteRow(job[q].note)] \in {Me(q), NoRow}
        BY <2>1, <4>1 DEF EraseInv
      <4>4. job[q].note = Earlier \/ pc'[job[q].note] = "done"
        BY <4>2, <4>3 DEF Names, Others
      <4>5. lock[NoteRow(job[q].note)] = r => work[NoteRow(job[q].note)] = NoRow
        <5>1. r # Earlier BY AbsentAssumption
        <5> QED BY <4>2, <4>3, <5>1 DEF NoteInv, Making
      <4> QED BY <1>1, <4>2, <4>3, <4>4, <4>5
    <3> QED BY <3>3, <3>4
  <2> QED BY <2>4, <2>5
<1>9. ASSUME NEW n \in Names PROVE NoteInv(n)'
  <2>1. NoteInv(n) /\ NoteRow(n) \in Row BY Rows
  <2>2. n # Earlier /\ Made(n, "create") /\ pc[n] \in {"done", "told"} /\ (n = r \/ pc[n] = "done")
          => Made(n, "create")' /\ pc'[n] = "done"
    BY <1>0, OthersFacts DEF Names, Ops, Others
  <2>3. \A q \in Requests \ {r} :
          /\ pc'[q] = pc[q] /\ Me(q)' = Me(q)
          /\ Making(q, n)' <=> Making(q, n)
          /\ Deleting(q, n)' <=> Deleting(q, n)
    BY <1>0, OthersFacts DEF Others
  <2>4. lock[NoteRow(n)] = r => (Making(r, n) \/ work[NoteRow(n)] = NoRow)
    BY <2>1 DEF NoteInv
  <2>5. db'[NoteRow(n)] # NoRow => n = Earlier \/ (Made(n, "create")' /\ pc'[n] = "done")
    BY <1>1, <2>1, <2>2, <2>4 DEF NoteInv, Making
  <2>6. \A q \in Requests : lock'[NoteRow(n)] = q =>
          q # r /\ lock[NoteRow(n)] = q /\ db'[NoteRow(n)] = db[NoteRow(n)]
    BY <1>1, <2>1, AbsentAssumption DEF Names
  <2> QED BY <1>1, <2>1, <2>3, <2>5, <2>6 DEF NoteInv
<1> QED BY <1>2, <1>6, <1>7, <1>8, <1>9

LEMMA ArriveTable ==
  ASSUME Types, RequestInv, TableInv, NEW r \in Requests, Others(r), Arrive(r)
  PROVE  TableInv'
<1> USE DEF TableInv
<1>1. PICK b \in Browsers, op \in Ops, note \in Names, form \in Tokens :
             Arrival(r, b, op, note, form)
  BY ArriveFacts
<1> DEFINE early == \E q \in Siblings(b) : Made(q, "login") /\ pc[q] # "done"
<1>2. /\ pc[r] = "idle" /\ UNCHANGED <<db, work, lock, signed>>
      /\ pc'[r] \in {"depend", "handle", "error"} /\ verdict'[r] \in {"none", "csrf"}
  <2>1. pc[r] = "idle" /\ verdict[r] = "none" /\ UNCHANGED <<db, work, lock, signed>>
    BY DEF Arrive, NoSql, RequestInv, Script, Before
  <2> QED BY <1>1, <2>1 DEF Arrival, Goto, Conclude, Types, LocalTypes
<1>3. /\ From(r)' = b /\ job'[r].op = op /\ job'[r].signed = (b \in signed)
      /\ job'[r].early = early
  BY <1>1 DEF Arrival, From, Types, LocalTypes
<1>4. op = "login" => b \notin signed /\ \A q \in Requests : From(q) = b => ~ LogsIn(q)
  BY <1>1 DEF Arrival, Siblings, LogsIn
<1>5. b \in signed /\ ~ early => db[SessionRow(b)] # NoRow
  BY DEF SessionInv, Siblings
<1> HIDE DEF early
<1>6. \A q \in Requests \ {r} : /\ job'[q] = job[q] /\ pc'[q] = pc[q] /\ verdict'[q] = verdict[q]
                                /\ From(q)' = From(q) /\ Me(q)' = Me(q)
                                /\ MySession(q)' = MySession(q)
                                /\ LogsIn(q)' <=> LogsIn(q)
                                /\ Made(q, "login")' <=> Made(q, "login")
  BY OthersFacts DEF Others, Ops
<1>7. /\ LogsIn(r)' => op = "login"
      /\ ~ Made(r, "login") /\ ~ Made(r, "create")
  BY <1>2, <1>3, JobFacts DEF LogsIn, Ops, Safe
<1>8. Clean' BY <1>2 DEF Clean
<1>9. ASSUME NEW q \in Requests PROVE LoginInv(q)'
  <2>1. CASE q = r
    <3>1. op = "login" => db[SessionRow(b)] = NoRow BY <1>4 DEF SessionInv
    <3>2. MySession(r)' = SessionRow(b) BY <1>3 DEF MySession, From
    <3> QED BY <1>2, <1>3, <1>4, <1>6, <1>7, <2>1, <3>1, <3>2 DEF LoginInv
  <2>2. CASE q # r
    <3>1. LoginInv(q) OBVIOUS
    <3> QED BY <1>2, <1>3, <1>4, <1>6, <1>7, <2>2, <3>1 DEF LoginInv
  <2> QED BY <2>1, <2>2
<1>10. ASSUME NEW c \in Browsers PROVE SessionInv(c)'
  <2>1. SessionInv(c) OBVIOUS
  <2> QED BY <1>2, <1>6, <1>7, <2>1 DEF SessionInv
<1>11. ASSUME NEW q \in Requests PROVE EntryInv(q)' /\ EraseInv(q)'
  <2>1. EntryInv(q) /\ EraseInv(q) OBVIOUS
  <2>2. CASE q = r
    <3>1. MySession(r)' = SessionRow(b) BY <1>3 DEF MySession, From
    <3> QED BY <1>2, <1>3, <1>5, <2>1, <2>2, <3>1 DEF EntryInv, EraseInv, Entering
  <2>3. CASE q # r
    <3>1. pc[q] = "erase" => job[q].note \in Names BY JobFacts
    <3>2. \A n \in Names : pc[n] = "done" /\ n # Earlier => pc'[n] = "done"
      BY <1>2, <1>6 DEF Names
    <3> QED BY <1>2, <1>6, <2>1, <2>3, <3>1, <3>2 DEF EntryInv, EraseInv
  <2> QED BY <2>2, <2>3
<1>12. ASSUME NEW n \in Names PROVE NoteInv(n)'
  <2>1. NoteInv(n) OBVIOUS
  <2>2. n # Earlier /\ Made(n, "create") => Made(n, "create")' /\ pc'[n] = pc[n]
    BY <1>6, <1>7 DEF Names, Made
  <2>3. \A q \in Requests \ {r} : /\ Making(q, n)' <=> Making(q, n)
                                  /\ Deleting(q, n)' <=> Deleting(q, n)
    BY <1>6 DEF Making, Deleting, Made
  <2> QED BY <1>2, <1>6, <2>1, <2>2, <2>3 DEF NoteInv
<1> QED BY <1>8, <1>9, <1>10, <1>11, <1>12

LEMMA RaiseTable ==
  ASSUME Types, RequestInv, TableInv, NEW r \in Requests, Others(r),
         NEW outcome \in Failures, Raise(r, outcome), pc[r] \in Sql \cup {"anonymous", "answer"},
         UNCHANGED <<job, tried, browser>>,
         outcome = "login" => ~ (job[r].signed /\ ~ job[r].early)
  PROVE  TableInv'
<1>1. pc'[r] = "error" /\ verdict'[r] = outcome /\ UNCHANGED signed /\ verdict[r] = "none"
  BY DEF Raise, Leave, Goto, Conclude, browser, Types, LocalTypes, RequestInv, Script, Before
<1>2. outcome # "ok" /\ pc[r] \notin {"idle"} \cup Over
  BY DEF Failures, Sql, Over
<1> QED BY <1>1, <1>2, RollbackTable DEF Raise

(* A response that grants no login leaves signed alone.                    *)
LEMMA ReturnFacts ==
  ASSUME Types, NEW r \in Requests, NEW outcome, Return(r, outcome)
  PROVE  /\ pc'[r] = IF Signals(r, outcome) THEN "track"
                     ELSE IF job[r].op \in NeedsDb THEN "told" ELSE "done"
         /\ verdict'[r] = outcome
         /\ signed' = IF job[r].op = "login" /\ outcome = "ok" THEN signed \cup {From(r)} ELSE signed
BY DEF Types, LocalTypes, Return, Respond, Leave, Goto, Conclude

LEMMA ReturnTable ==
  ASSUME Types, RequestInv, RequestInv', TableInv, NEW r \in Requests, Others(r), NoSql,
         NEW outcome \in {"ok", "invalid"}, Return(r, outcome), UNCHANGED job,
         pc[r] \in {"answer", "select", "open", "insert", "erase"},
         job[r].op = "login" => outcome = "invalid"
  PROVE  TableInv'
<1>1. /\ pc'[r] \in {"track", "told", "done"} /\ verdict'[r] = outcome
      /\ job[r].op = "login" => pc'[r] # "done"
      /\ UNCHANGED signed
  BY ReturnFacts DEF NeedsDb
<1>2. verdict[r] = "none" BY DEF RequestInv, Script, Before, Sql
<1>3. EntryInv(r)' /\ EraseInv(r)'
  <2>1. EntryInv(r) /\ MySession(r)' = MySession(r) BY OthersFacts DEF TableInv
  <2> QED BY <1>1, <2>1 DEF EntryInv, EraseInv, Entering, NoSql
<1> QED BY <1>1, <1>2, <1>3, QuietTable DEF NoSql, Over

LEMMA StepTable ==
  ASSUME Types, RequestInv, RequestInv', TableInv, NEW r \in Requests, Others(r),
         Step(r) \/ Crash(r) \/ LoseCommit(r)
  PROVE  TableInv'
<1> USE DEF Sql
<1>0. /\ \A step : Goto(r, step) => pc'[r] = step
      /\ Script(r) /\ LoginInv(r) /\ EntryInv(r) /\ EraseInv(r)
      /\ pc[r] # "idle" => job[r] \in Jobs /\ From(r) \in Browsers
      /\ job'[r] = job[r] => MySession(r)' = MySession(r) /\ Me(r)' = Me(r)
  BY JobFacts, OthersFacts DEF Types, LocalTypes, Goto, RequestInv, TableInv
<1>1. CASE Enter(r)
  <2>1. /\ pc[r] \in Queues /\ UNCHANGED <<db, work, lock, signed, job, verdict>>
        /\ pc'[r] \notin {"idle", "done", "touch", "erase"}
        /\ pc'[r] \in Entering => pc[r] = "depend" /\ (pc'[r] = "anonymous" => ~ job[r].signed)
    <3>1. pc[r] = "depend" => pc'[r] = IF job[r].signed THEN "load" ELSE "anonymous"
      BY <1>0, <1>1 DEF Enter
    <3>2. pc[r] = "handle" => pc'[r] \in {"answer", "select", "open", "insert", "find"}
      <4>1. ASSUME pc[r] = "handle" PROVE pc'[r] = Handler[job[r].op]
        BY <1>0, <1>1, <4>1 DEF Enter
      <4>2. pc[r] = "handle" => job[r].op \in Ops BY <1>0 DEF Jobs
      <4> QED BY <4>1, <4>2, HandlerType
    <3>3. pc[r] = "error" => pc'[r] = "render" BY <1>0, <1>1 DEF Enter
    <3>4. pc[r] = "track" => pc'[r] = "send" BY <1>0, <1>1 DEF Enter
    <3>5. pc[r] \in Queues /\ UNCHANGED <<db, work, lock, signed, job, verdict>>
      BY <1>1 DEF Enter, NoSql, browser
    <3> QED BY <3>1, <3>2, <3>3, <3>4, <3>5 DEF Queues, Entering
  <2>2. EntryInv(r)' /\ EraseInv(r)'
    BY <1>0, <2>1 DEF EntryInv, EraseInv, Entering, Queues
  <2> QED BY <2>1, <2>2, QuietTable DEF Queues, Over
<1>2. CASE TakeConnection(r)
  <2>1. pc[r] \in Sql /\ UNCHANGED <<db, work, lock, signed, job, verdict, pc>>
    BY <1>2 DEF TakeConnection, NoSql, browser
  <2>2. EntryInv(r)' /\ EraseInv(r)'
    BY <1>0, <2>1 DEF EntryInv, EraseInv
  <2> QED BY <2>1, <2>2, QuietTable DEF Over
<1>3. CASE PoolTimeout(r)
  BY <1>3, RaiseTable DEF PoolTimeout, Failures
<1>4. CASE LoadSession(r)
  <2>1. /\ pc[r] = "load" /\ UNCHANGED <<db, work, lock, signed, job, verdict>>
        /\ pc'[r] \in {"anonymous", "touch", "handle"}
    BY <1>0, <1>4 DEF LoadSession, Runs, NoSql, Leave, browser
  <2>2. PG!Visible(r, MySession(r)) = db[MySession(r)]
    BY <1>0, <2>1, Rows DEF PG!Visible, EntryInv, Entering, MySession
  <2>3. /\ pc'[r] = "anonymous" => db[MySession(r)] = NoRow
        /\ pc'[r] = "touch" => db[MySession(r)] # NoRow
    <3>1. db[MySession(r)] # NoRow => pc'[r] \in {"touch", "handle"}
      BY <1>0, <1>4, <2>2 DEF LoadSession, Leave, MySession
    <3>2. db[MySession(r)] = NoRow => pc'[r] = "anonymous"
      BY <1>0, <1>4, <2>2, AbsentAssumption DEF LoadSession, MySession, Session
    <3> QED BY <3>1, <3>2
  <2>4. EntryInv(r)' /\ EraseInv(r)'
    BY <1>0, <2>1, <2>3 DEF EntryInv, EraseInv, Entering
  <2> QED BY <2>1, <2>4, QuietTable DEF Over
<1>5. CASE TouchSession(r)
  <2>1. /\ pc[r] = "touch" /\ pc'[r] = "handle" /\ UNCHANGED <<signed, job, verdict>>
        /\ PG!Store(r, MySession(r), "fresh")
    BY <1>0, <1>5 DEF TouchSession, Runs, Leave, browser, MySession
  <2>2. From(r) \in signed
    BY <1>0, <2>1 DEF EntryInv, MySession, TableInv, SessionInv
  <2> QED BY <2>1, <2>2, SessionWriteTable
<1>6. CASE Anonymous(r)
  <2>1. pc[r] = "anonymous" /\ UNCHANGED <<job, tried, browser>>
    BY <1>6 DEF Anonymous, Runs
  <2>2. CASE Raise(r, "login")
    BY <1>0, <2>1, <2>2, RaiseTable DEF Failures, EntryInv
  <2>3. CASE Leave(r, "handle") /\ NoSql /\ UNCHANGED <<verdict, conn>>
    <3>1. pc'[r] = "handle" /\ UNCHANGED <<db, work, lock, signed, verdict>>
      BY <1>0, <2>1, <2>3 DEF Leave, NoSql, browser
    <3>2. EntryInv(r)' /\ EraseInv(r)'
      BY <1>0, <2>1, <3>1 DEF EntryInv, EraseInv, Entering
    <3> QED BY <2>1, <3>1, <3>2, QuietTable DEF Over
  <2> QED BY <1>6, <2>2, <2>3 DEF Anonymous
<1>7. CASE AnswerAtOnce(r)
  BY <1>0, <1>7, ReturnTable DEF AnswerAtOnce, Runs, Script
<1>8. CASE ListNotes(r)
  BY <1>0, <1>8, ReturnTable DEF ListNotes, Runs, Script
<1>9. CASE OpenSession(r)
  <2>1. pc[r] = "open" /\ UNCHANGED job /\ job[r].op = "login"
    BY <1>0, <1>9 DEF OpenSession, Write, Runs, Script
  <2>2. CASE Return(r, "invalid") /\ NoSql
    BY <2>1, <2>2, ReturnTable
  <2>3. CASE PG!Store(r, SessionRow(From(r)), "fresh") /\ Return(r, "ok")
    <3>1. pc'[r] \in {"track", "told"} /\ verdict'[r] = "ok" /\ signed' = signed \cup {From(r)}
      BY <2>1, <2>3, ReturnFacts DEF NeedsDb
    <3> QED BY <2>1, <2>3, <3>1, SessionWriteTable DEF MySession
  <2> QED BY <1>9, <2>2, <2>3 DEF OpenSession, Write
<1>10. CASE CreateNote(r)
  <2>1. pc[r] = "insert" /\ UNCHANGED job /\ job[r].op = "create"
    BY <1>0, <1>10 DEF CreateNote, Write, Runs, Script
  <2>2. CASE Return(r, "invalid") /\ NoSql
    BY <2>1, <2>2, ReturnTable
  <2>3. CASE PG!Store(r, NoteRow(r), Me(r)) /\ Return(r, "ok")
    <3>1. pc'[r] = "told" /\ verdict'[r] = "ok" /\ UNCHANGED signed
      BY <2>1, <2>3, ReturnFacts DEF NeedsDb, Signals
    <3>2. Making(r, r)' BY <2>1, <3>1 DEF Making, Made
    <3>3. r \in Names BY DEF Names
    <3> QED BY <2>1, <2>3, <3>1, <3>2, <3>3, NoteWriteTable
  <2> QED BY <1>10, <2>2, <2>3 DEF CreateNote, Write
<1>11. CASE FindNote(r)
  <2>1. pc[r] = "find" /\ UNCHANGED <<job, tried, browser>> /\ job[r].op = "delete"
    BY <1>0, <1>11 DEF FindNote, Runs, Script
  <2>2. CASE Raise(r, IF PG!Visible(r, NoteRow(job[r].note)) = NoRow
                        THEN "missing" ELSE "forbidden")
    BY <2>1, <2>2, RaiseTable DEF Failures
  <2>3. CASE /\ PG!Visible(r, NoteRow(job[r].note)) = Me(r) /\ Goto(r, "erase")
             /\ NoSql /\ UNCHANGED <<verdict, thread, conn>>
    <3>1. pc'[r] = "erase" /\ UNCHANGED <<db, work, lock, signed, verdict>>
      BY <1>0, <2>1, <2>3 DEF NoSql, browser
    <3>2. job[r].note \in Names /\ Me(r) \in Users /\ NoteInv(job[r].note)
      BY <2>1, JobFacts DEF TableInv
    <3>3. db[NoteRow(job[r].note)] = Me(r)
      BY <2>1, <2>3, <3>2 DEF PG!Visible, NoteInv
    <3>4. job[r].note = Earlier \/ pc[job[r].note] = "done"
      BY <3>2, <3>3, AbsentAssumption DEF NoteInv
    <3>5. job[r].note # Earlier => pc'[job[r].note] = "done"
      BY <2>1, <3>2, <3>4 DEF Names, Others
    <3>6. EntryInv(r)' /\ EraseInv(r)'
      BY <1>0, <2>1, <3>1, <3>3, <3>5 DEF EntryInv, EraseInv, Entering
    <3> QED BY <2>1, <3>1, <3>6, QuietTable DEF Over
  <2> QED BY <1>11, <2>2, <2>3 DEF FindNote
<1>12. CASE EraseNote(r)
  <2> DEFINE row == NoteRow(job[r].note)
  <2>1. pc[r] = "erase" /\ UNCHANGED job /\ job[r].op = "delete" /\ Return(r, "ok")
    BY <1>0, <1>12 DEF EraseNote, Runs, Script
  <2>2. CASE NoSql
    BY <2>1, <2>2, ReturnTable
  <2>3. CASE work[row] # NoRow /\ PG!Store(r, row, NoRow)
    <3>1. pc'[r] = "told" /\ verdict'[r] = "ok" /\ UNCHANGED signed
      BY <2>1, ReturnFacts DEF NeedsDb, Signals
    <3>2. Deleting(r, job[r].note)' BY <2>1, <3>1 DEF Deleting, Made
    <3>3. job[r].note \in Names /\ NoteInv(job[r].note) /\ row \in Row
      BY <2>1, JobFacts, Rows DEF TableInv
    <3>4. lock[row] = Nobody
      BY <2>1, <2>3, <3>3 DEF PG!Store, PG!Writable, NoteInv
    <3>5. db[row] = Me(r)
      BY <1>0, <2>1, <2>3, <3>3, <3>4 DEF TableInv, Clean, EraseInv
    <3> QED BY <2>1, <2>3, <3>1, <3>2, <3>3, <3>5, NoteWriteTable
  <2> QED BY <1>12, <2>2, <2>3 DEF EraseNote
<1>13. CASE RenderError(r)
  <2>1. /\ pc[r] = "render" /\ pc'[r] = "failed" /\ verdict'[r] = verdict[r]
        /\ UNCHANGED <<db, work, lock, job>> /\ verdict[r] # "ok"
    BY <1>0, <1>13
       DEF RenderError, Runs, Leave, Respond, Conclude, NoSql, Types, LocalTypes, Script, Failures
  <2>2. UNCHANGED signed BY <1>13, <2>1 DEF RenderError, Respond
  <2>3. EntryInv(r)' /\ EraseInv(r)'
    BY <1>0, <2>1 DEF EntryInv, EraseInv, Entering
  <2> QED BY <2>1, <2>2, <2>3, QuietTable DEF Over
<1>14. CASE Track(r)
  <2>1. /\ pc[r] = "send" /\ pc'[r] \in {"send", "told"}
        /\ UNCHANGED <<db, work, lock, signed, job, verdict>>
    BY <1>0, <1>14 DEF Track, Runs, Leave, NoSql, browser
  <2>2. EntryInv(r)' /\ EraseInv(r)'
    BY <1>0, <2>1 DEF EntryInv, EraseInv, Entering
  <2> QED BY <2>1, <2>2, QuietTable DEF Over
<1>15. CASE Commit(r)
  <2>1. /\ pc[r] = "told" /\ pc'[r] = "done" /\ UNCHANGED <<signed, job, verdict>>
        /\ PG!CommitTx(r)
    BY <1>0, <1>15 DEF Commit, EndTx, browser
  <2> QED BY <2>1, CommitTable
<1>16. CASE LoseCommit(r)
  <2>1. /\ pc[r] = "told" /\ pc'[r] = "lost" /\ UNCHANGED <<signed, job, verdict>>
        /\ PG!RollbackTx(r)
    BY <1>0, <1>16 DEF LoseCommit, EndTx, browser
  <2>2. verdict[r] # "login" BY <1>0, <2>1 DEF Script
  <2> QED BY <2>1, <2>2, RollbackTable DEF Over
<1>17. CASE Crash(r)
  <2>1. pc[r] \in {"anonymous", "answer"} \cup Sql
    <3>1. pc[r] \in Steps /\ Holds(r) BY DEF Types, LocalTypes, RequestInv
    <3> QED BY <1>17, <3>1 DEF Crash, Holds, Steps, Queues, Over
  <2> QED BY <1>17, <2>1, RaiseTable DEF Crash, Failures
<1> QED
  BY <1>1, <1>2, <1>3, <1>4, <1>5, <1>6, <1>7, <1>8, <1>9, <1>10, <1>11, <1>12, <1>13, <1>14,
     <1>15, <1>16, <1>17 DEF Step

LEMMA TableStep == Types /\ RequestInv /\ RequestInv' /\ TableInv /\ [Next]_vars => TableInv'
<1> SUFFICES ASSUME Types, RequestInv, RequestInv', TableInv, [Next]_vars PROVE TableInv'
  OBVIOUS
<1>1. ASSUME NEW r \in Requests, Arrive(r) \/ Step(r) \/ Crash(r) \/ LoseCommit(r)
      PROVE  TableInv'
  <2>1. Others(r) BY <1>1, OthersStay DEF Others, Still
  <2> QED BY <1>1, <2>1, ArriveTable, StepTable
<1>2. CASE UNCHANGED <<db, work, lock, pc, job, verdict, signed>>
  BY <1>2
     DEF TableInv, Clean, LoginInv, LogsIn, MySession, SessionInv, EntryInv, EraseInv, NoteInv,
         Making, Deleting, Made, Me, From
<1>3. (\E b \in Browsers : Forget(b)) \/ UNCHANGED vars
         => UNCHANGED <<db, work, lock, pc, job, verdict, signed>>
  BY DEF Forget, NoSql, vars, browser
<1> QED BY <1>1, <1>2, <1>3 DEF Next

LEMMA TableStart == Init => TableInv
<1> SUFFICES ASSUME Init PROVE TableInv OBVIOUS
<1> USE Rows, AbsentAssumption
<1>0. /\ \A r \in Requests : pc[r] = "idle"
      /\ work = db /\ \A row \in Row, q \in Requests : lock[row] # q
  BY DEF Init, Names
<1>1. PICK note \in Users :
        db = [row \in Row |-> IF row = NoteRow(Earlier) THEN note
                             ELSE IF row \in {SessionRow(b) : b \in signed} THEN "stale"
                             ELSE NoRow]
  BY DEF Init
<1>2. ASSUME NEW b \in Browsers PROVE SessionInv(b)
  <2>1. SessionRow(b) # NoteRow(Earlier) /\ signed \subseteq Browsers
    BY DEF Names, Init
  <2>2. db[SessionRow(b)] = IF b \in signed THEN "stale" ELSE NoRow
    BY <1>1, <2>1
  <2>3. "stale" # NoRow BY DEF Session
  <2> QED BY <1>0, <2>2, <2>3 DEF SessionInv
<1>3. ASSUME NEW n \in Names PROVE NoteInv(n)
  <2>1. n # Earlier => NoteRow(n) # NoteRow(Earlier) /\ NoteRow(n) \notin {SessionRow(b) : b \in signed}
    BY DEF Names, Init
  <2>2. n # Earlier => db[NoteRow(n)] = NoRow
    BY <1>1, <2>1
  <2> QED BY <1>0, <2>2 DEF NoteInv
<1>4. ASSUME NEW r \in Requests PROVE LoginInv(r) /\ EntryInv(r) /\ EraseInv(r)
  BY <1>0 DEF LoginInv, LogsIn, EntryInv, EraseInv
<1> QED BY <1>0, <1>2, <1>3, <1>4 DEF TableInv, Clean

-----------------------------------------------------------------------------
(* Third, the CSRF cookie, of a browser whose cookie never ran out, whose  *)
(* first visits did not overlap and did not crash: every page it has open  *)
(* and every request on its way carry the token of the cookie it holds,    *)
(* and while it holds none, at most one request of its is on the way.      *)
Alone(r) ==
  \A q \in Requests : pc[q] # "idle" /\ From(q) = From(r) /\ Unanswered(q) => q = r

Regular(b) ==
  /\ pages[b] \subseteq {jar[b]}
  /\ \A r \in Requests : pc[r] # "idle" /\ From(r) = b =>
       /\ verdict[r] # "csrf"
       /\ Unanswered(r) => job[r].cookie = jar[b] /\ (jar[b] = NoToken => Alone(r))

CookieInv == \A b \in Browsers \ excused : Regular(b)

(* A step that gives the browser of r nothing new, and does not refuse it. *)
LEMMA QuietCookie ==
  ASSUME Types, RequestInv, CookieInv, NEW r \in Requests, Others(r), pc[r] # "idle",
         UNCHANGED <<jar, pages, excused>>, job'[r] = job[r],
         verdict'[r] # "csrf" \/ verdict'[r] = verdict[r],
         pc'[r] # "idle", Unanswered(r)' => Unanswered(r)
  PROVE  CookieInv'
<1> SUFFICES ASSUME NEW b \in Browsers \ excused PROVE Regular(b)'
  BY DEF CookieInv
<1>1. Regular(b) BY DEF CookieInv
<1>2. \A q \in Requests : /\ job'[q] = job[q] /\ From(q)' = From(q)
                          /\ pc'[q] # "idle" <=> pc[q] # "idle"
                          /\ Unanswered(q)' => Unanswered(q)
                          /\ verdict'[q] = "csrf" => verdict[q] = "csrf"
  BY DEF Others, From, Unanswered
<1> QED BY <1>1, <1>2 DEF Regular, Alone

(* A response: a cookie if there was none, and perhaps a page.             *)
LEMMA RespondCookie ==
  ASSUME Types, RequestInv, CookieInv, NEW r \in Requests, Others(r), pc[r] # "idle",
         Unanswered(r), NEW outcome, Respond(r, outcome), job'[r] = job[r],
         outcome # "csrf" \/ verdict[r] = outcome,
         pc'[r] # "idle", ~ Unanswered(r)'
  PROVE  CookieInv'
<1> DEFINE b == From(r)
<1>1. b \in Browsers /\ job[r] \in Jobs /\ jar[b] \in Tokens /\ pages[b] \subseteq Names
  BY JobFacts DEF Types, BrowserTypes
<1>2. \A q \in Requests : /\ job'[q] = job[q] /\ From(q)' = From(q)
                          /\ pc'[q] # "idle" <=> pc[q] # "idle"
                          /\ Unanswered(q)' <=> (Unanswered(q) /\ q # r)
  BY DEF Others, From, Unanswered
<1>3. /\ verdict'[r] = outcome
      /\ \A q \in Requests \ {r} : verdict'[q] = verdict[q]
      /\ excused \subseteq excused'
      /\ outcome = "crash" /\ job[r].cookie = NoToken => b \in excused'
  BY DEF Respond, Conclude, Types, LocalTypes
<1>4. /\ \A c \in Browsers : c # b => jar'[c] = jar[c] /\ pages'[c] = pages[c]
      /\ jar'[b] = IF SetsCookie(r, outcome) THEN r ELSE jar[b]
      /\ pages'[b] \subseteq pages[b] \cup {Token(r)}
  BY <1>1 DEF Respond, Types, BrowserTypes
<1> SUFFICES ASSUME NEW c \in Browsers, c \notin excused' PROVE Regular(c)'
  BY DEF CookieInv
<1>5. Regular(c) BY <1>3 DEF CookieInv
<1>6. CASE c # b
  <2>1. \A q \in Requests : From(q) = c => verdict'[q] = verdict[q] BY <1>3, <1>6
  <2> QED BY <1>2, <1>4, <1>5, <1>6, <2>1 DEF Regular, Alone
<1>7. CASE c = b
  <2>1. job[r].cookie = jar[b] /\ (jar[b] = NoToken => Alone(r)) /\ verdict[r] # "csrf"
    BY <1>5, <1>7 DEF Regular
  <2>2. outcome # "csrf" BY <2>1
  <2>3. CASE jar[b] = NoToken
    <3>1. jar'[b] = r /\ Token(r) = r
      BY <1>3, <1>4, <1>7, <2>1, <2>3 DEF SetsCookie, Token
    <3>2. pages[b] = {}
      BY <1>1, <1>5, <1>7, <2>3, AbsentAssumption DEF Regular, NoToken
    <3>3. \A q \in Requests : pc[q] # "idle" /\ From(q) = b => ~ Unanswered(q)'
      BY <1>2, <2>1, <2>3 DEF Alone
    <3> QED BY <1>2, <1>3, <1>4, <1>5, <1>7, <2>2, <3>1, <3>2, <3>3 DEF Regular
  <2>4. CASE jar[b] # NoToken
    <3>1. jar'[b] = jar[b] /\ Token(r) = jar[b]
      BY <1>4, <2>1, <2>4 DEF SetsCookie, Token
    <3> QED BY <1>2, <1>3, <1>4, <1>5, <1>7, <2>2, <2>4, <3>1 DEF Regular
  <2> QED BY <2>3, <2>4
<1> QED BY <1>6, <1>7

LEMMA ArriveCookie ==
  ASSUME Types, RequestInv, CookieInv, NEW r \in Requests, Others(r), Arrive(r)
  PROVE  CookieInv'
<1>1. PICK b \in Browsers, op \in Ops, note \in Names, form \in Tokens :
             form \in pages[b] \cup {NoToken} /\ Arrival(r, b, op, note, form)
  BY ArriveFacts
<1>2. /\ pc[r] = "idle" /\ UNCHANGED <<jar, pages>> /\ verdict[r] = "none"
      /\ From(r)' = b /\ job'[r].cookie = jar[b]
  BY <1>1 DEF Arrive, Arrival, From, Types, LocalTypes, RequestInv, Script, Before
<1>3. \A q \in Requests \ {r} : /\ job'[q] = job[q] /\ From(q)' = From(q) /\ pc'[q] = pc[q]
                                /\ verdict'[q] = verdict[q]
                                /\ Unanswered(q)' <=> Unanswered(q)
  BY DEF Others, From, Unanswered
<1>4. excused \subseteq excused'
  BY <1>1 DEF Arrival
<1> SUFFICES ASSUME NEW c \in Browsers, c \notin excused' PROVE Regular(c)'
  BY DEF CookieInv
<1>5. Regular(c) BY <1>4 DEF CookieInv
<1>6. CASE c # b
  BY <1>2, <1>3, <1>5, <1>6 DEF Regular, Alone
<1>7. CASE c = b
  <2>1. PassesGuard(op, jar[b], form)
    <3>1. form # NoToken => form = jar[b] BY <1>1, <1>5, <1>7 DEF Regular
    <3>2. form = NoToken => op \in Safe BY <1>1 DEF Arrival
    <3> QED BY <3>1, <3>2 DEF PassesGuard
  <2>2. verdict'[r] = "none"
    BY <1>1, <1>2, <2>1 DEF Arrival
  <2>3. \A q \in Requests \ {r} : pc[q] # "idle" /\ From(q) = b /\ Unanswered(q) => jar[b] # NoToken
    <3>1. SUFFICES ASSUME NEW q \in Requests \ {r}, pc[q] # "idle", From(q) = b, Unanswered(q),
                          jar[b] = NoToken
                   PROVE  b \in excused'
      BY <1>7
    <3>2. job[q].cookie = NoToken BY <1>5, <1>7, <3>1 DEF Regular
    <3>3. q \in Siblings(b) BY <3>1 DEF Siblings
    <3>4. excused' = excused \cup {b}
      BY <1>1, <3>1, <3>2, <3>3 DEF Arrival
    <3> QED BY <3>4
  <2> QED BY <1>2, <1>3, <1>5, <1>7, <2>2, <2>3 DEF Regular, Alone
<1> QED BY <1>6, <1>7

LEMMA StepCookie ==
  ASSUME Types, RequestInv, RequestInv', CookieInv, NEW r \in Requests, Others(r),
         Step(r) \/ Crash(r) \/ LoseCommit(r)
  PROVE  CookieInv'
<1> USE DEF Sql
<1>0. /\ \A step : Goto(r, step) => pc'[r] = step
      /\ \A outcome : Conclude(r, outcome) => verdict'[r] = outcome
      /\ pc[r] \in Steps /\ pc'[r] \in Steps /\ Script(r) /\ Holds(r)
  <2>1. pc'[r] \in Steps
    BY NextTypes DEF Next, Types, LocalTypes
  <2> QED BY <2>1 DEF Types, LocalTypes, Goto, Conclude, RequestInv
<1> HIDE DEF Sql
<1>1. ASSUME NEW outcome \in Failures \ {"csrf"}, Raise(r, outcome),
             pc[r] \in Sql \cup {"anonymous", "answer"}, UNCHANGED <<job, tried, browser>>
      PROVE  CookieInv'
  <2>1. pc'[r] = "error" /\ verdict'[r] = outcome /\ UNCHANGED <<jar, pages, excused>>
    BY <1>0, <1>1 DEF Raise, Leave, browser
  <2>2. Unanswered(r) /\ pc[r] # "idle"
    BY <1>1 DEF Unanswered, Sql, Over
  <2> QED BY <1>1, <2>1, <2>2, QuietCookie
<1>2. ASSUME NEW outcome \in {"ok", "invalid"}, Return(r, outcome), UNCHANGED job,
             pc[r] \in {"answer", "select", "open", "insert", "erase"}
      PROVE  CookieInv'
  <2>1. pc'[r] \in {"track", "told", "done"} /\ Respond(r, outcome)
    BY <1>2, ReturnFacts DEF Return
  <2>2. Unanswered(r) /\ pc[r] # "idle" /\ ~ Unanswered(r)' /\ pc'[r] # "idle"
    BY <1>2, <2>1 DEF Unanswered, Over
  <2> QED BY <1>2, <2>1, <2>2, RespondCookie
<1>3. ASSUME UNCHANGED <<jar, pages, excused, job, verdict>>, pc[r] # "idle", pc'[r] # "idle",
             Unanswered(r)' => Unanswered(r)
      PROVE  CookieInv'
  BY <1>3, QuietCookie
<1>4. CASE Enter(r) \/ TakeConnection(r) \/ LoadSession(r) \/ TouchSession(r) \/ Track(r)
           \/ Commit(r) \/ LoseCommit(r)
  <2>1. UNCHANGED <<jar, pages, excused, job, verdict>>
    BY <1>4
       DEF Enter, TakeConnection, LoadSession, TouchSession, Track, Commit, LoseCommit, browser
  <2>2. pc[r] # "idle" /\ pc'[r] # "idle"
    <3>1. pc[r] # "idle"
      BY <1>4
         DEF Enter, TakeConnection, LoadSession, TouchSession, Track, Commit, LoseCommit, Runs,
             Queues, Sql
    <3>2. job[r] \in Jobs /\ job'[r] = job[r] BY <1>0, <2>1, <3>1 DEF Script
    <3>3. NoJob \notin Jobs BY DEF NoJob, Jobs, Ops, Safe
    <3>4. Script(r)' BY DEF RequestInv
    <3> QED BY <3>1, <3>2, <3>3, <3>4 DEF Script
  <2>3. pc[r] \in {"track", "send", "told"} => pc'[r] \in {"send", "told", "done", "lost"}
    <3>1. CASE Enter(r)
      BY <1>0, <3>1 DEF Enter, Queues
    <3>2. CASE Track(r)
      BY <1>0, <3>2 DEF Track, Runs, Leave
    <3>3. CASE Commit(r) \/ LoseCommit(r)
      BY <1>0, <3>3 DEF Commit, LoseCommit, EndTx
    <3>4. CASE TakeConnection(r) \/ LoadSession(r) \/ TouchSession(r)
      BY <3>4 DEF TakeConnection, LoadSession, TouchSession, Runs, Sql
    <3> QED BY <1>4, <3>1, <3>2, <3>3, <3>4
  <2>4. pc[r] \notin Over
    BY <1>4
       DEF Enter, TakeConnection, LoadSession, TouchSession, Track, Commit, LoseCommit, Runs,
           Queues, Sql, Over
  <2>5. Unanswered(r)' => Unanswered(r)
    BY <2>3, <2>4 DEF Unanswered, Over
  <2> QED BY <1>3, <2>1, <2>2, <2>5
<1>5. CASE PoolTimeout(r)
  BY <1>1, <1>5 DEF PoolTimeout, Failures
<1>6. CASE Anonymous(r)
  <2>1. pc[r] = "anonymous" /\ UNCHANGED <<job, tried, browser>>
    BY <1>6 DEF Anonymous, Runs
  <2>2. CASE Raise(r, "login")
    BY <1>1, <2>1, <2>2 DEF Failures
  <2>3. CASE Leave(r, "handle") /\ UNCHANGED verdict
    <3>1. pc'[r] = "handle" BY <1>0, <2>3 DEF Leave
    <3> QED BY <1>3, <2>1, <2>3, <3>1 DEF Unanswered, Over, browser
  <2> QED BY <1>6, <2>2, <2>3 DEF Anonymous
<1>7. CASE AnswerAtOnce(r) \/ ListNotes(r)
  BY <1>2, <1>7 DEF AnswerAtOnce, ListNotes, Runs
<1>8. CASE OpenSession(r) \/ CreateNote(r)
  <2>1. Return(r, "ok") \/ Return(r, "invalid")
    BY <1>8 DEF OpenSession, CreateNote, Write
  <2>2. pc[r] \in {"open", "insert"} /\ UNCHANGED job
    BY <1>8 DEF OpenSession, CreateNote, Write, Runs
  <2> QED BY <1>2, <2>1, <2>2
<1>9. CASE EraseNote(r)
  BY <1>2, <1>9 DEF EraseNote, Runs
<1>10. CASE FindNote(r)
  <2>1. pc[r] = "find" /\ UNCHANGED <<job, tried, browser>>
    BY <1>10 DEF FindNote, Runs
  <2>2. CASE Raise(r, IF PG!Visible(r, NoteRow(job[r].note)) = NoRow
                        THEN "missing" ELSE "forbidden")
    BY <1>1, <2>1, <2>2 DEF Failures, Sql
  <2>3. CASE Goto(r, "erase") /\ UNCHANGED verdict
    <3>1. pc'[r] = "erase" BY <1>0, <2>3
    <3> QED BY <1>3, <2>1, <2>3, <3>1 DEF Unanswered, Over, browser
  <2> QED BY <1>10, <2>2, <2>3 DEF FindNote
<1>11. CASE RenderError(r)
  <2>1. pc[r] = "render" /\ pc'[r] = "failed" /\ UNCHANGED job /\ Respond(r, verdict[r])
    BY <1>0, <1>11 DEF RenderError, Runs, Leave
  <2>2. Unanswered(r) /\ ~ Unanswered(r)'
    BY <2>1 DEF Unanswered, Over
  <2> QED BY <2>1, <2>2, RespondCookie
<1>12. CASE Crash(r)
  <2>1. pc[r] \in {"anonymous", "answer"} \cup Sql
    BY <1>0, <1>12 DEF Crash, Holds, Steps, Queues, Over
  <2> QED BY <1>1, <1>12, <2>1 DEF Crash, Failures
<1> QED
  BY <1>4, <1>5, <1>6, <1>7, <1>8, <1>9, <1>10, <1>11, <1>12 DEF Step

LEMMA CookieStep == Types /\ RequestInv /\ RequestInv' /\ CookieInv /\ [Next]_vars => CookieInv'
<1> SUFFICES ASSUME Types, RequestInv, RequestInv', CookieInv, [Next]_vars PROVE CookieInv'
  OBVIOUS
<1>1. ASSUME NEW r \in Requests, Arrive(r) \/ Step(r) \/ Crash(r) \/ LoseCommit(r)
      PROVE  CookieInv'
  <2>1. Others(r) BY <1>1, OthersStay DEF Others, Still
  <2> QED BY <1>1, <2>1, ArriveCookie, StepCookie
<1>2. ASSUME NEW b \in Browsers, Forget(b) PROVE CookieInv'
  <2>1. /\ excused' = excused \cup {b} /\ UNCHANGED <<pc, job, verdict, pages>>
        /\ \A c \in Browsers \ {b} : jar'[c] = jar[c]
    BY <1>2 DEF Forget, Types, BrowserTypes
  <2> QED BY <2>1 DEF CookieInv, Regular, Alone, Unanswered, From
<1>3. CASE UNCHANGED vars
  BY <1>3 DEF vars, browser, CookieInv, Regular, Alone, Unanswered, From
<1> QED BY <1>1, <1>2, <1>3 DEF Next

LEMMA CookieStart == Init => CookieInv
BY DEF Init, CookieInv, Regular

-----------------------------------------------------------------------------
(***************************************************************************)
(* The theorems.                                                           *)
(***************************************************************************)
Inv == Types /\ RequestInv /\ TableInv /\ CookieInv

LEMMA InvStart == Init => Inv
BY InitTypes, RequestStart, TableStart, CookieStart DEF Inv

LEMMA InvStep == Inv /\ [Next]_vars => Inv'
BY NextTypes, RequestStep, TableStep, CookieStep DEF Inv

(* The invariant holds of every behaviour.                                 *)
THEOREM Invariant == Spec => []Inv
BY InvStart, InvStep, PTL DEF Spec

(* Type correctness: the process never has more than Threads worker        *)
(* threads or Pool connections in use, whatever the load (anyio's limiter, *)
(* app/db.py's engine).                                                    *)
THEOREM TypeCorrect == Spec => []TypeOK
<1>1. Inv => TypeOK BY TypesImplyTypeOK DEF Inv
<1> QED BY <1>1, Invariant, PTL

(* get_db and the error handlers: a row lock is held through a connection, *)
(* nobody holds a connection while an error page waits or is rendered, and *)
(* a request that is over has given back its thread and its connection.    *)
THEOREM EverythingIsGivenBack == Spec => []NothingKept
<1>1. Inv => NothingKept
  <2>1. SUFFICES ASSUME Inv PROVE NothingKept OBVIOUS
  <2>2. \A row \in Row : lock[row] # Nobody => lock[row] \in conn
    BY <2>1 DEF Inv, Types, StoreTypes, RequestInv, Holds
  <2>3. \A r \in conn : pc[r] \notin {"idle", "error", "render"} \cup Over
    BY <2>1 DEF Inv, Types, PoolTypes, RequestInv, Holds
  <2>4. \A r \in thread : pc[r] \notin {"idle", "told"} \cup Queues \cup Over
    BY <2>1 DEF Inv, Types, ThreadTypes, RequestInv, Holds
  <2> QED BY <2>2, <2>3, <2>4 DEF NothingKept
<1> QED BY <1>1, Invariant, PTL

(* ADR-0011: analytics are called with consent only, every destination is  *)
(* called whatever the others do, and only the commit can undo a login     *)
(* that was answered.                                                      *)
THEOREM TrackingIsHarmless == Spec => []AnalyticsIsHarmless
<1>1. Inv => AnalyticsIsHarmless
  BY DEF Inv, RequestInv, Script, Tracked, AnalyticsIsHarmless, Made, Over, Failures
<1> QED BY <1>1, Invariant, PTL

(* get_db: what a request wrote counts when its commit went through, and   *)
(* not when it failed, was refused or lost its commit.                     *)
THEOREM WritesOfTheDoneOnly == Spec => []OnlyTheDoneCounts
<1>1. Inv => OnlyTheDoneCounts
  <2>1. SUFFICES ASSUME Inv, NEW r \in Requests,
                        pc[r] \in {"failed", "lost"} \/ verdict[r] = "invalid"
                 PROVE  /\ db[NoteRow(r)] = NoRow
                        /\ job[r].op = "login" => db[SessionRow(From(r))] = NoRow
    BY DEF OnlyTheDoneCounts
  <2>2. r \in Names /\ r # Earlier BY AbsentAssumption DEF Names
  <2>3. pc[r] # "idle" /\ ~ (verdict[r] = "ok" /\ pc[r] = "done")
    BY <2>1 DEF Inv, RequestInv, Script, Before, Failures
  <2>4. db[NoteRow(r)] = NoRow
    BY <2>1, <2>2, <2>3 DEF Inv, TableInv, NoteInv, Made
  <2>5. job[r].op = "login" => db[SessionRow(From(r))] = NoRow
    BY <2>1, <2>3 DEF Inv, TableInv, LoginInv, LogsIn, MySession
  <2> QED BY <2>4, <2>5
<1> QED BY <1>1, Invariant, PTL

(* get_current_user: who was told to be logged in is let in, unless the    *)
(* request was sent before that login had committed.                       *)
THEOREM LoggedInIsLetIn == Spec => []SignedIsLetIn
<1>1. Inv => SignedIsLetIn
  <2>1. SUFFICES ASSUME Inv, NEW r \in Requests, verdict[r] = "login", job[r].signed
                 PROVE  job[r].early
    BY DEF SignedIsLetIn
  <2>2. pc[r] # "idle" BY <2>1 DEF Inv, RequestInv, Script, Before
  <2>3. job[r].early \in BOOLEAN BY <2>1, <2>2, JobFacts DEF Inv
  <2> QED BY <2>1, <2>2, <2>3 DEF Inv, TableInv, EntryInv
<1> QED BY <1>1, Invariant, PTL

(* csrf_guard: a form is refused only in a browser whose cookie ran out,   *)
(* whose first visits overlapped, or whose first visit crashed.            *)
THEOREM NobodyElseIsRefused == Spec => []RefusedForAReason
<1>1. Inv => RefusedForAReason
  <2>1. SUFFICES ASSUME Inv, NEW r \in Requests, verdict[r] = "csrf" PROVE From(r) \in excused
    BY DEF RefusedForAReason
  <2>2. pc[r] # "idle" BY <2>1 DEF Inv, RequestInv, Script, Before
  <2>3. From(r) \in Browsers BY <2>1, <2>2, JobFacts DEF Inv
  <2> QED BY <2>1, <2>2, <2>3 DEF Inv, CookieInv, Regular
<1> QED BY <1>1, Invariant, PTL

(* NoteService.delete_owned: a note disappears when a deletion by its      *)
(* owner commits, and in no other way.                                     *)
THEOREM OnlyTheOwnerDeletes == Spec => NotesLeaveByOwner
<1>1. Inv /\ [Next]_vars =>
        [\A row \in NoteRows : db[row] # NoRow /\ db'[row] # db[row] =>
           \E r \in Requests : /\ pc[r] = "told" /\ pc'[r] = "done" /\ Made(r, "delete")
                              /\ NoteRow(job[r].note) = row /\ Me(r) = db[row]]_vars
  <2>1. SUFFICES ASSUME Inv, Next, NEW row \in NoteRows, db[row] # NoRow, db'[row] # db[row]
                 PROVE  \E r \in Requests : /\ pc[r] = "told" /\ pc'[r] = "done"
                                            /\ Made(r, "delete")
                                            /\ NoteRow(job[r].note) = row /\ Me(r) = db[row]
    OBVIOUS
  <2>2. PICK r \in Requests : Commit(r)
    <3>1. \A r \in Requests :
            Arrive(r) \/ Crash(r) \/ LoseCommit(r) \/ (Step(r) /\ ~ Commit(r)) => db' = db
      BY DEF Arrive, Crash, LoseCommit, Step, Enter, TakeConnection, PoolTimeout, LoadSession,
             TouchSession, Anonymous, AnswerAtOnce, ListNotes, OpenSession, CreateNote, FindNote,
             EraseNote, RenderError, Track, Write, Raise, NoSql, PG!Store, PG!RollbackTx
    <3>2. \A b \in Browsers : Forget(b) => db' = db BY DEF Forget, NoSql
    <3> QED BY <2>1, <3>1, <3>2 DEF Next
  <2>3. PICK n \in Names : row = NoteRow(n) BY RowFacts
  <2>4. lock[row] = r /\ NoteInv(n) /\ row \in Row
    BY <2>1, <2>2, <2>3, Rows DEF Commit, PG!CommitTx, Inv, TableInv, Types, StoreTypes
  <2>5. pc[r] = "told" /\ pc'[r] = "done"
    BY <2>1, <2>2 DEF Commit, EndTx, Goto, Inv, Types, LocalTypes
  <2>6. ~ Making(r, n)
    BY <2>1, <2>3, <2>4, <2>5, AbsentAssumption DEF NoteInv, Making
  <2>7. Deleting(r, n) /\ db[row] = Me(r)
    BY <2>3, <2>4, <2>6 DEF NoteInv
  <2> QED BY <2>3, <2>5, <2>7 DEF Deleting
<1> QED BY <1>1, Invariant, PTL DEF Spec, NotesLeaveByOwner
=============================================================================
