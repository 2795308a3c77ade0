------------------------------- MODULE Server -------------------------------
(***************************************************************************)
(* The life of a request in the application: the CSRF cookie and its check *)
(* (app/middleware/csrf.py), the dependencies (app/deps.py, app/db.py), a  *)
(* handler (app/routers/notes.py and the other routers), the error pages   *)
(* (app/main.py), the response, the analytics that follow it and the       *)
(* commit that comes last.                                                 *)
(*                                                                         *)
(* The application itself runs on one event loop, but everything declared  *)
(* with a plain `def` - dependencies, handlers, error handlers, background *)
(* tasks - takes a worker thread for as long as it runs, and a thread that *)
(* waits for a connection or for a row stays taken. A request takes a      *)
(* connection with its first SQL statement and keeps it to its end.        *)
(***************************************************************************)
EXTENDS Naturals, FiniteSets

CONSTANTS
  Requests,      \* the HTTP requests of a behaviour; bounds the model
  Browsers,
  Users,
  User,          \* the account each browser logs in to
  Destinations,  \* the analytics services that are configured
  Workload,      \* what each request may be, and from which browsers
  Faulty,        \* the requests whose handler or commit may fail
  Forgetful,     \* the browsers whose CSRF cookie may run out
  Threads,       \* worker threads of the process
  Pool,          \* pool_size + max_overflow of the engine
  Earlier,       \* a note, and a page, of before
  NoRow, Nobody

Safe == {"health", "home", "list"}                      \* GET
Ops  == Safe \cup {"consent", "login", "create", "delete"}

NeedsDb   == {"home", "list", "login", "create", "delete"}
NeedsUser == {"list", "create", "delete"}               \* CurrentUser
WantsUser == NeedsUser \cup {"home"}                    \* OptionalUser

(* Notes and CSRF tokens are named by the request that made them.          *)
Names         == Requests \cup {Earlier}
SessionRow(b) == <<"session", b>>
NoteRow(n)    == <<"note", n>>
SessionRows   == {"session"} \X Browsers
NoteRows      == {"note"} \X Names
Row           == SessionRows \cup NoteRows

(* A session is stale when its last_seen_at is due for a refresh.          *)
Session == {"stale", "fresh"}

ASSUME WorkloadAssumption ==
  /\ Workload \in [Requests -> [ops : SUBSET Ops, browsers : SUBSET Browsers]]
  /\ User \in [Browsers -> Users]
ASSUME BoundsAssumption == Faulty \subseteq Requests /\ Forgetful \subseteq Browsers
ASSUME AbsentAssumption ==
  /\ NoRow \notin Users \cup Session 
  /\ Nobody \notin Names /\ Earlier \notin Requests

(* 40 threads (anyio's limiter) and 15 connections. Were there more        *)
(* connections than threads, every thread could wait for a row while the   *)
(* request that holds it waits for a thread.                               *)
ASSUME PoolAssumption == Threads \in Nat /\ Pool \in 1..Threads

VARIABLES
  db, work, lock,   \* the sessions and the notes
  pc, job, verdict,
  thread,           \* the requests that occupy a worker thread
  conn,             \* the requests that hold a connection
  tried,            \* the analytics destinations each request has called
  jar,              \* the CSRF cookie of each browser: who minted it
  pages,            \* the CSRF tokens in the pages it has open
  signed,           \* the browsers that hold a session cookie
  agreed,           \* the browsers that accepted marketing cookies
  excused           \* observation: browsers whose forms may be refused

store == <<db, work, lock>>
browser == <<jar, pages, signed, agreed, excused>>
vars == <<db, work, lock, pc, job, verdict, thread, conn, tried, browser>>

PG == INSTANCE ReadCommitted WITH Tx <- Requests

Queues == {"depend", "handle", "error", "track"}        \* waiting for a thread
Sql    == {"load", "touch", "open", "select", "insert", "find", "erase"}
Over   == {"done", "failed", "lost"}
Steps  == {"idle", "anonymous", "answer", "render", "send", "told"}
          \cup Queues \cup Sql \cup Over

(* "invalid": the form did not validate. The rest are exceptions: nobody is *)
(* logged in, not theirs, not there, no valid token, and anything else.    *)
Failures == {"login", "forbidden", "missing", "csrf", "crash"}
Outcomes == {"none", "ok", "invalid"} \cup Failures

NoToken == Nobody
NoJob   == [op |-> "none"]
Tokens  == Names \cup {NoToken}
Jobs    == [op : Ops, browser : Browsers, cookie : Tokens, form : Tokens, note : Names,
            signed : BOOLEAN, agreed : BOOLEAN, early : BOOLEAN]

From(r) == job[r].browser
Me(r)   == User[From(r)]

(* CsrfCookieMiddleware: the token every page of this response carries.    *)
Token(r) == IF job[r].cookie = NoToken THEN r ELSE job[r].cookie

TypeOK ==
  /\ \A rows \in {db, work} :
       /\ rows \in [Row -> Users \cup Session \cup {NoRow}]
       /\ \A row \in SessionRows : rows[row] \in Session \cup {NoRow}
       /\ \A row \in NoteRows : rows[row] \in Users \cup {NoRow}
  /\ lock \in [Row -> Requests \cup {Nobody}]
  /\ pc \in [Requests -> Steps]
  /\ job \in [Requests -> Jobs \cup {NoJob}]
  /\ verdict \in [Requests -> Outcomes]
  /\ thread \subseteq Requests /\ Cardinality(thread) <= Threads
  /\ conn \subseteq Requests /\ Cardinality(conn) <= Pool
  /\ tried \in [Requests -> SUBSET Destinations]
  /\ jar \in [Browsers -> Tokens]
  /\ pages \in [Browsers -> SUBSET Names]
  /\ {signed, agreed, excused} \subseteq SUBSET Browsers

(* Some browsers have been here before, and accepted the cookies; some are *)
(* logged in, with a session due for a refresh. There is a note.           *)
Init ==
  /\ signed \in SUBSET Browsers
  /\ \E note \in Users :
       db = [row \in Row |-> IF row = NoteRow(Earlier) THEN note
                             ELSE IF row \in {SessionRow(b) : b \in signed} THEN "stale"
                             ELSE NoRow]
  /\ work = db /\ lock = [row \in Row |-> Nobody]
  /\ pc = [r \in Requests |-> "idle"]
  /\ job = [r \in Requests |-> NoJob]
  /\ verdict = [r \in Requests |-> "none"]
  /\ thread = {} /\ conn = {}
  /\ tried = [r \in Requests |-> {}]
  /\ \E known \in {{}, Browsers} :
       /\ jar = [b \in Browsers |-> IF b \in known THEN Earlier ELSE NoToken]
       /\ pages = [b \in Browsers |-> IF b \in known THEN {Earlier} ELSE {}]
  /\ agreed = {b \in Browsers : jar[b] # NoToken}
  /\ excused = {}

Goto(r, step) == pc' = [pc EXCEPT ![r] = step]
Conclude(r, outcome) == verdict' = [verdict EXCEPT ![r] = outcome]
NoSql == UNCHANGED <<db, work, lock>>

(***************************************************************************)
(* A request arrives, with the cookies its browser holds at that moment.   *)
(* A form is posted from a page, and a note is named by a link to it. The  *)
(* guard looks at nothing else, and its refusal is an error page.          *)
(***************************************************************************)
(* csrf_guard, a dependency of every route, runs on the event loop.        *)
PassesGuard(op, cookie, form) == op \in Safe \/ (cookie # NoToken /\ form = cookie)

(* has_marketing_consent *)
HasConsent(b) == b \in agreed

Unanswered(r) == pc[r] \notin {"track", "send", "told"} \cup Over
Made(r, op)   == job[r].op = op /\ verdict[r] = "ok"

Siblings(b) == {q \in Requests : pc[q] # "idle" /\ From(q) = b}

Arrival(r, b, op, note, form) ==
  /\ op \in Safe <=> form = NoToken
  /\ op = "login" => b \notin signed /\ \A q \in Siblings(b) : job[q].op # "login"
  /\ IF op = "delete"
       THEN note = Earlier \/ \E q \in Requests : q = note /\ Made(q, "create")
       ELSE note = r
  /\ job' = [job EXCEPT ![r] =
       [op |-> op, browser |-> b, cookie |-> jar[b], form |-> form, note |-> note,
        signed |-> b \in signed, agreed |-> HasConsent(b),
        early |-> \E q \in Siblings(b) : Made(q, "login") /\ pc[q] # "done"]]
  /\ excused' = IF \E q \in Siblings(b) : Unanswered(q) /\ {jar[b], job[q].cookie} = {NoToken}
                  THEN excused \cup {b} ELSE excused
  /\ IF PassesGuard(op, jar[b], form)
       THEN Goto(r, IF op \in WantsUser THEN "depend" ELSE "handle") /\ UNCHANGED verdict
       ELSE Goto(r, "error") /\ Conclude(r, "csrf")

Arrive(r) ==
  /\ pc[r] = "idle"
  /\ \E b \in Workload[r].browsers, op \in Workload[r].ops, note \in Names :
     \E form \in pages[b] \cup {NoToken} : Arrival(r, b, op, note, form)
  /\ NoSql /\ UNCHANGED <<thread, conn, tried, jar, pages, signed, agreed>>

(***************************************************************************)
(* Worker threads.                                                         *)
(***************************************************************************)
Handler == [health |-> "answer", home |-> "answer", consent |-> "answer", list |-> "select",
            login |-> "open", create |-> "insert", delete |-> "find"]

Enter(r) ==
  /\ pc[r] \in Queues
  /\ Cardinality(thread) < Threads
  /\ thread' = thread \cup {r}
  /\ Goto(r, CASE pc[r] = "depend" -> IF job[r].signed THEN "load" ELSE "anonymous"
                [] pc[r] = "handle" -> Handler[job[r].op]
                [] pc[r] = "error"  -> "render"
                [] pc[r] = "track"  -> "send")
  /\ NoSql /\ UNCHANGED <<job, verdict, conn, tried, browser>>

Leave(r, step) ==
  /\ thread' = thread \ {r}
  /\ Goto(r, step)

(* Redirects, fragments and the probe carry no page, and so no token.      *)
HasPage(r, outcome) ==
  \/ outcome \notin {"ok", "login"}
  \/ outcome = "ok" /\ job[r].op \in {"home", "list"}

(* The page of a crash is made outside the middleware: it carries a token, *)
(* but the cookie is not set.                                              *)
(* Mutant: every response sets the token it minted. *)
SetsNewCookie(r, outcome) == outcome # "crash"

SetsCookie(r, outcome) == job[r].cookie = NoToken /\ outcome # "crash"

(* set_consent: accepted or rejected.                                      *)
Decisions(b) == {agreed \cup {b}, agreed \ {b}}

(* The browser has the response.                                           *)
Respond(r, outcome) ==
  LET b == From(r)
      granted(op) == job[r].op = op /\ outcome = "ok"
  IN  /\ Conclude(r, outcome)
      /\ jar' = IF SetsCookie(r, outcome) THEN [jar EXCEPT ![b] = r] ELSE jar
      /\ pages' = IF HasPage(r, outcome) THEN [pages EXCEPT ![b] = @ \cup {Token(r)}] ELSE pages
      /\ signed' = IF granted("login") THEN signed \cup {b} ELSE signed
      /\ agreed' \in IF granted("consent") THEN Decisions(b) ELSE {agreed}
      /\ excused' = IF outcome = "crash" /\ job[r].cookie = NoToken
                      THEN excused \cup {b} ELSE excused

(* _track_signal: a background task is added to the response.              *)
Signals(r, outcome) == job[r].op = "login" /\ outcome = "ok" /\ job[r].agreed

(* The handler returns a response, with the session still open.            *)
Return(r, outcome) ==
  /\ Respond(r, outcome)
  /\ Leave(r, IF Signals(r, outcome) THEN "track"
              ELSE IF job[r].op \in NeedsDb THEN "told" ELSE "done")

(* get_db rolls back and closes before the error handlers see the error.   *)
(* Mutant: the session is closed after the error page. *)
RaiseThenClose(r, outcome) ==
  /\ Leave(r, "error") /\ Conclude(r, outcome)
  /\ PG!RollbackTx(r)
  /\ UNCHANGED conn

Raise(r, outcome) ==
  /\ Leave(r, "error") /\ Conclude(r, outcome)
  /\ PG!RollbackTx(r)
  /\ conn' = conn \ {r}

(***************************************************************************)
(* The connection pool: the first statement takes a connection, or waits   *)
(* for one, in its thread, up to pool_timeout.                             *)
(***************************************************************************)
(* Mutant: the pool has no limit. *)
TakeAnyConnection(r) ==
  /\ pc[r] \in Sql /\ r \notin conn
  /\ conn' = conn \cup {r}
  /\ NoSql /\ UNCHANGED <<pc, job, verdict, thread, tried, browser>>

TakeConnection(r) ==
  /\ pc[r] \in Sql /\ r \notin conn
  /\ Cardinality(conn) < Pool
  /\ conn' = conn \cup {r}
  /\ NoSql /\ UNCHANGED <<pc, job, verdict, thread, tried, browser>>

(* Mutant: a statement waits for a connection as long as it takes. *)
NoTimeout(r) == FALSE /\ Raise(r, "crash") /\ UNCHANGED <<job, tried, browser>>

PoolTimeout(r) ==
  /\ pc[r] \in Sql /\ r \notin conn
  /\ Cardinality(conn) = Pool
  /\ Raise(r, "crash")
  /\ UNCHANGED <<job, tried, browser>>

Runs(r, step) == pc[r] = step /\ (step \in Sql => r \in conn)

(***************************************************************************)
(* get_optional_user and require_user. A session seen long ago is stamped, *)
(* which locks its row until the request is over.                          *)
(***************************************************************************)
LoadSession(r) ==
  /\ Runs(r, "load")
  /\ LET session == PG!Visible(r, SessionRow(From(r)))
     IN  CASE session = NoRow   -> Goto(r, "anonymous") /\ UNCHANGED thread
           [] session = "stale" -> Goto(r, "touch") /\ UNCHANGED thread
           [] OTHER             -> Leave(r, "handle")
  /\ NoSql /\ UNCHANGED <<job, verdict, conn, tried, browser>>

TouchSession(r) ==
  /\ Runs(r, "touch")
  /\ PG!Store(r, SessionRow(From(r)), "fresh")
  /\ Leave(r, "handle")
  /\ UNCHANGED <<job, verdict, conn, tried, browser>>

Anonymous(r) ==
  /\ Runs(r, "anonymous")
  /\ \/ /\ job[r].op \in NeedsUser
        /\ Raise(r, "login")
     \/ /\ job[r].op \notin NeedsUser
        /\ Leave(r, "handle")
        /\ NoSql /\ UNCHANGED <<verdict, conn>>
  /\ UNCHANGED <<job, tried, browser>>

(***************************************************************************)
(* The handlers.                                                           *)
(***************************************************************************)
(* health, home, set_consent: nothing but a response.                      *)
AnswerAtOnce(r) ==
  /\ Runs(r, "answer")
  /\ Return(r, "ok")
  /\ NoSql /\ UNCHANGED <<job, conn, tried>>

ListNotes(r) ==
  /\ Runs(r, "select")
  /\ Return(r, "ok")
  /\ NoSql /\ UNCHANGED <<job, conn, tried>>

(* login and create_note, with a form that validates or one that does not. *)
Write(r, step, row, val) ==
  /\ Runs(r, step)
  /\ \/ /\ PG!Store(r, row, val)
        /\ Return(r, "ok")
     \/ /\ Return(r, "invalid")
        /\ NoSql
  /\ UNCHANGED <<job, conn, tried>>

OpenSession(r) == Write(r, "open", SessionRow(From(r)), "fresh")
CreateNote(r)  == Write(r, "insert", NoteRow(r), Me(r))

(* Mutant: whose note it is does not matter. *)
FindAnyNote(r) ==
  /\ Runs(r, "find")
  /\ \/ PG!Visible(r, NoteRow(job[r].note)) = NoRow /\ Raise(r, "missing")
     \/ /\ PG!Visible(r, NoteRow(job[r].note)) # NoRow
        /\ Goto(r, "erase")
        /\ NoSql /\ UNCHANGED <<verdict, thread, conn>>
  /\ UNCHANGED <<job, tried, browser>>

(* delete_owned reads the note first...                                    *)
FindNote(r) ==
  /\ Runs(r, "find")
  /\ LET owner == PG!Visible(r, NoteRow(job[r].note))
     IN  \/ /\ owner # Me(r)
            /\ Raise(r, IF owner = NoRow THEN "missing" ELSE "forbidden")
         \/ /\ owner = Me(r)
            /\ Goto(r, "erase")
            /\ NoSql /\ UNCHANGED <<verdict, thread, conn>>
  /\ UNCHANGED <<job, tried, browser>>

(* ...then deletes it, and does not mind if somebody else just did.        *)
EraseNote(r) ==
  /\ Runs(r, "erase")
  /\ LET row == NoteRow(job[r].note)
     IN  \/ /\ work[row] # NoRow
            /\ PG!Store(r, row, NoRow)
         \/ /\ work[row] = NoRow
            /\ PG!Writable(r, row)
            /\ NoSql
  /\ Return(r, "ok")
  /\ UNCHANGED <<job, conn, tried>>

(* An exception nobody expected, in whatever runs for the request.         *)
Crash(r) ==
  /\ r \in Faulty /\ r \in thread
  /\ pc[r] \notin {"render", "send"}
  /\ Raise(r, "crash")
  /\ UNCHANGED <<job, tried, browser>>

(* The error handlers of main.py.                                          *)
RenderError(r) ==
  /\ Runs(r, "render")
  /\ Leave(r, "failed")
  /\ Respond(r, verdict[r])
  /\ NoSql /\ UNCHANGED <<job, conn, tried>>

(***************************************************************************)
(* What follows the response: the analytics, and the commit.               *)
(***************************************************************************)
EndTx(r, outcome) ==
  /\ Goto(r, outcome)
  /\ conn' = conn \ {r}

(* One destination. What it answers, or that it does not, is swallowed.    *)
Attempt(r, d) ==
  /\ d \notin tried[r]
  /\ tried' = [tried EXCEPT ![r] = @ \cup {d}]

(* Mutant: an adapter lets a failed call through. *)
TrackOrFail(r) ==
  /\ Runs(r, "send")
  /\ \/ /\ \E d \in Destinations : Attempt(r, d)
        /\ NoSql /\ UNCHANGED <<pc, thread, conn>>
     \/ /\ tried[r] = Destinations
        /\ Leave(r, "told")
        /\ NoSql /\ UNCHANGED <<conn, tried>>
     \/ /\ EndTx(r, "lost")
        /\ PG!RollbackTx(r)
        /\ thread' = thread \ {r}
        /\ UNCHANGED tried
  /\ UNCHANGED <<job, verdict, browser>>

(* CompositeAnalyticsSender: every destination, one after the other.       *)
Track(r) ==
  /\ Runs(r, "send")
  /\ \/ /\ \E d \in Destinations : Attempt(r, d)
        /\ UNCHANGED <<pc, thread>>
     \/ /\ tried[r] = Destinations
        /\ Leave(r, "told")
        /\ UNCHANGED tried
  /\ NoSql /\ UNCHANGED <<job, verdict, conn, browser>>

(* Mutant: the locks go, and what was written with them. *)
CommitNothing(r) ==
  /\ pc[r] = "told"
  /\ PG!RollbackTx(r)
  /\ EndTx(r, "done")
  /\ UNCHANGED <<job, verdict, thread, tried, browser>>

Commit(r) ==
  /\ pc[r] = "told"
  /\ PG!CommitTx(r)
  /\ EndTx(r, "done")
  /\ UNCHANGED <<job, verdict, thread, tried, browser>>

(* Mutant: the dependency commits whatever happened. *)
CommitAnyway(r) ==
  /\ pc[r] = "told" /\ r \in Faulty
  /\ PG!CommitTx(r)
  /\ EndTx(r, "lost")
  /\ UNCHANGED <<job, verdict, thread, tried, browser>>

LoseCommit(r) ==
  /\ pc[r] = "told" /\ r \in Faulty
  /\ PG!RollbackTx(r)
  /\ EndTx(r, "lost")
  /\ UNCHANGED <<job, verdict, thread, tried, browser>>

(* The cookie's max_age runs out, or somebody clears it.                   *)
Forget(b) ==
  /\ b \in Forgetful /\ jar[b] # NoToken
  /\ jar' = [jar EXCEPT ![b] = NoToken]
  /\ excused' = excused \cup {b}
  /\ NoSql /\ UNCHANGED <<pc, job, verdict, thread, conn, tried, pages, signed, agreed>>

Step(r) ==
  \/ Enter(r) \/ TakeConnection(r) \/ PoolTimeout(r)
  \/ LoadSession(r) \/ TouchSession(r) \/ Anonymous(r)
  \/ AnswerAtOnce(r) \/ ListNotes(r) \/ OpenSession(r) \/ CreateNote(r)
  \/ FindNote(r) \/ EraseNote(r) \/ RenderError(r)
  \/ Track(r) \/ Commit(r)

Next ==
  \/ \E r \in Requests : Arrive(r) \/ Step(r) \/ Crash(r) \/ LoseCommit(r)
  \/ \E b \in Browsers : Forget(b)

Spec == Init /\ [][Next]_vars

(* The event loop and the threads keep running; nobody has to send a       *)
(* request. There are finitely many, so none waits behind others for ever. *)
FairSpec == Spec /\ \A r \in Requests : WF_vars(Step(r))
-----------------------------------------------------------------------------
(***************************************************************************)
(* Properties.                                                             *)
(***************************************************************************)
(* A request that was answered with an error, or whose commit failed after *)
(* the answer, wrote nothing (get_db).                                     *)
OnlyTheDoneCounts ==
  \A r \in Requests : pc[r] \in {"failed", "lost"} \/ verdict[r] = "invalid" =>
    /\ db[NoteRow(r)] = NoRow
    /\ job[r].op = "login" => db[SessionRow(From(r))] = NoRow

(* A note goes only when a deletion by its owner commits, after the owner  *)
(* was told, however several deletions of it interleave                    *)
(* (NoteService.delete_owned).                                             *)
NotesLeaveByOwner ==
  [][\A row \in NoteRows : db[row] # NoRow /\ db'[row] # db[row] =>
       \E r \in Requests : /\ pc[r] = "told" /\ pc'[r] = "done" /\ Made(r, "delete")
                          /\ NoteRow(job[r].note) = row /\ Me(r) = db[row]]_vars

(* Row locks are held through a connection, nobody renders an error page   *)
(* while holding one, and what is over keeps nothing (get_db, Raise).      *)
NothingKept ==
  /\ \A row \in Row : lock[row] # Nobody => lock[row] \in conn
  /\ \A r \in conn : pc[r] \notin {"idle", "error", "render"} \cup Over
  /\ \A r \in thread : pc[r] \notin {"idle", "told"} \cup Queues \cup Over

(* A form is refused only in a browser whose cookie ran out, whose first   *)
(* visits overlapped, or whose first visit ended in a crash                *)
(* (CsrfCookieMiddleware, csrf_guard).                                     *)
RefusedForAReason == \A r \in Requests : verdict[r] = "csrf" => From(r) \in excused

(* Somebody who was told to be logged in is taken for a stranger only by a *)
(* request that was sent before that login was committed.                  *)
SignedIsLetIn == \A r \in Requests : verdict[r] = "login" /\ job[r].signed => job[r].early

(* Analytics are called with consent only, each destination whatever the   *)
(* others do, and no failure of theirs undoes a login (ADR-0011).          *)
AnalyticsIsHarmless ==
  \A r \in Requests : Made(r, "login") /\ pc[r] \in Over =>
    /\ tried[r] = IF job[r].agreed THEN Destinations ELSE {}
    /\ pc[r] = "lost" => r \in Faulty

(* Every request ends: with every thread taken by requests that wait for a *)
(* row or for a connection, the pool's timeout frees a thread for the one  *)
(* they wait for.                                                          *)
EveryRequestEnds == \A r \in Requests : pc[r] # "idle" ~> pc[r] \in Over

(* app/routers/health.py:5 "no database access, so a saturated connection  *)
(* pool never gets a healthy container killed": a saturated pool does not  *)
(* keep the probe waiting.                                                 *)
ProbeNeedsNoConnection ==
  \A r \in Requests : job[r].op = "health" /\ pc[r] = "handle" =>
    ~ /\ Cardinality(conn) = Pool
      /\ Cardinality(thread) = Threads
      /\ \A q \in thread : pc[q] \in Sql /\ q \notin conn

=============================================================================
