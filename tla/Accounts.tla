------------------------------ MODULE Accounts ------------------------------
(***************************************************************************)
(* Accounts, sessions and password recovery: app/services/auth.py, the     *)
(* handlers of app/routers/auth.py, the session dependency of app/deps.py  *)
(* and the unit of work of app/db.py, statement by statement.              *)
(*                                                                         *)
(* A request is one HTTP request and one transaction. It runs in a worker  *)
(* thread (or in another worker process) concurrently with every other     *)
(* request, and between two of its SQL statements anything may happen.     *)
(* The session row and the reset link a request mints are keyed by the     *)
(* request itself, since a token is 256 random bits and never repeats.     *)
(***************************************************************************)
EXTENDS Naturals, FiniteSets

CONSTANTS
  Requests,     \* the HTTP requests of a behaviour; bounds the model
  Users,        \* email addresses, normalised
  Passwords,
  Workload,     \* what each request may ask for; bounds the model
  Faulty,       \* the requests that may meet a failure; bounds the model
  MayExpire,    \* the credentials whose lifetime may run out; bounds the model
  MayDisable,   \* the accounts an operator may disable; bounds the model
  NoRow, Nobody

Ops == {"login", "register", "forgot", "form", "reset", "page", "logout"}

UserRow(u)    == <<"user", u>>
SessionRow(r) == <<"session", r>>
LinkRow(r)    == <<"link", r>>

UserRows    == {"user"} \X Users
SessionRows == {"session"} \X Requests
LinkRows    == {"link"} \X Requests
Credentials == SessionRows \cup LinkRows
Row         == UserRows \cup Credentials

(* weak: the hash predates the current argon2 parameters. ended stands for *)
(* revoked_at (a session) or used_at (a reset link) being stamped.         *)
Account    == [pw : Passwords, weak : BOOLEAN, active : BOOLEAN]
Credential == [owner : Users, ended : BOOLEAN]

(* The handlers that open a session, and hand out its cookie.              *)
Openers == {"login", "register", "reset"}

Jobs ==
       [op : {"login", "register"}, user : Users, pw : Passwords]
  \cup [op : {"forgot"}, user : Users]
  \cup [op : {"form"}, key : Requests]
  \cup [op : {"reset"}, key : Requests, pw : Passwords]
  \cup [op : {"page", "logout"}, key : Requests]

NoJob  == [op |-> "none"]

ASSUME WorkloadAssumption == Workload \in [Requests -> SUBSET Ops]
ASSUME BoundsAssumption ==
  /\ Faulty \subseteq Requests
  /\ MayExpire \subseteq Credentials
  /\ MayDisable \subseteq Users
ASSUME AbsentAssumption ==
  /\ NoRow \notin Account \cup Credential
  /\ Nobody \notin Requests \cup Users

VARIABLES
  db, work, lock,   \* the database
  pc,               \* the next statement of each request
  job,              \* what it was asked to do
  who,              \* the account it loaded
  todo,             \* the rows its running UPDATE has yet to visit
  verdict,          \* the outcome its handler computed
  mail,             \* the reset links that reached an inbox
  expired,          \* the credentials past their expires_at
  past              \* observation only: credentials open and ended at arrival

vars == <<db, work, lock, pc, job, who, todo, verdict, mail, expired, past>>

PG == INSTANCE ReadCommitted WITH Tx <- Requests

Visible(r, row) == PG!Visible(r, row)
Store(r, row, val) == PG!Store(r, row, val)

Steps == { "idle", "read", "rehash", "spend", "setpw", "revoke", "revoking",
           "invalidate", "invalidating", "issue", "send", "touch", "end",
           "create", "open", "respond", "told", "done", "failed", "lost" }

(* The transaction is over. "lost": the response had already been sent.    *)
Over == {"done", "failed", "lost"}

Running(r) == pc[r] \notin {"idle"} \cup Over

(* The browser has the response, and the cookie that comes with it.        *)
Told(r) == pc[r] \in {"told", "done", "lost"}

Present(row) == db[row] # NoRow

(* The account a session or a link belongs to is fixed when it is minted. *)
OpenNow  == {row \in Credentials : Present(row) /\ ~db[row].ended}
EndedNow == {row \in Credentials : Present(row) /\ db[row].ended}

(* UserSession.is_usable and PasswordResetToken.is_usable, on the version  *)
(* of the row that request r reads.                                        *)
(* Mutant: only the lifetime is looked at. *)
UsableIfNotExpired(r, row) == Visible(r, row) # NoRow /\ row \notin expired

Usable(r, row) ==
  /\ Visible(r, row) # NoRow
  /\ ~Visible(r, row).ended
  /\ row \notin expired

(***************************************************************************)
(* Shorthand for the steps below.                                          *)
(***************************************************************************)
Goto(r, step) == pc' = [pc EXCEPT ![r] = step]

(* Compute the outcome and go and send the response. *)
Answer(r, outcome) ==
  /\ Goto(r, "respond")
  /\ verdict' = [verdict EXCEPT ![r] = outcome]

At(r, step, op) == pc[r] = step /\ job[r].op \in op

Load(r, u) == who' = [who EXCEPT ![r] = u]

NoWrite == UNCHANGED <<db, work, lock>>
World   == <<mail, expired>>

Tables(rows) ==
  /\ rows \in [Row -> Account \cup Credential \cup {NoRow}]
  /\ \A row \in UserRows : rows[row] \in Account \cup {NoRow}
  /\ \A row \in Credentials : rows[row] \in Credential \cup {NoRow}

(* Every column has its type, and every request a known step and job.      *)
TypeOK ==
  /\ Tables(db)
  /\ Tables(work)
  /\ lock \in [Row -> Requests \cup {Nobody}]
  /\ pc \in [Requests -> Steps]
  /\ job \in [Requests -> Jobs \cup {NoJob}]
  /\ who \in [Requests -> Users \cup {Nobody}]
  /\ todo \in [Requests -> SUBSET Credentials]
  /\ verdict \in [Requests -> {"none", "ok", "refused", "conflict"}]
  /\ mail \subseteq Requests
  /\ expired \subseteq Credentials
  /\ past \in [Requests -> [open : SUBSET Credentials, ended : SUBSET Credentials]]

(* Accounts may exist already, with any password and with a hash of any    *)
(* age; nobody is logged in and no link is outstanding.                    *)
Init ==
  /\ \E account \in [Users -> [pw : Passwords, weak : BOOLEAN, active : {TRUE}] \cup {NoRow}] :
       db = [row \in Row |-> IF row \in UserRows THEN account[row[2]] ELSE NoRow]
  /\ work = db
  /\ lock = [row \in Row |-> Nobody]
  /\ pc = [r \in Requests |-> "idle"]
  /\ job = [r \in Requests |-> NoJob]
  /\ who = [r \in Requests |-> Nobody]
  /\ todo = [r \in Requests |-> {}]
  /\ verdict = [r \in Requests |-> "none"]
  /\ mail = {}
  /\ expired = {}
  /\ past = [r \in Requests |-> [open |-> {}, ended |-> {}]]

(***************************************************************************)
(* A request arrives. A browser presents a cookie it was given, and a      *)
(* reset link that was emailed, whether or not the transaction that minted *)
(* it was committed.                                                       *)
(***************************************************************************)
Cookies == {r \in Requests : Told(r) /\ verdict[r] = "ok" /\ job[r].op \in Openers}

Arrive(r) ==
  /\ pc[r] = "idle"
  /\ \E j \in Jobs :
       /\ j.op \in Workload[r]
       /\ j.op \in {"form", "reset"} => j.key \in mail
       /\ j.op \in {"page", "logout"} => j.key \in Cookies
       /\ job' = [job EXCEPT ![r] = j]
  /\ past' = [past EXCEPT ![r] = [open |-> OpenNow, ended |-> EndedNow]]
  /\ Goto(r, "read")
  /\ NoWrite /\ UNCHANGED <<who, todo, verdict, World>>

(* The limiter says too many attempts, or the form does not validate.      *)
RefuseEarly(r) ==
  /\ At(r, "read", {"login", "register", "forgot", "reset"})
  /\ Answer(r, "refused")
  /\ NoWrite /\ UNCHANGED <<job, who, todo, World, past>>

(***************************************************************************)
(* The first SELECT of each handler, with the decision taken on its result *)
(***************************************************************************)
ReadLogin(r) ==
  /\ At(r, "read", {"login"})
  /\ LET row == Visible(r, UserRow(job[r].user))
         good == row # NoRow /\ row.pw = job[r].pw /\ row.active
     IN  \/ /\ ~good
            /\ Answer(r, "refused")
            /\ UNCHANGED who
         \/ /\ good
            /\ Goto(r, IF row.weak THEN "rehash" ELSE "open")
            /\ Load(r, job[r].user)
            /\ UNCHANGED verdict
  /\ NoWrite /\ UNCHANGED <<job, todo, World, past>>

ReadRegister(r) ==
  /\ At(r, "read", {"register"})
  /\ \/ /\ Visible(r, UserRow(job[r].user)) # NoRow
        /\ Answer(r, "refused")
        /\ UNCHANGED who
     \/ /\ Visible(r, UserRow(job[r].user)) = NoRow
        /\ Goto(r, "create")
        /\ Load(r, job[r].user)
        /\ UNCHANGED verdict
  /\ NoWrite /\ UNCHANGED <<job, todo, World, past>>

(* An unknown or disabled address gets the same page as any other.         *)
(* Mutant: the call to invalidate_all_for_user is missing. *)
ReadForgotKeepingLinks(r) ==
  /\ At(r, "read", {"forgot"})
  /\ Visible(r, UserRow(job[r].user)) # NoRow
  /\ Goto(r, "issue") /\ Load(r, job[r].user)
  /\ NoWrite /\ UNCHANGED <<job, todo, verdict, World, past>>

ReadForgot(r) ==
  /\ At(r, "read", {"forgot"})
  /\ LET row == Visible(r, UserRow(job[r].user))
         known == row # NoRow /\ row.active
     IN  \/ /\ ~known
            /\ Answer(r, "ok")
            /\ UNCHANGED who
         \/ /\ known
            /\ Goto(r, "invalidate")
            /\ Load(r, job[r].user)
            /\ UNCHANGED verdict
  /\ NoWrite /\ UNCHANGED <<job, todo, World, past>>

(* GET /reset-password/{token} only looks; POST goes on to spend the link. *)
ReadLink(r) ==
  /\ At(r, "read", {"form", "reset"})
  /\ LET row == LinkRow(job[r].key)
     IN  \/ /\ ~Usable(r, row)
            /\ Answer(r, "refused")
            /\ UNCHANGED who
         \/ /\ Usable(r, row)
            /\ Load(r, Visible(r, row).owner)
            /\ IF job[r].op = "form"
                 THEN Answer(r, "ok")
                 ELSE Goto(r, "spend") /\ UNCHANGED verdict
  /\ NoWrite /\ UNCHANGED <<job, todo, World, past>>

(* A page is served as somebody, or as nobody. Every five minutes of use   *)
(* the session's last_seen_at is refreshed as well.                        *)
ReadPage(r) ==
  /\ At(r, "read", {"page"})
  /\ LET row == SessionRow(job[r].key)
         valid == Usable(r, row) /\ Visible(r, UserRow(Visible(r, row).owner)).active
     IN  \/ /\ ~valid
            /\ Answer(r, "refused")
            /\ UNCHANGED who
         \/ /\ valid
            /\ Load(r, Visible(r, row).owner)
            /\ \/ Answer(r, "ok")
               \/ Goto(r, "touch") /\ UNCHANGED verdict
  /\ NoWrite /\ UNCHANGED <<job, todo, World, past>>

ReadLogout(r) ==
  /\ At(r, "read", {"logout"})
  /\ IF Visible(r, SessionRow(job[r].key)) = NoRow
       THEN Answer(r, "ok")
       ELSE Goto(r, "end") /\ UNCHANGED verdict
  /\ NoWrite /\ UNCHANGED <<job, who, todo, World, past>>

(***************************************************************************)
(* The writes. Each waits for its row, then changes only the columns the   *)
(* ORM knows to be dirty: the rest is the newest version's.                *)
(***************************************************************************)
Ended(row) == [work[row] EXCEPT !.ended = TRUE]

PasswordSet(r) == [work[UserRow(who[r])] EXCEPT !.pw = job[r].pw, !.weak = FALSE]

Rehash(r) ==
  /\ pc[r] = "rehash"
  /\ Store(r, UserRow(who[r]), PasswordSet(r))
  /\ Goto(r, "open")
  /\ UNCHANGED <<job, who, todo, verdict, World, past>>

MarkUsed(r) ==
  /\ pc[r] = "spend"
  /\ Store(r, LinkRow(job[r].key), Ended(LinkRow(job[r].key)))
  /\ Goto(r, "setpw")
  /\ UNCHANGED <<job, who, todo, verdict, World, past>>

(* Mutant: the call to revoke_all_for_user is missing. *)
SetPasswordOnly(r) ==
  /\ pc[r] = "setpw"
  /\ Store(r, UserRow(who[r]), PasswordSet(r))
  /\ Goto(r, "invalidate")
  /\ UNCHANGED <<job, who, todo, verdict, World, past>>

SetPassword(r) ==
  /\ pc[r] = "setpw"
  /\ Store(r, UserRow(who[r]), PasswordSet(r))
  /\ Goto(r, "revoke")
  /\ UNCHANGED <<job, who, todo, verdict, World, past>>

(* UPDATE ... WHERE user_id = :id AND revoked_at (used_at) IS NULL: the    *)
(* rows are those its snapshot shows, visited one at a time; a row it has  *)
(* to wait for is stamped in its newest version.                           *)
Matching(r, table) ==
  {row \in table : /\ Visible(r, row) # NoRow
                   /\ Visible(r, row).owner = who[r]
                   /\ ~Visible(r, row).ended}

RevokeAll(r) ==
  /\ pc[r] = "revoke"
  /\ todo' = [todo EXCEPT ![r] = Matching(r, SessionRows)]
  /\ Goto(r, "revoking")
  /\ NoWrite /\ UNCHANGED <<job, who, verdict, World, past>>

InvalidateAll(r) ==
  /\ pc[r] = "invalidate"
  /\ todo' = [todo EXCEPT ![r] = Matching(r, LinkRows)]
  /\ Goto(r, "invalidating")
  /\ NoWrite /\ UNCHANGED <<job, who, verdict, World, past>>

EndRow(r) ==
  /\ pc[r] \in {"revoking", "invalidating"}
  /\ \E row \in todo[r] :
       /\ Store(r, row, Ended(row))
       /\ todo' = [todo EXCEPT ![r] = @ \ {row}]
  /\ UNCHANGED <<pc, job, who, verdict, World, past>>

AllEnded(r) ==
  /\ todo[r] = {}
  /\ \/ /\ pc[r] = "revoking"
        /\ Goto(r, "invalidate")
     \/ /\ pc[r] = "invalidating"
        /\ Goto(r, IF job[r].op = "reset" THEN "open" ELSE "issue")
  /\ NoWrite /\ UNCHANGED <<job, who, todo, verdict, World, past>>

(* The link leaves before the transaction that stores it is committed.     *)
IssueLink(r) ==
  /\ pc[r] = "issue"
  /\ Store(r, LinkRow(r), [owner |-> who[r], ended |-> FALSE])
  /\ Goto(r, "send")
  /\ UNCHANGED <<job, who, todo, verdict, World, past>>

(* Mutant: the message carries the account instead of the token. *)
SendEmailOfAccount(r) ==
  /\ pc[r] = "send"
  /\ mail' = mail \cup {who[r]}
  /\ Answer(r, "ok")
  /\ NoWrite /\ UNCHANGED <<job, who, todo, expired, past>>

SendEmail(r) ==
  /\ pc[r] = "send"
  /\ mail' = mail \cup {r}
  /\ Answer(r, "ok")
  /\ NoWrite /\ UNCHANGED <<job, who, todo, expired, past>>

(* Mutant: every column is written back as it was read. *)
TouchWholeRow(r) ==
  /\ pc[r] = "touch"
  /\ Store(r, SessionRow(job[r].key), [owner |-> who[r], ended |-> FALSE])
  /\ Answer(r, "ok")
  /\ UNCHANGED <<job, who, todo, World, past>>

Touch(r) ==
  /\ pc[r] = "touch"
  /\ Store(r, SessionRow(job[r].key), work[SessionRow(job[r].key)])
  /\ Answer(r, "ok")
  /\ UNCHANGED <<job, who, todo, World, past>>

EndSession(r) ==
  /\ pc[r] = "end"
  /\ Store(r, SessionRow(job[r].key), Ended(SessionRow(job[r].key)))
  /\ Answer(r, "ok")
  /\ UNCHANGED <<job, who, todo, World, past>>

StartSession(r) ==
  /\ pc[r] = "open"
  /\ Store(r, SessionRow(r), [owner |-> who[r], ended |-> FALSE])
  /\ Answer(r, "ok")
  /\ UNCHANGED <<job, who, todo, World, past>>

(* Mutant: no unique constraint on users.email. *)
CreateUserTwice(r) ==
  /\ pc[r] = "create"
  /\ Store(r, UserRow(who[r]), [pw |-> job[r].pw, weak |-> FALSE, active |-> TRUE])
  /\ Goto(r, "open")
  /\ UNCHANGED <<job, who, todo, verdict, World, past>>

(* The INSERT waits for a rival INSERT of the same address, and fails on   *)
(* the unique constraint if that one was committed.                        *)
CreateUser(r) ==
  /\ pc[r] = "create"
  /\ work[UserRow(who[r])] = NoRow
  /\ Store(r, UserRow(who[r]), [pw |-> job[r].pw, weak |-> FALSE, active |-> TRUE])
  /\ Goto(r, "open")
  /\ UNCHANGED <<job, who, todo, verdict, World, past>>

(***************************************************************************)
(* The end of a request: the response is sent, background tasks run, and   *)
(* only then does the dependency of app/db.py commit.                      *)
(***************************************************************************)
Respond(r) ==
  /\ pc[r] = "respond"
  /\ Goto(r, "told")
  /\ NoWrite /\ UNCHANGED <<job, who, todo, verdict, World, past>>

(* Mutant: the connection goes back to the pool with its locks. *)
CommitKeepingLocks(r) ==
  /\ pc[r] = "told"
  /\ db' = [row \in Row |-> IF lock[row] = r THEN work[row] ELSE db[row]]
  /\ Goto(r, "done")
  /\ UNCHANGED <<work, lock, job, who, todo, verdict, World, past>>

Commit(r) ==
  /\ pc[r] = "told"
  /\ PG!CommitTx(r)
  /\ Goto(r, "done")
  /\ UNCHANGED <<job, who, todo, verdict, World, past>>

(* Mutant: the dependency commits in its finally clause. *)
UndoNothing(r) ==
  /\ PG!CommitTx(r)
  /\ Goto(r, IF Told(r) THEN "lost" ELSE "failed")
  /\ todo' = [todo EXCEPT ![r] = {}]

Undo(r) ==
  /\ PG!RollbackTx(r)
  /\ Goto(r, IF Told(r) THEN "lost" ELSE "failed")
  /\ todo' = [todo EXCEPT ![r] = {}]

DuplicateUser(r) ==
  /\ pc[r] = "create"
  /\ PG!Writable(r, UserRow(who[r]))
  /\ work[UserRow(who[r])] # NoRow
  /\ Undo(r)
  /\ verdict' = [verdict EXCEPT ![r] = "conflict"]
  /\ UNCHANGED <<job, who, World, past>>

(* An exception in the handler, a refused email, a lost connection, a      *)
(* killed worker: the transaction is rolled back, whatever was sent.       *)
Fail(r) ==
  /\ r \in Faulty
  /\ Running(r)
  /\ Undo(r)
  /\ UNCHANGED <<job, who, verdict, World, past>>

(* The rows whose locks the next statement of r has yet to get.            *)
Needs(r) ==
  CASE pc[r] \in {"rehash", "setpw", "create"} -> {UserRow(who[r])}
    [] pc[r] = "spend" -> {LinkRow(job[r].key)}
    [] pc[r] \in {"touch", "end"} -> {SessionRow(job[r].key)}
    [] pc[r] \in {"revoking", "invalidating"} -> todo[r]
    [] OTHER -> {}

WaitsFor(r, q) == r # q /\ \E row \in Needs(r) : lock[row] = q

(* r is one of a set of requests that all wait for each other.             *)
Deadlocked(r) ==
  \E S \in SUBSET Requests :
    /\ r \in S
    /\ \A p \in S : (\E q \in S : WaitsFor(p, q)) /\ (\E q \in S : WaitsFor(q, p))

(* PostgreSQL's deadlock detector picks a victim: its statement raises.    *)
DeadlockVictim(r) ==
  /\ Deadlocked(r)
  /\ Undo(r)
  /\ UNCHANGED <<job, who, verdict, World, past>>

(***************************************************************************)
(* The rest of the world.                                                  *)
(***************************************************************************)
Expire(row) ==
  /\ row \in MayExpire \ expired
  /\ work[row] # NoRow
  /\ expired' = expired \cup {row}
  /\ NoWrite /\ UNCHANGED <<pc, job, who, todo, verdict, mail, past>>

Disable(u) ==
  /\ lock[UserRow(u)] = Nobody
  /\ db[UserRow(u)] # NoRow /\ db[UserRow(u)].active
  /\ LET off(version) == [version EXCEPT ![UserRow(u)].active = FALSE]
     IN  db' = off(db) /\ work' = off(work)
  /\ UNCHANGED <<lock, pc, job, who, todo, verdict, World, past>>

Advance(r) ==
  \/ RefuseEarly(r)
  \/ ReadLogin(r) \/ ReadRegister(r) \/ ReadForgot(r)
  \/ ReadLink(r) \/ ReadPage(r) \/ ReadLogout(r)
  \/ Rehash(r) \/ MarkUsed(r) \/ SetPassword(r)
  \/ RevokeAll(r) \/ InvalidateAll(r) \/ EndRow(r) \/ AllEnded(r)
  \/ IssueLink(r) \/ SendEmail(r) \/ Touch(r) \/ EndSession(r)
  \/ StartSession(r) \/ CreateUser(r) \/ DuplicateUser(r)
  \/ Respond(r) \/ Commit(r) \/ DeadlockVictim(r)

Next ==
  \/ \E r \in Requests : Arrive(r) \/ Advance(r) \/ Fail(r)
  \/ \E row \in Credentials : Expire(row)
  \/ \E u \in MayDisable : Disable(u)

Spec == Init /\ [][Next]_vars

(* A worker thread keeps running its request; nobody has to send one.      *)
FairSpec == Spec /\ \A r \in Requests : WF_vars(Advance(r))
-----------------------------------------------------------------------------
(***************************************************************************)
(* Properties.                                                             *)
(***************************************************************************)
Granted(r, op) == job[r].op \in op /\ verdict[r] = "ok" /\ who[r] # Nobody

(* A completed password reset ends every session its account had when the  *)
(* request arrived, however other requests interleave with its UPDATEs     *)
(* (set_password, revoke_all_for_user).                                    *)
ResetEndsEarlierSessions ==
  \A r \in Requests : pc[r] = "done" /\ Granted(r, {"reset"}) =>
    \A row \in past[r].open \cap SessionRows :
      db[row].owner = who[r] => db[row].ended

(* A reset, and a request for a new link, end every reset link that was    *)
(* outstanding for the account when they arrived (invalidate_all_for_user).*)
EarlierLinksEnd ==
  \A r \in Requests : pc[r] = "done" /\ Granted(r, {"reset", "forgot"}) =>
    \A row \in past[r].open \cap LinkRows :
      db[row].owner = who[r] => db[row].ended

(* A revoked session or a used link never becomes good again, although     *)
(* requests that read it before go on to write to the same row.            *)
EndedStaysEnded ==
  [][\A row \in EndedNow : db'[row] = db[row]]_vars

(* A session that was revoked, or a link that was used, before a request   *)
(* arrived is of no use to it (resolve_session, reset_password,            *)
(* user_for_reset_token).                                                  *)
EndedIsRefused ==
  \A r \in Requests :
    /\ Granted(r, {"page"}) => SessionRow(job[r].key) \notin past[r].ended
    /\ Granted(r, {"form", "reset"}) => LinkRow(job[r].key) \notin past[r].ended

(* A request that is rolled back leaves no session and no link behind, and *)
(* what is ended was ended by a request that committed (get_db).           *)
RollbackLeavesNoTrace ==
  /\ \A r \in Requests : pc[r] \in {"failed", "lost"} =>
       ~Present(SessionRow(r)) /\ ~Present(LinkRow(r))
  /\ \A row \in EndedNow : \E r \in Requests :
       /\ pc[r] = "done"
       /\ job[r].op \in IF row \in LinkRows THEN {"reset", "forgot"} ELSE {"reset", "logout"}

(* Of the registrations that race for one address, at most one commits     *)
(* (register, the unique constraint on users.email).                       *)
OneAccountPerEmail ==
  \A r, q \in Requests :
    /\ {pc[r], pc[q]} = {"done"}
    /\ Granted(r, {"register"}) /\ Granted(q, {"register"})
    /\ who[r] = who[q]
    => r = q

(* Every request that arrives is answered and its transaction ends: row    *)
(* locks are held only by requests that make progress, and the deadlock    *)
(* detector breaks the cycles.                                             *)
EveryRequestEnds ==
  \A r \in Requests : pc[r] = "read" ~> pc[r] \in Over

(***************************************************************************)
(* What the documentation says, and concurrent requests can break.         *)
(***************************************************************************)
(* app/models/password_reset_token.py:23 "Single use." One link changes    *)
(* the password once.                                                      *)
SingleUse ==
  \A r, q \in Requests :
    /\ {pc[r], pc[q]} = {"done"}
    /\ Granted(r, {"reset"}) /\ Granted(q, {"reset"})
    /\ job[r].key = job[q].key
    => r = q

(* app/services/auth.py:102 "replace it now, while the plaintext is in     *)
(* hand and correct": logging in never changes which password is valid.    *)
LoginKeepsPassword ==
  [][\A r \in Requests : pc[r] = "told" /\ pc'[r] = "done" /\ job[r].op = "login" =>
       \A row \in UserRows : Present(row) => db'[row].pw = db[row].pw]_vars

=============================================================================
