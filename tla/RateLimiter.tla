---------------------------- MODULE RateLimiter ----------------------------
(***************************************************************************)
(* The rate limiter of app/services/rate_limit.py, as the handlers of      *)
(* POST /login and POST /forgot-password use it: is_blocked counts the     *)
(* hits of two buckets, record adds one to each, reset forgets them, and   *)
(* all of it is part of the request's own transaction, which ends after    *)
(* its response was sent (app/db.py). Checking an account, rehashing and   *)
(* opening sessions is in Accounts; a row of rate_limit_hits and a row of  *)
(* an account are never waited for by requests that hold each other's.     *)
(*                                                                         *)
(* A hit's created_at is PostgreSQL's now(), the time its transaction      *)
(* began. The clock counts coarse units; the application's clock and the   *)
(* database's agree. The DELETEs of rate_limit_hits take their row locks   *)
(* in one order, that of the index.                                        *)
(***************************************************************************)
EXTENDS Integers, FiniteSets

CONSTANTS
  Requests,     \* the HTTP requests of a behaviour; bounds the model
  Ips, Emails,
  Workload,     \* what each request may ask for; bounds the model
  Faulty,       \* the requests that may meet a failure; bounds the model
  MaxAttempts,  \* login_max_attempts, password_reset_max_requests
  Window,       \* login_window_minutes, password_reset_window_minutes
  PurgeAfter,
  PoolSize,     \* the transactions open at once: pool_size + max_overflow per process
  MaxClock,     \* bounds the model
  NoRow, Nobody

Kinds == {"login", "forgot"}

ASSUME WorkloadAssumption == Workload \in [Requests -> SUBSET Kinds] /\ Faulty \subseteq Requests
ASSUME LimitsAssumption ==
  /\ MaxAttempts \in [Kinds -> Nat] /\ Window \in [Kinds -> Nat]
  /\ PurgeAfter \in Nat /\ \A kind \in Kinds : Window[kind] <= PurgeAfter
  /\ PoolSize \in Nat /\ MaxClock \in Nat

Time    == 0..MaxClock
Buckets == Kinds \X (({"ip"} \X Ips) \cup ({"email"} \X Emails))
Jobs    == [kind : Kinds, ip : Ips, email : Emails]
NoJob   == [kind |-> "none"]

(* Each request adds at most one hit to the bucket of its IP and one to    *)
(* that of its address.                                                    *)
Hits == Requests \X {"ip", "email"}
Hit  == [bucket : Buckets, at : Time]

ASSUME AbsentAssumption == NoRow \notin Hit /\ Nobody \notin Requests

VARIABLES
  db, work, lock,   \* the table rate_limit_hits
  clock,
  pc, job,
  since,            \* the time each request's transaction began
  doomed,           \* the hits its DELETE chose
  verdict

vars == <<db, work, lock, clock, pc, job, since, doomed, verdict>>

PG == INSTANCE ReadCommitted WITH Tx <- Requests, Row <- Hits

Over == {"done", "failed", "lost"}
Open(r) == pc[r] \notin {"idle"} \cup Over

(* Mutant: the client, whichever part is asked for. *)
BucketOfIp(j, part) == <<j.kind, <<part, j.ip>>>>

(* login_buckets, password_reset_buckets *)
Bucket(j, part) == <<j.kind, <<part, j[part]>>>>
BucketsOf(j) == {Bucket(j, "ip"), Bucket(j, "email")}

TypeOK ==
  /\ db \in [Hits -> Hit \cup {NoRow}]
  /\ work \in [Hits -> Hit \cup {NoRow}]
  /\ lock \in [Hits -> Requests \cup {Nobody}]
  /\ clock \in Time
  /\ pc \in [Requests -> {"idle", "email", "verify", "record", "purge", "purging", "clear",
                          "clearing", "send", "respond", "told"} \cup Over]
  /\ job \in [Requests -> Jobs \cup {NoJob}]
  /\ since \in [Requests -> Time]
  /\ doomed \in [Requests -> SUBSET Hits]
  /\ verdict \in [Requests -> {"none", "blocked", "invalid", "wrong", "right", "sent"}]

Init ==
  /\ db = [row \in Hits |-> NoRow] /\ work = db /\ PG!EmptyLocks
  /\ clock = 0
  /\ pc = [r \in Requests |-> "idle"]
  /\ job = [r \in Requests |-> NoJob]
  /\ since = [r \in Requests |-> 0]
  /\ doomed = [r \in Requests |-> {}]
  /\ verdict = [r \in Requests |-> "none"]

Goto(r, step) == pc' = [pc EXCEPT ![r] = step]
Answer(r, outcome) == Goto(r, "respond") /\ verdict' = [verdict EXCEPT ![r] = outcome]
NoWrite == UNCHANGED <<db, work, lock>>

(* RateLimitRepository.count_since, as a statement of r at time t sees it. *)
InWindow(row, b, from) == row # NoRow /\ row.bucket = b /\ row.at >= from

(* Mutant: one attempt more than the limit gets through. *)
ExhaustedOneLate(r, b, t) ==
  Cardinality({h \in Hits : InWindow(PG!Visible(r, h), b, t - Window[b[1]])}) > MaxAttempts[b[1]]

Exhausted(r, b, t) ==
  Cardinality({h \in Hits : InWindow(PG!Visible(r, h), b, t - Window[b[1]])}) >= MaxAttempts[b[1]]

(***************************************************************************)
(* is_blocked. The first count opens the transaction and needs a pooled    *)
(* connection, which the request keeps until its transaction is over.      *)
(***************************************************************************)
FreeConnection == Cardinality({r \in Requests : Open(r)}) < PoolSize

Begin(r) ==
  /\ pc[r] = "idle" /\ FreeConnection
  /\ since' = [since EXCEPT ![r] = clock]
  /\ \E j \in Jobs :
       /\ j.kind \in Workload[r]
       /\ job' = [job EXCEPT ![r] = j]
       /\ IF Exhausted(r, Bucket(j, "ip"), clock)
            THEN Answer(r, "blocked")
            ELSE Goto(r, "email") /\ UNCHANGED verdict
  /\ NoWrite /\ UNCHANGED <<clock, doomed>>

CheckEmail(r) ==
  /\ pc[r] = "email"
  /\ IF Exhausted(r, Bucket(job[r], "email"), since[r])
       THEN Answer(r, "blocked")
       ELSE /\ Goto(r, IF job[r].kind = "login" THEN "verify" ELSE "record")
            /\ UNCHANGED verdict
  /\ NoWrite /\ UNCHANGED <<clock, job, since, doomed>>

(* A malformed address is not counted; a wrong password, an unknown address*)
(* and a disabled account are.                                             *)
Verify(r) ==
  /\ pc[r] = "verify"
  /\ \/ Answer(r, "invalid")
     \/ Goto(r, "record") /\ verdict' = [verdict EXCEPT ![r] = "wrong"]
     \/ Goto(r, "clear") /\ verdict' = [verdict EXCEPT ![r] = "right"]
  /\ NoWrite /\ UNCHANGED <<clock, job, since, doomed>>

(***************************************************************************)
(* record: one hit in each bucket, and a purge on one write in PURGE_ODDS. *)
(***************************************************************************)
AfterRecord(r) == IF job[r].kind = "login" THEN "respond" ELSE "send"

Record(r) ==
  /\ pc[r] = "record"
  /\ PG!StoreRows(r, [h \in {r} \X {"ip", "email"} |->
                         [bucket |-> Bucket(job[r], h[2]), at |-> since[r]]])
  /\ Goto(r, AfterRecord(r)) \/ Goto(r, "purge")
  /\ UNCHANGED <<clock, job, since, doomed, verdict>>

(* A DELETE chooses its rows in its snapshot, and deletes them once no     *)
(* other transaction holds them.                                           *)
(* Mutant: the cutoff is the login window, shorter than the other one. *)
PurgeLoginWindow(r) ==
  /\ pc[r] = "purge"
  /\ doomed' = [doomed EXCEPT ![r] =
       {h \in Hits : PG!Visible(r, h) # NoRow /\ PG!Visible(r, h).at < clock - Window["login"]}]
  /\ Goto(r, "purging")
  /\ NoWrite /\ UNCHANGED <<clock, job, since, verdict>>

Purge(r) ==
  /\ pc[r] = "purge"
  /\ doomed' = [doomed EXCEPT ![r] =
       {h \in Hits : PG!Visible(r, h) # NoRow /\ PG!Visible(r, h).at < clock - PurgeAfter}]
  /\ Goto(r, "purging")
  /\ NoWrite /\ UNCHANGED <<clock, job, since, verdict>>

(* Mutant: reset forgets the buckets of every login. *)
ClearEveryLogin(r) ==
  /\ pc[r] = "clear"
  /\ doomed' = [doomed EXCEPT ![r] =
       {h \in Hits : PG!Visible(r, h) # NoRow /\ PG!Visible(r, h).bucket[1] = "login"}]
  /\ Goto(r, "clearing")
  /\ NoWrite /\ UNCHANGED <<clock, job, since, verdict>>

Clear(r) ==
  /\ pc[r] = "clear"
  /\ doomed' = [doomed EXCEPT ![r] =
       {h \in Hits : PG!Visible(r, h) # NoRow /\ PG!Visible(r, h).bucket \in BucketsOf(job[r])}]
  /\ Goto(r, "clearing")
  /\ NoWrite /\ UNCHANGED <<clock, job, since, verdict>>

Delete(r) ==
  /\ pc[r] \in {"purging", "clearing"}
  /\ PG!StoreRows(r, [h \in doomed[r] |-> NoRow])
  /\ Goto(r, IF pc[r] = "purging" THEN AfterRecord(r) ELSE "respond")
  /\ doomed' = [doomed EXCEPT ![r] = {}]
  /\ UNCHANGED <<clock, job, since, verdict>>

(***************************************************************************)
(* The email of a reset request, and the end of the transaction.           *)
(***************************************************************************)
(* Nothing is sent if the address is unknown. *)
Send(r) ==
  /\ pc[r] = "send"
  /\ Answer(r, "sent")
  /\ NoWrite /\ UNCHANGED <<clock, job, since, doomed>>

Undo(r) ==
  /\ PG!RollbackTx(r)
  /\ Goto(r, IF pc[r] = "told" THEN "lost" ELSE "failed")
  /\ doomed' = [doomed EXCEPT ![r] = {}]

(* The provider raises EmailDeliveryError: the attempt is not counted.     *)
SendRaises(r) ==
  /\ r \in Faulty
  /\ pc[r] = "send"
  /\ Undo(r)
  /\ UNCHANGED <<clock, job, since, verdict>>

Respond(r) ==
  /\ pc[r] = "respond"
  /\ Goto(r, "told")
  /\ NoWrite /\ UNCHANGED <<clock, job, since, doomed, verdict>>

Commit(r) ==
  /\ pc[r] = "told"
  /\ PG!CommitTx(r)
  /\ Goto(r, "done")
  /\ UNCHANGED <<clock, job, since, doomed, verdict>>

Fail(r) ==
  /\ r \in Faulty
  /\ Open(r)
  /\ Undo(r)
  /\ UNCHANGED <<clock, job, since, verdict>>

Tick ==
  /\ clock < MaxClock
  /\ clock' = clock + 1
  /\ NoWrite /\ UNCHANGED <<pc, job, since, doomed, verdict>>

Advance(r) ==
  \/ Begin(r) \/ CheckEmail(r) \/ Verify(r) \/ Record(r) \/ Purge(r) \/ Clear(r)
  \/ Delete(r) \/ Send(r) \/ Respond(r) \/ Commit(r)

Next ==
  \/ \E r \in Requests : Advance(r) \/ SendRaises(r) \/ Fail(r)
  \/ Tick

Spec == Init /\ [][Next]_vars
-----------------------------------------------------------------------------
(***************************************************************************)
(* Properties.                                                             *)
(***************************************************************************)
Counted(b, from, to) ==
  {h \in Hits : InWindow(db[h], b, from) /\ db[h].at <= to}

(* is_blocked checks and record writes in different statements, and a hit  *)
(* shows only once its request is over: concurrent attempts can all find   *)
(* room. But they are concurrent only as far as the pool goes, so no window*)
(* of time ever holds more than max_attempts - 1 hits and one pool's worth.*)
OvershootIsBounded ==
  \A b \in Buckets : \A t \in Time :
    Cardinality(Counted(b, t - Window[b[1]], t)) <=
      (IF MaxAttempts[b[1]] = 0 THEN 0 ELSE MaxAttempts[b[1]] - 1 + PoolSize)

BlockedNow(b) == Cardinality(Counted(b, clock - Window[b[1]], clock)) >= MaxAttempts[b[1]]

(* A bucket that has run out of attempts stays blocked until time passes,  *)
(* or until a login that used that very bucket succeeds and is committed:  *)
(* no purge, no rollback and no other visitor's success unblocks it.       *)
BlockedStaysBlocked ==
  [][\A b \in Buckets : BlockedNow(b) /\ ~BlockedNow(b)' /\ clock' = clock =>
       \E r \in Requests : /\ pc[r] = "told" /\ pc'[r] = "done"
                           /\ verdict[r] = "right" /\ b \in BucketsOf(job[r])]_vars

=============================================================================
