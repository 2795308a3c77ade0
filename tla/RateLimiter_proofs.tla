------------------------- MODULE RateLimiter_proofs -------------------------
(***************************************************************************)
(* Proofs about RateLimiter, for any number of requests, addresses and     *)
(* connections, any limits and any failures. Nothing is assumed finite:    *)
(* that only finitely many hits are stored and only finitely many requests *)
(* are under way is part of the invariant.                                 *)
(***************************************************************************)
EXTENDS RateLimiter, FiniteSetTheorems, TLAPS

Busy == {r \in Requests : Open(r)}
Kept == {h \in Hits : db[h] # NoRow}

(* The transactions open at once are no more than the pool has connections.*)
Pooled == IsFiniteSet(Kept) /\ IsFiniteSet(Busy) /\ Cardinality(Busy) <= PoolSize

LockedWrites == \A h \in Hits : lock[h] = Nobody => work[h] = db[h]

(* r has been let through by the count of that part of its client.         *)
Admitted(r, part) == Open(r) /\ verdict[r] # "blocked" /\ (pc[r] = "email" => part = "ip")

(* What r may delete: what no window reaches, or a bucket of its own if it *)
(* logged in.                                                              *)
Old(h)          == db[h] # NoRow => db[h].at < clock - PurgeAfter
OfClient(r, h)  == db[h] # NoRow => db[h].bucket \in BucketsOf(job[r])
Deletable(r, h) == Old(h) \/ (verdict[r] = "right" /\ OfClient(r, h))

(* An uncommitted row is a deletion, or the hit of the request itself.     *)
Written(r) ==
  \A h \in Hits : lock[h] = r =>
    \/ work[h] = NoRow /\ Deletable(r, h)
    \/ /\ h[1] = r /\ Admitted(r, h[2])
       /\ work[h] = [bucket |-> Bucket(job[r], h[2]), at |-> since[r]]

(* Which outcome and which locks a request can have at which step.         *)
Script(r) ==
  /\ Open(r) => job[r] \in Jobs
  /\ pc[r] \in {"idle", "email", "verify"} => verdict[r] = "none"
  /\ pc[r] \in {"record", "purge", "purging", "send"} => verdict[r] \in {"none", "wrong"}
  /\ pc[r] \in {"clear", "clearing"} => verdict[r] = "right"
  /\ pc[r] \in {"idle", "email", "verify", "record", "clear"} \cup Over =>
       \A h \in Hits : lock[h] # r
  /\ pc[r] # "done" => \A h \in Hits : h[1] = r => db[h] = NoRow

(* What a DELETE chose stays what it meant to delete until it does.        *)
Doomed(r) ==
  \A h \in doomed[r] :
    /\ h[1] = r \/ pc[h[1]] = "done"
    /\ \/ pc[r] = "purging" /\ Old(h)
       \/ pc[r] = "clearing" /\ OfClient(r, h)

(* The hits of a bucket in the window that ends at t, and those that       *)
(* requests let through are still going to add to it.                      *)
Pending(b, t) ==
  {h \in Hits : /\ Admitted(h[1], h[2]) /\ Bucket(job[h[1]], h[2]) = b
                /\ t - Window[b[1]] <= since[h[1]] /\ since[h[1]] <= t}

Claims(b, t) == Counted(b, t - Window[b[1]], t) \cup Pending(b, t)

Limit(b) == IF MaxAttempts[b[1]] = 0 THEN 0 ELSE MaxAttempts[b[1]] - 1 + PoolSize

Bounded == \A b \in Buckets, t \in Time : Cardinality(Claims(b, t)) <= Limit(b)

RequestInv(r) == Written(r) /\ Script(r) /\ Doomed(r)

Inv ==
  /\ TypeOK /\ Pooled /\ LockedWrites /\ Bounded
  /\ \A r \in Requests : RequestInv(r)

(* What a step of r may do to the rest: only what r locked is published,   *)
(* and a row is new only when it is the hit of a request that commits.     *)
Frame(r) ==
  /\ \A h \in Hits : db'[h] # db[h] =>
       /\ lock[h] = r /\ db'[h] = work[h] /\ pc[r] = "told" /\ pc'[r] = "done"
       /\ db'[h] # NoRow => db[h] = NoRow /\ h[1] = r
  /\ \A h \in Hits, q \in Requests : q # r =>
       /\ lock'[h] = q <=> lock[h] = q
       /\ lock[h] = q => work'[h] = work[h]
  /\ clock' = clock

(* The private state of a request that takes no step.                      *)
Still(q) ==
  /\ pc'[q] = pc[q] /\ job'[q] = job[q] /\ since'[q] = since[q]
  /\ doomed'[q] = doomed[q] /\ verdict'[q] = verdict[q]

-----------------------------------------------------------------------------
LEMMA HitFacts ==
  /\ \A h \in Hits : /\ h[1] \in Requests /\ h[2] \in {"ip", "email"} /\ h = <<h[1], h[2]>>
  /\ \A r \in Requests, part \in {"ip", "email"} :
       /\ <<r, part>> \in Hits /\ <<r, part>>[1] = r /\ <<r, part>>[2] = part
  /\ \A j \in Jobs, part \in {"ip", "email"} :
       /\ Bucket(j, part) \in Buckets
       /\ Bucket(j, part)[1] = j.kind /\ Bucket(j, part)[2][1] = part
  /\ \A b \in Buckets : b[1] \in Kinds
BY DEF Hits, Jobs, Bucket, Buckets

LEMMA LimitFacts ==
  \A b \in Buckets : /\ MaxAttempts[b[1]] \in Nat /\ Window[b[1]] \in Nat
                     /\ Window[b[1]] <= PurgeAfter /\ PurgeAfter \in Nat /\ PoolSize \in Nat
                     /\ Limit(b) \in Nat
BY HitFacts, LimitsAssumption DEF Limit

(* The claims on a bucket are finite: each is a stored hit, or one of a    *)
(* request under way.                                                      *)
LEMMA ClaimsFinite ==
  ASSUME TypeOK, Pooled, NEW b \in Buckets, NEW t \in Time
  PROVE  /\ IsFiniteSet(Claims(b, t)) /\ Cardinality(Claims(b, t)) \in Nat
         /\ IsFiniteSet(Pending(b, t)) /\ Cardinality(Pending(b, t)) <= Cardinality(Busy)
         /\ IsFiniteSet(Counted(b, t - Window[b[1]], t))
<1> USE HitFacts
<1> DEFINE mine == Busy \X {b[2][1]}
<1>1. IsFiniteSet(mine) /\ Cardinality(mine) = Cardinality(Busy) /\ Cardinality(Busy) \in Nat
  <2>1. IsFiniteSet({b[2][1]}) /\ Cardinality({b[2][1]}) = 1 BY FS_Singleton
  <2>2. IsFiniteSet(Busy) /\ Cardinality(Busy) \in Nat BY FS_CardinalityType DEF Pooled
  <2>3. IsFiniteSet(mine) /\ Cardinality(mine) = Cardinality(Busy) * Cardinality({b[2][1]})
    BY <2>1, <2>2, FS_Product
  <2> QED BY <2>1, <2>2, <2>3
<1>2. Pending(b, t) \subseteq mine
  <2> SUFFICES ASSUME NEW h \in Pending(b, t) PROVE h \in mine OBVIOUS
  <2>1. /\ h[1] \in Busy /\ h[1] \in Requests /\ h = <<h[1], h[2]>> /\ h[2] \in {"ip", "email"}
        /\ Bucket(job[h[1]], h[2]) = b
    BY DEF Pending, Admitted, Busy
  <2>2. b[2][1] = h[2] BY <2>1 DEF Bucket
  <2> QED BY <2>1, <2>2
<1>3. IsFiniteSet(Pending(b, t)) /\ Cardinality(Pending(b, t)) <= Cardinality(mine)
  BY <1>1, <1>2, FS_Subset
<1>4. Counted(b, t - Window[b[1]], t) \subseteq Kept
  BY DEF Counted, InWindow, Kept
<1>5. IsFiniteSet(Counted(b, t - Window[b[1]], t))
  BY <1>4, FS_Subset DEF Pooled
<1>6. IsFiniteSet(Claims(b, t)) BY <1>3, <1>5, FS_Union DEF Claims
<1>7. Cardinality(Claims(b, t)) \in Nat BY <1>6, FS_CardinalityType
<1> QED BY <1>1, <1>3, <1>5, <1>6, <1>7

PendingSmall ==
  \A b \in Buckets, t \in Time :
    IsFiniteSet(Pending(b, t)) /\ Cardinality(Pending(b, t)) <= Cardinality(Busy)

LEMMA PendingIsSmall == TypeOK /\ Pooled => PendingSmall
BY ClaimsFinite DEF PendingSmall

LEMMA PendingStaysSmall == TypeOK' /\ Pooled' => PendingSmall'
BY PendingIsSmall, PTL

(* A step that adds no claim to a bucket keeps it within its limit.        *)
LEMMA FewerClaims ==
  ASSUME TypeOK, Pooled, Bounded, NEW b \in Buckets, NEW t \in Time,
         Claims(b, t)' \subseteq Claims(b, t)
  PROVE  Cardinality(Claims(b, t)') <= Limit(b)
<1>1. IsFiniteSet(Claims(b, t)) /\ Cardinality(Claims(b, t)) \in Nat BY ClaimsFinite
<1>2. IsFiniteSet(Claims(b, t)') /\ Cardinality(Claims(b, t)') <= Cardinality(Claims(b, t))
  BY <1>1, FS_Subset
<1>3. Cardinality(Claims(b, t)') \in Nat BY <1>2, FS_CardinalityType
<1> QED BY <1>1, <1>2, <1>3, LimitFacts DEF Bounded

(* A step that lets a request through has counted fewer hits than the      *)
(* limit, and besides them there is only one pool's worth of requests.     *)
LEMMA RoomForOne ==
  ASSUME TypeOK, Pooled, TypeOK', Pooled', NEW b \in Buckets, NEW t \in Time, NEW from \in Int,
         ~ (Cardinality({h \in Hits : InWindow(db[h], b, from)}) >= MaxAttempts[b[1]]),
         from <= t - Window[b[1]], db' = db
  PROVE  Cardinality(Claims(b, t)') <= Limit(b)
<1> DEFINE seen == {h \in Hits : InWindow(db[h], b, from)}
           counted == Counted(b, t - Window[b[1]], t)
<1>1. MaxAttempts[b[1]] \in Nat /\ PoolSize \in Nat /\ Window[b[1]] \in Nat BY LimitFacts
<1>2. counted \subseteq seen
  BY <1>1, LimitFacts DEF Counted, InWindow, TypeOK, Hit, Time
<1>3. IsFiniteSet(seen)
  <2>1. seen \subseteq Kept BY DEF Kept, InWindow
  <2> QED BY <2>1, FS_Subset DEF Pooled
<1>4. Cardinality(seen) \in Nat /\ Cardinality(counted) <= Cardinality(seen)
  BY <1>2, <1>3, FS_Subset, FS_CardinalityType
<1>5. counted' = counted BY DEF Counted
<1>6. /\ IsFiniteSet(counted) /\ Cardinality(counted) \in Nat
  BY <1>2, <1>3, FS_Subset, FS_CardinalityType
<1>7. /\ IsFiniteSet(Pending(b, t)') /\ Cardinality(Pending(b, t)') <= Cardinality(Busy')
      /\ Cardinality(Pending(b, t)') \in Nat /\ Cardinality(Busy') \in Nat
      /\ Cardinality(Busy') <= PoolSize
  <2>1. /\ IsFiniteSet(Pending(b, t)') /\ Cardinality(Pending(b, t)') <= Cardinality(Busy')
    BY PendingStaysSmall DEF PendingSmall
  <2> QED BY <2>1, FS_CardinalityType DEF Pooled
<1>8. /\ IsFiniteSet(Claims(b, t)')
      /\ Cardinality(Claims(b, t)') =
           Cardinality(counted) + Cardinality(Pending(b, t)') - Cardinality(counted \cap Pending(b, t)')
      /\ Cardinality(counted \cap Pending(b, t)') \in Nat
  <2>1. Claims(b, t)' = counted \cup Pending(b, t)' BY <1>5 DEF Claims
  <2>2. IsFiniteSet(counted \cap Pending(b, t)') BY <1>6, FS_Intersection
  <2>3. Cardinality(counted \cap Pending(b, t)') \in Nat BY <2>2, FS_CardinalityType
  <2> QED BY <2>1, <2>3, <1>6, <1>7, FS_Union
<1>9. Cardinality(seen) < MaxAttempts[b[1]] BY <1>1, <1>4
<1> HIDE DEF seen, counted
<1> QED BY <1>1, <1>4, <1>6, <1>7, <1>8, <1>9 DEF Limit

-----------------------------------------------------------------------------
(* What every step of r does.                                              *)
StepOK(r) ==
  /\ TypeOK' /\ Pooled' /\ LockedWrites' /\ Bounded' /\ Frame(r)
  /\ RequestInv(r)'
  /\ \A q \in Requests : q # r => Still(q)
  /\ pc[r] # "done"

(* The steps of r keep what is said of the other requests.                 *)
LEMMA OthersKeep ==
  ASSUME Inv, NEW r \in Requests, StepOK(r)
  PROVE  Inv'
<1> USE HitFacts
<1> SUFFICES ASSUME NEW q \in Requests, q # r PROVE RequestInv(q)'
  BY DEF Inv, StepOK
<1>1. /\ Still(q) /\ Frame(r) /\ RequestInv(q)
      /\ TypeOK /\ TypeOK' /\ pc[r] # "done"
      /\ \A p \in Requests : pc[p] = "done" => pc'[p] = "done"
  BY DEF Inv, StepOK, Still
<1>2. ASSUME NEW h \in Hits, lock[h] = q \/ h[1] = q \/ db[h] # NoRow
      PROVE  /\ Old(h) => Old(h)'
             /\ OfClient(q, h) => OfClient(q, h)'
             /\ db'[h] # NoRow => db'[h] = db[h]
  BY <1>1, <1>2 DEF Frame, Old, OfClient, Still
<1>3. Written(q)'
  BY <1>1, <1>2 DEF RequestInv, Written, Deletable, Frame, Admitted, Open, Still
<1>4. Script(q)'
  BY <1>1, <1>2 DEF RequestInv, Script, Frame, Open, Still
<1>5. Doomed(q)'
  <2> SUFFICES ASSUME NEW h \in doomed[q]
               PROVE  /\ h[1] = q \/ pc'[h[1]] = "done"
                      /\ \/ pc'[q] = "purging" /\ Old(h)'
                         \/ pc'[q] = "clearing" /\ OfClient(q, h)'
    BY <1>1 DEF Doomed, Still
  <2>1. h \in Hits BY <1>1 DEF TypeOK
  <2>2. /\ h[1] = q \/ pc[h[1]] = "done"
        /\ \/ pc[q] = "purging" /\ Old(h)
           \/ pc[q] = "clearing" /\ OfClient(q, h)
    BY <1>1 DEF RequestInv, Doomed
  <2>3. db'[h] # NoRow => db'[h] = db[h] BY <1>1, <2>1, <2>2 DEF Frame
  <2>4. (Old(h) => Old(h)') /\ (OfClient(q, h) => OfClient(q, h)')
    BY <1>1, <2>1, <2>3 DEF Old, OfClient, Still, Frame
  <2> QED BY <1>1, <2>1, <2>2, <2>4 DEF Still
<1> QED BY <1>3, <1>4, <1>5 DEF RequestInv

(* A step that lets nobody through adds no claim.                          *)
LEMMA NoNewClaims ==
  ASSUME Inv, NEW r \in Requests,
         \A q \in Requests : q # r => Still(q),
         \A part \in {"ip", "email"} : Admitted(r, part)' => Admitted(r, part),
         job'[r] = job[r], since'[r] = since[r],
         \A h \in Hits :
           \/ db'[h] \in {db[h], NoRow}
           \/ /\ h[1] = r /\ Admitted(r, h[2])
              /\ db'[h] = [bucket |-> Bucket(job[r], h[2]), at |-> since[r]]
  PROVE  Bounded'
<1> USE HitFacts
<1> SUFFICES ASSUME NEW b \in Buckets, NEW t \in Time
             PROVE  Cardinality(Claims(b, t)') <= Limit(b)
  BY DEF Bounded, Limit
<1>1. ASSUME NEW h \in Pending(b, t)' PROVE h \in Pending(b, t)
  <2>1. h \in Hits /\ h[1] \in Requests /\ h[2] \in {"ip", "email"} BY DEF Pending
  <2>2. CASE h[1] = r BY <2>1, <2>2 DEF Pending
  <2>3. CASE h[1] # r BY <2>1, <2>3 DEF Pending, Still, Admitted, Open
  <2> QED BY <2>2, <2>3
<1>2. ASSUME NEW h \in Counted(b, t - Window[b[1]], t)' PROVE h \in Claims(b, t)
  <2>1. /\ h \in Hits /\ db'[h] # NoRow /\ db'[h].bucket = b
        /\ db'[h].at >= t - Window[b[1]] /\ db'[h].at <= t
    BY DEF Counted, InWindow
  <2>2. CASE db'[h] = db[h] BY <2>1, <2>2 DEF Claims, Counted, InWindow
  <2>3. CASE /\ h[1] = r /\ Admitted(r, h[2])
             /\ db'[h] = [bucket |-> Bucket(job[r], h[2]), at |-> since[r]]
    <3>1. db'[h].bucket = Bucket(job[r], h[2]) /\ db'[h].at = since[r] BY <2>3
    <3>2. since[r] \in Int /\ t - Window[b[1]] \in Int
      BY LimitFacts DEF Inv, TypeOK, Time
    <3> QED BY <2>1, <2>3, <3>1, <3>2 DEF Claims, Pending
  <2> QED BY <2>1, <2>2, <2>3
<1>3. Claims(b, t)' \subseteq Claims(b, t) BY <1>1, <1>2 DEF Claims
<1> QED BY <1>3, FewerClaims DEF Inv

(* A step that leaves the table and the clock alone.                       *)
LEMMA TablesStill ==
  ASSUME Inv, NEW r \in Requests, NoWrite, clock' = clock, Busy' \subseteq Busy
  PROVE  LockedWrites' /\ Frame(r) /\ Pooled'
<1>1. LockedWrites' /\ Frame(r) BY DEF NoWrite, Inv, LockedWrites, Frame
<1>2. Kept' = Kept BY DEF NoWrite, Kept
<1>3. IsFiniteSet(Busy') /\ Cardinality(Busy') <= Cardinality(Busy)
  BY FS_Subset DEF Inv, Pooled
<1>4. Cardinality(Busy') <= PoolSize
  BY <1>3, FS_CardinalityType, LimitsAssumption DEF Inv, Pooled
<1> QED BY <1>1, <1>2, <1>3, <1>4 DEF Inv, Pooled

(* A request that wrote nothing yet counts what is committed.              *)
LEMMA CountsCommitted ==
  ASSUME NEW r \in Requests, NEW b, NEW t, \A h \in Hits : lock[h] # r
  PROVE  Exhausted(r, b, t) <=>
           Cardinality({h \in Hits : InWindow(db[h], b, t - Window[b[1]])}) >= MaxAttempts[b[1]]
<1>1. \A h \in Hits : PG!Visible(r, h) = db[h] BY DEF PG!Visible
<1>2. {h \in Hits : InWindow(PG!Visible(r, h), b, t - Window[b[1]])}
        = {h \in Hits : InWindow(db[h], b, t - Window[b[1]])}
  BY <1>1
<1> QED BY <1>2 DEF Exhausted

(***************************************************************************)
(* The counts. r holds no lock yet, so it sees what is committed.          *)
(***************************************************************************)
LEMMA BeginStep ==
  ASSUME Inv, NEW r \in Requests, Begin(r)
  PROVE  StepOK(r)
<1> USE HitFacts, AbsentAssumption
<1>1. TypeOK /\ RequestInv(r) /\ Pooled BY DEF Inv
<1>2. PICK j \in Jobs :
        /\ job' = [job EXCEPT ![r] = j]
        /\ IF Exhausted(r, Bucket(j, "ip"), clock)
             THEN Answer(r, "blocked")
             ELSE Goto(r, "email") /\ UNCHANGED verdict
  BY DEF Begin
<1>3. /\ pc[r] = "idle" /\ since'[r] = clock /\ job'[r] = j /\ NoWrite /\ clock' = clock
      /\ doomed' = doomed /\ verdict[r] = "none"
      /\ \A q \in Requests : q # r => Still(q)
  BY <1>1, <1>2 DEF Begin, Answer, Goto, Still, TypeOK, RequestInv, Script
<1>4. \/ pc'[r] = "respond" /\ verdict'[r] = "blocked"
      \/ /\ pc'[r] = "email" /\ verdict' = verdict
         /\ ~ Exhausted(r, Bucket(j, "ip"), clock)
  BY <1>1, <1>2 DEF Answer, Goto, TypeOK
<1>5. TypeOK'
  <2>1. since' = [since EXCEPT ![r] = clock] BY DEF Begin
  <2>2. pc' \in [Requests -> {"email", "respond"} \cup {pc[q] : q \in Requests}]
        /\ verdict' \in [Requests -> {"none", "blocked", "invalid", "wrong", "right", "sent"}]
    BY <1>1, <1>2 DEF Answer, Goto, TypeOK
  <2>3. pc' \in [Requests -> {"idle", "email", "verify", "record", "purge", "purging", "clear",
                              "clearing", "send", "respond", "told"} \cup Over]
    BY <1>1, <2>2 DEF TypeOK
  <2>4. job' \in [Requests -> Jobs \cup {NoJob}] BY <1>1, <1>2 DEF TypeOK
  <2>5. since' \in [Requests -> Time] BY <1>1, <2>1 DEF TypeOK
  <2> QED BY <1>1, <1>3, <2>2, <2>3, <2>4, <2>5 DEF TypeOK, NoWrite
<1>6. LockedWrites' /\ Frame(r) BY <1>3 DEF NoWrite, Inv, LockedWrites, Frame
<1>7. Pooled'
  <2>1. Busy' = Busy \cup {r} /\ r \notin Busy
    <3>1. Open(r)' /\ ~ Open(r) BY <1>3, <1>4 DEF Open, Over
    <3>2. \A q \in Requests : q # r => (Open(q)' <=> Open(q)) BY <1>3 DEF Open, Still
    <3> QED BY <3>1, <3>2 DEF Busy
  <2>2. Cardinality(Busy) < PoolSize BY DEF Begin, FreeConnection, Busy
  <2>3. IsFiniteSet(Busy') /\ Cardinality(Busy') = Cardinality(Busy) + 1
    BY <1>1, <2>1, FS_AddElement DEF Pooled
  <2>4. Cardinality(Busy) \in Nat BY <1>1, FS_CardinalityType DEF Pooled
  <2>5. Kept' = Kept BY <1>3 DEF NoWrite, Kept
  <2> QED BY <1>1, <2>2, <2>3, <2>4, <2>5, LimitsAssumption DEF Pooled
<1>8. RequestInv(r)'
  <2>1. \A h \in Hits : lock[h] # r BY <1>1, <1>3 DEF RequestInv, Script, Over
  <2>2. Written(r)' BY <1>3, <2>1 DEF Written, NoWrite
  <2>3. Script(r)'
    BY <1>1, <1>3, <1>4, <2>1 DEF RequestInv, Script, Open, Over, NoWrite
  <2>4. Doomed(r)' BY <1>1, <1>3, <1>4 DEF RequestInv, Doomed
  <2> QED BY <2>2, <2>3, <2>4 DEF RequestInv
<1>9. Bounded'
  <2> SUFFICES ASSUME NEW b \in Buckets, NEW t \in Time
               PROVE  Cardinality(Claims(b, t)') <= Limit(b)
    BY DEF Bounded, Limit
  <2>1. Counted(b, t - Window[b[1]], t)' = Counted(b, t - Window[b[1]], t)
    BY <1>3 DEF Counted, NoWrite
  <2>2. ASSUME NEW h \in Pending(b, t)', h \notin Pending(b, t)
        PROVE  /\ b = Bucket(j, "ip") /\ clock <= t
               /\ ~ Exhausted(r, Bucket(j, "ip"), clock)
    <3>1. h \in Hits /\ h[1] \in Requests /\ h[2] \in {"ip", "email"} BY <2>2 DEF Pending
    <3>2. h[1] = r BY <1>3, <2>2, <3>1 DEF Pending, Still, Admitted, Open
    <3>3. /\ pc'[r] = "email" /\ h[2] = "ip"
      BY <1>4, <2>2, <3>1, <3>2 DEF Pending, Admitted
    <3> QED BY <1>3, <1>4, <2>2, <3>2, <3>3 DEF Pending
  <2>3. CASE Pending(b, t)' \subseteq Pending(b, t)
    <3>1. Claims(b, t)' \subseteq Claims(b, t) BY <2>1, <2>3 DEF Claims
    <3> QED BY <3>1, FewerClaims DEF Inv
  <2>4. CASE /\ b = Bucket(j, "ip") /\ clock <= t
             /\ ~ Exhausted(r, Bucket(j, "ip"), clock)
    <3>1. \A h \in Hits : lock[h] # r BY <1>1, <1>3 DEF RequestInv, Script
    <3>2. ~ (Cardinality({h \in Hits : InWindow(db[h], b, clock - Window[b[1]])})
               >= MaxAttempts[b[1]])
      BY <2>4, <3>1, CountsCommitted
    <3>3. clock - Window[b[1]] \in Int /\ clock - Window[b[1]] <= t - Window[b[1]]
      BY <1>1, <2>4, LimitFacts DEF TypeOK, Time
    <3> QED BY <1>1, <1>3, <1>5, <1>7, <3>2, <3>3, RoomForOne DEF NoWrite
  <2> QED BY <2>2, <2>3, <2>4
<1> QED BY <1>3, <1>5, <1>6, <1>7, <1>8, <1>9 DEF StepOK

Pcs == {"idle", "email", "verify", "record", "purge", "purging", "clear",
        "clearing", "send", "respond", "told"} \cup Over

LEMMA GotoType ==
  ASSUME TypeOK, NEW r \in Requests, NEW step \in Pcs, Goto(r, step)
  PROVE  pc' \in [Requests -> Pcs]
BY DEF TypeOK, Goto, Pcs

LEMMA CheckEmailStep ==
  ASSUME Inv, NEW r \in Requests, CheckEmail(r)
  PROVE  StepOK(r)
<1> USE HitFacts, AbsentAssumption
<1>1. TypeOK /\ RequestInv(r) /\ Pooled BY DEF Inv
<1>2. /\ pc[r] = "email" /\ verdict[r] = "none" /\ job[r] \in Jobs /\ Open(r)
      /\ \A h \in Hits : lock[h] # r
  BY <1>1 DEF CheckEmail, RequestInv, Script, Open, Over
<1>3. /\ since' = since /\ job' = job /\ NoWrite /\ clock' = clock /\ doomed' = doomed
      /\ \A q \in Requests : q # r => Still(q)
  BY <1>1 DEF CheckEmail, Answer, Goto, Still, TypeOK
<1>4. \/ pc'[r] = "respond" /\ verdict'[r] = "blocked"
      \/ /\ pc'[r] \in {"verify", "record"} /\ verdict' = verdict
         /\ ~ Exhausted(r, Bucket(job[r], "email"), since[r])
  BY <1>1 DEF CheckEmail, Answer, Goto, TypeOK
<1>5. TypeOK'
  <2>1. \/ Answer(r, "blocked")
        \/ Goto(r, "verify") /\ UNCHANGED verdict
        \/ Goto(r, "record") /\ UNCHANGED verdict
    BY DEF CheckEmail
  <2>2. /\ pc' \in [Requests -> Pcs]
        /\ verdict' \in [Requests -> {"none", "blocked", "invalid", "wrong", "right", "sent"}]
    BY <1>1, <2>1 DEF Answer, Goto, TypeOK, Pcs
  <2> QED BY <1>1, <1>3, <2>2 DEF TypeOK, NoWrite, Pcs
<1>6. Busy' = Busy
  <2>1. \A q \in Requests : Open(q)' <=> Open(q)
    BY <1>2, <1>3, <1>4 DEF Open, Over, Still
  <2> QED BY <2>1 DEF Busy
<1>7. LockedWrites' /\ Frame(r) /\ Pooled' BY <1>3, <1>6, TablesStill
<1>8. RequestInv(r)'
  <2>1. Written(r)' BY <1>2, <1>3 DEF Written, NoWrite
  <2>2. Script(r)'
    BY <1>1, <1>2, <1>3, <1>4 DEF RequestInv, Script, Open, Over, NoWrite
  <2>3. Doomed(r)' BY <1>1, <1>2, <1>3 DEF RequestInv, Doomed
  <2> QED BY <2>1, <2>2, <2>3 DEF RequestInv
<1>9. Bounded'
  <2> SUFFICES ASSUME NEW b \in Buckets, NEW t \in Time
               PROVE  Cardinality(Claims(b, t)') <= Limit(b)
    BY DEF Bounded, Limit
  <2>1. Counted(b, t - Window[b[1]], t)' = Counted(b, t - Window[b[1]], t)
    BY <1>3 DEF Counted, NoWrite
  <2>2. ASSUME NEW h \in Pending(b, t)', h \notin Pending(b, t)
        PROVE  /\ b = Bucket(job[r], "email") /\ since[r] <= t
               /\ ~ Exhausted(r, Bucket(job[r], "email"), since[r])
    <3>1. h \in Hits /\ h[1] \in Requests /\ h[2] \in {"ip", "email"} BY <2>2 DEF Pending
    <3>2. h[1] = r BY <1>3, <2>2, <3>1 DEF Pending, Still, Admitted, Open
    <3>3. Admitted(r, h[2])' BY <2>2, <3>2 DEF Pending
    <3>4. pc'[r] # "respond" \/ verdict'[r] # "blocked" BY <3>3 DEF Admitted
    <3>5. h[2] = "email"
      BY <1>2, <1>3, <2>2, <3>1, <3>2 DEF Pending, Admitted
    <3> QED BY <1>3, <1>4, <2>2, <3>2, <3>4, <3>5 DEF Pending
  <2>3. CASE Pending(b, t)' \subseteq Pending(b, t)
    <3>1. Claims(b, t)' \subseteq Claims(b, t) BY <2>1, <2>3 DEF Claims
    <3> QED BY <3>1, FewerClaims DEF Inv
  <2>4. CASE /\ b = Bucket(job[r], "email") /\ since[r] <= t
             /\ ~ Exhausted(r, Bucket(job[r], "email"), since[r])
    <3>1. ~ (Cardinality({h \in Hits : InWindow(db[h], b, since[r] - Window[b[1]])})
               >= MaxAttempts[b[1]])
      BY <1>2, <2>4, CountsCommitted
    <3>2. since[r] - Window[b[1]] \in Int /\ since[r] - Window[b[1]] <= t - Window[b[1]]
      BY <1>1, <2>4, LimitFacts DEF TypeOK, Time
    <3> QED BY <1>1, <1>3, <1>5, <1>7, <3>1, <3>2, RoomForOne DEF NoWrite
  <2> QED BY <2>2, <2>3, <2>4
<1> QED BY <1>2, <1>3, <1>5, <1>7, <1>8, <1>9 DEF StepOK, Open, Over

(***************************************************************************)
(* The steps of a request that was let through: none of them is a new claim*)
(***************************************************************************)
(* What such a step has to show: r is let through for as much as before.   *)
SameClaims(r) ==
  /\ Open(r) /\ job[r] \in Jobs
  /\ clock' = clock /\ job' = job /\ since' = since
  /\ \A q \in Requests : q # r => Still(q)
  /\ Open(r)' /\ \A part \in {"ip", "email"} : Admitted(r, part)' <=> Admitted(r, part)

LEMMA SameBusy ==
  ASSUME NEW r \in Requests, SameClaims(r)
  PROVE  Busy' = Busy
<1>1. \A q \in Requests : Open(q)' <=> Open(q) BY DEF SameClaims, Open, Still
<1> QED BY <1>1 DEF Busy

(* A step that neither writes nor chooses what to delete.                  *)
LEMMA QuietStep ==
  ASSUME Inv, NEW r \in Requests, SameClaims(r), NoWrite, TypeOK', Script(r)', Doomed(r)',
         verdict[r] = "right" => verdict'[r] = "right"
  PROVE  StepOK(r)
<1> USE HitFacts
<1>1. TypeOK /\ RequestInv(r) /\ Pooled BY DEF Inv
<1>2. LockedWrites' /\ Frame(r) /\ Pooled' BY SameBusy, TablesStill DEF SameClaims
<1>3. Written(r)'
  BY <1>1 DEF RequestInv, Written, NoWrite, SameClaims, Deletable, Old, OfClient
<1>4. Bounded'
  BY NoNewClaims DEF SameClaims, NoWrite
<1> QED BY <1>2, <1>3, <1>4 DEF StepOK, RequestInv, SameClaims, Open, Over

LEMMA VerifyStep ==
  ASSUME Inv, NEW r \in Requests, Verify(r)
  PROVE  StepOK(r)
<1>1. TypeOK /\ RequestInv(r) BY DEF Inv
<1>2. /\ pc[r] = "verify" /\ verdict[r] = "none" /\ job[r] \in Jobs /\ Open(r)
      /\ \A h \in Hits : lock[h] # r
  BY <1>1 DEF Verify, RequestInv, Script, Open, Over
<1>3. /\ since' = since /\ job' = job /\ NoWrite /\ clock' = clock /\ doomed' = doomed
      /\ \A q \in Requests : q # r => Still(q)
  BY <1>1 DEF Verify, Answer, Goto, Still, TypeOK
<1>4. \/ pc'[r] = "respond" /\ verdict'[r] = "invalid"
      \/ pc'[r] = "record" /\ verdict'[r] = "wrong"
      \/ pc'[r] = "clear" /\ verdict'[r] = "right"
  BY <1>1 DEF Verify, Answer, Goto, TypeOK
<1>5. TypeOK'
  <2>1. /\ pc' \in [Requests -> Pcs]
        /\ verdict' \in [Requests -> {"none", "blocked", "invalid", "wrong", "right", "sent"}]
    BY <1>1 DEF Verify, Answer, Goto, TypeOK, Pcs
  <2> QED BY <1>1, <1>3, <2>1 DEF TypeOK, NoWrite, Pcs
<1>6. SameClaims(r) BY <1>2, <1>3, <1>4 DEF SameClaims, Admitted, Open, Over
<1>7. Script(r)'
  BY <1>1, <1>2, <1>3, <1>4 DEF RequestInv, Script, Open, Over, NoWrite
<1>8. Doomed(r)' BY <1>1, <1>2, <1>3 DEF RequestInv, Doomed
<1> QED BY <1>2, <1>3, <1>5, <1>6, <1>7, <1>8, QuietStep

LEMMA SendStep ==
  ASSUME Inv, NEW r \in Requests, Send(r)
  PROVE  StepOK(r)
<1>1. TypeOK /\ RequestInv(r) BY DEF Inv
<1>2. /\ pc[r] = "send" /\ verdict[r] \in {"none", "wrong"} /\ job[r] \in Jobs /\ Open(r)
      /\ \A h \in Hits : h[1] = r => db[h] = NoRow
  BY <1>1 DEF Send, RequestInv, Script, Open, Over
<1>3. /\ since' = since /\ job' = job /\ NoWrite /\ clock' = clock /\ doomed' = doomed
      /\ \A q \in Requests : q # r => Still(q)
      /\ pc'[r] = "respond" /\ verdict'[r] = "sent"
  BY <1>1 DEF Send, Answer, Goto, Still, TypeOK
<1>4. TypeOK'
  <2>1. /\ pc' \in [Requests -> Pcs]
        /\ verdict' \in [Requests -> {"none", "blocked", "invalid", "wrong", "right", "sent"}]
    BY <1>1 DEF Send, Answer, Goto, TypeOK, Pcs
  <2> QED BY <1>1, <1>3, <2>1 DEF TypeOK, NoWrite, Pcs
<1>5. SameClaims(r) BY <1>2, <1>3 DEF SameClaims, Admitted, Open, Over
<1>6. Script(r)' BY <1>1, <1>2, <1>3 DEF RequestInv, Script, Open, Over, NoWrite
<1>7. Doomed(r)' BY <1>1, <1>2, <1>3 DEF RequestInv, Doomed
<1> QED BY <1>2, <1>3, <1>4, <1>5, <1>6, <1>7, QuietStep

LEMMA RespondStep ==
  ASSUME Inv, NEW r \in Requests, Respond(r)
  PROVE  StepOK(r)
<1>1. TypeOK /\ RequestInv(r) BY DEF Inv
<1>2. /\ pc[r] = "respond" /\ job[r] \in Jobs /\ Open(r)
      /\ \A h \in Hits : h[1] = r => db[h] = NoRow
  BY <1>1 DEF Respond, RequestInv, Script, Open, Over
<1>3. /\ since' = since /\ job' = job /\ NoWrite /\ clock' = clock /\ doomed' = doomed
      /\ verdict' = verdict /\ \A q \in Requests : q # r => Still(q)
      /\ pc'[r] = "told"
  BY <1>1 DEF Respond, Goto, Still, TypeOK
<1>4. TypeOK'
  <2>1. pc' \in [Requests -> Pcs] BY <1>1 DEF Respond, Goto, TypeOK, Pcs
  <2> QED BY <1>1, <1>3, <2>1 DEF TypeOK, NoWrite, Pcs
<1>5. SameClaims(r) BY <1>2, <1>3 DEF SameClaims, Admitted, Open, Over
<1>6. Script(r)' BY <1>1, <1>2, <1>3 DEF RequestInv, Script, Open, Over, NoWrite
<1>7. Doomed(r)' BY <1>1, <1>2, <1>3 DEF RequestInv, Doomed
<1> QED BY <1>2, <1>3, <1>4, <1>5, <1>6, <1>7, QuietStep

(***************************************************************************)
(* The deletions. A row is visible only when it is r's own or when the     *)
(* request that wrote it is over.                                          *)
(***************************************************************************)
LEMMA VisibleFacts ==
  ASSUME Inv, NEW r \in Requests, Open(r), NEW h \in Hits, PG!Visible(r, h) # NoRow
  PROVE  /\ h[1] = r \/ pc[h[1]] = "done"
         /\ db[h] = NoRow \/ PG!Visible(r, h) = db[h]
<1> USE HitFacts
<1>1. RequestInv(r) /\ RequestInv(h[1]) BY DEF Inv
<1>2. pc[r] # "done" BY DEF Open, Over
<1>3. CASE lock[h] = r
  <2>1. h[1] = r BY <1>1, <1>3 DEF RequestInv, Written, PG!Visible
  <2> QED BY <1>1, <1>2, <2>1 DEF RequestInv, Script
<1>4. CASE lock[h] # r
  BY <1>1, <1>4 DEF RequestInv, Script, PG!Visible
<1> QED BY <1>3, <1>4

LEMMA PurgeStep ==
  ASSUME Inv, NEW r \in Requests, Purge(r)
  PROVE  StepOK(r)
<1> USE HitFacts
<1>1. TypeOK /\ RequestInv(r) BY DEF Inv
<1>2. /\ pc[r] = "purge" /\ verdict[r] \in {"none", "wrong"} /\ job[r] \in Jobs /\ Open(r)
      /\ \A h \in Hits : h[1] = r => db[h] = NoRow
  BY <1>1 DEF Purge, RequestInv, Script, Open, Over
<1>3. /\ since' = since /\ job' = job /\ NoWrite /\ clock' = clock /\ verdict' = verdict
      /\ \A q \in Requests : q # r => Still(q)
      /\ pc'[r] = "purging"
      /\ doomed'[r] = {h \in Hits : /\ PG!Visible(r, h) # NoRow
                                    /\ PG!Visible(r, h).at < clock - PurgeAfter}
  BY <1>1 DEF Purge, Goto, Still, TypeOK
<1>4. TypeOK'
  <2>1. pc' \in [Requests -> Pcs] BY <1>1 DEF Purge, Goto, TypeOK, Pcs
  <2>2. doomed' \in [Requests -> SUBSET Hits] BY <1>1 DEF Purge, TypeOK
  <2> QED BY <1>1, <1>3, <2>1, <2>2 DEF TypeOK, NoWrite, Pcs
<1>5. SameClaims(r) BY <1>2, <1>3 DEF SameClaims, Admitted, Open, Over
<1>6. Script(r)' BY <1>1, <1>2, <1>3 DEF RequestInv, Script, Open, Over, NoWrite
<1>7. Doomed(r)'
  <2> SUFFICES ASSUME NEW h \in doomed'[r]
               PROVE  (h[1] = r \/ pc'[h[1]] = "done") /\ Old(h)'
    BY <1>3 DEF Doomed
  <2>1. h \in Hits /\ PG!Visible(r, h) # NoRow /\ PG!Visible(r, h).at < clock - PurgeAfter
    BY <1>3
  <2>2. /\ h[1] = r \/ pc[h[1]] = "done"
        /\ db[h] = NoRow \/ PG!Visible(r, h) = db[h]
    BY <1>2, <2>1, VisibleFacts
  <2>3. h[1] = r \/ pc'[h[1]] = "done" BY <1>3, <2>1, <2>2 DEF Still
  <2>4. Old(h)' BY <1>3, <2>1, <2>2 DEF Old, NoWrite
  <2> QED BY <2>3, <2>4
<1> QED BY <1>2, <1>3, <1>4, <1>5, <1>6, <1>7, QuietStep

LEMMA ClearStep ==
  ASSUME Inv, NEW r \in Requests, Clear(r)
  PROVE  StepOK(r)
<1> USE HitFacts
<1>1. TypeOK /\ RequestInv(r) BY DEF Inv
<1>2. /\ pc[r] = "clear" /\ verdict[r] = "right" /\ job[r] \in Jobs /\ Open(r)
      /\ \A h \in Hits : h[1] = r => db[h] = NoRow
  BY <1>1 DEF Clear, RequestInv, Script, Open, Over
<1>3. /\ since' = since /\ job' = job /\ NoWrite /\ clock' = clock /\ verdict' = verdict
      /\ \A q \in Requests : q # r => Still(q)
      /\ pc'[r] = "clearing"
      /\ doomed'[r] = {h \in Hits : /\ PG!Visible(r, h) # NoRow
                                    /\ PG!Visible(r, h).bucket \in BucketsOf(job[r])}
  BY <1>1 DEF Clear, Goto, Still, TypeOK
<1>4. TypeOK'
  <2>1. pc' \in [Requests -> Pcs] BY <1>1 DEF Clear, Goto, TypeOK, Pcs
  <2>2. doomed' \in [Requests -> SUBSET Hits] BY <1>1 DEF Clear, TypeOK
  <2> QED BY <1>1, <1>3, <2>1, <2>2 DEF TypeOK, NoWrite, Pcs
<1>5. SameClaims(r) BY <1>2, <1>3 DEF SameClaims, Admitted, Open, Over
<1>6. Script(r)' BY <1>1, <1>2, <1>3 DEF RequestInv, Script, Open, Over, NoWrite
<1>7. Doomed(r)'
  <2> SUFFICES ASSUME NEW h \in doomed'[r]
               PROVE  (h[1] = r \/ pc'[h[1]] = "done") /\ OfClient(r, h)'
    BY <1>3 DEF Doomed
  <2>1. h \in Hits /\ PG!Visible(r, h) # NoRow
        /\ PG!Visible(r, h).bucket \in BucketsOf(job[r])
    BY <1>3
  <2>2. /\ h[1] = r \/ pc[h[1]] = "done"
        /\ db[h] = NoRow \/ PG!Visible(r, h) = db[h]
    BY <1>2, <2>1, VisibleFacts
  <2>3. h[1] = r \/ pc'[h[1]] = "done" BY <1>3, <2>1, <2>2 DEF Still
  <2>4. OfClient(r, h)' BY <1>3, <2>1, <2>2 DEF OfClient, NoWrite
  <2> QED BY <2>3, <2>4
<1> QED BY <1>2, <1>3, <1>4, <1>5, <1>6, <1>7, QuietStep

(***************************************************************************)
(* The writes: what a statement of r stores is r's until r is over.        *)
(***************************************************************************)
LEMMA StoreFacts ==
  ASSUME Inv, NEW r \in Requests, NEW vals, PG!StoreRows(r, vals), DOMAIN vals \subseteq Hits,
         \A h \in DOMAIN vals : vals[h] \in Hit \cup {NoRow}, SameClaims(r)
  PROVE  /\ db' = db /\ LockedWrites' /\ Frame(r) /\ Pooled' /\ Bounded'
         /\ work' \in [Hits -> Hit \cup {NoRow}] /\ lock' \in [Hits -> Requests \cup {Nobody}]
         /\ \A h \in Hits : lock'[h] = r =>
              \/ h \in DOMAIN vals /\ work'[h] = vals[h]
              \/ lock[h] = r /\ work'[h] = work[h]
<1> USE AbsentAssumption
<1>1. TypeOK /\ LockedWrites BY DEF Inv
<1>2. /\ db' = db
      /\ \A h \in Hits : IF h \in DOMAIN vals
                           THEN lock[h] \in {Nobody, r} /\ work'[h] = vals[h] /\ lock'[h] = r
                           ELSE work'[h] = work[h] /\ lock'[h] = lock[h]
  BY DEF PG!StoreRows, PG!Writable
<1>3. /\ work' \in [Hits -> Hit \cup {NoRow}] /\ lock' \in [Hits -> Requests \cup {Nobody}]
  BY <1>1 DEF PG!StoreRows, TypeOK
<1>4. LockedWrites' BY <1>1, <1>2 DEF LockedWrites
<1>5. Frame(r) BY <1>2 DEF Frame, SameClaims
<1>6. Pooled'
  <2>1. Kept' = Kept BY <1>2 DEF Kept
  <2> QED BY <2>1, SameBusy DEF Inv, Pooled
<1>7. Bounded' BY <1>2, NoNewClaims DEF SameClaims
<1> QED BY <1>2, <1>3, <1>4, <1>5, <1>6, <1>7

LEMMA RecordStep ==
  ASSUME Inv, NEW r \in Requests, Record(r)
  PROVE  StepOK(r)
<1> USE HitFacts
<1> DEFINE vals == [h \in {r} \X {"ip", "email"} |->
                      [bucket |-> Bucket(job[r], h[2]), at |-> since[r]]]
<1>1. TypeOK /\ RequestInv(r) BY DEF Inv
<1>2. /\ pc[r] = "record" /\ verdict[r] \in {"none", "wrong"} /\ job[r] \in Jobs /\ Open(r)
      /\ \A h \in Hits : lock[h] # r
      /\ \A h \in Hits : h[1] = r => db[h] = NoRow
  BY <1>1 DEF Record, RequestInv, Script, Open, Over
<1>3. /\ since' = since /\ job' = job /\ clock' = clock /\ verdict' = verdict
      /\ doomed' = doomed /\ \A q \in Requests : q # r => Still(q)
      /\ pc'[r] \in {"respond", "send", "purge"}
  BY <1>1 DEF Record, AfterRecord, Goto, Still, TypeOK
<1>4. SameClaims(r) BY <1>2, <1>3 DEF SameClaims, Admitted, Open, Over
<1>5. /\ PG!StoreRows(r, vals) /\ DOMAIN vals \subseteq Hits
      /\ \A h \in DOMAIN vals : h[1] = r /\ vals[h] = [bucket |-> Bucket(job[r], h[2]), at |-> since[r]]
  BY DEF Record, Hits
<1>6. \A h \in DOMAIN vals : vals[h] \in Hit \cup {NoRow}
  BY <1>1, <1>2, <1>5 DEF TypeOK, Hit
<1> HIDE DEF vals
<1>7. /\ db' = db /\ LockedWrites' /\ Frame(r) /\ Pooled' /\ Bounded'
      /\ work' \in [Hits -> Hit \cup {NoRow}] /\ lock' \in [Hits -> Requests \cup {Nobody}]
      /\ \A h \in Hits : lock'[h] = r =>
           h[1] = r /\ work'[h] = [bucket |-> Bucket(job[r], h[2]), at |-> since[r]]
  BY <1>2, <1>4, <1>5, <1>6, StoreFacts
<1>8. TypeOK'
  <2>1. pc' \in [Requests -> Pcs] BY <1>1 DEF Record, AfterRecord, Goto, TypeOK, Pcs
  <2> QED BY <1>1, <1>3, <1>7, <2>1 DEF TypeOK, Pcs
<1>9. RequestInv(r)'
  <2>1. Written(r)' BY <1>2, <1>3, <1>7 DEF Written, Admitted, Open, Over
  <2>2. Script(r)' BY <1>1, <1>2, <1>3, <1>7 DEF RequestInv, Script, Open, Over
  <2>3. Doomed(r)' BY <1>1, <1>2, <1>3 DEF RequestInv, Doomed
  <2> QED BY <2>1, <2>2, <2>3 DEF RequestInv
<1> QED BY <1>2, <1>3, <1>7, <1>8, <1>9 DEF StepOK

LEMMA DeleteStep ==
  ASSUME Inv, NEW r \in Requests, Delete(r)
  PROVE  StepOK(r)
<1> USE HitFacts
<1> DEFINE vals == [h \in doomed[r] |-> NoRow]
<1>1. TypeOK /\ RequestInv(r) BY DEF Inv
<1>2. /\ \/ pc[r] = "purging" /\ verdict[r] \in {"none", "wrong"}
         \/ pc[r] = "clearing" /\ verdict[r] = "right"
      /\ job[r] \in Jobs /\ Open(r)
      /\ \A h \in Hits : h[1] = r => db[h] = NoRow
  BY <1>1 DEF Delete, RequestInv, Script, Open, Over
<1>3. /\ since' = since /\ job' = job /\ clock' = clock /\ verdict' = verdict
      /\ doomed'[r] = {} /\ \A q \in Requests : q # r => Still(q)
      /\ pc'[r] \in {"respond", "send"} /\ (pc[r] = "clearing" => pc'[r] = "respond")
  BY <1>1 DEF Delete, AfterRecord, Goto, Still, TypeOK
<1>4. SameClaims(r) BY <1>2, <1>3 DEF SameClaims, Admitted, Open, Over
<1>5. PG!StoreRows(r, vals) /\ DOMAIN vals \subseteq Hits /\ DOMAIN vals = doomed[r]
      /\ \A h \in DOMAIN vals : vals[h] = NoRow
  BY <1>1 DEF Delete, TypeOK
<1> HIDE DEF vals
<1>6. /\ db' = db /\ LockedWrites' /\ Frame(r) /\ Pooled' /\ Bounded'
      /\ work' \in [Hits -> Hit \cup {NoRow}] /\ lock' \in [Hits -> Requests \cup {Nobody}]
      /\ \A h \in Hits : lock'[h] = r =>
           \/ h \in doomed[r] /\ work'[h] = NoRow
           \/ lock[h] = r /\ work'[h] = work[h]
  BY <1>4, <1>5, StoreFacts
<1>7. TypeOK'
  <2>1. pc' \in [Requests -> Pcs] BY <1>1 DEF Delete, AfterRecord, Goto, TypeOK, Pcs
  <2>2. doomed' \in [Requests -> SUBSET Hits] BY <1>1 DEF Delete, TypeOK
  <2> QED BY <1>1, <1>3, <1>6, <2>1, <2>2 DEF TypeOK, Pcs
<1>8. Written(r)'
  <2> SUFFICES ASSUME NEW h \in Hits, lock'[h] = r
               PROVE  \/ work'[h] = NoRow /\ Deletable(r, h)'
                      \/ /\ h[1] = r /\ Admitted(r, h[2])'
                         /\ work'[h] = [bucket |-> Bucket(job[r], h[2]), at |-> since[r]]
    BY <1>3 DEF Written
  <2>1. Deletable(r, h)' <=> Deletable(r, h) BY <1>3, <1>6 DEF Deletable, Old, OfClient
  <2>2. Admitted(r, h[2])' <=> Admitted(r, h[2]) BY <1>4 DEF SameClaims
  <2>3. CASE h \in doomed[r] /\ work'[h] = NoRow
    <3>1. Deletable(r, h) BY <1>1, <1>2, <2>3 DEF RequestInv, Doomed, Deletable
    <3> QED BY <2>1, <2>3, <3>1
  <2>4. CASE lock[h] = r /\ work'[h] = work[h]
    BY <1>1, <2>1, <2>2, <2>4 DEF RequestInv, Written
  <2> QED BY <1>6, <2>3, <2>4
<1>9. Script(r)' BY <1>1, <1>2, <1>3, <1>6 DEF RequestInv, Script, Open, Over
<1>10. Doomed(r)' BY <1>3 DEF Doomed
<1> QED BY <1>2, <1>3, <1>6, <1>7, <1>8, <1>9, <1>10 DEF StepOK, RequestInv, Open, Over

(***************************************************************************)
(* The end of the transaction.                                             *)
(***************************************************************************)
LEMMA CommitStep ==
  ASSUME Inv, NEW r \in Requests, Commit(r)
  PROVE  StepOK(r)
<1> USE HitFacts, AbsentAssumption
<1>1. TypeOK /\ RequestInv(r) /\ Pooled /\ LockedWrites BY DEF Inv
<1>2. /\ pc[r] = "told" /\ job[r] \in Jobs /\ Open(r)
      /\ \A h \in Hits : h[1] = r => db[h] = NoRow
  BY <1>1 DEF Commit, RequestInv, Script, Open, Over
<1>3. /\ since' = since /\ job' = job /\ clock' = clock /\ verdict' = verdict
      /\ doomed' = doomed /\ \A q \in Requests : q # r => Still(q)
      /\ pc'[r] = "done" /\ work' = work
      /\ \A h \in Hits : IF lock[h] = r THEN db'[h] = work[h] /\ lock'[h] = Nobody
                                        ELSE db'[h] = db[h] /\ lock'[h] = lock[h]
  BY <1>1 DEF Commit, PG!CommitTx, PG!Release, Goto, Still, TypeOK
<1>4. TypeOK'
  <2>1. pc' \in [Requests -> Pcs] BY <1>1, GotoType DEF Commit, Over, Pcs
  <2>2. db' \in [Hits -> Hit \cup {NoRow}] /\ lock' \in [Hits -> Requests \cup {Nobody}]
    BY <1>1 DEF Commit, PG!CommitTx, PG!Release, TypeOK
  <2> QED BY <1>1, <1>3, <2>1, <2>2 DEF TypeOK, Pcs
<1>5. LockedWrites' BY <1>1, <1>3 DEF LockedWrites
<1>6. \A h \in Hits : lock[h] = r =>
        \/ work[h] = NoRow
        \/ /\ h[1] = r /\ Admitted(r, h[2])
           /\ work[h] = [bucket |-> Bucket(job[r], h[2]), at |-> since[r]]
  BY <1>1 DEF RequestInv, Written
<1>7. Frame(r)
  <2>1. \A h \in Hits : db'[h] # db[h] =>
          /\ lock[h] = r /\ db'[h] = work[h]
          /\ db'[h] # NoRow => db[h] = NoRow /\ h[1] = r
    <3> SUFFICES ASSUME NEW h \in Hits, db'[h] # db[h]
                 PROVE  /\ lock[h] = r /\ db'[h] = work[h]
                        /\ db'[h] # NoRow => db[h] = NoRow /\ h[1] = r
      OBVIOUS
    <3>1. lock[h] = r /\ db'[h] = work[h] BY <1>3
    <3>2. db'[h] # NoRow => h[1] = r BY <1>6, <3>1
    <3> QED BY <1>2, <3>1, <3>2
  <2>2. \A h \in Hits, q \in Requests : q # r =>
          (lock'[h] = q <=> lock[h] = q) /\ (lock[h] = q => work'[h] = work[h])
    BY <1>3
  <2> QED BY <1>2, <1>3, <2>1, <2>2 DEF Frame
<1>8. Pooled'
  <2>1. Kept' \subseteq Kept \cup {<<r, "ip">>, <<r, "email">>}
    <3> SUFFICES ASSUME NEW h \in Hits, db'[h] # NoRow, db[h] = NoRow
                 PROVE  h \in {<<r, "ip">>, <<r, "email">>}
      BY DEF Kept
    <3>1. h[1] = r BY <1>3, <1>6
    <3> QED BY <3>1
  <2>2. IsFiniteSet(Kept \cup {<<r, "ip">>, <<r, "email">>})
    <3>1. IsFiniteSet({<<r, "ip">>} \cup {<<r, "email">>})
      BY FS_Singleton, FS_Union
    <3>2. IsFiniteSet(Kept \cup ({<<r, "ip">>} \cup {<<r, "email">>}))
      BY <1>1, <3>1, FS_Union DEF Pooled
    <3>3. Kept \cup ({<<r, "ip">>} \cup {<<r, "email">>}) = Kept \cup {<<r, "ip">>, <<r, "email">>}
      OBVIOUS
    <3> QED BY <3>2, <3>3
  <2>3. IsFiniteSet(Kept') BY <2>1, <2>2, FS_Subset
  <2>4. Busy' \subseteq Busy BY <1>2, <1>3 DEF Busy, Open, Over, Still
  <2>5. IsFiniteSet(Busy') /\ Cardinality(Busy') <= Cardinality(Busy)
    BY <1>1, <2>4, FS_Subset DEF Pooled
  <2>6. Cardinality(Busy') <= PoolSize
    BY <1>1, <2>5, FS_CardinalityType, LimitsAssumption DEF Pooled
  <2> QED BY <2>3, <2>5, <2>6 DEF Pooled
<1>9. Bounded'
  <2>1. ~ Open(r)' BY <1>3 DEF Open, Over
  <2>2. \A part \in {"ip", "email"} : Admitted(r, part)' => Admitted(r, part)
    BY <2>1 DEF Admitted
  <2>3. \A h \in Hits :
           \/ db'[h] \in {db[h], NoRow}
           \/ /\ h[1] = r /\ Admitted(r, h[2])
              /\ db'[h] = [bucket |-> Bucket(job[r], h[2]), at |-> since[r]]
    BY <1>3, <1>6
  <2> QED BY <1>3, <2>2, <2>3, NoNewClaims
<1>10. RequestInv(r)'
  <2>1. Written(r)' BY <1>3 DEF Written
  <2>2. Script(r)' BY <1>3 DEF Script, Open, Over
  <2>3. Doomed(r)' BY <1>1, <1>2, <1>3 DEF RequestInv, Doomed
  <2> QED BY <2>1, <2>2, <2>3 DEF RequestInv
<1> QED BY <1>2, <1>3, <1>4, <1>5, <1>7, <1>8, <1>9, <1>10 DEF StepOK

LEMMA UndoStep ==
  ASSUME Inv, NEW r \in Requests, Open(r), Undo(r), UNCHANGED <<clock, job, since, verdict>>
  PROVE  StepOK(r)
<1> USE HitFacts, AbsentAssumption
<1>1. TypeOK /\ RequestInv(r) /\ Pooled /\ LockedWrites BY DEF Inv
<1>2. pc[r] # "done" /\ \A h \in Hits : h[1] = r => db[h] = NoRow
  BY <1>1 DEF RequestInv, Script, Open, Over
<1>3. /\ doomed'[r] = {} /\ \A q \in Requests : q # r => Still(q)
      /\ pc'[r] \in {"lost", "failed"} /\ db' = db
      /\ \A h \in Hits : IF lock[h] = r THEN work'[h] = db[h] /\ lock'[h] = Nobody
                                        ELSE work'[h] = work[h] /\ lock'[h] = lock[h]
  BY <1>1 DEF Undo, PG!RollbackTx, PG!Release, Goto, Still, TypeOK
<1>4. TypeOK'
  <2>1. pc' \in [Requests -> Pcs] BY <1>1, GotoType DEF Undo, Over, Pcs
  <2>2. work' \in [Hits -> Hit \cup {NoRow}] /\ lock' \in [Hits -> Requests \cup {Nobody}]
    BY <1>1 DEF Undo, PG!RollbackTx, PG!Release, TypeOK
  <2>3. doomed' \in [Requests -> SUBSET Hits] BY <1>1 DEF Undo, TypeOK
  <2> QED BY <1>1, <1>3, <2>1, <2>2, <2>3 DEF TypeOK, Pcs
<1>5. LockedWrites' BY <1>1, <1>3 DEF LockedWrites
<1>6. Frame(r) BY <1>3 DEF Frame
<1>7. Pooled'
  <2>1. Kept' = Kept BY <1>3 DEF Kept
  <2>2. Busy' \subseteq Busy BY <1>3 DEF Busy, Open, Over, Still
  <2>3. IsFiniteSet(Busy') /\ Cardinality(Busy') <= Cardinality(Busy)
    BY <1>1, <2>2, FS_Subset DEF Pooled
  <2>4. Cardinality(Busy') <= PoolSize
    BY <1>1, <2>3, FS_CardinalityType, LimitsAssumption DEF Pooled
  <2> QED BY <1>1, <2>1, <2>3, <2>4 DEF Pooled
<1>8. Bounded'
  <2>1. ~ Open(r)' BY <1>3 DEF Open, Over
  <2>2. \A part \in {"ip", "email"} : Admitted(r, part)' => Admitted(r, part)
    BY <2>1 DEF Admitted
  <2> QED BY <1>3, <2>2, NoNewClaims
<1>9. RequestInv(r)'
  <2>1. Written(r)' BY <1>3 DEF Written
  <2>2. Script(r)' BY <1>2, <1>3 DEF Script, Open, Over
  <2>3. Doomed(r)' BY <1>3 DEF Doomed
  <2> QED BY <2>1, <2>2, <2>3 DEF RequestInv
<1> QED BY <1>2, <1>3, <1>4, <1>5, <1>6, <1>7, <1>8, <1>9 DEF StepOK

-----------------------------------------------------------------------------
LEMMA RequestStep ==
  ASSUME Inv, NEW r \in Requests, Advance(r) \/ SendRaises(r) \/ Fail(r)
  PROVE  StepOK(r)
<1>1. CASE Advance(r)
  BY <1>1, BeginStep, CheckEmailStep, VerifyStep, RecordStep, PurgeStep, ClearStep,
     DeleteStep, SendStep, RespondStep, CommitStep DEF Advance
<1>2. CASE SendRaises(r)
  <2>1. Open(r) BY <1>2 DEF SendRaises, Open, Over
  <2> QED BY <1>2, <2>1, UndoStep DEF SendRaises
<1>3. CASE Fail(r) BY <1>3, UndoStep DEF Fail
<1> QED BY <1>1, <1>2, <1>3

(* Time passing makes no hit younger.                                      *)
LEMMA TickStep ==
  ASSUME Inv, Tick
  PROVE  Inv'
<1>1. TypeOK /\ Pooled /\ LockedWrites /\ Bounded BY DEF Inv
<1>2. UNCHANGED <<db, work, lock, pc, job, since, doomed, verdict>> BY DEF Tick, NoWrite
<1>3. clock \in Nat /\ clock' = clock + 1 /\ clock' \in Time
  BY <1>1, LimitsAssumption DEF Tick, TypeOK, Time
<1>4. TypeOK' BY <1>1, <1>2, <1>3 DEF TypeOK
<1>5. Pooled' BY <1>1, <1>2 DEF Pooled, Kept, Busy, Open
<1>6. LockedWrites' BY <1>1, <1>2 DEF LockedWrites
<1>7. Bounded'
  BY <1>1, <1>2 DEF Bounded, Claims, Counted, Pending, Admitted, Open, Limit
<1>8. ASSUME NEW r \in Requests PROVE RequestInv(r)'
  <2>1. RequestInv(r) BY DEF Inv
  <2>2. \A h \in Hits : (Old(h) => Old(h)') /\ (OfClient(r, h) => OfClient(r, h)')
    <3> SUFFICES ASSUME NEW h \in Hits, Old(h), db[h] # NoRow PROVE Old(h)'
      BY <1>2 DEF Old, OfClient
    <3>1. db[h].at \in Nat BY <1>1, LimitsAssumption DEF TypeOK, Hit, Time
    <3> QED BY <1>2, <1>3, <3>1, LimitsAssumption DEF Old
  <2>3. Written(r)' BY <1>2, <2>1, <2>2 DEF RequestInv, Written, Deletable, Admitted, Open
  <2>4. Script(r)' BY <1>2, <2>1 DEF RequestInv, Script, Open
  <2>5. Doomed(r)'
    <3>1. \A h \in doomed[r] : h \in Hits BY <1>1 DEF TypeOK
    <3> QED BY <1>2, <2>1, <2>2, <3>1 DEF RequestInv, Doomed
  <2> QED BY <2>3, <2>4, <2>5 DEF RequestInv
<1> QED BY <1>4, <1>5, <1>6, <1>7, <1>8 DEF Inv

LEMMA InitInv == Init => Inv
<1> SUFFICES ASSUME Init PROVE Inv OBVIOUS
<1> USE AbsentAssumption, LimitsAssumption
<1>1. /\ \A h \in Hits : db[h] = NoRow /\ lock[h] = Nobody
      /\ \A r \in Requests : pc[r] = "idle" /\ doomed[r] = {} /\ verdict[r] = "none"
      /\ \A r \in Requests : ~ Open(r)
  BY DEF Init, PG!EmptyLocks, Open
<1>2. TypeOK BY DEF Init, PG!EmptyLocks, TypeOK, Time
<1>3. Pooled
  <2>1. Kept = {} /\ Busy = {} BY <1>1 DEF Kept, Busy
  <2> QED BY <2>1, FS_EmptySet DEF Pooled
<1>4. LockedWrites BY DEF Init, LockedWrites
<1>5. Bounded
  <2> SUFFICES ASSUME NEW b \in Buckets, NEW t \in Time
               PROVE  Cardinality(Claims(b, t)) <= Limit(b)
    BY DEF Bounded
  <2>1. Claims(b, t) = {}
    BY <1>1, HitFacts DEF Claims, Counted, InWindow, Pending, Admitted
  <2>2. Cardinality(Claims(b, t)) = 0 BY <2>1, FS_EmptySet
  <2> QED BY <2>2, LimitFacts
<1>6. \A r \in Requests : RequestInv(r)
  BY <1>1 DEF RequestInv, Written, Script, Doomed
<1> QED BY <1>2, <1>3, <1>4, <1>5, <1>6 DEF Inv

LEMMA NextInv == Inv /\ [Next]_vars => Inv'
<1> SUFFICES ASSUME Inv, [Next]_vars PROVE Inv' OBVIOUS
<1>1. ASSUME NEW r \in Requests, Advance(r) \/ SendRaises(r) \/ Fail(r) PROVE Inv'
  BY <1>1, RequestStep, OthersKeep
<1>2. CASE Tick BY <1>2, TickStep
<1>3. CASE UNCHANGED vars
  BY <1>3 DEF vars, Inv, TypeOK, Pooled, Kept, Busy, Open, LockedWrites, Bounded, Claims,
     Counted, Pending, Admitted, Limit, RequestInv, Written, Deletable, Old, OfClient, Script, Doomed
<1> QED BY <1>1, <1>2, <1>3 DEF Next

(* The inductive invariant: what is stored, what is about to be, and what  *)
(* each DELETE chose (RateLimitRepository, unit_of_work).                  *)
THEOREM Invariant == Spec => []Inv
BY InitInv, NextInv, PTL DEF Spec

(* Every variable keeps its type, however many requests and addresses there*)
(* are (is_blocked, record, reset and the transaction around them).        *)
THEOREM TypeCorrect == Spec => []TypeOK
<1>1. Inv => TypeOK BY DEF Inv
<1> QED BY <1>1, Invariant, PTL

(* The hits that count are some of the claims.                             *)
LEMMA ClaimsBoundHits == Inv => OvershootIsBounded
<1> SUFFICES ASSUME Inv, NEW b \in Buckets, NEW t \in Time
             PROVE  Cardinality(Counted(b, t - Window[b[1]], t)) <= Limit(b)
  BY DEF OvershootIsBounded, Limit
<1>1. IsFiniteSet(Claims(b, t)) /\ Cardinality(Claims(b, t)) \in Nat
  BY ClaimsFinite DEF Inv
<1>2. Counted(b, t - Window[b[1]], t) \subseteq Claims(b, t) BY DEF Claims
<1>3. /\ IsFiniteSet(Counted(b, t - Window[b[1]], t))
      /\ Cardinality(Counted(b, t - Window[b[1]], t)) <= Cardinality(Claims(b, t))
  BY <1>1, <1>2, FS_Subset
<1>4. Cardinality(Counted(b, t - Window[b[1]], t)) \in Nat BY <1>3, FS_CardinalityType
<1> QED BY <1>1, <1>3, <1>4, LimitFacts DEF Inv, Bounded

(* No window of time ever holds more than max_attempts - 1 hits of a bucket*)
(* and one pool's worth of them (is_blocked, record).                      *)
THEOREM OvershootBounded == Spec => []OvershootIsBounded
BY Invariant, ClaimsBoundHits, PTL

(* A hit that counts now goes only with the commit of a login that was     *)
(* right and that used this bucket.                                        *)
LEMMA OnlySuccessUnblocks ==
  ASSUME Inv, Next, NEW b \in Buckets,
         BlockedNow(b), ~ BlockedNow(b)', clock' = clock
  PROVE  \E r \in Requests : /\ pc[r] = "told" /\ pc'[r] = "done"
                             /\ verdict[r] = "right" /\ b \in BucketsOf(job[r])
<1> DEFINE counted == Counted(b, clock - Window[b[1]], clock)
<1>1. TypeOK /\ clock \in Nat /\ Window[b[1]] \in Nat /\ PurgeAfter \in Nat
      /\ Window[b[1]] <= PurgeAfter /\ MaxAttempts[b[1]] \in Nat
  BY LimitFacts, LimitsAssumption DEF Inv, TypeOK, Time
<1>2. PICK r \in Requests : StepOK(r)
  <2>1. ~ Tick BY <1>1 DEF Tick
  <2> QED BY <2>1, RequestStep DEF Next
<1>3. ~ (counted \subseteq counted')
  <2> SUFFICES ASSUME counted \subseteq counted' PROVE FALSE OBVIOUS
  <2>1. counted' \subseteq Kept' BY DEF Counted, InWindow, Kept
  <2>2. IsFiniteSet(counted') BY <1>2, <2>1, FS_Subset DEF StepOK, Pooled
  <2>3. /\ Cardinality(counted) <= Cardinality(counted')
        /\ Cardinality(counted) \in Nat /\ Cardinality(counted') \in Nat
    BY <2>2, FS_Subset, FS_CardinalityType
  <2>4. /\ Cardinality(counted) >= MaxAttempts[b[1]]
        /\ ~ (Cardinality(counted') >= MaxAttempts[b[1]])
    BY DEF BlockedNow
  <2> HIDE DEF counted
  <2> QED BY <1>1, <2>3, <2>4
<1>4. PICK h \in counted : h \notin counted' BY <1>3
<1>5. h \in Hits /\ db[h] # NoRow /\ db[h].bucket = b
      /\ db[h].at >= clock - Window[b[1]] /\ db[h].at <= clock /\ db'[h] # db[h]
  BY <1>4 DEF Counted, InWindow
<1>6. lock[h] = r /\ work[h] = NoRow /\ pc[r] = "told" /\ pc'[r] = "done"
  BY <1>2, <1>5 DEF StepOK, Frame
<1>7. Deletable(r, h)
  <2>1. Written(r) BY DEF Inv, RequestInv
  <2>2. [bucket |-> Bucket(job[r], h[2]), at |-> since[r]] # NoRow \/ Deletable(r, h)
    <3>1. Script(r) /\ Open(r) BY <1>6 DEF Inv, RequestInv, Open, Over
    <3>2. [bucket |-> Bucket(job[r], h[2]), at |-> since[r]] \in Hit
      BY <1>1, <1>5, <3>1, HitFacts DEF Script, TypeOK, Hit
    <3> QED BY <3>2, AbsentAssumption
  <2> QED BY <1>5, <1>6, <2>1, <2>2 DEF Written
<1>8. ~ Old(h)
  <2>1. db[h].at \in Nat
    BY <1>1, <1>5, LimitsAssumption DEF TypeOK, Hit, Time
  <2> QED BY <1>1, <1>5, <2>1 DEF Old
<1> QED BY <1>5, <1>6, <1>7, <1>8 DEF Deletable, OfClient

(* A bucket without attempts left is unblocked by time, or by the commit of*)
(* a login with the right password that used it (rate_limit.reset).        *)
THEOREM UnblockedBySuccess == Spec => BlockedStaysBlocked
<1>1. Inv /\ [Next]_vars =>
        [\A b \in Buckets : BlockedNow(b) /\ ~BlockedNow(b)' /\ clock' = clock =>
           \E r \in Requests : /\ pc[r] = "told" /\ pc'[r] = "done"
                               /\ verdict[r] = "right" /\ b \in BucketsOf(job[r])]_vars
  BY OnlySuccessUnblocks
<1> QED BY <1>1, Invariant, PTL DEF Spec, BlockedStaysBlocked
=============================================================================
