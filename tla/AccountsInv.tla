---------------------------- MODULE AccountsInv ----------------------------
(***************************************************************************)
(* The inductive invariant of Accounts: what holds of the database between *)
(* any two statements, and what each request may count on at each of its   *)
(* own. TLC checks it on small instances, Accounts_proofs proves it.       *)
(***************************************************************************)
EXTENDS Accounts

Minted(r) == {SessionRow(r), LinkRow(r)}

(* An uncommitted version differs from the committed one only under a lock.*)
LockedWrites == \A row \in Row : lock[row] = Nobody => work[row] = db[row]

(* An uncommitted version never deletes, revives or gives away a row.      *)
WorkFollows ==
  \A row \in Row : Present(row) =>
    /\ work[row] # NoRow
    /\ row \in Credentials =>
         /\ work[row].owner = db[row].owner
         /\ db[row].ended => work[row].ended

(* A credential that is not committed is locked by the request minting it. *)
OwnMinting ==
  \A row \in Credentials, r \in Requests :
    lock[row] = r => Present(row) \/ row \in Minted(r)

(* The foreign keys: a session or a link always has its account.           *)
OwnersExist ==
  /\ \A row \in Credentials : Present(row) => Present(UserRow(db[row].owner))
  /\ \A row \in Credentials, r \in Requests :
       lock[row] = r /\ work[row] # NoRow => Visible(r, UserRow(work[row].owner)) # NoRow

DbInv == LockedWrites /\ WorkFollows /\ OwnMinting /\ OwnersExist

-----------------------------------------------------------------------------
(* The credential is ended, or will be when r commits.                     *)
Gone(r, row) == db[row].ended \/ (lock[row] = r /\ work[row].ended)

(* The credentials of the account of r that were open when r arrived.      *)
Earlier(r, table) == {row \in past[r].open \cap table : db[row].owner = who[r]}

AfterRevoke == {"invalidate", "invalidating", "open"}
AfterInvalidate == {"open", "issue", "send"}

Answered(r, op) == pc[r] \in {"respond", "told"} /\ Granted(r, op)

(* The account a request has loaded is visible to it from then on.         *)
Loaded(r) ==
  /\ pc[r] \in {"rehash", "spend", "setpw", "revoke", "revoking", "invalidate",
                "invalidating", "issue"} =>
       who[r] \in Users /\ Present(UserRow(who[r]))
  /\ pc[r] = "open" => who[r] \in Users /\ Visible(r, UserRow(who[r])) # NoRow
  /\ pc[r] = "create" => who[r] \in Users

(* Which request can be at which step.                                     *)
Script(r) ==
  /\ pc[r] # "idle" => job[r] \in Jobs
  /\ pc[r] \in {"spend", "setpw", "revoke", "revoking"} => job[r].op = "reset"
  /\ pc[r] \in {"rehash"} => job[r].op = "login"
  /\ pc[r] = "create" => job[r].op = "register"
  /\ pc[r] \in {"invalidate", "invalidating"} => job[r].op \in {"reset", "forgot"}
  /\ pc[r] \in {"issue", "send"} => job[r].op = "forgot"
  /\ pc[r] = "touch" => job[r].op = "page"
  /\ pc[r] = "end" => job[r].op = "logout"
  /\ pc[r] = "open" => job[r].op \in Openers
  /\ pc[r] \in Steps \ {"respond", "told", "done", "failed", "lost"} => verdict[r] = "none"
  /\ pc[r] \in {"idle", "read"} => who[r] = Nobody

(* The rows a request is about to write are there.                         *)
Targets(r) ==
  /\ pc[r] = "spend" => Present(LinkRow(job[r].key))
  /\ pc[r] \in {"touch", "end"} => Present(SessionRow(job[r].key))
  /\ \A row \in todo[r] : Present(row)
  /\ \A row \in past[r].open : Present(row)

(* How far the two UPDATEs of a password change have got.                  *)
Swept(r) ==
  /\ pc[r] = "revoking" =>
       \A row \in Earlier(r, SessionRows) : row \in todo[r] \/ Gone(r, row)
  /\ (job[r].op = "reset" /\ pc[r] \in AfterRevoke) \/ Answered(r, {"reset"}) =>
       \A row \in Earlier(r, SessionRows) : Gone(r, row)
  /\ pc[r] = "invalidating" =>
       \A row \in Earlier(r, LinkRows) : row \in todo[r] \/ Gone(r, row)
  /\ \/ job[r].op \in {"reset", "forgot"} /\ pc[r] \in AfterInvalidate
     \/ Answered(r, {"reset", "forgot"})
     => \A row \in Earlier(r, LinkRows) : Gone(r, row)
  /\ pc[r] = "done" /\ Granted(r, {"reset"}) =>
       \A row \in Earlier(r, SessionRows) : db[row].ended
  /\ pc[r] = "done" /\ Granted(r, {"reset", "forgot"}) =>
       \A row \in Earlier(r, LinkRows) : db[row].ended

(* A request starts without a lock. Until it commits, nobody else can see  *)
(* what it mints, and until it gets there, neither can its own UPDATEs.    *)
Minting == {"send", "respond", "told", "done", "failed", "lost"}

Unborn(r) ==
  /\ pc[r] \in {"idle", "read"} => \A row \in Row : lock[row] # r
  /\ pc[r] # "done" => \A row \in Minted(r) : ~Present(row)
  /\ pc[r] \in Steps \ Minting => \A row \in Minted(r) : lock[row] # r

ReqInv(r) == Loaded(r) /\ Script(r) /\ Targets(r) /\ Swept(r) /\ Unborn(r)

IInv == TypeOK /\ DbInv /\ \A r \in Requests : ReqInv(r)
=============================================================================
