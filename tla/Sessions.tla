------------------------------- MODULE Sessions -------------------------------
(***************************************************************************)
(* Sign-in sessions and user administration: auth/service.py,              *)
(* auth/router.py, users/ and the user endpoints of admin/router.py.       *)
(*                                                                         *)
(* Every request is one transaction and runs its statements one by one,    *)
(* interleaved with those of the other requests.  The database is READ     *)
(* COMMITTED: a statement sees what was committed when it started; an      *)
(* UPDATE waits for the locks on the rows it found, then leaves out the    *)
(* rows that no longer match.  A request's own updates (held) show when it *)
(* commits.  Any refresh token ever issued may be presented, by a second   *)
(* tab, a retry or whoever copied it.                                      *)
(***************************************************************************)
EXTENDS Naturals, FiniteSets, Sequences

CONSTANTS Users,            \* user ids
          Slots,            \* bound: requests that may be open at a time
          MaxTokens,        \* bound: refresh tokens issued
          MaxArrivals,      \* bound: requests that arrive
          Holders,          \* bound: users who sign in
          Changes,          \* changes administrators make
          FirstAdmins,      \* active administrators at the start (the seed)
          FirstUsers,       \* other active users at the start
          SignedIn,         \* whose session each of the first tokens is
          NoUser, NoToken

ASSUME SessionsAssumption ==
  /\ Slots \in Nat /\ MaxTokens \in Nat /\ MaxArrivals \in Nat
  /\ Holders \subseteq Users
  /\ Changes \subseteq {"password", "deactivate", "activate", "demote", "promote"}
  /\ FirstAdmins \subseteq Users /\ FirstUsers \subseteq Users \ FirstAdmins
  /\ NoUser \notin Users
  /\ SignedIn \in Seq(Holders)
  /\ Len(SignedIn) + MaxArrivals <= MaxTokens    \* a request issues one at most
  /\ NoToken \notin 1..MaxTokens

Tokens   == 1..MaxTokens
Requests == 1..Slots

(* RefreshToken.revoked and revoked_reason.  "expired": not revoked, past  *)
(* expires_at.  "spent" and "rotated" are both reason rotated, "rotated"   *)
(* within REFRESH_REUSE_GRACE_SECONDS of revoked_at, "spent" later.        *)
Reasons  == {"rotated", "reuse", "logout", "password", "deactivated"}
Revoked  == Reasons \union {"spent"}
Statuses == {"none", "live", "expired", "deleted"} \union Revoked

VARIABLES users,    \* committed rows of users
          status,   \* committed status of each refresh token
          owner,    \* user_id
          family,   \* family_id: the token the sign-in issued
          req,      \* the request in each slot
          arrivals  \* requests that have arrived

vars == <<users, status, owner, family, req, arrivals>>

(* at: the next statement.  user: whose row or sessions it is about.  tok: *)
(* the refresh token presented.  whom: users whose sessions are to be      *)
(* revoked; left: those still to do.  snap: rows the statement found.      *)
(* held: rows it has updated.  change: of an administrator; dirty: the     *)
(* user row is to be written.  lock: on the user row.  known: tokens       *)
(* issued before the request began to revoke (history, for                 *)
(* SignOutIsComplete).                                                     *)
Idle == [op |-> "none", at |-> "idle", user |-> NoUser, actor |-> NoUser,
         tok |-> NoToken, whom |-> {}, left |-> {}, snap |-> {}, held |-> {},
         change |-> "none", dirty |-> FALSE, lock |-> "none", known |-> {}]
Over == [Idle EXCEPT !.at = "done"]      \* committed and answered

NoRow == [row |-> "none", active |-> FALSE, admin |-> FALSE]

Present(u) == users[u].row = "present"
Active(u)  == Present(u) /\ users[u].active
IsAdmin(u) == Active(u) /\ users[u].admin

Issued       == {t \in Tokens : status[t] # "none"}
Rows         == {t \in Tokens : status[t] \notin {"none", "deleted"}}
Unrevoked(t) == status[t] \in {"live", "expired"}

Init == /\ users = [u \in Users |->
                      IF u \in FirstAdmins \union FirstUsers
                        THEN [row |-> "present", active |-> TRUE, admin |-> u \in FirstAdmins]
                        ELSE NoRow]
        /\ status = [t \in Tokens |-> IF t \in DOMAIN SignedIn THEN "live" ELSE "none"]
        /\ owner  = [t \in Tokens |-> IF t \in DOMAIN SignedIn THEN SignedIn[t] ELSE NoUser]
        /\ family = [t \in Tokens |-> t]
        /\ req    = [r \in Requests |-> Idle]
        /\ arrivals = 0

-----------------------------------------------------------------------------
(* Locks of the other requests that this one has to wait for. *)

TokensFree(r, S) == \A q \in Requests \ {r} : req[q].held \intersect S = {}

UserFree(r, u, modes) ==
  \A q \in Requests \ {r} : req[q].user = u => req[q].lock \notin modes

UnchangedData == UNCHANGED <<users, status, owner, family, arrivals>>

Free(r) == req[r] \in {Idle, Over}

(* A request takes the first free slot. *)
Begin(r, t) == /\ arrivals < MaxArrivals
               /\ Free(r) /\ \A q \in 1..(r - 1) : ~Free(q)
               /\ req' = [req EXCEPT ![r] = t]
               /\ arrivals' = arrivals + 1
               /\ UNCHANGED <<users, status, owner, family>>

(* A request that revokes the sessions of some users. *)
Revoking(op, S) == [Idle EXCEPT !.op = op, !.at = "sweep", !.whom = S, !.left = S,
                                !.known = Issued]

Goes(r, at) == req' = [req EXCEPT ![r].at = at] /\ UnchangedData

(* The transaction is over: committed, or rolled back. *)
Done(r)     == req' = [req EXCEPT ![r] = Over] /\ UNCHANGED arrivals
Abandon(r)  == req' = [req EXCEPT ![r] = Idle] /\ UnchangedData

-----------------------------------------------------------------------------
(* How each endpoint starts: the queries and checks up to its first write. *)

(* login, with the right password (a wrong one changes nothing). *)
login(r, u) ==
  /\ Active(u)
  /\ Begin(r, [Idle EXCEPT !.op = "login", !.at = "touch", !.user = u])

(* refresh: the row of the token presented.  A token that is unknown,      *)
(* expired, rotated within the grace period or revoked for another reason  *)
(* gets a 401 and changes nothing; one rotated earlier is a reuse.         *)
refresh(r, t) ==
  \/ /\ status[t] = "live"
     /\ Begin(r, [Idle EXCEPT !.op = "refresh", !.at = "user", !.tok = t, !.user = owner[t]])
  \/ /\ status[t] = "spent"
     /\ Begin(r, [Revoking("reuse", {owner[t]}) EXCEPT !.tok = t])

(* Broken variant: a request without an access token is not told apart.    *)
NamedOrNone(cookie, bearer) == {owner[t] : t \in Rows \intersect {cookie}} \union {bearer}

(* logout: by the cookie, by the access token, or by both, which need not  *)
(* be of one user when two tabs are signed in differently.                 *)
Named(cookie, bearer) ==
  {owner[t] : t \in Rows \intersect {cookie}} \union ({bearer} \ {NoUser})

logout(r, cookie, bearer) ==
  /\ Named(cookie, bearer) # {}
  /\ Begin(r, Revoking("logout", Named(cookie, bearer)))

(* update_self with a new password and the right current one. *)
update_self(r, u) ==
  /\ Active(u)
  /\ Begin(r, [Revoking("password", {u}) EXCEPT !.user = u, !.dirty = TRUE])

(* The column is written only if it differs from the row that was read. *)
Writes(u, change) ==
  CASE change = "password"   -> TRUE
    [] change = "deactivate" -> users[u].active
    [] change = "activate"   -> ~users[u].active
    [] change = "demote"     -> users[u].admin
    [] change = "promote"    -> ~users[u].admin

(* admin update_user: another user's row, never the administrator's own.   *)
update_user(r, a, u, change) ==
  /\ IsAdmin(a)
  /\ u # a
  /\ Present(u)
  /\ \/ /\ change \in {"password", "deactivate"}
        /\ Begin(r, [Revoking("admin", {u}) EXCEPT !.user = u, !.actor = a,
                                !.change = change, !.dirty = Writes(u, change)])
     \/ /\ change \notin {"password", "deactivate"}
        /\ Writes(u, change)
        /\ Begin(r, [Idle EXCEPT !.op = "admin", !.at = "touch", !.user = u, !.actor = a,
                                !.change = change, !.dirty = TRUE])

(* Broken variant: administrators may delete themselves.                   *)
delete_anyone(r, a, u) ==
  /\ IsAdmin(a)
  /\ Present(u)
  /\ Begin(r, [Revoking("delete", {u}) EXCEPT !.user = u, !.actor = a])

(* admin delete_user: not oneself. *)
delete_user(r, a, u) ==
  /\ IsAdmin(a)
  /\ Present(u)
  /\ u # a
  /\ Begin(r, [Revoking("delete", {u}) EXCEPT !.user = u, !.actor = a])

(* admin create_user and auth register: an e-mail nobody has. *)
create_user(r, a, u, role) ==
  /\ IsAdmin(a)
  /\ users[u].row = "none"
  /\ Begin(r, [Idle EXCEPT !.op = "create", !.at = "insert", !.user = u, !.actor = a,
                           !.change = role])

-----------------------------------------------------------------------------
(* The statements that follow. *)

(* refresh reads the owner of the token.  An inactive one loses all tokens. *)
ReadUser(r) ==
  /\ req[r].at = "user"
  /\ \/ /\ Active(req[r].user)
        /\ Goes(r, "claim")
     \/ /\ ~Active(req[r].user)
        /\ req' = [req EXCEPT ![r] = Revoking("inactive", {req[r].user})]
        /\ UnchangedData

(* Broken variant: the token is spent on the strength of the earlier read. *)
ClaimUnchecked(r) ==
  /\ req[r].at = "claim"
  /\ TokensFree(r, {req[r].tok})
  /\ req' = [req EXCEPT ![r] = [@ EXCEPT !.held = {req[r].tok}, !.at = "issue"]]
  /\ UnchangedData

(* The UPDATE that spends the token: only while it is not revoked. *)
Claim(r) ==
  /\ req[r].at = "claim"
  /\ TokensFree(r, {req[r].tok})
  /\ \/ /\ Unrevoked(req[r].tok)
        /\ req' = [req EXCEPT ![r] = [@ EXCEPT !.held = {req[r].tok}, !.at = "issue"]]
        /\ UnchangedData
     \/ /\ ~Unrevoked(req[r].tok)
        /\ Abandon(r)

(* Broken variant: a reuse revokes the token presented and not its family. *)
FoundAlone(r, u) ==
  {t \in Rows : IF req[r].op = "reuse" THEN t = req[r].tok ELSE owner[t] = u}

(* The rows an UPDATE or SELECT of this request finds when it starts. *)
Found(r, u) ==
  CASE req[r].op = "reuse"  -> {t \in Tokens : Unrevoked(t) /\ family[t] = family[req[r].tok]}
    [] req[r].op = "delete" -> {t \in Rows : owner[t] = u}
    [] OTHER                -> {t \in Tokens : Unrevoked(t) /\ owner[t] = u}

(* revoke_refresh_tokens, _revoke_family, or delete_user's cascade: the    *)
(* statement starts ...                                                    *)
Sweep(r) ==
  /\ req[r].at = "sweep"
  /\ \E u \in req[r].left :
       req' = [req EXCEPT ![r] = [req[r] EXCEPT !.snap = Found(r, u), !.left = @ \ {u},
                                                !.at = "lock"]]
  /\ UnchangedData

(* ... and ends once no other request holds a row it found, with those     *)
(* that still match.                                                       *)
StillMatch(r) ==
  {t \in req[r].snap : IF req[r].op = "delete" THEN t \in Rows ELSE Unrevoked(t)}

AfterLock(r) ==
  IF req[r].left # {} THEN "sweep"
  ELSE IF req[r].op = "delete" THEN "drop"
  ELSE IF req[r].dirty THEN "touch" ELSE "commit"

Lock(r) ==
  /\ req[r].at = "lock"
  /\ TokensFree(r, req[r].snap)
  /\ req' = [req EXCEPT ![r] = [req[r] EXCEPT !.held = @ \union StillMatch(r), !.snap = {},
                                              !.at = AfterLock(r)]]
  /\ UnchangedData

(* Broken variant: the write waits for a row that is gone.                 *)
TouchPresent(r) ==
  /\ req[r].at = "touch" /\ Present(req[r].user)
  /\ UserFree(r, req[r].user, {"write", "drop"})
  /\ req' = [req EXCEPT ![r] = [@ EXCEPT !.lock = "write",
       !.at = IF req[r].op = "admin" THEN "commit" ELSE "issue"]]
  /\ UnchangedData

(* update_last_login, and the flush of a changed user row.  An UPDATE of a *)
(* row that is gone fails (at login, the insert that follows does).        *)
Touch(r) ==
  /\ req[r].at = "touch"
  /\ UserFree(r, req[r].user, {"write", "drop"})
  /\ \/ /\ Present(req[r].user)
        /\ req' = [req EXCEPT ![r] = [@ EXCEPT !.lock = "write",
             !.at = IF req[r].op = "admin" THEN "commit" ELSE "issue"]]
        /\ UnchangedData
     \/ /\ ~Present(req[r].user)
        /\ Abandon(r)

Reason(r) ==
  CASE req[r].op = "refresh"       -> "rotated"
    [] req[r].op = "reuse"         -> "reuse"
    [] req[r].op = "logout"        -> "logout"
    [] req[r].op = "inactive"      -> "deactivated"
    [] req[r].op = "admin" /\ req[r].change = "deactivate" -> "deactivated"
    [] OTHER                       -> "password"

Marked(r) == [t \in Tokens |-> IF t \in req[r].held THEN Reason(r) ELSE status[t]]

FirstUnused(n) == n \in Tokens \ Issued /\ \A t \in Tokens \ Issued : n <= t

(* _issue_tokens and the commit.  The foreign key waits for a deletion of  *)
(* the user and fails when it has happened.  A refresh stays in its        *)
(* family; a login or password change starts one.                          *)
Issue(r, n) ==
  /\ req[r].at = "issue"
  /\ UserFree(r, req[r].user, {"drop"})
  /\ FirstUnused(n)
  /\ \/ /\ Present(req[r].user)
        /\ status' = [Marked(r) EXCEPT ![n] = "live"]
        /\ owner'  = [owner EXCEPT ![n] = req[r].user]
        /\ family' = [family EXCEPT ![n] = IF req[r].op = "refresh"
                                             THEN family[req[r].tok] ELSE n]
        /\ Done(r)
        /\ UNCHANGED users
     \/ /\ ~Present(req[r].user)
        /\ Abandon(r)

Changed(u, change) ==
  CASE change = "deactivate" -> [users EXCEPT ![u].active = FALSE]
    [] change = "activate"   -> [users EXCEPT ![u].active = TRUE]
    [] change = "demote"     -> [users EXCEPT ![u].admin = FALSE]
    [] change = "promote"    -> [users EXCEPT ![u].admin = TRUE]
    [] OTHER                 -> users

(* The commit of the others: get_db's, or the one of _commit_then_reject,  *)
(* which comes before the exception that would roll it back.               *)
Commit(r) ==
  /\ req[r].at = "commit"
  /\ status' = Marked(r)
  /\ users' = IF req[r].dirty THEN Changed(req[r].user, req[r].change) ELSE users
  /\ Done(r)
  /\ UNCHANGED <<owner, family>>

(* create_user's insert: the unique e-mail decides. *)
Insert(r) ==
  /\ req[r].at = "insert"
  /\ \/ /\ users[req[r].user].row = "none"
        /\ users' = [users EXCEPT ![req[r].user] =
             [row |-> "present", active |-> TRUE, admin |-> req[r].change = "admin"]]
        /\ Done(r)
        /\ UNCHANGED <<status, owner, family>>
     \/ /\ users[req[r].user].row # "none"
        /\ Abandon(r)

(* delete_user: the row itself, then by cascade the tokens left.  Tokens   *)
(* issued after its SELECT may be held by a refresh that waits for it.     *)
Drop(r) ==
  /\ req[r].at = "drop"
  /\ UserFree(r, req[r].user, {"write", "drop"})
  /\ \/ /\ Present(req[r].user)
        /\ req' = [req EXCEPT ![r] = [@ EXCEPT !.lock = "drop", !.at = "cascade"]]
        /\ UnchangedData
     \/ /\ ~Present(req[r].user)
        /\ Abandon(r)

OfUser(u) == {t \in Rows : owner[t] = u}

Cascade(r) ==
  /\ req[r].at = "cascade"
  /\ TokensFree(r, OfUser(req[r].user))
  /\ users' = [users EXCEPT ![req[r].user] = [NoRow EXCEPT !.row = "deleted"]]
  /\ status' = [t \in Tokens |-> IF t \in OfUser(req[r].user) THEN "deleted" ELSE status[t]]
  /\ Done(r)
  /\ UNCHANGED <<owner, family>>

Step(r) == \/ ReadUser(r) \/ Claim(r) \/ Sweep(r) \/ Lock(r) \/ Touch(r)
           \/ (\E n \in Tokens : Issue(r, n))
           \/ Commit(r) \/ Insert(r) \/ Drop(r) \/ Cascade(r)

(* An error, a killed worker or a dropped connection: rolled back. *)
Rollback(r) == ~Free(r) /\ Abandon(r)

(* The database breaks a deadlock: a deletion that has the user row waits  *)
(* for tokens of a request that waits for that row.                        *)
Deadlocked(r, q) ==
  /\ req[r].at = "cascade" /\ req[q].at \in {"touch", "issue", "drop"}
  /\ req[q].user = req[r].user
  /\ req[q].held \intersect OfUser(req[r].user) # {}

Victim == \E r \in Requests, q \in Requests :
            r # q /\ Deadlocked(r, q) /\ (Abandon(r) \/ Abandon(q))

(* Time. *)
GraceEnds(t) == /\ status[t] = "rotated"
                /\ status' = [status EXCEPT ![t] = "spent"]
                /\ UNCHANGED <<users, owner, family, req, arrivals>>

Expire(t) == /\ status[t] = "live"
             /\ status' = [status EXCEPT ![t] = "expired"]
             /\ UNCHANGED <<users, owner, family, req, arrivals>>

Arrive(r) ==
  \/ \E u \in Holders : login(r, u) \/ update_self(r, u)
  \/ \E t \in Tokens : refresh(r, t)
  \/ \E t \in Tokens \union {NoToken}, u \in Holders \union {NoUser} : logout(r, t, u)
  \/ \E a \in Users, u \in Users :
       \/ \E c \in Changes : update_user(r, a, u, c)
       \/ \E role \in {"admin", "user"} : create_user(r, a, u, role)
       \/ delete_user(r, a, u)

Next == \/ \E r \in Requests : Arrive(r) \/ Step(r) \/ Rollback(r)
        \/ Victim
        \/ \E t \in Tokens : GraceEnds(t) \/ Expire(t)

Spec == Init /\ [][Next]_vars

(* The database grants row locks in turn and breaks deadlocks; a request   *)
(* that can go on does.  Nobody has to send a request, and none has to     *)
(* fail.                                                                   *)
LiveSpec == /\ Spec
            /\ \A r \in Requests : SF_vars(Step(r))
            /\ WF_vars(Victim)

-----------------------------------------------------------------------------
RequestStates ==
  [op : {"none", "login", "refresh", "reuse", "inactive", "logout", "password", "admin",
         "delete", "create"},
   at : {"idle", "user", "claim", "sweep", "lock", "touch", "issue", "commit", "insert",
         "drop", "cascade", "done"},
   user : Users \union {NoUser}, actor : Users \union {NoUser},
   tok : Tokens \union {NoToken}, whom : SUBSET Users, left : SUBSET Users,
   snap : SUBSET Tokens, held : SUBSET Tokens, dirty : BOOLEAN,
   change : Changes \union {"none", "admin", "user"},
   lock : {"none", "write", "drop"}, known : SUBSET Tokens]

TypeOK ==
  /\ users \in [Users -> [row : {"none", "present", "deleted"},
                          active : BOOLEAN, admin : BOOLEAN]]
  /\ status \in [Tokens -> Statuses]
  /\ owner \in [Tokens -> Users \union {NoUser}]
  /\ family \in [Tokens -> Tokens]
  /\ req \in [Requests -> RequestStates]
  /\ arrivals \in 0..MaxArrivals

(* The sessions a request is there to end. *)
InScope(r, t) == IF req[r].op = "reuse" THEN family[t] = family[req[r].tok]
                                        ELSE owner[t] \in req[r].whom

Commits(r) == ~Free(r) /\ req'[r] = Over

(* When a logout, a password change or reset, a deactivation, a deletion,  *)
(* the refusal of an inactive user or the detection of a reuse commits, no *)
(* token issued before it began is left to spend: only a sign-in or        *)
(* rotation that overlapped it can leave one (users/service.py:34-42,      *)
(* auth/service.py:182-197, admin/router.py:110-117).                      *)
SignOutIsComplete ==
  [][\A r \in Requests : Commits(r) =>
       \A t \in req[r].known : InScope(r, t) => status'[t] \notin {"live", "expired"}]_vars

(* Requests implement SessionLifecycle: a token is exchanged at most once, *)
(* for one of the same session, and what was revoked never comes back, in  *)
(* spite of the reads the requests decide on being out of date             *)
(* (auth/service.py:101-112).                                              *)
Lifecycle == INSTANCE SessionLifecycle WITH
  live <- {t \in Tokens : Unrevoked(t)}, used <- Issued, session <- family

ImplementsLifecycle == Lifecycle!Spec

Admins == {u \in Users : IsAdmin(u)}

(* The last active administrator is removed only by a request whose own    *)
(* administrator was removed while it ran: administrators cannot remove    *)
(* themselves, and nobody else can (admin/router.py:82-89, 244-245).       *)
LastAdminOnlyByRace ==
  [][(Admins # {} /\ Admins' = {}) =>
       \E r \in Requests : Commits(r) /\ req[r].actor \notin Admins]_vars

(* A request is answered: row locks, which are taken in different orders   *)
(* by different endpoints, never leave one waiting for ever.               *)
EveryRequestAnswered ==
  \A r \in Requests : ~Free(r) ~> Free(r)
=============================================================================
