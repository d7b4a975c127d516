---------------------------- MODULE SessionsProofs ----------------------------
(***************************************************************************)
(* Proofs about Sessions, for any number of users, tokens and concurrent   *)
(* requests: the types, that a sign-out is complete, that the requests     *)
(* implement SessionLifecycle, that a session therefore has one live token *)
(* at most, and who can remove the last administrator.                     *)
(***************************************************************************)
EXTENDS Sessions, TLAPS

(* The invariant, over the values of the variables: st, ow and fam stand   *)
(* for status, owner and family, x for a request.                          *)
Known(st)   == {t \in Tokens : st[t] # "none"}
Live(st, t) == st[t] \in {"live", "expired"}

(* Which statements which endpoint gets to, and that a transaction goes on *)
(* only when it has swept the sessions of everybody it is to sign out.     *)
Shape(x) ==
  /\ x \in RequestStates
  /\ x.op = "refresh" => x.tok \in Tokens /\ x.at \in {"user", "claim", "issue"}
  /\ x.at \in {"user", "claim"} => x.op = "refresh" /\ x.held = {}
  /\ x.op = "delete" => x.whom = {x.user} /\ x.at \in {"sweep", "lock", "drop", "cascade"}
  /\ x.at \in {"drop", "cascade"} => x.op = "delete"
  /\ x.at \notin {"sweep", "lock"} => x.left = {}
  /\ x.at = "insert" => x.known = {}
  /\ x.user \notin Users => ~x.dirty /\ x.at \in {"idle", "done", "sweep", "lock", "commit"}

(* A request holds rows that exist, and the token a refresh has spent is   *)
(* one that the commit will revoke.                                        *)
Holds(x, st) ==
  /\ x.held \subseteq Known(st) /\ x.known \subseteq Known(st)
  /\ x.op = "reuse" => x.tok \in Known(st)
  /\ (x.op = "refresh" /\ x.at = "issue") => x.held = {x.tok} /\ Live(st, x.tok)

Scope(x, t, ow, fam) ==
  IF x.op = "reuse" THEN fam[t] = fam[x.tok] ELSE ow[t] \in x.whom

Swept(x, t, ow) == IF x.op = "reuse" THEN x.left = {} ELSE ow[t] \notin x.left

(* What a request has swept it holds, or has found and waits for, or it is *)
(* revoked by now.                                                         *)
Covers(x, st, ow, fam) ==
  \A t \in x.known :
    Scope(x, t, ow, fam) /\ Swept(x, t, ow) /\ Live(st, t) =>
      t \in x.held \/ (x.at = "lock" /\ t \in x.snap)

Good(x, st, ow, fam) == Shape(x) /\ Holds(x, st) /\ Covers(x, st, ow, fam)

TokensTyped(st, ow, fam) ==
  /\ st \in [Tokens -> Statuses]
  /\ ow \in [Tokens -> Users \union {NoUser}]
  /\ fam \in [Tokens -> Tokens]
  /\ \A t \in Tokens : IF st[t] = "none" THEN fam[t] = t ELSE ow[t] \in Users

UsersTyped == users \in [Users -> [row : {"none", "present", "deleted"},
                                   active : BOOLEAN, admin : BOOLEAN]]

RequestsGood == /\ req \in [Requests -> RequestStates]
                /\ \A r \in Requests : Good(req[r], status, owner, family)

LocksExclude ==
  \A r, q \in Requests : r # q => req[r].held \intersect req[q].held = {}

Inv == /\ TokensTyped(status, owner, family)
       /\ UsersTyped
       /\ arrivals \in 0..MaxArrivals
       /\ RequestsGood
       /\ LocksExclude

-----------------------------------------------------------------------------
(* Requests that have no effect on one another. *)

(* What is good stays good when tokens are issued or revoked that the      *)
(* request does not hold.                                                  *)
LEMMA GoodStable ==
  ASSUME NEW x, NEW st, NEW ow, NEW fam, NEW st2, NEW ow2, NEW fam2,
         Good(x, st, ow, fam),
         \A t \in Known(st) : /\ t \in Known(st2)
                              /\ Live(st2, t) => Live(st, t)
                              /\ ow2[t] = ow[t] /\ fam2[t] = fam[t],
         \A t \in x.held : Live(st, t) => Live(st2, t)
  PROVE  Good(x, st2, ow2, fam2)
<1>1. Holds(x, st2)
  BY DEF Good, Holds
<1>2. Covers(x, st2, ow2, fam2)
  BY DEF Good, Holds, Covers, Scope, Swept
<1> QED
  BY <1>1, <1>2 DEF Good

LEMMA IdleGood ==
  ASSUME NEW st, NEW ow, NEW fam
  PROVE  /\ Good(Idle, st, ow, fam) /\ Good(Over, st, ow, fam)
         /\ Idle.held = {} /\ Over.held = {} /\ Over.at = "done" /\ Idle.at = "idle"
<1>1. Shape(Idle) /\ Shape(Over)
  BY DEF Shape, Idle, Over, RequestStates
<1>2. Holds(Idle, st) /\ Holds(Over, st)
  BY DEF Holds, Idle, Over
<1>3. Covers(Idle, st, ow, fam) /\ Covers(Over, st, ow, fam)
  BY DEF Covers, Idle, Over
<1> QED
  BY <1>1, <1>2, <1>3 DEF Good, Idle, Over

(* A step of one request that changes no data. *)
Quiet == UNCHANGED <<status, owner, family>> /\ \A q \in Requests : ~Commits(q)

LEMMA QuietStep ==
  ASSUME Inv, NEW r \in Requests, NEW x,
         Good(x, status, owner, family), Free(r) \/ x.at # "done",
         \A q \in Requests \ {r} : x.held \intersect req[q].held = {},
         req' = [req EXCEPT ![r] = x],
         UNCHANGED <<users, status, owner, family>>,
         arrivals' \in 0..MaxArrivals
  PROVE  Inv' /\ Quiet
<1> USE DEF Inv
<1>1. x \in RequestStates
  BY DEF Good, Shape
<1>2. /\ req' \in [Requests -> RequestStates]
      /\ req'[r] = x /\ \A q \in Requests \ {r} : req'[q] = req[q]
  BY <1>1 DEF RequestsGood
<1>3. RequestsGood'
  BY <1>2 DEF RequestsGood
<1>4. LocksExclude'
  BY <1>2 DEF LocksExclude
<1>5. TokensTyped(status, owner, family)' /\ UsersTyped'
  BY DEF UsersTyped
<1>6. ASSUME NEW q \in Requests, Commits(q) PROVE FALSE
  <2>1. ~Free(q) /\ req'[q] = Over
    BY <1>6 DEF Commits
  <2>2. CASE q = r
    BY <2>1, <2>2, <1>2, IdleGood
  <2>3. CASE q # r
    BY <2>1, <2>3, <1>2 DEF Free
  <2> QED
    BY <2>2, <2>3
<1> QED
  BY <1>3, <1>4, <1>5, <1>6 DEF Quiet

(* A request that goes on holds at least what it held, and nobody else     *)
(* holds that.                                                             *)
LEMMA GoOnStep ==
  ASSUME Inv, NEW r \in Requests, NEW x, NEW S,
         Good(x, status, owner, family), x.at # "done",
         x.held \subseteq req[r].held \union S, TokensFree(r, S),
         req' = [req EXCEPT ![r] = x], UnchangedData
  PROVE  Inv' /\ Quiet
<1>1. \A q \in Requests \ {r} : x.held \intersect req[q].held = {}
  BY DEF TokensFree, Inv, LocksExclude
<1>2. arrivals' \in 0..MaxArrivals
  BY DEF Inv, UnchangedData
<1> QED
  BY <1>1, <1>2, QuietStep DEF UnchangedData

(* What it holds, nobody else does. *)
LEMMA HeldFree ==
  ASSUME Inv, NEW r \in Requests
  PROVE  TokensFree(r, req[r].held) /\ TokensFree(r, {})
BY DEF TokensFree, Inv, LocksExclude

LEMMA BeginStep ==
  ASSUME Inv, NEW r \in Requests, NEW x,
         Good(x, status, owner, family), x.held = {}, Begin(r, x)
  PROVE  Inv' /\ Quiet
<1>1. arrivals' \in 0..MaxArrivals
  BY SessionsAssumption DEF Begin, Inv
<1> QED
  BY <1>1, QuietStep DEF Begin

LEMMA AbandonStep ==
  ASSUME Inv, NEW r \in Requests, Abandon(r)
  PROVE  Inv' /\ Quiet
<1>1. \A q \in Requests \ {r} : Idle.held \intersect req[q].held = {}
  BY IdleGood
<1> QED
  BY <1>1, IdleGood, QuietStep DEF Abandon, UnchangedData, Inv

(* A request that revokes, before it has revoked anything.                 *)
LEMMA RevokingGood ==
  ASSUME NEW st, NEW ow, NEW fam, NEW x \in RequestStates, TokensTyped(st, ow, fam),
         x.op \in {"reuse", "inactive", "logout", "password", "admin", "delete"},
         x.at = "sweep", x.left = x.whom, x.whom # {}, x.held = {}, x.known = Known(st),
         x.op = "reuse" => x.tok \in Known(st),
         x.op = "delete" => x.whom = {x.user},
         x.dirty \/ x.op = "delete" => x.user \in Users
  PROVE  Good(x, st, ow, fam)
<1>1. Shape(x) /\ Holds(x, st)
  BY DEF Shape, Holds
<1>2. Covers(x, st, ow, fam)
  BY DEF Covers, Scope, Swept
<1> QED
  BY <1>1, <1>2 DEF Good

(* A request that holds nothing yet and revokes nobody's sessions. *)
LEMMA PlainGood ==
  ASSUME NEW st, NEW ow, NEW fam, NEW x \in RequestStates,
         x.op \in {"login", "refresh", "admin", "create"},
         x.at \in {"touch", "user", "insert"},
         (x.at = "user") <=> (x.op = "refresh"), x.op = "refresh" => x.tok \in Tokens,
         x.left = {}, x.held = {}, x.known = {}, x.user \in Users
  PROVE  Good(x, st, ow, fam)
  BY DEF Good, Shape, Holds, Covers

-----------------------------------------------------------------------------
(* How each endpoint starts. *)

LEMMA IssuedKnown ==
  ASSUME Inv
  PROVE  /\ Known(status) = Issued /\ Issued \subseteq Tokens /\ Rows \subseteq Issued
         /\ \A t \in Issued : owner[t] \in Users
         /\ NoToken \notin Tokens /\ NoUser \notin Users
BY SessionsAssumption DEF Known, Issued, Rows, Inv, TokensTyped, Tokens

LEMMA Login ==
  ASSUME Inv, NEW r \in Requests, NEW u \in Users, login(r, u)
  PROVE  Inv' /\ Quiet
<1> DEFINE x == [Idle EXCEPT !.op = "login", !.at = "touch", !.user = u]
<1>1. Begin(r, x)
  BY DEF login
<1>2. x \in RequestStates /\ x.op = "login" /\ x.at = "touch" /\ x.left = {}
      /\ x.held = {} /\ x.known = {} /\ x.user = u
  BY DEF Idle, RequestStates
<1>3. Good(x, status, owner, family)
  BY <1>2, PlainGood
<1> QED
  BY <1>1, <1>2, <1>3, BeginStep

LEMMA Refresh ==
  ASSUME Inv, NEW r \in Requests, NEW t \in Tokens, refresh(r, t)
  PROVE  Inv' /\ Quiet
<1> USE IssuedKnown
<1>1. CASE status[t] = "live"
  <2> DEFINE x == [Idle EXCEPT !.op = "refresh", !.at = "user", !.tok = t, !.user = owner[t]]
  <2>1. Begin(r, x) /\ owner[t] \in Users
    BY <1>1 DEF refresh, Issued
  <2>2. x \in RequestStates /\ x.op = "refresh" /\ x.at = "user" /\ x.tok = t /\ x.left = {}
        /\ x.held = {} /\ x.known = {} /\ x.user = owner[t]
    BY <2>1 DEF Idle, RequestStates
  <2>3. Good(x, status, owner, family)
    BY <2>1, <2>2, PlainGood
  <2> QED
    BY <2>1, <2>2, <2>3, BeginStep
<1>2. CASE status[t] = "spent"
  <2> DEFINE W == {owner[t]}
             x == [Revoking("reuse", W) EXCEPT !.tok = t]
  <2>1. Begin(r, x) /\ t \in Issued /\ W \subseteq Users /\ W # {}
    BY <1>2 DEF refresh, Issued
  <2>2. x \in RequestStates
    BY <2>1 DEF Revoking, Idle, RequestStates
  <2>3. /\ x.op = "reuse" /\ x.at = "sweep" /\ x.tok = t /\ x.left = W /\ x.whom = W
        /\ x.held = {} /\ x.known = Issued /\ ~x.dirty
    BY DEF Revoking, Idle
  <2>4. Good(x, status, owner, family)
    BY <2>1, <2>2, <2>3, RevokingGood DEF Inv
  <2> QED
    BY <2>1, <2>3, <2>4, BeginStep
<1> QED
  BY <1>1, <1>2 DEF refresh

LEMMA Logout ==
  ASSUME Inv, NEW r \in Requests, NEW c, NEW b \in Users \union {NoUser}, logout(r, c, b)
  PROVE  Inv' /\ Quiet
<1> USE IssuedKnown
<1> DEFINE W == Named(c, b)
           x == Revoking("logout", W)
<1>1. Begin(r, x) /\ W # {}
  BY DEF logout
<1>2. W \subseteq Users
  BY DEF Named
<1>3. x \in RequestStates
  BY <1>2 DEF Revoking, Idle, RequestStates
<1>4. /\ x.op = "logout" /\ x.at = "sweep" /\ x.left = W /\ x.whom = W
      /\ x.held = {} /\ x.known = Issued /\ ~x.dirty
  BY DEF Revoking, Idle
<1>5. Good(x, status, owner, family)
  BY <1>1, <1>3, <1>4, RevokingGood DEF Inv
<1> QED
  BY <1>1, <1>4, <1>5, BeginStep

LEMMA UpdateSelf ==
  ASSUME Inv, NEW r \in Requests, NEW u \in Users, update_self(r, u)
  PROVE  Inv' /\ Quiet
<1> USE IssuedKnown
<1> DEFINE x == [Revoking("password", {u}) EXCEPT !.user = u, !.dirty = TRUE]
<1>1. Begin(r, x)
  BY DEF update_self
<1>2. x \in RequestStates
  BY DEF Revoking, Idle, RequestStates
<1>3. /\ x.op = "password" /\ x.at = "sweep" /\ x.left = {u} /\ x.whom = {u}
      /\ x.held = {} /\ x.known = Issued /\ x.user = u
  BY DEF Revoking, Idle
<1>4. Good(x, status, owner, family)
  BY <1>2, <1>3, RevokingGood DEF Inv
<1> QED
  BY <1>1, <1>3, <1>4, BeginStep

LEMMA UpdateUser ==
  ASSUME Inv, NEW r \in Requests, NEW a \in Users, NEW u \in Users, NEW c \in Changes,
         update_user(r, a, u, c)
  PROVE  Inv' /\ Quiet
<1> USE IssuedKnown
<1>1. CASE c \in {"password", "deactivate"}
  <2> DEFINE w == Writes(u, c)
             x == [Revoking("admin", {u}) EXCEPT !.user = u, !.actor = a, !.change = c,
                                                 !.dirty = w]
  <2>1. Begin(r, x)
    BY <1>1 DEF update_user
  <2>2. w \in BOOLEAN
    BY <1>1 DEF Writes, Inv, UsersTyped
  <2>3. x \in RequestStates
    BY <2>2 DEF Revoking, Idle, RequestStates
  <2>4. /\ x.op = "admin" /\ x.at = "sweep" /\ x.left = {u} /\ x.whom = {u}
        /\ x.held = {} /\ x.known = Issued /\ x.user = u
    BY DEF Revoking, Idle
  <2>5. Good(x, status, owner, family)
    BY <2>3, <2>4, RevokingGood DEF Inv
  <2> QED
    BY <2>1, <2>4, <2>5, BeginStep
<1>2. CASE c \notin {"password", "deactivate"}
  <2> DEFINE x == [Idle EXCEPT !.op = "admin", !.at = "touch", !.user = u, !.actor = a,
                               !.change = c, !.dirty = TRUE]
  <2>1. Begin(r, x)
    BY <1>2 DEF update_user
  <2>2. x \in RequestStates
    BY DEF Idle, RequestStates
  <2>3. x.op = "admin" /\ x.at = "touch" /\ x.left = {} /\ x.held = {} /\ x.known = {}
        /\ x.user = u
    BY DEF Idle
  <2>4. Good(x, status, owner, family)
    BY <2>2, <2>3, PlainGood
  <2> QED
    BY <2>1, <2>3, <2>4, BeginStep
<1> QED
  BY <1>1, <1>2

LEMMA DeleteUser ==
  ASSUME Inv, NEW r \in Requests, NEW a \in Users, NEW u \in Users, delete_user(r, a, u)
  PROVE  Inv' /\ Quiet
<1> USE IssuedKnown
<1> DEFINE x == [Revoking("delete", {u}) EXCEPT !.user = u, !.actor = a]
<1>1. Begin(r, x)
  BY DEF delete_user
<1>2. x \in RequestStates
  BY DEF Revoking, Idle, RequestStates
<1>3. /\ x.op = "delete" /\ x.at = "sweep" /\ x.left = {u} /\ x.whom = {u}
      /\ x.held = {} /\ x.known = Issued /\ x.user = u
  BY DEF Revoking, Idle
<1>4. Good(x, status, owner, family)
  BY <1>2, <1>3, RevokingGood DEF Inv
<1> QED
  BY <1>1, <1>3, <1>4, BeginStep

LEMMA CreateUser ==
  ASSUME Inv, NEW r \in Requests, NEW a \in Users, NEW u \in Users,
         NEW role \in {"admin", "user"}, create_user(r, a, u, role)
  PROVE  Inv' /\ Quiet
<1> DEFINE x == [Idle EXCEPT !.op = "create", !.at = "insert", !.user = u, !.actor = a,
                             !.change = role]
<1>1. Begin(r, x)
  BY DEF create_user
<1>2. x \in RequestStates
  BY DEF Idle, RequestStates
<1>3. x.op = "create" /\ x.at = "insert" /\ x.left = {} /\ x.held = {} /\ x.known = {}
      /\ x.user = u
  BY DEF Idle
<1>4. Good(x, status, owner, family)
  BY <1>2, <1>3, PlainGood
<1> QED
  BY <1>1, <1>3, <1>4, BeginStep

-----------------------------------------------------------------------------
(* The statements that change no row yet. *)

LEMMA ReadUserStep ==
  ASSUME Inv, NEW r \in Requests, ReadUser(r)
  PROVE  Inv' /\ Quiet
<1> USE IssuedKnown
<1>1. Good(req[r], status, owner, family) /\ req[r] \in RequestStates /\ req[r].at = "user"
  BY DEF Inv, RequestsGood, ReadUser
<1>2. CASE Active(req[r].user) /\ Goes(r, "claim")
  <2> DEFINE x == [req[r] EXCEPT !.at = "claim"]
  <2>1. Good(x, status, owner, family) /\ x.held = req[r].held /\ x.at # "done"
    BY <1>1 DEF Good, Shape, Holds, Covers, Scope, Swept, RequestStates
  <2>2. req' = [req EXCEPT ![r] = x] /\ UnchangedData
    BY <1>2 DEF Goes
  <2> QED
    BY <2>1, <2>2, HeldFree, GoOnStep
<1>3. CASE req' = [req EXCEPT ![r] = Revoking("inactive", {req[r].user})] /\ UnchangedData
  <2> DEFINE W == {req[r].user}
             x == Revoking("inactive", W)
  <2>1. W \subseteq Users /\ W # {}
    BY <1>1 DEF Good, Shape, RequestStates
  <2>2. x \in RequestStates
    BY <2>1 DEF Revoking, Idle, RequestStates
  <2>3. /\ x.op = "inactive" /\ x.at = "sweep" /\ x.left = W /\ x.whom = W
        /\ x.held = {} /\ x.known = Issued /\ ~x.dirty
    BY DEF Revoking, Idle
  <2>4. Good(x, status, owner, family)
    BY <2>1, <2>2, <2>3, RevokingGood DEF Inv
  <2> QED
    BY <2>3, <2>4, <1>3, HeldFree, GoOnStep
<1> QED
  BY <1>2, <1>3 DEF ReadUser

LEMMA ClaimStep ==
  ASSUME Inv, NEW r \in Requests, Claim(r)
  PROVE  Inv' /\ Quiet
<1> USE IssuedKnown
<1>1. Good(req[r], status, owner, family) /\ req[r] \in RequestStates /\ req[r].at = "claim"
  BY DEF Inv, RequestsGood, Claim
<1>2. CASE Unrevoked(req[r].tok) /\ ~Abandon(r)
  <2> DEFINE x == [req[r] EXCEPT !.held = {req[r].tok}, !.at = "issue"]
  <2>1. req' = [req EXCEPT ![r] = x] /\ UnchangedData /\ TokensFree(r, {req[r].tok})
    BY <1>2 DEF Claim
  <2>2. req[r].tok \in Tokens /\ req[r].op = "refresh" /\ Live(status, req[r].tok)
    BY <1>1, <1>2 DEF Good, Shape, Unrevoked, Live
  <2>3. /\ x \in RequestStates /\ x.held = {req[r].tok} /\ x.at = "issue"
        /\ x.op = "refresh" /\ x.tok = req[r].tok /\ x.left = req[r].left
        /\ x.known = req[r].known /\ x.user = req[r].user /\ x.dirty = req[r].dirty
    BY <1>1, <2>2 DEF RequestStates
  <2>4. Shape(x) /\ Holds(x, status)
    BY <1>1, <2>2, <2>3 DEF Good, Shape, Holds, Known, Live
  <2>5. Covers(x, status, owner, family)
    <3>1. \A t \in Tokens : Scope(x, t, owner, family) = Scope(req[r], t, owner, family)
                            /\ Swept(x, t, owner) = Swept(req[r], t, owner)
      BY <1>1, <2>2 DEF Scope, Swept, RequestStates
    <3>2. req[r].held = {}
      BY <1>1, <2>2 DEF Good, Shape
    <3> QED
      BY <1>1, <2>3, <3>1, <3>2 DEF Good, Covers, RequestStates
  <2> QED
    BY <2>1, <2>3, <2>4, <2>5, GoOnStep DEF Good
<1>3. CASE Abandon(r)
  BY <1>3, AbandonStep
<1> QED
  BY <1>2, <1>3 DEF Claim

(* A statement finds every live token of those it is to revoke. *)
LEMMA FoundCovers ==
  ASSUME Inv, NEW r \in Requests, NEW u, req[r].at = "sweep"
  PROVE  /\ Found(r, u) \in SUBSET Tokens
         /\ \A t \in Known(status) :
              /\ Live(status, t)
              /\ IF req[r].op = "reuse" THEN family[t] = family[req[r].tok] ELSE owner[t] = u
              => t \in Found(r, u)
<1>1. Found(r, u) \in SUBSET Tokens
  BY DEF Found, Rows
<1>2. ASSUME NEW t \in Known(status), Live(status, t),
             IF req[r].op = "reuse" THEN family[t] = family[req[r].tok] ELSE owner[t] = u
      PROVE  t \in Found(r, u)
  <2>1. t \in Tokens /\ Unrevoked(t) /\ t \in Rows
    BY <1>2 DEF Known, Live, Unrevoked, Rows
  <2>2. CASE req[r].op = "reuse"
    BY <1>2, <2>1, <2>2 DEF Found
  <2>3. CASE req[r].op # "reuse"
    BY <1>2, <2>1, <2>3 DEF Found
  <2> QED
    BY <2>2, <2>3
<1> QED
  BY <1>1, <1>2

LEMMA SweepStep ==
  ASSUME Inv, NEW r \in Requests, Sweep(r)
  PROVE  Inv' /\ Quiet
<1>1. Good(req[r], status, owner, family) /\ req[r] \in RequestStates /\ req[r].at = "sweep"
  BY DEF Inv, RequestsGood, Sweep
<1>2. PICK u \in req[r].left :
        req' = [req EXCEPT ![r] = [req[r] EXCEPT !.snap = Found(r, u), !.left = @ \ {u},
                                                 !.at = "lock"]]
  BY DEF Sweep
<1> DEFINE x == [req[r] EXCEPT !.snap = Found(r, u), !.left = @ \ {u}, !.at = "lock"]
<1>3. req' = [req EXCEPT ![r] = x] /\ UnchangedData
  BY <1>2 DEF Sweep
<1>4. /\ x \in RequestStates /\ x.at = "lock" /\ x.snap = Found(r, u)
      /\ x.left = req[r].left \ {u} /\ x.op = req[r].op /\ x.tok = req[r].tok
      /\ x.whom = req[r].whom /\ x.held = req[r].held /\ x.known = req[r].known
      /\ x.user = req[r].user /\ x.dirty = req[r].dirty
  BY <1>1, FoundCovers DEF RequestStates
<1>5. Shape(x) /\ Holds(x, status)
  BY <1>1, <1>4 DEF Good, Shape, Holds
<1>6. Covers(x, status, owner, family)
  <2> SUFFICES ASSUME NEW t \in x.known, Scope(x, t, owner, family), Swept(x, t, owner),
                      Live(status, t)
               PROVE  t \in x.held \/ t \in x.snap
    BY <1>4 DEF Covers
  <2>1. t \in Known(status) /\ t \in req[r].known
    BY <1>1, <1>4 DEF Good, Holds
  <2>2. CASE Swept(req[r], t, owner)
    BY <1>1, <1>4, <2>1, <2>2 DEF Good, Covers, Scope
  <2>3. CASE ~Swept(req[r], t, owner)
    BY <1>1, <1>4, <2>1, <2>3, FoundCovers DEF Scope, Swept
  <2> QED
    BY <2>2, <2>3
<1> QED
  BY <1>3, <1>4, <1>5, <1>6, HeldFree, GoOnStep DEF Good

LEMMA LockStep ==
  ASSUME Inv, NEW r \in Requests, Lock(r)
  PROVE  Inv' /\ Quiet
<1>1. Good(req[r], status, owner, family) /\ req[r] \in RequestStates /\ req[r].at = "lock"
  BY DEF Inv, RequestsGood, Lock
<1> DEFINE M == StillMatch(r)
           a == AfterLock(r)
           x == [req[r] EXCEPT !.held = @ \union M, !.snap = {}, !.at = a]
<1>2. req' = [req EXCEPT ![r] = x] /\ UnchangedData /\ TokensFree(r, req[r].snap)
  BY DEF Lock
<1>3. M \subseteq req[r].snap /\ M \subseteq Known(status)
  BY <1>1 DEF StillMatch, Known, Rows, Unrevoked, RequestStates
<1>4. \A t \in req[r].snap : t \in Tokens /\ Live(status, t) => t \in M
  BY DEF StillMatch, Live, Unrevoked, Rows
<1>5. /\ a \in {"sweep", "drop", "touch", "commit"}
      /\ (a = "sweep") <=> (req[r].left # {})
      /\ a = "drop" => req[r].op = "delete"
      /\ a \in {"touch", "commit"} => req[r].op # "delete"
      /\ a = "touch" => req[r].dirty = TRUE
  <2>1. CASE req[r].left # {} \/ req[r].op = "delete"
    BY <2>1 DEF AfterLock
  <2>2. CASE req[r].left = {} /\ req[r].op # "delete" /\ req[r].dirty = TRUE
    BY <2>2 DEF AfterLock
  <2>3. CASE req[r].left = {} /\ req[r].op # "delete" /\ req[r].dirty = FALSE
    BY <2>3 DEF AfterLock
  <2> QED
    BY <1>1, <2>1, <2>2, <2>3 DEF RequestStates
<1>6. /\ x \in RequestStates /\ x.at = a /\ x.held = req[r].held \union M
      /\ x.left = req[r].left /\ x.op = req[r].op /\ x.tok = req[r].tok
      /\ x.whom = req[r].whom /\ x.known = req[r].known
      /\ x.user = req[r].user /\ x.dirty = req[r].dirty
  <2>1. M \in SUBSET Tokens
    BY <1>3 DEF Known
  <2> QED
    BY ZenonT(30), <1>1, <1>5, <2>1 DEF RequestStates
<1> HIDE DEF x, a, M
<1>7. Shape(x)
  BY <1>1, <1>5, <1>6 DEF Good, Shape, RequestStates
<1>8. Holds(x, status)
  BY <1>1, <1>3, <1>5, <1>6 DEF Good, Shape, Holds
<1>9. Covers(x, status, owner, family)
  BY <1>1, <1>4, <1>6 DEF Good, Holds, Known, Covers, Scope, Swept
<1> QED
  <2>1. x.held \subseteq req[r].held \union req[r].snap /\ x.at # "done"
    BY <1>3, <1>5, <1>6
  <2> QED
    BY <1>2, <1>7, <1>8, <1>9, <2>1, GoOnStep DEF Good

LEMMA TouchStep ==
  ASSUME Inv, NEW r \in Requests, Touch(r)
  PROVE  Inv' /\ Quiet
<1>1. Good(req[r], status, owner, family) /\ req[r] \in RequestStates /\ req[r].at = "touch"
  BY DEF Inv, RequestsGood, Touch
<1> DEFINE a == IF req[r].op = "admin" THEN "commit" ELSE "issue"
           x == [req[r] EXCEPT !.lock = "write", !.at = a]
<1>4. /\ a \in {"commit", "issue"}
      /\ (a = "commit") <=> (req[r].op = "admin")
  OBVIOUS
<1>5. [req EXCEPT ![r] = x]
        = [req EXCEPT ![r] = [@ EXCEPT !.lock = "write", !.at =
             IF req[r].op = "admin" THEN "commit" ELSE "issue"]]
  OBVIOUS
<1> HIDE DEF a
<1>2. CASE req' = [req EXCEPT ![r] = x] /\ UnchangedData
  <2>1. /\ x \in RequestStates /\ x.at = a /\ x.held = req[r].held
        /\ x.left = req[r].left /\ x.op = req[r].op /\ x.tok = req[r].tok
        /\ x.whom = req[r].whom /\ x.known = req[r].known
        /\ x.user = req[r].user /\ x.dirty = req[r].dirty
    BY ZenonT(30), <1>1, <1>4 DEF RequestStates
  <2>2. Good(x, status, owner, family)
    BY <1>1, <1>4, <2>1 DEF Good, Shape, Holds, Covers, Scope, Swept
  <2>3. x.held \subseteq req[r].held \union {} /\ x.at # "done"
    BY <1>4, <2>1
  <2> HIDE DEF x
  <2> QED
    BY <1>2, <2>2, <2>3, HeldFree, GoOnStep
<1>3. CASE Abandon(r)
  BY <1>3, AbandonStep
<1> QED
  BY <1>2, <1>3, <1>5 DEF Touch

LEMMA DropStep ==
  ASSUME Inv, NEW r \in Requests, Drop(r)
  PROVE  Inv' /\ Quiet
<1>1. Good(req[r], status, owner, family) /\ req[r] \in RequestStates /\ req[r].at = "drop"
  BY DEF Inv, RequestsGood, Drop
<1> DEFINE x == [req[r] EXCEPT !.lock = "drop", !.at = "cascade"]
<1>2. CASE req' = [req EXCEPT ![r] = x] /\ UnchangedData
  <2>1. /\ x \in RequestStates /\ x.at = "cascade" /\ x.held = req[r].held
        /\ x.left = req[r].left /\ x.op = req[r].op /\ x.tok = req[r].tok
        /\ x.whom = req[r].whom /\ x.known = req[r].known
        /\ x.user = req[r].user /\ x.dirty = req[r].dirty
    BY ZenonT(30), <1>1 DEF RequestStates
  <2>2. Good(x, status, owner, family)
    BY <1>1, <2>1 DEF Good, Shape, Holds, Covers, Scope, Swept
  <2> QED
    BY <1>2, <2>1, <2>2, HeldFree, GoOnStep
<1>3. CASE Abandon(r)
  BY <1>3, AbandonStep
<1> QED
  BY <1>2, <1>3 DEF Drop

-----------------------------------------------------------------------------
(* The steps that change rows. *)

(* What is required of every step beside the invariant. *)
SignedOut(r) ==
  \A t \in req[r].known : InScope(r, t) => status'[t] \notin {"live", "expired"}

Promised == /\ \A r \in Requests : Commits(r) => SignedOut(r)
            /\ [Lifecycle!Next]_(Lifecycle!lvars)

LEMMA QuietPromised ==
  ASSUME Quiet
  PROVE  Promised
BY DEF Quiet, Promised, Lifecycle!lvars, Unrevoked, Issued

(* Data change and requests end: Inv holds if the new data are well typed, *)
(* nothing is revived, and what the other requests hold is left alone.     *)
LEMMA DataStep ==
  ASSUME Inv, NEW R \in SUBSET Requests,
         TokensTyped(status, owner, family)', UsersTyped', UNCHANGED arrivals,
         req' \in [Requests -> RequestStates],
         \A q \in Requests : req'[q] = IF q \in R THEN Over ELSE req[q],
         \A t \in Known(status) : /\ t \in Known(status')
                                  /\ Live(status', t) => Live(status, t)
                                  /\ owner'[t] = owner[t] /\ family'[t] = family[t],
         \A q \in Requests \ R : \A t \in req[q].held : Live(status, t) => Live(status', t)
  PROVE  Inv'
<1>1. RequestsGood'
  <2> SUFFICES ASSUME NEW q \in Requests
               PROVE  Good(req'[q], status', owner', family')
    BY DEF RequestsGood
  <2>1. CASE q \in R
    BY <2>1, IdleGood
  <2>2. CASE q \notin R
    <3>1. Good(req[q], status, owner, family)
      BY DEF Inv, RequestsGood
    <3>2. Good(req[q], status', owner', family')
      BY <2>2, <3>1, GoodStable
    <3> QED
      BY <2>2, <3>2
  <2> QED
    BY <2>1, <2>2
<1>2. LocksExclude'
  BY IdleGood DEF Inv, LocksExclude
<1> QED
  BY <1>1, <1>2 DEF Inv

LEMMA OverStep ==
  ASSUME Inv, NEW r \in Requests, req' = [req EXCEPT ![r] = Over]
  PROVE  /\ req' \in [Requests -> RequestStates]
         /\ \A q \in Requests : req'[q] = IF q \in {r} THEN Over ELSE req[q]
         /\ \A q \in Requests : Commits(q) => q = r
<1>1. Over \in RequestStates
  BY IdleGood DEF Good, Shape
<1>2. req \in [Requests -> RequestStates]
  BY DEF Inv, RequestsGood
<1> QED
  BY <1>1, <1>2 DEF Commits, Free

LEMMA TimeStep ==
  ASSUME Inv, NEW t \in Tokens, GraceEnds(t) \/ Expire(t)
  PROVE  Inv' /\ Promised
<1> DEFINE v == IF status[t] = "rotated" THEN "spent" ELSE "expired"
<1>1. /\ status' = [status EXCEPT ![t] = v]
      /\ UNCHANGED <<users, owner, family, req, arrivals>>
      /\ status[t] # "none" /\ v # "none"
      /\ Live(status, t) <=> v = "expired"
  BY DEF GraceEnds, Expire, Live
<1>2. v \in Statuses
  BY DEF Statuses, Revoked
<1> HIDE DEF v
<1>3. status' \in [Tokens -> Statuses] /\ status'[t] = v
      /\ \A k \in Tokens \ {t} : status'[k] = status[k]
  BY <1>1, <1>2 DEF Inv, TokensTyped
<1>4. \A k \in Tokens : /\ Live(status', k) <=> Live(status, k)
                        /\ status'[k] = "none" <=> status[k] = "none"
  <2>1. v \in {"spent", "expired"}
    BY DEF v
  <2> QED
    BY <1>1, <1>3, <2>1 DEF Live
<1>5. TokensTyped(status, owner, family)' /\ UsersTyped'
  BY <1>1, <1>3, <1>4 DEF Inv, TokensTyped, UsersTyped
<1>6. Inv'
  <2> DEFINE R == {}
  <2>1. \A k \in Known(status) : /\ k \in Known(status')
                                 /\ Live(status', k) => Live(status, k)
                                 /\ owner'[k] = owner[k] /\ family'[k] = family[k]
    BY <1>1, <1>4 DEF Known
  <2>2. \A q \in Requests \ R : \A k \in req[q].held : Live(status, k) => Live(status', k)
    <3> SUFFICES ASSUME NEW q \in Requests, NEW k \in req[q].held
                 PROVE  k \in Tokens
      BY <1>4
    <3> QED
      BY DEF Inv, RequestsGood, Good, Holds, Known
  <2>3. /\ req' \in [Requests -> RequestStates]
        /\ \A q \in Requests : req'[q] = IF q \in R THEN Over ELSE req[q]
    BY <1>1 DEF Inv, RequestsGood
  <2>4. R \in SUBSET Requests /\ UNCHANGED arrivals
    BY <1>1
  <2> HIDE DEF R
  <2> QED
    BY <1>5, <2>1, <2>2, <2>3, <2>4, DataStep
<1>7. Promised
  <2>1. \A q \in Requests : ~Commits(q)
    BY <1>1 DEF Commits, Free
  <2>2. UNCHANGED Lifecycle!lvars
    BY <1>1, <1>4 DEF Lifecycle!lvars, Live, Unrevoked, Issued
  <2> QED
    BY <2>1, <2>2 DEF Promised
<1> QED
  BY <1>6, <1>7

(* What a request past its sweeps has not caught is not live. *)
LEMMA Caught ==
  ASSUME Inv, NEW r \in Requests, req[r].at \notin {"sweep", "lock"}
  PROVE  \A t \in req[r].known : InScope(r, t) /\ Live(status, t) => t \in req[r].held
<1>1. Good(req[r], status, owner, family)
  BY DEF Inv, RequestsGood
<1>2. req[r].left = {}
  BY <1>1 DEF Good, Shape
<1> QED
  BY <1>1, <1>2 DEF Good, Covers, Scope, Swept, InScope

LEMMA HeldKnown ==
  ASSUME Inv, NEW r \in Requests
  PROVE  /\ req[r].held \subseteq Known(status) /\ req[r].known \subseteq Known(status)
         /\ \A q \in Requests \ {r} : req[q].held \subseteq Tokens \ req[r].held
BY DEF Inv, RequestsGood, LocksExclude, Good, Holds, Known

LEMMA MarkedRevokes ==
  ASSUME Inv, NEW r \in Requests
  PROVE  /\ Marked(r) \in [Tokens -> Statuses]
         /\ \A t \in req[r].held : Marked(r)[t] # "none" /\ ~Live(Marked(r), t)
         /\ \A t \in Tokens \ req[r].held : Marked(r)[t] = status[t]
<1>1. Reason(r) \in Reasons
  BY DEF Reason, Reasons
<1>2. /\ Reason(r) \in Statuses
      /\ Reason(r) \notin {"none", "live", "expired"}
  BY <1>1 DEF Reasons, Statuses, Revoked
<1>3. status \in [Tokens -> Statuses] /\ req[r].held \subseteq Tokens
  BY HeldKnown DEF Inv, TokensTyped, Known
<1> QED
  BY <1>2, <1>3 DEF Marked, Live

(* A commit that revokes what it holds and issues nothing. *)
LEMMA CommitStep ==
  ASSUME Inv, NEW r \in Requests, Commit(r)
  PROVE  Inv' /\ Promised
<1> DEFINE R == {r}
<1>1. Good(req[r], status, owner, family) /\ req[r] \in RequestStates /\ req[r].at = "commit"
  BY DEF Inv, RequestsGood, Commit
<1>2. /\ status' = Marked(r) /\ owner' = owner /\ family' = family
      /\ req' = [req EXCEPT ![r] = Over] /\ arrivals' = arrivals
  BY DEF Commit, Done
<1>3. \A t \in Tokens : /\ Live(status', t) => Live(status, t) /\ t \notin req[r].held
                        /\ status'[t] = "none" <=> status[t] = "none"
  BY <1>2, MarkedRevokes, HeldKnown DEF Known, Live
<1>4. TokensTyped(status, owner, family)'
  BY <1>2, <1>3, MarkedRevokes DEF Inv, TokensTyped
<1>5. UsersTyped'
  <2>1. CASE users' = users
    BY <2>1 DEF Inv, UsersTyped
  <2>2. CASE users' = Changed(req[r].user, req[r].change) /\ req[r].user \in Users
    BY <2>2 DEF Changed, Inv, UsersTyped
  <2>3. req[r].dirty = TRUE \/ req[r].dirty = FALSE
    BY <1>1 DEF RequestStates
  <2>4. req[r].dirty = TRUE => req[r].user \in Users
    BY <1>1 DEF Good, Shape
  <2> QED
    BY <2>1, <2>2, <2>3, <2>4 DEF Commit
<1>6. Inv'
  <2>1. \A t \in Known(status) : /\ t \in Known(status')
                                 /\ Live(status', t) => Live(status, t)
                                 /\ owner'[t] = owner[t] /\ family'[t] = family[t]
    BY <1>2, <1>3 DEF Known
  <2>2. \A q \in Requests \ R : \A t \in req[q].held : Live(status, t) => Live(status', t)
    BY <1>2, MarkedRevokes, HeldKnown DEF Live
  <2>3. R \in SUBSET Requests /\ UNCHANGED arrivals
    BY <1>2
  <2>4. /\ req' \in [Requests -> RequestStates]
        /\ \A q \in Requests : req'[q] = IF q \in R THEN Over ELSE req[q]
    BY <1>2, OverStep
  <2> HIDE DEF R
  <2> QED
    BY <1>4, <1>5, <2>1, <2>2, <2>3, <2>4, DataStep
<1>7. SignedOut(r)
  BY <1>1, <1>3, Caught, HeldKnown DEF SignedOut, Live, Known
<1>8. Lifecycle!Next
  <2>1. Issued' = Issued
    BY <1>3 DEF Issued
  <2>2. {t \in Tokens : Unrevoked(t)}' \subseteq {t \in Tokens : Unrevoked(t)}
    BY <1>3 DEF Live, Unrevoked
  <2> QED
    BY <1>2, <2>1, <2>2 DEF Lifecycle!Next, Lifecycle!End
<1> QED
  BY <1>2, <1>6, <1>7, <1>8, OverStep DEF Promised

LEMMA InsertStep ==
  ASSUME Inv, NEW r \in Requests, Insert(r)
  PROVE  Inv' /\ Promised
<1> DEFINE R == {r}
<1>1. Good(req[r], status, owner, family) /\ req[r] \in RequestStates /\ req[r].at = "insert"
  BY DEF Inv, RequestsGood, Insert
<1>2. CASE /\ users' = [users EXCEPT ![req[r].user] =
                [row |-> "present", active |-> TRUE, admin |-> req[r].change = "admin"]]
           /\ Done(r)
           /\ UNCHANGED <<status, owner, family>>
  <2>1. /\ UNCHANGED <<status, owner, family>> /\ req' = [req EXCEPT ![r] = Over]
        /\ arrivals' = arrivals
    BY <1>2 DEF Done
  <2>2. UsersTyped'
    BY <1>2 DEF Inv, UsersTyped
  <2>3. TokensTyped(status, owner, family)'
    BY <2>1 DEF Inv
  <2>4. Inv'
    <3>1. \A t \in Known(status) : /\ t \in Known(status')
                                   /\ Live(status', t) => Live(status, t)
                                   /\ owner'[t] = owner[t] /\ family'[t] = family[t]
      BY <2>1
    <3>2. \A q \in Requests \ R : \A t \in req[q].held : Live(status, t) => Live(status', t)
      BY <2>1
    <3>3. R \in SUBSET Requests /\ UNCHANGED arrivals
      BY <2>1
    <3>4. /\ req' \in [Requests -> RequestStates]
          /\ \A q \in Requests : req'[q] = IF q \in R THEN Over ELSE req[q]
      BY <2>1, OverStep
    <3> HIDE DEF R
    <3> QED
      BY <2>2, <2>3, <3>1, <3>2, <3>3, <3>4, DataStep
  <2>5. SignedOut(r)
    BY <1>1 DEF SignedOut, Good, Shape
  <2>6. UNCHANGED Lifecycle!lvars
    BY <2>1 DEF Lifecycle!lvars, Unrevoked, Issued
  <2> QED
    BY <2>1, <2>4, <2>5, <2>6, OverStep DEF Promised
<1>3. CASE Abandon(r)
  BY <1>3, AbandonStep, QuietPromised
<1> QED
  BY <1>2, <1>3 DEF Insert

(* A commit that revokes what it holds and issues one token. *)
LEMMA IssueStep ==
  ASSUME Inv, NEW r \in Requests, NEW n \in Tokens, Issue(r, n)
  PROVE  Inv' /\ Promised
<1> DEFINE R == {r}
           f == IF req[r].op = "refresh" THEN family[req[r].tok] ELSE n
<1>1. Good(req[r], status, owner, family) /\ req[r] \in RequestStates /\ req[r].at = "issue"
  BY DEF Inv, RequestsGood, Issue
<1>2. status[n] = "none" /\ n \notin Known(status)
  BY DEF Issue, FirstUnused, Issued, Known
<1>3. CASE Abandon(r)
  BY <1>3, AbandonStep, QuietPromised
<1>4. CASE ~Abandon(r)
  <2>1. /\ status' = [Marked(r) EXCEPT ![n] = "live"]
        /\ owner'  = [owner EXCEPT ![n] = req[r].user]
        /\ family' = [family EXCEPT ![n] = f]
        /\ req' = [req EXCEPT ![r] = Over] /\ arrivals' = arrivals /\ users' = users
    BY <1>4 DEF Issue, Done
  <2>2. req[r].user \in Users /\ (req[r].op = "refresh" => req[r].tok \in Tokens)
    BY <1>1 DEF Good, Shape
  <2>3. f \in Tokens /\ (req[r].op # "refresh" => f = n)
        /\ (req[r].op = "refresh" => f = family[req[r].tok])
    BY <2>2 DEF Inv, TokensTyped
  <2> HIDE DEF f
  <2>4. /\ status' \in [Tokens -> Statuses] /\ status'[n] = "live"
        /\ owner' \in [Tokens -> Users \union {NoUser}] /\ owner'[n] = req[r].user
        /\ family' \in [Tokens -> Tokens] /\ family'[n] = f
        /\ \A t \in Tokens \ {n} : /\ status'[t] = Marked(r)[t]
                                   /\ owner'[t] = owner[t] /\ family'[t] = family[t]
    <3>1. "live" \in Statuses
      BY DEF Statuses
    <3> QED
      BY <2>1, <2>2, <2>3, <3>1, MarkedRevokes DEF Inv, TokensTyped
  <2>5. \A t \in Tokens \ {n} : /\ Live(status', t) <=> Live(status, t) /\ t \notin req[r].held
                                /\ status'[t] = "none" <=> status[t] = "none"
    BY <2>4, MarkedRevokes, HeldKnown DEF Known, Live
  <2>6. TokensTyped(status, owner, family)' /\ UsersTyped'
    BY <2>1, <2>2, <2>4, <2>5 DEF Inv, TokensTyped, UsersTyped
  <2>7. Inv'
    <3>1. \A t \in Known(status) : /\ t \in Known(status')
                                   /\ Live(status', t) => Live(status, t)
                                   /\ owner'[t] = owner[t] /\ family'[t] = family[t]
      BY <1>2, <2>4, <2>5 DEF Known
    <3>2. \A q \in Requests \ R : \A t \in req[q].held : Live(status, t) => Live(status', t)
      <4> SUFFICES ASSUME NEW q \in Requests \ R, NEW t \in req[q].held
                   PROVE  t \in Tokens \ {n} /\ t \notin req[r].held
        BY <2>5
      <4>1. t \in Known(status)
        BY HeldKnown
      <4> QED
        BY <4>1, <1>2, HeldKnown DEF Known
    <3>3. R \in SUBSET Requests /\ UNCHANGED arrivals
      BY <2>1
    <3>4. /\ req' \in [Requests -> RequestStates]
          /\ \A q \in Requests : req'[q] = IF q \in R THEN Over ELSE req[q]
      BY <2>1, OverStep
    <3> HIDE DEF R
    <3> QED
      BY <2>6, <3>1, <3>2, <3>3, <3>4, DataStep
  <2>8. SignedOut(r)
    <3> SUFFICES ASSUME NEW t \in req[r].known, InScope(r, t), Live(status', t)
                 PROVE  FALSE
      BY DEF SignedOut, Live
    <3>1. t \in Tokens \ {n}
      BY <1>2, HeldKnown DEF Known
    <3>2. Live(status, t) /\ t \notin req[r].held
      BY <2>5, <3>1
    <3> QED
      BY <1>1, <3>2, Caught
  <2>9. Lifecycle!Next
    <3> DEFINE L == {t \in Tokens : Unrevoked(t)}
    <3>1. Issued' = Issued \union {n} /\ n \notin Issued
      BY <1>2, <2>4, <2>5 DEF Issued
    <3>2. L = {t \in Tokens : Live(status, t)} /\ L' = {t \in Tokens : Live(status', t)}
      BY DEF Unrevoked, Live
    <3>3. n \in L' /\ L' = (L \ req[r].held) \union {n} /\ n \notin L
      BY <1>2, <2>4, <2>5, <3>2 DEF Live
    <3> HIDE DEF L
    <3>4. CASE req[r].op = "refresh"
      <4>1. req[r].held = {req[r].tok} /\ req[r].tok \in L
        BY <1>1, <2>2, <3>2, <3>4 DEF Good, Holds
      <4>2. L' = (L \ {req[r].tok}) \union {n} /\ family' = [family EXCEPT ![n] = family[req[r].tok]]
        BY <2>1, <2>3, <3>3, <3>4, <4>1
      <4>3. Lifecycle!Rotate(req[r].tok, n)
        BY <3>1, <4>1, <4>2 DEF Lifecycle!Rotate, L
      <4> QED
        BY <2>2, <3>4, <4>3 DEF Lifecycle!Next
    <3>5. CASE req[r].op # "refresh"
      <4>1. family' = family
        BY <1>2, <2>1, <2>3, <3>5 DEF Inv, TokensTyped
      <4>2. Lifecycle!Open(n)
        BY <3>1, <3>3, <4>1 DEF Lifecycle!Open, L
      <4> QED
        BY <4>2 DEF Lifecycle!Next
    <3> QED
      BY <3>4, <3>5
  <2> QED
    BY <2>1, <2>7, <2>8, <2>9, OverStep DEF Promised
<1> QED
  BY <1>3, <1>4

(* A deletion takes every row of the user, once nobody else holds one. *)
LEMMA CascadeStep ==
  ASSUME Inv, NEW r \in Requests, Cascade(r)
  PROVE  Inv' /\ Promised
<1> DEFINE R == {r}
           D == OfUser(req[r].user)
<1>1. Good(req[r], status, owner, family) /\ req[r] \in RequestStates /\ req[r].at = "cascade"
  BY DEF Inv, RequestsGood, Cascade
<1>2. /\ status' = [t \in Tokens |-> IF t \in D THEN "deleted" ELSE status[t]]
      /\ owner' = owner /\ family' = family /\ TokensFree(r, D)
      /\ req' = [req EXCEPT ![r] = Over] /\ arrivals' = arrivals
  BY DEF Cascade, Done
<1>3. /\ "deleted" \in Statuses /\ D \subseteq Known(status)
      /\ \A t \in Known(status) : Live(status, t) /\ owner[t] = req[r].user => t \in D
  BY DEF Statuses, OfUser, Rows, Known, Live
<1>4. req[r].op = "delete" /\ req[r].whom = {req[r].user} /\ req[r].user \in Users
  BY <1>1 DEF Good, Shape
<1> HIDE DEF D
<1>5. /\ status' \in [Tokens -> Statuses]
      /\ \A t \in Tokens : /\ Live(status', t) <=> Live(status, t) /\ t \notin D
                           /\ status'[t] = "none" <=> status[t] = "none"
  BY <1>2, <1>3 DEF Inv, TokensTyped, Known, Live
<1>6. TokensTyped(status, owner, family)'
  BY <1>2, <1>5 DEF Inv, TokensTyped
<1>7. UsersTyped'
  BY <1>4 DEF Cascade, NoRow, Inv, UsersTyped
<1>8. Inv'
  <2>1. \A t \in Known(status) : /\ t \in Known(status')
                                 /\ Live(status', t) => Live(status, t)
                                 /\ owner'[t] = owner[t] /\ family'[t] = family[t]
    BY <1>2, <1>5 DEF Known
  <2>2. \A q \in Requests \ R : \A t \in req[q].held : Live(status, t) => Live(status', t)
    BY <1>2, <1>5, HeldKnown DEF TokensFree, Known
  <2>3. R \in SUBSET Requests /\ UNCHANGED arrivals
    BY <1>2
  <2>4. /\ req' \in [Requests -> RequestStates]
        /\ \A q \in Requests : req'[q] = IF q \in R THEN Over ELSE req[q]
    BY <1>2, OverStep
  <2> HIDE DEF R
  <2> QED
    BY <1>6, <1>7, <2>1, <2>2, <2>3, <2>4, DataStep
<1>9. SignedOut(r)
  BY <1>3, <1>4, <1>5, HeldKnown DEF SignedOut, InScope, Live, Known
<1>10. Lifecycle!Next
  <2>1. Issued' = Issued
    BY <1>5 DEF Issued
  <2>2. {t \in Tokens : Unrevoked(t)}' \subseteq {t \in Tokens : Unrevoked(t)}
    BY <1>5 DEF Live, Unrevoked
  <2> QED
    BY <1>2, <2>1, <2>2 DEF Lifecycle!Next, Lifecycle!End
<1> QED
  BY <1>2, <1>8, <1>9, <1>10, OverStep DEF Promised

-----------------------------------------------------------------------------
(* Every step, and the theorems. *)

LEMMA InitInv ==
  ASSUME Init
  PROVE  Inv /\ Lifecycle!Init
<1>1. DOMAIN SignedIn \subseteq Tokens /\ \A t \in DOMAIN SignedIn : SignedIn[t] \in Users
  BY SessionsAssumption DEF Tokens
<1>2. TokensTyped(status, owner, family) /\ UsersTyped
  BY <1>1, SessionsAssumption DEF Init, TokensTyped, UsersTyped, Statuses, NoRow
<1>3. arrivals \in 0..MaxArrivals
  BY SessionsAssumption DEF Init
<1>4. RequestsGood /\ LocksExclude
  BY IdleGood DEF Init, RequestsGood, LocksExclude, Good, Shape
<1>5. Lifecycle!Init
  BY DEF Init, Lifecycle!Init, Unrevoked, Issued
<1> QED
  BY <1>2, <1>3, <1>4, <1>5 DEF Inv

LEMMA ArriveStep ==
  ASSUME Inv, NEW r \in Requests, Arrive(r)
  PROVE  Inv' /\ Promised
<1>1. Holders \subseteq Users
  BY SessionsAssumption
<1>2. ASSUME NEW u \in Holders, login(r, u) \/ update_self(r, u) PROVE Inv' /\ Quiet
  BY <1>1, <1>2, Login, UpdateSelf
<1>3. ASSUME NEW t \in Tokens, refresh(r, t) PROVE Inv' /\ Quiet
  BY <1>3, Refresh
<1>4. ASSUME NEW t \in Tokens \union {NoToken}, NEW u \in Holders \union {NoUser},
             logout(r, t, u)
      PROVE  Inv' /\ Quiet
  BY <1>1, <1>4, Logout
<1>5. ASSUME NEW a \in Users, NEW u \in Users, NEW c \in Changes, update_user(r, a, u, c)
      PROVE  Inv' /\ Quiet
  BY <1>5, UpdateUser
<1>6. ASSUME NEW a \in Users, NEW u \in Users, NEW role \in {"admin", "user"},
             create_user(r, a, u, role)
      PROVE  Inv' /\ Quiet
  BY <1>6, CreateUser
<1>7. ASSUME NEW a \in Users, NEW u \in Users, delete_user(r, a, u) PROVE Inv' /\ Quiet
  BY <1>7, DeleteUser
<1> QED
  BY <1>2, <1>3, <1>4, <1>5, <1>6, <1>7, QuietPromised DEF Arrive

LEMMA NextStep ==
  ASSUME Inv, [Next]_vars
  PROVE  Inv' /\ Promised
<1> USE QuietPromised
<1>1. ASSUME NEW r \in Requests, Step(r) PROVE Inv' /\ Promised
  BY <1>1, ReadUserStep, ClaimStep, SweepStep, LockStep, TouchStep, IssueStep,
     CommitStep, InsertStep, DropStep, CascadeStep DEF Step
<1>2. ASSUME NEW r \in Requests, Rollback(r) PROVE Inv' /\ Promised
  BY <1>2, AbandonStep DEF Rollback
<1>3. CASE Victim
  BY <1>3, AbandonStep DEF Victim
<1>4. CASE UNCHANGED vars
  <2>1. Inv'
    BY <1>4 DEF vars, Inv, UsersTyped, RequestsGood, LocksExclude
  <2>2. Quiet
    BY <1>4 DEF vars, Quiet, Commits, Free
  <2> QED
    BY <2>1, <2>2
<1> QED
  BY <1>1, <1>2, <1>3, <1>4, ArriveStep, TimeStep DEF Next

(* The inductive invariant holds in every reachable state. *)
LEMMA InvAlways == Spec => []Inv
<1>1. Init => Inv
  BY InitInv
<1>2. Inv /\ [Next]_vars => Inv'
  BY NextStep
<1> QED
  BY <1>1, <1>2, PTL DEF Spec

(* Every variable has its type (the columns of users and refresh_tokens,   *)
(* auth/models.py and users/models.py).                                    *)
THEOREM TypesAlways == Spec => []TypeOK
<1>1. Inv => TypeOK
  BY DEF Inv, TypeOK, TokensTyped, UsersTyped, RequestsGood
<1> QED
  BY <1>1, InvAlways, PTL

(* No request that signs people out commits while a token it knew of and   *)
(* was to revoke is left to spend (auth/service.py:114-197,                *)
(* users/service.py:34-42, admin/router.py:110-117).                       *)
THEOREM SignOutAlwaysComplete == Spec => SignOutIsComplete
<1>1. Inv /\ [Next]_vars =>
        [\A r \in Requests : Commits(r) =>
           \A t \in req[r].known : InScope(r, t) => status'[t] \notin {"live", "expired"}]_vars
  BY NextStep DEF Promised, SignedOut
<1> QED
  BY <1>1, InvAlways, PTL DEF Spec, SignOutIsComplete

(* Requests that overlap in any way, with deadlocks broken and connections *)
(* lost, exchange each token at most once, for one of its own session, and *)
(* revive none (auth/service.py:101-112).                                  *)
THEOREM RequestsImplementLifecycle == Spec => ImplementsLifecycle
<1>1. Init => Lifecycle!Init
  BY InitInv
<1>2. Inv /\ [Next]_vars => [Lifecycle!Next]_(Lifecycle!lvars)
  BY NextStep DEF Promised
<1> QED
  BY <1>1, <1>2, InvAlways, PTL DEF Spec, ImplementsLifecycle, Lifecycle!Spec

-----------------------------------------------------------------------------
(* What SessionLifecycle promises follows from its actions.  Sessions are  *)
(* closed under what is issued: an unused token is alone in its session, a *)
(* used one shares it with used ones only.                                 *)
Spendable == {t \in Tokens : Unrevoked(t)}

SessionsClosed ==
  /\ Spendable \subseteq Issued /\ Issued \subseteq Tokens
  /\ family \in [Tokens -> Tokens]
  /\ \A t \in Tokens \ Issued : family[t] = t
  /\ \A t \in Issued : family[t] \in Issued

LInv == SessionsClosed /\ Lifecycle!OneLivePerSession

LEMMA InitLInv == Lifecycle!Init => LInv
BY DEF Lifecycle!Init, LInv, SessionsClosed, Spendable, Lifecycle!OneLivePerSession

LEMMA StepLInv == LInv /\ [Lifecycle!Next]_(Lifecycle!lvars) => LInv'
<1> SUFFICES ASSUME LInv, [Lifecycle!Next]_(Lifecycle!lvars) PROVE LInv'
  OBVIOUS
<1> USE DEF LInv, SessionsClosed, Lifecycle!OneLivePerSession
<1>1. Spendable = {t \in Tokens : Unrevoked(t)}
  BY DEF Spendable
<1>2. Spendable' = {t \in Tokens : Unrevoked(t)}'
  BY DEF Spendable
<1>3. CASE Lifecycle!End
  BY <1>1, <1>2, <1>3 DEF Lifecycle!End
<1>4. ASSUME NEW n \in Tokens, Lifecycle!Open(n) PROVE LInv'
  BY <1>1, <1>2, <1>4 DEF Lifecycle!Open
<1>5. ASSUME NEW n \in Tokens, NEW t \in Tokens, Lifecycle!Rotate(t, n) PROVE LInv'
  <2>1. SessionsClosed'
    BY <1>1, <1>2, <1>5 DEF Lifecycle!Rotate
  <2>2. Lifecycle!OneLivePerSession'
    BY <1>1, <1>2, <1>5 DEF Lifecycle!Rotate
  <2> QED
    BY <2>1, <2>2
<1>6. CASE UNCHANGED Lifecycle!lvars
  BY <1>1, <1>2, <1>6 DEF Lifecycle!lvars
<1> QED
  BY <1>3, <1>4, <1>5, <1>6 DEF Lifecycle!Next

(* A session has at most one token that can be exchanged, whatever         *)
(* requests overlap: a copied refresh token and the one that replaced it   *)
(* are never both good (auth/service.py:66-112).                           *)
THEOREM OneLiveTokenPerSession == Spec => []Lifecycle!OneLivePerSession
<1>1. Init => LInv
  BY InitInv, InitLInv
<1>2. Inv /\ [Next]_vars => [Lifecycle!Next]_(Lifecycle!lvars)
  BY NextStep DEF Promised
<1>3. LInv => Lifecycle!OneLivePerSession
  BY DEF LInv
<1> QED
  BY <1>1, <1>2, <1>3, StepLInv, InvAlways, PTL DEF Spec

-----------------------------------------------------------------------------
(* Who removes the last administrator. *)

(* An administrator's request is about somebody else's row. *)
Foreign(x) == x.actor # NoUser => x.actor # x.user

ActorsForeign == \A r \in Requests : Foreign(req[r])

LEMMA ForeignStep ==
  ASSUME Inv, ActorsForeign, NEW r \in Requests, NEW x, Foreign(x), req' = [req EXCEPT ![r] = x]
  PROVE  ActorsForeign'
<1>1. \A q \in Requests : req'[q] = IF q = r THEN x ELSE req[q]
  BY DEF Inv, RequestsGood
<1> QED
  BY <1>1 DEF ActorsForeign

LEMMA UnactedForeign ==
  /\ Foreign(Idle) /\ Foreign(Over)
  /\ \A op, S : Foreign(Revoking(op, S)) /\ Revoking(op, S).actor = NoUser
BY DEF Foreign, Idle, Over, Revoking

LEMMA SameForeign ==
  ASSUME ActorsForeign, NEW r \in Requests, NEW x,
         x.actor = req[r].actor /\ x.user = req[r].user
  PROVE  Foreign(x)
BY DEF ActorsForeign, Foreign

LEMMA AbandonForeign ==
  ASSUME Inv, ActorsForeign, NEW r \in Requests, Abandon(r) PROVE ActorsForeign'
BY UnactedForeign, ForeignStep DEF Abandon

LEMMA DoneForeign ==
  ASSUME Inv, ActorsForeign, NEW r \in Requests, Done(r) PROVE ActorsForeign'
BY UnactedForeign, ForeignStep DEF Done

LEMMA BeginForeign ==
  ASSUME Inv, ActorsForeign, NEW r \in Requests, NEW x, Begin(r, x), Foreign(x)
  PROVE  ActorsForeign'
BY ForeignStep DEF Begin

LEMMA ArriveForeign ==
  ASSUME Inv, ActorsForeign, NEW r \in Requests, Arrive(r) PROVE ActorsForeign'
<1>1. ASSUME NEW u \in Holders, login(r, u) PROVE ActorsForeign'
  <2> DEFINE x == [Idle EXCEPT !.op = "login", !.at = "touch", !.user = u]
  <2>1. Foreign(x)
    BY DEF Foreign, Idle
  <2> QED
    BY <1>1, <2>1, BeginForeign DEF login
<1>2. ASSUME NEW u \in Holders, update_self(r, u) PROVE ActorsForeign'
  <2> DEFINE x == [Revoking("password", {u}) EXCEPT !.user = u, !.dirty = TRUE]
  <2>1. Foreign(x)
    BY DEF Foreign, Revoking, Idle
  <2> QED
    BY <1>2, <2>1, BeginForeign DEF update_self
<1>3. ASSUME NEW t \in Tokens, refresh(r, t) PROVE ActorsForeign'
  <2> DEFINE x == [Idle EXCEPT !.op = "refresh", !.at = "user", !.tok = t, !.user = owner[t]]
             y == [Revoking("reuse", {owner[t]}) EXCEPT !.tok = t]
  <2>1. Foreign(x) /\ Foreign(y)
    BY DEF Foreign, Revoking, Idle
  <2>2. Begin(r, x) \/ Begin(r, y)
    BY <1>3 DEF refresh
  <2> QED
    BY <2>1, <2>2, BeginForeign
<1>4. ASSUME NEW c, NEW b, logout(r, c, b) PROVE ActorsForeign'
  BY <1>4, UnactedForeign, BeginForeign DEF logout
<1>5. ASSUME NEW a \in Users, NEW u \in Users, NEW c \in Changes, update_user(r, a, u, c)
      PROVE  ActorsForeign'
  <2> DEFINE w == Writes(u, c)
             x == [Revoking("admin", {u}) EXCEPT !.user = u, !.actor = a, !.change = c,
                                                 !.dirty = w]
             y == [Idle EXCEPT !.op = "admin", !.at = "touch", !.user = u, !.actor = a,
                               !.change = c, !.dirty = TRUE]
  <2>1. (Begin(r, x) \/ Begin(r, y)) /\ u # a
    BY <1>5 DEF update_user
  <2>2. Foreign(x) /\ Foreign(y)
    BY <2>1 DEF Foreign, Revoking, Idle
  <2> QED
    BY <2>1, <2>2, BeginForeign
<1>6. ASSUME NEW a \in Users, NEW u \in Users, NEW role, create_user(r, a, u, role)
      PROVE  ActorsForeign'
  <2> DEFINE x == [Idle EXCEPT !.op = "create", !.at = "insert", !.user = u, !.actor = a,
                               !.change = role]
  <2>1. Begin(r, x) /\ u # a
    BY <1>6 DEF create_user, IsAdmin, Active, Present
  <2>2. Foreign(x)
    BY <2>1 DEF Foreign, Idle
  <2> QED
    BY <2>1, <2>2, BeginForeign
<1>7. ASSUME NEW a \in Users, NEW u \in Users, delete_user(r, a, u) PROVE ActorsForeign'
  <2> DEFINE x == [Revoking("delete", {u}) EXCEPT !.user = u, !.actor = a]
  <2>1. Begin(r, x) /\ u # a
    BY <1>7 DEF delete_user
  <2>2. Foreign(x)
    BY <2>1 DEF Foreign, Revoking, Idle
  <2> QED
    BY <2>1, <2>2, BeginForeign
<1> QED
  BY <1>1, <1>2, <1>3, <1>4, <1>5, <1>6, <1>7 DEF Arrive

LEMMA StepForeign ==
  ASSUME Inv, ActorsForeign, NEW r \in Requests, Step(r) PROVE ActorsForeign'
<1>1. req[r] \in RequestStates
  BY DEF Inv, RequestsGood
<1>2. ASSUME NEW x, req' = [req EXCEPT ![r] = x], x.actor = req[r].actor, x.user = req[r].user
      PROVE  ActorsForeign'
  BY <1>2, SameForeign, ForeignStep
<1>3. CASE ReadUser(r)
  <2> DEFINE x == [req[r] EXCEPT !.at = "claim"]
             y == Revoking("inactive", {req[r].user})
  <2>1. req' = [req EXCEPT ![r] = x] \/ req' = [req EXCEPT ![r] = y]
    BY <1>3 DEF ReadUser, Goes
  <2>2. x.actor = req[r].actor /\ x.user = req[r].user
    BY <1>1 DEF RequestStates
  <2> QED
    BY <1>2, <2>1, <2>2, UnactedForeign, ForeignStep
<1>4. CASE Claim(r)
  <2> DEFINE x == [req[r] EXCEPT !.held = {req[r].tok}, !.at = "issue"]
  <2>1. req' = [req EXCEPT ![r] = x] \/ Abandon(r)
    BY <1>4 DEF Claim
  <2>2. x.actor = req[r].actor /\ x.user = req[r].user
    BY <1>1 DEF RequestStates
  <2> QED
    BY <1>2, <2>1, <2>2, AbandonForeign
<1>5. CASE Sweep(r)
  <2>1. PICK u \in req[r].left :
          req' = [req EXCEPT ![r] = [req[r] EXCEPT !.snap = Found(r, u), !.left = @ \ {u},
                                                   !.at = "lock"]]
    BY <1>5 DEF Sweep
  <2> DEFINE x == [req[r] EXCEPT !.snap = Found(r, u), !.left = @ \ {u}, !.at = "lock"]
  <2>2. x.actor = req[r].actor /\ x.user = req[r].user
    BY <1>1 DEF RequestStates
  <2> QED
    BY <1>2, <2>1, <2>2
<1>6. CASE Lock(r)
  <2> DEFINE x == [req[r] EXCEPT !.held = @ \union StillMatch(r), !.snap = {},
                                 !.at = AfterLock(r)]
  <2>1. req' = [req EXCEPT ![r] = x]
    BY <1>6 DEF Lock
  <2>2. x.actor = req[r].actor /\ x.user = req[r].user
    BY <1>1 DEF RequestStates
  <2> QED
    BY <1>2, <2>1, <2>2
<1>7. CASE Touch(r)
  <2> DEFINE x == [req[r] EXCEPT !.lock = "write",
                     !.at = IF req[r].op = "admin" THEN "commit" ELSE "issue"]
  <2>1. req' = [req EXCEPT ![r] = x] \/ Abandon(r)
    BY <1>7 DEF Touch
  <2>2. x.actor = req[r].actor /\ x.user = req[r].user
    BY <1>1 DEF RequestStates
  <2> QED
    BY <1>2, <2>1, <2>2, AbandonForeign
<1>8. CASE Drop(r)
  <2> DEFINE x == [req[r] EXCEPT !.lock = "drop", !.at = "cascade"]
  <2>1. req' = [req EXCEPT ![r] = x] \/ Abandon(r)
    BY <1>8 DEF Drop
  <2>2. x.actor = req[r].actor /\ x.user = req[r].user
    BY <1>1 DEF RequestStates
  <2> QED
    BY <1>2, <2>1, <2>2, AbandonForeign
<1>9. CASE \E n \in Tokens : Issue(r, n)
  BY <1>9, AbandonForeign, DoneForeign DEF Issue
<1>10. CASE Commit(r) \/ Insert(r) \/ Cascade(r)
  BY <1>10, AbandonForeign, DoneForeign DEF Commit, Insert, Cascade
<1> QED
  BY <1>3, <1>4, <1>5, <1>6, <1>7, <1>8, <1>9, <1>10 DEF Step

LEMMA NextForeign == Inv /\ ActorsForeign /\ [Next]_vars => ActorsForeign'
<1> SUFFICES ASSUME Inv, ActorsForeign, [Next]_vars PROVE ActorsForeign'
  OBVIOUS
<1>1. ASSUME NEW r \in Requests, Arrive(r) \/ Step(r) \/ Rollback(r) PROVE ActorsForeign'
  BY <1>1, ArriveForeign, StepForeign, AbandonForeign DEF Rollback
<1>2. CASE Victim
  BY <1>2, AbandonForeign DEF Victim
<1>3. ASSUME NEW t \in Tokens, GraceEnds(t) \/ Expire(t) PROVE ActorsForeign'
  BY <1>3 DEF GraceEnds, Expire, ActorsForeign
<1>4. CASE UNCHANGED vars
  BY <1>4 DEF vars, ActorsForeign
<1> QED
  BY <1>1, <1>2, <1>3, <1>4 DEF Next

(* The rows of users that a step may change. *)
Touches(r, u) == /\ Commits(r) /\ u = req[r].user
                 /\ \A a \in Users : a # u => users'[a] = users[a]

LEMMA UsersChanged ==
  ASSUME Inv, [Next]_vars
  PROVE  \/ Admins \subseteq Admins'
         \/ \E r \in Requests : Touches(r, req[r].user)
<1>1. ASSUME UNCHANGED users PROVE Admins \subseteq Admins'
  BY <1>1 DEF Admins, IsAdmin, Active, Present
<1>2. ASSUME NEW r \in Requests, Done(r), req[r].at \in {"commit", "cascade"} PROVE Commits(r)
  BY <1>2, IdleGood DEF Done, Commits, Free, Inv, RequestsGood
<1>3. ASSUME NEW r \in Requests, Commit(r)
      PROVE  Admins \subseteq Admins' \/ Touches(r, req[r].user)
  <2>1. Commits(r)
    BY <1>2, <1>3 DEF Commit
  <2>2. \A a \in Users : a # req[r].user => users'[a] = users[a]
    BY <1>3 DEF Commit, Changed, Inv, UsersTyped
  <2> QED
    BY <2>1, <2>2 DEF Touches
<1>4. ASSUME NEW r \in Requests, Cascade(r) PROVE Touches(r, req[r].user)
  <2>1. Commits(r)
    BY <1>2, <1>4 DEF Cascade
  <2>2. \A a \in Users : a # req[r].user => users'[a] = users[a]
    BY <1>4 DEF Cascade, Inv, UsersTyped
  <2> QED
    BY <2>1, <2>2 DEF Touches
<1>5. ASSUME NEW r \in Requests, Insert(r) PROVE Admins \subseteq Admins'
  <2>1. CASE UNCHANGED users
    BY <1>1, <2>1
  <2>2. CASE /\ users[req[r].user].row = "none"
             /\ users' = [users EXCEPT ![req[r].user] =
                  [row |-> "present", active |-> TRUE, admin |-> req[r].change = "admin"]]
    <3>1. \A a \in Users : a # req[r].user => users'[a] = users[a]
      BY <2>2 DEF Inv, UsersTyped
    <3>2. \A a \in Admins : a # req[r].user
      BY <2>2 DEF Admins, IsAdmin, Active, Present
    <3> QED
      BY <3>1, <3>2 DEF Admins, IsAdmin, Active, Present
  <2> QED
    BY <1>5, <2>1, <2>2 DEF Insert, Abandon, UnchangedData
<1>6. ASSUME NEW r \in Requests, Arrive(r) PROVE UNCHANGED users
  BY <1>6 DEF Arrive, login, update_self, refresh, logout, update_user, create_user,
     delete_user, Begin
<1>7. ASSUME NEW r \in Requests, Abandon(r) PROVE UNCHANGED users
  BY <1>7 DEF Abandon, UnchangedData
<1>8. ASSUME NEW r \in Requests,
             ReadUser(r) \/ Claim(r) \/ Sweep(r) \/ Lock(r) \/ Touch(r) \/ Drop(r)
      PROVE  UNCHANGED users
  BY <1>7, <1>8 DEF ReadUser, Claim, Sweep, Lock, Touch, Drop, Goes, UnchangedData
<1>9. ASSUME NEW r \in Requests, NEW n \in Tokens, Issue(r, n) PROVE UNCHANGED users
  BY <1>7, <1>9 DEF Issue
<1>10. ASSUME NEW t \in Tokens, GraceEnds(t) \/ Expire(t) PROVE UNCHANGED users
  BY <1>10 DEF GraceEnds, Expire
<1>11. ASSUME NEW r \in Requests, Arrive(r) \/ Step(r) \/ Rollback(r)
       PROVE  Admins \subseteq Admins' \/ \E q \in Requests : Touches(q, req[q].user)
  BY <1>1, <1>3, <1>4, <1>5, <1>6, <1>7, <1>8, <1>9, <1>11 DEF Step, Rollback
<1>12. CASE Victim
  BY <1>1, <1>7, <1>12 DEF Victim
<1>13. CASE UNCHANGED vars
  BY <1>1, <1>13 DEF vars
<1> QED
  BY <1>1, <1>10, <1>11, <1>12, <1>13 DEF Next

(* The last administrator is lost only to a request whose own              *)
(* administrator was removed while it ran (admin/router.py:82-89,          *)
(* 244-245).                                                               *)
THEOREM LastAdminAlwaysByRace == Spec => LastAdminOnlyByRace
<1>1. Init => ActorsForeign
  BY UnactedForeign DEF Init, ActorsForeign
<1>2. Spec => []ActorsForeign
  BY <1>1, NextForeign, InvAlways, PTL DEF Spec
<1>3. Inv /\ ActorsForeign /\ [Next]_vars =>
        [(Admins # {} /\ Admins' = {}) =>
           \E r \in Requests : Commits(r) /\ req[r].actor \notin Admins]_vars
  <2> SUFFICES ASSUME Inv, ActorsForeign, [Next]_vars, Admins # {}, Admins' = {}
               PROVE  \E r \in Requests : Commits(r) /\ req[r].actor \notin Admins
    OBVIOUS
  <2>1. PICK r \in Requests : Touches(r, req[r].user)
    BY UsersChanged
  <2>2. SUFFICES ASSUME req[r].actor \in Admins PROVE FALSE
    BY <2>1 DEF Touches
  <2>3. req[r].actor \in Users /\ req[r].actor # NoUser
    BY <2>2, SessionsAssumption DEF Admins
  <2>4. users'[req[r].actor] = users[req[r].actor]
    BY <2>1, <2>3 DEF Touches, ActorsForeign, Foreign
  <2> QED
    BY <2>2, <2>4 DEF Admins, IsAdmin, Active, Present
<1> QED
  BY <1>2, <1>3, InvAlways, PTL DEF Spec, LastAdminOnlyByRace
=============================================================================
