------------------------------- MODULE ApiClient -------------------------------
(***************************************************************************)
(* The browser side of a session: api/client.ts, api/coldStart.ts and      *)
(* stores/authStore.ts, in several tabs that share the refresh cookie.     *)
(*                                                                         *)
(* A call is resent when the backend looks asleep, and once more after a   *)
(* 401, with the access token of a refresh that the tab's other calls      *)
(* share.  Between the browser and the server a request or its answer can  *)
(* be lost or late.  The server is SessionLifecycle, which Sessions is     *)
(* shown to implement.                                                     *)
(***************************************************************************)
EXTENDS Naturals, FiniteSets

CONSTANTS Tabs,
          Calls,            \* records: tab, kind, and a name to tell them apart
          Workloads,        \* sets of calls that may be made in a behaviour
          Tokens,           \* bound: refresh tokens, in the order they are issued
          MaxColdRetries,   \* MAX_COLD_RETRIES, 14 in the code
          HasLocks,         \* does the browser have the Web Locks API?
          NoToken, Nobody

Kinds == {"read", "write", "login", "logout"}

ASSUME ApiClientAssumption ==
  /\ \A c \in Calls : c.tab \in Tabs /\ c.kind \in Kinds
  /\ Tabs \intersect Calls = {}
  /\ Workloads \subseteq SUBSET Calls
  /\ Tokens \subseteq Nat \ {0} /\ 1 \in Tokens
  /\ MaxColdRetries \in Nat
  /\ HasLocks \in BOOLEAN
  /\ NoToken \notin Tokens /\ Nobody \notin Tabs

VARIABLES live, used, session,   \* the server, as in SessionLifecycle
          applied,   \* how often the server has carried out each write
          cookie,    \* the browser's refresh cookie
          lock,      \* the tab that has the lock "loantrack-refresh"
          token,     \* does the tab's store hold an access token?
          refresh,   \* refreshSession of each tab: inFlight and its attempts
          call,      \* each call
          net,       \* requests on their way, and answers on the way back
          ended,     \* sessions ended by a sign-out or expiry (history)
          cut        \* sessions in which a refresh went unanswered (history)

server == <<live, used, session, applied, ended>>
client == <<token, refresh, call>>
vars   == <<server, cookie, lock, client, net, cut>>

Server == INSTANCE SessionLifecycle

NoRefresh == [at |-> "none", cold |-> 0]
NewCall   == [at |-> "new", cold |-> 0, retry |-> FALSE]
Settled   == [NewCall EXCEPT !.at = "settled"]

Writes == {c \in Calls : c.kind = "write"}

(* One sign-in has been made, and its cookie is shared by all tabs. *)
Init == /\ live = {1} /\ used = {1} /\ session = [t \in Tokens |-> t]
        /\ applied = [c \in Writes |-> 0]
        /\ cookie = 1
        /\ lock = Nobody
        /\ token = [t \in Tabs |-> TRUE]
        /\ refresh = [t \in Tabs |-> NoRefresh]
        /\ \E W \in Workloads : call = [c \in Calls |-> IF c \in W THEN NewCall ELSE Settled]
        /\ net = {}
        /\ ended = {}
        /\ cut = {}

-----------------------------------------------------------------------------
(* Requests.  What nobody awaits any more may still reach the server. *)

Request(s, try) ==
  [from |-> s, try |-> try, cookie |-> cookie, awaited |-> TRUE, answer |-> "none",
   gives |-> NoToken]

Await(s) == {m \in net : m.from = s /\ m.awaited}

(* "unprocessed" is a 503 or a proxy's 429, which the server never saw;    *)
(* "gateway" a 502, a 504 or no answer at all.                             *)
Fails(m, symptom) == symptom = "unprocessed" => m.answer = "none"

(* Those that nobody waits for any more, unless they change nothing. *)
Abandoned(M) ==
  {[m EXCEPT !.awaited = FALSE] :
     m \in {x \in M : x.answer = "none" /\ (x.from \in Calls => x.from.kind # "read")}}

Left(m, symptom) ==
  (net \ {m}) \union IF symptom = "unprocessed" THEN {} ELSE Abandoned({m})

(* The request interceptor adds the access token: all calls but a sign-in  *)
(* are made with one, and keep the header when they are resent.            *)
Send(c) == net' = net \union {Request(c, call[c].cold)}

-----------------------------------------------------------------------------
(* The server. *)

Reply(m, answer, gives) ==
  net' = (net \ {m}) \union
         (IF m.awaited THEN {[m EXCEPT !.answer = answer, !.gives = gives]} ELSE {})

Fresh(n) == n \in Tokens \ used /\ \A t \in Tokens \ used : n <= t

SessionsOf(S) == {session[t] : t \in S}

(* POST /auth/refresh.  A token that is no longer live is refused; its     *)
(* session ends too if it was exchanged longer ago than the grace period.  *)
ServeRefresh(m) ==
  /\ UNCHANGED <<applied, ended>>
  /\ \/ \E n \in Tokens : /\ Fresh(n)
                          /\ Server!Rotate(m.cookie, n)
                          /\ Reply(m, "ok", n)
     \/ /\ m.cookie \notin live
        /\ UNCHANGED <<used, session>>
        /\ live' \in {live, {t \in live : m.cookie \in Tokens =>
                                            session[t] # session[m.cookie]}}
        /\ Reply(m, "401", NoToken)

ServeLogin(m) ==
  /\ UNCHANGED <<applied, ended>>
  /\ \E n \in Tokens : /\ Fresh(n)
                       /\ live' = live \union {n}
                       /\ Server!Open(n)
                       /\ Reply(m, "ok", n)

ServeLogout(m) ==
  /\ live' = {}
  /\ ended' = ended \union SessionsOf(live)
  /\ UNCHANGED <<used, session, applied>>
  /\ Reply(m, "ok", NoToken)

ServeWrite(m) ==
  /\ applied' = [applied EXCEPT ![m.from] = @ + 1]
  /\ UNCHANGED <<live, used, session, ended>>
  /\ Reply(m, "ok", NoToken)

(* What the server carries out.  The answers that change nothing there are *)
(* chosen when they arrive (Answers).                                      *)
Serve(m) ==
  /\ m.answer = "none"
  /\ UNCHANGED <<cookie, lock, client, cut>>
  /\ IF m.from \in Tabs THEN ServeRefresh(m)
     ELSE CASE m.from.kind = "login"  -> ServeLogin(m)
            [] m.from.kind = "logout" -> ServeLogout(m)
            [] m.from.kind = "write"  -> ServeWrite(m)
            [] OTHER                  -> FALSE

(* An access token may have expired; a rate limit or a failure is "error". *)
Answers(m) ==
  IF m.answer # "none"         THEN {m.answer}
  ELSE IF m.from \in Tabs \/ m.from.kind = "logout" THEN {"error"}
  ELSE IF m.from.kind = "read" THEN {"ok", "401", "error"}
  ELSE {"401", "error"}

(* The sessions expire or are ended from elsewhere: an administrator, a    *)
(* password change, another device.                                        *)
EndSessions ==
  /\ live # {}
  /\ live' = {}
  /\ ended' = ended \union SessionsOf(live)
  /\ UNCHANGED <<used, session, applied, cookie, lock, client, net, cut>>

-----------------------------------------------------------------------------
(* Calls. *)

start(c) ==
  /\ call[c].at = "new"
  /\ c.kind = "login" \/ token[c.tab]
  /\ call' = [call EXCEPT ![c].at = "flight"]
  /\ Send(c)
  /\ UNCHANGED <<server, cookie, lock, token, refresh, cut>>

(* After the pause, or with the new access token: client(original). *)
Resend(c) ==
  /\ call[c].at = "again"
  /\ call' = [call EXCEPT ![c].at = "flight"]
  /\ Send(c)
  /\ UNCHANGED <<server, cookie, lock, token, refresh, cut>>

(* Broken variant: a write that may have been carried out is sent again.   *)
shouldRetryAll(c, symptom) == call[c].cold < MaxColdRetries

(* Broken variant: one attempt too many.                                   *)
shouldRetryOnceMore(c, symptom) ==
  /\ call[c].cold <= MaxColdRetries
  /\ c.kind \in {"read", "login"} \/ symptom = "unprocessed"

shouldRetryColdStart(c, symptom) ==
  /\ call[c].cold < MaxColdRetries
  /\ c.kind \in {"read", "login"} \/ symptom = "unprocessed"

(* The call comes back, with a result or an error.  handleLogout clears    *)
(* the store in either case.                                               *)
Settle(c, ok) ==
  /\ call' = [call EXCEPT ![c] = Settled]
  /\ token' = CASE c.kind = "logout"       -> [token EXCEPT ![c.tab] = FALSE]
                [] c.kind = "login" /\ ok -> [token EXCEPT ![c.tab] = TRUE]
                [] OTHER                  -> token
  /\ UNCHANGED refresh

(* A first 401 waits for refreshSession, which starts unless it runs. *)
AwaitRefresh(c) ==
  /\ call' = [call EXCEPT ![c].at = "refreshing", ![c].retry = TRUE]
  /\ refresh' = [refresh EXCEPT ![c.tab] =
                   IF @.at = "none" THEN [at |-> "lock", cold |-> 0] ELSE @]
  /\ UNCHANGED token

(* The response interceptor. *)
Receive(c) ==
  \E m \in Await(c) : \E answer \in Answers(m) :
    /\ net' = net \ {m}
    /\ cookie' = CASE m.gives # NoToken                    -> m.gives
                   [] c.kind = "logout" /\ answer = "ok" -> NoToken
                   [] OTHER                               -> cookie
    /\ UNCHANGED <<server, lock, cut>>
    /\ IF answer = "401" /\ ~call[c].retry /\ c.kind # "login"
         THEN AwaitRefresh(c)
         ELSE Settle(c, answer = "ok")

LoseCall(c, symptom) ==
  \E m \in Await(c) :
    /\ Fails(m, symptom)
    /\ net' = Left(m, symptom)
    /\ UNCHANGED <<server, cookie, lock, cut>>
    /\ IF shouldRetryColdStart(c, symptom)
         THEN /\ call' = [call EXCEPT ![c].at = "again", ![c].cold = @ + 1]
              /\ UNCHANGED <<token, refresh>>
         ELSE Settle(c, FALSE)

-----------------------------------------------------------------------------
(* refreshSession. *)

(* Broken variant: tabs do not wait for each other.                        *)
AcquireAtOnce(t) ==
  /\ refresh[t].at = "lock"
  /\ lock' = t
  /\ refresh' = [refresh EXCEPT ![t].at = "flight"]
  /\ net' = net \union {Request(t, 0)}
  /\ UNCHANGED <<server, cookie, token, call, cut>>

(* withCrossTabLock, then the first attempt. *)
Acquire(t) ==
  /\ refresh[t].at = "lock"
  /\ HasLocks => lock = Nobody
  /\ lock' = IF HasLocks THEN t ELSE lock
  /\ refresh' = [refresh EXCEPT ![t].at = "flight"]
  /\ net' = net \union {Request(t, 0)}
  /\ UNCHANGED <<server, cookie, token, call, cut>>

ResendRefresh(t) ==
  /\ refresh[t].at = "again"
  /\ refresh' = [refresh EXCEPT ![t].at = "flight"]
  /\ net' = net \union {Request(t, refresh[t].cold)}
  /\ UNCHANGED <<server, cookie, lock, token, call, cut>>

Released(t) == IF lock = t THEN Nobody ELSE lock

Pending(t) == {c \in Calls : c.tab = t /\ call[c].at \in {"flight", "again", "refreshing"}}

(* A page load: the store, the calls and the refresh of the tab are gone.  *)
PageLoad(t, messages) ==
  LET gone == {m \in messages : m.from = t \/ m.from \in Pending(t)}
  IN  /\ token' = [token EXCEPT ![t] = FALSE]
      /\ refresh' = [refresh EXCEPT ![t] = NoRefresh]
      /\ call' = [c \in Calls |-> IF c \in Pending(t) THEN Settled ELSE call[c]]
      /\ lock' = Released(t)
      /\ net' = (messages \ gone) \union Abandoned(gone)

(* The catch of the interceptor: logout(), then /login. *)
SignOut(t, messages) == PageLoad(t, messages)

(* Broken variant: of the calls that share the refresh one goes on.        *)
SharingFirst(t) == {CHOOSE c \in Calls : c.tab = t /\ call[c].at = "refreshing"}

(* The calls that share the tab's refresh. *)
Sharing(t) == {c \in Calls : c.tab = t /\ call[c].at = "refreshing"}

ReceiveRefresh(t) ==
  \E m \in Await(t) : \E answer \in Answers(m) :
    /\ UNCHANGED <<server, cut>>
    /\ IF answer = "ok"
         THEN /\ cookie' = m.gives
              /\ net' = net \ {m}
              /\ token' = [token EXCEPT ![t] = TRUE]
              /\ refresh' = [refresh EXCEPT ![t] = NoRefresh]
              /\ lock' = Released(t)
              /\ call' = [c \in Calls |-> IF c \in Sharing(t)
                                            THEN [call[c] EXCEPT !.at = "again"]
                                            ELSE call[c]]
         ELSE SignOut(t, net \ {m}) /\ UNCHANGED cookie

(* refreshWithColdStartRetry: every symptom is retried. *)
LoseRefresh(t, symptom) ==
  \E m \in Await(t) :
    /\ Fails(m, symptom)
    /\ cut' = IF symptom = "gateway" /\ m.cookie \in Tokens
                THEN cut \union {session[m.cookie]} ELSE cut
    /\ UNCHANGED <<server, cookie>>
    /\ IF refresh[t].cold < MaxColdRetries
         THEN /\ net' = Left(m, symptom)
              /\ refresh' = [refresh EXCEPT ![t] = [at |-> "again", cold |-> @.cold + 1]]
              /\ UNCHANGED <<lock, token, call>>
         ELSE SignOut(t, Left(m, symptom))

(* The user reloads the page. *)
Reload(t) ==
  /\ token[t] \/ Pending(t) # {}
  /\ PageLoad(t, net)
  /\ cut' = cut \union {session[m.cookie] : m \in {m \in Await(t) : m.cookie \in Tokens}}
  /\ UNCHANGED <<server, cookie>>

-----------------------------------------------------------------------------
Symptoms == {"unprocessed", "gateway"}

CallStep(c) == Resend(c) \/ Receive(c) \/ \E s \in Symptoms : LoseCall(c, s)

RefreshStep(t) == ResendRefresh(t) \/ ReceiveRefresh(t) \/ \E s \in Symptoms : LoseRefresh(t, s)

Next == \/ \E c \in Calls : start(c) \/ CallStep(c)
        \/ \E t \in Tabs : Acquire(t) \/ RefreshStep(t) \/ Reload(t)
        \/ \E m \in net : Serve(m)
        \/ EndSessions

Spec == Init /\ [][Next]_vars

(* Timers fire, a request gets an answer or an error in the end, and a     *)
(* free lock is granted: while any of these can happen, one of them does.  *)
Progress == \/ \E c \in Calls : CallStep(c)
            \/ \E t \in Tabs : Acquire(t) \/ RefreshStep(t)

LiveSpec == Spec /\ WF_vars(Progress)

-----------------------------------------------------------------------------
Message ==
  [from : Tabs \union Calls, try : 0..MaxColdRetries, cookie : Tokens \union {NoToken},
   awaited : BOOLEAN, answer : {"none", "ok", "401"},
   gives : Tokens \union {NoToken}]

TypeOK ==
  /\ live \subseteq used /\ used \subseteq Tokens
  /\ session \in [Tokens -> Tokens]
  /\ applied \in [Writes -> Nat]
  /\ cookie \in Tokens \union {NoToken}
  /\ lock \in Tabs \union {Nobody}
  /\ token \in [Tabs -> BOOLEAN]
  /\ refresh \in [Tabs -> [at : {"none", "lock", "flight", "again"}, cold : 0..MaxColdRetries]]
  /\ call \in [Calls -> [at : {"new", "flight", "again", "refreshing", "settled"},
                         cold : 0..MaxColdRetries, retry : BOOLEAN]]
  /\ net \subseteq Message
  /\ ended \subseteq Tokens /\ cut \subseteq Tokens

(* A payment or any other write is carried out at most once, however often *)
(* the client sends it again and whatever is lost (coldStart.ts:50-52).    *)
WriteAppliedOnce == \A c \in Writes : applied[c] <= 1

Refused == {m \in net : m.from \in Tabs /\ m.awaited /\ m.answer = "401"}

(* The server refuses a tab's refresh, which signs the user out, only if   *)
(* the session was ended or an earlier answer was lost on the way: tabs    *)
(* and calls that refresh together never spend each other's cookie         *)
(* (client.ts:84-114).                                                     *)
RefusedForCause ==
  \A m \in Refused : m.cookie \in Tokens => session[m.cookie] \in ended \union cut

(* Every call comes back to its caller: the retries end and a tab that     *)
(* waits for another's refresh gets its turn (client.ts:65-158).           *)
Waiting(c) == call[c].at \in {"flight", "again", "refreshing"}

EveryCallSettles == []<>(\A c \in Calls : ~Waiting(c))

(* coldStart.ts:49: "Read-only requests and login/refresh are always safe  *)
(* to resend", so nobody is signed out of a session that was not ended.    *)
ResendIsSafe ==
  \A m \in Refused : m.cookie \in Tokens => session[m.cookie] \in ended
=============================================================================
