---------------------------- MODULE ApiClientProofs ----------------------------
(***************************************************************************)
(* Proofs about ApiClient, for any number of tabs, calls, tokens and       *)
(* resends: the types, that no write is carried out twice, and that a      *)
(* refresh is refused only for a cause.                                    *)
(***************************************************************************)
EXTENDS ApiClient, TLAPS

ServerTyped ==
  /\ live \subseteq used /\ used \subseteq Tokens
  /\ session \in [Tokens -> Tokens]
  /\ applied \in [Writes -> Nat]
  /\ ended \subseteq Tokens

BrowserTyped ==
  /\ cookie \in Tokens \union {NoToken}
  /\ lock \in Tabs \union {Nobody}
  /\ token \in [Tabs -> BOOLEAN]
  /\ refresh \in [Tabs -> [at : {"none", "lock", "flight", "again"},
                           cold : 0..MaxColdRetries]]
  /\ cut \subseteq Tokens

CallState == [at : {"new", "flight", "again", "refreshing", "settled"},
              cold : 0..MaxColdRetries, retry : BOOLEAN]

CallsTyped == call \in [Calls -> CallState] /\ net \subseteq Message

(* One write: at most one request of it is on its way; while it waits to   *)
(* be sent, and while its request is, it has not been carried out.         *)
OneRequest(c, ms) == \A m, n \in ms : m.from = c /\ n.from = c => m = n

Unsent(c, cs, ms, ap) ==
  cs[c].at \in {"new", "again", "refreshing"} =>
    ap[c] = 0 /\ \A m \in ms : m.from # c

OnItsWay(c, cs, ms, ap) ==
  \A m \in ms : m.from = c =>
    /\ m.answer \in {"none", "ok"}
    /\ m.answer = "none" => ap[c] = 0
    /\ m.awaited => cs[c].at = "flight"

WriteGood(c, cs, ms, ap) ==
  /\ ap[c] \in {0, 1}
  /\ OneRequest(c, ms) /\ Unsent(c, cs, ms, ap) /\ OnItsWay(c, cs, ms, ap)

Inv == /\ ServerTyped /\ BrowserTyped /\ CallsTyped
       /\ \A c \in Writes : WriteGood(c, call, net, applied)

-----------------------------------------------------------------------------
(* Messages. *)

LEMMA Settings ==
  /\ MaxColdRetries \in Nat /\ \A c \in Calls : c.tab \in Tabs
  /\ Tabs \intersect Calls = {} /\ Writes \subseteq Calls
  /\ NewCall \in CallState /\ Settled \in CallState /\ NewCall.at = "new"
  /\ Settled.at = "settled"
<1>1. 0 \in 0..MaxColdRetries
  BY ApiClientAssumption
<1> QED
  BY <1>1, ApiClientAssumption DEF Writes, NewCall, Settled, CallState

LEMMA RequestSent ==
  ASSUME Inv, NEW s \in Tabs \union Calls, NEW try \in 0..MaxColdRetries
  PROVE  /\ Request(s, try) \in Message
         /\ Request(s, try).from = s /\ Request(s, try).answer = "none"
BY DEF Request, Message, Inv, BrowserTyped

Dropped(m) == [m EXCEPT !.awaited = FALSE]

LEMMA DroppedFrom ==
  ASSUME NEW m \in Message
  PROVE  /\ Dropped(m) \in Message /\ ~Dropped(m).awaited
         /\ Dropped(m).from = m.from /\ Dropped(m).answer = m.answer
BY DEF Dropped, Message

LEMMA AbandonedFrom ==
  ASSUME NEW M \in SUBSET Message
  PROVE  /\ Abandoned(M) \in SUBSET Message
         /\ \A x \in Abandoned(M) : \E m \in M : m.answer = "none" /\ x = Dropped(m)
BY DroppedFrom DEF Abandoned, Dropped

LEMMA LeftFrom ==
  ASSUME NEW m \in net, net \in SUBSET Message, NEW symptom
  PROVE  /\ Left(m, symptom) \in SUBSET Message
         /\ \A x \in Left(m, symptom) :
              x \in net \ {m} \/ (m.answer = "none" /\ x = Dropped(m))
         /\ symptom = "unprocessed" => Left(m, symptom) = net \ {m}
<1>1. {m} \in SUBSET Message
  OBVIOUS
<1>2. CASE symptom = "unprocessed"
  BY <1>2 DEF Left
<1>3. CASE symptom # "unprocessed"
  <2>1. Left(m, symptom) = (net \ {m}) \union Abandoned({m})
    BY <1>3 DEF Left
  <2>2. Abandoned({m}) \in SUBSET Message
        /\ \A x \in Abandoned({m}) : m.answer = "none" /\ x = Dropped(m)
    BY <1>1, AbandonedFrom
  <2> QED
    BY <1>3, <2>1, <2>2
<1> QED
  BY <1>2, <1>3

-----------------------------------------------------------------------------
(* What a step can do to one write. *)

(* It neither sends nor answers it; at most its refresh has come. *)
LEMMA Untouched ==
  ASSUME NEW c, NEW cs, NEW ms, NEW ap, NEW cs2, NEW ms2, NEW ap2,
         WriteGood(c, cs, ms, ap), ap2[c] = ap[c],
         \/ cs2[c].at = cs[c].at
         \/ cs[c].at = "refreshing" /\ cs2[c].at = "again",
         \A m \in ms2 : m.from = c => m \in ms
  PROVE  WriteGood(c, cs2, ms2, ap2)
BY DEF WriteGood, OneRequest, Unsent, OnItsWay

(* Its request has gone, and it had not been carried out or is not resent. *)
LEMMA Gone ==
  ASSUME NEW c, NEW cs, NEW ms, NEW ap, NEW cs2, NEW ms2, NEW ap2,
         WriteGood(c, cs, ms, ap), ap2[c] = ap[c],
         cs2[c].at = "settled" \/ ap[c] = 0,
         \A m \in ms2 : m.from # c
  PROVE  WriteGood(c, cs2, ms2, ap2)
BY DEF WriteGood, OneRequest, Unsent, OnItsWay

(* Its caller has stopped waiting; the request may still arrive. *)
LEMMA Unawaited ==
  ASSUME NEW c, NEW cs, NEW ms \in SUBSET Message, NEW ap, NEW cs2, NEW ms2, NEW ap2,
         WriteGood(c, cs, ms, ap), ap2[c] = ap[c], cs2[c].at = "settled",
         \A x \in ms2 : x.from = c => \E m \in ms : x = Dropped(m)
  PROVE  WriteGood(c, cs2, ms2, ap2)
<1>1. \A x \in ms2 : x.from = c =>
        \E m \in ms : x = Dropped(m) /\ m.from = c /\ ~x.awaited /\ x.answer = m.answer
  BY DroppedFrom
<1>2. OneRequest(c, ms2)
  BY <1>1 DEF WriteGood, OneRequest
<1>3. OnItsWay(c, cs2, ms2, ap2)
  BY <1>1 DEF WriteGood, OnItsWay
<1> QED
  BY <1>2, <1>3 DEF WriteGood, Unsent

LEMMA Sent ==
  ASSUME NEW c, NEW cs, NEW ms, NEW ap, NEW cs2, NEW q,
         WriteGood(c, cs, ms, ap), cs[c].at \in {"new", "again"}, cs2[c].at = "flight",
         q.answer = "none"
  PROVE  WriteGood(c, cs2, ms \union {q}, ap)
BY DEF WriteGood, OneRequest, Unsent, OnItsWay

(* The server carries it out. *)
LEMMA CarriedOut ==
  ASSUME NEW c, NEW cs, NEW ms, NEW ap, NEW ms2, NEW ap2,
         WriteGood(c, cs, ms, ap), NEW m \in ms, m.from = c, m.answer = "none",
         ap2[c] = ap[c] + 1,
         \A x \in ms2 : x \in ms \ {m} \/
           (x.from = c /\ x.answer = "ok" /\ x.awaited = m.awaited),
         \A x, y \in ms2 \ ms : x = y
  PROVE  WriteGood(c, cs, ms2, ap2)
<1>1. ap[c] = 0 /\ ap2[c] = 1
  BY DEF WriteGood, OnItsWay
<1>2. \A x \in ms2 : x.from = c => x \notin ms \ {m}
  BY DEF WriteGood, OneRequest
<1>3. \A x \in ms2 : x.from = c => x.answer = "ok" /\ x.awaited = m.awaited
  BY <1>2
<1>4. \A x \in ms2 : x.from = c => x # m /\ x \notin ms
  BY <1>2, <1>3
<1>5. OneRequest(c, ms2)
  BY <1>4 DEF OneRequest
<1>6. Unsent(c, cs, ms2, ap2)
  BY DEF WriteGood, Unsent
<1>7. OnItsWay(c, cs, ms2, ap2)
  BY <1>3 DEF WriteGood, OnItsWay
<1> QED
  BY <1>1, <1>5, <1>6, <1>7 DEF WriteGood

-----------------------------------------------------------------------------
(* Calls. *)

LEMMA InitInv == Init => Inv
<1> SUFFICES ASSUME Init PROVE Inv
  OBVIOUS
<1>1. ServerTyped /\ BrowserTyped
  BY ApiClientAssumption DEF Init, ServerTyped, BrowserTyped, NoRefresh
<1>2. PICK W \in Workloads : call = [c \in Calls |-> IF c \in W THEN NewCall ELSE Settled]
  BY DEF Init
<1>3. CallsTyped
  BY <1>2, Settings DEF CallsTyped, Init
<1>4. \A c \in Writes : WriteGood(c, call, net, applied)
  BY DEF Init, WriteGood, OneRequest, Unsent, OnItsWay
<1> QED
  BY <1>1, <1>3, <1>4 DEF Inv

LEMMA SendInv ==
  ASSUME Inv, NEW c \in Calls, call[c].at \in {"new", "again"},
         call' = [call EXCEPT ![c].at = "flight"], Send(c),
         UNCHANGED <<server, cookie, lock, token, refresh, cut>>
  PROVE  Inv'
<1> DEFINE q == Request(c, call[c].cold)
<1>1. call[c] \in CallState /\ call \in [Calls -> CallState] /\ net \in SUBSET Message
  BY DEF Inv, CallsTyped
<1>2. q \in Message /\ q.from = c /\ q.answer = "none"
  BY <1>1, RequestSent DEF CallState
<1>3. net' = net \union {q}
  BY DEF Send
<1> HIDE DEF q
<1>4. /\ call' = [call EXCEPT ![c] = [call[c] EXCEPT !.at = "flight"]]
      /\ [call[c] EXCEPT !.at = "flight"] \in CallState
      /\ call'[c].at = "flight"
  BY <1>1 DEF CallState
<1>5. CallsTyped'
  BY <1>1, <1>2, <1>3, <1>4 DEF CallsTyped
<1>6. ServerTyped' /\ BrowserTyped'
  BY DEF Inv, ServerTyped, BrowserTyped, server
<1>7. ASSUME NEW d \in Writes PROVE WriteGood(d, call', net', applied')
  <2>1. WriteGood(d, call, net, applied) /\ applied' = applied
    BY DEF Inv, server
  <2>2. CASE d = c
    BY <2>1, <2>2, <1>2, <1>3, <1>4, Sent
  <2>3. CASE d # c
    <3>1. call'[d].at = call[d].at
      BY <1>1, <1>4, <2>3, Settings
    <3>2. \A m \in net' : m.from = d => m \in net
      BY <1>2, <1>3, <2>3
    <3>3. WriteGood(d, call, net, applied) /\ applied'[d] = applied[d]
      BY <2>1
    <3> QED
      BY ONLY <3>1, <3>2, <3>3, Untouched
  <2> QED
    BY <2>2, <2>3
<1> QED
  BY <1>5, <1>6, <1>7 DEF Inv

LEMMA startInv == ASSUME Inv, NEW c \in Calls, start(c) PROVE Inv'
BY SendInv DEF start

LEMMA ResendInv == ASSUME Inv, NEW c \in Calls, Resend(c) PROVE Inv'
BY SendInv DEF Resend

(* An awaited request of a write is its only one, and its call is waiting. *)
LEMMA WriteAwaits ==
  ASSUME Inv, NEW c \in Writes, NEW m \in Await(c)
  PROVE  /\ m \in net /\ m.from = c /\ call[c].at = "flight"
         /\ m.answer = "ok" \/ (m.answer = "none" /\ applied[c] = 0)
         /\ \A x \in net : x.from = c => x = m
BY DEF Inv, WriteGood, OnItsWay, OneRequest, Await

LEMMA AwaitedMessage ==
  ASSUME Inv, NEW s, NEW m \in Await(s)
  PROVE  m \in net /\ m \in Message /\ m.from = s /\ m.awaited
BY DEF Await, Inv, CallsTyped

LEMMA SettleTyped ==
  ASSUME Inv, NEW c \in Calls, NEW ok, Settle(c, ok)
  PROVE  /\ call' = [call EXCEPT ![c] = Settled] /\ call' \in [Calls -> CallState]
         /\ token' \in [Tabs -> BOOLEAN] /\ refresh' = refresh
BY Settings DEF Settle, Inv, CallsTyped, BrowserTyped

LEMMA AwaitRefreshTyped ==
  ASSUME Inv, NEW c \in Calls, AwaitRefresh(c)
  PROVE  /\ call' \in [Calls -> CallState]
         /\ \A d \in Calls : d # c => call'[d] = call[d]
         /\ refresh' \in [Tabs -> [at : {"none", "lock", "flight", "again"},
                                   cold : 0..MaxColdRetries]]
         /\ token' = token
<1>1. call \in [Calls -> CallState] /\ call[c] \in CallState
  BY DEF Inv, CallsTyped
<1>2. call' = [call EXCEPT ![c] = [[call[c] EXCEPT !.at = "refreshing"] EXCEPT !.retry = TRUE]]
  BY <1>1 DEF AwaitRefresh, CallState
<1>3. [[call[c] EXCEPT !.at = "refreshing"] EXCEPT !.retry = TRUE] \in CallState
  BY <1>1 DEF CallState
<1>4. 0 \in 0..MaxColdRetries /\ c.tab \in Tabs
  BY Settings
<1>5. refresh' \in [Tabs -> [at : {"none", "lock", "flight", "again"},
                             cold : 0..MaxColdRetries]]
  BY <1>4 DEF AwaitRefresh, Inv, BrowserTyped
<1> QED
  BY <1>1, <1>2, <1>3, <1>5 DEF AwaitRefresh

LEMMA ReceiveInv == ASSUME Inv, NEW c \in Calls, Receive(c) PROVE Inv'
<1> PICK m \in Await(c) : \E answer \in Answers(m) :
        /\ net' = net \ {m}
        /\ cookie' = CASE m.gives # NoToken                    -> m.gives
                       [] c.kind = "logout" /\ answer = "ok" -> NoToken
                       [] OTHER                               -> cookie
        /\ UNCHANGED <<server, lock, cut>>
        /\ IF answer = "401" /\ ~call[c].retry /\ c.kind # "login"
             THEN AwaitRefresh(c)
             ELSE Settle(c, answer = "ok")
  BY DEF Receive
<1>1. PICK answer \in Answers(m) :
        /\ net' = net \ {m}
        /\ cookie' = CASE m.gives # NoToken                    -> m.gives
                       [] c.kind = "logout" /\ answer = "ok" -> NoToken
                       [] OTHER                               -> cookie
        /\ UNCHANGED <<server, lock, cut>>
        /\ IF answer = "401" /\ ~call[c].retry /\ c.kind # "login"
             THEN AwaitRefresh(c)
             ELSE Settle(c, answer = "ok")
  OBVIOUS
<1>2. m \in net /\ m \in Message /\ m.from = c
  BY AwaitedMessage
<1>3. cookie' \in Tokens \union {NoToken}
  BY <1>1, <1>2 DEF Inv, BrowserTyped, Message
<1>4. /\ call' \in [Calls -> CallState] /\ \A d \in Calls : d # c => call'[d] = call[d]
      /\ token' \in [Tabs -> BOOLEAN]
      /\ refresh' \in [Tabs -> [at : {"none", "lock", "flight", "again"},
                                cold : 0..MaxColdRetries]]
  <2>1. CASE AwaitRefresh(c)
    BY <2>1, AwaitRefreshTyped DEF Inv, BrowserTyped
  <2>2. CASE Settle(c, answer = "ok")
    BY <2>2, SettleTyped DEF Inv, BrowserTyped, CallsTyped
  <2> QED
    BY <1>1, <2>1, <2>2
<1>5. ServerTyped' /\ BrowserTyped' /\ CallsTyped'
  BY <1>1, <1>3, <1>4 DEF Inv, ServerTyped, BrowserTyped, CallsTyped, server
<1>6. ASSUME NEW d \in Writes PROVE WriteGood(d, call', net', applied')
  <2>1. WriteGood(d, call, net, applied) /\ applied' = applied /\ d \in Calls
    BY <1>1, Settings DEF Inv, server
  <2>2. CASE d = c
    <3>1. \A x \in net' : x.from # c
      BY <1>1, <2>2, WriteAwaits
    <3>2. call'[c].at = "settled" \/ applied[c] = 0
      <4>1. CASE AwaitRefresh(c) /\ answer = "401"
        BY <4>1, <2>2, WriteAwaits DEF Answers
      <4>2. CASE Settle(c, answer = "ok")
        BY <4>2, SettleTyped, Settings DEF Inv, CallsTyped
      <4> QED
        BY <1>1, <4>1, <4>2
    <3> QED
      BY <2>1, <2>2, <3>1, <3>2, Gone
  <2>3. CASE d # c
    BY <1>1, <1>4, <2>1, <2>3, Untouched
  <2> QED
    BY <2>2, <2>3
<1> QED
  BY <1>5, <1>6 DEF Inv

LEMMA LoseCallInv ==
  ASSUME Inv, NEW c \in Calls, NEW symptom \in Symptoms, LoseCall(c, symptom)
  PROVE  Inv'
<1>1. PICK m \in Await(c) :
        /\ Fails(m, symptom)
        /\ net' = Left(m, symptom)
        /\ UNCHANGED <<server, cookie, lock, cut>>
        /\ IF shouldRetryColdStart(c, symptom)
             THEN /\ call' = [call EXCEPT ![c].at = "again", ![c].cold = @ + 1]
                  /\ UNCHANGED <<token, refresh>>
             ELSE Settle(c, FALSE)
  BY DEF LoseCall
<1>2. m \in net /\ m \in Message /\ m.from = c /\ net \in SUBSET Message
  BY AwaitedMessage DEF Inv, CallsTyped
<1>3. call \in [Calls -> CallState] /\ call[c] \in CallState
  BY DEF Inv, CallsTyped
<1>4. /\ call' \in [Calls -> CallState] /\ \A d \in Calls : d # c => call'[d] = call[d]
      /\ token' \in [Tabs -> BOOLEAN] /\ refresh' = refresh
  <2>1. CASE shouldRetryColdStart(c, symptom)
    <3>1. call[c].cold + 1 \in 0..MaxColdRetries
      BY <2>1, <1>3, Settings DEF shouldRetryColdStart, CallState
    <3>2. call' = [call EXCEPT ![c] =
                     [[call[c] EXCEPT !.at = "again"] EXCEPT !.cold = call[c].cold + 1]]
      BY <1>1, <2>1, <1>3 DEF CallState
    <3>3. [[call[c] EXCEPT !.at = "again"] EXCEPT !.cold = call[c].cold + 1] \in CallState
      BY <3>1, <1>3 DEF CallState
    <3> QED
      BY <1>1, <1>3, <2>1, <3>2, <3>3 DEF Inv, BrowserTyped
  <2>2. CASE ~shouldRetryColdStart(c, symptom)
    BY <1>1, <1>3, <2>2, SettleTyped
  <2> QED
    BY <2>1, <2>2
<1>5. net' \in SUBSET Message
  BY <1>1, <1>2, LeftFrom
<1>6. ServerTyped' /\ BrowserTyped' /\ CallsTyped'
  BY <1>1, <1>4, <1>5 DEF Inv, ServerTyped, BrowserTyped, CallsTyped, server
<1>7. ASSUME NEW d \in Writes PROVE WriteGood(d, call', net', applied')
  <2>1. WriteGood(d, call, net, applied) /\ applied' = applied /\ d \in Calls
    BY <1>1, Settings DEF Inv, server
  <2>2. CASE d = c /\ shouldRetryColdStart(c, symptom)
    <3>1. symptom = "unprocessed"
      BY <2>2 DEF shouldRetryColdStart, Writes
    <3>2. applied[c] = 0 /\ \A x \in net' : x.from # c
      BY <1>1, <1>2, <2>2, <3>1, WriteAwaits, LeftFrom DEF Fails
    <3> QED
      BY <2>1, <2>2, <3>2, Gone
  <2>3. CASE d = c /\ ~shouldRetryColdStart(c, symptom)
    <3>1. call'[c].at = "settled"
      BY <1>1, <1>3, <2>3, SettleTyped, Settings
    <3>2. \A x \in net \ {m} : x.from # c
      BY <2>3, WriteAwaits
    <3>3. \A x \in net' : x.from = c => \E y \in net : x = Dropped(y)
      BY <1>1, <1>2, <3>2, LeftFrom
    <3> QED
      BY <1>2, <2>1, <2>3, <3>1, <3>3, Unawaited
  <2>4. CASE d # c
    <3>1. \A x \in net' : x.from = d => x \in net
      BY <1>1, <1>2, <2>4, LeftFrom, DroppedFrom
    <3> QED
      BY <1>4, <2>1, <2>4, <3>1, Untouched
  <2> QED
    BY <2>2, <2>3, <2>4
<1> QED
  BY <1>6, <1>7 DEF Inv

-----------------------------------------------------------------------------
(* The refresh of a tab. *)

RefreshState == [at : {"none", "lock", "flight", "again"}, cold : 0..MaxColdRetries]

(* A request of a tab is sent, and no call changes. *)
LEMMA TabSendInv ==
  ASSUME Inv, NEW t \in Tabs, NEW try \in 0..MaxColdRetries,
         net' = net \union {Request(t, try)},
         lock' \in Tabs \union {Nobody}, refresh' \in [Tabs -> RefreshState],
         UNCHANGED <<server, cookie, token, call, cut>>
  PROVE  Inv'
<1> DEFINE q == Request(t, try)
<1>1. q \in Message /\ q.from = t
  BY RequestSent
<1> HIDE DEF q
<1>2. net' = net \union {q}
  BY DEF q
<1>3. ServerTyped' /\ BrowserTyped' /\ CallsTyped'
  BY <1>1, <1>2 DEF Inv, ServerTyped, BrowserTyped, CallsTyped, server, RefreshState
<1>4. ASSUME NEW d \in Writes PROVE WriteGood(d, call', net', applied')
  <2>1. /\ WriteGood(d, call, net, applied) /\ applied'[d] = applied[d]
        /\ call'[d].at = call[d].at
    BY DEF Inv, server
  <2>2. \A x \in net' : x.from = d => x \in net
    BY <1>1, <1>2, Settings
  <2> QED
    BY <2>1, <2>2, Untouched
<1> QED
  BY <1>3, <1>4 DEF Inv

LEMMA AcquireInv == ASSUME Inv, NEW t \in Tabs, Acquire(t) PROVE Inv'
<1>1. lock' \in Tabs \union {Nobody} /\ refresh' \in [Tabs -> RefreshState]
  BY DEF Acquire, Inv, BrowserTyped, RefreshState
<1>2. 0 \in 0..MaxColdRetries
  BY Settings
<1> QED
  BY <1>1, <1>2, TabSendInv DEF Acquire

LEMMA ResendRefreshInv == ASSUME Inv, NEW t \in Tabs, ResendRefresh(t) PROVE Inv'
<1>1. lock' \in Tabs \union {Nobody} /\ refresh' \in [Tabs -> RefreshState]
  BY DEF ResendRefresh, Inv, BrowserTyped, RefreshState
<1>2. refresh[t].cold \in 0..MaxColdRetries
  BY DEF Inv, BrowserTyped
<1> QED
  BY <1>1, <1>2, TabSendInv DEF ResendRefresh

(* What is still in the network when a tab is left. *)
LEMMA PageLoadInv ==
  ASSUME Inv, NEW t \in Tabs, NEW ms \in SUBSET Message, PageLoad(t, ms),
         \A c \in Writes : WriteGood(c, call, ms, applied),
         cookie' \in Tokens \union {NoToken}, cut' \subseteq Tokens, UNCHANGED server
  PROVE  Inv'
<1> DEFINE gone == {m \in ms : m.from = t \/ m.from \in Pending(t)}
<1>1. /\ token' = [token EXCEPT ![t] = FALSE]
      /\ refresh' = [refresh EXCEPT ![t] = NoRefresh]
      /\ call' = [c \in Calls |-> IF c \in Pending(t) THEN Settled ELSE call[c]]
      /\ lock' = Released(t)
      /\ net' = (ms \ gone) \union Abandoned(gone)
  BY DEF PageLoad
<1>2. gone \in SUBSET Message
  OBVIOUS
<1>3. /\ Abandoned(gone) \in SUBSET Message
      /\ \A x \in Abandoned(gone) : \E m \in gone : x = Dropped(m) /\ x.from = m.from
  BY <1>2, AbandonedFrom, DroppedFrom
<1>4. \A x \in gone : x \in ms /\ (x.from = t \/ x.from \in Pending(t))
  OBVIOUS
<1>5. \A x \in ms \ gone : x.from # t /\ x.from \notin Pending(t)
  OBVIOUS
<1> HIDE DEF gone
<1>6. call' \in [Calls -> CallState] /\ net' \in SUBSET Message
  BY <1>1, <1>3, Settings DEF Inv, CallsTyped
<1>7. 0 \in 0..MaxColdRetries
  BY Settings
<1>8. lock' \in Tabs \union {Nobody} /\ NoRefresh \in RefreshState
  BY <1>1, <1>7 DEF Released, NoRefresh, RefreshState, Inv, BrowserTyped
<1>9. ServerTyped' /\ BrowserTyped' /\ CallsTyped'
  BY <1>1, <1>6, <1>8
  DEF Inv, ServerTyped, BrowserTyped, CallsTyped, server, RefreshState
<1>10. ASSUME NEW d \in Writes PROVE WriteGood(d, call', net', applied')
  <2>1. WriteGood(d, call, ms, applied) /\ applied'[d] = applied[d] /\ d \in Calls /\ d # t
    BY Settings DEF server
  <2>2. CASE d \in Pending(t)
    <3>1. call'[d].at = "settled"
      BY <1>1, <2>1, <2>2, Settings
    <3>2. \A x \in net' : x.from = d => \E y \in ms : x = Dropped(y)
      BY <1>1, <1>3, <1>4, <1>5, <2>2
    <3> QED
      BY <2>1, <3>1, <3>2, Unawaited
  <2>3. CASE d \notin Pending(t)
    <3>1. call'[d].at = call[d].at
      BY <1>1, <2>1, <2>3
    <3>2. \A x \in net' : x.from = d => x \in ms
      BY <1>1, <1>3, <1>4, <2>1, <2>3
    <3> QED
      BY <2>1, <3>1, <3>2, Untouched
  <2> QED
    BY <2>2, <2>3
<1> QED
  BY <1>9, <1>10 DEF Inv

(* A tab loses its own message; no write changes. *)
LEMMA TabMessageGone ==
  ASSUME Inv, NEW t \in Tabs, NEW ms,
         \A x \in ms : x \in net \/ x.from = t, NEW c \in Writes
  PROVE  WriteGood(c, call, ms, applied)
<1>1. WriteGood(c, call, net, applied) /\ c # t
  BY Settings DEF Inv
<1>2. \A x \in ms : x.from = c => x \in net
  BY <1>1
<1> QED
  BY <1>1, <1>2, Untouched

LEMMA ReceiveRefreshInv == ASSUME Inv, NEW t \in Tabs, ReceiveRefresh(t) PROVE Inv'
<1> PICK m \in Await(t) : \E answer \in Answers(m) :
        /\ UNCHANGED <<server, cut>>
        /\ IF answer = "ok"
             THEN /\ cookie' = m.gives
                  /\ net' = net \ {m}
                  /\ token' = [token EXCEPT ![t] = TRUE]
                  /\ refresh' = [refresh EXCEPT ![t] = NoRefresh]
                  /\ lock' = Released(t)
                  /\ call' = [c \in Calls |-> IF c \in Sharing(t)
                                                THEN [call[c] EXCEPT !.at = "again"]
                                                ELSE call[c]]
             ELSE SignOut(t, net \ {m}) /\ UNCHANGED cookie
  BY DEF ReceiveRefresh
<1>1. m \in net /\ m \in Message /\ m.from = t /\ UNCHANGED <<server, cut>>
  BY AwaitedMessage
<1>2. CASE SignOut(t, net \ {m}) /\ UNCHANGED cookie
  <2>1. \A c \in Writes : WriteGood(c, call, net \ {m}, applied)
    BY <1>1, TabMessageGone
  <2> QED
    BY <1>1, <1>2, <2>1, PageLoadInv DEF SignOut, Inv, BrowserTyped, CallsTyped
<1>3. CASE /\ cookie' = m.gives
           /\ net' = net \ {m}
           /\ token' = [token EXCEPT ![t] = TRUE]
           /\ refresh' = [refresh EXCEPT ![t] = NoRefresh]
           /\ lock' = Released(t)
           /\ call' = [c \in Calls |-> IF c \in Sharing(t)
                                         THEN [call[c] EXCEPT !.at = "again"]
                                         ELSE call[c]]
  <2>1. call \in [Calls -> CallState] /\ 0 \in 0..MaxColdRetries
    BY Settings DEF Inv, CallsTyped
  <2>2. call' \in [Calls -> CallState]
    BY <1>3, <2>1 DEF CallState
  <2>3. lock' \in Tabs \union {Nobody} /\ NoRefresh \in RefreshState
    BY <1>3, <2>1 DEF Released, NoRefresh, RefreshState, Inv, BrowserTyped
  <2>4. cookie' \in Tokens \union {NoToken}
    BY <1>1, <1>3 DEF Message
  <2>5. ServerTyped' /\ BrowserTyped' /\ CallsTyped'
    BY <1>1, <1>3, <2>2, <2>3, <2>4
    DEF Inv, ServerTyped, BrowserTyped, CallsTyped, server, RefreshState
  <2>6. ASSUME NEW d \in Writes PROVE WriteGood(d, call', net', applied')
    <3>1. WriteGood(d, call, net, applied) /\ applied'[d] = applied[d] /\ d \in Calls
      BY <1>1, Settings DEF Inv, server
    <3>2. \/ call'[d].at = call[d].at
          \/ call[d].at = "refreshing" /\ call'[d].at = "again"
      BY <1>3, <2>1, <3>1 DEF Sharing, CallState
    <3> QED
      BY <1>3, <3>1, <3>2, Untouched
  <2> QED
    BY <2>5, <2>6 DEF Inv
<1> QED
  BY <1>2, <1>3

LEMMA LoseRefreshInv ==
  ASSUME Inv, NEW t \in Tabs, NEW symptom \in Symptoms, LoseRefresh(t, symptom)
  PROVE  Inv'
<1>1. PICK m \in Await(t) :
        /\ cut' = IF symptom = "gateway" /\ m.cookie \in Tokens
                    THEN cut \union {session[m.cookie]} ELSE cut
        /\ UNCHANGED <<server, cookie>>
        /\ IF refresh[t].cold < MaxColdRetries
             THEN /\ net' = Left(m, symptom)
                  /\ refresh' = [refresh EXCEPT ![t] = [at |-> "again", cold |-> @.cold + 1]]
                  /\ UNCHANGED <<lock, token, call>>
             ELSE SignOut(t, Left(m, symptom))
  BY DEF LoseRefresh
<1>2. m \in net /\ m \in Message /\ m.from = t /\ net \in SUBSET Message
  BY AwaitedMessage DEF Inv, CallsTyped
<1>3. cut' \subseteq Tokens
  BY <1>1 DEF Inv, ServerTyped, BrowserTyped
<1>4. /\ Left(m, symptom) \in SUBSET Message
      /\ \A x \in Left(m, symptom) : x \in net \/ (x = Dropped(m) /\ x.from = t)
  BY <1>2, LeftFrom, DroppedFrom
<1>5. \A c \in Writes : WriteGood(c, call, Left(m, symptom), applied)
  BY <1>2, <1>4, TabMessageGone
<1>6. CASE refresh[t].cold < MaxColdRetries
  <2>1. refresh[t].cold + 1 \in 0..MaxColdRetries
    BY <1>6, Settings DEF Inv, BrowserTyped
  <2>2. refresh' \in [Tabs -> RefreshState]
    BY <1>1, <1>6, <2>1 DEF Inv, BrowserTyped, RefreshState
  <2>3. ServerTyped' /\ BrowserTyped' /\ CallsTyped'
    BY <1>1, <1>3, <1>4, <1>6, <2>2
    DEF Inv, ServerTyped, BrowserTyped, CallsTyped, server, RefreshState
  <2>4. \A d \in Writes : WriteGood(d, call', net', applied')
    BY <1>1, <1>5, <1>6 DEF server
  <2> QED
    BY <2>3, <2>4 DEF Inv
<1>7. CASE SignOut(t, Left(m, symptom))
  BY <1>1, <1>3, <1>4, <1>5, <1>7, PageLoadInv DEF SignOut, Inv, BrowserTyped
<1> QED
  BY <1>1, <1>6, <1>7

LEMMA ReloadInv == ASSUME Inv, NEW t \in Tabs, Reload(t) PROVE Inv'
<1>1. cut' \subseteq Tokens
  BY DEF Reload, Inv, ServerTyped, BrowserTyped
<1> QED
  BY <1>1, PageLoadInv DEF Reload, Inv, BrowserTyped, CallsTyped

-----------------------------------------------------------------------------
(* The server. *)

LEMMA ReplyTyped ==
  ASSUME Inv, NEW m \in net, NEW answer \in {"ok", "401"}, NEW gives \in Tokens \union {NoToken},
         Reply(m, answer, gives)
  PROVE  /\ net' \in SUBSET Message
         /\ \A x \in net' : x \in net \ {m} \/
              (x.from = m.from /\ x.answer = answer /\ x.awaited = m.awaited)
         /\ \A x, y \in net' \ net : x = y
<1>1. m \in Message /\ net \in SUBSET Message
  BY DEF Inv, CallsTyped
<1> DEFINE r == [[m EXCEPT !.answer = answer] EXCEPT !.gives = gives]
<1>2. r \in Message /\ r.from = m.from /\ r.answer = answer /\ r.awaited = m.awaited
  BY <1>1 DEF Message
<1>3. net' = (net \ {m}) \union (IF m.awaited THEN {r} ELSE {})
  BY <1>1 DEF Reply, Message
<1> HIDE DEF r
<1> QED
  BY <1>1, <1>2, <1>3

LEMMA ServedTyped ==
  ASSUME Inv, net' \in SUBSET Message, ServerTyped', UNCHANGED <<cookie, lock, client, cut>>
  PROVE  ServerTyped' /\ BrowserTyped' /\ CallsTyped'
BY DEF Inv, BrowserTyped, CallsTyped, client

(* The message that is answered is not a write. *)
LEMMA OtherServed ==
  ASSUME Inv, NEW m \in net, m.from \notin Writes,
         \A x \in net' : x \in net \/ x.from = m.from,
         UNCHANGED <<call, applied>>
  PROVE  \A d \in Writes : WriteGood(d, call', net', applied')
<1> SUFFICES ASSUME NEW d \in Writes PROVE WriteGood(d, call', net', applied')
  OBVIOUS
<1>1. /\ WriteGood(d, call, net, applied) /\ applied'[d] = applied[d]
      /\ call'[d].at = call[d].at
  BY DEF Inv
<1>2. \A x \in net' : x.from = d => x \in net
  OBVIOUS
<1> QED
  BY <1>1, <1>2, Untouched

LEMMA SessionsTyped ==
  ASSUME Inv, NEW S \in SUBSET Tokens
  PROVE  SessionsOf(S) \in SUBSET Tokens
BY DEF SessionsOf, Inv, ServerTyped

LEMMA ServeRefreshInv ==
  ASSUME Inv, NEW m \in net, m.from \in Tabs, ServeRefresh(m),
         UNCHANGED <<cookie, lock, client, cut>>
  PROVE  Inv'
<1>1. PICK answer \in {"ok", "401"}, gives \in Tokens \union {NoToken} :
        Reply(m, answer, gives) /\ ServerTyped'
  <2>1. CASE \E n \in Tokens : /\ Fresh(n)
                               /\ Server!Rotate(m.cookie, n)
                               /\ Reply(m, "ok", n)
    <3>1. PICK n \in Tokens : Fresh(n) /\ Server!Rotate(m.cookie, n) /\ Reply(m, "ok", n)
      BY <2>1
    <3>2. ServerTyped'
      BY <3>1 DEF ServeRefresh, Server!Rotate, Inv, ServerTyped
    <3> QED
      BY <3>1, <3>2
  <2>2. CASE /\ UNCHANGED <<used, session>>
             /\ live' \in {live, {t \in live : m.cookie \in Tokens =>
                                                 session[t] # session[m.cookie]}}
             /\ Reply(m, "401", NoToken)
    <3>1. live' \subseteq live
      BY <2>2
    <3>2. ServerTyped'
      BY <2>2, <3>1 DEF ServeRefresh, Inv, ServerTyped
    <3> QED
      BY <2>2, <3>2
  <2> QED
    BY <2>1, <2>2 DEF ServeRefresh
<1>2. m.from \notin Writes
  BY Settings
<1>3. \A d \in Writes : WriteGood(d, call', net', applied')
  BY <1>1, <1>2, ReplyTyped, OtherServed DEF ServeRefresh, client
<1> QED
  BY <1>1, <1>3, ReplyTyped, ServedTyped DEF Inv

LEMMA ServeLoginInv ==
  ASSUME Inv, NEW m \in net, m.from \notin Writes, ServeLogin(m),
         UNCHANGED <<cookie, lock, client, cut>>
  PROVE  Inv'
<1>1. PICK n \in Tokens : /\ Fresh(n)
                          /\ live' = live \union {n}
                          /\ Server!Open(n)
                          /\ Reply(m, "ok", n)
  BY DEF ServeLogin
<1>2. ServerTyped'
  BY <1>1 DEF ServeLogin, Server!Open, Inv, ServerTyped
<1>3. \A d \in Writes : WriteGood(d, call', net', applied')
  BY <1>1, ReplyTyped, OtherServed DEF ServeLogin, client
<1> QED
  BY <1>1, <1>2, <1>3, ReplyTyped, ServedTyped DEF Inv

LEMMA ServeLogoutInv ==
  ASSUME Inv, NEW m \in net, m.from \notin Writes, ServeLogout(m),
         UNCHANGED <<cookie, lock, client, cut>>
  PROVE  Inv'
<1>1. SessionsOf(live) \in SUBSET Tokens
  BY SessionsTyped DEF Inv, ServerTyped
<1>2. ServerTyped'
  BY <1>1 DEF ServeLogout, Inv, ServerTyped
<1>3. Reply(m, "ok", NoToken)
  BY DEF ServeLogout
<1>4. \A d \in Writes : WriteGood(d, call', net', applied')
  BY <1>3, ReplyTyped, OtherServed DEF ServeLogout, client
<1> QED
  BY <1>2, <1>3, <1>4, ReplyTyped, ServedTyped DEF Inv

LEMMA ServeWriteInv ==
  ASSUME Inv, NEW m \in net, m.from \in Writes, m.answer = "none", ServeWrite(m),
         UNCHANGED <<cookie, lock, client, cut>>
  PROVE  Inv'
<1>1. Reply(m, "ok", NoToken)
  BY DEF ServeWrite
<1>2. applied \in [Writes -> Nat] /\ applied' = [applied EXCEPT ![m.from] = applied[m.from] + 1]
  BY DEF ServeWrite, Inv, ServerTyped
<1>3. ServerTyped'
  BY <1>2 DEF ServeWrite, Inv, ServerTyped
<1>4. /\ net' \in SUBSET Message
      /\ \A x \in net' : x \in net \ {m} \/
           (x.from = m.from /\ x.answer = "ok" /\ x.awaited = m.awaited)
      /\ \A x, y \in net' \ net : x = y
  BY <1>1, ReplyTyped
<1>5. ASSUME NEW d \in Writes PROVE WriteGood(d, call', net', applied')
  <2>1. WriteGood(d, call, net, applied) /\ call' = call
    BY DEF Inv, client
  <2>2. CASE d = m.from
    <3>1. applied'[d] = applied[d] + 1
      BY <1>2, <2>2
    <3> QED
      BY <1>4, <2>1, <2>2, <3>1, CarriedOut
  <2>3. CASE d # m.from
    <3>1. applied'[d] = applied[d]
      BY <1>2, <2>3
    <3>2. \A x \in net' : x.from = d => x \in net
      BY <1>4, <2>3
    <3> QED
      BY <2>1, <3>1, <3>2, Untouched
  <2> QED
    BY <2>2, <2>3
<1> QED
  BY <1>3, <1>4, <1>5, ServedTyped DEF Inv

LEMMA ServeInv == ASSUME Inv, NEW m \in net, Serve(m) PROVE Inv'
<1>1. m.answer = "none" /\ UNCHANGED <<cookie, lock, client, cut>>
  BY DEF Serve
<1>2. m.from \in Tabs \union Calls
  BY DEF Inv, CallsTyped, Message
<1>3. CASE m.from \in Tabs
  BY <1>1, <1>3, ServeRefreshInv DEF Serve
<1>4. CASE m.from \notin Tabs
  <2>1. m.from \in Calls /\ m.from.kind \in {"login", "logout", "write"}
    BY <1>2, <1>4 DEF Serve
  <2>2. CASE m.from.kind = "login"
    BY <1>1, <1>4, <2>2, ServeLoginInv DEF Serve, Writes
  <2>3. CASE m.from.kind = "logout"
    BY <1>1, <1>4, <2>3, ServeLogoutInv DEF Serve, Writes
  <2>4. CASE m.from.kind = "write"
    BY <1>1, <1>4, <2>1, <2>4, ServeWriteInv DEF Serve, Writes
  <2> QED
    BY <2>1, <2>2, <2>3, <2>4
<1> QED
  BY <1>3, <1>4

LEMMA EndSessionsInv == ASSUME Inv, EndSessions PROVE Inv'
<1>1. SessionsOf(live) \in SUBSET Tokens
  BY SessionsTyped DEF Inv, ServerTyped
<1>2. ServerTyped' /\ BrowserTyped' /\ CallsTyped'
  BY <1>1 DEF EndSessions, Inv, ServerTyped, BrowserTyped, CallsTyped, client
<1>3. \A d \in Writes : WriteGood(d, call', net', applied')
  BY DEF EndSessions, Inv, client
<1> QED
  BY <1>2, <1>3 DEF Inv

-----------------------------------------------------------------------------
LEMMA StepInv == Inv /\ [Next]_vars => Inv'
<1> SUFFICES ASSUME Inv, [Next]_vars PROVE Inv'
  OBVIOUS
<1>1. ASSUME NEW c \in Calls, start(c) \/ CallStep(c) PROVE Inv'
  BY <1>1, startInv, ResendInv, ReceiveInv, LoseCallInv DEF CallStep
<1>2. ASSUME NEW t \in Tabs, Acquire(t) \/ RefreshStep(t) \/ Reload(t) PROVE Inv'
  BY <1>2, AcquireInv, ResendRefreshInv, ReceiveRefreshInv, LoseRefreshInv, ReloadInv
  DEF RefreshStep
<1>3. ASSUME NEW m \in net, Serve(m) PROVE Inv'
  BY <1>3, ServeInv
<1>4. CASE EndSessions
  BY <1>4, EndSessionsInv
<1>5. CASE UNCHANGED vars
  <2>1. ServerTyped' /\ BrowserTyped' /\ CallsTyped'
    BY <1>5 DEF vars, server, client, Inv, ServerTyped, BrowserTyped, CallsTyped
  <2>2. \A d \in Writes : WriteGood(d, call', net', applied')
    BY <1>5 DEF vars, server, client, Inv
  <2> QED
    BY <2>1, <2>2 DEF Inv
<1> QED
  BY <1>1, <1>2, <1>3, <1>4, <1>5 DEF Next

LEMMA InvAlways == Spec => []Inv
<1> QED
  BY InitInv, StepInv, PTL DEF Spec

(* What the tabs, the calls, the requests and the server keep is of its    *)
(* type: no retry count passes MAX_COLD_RETRIES.                           *)
THEOREM TypesAlways == Spec => []TypeOK
<1>1. Inv => TypeOK
  BY DEF Inv, ServerTyped, BrowserTyped, CallsTyped, CallState, TypeOK
<1> QED
  BY <1>1, InvAlways, PTL

(* However often the client sends a write again, and whatever requests and *)
(* answers are lost or late, the server carries it out at most once.       *)
THEOREM WriteAlwaysAppliedOnce == Spec => []WriteAppliedOnce
<1>1. Inv => WriteAppliedOnce
  BY DEF Inv, WriteGood, WriteAppliedOnce
<1> QED
  BY <1>1, InvAlways, PTL

-----------------------------------------------------------------------------
(* Who may refresh, and with which cookie.  With the Web Locks API one tab *)
(* at a time waits for the answer to a refresh.                            *)

AwaitedRefresh(ms) == {m \in ms : m.from \in Tabs /\ m.awaited}

LockGood(lk, rf, ms) ==
  /\ \A m, n \in AwaitedRefresh(ms) : m = n
  /\ \A m \in AwaitedRefresh(ms) : lk = m.from /\ rf[m.from].at = "flight"
  /\ \A t \in Tabs : rf[t].at \in {"flight", "again"} => lk = t

(* A cookie whose session was ended or lost an answer; one that can still  *)
(* be exchanged, or is such a cookie.                                      *)
Over == {NoToken} \union {k \in used : session[k] \in ended \union cut}
Fine == {NoToken} \union {k \in used : k \in live \/ session[k] \in ended \union cut}

(* What an answer gives can be exchanged.  So can the cookie of a refresh  *)
(* that waits for its answer; one refused, or awaited no more, is over.    *)
MessageGood(m, gd, ov) ==
  /\ m.gives \in gd
  /\ m.gives # NoToken => m.answer = "ok"
  /\ m.from \in Tabs => /\ ~m.awaited => m.cookie \in ov
                        /\ m.answer = "401" => m.cookie \in ov
                        /\ m.answer = "none" => m.cookie \in gd

(* What an answer gives is new to the browser. *)
GivenOnce(ck, ms) ==
  \A m \in ms : m.gives # NoToken =>
    /\ ck # m.gives
    /\ \A n \in ms : n.cookie # m.gives /\ (n.gives = m.gives => n = m)

(* The cookie can be exchanged, or the answer that replaces it is on its   *)
(* way to the tab that has the lock.                                       *)
CookieGood(gd, ck, ms) ==
  ck \in gd \/ \E m \in AwaitedRefresh(ms) : m.answer = "ok" /\ m.cookie = ck

TokenGood(gd, ov, us, ck, ms) ==
  /\ ov \subseteq gd /\ gd \subseteq us /\ NoToken \in ov
  /\ ck \in us /\ \A m \in ms : m.cookie \in us
  /\ \A m \in ms : MessageGood(m, gd, ov)
  /\ GivenOnce(ck, ms)
  /\ CookieGood(gd, ck, ms)

Seen == used \union {NoToken}

CookieInv == /\ LockGood(lock, refresh, net)
              /\ TokenGood(Fine, Over, Seen, cookie, net)

-----------------------------------------------------------------------------
(* What the steps do to the lock. *)

LEMMA LockKept ==
  ASSUME NEW lk, NEW rf, NEW rf2, NEW ms, NEW ms2, LockGood(lk, rf, ms),
         AwaitedRefresh(ms2) \subseteq AwaitedRefresh(ms),
         \A t \in Tabs : \/ rf2[t].at = rf[t].at
                         \/ rf[t].at \notin {"flight", "again"} /\ rf2[t].at = "lock"
  PROVE  LockGood(lk, rf2, ms2)
<1>1. \A m \in AwaitedRefresh(ms2) : m.from \in Tabs
  BY DEF AwaitedRefresh
<1> QED
  BY <1>1 DEF LockGood

(* A tab lets go: the answer has come, or it is left. *)
LEMMA LockReleased ==
  ASSUME NEW lk, NEW rf, NEW rf2, NEW ms, NEW ms2, NEW t \in Tabs, NEW lk2,
         LockGood(lk, rf, ms), Nobody \notin Tabs,
         lk2 = IF lk = t THEN Nobody ELSE lk,
         \A m \in AwaitedRefresh(ms2) : m \in AwaitedRefresh(ms) /\ m.from # t,
         rf2[t].at = "none", \A s \in Tabs : s # t => rf2[s].at = rf[s].at
  PROVE  LockGood(lk2, rf2, ms2)
<1>1. \A m \in AwaitedRefresh(ms2) : m.from \in Tabs
  BY DEF AwaitedRefresh
<1> QED
  BY <1>1 DEF LockGood

(* The tab that has the lock sends, or stops waiting to send again. *)
LEMMA LockSends ==
  ASSUME NEW lk, NEW rf, NEW rf2, NEW ms, NEW q, NEW t \in Tabs,
         LockGood(lk, rf, ms), AwaitedRefresh(ms) = {},
         q.from = t, rf2[t].at = "flight",
         \A s \in Tabs : s # t => rf2[s].at = rf[s].at, NEW lk2, lk2 = t,
         lk \in {t, Nobody}, Nobody \notin Tabs
  PROVE  LockGood(lk2, rf2, ms \union {q})
<1>1. \A m \in AwaitedRefresh(ms \union {q}) : m = q
  BY DEF AwaitedRefresh
<1>2. \A s \in Tabs : rf2[s].at \in {"flight", "again"} => s = t
  BY DEF LockGood
<1> QED
  BY <1>1, <1>2 DEF LockGood

LEMMA LockAgain ==
  ASSUME NEW lk, NEW rf, NEW rf2, NEW ms, NEW ms2, NEW t \in Tabs,
         LockGood(lk, rf, ms), NEW m \in AwaitedRefresh(ms), m.from = t,
         AwaitedRefresh(ms2) \subseteq AwaitedRefresh(ms) \ {m},
         rf2[t].at = "again", \A s \in Tabs : s # t => rf2[s].at = rf[s].at
  PROVE  LockGood(lk, rf2, ms2) /\ AwaitedRefresh(ms2) = {}
<1>1. AwaitedRefresh(ms2) = {}
  BY DEF LockGood
<1>2. lk = t
  BY DEF LockGood
<1> QED
  BY <1>1, <1>2 DEF LockGood

(* The server answers. *)
LEMMA LockAnswered ==
  ASSUME NEW lk, NEW rf, NEW ms, NEW ms2, LockGood(lk, rf, ms), NEW m \in ms,
         \A x \in ms2 : x \in ms \ {m} \/ (x.from = m.from /\ x.awaited = m.awaited),
         \A x, y \in ms2 \ (ms \ {m}) : x = y
  PROVE  LockGood(lk, rf, ms2)
<1>1. ASSUME NEW x \in AwaitedRefresh(ms2)
      PROVE  \/ x \in AwaitedRefresh(ms) /\ x # m
             \/ x \in ms2 \ (ms \ {m}) /\ m \in AwaitedRefresh(ms) /\ x.from = m.from
  <2>1. x \in ms2 /\ x.from \in Tabs /\ x.awaited
    BY DEF AwaitedRefresh
  <2>2. CASE x \in ms \ {m}
    BY <2>1, <2>2 DEF AwaitedRefresh
  <2>3. CASE x \notin ms \ {m}
    <3>1. x.from = m.from /\ x.awaited = m.awaited
      BY <2>1, <2>3
    <3> QED
      BY <2>1, <2>3, <3>1 DEF AwaitedRefresh
  <2> QED
    BY <2>2, <2>3
<1>2. \A x, y \in AwaitedRefresh(ms) : x = y
  BY DEF LockGood
<1>3. \A x, y \in AwaitedRefresh(ms2) : x = y
  BY <1>1, <1>2
<1>4. \A x \in AwaitedRefresh(ms2) : lk = x.from /\ rf[x.from].at = "flight"
  BY <1>1 DEF LockGood
<1> QED
  BY <1>3, <1>4 DEF LockGood

-----------------------------------------------------------------------------
(* What the steps do to the cookies. *)

LEMMA MessageStays ==
  ASSUME NEW m, NEW gd, NEW ov, NEW gd2, NEW ov2, MessageGood(m, gd, ov),
         gd \subseteq gd2, ov \subseteq ov2
  PROVE  MessageGood(m, gd2, ov2)
BY DEF MessageGood

LEMMA MessageDropped ==
  ASSUME NEW m \in Message, NEW gd, NEW ov, MessageGood(m, gd, ov),
         m.answer = "none", m.from \in Tabs => m.cookie \in ov
  PROVE  /\ MessageGood(Dropped(m), gd, ov)
         /\ Dropped(m).gives = NoToken /\ Dropped(m).cookie = m.cookie
BY DEF MessageGood, Dropped, Message

(* Messages get lost, or nobody waits for them any more. *)
LEMMA TokensKept ==
  ASSUME NEW ck, NEW ms \in SUBSET Message, NEW ms2, NEW gd, NEW ov, NEW us,
         NEW gd2, NEW ov2, NEW us2, TokenGood(gd, ov, us, ck, ms),
         gd \subseteq gd2, ov \subseteq ov2, us \subseteq us2,
         ov2 \subseteq gd2, gd2 \subseteq us2,
         \A x \in ms2 : x \in ms \/ \E m \in ms : /\ x = Dropped(m) /\ m.answer = "none"
                                                  /\ m.from \in Tabs => m.cookie \in ov2,
         \A m \in AwaitedRefresh(ms) : m.answer = "ok" => m \in ms2 \/ m.cookie \in gd2
  PROVE  TokenGood(gd2, ov2, us2, ck, ms2)
<1>1. \A x \in ms : MessageGood(x, gd2, ov2)
  BY MessageStays DEF TokenGood
<1>2. ASSUME NEW x \in ms2
      PROVE  MessageGood(x, gd2, ov2) /\ \E m \in ms : x.cookie = m.cookie
  <2>1. CASE x \in ms
    BY <1>1, <2>1
  <2>2. CASE x \notin ms
    <3>1. PICK m \in ms : x = Dropped(m) /\ m.answer = "none"
                          /\ (m.from \in Tabs => m.cookie \in ov2)
      BY <2>2
    <3>2. m \in Message /\ MessageGood(m, gd2, ov2)
      BY <1>1
    <3> QED
      BY <3>1, <3>2, MessageDropped
  <2> QED
    BY <2>1, <2>2
<1>3. \A x \in ms2 : x.gives # NoToken => x \in ms
  <2> SUFFICES ASSUME NEW x \in ms2, x \notin ms PROVE x.gives = NoToken
    OBVIOUS
  <2>1. PICK m \in ms : x = Dropped(m) /\ m.answer = "none"
                        /\ (m.from \in Tabs => m.cookie \in ov2)
    OBVIOUS
  <2>2. m \in Message /\ MessageGood(m, gd2, ov2)
    BY <1>1
  <2> QED
    BY <2>1, <2>2, MessageDropped
<1>4. GivenOnce(ck, ms2)
  <2> SUFFICES ASSUME NEW x \in ms2, x.gives # NoToken
               PROVE  /\ ck # x.gives
                      /\ \A n \in ms2 : n.cookie # x.gives /\ (n.gives = x.gives => n = x)
    BY DEF GivenOnce
  <2>1. x \in ms /\ GivenOnce(ck, ms)
    BY <1>3 DEF TokenGood
  <2>2. ck # x.gives /\ \A n \in ms : n.cookie # x.gives /\ (n.gives = x.gives => n = x)
    BY <2>1 DEF GivenOnce
  <2>3. ASSUME NEW n \in ms2 PROVE n.cookie # x.gives /\ (n.gives = x.gives => n = x)
    <3>1. n.cookie # x.gives
      BY <1>2, <2>2
    <3>2. ASSUME n.gives = x.gives PROVE n = x
      BY <3>2, <1>3, <2>2
    <3> QED
      BY <3>1, <3>2
  <2> QED
    BY <2>2, <2>3
<1>5. CookieGood(gd2, ck, ms2)
  <2>1. CASE ck \in gd
    BY <2>1 DEF CookieGood
  <2>2. CASE \E m \in AwaitedRefresh(ms) : m.answer = "ok" /\ m.cookie = ck
    BY <2>2 DEF CookieGood, AwaitedRefresh
  <2> QED
    BY <2>1, <2>2 DEF TokenGood, CookieGood
<1> QED
  BY <1>2, <1>4, <1>5 DEF TokenGood

(* An answer with a new cookie arrives, or one that takes the cookie away. *)
LEMMA TokensTaken ==
  ASSUME NEW ck, NEW ms, NEW gd, NEW ov, NEW us, TokenGood(gd, ov, us, ck, ms),
         NEW m \in ms, NEW ck2, ck2 \in {m.gives, NoToken}
  PROVE  TokenGood(gd, ov, us, ck2, ms \ {m})
<1>1. ck2 \in gd /\ gd \subseteq us
  BY DEF TokenGood, MessageGood
<1>2. \A x \in ms : x.gives # NoToken =>
        \A n \in ms : n.cookie # x.gives /\ (n.gives = x.gives => n = x)
  BY DEF TokenGood, GivenOnce
<1>3. ASSUME NEW x \in ms \ {m}, x.gives # NoToken PROVE ck2 # x.gives
  BY <1>2, <1>3
<1>4. GivenOnce(ck2, ms \ {m})
  BY <1>2, <1>3 DEF GivenOnce
<1> QED
  BY <1>1, <1>4 DEF TokenGood, CookieGood

(* A request is sent. *)
LEMMA TokensAsked ==
  ASSUME NEW ck, NEW ms, NEW gd, NEW ov, NEW us, TokenGood(gd, ov, us, ck, ms),
         NEW q, q.cookie = ck, q.answer = "none", q.gives = NoToken, q.awaited,
         q.from \in Tabs => AwaitedRefresh(ms) = {}
  PROVE  TokenGood(gd, ov, us, ck, ms \union {q})
<1>1. MessageGood(q, gd, ov)
  BY DEF TokenGood, CookieGood, MessageGood
<1>2. GivenOnce(ck, ms \union {q})
  BY DEF TokenGood, GivenOnce
<1>3. CookieGood(gd, ck, ms \union {q})
  BY DEF TokenGood, CookieGood, AwaitedRefresh
<1> QED
  BY <1>1, <1>2, <1>3 DEF TokenGood

(* The server answers, and gives no token. *)
LEMMA TokensRefused ==
  ASSUME NEW ck, NEW ms, NEW ms2, NEW gd, NEW ov, NEW us, NEW gd2, NEW ov2,
         TokenGood(gd, ov, us, ck, ms), gd \subseteq gd2, ov \subseteq ov2,
         ov2 \subseteq gd2, gd2 \subseteq us,
         NEW m \in ms, m.answer = "none",
         \A x \in ms2 : x \in ms \ {m} \/
           /\ x.from = m.from /\ x.cookie = m.cookie /\ x.awaited
           /\ x.gives = NoToken /\ x.answer \in {"ok", "401"}
           /\ m.from \in Tabs => m.cookie \in ov2,
         ms \ {m} \subseteq ms2
  PROVE  TokenGood(gd2, ov2, us, ck, ms2)
<1>1. \A x \in ms : MessageGood(x, gd2, ov2)
  BY MessageStays DEF TokenGood
<1>2. ASSUME NEW x \in ms2
      PROVE  MessageGood(x, gd2, ov2) /\ \E n \in ms : x.cookie = n.cookie
  <2>1. CASE x \in ms \ {m}
    BY <1>1, <2>1
  <2>2. CASE x \notin ms \ {m}
    BY <2>2 DEF MessageGood, TokenGood
  <2> QED
    BY <2>1, <2>2
<1>3. \A x \in ms2 : x.gives # NoToken => x \in ms
  OBVIOUS
<1>4. GivenOnce(ck, ms2)
  <2> SUFFICES ASSUME NEW x \in ms2, x.gives # NoToken
               PROVE  /\ ck # x.gives
                      /\ \A n \in ms2 : n.cookie # x.gives /\ (n.gives = x.gives => n = x)
    BY DEF GivenOnce
  <2>1. x \in ms /\ GivenOnce(ck, ms)
    BY <1>3 DEF TokenGood
  <2>2. ck # x.gives /\ \A n \in ms : n.cookie # x.gives /\ (n.gives = x.gives => n = x)
    BY <2>1 DEF GivenOnce
  <2>3. ASSUME NEW n \in ms2 PROVE n.cookie # x.gives /\ (n.gives = x.gives => n = x)
    <3>1. n.cookie # x.gives
      BY <1>2, <2>2
    <3>2. ASSUME n.gives = x.gives PROVE n = x
      BY <3>2, <1>3, <2>2
    <3> QED
      BY <3>1, <3>2
  <2> QED
    BY <2>2, <2>3
<1>5. CookieGood(gd2, ck, ms2)
  BY DEF TokenGood, CookieGood, AwaitedRefresh
<1> QED
  BY <1>2, <1>4, <1>5 DEF TokenGood

(* The server opens a session, or exchanges the cookie of a refresh. *)
LEMMA TokensGiven ==
  ASSUME NEW ck, NEW ms, NEW ms2, NEW gd, NEW ov, NEW us, NEW gd2, NEW ov2, NEW us2,
         TokenGood(gd, ov, us, ck, ms), NEW m \in ms, m.answer = "none",
         NEW n, n \notin us, n \in gd2, us2 = us \union {n},
         ov \subseteq ov2, ov2 \subseteq gd2, gd2 \subseteq us2,
         \A k \in gd : k \in gd2 \/ (m.from \in Tabs /\ k = m.cookie),
         \A x, y \in AwaitedRefresh(ms) : x = y,
         \A x \in ms2 : x \in ms \ {m} \/
           /\ x.from = m.from /\ x.cookie = m.cookie /\ x.awaited
           /\ x.gives = n /\ x.answer = "ok",
         ms \ {m} \subseteq ms2, \A x, y \in ms2 \ (ms \ {m}) : x = y,
         m.awaited => \E x \in ms2 : x.from = m.from /\ x.cookie = m.cookie
                                     /\ x.awaited /\ x.answer = "ok"
  PROVE  TokenGood(gd2, ov2, us2, ck, ms2)
<1>1. \A x \in ms : x.cookie \in us /\ x.gives \in us /\ MessageGood(x, gd, ov)
  BY DEF TokenGood, MessageGood
<1>2. ck \in us /\ NoToken \in us /\ ov \subseteq gd /\ NoToken \in ov
  BY DEF TokenGood
<1>3. m.from \in Tabs /\ ~m.awaited => m.cookie \in gd2
  BY <1>1 DEF MessageGood
<1>4. \A x \in ms \ {m} : x.gives \in gd2
  <2> SUFFICES ASSUME NEW x \in ms \ {m}, x.gives \notin gd2 PROVE FALSE
    OBVIOUS
  <2>1. x.gives \in gd /\ m.from \in Tabs /\ x.gives = m.cookie
    BY <1>1 DEF MessageGood
  <2>2. x.gives # NoToken
    BY <1>2
  <2> QED
    BY <2>1, <2>2 DEF TokenGood, GivenOnce
<1>5. ASSUME NEW x \in ms \ {m} PROVE MessageGood(x, gd2, ov2)
  <2>1. MessageGood(x, gd, ov) /\ x.gives \in gd2
    BY <1>1, <1>4
  <2>2. ASSUME x.from \in Tabs, x.answer = "none" PROVE x.cookie \in gd2
    <3>1. CASE ~x.awaited
      BY <2>1, <2>2, <3>1 DEF MessageGood
    <3>2. CASE x.awaited
      <4>1. x.cookie \in gd
        BY <2>1, <2>2 DEF MessageGood
      <4>2. x \in AwaitedRefresh(ms)
        BY <2>2, <3>2 DEF AwaitedRefresh
      <4>3. m \notin AwaitedRefresh(ms)
        BY <4>2
      <4>4. m.from \in Tabs => ~m.awaited
        BY <4>3 DEF AwaitedRefresh
      <4> QED
        BY <4>1, <4>4, <1>3
    <3> QED
      BY <3>1, <3>2
  <2> QED
    BY <2>1, <2>2 DEF MessageGood
<1>6. ASSUME NEW x \in ms2 PROVE MessageGood(x, gd2, ov2) /\ x.cookie \in us2
  <2>1. CASE x \in ms \ {m}
    BY <1>1, <1>5, <2>1
  <2>2. CASE x \notin ms \ {m}
    BY <1>1, <2>2 DEF MessageGood
  <2> QED
    BY <2>1, <2>2
<1>7. GivenOnce(ck, ms2)
  <2> SUFFICES ASSUME NEW x \in ms2, x.gives # NoToken
               PROVE  /\ ck # x.gives
                      /\ \A y \in ms2 : y.cookie # x.gives /\ (y.gives = x.gives => y = x)
    BY DEF GivenOnce
  <2>1. ASSUME NEW y \in ms2 PROVE y.cookie \in us /\ (y \notin ms \ {m} => y.gives = n)
                                   /\ (y \in ms \ {m} => y.gives # n)
    BY <1>1
  <2>2. CASE x \in ms \ {m}
    BY <2>1, <2>2 DEF TokenGood, GivenOnce
  <2>3. CASE x \notin ms \ {m}
    BY <1>2, <2>1, <2>3
  <2> QED
    BY <2>2, <2>3
<1>8. CookieGood(gd2, ck, ms2)
  <2>1. CASE ck \in gd2
    BY <2>1 DEF CookieGood
  <2>2. CASE ck \notin gd2 /\ ck \in gd
    BY <1>3, <2>2 DEF CookieGood, AwaitedRefresh
  <2>3. CASE \E x \in AwaitedRefresh(ms) : x.answer = "ok" /\ x.cookie = ck
    BY <2>3 DEF CookieGood, AwaitedRefresh
  <2> QED
    BY <2>1, <2>2, <2>3 DEF TokenGood, CookieGood
<1> QED
  BY <1>2, <1>6, <1>7, <1>8 DEF TokenGood

-----------------------------------------------------------------------------
(* The steps of the calls. *)

LEMMA CookiesKept ==
  ASSUME UNCHANGED <<used, session>>, ended \subseteq ended', cut \subseteq cut',
         \A k \in live : k \in live' \/ session[k] \in ended' \union cut'
  PROVE  /\ Fine \subseteq Fine' /\ Over \subseteq Over' /\ Seen' = Seen
         /\ Over' \subseteq Fine' /\ Fine' \subseteq Seen'
BY DEF Fine, Over, Seen

LEMMA InitCookie == Init => CookieInv
<1> SUFFICES ASSUME Init PROVE CookieInv
  OBVIOUS
<1>1. LockGood(lock, refresh, net)
  BY DEF Init, LockGood, AwaitedRefresh, NoRefresh
<1>2. TokenGood(Fine, Over, Seen, cookie, net)
  BY DEF Init, TokenGood, Fine, Over, Seen, GivenOnce, CookieGood
<1> QED
  BY <1>1, <1>2 DEF CookieInv

LEMMA RequestFields ==
  ASSUME NEW s, NEW try
  PROVE  /\ Request(s, try).from = s /\ Request(s, try).cookie = cookie
         /\ Request(s, try).answer = "none" /\ Request(s, try).gives = NoToken
         /\ Request(s, try).awaited
BY DEF Request

LEMMA SendCookie ==
  ASSUME Inv, CookieInv, NEW c \in Calls, NEW try, net' = net \union {Request(c, try)},
         UNCHANGED <<server, cookie, lock, refresh, cut>>
  PROVE  CookieInv'
<1> DEFINE q == Request(c, try)
<1>1. /\ q.from = c /\ q.cookie = cookie /\ q.answer = "none" /\ q.gives = NoToken
      /\ q.awaited
  BY RequestFields
<1>2. c \notin Tabs
  BY Settings
<1> HIDE DEF q
<1>3. net' = net \union {q}
  BY DEF q
<1>4. AwaitedRefresh(net') \subseteq AwaitedRefresh(net)
  BY <1>1, <1>2, <1>3 DEF AwaitedRefresh
<1>5. LockGood(lock, refresh, net')
  BY <1>4, LockKept DEF CookieInv
<1>6. TokenGood(Fine, Over, Seen, cookie, net')
  BY <1>1, <1>2, <1>3, TokensAsked DEF CookieInv
<1>7. Fine' = Fine /\ Over' = Over /\ Seen' = Seen
  BY DEF server, Fine, Over, Seen
<1> QED
  BY <1>5, <1>6, <1>7 DEF CookieInv

LEMMA NothingServed ==
  ASSUME UNCHANGED server, cut \subseteq cut'
  PROVE  /\ Fine \subseteq Fine' /\ Over \subseteq Over' /\ Seen' = Seen
         /\ Over' \subseteq Fine' /\ Fine' \subseteq Seen'
<1>1. /\ UNCHANGED <<used, session>> /\ ended \subseteq ended' /\ live' = live
  BY DEF server
<1> QED
  BY <1>1, CookiesKept

LEMMA ReceiveCookie ==
  ASSUME Inv, CookieInv, NEW c \in Calls, Receive(c) PROVE CookieInv'
<1> PICK m \in Await(c) : \E answer \in Answers(m) :
        /\ net' = net \ {m}
        /\ cookie' = CASE m.gives # NoToken                    -> m.gives
                       [] c.kind = "logout" /\ answer = "ok" -> NoToken
                       [] OTHER                               -> cookie
        /\ UNCHANGED <<server, lock, cut>>
        /\ IF answer = "401" /\ ~call[c].retry /\ c.kind # "login"
             THEN AwaitRefresh(c)
             ELSE Settle(c, answer = "ok")
  BY DEF Receive
<1>1. PICK answer \in Answers(m) :
        /\ net' = net \ {m}
        /\ cookie' = CASE m.gives # NoToken                    -> m.gives
                       [] c.kind = "logout" /\ answer = "ok" -> NoToken
                       [] OTHER                               -> cookie
        /\ UNCHANGED <<server, lock, cut>>
        /\ IF answer = "401" /\ ~call[c].retry /\ c.kind # "login"
             THEN AwaitRefresh(c)
             ELSE Settle(c, answer = "ok")
  OBVIOUS
<1>2. m \in net /\ m \in Message /\ m.from = c /\ c \notin Tabs
  BY AwaitedMessage, Settings
<1>3. AwaitedRefresh(net') \subseteq AwaitedRefresh(net)
  BY <1>1 DEF AwaitedRefresh
<1>4. \A t \in Tabs : \/ refresh'[t].at = refresh[t].at
                      \/ refresh[t].at \notin {"flight", "again"} /\ refresh'[t].at = "lock"
  <2>1. refresh \in [Tabs -> RefreshState]
    BY DEF Inv, BrowserTyped, RefreshState
  <2>2. CASE AwaitRefresh(c)
    BY <2>1, <2>2 DEF AwaitRefresh
  <2>3. CASE Settle(c, answer = "ok")
    BY <2>3 DEF Settle
  <2> QED
    BY <1>1, <2>2, <2>3
<1>5. LockGood(lock, refresh', net')
  BY <1>3, <1>4, LockKept DEF CookieInv
<1>6. TokenGood(Fine, Over, Seen, cookie', net')
  <2>1. CASE cookie' \in {m.gives, NoToken}
    BY <1>1, <1>2, <2>1, TokensTaken DEF CookieInv
  <2>2. CASE cookie' = cookie
    <3>1. \A x \in net' : x \in net
      BY <1>1
    <3>2. \A x \in AwaitedRefresh(net) : x \in net'
      BY <1>1, <1>2 DEF AwaitedRefresh
    <3>3. Over \subseteq Fine /\ Fine \subseteq Seen /\ net \in SUBSET Message
      BY DEF Over, Fine, Seen, Inv, CallsTyped
    <3>4. TokenGood(Fine, Over, Seen, cookie, net')
      BY <3>1, <3>2, <3>3, TokensKept DEF CookieInv
    <3> QED
      BY <2>2, <3>4
  <2> QED
    BY <1>1, <2>1, <2>2
<1>7. Fine' = Fine /\ Over' = Over /\ Seen' = Seen
  BY <1>1 DEF server, Fine, Over, Seen
<1> QED
  BY <1>1, <1>5, <1>6, <1>7 DEF CookieInv

LEMMA LoseCallCookie ==
  ASSUME Inv, CookieInv, NEW c \in Calls, NEW symptom \in Symptoms, LoseCall(c, symptom)
  PROVE  CookieInv'
<1>1. PICK m \in Await(c) :
        /\ Fails(m, symptom)
        /\ net' = Left(m, symptom)
        /\ UNCHANGED <<server, cookie, lock, cut>>
        /\ IF shouldRetryColdStart(c, symptom)
             THEN /\ call' = [call EXCEPT ![c].at = "again", ![c].cold = @ + 1]
                  /\ UNCHANGED <<token, refresh>>
             ELSE Settle(c, FALSE)
  BY DEF LoseCall
<1>2. /\ m \in net /\ m \in Message /\ m.from = c /\ c \notin Tabs
      /\ net \in SUBSET Message
  BY AwaitedMessage, Settings DEF Inv, CallsTyped
<1>3. refresh' = refresh
  BY <1>1 DEF Settle
<1>4. \A x \in net' : x \in net \/ (x = Dropped(m) /\ m.answer = "none")
  BY <1>1, <1>2, LeftFrom
<1>5. net \ {m} \subseteq net'
  BY <1>1 DEF Left
<1>6. AwaitedRefresh(net') \subseteq AwaitedRefresh(net)
  BY <1>2, <1>4, DroppedFrom DEF AwaitedRefresh
<1>7. LockGood(lock, refresh', net')
  BY <1>3, <1>6, LockKept DEF CookieInv
<1>8. \A x \in net' : x \in net \/ \E n \in net : /\ x = Dropped(n) /\ n.answer = "none"
                                                  /\ n.from \in Tabs => n.cookie \in Over
  BY <1>2, <1>4
<1>9. \A x \in AwaitedRefresh(net) : x \in net'
  BY <1>2, <1>5 DEF AwaitedRefresh
<1>10. Over \subseteq Fine /\ Fine \subseteq Seen
  BY DEF Over, Fine, Seen
<1>11. TokenGood(Fine, Over, Seen, cookie, net')
  BY <1>2, <1>8, <1>9, <1>10, TokensKept DEF CookieInv
<1>12. Fine' = Fine /\ Over' = Over /\ Seen' = Seen
  BY <1>1 DEF server, Fine, Over, Seen
<1> QED
  BY <1>1, <1>7, <1>11, <1>12 DEF CookieInv

-----------------------------------------------------------------------------
(* The steps of a refresh. *)

LEMMA TabSendCookie ==
  ASSUME Inv, CookieInv, NEW t \in Tabs, NEW try, AwaitedRefresh(net) = {},
         net' = net \union {Request(t, try)}, lock \in {t, Nobody}, lock' = t,
         refresh'[t].at = "flight", \A s \in Tabs : s # t => refresh'[s].at = refresh[s].at,
         UNCHANGED <<server, cookie, cut>>
  PROVE  CookieInv'
<1> DEFINE q == Request(t, try)
<1>1. /\ q.from = t /\ q.cookie = cookie /\ q.answer = "none" /\ q.gives = NoToken
      /\ q.awaited
  BY RequestFields
<1> HIDE DEF q
<1>2. net' = net \union {q} /\ Nobody \notin Tabs
  BY ApiClientAssumption DEF q
<1>3. LockGood(lock', refresh', net')
  BY <1>1, <1>2, LockSends DEF CookieInv
<1>4. TokenGood(Fine, Over, Seen, cookie, net')
  BY <1>1, <1>2, TokensAsked DEF CookieInv
<1>5. Fine' = Fine /\ Over' = Over /\ Seen' = Seen
  BY DEF server, Fine, Over, Seen
<1> QED
  BY <1>3, <1>4, <1>5 DEF CookieInv

LEMMA AcquireCookie ==
  ASSUME Inv, CookieInv, HasLocks, NEW t \in Tabs, Acquire(t) PROVE CookieInv'
<1>1. lock = Nobody /\ lock' = t /\ net' = net \union {Request(t, 0)}
      /\ UNCHANGED <<server, cookie, cut>>
  BY DEF Acquire
<1>2. AwaitedRefresh(net) = {}
  <2>1. \A m \in AwaitedRefresh(net) : m.from \in Tabs /\ m.from = Nobody
    BY <1>1 DEF CookieInv, LockGood, AwaitedRefresh
  <2> QED
    BY <2>1, ApiClientAssumption
<1>3. refresh'[t].at = "flight" /\ \A s \in Tabs : s # t => refresh'[s].at = refresh[s].at
  BY DEF Acquire, Inv, BrowserTyped
<1> QED
  BY <1>1, <1>2, <1>3, TabSendCookie

LEMMA ResendRefreshCookie ==
  ASSUME Inv, CookieInv, NEW t \in Tabs, ResendRefresh(t) PROVE CookieInv'
<1>1. /\ net' = net \union {Request(t, refresh[t].cold)} /\ UNCHANGED <<server, cookie, cut>>
      /\ refresh[t].at = "again" /\ lock' = lock
  BY DEF ResendRefresh
<1>2. lock = t
  BY <1>1 DEF CookieInv, LockGood
<1>3. AwaitedRefresh(net) = {}
  BY <1>1, <1>2 DEF CookieInv, LockGood
<1>4. refresh'[t].at = "flight" /\ \A s \in Tabs : s # t => refresh'[s].at = refresh[s].at
  BY DEF ResendRefresh, Inv, BrowserTyped
<1> QED
  BY <1>1, <1>2, <1>3, <1>4, TabSendCookie

(* What is still in the network when a tab is left.  ms is what is there   *)
(* just before: at most one message less, or one that nobody awaits.       *)
LEMMA PageLoadCookie ==
  ASSUME Inv, CookieInv, NEW t \in Tabs, NEW ms \in SUBSET Message, PageLoad(t, ms),
         UNCHANGED <<server, cookie>>, cut \subseteq cut',
         \A x \in ms : \/ x \in net
                       \/ \E n \in net : /\ x = Dropped(n) /\ n.answer = "none"
                                         /\ n.from \in Tabs => n.cookie \in Over',
         \A x \in net \ ms : x.from = t,
         \A x \in AwaitedRefresh(net) :
           x.from = t /\ (x.answer = "ok" \/ x \in ms) => x.cookie \in Over'
  PROVE  CookieInv'
<1> DEFINE gone == {m \in ms : m.from = t \/ m.from \in Pending(t)}
<1>1. /\ refresh' = [refresh EXCEPT ![t] = NoRefresh]
      /\ lock' = Released(t)
      /\ net' = (ms \ gone) \union Abandoned(gone)
  BY DEF PageLoad
<1>2. gone \in SUBSET ms /\ gone \in SUBSET Message
  OBVIOUS
<1>3. \A x \in Abandoned(gone) : \E m \in gone : m.answer = "none" /\ x = Dropped(m)
  BY <1>2, AbandonedFrom
<1>4. \A x \in ms \ gone : x.from # t
  OBVIOUS
<1>5. \A x \in ms : x.from \in Tabs /\ x.from # t => x \notin gone
  BY Settings DEF Pending
<1>12. \A x \in gone : x.from \in Tabs => x.from = t
  BY Settings DEF Pending
<1> HIDE DEF gone
<1>6. net \in SUBSET Message /\ Nobody \notin Tabs /\ refresh \in [Tabs -> RefreshState]
  BY ApiClientAssumption DEF Inv, CallsTyped, BrowserTyped, RefreshState
<1>7. \A m \in AwaitedRefresh(net') : m \in AwaitedRefresh(net) /\ m.from # t
  <2> SUFFICES ASSUME NEW m \in AwaitedRefresh(net')
               PROVE  m \in AwaitedRefresh(net) /\ m.from # t
    OBVIOUS
  <2>1. m \in net' /\ m.from \in Tabs /\ m.awaited
    BY DEF AwaitedRefresh
  <2>2. m \in ms \ gone
    BY <1>1, <1>2, <1>3, <2>1, DroppedFrom
  <2>3. m \in net
    BY <1>6, <2>1, <2>2, DroppedFrom
  <2> QED
    BY <1>4, <2>1, <2>2, <2>3 DEF AwaitedRefresh
<1>8. LockGood(lock', refresh', net')
  <2>1. refresh'[t].at = "none" /\ \A s \in Tabs : s # t => refresh'[s].at = refresh[s].at
    BY <1>1, <1>6 DEF NoRefresh
  <2>2. lock' = IF lock = t THEN Nobody ELSE lock
    BY <1>1 DEF Released
  <2> QED
    BY <1>6, <1>7, <2>1, <2>2, LockReleased DEF CookieInv
<1>9. \A x \in net' : x \in net \/ \E m \in net : /\ x = Dropped(m) /\ m.answer = "none"
                                                  /\ m.from \in Tabs => m.cookie \in Over'
  <2> SUFFICES ASSUME NEW x \in net', x \notin net
               PROVE  \E m \in net : /\ x = Dropped(m) /\ m.answer = "none"
                                     /\ m.from \in Tabs => m.cookie \in Over'
    OBVIOUS
  <2>1. CASE x \in ms
    BY <2>1
  <2>2. CASE x \notin ms
    <3>1. PICK m \in gone : m.answer = "none" /\ x = Dropped(m)
      BY <1>1, <1>3, <2>2
    <3>2. CASE m \in net
      <4>1. ASSUME m.from \in Tabs PROVE m.cookie \in Over'
        <5>1. m.from = t /\ m \in ms
          BY <1>2, <1>12, <4>1
        <5>2. CASE m.awaited
          BY <3>2, <4>1, <5>1, <5>2 DEF AwaitedRefresh
        <5>3. CASE ~m.awaited
          <6>1. m.cookie \in Over
            BY <3>2, <4>1, <5>3 DEF CookieInv, TokenGood, MessageGood
          <6> QED
            BY <6>1, NothingServed
        <5> QED
          BY <5>2, <5>3
      <4> QED
        BY <3>1, <3>2, <4>1
    <3>3. CASE m \notin net
      <4>1. PICK n \in net : /\ m = Dropped(n) /\ n.answer = "none"
                             /\ n.from \in Tabs => n.cookie \in Over'
        BY <1>2, <3>3
      <4>2. x = Dropped(n)
        BY <1>6, <3>1, <4>1 DEF Dropped, Message
      <4> QED
        BY <4>1, <4>2
    <3> QED
      BY <3>2, <3>3
  <2> QED
    BY <2>1, <2>2
<1>10. \A m \in AwaitedRefresh(net) : m.answer = "ok" => m \in net' \/ m.cookie \in Fine'
  <2> SUFFICES ASSUME NEW m \in AwaitedRefresh(net), m.answer = "ok", m.cookie \notin Fine'
               PROVE  m \in net'
    OBVIOUS
  <2>1. m \in net /\ m.from \in Tabs /\ m.from # t
    BY NothingServed DEF AwaitedRefresh
  <2> QED
    BY <1>1, <1>5, <2>1
<1>11. TokenGood(Fine', Over', Seen', cookie, net')
  BY <1>6, <1>9, <1>10, NothingServed, TokensKept DEF CookieInv
<1> QED
  BY <1>8, <1>11 DEF CookieInv

(* The one refresh that waits for an answer. *)
LEMMA OnlyAwaited ==
  ASSUME Inv, CookieInv, NEW t \in Tabs, NEW m \in Await(t)
  PROVE  /\ m \in net /\ m \in Message /\ m.from = t /\ m.awaited
         /\ m \in AwaitedRefresh(net) /\ \A x \in AwaitedRefresh(net) : x = m
         /\ MessageGood(m, Fine, Over) /\ m.cookie \in Seen
BY AwaitedMessage DEF CookieInv, LockGood, TokenGood, AwaitedRefresh

LEMMA ReceiveRefreshCookie ==
  ASSUME Inv, CookieInv, NEW t \in Tabs, ReceiveRefresh(t) PROVE CookieInv'
<1> PICK m \in Await(t) : \E answer \in Answers(m) :
        /\ UNCHANGED <<server, cut>>
        /\ IF answer = "ok"
             THEN /\ cookie' = m.gives
                  /\ net' = net \ {m}
                  /\ token' = [token EXCEPT ![t] = TRUE]
                  /\ refresh' = [refresh EXCEPT ![t] = NoRefresh]
                  /\ lock' = Released(t)
                  /\ call' = [c \in Calls |-> IF c \in Sharing(t)
                                                THEN [call[c] EXCEPT !.at = "again"]
                                                ELSE call[c]]
             ELSE SignOut(t, net \ {m}) /\ UNCHANGED cookie
  BY DEF ReceiveRefresh
<1>1. PICK answer \in Answers(m) :
        /\ UNCHANGED <<server, cut>>
        /\ IF answer = "ok"
             THEN /\ cookie' = m.gives
                  /\ net' = net \ {m}
                  /\ refresh' = [refresh EXCEPT ![t] = NoRefresh]
                  /\ lock' = Released(t)
             ELSE SignOut(t, net \ {m}) /\ UNCHANGED cookie
  OBVIOUS
<1>2. /\ m \in net /\ m \in Message /\ m.from = t
      /\ m \in AwaitedRefresh(net) /\ \A x \in AwaitedRefresh(net) : x = m
  BY OnlyAwaited
<1>3. CASE answer = "ok"
  <2>1. \A x \in AwaitedRefresh(net') : x \in AwaitedRefresh(net) /\ x.from # t
    BY <1>1, <1>2, <1>3 DEF AwaitedRefresh
  <2>2. refresh'[t].at = "none" /\ \A s \in Tabs : s # t => refresh'[s].at = refresh[s].at
    BY <1>1, <1>3 DEF Inv, BrowserTyped, NoRefresh
  <2>3. lock' = (IF lock = t THEN Nobody ELSE lock) /\ Nobody \notin Tabs
    BY <1>1, <1>3, ApiClientAssumption DEF Released
  <2>4. LockGood(lock', refresh', net')
    BY <2>1, <2>2, <2>3, LockReleased DEF CookieInv
  <2>5. TokenGood(Fine, Over, Seen, cookie', net')
    BY <1>1, <1>2, <1>3, TokensTaken DEF CookieInv
  <2>6. Fine' = Fine /\ Over' = Over /\ Seen' = Seen
    BY <1>1 DEF server, Fine, Over, Seen
  <2> QED
    BY <2>4, <2>5, <2>6 DEF CookieInv
<1>4. CASE answer # "ok"
  <2>1. PageLoad(t, net \ {m}) /\ UNCHANGED <<server, cookie>> /\ cut \subseteq cut'
    BY <1>1, <1>4 DEF SignOut
  <2>2. m.answer # "ok"
    BY <1>4 DEF Answers
  <2>3. net \ {m} \in SUBSET Message
    BY DEF Inv, CallsTyped
  <2> QED
    BY <1>2, <2>1, <2>2, <2>3, PageLoadCookie
<1> QED
  BY <1>3, <1>4

LEMMA LoseRefreshCookie ==
  ASSUME Inv, CookieInv, NEW t \in Tabs, NEW symptom \in Symptoms, LoseRefresh(t, symptom)
  PROVE  CookieInv'
<1>1. PICK m \in Await(t) :
        /\ Fails(m, symptom)
        /\ cut' = IF symptom = "gateway" /\ m.cookie \in Tokens
                    THEN cut \union {session[m.cookie]} ELSE cut
        /\ UNCHANGED <<server, cookie>>
        /\ IF refresh[t].cold < MaxColdRetries
             THEN /\ net' = Left(m, symptom)
                  /\ refresh' = [refresh EXCEPT ![t] = [at |-> "again", cold |-> @.cold + 1]]
                  /\ UNCHANGED <<lock, token, call>>
             ELSE SignOut(t, Left(m, symptom))
  BY DEF LoseRefresh
<1>2. /\ m \in net /\ m \in Message /\ m.from = t /\ m.cookie \in Seen
      /\ m \in AwaitedRefresh(net) /\ \A x \in AwaitedRefresh(net) : x = m
      /\ net \in SUBSET Message
  BY OnlyAwaited DEF Inv, CallsTyped
<1> DEFINE ms == Left(m, symptom)
<1>3. /\ ms \in SUBSET Message
      /\ \A x \in ms : x \in net \ {m} \/ (m.answer = "none" /\ x = Dropped(m))
      /\ symptom = "unprocessed" => ms = net \ {m}
  BY <1>2, LeftFrom
<1>4. net \ {m} \subseteq ms
  BY DEF Left
<1> HIDE DEF ms
<1>5. symptom # "unprocessed" => m.cookie \in Over'
  <2> SUFFICES ASSUME symptom = "gateway" PROVE m.cookie \in Over'
    BY DEF Symptoms
  <2>1. CASE m.cookie = NoToken
    BY <2>1 DEF Over
  <2>2. CASE m.cookie # NoToken
    <3>1. m.cookie \in used /\ used \subseteq Tokens
      BY <1>2, <2>2 DEF Seen, Inv, ServerTyped
    <3>2. session[m.cookie] \in cut' /\ used' = used /\ session' = session
      BY <1>1, <3>1 DEF server
    <3> QED
      BY <3>1, <3>2 DEF Over
  <2> QED
    BY <2>1, <2>2
<1>6. cut \subseteq cut'
  BY <1>1
<1>7. \A x \in ms : \/ x \in net
                    \/ \E n \in net : /\ x = Dropped(n) /\ n.answer = "none"
                                      /\ n.from \in Tabs => n.cookie \in Over'
  BY <1>2, <1>3, <1>5
<1>8. m.answer = "ok" => m.cookie \in Over'
  BY <1>1, <1>5 DEF Fails
<1>9. m \notin ms
  BY <1>2, <1>3, DroppedFrom DEF AwaitedRefresh
<1>10. CASE refresh[t].cold < MaxColdRetries
  <2>1. net' = ms /\ lock' = lock
    BY <1>1, <1>10 DEF ms
  <2>2. refresh'[t].at = "again" /\ \A s \in Tabs : s # t => refresh'[s].at = refresh[s].at
    BY <1>1, <1>10 DEF Inv, BrowserTyped
  <2>3. AwaitedRefresh(ms) \subseteq AwaitedRefresh(net) \ {m}
    BY <1>2, <1>3, DroppedFrom DEF AwaitedRefresh
  <2>4. LockGood(lock', refresh', net')
    BY SMTT(30), <1>2, <2>1, <2>2, <2>3, LockAgain DEF CookieInv
  <2>5. \A x \in AwaitedRefresh(net) : x.answer = "ok" => x \in net' \/ x.cookie \in Fine'
    BY <1>1, <1>2, <1>6, <1>8, NothingServed
  <2>6. TokenGood(Fine', Over', Seen', cookie, net')
    BY <1>1, <1>2, <1>6, <1>7, <2>1, <2>5, NothingServed, TokensKept DEF CookieInv
  <2> QED
    BY <1>1, <2>4, <2>6 DEF CookieInv
<1>11. CASE ~(refresh[t].cold < MaxColdRetries)
  <2>1. PageLoad(t, ms) /\ UNCHANGED <<server, cookie>>
    BY <1>1, <1>11 DEF SignOut, ms
  <2>2. \A x \in net \ ms : x.from = t
    BY <1>2, <1>4
  <2>3. \A x \in AwaitedRefresh(net) :
           x.from = t /\ (x.answer = "ok" \/ x \in ms) => x.cookie \in Over'
    BY <1>2, <1>8, <1>9
  <2> QED
    BY <1>3, <1>6, <1>7, <2>1, <2>2, <2>3, PageLoadCookie
<1> QED
  BY <1>10, <1>11

LEMMA ReloadCookie ==
  ASSUME Inv, CookieInv, NEW t \in Tabs, Reload(t) PROVE CookieInv'
<1>1. /\ PageLoad(t, net) /\ UNCHANGED <<server, cookie>> /\ cut \subseteq cut'
      /\ cut' = cut \union {session[m.cookie] : m \in {m \in Await(t) : m.cookie \in Tokens}}
  BY DEF Reload
<1>2. ASSUME NEW x \in AwaitedRefresh(net), x.from = t PROVE x.cookie \in Over'
  <2>1. x \in Await(t) /\ x.cookie \in Seen
    BY <1>2 DEF AwaitedRefresh, Await, CookieInv, TokenGood
  <2>2. CASE x.cookie = NoToken
    BY <2>2 DEF Over
  <2>3. CASE x.cookie # NoToken
    <3>1. x.cookie \in used /\ used \subseteq Tokens
      BY <2>1, <2>3 DEF Seen, Inv, ServerTyped
    <3>2. session[x.cookie] \in cut' /\ used' = used /\ session' = session
      BY <1>1, <2>1, <3>1 DEF server
    <3> QED
      BY <3>1, <3>2 DEF Over
  <2> QED
    BY <2>2, <2>3
<1>3. net \in SUBSET Message
  BY DEF Inv, CallsTyped
<1> QED
  BY <1>1, <1>2, <1>3, PageLoadCookie

-----------------------------------------------------------------------------
(* What the server does to the cookies. *)

LEMMA ReplyFields ==
  ASSUME Inv, NEW m \in net, m.answer = "none", NEW answer \in {"ok", "401"},
         NEW gives \in Tokens \union {NoToken}, Reply(m, answer, gives)
  PROVE  /\ \A x \in net' : x \in net \ {m} \/
              /\ x.from = m.from /\ x.cookie = m.cookie /\ x.awaited = m.awaited /\ x.awaited
              /\ x.gives = gives /\ x.answer = answer
         /\ net \ {m} \subseteq net' /\ \A x, y \in net' \ (net \ {m}) : x = y
         /\ m.awaited => \E x \in net' : x.from = m.from /\ x.cookie = m.cookie
                                         /\ x.awaited /\ x.answer = answer
<1>1. m \in Message
  BY DEF Inv, CallsTyped
<1> DEFINE r == [[m EXCEPT !.answer = answer] EXCEPT !.gives = gives]
<1>2. /\ r.from = m.from /\ r.cookie = m.cookie /\ r.awaited = m.awaited
      /\ r.gives = gives /\ r.answer = answer
  BY <1>1 DEF Message
<1>3. net' = (net \ {m}) \union (IF m.awaited THEN {r} ELSE {})
  BY <1>1 DEF Reply, Message
<1> HIDE DEF r
<1> QED
  BY <1>2, <1>3

LEMMA LockServed ==
  ASSUME Inv, CookieInv, NEW m \in net, m.answer = "none", NEW answer \in {"ok", "401"},
         NEW gives \in Tokens \union {NoToken}, Reply(m, answer, gives),
         UNCHANGED <<lock, client>>
  PROVE  LockGood(lock', refresh', net')
<1>1. /\ \A x \in net' : x \in net \ {m} \/ (x.from = m.from /\ x.awaited = m.awaited)
      /\ \A x, y \in net' \ (net \ {m}) : x = y
  BY ReplyFields
<1>2. LockGood(lock, refresh, net')
  BY <1>1, LockAnswered DEF CookieInv
<1> QED
  BY <1>2 DEF client

(* Without a token: refused, or a write or a sign-out carried out. *)
LEMMA AnsweredCookie ==
  ASSUME Inv, CookieInv, NEW m \in net, m.answer = "none", NEW answer \in {"ok", "401"},
         Reply(m, answer, NoToken), UNCHANGED <<cookie, lock, client, cut>>,
         UNCHANGED <<used, session>>, ended \subseteq ended',
         \A k \in live : k \in live' \/ session[k] \in ended' \union cut',
         m.from \in Tabs => m.cookie \in Over
  PROVE  CookieInv'
<1>1. LockGood(lock', refresh', net')
  BY LockServed
<1>2. /\ Fine \subseteq Fine' /\ Over \subseteq Over' /\ Seen' = Seen
      /\ Over' \subseteq Fine' /\ Fine' \subseteq Seen
  BY CookiesKept
<1>3. /\ \A x \in net' : x \in net \ {m} \/
           /\ x.from = m.from /\ x.cookie = m.cookie /\ x.awaited
           /\ x.gives = NoToken /\ x.answer \in {"ok", "401"}
           /\ m.from \in Tabs => m.cookie \in Over'
      /\ net \ {m} \subseteq net'
  BY <1>2, ReplyFields
<1>4. TokenGood(Fine', Over', Seen, cookie, net')
  BY <1>2, <1>3, TokensRefused DEF CookieInv
<1> QED
  BY <1>1, <1>2, <1>4 DEF CookieInv

(* With a new token. *)
LEMMA GivenCookie ==
  ASSUME Inv, CookieInv, NEW m \in net, m.answer = "none",
         NEW n \in Tokens, n \notin used, Reply(m, "ok", n),
         UNCHANGED <<cookie, lock, client, cut, ended>>,
         used' = used \union {n}, n \in live',
         \A k \in used : session'[k] = session[k],
         \A k \in live : k \in live' \/ (m.from \in Tabs /\ k = m.cookie)
  PROVE  CookieInv'
<1>1. LockGood(lock', refresh', net')
  BY LockServed
<1>2. n \notin Seen /\ Seen' = Seen \union {n} /\ n \in Fine'
  BY ApiClientAssumption DEF Seen, Fine
<1>3. Over \subseteq Over' /\ Over' \subseteq Fine' /\ Fine' \subseteq Seen'
  BY DEF Over, Fine, Seen
<1>4. \A k \in Fine : k \in Fine' \/ (m.from \in Tabs /\ k = m.cookie)
  BY DEF Fine
<1>5. \A x, y \in AwaitedRefresh(net) : x = y
  BY DEF CookieInv, LockGood
<1>6. /\ \A x \in net' : x \in net \ {m} \/
           /\ x.from = m.from /\ x.cookie = m.cookie /\ x.awaited
           /\ x.gives = n /\ x.answer = "ok"
      /\ net \ {m} \subseteq net' /\ \A x, y \in net' \ (net \ {m}) : x = y
      /\ m.awaited => \E x \in net' : x.from = m.from /\ x.cookie = m.cookie
                                      /\ x.awaited /\ x.answer = "ok"
  BY ReplyFields
<1>7. TokenGood(Fine, Over, Seen, cookie, net)
  BY DEF CookieInv
<1>8. TokenGood(Fine', Over', Seen', cookie, net')
  BY <1>2, <1>3, <1>4, <1>5, <1>6, <1>7, TokensGiven
<1> QED
  BY <1>1, <1>8 DEF CookieInv

LEMMA ServeRefreshCookie ==
  ASSUME Inv, CookieInv, NEW m \in net, m.answer = "none", m.from \in Tabs, ServeRefresh(m),
         UNCHANGED <<cookie, lock, client, cut>>
  PROVE  CookieInv'
<1>1. /\ UNCHANGED ended /\ MessageGood(m, Fine, Over)
      /\ live \subseteq used /\ used \subseteq Tokens /\ session \in [Tokens -> Tokens]
  BY DEF ServeRefresh, CookieInv, TokenGood, Inv, ServerTyped
<1>2. CASE \E n \in Tokens : /\ Fresh(n)
                             /\ Server!Rotate(m.cookie, n)
                             /\ Reply(m, "ok", n)
  <2>1. PICK n \in Tokens : Fresh(n) /\ Server!Rotate(m.cookie, n) /\ Reply(m, "ok", n)
    BY <1>2
  <2>2. /\ n \notin used /\ used' = used \union {n} /\ live' = (live \ {m.cookie}) \union {n}
        /\ session' = [session EXCEPT ![n] = session[m.cookie]]
    BY <2>1 DEF Server!Rotate
  <2>3. \A k \in used : session'[k] = session[k]
    BY <1>1, <2>2
  <2>4. n \in live' /\ \A k \in live : k \in live' \/ (m.from \in Tabs /\ k = m.cookie)
    BY <2>2
  <2> QED
    BY <1>1, <2>1, <2>2, <2>3, <2>4, GivenCookie
<1>3. CASE /\ m.cookie \notin live
           /\ UNCHANGED <<used, session>>
           /\ live' \in {live, {t \in live : m.cookie \in Tokens =>
                                               session[t] # session[m.cookie]}}
           /\ Reply(m, "401", NoToken)
  <2>1. m.cookie \in Over
    BY <1>1, <1>3 DEF MessageGood, Fine, Over
  <2>2. m.cookie \in Tokens => session[m.cookie] \in ended \union cut
    BY <2>1, ApiClientAssumption DEF Over
  <2>3. ended' = ended /\ cut' = cut
    BY <1>1
  <2>4. \A k \in live : k \in live' \/ session[k] \in ended' \union cut'
    BY <1>3, <2>2, <2>3
  <2> QED
    BY <1>3, <2>1, <2>3, <2>4, AnsweredCookie
<1> QED
  BY <1>2, <1>3 DEF ServeRefresh

LEMMA ServeLoginCookie ==
  ASSUME Inv, CookieInv, NEW m \in net, m.answer = "none", ServeLogin(m),
         UNCHANGED <<cookie, lock, client, cut>>
  PROVE  CookieInv'
<1>1. PICK n \in Tokens : /\ Fresh(n)
                          /\ live' = live \union {n}
                          /\ Server!Open(n)
                          /\ Reply(m, "ok", n)
  BY DEF ServeLogin
<1>2. /\ n \notin used /\ used' = used \union {n} /\ session' = session /\ ended' = ended
      /\ n \in live' /\ \A k \in live : k \in live'
  BY <1>1 DEF Server!Open, ServeLogin
<1> QED
  BY <1>1, <1>2, GivenCookie

LEMMA EndedCookies ==
  ASSUME live' = {}, ended' = ended \union SessionsOf(live), UNCHANGED <<used, session, cut>>
  PROVE  /\ ended \subseteq ended' /\ cut \subseteq cut' /\ UNCHANGED <<used, session>>
         /\ \A k \in live : k \in live' \/ session[k] \in ended' \union cut'
BY DEF SessionsOf

LEMMA ServeLogoutCookie ==
  ASSUME Inv, CookieInv, NEW m \in net, m.answer = "none", m.from \notin Tabs, ServeLogout(m),
         UNCHANGED <<cookie, lock, client, cut>>
  PROVE  CookieInv'
<1>1. /\ live' = {} /\ ended' = ended \union SessionsOf(live) /\ UNCHANGED <<used, session, cut>>
      /\ Reply(m, "ok", NoToken)
  BY DEF ServeLogout
<1>2. /\ ended \subseteq ended' /\ UNCHANGED <<used, session>>
      /\ \A k \in live : k \in live' \/ session[k] \in ended' \union cut'
  BY <1>1, EndedCookies
<1> QED
  BY <1>1, <1>2, AnsweredCookie

LEMMA ServeWriteCookie ==
  ASSUME Inv, CookieInv, NEW m \in net, m.answer = "none", m.from \notin Tabs, ServeWrite(m),
         UNCHANGED <<cookie, lock, client, cut>>
  PROVE  CookieInv'
BY AnsweredCookie DEF ServeWrite

LEMMA ServeCookie == ASSUME Inv, CookieInv, NEW m \in net, Serve(m) PROVE CookieInv'
<1>1. m.answer = "none" /\ UNCHANGED <<cookie, lock, client, cut>>
  BY DEF Serve
<1>2. m.from \in Tabs \union Calls
  BY DEF Inv, CallsTyped, Message
<1>3. CASE m.from \in Tabs
  BY <1>1, <1>3, ServeRefreshCookie DEF Serve
<1>4. CASE m.from \notin Tabs
  <2>1. m.from \in Calls /\ m.from.kind \in {"login", "logout", "write"}
    BY <1>2, <1>4 DEF Serve
  <2>2. CASE m.from.kind = "login"
    BY <1>1, <1>4, <2>2, ServeLoginCookie DEF Serve
  <2>3. CASE m.from.kind = "logout"
    BY <1>1, <1>4, <2>3, ServeLogoutCookie DEF Serve
  <2>4. CASE m.from.kind = "write"
    BY <1>1, <1>4, <2>1, <2>4, ServeWriteCookie DEF Serve
  <2> QED
    BY <2>1, <2>2, <2>3, <2>4
<1> QED
  BY <1>3, <1>4

LEMMA EndSessionsCookie == ASSUME Inv, CookieInv, EndSessions PROVE CookieInv'
<1>1. /\ live' = {} /\ ended' = ended \union SessionsOf(live) /\ UNCHANGED <<used, session, cut>>
      /\ UNCHANGED <<cookie, lock, refresh, net>>
  BY DEF EndSessions, client
<1>2. /\ ended \subseteq ended' /\ cut \subseteq cut' /\ UNCHANGED <<used, session>>
      /\ \A k \in live : k \in live' \/ session[k] \in ended' \union cut'
  BY <1>1, EndedCookies
<1>3. /\ Fine \subseteq Fine' /\ Over \subseteq Over' /\ Seen' = Seen
      /\ Over' \subseteq Fine' /\ Fine' \subseteq Seen
  BY <1>2, CookiesKept
<1>4. net \in SUBSET Message /\ \A x \in AwaitedRefresh(net) : x \in net
  BY DEF Inv, CallsTyped, AwaitedRefresh
<1>5. TokenGood(Fine', Over', Seen, cookie, net)
  BY <1>3, <1>4, TokensKept DEF CookieInv
<1> QED
  BY <1>1, <1>3, <1>5 DEF CookieInv

-----------------------------------------------------------------------------
LEMMA StepCookie == ASSUME HasLocks PROVE Inv /\ CookieInv /\ [Next]_vars => CookieInv'
<1> SUFFICES ASSUME Inv, CookieInv, [Next]_vars PROVE CookieInv'
  OBVIOUS
<1>1. ASSUME NEW c \in Calls, start(c) \/ Resend(c) PROVE CookieInv'
  BY <1>1, SendCookie DEF start, Resend, Send
<1>2. ASSUME NEW c \in Calls, start(c) \/ CallStep(c) PROVE CookieInv'
  BY <1>1, <1>2, ReceiveCookie, LoseCallCookie DEF CallStep
<1>3. ASSUME NEW t \in Tabs, Acquire(t) \/ RefreshStep(t) \/ Reload(t) PROVE CookieInv'
  BY <1>3, AcquireCookie, ResendRefreshCookie, ReceiveRefreshCookie,
     LoseRefreshCookie, ReloadCookie
  DEF RefreshStep
<1>4. ASSUME NEW m \in net, Serve(m) PROVE CookieInv'
  BY <1>4, ServeCookie
<1>5. CASE EndSessions
  BY <1>5, EndSessionsCookie
<1>6. CASE UNCHANGED vars
  BY <1>6 DEF vars, server, client, CookieInv, Fine, Over, Seen
<1> QED
  BY <1>2, <1>3, <1>4, <1>5, <1>6 DEF Next

(* In a browser with the Web Locks API, a refresh is refused only in a     *)
(* session that was ended, or that lost the answer to an earlier refresh,  *)
(* whatever tabs refresh, reload, sign in and sign out together.           *)
THEOREM RefusedAlwaysForCause == HasLocks => (Spec => []RefusedForCause)
<1> SUFFICES ASSUME HasLocks PROVE Spec => []RefusedForCause
  OBVIOUS
<1>1. CookieInv => RefusedForCause
  BY ApiClientAssumption
  DEF CookieInv, TokenGood, MessageGood, Over, RefusedForCause, Refused
<1>2. Inv /\ CookieInv /\ [Next]_vars => CookieInv'
  BY StepCookie
<1>3. Spec => []CookieInv
  BY InitCookie, <1>2, InvAlways, PTL DEF Spec
<1> QED
  BY <1>1, <1>3, PTL
=============================================================================
