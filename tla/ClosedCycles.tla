----------------------------- MODULE ClosedCycles -----------------------------
(***************************************************************************)
(* What the cycle.closed webhook promises (ADR-006): the closed cycles of  *)
(* an account are announced in order and without a gap, each at most once, *)
(* and only once it has closed.  A cycle that is announced while nobody    *)
(* listens is passed over for good.                                        *)
(***************************************************************************)
EXTENDS Integers

CONSTANTS Accounts, MaxCycles

VARIABLES today,      \* how many cycles have closed
          announced,  \* how many of them have been announced, for each account
          enqueued    \* how many events each account and cycle has had

vars == <<today, announced, enqueued>>

Cycles == 1..MaxCycles

Init == /\ today = 0
        /\ announced = [a \in Accounts |-> 0]
        /\ enqueued = [a \in Accounts |-> [c \in Cycles |-> 0]]

CloseCycle == /\ today' \in today + 1 .. MaxCycles
              /\ UNCHANGED <<announced, enqueued>>

(* A backlog is announced in one go, perhaps of several accounts. *)
Announce ==
  /\ announced' \in [Accounts -> 0..today]
  /\ \A a \in Accounts : announced'[a] >= announced[a]
  /\ enqueued' \in [Accounts -> [Cycles -> 0..1]]
  /\ \A a \in Accounts : \A c \in Cycles :
       c \notin announced[a] + 1 .. announced'[a] => enqueued'[a][c] = enqueued[a][c]
  /\ UNCHANGED today

Next == CloseCycle \/ Announce

Spec == Init /\ [][Next]_vars
=============================================================================
