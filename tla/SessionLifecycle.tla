--------------------------- MODULE SessionLifecycle ---------------------------
(***************************************************************************)
(* What the refresh tokens promise, whatever requests overlap.  A token is *)
(* issued once, into a session named after the token its sign-in issued.   *)
(* A live token can be exchanged once, for a new one of the same session;  *)
(* nothing else adds a token to a session, and what is no longer live      *)
(* never is again.  Sessions is shown to implement this.                   *)
(***************************************************************************)
EXTENDS FiniteSets

CONSTANTS Tokens

VARIABLES live,     \* tokens that can be exchanged
          used,     \* tokens that have been issued
          session   \* the session of each token

lvars == <<live, used, session>>

Init == /\ used \subseteq Tokens
        /\ live \subseteq used
        /\ session = [t \in Tokens |-> t]

(* A sign-in, or a password change, which ends the other sessions with it. *)
Open(n) == /\ n \notin used
           /\ used' = used \union {n}
           /\ n \in live' /\ live' \subseteq live \union {n}
           /\ UNCHANGED session

Rotate(t, n) == /\ t \in live
                /\ n \notin used
                /\ used' = used \union {n}
                /\ live' = (live \ {t}) \union {n}
                /\ session' = [session EXCEPT ![n] = session[t]]

(* Sign-outs, of any number of sessions. *)
End == /\ live' \subseteq live
       /\ UNCHANGED <<used, session>>

Next == \/ End
        \/ \E n \in Tokens : Open(n) \/ \E t \in Tokens : Rotate(t, n)

Spec == Init /\ [][Next]_lvars

(* A session has at most one token that can be exchanged. *)
OneLivePerSession ==
  \A s, t \in live : session[s] = session[t] => s = t
=============================================================================
