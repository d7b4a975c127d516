------------------------------ MODULE MCSessions ------------------------------
(* The instance of Sessions that TLC checks: two administrators, one of    *)
(* whom is signed in, and a user to be created.                            *)
EXTENDS Sessions

CONSTANT u1

FirstSessions == <<u1>>
=============================================================================
