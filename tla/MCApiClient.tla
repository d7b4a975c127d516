----------------------------- MODULE MCApiClient ------------------------------
(* Two tabs: in one workload two calls of a tab and one of the other use   *)
(* the session, in the other a tab signs in and out meanwhile.             *)
EXTENDS ApiClient

CONSTANTS a, b

ACall(tab, kind) == [tab |-> tab, kind |-> kind]

MCWorkloads == {{ACall(a, "write"), ACall(a, "read"), ACall(b, "read")},
                {ACall(a, "read"), ACall(b, "login"), ACall(b, "logout")}}
MCCalls == UNION MCWorkloads
=============================================================================
