---------------------------- MODULE MCLoanRequests ----------------------------
(* Instances of LoanRequests for TLC, and a claim of the documentation.    *)
EXTENDS LoanRequests

(* docs/architecture.md:59: a borrower has at most MAX_ACTIVE_REQUESTS     *)
(* requests waiting, the limit create_request checks.                      *)
ActiveLimit == Cardinality(Active) <= MAX_ACTIVE_REQUESTS
=============================================================================
