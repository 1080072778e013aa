------------------------------- MODULE MCJobs -------------------------------
(***************************************************************************)
(* A small instance of Jobs.  Jobs meet only in statements over the whole  *)
(* table, which treat each row by itself, so one job and the requests that *)
(* race for it show what can happen.                                       *)
(***************************************************************************)
EXTENDS Jobs

CONSTANTS job1, req1, req2, req3

OneJob == {job1}
OneRequest == {req1}
ThreeRequests == {req1, req2, req3}
=============================================================================
