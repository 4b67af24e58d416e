------------------------------- MODULE MCJobs -------------------------------
(* Small instances of Jobs: j2 is the job with retries, and is the delayed  *)
(* one; j1 outranks nobody but j3.                                          *)
EXTENDS Jobs, TLC

CONSTANTS j1, j2, j3

MCMaxAttempts == [j \in Job |-> IF j = j2 THEN 2 ELSE 0]
MCRank == [j \in Job |-> IF j = j1 THEN 2 ELSE IF j = j2 THEN 1 ELSE 3]
=============================================================================
