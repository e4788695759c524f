---------------------------- MODULE MCPublicJobs ---------------------------
(***************************************************************************)
(* One job with two handles: a worker of an earlier life of the process    *)
(* and the one recovery enqueues.                                          *)
(***************************************************************************)
EXTENDS PublicJobs

CONSTANTS j1, h1, h2, none

MCJobs == {j1}
MCHandles == {h1, h2}
=============================================================================
