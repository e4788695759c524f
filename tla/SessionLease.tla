---------------------------- MODULE SessionLease ---------------------------
(***************************************************************************)
(* The two mutexes of a chat session: the process-local lock               *)
(* (core/harness_session_lock.py) and the database lease with owner        *)
(* fencing and expiration (core/harness_session_lease.py).                 *)
(***************************************************************************)
EXTENDS HarnessBase

VARIABLES
    lock,   \* the worker holding the in-process session lock, or None
    lease   \* the session's HarnessSessionLeaseRecord, NoLease if absent

SessionLeaseTypeOK ==
    /\ lock \in Workers \cup {None}
    /\ lease \in Lease

SessionLeaseInit ==
    /\ lock = None
    /\ lease = NoLease

(* acquire_harness_session: a non-blocking acquire. *)
LockFree == lock = None

(* HarnessSessionLeaseStore.acquire: insert the row, or take it over when  *)
(* the present one has expired; otherwise HarnessSessionBusy.              *)
LeaseAbsent == lease.owner = None   \* a bug: no takeover of an expired row

LeaseAvailable == lease.owner = None \/ ~lease.live

AcquireLease(w) ==
    /\ LeaseAvailable
    /\ lease' = FreshLease(w)

(* HarnessSessionLeaseStore.renew succeeds only for the owner of a row     *)
(* that has not expired; a live lease stays live.                          *)
HoldsLease(w) == lease.owner = w /\ lease.live

(* HarnessSessionLeaseStore.release deletes the row of its own owner only. *)
ReleasedLease(w) == IF lease.owner = w THEN NoLease ELSE lease
=============================================================================
