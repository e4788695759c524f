---------------------------- MODULE HarnessBase ----------------------------
(***************************************************************************)
(* The parameters shared by the modules of the Harness turn: one chat      *)
(* session, the requests that reach it and the task frames it may own.     *)
(*                                                                         *)
(* A worker is one execution of AgentLoop.handle_turn (or of the           *)
(* scheduled-task shortcut) for one incoming request.  Several workers may *)
(* carry the same client_turn_id (a client that retries), with the same or *)
(* with another request digest.  Every lease owner the code draws with     *)
(* new_id() is drawn at most once per worker and per lease, so the worker  *)
(* itself stands for its owner tokens.                                     *)
(***************************************************************************)
EXTENDS Naturals, FiniteSets

CONSTANTS
    Workers,    \* request executions
    Turns,      \* client_turn_ids used in the session
    Digests,    \* request digests (_request_digest)
    Frames,     \* task ids the planner may name
    TurnOf,     \* the client_turn_id of a worker's request
    DigestOf,   \* the digest of a worker's request
    None,       \* SQL NULL, an absent row
    MayLapse,   \* may the executor of a turn outlive an unrenewed lease?
    MayStall    \* may a cancel request that found no receipt stall until a
                \* turn claimed meanwhile is planned?

ASSUME RequestsAssumption ==
    /\ TurnOf \in [Workers -> Turns]
    /\ DigestOf \in [Workers -> Digests]

ASSUME NoneAssumption ==
    /\ None \notin Workers
    /\ None \notin Turns
    /\ None \notin Frames
    /\ None \notin Digests

ASSUME TimingAssumption == MayLapse \in BOOLEAN /\ MayStall \in BOOLEAN

(***************************************************************************)
(* A lease row.  Wall-clock deadlines are abstracted to one bit: live is   *)
(* "lease_expires_at > now".  Owner None is the absent row (or a row whose *)
(* lease columns are NULL).                                                *)
(***************************************************************************)
Lease == [owner: Workers \cup {None}, live: BOOLEAN]

NoLease == [owner |-> None, live |-> FALSE]

FreshLease(w) == [owner |-> w, live |-> TRUE]
=============================================================================
