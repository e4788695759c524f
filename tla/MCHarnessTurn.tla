--------------------------- MODULE MCHarnessTurn ---------------------------
(***************************************************************************)
(* Instances of HarnessTurn.  Three requests: two carry the same           *)
(* client_turn_id (a retry, or a reuse with another payload), the third is *)
(* a later turn of the session.                                            *)
(***************************************************************************)
EXTENDS TurnRefinement, TLC

CONSTANTS w1, w2, w3, t1, t2, d1, d2, f1, f2, none

MCWorkers == {w1, w2}
MCWorkersRetry == {w1, w2, w3}
MCTurns == {t1, t2}
MCDigests == {d1, d2}
MCFrames == {f1}

(* Two turns of the session, one request each. *)
TwoTurns == (w1 :> t1) @@ (w2 :> t2)
SameDigest == [w \in MCWorkers |-> d1]

(* One turn, retried with its payload and with another one. *)
OnlyTurn == {t1}
Retried == [w \in MCWorkers |-> t1]
RetriedTwice == [w \in MCWorkersRetry |-> t1]
RetriedDigest == (w1 :> d1) @@ (w2 :> d1) @@ (w3 :> d2)
=============================================================================
