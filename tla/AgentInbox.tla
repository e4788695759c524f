----------------------------- MODULE AgentInbox -----------------------------
(***************************************************************************)
(* The inbox of an agent: two pending lists of messages. Every mutation is *)
(* a splice that is written to the session log before the list changes.    *)
(* The operators come in pairs, the list after the mutation and the events *)
(* it writes; a mutation that changes nothing writes nothing.              *)
(*                                                                         *)
(* The observers of the append run before the list changes and see the old *)
(* one. They cannot append themselves, the session refuses it, so the two  *)
(* halves of a mutation are one action here.                               *)
(***************************************************************************)
EXTENDS SessionLog

CONSTANTS Messages      \* message identities

Inboxes == [Targets -> Seq(Messages)]

InSeq(m, list) == \E i \in 1..Len(list) : list[i] = m

Pending(inbox, m) == \E t \in Targets : InSeq(m, inbox[t])

HasPending(inbox) == \E t \in Targets : inbox[t] # <<>>

\* locate: the list and the one-based position of a pending message.
Places(inbox, m) ==
    {p \in Targets \X (1..(Len(inbox["next-turn"]) + Len(inbox["next-step"]))) :
        p[2] <= Len(inbox[p[1]]) /\ inbox[p[1]][p[2]] = m}

-----------------------------------------------------------------------------
(* append: at the end of a list. *)

Appended(inbox, target, m) == [inbox EXCEPT ![target] = Append(@, m)]

AppendEvents(inbox, target, m) ==
    <<Spliced(target, Len(inbox[target]), 0, <<m>>, FALSE)>>

-----------------------------------------------------------------------------
(* replace and remove: the message leaves its place, discarded.            *)

Respliced(inbox, m, inserted) ==
    LET place == CHOOSE p \in Places(inbox, m) : TRUE
    IN  [inbox EXCEPT ![place[1]] = SpliceAt(@, place[2] - 1, 1, inserted)]

RespliceEvents(inbox, m, inserted) ==
    LET place == CHOOSE p \in Places(inbox, m) : TRUE
    IN  <<Spliced(place[1], place[2] - 1, 1, inserted, TRUE)>>

-----------------------------------------------------------------------------
(* clear discards one list after the other, next-step first, and a claim   *)
(* empties the next-step list; "canceled" tells the two apart.             *)

EmptyingEvents(inbox, target, canceled) ==
    IF inbox[target] = <<>> THEN <<>>
    ELSE <<Spliced(target, 0, Len(inbox[target]), <<>>, canceled)>>

-----------------------------------------------------------------------------
(* claim: a step boundary takes the whole next-step list and, at the first *)
(* boundary of a turn, one queued turn.                                    *)

OneTurn(inbox, target) ==
    IF target = "next-turn" /\ inbox["next-turn"] # <<>>
    THEN <<Head(inbox["next-turn"])>>
    ELSE <<>>

\* A plausible bug: the queued turn is pushed as a list, not spread.
ClaimedNested(inbox, target) ==
    inbox["next-step"] \o <<OneTurn(inbox, target)>>

Claimed(inbox, target) == inbox["next-step"] \o OneTurn(inbox, target)

AfterClaim(inbox, target) ==
    [t \in Targets |->
        IF t = "next-step" THEN <<>>
        ELSE SubSeq(inbox[t], Len(OneTurn(inbox, target)) + 1, Len(inbox[t]))]

ClaimEvents(inbox, target) ==
    EmptyingEvents(inbox, "next-step", FALSE)
        \o (IF OneTurn(inbox, target) = <<>> THEN <<>>
            ELSE <<Spliced("next-turn", 0, 1, <<>>, FALSE)>>)
=============================================================================
