--------------------------- MODULE ToolCallsProofs ---------------------------
(***************************************************************************)
(* Theorems about ToolCalls, for every number of calls, every size of the  *)
(* pool and every number of reclassifications: the types, the order of the *)
(* log, the exclusive barrier, the bound of the pool, that a step that is  *)
(* over is over, and that the repair of the log tells the truth whenever   *)
(* the process dies.                                                       *)
(***************************************************************************)
EXTENDS ToolCalls, FiniteSetTheorems, SequenceTheorems, TLAPS

LEMMA CallsFacts ==
    /\ NCalls \in Nat \ {0} /\ MaxParallel \in Nat \ {0}
    /\ Calls \subseteq Nat /\ IsFiniteSet(Calls)
<1>1. IsFiniteSet(1..NCalls)
  BY SchedulerBounds, FS_Interval
<1> QED BY <1>1, SchedulerBounds DEF Calls

-----------------------------------------------------------------------------
(* Types. *)

USE DEF Modes, Stages, Places, ResultCodes, EmptySlot, Slots, NoGroup, Kinds

\* The scheduler prepares a call.
TypeInv == TypeOK /\ (at = "prepare" => started \in Calls)

\* The actions of the scheduler keep the types.
LEMMA SchedulerType ==
    ASSUME TypeInv, SchedulerStep
    PROVE  TypeInv'
<1> USE CallsFacts DEF TypeInv, TypeOK, Calls
<1>1. CASE StartGroup
  <2>1. next + 1 \in Calls /\ mode[next + 1] \in Modes
    BY <1>1 DEF StartGroup
  <2>2. group' \in [last : 0..NCalls, parallel : BOOLEAN, aborted : BOOLEAN]
    BY <1>1, <2>1 DEF StartGroup
  <2>3. CASE signal
    BY <1>1, <2>1, <2>2, <2>3 DEF StartGroup
  <2>4. CASE ~signal
    <3>1. at' = "prepare" /\ started' = next + 1
      BY <1>1, <2>4 DEF StartGroup, StartCall
    <3>2. stage' \in [Calls -> Stages]
      BY <1>1, <2>1, <2>4 DEF StartGroup, StartCall
    <3>3. startedAs' \in [Calls -> Modes \cup {"waiting"}]
      BY <1>1, <2>1, <2>4 DEF StartGroup
    <3>4. UNCHANGED <<signal, mode, changes, next, committed, inFlight, slot,
                      failure, invoked>>
      BY <1>1 DEF StartGroup
    <3> QED BY <2>1, <2>2, <3>1, <3>2, <3>3, <3>4
  <2> QED BY <2>3, <2>4
<1>2. ASSUME NEW kind \in Kinds \cup {"dispatch"}, NEW code \in ResultCodes,
             Prepared(kind, code)
      PROVE  TypeInv'
  <2>1. CASE kind = "dispatch"
    <3>0. inFlight' = inFlight \cup {started} /\ started \in Calls
      BY <1>2, <2>1 DEF Prepared
    <3>1. inFlight' \subseteq Calls
      BY <3>0
    <3>2. stage' \in [Calls -> Stages] /\ at' = "enter"
      BY <1>2, <2>1 DEF Prepared
    <3>3. UNCHANGED <<signal, mode, changes, next, group, started, committed,
                   failure, invoked, startedAs, slot>>
      BY <1>2, <2>1 DEF Prepared
    <3> QED BY <3>1, <3>2, <3>3
  <2>2. CASE kind # "dispatch"
    <3>1. kind \in Kinds
      BY <2>2
    <3>2. slot' \in [Calls -> Slots]
      <4>1. [kind |-> kind, code |-> code] \in Slots
        BY <3>1
      <4>2. slot' = [slot EXCEPT ![started] = [kind |-> kind, code |-> code]]
        BY <1>2, <2>2 DEF Prepared, Settles
      <4> QED BY <4>1, <4>2
    <3>3. stage' \in [Calls -> Stages] /\ at' = "enter"
      BY <1>2, <2>2 DEF Prepared, Settles
    <3>4. UNCHANGED <<signal, mode, changes, next, group, started, committed,
                   failure, invoked, startedAs, inFlight>>
      BY <1>2, <2>2 DEF Prepared
    <3> QED BY <3>2, <3>3, <3>4
  <2> QED BY <2>1, <2>2
<1>3. CASE Throws
  BY <1>3 DEF Throws
<1>4. ASSUME NEW i \in Calls, NEW fails \in BOOLEAN, Finalized(i, fails)
      PROVE  TypeInv'
  <2>1. Cancelled(i, slot[i].code) \in ResultCodes
    BY <1>4 DEF Cancelled
  <2> QED BY <1>4, <2>1 DEF Finalized, Commits, Committable
<1>5. CASE StartFinalize
  BY <1>5 DEF StartFinalize
<1>6. ASSUME NEW i \in Calls, CommitFinal(i)
      PROVE  TypeInv'
  BY <1>6 DEF CommitFinal, Commits, Committable
<1>7. ASSUME NEW i \in Calls, Race(i)
      PROVE  TypeInv'
  BY <1>7 DEF Race, Taken
<1>8. CASE CommitsDone
  BY <1>8 DEF CommitsDone
<1>9. CASE FillPool
  <2>1. group' \in [last : 0..NCalls, parallel : BOOLEAN, aborted : BOOLEAN]
    BY <1>9 DEF FillPool
  <2>2. UNCHANGED <<signal, mode, changes, next, committed, inFlight, slot,
                    failure, invoked>>
    BY <1>9 DEF FillPool
  <2>3. CASE StartsAnother
    <3>1. started + 1 \in Calls /\ mode[started + 1] \in Modes
      BY <2>3 DEF StartsAnother
    <3>2. at' = "prepare" /\ started' = started + 1
      BY <1>9, <2>3 DEF FillPool, StartCall
    <3>3. stage' \in [Calls -> Stages]
      BY <1>9, <2>3 DEF FillPool, StartCall
    <3>4. startedAs' \in [Calls -> Modes \cup {"waiting"}]
      BY <1>9, <2>3, <3>1 DEF FillPool
    <3> QED BY <2>1, <2>2, <3>1, <3>2, <3>3, <3>4
  <2>4. CASE ~StartsAnother
    <3>1. at' = "race" /\ UNCHANGED <<log, started, stage, startedAs>>
      BY <1>9, <2>4 DEF FillPool
    <3> QED BY <2>1, <2>2, <3>1
  <2> QED BY <2>3, <2>4
<1>10. CASE EndGroup
  BY <1>10 DEF EndGroup
<1>11. CASE Return
  BY <1>11 DEF Return
<1>12. CASE Fail
  BY <1>12 DEF Fail
<1> HIDE DEF TypeInv
<1> QED
  BY <1>1, <1>2, <1>3, <1>4, <1>5, <1>6, <1>7, <1>8, <1>9, <1>10, <1>11, <1>12
     DEF SchedulerStep

\* The dispatches and the environment keep the types.
LEMMA DispatchType ==
    ASSUME TypeInv, NEW i \in Calls, DispatchStep(i)
    PROVE  TypeInv'
<1> USE DEF TypeInv, TypeOK
<1>1. CASE BodyStarts(i)
  BY <1>1 DEF BodyStarts
<1>2. ASSUME NEW kind \in Kinds,
             NEW code \in ResultCodes,
             WrapperSettles(i, kind, code) \/ BodySettles(i, kind, code)
      PROVE  TypeInv'
  <2>1. Cancelled(i, code) \in ResultCodes
    BY DEF Cancelled
  <2> QED BY <1>2, <2>1 DEF WrapperSettles, BodySettles, Settles
<1>3. CASE DispatchRejects(i)
  BY <1>3 DEF DispatchRejects
<1> HIDE DEF TypeInv
<1> QED BY <1>1, <1>2, <1>3 DEF DispatchStep

LEMMA EnvironmentType ==
    ASSUME TypeInv, Environment
    PROVE  TypeInv'
<1> USE DEF TypeInv, TypeOK
<1>1. CASE Abort
  BY <1>1 DEF Abort
<1>2. ASSUME NEW i \in Calls, Reclassify(i)
      PROVE  TypeInv'
  BY <1>2 DEF Reclassify
<1> QED BY <1>1, <1>2 DEF Environment

LEMMA InitType == Init => TypeInv
<1> SUFFICES ASSUME Init PROVE TypeInv
  OBVIOUS
<1>1. slot \in [Calls -> Slots]
  BY DEF Init
<1>2. group \in [last : 0..NCalls, parallel : BOOLEAN, aborted : BOOLEAN]
  BY CallsFacts DEF Init
<1>3. /\ stage \in [Calls -> Stages]
      /\ startedAs \in [Calls -> Modes \cup {"waiting"}]
  BY DEF Init
<1> QED BY <1>1, <1>2, <1>3, CallsFacts DEF Init, TypeInv, TypeOK

\* Every reachable state has the declared types.
THEOREM TypeCorrect == Spec => []TypeOK
<1>1. TypeInv /\ [Next]_vars => TypeInv'
  <2>1. CASE UNCHANGED vars
    BY <2>1 DEF vars, TypeInv, TypeOK
  <2> QED BY <2>1, SchedulerType, DispatchType, EnvironmentType DEF Next
<1>2. TypeInv => TypeOK
  BY DEF TypeInv
<1> QED BY InitType, <1>1, <1>2, PTL DEF Spec

-----------------------------------------------------------------------------
(* The stages of the calls, the pool and the groups. *)

\* Calls are started and committed in order, a dispatch that runs is in the
\* pool, and a settled call that is not committed has its outcome.
StageInv ==
    /\ committed <= started
    /\ \A i \in Calls : stage[i] = "waiting" <=> i > started
    /\ \A i \in Calls : stage[i] = "preparing" =>
            i = started /\ at \in {"prepare", "drain", "failed"}
    /\ at = "prepare" => stage[started] = "preparing"
    /\ \A i \in Calls : stage[i] \in {"wrapped", "body"} => i \in inFlight
    /\ \A i \in inFlight : stage[i] \in {"wrapped", "body", "settled"}
    /\ \A i \in Calls : slot[i].kind # "empty" => stage[i] = "settled"
    /\ \A i \in Calls : i <= committed => stage[i] = "settled"
    /\ \A i \in Calls : stage[i] = "settled" /\ i > committed =>
            failure \/ slot[i].kind # "empty"

\* The pool is filled only while there is room.
PoolInv ==
    /\ Cardinality(inFlight) <= MaxParallel
    /\ at = "prepare" => Cardinality(inFlight) < MaxParallel

Inside == at \notin {"group", "done", "failed"}

\* A group starts and ends with an empty pool and every started call
\* committed; while its scheduler waits, no outcome that it could commit is
\* older than the dispatches it waits for.
GroupInv ==
    /\ at = "group" => /\ started = next /\ committed = next
                       /\ inFlight = {} /\ ~failure
    /\ at = "done" => inFlight = {}
    /\ at = "failed" => Drained
    /\ at = "race" /\ failure => inFlight # {}
    /\ at \in {"fill", "race"} =>
            \A i \in Calls : i = committed + 1 /\ slot[i].kind # "empty" =>
                i \in inFlight
    /\ Inside => started <= group.last /\ next <= committed

\* An exclusive call that is not committed is the only one; a parallel group
\* starts no exclusive call.
BarrierInv ==
    /\ \A i \in Calls : /\ startedAs[i] = "exclusive"
                        /\ committed < i /\ i <= started
                        => started = i /\ committed + 1 = i
    /\ Inside /\ group.parallel =>
            \A i \in Calls : next < i /\ i <= started =>
                startedAs[i] # "exclusive"

SchedulerInv == TypeInv /\ StageInv /\ PoolInv /\ GroupInv /\ BarrierInv

\* fillPool starts the next call, a parallel one, or leaves the pool alone.
FillEffect ==
    /\ at = "fill" /\ ~failure
    /\ group'.last = group.last /\ group'.parallel = group.parallel
    /\ UNCHANGED <<next, committed, inFlight, slot, failure>>
    /\ \/ /\ StartsAnother
          /\ started' = started + 1 /\ at' = "prepare"
          /\ log' = log \o CallEvents(started + 1)
          /\ stage' = [stage EXCEPT ![started + 1] = "preparing"]
          /\ startedAs' = [startedAs EXCEPT ![started + 1] = "parallel"]
       \/ /\ at' = "race"
          /\ UNCHANGED <<log, started, stage, startedAs>>

LEMMA FillFacts ==
    ASSUME TypeInv, FillPool
    PROVE  FillEffect
<1> USE DEF FillEffect
<1>1. CASE StartsAnother
  BY <1>1 DEF FillPool, StartCall, StartsAnother, Joins, TypeInv, TypeOK
<1>2. CASE ~StartsAnother
  BY <1>2 DEF FillPool, TypeInv, TypeOK
<1> QED BY <1>1, <1>2

\* A dispatch settles with some outcome.
SettleEffect(i) ==
    /\ stage[i] \in {"wrapped", "body"}
    /\ stage' = [stage EXCEPT ![i] = "settled"]
    /\ \E kind \in Kinds, c \in ResultCodes :
          slot' = [slot EXCEPT ![i] = [kind |-> kind, code |-> c]]
    /\ UNCHANGED <<log, at, next, group, started, committed, inFlight,
                   failure, startedAs>>

LEMMA SettleFacts ==
    ASSUME NEW i \in Calls, NEW kind \in Kinds, NEW code \in ResultCodes,
           WrapperSettles(i, kind, code) \/ BodySettles(i, kind, code)
    PROVE  SettleEffect(i)
<1> USE DEF SettleEffect
<1>1. Cancelled(i, code) \in ResultCodes
  BY DEF Cancelled
<1> QED BY <1>1 DEF WrapperSettles, BodySettles, Settles

\* A result, final or finalized, is committed.
CommitEffect(i) ==
    /\ Committing \/ at = "finalize"
    /\ i = committed + 1 /\ i <= group.last /\ slot[i].kind # "empty"
    /\ \E code \in ResultCodes :
          log' = Append(log, ToolResult(1, 1, i, code))
    /\ at' = "commit" /\ committed' = i
    /\ slot' = [slot EXCEPT ![i] = EmptySlot]
    /\ UNCHANGED <<next, group, started, inFlight, stage, failure,
                   startedAs>>

LEMMA CommitFacts ==
    ASSUME TypeInv, NEW i \in Calls,
           CommitFinal(i) \/ \E fails \in BOOLEAN : Finalized(i, fails)
    PROVE  CommitEffect(i)
<1> USE DEF CommitEffect
<1>1. slot[i].code \in ResultCodes
  BY DEF TypeInv, TypeOK
<1>2. CASE CommitFinal(i)
  BY <1>1, <1>2 DEF CommitFinal, Commits, Committable
<1>3. ASSUME NEW fails \in BOOLEAN, Finalized(i, fails)
      PROVE  \E code \in ResultCodes :
                /\ log' = Append(log, ToolResult(1, 1, i, code))
  <2>1. (IF fails THEN "ERROR" ELSE Cancelled(i, slot[i].code)) \in ResultCodes
    BY <1>1 DEF Cancelled
  <2> QED BY <1>3, <2>1 DEF Finalized, Commits
<1>4. ASSUME NEW fails \in BOOLEAN, Finalized(i, fails)
      PROVE  /\ at = "finalize"
             /\ i = committed + 1 /\ i <= group.last /\ slot[i].kind # "empty"
             /\ at' = "commit" /\ committed' = committed + 1
             /\ slot' = [slot EXCEPT ![i] = EmptySlot]
             /\ UNCHANGED <<next, group, started, inFlight, stage, failure,
                            startedAs>>
  BY <1>4 DEF Finalized, Commits, Committable
<1> QED BY <1>2, <1>3, <1>4

\* Every step keeps the stages in order.
LEMMA StageInvKept ==
    ASSUME SchedulerInv, TypeInv', Next
    PROVE  StageInv'
<1> USE CallsFacts DEF SchedulerInv, StageInv, GroupInv, TypeInv, TypeOK, Calls,
           Inside
<1>1. CASE StartGroup
  BY <1>1 DEF StartGroup, StartCall
<1>2. CASE Throws
  BY <1>2 DEF Throws
<1>3. CASE StartFinalize
  BY <1>3 DEF StartFinalize, Committing
<1>4. CASE CommitsDone
  BY <1>4 DEF CommitsDone, Committing, Committable
<1>5. CASE FillPool
  <2>1. FillEffect
    BY <1>5, FillFacts
  <2> QED BY <2>1 DEF StartsAnother, Joins, FillEffect
<1>6. CASE EndGroup
  BY <1>6 DEF EndGroup
<1>7. CASE Return
  BY <1>7 DEF Return
<1>8. CASE Fail
  BY <1>8 DEF Fail, Drained
<1>9. CASE Abort
  BY <1>9 DEF Abort
<1>10. ASSUME NEW kind \in Kinds \cup {"dispatch"}, NEW code \in ResultCodes,
             Prepared(kind, code)
      PROVE  StageInv'
  <2>1. /\ at = "prepare" /\ at' = "enter" /\ ~failure
        /\ UNCHANGED <<next, group, started, committed, failure, startedAs>>
    BY <1>10 DEF Prepared
  <2>2. CASE kind = "dispatch"
    <3>1. /\ inFlight' = inFlight \cup {started}
          /\ stage' = [stage EXCEPT ![started] = "wrapped"]
          /\ slot' = slot
      BY <1>10, <2>2 DEF Prepared
    <3> QED BY <2>1, <3>1
  <2>3. CASE kind # "dispatch"
    <3>1. /\ inFlight' = inFlight
          /\ stage' = [stage EXCEPT ![started] = "settled"]
          /\ slot' = [slot EXCEPT ![started] = [kind |-> kind, code |-> code]]
      BY <1>10, <2>3 DEF Prepared, Settles
    <3> QED BY <2>1, <2>3, <3>1
  <2> QED BY <2>2, <2>3
<1>11. ASSUME NEW i \in Calls, Race(i)
      PROVE  StageInv'
  BY <1>11 DEF Race, Taken
<1>12. ASSUME NEW i \in Calls, BodyStarts(i)
      PROVE  StageInv'
  BY <1>12 DEF BodyStarts
<1>13. ASSUME NEW i \in Calls, DispatchRejects(i)
      PROVE  StageInv'
  BY <1>13 DEF DispatchRejects
<1>14. ASSUME NEW i \in Calls, Reclassify(i)
      PROVE  StageInv'
  BY <1>14 DEF Reclassify
<1>15. ASSUME NEW i \in Calls, CommitFinal(i) \/ \E fails \in BOOLEAN :
                                               Finalized(i, fails)
      PROVE  StageInv'
  <2>1. CommitEffect(i)
    BY <1>15, CommitFacts
  <2> QED BY <2>1 DEF Committing, CommitEffect
<1>16. ASSUME NEW i \in Calls, NEW kind \in Kinds,
             NEW code \in ResultCodes,
             WrapperSettles(i, kind, code) \/ BodySettles(i, kind, code)
      PROVE  StageInv'
  <2>1. SettleEffect(i)
    BY <1>16, SettleFacts
  <2> QED BY <2>1 DEF SettleEffect
<1> HIDE DEF StageInv
<1>17. CASE SchedulerStep
  BY <1>1, <1>2, <1>3, <1>4, <1>5, <1>6, <1>7, <1>8, <1>10, <1>11, <1>15, <1>17
     DEF SchedulerStep
<1>18. CASE Environment
  BY <1>9, <1>14, <1>18 DEF Environment
<1>19. ASSUME NEW i \in Calls, DispatchStep(i)
      PROVE  StageInv'
  BY <1>12, <1>13, <1>16, <1>19 DEF DispatchStep
<1> QED BY <1>17, <1>18, <1>19 DEF Next

\* Every step keeps the groups apart.
LEMMA GroupInvKept ==
    ASSUME SchedulerInv, TypeInv', Next
    PROVE  GroupInv'
<1> USE CallsFacts DEF SchedulerInv, StageInv, GroupInv, TypeInv, TypeOK, Calls,
           Inside, Drained
<1>1. CASE StartGroup
  BY <1>1 DEF StartGroup, StartCall
<1>2. CASE Throws
  BY <1>2 DEF Throws
<1>3. CASE StartFinalize
  BY <1>3 DEF StartFinalize, Committing
<1>4. CASE CommitsDone
  BY <1>4 DEF CommitsDone, Committing, Committable
<1>5. CASE FillPool
  <2>1. FillEffect
    BY <1>5, FillFacts
  <2> QED BY <2>1 DEF StartsAnother, Joins, FillEffect
<1>6. CASE EndGroup
  BY <1>6 DEF EndGroup
<1>7. CASE Return
  BY <1>7 DEF Return
<1>8. CASE Fail
  BY <1>8 DEF Fail, Drained
<1>9. CASE Abort
  BY <1>9 DEF Abort
<1>10. ASSUME NEW kind \in Kinds \cup {"dispatch"}, NEW code \in ResultCodes,
             Prepared(kind, code)
      PROVE  GroupInv'
  <2>1. /\ at = "prepare" /\ at' = "enter" /\ ~failure
        /\ UNCHANGED <<next, group, started, committed, failure, startedAs>>
    BY <1>10 DEF Prepared
  <2>2. CASE kind = "dispatch"
    <3>1. /\ inFlight' = inFlight \cup {started}
          /\ stage' = [stage EXCEPT ![started] = "wrapped"]
          /\ slot' = slot
      BY <1>10, <2>2 DEF Prepared
    <3> QED BY <2>1, <3>1
  <2>3. CASE kind # "dispatch"
    <3>1. /\ inFlight' = inFlight
          /\ stage' = [stage EXCEPT ![started] = "settled"]
          /\ slot' = [slot EXCEPT ![started] = [kind |-> kind, code |-> code]]
      BY <1>10, <2>3 DEF Prepared, Settles
    <3> QED BY <2>1, <2>3, <3>1
  <2> QED BY <2>2, <2>3
<1>11. ASSUME NEW i \in Calls, Race(i)
      PROVE  GroupInv'
  BY <1>11 DEF Race, Taken
<1>12. ASSUME NEW i \in Calls, BodyStarts(i)
      PROVE  GroupInv'
  BY <1>12 DEF BodyStarts
<1>13. ASSUME NEW i \in Calls, DispatchRejects(i)
      PROVE  GroupInv'
  BY <1>13 DEF DispatchRejects
<1>14. ASSUME NEW i \in Calls, Reclassify(i)
      PROVE  GroupInv'
  BY <1>14 DEF Reclassify
<1>15. ASSUME NEW i \in Calls, CommitFinal(i) \/ \E fails \in BOOLEAN :
                                               Finalized(i, fails)
      PROVE  GroupInv'
  <2>1. CommitEffect(i)
    BY <1>15, CommitFacts
  <2> QED BY <2>1 DEF Committing, CommitEffect
<1>16. ASSUME NEW i \in Calls, NEW kind \in Kinds,
             NEW code \in ResultCodes,
             WrapperSettles(i, kind, code) \/ BodySettles(i, kind, code)
      PROVE  GroupInv'
  <2>1. SettleEffect(i)
    BY <1>16, SettleFacts
  <2>2. /\ i \in inFlight /\ at # "group" /\ at # "done" /\ at # "failed"
        /\ UNCHANGED <<at, next, group, started, committed, inFlight, failure>>
    BY <2>1 DEF SettleEffect, Drained
  <2>3. \A j \in Calls : j # i => slot'[j] = slot[j]
    BY <2>1 DEF SettleEffect
  <2>4. \A j \in Calls :
            (j = committed' + 1 /\ slot'[j].kind # "empty") =>
              (at' \in {"fill", "race"} => j \in inFlight')
    BY <2>2, <2>3
  <2>. QED
    BY <2>2, <2>4
<1>. HIDE DEF GroupInv
<1>17. CASE SchedulerStep
  BY <1>1, <1>2, <1>3, <1>4, <1>5, <1>6, <1>7, <1>8, <1>10, <1>11, <1>15, <1>17
     DEF SchedulerStep
<1>18. CASE Environment
  BY <1>9, <1>14, <1>18 DEF Environment
<1>19. ASSUME NEW i \in Calls, DispatchStep(i)
      PROVE  GroupInv'
  BY <1>12, <1>13, <1>16, <1>19 DEF DispatchStep
<1> QED BY <1>17, <1>18, <1>19 DEF Next

\* Every step keeps the barrier.
LEMMA BarrierInvKept ==
    ASSUME SchedulerInv, TypeInv', Next
    PROVE  BarrierInv'
<1> USE CallsFacts DEF SchedulerInv, StageInv, GroupInv, TypeInv, TypeOK, Calls,
           Inside, BarrierInv
<1>1. CASE StartGroup
  BY <1>1 DEF StartGroup, StartCall
<1>2. CASE Throws
  BY <1>2 DEF Throws
<1>3. CASE StartFinalize
  BY <1>3 DEF StartFinalize, Committing
<1>4. CASE CommitsDone
  BY <1>4 DEF CommitsDone, Committing, Committable
<1>5. CASE FillPool
  <2>1. FillEffect
    BY <1>5, FillFacts
  <2> QED BY <2>1 DEF StartsAnother, Joins, FillEffect
<1>6. CASE EndGroup
  BY <1>6 DEF EndGroup
<1>7. CASE Return
  BY <1>7 DEF Return
<1>8. CASE Fail
  BY <1>8 DEF Fail, Drained
<1>9. CASE Abort
  BY <1>9 DEF Abort
<1>10. ASSUME NEW kind \in Kinds \cup {"dispatch"}, NEW code \in ResultCodes,
             Prepared(kind, code)
      PROVE  BarrierInv'
  <2>1. /\ at = "prepare" /\ at' = "enter" /\ ~failure
        /\ UNCHANGED <<next, group, started, committed, failure, startedAs>>
    BY <1>10 DEF Prepared
  <2>2. CASE kind = "dispatch"
    <3>1. /\ inFlight' = inFlight \cup {started}
          /\ stage' = [stage EXCEPT ![started] = "wrapped"]
          /\ slot' = slot
      BY <1>10, <2>2 DEF Prepared
    <3> QED BY <2>1, <3>1
  <2>3. CASE kind # "dispatch"
    <3>1. /\ inFlight' = inFlight
          /\ stage' = [stage EXCEPT ![started] = "settled"]
          /\ slot' = [slot EXCEPT ![started] = [kind |-> kind, code |-> code]]
      BY <1>10, <2>3 DEF Prepared, Settles
    <3> QED BY <2>1, <2>3, <3>1
  <2> QED BY <2>2, <2>3
<1>11. ASSUME NEW i \in Calls, Race(i)
      PROVE  BarrierInv'
  BY <1>11 DEF Race, Taken
<1>12. ASSUME NEW i \in Calls, BodyStarts(i)
      PROVE  BarrierInv'
  BY <1>12 DEF BodyStarts
<1>13. ASSUME NEW i \in Calls, DispatchRejects(i)
      PROVE  BarrierInv'
  BY <1>13 DEF DispatchRejects
<1>14. ASSUME NEW i \in Calls, Reclassify(i)
      PROVE  BarrierInv'
  BY <1>14 DEF Reclassify
<1>15. ASSUME NEW i \in Calls, CommitFinal(i) \/ \E fails \in BOOLEAN :
                                               Finalized(i, fails)
      PROVE  BarrierInv'
  <2>1. CommitEffect(i)
    BY <1>15, CommitFacts
  <2> QED BY <2>1 DEF Committing, CommitEffect
<1>16. ASSUME NEW i \in Calls, NEW kind \in Kinds,
             NEW code \in ResultCodes,
             WrapperSettles(i, kind, code) \/ BodySettles(i, kind, code)
      PROVE  BarrierInv'
  <2>1. SettleEffect(i)
    BY <1>16, SettleFacts
  <2> QED BY <2>1 DEF SettleEffect
<1> HIDE DEF BarrierInv
<1>17. CASE SchedulerStep
  BY <1>1, <1>2, <1>3, <1>4, <1>5, <1>6, <1>7, <1>8, <1>10, <1>11, <1>15, <1>17
     DEF SchedulerStep
<1>18. CASE Environment
  BY <1>9, <1>14, <1>18 DEF Environment
<1>19. ASSUME NEW i \in Calls, DispatchStep(i)
      PROVE  BarrierInv'
  BY <1>12, <1>13, <1>16, <1>19 DEF DispatchStep
<1> QED BY <1>17, <1>18, <1>19 DEF Next


\* The pool grows only by a call that was started while there was room.
LEMMA PoolInvKept ==
    ASSUME SchedulerInv, TypeInv', Next
    PROVE  PoolInv'
<1> USE CallsFacts DEF SchedulerInv, PoolInv, GroupInv
<1>f. IsFiniteSet(inFlight) /\ Cardinality(inFlight) \in Nat
  BY FS_Subset, FS_CardinalityType DEF TypeInv, TypeOK
<1>1. CASE StartGroup
  <2>1. Cardinality(inFlight) = 0
    BY <1>1, FS_EmptySet DEF StartGroup
  <2> QED BY <1>1, <2>1 DEF StartGroup
<1>2. ASSUME NEW kind \in Kinds \cup {"dispatch"}, NEW code \in ResultCodes,
             Prepared(kind, code)
      PROVE  PoolInv'
  <2>1. /\ at = "prepare" /\ at' # "prepare"
        /\ inFlight' = inFlight \/ inFlight' = inFlight \cup {started}
    BY <1>2 DEF Prepared
  <2>2. Cardinality(inFlight \cup {started}) <= Cardinality(inFlight) + 1
    BY <1>f, FS_AddElement
  <2>3. Cardinality(inFlight') <= Cardinality(inFlight) + 1
    BY <1>f, <2>1, <2>2
  <2>4. Cardinality(inFlight') \in Nat
    BY <1>f, <2>1, FS_AddElement, FS_CardinalityType
  <2> QED BY <1>f, <2>1, <2>3, <2>4
<1>3. ASSUME NEW i \in Calls, Race(i)
      PROVE  PoolInv'
  <2>1. inFlight' = inFlight \ {i} /\ at' # "prepare"
    BY <1>3 DEF Race, Taken
  <2>2. /\ Cardinality(inFlight \ {i}) <= Cardinality(inFlight)
        /\ Cardinality(inFlight \ {i}) \in Nat
    <3>1. inFlight \ {i} \subseteq inFlight
      OBVIOUS
    <3> QED BY <3>1, <1>f, FS_Subset, FS_CardinalityType
  <2> QED BY <1>f, <2>1, <2>2
<1>4. CASE FillPool
  <2>1. FillEffect
    BY <1>4, FillFacts
  <2> QED BY <2>1 DEF FillEffect, StartsAnother, Room
<1>5. ASSUME UNCHANGED inFlight, at' # "prepare" \/ UNCHANGED at
      PROVE  PoolInv'
  BY <1>5
<1>6. ASSUME NEW i \in Calls, DispatchStep(i) \/ CommitFinal(i)
              \/ \E fails \in BOOLEAN : Finalized(i, fails)
      PROVE  PoolInv'
  BY <1>5, <1>6 DEF DispatchStep, BodyStarts, WrapperSettles, BodySettles,
     DispatchRejects, CommitFinal, Finalized, Commits
<1>7. CASE \/ Throws \/ StartFinalize \/ CommitsDone \/ EndGroup \/ Return
           \/ Fail \/ Environment
  BY <1>5, <1>7 DEF Throws, StartFinalize, CommitsDone, EndGroup, Return, Fail,
     Environment, Abort, Reclassify
<1> QED
  BY <1>1, <1>2, <1>3, <1>4, <1>6, <1>7 DEF Next, SchedulerStep

LEMMA SchedulerInvInit == Init => SchedulerInv
<1> SUFFICES ASSUME Init PROVE SchedulerInv
  OBVIOUS
<1>1. TypeInv
  BY InitType
<1>2. StageInv /\ BarrierInv
  BY CallsFacts DEF Init, StageInv, BarrierInv, Calls, Inside
<1>3. PoolInv
  BY CallsFacts, FS_EmptySet DEF Init, PoolInv
<1>4. GroupInv
  BY DEF Init, GroupInv, Inside
<1> QED BY <1>1, <1>2, <1>3, <1>4 DEF SchedulerInv

LEMMA SchedulerInvKept == SchedulerInv /\ [Next]_vars => SchedulerInv'
<1>1. ASSUME SchedulerInv, UNCHANGED vars
      PROVE  SchedulerInv'
  BY <1>1 DEF vars, SchedulerInv, TypeInv, TypeOK, StageInv, PoolInv, GroupInv,
     BarrierInv, Inside, Drained
<1>2. ASSUME SchedulerInv, Next
      PROVE  SchedulerInv'
  <2>1. TypeInv'
    BY <1>2, SchedulerType, DispatchType, EnvironmentType
       DEF SchedulerInv, Next
  <2> QED
    BY <1>2, <2>1, StageInvKept, PoolInvKept, GroupInvKept, BarrierInvKept
       DEF SchedulerInv
<1> QED BY <1>1, <1>2

\* Stages, pool, groups and barriers are as the scheduler relies on them.
THEOREM SchedulerInvariant == Spec => []SchedulerInv
BY SchedulerInvInit, SchedulerInvKept, PTL DEF Spec

\* A call started as exclusive is alone from its start to its result.
THEOREM ExclusiveIsAlone == Spec => []ExclusiveAlone
<1>1. SchedulerInv => ExclusiveAlone
  BY CallsFacts DEF SchedulerInv, StageInv, BarrierInv, TypeInv, TypeOK,
     ExclusiveAlone, Active, Calls
<1> QED BY <1>1, SchedulerInvariant, PTL

\* The dispatches that run are at most MaxParallel.
THEOREM PoolIsBounded == Spec => []PoolBounded
<1>1. SchedulerInv => PoolBounded
  <2> SUFFICES ASSUME SchedulerInv PROVE PoolBounded
    OBVIOUS
  <2> DEFINE running == {i \in Calls : stage[i] \in {"wrapped", "body"}}
  <2>1. IsFiniteSet(inFlight) /\ Cardinality(inFlight) <= MaxParallel
    BY CallsFacts, FS_Subset DEF SchedulerInv, PoolInv, TypeInv, TypeOK
  <2>2. running \subseteq inFlight
    BY DEF SchedulerInv, StageInv
  <2>3. /\ Cardinality(running) <= Cardinality(inFlight)
        /\ Cardinality(running) \in Nat /\ Cardinality(inFlight) \in Nat
    BY <2>1, <2>2, FS_Subset, FS_CardinalityType
  <2> QED BY <2>1, <2>3, CallsFacts DEF PoolBounded
<1> QED BY <1>1, SchedulerInvariant, PTL

-----------------------------------------------------------------------------
(* The log. *)

CallTypes == {"tool/call", "tool/result"}

Events ==
    {TurnStart(1), StepStart(1, 1), AssistantMessage(1, 1, [i \in Calls |-> i])}
    \cup {ToolCall(1, 1, i) : i \in Calls}
    \cup {ToolResult(1, 1, i, code) : i \in Calls, code \in ResultCodes}

\* The calls of the log with an event of this type.
Logged(events, type) == CallsBefore(events, type, Len(events) + 1)

\* How many calls have one: a step that returned has one for every call.
Reached(type) == IF at = "done" THEN NCalls
                 ELSE IF type = "tool/call" THEN started ELSE committed

LogInv ==
    /\ log \in Seq(Events)
    /\ \A type \in CallTypes :
          InOrder(log, type) /\ Logged(log, type) = 1..Reached(type)

\* Extending a log changes nothing before its end.
LEMMA PrefixKept ==
    ASSUME NEW len \in Nat, NEW old, NEW new, NEW type,
           \A l \in 1..len : new[l] = old[l],
           NEW k \in 1..len + 1
    PROVE  CallsBefore(new, type, k) = CallsBefore(old, type, k)
BY DEF CallsBefore

\* The next call is recorded: the order is kept, and one call more is logged.
LEMMA AppendInOrder ==
    ASSUME NEW events \in Seq(Events), NEW e \in Events,
           NEW type \in CallTypes, NEW n \in Nat,
           InOrder(events, type), Logged(events, type) = 1..n,
           e.type = type => e.call = n + 1
    PROVE  LET new == Append(events, e)
           IN  /\ new \in Seq(Events)
               /\ InOrder(new, type)
               /\ Logged(new, type) = 1..(IF e.type = type THEN n + 1 ELSE n)
<1> DEFINE new == Append(events, e)
           len == Len(events)
<1>1. /\ len \in Nat /\ Len(new) = len + 1
      /\ new \in Seq(Events)
      /\ \A k \in 1..len : new[k] = events[k]
      /\ new[len + 1] = e
  OBVIOUS
<1> HIDE DEF new, len
<1>2. \A k \in 1..len + 1 : CallsBefore(new, type, k)
                               = CallsBefore(events, type, k)
  BY <1>1, PrefixKept, SMTT(30)
<1>3. CallsBefore(new, type, len + 1) = 1..n
  BY <1>1, <1>2 DEF Logged, len
<1>4. InOrder(new, type)
  <2> SUFFICES ASSUME NEW k \in 1..len + 1, new[k].type = type
               PROVE  CallsBefore(new, type, k) = 1..new[k].call - 1
    BY <1>1 DEF InOrder
  <2>1. CASE k \in 1..len
    BY <1>1, <1>2, <2>1 DEF InOrder, len
  <2>2. CASE k = len + 1
    BY <1>1, <1>3, <2>2
  <2> QED BY <2>1, <2>2, <1>1
<1>5. Logged(new, type) = 1..(IF e.type = type THEN n + 1 ELSE n)
  <2>1. Logged(new, type) = (1..n) \cup (IF e.type = type THEN {e.call} ELSE {})
    BY <1>1, <1>3 DEF Logged, CallsBefore
  <2>2. CASE e.type = type
    BY <2>1, <2>2
  <2>3. CASE e.type # type
    BY <2>1, <2>3
  <2> QED BY <2>2, <2>3
<1> QED BY <1>1, <1>4, <1>5 DEF new

\* Between the events of another type, every second position from len on
\* holds an event of this type, for the calls n + 1, n + 2 and so on.
EverySecond(new, type, len, n, m, d) ==
    /\ \A i \in 1..m : /\ new[len + 2 * i - d].type = type
                       /\ new[len + 2 * i - d].call = n + i
    /\ \A l \in len + 1..len + 2 * m : new[l].type = type =>
          \E i \in 1..m : l = len + 2 * i - d

\* j - 1 of these positions are before k.
Ranks(k, j, len, m, d) == \A i \in 1..m : len + 2 * i - d < k <=> i < j

LEMMA CallsBeforeSecond ==
    ASSUME NEW len \in Nat, NEW n \in Nat, NEW m \in Nat, NEW d \in {0, 1},
           NEW new, NEW type, EverySecond(new, type, len, n, m, d),
           CallsBefore(new, type, len + 1) = 1..n,
           NEW k \in len + 1..len + 2 * m + 1, NEW j \in 1..m + 1,
           Ranks(k, j, len, m, d)
    PROVE  CallsBefore(new, type, k) = 1..n + j - 1
<1> USE DEF Ranks
<1>1. ASSUME NEW l \in 1..k - 1, new[l].type = type
      PROVE  new[l].call \in 1..n + j - 1
  <2>1. CASE l <= len
    <3>1. new[l].call \in 1..n
      BY <1>1, <2>1 DEF CallsBefore
    <3> QED BY <3>1, SMTT(30)
  <2>2. CASE l > len
    <3>1. l \in len + 1..len + 2 * m
      BY <2>2
    <3>2. PICK i \in 1..m : l = len + 2 * i - d
      BY <1>1, <3>1 DEF EverySecond
    <3>3. i < j /\ new[l].call = n + i
      BY <3>2 DEF EverySecond
    <3> QED BY <3>3
  <2> QED BY <2>1, <2>2
<1>2. ASSUME NEW c \in 1..n + j - 1
      PROVE  \E l \in 1..k - 1 : new[l].type = type /\ new[l].call = c
  <2>1. CASE c <= n
    <3>1. c \in CallsBefore(new, type, len + 1)
      BY <2>1
    <3>2. PICK l \in 1..len : new[l].type = type /\ new[l].call = c
      BY <3>1 DEF CallsBefore
    <3> QED BY <3>2
  <2>2. CASE c > n
    <3>1. c - n \in 1..m /\ n + (c - n) = c /\ c - n < j
      BY <2>2
    <3>2. PICK i \in 1..m : n + i = c /\ i < j
      BY <3>1
    <3>3. len + 2 * i - d \in 1..k - 1
      BY <3>2
    <3> QED BY <3>2, <3>3 DEF EverySecond
  <2> QED BY <2>1, <2>2
<1> QED BY <1>1, <1>2 DEF CallsBefore

OrderedUpTo(len, new, type) ==
    \A k \in 1..len : new[k].type = type =>
        CallsBefore(new, type, k) = 1..new[k].call - 1

LEMMA SecondInOrder ==
    ASSUME NEW len \in Nat, NEW n \in Nat, NEW m \in Nat, NEW d \in {0, 1},
           NEW new, NEW type, EverySecond(new, type, len, n, m, d),
           CallsBefore(new, type, len + 1) = 1..n,
           Len(new) = len + 2 * m, OrderedUpTo(len, new, type)
    PROVE  InOrder(new, type) /\ Logged(new, type) = 1..n + m
<1>1. ASSUME NEW k \in 1..len + 2 * m, new[k].type = type
      PROVE  CallsBefore(new, type, k) = 1..new[k].call - 1
  <2>1. CASE k <= len
    BY <1>1, <2>1 DEF OrderedUpTo
  <2>2. CASE k > len
    <3>1. k \in len + 1..len + 2 * m
      BY <2>2
    <3>2. PICK j \in 1..m : k = len + 2 * j - d
      BY <1>1, <3>1 DEF EverySecond
    <3>3. k \in len + 1..len + 2 * m + 1 /\ j \in 1..m + 1
      BY <3>1
    <3>4. Ranks(k, j, len, m, d)
      BY <3>2 DEF Ranks
    <3>5. CallsBefore(new, type, k) = 1..n + j - 1
      BY <3>3, <3>4, CallsBeforeSecond
    <3> QED BY <3>2, <3>5 DEF EverySecond
  <2> QED BY <2>1, <2>2
<1>2. CallsBefore(new, type, len + 2 * m + 1) = 1..n + (m + 1) - 1
  <2>1. Ranks(len + 2 * m + 1, m + 1, len, m, d)
    BY DEF Ranks
  <2>2. len + 2 * m + 1 \in len + 1..len + 2 * m + 1 /\ m + 1 \in 1..m + 1
    OBVIOUS
  <2> QED BY <2>1, <2>2, CallsBeforeSecond, SMTT(30)
<1> QED BY <1>1, <1>2 DEF InOrder, Logged

LEMMA Parity ==
    ASSUME NEW k \in Nat
    PROVE  \E q \in Nat : \/ k = 2 * q /\ k % 2 = 0
                          \/ k = 2 * q + 1 /\ k % 2 = 1
<1>1. k \div 2 \in Nat /\ k % 2 \in 0..1 /\ k = 2 * (k \div 2) + (k % 2)
  OBVIOUS
<1> QED BY <1>1

LEMMA Concatenation ==
    ASSUME NEW E, NEW s \in Seq(E), NEW t \in Seq(E)
    PROVE  /\ s \o t \in Seq(E) /\ Len(s \o t) = Len(s) + Len(t)
           /\ \A k \in 1..Len(s) : (s \o t)[k] = s[k]
           /\ \A k \in 1..Len(t) : (s \o t)[Len(s) + k] = t[k]
<1>1. s \o t \in Seq(E) /\ Len(s \o t) = Len(s) + Len(t)
  OBVIOUS
<1>2. \A k \in 1..Len(s) : (s \o t)[k] = s[k]
  OBVIOUS
<1>3. \A k \in 1..Len(t) : (s \o t)[Len(s) + k] = t[k]
  OBVIOUS
<1> QED BY <1>1, <1>2, <1>3

\* The tail that answers the skipped calls n + 1..n + m.
SkippedTail(n, m) ==
    [k \in 1..2 * m |->
        IF k % 2 = 1 THEN ToolCall(1, 1, n + (k + 1) \div 2)
        ELSE ToolResult(1, 1, n + (k + 1) \div 2,
                        "TOOL_ABORTED_BEFORE_DISPATCH")]

LEMMA SkippedTailType ==
    ASSUME NEW n \in Nat, NEW m \in Nat, n + m = NCalls
    PROVE  SkippedTail(n, m) \in Seq(Events) /\ Len(SkippedTail(n, m)) = 2 * m
<1>1. \A k \in 1..2 * m : n + (k + 1) \div 2 \in Calls
  BY DEF Calls
<1>2. \A k \in 1..2 * m : SkippedTail(n, m)[k] \in Events
  BY <1>1 DEF SkippedTail, Events
<1> QED BY <1>2 DEF SkippedTail

LEMMA SkippedTailAt ==
    ASSUME NEW n \in Nat, NEW m \in Nat, NEW i \in 1..m
    PROVE  /\ SkippedTail(n, m)[2 * i - 1] = ToolCall(1, 1, n + i)
           /\ SkippedTail(n, m)[2 * i] =
                 ToolResult(1, 1, n + i, "TOOL_ABORTED_BEFORE_DISPATCH")
<1>1. /\ 2 * i - 1 \in 1..2 * m /\ (2 * i - 1) % 2 = 1
      /\ (2 * i - 1 + 1) \div 2 = i
  OBVIOUS
<1>2. 2 * i \in 1..2 * m /\ (2 * i) % 2 = 0 /\ (2 * i + 1) \div 2 = i
  OBVIOUS
<1> QED BY <1>1, <1>2 DEF SkippedTail

LEMMA SkippedTailSecond ==
    ASSUME NEW events \in Seq(Events), NEW type \in CallTypes,
           NEW n \in Nat, NEW m \in Nat, n + m = NCalls
    PROVE  EverySecond(events \o SkippedTail(n, m), type, Len(events), n, m,
                       IF type = "tool/call" THEN 1 ELSE 0)
<1> DEFINE tail == SkippedTail(n, m)
           new == events \o tail
           len == Len(events)
<1>1. /\ len \in Nat /\ tail \in Seq(Events) /\ Len(tail) = 2 * m
      /\ \A i \in 1..m : /\ tail[2 * i - 1] = ToolCall(1, 1, n + i)
                         /\ tail[2 * i] =
                               ToolResult(1, 1, n + i,
                                          "TOOL_ABORTED_BEFORE_DISPATCH")
  BY SkippedTailType, SkippedTailAt
<1> HIDE DEF tail
<1>2. \A k \in 1..2 * m : new[len + k] = tail[k]
  BY <1>1, Concatenation
<1> HIDE DEF new, len
<1>3. ASSUME NEW i \in 1..m
      PROVE  /\ new[len + 2 * i - 1].type = "tool/call"
             /\ new[len + 2 * i - 1].call = n + i
             /\ new[len + 2 * i].type = "tool/result"
             /\ new[len + 2 * i].call = n + i
  <2>1. /\ 2 * i - 1 \in 1..2 * m /\ 2 * i \in 1..2 * m
        /\ len + 2 * i - 1 = len + (2 * i - 1)
    BY <1>1
  <2>2. /\ new[len + 2 * i - 1] = tail[2 * i - 1]
        /\ new[len + 2 * i] = tail[2 * i]
    BY <1>2, <2>1
  <2>3. /\ tail[2 * i - 1] = ToolCall(1, 1, n + i)
        /\ tail[2 * i] = ToolResult(1, 1, n + i, "TOOL_ABORTED_BEFORE_DISPATCH")
    BY <1>1
  <2> QED BY <2>2, <2>3 DEF ToolCall, ToolResult
<1>4. ASSUME NEW l \in len + 1..len + 2 * m
      PROVE  \E i \in 1..m : l = len + 2 * i - 1 \/ l = len + 2 * i
  <2>1. PICK k \in Nat : k = l - len /\ k \in 1..2 * m
    BY <1>1
  <2>2. PICK q \in Nat : k = 2 * q \/ k = 2 * q + 1
    BY Parity
  <2>3. CASE k = 2 * q
    BY <1>1, <2>1, <2>3, SMTT(30)
  <2>4. CASE k = 2 * q + 1
    <3>1. q + 1 \in 1..m /\ l = len + 2 * (q + 1) - 1
      BY <1>1, <2>1, <2>4
    <3> QED BY <3>1
  <2> QED BY <2>2, <2>3, <2>4
<1>5. EverySecond(new, "tool/call", len, n, m, 1)
  BY <1>1, <1>3, <1>4 DEF EverySecond
<1>6. EverySecond(new, "tool/result", len, n, m, 0)
  <2>1. \A i \in 1..m : len + 2 * i - 0 = len + 2 * i
    BY <1>1
  <2> QED BY <1>3, <1>4, <2>1 DEF EverySecond
<1> QED BY <1>5, <1>6 DEF CallTypes, new, len, tail

\* The skipped calls are recorded and answered: the order is kept, and every
\* call is logged.
LEMMA SkipInOrder ==
    ASSUME NEW events \in Seq(Events), started \in 0..NCalls,
           NEW type \in CallTypes,
           InOrder(events, type), Logged(events, type) = 1..started
    PROVE  LET new == events \o SkippedEvents(Skipped)
           IN  /\ new \in Seq(Events)
               /\ InOrder(new, type)
               /\ Logged(new, type) = 1..NCalls
<1>1. PICK m \in Nat : m = NCalls - started /\ Cardinality(Skipped) = m
  BY CallsFacts, FS_Interval DEF Skipped
<1>2. PICK n \in Nat : n = started /\ n + m = NCalls
  BY <1>1, CallsFacts
<1>3. SkippedEvents(Skipped) = SkippedTail(n, m)
  <2>1. NCalls - m = n
    BY <1>1, <1>2
  <2> QED BY <1>1, <2>1 DEF SkippedEvents, SkippedTail
<1> DEFINE tail == SkippedTail(n, m)
           new == events \o tail
           len == Len(events)
           d == IF type = "tool/call" THEN 1 ELSE 0
<1>4. len \in Nat /\ tail \in Seq(Events) /\ Len(tail) = 2 * m
  BY <1>2, SkippedTailType
<1>5. EverySecond(new, type, len, n, m, d) /\ d \in {0, 1}
  BY <1>2, SkippedTailSecond
<1> HIDE DEF tail, d
<1>6. new \in Seq(Events) /\ Len(new) = len + 2 * m
  BY <1>4, Concatenation
<1>p. \A k \in 1..len : new[k] = events[k]
  BY <1>4, Concatenation
<1> HIDE DEF new, len
<1>7. \A k \in 1..len + 1 : CallsBefore(new, type, k)
                               = CallsBefore(events, type, k)
  <2>1. len \in Nat
    BY <1>4
  <2> QED BY <2>1, <1>p, PrefixKept
<1>8. CallsBefore(new, type, len + 1) = 1..n
  BY <1>2, <1>4, <1>7 DEF Logged, len
<1>9. OrderedUpTo(len, new, type)
  BY <1>4, <1>p, <1>7 DEF InOrder, OrderedUpTo, len
<1>10. InOrder(new, type) /\ Logged(new, type) = 1..n + m
  BY <1>4, <1>5, <1>6, <1>8, <1>9, SecondInOrder
<1> QED BY <1>2, <1>3, <1>6, <1>10 DEF new, tail

LEMMA LogInvInit == Init => LogInv
<1> SUFFICES ASSUME Init PROVE LogInv
  OBVIOUS
<1>1. log \in Seq(Events)
  BY DEF Init, Events
<1>2. /\ Len(log) = 3
      /\ \A l \in 1..3 : log[l].type \notin CallTypes
  BY DEF Init, TurnStart, StepStart, AssistantMessage, CallTypes
<1>3. ASSUME NEW type \in CallTypes
      PROVE  InOrder(log, type) /\ Logged(log, type) = {}
  BY <1>2 DEF InOrder, Logged, CallsBefore
<1>4. ASSUME NEW type \in CallTypes
      PROVE  1..Reached(type) = {}
  BY DEF Init, Reached
<1> QED BY <1>1, <1>3, <1>4 DEF LogInv

\* A step that records the next start or the next result, or nothing.
LEMMA LogGrows ==
    ASSUME LogInv, TypeInv, NEW e \in Events, log' = Append(log, e),
           NEW n \in [CallTypes -> Nat],
           \A type \in CallTypes :
              /\ n[type] = Reached(type)
              /\ e.type = type => e.call = n[type] + 1
              /\ Reached(type)' = IF e.type = type THEN n[type] + 1 ELSE n[type]
    PROVE  LogInv'
<1>1. \A type \in CallTypes :
         InOrder(log, type) /\ Logged(log, type) = 1..n[type]
  BY DEF LogInv
<1>2. log \in Seq(Events) /\ log' \in Seq(Events)
  BY DEF LogInv
<1>3. ASSUME NEW type \in CallTypes
      PROVE  InOrder(log', type) /\ Logged(log', type) = 1..Reached(type)'
  BY <1>1, <1>2, <1>3, AppendInOrder
<1> QED BY <1>2, <1>3 DEF LogInv, InOrder, Logged, CallsBefore

LEMMA LogStays ==
    ASSUME LogInv, UNCHANGED log,
           \A type \in CallTypes : Reached(type)' = Reached(type)
    PROVE  LogInv'
BY DEF LogInv

LEMMA StartRecorded ==
    ASSUME SchedulerInv, LogInv, started + 1 \in Calls,
           log' = log \o CallEvents(started + 1), started' = started + 1,
           UNCHANGED committed, at # "done", at' # "done"
    PROVE  LogInv'
<1> DEFINE e == ToolCall(1, 1, started + 1)
           n == [type \in CallTypes |-> Reached(type)]
<1>1. e \in Events /\ e.type = "tool/call" /\ e.call = started + 1
  BY DEF Events, ToolCall
<1>2. log' = Append(log, e)
  BY DEF CallEvents, LogInv
<1>3. n \in [CallTypes -> Nat]
  BY CallsFacts DEF Reached, SchedulerInv, TypeInv, TypeOK
<1>4. \A type \in CallTypes :
         /\ n[type] = Reached(type)
         /\ e.type = type => e.call = n[type] + 1
         /\ Reached(type)' = IF e.type = type THEN n[type] + 1 ELSE n[type]
  <2> HIDE DEF e
  <2> QED BY <1>1 DEF Reached, CallTypes
<1> HIDE DEF e, n
<1> QED BY <1>1, <1>2, <1>3, <1>4, LogGrows DEF SchedulerInv

LEMMA ResultRecorded ==
    ASSUME SchedulerInv, LogInv, NEW i \in Calls, CommitEffect(i)
    PROVE  LogInv'
<1>1. PICK code \in ResultCodes : log' = Append(log, ToolResult(1, 1, i, code))
  BY DEF CommitEffect
<1> DEFINE e == ToolResult(1, 1, i, code)
           n == [type \in CallTypes |-> Reached(type)]
<1>2. e \in Events /\ e.type = "tool/result" /\ e.call = i
  BY DEF Events, ToolResult
<1>3. n \in [CallTypes -> Nat]
  BY CallsFacts DEF Reached, SchedulerInv, TypeInv, TypeOK
<1>4. \A type \in CallTypes :
         /\ n[type] = Reached(type)
         /\ e.type = type => e.call = n[type] + 1
         /\ Reached(type)' = IF e.type = type THEN n[type] + 1 ELSE n[type]
  <2> HIDE DEF e
  <2> QED BY <1>2 DEF Reached, CallTypes, CommitEffect, Committing
<1> HIDE DEF n
<1> QED BY <1>1, <1>2, <1>3, <1>4, LogGrows DEF SchedulerInv

\* Every started call of a group that ends has its result.
LEMMA GroupIsAnswered ==
    ASSUME SchedulerInv, EndGroup
    PROVE  committed = started
<1>1. /\ inFlight = {} /\ at = "race"
      /\ started \in 0..NCalls /\ committed \in 0..NCalls
  BY DEF EndGroup, SchedulerInv, TypeInv, TypeOK
<1>2. ASSUME committed < started
      PROVE  FALSE
  <2>1. PICK i \in Calls : i = committed + 1
    BY <1>1, <1>2, CallsFacts DEF Calls
  <2>2. ~failure /\ slot[i].kind = "empty"
    BY <1>1, <2>1 DEF SchedulerInv, GroupInv
  <2>3. stage[i] \in {"waiting", "preparing", "wrapped", "body"}
    BY <1>1, <2>1, <2>2, CallsFacts
       DEF SchedulerInv, StageInv, TypeInv, TypeOK
  <2> QED BY <1>1, <1>2, <2>1, <2>3, CallsFacts DEF SchedulerInv, StageInv
<1> QED BY <1>1, <1>2 DEF SchedulerInv, StageInv

\* A group that was aborted ends with an answer for every call.
LEMMA SkipsRecorded ==
    ASSUME SchedulerInv, LogInv, EndGroup
    PROVE  LogInv'
<1>1. /\ inFlight = {} /\ at = "race" /\ UNCHANGED <<started, committed>>
      /\ started \in 0..NCalls /\ committed \in 0..NCalls
  BY DEF EndGroup, SchedulerInv, TypeInv, TypeOK
<1>2. committed = started
  BY GroupIsAnswered
<1>3. CASE group.aborted
  <2>1. log' = log \o SkippedEvents(Skipped) /\ at' = "done"
    BY <1>3 DEF EndGroup
  <2>2. ASSUME NEW type \in CallTypes
        PROVE  /\ log' \in Seq(Events)
               /\ InOrder(log', type) /\ Logged(log', type) = 1..NCalls
    <3>1. InOrder(log, type) /\ Logged(log, type) = 1..started
      BY <1>1, <1>2 DEF LogInv, Reached
    <3>2. log \in Seq(Events)
      BY DEF LogInv
    <3> QED BY <1>1, <2>1, <2>2, <3>1, <3>2, SkipInOrder
  <2>3. \A type \in CallTypes : Reached(type)' = NCalls
    BY <2>1 DEF Reached
  <2> QED BY <2>2, <2>3 DEF LogInv, InOrder, Logged, CallsBefore, CallTypes
<1>4. CASE ~group.aborted
  <2>1. UNCHANGED log /\ at' = "group"
    BY <1>4 DEF EndGroup
  <2> QED BY <1>1, <2>1, LogStays DEF Reached
<1> QED BY <1>3, <1>4

\* Every step keeps the order of the log.
LEMMA LogInvKept ==
    ASSUME SchedulerInv, LogInv, Next
    PROVE  LogInv'
<1>1. CASE StartGroup
  <2>1. CASE signal
    BY <1>1, <2>1, LogStays DEF StartGroup, Reached
  <2>2. CASE ~signal
    <3>1. /\ next = started /\ at = "group" /\ at' = "prepare"
          /\ log' = log \o CallEvents(next + 1) /\ started' = next + 1
          /\ UNCHANGED committed /\ next + 1 \in Calls
      BY <1>1, <2>2, CallsFacts
         DEF StartGroup, StartCall, SchedulerInv, GroupInv, TypeInv, TypeOK,
             Calls
    <3> QED BY <3>1, StartRecorded
  <2> QED BY <2>1, <2>2
<1>2. CASE FillPool
  <2>1. FillEffect
    BY <1>2, FillFacts DEF SchedulerInv
  <2>2. CASE started' = started + 1 /\ StartsAnother
               /\ log' = log \o CallEvents(started + 1) /\ at' = "prepare"
    <3>1. started + 1 \in Calls
      BY <2>2, CallsFacts
         DEF StartsAnother, SchedulerInv, TypeInv, TypeOK, Calls
    <3> QED BY <2>1, <2>2, <3>1, StartRecorded DEF FillEffect
  <2>3. CASE UNCHANGED <<log, started>> /\ at' = "race"
    BY <2>1, <2>3, LogStays DEF FillEffect, Reached
  <2> QED BY <2>1, <2>2, <2>3 DEF FillEffect
<1>3. ASSUME NEW i \in Calls,
             CommitFinal(i) \/ \E fails \in BOOLEAN : Finalized(i, fails)
      PROVE  LogInv'
  <2>1. CommitEffect(i)
    BY <1>3, CommitFacts DEF SchedulerInv
  <2> QED BY <2>1, ResultRecorded
<1>4. CASE EndGroup
  BY <1>4, SkipsRecorded
<1>5. CASE Return
  <2>1. started = NCalls /\ committed = NCalls /\ at # "done"
    BY <1>5 DEF Return, SchedulerInv, GroupInv
  <2> QED BY <1>5, <2>1, LogStays DEF Return, Reached
<1>6. ASSUME UNCHANGED <<log, started, committed>>,
             UNCHANGED at \/ (at # "done" /\ at' # "done")
      PROVE  LogInv'
  BY <1>6, LogStays DEF Reached
<1>7. ASSUME NEW i \in Calls,
             \/ DispatchStep(i) \/ Reclassify(i) \/ Race(i)
             \/ \E kind \in Kinds \cup {"dispatch"}, code \in ResultCodes :
                   Prepared(kind, code)
      PROVE  LogInv'
  BY <1>6, <1>7 DEF DispatchStep, BodyStarts, WrapperSettles, BodySettles,
     DispatchRejects, Reclassify, Race, Prepared
<1>8. CASE Throws \/ StartFinalize \/ CommitsDone \/ Fail \/ Abort
  BY <1>6, <1>8 DEF Throws, StartFinalize, CommitsDone, Committing, Fail, Abort
<1>9. PICK i : i \in Calls
  BY CallsFacts DEF Calls
<1> QED
  BY <1>1, <1>2, <1>3, <1>4, <1>5, <1>7, <1>8, <1>9
     DEF Next, SchedulerStep, Environment

LogAndSchedulerInv == SchedulerInv /\ LogInv

\* The log is in order and complete up to the calls that were reached.
THEOREM LogInvariant == Spec => []LogAndSchedulerInv
<1>1. Init => LogAndSchedulerInv
  BY SchedulerInvInit, LogInvInit DEF LogAndSchedulerInv
<1>2. LogAndSchedulerInv /\ [Next]_vars => LogAndSchedulerInv'
  <2>1. ASSUME LogAndSchedulerInv, UNCHANGED vars
        PROVE  LogInv'
    BY <2>1 DEF vars, LogAndSchedulerInv, LogInv, Reached
  <2> QED BY <2>1, SchedulerInvKept, LogInvKept DEF LogAndSchedulerInv
<1> QED BY <1>1, <1>2, PTL DEF Spec

\* Starts and results are logged in the order of the model's calls, without
\* a gap and without a repetition.
THEOREM LogInModelOrder == Spec => []ModelOrder
<1>1. LogAndSchedulerInv => ModelOrder
  BY DEF LogAndSchedulerInv, LogInv, CallTypes, ModelOrder
<1> QED BY <1>1, LogInvariant, PTL

\* A call that has a result has one.
LEMMA OneResult ==
    ASSUME LogInv, Reached("tool/result") \in Nat, NEW i \in Calls
    PROVE  /\ i <= Reached("tool/result") =>
                 \E k \in 1..Len(log) : ResultsOf(log, i) = {k}
           /\ i > Reached("tool/result") => ResultsOf(log, i) = {}
<1>1. \A k \in 1..Len(log) : log[k].type = "tool/result" =>
          CallsBefore(log, "tool/result", k) = 1..log[k].call - 1
  BY DEF LogInv, InOrder, CallTypes
<1>2. {log[k].call : k \in {k \in 1..Len(log) : log[k].type = "tool/result"}}
         = 1..Reached("tool/result")
  BY DEF LogInv, Logged, CallsBefore, CallTypes
<1>3. ASSUME i <= Reached("tool/result")
      PROVE  \E k \in 1..Len(log) : ResultsOf(log, i) = {k}
  <2>1. PICK k \in 1..Len(log) : log[k].type = "tool/result" /\ log[k].call = i
    BY <1>2, <1>3, CallsFacts DEF Calls
  <2>2. ASSUME NEW l \in 1..Len(log), log[l].type = "tool/result",
               log[l].call = i, l # k
        PROVE  FALSE
    <3>1. CASE l < k
      <4>1. i \in CallsBefore(log, "tool/result", k)
        BY <2>2, <3>1 DEF CallsBefore
      <4> QED BY <1>1, <2>1, <4>1, CallsFacts
    <3>2. CASE k < l
      <4>1. i \in CallsBefore(log, "tool/result", l)
        BY <2>1, <3>2 DEF CallsBefore
      <4> QED BY <1>1, <2>2, <4>1, CallsFacts
    <3> QED BY <2>2, <3>1, <3>2
  <2>3. ResultsOf(log, i) = {k}
    BY <2>1, <2>2 DEF ResultsOf
  <2> QED BY <2>3
<1>4. ASSUME i > Reached("tool/result")
      PROVE  ResultsOf(log, i) = {}
  <2>1. i \notin 1..Reached("tool/result")
    BY <1>4, CallsFacts
  <2> QED BY <1>2, <2>1 DEF ResultsOf
<1> QED BY <1>3, <1>4

\* A step that is over is over: no tool runs, and if it returned every call
\* has one result.
THEOREM OverIsOver == Spec => []OverMeansOver
<1>1. LogAndSchedulerInv => OverMeansOver
  <2> SUFFICES ASSUME LogAndSchedulerInv PROVE OverMeansOver
    OBVIOUS
  <2> USE DEF LogAndSchedulerInv
  <2>1. Over => \A i \in Calls : stage[i] \notin {"wrapped", "body"}
    BY DEF Over, SchedulerInv, StageInv, GroupInv, Drained
  <2>2. {log[k].call : k \in {k \in 1..Len(log) : log[k].type = "tool/result"}}
           = 1..Reached("tool/result")
    BY DEF LogInv, Logged, CallsBefore, CallTypes
  <2>3. ASSUME at = "done", NEW i \in Calls
        PROVE  Cardinality(ResultsOf(log, i)) = 1
    <3>1. Reached("tool/result") = NCalls /\ i <= NCalls
      BY <2>3, CallsFacts DEF Reached, Calls
    <3>2. PICK k \in 1..Len(log) : ResultsOf(log, i) = {k}
      BY <3>1, CallsFacts, OneResult
    <3> QED BY <3>2, FS_Singleton
  <2>4. ASSUME at = "failed", NEW i \in Calls, ResultsOf(log, i) # {}
        PROVE  stage[i] = "settled"
    <3>1. i \in 1..committed
      BY <2>2, <2>4 DEF ResultsOf, Reached
    <3> QED BY <3>1, CallsFacts DEF SchedulerInv, StageInv, TypeInv, TypeOK
  <2> QED BY <2>1, <2>3, <2>4 DEF OverMeansOver
<1> QED BY <1>1, LogInvariant, PTL
-----------------------------------------------------------------------------
(* What the scans of the log read. *)

TraceScan == INSTANCE ScanProofs WITH After <- TraceAfter
RepairScan == INSTANCE ScanProofs WITH After <- ScanAfter

RepairOf(events) == Scan(ScanAfter, FreshScan, events)

\* The events of the step and of the repair of its turn.
RepairCodes == {"TOOL_OUTCOME_UNKNOWN", "TOOL_NOT_STARTED"}
AllEvents ==
    Events
    \cup {ToolResult(1, 1, i, code) : i \in Calls, code \in RepairCodes}
    \cup {StepEnd(1, 1), TurnEnd(1, "interrupted")}

\* The calls after the first b, as the answer lists them.
Rest(b) == [i \in 1..NCalls - b |-> b + i]

TraceAt(pending) == [openTurn |-> 1, openStep |-> 1, nextTurn |-> 1,
                     nextStep |-> 1, pending |-> pending, ok |-> TRUE]
ScanAt(a, b) == [turn |-> 1, step |-> 1, calls |-> Rest(b), started |-> 1..a]

\* The scans of a log with a starts and b results, both in model order.
Reads(events, a, b) ==
    /\ TraceOf(events) = TraceAt(b + 1..a)
    /\ RepairOf(events) = ScanAt(a, b)

LEMMA ScansAreFolds ==
    ASSUME NEW s
    PROVE  /\ TraceOf(s) = TraceScan!Fold(FreshTrace, s)
           /\ RepairOf(s) = RepairScan!Fold(FreshScan, s)
<1>1. TraceOf(s) = TraceScan!Fold(FreshTrace, s)
  BY DEF TraceOf, Scan, TraceScan!Fold
<1>2. RepairOf(s) = RepairScan!Fold(FreshScan, s)
  BY DEF RepairOf, Scan, RepairScan!Fold
<1> QED BY <1>1, <1>2

LEMMA ScansFollow ==
    ASSUME NEW s \in Seq(AllEvents), NEW e \in AllEvents
    PROVE  /\ TraceOf(Append(s, e)) = TraceAfter(TraceOf(s), e)
           /\ RepairOf(Append(s, e)) = ScanAfter(RepairOf(s), e)
<1>1. TraceOf(Append(s, e)) = TraceAfter(TraceOf(s), e)
  BY ScansAreFolds, TraceScan!FoldAppend
<1>2. RepairOf(Append(s, e)) = ScanAfter(RepairOf(s), e)
  BY ScansAreFolds, RepairScan!FoldAppend
<1> QED BY <1>1, <1>2

LEMMA RestFacts ==
    ASSUME NEW b \in 0..NCalls
    PROVE  /\ Rest(b) \in Seq(Calls) /\ Len(Rest(b)) = NCalls - b
           /\ \A i \in 1..NCalls - b : Rest(b)[i] = b + i
           /\ ToSet(Rest(b)) = b + 1..NCalls
<1> USE CallsFacts DEF Calls
<1>1. /\ Rest(b) \in Seq(Calls) /\ Len(Rest(b)) = NCalls - b
      /\ \A i \in 1..NCalls - b : Rest(b)[i] = b + i
  BY DEF Rest
<1> HIDE DEF Calls
<1>2. ToSet(Rest(b)) = {Rest(b)[i] : i \in 1..NCalls - b}
  BY <1>1 DEF ToSet
<1>3. ASSUME NEW c \in b + 1..NCalls
      PROVE  c - b \in 1..NCalls - b /\ b + (c - b) = c
  OBVIOUS
<1>4. \A i \in 1..NCalls - b : b + i \in b + 1..NCalls
  OBVIOUS
<1>5. {Rest(b)[i] : i \in 1..NCalls - b} = b + 1..NCalls
  <2> HIDE DEF Rest
  <2>1. \A c \in b + 1..NCalls : \E i \in 1..NCalls - b : Rest(b)[i] = c
    BY <1>1, <1>3
  <2>2. \A i \in 1..NCalls - b : Rest(b)[i] \in b + 1..NCalls
    BY <1>1, <1>4
  <2> QED BY <2>1, <2>2
<1> QED BY <1>1, <1>2, <1>5

\* The first call of the rest is answered.
LEMMA RestLeaves ==
    ASSUME NEW b \in 0..NCalls - 1
    PROVE  CallsWithout(Rest(b), b + 1) = Rest(b + 1)
<1>1. /\ Rest(b) \in Seq(Calls) /\ Len(Rest(b)) = NCalls - b
      /\ \A i \in 1..NCalls - b : Rest(b)[i] = b + i
      /\ b \in Nat /\ NCalls \in Nat /\ b < NCalls
  BY RestFacts, CallsFacts
<1> HIDE DEF Rest
<1>2. {i \in 1..Len(Rest(b)) : Rest(b)[i] = b + 1} = {1}
  <2>1. 1 \in 1..NCalls - b
    BY <1>1
  <2>2. \A i \in 1..NCalls - b : b + i = b + 1 => i = 1
    BY <1>1
  <2> QED BY <1>1, <2>1, <2>2
<1>3. (CHOOSE i \in {1} : TRUE) = 1
  OBVIOUS
<1>4. CallsWithout(Rest(b), b + 1) = RemoveAt(Rest(b), 1)
  BY <1>2, <1>3 DEF CallsWithout
<1>5. RemoveAt(Rest(b), 1) = SubSeq(Rest(b), 2, NCalls - b)
  <2>1. SubSeq(Rest(b), 1, 0) = <<>>
    OBVIOUS
  <2>2. SubSeq(Rest(b), 2, NCalls - b) \in Seq(Calls)
    BY <1>1
  <2>3. <<>> \o SubSeq(Rest(b), 2, NCalls - b) = SubSeq(Rest(b), 2, NCalls - b)
    BY <2>2
  <2> QED BY <1>1, <2>1, <2>3 DEF RemoveAt
<1>6. SubSeq(Rest(b), 2, NCalls - b) = [i \in 1..NCalls - (b + 1) |-> b + 1 + i]
  <2>1. /\ Len(SubSeq(Rest(b), 2, NCalls - b)) = NCalls - (b + 1)
        /\ \A i \in 1..NCalls - (b + 1) :
              SubSeq(Rest(b), 2, NCalls - b)[i] = Rest(b)[i + 1]
        /\ SubSeq(Rest(b), 2, NCalls - b) \in Seq(Calls)
    BY <1>1
  <2>2. \A i \in 1..NCalls - (b + 1) : Rest(b)[i + 1] = b + 1 + i
    <3>1. \A i \in 1..NCalls - (b + 1) :
             i + 1 \in 1..NCalls - b /\ b + (i + 1) = b + 1 + i
      BY <1>1
    <3> QED BY <1>1, <3>1
  <2> HIDE <1>1
  <2> QED BY <2>1, <2>2
<1> QED BY <1>4, <1>5, <1>6 DEF Rest

\* The scans read the start of the next call,
LEMMA StartIsRead ==
    ASSUME NEW s \in Seq(AllEvents), NEW a \in 0..NCalls - 1, NEW b \in 0..a,
           Reads(s, a, b)
    PROVE  Reads(Append(s, ToolCall(1, 1, a + 1)), a + 1, b)
<1> DEFINE e == ToolCall(1, 1, a + 1)
<1>1. e \in AllEvents /\ a + 1 \in Calls
  BY CallsFacts DEF AllEvents, Events, Calls
<1>2. TraceAfter(TraceAt(b + 1..a), e) = TraceAt(b + 1..a + 1)
  <2>1. (b + 1..a) \cup {a + 1} = b + 1..a + 1
    OBVIOUS
  <2>2. EventAllowed(TraceAt(b + 1..a), e)
    BY DEF EventAllowed, TraceAt, ToolCall, InOpenStep
  <2>3. TraceAfter(TraceAt(b + 1..a), e) = TraceAt((b + 1..a) \cup {a + 1})
    BY <2>2 DEF TraceAfter, TraceAt, ToolCall
  <2> QED BY <2>1, <2>3
<1>3. ScanAfter(ScanAt(a, b), e) = ScanAt(a + 1, b)
  <2>0. /\ ToSet(Rest(b)) = b + 1..NCalls /\ a + 1 \in b + 1..NCalls
        /\ 1..a + 1 = (1..a) \cup {a + 1}
    <3>1. b \in 0..NCalls /\ a + 1 \in b + 1..NCalls
      BY CallsFacts
    <3> QED BY <3>1, RestFacts
  <2>1. a + 1 \in ToSet(Rest(b)) /\ 1..a + 1 = (1..a) \cup {a + 1}
    BY <2>0
  <2>2. {a + 1} \cap ToSet(Rest(b)) = {a + 1}
    BY <2>1
  <2> QED BY <2>1, <2>2 DEF ScanAfter, ScanAt, ToolCall
<1> HIDE DEF e
<1>4. /\ TraceOf(Append(s, e)) = TraceAfter(TraceOf(s), e)
      /\ RepairOf(Append(s, e)) = ScanAfter(RepairOf(s), e)
  BY <1>1, ScansFollow
<1> QED BY <1>2, <1>3, <1>4 DEF Reads, e

\* and the result of the next call, which started or is said not to have.
LEMMA ResultIsRead ==
    ASSUME NEW s \in Seq(AllEvents), NEW a \in 0..NCalls,
           NEW b \in 0..NCalls - 1, NEW code,
           ToolResult(1, 1, b + 1, code) \in AllEvents,
           b + 1 <= a \/ code = "TOOL_NOT_STARTED",
           Reads(s, a, b)
    PROVE  Reads(Append(s, ToolResult(1, 1, b + 1, code)), a, b + 1)
<1> DEFINE e == ToolResult(1, 1, b + 1, code)
<1>2. TraceAfter(TraceAt(b + 1..a), e) = TraceAt(b + 1 + 1..a)
  <2>1. (b + 1..a) \ {b + 1} = b + 1 + 1..a
    OBVIOUS
  <2>2. EventAllowed(TraceAt(b + 1..a), e)
    BY DEF EventAllowed, TraceAt, ToolResult, InOpenStep
  <2>3. TraceAfter(TraceAt(b + 1..a), e) = TraceAt((b + 1..a) \ {b + 1})
    BY <2>2 DEF TraceAfter, TraceAt, ToolResult
  <2> QED BY <2>1, <2>3
<1>3. ScanAfter(ScanAt(a, b), e) = ScanAt(a, b + 1)
  BY RestLeaves DEF ScanAfter, ScanAt, ToolResult
<1> HIDE DEF e
<1>4. /\ TraceOf(Append(s, e)) = TraceAfter(TraceOf(s), e)
      /\ RepairOf(Append(s, e)) = ScanAfter(RepairOf(s), e)
  BY ScansFollow DEF e
<1> QED BY <1>2, <1>3, <1>4 DEF Reads, e

LEMMA SmallLog == Seq(Events) \subseteq Seq(AllEvents)
BY DEF AllEvents

LEMMA InitReads == Init => Reads(log, 0, 0)
<1> SUFFICES ASSUME Init PROVE Reads(log, 0, 0)
  OBVIOUS
<1> DEFINE all == [i \in Calls |-> i]
           e == TurnStart(1)
           f == StepStart(1, 1)
           g == AssistantMessage(1, 1, all)
<1>1. e \in AllEvents /\ f \in AllEvents /\ g \in AllEvents
  BY DEF AllEvents, Events
<1>2. log = <<e, f, g>>
  BY DEF Init
<1>3. all = Rest(0) /\ <<>> \o Rest(0) = Rest(0) /\ 1..0 = {}
  <2>1. Rest(0) \in Seq(Calls)
    BY RestFacts, CallsFacts
  <2>2. <<>> \o Rest(0) = Rest(0)
    BY <2>1
  <2>3. all = Rest(0)
    BY CallsFacts DEF Rest, Calls
  <2> QED BY <2>2, <2>3
<1> DEFINE t0 == FreshTrace
           t1 == [openTurn |-> 1, openStep |-> 0, nextTurn |-> 1,
                  nextStep |-> 1, pending |-> {}, ok |-> TRUE]
           t2 == [openTurn |-> 1, openStep |-> 1, nextTurn |-> 1,
                  nextStep |-> 1, pending |-> {}, ok |-> TRUE]
           r1 == [FreshScan EXCEPT !.turn = 1]
           r2 == [FreshScan EXCEPT !.turn = 1, !.step = 1]
<1>4. TraceAfter(t0, e) = t1 /\ TraceAfter(t1, f) = t2
      /\ TraceAfter(t2, g) = TraceAt({})
  <2>1. EventAllowed(t0, e) /\ TraceAfter(t0, e) = t1
    BY DEF TraceAfter, EventAllowed, TurnStart, FreshTrace
  <2>2. EventAllowed(t1, f) /\ TraceAfter(t1, f) = t2
    BY DEF TraceAfter, EventAllowed, StepStart, FreshTrace
  <2> HIDE DEF all
  <2>a. /\ g.type = "assistant/message" /\ g.turn = 1 /\ g.step = 1
    BY DEF AssistantMessage
  <2>b. EventAllowed(t2, g)
    BY <2>a DEF EventAllowed, InOpenStep
  <2>3. TraceAfter(t2, g) = TraceAt({})
    BY <2>a, <2>b DEF TraceAfter, TraceAt
  <2> QED BY <2>1, <2>2, <2>3
<1>5. ScanAfter(FreshScan, e) = r1 /\ ScanAfter(r1, f) = r2
      /\ ScanAfter(r2, g) = ScanAt(0, 0)
  <2>1. ScanAfter(FreshScan, e) = r1
    BY DEF ScanAfter, TurnStart, FreshScan
  <2>2. ScanAfter(r1, f) = r2
    BY DEF ScanAfter, StepStart, FreshScan
  <2>3. ScanAfter(r2, g) = ScanAt(0, 0)
    BY <1>3 DEF ScanAfter, AssistantMessage, FreshScan, ScanAt
  <2> QED BY <2>1, <2>2, <2>3
<1> HIDE DEF e, f, g, t1, t2, r1, r2
<1> DEFINE w1 == Append(<<>>, e)
           w2 == Append(w1, f)
<1>6. w1 \in Seq(AllEvents) /\ w2 \in Seq(AllEvents) /\ <<>> \in Seq(AllEvents)
  BY <1>1
<1>7. log = Append(w2, g)
  BY <1>1, <1>2
<1>8. TraceOf(<<>>) = FreshTrace /\ RepairOf(<<>>) = FreshScan
  BY ScansAreFolds, TraceScan!FoldEmpty, RepairScan!FoldEmpty
<1>9. TraceOf(w1) = t1 /\ RepairOf(w1) = r1
  BY <1>1, <1>4, <1>5, <1>6, <1>8, ScansFollow
<1> HIDE DEF w1
<1>10. TraceOf(w2) = t2 /\ RepairOf(w2) = r2
  BY <1>1, <1>4, <1>5, <1>6, <1>9, ScansFollow
<1> HIDE DEF w2
<1>11. TraceOf(log) = TraceAt({}) /\ RepairOf(log) = ScanAt(0, 0)
  BY <1>1, <1>4, <1>5, <1>6, <1>7, <1>10, ScansFollow
<1>12. 0 + 1..0 = {}
  OBVIOUS
<1> QED BY <1>11, <1>12 DEF Reads

\* A skipped call is recorded and answered at once.
LEMMA SkippedIsRead ==
    ASSUME NEW s \in Seq(Events), NEW n \in 0..NCalls, Reads(s, n, n)
    PROVE  \A m \in Nat : n + m <= NCalls =>
              Reads(s \o SkippedTail(n, m), n + m, n + m)
<1> DEFINE S == {m \in Nat : n + m <= NCalls =>
                    Reads(s \o SkippedTail(n, m), n + m, n + m)}
<1> USE CallsFacts
<1>1. 0 \in S
  <2>1. SkippedTail(n, 0) = <<>>
    BY DEF SkippedTail
  <2>2. s \o <<>> = s /\ n + 0 = n
    OBVIOUS
  <2> QED BY <2>1, <2>2
<1>2. ASSUME NEW m \in Nat, m \in S
      PROVE  m + 1 \in S
  <2>1. SUFFICES ASSUME n + (m + 1) <= NCalls
                 PROVE  Reads(s \o SkippedTail(n, m + 1), n + (m + 1),
                              n + (m + 1))
    OBVIOUS
  <2> DEFINE a == n + m
             e == ToolCall(1, 1, a + 1)
             f == ToolResult(1, 1, a + 1, "TOOL_ABORTED_BEFORE_DISPATCH")
             tail == SkippedTail(n, m)
             new == SkippedTail(n, m + 1)
  <2>2. /\ a \in 0..NCalls - 1 /\ a \in 0..a /\ a + 1 \in Calls
        /\ n + (m + 1) = a + 1 /\ a + 1 \in 0..NCalls /\ a + 1 <= a + 1
    BY <2>1 DEF Calls
  <2>3. /\ Reads(s \o tail, a, a)
    BY <1>2, <2>2
  <2>4. e \in AllEvents /\ f \in AllEvents
    BY <2>2 DEF AllEvents, Events
  <2>5. tail \in Seq(AllEvents) /\ Len(tail) = 2 * m
    <3>1. /\ m \in Nat /\ n \in Nat
          /\ \A k \in 1..2 * m : n + (k + 1) \div 2 \in Calls
      BY <2>1 DEF Calls
    <3>2. \A k \in 1..2 * m : SkippedTail(n, m)[k] \in AllEvents
      BY <3>1 DEF SkippedTail, AllEvents, Events
    <3> QED BY <3>2 DEF SkippedTail
  <2>6. new = Append(Append(tail, e), f)
    <3>1. /\ new[2 * (m + 1) - 1] = ToolCall(1, 1, n + (m + 1))
          /\ new[2 * (m + 1)] =
                ToolResult(1, 1, n + (m + 1), "TOOL_ABORTED_BEFORE_DISPATCH")
      <4>1. m + 1 \in 1..m + 1 /\ m + 1 \in Nat /\ n \in Nat
        OBVIOUS
      <4> HIDE <1>2
      <4> QED BY <4>1, SkippedTailAt
    <3>2. /\ 2 * (m + 1) - 1 = 2 * m + 1 /\ 2 * (m + 1) = 2 * m + 2
          /\ n + (m + 1) = a + 1
      OBVIOUS
    <3>3. new[2 * m + 1] = e /\ new[2 * m + 2] = f
      BY <3>1, <3>2
    <3>4. \A k \in 1..2 * m : new[k] = tail[k]
      BY DEF SkippedTail
    <3>5. new = [k \in 1..2 * m + 2 |-> new[k]]
      BY DEF SkippedTail
    <3> HIDE DEF new, tail, e, f, a
    <3> DEFINE w == Append(tail, e)
    <3>6. w \in Seq(AllEvents) /\ Len(w) = 2 * m + 1 /\ w[2 * m + 1] = e
          /\ \A k \in 1..2 * m : w[k] = tail[k]
      BY <2>4, <2>5
    <3> HIDE DEF w
    <3>7. /\ Append(w, f) \in Seq(AllEvents)
          /\ Len(Append(w, f)) = 2 * m + 2
          /\ \A k \in 1..2 * m + 2 :
                Append(w, f)[k] = IF k = 2 * m + 2 THEN f ELSE w[k]
      <4>1. /\ Append(w, f) \in Seq(AllEvents)
            /\ Len(Append(w, f)) = Len(w) + 1
            /\ \A k \in 1..Len(w) + 1 :
                  Append(w, f)[k] = IF k = Len(w) + 1 THEN f ELSE w[k]
        BY <2>4, <3>6, AppendProperties
      <4>2. Len(w) + 1 = 2 * m + 2
        BY <3>6
      <4> QED BY <4>1, <4>2
    <3>8. \A k \in 1..2 * m + 2 : new[k] = IF k = 2 * m + 2 THEN f ELSE w[k]
      <4>1. \A k \in 1..2 * m + 2 : k \in 1..2 * m \/ k = 2 * m + 1
                                       \/ k = 2 * m + 2
        OBVIOUS
      <4>2. \A k \in 1..2 * m : k # 2 * m + 2
        OBVIOUS
      <4>3. 2 * m + 1 # 2 * m + 2
        OBVIOUS
      <4> QED BY <3>3, <3>4, <3>6, <4>1, <4>2, <4>3
    <3>9. new \in Seq(AllEvents) /\ Len(new) = 2 * m + 2
      <4>1. \A k \in 1..2 * m + 2 : new[k] \in AllEvents
        BY <2>4, <2>5, <3>6, <3>8, SMTT(30)
      <4> QED BY <3>5, <4>1, SMTT(30)
    <3>10. new = Append(w, f)
      BY <3>7, <3>8, <3>9
    <3> QED BY <3>10 DEF w
  <2>7. s \o new = Append(Append(s \o tail, e), f)
    <3>1. s \in Seq(AllEvents)
      BY SmallLog
    <3> HIDE DEF new, tail, e, f
    <3> QED BY <2>4, <2>5, <2>6, <3>1
  <2>8. s \o tail \in Seq(AllEvents) /\ Append(s \o tail, e) \in Seq(AllEvents)
    <3>1. s \in Seq(AllEvents)
      BY SmallLog
    <3> HIDE DEF tail, e
    <3> QED BY <2>4, <2>5, <3>1
  <2> HIDE DEF a, tail, new
  <2>9. Reads(Append(s \o tail, e), a + 1, a)
    BY <2>2, <2>3, <2>8, StartIsRead
  <2>10. Reads(Append(Append(s \o tail, e), f), a + 1, a + 1)
    BY <2>2, <2>4, <2>8, <2>9, ResultIsRead
  <2> QED BY <2>2, <2>7, <2>10 DEF new
<1> HIDE DEF S
<1>3. \A m \in Nat : m \in S
  BY <1>1, <1>2, TraceScan!SetInduction
<1> QED BY <1>3 DEF S

-----------------------------------------------------------------------------
(* What the log tells of the calls whose body was invoked. *)

ReadsLog == Reads(log, Reached("tool/call"), Reached("tool/result"))

\* A body is invoked once its call has started, and from then on no outcome
\* says that it was not.
InvokedInv ==
    /\ \A i \in invoked :
          /\ stage[i] \in {"body", "settled"}
          /\ slot[i].kind # "empty" =>
                slot[i].code # "TOOL_ABORTED_BEFORE_DISPATCH"
    /\ \A k \in 1..Len(log) :
          log[k].type = "tool/result" /\ log[k].call \in invoked =>
              log[k].code # "TOOL_ABORTED_BEFORE_DISPATCH"

TruthInv == LogAndSchedulerInv /\ ReadsLog /\ InvokedInv

LEMMA ReadsStart ==
    ASSUME SchedulerInv, LogInv, ReadsLog, started + 1 \in Calls,
           log' = log \o CallEvents(started + 1), started' = started + 1,
           UNCHANGED committed, at # "done", at' # "done"
    PROVE  ReadsLog'
<1>1. /\ started \in 0..NCalls - 1 /\ committed \in 0..started
      /\ log \in Seq(AllEvents) /\ log \in Seq(Events)
  BY SmallLog, CallsFacts
     DEF SchedulerInv, StageInv, TypeInv, TypeOK, LogInv, Calls
<1>2. Reads(log, started, committed)
  BY DEF ReadsLog, Reached
<1>3. log' = Append(log, ToolCall(1, 1, started + 1))
  BY <1>1 DEF CallEvents
<1>4. Reads(log', started + 1, committed)
  BY <1>1, <1>2, <1>3, StartIsRead
<1> QED BY <1>4 DEF ReadsLog, Reached, Reads, TraceOf, RepairOf, TraceAt, ScanAt

LEMMA ReadsResult ==
    ASSUME SchedulerInv, LogInv, ReadsLog, NEW i \in Calls, CommitEffect(i)
    PROVE  ReadsLog'
<1>1. PICK code \in ResultCodes : log' = Append(log, ToolResult(1, 1, i, code))
  BY DEF CommitEffect
<1>2. /\ i = committed + 1 /\ committed' = i /\ UNCHANGED started
      /\ at # "done" /\ at' # "done" /\ slot[i].kind # "empty"
  BY DEF CommitEffect, Committing
<1>3. /\ started \in 0..NCalls /\ committed \in 0..NCalls - 1
      /\ log \in Seq(AllEvents)
  BY <1>2, SmallLog, CallsFacts
     DEF SchedulerInv, TypeInv, TypeOK, LogInv, Calls
<1>4. i <= started
  BY <1>2, <1>3, CallsFacts DEF SchedulerInv, StageInv, TypeInv, TypeOK, Calls
<1>5. ToolResult(1, 1, i, code) \in AllEvents
  BY DEF AllEvents, Events
<1>6. Reads(log, started, committed)
  BY <1>2 DEF ReadsLog, Reached
<1>7. Reads(log', started, committed + 1)
  BY <1>1, <1>2, <1>3, <1>4, <1>5, <1>6, ResultIsRead
<1> QED BY <1>2, <1>7 DEF ReadsLog, Reached

LEMMA ReadsStay ==
    ASSUME ReadsLog, UNCHANGED log,
           \A type \in CallTypes : Reached(type)' = Reached(type)
    PROVE  ReadsLog'
BY DEF ReadsLog, CallTypes, Reads, TraceOf, RepairOf, Scan

LEMMA SkippedIsTail ==
    ASSUME SchedulerInv
    PROVE  \E m \in Nat : /\ m = NCalls - started
                          /\ SkippedEvents(Skipped) = SkippedTail(started, m)
<1>1. started \in 0..NCalls
  BY DEF SchedulerInv, TypeInv, TypeOK
<1>2. PICK m \in Nat : m = NCalls - started /\ Cardinality(Skipped) = m
  BY <1>1, CallsFacts, FS_Interval DEF Skipped
<1>3. NCalls - m = started
  BY <1>1, <1>2, CallsFacts
<1> QED BY <1>2, <1>3 DEF SkippedEvents, SkippedTail

LEMMA ReadsSkips ==
    ASSUME SchedulerInv, LogInv, ReadsLog, EndGroup
    PROVE  ReadsLog'
<1>1. /\ at = "race" /\ UNCHANGED <<started, committed>>
      /\ started \in 0..NCalls /\ log \in Seq(Events)
  BY DEF EndGroup, SchedulerInv, TypeInv, TypeOK, LogInv
<1>2. committed = started
  BY GroupIsAnswered
<1>3. CASE group.aborted
  <2>1. log' = log \o SkippedEvents(Skipped) /\ at' = "done"
    BY <1>3 DEF EndGroup
  <2>2. PICK m \in Nat : /\ m = NCalls - started
                         /\ SkippedEvents(Skipped) = SkippedTail(started, m)
    BY SkippedIsTail
  <2>3. Reads(log, started, started)
    BY <1>1, <1>2 DEF ReadsLog, Reached
  <2>4. Reads(log \o SkippedTail(started, m), started + m, started + m)
    <3>1. started + m <= NCalls
      BY <1>1, <2>2, CallsFacts
    <3> QED BY <1>1, <2>3, <3>1, SkippedIsRead
  <2>5. started + m = NCalls
    BY <1>1, <2>2, CallsFacts
  <2> QED BY <2>1, <2>2, <2>4, <2>5 DEF ReadsLog, Reached
<1>4. CASE ~group.aborted
  <2>1. UNCHANGED log /\ at' = "group"
    BY <1>4 DEF EndGroup
  <2> QED BY <1>1, <2>1, ReadsStay DEF Reached
<1> QED BY <1>3, <1>4

\* Every step keeps what the scans read.
LEMMA ReadsKept ==
    ASSUME SchedulerInv, LogInv, ReadsLog, Next
    PROVE  ReadsLog'
<1>1. CASE StartGroup
  <2>1. CASE signal
    BY <1>1, <2>1, ReadsStay DEF StartGroup, Reached
  <2>2. CASE ~signal
    <3>1. /\ next = started /\ at = "group" /\ at' = "prepare"
          /\ log' = log \o CallEvents(next + 1) /\ started' = next + 1
          /\ UNCHANGED committed /\ next + 1 \in Calls
      BY <1>1, <2>2, CallsFacts
         DEF StartGroup, StartCall, SchedulerInv, GroupInv, TypeInv, TypeOK,
             Calls
    <3> QED BY <3>1, ReadsStart
  <2> QED BY <2>1, <2>2
<1>2. CASE FillPool
  <2>1. FillEffect
    BY <1>2, FillFacts DEF SchedulerInv
  <2>2. CASE started' = started + 1 /\ StartsAnother
               /\ log' = log \o CallEvents(started + 1) /\ at' = "prepare"
    <3>1. started + 1 \in Calls
      BY <2>2, CallsFacts
         DEF StartsAnother, SchedulerInv, TypeInv, TypeOK, Calls
    <3> QED BY <2>1, <2>2, <3>1, ReadsStart DEF FillEffect
  <2>3. CASE UNCHANGED <<log, started>> /\ at' = "race"
    BY <2>1, <2>3, ReadsStay DEF FillEffect, Reached
  <2> QED BY <2>1, <2>2, <2>3 DEF FillEffect
<1>3. ASSUME NEW i \in Calls,
             CommitFinal(i) \/ \E fails \in BOOLEAN : Finalized(i, fails)
      PROVE  ReadsLog'
  <2>1. CommitEffect(i)
    BY <1>3, CommitFacts DEF SchedulerInv
  <2> QED BY <2>1, ReadsResult
<1>4. CASE EndGroup
  BY <1>4, ReadsSkips
<1>5. CASE Return
  <2>1. started = NCalls /\ committed = NCalls /\ at # "done"
    BY <1>5 DEF Return, SchedulerInv, GroupInv
  <2> QED BY <1>5, <2>1, ReadsStay DEF Return, Reached
<1>6. ASSUME UNCHANGED <<log, started, committed>>,
             UNCHANGED at \/ (at # "done" /\ at' # "done")
      PROVE  ReadsLog'
  BY <1>6, ReadsStay DEF Reached
<1>7. ASSUME NEW i \in Calls,
             \/ DispatchStep(i) \/ Reclassify(i) \/ Race(i)
             \/ \E kind \in Kinds \cup {"dispatch"}, code \in ResultCodes :
                   Prepared(kind, code)
      PROVE  ReadsLog'
  BY <1>6, <1>7 DEF DispatchStep, BodyStarts, WrapperSettles, BodySettles,
     DispatchRejects, Reclassify, Race, Prepared
<1>8. CASE Throws \/ StartFinalize \/ CommitsDone \/ Fail \/ Abort
  BY <1>6, <1>8 DEF Throws, StartFinalize, CommitsDone, Committing, Fail, Abort
<1>9. PICK i : i \in Calls
  BY CallsFacts DEF Calls
<1> QED
  BY <1>1, <1>2, <1>3, <1>4, <1>5, <1>7, <1>8, <1>9
     DEF Next, SchedulerStep, Environment

\* Steps that write no event and invoke no body.
LEMMA InvokedStays ==
    ASSUME InvokedInv, UNCHANGED <<log, invoked>>,
           \A i \in invoked :
              /\ stage'[i] \in {"body", "settled"}
              /\ slot'[i].kind # "empty" =>
                    slot'[i].code # "TOOL_ABORTED_BEFORE_DISPATCH"
    PROVE  InvokedInv'
BY DEF InvokedInv

\* The events of a step that are not results of an invoked call, or do not
\* deny it, leave the log truthful.
LEMMA InvokedGrows ==
    ASSUME InvokedInv, UNCHANGED <<invoked, stage>>,
           log \in Seq(Events), NEW tail \in Seq(Events), log' = log \o tail,
           \A k \in 1..Len(tail) :
              tail[k].type = "tool/result" /\ tail[k].call \in invoked =>
                  tail[k].code # "TOOL_ABORTED_BEFORE_DISPATCH",
           \A i \in invoked : slot'[i].kind # "empty" =>
              slot'[i].code # "TOOL_ABORTED_BEFORE_DISPATCH"
    PROVE  InvokedInv'
<1>1. /\ log' \in Seq(Events) /\ Len(log') = Len(log) + Len(tail)
      /\ \A k \in 1..Len(log) : log'[k] = log[k]
      /\ \A k \in 1..Len(tail) : log'[Len(log) + k] = tail[k]
  BY Concatenation
<1>2. \A k \in 1..Len(log') : \/ k \in 1..Len(log)
                              \/ k - Len(log) \in 1..Len(tail)
                                 /\ k = Len(log) + (k - Len(log))
  BY <1>1
<1>3. ASSUME NEW k \in 1..Len(log'), log'[k].type = "tool/result",
             log'[k].call \in invoked
      PROVE  log'[k].code # "TOOL_ABORTED_BEFORE_DISPATCH"
  <2>1. CASE k \in 1..Len(log)
    BY <1>1, <1>3, <2>1 DEF InvokedInv
  <2>2. CASE k - Len(log) \in 1..Len(tail) /\ k = Len(log) + (k - Len(log))
    <3>1. log'[k] = tail[k - Len(log)]
      BY <1>1, <2>2
    <3> QED BY <1>3, <2>2, <3>1
  <2> QED BY <1>2, <2>1, <2>2
<1> QED BY <1>3 DEF InvokedInv

LEMMA InvokedStart ==
    ASSUME SchedulerInv, LogInv, InvokedInv, NEW i \in Calls,
           stage[i] = "waiting", stage' = [stage EXCEPT ![i] = "preparing"],
           log' = log \o CallEvents(i), UNCHANGED <<invoked, slot>>
    PROVE  InvokedInv'
<1>1. i \notin invoked
  BY DEF InvokedInv
<1>2. \A j \in invoked : stage'[j] \in {"body", "settled"}
  BY <1>1 DEF InvokedInv, SchedulerInv, TypeInv, TypeOK
<1>3. ToolCall(1, 1, i) \in Events
  BY DEF Events
<1> DEFINE e == ToolCall(1, 1, i)
<1>4. e.type = "tool/call" /\ e \in Events
  BY <1>3 DEF ToolCall
<1> HIDE DEF e
<1>5. /\ log \in Seq(Events) /\ log' = Append(log, e)
  BY <1>4 DEF CallEvents, LogInv, e
<1>6. /\ Len(log') = Len(log) + 1 /\ log'[Len(log) + 1] = e
      /\ \A k \in 1..Len(log) : log'[k] = log[k]
  BY <1>4, <1>5, AppendProperties
<1>7. \A k \in 1..Len(log) + 1 : k \in 1..Len(log) \/ k = Len(log) + 1
  BY <1>5
<1> QED BY <1>2, <1>4, <1>6, <1>7 DEF InvokedInv

\* A result tells of an invoked call that it was invoked.
LEMMA CommitTells ==
    ASSUME SchedulerInv, LogInv, InvokedInv, NEW i \in Calls,
           CommitFinal(i) \/ \E fails \in BOOLEAN : Finalized(i, fails)
    PROVE  InvokedInv'
<1> DEFINE denies == "TOOL_ABORTED_BEFORE_DISPATCH"
<1>1. slot[i].code \in ResultCodes
  BY DEF SchedulerInv, TypeInv, TypeOK
<1>2. PICK code \in ResultCodes :
         /\ log' = Append(log, ToolResult(1, 1, i, code))
         /\ i \in invoked => code # denies
  <2>1. CASE CommitFinal(i)
    BY <1>1, <2>1 DEF CommitFinal, Commits, InvokedInv
  <2>2. ASSUME NEW fails \in BOOLEAN, Finalized(i, fails)
        PROVE  \E code \in ResultCodes :
                  /\ log' = Append(log, ToolResult(1, 1, i, code))
                  /\ i \in invoked => code # denies
    <3> DEFINE code == IF fails THEN "ERROR" ELSE Cancelled(i, slot[i].code)
    <3>1. code \in ResultCodes /\ (i \in invoked => code # denies)
      BY <1>1, <2>2 DEF Cancelled, InvokedInv, Finalized
    <3>2. log' = Append(log, ToolResult(1, 1, i, code))
      BY <2>2 DEF Finalized, Commits
    <3> HIDE DEF code
    <3> QED BY <3>1, <3>2
  <2> QED BY <2>1, <2>2
<1>3. /\ UNCHANGED <<invoked, stage>>
      /\ slot' = [slot EXCEPT ![i] = EmptySlot]
  BY DEF CommitFinal, Finalized, Commits
<1>4. \A j \in invoked : slot'[j].kind # "empty" => slot'[j].code # denies
  BY <1>3 DEF InvokedInv, SchedulerInv, TypeInv, TypeOK
<1> DEFINE e == ToolResult(1, 1, i, code)
<1>5. e.type = "tool/result" /\ e.call = i /\ e.code = code /\ e \in Events
  BY DEF ToolResult, Events
<1>6. log \in Seq(Events) /\ log' = log \o <<e>> /\ <<e>> \in Seq(Events)
  <2>1. log \in Seq(Events) /\ log' = Append(log, e)
    BY <1>2 DEF LogInv
  <2> HIDE DEF e
  <2> QED BY <1>5, <2>1
<1> HIDE DEF e
<1>7. \A k \in 1..Len(<<e>>) : <<e>>[k] = e
  OBVIOUS
<1>8. \A k \in 1..Len(<<e>>) :
         <<e>>[k].type = "tool/result" /\ <<e>>[k].call \in invoked =>
             <<e>>[k].code # denies
  BY <1>2, <1>5, <1>7
<1> QED BY <1>3, <1>4, <1>6, <1>8, InvokedGrows

\* The skipped calls never started.
LEMMA SkipsTell ==
    ASSUME SchedulerInv, LogInv, InvokedInv, EndGroup
    PROVE  InvokedInv'
<1>1. UNCHANGED <<invoked, stage, slot>>
  BY DEF EndGroup
<1>2. CASE group.aborted
  <2>1. PICK m \in Nat : /\ m = NCalls - started
                         /\ SkippedEvents(Skipped) = SkippedTail(started, m)
    BY SkippedIsTail
  <2>2. started \in Nat /\ started + m = NCalls /\ log \in Seq(Events)
    BY <2>1, CallsFacts DEF SchedulerInv, TypeInv, TypeOK, LogInv
  <2> DEFINE tail == SkippedTail(started, m)
  <2>3. tail \in Seq(Events) /\ Len(tail) = 2 * m /\ log' = log \o tail
    BY <1>2, <2>1, <2>2, SkippedTailType DEF EndGroup
  <2>4. ASSUME NEW k \in 1..2 * m
        PROVE  tail[k].call \notin invoked
    <3>1. (k + 1) \div 2 \in Nat \ {0}
      OBVIOUS
    <3>2. tail[k].call = started + (k + 1) \div 2
      BY DEF SkippedTail, ToolCall, ToolResult
    <3>3. \A i \in invoked : i \in Calls /\ stage[i] # "waiting"
      BY DEF InvokedInv, SchedulerInv, TypeInv, TypeOK
    <3>4. \A i \in invoked : i \in Nat /\ ~(i > started)
      BY <3>3, CallsFacts DEF SchedulerInv, StageInv
    <3> HIDE DEF tail
    <3> QED BY <2>2, <3>1, <3>2, <3>4
  <2> HIDE DEF tail
  <2>5. \A k \in 1..Len(tail) :
           tail[k].type = "tool/result" /\ tail[k].call \in invoked =>
               tail[k].code # "TOOL_ABORTED_BEFORE_DISPATCH"
    BY <2>3, <2>4
  <2>6. \A i \in invoked : slot'[i].kind # "empty" =>
            slot'[i].code # "TOOL_ABORTED_BEFORE_DISPATCH"
    BY <1>1 DEF InvokedInv
  <2> QED BY <1>1, <2>2, <2>3, <2>5, <2>6, InvokedGrows
<1>3. CASE ~group.aborted
  <2>1. UNCHANGED log
    BY <1>3 DEF EndGroup
  <2> QED BY <1>1, <2>1, InvokedStays DEF InvokedInv
<1> QED BY <1>2, <1>3

\* A body is invoked of a call that has no result yet.
LEMMA BodyTells ==
    ASSUME SchedulerInv, LogInv, InvokedInv, NEW i \in Calls, BodyStarts(i)
    PROVE  InvokedInv'
<1>1. /\ stage[i] = "wrapped" /\ stage' = [stage EXCEPT ![i] = "body"]
      /\ invoked' = invoked \cup {i} /\ UNCHANGED <<log, slot>>
      /\ stage \in [Calls -> Stages]
  BY DEF BodyStarts, SchedulerInv, TypeInv, TypeOK
<1>2. slot[i].kind = "empty" /\ i \in inFlight /\ i > committed
  BY <1>1, CallsFacts DEF SchedulerInv, StageInv, TypeInv, TypeOK, Calls
<1>3. at # "done"
  BY <1>2 DEF SchedulerInv, GroupInv
<1>4. i \notin Logged(log, "tool/result")
  BY <1>2, <1>3, CallsFacts DEF LogInv, CallTypes, Reached, SchedulerInv,
     TypeInv, TypeOK, Calls
<1>5. \A k \in 1..Len(log) : log[k].type = "tool/result" => log[k].call # i
  BY <1>4 DEF Logged, CallsBefore, LogInv
<1> QED BY <1>1, <1>2, <1>5 DEF InvokedInv

\* Every step keeps the log truthful about the invoked calls.
LEMMA InvokedKept ==
    ASSUME SchedulerInv, LogInv, InvokedInv, Next
    PROVE  InvokedInv'
<1> DEFINE denies == "TOOL_ABORTED_BEFORE_DISPATCH"
<1>1. CASE StartGroup
  <2>1. CASE signal
    BY <1>1, <2>1, InvokedStays DEF StartGroup, InvokedInv
  <2>2. CASE ~signal
    <3>1. /\ next + 1 \in Calls /\ started = next
          /\ log' = log \o CallEvents(next + 1) /\ UNCHANGED <<invoked, slot>>
          /\ stage' = [stage EXCEPT ![next + 1] = "preparing"]
      BY <1>1, <2>2, CallsFacts
         DEF StartGroup, StartCall, SchedulerInv, GroupInv, TypeInv, TypeOK,
             Calls
    <3>2. stage[next + 1] = "waiting"
      BY <3>1, CallsFacts DEF SchedulerInv, StageInv, TypeInv, TypeOK
    <3> QED BY <3>1, <3>2, InvokedStart
  <2> QED BY <2>1, <2>2
<1>2. CASE FillPool
  <2>1. FillEffect /\ UNCHANGED <<invoked, slot>>
    BY <1>2, FillFacts DEF SchedulerInv, FillPool
  <2>2. CASE /\ log' = log \o CallEvents(started + 1) /\ StartsAnother
             /\ stage' = [stage EXCEPT ![started + 1] = "preparing"]
    <3>1. started + 1 \in Calls
      BY <2>2, CallsFacts
         DEF StartsAnother, SchedulerInv, TypeInv, TypeOK, Calls
    <3>2. stage[started + 1] = "waiting"
      BY <3>1, CallsFacts DEF SchedulerInv, StageInv, TypeInv, TypeOK
    <3> QED BY <2>1, <2>2, <3>1, <3>2, InvokedStart
  <2>3. CASE UNCHANGED <<log, stage>>
    BY <2>1, <2>3, InvokedStays DEF InvokedInv
  <2> QED BY <2>1, <2>2, <2>3 DEF FillEffect
<1>3. ASSUME NEW i \in Calls,
             CommitFinal(i) \/ \E fails \in BOOLEAN : Finalized(i, fails)
      PROVE  InvokedInv'
  BY <1>3, CommitTells
<1>4. CASE EndGroup
  BY <1>4, SkipsTell
<1>5. ASSUME NEW i \in Calls, BodyStarts(i)
      PROVE  InvokedInv'
  BY <1>5, BodyTells
<1>6. ASSUME NEW i \in Calls, NEW kind \in Kinds, NEW code \in ResultCodes,
             \/ WrapperSettles(i, kind, code)
             \/ BodySettles(i, kind, code) /\ code # denies
      PROVE  InvokedInv'
  <2>1. /\ UNCHANGED <<log, invoked>>
        /\ stage' = [stage EXCEPT ![i] = "settled"]
        /\ slot' = [slot EXCEPT ![i] = [kind |-> kind,
                                        code |-> Cancelled(i, code)]]
    BY <1>6 DEF WrapperSettles, BodySettles, Settles
  <2>2. i \in invoked => Cancelled(i, code) # denies
    <3>1. CASE stage[i] = "wrapped"
      BY <3>1 DEF InvokedInv
    <3>2. CASE BodySettles(i, kind, code) /\ code # denies
      BY <3>2 DEF Cancelled
    <3> QED BY <1>6, <3>1, <3>2 DEF WrapperSettles
  <2> HIDE DEF denies
  <2>3. \A j \in invoked : /\ stage'[j] \in {"body", "settled"}
                           /\ slot'[j].kind # "empty" => slot'[j].code # denies
    <3>1. /\ \A j \in invoked : j \in Calls
          /\ stage \in [Calls -> Stages] /\ slot \in [Calls -> Slots]
      BY DEF SchedulerInv, TypeInv, TypeOK
    <3>2. ASSUME NEW j \in invoked, j # i
          PROVE  stage'[j] = stage[j] /\ slot'[j] = slot[j]
      BY <2>1, <3>1, <3>2
    <3>3. stage'[i] = "settled" /\ slot'[i].code = Cancelled(i, code)
      BY <2>1, <3>1
    <3> QED BY <2>2, <3>2, <3>3 DEF InvokedInv, denies
  <2> QED BY <2>1, <2>3, InvokedStays DEF denies
<1>7. ASSUME NEW i \in Calls, DispatchRejects(i)
      PROVE  InvokedInv'
  <2>1. \A j \in invoked : stage'[j] \in {"body", "settled"}
    BY <1>7 DEF DispatchRejects, InvokedInv, SchedulerInv, TypeInv, TypeOK
  <2> QED BY <1>7, <2>1, InvokedStays DEF DispatchRejects, InvokedInv
<1>8. ASSUME NEW kind \in Kinds \cup {"dispatch"}, NEW code \in ResultCodes,
             Prepared(kind, code)
      PROVE  InvokedInv'
  <2>1. started \notin invoked
    BY <1>8 DEF Prepared, InvokedInv, SchedulerInv, StageInv
  <2>2. \A j \in invoked : stage'[j] = stage[j] /\ slot'[j] = slot[j]
    BY <1>8, <2>1 DEF Prepared, Settles, SchedulerInv, TypeInv, TypeOK
  <2>3. UNCHANGED <<log, invoked>>
    BY <1>8 DEF Prepared
  <2> QED BY <2>2, <2>3, InvokedStays DEF InvokedInv
<1>9. ASSUME UNCHANGED <<log, invoked, stage, slot>>
      PROVE  InvokedInv'
  BY <1>9, InvokedStays DEF InvokedInv
<1>10. CASE Throws \/ StartFinalize \/ CommitsDone \/ Fail \/ Return
               \/ Environment \/ \E i \in Calls : Race(i)
  BY <1>9, <1>10 DEF Throws, StartFinalize, CommitsDone, Fail, Return, Abort,
     Reclassify, Race, Environment
<1> QED
  BY <1>1, <1>2, <1>3, <1>4, <1>5, <1>6, <1>7, <1>8, <1>10
     DEF Next, SchedulerStep, DispatchStep

\* The log, its scans and the invoked calls, as every step leaves them.
THEOREM TruthInvariant == Spec => []TruthInv
<1>1. Init => ReadsLog /\ InvokedInv
  <2> SUFFICES ASSUME Init PROVE ReadsLog /\ InvokedInv
    OBVIOUS
  <2>1. ReadsLog
    BY InitReads DEF Init, ReadsLog, Reached
  <2>2. InvokedInv
    <3>1. invoked = {}
      BY DEF Init
    <3> QED BY <3>1 DEF InvokedInv
  <2> QED BY <2>1, <2>2
<1>2. LogAndSchedulerInv /\ ReadsLog /\ InvokedInv /\ [Next]_vars
         => (ReadsLog /\ InvokedInv)'
  <2>1. ASSUME ReadsLog, InvokedInv, UNCHANGED vars
        PROVE  (ReadsLog /\ InvokedInv)'
    <3>1. ReadsLog'
      BY <2>1, ReadsStay DEF vars, Reached
    <3>2. InvokedInv'
      BY <2>1 DEF vars, InvokedInv
    <3> QED BY <3>1, <3>2
  <2> QED BY <2>1, ReadsKept, InvokedKept DEF LogAndSchedulerInv
<1> QED BY <1>1, <1>2, LogInvariant, PTL DEF Spec, TruthInv

-----------------------------------------------------------------------------
(* The repair of a log that a crash cut, at any moment. *)

\* The result the repair gives to a call, when a calls were started.
Answer(a, i) == ToolResult(1, 1, i, IF i \in 1..a THEN "TOOL_OUTCOME_UNKNOWN"
                                                  ELSE "TOOL_NOT_STARTED")
Answers(a, b, m) == [j \in 1..m |-> Answer(a, b + j)]

LEMMA AnswersType ==
    ASSUME NEW a, NEW b \in Nat, NEW m \in Nat, b + m <= NCalls
    PROVE  Answers(a, b, m) \in Seq(AllEvents) /\ Len(Answers(a, b, m)) = m
<1>1. \A j \in 1..m : b + j \in Calls
  BY CallsFacts DEF Calls
<1>2. \A j \in 1..m : Answer(a, b + j) \in AllEvents
  BY <1>1 DEF Answer, AllEvents, RepairCodes
<1> HIDE DEF Answer
<1> QED BY <1>2 DEF Answers

\* The repair answers the rest of the calls, one after the other.
LEMMA AnswersAreRead ==
    ASSUME NEW s \in Seq(Events), NEW a \in 0..NCalls, NEW b \in 0..a,
           Reads(s, a, b)
    PROVE  \A m \in Nat : b + m <= NCalls =>
              Reads(s \o Answers(a, b, m), a, b + m)
<1> USE CallsFacts
<1> DEFINE S == {m \in Nat : b + m <= NCalls =>
                    Reads(s \o Answers(a, b, m), a, b + m)}
<1>1. 0 \in S
  <2>1. Answers(a, b, 0) = <<>>
    BY DEF Answers
  <2>2. s \o <<>> = s /\ b + 0 = b
    OBVIOUS
  <2> QED BY <2>1, <2>2
<1>2. ASSUME NEW m \in Nat, m \in S
      PROVE  m + 1 \in S
  <2>1. SUFFICES ASSUME b + (m + 1) <= NCalls
                 PROVE  Reads(s \o Answers(a, b, m + 1), a, b + (m + 1))
    OBVIOUS
  <2> DEFINE c == b + m
             tail == Answers(a, b, m)
             new == Answers(a, b, m + 1)
             e == Answer(a, c + 1)
  <2>2. /\ c \in 0..NCalls - 1 /\ b + (m + 1) = c + 1 /\ c + 1 \in Calls
    BY <2>1 DEF Calls
  <2>3. Reads(s \o tail, a, c)
    BY <1>2, <2>2
  <2>4. /\ tail \in Seq(AllEvents) /\ Len(tail) = m
        /\ new \in Seq(AllEvents) /\ Len(new) = m + 1 /\ b \in Nat
    BY <2>1, AnswersType
  <2>5. e \in AllEvents
    BY <2>2 DEF Answer, AllEvents, RepairCodes
  <2>6. new = Append(tail, e)
    <3>1. new[m + 1] = e /\ \A j \in 1..m : new[j] = tail[j]
      BY <2>2 DEF Answers
    <3> HIDE DEF new, tail, e
    <3> QED BY <2>4, <2>5, <3>1
  <2>7. s \in Seq(AllEvents)
    BY SmallLog
  <2> HIDE DEF new, tail, e
  <2>8. s \o new = Append(s \o tail, e) /\ s \o tail \in Seq(AllEvents)
    BY <2>4, <2>5, <2>6, <2>7
  <2>9. \E code : /\ e = ToolResult(1, 1, c + 1, code)
                  /\ c + 1 <= a \/ code = "TOOL_NOT_STARTED"
    <3>1. c + 1 <= a \/ c + 1 \notin 1..a
      BY <2>2
    <3> QED BY <3>1 DEF e, Answer
  <2> HIDE DEF c
  <2>10. Reads(Append(s \o tail, e), a, c + 1)
    BY <2>2, <2>3, <2>5, <2>8, <2>9, ResultIsRead
  <2> QED BY <2>2, <2>8, <2>10 DEF new
<1> HIDE DEF S
<1>3. \A m \in Nat : m \in S
  BY <1>1, <1>2, TraceScan!SetInduction
<1> QED BY <1>3 DEF S

LEMMA ClosersAre ==
    ASSUME NEW s, NEW a \in 0..NCalls, NEW b \in 0..a, Reads(s, a, b)
    PROVE  InterruptedTurnClosers(s)
              = Answers(a, b, NCalls - b) \o <<StepEnd(1, 1)>>
                   \o <<TurnEnd(1, "interrupted")>>
<1> DEFINE Result(c) == ToolResult(1, 1, c, IF c \in 1..a
                                            THEN "TOOL_OUTCOME_UNKNOWN"
                                            ELSE "TOOL_NOT_STARTED")
           results == [i \in 1..Len(Rest(b)) |-> Result(Rest(b)[i])]
<1>1. Scan(ScanAfter, FreshScan, s) = ScanAt(a, b)
  BY DEF Reads, RepairOf
<1>2. InterruptedTurnClosers(s) = results \o <<StepEnd(1, 1)>>
                                     \o <<TurnEnd(1, "interrupted")>>
  BY <1>1 DEF InterruptedTurnClosers, ScanAt
<1>3. b \in 0..NCalls
  BY CallsFacts
<1>4. /\ Len(Rest(b)) = NCalls - b
      /\ \A i \in 1..NCalls - b : Rest(b)[i] = b + i
  BY <1>3, RestFacts
<1>5. results = Answers(a, b, NCalls - b)
  BY <1>4 DEF Answers, Answer
<1> QED BY <1>2, <1>5, Zenon

\* A log is followed by a list of events, and two more.
LEMMA TwoMore ==
    ASSUME NEW s \in Seq(AllEvents), NEW w \in Seq(AllEvents),
           NEW e \in AllEvents, NEW f \in AllEvents
    PROVE  LET tail == w \o <<e>> \o <<f>>
           IN  /\ tail \in Seq(AllEvents) /\ Len(tail) = Len(w) + 2
               /\ \A j \in 1..Len(w) : tail[j] = w[j]
               /\ tail[Len(w) + 1] = e /\ tail[Len(w) + 2] = f
               /\ s \o tail = Append(Append(s \o w, e), f)
<1>1. w \o <<e>> = Append(w, e) /\ Append(w, e) \in Seq(AllEvents)
  OBVIOUS
<1>2. w \o <<e>> \o <<f>> = Append(Append(w, e), f)
  BY <1>1
<1> DEFINE tail == Append(Append(w, e), f)
<1>3. /\ tail \in Seq(AllEvents) /\ Len(tail) = Len(w) + 2
      /\ \A j \in 1..Len(w) : tail[j] = w[j]
      /\ tail[Len(w) + 1] = e /\ tail[Len(w) + 2] = f
  BY <1>1
<1>4. s \o tail = Append(Append(s \o w, e), f)
  <2>1. s \o Append(w, e) = Append(s \o w, e)
    OBVIOUS
  <2>2. s \o tail = Append(s \o Append(w, e), f)
    BY <1>1
  <2> QED BY <2>1, <2>2
<1> QED BY <1>2, <1>3, <1>4

\* The repair closes the step and the turn.
LEMMA RepairIsWellFormed ==
    ASSUME NEW s \in Seq(Events), NEW a \in 0..NCalls, NEW b \in 0..a,
           Reads(s, a, b)
    PROVE  WellFormed(s \o InterruptedTurnClosers(s))
<1> DEFINE e == StepEnd(1, 1)
           f == TurnEnd(1, "interrupted")
           w == Answers(a, b, NCalls - b)
           x == s \o w
<1>1. /\ NCalls - b \in Nat /\ b + (NCalls - b) = NCalls /\ b \in Nat
      /\ NCalls + 1..a = {} /\ b + (NCalls - b) <= NCalls
  BY CallsFacts
<1>2. Reads(x, a, NCalls)
  BY <1>1, AnswersAreRead
<1>3. w \in Seq(AllEvents) /\ s \in Seq(AllEvents)
  BY <1>1, AnswersType, SmallLog
<1>4. e \in AllEvents /\ f \in AllEvents
  BY DEF AllEvents
<1> HIDE DEF w
<1>5. x \in Seq(AllEvents)
  BY <1>3
<1> DEFINE t1 == [openTurn |-> 1, openStep |-> 0, nextTurn |-> 1,
                  nextStep |-> 1 + 1, pending |-> {}, ok |-> TRUE]
<1>6. TraceAfter(TraceAt({}), e) = t1
  <2>1. EventAllowed(TraceAt({}), e)
    BY DEF EventAllowed, TraceAt, StepEnd, InOpenStep
  <2>2. e.type = "step/end"
    BY DEF StepEnd
  <2> HIDE DEF e
  <2> QED BY <2>1, <2>2 DEF TraceAfter, TraceAt
<1>7. TraceAfter(t1, f).ok
  <2>1. EventAllowed(t1, f)
    BY DEF EventAllowed, TurnEnd
  <2> QED BY <2>1 DEF TraceAfter, TurnEnd
<1>8. s \o InterruptedTurnClosers(s) = Append(Append(x, e), f)
  <2>1. InterruptedTurnClosers(s) = w \o <<e>> \o <<f>>
    BY ClosersAre DEF w
  <2> HIDE DEF e, f
  <2>2. s \o (w \o <<e>> \o <<f>>) = Append(Append(s \o w, e), f)
    BY <1>3, <1>4, TwoMore
  <2> QED BY <2>1, <2>2
<1> HIDE DEF x, e, f, t1
<1>9. TraceOf(x) = TraceAt({})
  BY <1>1, <1>2 DEF Reads
<1>10. TraceOf(Append(x, e)) = t1 /\ Append(x, e) \in Seq(AllEvents)
  BY <1>4, <1>5, <1>6, <1>9, ScansFollow
<1>11. TraceOf(Append(Append(x, e), f)).ok
  BY <1>4, <1>7, <1>10, ScansFollow
<1> QED BY <1>8, <1>11 DEF WellFormed

LEMMA ReachedFacts ==
    ASSUME SchedulerInv
    PROVE  /\ Reached("tool/call") \in 0..NCalls
           /\ Reached("tool/result") \in 0..Reached("tool/call")
BY CallsFacts DEF Reached, SchedulerInv, StageInv, TypeInv, TypeOK

\* The events of a repaired log: those of the log, the answers, the closers.
RepairedAs(z, a, b) ==
    /\ Len(z) = Len(log) + (NCalls - b) + 2
    /\ \A k \in 1..Len(log) : z[k] = log[k]
    /\ \A j \in 1..NCalls - b : z[Len(log) + j] = Answer(a, b + j)
    /\ \A k \in {Len(log) + (NCalls - b) + 1, Len(log) + (NCalls - b) + 2} :
          z[k].type # "tool/result"

LEMMA RepairedFacts ==
    ASSUME log \in Seq(Events), NEW a \in 0..NCalls, NEW b \in 0..a,
           Reads(log, a, b)
    PROVE  RepairedAs(log \o InterruptedTurnClosers(log), a, b)
<1> DEFINE e == StepEnd(1, 1)
           f == TurnEnd(1, "interrupted")
           m == NCalls - b
           w == Answers(a, b, m)
           tail == w \o <<e>> \o <<f>>
           z == log \o tail
           n == Len(log)
<1>1. m \in Nat /\ b \in Nat /\ b + m <= NCalls
  BY CallsFacts
<1>2. w \in Seq(AllEvents) /\ Len(w) = m /\ log \in Seq(AllEvents)
  BY <1>1, AnswersType, SmallLog
<1>3. e \in AllEvents /\ f \in AllEvents
      /\ e.type # "tool/result" /\ f.type # "tool/result"
  BY DEF AllEvents, StepEnd, TurnEnd
<1>4. \A j \in 1..m : w[j] = Answer(a, b + j)
  BY DEF Answers
<1>5. InterruptedTurnClosers(log) = tail
  BY ClosersAre
<1> HIDE DEF w, e, f, m
<1>6. /\ tail \in Seq(AllEvents) /\ Len(tail) = m + 2
      /\ \A j \in 1..m : tail[j] = w[j]
      /\ tail[m + 1] = e /\ tail[m + 2] = f
  <2>1. LET x == w \o <<e>> \o <<f>>
        IN  /\ x \in Seq(AllEvents) /\ Len(x) = Len(w) + 2
            /\ \A j \in 1..Len(w) : x[j] = w[j]
            /\ x[Len(w) + 1] = e /\ x[Len(w) + 2] = f
    BY <1>2, <1>3, TwoMore
  <2> QED BY <1>2, <2>1
<1> HIDE DEF tail
<1>7. /\ Len(z) = n + (m + 2) /\ n \in Nat
      /\ \A k \in 1..n : z[k] = log[k]
      /\ \A j \in 1..m + 2 : z[n + j] = tail[j]
  <2>1. log \in Seq(AllEvents) /\ tail \in Seq(AllEvents)
    BY <1>2, <1>6
  <2>2. n \in Nat /\ Len(tail) = m + 2
    BY <1>6, <2>1
  <2>3. /\ Len(log \o tail) = Len(log) + Len(tail)
        /\ \A k \in 1..Len(log) : (log \o tail)[k] = log[k]
        /\ \A j \in 1..Len(tail) : (log \o tail)[Len(log) + j] = tail[j]
    BY <2>1, Concatenation
  <2>. QED
    BY <2>1, <2>2, <2>3
<1> HIDE DEF z, n
<1>8. \A j \in 1..m : z[n + j] = Answer(a, b + j)
  <2>1. \A j \in 1..m : j \in 1..m + 2
    BY <1>1
  <2> QED BY <1>4, <1>6, <1>7, <2>1
<1>9. z[n + m + 1] = e /\ z[n + m + 2] = f
  <2>1. /\ m + 1 \in 1..m + 2 /\ m + 2 \in 1..m + 2
        /\ n + m + 1 = n + (m + 1) /\ n + m + 2 = n + (m + 2)
    BY <1>1, <1>7
  <2> QED BY <1>6, <1>7, <2>1
<1>10. Len(z) = n + m + 2
  BY <1>1, <1>7
<1>11. RepairedAs(z, a, b)
  BY <1>3, <1>7, <1>8, <1>9, <1>10 DEF RepairedAs, n, m
<1> QED BY <1>5, <1>11 DEF z

\* Whenever the process dies, the repaired transcript is well formed,
\* answers every call once, and never says of a tool whose body was invoked
\* that it was not started or not dispatched.
THEOREM TranscriptIsTrue == Spec => []TranscriptTellsTruth
<1>1. TruthInv => TranscriptTellsTruth
  <2> SUFFICES ASSUME TruthInv PROVE TranscriptTellsTruth
    OBVIOUS
  <2> DEFINE a == Reached("tool/call")
             b == Reached("tool/result")
             n == Len(log)
             z == log \o InterruptedTurnClosers(log)
  <2>1. /\ a \in 0..NCalls /\ b \in 0..a /\ Reads(log, a, b)
        /\ log \in Seq(Events) /\ LogInv /\ SchedulerInv /\ InvokedInv
    BY ReachedFacts DEF TruthInv, LogAndSchedulerInv, ReadsLog, LogInv
  <2>2. WellFormed(z)
    BY <2>1, RepairIsWellFormed
  <2>3. RepairedAs(z, a, b)
    BY <2>1, RepairedFacts
  <2>4. \A i \in Calls :
           /\ i <= b => \E k \in 1..n : ResultsOf(log, i) = {k}
           /\ i > b => ResultsOf(log, i) = {}
    <3>1. b \in Nat
      BY <2>1
    <3> QED BY <2>1, <3>1, OneResult
  <2>5. \A i \in invoked : i \in Calls /\ i <= a
    <3>1. \A i \in invoked : i \in Calls /\ ~(i > started)
      BY <2>1 DEF InvokedInv, SchedulerInv, TypeInv, TypeOK, StageInv
    <3> QED BY <2>1, <3>1, CallsFacts DEF Reached, SchedulerInv, TypeInv, TypeOK
  <2>6. ASSUME NEW k \in 1..n, log[k].type = "tool/result"
        PROVE  log[k].call \in 1..b /\ log[k].code # "TOOL_NOT_STARTED"
    <3>1. log[k].call \in Logged(log, "tool/result")
      BY <2>6 DEF Logged, CallsBefore
    <3>2. log[k] \in Events
      BY <2>1
    <3> QED BY <2>1, <2>6, <3>1, <3>2
         DEF LogInv, CallTypes, Events, TurnStart, StepStart,
             AssistantMessage, ToolCall, ToolResult
  <2> HIDE DEF a, b, z
  <2>7. ASSUME NEW k \in 1..Len(z)
        PROVE  \/ k \in 1..n /\ z[k] = log[k]
               \/ \E j \in 1..NCalls - b : k = n + j /\ z[k] = Answer(a, b + j)
               \/ z[k].type # "tool/result"
    <3>1. \/ k \in 1..n
          \/ k - n \in 1..NCalls - b /\ k = n + (k - n)
          \/ k \in {n + (NCalls - b) + 1, n + (NCalls - b) + 2}
      <4>1. n \in Nat /\ NCalls - b \in Nat
        BY <2>1, CallsFacts
      <4>2. k \in 1..n + (NCalls - b) + 2
        BY <2>3 DEF RepairedAs
      <4> HIDE DEF n
      <4> QED BY <4>1, <4>2
    <3> QED BY <2>3, <3>1 DEF RepairedAs
  <2>8. \A i : /\ Answer(a, i).type = "tool/result" /\ Answer(a, i).call = i
               /\ i \in 1..a => Answer(a, i).code = "TOOL_OUTCOME_UNKNOWN"
    BY DEF Answer, ToolResult
  <2>9. ASSUME NEW i \in Calls
        PROVE  Cardinality(ResultsOf(z, i)) = 1
    <3>1. CASE i <= b
      <4>1. PICK k \in 1..n : ResultsOf(log, i) = {k}
        BY <2>4, <3>1
      <4>2. \A l \in ResultsOf(z, i) : l = k
        <5>1. ASSUME NEW l \in 1..Len(z), z[l].type = "tool/result",
                     z[l].call = i
              PROVE  l = k
          <6>1. CASE l \in 1..n /\ z[l] = log[l]
            BY <4>1, <5>1, <6>1 DEF ResultsOf
          <6>2. ASSUME NEW j \in 1..NCalls - b, z[l] = Answer(a, b + j)
                PROVE  FALSE
            BY <2>1, <2>8, <3>1, <5>1, <6>2, CallsFacts
          <6> QED BY <2>7, <5>1, <6>1, <6>2
        <5> QED BY <5>1 DEF ResultsOf
      <4>3. k \in ResultsOf(z, i)
        <5>1. k \in 1..Len(z) /\ z[k] = log[k]
          BY <2>1, <2>3, <4>1, CallsFacts, SMTT(30) DEF RepairedAs
        <5> QED BY <4>1, <5>1 DEF ResultsOf
      <4>4. ResultsOf(z, i) = {k}
        BY <4>2, <4>3
      <4> QED BY <4>4, FS_Singleton
    <3>2. CASE i > b
      <4>1. PICK j \in 1..NCalls - b : b + j = i
        <5>1. i - b \in 1..NCalls - b /\ b + (i - b) = i
          BY <2>1, <3>2, CallsFacts DEF Calls
        <5> QED BY <5>1
      <4>2. \A l \in ResultsOf(z, i) : l = n + j
        <5>1. ASSUME NEW l \in 1..Len(z), z[l].type = "tool/result",
                     z[l].call = i
              PROVE  l = n + j
          <6>1. CASE l \in 1..n /\ z[l] = log[l]
            BY <2>4, <3>2, <5>1, <6>1 DEF ResultsOf
          <6>2. ASSUME NEW h \in 1..NCalls - b, l = n + h,
                       z[l] = Answer(a, b + h)
                PROVE  l = n + j
            <7>1. b + h = i
              BY <2>8, <5>1, <6>2
            <7> QED BY <2>1, <4>1, <6>2, <7>1, CallsFacts
          <6> QED BY <2>7, <5>1, <6>1, <6>2
        <5> QED BY <5>1 DEF ResultsOf
      <4>3. n + j \in ResultsOf(z, i)
        <5>1. n + j \in 1..Len(z) /\ z[n + j] = Answer(a, i)
          BY <2>1, <2>3, <4>1, CallsFacts DEF RepairedAs
        <5> QED BY <2>8, <5>1 DEF ResultsOf
      <4>4. ResultsOf(z, i) = {n + j}
        BY <4>2, <4>3
      <4> QED BY <4>4, FS_Singleton
    <3> QED BY <2>1, <3>1, <3>2, CallsFacts
  <2>10. ASSUME NEW i \in invoked, NEW k \in 1..Len(z), k \in ResultsOf(z, i)
         PROVE  z[k].code \notin {"TOOL_NOT_STARTED",
                                  "TOOL_ABORTED_BEFORE_DISPATCH"}
    <3>1. z[k].type = "tool/result" /\ z[k].call = i /\ i \in Calls /\ i <= a
      BY <2>5, <2>10 DEF ResultsOf
    <3>2. CASE k \in 1..n /\ z[k] = log[k]
      <4>1. log[k].code # "TOOL_NOT_STARTED"
        BY <2>6, <3>1, <3>2
      <4>2. log[k].code # "TOOL_ABORTED_BEFORE_DISPATCH"
        BY <2>1, <3>1, <3>2 DEF InvokedInv
      <4> QED BY <3>2, <4>1, <4>2
    <3>3. ASSUME NEW j \in 1..NCalls - b, z[k] = Answer(a, b + j)
          PROVE  z[k].code = "TOOL_OUTCOME_UNKNOWN"
      <4>1. i \in 1..a /\ z[k] = Answer(a, i)
        BY <2>1, <2>8, <3>1, <3>3, CallsFacts DEF Calls
      <4> QED BY <2>8, <4>1
    <3> QED BY <2>7, <3>1, <3>2, <3>3
  <2> QED BY <2>2, <2>9, <2>10 DEF TranscriptTellsTruth, z
<1> QED BY <1>1, TruthInvariant, PTL
=============================================================================
