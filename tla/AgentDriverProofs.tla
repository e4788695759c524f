------------------------- MODULE AgentDriverProofs -------------------------
(***************************************************************************)
(* The agent driver, for any messages and bounds: what it owes when it     *)
(* goes idle.                                                              *)
(*                                                                         *)
(* The argument: a message is owed while it is queued (OwedPending); what  *)
(* the driver will not look at again has a wake latched behind it, or a    *)
(* replay of one, at every moment between two awaits (WakeKept).           *)
(***************************************************************************)
EXTENDS AgentDriver, SequenceTheorems, TLAPS

\* A driver runs exactly while it owns the phase; an idle agent has neither
\* an aborted signal nor a latched wake.
PhaseInv ==
    /\ phase.kind = "running" <=> driver.at # "off"
    /\ phase.kind = "idle" => phase.abort = "none" /\ ~phase.wakeRequested

\* kick() has converged with a latched wake and its listeners run.
ReplayIn(calls) == \E i \in 1..Len(calls) : calls[i].call = "replay"

ReplayWaits == ReplayIn(frames)

OwedPending == \A m \in owed : Pending(inbox, m)

\* Whoever lets go of the agent, or cannot serve an accepted message, leaves
\* a wake behind.
WakeKept ==
    /\ phase.kind = "idle" => owed \subseteq stranded \/ ReplayWaits
    /\ phase.kind = "maintenance" =>
          owed \subseteq stranded \/ phase.wakeRequested \/ ReplayWaits
    /\ phase.kind = "running" /\ Aborted =>
          owed \subseteq stranded \/ phase.wakeRequested
    /\ driver.at = "returning" /\ ~Aborted => owed \subseteq stranded
    /\ phase.abort = "disposed" => owed = {}

DriverInv == TypeOK /\ PhaseInv /\ OwedPending /\ WakeKept

-----------------------------------------------------------------------------
(* The inbox.  What a mutation does not take stays pending. *)

LEMMA AppendKeeps ==
    ASSUME NEW box \in Inboxes, NEW t \in Targets, NEW m \in Messages
    PROVE  /\ Appended(box, t, m) \in Inboxes
           /\ \A x : Pending(box, x) => Pending(Appended(box, t, m), x)
<1>. DEFINE new == Appended(box, t, m)
<1>1. /\ new \in Inboxes
      /\ new[t] = Append(box[t], m)
      /\ \A u \in Targets : u # t => new[u] = box[u]
  BY DEF Appended, Inboxes
<1>2. ASSUME NEW x, NEW u \in Targets, InSeq(x, box[u])
      PROVE  InSeq(x, new[u])
  <2>1. box[u] \in Seq(Messages) /\ box[t] \in Seq(Messages)
    BY DEF Inboxes
  <2>. HIDE DEF new
  <2>2. CASE u = t
    <3>1. PICK i \in 1..Len(box[t]) : box[t][i] = x
      BY <1>2, <2>2 DEF InSeq
    <3>2. new[t][i] = x /\ i \in 1..Len(new[t])
      BY <1>1, <2>1, <3>1
    <3>. QED
      BY <2>2, <3>2 DEF InSeq
  <2>3. CASE u # t
    BY <1>1, <1>2, <2>3
  <2>. QED
    BY <2>2, <2>3
<1>. QED
  BY <1>1, <1>2 DEF Pending

LEMMA SpliceKeeps ==
    ASSUME NEW list \in Seq(Messages), NEW i \in 1..Len(list),
           NEW inserted \in Seq(Messages)
    PROVE  LET new == SpliceAt(list, i - 1, 1, inserted) IN
           /\ new \in Seq(Messages)
           /\ \A x : InSeq(x, list) /\ x # list[i] => InSeq(x, new)
<1>. DEFINE left == SubSeq(list, 1, i - 1)
            right == SubSeq(list, i + 1, Len(list))
            new == left \o inserted \o right
<1>1. /\ left \in Seq(Messages) /\ Len(left) = i - 1
      /\ \A j \in 1..i - 1 : left[j] = list[j]
  OBVIOUS
<1>2. /\ right \in Seq(Messages) /\ Len(right) = Len(list) - i
      /\ \A j \in 1..Len(list) - i : right[j] = list[i + j]
  OBVIOUS
<1>3. SpliceAt(list, i - 1, 1, inserted) = new
  <2>1. (i - 1) + 1 + 1 = i + 1
    OBVIOUS
  <2>. QED
    BY <2>1 DEF SpliceAt
<1>. HIDE DEF left, right
<1>4. /\ new \in Seq(Messages)
      /\ Len(new) = i - 1 + Len(inserted) + Len(list) - i
      /\ \A j \in 1..i - 1 : new[j] = left[j]
      /\ \A j \in 1..Len(list) - i :
            new[i - 1 + Len(inserted) + j] = right[j]
  <2>. DEFINE front == left \o inserted
  <2>1. /\ front \in Seq(Messages) /\ Len(front) \in Nat
        /\ Len(front) = i - 1 + Len(inserted)
        /\ \A j \in 1..i - 1 : front[j] = left[j]
    <3>0. Len(inserted) \in Nat
      OBVIOUS
    <3>1. /\ front \in Seq(Messages)
          /\ Len(front) = Len(left) + Len(inserted)
          /\ \A j \in 1..Len(left) + Len(inserted) :
                front[j] = IF j <= Len(left) THEN left[j]
                           ELSE inserted[j - Len(left)]
      BY <1>1, ConcatProperties
    <3>. HIDE DEF front, new
    <3>2. ASSUME NEW j \in 1..i - 1
          PROVE  front[j] = left[j]
      <4>1. j \in 1..Len(left) + Len(inserted) /\ j <= Len(left)
        BY <1>1, <3>0
      <4>. QED
        BY <3>1, <4>1
    <3>. QED
      BY <1>1, <3>0, <3>1, <3>2
  <2>2. new = front \o right
    BY DEF front
  <2>. HIDE DEF front, new
  <2>3. /\ new \in Seq(Messages)
        /\ Len(new) = Len(front) + Len(right)
        /\ \A j \in 1..Len(front) + Len(right) :
              new[j] = IF j <= Len(front) THEN front[j]
                       ELSE right[j - Len(front)]
    <3>1. front \in Seq(Messages) /\ right \in Seq(Messages)
      BY <1>2, <2>1
    <3>. QED
      BY <2>2, <3>1, ConcatProperties
  <2>4. ASSUME NEW j \in 1..i - 1
        PROVE  new[j] = left[j]
    <3>1. Len(inserted) \in Nat /\ Len(right) \in Nat
      BY <1>2
    <3>2. j \in 1..Len(front) + Len(right) /\ j <= Len(front)
      BY <2>1, <3>1
    <3>. QED
      BY <2>1, <2>3, <3>2
  <2>5. ASSUME NEW j \in 1..Len(list) - i
        PROVE  new[i - 1 + Len(inserted) + j] = right[j]
    <3>1. /\ Len(front) + j \in 1..Len(front) + Len(right)
          /\ ~(Len(front) + j <= Len(front))
          /\ (Len(front) + j) - Len(front) = j
      BY <1>2, <2>1
    <3>. QED
      BY <2>1, <2>3, <3>1
  <2>. QED
    BY <1>1, <1>2, <2>1, <2>3, <2>4, <2>5
<1>. HIDE DEF new
<1>5. ASSUME NEW x, InSeq(x, list), x # list[i]
      PROVE  InSeq(x, new)
  <2>1. PICK j \in 1..Len(list) : list[j] = x
    BY <1>5 DEF InSeq
  <2>2. CASE j < i
    <3>1. new[j] = x /\ j \in 1..Len(new)
      BY <1>1, <1>4, <2>1, <2>2
    <3>. QED
      BY <3>1 DEF InSeq
  <2>3. CASE j > i
    <3>. DEFINE k == i - 1 + Len(inserted) + (j - i)
    <3>1. j - i \in 1..Len(list) - i
      BY <2>3
    <3>2. right[j - i] = x
      BY <1>2, <2>1, <3>1
    <3>3. new[k] = x /\ k \in 1..Len(new)
      BY <1>4, <3>1, <3>2
    <3>. QED
      BY <3>3 DEF InSeq
  <2>. QED
    BY <1>5, <2>1, <2>2, <2>3
<1>. QED
  BY <1>3, <1>4, <1>5

LEMMA LengthOf ==
    ASSUME NEW box \in Inboxes, NEW t \in Targets
    PROVE  /\ Len(box[t]) \in Nat
           /\ Len(box["next-turn"]) + Len(box["next-step"]) \in Nat
           /\ Len(box[t]) <= Len(box["next-turn"]) + Len(box["next-step"])
<1>1. \A u \in Targets : Len(box[u]) \in Nat
  BY DEF Inboxes
<1>2. /\ Len(box["next-turn"]) \in Nat /\ Len(box["next-step"]) \in Nat
      /\ t \in {"next-turn", "next-step"}
  BY <1>1, Zenon DEF Targets
<1>3. \A m, n \in Nat : m + n \in Nat /\ m <= m + n /\ n <= m + n
  OBVIOUS
<1>. QED
  BY <1>2, <1>3, Zenon

LEMMA PlaceOf ==
    ASSUME NEW box \in Inboxes, NEW m, Pending(box, m)
    PROVE  LET place == CHOOSE p \in Places(box, m) : TRUE IN
           /\ place[1] \in Targets
           /\ place[2] \in 1..Len(box[place[1]])
           /\ box[place[1]][place[2]] = m
<1>1. PICK t \in Targets : InSeq(m, box[t])
  BY DEF Pending
<1>2. PICK i \in 1..Len(box[t]) : box[t][i] = m
  BY <1>1 DEF InSeq
<1>. DEFINE total == Len(box["next-turn"]) + Len(box["next-step"])
<1>3. <<t, i>> \in Places(box, m)
  <2>1. Len(box[t]) \in Nat /\ total \in Nat /\ Len(box[t]) <= total
    BY LengthOf
  <2>. HIDE DEF total
  <2>2. i \in 1..total
    BY <2>1
  <2>3. <<t, i>> \in Targets \X (1..total)
    BY <2>2
  <2>4. /\ <<t, i>>[2] <= Len(box[<<t, i>>[1]])
        /\ box[<<t, i>>[1]][<<t, i>>[2]] = m
    BY <1>2, <2>1
  <2>. QED
    BY <2>3, <2>4, Zenon DEF Places, total
<1>. DEFINE place == CHOOSE p \in Places(box, m) : TRUE
<1>4. place \in Places(box, m)
  BY <1>3
<1>. HIDE DEF place
<1>5. /\ place \in Targets \X (1..total)
      /\ place[2] <= Len(box[place[1]]) /\ box[place[1]][place[2]] = m
  BY <1>4 DEF Places
<1>6. place[1] \in Targets /\ place[2] \in 1..total
  BY <1>5
<1>7. /\ place[1] \in Targets /\ place[2] \in 1..Len(box[place[1]])
      /\ box[place[1]][place[2]] = m
  <2>1. Len(box[place[1]]) \in Nat
    BY <1>6, LengthOf
  <2>. QED
    BY <1>5, <1>6, <2>1
<1>. QED
  BY <1>7 DEF place

LEMMA RespliceKeeps ==
    ASSUME NEW box \in Inboxes, NEW m, Pending(box, m),
           NEW inserted \in Seq(Messages)
    PROVE  /\ Respliced(box, m, inserted) \in Inboxes
           /\ \A x : Pending(box, x) /\ x # m
                     => Pending(Respliced(box, m, inserted), x)
<1>. DEFINE place == CHOOSE p \in Places(box, m) : TRUE
            t == place[1]
            i == place[2]
            new == Respliced(box, m, inserted)
<1>1. t \in Targets /\ i \in 1..Len(box[t]) /\ box[t][i] = m
  BY PlaceOf
<1>2. box \in [Targets -> Seq(Messages)]
  BY DEF Inboxes
<1>3. new = [box EXCEPT ![t] = SpliceAt(box[t], i - 1, 1, inserted)]
  BY DEF Respliced
<1>. HIDE DEF new, place
<1>4. LET list == SpliceAt(box[t], i - 1, 1, inserted) IN
      /\ list \in Seq(Messages)
      /\ \A x : InSeq(x, box[t]) /\ x # m => InSeq(x, list)
  BY <1>1, <1>2, SpliceKeeps
<1>5. /\ new \in [Targets -> Seq(Messages)]
      /\ new[t] = SpliceAt(box[t], i - 1, 1, inserted)
      /\ \A u \in Targets : u # t => new[u] = box[u]
  BY <1>1, <1>2, <1>3, <1>4
<1>6. ASSUME NEW x, x # m, NEW u \in Targets, InSeq(x, box[u])
      PROVE  InSeq(x, new[u])
  BY <1>4, <1>5, <1>6
<1>. QED
  BY <1>5, <1>6 DEF Pending, Inboxes, new

LEMMA EmptyHasNone ==
    /\ EmptyInbox \in Inboxes
    /\ \A box \in Inboxes : \A x : Pending(box, x) => HasPending(box)
<1>1. EmptyInbox \in Inboxes
  BY DEF EmptyInbox, Inboxes
<1>2. ASSUME NEW box \in Inboxes, NEW x, NEW t \in Targets,
             InSeq(x, box[t])
      PROVE  box[t] # <<>>
  BY <1>2 DEF InSeq
<1>. QED
  BY <1>1, <1>2 DEF Pending, HasPending

\* The batch of a step boundary is what the boundary takes.
LEMMA ClaimTakes ==
    ASSUME NEW box \in Inboxes, NEW target \in Targets
    PROVE  LET batch == Claimed(box, target) IN
           /\ batch \in Seq(Messages)
           /\ AfterClaim(box, target) \in Inboxes
           /\ \A x : (/\ Pending(box, x)
                      /\ x \notin {batch[i] : i \in 1..Len(batch)})
                         => Pending(AfterClaim(box, target), x)
<1>. DEFINE steps == box["next-step"]
            turns == box["next-turn"]
            one == OneTurn(box, target)
            batch == Claimed(box, target)
            left == AfterClaim(box, target)
            rest == SubSeq(turns, Len(one) + 1, Len(turns))
<1>1. steps \in Seq(Messages) /\ turns \in Seq(Messages)
  BY Zenon DEF Inboxes, Targets
<1>2. one = <<>> \/ (turns # <<>> /\ one = <<Head(turns)>>)
  BY Zenon DEF OneTurn
<1>3. batch = steps \o one
  BY Zenon DEF Claimed
<1>4. /\ left["next-step"] = <<>>
      /\ left["next-turn"] = rest
      /\ left = [t \in Targets |-> IF t = "next-step" THEN <<>> ELSE rest]
  <2>1. ASSUME NEW t \in Targets
        PROVE  (IF t = "next-step" THEN <<>>
                ELSE SubSeq(box[t], Len(one) + 1, Len(box[t])))
                  = (IF t = "next-step" THEN <<>> ELSE rest)
    BY Zenon DEF Targets
  <2>2. left = [t \in Targets |-> IF t = "next-step" THEN <<>> ELSE rest]
    BY <2>1, Zenon DEF AfterClaim
  <2>. QED
    BY <2>2, Zenon DEF Targets
<1>. HIDE DEF steps, turns, one, batch, left
<1>5. one \in Seq(Messages)
  <2>1. turns # <<>> => Head(turns) \in Messages
    BY <1>1
  <2>2. \A m \in Messages : <<m>> \in Seq(Messages)
    OBVIOUS
  <2>3. <<>> \in Seq(Messages)
    OBVIOUS
  <2>. QED
    BY <1>2, <2>1, <2>2, <2>3, Zenon
<1>6. /\ batch \in Seq(Messages) /\ Len(batch) = Len(steps) + Len(one)
      /\ \A i \in 1..Len(steps) + Len(one) :
            batch[i] = IF i <= Len(steps) THEN steps[i] ELSE one[i - Len(steps)]
  BY <1>1, <1>3, <1>5, ConcatProperties
<1>7. rest \in Seq(Messages)
  BY <1>1, <1>5
<1>8. left \in Inboxes
  BY <1>4, <1>7, <1>1 DEF Inboxes
<1>9. ASSUME NEW x, InSeq(x, steps)
      PROVE  x \in {batch[i] : i \in 1..Len(batch)}
  <2>1. PICK i \in 1..Len(steps) : steps[i] = x
    BY <1>9 DEF InSeq
  <2>2. i \in 1..Len(batch) /\ batch[i] = x
    BY <1>1, <1>5, <1>6, <2>1
  <2>. QED
    BY <2>2
<1>10. ASSUME NEW x, InSeq(x, turns), ~InSeq(x, rest)
       PROVE  x \in {batch[i] : i \in 1..Len(batch)}
  <2>1. PICK i \in 1..Len(turns) : turns[i] = x
    BY <1>10 DEF InSeq
  <2>2. CASE one = <<>>
    <3>1. Len(one) + 1 = 1
      BY <2>2
    <3>2. rest = turns
      BY <1>1, <3>1
    <3>. QED
      BY <1>10, <3>2
  <2>3. CASE turns # <<>> /\ one = <<Head(turns)>>
    <3>1. Len(one) = 1 /\ one[1] = turns[1]
      BY <1>1, <2>3
    <3>2. CASE i = 1
      <4>1. Len(steps) + 1 \in 1..Len(batch) /\ batch[Len(steps) + 1] = x
        BY <1>1, <1>5, <1>6, <2>1, <3>1, <3>2
      <4>. QED
        BY <4>1
    <3>3. CASE i # 1
      <4>1. /\ Len(rest) = Len(turns) - 1
            /\ \A j \in 1..Len(turns) - 1 : rest[j] = turns[j + 1]
        <5>1. rest = SubSeq(turns, 2, Len(turns))
          BY <3>1
        <5>. HIDE DEF rest
        <5>2. Len(turns) \in Nat /\ Len(turns) >= 1
          BY <1>1, <2>1
        <5>3. \A j \in 2..Len(turns) : turns[j] \in Messages
          BY <1>1
        <5>4. /\ Len(rest) = IF 2 <= Len(turns) THEN Len(turns) - 2 + 1 ELSE 0
              /\ \A j \in 1..Len(turns) - 2 + 1 : rest[j] = turns[2 + j - 1]
          BY <5>1, <5>2, <5>3, SubSeqProperties
        <5>5. Len(rest) = Len(turns) - 1
          <6>. DEFINE L == Len(turns)
                      K == Len(rest)
          <6>1. L \in Nat /\ L >= 1 /\ K = IF 2 <= L THEN L - 2 + 1 ELSE 0
            BY <5>2, <5>4, Zenon
          <6>. HIDE DEF L, K
          <6>2. K = L - 1
            BY <6>1
          <6>. QED
            BY <6>2 DEF L, K
        <5>6. ASSUME NEW j \in 1..Len(turns) - 1
              PROVE  rest[j] = turns[j + 1]
          <6>1. j \in 1..Len(turns) - 2 + 1 /\ 2 + j - 1 = j + 1
            BY <5>2
          <6>2. rest[j] = turns[2 + j - 1]
            BY <5>4, <6>1
          <6>. QED
            BY <6>1, <6>2
        <5>. QED
          BY <5>5, <5>6
      <4>2. i - 1 \in 1..Len(rest) /\ rest[i - 1] = x
        BY <1>1, <2>1, <3>3, <4>1
      <4>. QED
        BY <1>10, <4>2 DEF InSeq
    <3>. QED
      BY <3>2, <3>3
  <2>. QED
    BY <1>2, <2>2, <2>3
<1>11. ASSUME NEW x, Pending(box, x),
              x \notin {batch[i] : i \in 1..Len(batch)}
       PROVE  Pending(left, x)
  <2>1. InSeq(x, steps) \/ InSeq(x, turns)
    BY <1>11, Zenon DEF Pending, Targets, steps, turns
  <2>2. InSeq(x, rest)
    BY <2>1, <1>9, <1>10, <1>11, Zenon
  <2>. HIDE DEF rest
  <2>. QED
    BY <2>2, <1>4, Zenon DEF Pending, Targets
<1>. QED
  BY <1>6, <1>8, <1>11, ZenonT(60) DEF batch, left

-----------------------------------------------------------------------------
(* Small facts about the records. *)

Phases == [kind : {"idle", "maintenance", "running"},
           abort : {"none"} \cup Causes,
           turn : Nat, step : Nat, wakeRequested : BOOLEAN]

Drivers == [at : DriverPlaces, claimed : Seq(Messages), target : Targets,
            ends : Ends, depth : Nat]

Sends == [call : {"send"}, message : Messages, wake : BOOLEAN]

Cancels == [call : {"cancel"}, cause : Causes, left : SUBSET Targets]

Frames == Sends \cup [call : {"replay"}] \cup Cancels

Spending == [cancels : Nat, maintenance : Nat, refusals : Nat, unended : Nat]

LEMMA FreshPhases ==
    ASSUME NEW n \in Nat
    PROVE  /\ Idle(n) \in Phases /\ Running(n) \in Phases
           /\ Maintenance(n) \in Phases
           /\ Idle(n).kind = "idle" /\ Running(n).kind = "running"
           /\ Maintenance(n).kind = "maintenance"
           /\ Idle(n).abort = "none" /\ ~Idle(n).wakeRequested
           /\ Running(n).abort = "none" /\ Maintenance(n).abort = "none"
BY DEF Idle, Running, Maintenance, Phases, Causes

LEMMA FreshDrivers ==
    /\ NoDriver \in Drivers /\ NoDriver.at = "off"
    /\ \A place \in DriverPlaces : /\ DriverAt(place) \in Drivers
                                   /\ DriverAt(place).at = place
<1>1. <<>> \in Seq(Messages) /\ "off" \in DriverPlaces
  BY DEF DriverPlaces
<1>2. NoDriver \in Drivers /\ NoDriver.at = "off"
  BY <1>1 DEF NoDriver, Drivers, Targets, Ends
<1>. QED
  BY <1>2 DEF DriverAt, Drivers

\* The calls of listeners, innermost last.
LEMMA FramePushed ==
    ASSUME NEW calls \in Seq(Frames), NEW f \in Frames
    PROVE  /\ Append(calls, f) \in Seq(Frames)
           /\ ReplayIn(calls) => ReplayIn(Append(calls, f))
<1>. DEFINE longer == Append(calls, f)
<1>1. /\ longer \in Seq(Frames) /\ Len(longer) = Len(calls) + 1
      /\ \A i \in 1..Len(calls) : longer[i] = calls[i]
  OBVIOUS
<1>2. Len(calls) \in Nat
  OBVIOUS
<1>. HIDE DEF longer
<1>3. 1..Len(calls) \subseteq 1..Len(longer)
  BY <1>1, <1>2
<1>4. ReplayIn(calls) => ReplayIn(longer)
  BY <1>1, <1>3 DEF ReplayIn
<1>. QED
  BY <1>1, <1>4 DEF longer

LEMMA FramePopped ==
    ASSUME frames \in Seq(Frames), NEW call, Returned(call)
    PROVE  /\ Outer \in Seq(Frames)
           /\ frames[Len(frames)] \in Frames
           /\ frames[Len(frames)].call = call
           /\ call # "replay" /\ ReplayWaits => ReplayIn(Outer)
<1>1. Len(frames) \in Nat /\ Len(frames) # 0
  BY DEF Returned
<1>2. /\ frames[Len(frames)] \in Frames
      /\ frames[Len(frames)].call = call
  BY <1>1 DEF Returned
<1>3. \A i \in 1..Len(frames) - 1 : frames[i] \in Frames
  BY <1>1
<1>4. /\ Outer \in Seq(Frames)
      /\ Len(Outer) = Len(frames) - 1
      /\ \A i \in 1..Len(frames) - 1 : Outer[i] = frames[i]
  <2>. DEFINE n == Len(frames) - 1
  <2>1. /\ n \in Nat /\ n <= Len(frames)
        /\ \A i \in 1..n : frames[i] \in Frames
    BY <1>1, <1>3
  <2>2. /\ SubSeq(frames, 1, n) \in Seq(Frames)
        /\ Len(SubSeq(frames, 1, n)) = n
        /\ \A i \in 1..n : SubSeq(frames, 1, n)[i] = frames[i]
    <3>. HIDE DEF n
    <3>. QED
      BY <2>1
  <2>. QED
    BY <2>2 DEF Outer
<1>5. ASSUME call # "replay", NEW i \in 1..Len(frames),
             frames[i].call = "replay"
      PROVE  i \in 1..Len(Outer) /\ Outer[i].call = "replay"
  <2>1. i # Len(frames)
    BY <1>2, <1>5
  <2>. QED
    BY <1>1, <1>4, <1>5, <2>1
<1>. QED
  BY <1>2, <1>4, <1>5 DEF ReplayWaits, ReplayIn

LEMMA TypedParts ==
    TypeOK <=> /\ inbox \in Inboxes
               /\ phase \in Phases
               /\ driver \in Drivers
               /\ frames \in Seq(Frames)
               /\ unsent \subseteq Messages
               /\ spent \in Spending
               /\ owed \subseteq Messages
               /\ stranded \subseteq Messages
               /\ rewritten \subseteq Messages
BY DEF TypeOK, Inboxes, Phases, Drivers, Sends, Cancels, Frames, Spending

LEMMA TypedAfter ==
    ASSUME inbox' \in Inboxes, phase' \in Phases, driver' \in Drivers,
           frames' \in Seq(Frames), unsent' \subseteq Messages,
           spent' \in Spending,
           owed' \subseteq Messages, stranded' \subseteq Messages,
           rewritten' \subseteq Messages
    PROVE  TypeOK'
BY DEF TypeOK, Inboxes, Phases, Drivers, Sends, Cancels, Frames, Spending

LEMMA AllSettled ==
    ASSUME owed \subseteq Messages, stranded \subseteq Messages, SettleAll
    PROVE  owed' = {} /\ stranded' = {}
BY DEF SettleAll, Settle

LEMMA WakeEffect ==
    ASSUME phase \in Phases, driver \in Drivers, PhaseInv,
           frames' \in Seq(Frames), NEW afterAbort \in BOOLEAN, WakeDriver(afterAbort)
    PROVE  /\ phase' \in Phases /\ driver' \in Drivers
           /\ PhaseInv'
           /\ phase.kind = "idle" =>
                 /\ phase'.kind = "running" /\ phase'.abort = "none"
                 /\ driver'.at = "starting"
           /\ phase.kind # "idle" =>
                 /\ phase'.kind = phase.kind /\ phase'.abort = phase.abort
                 /\ phase.wakeRequested => phase'.wakeRequested
                 /\ Latches(afterAbort) => phase'.wakeRequested
                 /\ driver' = driver
<1>1. CASE phase.kind = "idle"
  <2>1. /\ phase' = Running(phase.turn)
        /\ driver' = [DriverAt("starting") EXCEPT !.depth = Len(frames')]
    BY <1>1 DEF WakeDriver
  <2>2. /\ phase.turn \in Nat /\ "starting" \in DriverPlaces
        /\ Len(frames') \in Nat
    BY DEF Phases, DriverPlaces
  <2>3. DriverAt("starting") \in Drivers /\ DriverAt("starting").at = "starting"
    BY <2>2, FreshDrivers
  <2>4. driver' \in Drivers /\ driver'.at = "starting"
    BY <2>1, <2>2, <2>3 DEF Drivers
  <2>5. phase' \in Phases /\ phase'.kind = "running" /\ phase'.abort = "none"
    BY <2>1, <2>2, FreshPhases
  <2>. QED
    BY <1>1, <2>4, <2>5 DEF PhaseInv
<1>2. CASE phase.kind # "idle"
  <2>1. /\ phase' = [phase EXCEPT !.wakeRequested = phase.wakeRequested
                                                      \/ Latches(afterAbort)]
        /\ driver' = driver
    BY <1>2 DEF WakeDriver
  <2>2. Latches(afterAbort) \in BOOLEAN
    BY DEF Latches
  <2>. HIDE DEF Latches
  <2>3. /\ phase' \in Phases /\ phase'.kind = phase.kind
        /\ phase'.abort = phase.abort
        /\ phase'.wakeRequested = (phase.wakeRequested \/ Latches(afterAbort))
    BY <2>1, <2>2 DEF Phases
  <2>. QED
    BY <1>2, <2>1, <2>3 DEF PhaseInv
<1>. QED
  BY <1>1, <1>2

-----------------------------------------------------------------------------
(* The methods of the agent. *)

LEMMA SendKeeps ==
    ASSUME DriverInv, NEW m \in Messages, NEW target \in Targets,
           NEW wakeup \in BOOLEAN, Send(m, target, wakeup)
    PROVE  DriverInv'
<1>. DEFINE afterAbort == wakeup /\ phase.kind # "idle" /\ Aborted
            resolved == IF afterAbort THEN "next-turn" ELSE target
            f == [call |-> "send", message |-> m, wake |-> afterAbort]
<1>1. /\ inbox \in Inboxes /\ frames \in Seq(Frames)
      /\ unsent \subseteq Messages
      /\ PhaseInv /\ OwedPending /\ WakeKept
  BY TypedParts DEF DriverInv
<1>2. resolved \in Targets /\ f \in Frames
  BY DEF Targets, Frames, Sends
<1>3. /\ inbox' = Appended(inbox, resolved, m)
      /\ frames' = (IF wakeup THEN Append(frames, f) ELSE frames)
      /\ unsent' = unsent \ {m}
      /\ UNCHANGED <<phase, driver, spent, owed, stranded, rewritten>>
  BY DEF Send
<1>. HIDE DEF f, resolved
<1>4. inbox' \in Inboxes /\ \A x : Pending(inbox, x) => Pending(inbox', x)
  BY <1>1, <1>2, <1>3, AppendKeeps
<1>5. frames' \in Seq(Frames) /\ (ReplayWaits => ReplayWaits')
  <2>1. CASE wakeup
    BY <1>1, <1>2, <1>3, <2>1, FramePushed DEF ReplayWaits
  <2>2. CASE ~wakeup
    BY <1>1, <1>3, <2>2 DEF ReplayWaits
  <2>. QED
    BY <2>1, <2>2
<1>6. TypeOK'
  BY <1>1, <1>3, <1>4, <1>5, TypedParts, TypedAfter DEF DriverInv
<1>. QED
  BY <1>1, <1>3, <1>4, <1>5, <1>6
     DEF DriverInv, PhaseInv, OwedPending, WakeKept, Aborted

\* An accepted message is claimed by the driver, or its wake is latched.
LEMMA WakeKeeps ==
    ASSUME DriverInv, Wake
    PROVE  DriverInv'
<1>. DEFINE f == frames[Len(frames)]
            m == f.message
            accepted == /\ Pending(inbox, m)
                        /\ phase.abort # "disposed"
                        /\ f.wake \/ phase.kind = "maintenance" \/ ~Aborted
            unseen == driver.at = "returning" /\ ~Aborted
<1>1. /\ inbox \in Inboxes /\ phase \in Phases /\ driver \in Drivers
      /\ frames \in Seq(Frames) /\ PhaseInv /\ OwedPending /\ WakeKept
      /\ owed \subseteq Messages /\ stranded \subseteq Messages
  BY TypedParts DEF DriverInv
<1>2. /\ Returned("send") /\ frames' = Outer /\ WakeDriver(f.wake)
      /\ owed' = (IF accepted THEN owed \cup {m} ELSE owed)
      /\ stranded' = (IF accepted /\ unseen THEN stranded \cup {m}
                                            ELSE stranded)
      /\ UNCHANGED <<log, inbox, unsent, spent, rewritten>>
  BY DEF Wake
<1>3. /\ frames' \in Seq(Frames) /\ f \in Frames /\ f.call = "send"
      /\ ReplayWaits => ReplayWaits'
  <2>1. /\ Outer \in Seq(Frames) /\ f \in Frames /\ f.call = "send"
        /\ ReplayWaits => ReplayIn(Outer)
    BY <1>1, <1>2, FramePopped
  <2>. QED
    BY <1>2, <2>1 DEF ReplayWaits
<1>4. m \in Messages /\ f.wake \in BOOLEAN
  BY <1>3 DEF Frames, Sends, Cancels
<1>. HIDE DEF f
<1>5. /\ phase' \in Phases /\ driver' \in Drivers /\ PhaseInv'
      /\ phase.kind = "idle" =>
            /\ phase'.kind = "running" /\ phase'.abort = "none"
            /\ driver'.at = "starting"
      /\ phase.kind # "idle" =>
            /\ phase'.kind = phase.kind /\ phase'.abort = phase.abort
            /\ phase.wakeRequested => phase'.wakeRequested
            /\ Latches(f.wake) => phase'.wakeRequested
            /\ driver' = driver
  BY <1>1, <1>2, <1>3, <1>4, WakeEffect
<1>6. owed' \subseteq Messages /\ stranded' \subseteq Messages
  BY <1>1, <1>2, <1>4
<1>7. TypeOK'
  BY <1>2, <1>3, <1>5, <1>6, TypedParts, TypedAfter DEF DriverInv
<1>8. OwedPending'
  BY <1>1, <1>2 DEF OwedPending
<1>9. WakeKept'
  <2>1. CASE phase.kind = "idle"
    <3>1. phase.abort = "none"
      BY <1>1, <2>1 DEF PhaseInv
    <3>. QED
      BY <1>5, <2>1, <3>1 DEF WakeKept, Aborted
  <2>2. CASE phase.kind = "maintenance"
    <3>1. /\ phase'.kind = "maintenance" /\ phase'.abort = phase.abort
          /\ driver' = driver /\ driver.at = "off"
          /\ phase.wakeRequested => phase'.wakeRequested
      BY <1>1, <1>5, <2>2 DEF PhaseInv
    <3>2. CASE accepted
      <4>1. phase'.wakeRequested /\ phase.abort # "disposed"
        BY <1>5, <2>2, <3>2 DEF Latches
      <4>. QED
        BY <3>1, <4>1 DEF WakeKept
    <3>3. CASE ~accepted
      <4>1. owed' = owed /\ stranded' = stranded
        BY <1>2, <3>3
      <4>. QED
        BY <1>1, <1>3, <2>2, <3>1, <4>1 DEF WakeKept
    <3>. QED
      BY <3>2, <3>3
  <2>3. CASE phase.kind = "running"
    <3>1. /\ phase'.kind = "running" /\ phase'.abort = phase.abort
          /\ driver' = driver
          /\ phase.wakeRequested => phase'.wakeRequested
      BY <1>5, <2>3
    <3>2. CASE accepted
      <4>1. phase.abort # "disposed" /\ (~Aborted \/ phase'.wakeRequested)
        BY <1>5, <2>3, <3>2 DEF Latches
      <4>2. driver.at = "returning" /\ ~Aborted => owed' \subseteq stranded'
        BY <1>1, <1>2, <3>2 DEF WakeKept
      <4>. QED
        BY <3>1, <4>1, <4>2 DEF WakeKept, Aborted
    <3>3. CASE ~accepted
      <4>1. owed' = owed /\ stranded' = stranded
        BY <1>2, <3>3
      <4>. QED
        BY <1>1, <2>3, <3>1, <4>1 DEF WakeKept, Aborted
    <3>. QED
      BY <3>2, <3>3
  <2>. QED
    BY <1>1, <2>1, <2>2, <2>3 DEF Phases
<1>. QED
  BY <1>5, <1>7, <1>8, <1>9 DEF DriverInv

\* The first cause wins, and the wake of an idle agent is nobody's.
LEMMA CancelledEffect ==
    ASSUME phase \in Phases, NEW cause \in Causes, NEW keepInbox \in BOOLEAN
    PROVE  LET p == CancelledPhase(cause, keepInbox) IN
           /\ p \in Phases /\ p.kind = phase.kind
           /\ p.turn = phase.turn /\ p.step = phase.step
           /\ phase.kind = "idle" => p = phase
           /\ phase.kind # "idle" =>
                 /\ p.abort = (IF phase.abort = "none" THEN cause
                                                       ELSE phase.abort)
                 /\ p.wakeRequested = (phase.wakeRequested /\ keepInbox)
<1>. DEFINE p == CancelledPhase(cause, keepInbox)
<1>1. CASE phase.kind = "idle"
  BY <1>1 DEF CancelledPhase
<1>2. CASE phase.kind # "idle"
  <2>1. p = [phase EXCEPT
           !.abort = IF phase.abort = "none" THEN cause ELSE phase.abort,
           !.wakeRequested = phase.wakeRequested /\ keepInbox]
    BY <1>2 DEF CancelledPhase
  <2>. HIDE DEF p
  <2>2. /\ p \in Phases /\ p.kind = phase.kind
        /\ p.turn = phase.turn /\ p.step = phase.step
        /\ p.abort = (IF phase.abort = "none" THEN cause ELSE phase.abort)
        /\ p.wakeRequested = (phase.wakeRequested /\ keepInbox)
    BY <1>2, <2>1 DEF Phases
  <2>. QED
    BY <1>2, <2>2 DEF p
<1>. QED
  BY <1>1, <1>2

\* What a cleared list does not hold stays pending.
LEMMA EmptyingKeeps ==
    ASSUME NEW box \in Inboxes, NEW t \in Targets
    PROVE  /\ [box EXCEPT ![t] = <<>>] \in Inboxes
           /\ \A x : (/\ Pending(box, x)
                      /\ x \notin {box[t][i] : i \in 1..Len(box[t])})
                         => Pending([box EXCEPT ![t] = <<>>], x)
<1>. DEFINE new == [box EXCEPT ![t] = <<>>]
<1>1. new \in Inboxes /\ \A u \in Targets : u # t => new[u] = box[u]
  BY DEF Inboxes
<1>. HIDE DEF new
<1>2. ASSUME NEW x, Pending(box, x),
             x \notin {box[t][i] : i \in 1..Len(box[t])}
      PROVE  Pending(new, x)
  <2>1. PICK u \in Targets : InSeq(x, box[u])
    BY <1>2 DEF Pending
  <2>2. u # t
    BY <1>2, <2>1 DEF InSeq
  <2>. QED
    BY <1>1, <2>1, <2>2 DEF Pending
<1>. QED
  BY <1>1, <1>2 DEF new

\* A cancel that discards a list settles what the list held; one that aborts
\* strands what its listeners have sent.
LEMMA CancelsOnKeeps ==
    ASSUME DriverInv, NEW cause \in Causes, NEW left \in SUBSET Targets,
           NEW below \in Seq(Frames), ReplayWaits => ReplayIn(below),
           CancelsOn(cause, left, below),
           spent' \in Spending, UNCHANGED <<driver, unsent, rewritten>>
    PROVE  DriverInv'
<1>. DEFINE queued == {t \in left : inbox[t] # <<>>}
            t == IF "next-step" \in queued THEN "next-step" ELSE "next-turn"
            f == [call |-> "cancel", cause |-> cause,
                  left |-> {"next-turn"} \ {t}]
            taken == {inbox[t][i] : i \in 1..Len(inbox[t])}
<1>1. /\ inbox \in Inboxes /\ phase \in Phases /\ driver \in Drivers
      /\ unsent \subseteq Messages /\ rewritten \subseteq Messages
      /\ PhaseInv /\ OwedPending /\ WakeKept
      /\ owed \subseteq Messages /\ stranded \subseteq Messages
  BY TypedParts DEF DriverInv
<1>2. CASE queued = {}
  <2>1. /\ phase' = CancelledPhase(cause, FALSE) /\ frames' = below
        /\ IF phase.kind = "idle"
           THEN UNCHANGED <<owed, stranded>>
           ELSE IF cause = "disposed" THEN SettleAll
           ELSE stranded' = stranded \cup owed /\ UNCHANGED owed
        /\ inbox' = inbox
    BY <1>2 DEF CancelsOn
  <2>2. /\ phase' \in Phases /\ phase'.kind = phase.kind
        /\ phase.kind = "idle" => phase' = phase
        /\ phase.kind # "idle" =>
              /\ phase'.abort = (IF phase.abort = "none" THEN cause
                                                         ELSE phase.abort)
              /\ phase'.wakeRequested = (phase.wakeRequested /\ FALSE)
    BY <1>1, <2>1, CancelledEffect
  <2>3. CASE phase.kind = "idle"
    <3>1. UNCHANGED <<phase, driver, inbox, owed, stranded>>
      BY <2>1, <2>2, <2>3
    <3>2. TypeOK'
      BY <1>1, <2>1, <3>1, TypedAfter
    <3>3. ReplayWaits => ReplayWaits'
      BY <2>1 DEF ReplayWaits
    <3>. QED
      BY <1>1, <2>3, <3>1, <3>2, <3>3
         DEF DriverInv, PhaseInv, OwedPending, WakeKept, Aborted
  <2>4. CASE phase.kind # "idle" /\ cause = "disposed"
    <3>1. owed' = {} /\ stranded' = {}
      BY <1>1, <2>1, <2>4, AllSettled
    <3>2. TypeOK'
      BY <1>1, <2>1, <2>2, <3>1, TypedAfter
    <3>. QED
      BY <1>1, <2>2, <2>4, <3>1, <3>2
         DEF DriverInv, PhaseInv, OwedPending, WakeKept
  <2>5. CASE phase.kind # "idle" /\ cause # "disposed"
    <3>1. owed' = owed /\ stranded' = stranded \cup owed
      BY <2>1, <2>5
    <3>2. TypeOK'
      BY <1>1, <2>1, <2>2, <3>1, TypedAfter
    <3>3. phase'.abort = "disposed" => owed' = {}
      BY <1>1, <2>2, <2>5, <3>1 DEF WakeKept
    <3>4. OwedPending'
      BY <1>1, <2>1, <3>1 DEF OwedPending
    <3>5. PhaseInv'
      BY <1>1, <2>2, <2>5 DEF PhaseInv
    <3>. QED
      BY <3>1, <3>2, <3>3, <3>4, <3>5 DEF DriverInv, WakeKept
  <2>. QED
    BY <2>3, <2>4, <2>5
<1>3. CASE queued # {}
  <2>1. /\ inbox' = [inbox EXCEPT ![t] = <<>>]
        /\ frames' = Append(below, f)
        /\ owed' = owed \ taken /\ stranded' = stranded \ taken
        /\ phase' = phase
    BY <1>3 DEF CancelsOn, Settle
  <2>2. t \in Targets /\ f \in Frames
    BY DEF Targets, Frames, Cancels
  <2>. HIDE DEF t, f
  <2>3. /\ inbox' \in Inboxes
        /\ \A x : Pending(inbox, x) /\ x \notin taken => Pending(inbox', x)
    BY <1>1, <2>1, <2>2, EmptyingKeeps
  <2>. HIDE DEF taken
  <2>4. frames' \in Seq(Frames) /\ (ReplayWaits => ReplayWaits')
    BY <2>1, <2>2, FramePushed DEF ReplayWaits
  <2>5. TypeOK'
    BY <1>1, <2>1, <2>3, <2>4, TypedAfter
  <2>6. OwedPending'
    BY <1>1, <2>1, <2>3 DEF OwedPending
  <2>7. /\ owed \subseteq stranded => owed' \subseteq stranded'
        /\ owed = {} => owed' = {}
    BY <2>1
  <2>. QED
    BY <1>1, <2>1, <2>4, <2>5, <2>6, <2>7
       DEF DriverInv, PhaseInv, WakeKept, Aborted
<1>. QED
  BY <1>2, <1>3

LEMMA CancelKeeps ==
    ASSUME DriverInv, NEW cause \in Causes, NEW keepInbox \in BOOLEAN,
           Cancel(cause, keepInbox)
    PROVE  DriverInv'
<1>1. /\ inbox \in Inboxes /\ phase \in Phases /\ driver \in Drivers
      /\ frames \in Seq(Frames) /\ spent \in Spending
      /\ PhaseInv /\ OwedPending /\ WakeKept
      /\ owed \subseteq Messages /\ stranded \subseteq Messages
  BY TypedParts DEF DriverInv
<1>2. /\ spent' = [spent EXCEPT !.cancels = @ + 1]
      /\ UNCHANGED <<driver, unsent, rewritten>>
  BY DEF Cancel
<1>3. spent' \in Spending
  BY <1>1, <1>2 DEF Spending
<1>4. CASE ~keepInbox
  <2>1. CancelsOn(cause, Targets, frames)
    BY <1>4 DEF Cancel
  <2>. QED
    BY <1>1, <1>2, <1>3, <2>1, CancelsOnKeeps DEF ReplayWaits
<1>5. CASE keepInbox
  <2>1. /\ cause = "user" /\ phase' = CancelledPhase(cause, TRUE)
        /\ IF Aborted \/ phase.kind = "idle" \/ phase.wakeRequested
           THEN UNCHANGED <<owed, stranded>>
           ELSE SettleAll
        /\ UNCHANGED <<inbox, frames>>
    BY <1>5 DEF Cancel
  <2>2. /\ phase' \in Phases /\ phase'.kind = phase.kind
        /\ phase.kind = "idle" => phase' = phase
        /\ phase.kind # "idle" =>
              /\ phase'.abort = (IF phase.abort = "none" THEN cause
                                                         ELSE phase.abort)
              /\ phase'.wakeRequested = (phase.wakeRequested /\ TRUE)
    BY <1>1, <2>1, CancelledEffect
  <2>3. \/ /\ owed' = owed /\ stranded' = stranded
           /\ Aborted \/ phase.kind = "idle" \/ phase.wakeRequested
        \/ owed' = {} /\ stranded' = {}
    BY <1>1, <2>1, AllSettled
  <2>4. TypeOK'
    BY <1>1, <1>2, <1>3, <2>1, <2>2, <2>3, TypedParts, TypedAfter
       DEF DriverInv
  <2>5. PhaseInv'
    BY <1>1, <1>2, <2>2 DEF PhaseInv
  <2>6. OwedPending'
    BY <1>1, <2>1, <2>3 DEF OwedPending
  <2>7. WakeKept'
    <3>1. CASE owed' = {}
      BY <3>1 DEF WakeKept
    <3>2. CASE owed' # {}
      <4>1. /\ owed' = owed /\ stranded' = stranded
            /\ Aborted \/ phase.kind = "idle" \/ phase.wakeRequested
        BY <2>3, <3>2
      <4>2. ReplayWaits' <=> ReplayWaits
        BY <2>1 DEF ReplayWaits
      <4>3. CASE phase.kind = "idle"
        BY <1>1, <1>2, <2>2, <4>1, <4>2, <4>3
           DEF WakeKept, Aborted, PhaseInv
      <4>4. CASE phase.kind # "idle"
        <5>1. /\ phase'.abort # "none" /\ phase'.kind = phase.kind
              /\ phase'.wakeRequested = phase.wakeRequested
              /\ phase'.abort = "disposed" => phase.abort = "disposed"
          <6>1. phase.wakeRequested \in BOOLEAN
            BY <1>1 DEF Phases
          <6>2. cause = "user" /\ cause # "none"
            BY <2>1
          <6>. QED
            BY <2>2, <4>4, <6>1, <6>2
        <5>. QED
          BY <1>1, <1>2, <4>1, <4>2, <4>4, <5>1 DEF WakeKept, Aborted
      <4>. QED
        BY <4>3, <4>4
    <3>. QED
      BY <3>1, <3>2
  <2>. QED
    BY <2>4, <2>5, <2>6, <2>7 DEF DriverInv
<1>. QED
  BY <1>4, <1>5

LEMMA CancelGoesOnKeeps ==
    ASSUME DriverInv, CancelGoesOn
    PROVE  DriverInv'
<1>. DEFINE f == frames[Len(frames)]
<1>1. frames \in Seq(Frames) /\ spent \in Spending
  BY TypedParts DEF DriverInv
<1>2. /\ Returned("cancel") /\ CancelsOn(f.cause, f.left, Outer)
      /\ UNCHANGED <<driver, unsent, spent, rewritten>>
  BY DEF CancelGoesOn
<1>3. /\ Outer \in Seq(Frames) /\ f \in Frames /\ f.call = "cancel"
      /\ ReplayWaits => ReplayIn(Outer)
  BY <1>1, <1>2, FramePopped
<1>. HIDE DEF f
<1>4. f.cause \in Causes /\ f.left \in SUBSET Targets
  BY <1>3 DEF Frames, Sends, Cancels
<1>. QED
  BY <1>1, <1>2, <1>3, <1>4, CancelsOnKeeps

\* A message that leaves the inbox is no longer owed.
LEMMA EditKeeps ==
    ASSUME DriverInv, NEW m \in Messages,
           RemoveMessage(m) \/ \E new \in Messages : ReplaceMessage(m, new)
    PROVE  DriverInv'
<1>1. /\ inbox \in Inboxes /\ unsent \subseteq Messages
      /\ PhaseInv /\ OwedPending /\ WakeKept
      /\ owed \subseteq Messages /\ stranded \subseteq Messages
  BY TypedParts DEF DriverInv
<1>2. PICK inserted \in Seq(Messages) :
         /\ inbox' = Respliced(inbox, m, inserted)
         /\ Pending(inbox, m)
         /\ unsent' \subseteq unsent
         /\ owed' = owed \ {m} /\ stranded' = stranded \ {m}
         /\ UNCHANGED <<phase, driver, frames, spent, rewritten>>
  <2>1. CASE RemoveMessage(m)
    <3>1. <<>> \in Seq(Messages)
      OBVIOUS
    <3>. QED
      BY <2>1, <3>1 DEF RemoveMessage, Settle
  <2>2. ASSUME NEW new \in Messages, ReplaceMessage(m, new)
        PROVE  \E inserted \in Seq(Messages) :
                  /\ inbox' = Respliced(inbox, m, inserted)
                  /\ Pending(inbox, m)
                  /\ unsent' \subseteq unsent
                  /\ owed' = owed \ {m} /\ stranded' = stranded \ {m}
                  /\ UNCHANGED <<phase, driver, frames, spent, rewritten>>
    <3>1. <<new>> \in Seq(Messages)
      OBVIOUS
    <3>. QED
      BY <2>2, <3>1 DEF ReplaceMessage, Settle
  <2>. QED
    BY <2>1, <2>2
<1>3. /\ inbox' \in Inboxes
      /\ \A x : Pending(inbox, x) /\ x # m => Pending(inbox', x)
  BY <1>1, <1>2, RespliceKeeps
<1>4. TypeOK'
  BY <1>1, <1>2, <1>3, TypedParts, TypedAfter DEF DriverInv
<1>5. OwedPending'
  BY <1>1, <1>2, <1>3 DEF OwedPending
<1>6. owed \subseteq stranded => owed' \subseteq stranded'
  BY <1>2
<1>7. owed = {} => owed' = {}
  BY <1>2
<1>. QED
  BY <1>1, <1>2, <1>4, <1>5, <1>6, <1>7
     DEF DriverInv, PhaseInv, WakeKept, Aborted, ReplayWaits

LEMMA MaintenanceKeeps ==
    ASSUME DriverInv, StartMaintenance \/ EndMaintenance
    PROVE  DriverInv'
<1>1. /\ inbox \in Inboxes /\ phase \in Phases /\ driver \in Drivers
      /\ spent \in Spending
      /\ phase.turn \in Nat
      /\ PhaseInv /\ OwedPending /\ WakeKept
  BY TypedParts DEF DriverInv, Phases
<1>2. UNCHANGED <<log, inbox, frames, unsent, owed, stranded, rewritten>>
  BY DEF StartMaintenance, EndMaintenance
<1>3. OwedPending' /\ (ReplayWaits <=> ReplayWaits')
  BY <1>1, <1>2 DEF OwedPending, ReplayWaits
<1>4. CASE StartMaintenance
  <2>1. /\ phase.kind = "idle" /\ phase' = Maintenance(phase.turn)
        /\ spent' = [spent EXCEPT !.maintenance = @ + 1]
        /\ driver' = driver
    BY <1>4 DEF StartMaintenance
  <2>2. /\ phase' \in Phases /\ phase'.kind = "maintenance"
        /\ phase'.abort = "none"
    BY <1>1, <2>1, FreshPhases
  <2>3. spent' \in Spending
    BY <1>1, <2>1 DEF Spending
  <2>4. TypeOK'
    BY <1>1, <1>2, <2>1, <2>2, <2>3, TypedParts, TypedAfter DEF DriverInv
  <2>. QED
    BY <1>1, <1>2, <1>3, <2>1, <2>2, <2>4
       DEF DriverInv, PhaseInv, WakeKept, Aborted
<1>5. CASE EndMaintenance
  <2>1. /\ phase.kind = "maintenance" /\ Calm /\ driver.at = "off"
        /\ spent' = spent
    BY <1>1, <1>5 DEF EndMaintenance, PhaseInv
  <2>2. CASE phase.wakeRequested /\ HasPending(inbox)
    <3>1. phase' = Running(phase.turn) /\ driver' = DriverAt("starting")
      BY <1>5, <2>2 DEF EndMaintenance
    <3>2. /\ phase' \in Phases /\ phase'.kind = "running"
          /\ phase'.abort = "none"
          /\ driver' \in Drivers /\ driver'.at = "starting"
      BY <1>1, <3>1, FreshPhases, FreshDrivers DEF DriverPlaces
    <3>3. TypeOK'
      BY <1>1, <1>2, <2>1, <3>2, TypedParts, TypedAfter DEF DriverInv
    <3>. QED
      BY <1>3, <3>2, <3>3 DEF DriverInv, PhaseInv, WakeKept, Aborted
  <2>3. CASE ~(phase.wakeRequested /\ HasPending(inbox))
    <3>1. phase' = Idle(phase.turn) /\ driver' = driver
      BY <1>5, <2>3 DEF EndMaintenance
    <3>2. /\ phase' \in Phases /\ phase'.kind = "idle"
          /\ phase'.abort = "none" /\ ~phase'.wakeRequested
      BY <1>1, <3>1, FreshPhases
    <3>3. TypeOK'
      BY <1>1, <1>2, <2>1, <3>1, <3>2, TypedParts, TypedAfter DEF DriverInv
    <3>4. ~ReplayWaits
      BY <2>1 DEF Calm, ReplayWaits, ReplayIn
    <3>5. ~HasPending(inbox) => owed = {}
      BY <1>1, EmptyHasNone DEF OwedPending
    <3>6. owed \subseteq stranded
      BY <1>1, <2>1, <2>3, <3>4, <3>5 DEF WakeKept
    <3>. QED
      BY <1>1, <1>2, <1>3, <2>1, <3>1, <3>2, <3>3, <3>6
         DEF DriverInv, PhaseInv, WakeKept, Aborted
  <2>. QED
    BY <2>2, <2>3
<1>. QED
  BY <1>4, <1>5

-----------------------------------------------------------------------------
(* The driver. *)

\* A driver is at work, and nothing has told it to stop.
Undisturbed == phase.kind = "running" /\ ~Aborted /\ driver.at # "off"

LEMMA AtWork ==
    ASSUME PhaseInv, ~Aborted,
           driver.at \in {"starting", "top", "preStep", "step", "stopping",
                          "returning"}
    PROVE  Undisturbed
BY DEF PhaseInv, Undisturbed

\* What the batch takes is no longer owed, the rest stays pending.
LEMMA ClaimEffect ==
    ASSUME TypeOK, NEW target \in Targets, NEW events, NEW ends \in Ends,
           NEW in \in Inboxes, \A m \in owed : Pending(in, m),
           ClaimAt(target, events, ends, in)
    PROVE  /\ inbox' \in Inboxes
           /\ driver' \in Drivers /\ driver'.at = "preStep"
           /\ OwedPending'
           /\ owed' \subseteq Messages /\ stranded' \subseteq Messages
<1>. DEFINE batch == Claimed(in, target)
            taken == {batch[i] : i \in 1..Len(batch)}
<1>1. /\ batch \in Seq(Messages)
      /\ AfterClaim(in, target) \in Inboxes
      /\ \A x : Pending(in, x) /\ x \notin taken
                  => Pending(AfterClaim(in, target), x)
  BY ClaimTakes
<1>2. /\ inbox' = AfterClaim(in, target)
      /\ driver' = [at |-> "preStep", claimed |-> batch,
                    target |-> target, ends |-> ends, depth |-> 0]
      /\ owed' = owed \ taken /\ stranded' = stranded \ taken
  BY DEF ClaimAt, Settle
<1>. HIDE DEF batch, taken
<1>3. driver' \in Drivers /\ driver'.at = "preStep"
  BY <1>1, <1>2 DEF Drivers, DriverPlaces
<1>4. OwedPending'
  BY <1>1, <1>2 DEF OwedPending
<1>5. owed \subseteq Messages /\ stranded \subseteq Messages
  BY TypedParts
<1>. QED
  BY <1>1, <1>2, <1>3, <1>4, <1>5

\* The invariant after a step of a driver that is not to stop.
LEMMA StillRunning ==
    ASSUME TypeOK', OwedPending', phase'.kind = "running",
           phase'.abort = "none",
           driver'.at \in {"starting", "top", "preStep", "step", "stopping"}
    PROVE  DriverInv'
BY DEF DriverInv, PhaseInv, WakeKept, Aborted

\* Context that a tool leaves is appended.
LEMMA ContextKeeps ==
    ASSUME inbox \in Inboxes, unsent \subseteq Messages,
           NEW context \in OneOf(unsent)
    PROVE  /\ WithContext(context) \in Inboxes
           /\ \A x : Pending(inbox, x) => Pending(WithContext(context), x)
           /\ unsent \ context \subseteq Messages
<1>1. CASE context = {}
  BY <1>1 DEF WithContext
<1>2. CASE context # {}
  <2>. DEFINE m == CHOOSE n \in context : TRUE
  <2>1. m \in Messages
    BY <1>2 DEF OneOf
  <2>2. WithContext(context) = Appended(inbox, "next-step", m)
    BY <1>2 DEF WithContext
  <2>3. "next-step" \in Targets
    BY DEF Targets
  <2>. HIDE DEF m
  <2>. QED
    BY <2>1, <2>2, <2>3, AppendKeeps
<1>. QED
  BY <1>1, <1>2

\* A turn that stops: aborted, with the wake kept; else nothing is owed.
LEMMA StopsWell ==
    ASSUME DriverInv,
           driver.at \in {"starting", "top", "preStep", "step", "stopping"},
           driver' \in Drivers, driver'.at = "returning",
           inbox' \in Inboxes, \A x : Pending(inbox, x) => Pending(inbox', x),
           unsent' \subseteq Messages, rewritten' \subseteq Messages,
           spent' \in Spending, UNCHANGED <<phase, frames>>,
           IF Aborted THEN UNCHANGED <<owed, stranded>>
                      ELSE owed' = {} /\ stranded' = {}
    PROVE  DriverInv'
<1>1. /\ phase \in Phases /\ frames \in Seq(Frames)
      /\ PhaseInv /\ OwedPending /\ WakeKept
      /\ owed \subseteq Messages /\ stranded \subseteq Messages
  BY TypedParts DEF DriverInv
<1>2. phase.kind = "running"
  BY <1>1 DEF PhaseInv
<1>3. TypeOK'
  BY <1>1, TypedParts, TypedAfter DEF DriverInv
<1>4. OwedPending'
  BY <1>1 DEF OwedPending
<1>. QED
  BY <1>1, <1>2, <1>3, <1>4 DEF DriverInv, PhaseInv, WakeKept, Aborted

LEMMA StopMeans ==
    ASSUME Stop
    PROVE  driver' \in Drivers /\ driver'.at = "returning"
BY FreshDrivers DEF Stop, DriverPlaces

LEMMA RefusesTyped ==
    ASSUME spent \in Spending, NEW turn \in Nat, Refuses(turn)
    PROVE  spent' \in Spending
<1>1. spent' = [spent EXCEPT !.refusals = spent.refusals + 1,
                            !.unended = turn]
  BY DEF Refuses
<1>2. /\ spent.cancels \in Nat /\ spent.maintenance \in Nat
      /\ spent.refusals \in Nat
      /\ spent = [cancels |-> spent.cancels, maintenance |-> spent.maintenance,
                  refusals |-> spent.refusals, unended |-> spent.unended]
  BY DEF Spending
<1>3. spent' = [cancels |-> spent.cancels, maintenance |-> spent.maintenance,
                refusals |-> spent.refusals + 1, unended |-> turn]
  BY <1>1, <1>2
<1>. QED
  BY <1>2, <1>3 DEF Spending

\* A turn that stops before it opens, or does not open.
LEMMA NoTurnKeeps ==
    ASSUME DriverInv,
           SkipTurn \/ TurnStartRefused
             \/ \E cause \in Causes, keepInbox \in BOOLEAN :
                   TurnStartAborted(cause, keepInbox)
    PROVE  DriverInv'
<1>1. /\ inbox \in Inboxes /\ phase \in Phases /\ frames \in Seq(Frames)
      /\ unsent \subseteq Messages /\ rewritten \subseteq Messages
      /\ owed \subseteq Messages /\ stranded \subseteq Messages
      /\ spent \in Spending /\ PhaseInv /\ OwedPending /\ TypeOK
  BY TypedParts DEF DriverInv
<1>2. CASE SkipTurn
  <2>1. /\ driver.at \in {"starting", "top"} /\ Aborted /\ Stop
        /\ UNCHANGED <<inbox, phase, frames, unsent, spent, owed, stranded,
                       rewritten>>
    BY <1>2 DEF SkipTurn, AtBoundary
  <2>. QED
    BY <1>1, <2>1, StopMeans, StopsWell
<1>3. CASE TurnStartRefused
  <2>1. /\ driver.at \in {"starting", "top"} /\ ~Aborted /\ Stop
        /\ SettleAll /\ (Refuses(0) \/ UNCHANGED spent)
        /\ UNCHANGED <<inbox, phase, frames, unsent, rewritten>>
    BY <1>3 DEF TurnStartRefused, AtBoundary
  <2>2. spent' \in Spending
    BY <1>1, <2>1, RefusesTyped
  <2>3. owed' = {} /\ stranded' = {}
    BY <1>1, <2>1, AllSettled
  <2>. QED
    BY <1>1, <2>1, <2>2, <2>3, StopMeans, StopsWell
<1>4. ASSUME NEW cause \in Causes, NEW keepInbox \in BOOLEAN,
             TurnStartAborted(cause, keepInbox)
      PROVE  DriverInv'
  <2>. DEFINE p == CancelledPhase(cause, keepInbox)
  <2>1. /\ driver.at \in {"starting", "top"} /\ Stop /\ SettleAll
        /\ spent' = [spent EXCEPT !.cancels = @ + 1]
        /\ phase' = [p EXCEPT !.turn = @ + 1]
        /\ UNCHANGED <<inbox, frames, unsent, rewritten>>
    BY <1>4 DEF TurnStartAborted, AtBoundary
  <2>2. p \in Phases /\ p.kind = "running"
    BY <1>1, <2>1, CancelledEffect DEF PhaseInv
  <2>. HIDE DEF p
  <2>3. phase' \in Phases /\ phase'.kind = "running"
    BY <2>1, <2>2 DEF Phases
  <2>4. spent' \in Spending
    BY <1>1, <2>1 DEF Spending
  <2>5. owed' = {} /\ stranded' = {}
    BY <1>1, <2>1, AllSettled
  <2>6. driver' \in Drivers /\ driver'.at = "returning"
    BY <2>1, StopMeans
  <2>7. TypeOK'
    BY <1>1, <2>1, <2>3, <2>4, <2>5, <2>6, TypedAfter
  <2>. QED
    BY <2>3, <2>5, <2>6, <2>7 DEF DriverInv, PhaseInv, OwedPending, WakeKept
<1>. QED
  BY <1>2, <1>3, <1>4

LEMMA BeginKeeps ==
    ASSUME DriverInv, BeginTurn
    PROVE  DriverInv'
<1>1. /\ inbox \in Inboxes /\ phase \in Phases /\ frames \in Seq(Frames)
      /\ unsent \subseteq Messages /\ rewritten \subseteq Messages
      /\ PhaseInv /\ OwedPending /\ TypeOK
  BY TypedParts DEF DriverInv
<1>2. /\ driver.at \in {"starting", "top"} /\ ~Aborted
      /\ phase' = [phase EXCEPT !.turn = @ + 1]
      /\ ClaimAt("next-turn", <<TurnStart(phase.turn + 1)>>, "none", inbox)
      /\ UNCHANGED <<frames, unsent, spent, rewritten>>
  BY DEF BeginTurn, AtBoundary
<1>3. phase.kind = "running"
  BY <1>1, <1>2 DEF PhaseInv
<1>4. phase' \in Phases /\ phase'.kind = "running" /\ phase'.abort = "none"
  BY <1>1, <1>2, <1>3 DEF Phases, Aborted
<1>5. "next-turn" \in Targets /\ "none" \in Ends
  BY DEF Targets, Ends
<1>6. /\ inbox' \in Inboxes
      /\ driver' \in Drivers /\ driver'.at = "preStep"
      /\ OwedPending'
      /\ owed' \subseteq Messages /\ stranded' \subseteq Messages
  BY <1>1, <1>2, <1>5, ClaimEffect DEF OwedPending
<1>7. TypeOK'
  BY <1>1, <1>2, <1>4, <1>6, TypedParts, TypedAfter
<1>. QED
  BY <1>4, <1>6, <1>7, StillRunning

\* The steps that end a turn because it was aborted, rejected or failed.
LEMMA ThrowKeeps ==
    ASSUME DriverInv,
           \/ PreStepThrows \/ PreStepRejects \/ StoppingThrows
           \/ \E outcome \in Outcomes, context \in OneOf(unsent) :
                 \/ StepThrows(outcome, context)
                 \/ StepEndRefused(outcome, context)
    PROVE  DriverInv'
<1>1. /\ inbox \in Inboxes /\ unsent \subseteq Messages
      /\ spent \in Spending /\ phase.turn \in Nat
      /\ owed \subseteq Messages /\ stranded \subseteq Messages
      /\ rewritten \subseteq Messages
  BY TypedParts DEF DriverInv, Phases
<1>2. /\ driver.at \in {"preStep", "step", "stopping"}
      /\ Stop /\ UNCHANGED <<phase, frames, rewritten>>
      /\ Refuses(phase.turn) \/ UNCHANGED spent
  BY DEF PreStepThrows, PreStepRejects, StoppingThrows, StepThrows, EndTurn,
         StepEndRefused, ThrowsWith
<1>5. spent' \in Spending
  BY <1>1, <1>2, RefusesTyped
<1>3. IF Aborted THEN UNCHANGED <<owed, stranded>>
                 ELSE owed' = {} /\ stranded' = {}
  <2>1. IF Aborted THEN UNCHANGED <<owed, stranded>> ELSE SettleAll
    BY DEF PreStepThrows, PreStepRejects, StoppingThrows, StepThrows,
           StepEndRefused, ThrowsWith
  <2>. QED
    BY <1>1, <2>1, AllSettled
<1>4. /\ inbox' \in Inboxes /\ \A x : Pending(inbox, x) => Pending(inbox', x)
      /\ unsent' \subseteq Messages
  <2>1. CASE PreStepThrows \/ PreStepRejects \/ StoppingThrows
    BY <1>1, <2>1 DEF PreStepThrows, PreStepRejects, StoppingThrows
  <2>2. ASSUME NEW outcome \in Outcomes, NEW context \in OneOf(unsent),
               \/ StepThrows(outcome, context)
               \/ StepEndRefused(outcome, context)
        PROVE  /\ inbox' \in Inboxes
               /\ \A x : Pending(inbox, x) => Pending(inbox', x)
               /\ unsent' \subseteq Messages
    <3>1. inbox' = WithContext(context) /\ unsent' = unsent \ context
      BY <2>2 DEF StepThrows, StepEndRefused, ThrowsWith
    <3>. QED
      BY <1>1, <3>1, ContextKeeps
  <2>. QED
    BY <2>1, <2>2
<1>. QED
  BY <1>1, <1>2, <1>3, <1>4, <1>5, StopMeans, StopsWell

\* The end of a turn that goes well looks at the inbox once more.
LEMMA CloseKeeps ==
    ASSUME DriverInv, ~Aborted, driver.at \in {"preStep", "stopping"},
           CloseTurn, rewritten' \subseteq Messages
    PROVE  DriverInv'
<1>1. /\ inbox \in Inboxes /\ phase \in Phases /\ driver \in Drivers
      /\ frames \in Seq(Frames) /\ unsent \subseteq Messages
      /\ owed \subseteq Messages /\ stranded \subseteq Messages
      /\ phase.turn \in Nat /\ driver.ends \in Ends
      /\ spent \in Spending
      /\ PhaseInv /\ OwedPending
  BY TypedParts DEF DriverInv, Phases, Drivers
<1>2. UNCHANGED <<inbox, frames, unsent>>
  BY DEF CloseTurn
<1>4. phase.kind = "running" /\ phase.abort = "none"
  BY <1>1 DEF PhaseInv, Aborted
<1>5. CASE /\ driver' = DriverAt("top") /\ phase' = Running(phase.turn)
           /\ UNCHANGED <<spent, owed, stranded>>
  <2>1. OwedPending'
    BY <1>1, <1>2, <1>5 DEF OwedPending
  <2>2. /\ phase' \in Phases /\ phase'.kind = "running"
        /\ phase'.abort = "none"
        /\ driver' \in Drivers /\ driver'.at = "top"
    BY <1>1, <1>5, FreshPhases, FreshDrivers DEF DriverPlaces
  <2>3. TypeOK'
    BY <1>1, <1>2, <1>5, <2>2, TypedAfter
  <2>. QED
    BY <2>1, <2>2, <2>3, StillRunning
<1>6. CASE /\ ~HasPending(inbox)
           /\ driver' = [DriverAt("returning") EXCEPT !.ends = driver.ends]
           /\ phase' = phase
           /\ UNCHANGED <<spent, owed, stranded>>
  <2>1. OwedPending'
    BY <1>1, <1>2, <1>6 DEF OwedPending
  <2>2. driver' \in Drivers /\ driver'.at = "returning"
    BY <1>1, <1>6, FreshDrivers DEF Drivers, DriverPlaces
  <2>3. TypeOK'
    BY <1>1, <1>2, <1>6, <2>2, TypedAfter
  <2>4. owed' = {}
    BY <1>1, <1>2, <1>6, EmptyHasNone DEF OwedPending
  <2>5. PhaseInv'
    BY <1>4, <1>6, <2>2 DEF PhaseInv
  <2>. QED
    BY <2>1, <2>3, <2>4, <2>5 DEF DriverInv, WakeKept
<1>7. CASE Refuses(phase.turn) /\ Stop /\ SettleAll /\ UNCHANGED phase
  <2>1. spent' \in Spending
    BY <1>1, <1>7, RefusesTyped
  <2>2. owed' = {} /\ stranded' = {}
    BY <1>1, <1>7, AllSettled
  <2>. QED
    BY <1>1, <1>2, <1>7, <2>1, <2>2, StopMeans, StopsWell
<1>. QED
  BY <1>5, <1>6, <1>7 DEF CloseTurn

LEMMA RewrittenTyped ==
    ASSUME driver \in Drivers, rewritten \subseteq Messages,
           NEW drop \in BOOLEAN, RewrittenBy(drop)
    PROVE  rewritten' \subseteq Messages
<1>1. driver.claimed \in Seq(Messages)
  BY DEF Drivers
<1>2. \A i \in 1..Len(driver.claimed) : driver.claimed[i] \in Messages
  BY <1>1
<1>. QED
  BY <1>2 DEF RewrittenBy

\* The pre-step hooks let the step enter, or find nothing to enter.
LEMMA PreStepKeeps ==
    ASSUME DriverInv, NEW drop \in BOOLEAN, NEW context \in BOOLEAN,
           \/ PreStepFindsNothing(drop, context)
           \/ EmptyTurn(drop, context)
           \/ EnterStep(drop, context)
    PROVE  DriverInv'
<1>1. /\ inbox \in Inboxes /\ phase \in Phases /\ driver \in Drivers
      /\ frames \in Seq(Frames) /\ unsent \subseteq Messages
      /\ owed \subseteq Messages /\ stranded \subseteq Messages
      /\ rewritten \subseteq Messages
      /\ spent \in Spending
      /\ PhaseInv /\ OwedPending
  BY TypedParts DEF DriverInv
<1>2. driver.at = "preStep" /\ ~Aborted /\ RewrittenBy(drop)
  BY DEF PreStepFindsNothing, EmptyTurn, EnterStep
<1>3. rewritten' \subseteq Messages
  BY <1>1, <1>2, RewrittenTyped
<1>4. phase.kind = "running" /\ phase.abort = "none"
  BY <1>1, <1>2 DEF PhaseInv, Aborted
<1>5. CASE PreStepFindsNothing(drop, context)
  BY <1>2, <1>3, <1>5, CloseKeeps DEF PreStepFindsNothing
<1>6. CASE EmptyTurn(drop, context)
  <2>1. /\ Stop /\ UNCHANGED <<phase, frames, inbox, unsent, owed>>
        /\ Refuses(phase.turn) \/ UNCHANGED spent
        /\ stranded' = stranded \cup owed
    BY <1>6 DEF EmptyTurn, EndTurn
  <2>4. phase.turn \in Nat
    BY <1>1 DEF Phases
  <2>5. spent' \in Spending
    BY <1>1, <2>1, <2>4, RefusesTyped
  <2>2. driver' \in Drivers /\ driver'.at = "returning"
    BY <2>1, StopMeans
  <2>3. TypeOK'
    BY <1>1, <1>3, <2>1, <2>2, <2>5, TypedAfter
  <2>. QED
    BY <1>1, <1>4, <2>1, <2>2, <2>3
       DEF DriverInv, PhaseInv, OwedPending, WakeKept, Aborted
<1>7. CASE EnterStep(drop, context)
  <2>1. /\ phase' = [phase EXCEPT !.step = @ + 1]
        /\ driver' = [driver EXCEPT !.at = "step", !.claimed = <<>>]
        /\ UNCHANGED <<inbox, frames, unsent, spent, owed, stranded>>
    BY <1>7 DEF EnterStep
  <2>2. /\ phase' \in Phases /\ phase'.kind = "running"
        /\ phase'.abort = "none"
    BY <1>1, <1>4, <2>1 DEF Phases
  <2>3. <<>> \in Seq(Messages)
    OBVIOUS
  <2>4. driver' \in Drivers /\ driver'.at = "step"
    BY <1>1, <2>1, <2>3 DEF Drivers, DriverPlaces
  <2>5. TypeOK'
    BY <1>1, <1>3, <2>1, <2>2, <2>4, TypedAfter
  <2>6. OwedPending'
    BY <1>1, <2>1 DEF OwedPending
  <2>. QED
    BY <2>2, <2>4, <2>5, <2>6, StillRunning
<1>. QED
  BY <1>5, <1>6, <1>7

LEMMA StepReturnsKeeps ==
    ASSUME DriverInv, NEW outcome \in Outcomes,
           NEW context \in OneOf(unsent), StepReturns(outcome, context)
    PROVE  DriverInv'
<1>. DEFINE ends == EndsAfter(outcome)
            in == WithContext(context)
            events == ContextEvents(context) \o StepEvents(outcome)
<1>1. /\ inbox \in Inboxes /\ phase \in Phases /\ driver \in Drivers
      /\ frames \in Seq(Frames) /\ unsent \subseteq Messages
      /\ owed \subseteq Messages /\ stranded \subseteq Messages
      /\ rewritten \subseteq Messages
      /\ spent \in Spending
      /\ PhaseInv /\ OwedPending /\ TypeOK
  BY TypedParts DEF DriverInv
<1>2. /\ driver.at = "step" /\ ~Aborted
      /\ unsent' = unsent \ context
      /\ UNCHANGED <<phase, frames, spent, rewritten>>
      /\ \/ /\ inbox' = in
            /\ driver' = [driver EXCEPT !.at = "stopping", !.ends = ends]
            /\ UNCHANGED <<owed, stranded>>
         \/ ClaimAt("next-step", events, ends, in)
  BY DEF StepReturns
<1>3. /\ in \in Inboxes /\ \A x : Pending(inbox, x) => Pending(in, x)
      /\ unsent' \subseteq Messages
  BY <1>1, <1>2, ContextKeeps
<1>4. ends \in Ends /\ "next-step" \in Targets
  BY DEF EndsAfter, Ends, Targets
<1>5. phase.kind = "running" /\ phase.abort = "none"
  BY <1>1, <1>2 DEF PhaseInv, Aborted
<1>. HIDE DEF ends, in, events
<1>6. CASE /\ inbox' = in
           /\ driver' = [driver EXCEPT !.at = "stopping", !.ends = ends]
           /\ UNCHANGED <<owed, stranded>>
  <2>1. driver' \in Drivers /\ driver'.at = "stopping"
    BY <1>1, <1>4, <1>6 DEF Drivers, DriverPlaces
  <2>2. TypeOK'
    BY <1>1, <1>2, <1>3, <1>6, <2>1, TypedAfter
  <2>3. OwedPending'
    BY <1>1, <1>3, <1>6 DEF OwedPending
  <2>. QED
    BY <1>2, <1>5, <2>1, <2>2, <2>3, StillRunning
<1>7. CASE ClaimAt("next-step", events, ends, in)
  <2>1. /\ inbox' \in Inboxes
        /\ driver' \in Drivers /\ driver'.at = "preStep"
        /\ OwedPending'
        /\ owed' \subseteq Messages /\ stranded' \subseteq Messages
    BY <1>1, <1>3, <1>4, <1>7, ClaimEffect DEF OwedPending
  <2>2. TypeOK'
    BY <1>1, <1>2, <1>3, <2>1, TypedAfter
  <2>. QED
    BY <1>2, <1>5, <2>1, <2>2, StillRunning
<1>. QED
  BY <1>2, <1>6, <1>7

LEMMA StoppingKeeps ==
    ASSUME DriverInv, StoppingSettles
    PROVE  DriverInv'
<1>1. /\ inbox \in Inboxes /\ phase \in Phases /\ driver \in Drivers
      /\ frames \in Seq(Frames) /\ unsent \subseteq Messages
      /\ rewritten \subseteq Messages
      /\ spent \in Spending
      /\ driver.ends \in Ends /\ "next-step" \in Targets
      /\ PhaseInv /\ OwedPending /\ TypeOK
  BY TypedParts DEF DriverInv, Drivers, Targets
<1>2. driver.at = "stopping" /\ ~Aborted /\ UNCHANGED rewritten
  BY DEF StoppingSettles
<1>3. phase.kind = "running" /\ phase.abort = "none"
  BY <1>1, <1>2 DEF PhaseInv, Aborted
<1>4. CASE CloseTurn
  BY <1>1, <1>2, <1>4, CloseKeeps
<1>5. CASE /\ ClaimAt("next-step", <<>>, driver.ends, inbox)
           /\ UNCHANGED <<phase, frames, unsent, spent>>
  <2>1. /\ inbox' \in Inboxes
        /\ driver' \in Drivers /\ driver'.at = "preStep"
        /\ OwedPending'
        /\ owed' \subseteq Messages /\ stranded' \subseteq Messages
    BY <1>1, <1>5, ClaimEffect DEF OwedPending
  <2>2. TypeOK'
    BY <1>1, <1>2, <1>5, <2>1, TypedAfter
  <2>. QED
    BY <1>3, <1>5, <2>1, <2>2, StillRunning
<1>. QED
  BY <1>4, <1>5 DEF StoppingSettles

\* kick() lets go of the agent: what it leaves has a replay behind it.
LEMMA ConvergeKeeps ==
    ASSUME DriverInv, Converge
    PROVE  DriverInv'
<1>1. /\ inbox \in Inboxes /\ phase \in Phases
      /\ owed \subseteq Messages /\ stranded \subseteq Messages
      /\ phase.turn \in Nat /\ phase.wakeRequested \in BOOLEAN
      /\ PhaseInv /\ OwedPending /\ WakeKept
  BY TypedParts DEF DriverInv, Phases
<1>2. /\ driver.at = "returning"
      /\ phase' = Idle(phase.turn) /\ driver' = NoDriver
      /\ frames' = Replayed
      /\ UNCHANGED <<inbox, unsent, spent, owed, stranded, rewritten>>
  BY DEF Converge
<1>3. /\ phase' \in Phases /\ phase'.kind = "idle"
      /\ phase'.abort = "none" /\ ~phase'.wakeRequested
      /\ driver' \in Drivers /\ driver'.at = "off"
  BY <1>1, <1>2, FreshPhases, FreshDrivers
<1>4. /\ frames' \in Seq(Frames)
      /\ phase.wakeRequested => ReplayWaits'
  <2>. DEFINE f == [call |-> "replay"]
  <2>1. f \in Frames /\ f.call = "replay"
    BY DEF Frames
  <2>. HIDE DEF f
  <2>2. frames' = IF phase.wakeRequested THEN <<f>> ELSE <<>>
    BY <1>2 DEF Replayed, f
  <2>. QED
    BY <2>1, <2>2 DEF ReplayWaits, ReplayIn
<1>5. TypeOK'
  BY <1>1, <1>2, <1>3, <1>4, TypedParts, TypedAfter DEF DriverInv
<1>6. phase.kind = "running"
  BY <1>1, <1>2 DEF PhaseInv
<1>7. owed \subseteq stranded \/ phase.wakeRequested
  BY <1>1, <1>2, <1>6 DEF WakeKept
<1>. QED
  BY <1>1, <1>2, <1>3, <1>4, <1>5, <1>7
     DEF DriverInv, PhaseInv, OwedPending, WakeKept, Aborted

\* The replay of a latched wake finds the agent idle, or latches it again.
LEMMA ReplayKeeps ==
    ASSUME DriverInv, Replay
    PROVE  DriverInv'
<1>1. /\ inbox \in Inboxes /\ phase \in Phases /\ driver \in Drivers
      /\ frames \in Seq(Frames)
      /\ PhaseInv /\ OwedPending /\ WakeKept
  BY TypedParts DEF DriverInv
<1>2. /\ Returned("replay") /\ frames' = Outer
      /\ UNCHANGED <<inbox, unsent, spent, owed, stranded, rewritten>>
  BY DEF Replay
<1>3. frames' \in Seq(Frames)
  BY <1>1, <1>2, FramePopped
<1>4. OwedPending'
  BY <1>1, <1>2 DEF OwedPending
<1>5. CASE HasPending(inbox)
  <2>1. WakeDriver(FALSE)
    BY <1>5 DEF Replay
  <2>2. /\ phase' \in Phases /\ driver' \in Drivers /\ PhaseInv'
        /\ phase.kind = "idle" =>
              /\ phase'.kind = "running" /\ phase'.abort = "none"
              /\ driver'.at = "starting"
        /\ phase.kind # "idle" =>
              /\ phase'.kind = phase.kind /\ phase'.abort = phase.abort
              /\ phase.wakeRequested => phase'.wakeRequested
              /\ Latches(FALSE) => phase'.wakeRequested
              /\ driver' = driver
    BY <1>1, <1>3, <2>1, WakeEffect
  <2>3. TypeOK'
    BY <1>2, <1>3, <2>2, TypedParts, TypedAfter DEF DriverInv
  <2>4. CASE phase.kind = "idle"
    BY <1>4, <2>2, <2>3, <2>4, StillRunning
  <2>5. CASE phase.kind = "maintenance"
    <3>1. driver.at = "off"
      BY <1>1, <2>5 DEF PhaseInv
    <3>2. phase.abort # "disposed" => phase'.wakeRequested
      BY <2>2, <2>5 DEF Latches
    <3>3. phase.abort = "disposed" => owed' = {}
      BY <1>1, <1>2 DEF WakeKept
    <3>. QED
      BY <1>4, <2>2, <2>3, <2>5, <3>1, <3>2, <3>3
         DEF DriverInv, WakeKept
  <2>6. CASE phase.kind = "running"
    BY <1>1, <1>2, <1>4, <2>2, <2>3, <2>6
       DEF DriverInv, WakeKept, Aborted
  <2>. QED
    BY <1>1, <2>4, <2>5, <2>6 DEF Phases
<1>6. CASE ~HasPending(inbox)
  <2>1. UNCHANGED <<phase, driver>>
    BY <1>6 DEF Replay
  <2>2. owed' = {}
    BY <1>1, <1>2, <1>6, EmptyHasNone DEF OwedPending
  <2>3. TypeOK'
    BY <1>1, <1>2, <1>3, <2>1, TypedParts, TypedAfter DEF DriverInv
  <2>. QED
    BY <1>1, <1>4, <2>1, <2>2, <2>3 DEF DriverInv, PhaseInv, WakeKept
<1>. QED
  BY <1>5, <1>6

LEMMA DriverStepKeeps ==
    ASSUME DriverInv, [Next]_vars
    PROVE  DriverInv'
<1>1. CASE DriverStep
  BY <1>1, NoTurnKeeps, BeginKeeps, ThrowKeeps, PreStepKeeps, StepReturnsKeeps,
     StoppingKeeps, ConvergeKeeps DEF DriverStep
<1>2. CASE Listeners
  <2>1. "next-turn" \in Targets /\ "next-step" \in Targets
    BY DEF Targets
  <2>. QED
    BY <1>2, <2>1, SendKeeps, EditKeeps, CancelKeeps, MaintenanceKeeps
       DEF Listeners
<1>3. CASE UNCHANGED vars
  BY <1>3 DEF vars, DriverInv, TypeOK, PhaseInv, OwedPending, WakeKept,
              Aborted, ReplayWaits, ReplayIn
<1>. QED
  BY <1>1, <1>2, <1>3, WakeKeeps, ReplayKeeps, CancelGoesOnKeeps,
     MaintenanceKeeps DEF Next

\* An agent that was just created satisfies the invariant.
LEMMA DriverStarts ==
    ASSUME Init
    PROVE  DriverInv
<1>1. /\ inbox = EmptyInbox /\ phase = Idle(0) /\ driver = NoDriver
      /\ frames = <<>> /\ unsent = Messages
      /\ spent = [cancels |-> 0, maintenance |-> 0, refusals |-> 0,
                   unended |-> 0]
      /\ owed = {} /\ stranded = {} /\ rewritten = {}
  BY DEF Init
<1>2. /\ phase \in Phases /\ phase.kind = "idle" /\ phase.abort = "none"
      /\ ~phase.wakeRequested
      /\ driver \in Drivers /\ driver.at = "off"
  BY <1>1, FreshPhases, FreshDrivers
<1>3. TypeOK
  BY <1>1, <1>2, EmptyHasNone, TypedParts DEF Spending
<1>. QED
  BY <1>1, <1>2, <1>3 DEF DriverInv, PhaseInv, OwedPending, WakeKept

(* What the driver owes, whom it owes it to and what it has latched fit    *)
(* together between any two awaits (agent.ts, wakeDriver, kick and turn).  *)
THEOREM DriverInvariant == Spec => []DriverInv
<1>. QED
  BY DriverStarts, DriverStepKeeps, PTL DEF Spec

\* Every reachable state of the driver has the declared types.
THEOREM DriverTyped == Spec => []TypeOK
<1>1. DriverInv => TypeOK
  BY DEF DriverInv
<1>. QED
  BY <1>1, DriverInvariant, PTL

(* The driver converges to idle only when every waking message it accepted *)
(* has left the inbox or is one of those it is known not to look at again  *)
(* (send, wakeDriver, kick and turn of ReactLoopAgent).                    *)
THEOREM OwesNothingIdle == Spec => []IdleOwesNothing
<1>1. DriverInv => IdleOwesNothing
  BY DEF DriverInv, WakeKept, IdleOwesNothing, Calm, ReplayWaits, ReplayIn
<1>. QED
  BY <1>1, DriverInvariant, PTL
=============================================================================
