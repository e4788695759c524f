----------------------------- MODULE ScanProofs -----------------------------
(***************************************************************************)
(* What a left fold over a log computes, for every step "After" of it and  *)
(* every log: each scan of the session log is an instance of this module.  *)
(*                                                                         *)
(* The proofs are by induction over the length of the log.  Induction is   *)
(* stated with a set, the lengths for which the claim holds, and follows   *)
(* from the well-foundedness of the natural numbers.                       *)
(***************************************************************************)
EXTENDS Integers, SequenceTheorems, WellFoundedInduction, TLAPS

CONSTANT After(_, _)    \* the step of the fold

Fold(fresh, events) ==
    LET at[n \in 0..Len(events)] ==
            IF n = 0 THEN fresh ELSE After(at[n - 1], events[n])
    IN  at[Len(events)]

LEMMA SetInduction ==
    ASSUME NEW S, 0 \in S, \A n \in Nat : n \in S => n + 1 \in S
    PROVE  \A n \in Nat : n \in S
<1>. DEFINE R == OpToRel(<, Nat)
<1>1. SUFFICES ASSUME Nat \ S # {}
               PROVE  FALSE
  OBVIOUS
<1>2. IsWellFoundedOn(R, Nat)
  BY NatLessThanWellFounded
<1>3. PICK n \in Nat \ S : \A m \in Nat \ S : ~ (<<m, n>> \in R)
  <2>. HIDE DEF R
  <2>. QED
    BY <1>1, <1>2, WFMin
<1>4. \A m \in Nat \ S : ~(m < n)
  BY <1>3 DEF OpToRel
<1>5. n - 1 \in Nat /\ n - 1 < n
  OBVIOUS
<1>6. n - 1 \in S
  BY <1>4, <1>5
<1>7. (n - 1) + 1 \in S
  BY <1>5, <1>6
<1>. QED
  BY <1>7

-----------------------------------------------------------------------------
(* The states of a fold over the first n events of a log. *)

States(f, fresh, events, n) ==
    /\ f = [i \in 0..n |-> f[i]]
    /\ f[0] = fresh
    /\ \A i \in 1..n : f[i] = After(f[i - 1], events[i])

LEMMA StatesExist ==
    ASSUME NEW fresh, NEW events
    PROVE  \A n \in Nat : \E f : States(f, fresh, events, n)
<1>. DEFINE S == {n \in Nat : \E f : States(f, fresh, events, n)}
<1>1. 0 \in S
  <2>. DEFINE f == [i \in 0..0 |-> fresh]
  <2>1. States(f, fresh, events, 0)
    BY DEF States
  <2>. QED
    BY <2>1
<1>2. ASSUME NEW n \in Nat, n \in S
      PROVE  n + 1 \in S
  <2>1. PICK f : States(f, fresh, events, n)
    BY <1>2
  <2>. DEFINE g == [i \in 0..n + 1 |-> IF i = n + 1
                                       THEN After(f[n], events[n + 1])
                                       ELSE f[i]]
  <2>2. /\ g = [i \in 0..n + 1 |-> g[i]]
        /\ g[n + 1] = After(f[n], events[n + 1])
        /\ \A i \in 0..n : g[i] = f[i]
    OBVIOUS
  <2>. HIDE DEF g
  <2>3. ASSUME NEW i \in 1..n + 1
        PROVE  g[i] = After(g[i - 1], events[i])
    <3>1. CASE i = n + 1
      <4>1. i - 1 = n /\ n \in 0..n
        BY <3>1
      <4>. QED
        BY <2>2, <3>1, <4>1
    <3>2. CASE i \in 1..n
      <4>1. i - 1 \in 0..n /\ i \in 0..n
        BY <3>2
      <4>. QED
        BY <2>1, <2>2, <3>2, <4>1 DEF States
    <3>. QED
      BY <3>1, <3>2
  <2>4. g[0] = fresh
    BY <2>1, <2>2 DEF States
  <2>5. States(g, fresh, events, n + 1)
    BY <2>2, <2>3, <2>4 DEF States
  <2>. QED
    BY <2>5
<1>. HIDE DEF S
<1>3. \A n \in Nat : n \in S
  BY <1>1, <1>2, SetInduction
<1>. QED
  BY <1>3 DEF S

LEMMA StatesAgree ==
    ASSUME NEW fresh, NEW s, NEW t, NEW m \in Nat, NEW n \in Nat, n <= m,
           \A i \in 1..n : s[i] = t[i],
           NEW f, States(f, fresh, s, n), NEW g, States(g, fresh, t, m)
    PROVE  \A i \in 0..n : f[i] = g[i]
<1>. DEFINE S == {i \in Nat : i <= n => f[i] = g[i]}
<1>1. 0 \in S
  BY DEF States
<1>2. ASSUME NEW i \in Nat, i \in S
      PROVE  i + 1 \in S
  <2>1. CASE i + 1 <= n
    <3>1. /\ i + 1 \in 1..n /\ i + 1 \in 1..m /\ (i + 1) - 1 = i /\ i <= n
      BY <2>1
    <3>2. f[i + 1] = After(f[i], s[i + 1]) /\ g[i + 1] = After(g[i], t[i + 1])
      BY <3>1 DEF States
    <3>. QED
      BY <1>2, <3>1, <3>2
  <2>2. CASE ~(i + 1 <= n)
    BY <2>2
  <2>. QED
    BY <2>1, <2>2
<1>. HIDE DEF S
<1>3. \A i \in Nat : i \in S
  BY <1>1, <1>2, SetInduction
<1>. QED
  BY <1>3 DEF S

\* A recursive function is one of its states: the fold ends in the last.
LEMMA FoldIsLast ==
    ASSUME NEW fresh, NEW events, Len(events) \in Nat
    PROVE  \E f : /\ States(f, fresh, events, Len(events))
                  /\ Fold(fresh, events) = f[Len(events)]
<1>. DEFINE N == Len(events)
            Def(f) == [n \in 0..N |->
                          IF n = 0 THEN fresh ELSE After(f[n - 1], events[n])]
            at[n \in 0..N] ==
                IF n = 0 THEN fresh ELSE After(at[n - 1], events[n])
<1>1. Fold(fresh, events) = at[N]
  BY DEF Fold
<1>2. at = CHOOSE f : f = Def(f)
  OBVIOUS
<1>3. \E f : f = Def(f)
  <2>1. PICK f : States(f, fresh, events, N)
    BY StatesExist
  <2>2. \A n \in 0..N : f[n] = IF n = 0 THEN fresh
                               ELSE After(f[n - 1], events[n])
    BY <2>1 DEF States
  <2>3. f = Def(f)
    BY <2>1, <2>2 DEF States
  <2>. QED
    BY <2>3
<1>. HIDE DEF at
<1>4. at = Def(at)
  BY <1>2, <1>3
<1>5. States(at, fresh, events, N)
  <2>1. \A n \in 0..N : at[n] = IF n = 0 THEN fresh
                                ELSE After(at[n - 1], events[n])
    BY <1>4
  <2>2. at = [n \in 0..N |-> at[n]]
    BY <1>4, <2>1
  <2>. HIDE DEF N
  <2>3. N \in Nat
    BY DEF N
  <2>. QED
    BY <2>1, <2>2, <2>3 DEF States
<1>. QED
  BY <1>1, <1>5

-----------------------------------------------------------------------------
(* What a reader of a fold may use. *)

\* Nothing happens in an empty log.
THEOREM FoldEmpty ==
    ASSUME NEW fresh
    PROVE  Fold(fresh, <<>>) = fresh
<1>1. Len(<<>>) = 0
  OBVIOUS
<1>2. PICK f : /\ States(f, fresh, <<>>, Len(<<>>))
               /\ Fold(fresh, <<>>) = f[Len(<<>>)]
  BY <1>1, FoldIsLast
<1>. QED
  BY <1>1, <1>2 DEF States

\* An event appended to the log is one more step of the fold.
THEOREM FoldAppend ==
    ASSUME NEW fresh, NEW E, NEW s \in Seq(E), NEW e \in E
    PROVE  Fold(fresh, Append(s, e)) = After(Fold(fresh, s), e)
<1>. DEFINE n == Len(s)
            t == Append(s, e)
<1>1. /\ n \in Nat /\ Len(t) = n + 1 /\ t[n + 1] = e
      /\ \A i \in 1..n : s[i] = t[i]
  BY AppendProperties
<1>. HIDE DEF n, t
<1>2. PICK f : States(f, fresh, s, n) /\ Fold(fresh, s) = f[n]
  BY <1>1, FoldIsLast DEF n
<1>3. Len(t) \in Nat
  BY <1>1
<1>4. PICK g : States(g, fresh, t, Len(t)) /\ Fold(fresh, t) = g[Len(t)]
  BY <1>3, FoldIsLast
<1>5. f[n] = g[n]
  <2>. DEFINE m == Len(t)
  <2>1. m \in Nat /\ n <= m /\ n \in 0..n
    BY <1>1
  <2>2. States(g, fresh, t, m)
    BY <1>4
  <2>. HIDE DEF m
  <2>3. \A i \in 0..n : f[i] = g[i]
    BY <1>1, <1>2, <2>1, <2>2, StatesAgree
  <2>. QED
    BY <2>1, <2>3
<1>6. g[n + 1] = After(g[n], t[n + 1])
  <2>1. n + 1 \in 1..Len(t) /\ (n + 1) - 1 = n
    BY <1>1
  <2>. QED
    BY <1>4, <2>1 DEF States
<1>. QED
  BY <1>1, <1>2, <1>4, <1>5, <1>6 DEF t

\* A single event is a single step.
THEOREM FoldOne ==
    ASSUME NEW fresh, NEW e
    PROVE  Fold(fresh, <<e>>) = After(fresh, e)
<1>1. <<>> \in Seq({e}) /\ e \in {e} /\ Append(<<>>, e) = <<e>>
  OBVIOUS
<1>2. Fold(fresh, Append(<<>>, e)) = After(Fold(fresh, <<>>), e)
  BY <1>1, FoldAppend, Zenon
<1>. QED
  BY <1>1, <1>2, FoldEmpty, Zenon

\* The log may be folded in two parts.
THEOREM FoldConcat ==
    ASSUME NEW fresh, NEW E, NEW s \in Seq(E), NEW t \in Seq(E)
    PROVE  Fold(fresh, s \o t) = Fold(Fold(fresh, s), t)
<1>. DEFINE S == {n \in Nat : \A r \in Seq(E) : Len(r) = n =>
                     Fold(fresh, s \o r) = Fold(Fold(fresh, s), r)}
<1>1. 0 \in S
  <2>1. ASSUME NEW r \in Seq(E), Len(r) = 0
        PROVE  Fold(fresh, s \o r) = Fold(Fold(fresh, s), r)
    <3>1. r = <<>> /\ s \o r = s
      BY <2>1
    <3>. QED
      BY <3>1, FoldEmpty
  <2>. QED
    BY <2>1
<1>2. ASSUME NEW n \in Nat, n \in S
      PROVE  n + 1 \in S
  <2>1. ASSUME NEW r \in Seq(E), Len(r) = n + 1
        PROVE  Fold(fresh, s \o r) = Fold(Fold(fresh, s), r)
    <3>. DEFINE front == SubSeq(r, 1, n)
                last == r[n + 1]
    <3>1. front \in Seq(E) /\ Len(front) = n /\ last \in E
          /\ r = Append(front, last)
      BY <2>1
    <3>. HIDE DEF front, last
    <3>2. s \o front \in Seq(E) /\ s \o r = Append(s \o front, last)
      BY <3>1
    <3>3. Fold(fresh, s \o r) = After(Fold(fresh, s \o front), last)
      <4>. DEFINE head == s \o front
      <4>1. head \in Seq(E)
        BY <3>2
      <4>. HIDE DEF head
      <4>2. Fold(fresh, Append(head, last)) = After(Fold(fresh, head), last)
        BY <3>1, <4>1, FoldAppend
      <4>. QED
        BY <3>2, <4>2 DEF head
    <3>4. Fold(fresh, s \o front) = Fold(Fold(fresh, s), front)
      BY <1>2, <3>1
    <3>5. Fold(Fold(fresh, s), r) = After(Fold(Fold(fresh, s), front), last)
      BY <3>1, FoldAppend
    <3>. QED
      BY <3>3, <3>4, <3>5
  <2>. QED
    BY <2>1
<1>. HIDE DEF S
<1>3. Len(t) \in Nat
  OBVIOUS
<1>4. Len(t) \in S
  BY <1>1, <1>2, <1>3, SetInduction
<1>. QED
  BY <1>4 DEF S

\* What every step of a fold keeps, the fold of every log keeps.
THEOREM FoldKeeps ==
    ASSUME NEW E, NEW V, \A v \in V : \A e \in E : After(v, e) \in V,
           NEW fresh \in V, NEW s \in Seq(E)
    PROVE  Fold(fresh, s) \in V
<1>. DEFINE N == Len(s)
            S == {n \in Nat : n <= N => Fold(fresh, SubSeq(s, 1, n)) \in V}
<1>0. N \in Nat
  OBVIOUS
<1>1. 0 \in S
  <2>1. SubSeq(s, 1, 0) = <<>>
    OBVIOUS
  <2>. QED
    BY <2>1, FoldEmpty
<1>2. ASSUME NEW n \in Nat, n \in S
      PROVE  n + 1 \in S
  <2>1. CASE n + 1 <= N
    <3>1. /\ SubSeq(s, 1, n) \in Seq(E) /\ s[n + 1] \in E
          /\ SubSeq(s, 1, n + 1) = Append(SubSeq(s, 1, n), s[n + 1])
      BY <2>1
    <3>2. Fold(fresh, SubSeq(s, 1, n + 1))
             = After(Fold(fresh, SubSeq(s, 1, n)), s[n + 1])
      <4>. DEFINE front == SubSeq(s, 1, n)
                  last == s[n + 1]
      <4>1. front \in Seq(E) /\ last \in E
        BY <3>1
      <4>. HIDE DEF front, last
      <4>2. Fold(fresh, Append(front, last)) = After(Fold(fresh, front), last)
        BY <4>1, FoldAppend
      <4>. QED
        BY <3>1, <4>2 DEF front, last
    <3>. QED
      BY <1>0, <1>2, <2>1, <3>1, <3>2
  <2>2. CASE ~(n + 1 <= N)
    BY <2>2
  <2>. QED
    BY <2>1, <2>2
<1>. HIDE DEF S
<1>3. N \in S
  BY <1>0, <1>1, <1>2, SetInduction
<1>4. SubSeq(s, 1, N) = s
  OBVIOUS
<1>5. N <= N
  BY <1>0
<1>. QED
  BY <1>3, <1>4, <1>5 DEF S
=============================================================================
