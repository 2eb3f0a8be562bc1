------------------------------ MODULE MlfqProofs ------------------------------
(***************************************************************************)
(* For every pool of tasks, every boost interval and every backlog: the    *)
(* type invariant of Mlfq, that no task is overtaken and, when the boost   *)
(* is on, the bound on how long a queued task can be passed over.          *)
(***************************************************************************)
EXTENDS Mlfq, SequenceTheorems, TLAPS

-----------------------------------------------------------------------------
(* What the operations of the agenda do to its tiers, for tasks of any set *)

AgendasOf(S) == [Tiers -> Seq(S)]

\* TaskAgenda's operations map agendas to agendas (push with its clamped
\* level, pop of a non-empty tier, the boost).
LEMMA AgendaTypes ==
    ASSUME NEW S, NEW a \in AgendasOf(S)
    PROVE  /\ \A id \in S, level \in Nat : Push(a, level, id) \in AgendasOf(S)
           /\ \A t \in Tiers : a[t] # <<>> => PopTier(a, t) \in AgendasOf(S)
           /\ BoostAllToHigh(a) \in AgendasOf(S)
           /\ \A p, n \in Nat : CheckAndBoost(a, p, n) \in AgendasOf(S)
<1>1. ASSUME NEW id \in S, NEW level \in Nat PROVE Push(a, level, id) \in AgendasOf(S)
  BY <1>1 DEF Push, TierOf, AgendasOf, Tiers, NUM_TIERS
<1>2. ASSUME NEW t \in Tiers, a[t] # <<>> PROVE PopTier(a, t) \in AgendasOf(S)
  BY <1>2 DEF PopTier, AgendasOf
<1>3. BoostAllToHigh(a) \in AgendasOf(S)
  <2>1. a[0] \in Seq(S) /\ a[1] \in Seq(S) /\ a[2] \in Seq(S)
    BY DEF AgendasOf, Tiers, NUM_TIERS
  <2>2. (a[0] \o a[1]) \o a[2] \in Seq(S)
    BY <2>1
  <2> QED  BY <2>2 DEF BoostAllToHigh, AgendasOf
<1>4. \A p, n \in Nat : CheckAndBoost(a, p, n) \in AgendasOf(S)
  BY <1>3 DEF CheckAndBoost
<1> QED  BY <1>1, <1>2, <1>3, <1>4

\* q holds what q0, then q1, then q2 hold, each in its order.
Concatenated(q, q0, q1, q2) ==
    /\ Len(q) = Len(q0) + Len(q1) + Len(q2)
    /\ \A i \in 1 .. Len(q) :
          \/ i <= Len(q0) /\ q[i] = q0[i]
          \/ \E j \in 1 .. Len(q1) : q[i] = q1[j]
          \/ \E j \in 1 .. Len(q2) : q[i] = q2[j]
    /\ \A j \in 1 .. Len(q0) : j \in 1 .. Len(q) /\ q[j] = q0[j]
    /\ \A j \in 1 .. Len(q1) : Len(q0) + j \in 1 .. Len(q) /\ q[Len(q0) + j] = q1[j]
    /\ \A j \in 1 .. Len(q2) :
          Len(q0) + Len(q1) + j \in 1 .. Len(q) /\ q[Len(q0) + Len(q1) + j] = q2[j]

\* Concatenation of three queues, which is how boost_all_to_high appends
\* Medium, then Low, behind High.
LEMMA ThreeQueues ==
    ASSUME NEW S, NEW q0 \in Seq(S), NEW q1 \in Seq(S), NEW q2 \in Seq(S)
    PROVE  /\ (q0 \o q1) \o q2 \in Seq(S)
           /\ Concatenated((q0 \o q1) \o q2, q0, q1, q2)
<1> DEFINE r == q0 \o q1
           q == r \o q2
<1>1. Len(q0) \in Nat /\ Len(q1) \in Nat /\ Len(q2) \in Nat
  OBVIOUS
<1>2. r \in Seq(S)
  BY ConcatProperties, Zenon
<1>3. /\ Len(r) = Len(q0) + Len(q1)
      /\ \A i \in 1 .. Len(q0) + Len(q1) : r[i] = IF i <= Len(q0) THEN q0[i] ELSE q1[i - Len(q0)]
  BY ConcatProperties, Zenon
<1> HIDE DEF r
<1>4. q \in Seq(S)
  BY <1>2, ConcatProperties, Zenon
<1>5. /\ Len(q) = Len(r) + Len(q2)
      /\ \A i \in 1 .. Len(r) + Len(q2) : q[i] = IF i <= Len(r) THEN r[i] ELSE q2[i - Len(r)]
  BY <1>2, ConcatProperties, Zenon
<1> HIDE DEF q
<1>6. Len(q) = Len(q0) + Len(q1) + Len(q2)
  BY <1>1, <1>3, <1>5
<1>7. ASSUME NEW j \in 1 .. Len(q0)
      PROVE  j \in 1 .. Len(q) /\ q[j] = q0[j]
  BY <1>1, <1>3, <1>5
<1>8. ASSUME NEW j \in 1 .. Len(q1)
      PROVE  Len(q0) + j \in 1 .. Len(q) /\ q[Len(q0) + j] = q1[j]
  <2>1. Len(q0) + j \in 1 .. Len(q0) + Len(q1) /\ ~(Len(q0) + j <= Len(q0))
    BY <1>1
  <2>2. Len(q0) + j - Len(q0) = j  BY <1>1
  <2>3. r[Len(q0) + j] = q1[j]  BY <1>3, <2>1, <2>2
  <2>4. Len(q0) + j \in 1 .. Len(r) + Len(q2) /\ Len(q0) + j <= Len(r)  BY <1>1, <1>3
  <2> QED  BY <1>5, <2>3, <2>4
<1>9. ASSUME NEW j \in 1 .. Len(q2)
      PROVE  Len(r) + j \in 1 .. Len(q) /\ q[Len(r) + j] = q2[j]
  <2>1. Len(r) + j \in 1 .. Len(r) + Len(q2) /\ ~(Len(r) + j <= Len(r))
    BY <1>1, <1>3
  <2>2. Len(r) + j - Len(r) = j  BY <1>1, <1>3
  <2> QED  BY <1>5, <2>1, <2>2
<1>10. ASSUME NEW i \in 1 .. Len(q)
       PROVE  \/ i <= Len(q0) /\ q[i] = q0[i]
              \/ \E j \in 1 .. Len(q1) : q[i] = q1[j]
              \/ \E j \in 1 .. Len(q2) : q[i] = q2[j]
  <2>1. CASE i <= Len(q0)
    BY <1>1, <1>7, <2>1
  <2>2. CASE i > Len(q0) /\ i <= Len(r)
    <3>1. i - Len(q0) \in 1 .. Len(q1) /\ Len(q0) + (i - Len(q0)) = i
      BY <1>1, <1>3, <2>2
    <3> QED  BY <1>8, <3>1
  <2>3. CASE i > Len(r)
    <3>1. i - Len(r) \in 1 .. Len(q2) /\ Len(r) + (i - Len(r)) = i
      BY <1>1, <1>3, <1>5, <2>3
    <3> QED  BY <1>9, <3>1
  <2> QED  BY <1>1, <1>3, <2>1, <2>2, <2>3
<1>11. Concatenated(q, q0, q1, q2)
  <2>1. \A j \in 1 .. Len(q2) :
           Len(q0) + Len(q1) + j \in 1 .. Len(q) /\ q[Len(q0) + Len(q1) + j] = q2[j]
    BY <1>3, <1>9
  <2> QED  BY <1>6, <1>7, <1>8, <1>10, <2>1, Zenon DEF Concatenated
<1> QED  BY <1>4, <1>11 DEF q, r

\* What a boost does to positions: High grows to the whole agenda, keeps its
\* own tasks where they were, and takes nothing from outside the agenda.
LEMMA BoostPositions ==
    ASSUME NEW S, NEW a \in AgendasOf(S)
    PROVE  LET b == BoostAllToHigh(a)
           IN  /\ b \in AgendasOf(S) /\ b[1] = <<>> /\ b[2] = <<>>
               /\ Size(b) = Size(a) /\ Len(b[0]) = Size(a)
               /\ \A i \in 1 .. Len(b[0]) :
                     \/ i <= Len(a[0]) /\ b[0][i] = a[0][i]
                     \/ \E t \in {1, 2} : \E j \in 1 .. Len(a[t]) : b[0][i] = a[t][j]
               /\ \A id \in S : Queued(a, id) => Queued(b, id)
<1> DEFINE b == BoostAllToHigh(a)
           s == (a[0] \o a[1]) \o a[2]
<1>1. a[0] \in Seq(S) /\ a[1] \in Seq(S) /\ a[2] \in Seq(S)
  BY DEF AgendasOf, Tiers, NUM_TIERS
<1>2. b \in AgendasOf(S)  BY AgendaTypes
<1>3. b[0] = s /\ b[1] = <<>> /\ b[2] = <<>>
  <2>1. 0 \in Tiers /\ 1 \in Tiers /\ 2 \in Tiers /\ 1 # 0 /\ 2 # 0
    BY DEF Tiers, NUM_TIERS
  <2> QED  BY <2>1, Zenon DEF BoostAllToHigh, High
<1>4. s \in Seq(S) /\ Concatenated(s, a[0], a[1], a[2])
  BY <1>1, ThreeQueues, Zenon
<1> HIDE DEF s
<1>5. ASSUME NEW id \in S, Queued(a, id) PROVE Queued(b, id)
  <2>1. PICK t \in Tiers : \E i \in 1 .. Len(a[t]) : a[t][i] = id  BY <1>5 DEF Queued
  <2>2. t = 0 \/ t = 1 \/ t = 2  BY DEF Tiers, NUM_TIERS
  <2>3. /\ \A j \in 1 .. Len(a[0]) : \E i \in 1 .. Len(s) : s[i] = a[0][j]
        /\ \A j \in 1 .. Len(a[1]) : \E i \in 1 .. Len(s) : s[i] = a[1][j]
        /\ \A j \in 1 .. Len(a[2]) : \E i \in 1 .. Len(s) : s[i] = a[2][j]
    BY <1>4, Zenon DEF Concatenated
  <2>4. \E k \in 1 .. Len(s) : s[k] = id
    <3>1. CASE t = 0  BY <2>1, <2>3, <3>1
    <3>2. CASE t = 1  BY <2>1, <2>3, <3>2
    <3>3. CASE t = 2  BY <2>1, <2>3, <3>3
    <3> QED  BY <2>2, <3>1, <3>2, <3>3
  <2>5. 0 \in Tiers  BY DEF Tiers, NUM_TIERS
  <2> QED  BY <1>3, <2>4, <2>5, Zenon DEF Queued
<1>6. Size(b) = Size(a) /\ Len(b[0]) = Size(a)
  <2>1. Len(b[0]) = Size(a)  BY <1>3, <1>4 DEF Size, Concatenated
  <2>2. Len(b[1]) = 0 /\ Len(b[2]) = 0  BY <1>3
  <2>3. Len(a[0]) \in Nat /\ Len(a[1]) \in Nat /\ Len(a[2]) \in Nat  BY <1>1
  <2> QED  BY <2>1, <2>2, <2>3 DEF Size
<1> HIDE DEF b
<1>7. \A i \in 1 .. Len(b[0]) :
         \/ i <= Len(a[0]) /\ b[0][i] = a[0][i]
         \/ \E t \in {1, 2} : \E j \in 1 .. Len(a[t]) : b[0][i] = a[t][j]
  BY <1>3, <1>4 DEF Concatenated
<1> QED  BY <1>2, <1>3, <1>5, <1>6, <1>7 DEF b

\* An agenda's size is a natural number, at least as large as each tier.
LEMMA SizeFacts ==
    ASSUME NEW S, NEW a \in AgendasOf(S)
    PROVE  Size(a) \in Nat /\ \A t \in Tiers : Len(a[t]) \in Nat /\ Len(a[t]) <= Size(a)
<1> DEFINE x == Len(a[0])  y == Len(a[1])  z == Len(a[2])
<1>1. a[0] \in Seq(S) /\ a[1] \in Seq(S) /\ a[2] \in Seq(S)
  BY DEF AgendasOf, Tiers, NUM_TIERS
<1>2. x \in Nat /\ y \in Nat /\ z \in Nat  BY <1>1
<1>3. Size(a) = x + y + z  BY DEF Size
<1>4. ASSUME NEW t \in Tiers PROVE Len(a[t]) = x \/ Len(a[t]) = y \/ Len(a[t]) = z
  BY DEF Tiers, NUM_TIERS
<1> HIDE DEF x, y, z
<1>5. Size(a) \in Nat /\ x <= Size(a) /\ y <= Size(a) /\ z <= Size(a)  BY <1>2, <1>3
<1> QED  BY <1>2, <1>4, <1>5

\* The size of an agenda changes by what one tier's length changes by.
LEMMA OneTierChanges ==
    ASSUME NEW S, NEW a \in AgendasOf(S), NEW b, NEW k \in Tiers, NEW d \in {-1, 1},
           Len(b[k]) = Len(a[k]) + d,
           \A t \in Tiers : t # k => b[t] = a[t]
    PROVE  Size(b) = Size(a) + d
<1> DEFINE x == Len(a[0])  y == Len(a[1])  z == Len(a[2])
<1>1. a[0] \in Seq(S) /\ a[1] \in Seq(S) /\ a[2] \in Seq(S)
  BY DEF AgendasOf, Tiers, NUM_TIERS
<1>2. x \in Nat /\ y \in Nat /\ z \in Nat /\ d \in Int  BY <1>1
<1>3. /\ 0 \in Tiers /\ 1 \in Tiers /\ 2 \in Tiers /\ (k = 0 \/ k = 1 \/ k = 2)
      /\ 0 # 1 /\ 1 # 0 /\ 0 # 2 /\ 2 # 0 /\ 1 # 2 /\ 2 # 1
  BY DEF Tiers, NUM_TIERS
<1>4. Size(a) = x + y + z  BY DEF Size
<1>5. Size(b) = Len(b[0]) + Len(b[1]) + Len(b[2])  BY DEF Size
<1>6. CASE k = 0
  <2>1. Len(b[0]) = x + d /\ Len(b[1]) = y /\ Len(b[2]) = z  BY <1>3, <1>6, Zenon
  <2> HIDE DEF x, y, z
  <2> QED  BY <1>2, <1>4, <1>5, <2>1
<1>7. CASE k = 1
  <2>1. Len(b[0]) = x /\ Len(b[1]) = y + d /\ Len(b[2]) = z  BY <1>3, <1>7, Zenon
  <2> HIDE DEF x, y, z
  <2> QED  BY <1>2, <1>4, <1>5, <2>1
<1>8. CASE k = 2
  <2>1. Len(b[0]) = x /\ Len(b[1]) = y /\ Len(b[2]) = z + d  BY <1>3, <1>8, Zenon
  <2> HIDE DEF x, y, z
  <2> QED  BY <1>2, <1>4, <1>5, <2>1
<1> QED  BY <1>3, <1>6, <1>7, <1>8

\* What push does to the agenda: one more task, at the end of its tier.
LEMMA PushPositions ==
    ASSUME NEW S, NEW a \in AgendasOf(S), NEW id \in S, NEW level \in Nat
    PROVE  LET b == Push(a, level, id)
           IN  /\ Size(b) = Size(a) + 1
               /\ \A t \in Tiers : \A i \in 1 .. Len(b[t]) :
                     \/ i <= Len(a[t]) /\ b[t][i] = a[t][i]
                     \/ b[t][i] = id /\ i <= Size(a) + 1
               /\ \A x \in S : Queued(a, x) => Queued(b, x)
<1> DEFINE b == Push(a, level, id)
           k == TierOf(level)
<1>1. k \in Tiers  BY DEF TierOf, Tiers, NUM_TIERS
<1>2. \A t \in Tiers : a[t] \in Seq(S) /\ Len(a[t]) \in Nat  BY DEF AgendasOf
<1>3. b[k] = Append(a[k], id) /\ \A t \in Tiers : t # k => b[t] = a[t]
  BY <1>1 DEF Push, AgendasOf
<1> HIDE DEF b, k
<1>4. /\ Len(b[k]) = Len(a[k]) + 1 /\ b[k][Len(a[k]) + 1] = id
      /\ \A i \in 1 .. Len(a[k]) : b[k][i] = a[k][i]
  BY <1>1, <1>2, <1>3
<1>5. Size(b) = Size(a) + 1
  BY <1>1, <1>3, <1>4, OneTierChanges
<1>6. Size(a) \in Nat /\ Len(a[k]) <= Size(a)
  BY <1>1, SizeFacts
<1>7. ASSUME NEW t \in Tiers, NEW i \in 1 .. Len(b[t])
       PROVE  \/ i <= Len(a[t]) /\ b[t][i] = a[t][i]
              \/ b[t][i] = id /\ i <= Size(a) + 1
  <2>1. CASE t # k  BY <1>2, <1>3, <2>1
  <2>2. CASE t = k /\ i <= Len(a[k])  BY <1>1, <1>2, <1>4, <2>2
  <2>3. CASE t = k /\ i > Len(a[k])
    <3>1. i = Len(a[k]) + 1  BY <1>1, <1>2, <1>4, <2>3
    <3> QED  BY <1>1, <1>2, <1>4, <1>6, <2>3, <3>1
  <2> QED  BY <1>1, <1>2, <1>4, <2>1, <2>2, <2>3
<1>8. ASSUME NEW x \in S, Queued(a, x) PROVE Queued(b, x)
  <2>1. PICK t \in Tiers : \E i \in 1 .. Len(a[t]) : a[t][i] = x  BY <1>8 DEF Queued
  <2>2. PICK i \in 1 .. Len(a[t]) : a[t][i] = x  BY <2>1
  <2>3. i \in 1 .. Len(b[t]) /\ b[t][i] = x
    <3>1. CASE t = k  BY <1>1, <1>2, <1>4, <2>2, <3>1
    <3>2. CASE t # k  BY <1>3, <2>2, <3>2
    <3> QED  BY <3>1, <3>2
  <2> QED  BY <2>3 DEF Queued
<1> QED  BY <1>5, <1>7, <1>8 DEF b

\* What select_optimal_task leaves: one task fewer, the popped tier moved up.
LEMMA PopPositions ==
    ASSUME NEW S, NEW a \in AgendasOf(S), NEW t \in Tiers, IsTop(a, t)
    PROVE  LET b == PopTier(a, t)
           IN  /\ Size(b) = Size(a) - 1
               /\ \A i \in 1 .. Len(b[t]) : i + 1 \in 1 .. Len(a[t]) /\ b[t][i] = a[t][i + 1]
               /\ \A s \in Tiers : s # t => b[s] = a[s]
<1> DEFINE b == PopTier(a, t)
<1>1. \A s \in Tiers : a[s] \in Seq(S) /\ Len(a[s]) \in Nat  BY DEF AgendasOf
<1>2. b[t] = Tail(a[t]) /\ \A s \in Tiers : s # t => b[s] = a[s]
  BY DEF PopTier, AgendasOf
<1>3. a[t] # <<>>  BY DEF IsTop
<1> HIDE DEF b
<1>4. /\ Len(b[t]) = Len(a[t]) - 1
      /\ \A i \in 1 .. Len(b[t]) : i + 1 \in 1 .. Len(a[t]) /\ b[t][i] = a[t][i + 1]
  BY <1>1, <1>2, <1>3
<1>5. Len(b[t]) = Len(a[t]) + (-1)
  BY <1>1, <1>4
<1>6. Size(b) = Size(a) + (-1)
  BY <1>2, <1>5, OneTierChanges
<1>7. Size(a) + (-1) = Size(a) - 1  BY SizeFacts
<1> QED  BY <1>2, <1>4, <1>6, <1>7 DEF b

-----------------------------------------------------------------------------
(* Types *)

\* The agenda part of the type invariant, which the lemmas work with.
Agendas == AgendasOf(Tasks)

\* The type invariant holds in every reachable state, whatever arrives and
\* however the backend answers.
THEOREM TypeCorrect == Spec => []TypeOK
<1> USE BoostIntervalAssumption, BacklogAssumption, LevelsAssumption
<1>1. Init => TypeOK
  BY DEF Init, TypeOK, EmptyAgenda, Phases, WaitCap
<1>2. TypeOK /\ [Next]_vars => TypeOK'
  <2> SUFFICES ASSUME TypeOK, [Next]_vars PROVE TypeOK'  OBVIOUS
  <2> USE DEF TypeOK
  <2>a. agenda \in Agendas  BY DEF Agendas, AgendasOf
  <2>1. CASE Boost
    <3>1. phase \in Nat  BY DEF Phases
    <3>2. agenda' \in Agendas  BY <2>1, <2>a, <3>1, AgendaTypes DEF Boost, Agendas
    <3> QED  BY <2>1, <3>2 DEF Boost, Agendas, AgendasOf
  <2>2. CASE Idle
    BY <2>2 DEF Idle
  <2>3. ASSUME NEW t \in Tiers, Dispatch(t) PROVE TypeOK'
    <3>1. agenda' \in Agendas  BY <2>3, <2>a, AgendaTypes DEF Dispatch, IsTop, Agendas
    <3>2. phase' \in Phases  BY <2>3 DEF Dispatch, NextPhase, Phases
    <3>3. waited' \in [Tasks -> 0 .. WaitCap]  BY <2>3 DEF Dispatch, WaitCap
    <3>4. before' \subseteq Tasks \X Tasks  BY <2>3 DEF Dispatch
    <3> QED  BY <2>3, <3>1, <3>2, <3>3, <3>4 DEF Dispatch, Agendas, AgendasOf
  <2>4. ASSUME NEW id \in Tasks, NEW level \in Levels, Arrive(id, level) PROVE TypeOK'
    <3>1. agenda' \in Agendas  BY <2>4, <2>a, AgendaTypes DEF Arrive, Agendas
    <3>2. before' \subseteq Tasks \X Tasks  BY <2>4 DEF Arrive, AheadOf
    <3> QED  BY <2>4, <3>1, <3>2 DEF Arrive, Agendas, AgendasOf
  <2>5. CASE UNCHANGED vars
    BY <2>5 DEF vars
  <2> QED  BY <2>1, <2>2, <2>3, <2>4, <2>5 DEF Next, Step
<1> QED  BY <1>1, <1>2, PTL DEF Spec

-----------------------------------------------------------------------------
(* The inductive invariant behind WaitBounded *)

\* How many dispatches a task below High can have watched: as many as there
\* have been since the last boost, and none right after one.
Lag == IF pc = "select" /\ BoostDue(phase, BoostInterval) THEN 0 ELSE phase

\* No more than Backlog tasks wait, and one fewer when the loop comes round.
BacklogKept ==
    /\ Size(agenda) <= Backlog
    /\ pc = "boost" => Size(agenda) <= Backlog - 1

\* A task that is not waiting has no dispatches on its account.
FreshArrivals == \A id \in Tasks : ~Queued(agenda, id) => waited[id] = 0

\* Below High the wait is bounded by the dispatches since the last boost.
LowTiersLag ==
    \A t \in {1, 2} : \A i \in 1 .. Len(agenda[t]) : waited[agenda[t][i]] <= Lag

\* In High every dispatch brings a task one place closer to its own.
HighAdvances ==
    \A i \in 1 .. Len(agenda[0]) : waited[agenda[0][i]] + i <= BoostInterval + Backlog - 1

WaitInv == TypeOK /\ BacklogKept /\ FreshArrivals /\ LowTiersLag /\ HighAdvances

\* Every step of the scheduler keeps WaitInv, when boosting is on.
LEMMA WaitStep ==
    ASSUME BoostInterval # 0, WaitInv, TypeOK', [Next]_vars
    PROVE  WaitInv'
<1> USE BoostIntervalAssumption, BacklogAssumption
<1>a. /\ agenda \in Agendas /\ agenda' \in Agendas
      /\ phase \in 0 .. BoostInterval /\ phase' \in 0 .. BoostInterval
      /\ waited \in [Tasks -> 0 .. WaitCap] /\ WaitCap \in Nat
  BY DEF WaitInv, TypeOK, Agendas, AgendasOf, Phases, WaitCap
<1>b. 0 \in Tiers /\ 1 \in Tiers /\ 2 \in Tiers /\ \A t \in Tiers : t = 0 \/ t \in {1, 2}
  BY DEF Tiers, NUM_TIERS
<1>c. /\ \A t \in Tiers : \A i \in 1 .. Len(agenda[t]) : agenda[t][i] \in Tasks
      /\ \A t \in Tiers : \A i \in 1 .. Len(agenda'[t]) : agenda'[t][i] \in Tasks
  BY <1>a DEF Agendas, AgendasOf
<1>d. \A id \in Tasks : waited[id] \in Nat  BY <1>a
<1>e. /\ Size(agenda) \in Nat /\ \A t \in Tiers : Len(agenda[t]) \in Nat /\ Len(agenda[t]) <= Size(agenda)
  BY <1>a, SizeFacts DEF Agendas
<1>1. CASE Boost /\ BoostDue(phase, BoostInterval)
  <2>1. /\ agenda' = BoostAllToHigh(agenda) /\ pc = "boost" /\ pc' = "select"
        /\ phase' = phase /\ waited' = waited /\ phase = BoostInterval
    BY <1>1 DEF Boost, CheckAndBoost, BoostDue
  <2>2. /\ agenda'[1] = <<>> /\ agenda'[2] = <<>>
        /\ Size(agenda') = Size(agenda) /\ Len(agenda'[0]) = Size(agenda)
    BY <1>a, <2>1, BoostPositions DEF Agendas
  <2>3. \A i \in 1 .. Len(agenda'[0]) :
           \/ i <= Len(agenda[0]) /\ agenda'[0][i] = agenda[0][i]
           \/ \E t \in {1, 2} : \E j \in 1 .. Len(agenda[t]) : agenda'[0][i] = agenda[t][j]
    BY <1>a, <2>1, BoostPositions DEF Agendas
  <2>4. \A id \in Tasks : Queued(agenda, id) => Queued(agenda', id)
    BY <1>a, <2>1, BoostPositions DEF Agendas
  <2>5. BacklogKept'
    BY <2>1, <2>2 DEF WaitInv, BacklogKept
  <2>6. FreshArrivals'
    BY <2>1, <2>4 DEF WaitInv, FreshArrivals
  <2>7. LowTiersLag'
    BY <2>2 DEF LowTiersLag
  <2>8. HighAdvances'
    <3> SUFFICES ASSUME NEW i \in 1 .. Len(agenda'[0])
                 PROVE  waited[agenda'[0][i]] + i <= BoostInterval + Backlog - 1
      BY <2>1 DEF HighAdvances
    <3>1. CASE i <= Len(agenda[0]) /\ agenda'[0][i] = agenda[0][i]
      <4>1. i \in 1 .. Len(agenda[0])  BY <1>b, <1>e, <3>1
      <4> QED  BY <3>1, <4>1 DEF WaitInv, HighAdvances
    <3>2. CASE \E t \in {1, 2} : \E j \in 1 .. Len(agenda[t]) : agenda'[0][i] = agenda[t][j]
      <4>1. PICK t \in {1, 2} : \E j \in 1 .. Len(agenda[t]) : agenda'[0][i] = agenda[t][j]
        BY <3>2
      <4>2. PICK j \in 1 .. Len(agenda[t]) : agenda'[0][i] = agenda[t][j]
        BY <4>1
      <4>3. waited[agenda[t][j]] <= Lag  BY DEF WaitInv, LowTiersLag
      <4>4. Lag = phase  BY <2>1 DEF Lag
      <4>5. i <= Backlog - 1  BY <1>e, <2>1, <2>2 DEF WaitInv, BacklogKept
      <4>6. waited[agenda'[0][i]] \in Nat  BY <1>b, <1>c, <1>d
      <4> DEFINE w == waited[agenda'[0][i]]
      <4>7. w \in Nat /\ w <= BoostInterval  BY <2>1, <4>2, <4>3, <4>4, <4>6
      <4> HIDE DEF w
      <4>8. w + i <= BoostInterval + Backlog - 1  BY <4>5, <4>7
      <4> QED  BY <4>8 DEF w
    <3> QED  BY <2>3, <3>1, <3>2
  <2> QED  BY <2>5, <2>6, <2>7, <2>8 DEF WaitInv
<1>2. CASE Boost /\ ~BoostDue(phase, BoostInterval)
  <2>1. /\ agenda' = agenda /\ pc = "boost" /\ pc' = "select"
        /\ phase' = phase /\ waited' = waited /\ Lag' = Lag
    BY <1>2 DEF Boost, CheckAndBoost, Lag
  <2>2. BacklogKept'  BY <2>1 DEF WaitInv, BacklogKept
  <2>3. FreshArrivals' /\ LowTiersLag' /\ HighAdvances'
    BY <2>1 DEF WaitInv, FreshArrivals, LowTiersLag, HighAdvances
  <2> QED  BY <2>2, <2>3 DEF WaitInv
<1>3. CASE Idle
  <2>1. /\ agenda' = agenda /\ pc = "select" /\ pc' = "boost"
        /\ phase' = phase /\ waited' = waited
    BY <1>3 DEF Idle
  <2>2. agenda[0] = <<>> /\ agenda[1] = <<>> /\ agenda[2] = <<>>
    BY <1>3, <1>b DEF Idle, IsEmpty
  <2>3. Size(agenda) = 0
    <3>1. Len(agenda[0]) = 0 /\ Len(agenda[1]) = 0 /\ Len(agenda[2]) = 0  BY <2>2
    <3> QED  BY <3>1 DEF Size
  <2>4. BacklogKept'  BY <2>1, <2>3 DEF BacklogKept
  <2>5. FreshArrivals'  BY <2>1 DEF WaitInv, FreshArrivals
  <2>6. LowTiersLag' /\ HighAdvances'
    BY <2>1, <2>2 DEF LowTiersLag, HighAdvances
  <2> QED  BY <2>4, <2>5, <2>6 DEF WaitInv
<1>4. ASSUME NEW id \in Tasks, NEW level \in Levels, Arrive(id, level) PROVE WaitInv'
  <2>1. /\ agenda' = Push(agenda, level, id) /\ pc = "select" /\ pc' = "select"
        /\ phase' = phase /\ waited' = waited /\ ~Queued(agenda, id)
        /\ Size(agenda) < Backlog /\ Lag' = Lag
    BY <1>4 DEF Arrive, Lag
  <2>2. level \in Nat  BY LevelsAssumption
  <2>3. Size(agenda') = Size(agenda) + 1  BY <1>a, <2>1, <2>2, PushPositions DEF Agendas
  <2>4. \A t \in Tiers : \A i \in 1 .. Len(agenda'[t]) :
           \/ i <= Len(agenda[t]) /\ agenda'[t][i] = agenda[t][i]
           \/ agenda'[t][i] = id /\ i <= Size(agenda) + 1
    BY <1>a, <2>1, <2>2, PushPositions DEF Agendas
  <2>5. \A x \in Tasks : Queued(agenda, x) => Queued(agenda', x)
    BY <1>a, <2>1, <2>2, PushPositions DEF Agendas
  <2>6. waited[id] = 0  BY <2>1 DEF WaitInv, FreshArrivals
  <2>7. BacklogKept'  BY <1>e, <2>1, <2>3 DEF BacklogKept
  <2>8. FreshArrivals'  BY <2>1, <2>5 DEF WaitInv, FreshArrivals
  <2>9. LowTiersLag'
    <3> SUFFICES ASSUME NEW t \in {1, 2}, NEW i \in 1 .. Len(agenda'[t])
                 PROVE  waited[agenda'[t][i]] <= Lag
      BY <2>1 DEF LowTiersLag
    <3>1. CASE i <= Len(agenda[t]) /\ agenda'[t][i] = agenda[t][i]
      <4>1. i \in 1 .. Len(agenda[t])  BY <1>b, <1>e, <3>1
      <4> QED  BY <3>1, <4>1 DEF WaitInv, LowTiersLag
    <3>2. CASE agenda'[t][i] = id
      BY <1>a, <2>6, <3>2 DEF Lag
    <3> QED  BY <1>b, <2>4, <3>1, <3>2
  <2>10. HighAdvances'
    <3> SUFFICES ASSUME NEW i \in 1 .. Len(agenda'[0])
                 PROVE  waited[agenda'[0][i]] + i <= BoostInterval + Backlog - 1
      BY <2>1 DEF HighAdvances
    <3>1. CASE i <= Len(agenda[0]) /\ agenda'[0][i] = agenda[0][i]
      <4>1. i \in 1 .. Len(agenda[0])  BY <1>b, <1>e, <3>1
      <4> QED  BY <3>1, <4>1 DEF WaitInv, HighAdvances
    <3>2. CASE agenda'[0][i] = id /\ i <= Size(agenda) + 1
      <4>1. i <= Backlog /\ waited[agenda'[0][i]] = 0  BY <1>e, <2>1, <2>6, <3>2
      <4> QED  BY <4>1
    <3> QED  BY <1>b, <2>4, <3>1, <3>2
  <2> QED  BY <2>7, <2>8, <2>9, <2>10 DEF WaitInv
<1>5. ASSUME NEW t \in Tiers, Dispatch(t) PROVE WaitInv'
  <2>1. /\ agenda' = PopTier(agenda, t) /\ pc = "select" /\ pc' = "boost"
        /\ phase' = NextPhase(phase, BoostInterval) /\ IsTop(agenda, t)
    BY <1>5 DEF Dispatch
  <2>2. \A id \in Tasks : /\ waited'[id] <= waited[id] + 1 /\ waited'[id] \in Nat
                          /\ ~Queued(agenda', id) => waited'[id] = 0
    <3> SUFFICES ASSUME NEW id \in Tasks
                 PROVE  /\ waited'[id] <= waited[id] + 1 /\ waited'[id] \in Nat
                        /\ ~Queued(agenda', id) => waited'[id] = 0
      OBVIOUS
    <3>1. waited'[id] = IF ~Queued(agenda', id) THEN 0
                        ELSE IF waited[id] < WaitCap THEN waited[id] + 1 ELSE WaitCap
      BY <1>5 DEF Dispatch
    <3>2. waited[id] \in 0 .. WaitCap  BY <1>a
    <3> QED  BY <1>a, <3>1, <3>2
  <2>3. /\ Size(agenda') = Size(agenda) - 1
        /\ \A i \in 1 .. Len(agenda'[t]) :
              i + 1 \in 1 .. Len(agenda[t]) /\ agenda'[t][i] = agenda[t][i + 1]
        /\ \A s \in Tiers : s # t => agenda'[s] = agenda[s]
    BY <1>a, <2>1, PopPositions DEF Agendas
  <2>4. BacklogKept'
    <3>1. Size(agenda) <= Backlog  BY DEF WaitInv, BacklogKept
    <3> QED  BY <1>e, <2>3, <3>1 DEF BacklogKept
  <2>5. FreshArrivals'  BY <2>2 DEF FreshArrivals
  <2>6. Lag' = phase' /\ phase' = Lag + 1
    <3>1. Lag' = phase'  BY <2>1 DEF Lag
    <3>2. CASE BoostDue(phase, BoostInterval)
      BY <1>a, <2>1, <3>2 DEF Lag, NextPhase, BoostDue
    <3>3. CASE ~BoostDue(phase, BoostInterval)
      BY <1>a, <2>1, <3>3 DEF Lag, NextPhase, BoostDue
    <3> QED  BY <3>1, <3>2, <3>3
  <2>7. Lag \in Nat  BY <1>a DEF Lag
  <2>8. LowTiersLag'
    <3> SUFFICES ASSUME NEW s \in {1, 2}, NEW i \in 1 .. Len(agenda'[s])
                 PROVE  waited'[agenda'[s][i]] <= Lag + 1
      BY <2>6 DEF LowTiersLag
    <3>1. PICK j \in 1 .. Len(agenda[s]) : agenda'[s][i] = agenda[s][j]
      <4>1. CASE s = t  BY <2>3, <4>1
      <4>2. CASE s # t  BY <1>b, <2>3, <4>2
      <4> QED  BY <4>1, <4>2
    <3> DEFINE x == agenda'[s][i]
    <3>2. x \in Tasks /\ waited[x] <= Lag
      BY <1>b, <1>c, <3>1 DEF WaitInv, LowTiersLag
    <3> HIDE DEF x
    <3>3. waited'[x] <= Lag + 1  BY <1>d, <2>2, <2>7, <3>2
    <3> QED  BY <3>3 DEF x
  <2>9. HighAdvances'
    <3> SUFFICES ASSUME NEW i \in 1 .. Len(agenda'[0])
                 PROVE  waited'[agenda'[0][i]] + i <= BoostInterval + Backlog - 1
      BY DEF HighAdvances
    <3>1. t = 0
      <4>1. CASE t # 0
        <5>1. 0 < t  BY <4>1 DEF Tiers, NUM_TIERS
        <5>2. agenda[0] = <<>>  BY <1>b, <2>1, <5>1 DEF IsTop
        <5>3. agenda'[0] = <<>>  BY <1>b, <2>3, <4>1, <5>2
        <5> QED  BY <5>3
      <4> QED  BY <4>1
    <3> DEFINE x == agenda'[0][i]
    <3>2. i + 1 \in 1 .. Len(agenda[0]) /\ x = agenda[0][i + 1]
      BY <2>3, <3>1
    <3>3. x \in Tasks /\ waited[x] + (i + 1) <= BoostInterval + Backlog - 1
      BY <1>b, <1>c, <3>2 DEF WaitInv, HighAdvances
    <3> HIDE DEF x
    <3>4. i \in Nat  OBVIOUS
    <3>5. waited'[x] + i <= BoostInterval + Backlog - 1
      BY <1>d, <2>2, <3>3, <3>4
    <3> QED  BY <3>5 DEF x
  <2> QED  BY <2>4, <2>5, <2>8, <2>9 DEF WaitInv
<1>6. CASE UNCHANGED vars
  BY <1>6 DEF vars, WaitInv, BacklogKept, FreshArrivals, LowTiersLag, HighAdvances, Lag
<1> QED  BY <1>1, <1>2, <1>3, <1>4, <1>5, <1>6 DEF Next, Step

\* WaitInv bounds every task's wait, on the agenda or off it.
LEMMA WaitInvBounds ==
    ASSUME BoostInterval # 0, WaitInv
    PROVE  WaitBounded
<1> USE BoostIntervalAssumption, BacklogAssumption
<1> SUFFICES ASSUME NEW id \in Tasks PROVE waited[id] <= BoostInterval + Backlog - 2
  BY DEF WaitBounded
<1>a. waited[id] \in Nat /\ phase \in 0 .. BoostInterval /\ agenda \in Agendas
  BY DEF WaitInv, TypeOK, Phases, Agendas, AgendasOf
<1>1. CASE ~Queued(agenda, id)
  BY <1>1 DEF WaitInv, FreshArrivals
<1>2. CASE Queued(agenda, id)
  <2>1. PICK t \in Tiers : \E i \in 1 .. Len(agenda[t]) : agenda[t][i] = id  BY <1>2 DEF Queued
  <2>2. PICK i \in 1 .. Len(agenda[t]) : agenda[t][i] = id  BY <2>1
  <2>3. t = 0 \/ t \in {1, 2}  BY DEF Tiers, NUM_TIERS
  <2>4. CASE t = 0
    <3>1. waited[id] + i <= BoostInterval + Backlog - 1
      BY <2>2, <2>4 DEF WaitInv, HighAdvances
    <3>2. i \in Nat /\ i >= 1  OBVIOUS
    <3> QED  BY <1>a, <3>1, <3>2
  <2>5. CASE t \in {1, 2}
    <3>1. waited[id] <= Lag  BY <2>2, <2>5 DEF WaitInv, LowTiersLag
    <3>2. Size(agenda) \in Nat /\ Len(agenda[t]) <= Size(agenda) /\ Len(agenda[t]) \in Nat
      BY <1>a, SizeFacts DEF Agendas
    <3>3. Size(agenda) >= 1  BY <2>2, <3>2
    <3>4. CASE pc = "boost"
      <4>1. Backlog >= 2  BY <3>2, <3>3, <3>4 DEF WaitInv, BacklogKept
      <4>2. Lag = phase  BY <3>4 DEF Lag
      <4> QED  BY <1>a, <3>1, <4>1, <4>2
    <3>5. CASE pc # "boost"
      <4>1. Lag \in Nat /\ Lag <= BoostInterval - 1
        <5>1. pc = "select"  BY <3>5 DEF WaitInv, TypeOK
        <5> QED  BY <1>a, <5>1 DEF Lag, BoostDue
      <4> QED  BY <1>a, <3>1, <4>1
    <3> QED  BY <3>4, <3>5
  <2> QED  BY <2>3, <2>4, <2>5
<1> QED  BY <1>1, <1>2

\* With boosting on, whatever the backlog bound and whatever keeps arriving in
\* High, a queued task is passed over by at most BoostInterval + Backlog - 2
\* dispatches (check_and_boost, boost_all_to_high, select_optimal_task).
THEOREM BoundedWaiting ==
    ASSUME BoostInterval # 0
    PROVE  Spec => []WaitBounded
<1>1. Init => WaitInv
  <2> SUFFICES ASSUME Init PROVE WaitInv  OBVIOUS
  <2>1. TypeOK
    BY BoostIntervalAssumption, BacklogAssumption
       DEF Init, TypeOK, EmptyAgenda, Phases, WaitCap
  <2>2. agenda[0] = <<>> /\ agenda[1] = <<>> /\ agenda[2] = <<>>
    BY DEF Init, EmptyAgenda, Tiers, NUM_TIERS
  <2>3. Size(agenda) = 0
    <3>1. Len(agenda[0]) = 0 /\ Len(agenda[1]) = 0 /\ Len(agenda[2]) = 0  BY <2>2
    <3> QED  BY <3>1 DEF Size
  <2>4. BacklogKept  BY <2>3, BacklogAssumption DEF BacklogKept
  <2>5. FreshArrivals  BY DEF Init, FreshArrivals
  <2>6. LowTiersLag /\ HighAdvances  BY <2>2 DEF LowTiersLag, HighAdvances
  <2> QED  BY <2>1, <2>4, <2>5, <2>6 DEF WaitInv
<1>2. WaitInv /\ TypeOK' /\ [Next]_vars => WaitInv'
  BY WaitStep
<1>3. WaitInv => WaitBounded
  BY WaitInvBounds
<1> QED  BY <1>1, <1>2, <1>3, TypeCorrect, PTL DEF Spec

-----------------------------------------------------------------------------

(* The order of service *)

\* Where a boost puts the task at place i of tier t.
Moved(a, t, i) ==
    IF t = 0 THEN i ELSE IF t = 1 THEN Len(a[0]) + i ELSE Len(a[0]) + Len(a[1]) + i

\* boost_all_to_high keeps the order of service: tier by tier, place by place.
LEMMA BoostKeepsOrder ==
    ASSUME NEW S, NEW a \in AgendasOf(S)
    PROVE  LET b == BoostAllToHigh(a)
           IN  /\ \A t \in Tiers : \A i \in 1 .. Len(a[t]) :
                     Moved(a, t, i) \in 1 .. Len(b[0]) /\ b[0][Moved(a, t, i)] = a[t][i]
               /\ \A s, t \in Tiers : \A i \in 1 .. Len(a[s]), j \in 1 .. Len(a[t]) :
                     (s < t \/ (s = t /\ i < j)) => Moved(a, s, i) < Moved(a, t, j)
<1> DEFINE b == BoostAllToHigh(a)
           q == (a[0] \o a[1]) \o a[2]
<1>1. a[0] \in Seq(S) /\ a[1] \in Seq(S) /\ a[2] \in Seq(S)
  BY DEF AgendasOf, Tiers, NUM_TIERS
<1>2. b[0] = q
  <2>1. 0 \in Tiers  BY DEF Tiers, NUM_TIERS
  <2> QED  BY <2>1, Zenon DEF BoostAllToHigh, High
<1>3. Concatenated(q, a[0], a[1], a[2])  BY <1>1, ThreeQueues, Zenon
<1>4. \A t \in Tiers : t = 0 \/ t = 1 \/ t = 2  BY DEF Tiers, NUM_TIERS
<1>5. Len(a[0]) \in Nat /\ Len(a[1]) \in Nat /\ Len(a[2]) \in Nat  BY <1>1
<1> HIDE DEF q, b
<1>6. ASSUME NEW t \in Tiers, NEW i \in 1 .. Len(a[t])
      PROVE  Moved(a, t, i) \in 1 .. Len(b[0]) /\ b[0][Moved(a, t, i)] = a[t][i]
  <2>1. CASE t = 0  BY <1>2, <1>3, <2>1 DEF Moved, Concatenated
  <2>2. CASE t = 1  BY <1>2, <1>3, <2>2 DEF Moved, Concatenated
  <2>3. CASE t = 2  BY <1>2, <1>3, <2>3 DEF Moved, Concatenated
  <2> QED  BY <1>4, <2>1, <2>2, <2>3
<1>7. ASSUME NEW s \in Tiers, NEW t \in Tiers, NEW i \in 1 .. Len(a[s]), NEW j \in 1 .. Len(a[t]),
             s < t \/ (s = t /\ i < j)
      PROVE  Moved(a, s, i) < Moved(a, t, j)
  <2> DEFINE x == Len(a[0])  y == Len(a[1])
  <2>1. i \in Nat /\ j \in Nat /\ x \in Nat /\ y \in Nat /\ 0 < j
    BY <1>5
  <2>a. 1 # 0 /\ 2 # 0 /\ 2 # 1  OBVIOUS
  <2>b. (s = 0 => i <= x) /\ (s = 1 => i <= y)  BY <1>5
  <2>2. /\ s = 0 => Moved(a, s, i) = i
        /\ s = 1 => Moved(a, s, i) = x + i
        /\ s = 2 => Moved(a, s, i) = x + y + i
    BY <2>a, Zenon DEF Moved
  <2>3. /\ t = 0 => Moved(a, t, j) = j
        /\ t = 1 => Moved(a, t, j) = x + j
        /\ t = 2 => Moved(a, t, j) = x + y + j
    BY <2>a, Zenon DEF Moved
  <2> HIDE DEF x, y
  <2>4. \/ s = t /\ i < j
        \/ s = 0 /\ t \in {1, 2}
        \/ s = 1 /\ t = 2
    <3>1. (s = 0 \/ s = 1 \/ s = 2) /\ (t = 0 \/ t = 1 \/ t = 2)  BY <1>4
    <3>2. CASE s = t /\ i < j  BY <3>2
    <3>3. CASE s < t
      <4>1. ~(0 < 0) /\ ~(1 < 0) /\ ~(1 < 1) /\ ~(2 < 0) /\ ~(2 < 1) /\ ~(2 < 2)  OBVIOUS
      <4> QED  BY <3>1, <3>3, <4>1
    <3> QED  BY <1>7, <3>2, <3>3, Zenon
  <2>5. (s = 0 \/ s = 1 \/ s = 2) /\ (t = 0 \/ t = 1 \/ t = 2)  BY <1>4
  <2> QED  BY <2>1, <2>b, <2>2, <2>3, <2>4, <2>5
<1> QED  BY <1>6, <1>7 DEF b

\* a waits at place i of tier s, b behind it at place j of tier t.
AheadAt(ag, a, b, s, t, i, j) ==
    /\ s \in Tiers /\ t \in Tiers /\ i \in 1 .. Len(ag[s]) /\ j \in 1 .. Len(ag[t])
    /\ ag[s][i] = a /\ ag[t][j] = b
    /\ s < t \/ (s = t /\ i < j)

\* Every step keeps whoever is ahead ahead.
LEMMA OrderStep ==
    ASSUME TypeOK, TypeOK', NoOvertaking, [Next]_vars
    PROVE  NoOvertaking'
<1>a. agenda \in Agendas /\ \A t \in Tiers : agenda[t] \in Seq(Tasks) /\ Len(agenda[t]) \in Nat
  BY DEF TypeOK, Agendas, AgendasOf
<1>b. \A t \in Tiers : t \in Nat  BY DEF Tiers, NUM_TIERS
<1>c. 0 \in Tiers  BY DEF Tiers, NUM_TIERS
<1>d. \A a, b : <<a, b>> \in before => \E s, t, i, j : AheadAt(agenda, a, b, s, t, i, j)
  BY DEF NoOvertaking, Ahead, AheadAt
<1> SUFFICES ASSUME NEW a, NEW b, <<a, b>> \in before'
             PROVE  \E s, t, i, j : AheadAt(agenda', a, b, s, t, i, j)
  <2>1. \A p \in before' : p = <<p[1], p[2]>>  BY DEF TypeOK
  <2>2. ASSUME NEW p \in before' PROVE Ahead(p[1], p[2])'
    <3>1. \E s, t, i, j : AheadAt(agenda', p[1], p[2], s, t, i, j)  BY <2>1
    <3> QED  BY <3>1 DEF Ahead, AheadAt
  <2> QED  BY <2>2 DEF NoOvertaking
<1>1. CASE Boost /\ BoostDue(phase, BoostInterval)
  <2>1. agenda' = BoostAllToHigh(agenda) /\ before' = before
    BY <1>1 DEF Boost, CheckAndBoost
  <2>2. PICK s, t, i, j : AheadAt(agenda, a, b, s, t, i, j)  BY <1>d, <2>1
  <2> DEFINE m == Moved(agenda, s, i)
             n == Moved(agenda, t, j)
  <2>3. /\ m \in 1 .. Len(agenda'[0]) /\ agenda'[0][m] = a
        /\ n \in 1 .. Len(agenda'[0]) /\ agenda'[0][n] = b
    BY <1>a, <2>1, <2>2, BoostKeepsOrder DEF Agendas, AheadAt
  <2>4. m < n
    BY <1>a, <2>2, BoostKeepsOrder DEF Agendas, AheadAt
  <2> HIDE DEF m, n
  <2>5. AheadAt(agenda', a, b, 0, 0, m, n)  BY <1>c, <2>3, <2>4 DEF AheadAt
  <2> QED  BY <2>5
<1>2. CASE agenda' = agenda /\ before' = before
  BY <1>d, <1>2
<1>3. ASSUME NEW id \in Tasks, NEW level \in Levels, Arrive(id, level)
      PROVE  \E s, t, i, j : AheadAt(agenda', a, b, s, t, i, j)
  <2> DEFINE k == TierOf(level)
             n == Len(agenda[k]) + 1
  <2>1. k \in Tiers /\ n \in Nat
    BY <1>a, LevelsAssumption DEF TierOf, Tiers, NUM_TIERS
  <2>2. /\ agenda'[k] = Append(agenda[k], id)
        /\ \A t \in Tiers : t # k => agenda'[t] = agenda[t]
    BY <1>3, <1>a, <2>1 DEF Arrive, Push, Agendas, AgendasOf
  <2>3. n \in 1 .. Len(agenda'[k]) /\ agenda'[k][n] = id
    BY <1>a, <2>1, <2>2
  <2>4. \A t \in Tiers : \A i \in 1 .. Len(agenda[t]) :
           i \in 1 .. Len(agenda'[t]) /\ agenda'[t][i] = agenda[t][i]
    BY <1>a, <2>1, <2>2
  <2>5. CASE <<a, b>> \in before
    <3>1. PICK s, t, i, j : AheadAt(agenda, a, b, s, t, i, j)  BY <1>d, <2>5
    <3>2. AheadAt(agenda', a, b, s, t, i, j)  BY <2>4, <3>1 DEF AheadAt
    <3> QED  BY <3>2
  <2>6. CASE <<a, b>> \notin before
    <3>1. a \in AheadOf(level) /\ b = id  BY <1>3, <2>6 DEF Arrive
    <3>2. PICK t \in 0 .. k : \E i \in 1 .. Len(agenda[t]) : agenda[t][i] = a
      BY <3>1 DEF AheadOf
    <3>3. PICK i \in 1 .. Len(agenda[t]) : agenda[t][i] = a  BY <3>2
    <3>4. t \in Tiers  BY <2>1 DEF Tiers, NUM_TIERS
    <3>5. t < k \/ (t = k /\ i < n)
      <4>1. CASE t = k  BY <1>a, <2>1, <3>3, <4>1
      <4>2. CASE t # k
        <5> DEFINE kk == k
        <5>1. t \in 0 .. kk /\ kk \in Nat /\ t # kk  BY <1>b, <2>1, <4>2
        <5> HIDE DEF kk
        <5>2. t < kk  BY <5>1
        <5> QED  BY <5>2 DEF kk
      <4> QED  BY <4>1, <4>2
    <3> HIDE DEF n, k
    <3>6. AheadAt(agenda', a, b, t, k, i, n)
      BY <2>1, <2>3, <2>4, <3>1, <3>3, <3>4, <3>5 DEF AheadAt
    <3> QED  BY <3>6
  <2> QED  BY <2>5, <2>6
<1>4. ASSUME NEW k \in Tiers, Dispatch(k)
      PROVE  \E s, t, i, j : AheadAt(agenda', a, b, s, t, i, j)
  <2>1. IsTop(agenda, k) /\ <<a, b>> \in before /\ a # Head(agenda[k])
    BY <1>4 DEF Dispatch
  <2>2. /\ agenda'[k] = Tail(agenda[k]) /\ agenda[k] # <<>>
        /\ \A t \in Tiers : t # k => agenda'[t] = agenda[t]
        /\ \A t \in Tiers : t < k => agenda[t] = <<>>
    BY <1>4, <1>a DEF Dispatch, PopTier, Agendas, AgendasOf, IsTop
  <2>3. PICK s, t, i, j : AheadAt(agenda, a, b, s, t, i, j)  BY <1>d, <2>1
  <2>4. /\ s \in Tiers /\ t \in Tiers /\ i \in 1 .. Len(agenda[s]) /\ j \in 1 .. Len(agenda[t])
        /\ agenda[s][i] = a /\ agenda[t][j] = b /\ s <= t
    BY <1>b, <2>3 DEF AheadAt
  <2>5. \A i2 \in 1 .. Len(agenda[k]) : i2 # 1 =>
           i2 - 1 \in 1 .. Len(agenda'[k]) /\ agenda'[k][i2 - 1] = agenda[k][i2]
    BY <1>a, <2>2
  <2>6. CASE s = k
    <3>1. i # 1  BY <1>a, <2>1, <2>2, <2>4, <2>6
    <3>2. i - 1 \in 1 .. Len(agenda'[s]) /\ agenda'[s][i - 1] = a  BY <2>4, <2>5, <2>6, <3>1
    <3>3. CASE t = k
      <4>1. i < j  BY <1>b, <2>3, <2>6, <3>3 DEF AheadAt
      <4>2. j # 1 /\ i - 1 < j - 1  BY <2>4, <4>1
      <4>3. j - 1 \in 1 .. Len(agenda'[t]) /\ agenda'[t][j - 1] = b  BY <2>4, <2>5, <3>3, <4>2
      <4>4. AheadAt(agenda', a, b, s, t, i - 1, j - 1)
        BY <2>4, <2>6, <3>2, <3>3, <4>2, <4>3 DEF AheadAt
      <4> QED  BY <4>4
    <3>4. CASE t # k
      <4>1. AheadAt(agenda', a, b, s, t, i - 1, j)
        BY <1>b, <2>2, <2>4, <2>6, <3>2, <3>4 DEF AheadAt
      <4> QED  BY <4>1
    <3> QED  BY <3>3, <3>4
  <2>7. CASE s # k
    <3>1. ~(s < k)
      <4>1. ASSUME s < k PROVE FALSE
        <5>1. agenda[s] = <<>>  BY <2>2, <2>4, <4>1
        <5> QED  BY <2>4, <5>1
      <4> QED  BY <4>1
    <3>2. s # k /\ t # k  BY <1>b, <2>4, <2>7, <3>1
    <3>3. AheadAt(agenda', a, b, s, t, i, j)  BY <2>2, <2>3, <2>4, <3>2 DEF AheadAt
    <3> QED  BY <3>3
  <2> QED  BY <2>6, <2>7
<1>5. CASE Boost /\ ~BoostDue(phase, BoostInterval)
  BY <1>2, <1>5 DEF Boost, CheckAndBoost
<1>6. CASE Idle \/ UNCHANGED vars
  BY <1>2, <1>6 DEF Idle, vars
<1> QED  BY <1>1, <1>3, <1>4, <1>5, <1>6 DEF Next, Step

\* For every pool, interval and backlog: no task is overtaken by one that
\* arrived behind it (push, select_optimal_task, boost_all_to_high).
THEOREM NobodyOvertaken == Spec => []NoOvertaking
<1>1. Init => NoOvertaking
  BY DEF Init, NoOvertaking
<1>2. TypeOK /\ TypeOK' /\ NoOvertaking /\ [Next]_vars => NoOvertaking'
  BY OrderStep
<1> QED  BY <1>1, <1>2, TypeCorrect, PTL DEF Spec
=============================================================================
