-------------------------- MODULE SomaticLoopProofs --------------------------
(***************************************************************************)
(* For every number of packets and intentions, every set of packets,       *)
(* sensor readings and drive states, and all limits: the type invariant of *)
(* the serving agent, when its supervisor gives up, that a shutdown lets   *)
(* at most one more task start, that the gate never declines urgent or     *)
(* forced guidance (all from SafeInv); then, from LifeInv, that            *)
(* every task's log is in order, that the transcript is a dialogue in      *)
(* which every tracked operator message is heard and answered, and that    *)
(* the loop implements TaskLifecycle.                                      *)
(***************************************************************************)
EXTENDS SomaticLoop, SequenceTheorems, FiniteSetTheorems, TLAPS

-----------------------------------------------------------------------------
(* What the operations of the agenda do to its contents, for ids of any set *)

AgendasOf(S) == [Tiers -> Seq(S)]

\* TaskAgenda's operations map agendas to agendas (push with its clamped
\* level, pop of a non-empty tier, the boost).
LEMMA AgendaTypes ==
    ASSUME NEW S, NEW a \in AgendasOf(S)
    PROVE  /\ \A id \in S, level \in Nat : Push(a, level, id) \in AgendasOf(S)
           /\ \A t \in Tiers : a[t] # <<>> => PopTier(a, t) \in AgendasOf(S)
           /\ BoostAllToHigh(a) \in AgendasOf(S)
           /\ \A p, n \in Nat : CheckAndBoost(a, p, n) \in AgendasOf(S)
<1>1. ASSUME NEW id \in S, NEW level \in Nat PROVE Push(a, level, id) \in AgendasOf(S)
  BY <1>1 DEF Push, TierOf, AgendasOf, Tiers, NUM_TIERS
<1>2. ASSUME NEW t \in Tiers, a[t] # <<>> PROVE PopTier(a, t) \in AgendasOf(S)
  BY <1>2 DEF PopTier, AgendasOf
<1>3. BoostAllToHigh(a) \in AgendasOf(S)
  <2>1. a[0] \in Seq(S) /\ a[1] \in Seq(S) /\ a[2] \in Seq(S)
    BY DEF AgendasOf, Tiers, NUM_TIERS
  <2>2. (a[0] \o a[1]) \o a[2] \in Seq(S)
    BY <2>1
  <2> QED  BY <2>2 DEF BoostAllToHigh, AgendasOf
<1>4. \A p, n \in Nat : CheckAndBoost(a, p, n) \in AgendasOf(S)
  BY <1>3 DEF CheckAndBoost
<1> QED  BY <1>1, <1>2, <1>3, <1>4

\* No task waits in two places.
QueuedOnce(a) ==
    \A t, u \in Tiers : \A i \in 1 .. Len(a[t]), j \in 1 .. Len(a[u]) :
        a[t][i] = a[u][j] => t = u /\ i = j

\* push adds its task and nothing else; a task not queued before is queued once.
LEMMA PushContents ==
    ASSUME NEW S, NEW a \in AgendasOf(S), NEW id \in S, NEW level \in Nat
    PROVE  LET b == Push(a, level, id)
           IN  /\ \A x \in S : Queued(b, x) <=> Queued(a, x) \/ x = id
               /\ QueuedOnce(a) /\ ~Queued(a, id) => QueuedOnce(b)
<1> DEFINE b == Push(a, level, id)
           k == TierOf(level)
<1>1. k \in Tiers  BY DEF TierOf, Tiers, NUM_TIERS
<1>2. \A t \in Tiers : a[t] \in Seq(S) /\ Len(a[t]) \in Nat  BY DEF AgendasOf
<1>3. b[k] = Append(a[k], id) /\ \A t \in Tiers : t # k => b[t] = a[t]
  BY <1>1 DEF Push, AgendasOf
<1> HIDE DEF b, k
<1>5. /\ Len(b[k]) = Len(a[k]) + 1 /\ b[k][Len(a[k]) + 1] = id
      /\ \A i \in 1 .. Len(a[k]) : b[k][i] = a[k][i]
  BY <1>1, <1>2, <1>3
<1>6. ASSUME NEW t \in Tiers, NEW i \in 1 .. Len(b[t])
      PROVE  \/ i \in 1 .. Len(a[t]) /\ b[t][i] = a[t][i]
             \/ t = k /\ i = Len(a[k]) + 1 /\ b[t][i] = id
  <2>1. CASE t # k  BY <1>2, <1>3, <2>1
  <2>2. CASE t = k
    <3> DEFINE n == Len(a[k])
    <3>1. n \in Nat /\ i \in 1 .. n + 1  BY <1>1, <1>2, <1>5, <2>2
    <3>2. i \in 1 .. n \/ i = n + 1  BY <3>1
    <3> QED  BY <1>5, <2>2, <3>2
  <2> QED  BY <2>1, <2>2
<1>7. Queued(b, id)
  <2>1. Len(a[k]) + 1 \in 1 .. Len(b[k])  BY <1>1, <1>2, <1>5
  <2> QED  BY <1>1, <1>5, <2>1 DEF Queued
<1>4. ASSUME NEW x \in S, Queued(a, x) PROVE Queued(b, x)
  <2>1. PICK t \in Tiers : \E i \in 1 .. Len(a[t]) : a[t][i] = x  BY <1>4 DEF Queued
  <2>2. PICK i \in 1 .. Len(a[t]) : a[t][i] = x  BY <2>1
  <2>3. i \in 1 .. Len(b[t]) /\ b[t][i] = x
    <3>1. CASE t = k  BY <1>1, <1>2, <1>5, <2>2, <3>1
    <3>2. CASE t # k  BY <1>3, <2>2, <3>2
    <3> QED  BY <3>1, <3>2
  <2> QED  BY <2>3 DEF Queued
<1>8. ASSUME NEW x \in S, Queued(b, x), ~Queued(a, x) PROVE x = id
  BY <1>6, <1>8 DEF Queued
<1>9. ASSUME QueuedOnce(a), ~Queued(a, id) PROVE QueuedOnce(b)
  <2> SUFFICES ASSUME NEW t \in Tiers, NEW u \in Tiers,
                      NEW i \in 1 .. Len(b[t]), NEW j \in 1 .. Len(b[u]), b[t][i] = b[u][j]
               PROVE  t = u /\ i = j
    BY DEF QueuedOnce
  <2>1. \A s \in Tiers : \A n \in 1 .. Len(a[s]) : a[s][n] # id  BY <1>9 DEF Queued
  <2> QED  BY <1>6, <1>9, <2>1 DEF QueuedOnce
<1> QED  BY <1>4, <1>7, <1>8, <1>9 DEF b

\* select_optimal_task takes its task and no other; a task that was queued once
\* is then queued no more.
LEMMA PopContents ==
    ASSUME NEW S, NEW a \in AgendasOf(S), NEW t \in Tiers, IsTop(a, t)
    PROVE  LET b == PopTier(a, t)
               head == Head(a[t])
           IN  /\ head \in S /\ Queued(a, head)
               /\ \A x \in S : x # head => (Queued(b, x) <=> Queued(a, x))
               /\ QueuedOnce(a) => QueuedOnce(b) /\ ~Queued(b, head)
<1> DEFINE b == PopTier(a, t)
           head == Head(a[t])
<1>1. \A s \in Tiers : a[s] \in Seq(S) /\ Len(a[s]) \in Nat  BY DEF AgendasOf
<1>2. b[t] = Tail(a[t]) /\ \A s \in Tiers : s # t => b[s] = a[s]
  BY DEF PopTier, AgendasOf
<1>3. a[t] # <<>>  BY DEF IsTop
<1>4. head \in S /\ head = a[t][1] /\ 1 \in 1 .. Len(a[t])  BY <1>1, <1>3
<1> HIDE DEF b, head
<1>5. /\ Len(b[t]) = Len(a[t]) - 1
      /\ \A i \in 1 .. Len(b[t]) : i + 1 \in 1 .. Len(a[t]) /\ b[t][i] = a[t][i + 1]
  BY <1>1, <1>2, <1>3
<1>6. Queued(a, head)  BY <1>4 DEF Queued
<1>7. ASSUME NEW s \in Tiers, NEW i \in 1 .. Len(b[s])
      PROVE  \E n \in 1 .. Len(a[s]) : b[s][i] = a[s][n] /\ n = (IF s = t THEN i + 1 ELSE i)
  <2>1. CASE s = t  BY <1>5, <2>1
  <2>2. CASE s # t  BY <1>2, <2>2
  <2> QED  BY <2>1, <2>2
<1>8. ASSUME NEW x \in S, x # head PROVE Queued(b, x) <=> Queued(a, x)
  <2>1. ASSUME Queued(b, x) PROVE Queued(a, x)  BY <1>7, <2>1 DEF Queued
  <2>2. ASSUME Queued(a, x) PROVE Queued(b, x)
    <3>1. PICK s \in Tiers : \E i \in 1 .. Len(a[s]) : a[s][i] = x  BY <2>2 DEF Queued
    <3>2. PICK i \in 1 .. Len(a[s]) : a[s][i] = x  BY <3>1
    <3>3. CASE s # t  BY <1>2, <3>2, <3>3 DEF Queued
    <3>4. CASE s = t
      <4> DEFINE n == Len(a[t])
      <4>1. i # 1 /\ n \in Nat /\ i \in 1 .. n /\ Len(b[t]) = n - 1
        BY <1>1, <1>4, <1>5, <1>8, <3>2, <3>4
      <4> HIDE DEF n
      <4>2. i - 1 \in 1 .. n - 1 /\ (i - 1) + 1 = i  BY <4>1
      <4>3. i - 1 \in 1 .. Len(b[t]) /\ b[t][i - 1] = x  BY <1>5, <3>2, <3>4, <4>1, <4>2
      <4> QED  BY <4>3 DEF Queued
    <3> QED  BY <3>3, <3>4
  <2> QED  BY <2>1, <2>2
<1>9. ASSUME QueuedOnce(a) PROVE QueuedOnce(b) /\ ~Queued(b, head)
  <2>1. QueuedOnce(b)
    <3> SUFFICES ASSUME NEW s \in Tiers, NEW u \in Tiers,
                        NEW i \in 1 .. Len(b[s]), NEW j \in 1 .. Len(b[u]), b[s][i] = b[u][j]
                 PROVE  s = u /\ i = j
      BY DEF QueuedOnce
    <3>1. PICK m \in 1 .. Len(a[s]) : b[s][i] = a[s][m] /\ m = (IF s = t THEN i + 1 ELSE i)
      BY <1>7
    <3>2. PICK n \in 1 .. Len(a[u]) : b[u][j] = a[u][n] /\ n = (IF u = t THEN j + 1 ELSE j)
      BY <1>7
    <3>3. a[s][m] = a[u][n]  BY <3>1, <3>2
    <3>4. s = u /\ m = n  BY <1>9, <3>3, Zenon DEF QueuedOnce
    <3> QED  BY <3>1, <3>2, <3>4
  <2>2. ASSUME Queued(b, head) PROVE FALSE
    <3>1. PICK s \in Tiers : \E i \in 1 .. Len(b[s]) : b[s][i] = head  BY <2>2 DEF Queued
    <3>2. PICK i \in 1 .. Len(b[s]) : b[s][i] = head  BY <3>1
    <3>3. PICK n \in 1 .. Len(a[s]) : b[s][i] = a[s][n] /\ n = (IF s = t THEN i + 1 ELSE i)
      BY <1>7
    <3>4. a[s][n] = a[t][1]  BY <1>4, <3>2, <3>3
    <3>5. \A j \in 1 .. Len(a[t]) : a[s][n] = a[t][j] => s = t /\ n = j
      BY <1>9, Zenon DEF QueuedOnce
    <3>6. s = t /\ n = 1  BY <1>4, <3>4, <3>5
    <3> QED  BY <3>3, <3>6
  <2> QED  BY <2>1, <2>2
<1> QED  BY <1>4, <1>6, <1>8, <1>9 DEF b, head

\* A boost moves tasks about and neither adds, drops nor doubles one.
LEMMA BoostContents ==
    ASSUME NEW S, NEW a \in AgendasOf(S)
    PROVE  LET b == BoostAllToHigh(a)
           IN  /\ \A x \in S : Queued(b, x) <=> Queued(a, x)
               /\ QueuedOnce(a) => QueuedOnce(b)
<1> DEFINE b == BoostAllToHigh(a)
           x0 == Len(a[0])  x1 == Len(a[1])  x2 == Len(a[2])
<1>1. /\ a[0] \in Seq(S) /\ a[1] \in Seq(S) /\ a[2] \in Seq(S)
      /\ 0 \in Tiers /\ 1 \in Tiers /\ 2 \in Tiers
  BY DEF AgendasOf, Tiers, NUM_TIERS
<1>2. x0 \in Nat /\ x1 \in Nat /\ x2 \in Nat  BY <1>1
<1>3. b[1] = <<>> /\ b[2] = <<>> /\ b[0] = (a[0] \o a[1]) \o a[2]
  <2>1. 1 # 0 /\ 2 # 0  OBVIOUS
  <2> QED  BY <1>1, <2>1, Zenon DEF BoostAllToHigh, High
<1> DEFINE r == a[0] \o a[1]
<1>5. /\ r \in Seq(S) /\ Len(r) = x0 + x1
      /\ \A i \in 1 .. x0 + x1 : r[i] = IF i <= x0 THEN a[0][i] ELSE a[1][i - x0]
  BY <1>1, ConcatProperties, Zenon
<1> HIDE DEF r
<1>6. /\ Len(r \o a[2]) = Len(r) + x2
      /\ \A i \in 1 .. Len(r) + x2 : (r \o a[2])[i] = IF i <= Len(r) THEN r[i] ELSE a[2][i - Len(r)]
  <2>1. r \in Seq(S) /\ a[2] \in Seq(S)  BY <1>1, <1>5
  <2> QED  BY <2>1, ConcatProperties, Zenon
<1>7. b[0] = r \o a[2]  BY <1>3 DEF r
<1> HIDE DEF b, x0, x1, x2
<1>8. Len(b[0]) = x0 + x1 + x2  BY <1>2, <1>5, <1>6, <1>7
<1>9. ASSUME NEW i \in 1 .. Len(b[0])
      PROVE  \E t \in Tiers : \E j \in 1 .. Len(a[t]) :
                /\ b[0][i] = a[t][j]
                /\ i = j + (IF t = 0 THEN 0 ELSE IF t = 1 THEN x0 ELSE x0 + x1)
  <2>1. i \in 1 .. x0 + x1 + x2  BY <1>8
  <2>2. CASE i <= x0
    <3>1. i \in 1 .. x0 /\ i \in 1 .. x0 + x1 /\ i <= x0 + x1 /\ i = i + 0  BY <1>2, <2>1, <2>2
    <3>2. b[0][i] = a[0][i]  BY <1>2, <1>5, <1>6, <1>7, <2>1, <2>2, <3>1
    <3> QED  BY <1>1, <3>1, <3>2 DEF x0
  <2>3. CASE i > x0 /\ i <= x0 + x1
    <3>1. i - x0 \in 1 .. x1 /\ i \in 1 .. x0 + x1 /\ i = (i - x0) + x0  BY <1>2, <2>1, <2>3
    <3>2. b[0][i] = a[1][i - x0]  BY <1>2, <1>5, <1>6, <1>7, <2>1, <2>3, <3>1
    <3> QED  BY <1>1, <3>1, <3>2 DEF x1
  <2>4. CASE i > x0 + x1
    <3>1. i - (x0 + x1) \in 1 .. x2 /\ i = (i - (x0 + x1)) + (x0 + x1)  BY <1>2, <2>1, <2>4
    <3>2. b[0][i] = a[2][i - (x0 + x1)]  BY <1>2, <1>5, <1>6, <1>7, <2>1, <2>4, <3>1
    <3> QED  BY <1>1, <3>1, <3>2 DEF x2
  <2> QED  BY <1>2, <2>1, <2>2, <2>3, <2>4
<1>4. ASSUME NEW t \in Tiers, NEW j \in 1 .. Len(a[t])
      PROVE  \E i \in 1 .. Len(b[0]) : b[0][i] = a[t][j]
  <2>1. t = 0 \/ t = 1 \/ t = 2  BY DEF Tiers, NUM_TIERS
  <2>2. CASE t = 0
    <3>1. j \in 1 .. x0  BY <2>2 DEF x0
    <3>2. j \in 1 .. x0 + x1 /\ j \in 1 .. Len(r) + x2 /\ j <= Len(r) /\ j <= x0  BY <1>2, <1>5, <3>1
    <3>3. b[0][j] = a[0][j]  BY <1>5, <1>6, <1>7, <3>2
    <3> QED  BY <1>6, <1>7, <2>2, <3>2, <3>3
  <2>3. CASE t = 1
    <3> DEFINE i == x0 + j
    <3>1. j \in 1 .. x1  BY <2>3 DEF x1
    <3>2. /\ i \in 1 .. x0 + x1 /\ i \in 1 .. Len(r) + x2 /\ i <= Len(r) /\ ~(i <= x0)
          /\ i - x0 = j
      BY <1>2, <1>5, <3>1
    <3>3. b[0][i] = a[1][j]  BY <1>5, <1>6, <1>7, <3>2
    <3> QED  BY <1>6, <1>7, <2>3, <3>2, <3>3
  <2>4. CASE t = 2
    <3> DEFINE i == Len(r) + j
    <3>1. j \in 1 .. x2  BY <2>4 DEF x2
    <3>2. i \in 1 .. Len(r) + x2 /\ ~(i <= Len(r)) /\ i - Len(r) = j  BY <1>2, <1>5, <3>1
    <3>3. b[0][i] = a[2][j]  BY <1>6, <1>7, <3>2
    <3> QED  BY <1>6, <1>7, <2>4, <3>2, <3>3
  <2> QED  BY <2>1, <2>2, <2>3, <2>4
<1>10. \A t \in Tiers : t # 0 => Len(b[t]) = 0  BY <1>3 DEF Tiers, NUM_TIERS
<1>11. ASSUME NEW x \in S, Queued(b, x) PROVE Queued(a, x)
  <2>1. PICK t \in Tiers : \E i \in 1 .. Len(b[t]) : b[t][i] = x  BY <1>11 DEF Queued
  <2>2. t = 0  BY <1>10, <2>1
  <2> QED  BY <1>9, <2>1, <2>2 DEF Queued
<1>12. ASSUME QueuedOnce(a) PROVE QueuedOnce(b)
  <2> SUFFICES ASSUME NEW t \in Tiers, NEW u \in Tiers,
                      NEW i \in 1 .. Len(b[t]), NEW j \in 1 .. Len(b[u]), b[t][i] = b[u][j]
               PROVE  t = u /\ i = j
    BY DEF QueuedOnce
  <2>1. t = 0 /\ u = 0  BY <1>10
  <2>2. PICK v \in Tiers : \E m \in 1 .. Len(a[v]) :
           b[0][i] = a[v][m] /\ i = m + (IF v = 0 THEN 0 ELSE IF v = 1 THEN x0 ELSE x0 + x1)
    BY <1>9, <2>1
  <2>3. PICK m \in 1 .. Len(a[v]) :
           b[0][i] = a[v][m] /\ i = m + (IF v = 0 THEN 0 ELSE IF v = 1 THEN x0 ELSE x0 + x1)
    BY <2>2
  <2>4. PICK w \in Tiers : \E n \in 1 .. Len(a[w]) :
           b[0][j] = a[w][n] /\ j = n + (IF w = 0 THEN 0 ELSE IF w = 1 THEN x0 ELSE x0 + x1)
    BY <1>9, <2>1
  <2>5. PICK n \in 1 .. Len(a[w]) :
           b[0][j] = a[w][n] /\ j = n + (IF w = 0 THEN 0 ELSE IF w = 1 THEN x0 ELSE x0 + x1)
    BY <2>4
  <2>6. v = w /\ m = n  BY <1>12, <2>1, <2>3, <2>5 DEF QueuedOnce
  <2> QED  BY <2>1, <2>3, <2>5, <2>6
<1>13. ASSUME NEW x \in S, Queued(a, x) PROVE Queued(b, x)
  <2>1. PICK t \in Tiers : \E j \in 1 .. Len(a[t]) : a[t][j] = x  BY <1>13, Zenon DEF Queued
  <2>2. PICK j \in 1 .. Len(a[t]) : a[t][j] = x  BY <2>1
  <2>3. \E i \in 1 .. Len(b[0]) : b[0][i] = x  BY <1>4, <2>2, Zenon
  <2> QED  BY <1>1, <2>3, Zenon DEF Queued
<1> QED  BY <1>11, <1>12, <1>13 DEF b

-----------------------------------------------------------------------------
(* SafeInv and its parts *)

\* The id counter and the queue never hand out more ids than SensoryIds has.
IdsLeft ==
    /\ FirstSensoryId <= nextId
    /\ nextId + Len(queue) <= FirstSensoryId + MaxPackets

\* A dispatch has a task.
Dispatching == pc = "dispatch" => inflight \in Ids

\* The last `count` of these runs are the current streak of crashes: a healthy
\* run (or the very first one), then early ones.
StreakOf(runs, count) ==
    /\ count <= Len(runs) /\ (Len(runs) > 0 => count > 0)
    /\ \A i \in Len(runs) - count + 2 .. Len(runs) : runs[i] = "early"
    /\ (0 < count /\ count < Len(runs)) => runs[Len(runs) - count + 1] = "healthy"

\* The supervisor counts the current streak, and has given up exactly when that
\* has reached the limit.
SupervisorBound ==
    /\ (pc = "gaveup") <=> (failures >= MaxRestarts)
    /\ StreakOf(crashes, failures)

\* After a late start the loop is past the point where it could start another.
LateStartsOnce ==
    /\ lateStarts <= 1
    /\ lateStarts > 0 => shutdown /\ pc \notin {"ingest", "inject"}

\* Only a packet that was given out and that the gate may decline is dropped.
DropsJustified ==
    \A id \in SensoryIds :
        Logged(id, "GateDrop") =>
            /\ id < nextId
            /\ packetOf[id] \in OfferedPackets
            /\ packetOf[id].origin = "operator"
            /\ ~packetOf[id].forced
            /\ packetOf[id].priority \in {"low", "normal"}

SafeInv ==
    /\ TypeOK /\ IdsLeft /\ Dispatching /\ SupervisorBound /\ LateStartsOnce
    /\ DropsJustified

-----------------------------------------------------------------------------
(* The gate *)

\* For every sensor reading and every mood the gate invokes a High or Critical
\* packet: its value saturates at 1.0 and no threshold exceeds 0.99.
LEMMA UrgentInvokes ==
    ASSUME NEW s \in Signals, NEW mood \in Mood, NEW priority \in {"high", "critical"}
    PROVE  Invoke(priority, FALSE, s, mood)
<1> DEFINE value == ValueScore(priority)
           delta == mood.delta
           nudge == mood.nudge
           raw == RawThreshold(s)
           adaptive == Clamp(raw, 500, 9900)
           product == (adaptive * nudge) \div 100
           threshold == Clamp(product, 500, 9900)
<1>1. value = 10000
  <2>1. Urgency(priority) = 75 \/ Urgency(priority) = 100  BY DEF Urgency
  <2>2. CASE Urgency(priority) = 75  BY <2>2 DEF ValueScore, Clamp
  <2>3. CASE Urgency(priority) = 100  BY <2>3 DEF ValueScore, Clamp
  <2> QED  BY <2>1, <2>2, <2>3
<1>2. delta \in 0 .. 2500 /\ nudge \in Int  BY DEF Mood
<1>3. raw \in Int
  <2>1. /\ s.thermal \in Int /\ s.memory \in Int /\ s.financial \in Int /\ s.attention \in Int
    BY DEF Signals, Percent
  <2> QED  BY <2>1 DEF RawThreshold
<1> HIDE DEF value, delta, nudge, raw
<1>4. adaptive \in Int  BY <1>3 DEF Clamp
<1> HIDE DEF adaptive
<1>5. adaptive * nudge \in Int  BY <1>2, <1>4
<1>6. product \in Int  BY <1>5
<1> HIDE DEF product
<1>7. threshold <= 9900  BY <1>6 DEF Clamp
<1>8. Clamp(value + delta, 0, 10000) = 10000
  BY <1>1, <1>2 DEF Clamp
<1>9. Clamp(value + delta, 0, 10000) >= threshold
  <2>1. threshold \in Int  BY <1>6 DEF Clamp
  <2> HIDE DEF threshold
  <2> DEFINE worth == Clamp(value + delta, 0, 10000)
  <2>2. worth = 10000  BY <1>8
  <2> HIDE DEF worth
  <2>3. worth >= threshold  BY <1>7, <2>1, <2>2
  <2> QED  BY <2>3 DEF worth
<1> QED
  BY <1>9 DEF Invoke, NudgedThreshold, AdaptiveThreshold, value, delta, nudge, raw,
              adaptive, product

-----------------------------------------------------------------------------
(* The audit log *)

\* An appended entry is one of E: what is logged afterwards was logged before
\* or is such an entry of that task.
LEMMA LogFacts ==
    ASSUME audit \in [Ids -> Seq(Entries)],
           NEW id \in Ids, NEW E \in SUBSET Entries, NEW es \in Seq(E), Log(id, es)
    PROVE  /\ audit' \in [Ids -> Seq(Entries)]
           /\ \A x \in Ids, e \in Entries : Logged(x, e)' => Logged(x, e) \/ (x = id /\ e \in E)
<1> DEFINE old == audit[id]
           new == old \o es
<1>1. old \in Seq(Entries)  OBVIOUS
<1>2. es \in Seq(Entries)  OBVIOUS
<1>3. new \in Seq(Entries)  BY <1>1, <1>2, ConcatProperties, Zenon
<1>4. /\ Len(new) = Len(old) + Len(es)
      /\ \A i \in 1 .. Len(old) + Len(es) : new[i] = IF i <= Len(old) THEN old[i] ELSE es[i - Len(old)]
  BY <1>1, <1>2, ConcatProperties, Zenon
<1>5. audit' = [audit EXCEPT ![id] = new]
  BY DEF Log
<1> HIDE DEF old, new
<1>6. audit' \in [Ids -> Seq(Entries)]
  BY <1>3, <1>5
<1>7. ASSUME NEW x \in Ids, NEW e \in Entries, Logged(x, e)'
      PROVE  Logged(x, e) \/ (x = id /\ e \in E)
  <2>1. CASE x # id
    <3>1. audit'[x] = audit[x]  BY <1>5, <2>1
    <3> QED  BY <1>7, <3>1 DEF Logged
  <2>2. CASE x = id
    <3>1. audit'[x] = new  BY <1>5, <2>2
    <3>2. PICK i \in 1 .. Len(new) : new[i] = e  BY <1>7, <3>1 DEF Logged
    <3>3. Len(old) \in Nat /\ Len(es) \in Nat  BY <1>1
    <3>4. CASE i <= Len(old)
      <4>1. i \in 1 .. Len(old) /\ old[i] = e  BY <1>4, <3>2, <3>3, <3>4
      <4> QED  BY <2>2, <4>1 DEF Logged, old
    <3>5. CASE i > Len(old)
      <4>1. i - Len(old) \in 1 .. Len(es) /\ es[i - Len(old)] = e  BY <1>4, <3>2, <3>3, <3>5
      <4> QED  BY <2>2, <4>1
    <3> QED  BY <3>3, <3>4, <3>5
  <2> QED  BY <2>1, <2>2
<1> QED  BY <1>6, <1>7

\* A step that logs nothing and hands out no id.
LEMMA QuietLog ==
    ASSUME DropsJustified, UNCHANGED <<audit, packetOf, nextId>>
    PROVE  DropsJustified'
BY DEF DropsJustified, Logged

\* A step that logs entries of E about one task and hands out no id.
LEMMA LogStep ==
    ASSUME audit \in [Ids -> Seq(Entries)], DropsJustified,
           UNCHANGED <<packetOf, nextId>>,
           NEW id \in Ids, NEW E \in SUBSET (Entries \ {"GateDrop"}),
           NEW es \in Seq(E), Log(id, es)
    PROVE  audit' \in [Ids -> Seq(Entries)] /\ DropsJustified'
<1>1. E \in SUBSET Entries /\ "GateDrop" \notin E  OBVIOUS
<1>2. "GateDrop" \in Entries  BY DEF Entries
<1>3. /\ audit' \in [Ids -> Seq(Entries)]
      /\ \A x \in Ids : Logged(x, "GateDrop")' => Logged(x, "GateDrop")
  BY <1>1, <1>2, LogFacts
<1>5. DropsJustified'
  BY <1>3 DEF DropsJustified, Ids
<1> QED  BY <1>3, <1>5

\* Where the ids come from.
LEMMA IdFacts ==
    /\ FirstSensoryId \in Nat /\ SensoryIds \subseteq Ids /\ Ids \subseteq Nat
    /\ IntentionIds \subseteq Ids /\ NoTask \notin Ids
    /\ \A n \in Nat : FirstSensoryId <= n /\ n < FirstSensoryId + MaxPackets => n \in SensoryIds
BY BoundsAssumption, NoTaskAssumption DEF FirstSensoryId, SensoryIds, IntentionIds, Ids

-----------------------------------------------------------------------------
(* The steps of the other threads *)

\* Console threads, signals and the clock keep the invariant.
LEMMA EnvironmentStep ==
    ASSUME SafeInv, Environment
    PROVE  SafeInv'
<1> USE BoundsAssumption, LimitsAssumption, InputsAssumption DEF SafeInv
<1>1. ASSUME NEW p \in OfferedPackets, Submit(p) PROVE SafeInv'
  <2>1. /\ UNCHANGED <<pc, shutdown, intentions, dueNow, failures, crashes, lateStarts>>
        /\ UNCHANGED loopVars
        /\ queue' = Append(queue, p) /\ nextId - FirstSensoryId + Len(queue) < MaxPackets
    BY <1>1 DEF Submit
  <2>2. queue' \in Seq(OfferedPackets) /\ Len(queue') = Len(queue) + 1 /\ Len(queue) \in Nat
    BY <2>1 DEF TypeOK
  <2>3. TypeOK'  BY <2>1, <2>2 DEF TypeOK, loopVars
  <2>4. IdsLeft'  BY <2>1, <2>2, IdFacts DEF IdsLeft, loopVars, TypeOK
  <2>5. Dispatching' /\ SupervisorBound' /\ LateStartsOnce'
    BY <2>1 DEF Dispatching, SupervisorBound, LateStartsOnce, loopVars
  <2>6. DropsJustified'  BY <2>1, QuietLog DEF loopVars
  <2> QED  BY <2>3, <2>4, <2>5, <2>6
<1>2. CASE RequestShutdown
  <2>1. /\ UNCHANGED <<pc, queue, intentions, dueNow, failures, crashes, lateStarts>>
        /\ UNCHANGED loopVars /\ shutdown' = TRUE
    BY <1>2 DEF RequestShutdown
  <2>2. TypeOK' /\ IdsLeft' /\ Dispatching' /\ SupervisorBound' /\ LateStartsOnce'
    BY <2>1 DEF TypeOK, IdsLeft, Dispatching, SupervisorBound, LateStartsOnce, loopVars
  <2>3. DropsJustified'  BY <2>1, QuietLog DEF loopVars
  <2> QED  BY <2>2, <2>3
<1>4. ASSUME NEW i \in IntentionIds, Tick(i) PROVE SafeInv'
  <2>1. /\ UNCHANGED <<pc, queue, shutdown, dueNow, failures, crashes, lateStarts>>
        /\ UNCHANGED loopVars
        /\ intentions' = [intentions EXCEPT ![i] = IF @ = "future" THEN "due" ELSE "overdue"]
    BY <1>4 DEF Tick
  <2>2. TypeOK' /\ IdsLeft' /\ Dispatching' /\ SupervisorBound' /\ LateStartsOnce'
    BY <2>1 DEF TypeOK, IdsLeft, Dispatching, SupervisorBound, LateStartsOnce, loopVars
  <2>3. DropsJustified'  BY <2>1, QuietLog DEF loopVars
  <2> QED  BY <2>2, <2>3
<1> QED  BY <1>1, <1>2, <1>4 DEF Environment

-----------------------------------------------------------------------------
(* The steps of the loop thread *)

\* One more crash extends the streak, or starts it anew when the run was healthy.
LEMMA StreakStep ==
    ASSUME crashes \in Seq(Runs), failures \in Nat, StreakOf(crashes, failures), NEW run \in Runs
    PROVE  StreakOf(Append(crashes, run), CountFailure(run))
<1> DEFINE n == Len(crashes)
           more == Append(crashes, run)
           count == CountFailure(run)
<1>1. n \in Nat /\ Len(more) = n + 1 /\ more[n + 1] = run /\ \A i \in 1 .. n : more[i] = crashes[i]
  OBVIOUS
<1>2. /\ failures <= n /\ (n > 0 => failures > 0)
      /\ \A i \in n - failures + 2 .. n : crashes[i] = "early"
      /\ (0 < failures /\ failures < n) => crashes[n - failures + 1] = "healthy"
  BY DEF StreakOf
<1>3. (run = "healthy" /\ count = 1) \/ (run = "early" /\ count = failures + 1)
  BY DEF CountFailure, Runs
<1> HIDE DEF n, more, count
<1>4. CASE run = "healthy" /\ count = 1
  <2>1. /\ count <= Len(more) /\ count > 0 /\ Len(more) - count + 1 = n + 1
        /\ \A i \in Len(more) - count + 2 .. Len(more) : FALSE
    BY <1>1, <1>4
  <2> QED  BY <1>1, <1>4, <2>1 DEF StreakOf, more, count
<1>5. CASE run = "early" /\ count = failures + 1
  <2>1. count <= Len(more) /\ count > 0  BY <1>1, <1>2, <1>5
  <2>2. ASSUME NEW i \in Len(more) - count + 2 .. Len(more) PROVE more[i] = "early"
    <3>1. i = n + 1 \/ (i \in n - failures + 2 .. n /\ i \in 1 .. n)
      BY <1>1, <1>2, <1>5, <2>2
    <3> QED  BY <1>1, <1>2, <1>5, <3>1
  <2>3. ASSUME count < Len(more) PROVE more[Len(more) - count + 1] = "healthy"
    <3>1. /\ 0 < failures /\ failures < n /\ Len(more) - count + 1 = n - failures + 1
          /\ n - failures + 1 \in 1 .. n
      BY <1>1, <1>2, <1>5, <2>3
    <3> QED  BY <1>1, <1>2, <3>1
  <2> QED  BY <2>1, <2>2, <2>3 DEF StreakOf, more, count
<1> QED  BY <1>3, <1>4, <1>5

\* Supervise, Top, ScanIntentions, Inject, Sleep and Restart log nothing.
LEMMA QuietSteps ==
    ASSUME SafeInv,
           \/ Supervise \/ Top \/ ScanIntentions \/ Sleep
           \/ \E i \in IntentionIds : Inject(i)
           \/ \E run \in Runs : Restart(run)
    PROVE  SafeInv'
<1> USE BoundsAssumption, LimitsAssumption, InputsAssumption DEF SafeInv
<1>a. agenda \in AgendasOf(Ids) /\ phase \in Nat  BY DEF TypeOK, AgendasOf
<1>1. CASE Supervise
  <2>1. TypeOK' /\ IdsLeft' /\ Dispatching' /\ SupervisorBound' /\ LateStartsOnce'
    BY <1>1 DEF Supervise, TypeOK, IdsLeft, Dispatching, SupervisorBound, LateStartsOnce, loopVars
  <2>2. DropsJustified'  BY <1>1, QuietLog DEF Supervise, loopVars
  <2> QED  BY <2>1, <2>2
<1>2. CASE Top
  <2>1. agenda' \in [Tiers -> Seq(Ids)]
    BY <1>2, <1>a, AgendaTypes DEF Top, AgendasOf
  <2>2. TypeOK' /\ IdsLeft' /\ Dispatching' /\ SupervisorBound' /\ LateStartsOnce'
    BY <1>2, <2>1 DEF Top, TypeOK, IdsLeft, Dispatching, SupervisorBound, LateStartsOnce
  <2>3. DropsJustified'  BY <1>2, QuietLog DEF Top
  <2> QED  BY <2>2, <2>3
<1>3. CASE ScanIntentions
  <2>1. TypeOK' /\ IdsLeft' /\ Dispatching' /\ SupervisorBound' /\ LateStartsOnce'
    BY <1>3 DEF ScanIntentions, TypeOK, IdsLeft, Dispatching, SupervisorBound, LateStartsOnce, loopVars
  <2>2. DropsJustified'  BY <1>3, QuietLog DEF ScanIntentions, loopVars
  <2> QED  BY <2>1, <2>2
<1>4. CASE Sleep
  <2>1. signals' \in Signals  BY <1>4 DEF Sleep, SampleSignals, TypeOK
  <2>2. TypeOK' /\ IdsLeft' /\ Dispatching' /\ SupervisorBound' /\ LateStartsOnce'
    BY <1>4, <2>1 DEF Sleep, TypeOK, IdsLeft, Dispatching, SupervisorBound, LateStartsOnce
  <2>3. DropsJustified'  BY <1>4, QuietLog DEF Sleep
  <2> QED  BY <2>2, <2>3
<1>5. ASSUME NEW i \in IntentionIds, Inject(i) PROVE SafeInv'
  <2>1. agenda' \in [Tiers -> Seq(Ids)]
    BY <1>5, <1>a, IdFacts, AgendaTypes DEF Inject, AgendasOf
  <2>2. TypeOK' /\ IdsLeft' /\ Dispatching' /\ SupervisorBound' /\ LateStartsOnce'
    BY <1>5, <2>1 DEF Inject, TypeOK, IdsLeft, Dispatching, SupervisorBound, LateStartsOnce
  <2>3. DropsJustified'  BY <1>5, QuietLog DEF Inject
  <2> QED  BY <2>2, <2>3
<1>6. ASSUME NEW run \in Runs, Restart(run) PROVE SafeInv'
  <2>1. /\ UNCHANGED <<queue, shutdown, intentions, dueNow, lateStarts>>
        /\ UNCHANGED loopVars /\ pc = "crashed"
        /\ failures' = CountFailure(run) /\ crashes' = Append(crashes, run)
        /\ pc' = IF failures' >= MaxRestarts THEN "gaveup" ELSE "supervise"
    BY <1>6 DEF Restart
  <2>2. failures' \in 0 .. MaxRestarts
    BY <2>1 DEF TypeOK, SupervisorBound, CountFailure
  <2>5. SupervisorBound'
    <3>1. crashes \in Seq(Runs) /\ failures \in Nat  BY DEF TypeOK
    <3>2. StreakOf(crashes', failures')  BY <2>1, <3>1, StreakStep DEF SupervisorBound
    <3> QED  BY <2>1, <2>2, <3>2 DEF SupervisorBound
  <2>6. crashes' \in Seq(Runs)  BY <2>1 DEF TypeOK
  <2>3. TypeOK' /\ IdsLeft' /\ Dispatching' /\ LateStartsOnce'
    BY <2>1, <2>2, <2>6 DEF TypeOK, IdsLeft, Dispatching, LateStartsOnce, loopVars
  <2>4. DropsJustified'  BY <2>1, QuietLog DEF loopVars
  <2> QED  BY <2>2, <2>3, <2>4, <2>5
<1> QED  BY <1>1, <1>2, <1>3, <1>4, <1>5, <1>6

\* What taking a packet off the queue gives: a fresh sensory id.
LEMMA IngestFacts ==
    ASSUME SafeInv, NEW p \in OfferedPackets, Ingest(p)
    PROVE  /\ nextId \in SensoryIds /\ nextId \in Ids
           /\ queue' \in Seq(OfferedPackets) /\ Len(queue') = Len(queue) - 1
           /\ nextId' \in Nat /\ nextId' = nextId + 1 /\ IdsLeft'
           /\ packetOf' \in [SensoryIds -> OfferedPackets \cup {NoTask}]
           /\ packetOf'[nextId] = p
           /\ \A id \in SensoryIds : id # nextId => packetOf'[id] = packetOf[id]
           /\ Dispatching' /\ SupervisorBound' /\ LateStartsOnce'
<1> USE BoundsAssumption DEF SafeInv
<1>1. /\ pc = "ingest" /\ queue # <<>> /\ queue' = Tail(queue) /\ nextId' = nextId + 1
      /\ packetOf' = [packetOf EXCEPT ![nextId] = p]
      /\ UNCHANGED <<pc, shutdown, intentions, dueNow, failures, crashes, lateStarts, phase,
                     state, signals, inflight, composed, conversation>>
  BY DEF Ingest
<1>2. /\ queue' \in Seq(OfferedPackets) /\ Len(queue') = Len(queue) - 1
      /\ Len(queue) \in Nat /\ Len(queue) >= 1
  BY <1>1 DEF TypeOK
<1>3. nextId \in SensoryIds
  <2>1. nextId \in Nat /\ FirstSensoryId <= nextId /\ nextId < FirstSensoryId + MaxPackets
    BY <1>2, IdFacts DEF IdsLeft, TypeOK
  <2> QED  BY <2>1, IdFacts
<1>4. IdsLeft' /\ nextId' \in Nat
  BY <1>1, <1>2, IdFacts DEF IdsLeft, TypeOK
<1>5. /\ packetOf' \in [SensoryIds -> OfferedPackets \cup {NoTask}]
      /\ packetOf'[nextId] = p
      /\ \A id \in SensoryIds : id # nextId => packetOf'[id] = packetOf[id]
  BY <1>1, <1>3 DEF TypeOK
<1>6. Dispatching' /\ SupervisorBound' /\ LateStartsOnce'
  BY <1>1 DEF Dispatching, SupervisorBound, LateStartsOnce
<1> QED  BY <1>1, <1>2, <1>3, <1>4, <1>5, <1>6, IdFacts

\* The rest of the type invariant after taking a packet.
LEMMA IngestTypes ==
    ASSUME SafeInv, NEW p \in OfferedPackets, Ingest(p),
           audit' \in [Ids -> Seq(Entries)],
           agenda' \in [Tiers -> Seq(Ids)],
           operatorTasks' \in SUBSET SensoryIds
    PROVE  TypeOK'
<1>1. /\ queue' \in Seq(OfferedPackets) /\ nextId' \in Nat
      /\ packetOf' \in [SensoryIds -> OfferedPackets \cup {NoTask}]
  BY IngestFacts
<1>2. UNCHANGED <<pc, shutdown, intentions, dueNow, failures, crashes, lateStarts, phase,
                  state, signals, inflight, composed, conversation>>
  BY DEF Ingest
<1>3. TypeOK  BY DEF SafeInv
<1> QED  BY <1>1, <1>2, <1>3 DEF TypeOK

\* A packet that becomes a task.
LEMMA AdmitStep ==
    ASSUME SafeInv, NEW p \in OfferedPackets, NEW mood \in Moods, Admit(p, mood)
    PROVE  SafeInv'
<1> DEFINE E == {"Linked", "GateInvoke"}
           es == LinkEntry(p) \o (IF Gated(p) THEN <<"GateInvoke">> ELSE <<>>)
<1>1. Ingest(p) /\ Log(nextId, es)  BY DEF Admit
<1>2. es \in Seq(E)
  <2>0. <<"Linked">> \in Seq(E) /\ <<"GateInvoke">> \in Seq(E) /\ <<>> \in Seq(E)  OBVIOUS
  <2>1. LinkEntry(p) \in Seq(E)  BY <2>0, Zenon DEF LinkEntry
  <2>2. (IF Gated(p) THEN <<"GateInvoke">> ELSE <<>>) \in Seq(E)  BY <2>0, Zenon
  <2> QED  BY <2>1, <2>2, ConcatProperties, Zenon
<1>3. E \in SUBSET Entries  BY DEF Entries
<1>4. audit \in [Ids -> Seq(Entries)] /\ nextId \in Ids /\ nextId \in SensoryIds
  BY <1>1, IngestFacts DEF SafeInv, TypeOK
<1> HIDE DEF es
<1>5. /\ audit' \in [Ids -> Seq(Entries)]
      /\ \A x \in Ids, e \in Entries : Logged(x, e)' => Logged(x, e) \/ (x = nextId /\ e \in E)
  BY <1>1, <1>2, <1>3, <1>4, LogFacts
<1>6. agenda' \in [Tiers -> Seq(Ids)]
  <2>1. TierFor(p.priority) \in Nat  BY DEF TierFor
  <2>2. agenda \in AgendasOf(Ids) /\ agenda' = Push(agenda, TierFor(p.priority), nextId)
    BY DEF Admit, SafeInv, TypeOK, AgendasOf
  <2> QED  BY <1>4, <2>1, <2>2, AgendaTypes DEF AgendasOf
<1>7. operatorTasks' \in SUBSET SensoryIds
  BY <1>4 DEF Admit, Track, SafeInv, TypeOK
<1>8. TypeOK'  BY <1>1, <1>5, <1>6, <1>7, IngestTypes
<1>9. \A x \in Ids : Logged(x, "GateDrop")' => Logged(x, "GateDrop")
  <2>1. "GateDrop" \in Entries  BY DEF Entries
  <2> QED  BY <1>5, <2>1
<1>11. DropsJustified'
  <2>1. /\ nextId' = nextId + 1 /\ nextId \in Nat
        /\ \A id \in SensoryIds : id # nextId => packetOf'[id] = packetOf[id]
    BY <1>1, IngestFacts DEF SafeInv, TypeOK
  <2> SUFFICES ASSUME NEW id \in SensoryIds, Logged(id, "GateDrop")'
               PROVE  /\ id < nextId' /\ packetOf'[id] \in OfferedPackets
                      /\ packetOf'[id].origin = "operator" /\ ~packetOf'[id].forced
                      /\ packetOf'[id].priority \in {"low", "normal"}
    BY DEF DropsJustified
  <2>2. id \in Nat /\ id \in Ids  BY IdFacts
  <2>3. Logged(id, "GateDrop")  BY <1>9, <2>2
  <2>4. id < nextId  BY <2>3 DEF SafeInv, DropsJustified
  <2>5. packetOf'[id] = packetOf[id] /\ id < nextId'  BY <2>1, <2>2, <2>4
  <2> QED  BY <2>3, <2>5 DEF SafeInv, DropsJustified
<1> QED  BY <1>1, <1>8, <1>11, IngestFacts DEF SafeInv

\* A packet the gate declines: it was an operator's, unforced, Low or Normal.
LEMMA DeclineStep ==
    ASSUME SafeInv, NEW p \in OfferedPackets, NEW mood \in Moods, Decline(p, mood)
    PROVE  SafeInv'
<1> DEFINE E == {"Linked", "GateDrop"}
           es == LinkEntry(p) \o <<"GateDrop">>
<1>1. Ingest(p) /\ Log(nextId, es) /\ UNCHANGED <<agenda, operatorTasks>>  BY DEF Decline
<1>2. es \in Seq(E)
  <2>0. <<"Linked">> \in Seq(E) /\ <<>> \in Seq(E)  OBVIOUS
  <2>1. LinkEntry(p) \in Seq(E)  BY <2>0, Zenon DEF LinkEntry
  <2>2. <<"GateDrop">> \in Seq(E)  OBVIOUS
  <2> QED  BY <2>1, <2>2, ConcatProperties, Zenon
<1>3. E \in SUBSET Entries  BY DEF Entries
<1>4. audit \in [Ids -> Seq(Entries)] /\ nextId \in Ids /\ nextId \in SensoryIds
  BY <1>1, IngestFacts DEF SafeInv, TypeOK
<1> HIDE DEF es
<1>5. /\ audit' \in [Ids -> Seq(Entries)]
      /\ \A x \in Ids, e \in Entries : Logged(x, e)' => Logged(x, e) \/ (x = nextId /\ e \in E)
  BY <1>1, <1>2, <1>3, <1>4, LogFacts
<1>6. TypeOK'
  <2>1. agenda' \in [Tiers -> Seq(Ids)] /\ operatorTasks' \in SUBSET SensoryIds
    BY <1>1 DEF SafeInv, TypeOK
  <2> QED  BY <1>1, <1>5, <2>1, IngestTypes
<1>7. /\ \A x \in Ids : Logged(x, "GateDrop")' => Logged(x, "GateDrop") \/ x = nextId
  <2>1. "GateDrop" \in Entries  BY DEF Entries
  <2> QED  BY <1>5, <2>1
<1>9. p.origin = "operator" /\ p.forced = FALSE /\ p.priority \in {"low", "normal"}
  <2>1. p \in Packets  BY InputsAssumption
  <2>2. Gated(p) /\ ~Invoke(p.priority, p.forced, signals, mood)  BY DEF Decline
  <2>3. p.forced \in BOOLEAN /\ p.priority \in Priorities  BY <2>1 DEF Packets
  <2>4. p.forced = FALSE
    <3>1. Invoke(p.priority, TRUE, signals, mood)  BY DEF Invoke
    <3>2. p.forced # TRUE  BY <2>2, <3>1, Zenon
    <3> QED  BY <2>3, <3>2
  <2>5. p.origin = "operator"  BY <2>2, <2>4 DEF Gated
  <2>6. signals \in Signals /\ mood \in Mood  BY InputsAssumption DEF SafeInv, TypeOK
  <2>7. p.priority \notin {"high", "critical"}  BY <2>2, <2>4, <2>6, UrgentInvokes
  <2> QED  BY <2>3, <2>4, <2>5, <2>7 DEF Priorities
<1>10. DropsJustified'
  <2>1. /\ nextId' = nextId + 1 /\ nextId \in Nat /\ packetOf'[nextId] = p
        /\ \A id \in SensoryIds : id # nextId => packetOf'[id] = packetOf[id]
    BY <1>1, IngestFacts DEF SafeInv, TypeOK
  <2> SUFFICES ASSUME NEW id \in SensoryIds, Logged(id, "GateDrop")'
               PROVE  /\ id < nextId' /\ packetOf'[id] \in OfferedPackets
                      /\ packetOf'[id].origin = "operator" /\ ~packetOf'[id].forced
                      /\ packetOf'[id].priority \in {"low", "normal"}
    BY DEF DropsJustified
  <2>2. id \in Nat /\ id \in Ids  BY IdFacts
  <2>3. CASE id = nextId
    BY <1>9, <2>1, <2>3
  <2>4. CASE id # nextId
    <3>1. Logged(id, "GateDrop")  BY <1>7, <2>2, <2>4
    <3>2. id < nextId  BY <3>1 DEF SafeInv, DropsJustified
    <3>3. packetOf'[id] = packetOf[id] /\ id < nextId'  BY <2>1, <2>2, <2>4, <3>2
    <3> QED  BY <3>1, <3>3 DEF SafeInv, DropsJustified
  <2> QED  BY <2>3, <2>4
<1> QED  BY <1>1, <1>6, <1>10, IngestFacts DEF SafeInv

\* A task taken from the agenda: after a shutdown request the loop cannot come
\* here again.
LEMMA BeginStep ==
    ASSUME SafeInv, NEW t \in Tiers, Begin(t)
    PROVE  SafeInv'
<1> USE DEF SafeInv
<1>1. /\ pc = "inject" /\ pc' = "dispatch"
      /\ inflight' = Head(agenda[t]) /\ Log(inflight', <<"Started", "Routed">>)
      /\ UNCHANGED <<queue, shutdown, intentions, dueNow, failures, crashes, nextId, packetOf>>
  BY DEF Begin
<1>2. agenda[t] \in Seq(Ids) /\ agenda[t] # <<>>  BY DEF Begin, IsTop, TypeOK
<1>3. inflight' \in Ids  BY <1>1, <1>2
<1>4. agenda' \in [Tiers -> Seq(Ids)]
  <2>1. agenda \in AgendasOf(Ids) /\ agenda' = PopTier(agenda, t)  BY DEF Begin, TypeOK, AgendasOf
  <2> QED  BY <1>2, <2>1, AgendaTypes DEF AgendasOf
<1>5. audit' \in [Ids -> Seq(Entries)] /\ DropsJustified'
  <2> DEFINE E == {"Started", "Routed"}
  <2>1. <<"Started", "Routed">> \in Seq(E)  OBVIOUS
  <2>2. E \in SUBSET (Entries \ {"GateDrop"})  BY DEF Entries
  <2>3. audit \in [Ids -> Seq(Entries)]  BY DEF TypeOK
  <2> HIDE DEF E
  <2> QED  BY <1>1, <1>3, <2>1, <2>2, <2>3, LogStep
<1>6. composed' \in BOOLEAN
  <2>1. composed' = (inflight' \in operatorTasks)  BY DEF Begin
  <2>2. CASE inflight' \in operatorTasks  BY <2>1, <2>2, Zenon
  <2>3. CASE inflight' \notin operatorTasks  BY <2>1, <2>3
  <2> QED  BY <2>2, <2>3
<1>7. conversation' \in Seq(Roles \X Ids)
  <2>1. <<"user", inflight'>> \in Roles \X Ids  BY <1>3 DEF Roles
  <2>2. conversation \in Seq(Roles \X Ids)  BY DEF TypeOK
  <2>3. Append(conversation, <<"user", inflight'>>) \in Seq(Roles \X Ids)
    BY <2>1, <2>2, AppendProperties
  <2> QED  BY <2>2, <2>3 DEF Begin
<1>8. signals' \in Signals  BY InputsAssumption DEF Begin, SampleSignals, TypeOK
<1>9. operatorTasks' \in SUBSET SensoryIds  BY DEF Begin, TakeOperatorTask, TypeOK
<1>10. phase' \in Nat /\ lateStarts' \in Nat /\ state' = "Awake"
  BY BoundsAssumption DEF Begin, NextPhase, TypeOK
<1>11. TypeOK'
  BY <1>1, <1>3, <1>4, <1>5, <1>6, <1>7, <1>8, <1>9, <1>10 DEF TypeOK
<1>12. IdsLeft' /\ Dispatching' /\ SupervisorBound'
  BY <1>1, <1>3 DEF IdsLeft, Dispatching, SupervisorBound
<1>13. LateStartsOnce'
  <2>1. lateStarts \in Nat /\ lateStarts' = IF shutdown THEN lateStarts + 1 ELSE lateStarts
    BY DEF Begin, TypeOK
  <2> QED  BY <1>1, <2>1 DEF LateStartsOnce
<1> QED  BY <1>5, <1>11, <1>12, <1>13

\* The three ends of a dispatch.
LEMMA EndSteps ==
    ASSUME SafeInv,
           \/ \E unsure \in BOOLEAN : Complete(unsure)
           \/ Fail
           \/ Panic
    PROVE  SafeInv'
<1> USE DEF SafeInv
<1>1. EndDispatch /\ pc' \in {"top", "crashed"}  BY DEF Complete, Fail, Panic
<1>2. /\ pc = "dispatch" /\ inflight' = NoTask /\ composed' = FALSE
      /\ UNCHANGED <<queue, shutdown, intentions, dueNow, failures, crashes, lateStarts,
                     agenda, phase, nextId, operatorTasks, state, signals, packetOf>>
  BY <1>1 DEF EndDispatch
<1>3. inflight \in Ids /\ audit \in [Ids -> Seq(Entries)]
      /\ conversation \in Seq(Roles \X Ids)
  BY <1>2 DEF Dispatching, TypeOK
<1>4. /\ audit' \in [Ids -> Seq(Entries)] /\ DropsJustified'
      /\ conversation' \in Seq(Roles \X Ids)
  <2>1. ASSUME NEW unsure \in BOOLEAN, Complete(unsure)
        PROVE  /\ audit' \in [Ids -> Seq(Entries)] /\ DropsJustified'
               /\ conversation' \in Seq(Roles \X Ids)
    <3> DEFINE E == {"Completed", "HelpRequested"}
               es == <<"Completed">> \o (IF unsure /\ composed THEN <<"HelpRequested">> ELSE <<>>)
               turns == AgentTurns(inflight, unsure)
    <3>1. es \in Seq(E)
      <4>1. <<"Completed">> \in Seq(E)  OBVIOUS
      <4>2. (IF unsure /\ composed THEN <<"HelpRequested">> ELSE <<>>) \in Seq(E)
        <5>1. <<"HelpRequested">> \in Seq(E) /\ <<>> \in Seq(E)  OBVIOUS
        <5> QED  BY <5>1, Zenon
      <4> QED  BY <4>1, <4>2, ConcatProperties, Zenon
    <3>2. E \in SUBSET (Entries \ {"GateDrop"})  BY DEF Entries
    <3>3. turns \in Seq(Roles \X Ids)
      <4>1. << <<"reply", inflight>> >> \in Seq(Roles \X Ids)  BY <1>3 DEF Roles
      <4>2. (IF unsure THEN << <<"question", inflight>> >> ELSE <<>>) \in Seq(Roles \X Ids)
        <5>1. << <<"question", inflight>> >> \in Seq(Roles \X Ids) /\ <<>> \in Seq(Roles \X Ids)
          BY <1>3 DEF Roles
        <5> QED  BY <5>1, Zenon
      <4> QED  BY <4>1, <4>2, ConcatProperties, Zenon DEF AgentTurns
    <3>4. /\ Log(inflight, es)
          /\ conversation' = IF composed THEN conversation \o turns ELSE conversation
      BY <2>1 DEF Complete
    <3> HIDE DEF E, es, turns
    <3>5. conversation \o turns \in Seq(Roles \X Ids)
      BY <1>3, <3>3, ConcatProperties, Zenon
    <3>6. audit' \in [Ids -> Seq(Entries)] /\ DropsJustified'
      BY <1>2, <1>3, <3>1, <3>2, <3>4, LogStep
    <3> QED  BY <1>3, <3>4, <3>5, <3>6
  <2>2. ASSUME Fail
        PROVE  /\ audit' \in [Ids -> Seq(Entries)] /\ DropsJustified'
               /\ conversation' \in Seq(Roles \X Ids)
    <3>2. Log(inflight, <<"Failed">>) /\ conversation' = conversation
      BY <2>2 DEF Fail
    <3> DEFINE E == {"Failed"}
    <3>3. <<"Failed">> \in Seq(E)  OBVIOUS
    <3>4. E \in SUBSET (Entries \ {"GateDrop"})  BY DEF Entries
    <3> HIDE DEF E
    <3>5. audit' \in [Ids -> Seq(Entries)] /\ DropsJustified'
      BY <1>2, <1>3, <3>2, <3>3, <3>4, LogStep
    <3> QED  BY <1>3, <3>2, <3>5
  <2>3. CASE Panic
    <3>1. UNCHANGED <<conversation, audit>>  BY <2>3 DEF Panic
    <3> QED  BY <1>2, <1>3, <3>1, QuietLog
  <2> QED  BY <2>1, <2>2, <2>3
<1>5. TypeOK'  BY <1>1, <1>2, <1>4 DEF TypeOK
<1>6. IdsLeft' /\ Dispatching' /\ SupervisorBound' /\ LateStartsOnce'
  BY <1>1, <1>2 DEF IdsLeft, Dispatching, SupervisorBound, LateStartsOnce
<1> QED  BY <1>4, <1>5, <1>6

-----------------------------------------------------------------------------
(* The theorems *)

\* SafeInv holds in every reachable state of the serving agent.
THEOREM SafeInvariant == Spec => []SafeInv
<1>1. Init => SafeInv
  <2> SUFFICES ASSUME Init PROVE SafeInv  OBVIOUS
  <2> USE BoundsAssumption, LimitsAssumption DEF Init
  <2>1. FirstSensoryId \in Nat  BY IdFacts
  <2>2. Neutral \in Signals  BY DEF Neutral, Signals, Percent
  <2>3. TypeOK
    <3>1. agenda \in [Tiers -> Seq(Ids)]  BY DEF EmptyAgenda
    <3>2. audit \in [Ids -> Seq(Entries)]  OBVIOUS
    <3>3. packetOf \in [SensoryIds -> OfferedPackets \cup {NoTask}]  OBVIOUS
    <3>4. /\ intentions \in [IntentionIds -> {"future", "due", "overdue", "dispatched"}]
          /\ dueNow \in SUBSET IntentionIds /\ operatorTasks \in SUBSET SensoryIds
      OBVIOUS
    <3>5. queue \in Seq(OfferedPackets) /\ conversation \in Seq(Roles \X Ids)  OBVIOUS
    <3>6. shutdown \in BOOLEAN /\ composed \in BOOLEAN  OBVIOUS
    <3>9. crashes \in Seq(Runs)  OBVIOUS
    <3>7. phase \in Nat /\ failures \in 0 .. MaxRestarts /\ lateStarts \in Nat /\ nextId \in Nat
      BY <2>1
    <3>8. /\ state \in {"Awake", "Sleep"} /\ signals \in Signals /\ inflight \in Ids \cup {NoTask}
          /\ pc \in {"supervise", "top", "ingest", "inject", "dispatch", "crashed", "exited", "gaveup"}
      BY <2>2
    <3> HIDE DEF Init
    <3> QED  BY <3>1, <3>2, <3>3, <3>4, <3>5, <3>6, <3>7, <3>8, <3>9 DEF TypeOK
  <2>4. IdsLeft  BY <2>1 DEF IdsLeft
  <2>5. Dispatching /\ SupervisorBound /\ LateStartsOnce
    <3>1. Len(crashes) = 0 /\ failures = 0  OBVIOUS
    <3>2. StreakOf(crashes, failures)  BY <3>1 DEF StreakOf
    <3> QED  BY <3>2 DEF Dispatching, SupervisorBound, LateStartsOnce
  <2>6. \A id \in Ids, e \in Entries : ~Logged(id, e)  BY DEF Logged
  <2>7. DropsJustified
    BY <2>6, IdFacts DEF DropsJustified, Entries
  <2> QED  BY <2>3, <2>4, <2>5, <2>7 DEF SafeInv
<1>2. SafeInv /\ [Next]_vars => SafeInv'
  <2> SUFFICES ASSUME SafeInv, [Next]_vars PROVE SafeInv'  OBVIOUS
  <2>1. CASE UNCHANGED vars
    BY <2>1 DEF vars, loopVars, SafeInv, TypeOK, IdsLeft, Dispatching, SupervisorBound,
                LateStartsOnce, DropsJustified, Logged
  <2>2. CASE LoopStep
    BY <2>2, QuietSteps, AdmitStep, DeclineStep, BeginStep, EndSteps DEF LoopStep
  <2>3. CASE Environment
    BY <2>3, EnvironmentStep
  <2> QED  BY <2>1, <2>2, <2>3 DEF Next, Terminated
<1> QED  BY <1>1, <1>2, PTL DEF Spec

\* The type invariant of the manager, the bridge and the supervisor.
THEOREM TypeCorrect == Spec => []TypeOK
<1>1. SafeInv => TypeOK  BY DEF SafeInv
<1> QED  BY <1>1, SafeInvariant, PTL

\* For every MAX_SOMATIC_RESTARTS and every sequence of crashes, the supervisor
\* gives up at the end of an unbroken streak of early crashes and only there.
THEOREM SupervisorPersists == Spec => []GivesUpOnStreak
<1>1. SafeInv => GivesUpOnStreak
  <2> SUFFICES ASSUME SafeInv PROVE GivesUpOnStreak  OBVIOUS
  <2> DEFINE n == Len(crashes)
  <2>1. /\ n \in Nat /\ failures \in Nat /\ failures <= MaxRestarts /\ MaxRestarts \in Nat \ {0}
        /\ \A i \in 1 .. n : crashes[i] \in Runs
    BY LimitsAssumption DEF SafeInv, TypeOK
  <2>2. /\ failures <= n /\ (n > 0 => failures > 0)
        /\ \A i \in n - failures + 2 .. n : crashes[i] = "early"
        /\ (0 < failures /\ failures < n) => crashes[n - failures + 1] = "healthy"
    BY DEF SafeInv, SupervisorBound, StreakOf
  <2>3. pc = "gaveup" <=> failures >= MaxRestarts
    BY <2>1 DEF SafeInv, SupervisorBound
  <2> HIDE DEF n
  <2>4. failures >= MaxRestarts =>
          n >= MaxRestarts /\ \A i \in n - MaxRestarts + 2 .. n : crashes[i] = "early"
    BY <2>1, <2>2
  <2>5. ASSUME n >= MaxRestarts, \A i \in n - MaxRestarts + 2 .. n : crashes[i] = "early"
        PROVE  failures >= MaxRestarts
    <3>1. SUFFICES ASSUME failures < MaxRestarts PROVE FALSE  BY <2>1
    <3>2. 0 < failures /\ failures < n  BY <2>1, <2>2, <2>5, <3>1
    <3>3. n - failures + 1 \in n - MaxRestarts + 2 .. n  BY <2>1, <3>1, <3>2
    <3> QED  BY <2>2, <2>5, <3>2, <3>3
  <2> QED  BY <2>3, <2>4, <2>5 DEF GivesUpOnStreak, n
<1> QED  BY <1>1, SafeInvariant, PTL

\* However many packets wait when SIGTERM arrives, at most one more task is
\* started (the shutdown poll at the top of somatic_execution_loop and of
\* supervise_somatic_loop), whatever crashes and restarts come in between.
THEOREM PromptShutdown == Spec => []ShutdownPrompt
<1>1. SafeInv => ShutdownPrompt  BY DEF SafeInv, LateStartsOnce, ShutdownPrompt
<1> QED  BY <1>1, SafeInvariant, PTL

\* For every sensor reading and every drive state, the gate declines only an
\* operator's unforced packet of Low or Normal priority.
THEOREM UrgentGuidanceKept == Spec => []GateKeepsUrgent
<1>1. SafeInv => GateKeepsUrgent  BY DEF SafeInv, DropsJustified, GateKeepsUrgent
<1> QED  BY <1>1, SafeInvariant, PTL

-----------------------------------------------------------------------------
(* The life of a task: where its id is and what its log says *)

\* A task runs exactly while the loop is in a dispatch, and only then is a turn
\* of the conversation open.
InflightInv ==
    /\ inflight # NoTask <=> pc = "dispatch"
    /\ composed => pc = "dispatch"

\* What inject_due_intentions still has to push was not pushed before.
DueInv == \A i \in dueNow : intentions[i] \in {"due", "overdue"}

\* An id not handed out yet.
FreshId(id) == IF id \in SensoryIds THEN id >= nextId ELSE intentions[id] # "dispatched"

\* Nothing is known of an id before it is handed out.
FreshInv ==
    \A id \in Ids : FreshId(id) =>
        /\ audit[id] = <<>> /\ ~Queued(agenda, id) /\ inflight # id
        /\ id \in SensoryIds => packetOf[id] = NoTask

\* A task waits in one place, and has not been started, declined or ended.
QueuedInv ==
    /\ QueuedOnce(agenda)
    /\ \A id \in Ids : Queued(agenda, id) =>
          /\ inflight # id
          /\ \A e \in Entries : Logged(id, e) => e \in {"Linked", "GateInvoke"}

\* The log of the running task ends with its start and the choice of its backend.
RunningInv ==
    inflight # NoTask =>
        /\ Len(audit[inflight]) > 0 /\ audit[inflight][Len(audit[inflight])] = "Routed"
        /\ Logged(inflight, "Started")
        /\ \A e \in Entries : Logged(inflight, e) => e \in {"Linked", "GateInvoke", "Started", "Routed"}

\* Every turn is of a task that was started, and the open turn is the last one.
ConversationInv ==
    /\ ConversationFollows
    /\ \A i \in 1 .. Len(conversation) : Logged(conversation[i][2], "Started")
    /\ composed => /\ Len(conversation) > 0
                   /\ conversation[Len(conversation)] = <<"user", inflight>>

\* An operator task is tracked until MaxTracked later ones came in, and its
\* dispatch composed.
Recent(id) == FromOperator(id) /\ Cardinality(AdmittedAfter(id)) < MaxTracked
TrackedInv ==
    \A id \in SensoryIds : Recent(id) =>
        /\ Queued(agenda, id) => id \in operatorTasks
        /\ inflight = id => composed

LifeInv ==
    /\ InflightInv /\ DueInv /\ FreshInv /\ QueuedInv /\ RunningInv
    /\ AuditOrder /\ OperatorTasksPending /\ ConversationInv /\ TrackedInv /\ OperatorHeard

-----------------------------------------------------------------------------
(* The order of one task's log *)

\* What AuditOrder says of one log.
OrderedLog(log) ==
    \A i \in 1 .. Len(log) :
        /\ log[i] = "Linked" => i = 1
        /\ log[i] \in {"GateInvoke", "GateDrop"} => \A j \in 1 .. i - 1 : log[j] = "Linked"
        /\ log[i] = "GateDrop" => i = Len(log)
        /\ log[i] = "Started" => \A j \in 1 .. i - 1 : log[j] \in {"Linked", "GateInvoke"}
        /\ log[i] = "Routed" => i > 1 /\ log[i - 1] = "Started"
        /\ log[i] \in {"Completed", "Failed"} => i > 1 /\ log[i - 1] = "Routed"
        /\ log[i] = "HelpRequested" => i > 1 /\ log[i - 1] = "Completed"

\* AuditOrder, log by log.
LEMMA OrderByLog == AuditOrder <=> \A id \in Ids : OrderedLog(audit[id])
BY DEF AuditOrder, OrderedLog

\* The logs intake writes.
LEMMA IntakeLogs ==
    ASSUME NEW log \in {<<>>, <<"Linked">>, <<"GateInvoke">>, <<"GateDrop">>,
                        <<"Linked", "GateInvoke">>, <<"Linked", "GateDrop">>}
    PROVE  OrderedLog(log)
<1>1. OrderedLog(<<>>)  BY DEF OrderedLog
<1>2. OrderedLog(<<"Linked">>) /\ OrderedLog(<<"GateInvoke">>) /\ OrderedLog(<<"GateDrop">>)
  BY DEF OrderedLog
<1>3. OrderedLog(<<"Linked", "GateInvoke">>)  BY DEF OrderedLog
<1>4. OrderedLog(<<"Linked", "GateDrop">>)  BY DEF OrderedLog
<1> QED  BY <1>1, <1>2, <1>3, <1>4

\* A start after intake, and the choice of the backend after it.
LEMMA StartedLog ==
    ASSUME NEW log \in Seq(Entries), OrderedLog(log),
           \A i \in 1 .. Len(log) : log[i] \in {"Linked", "GateInvoke"}
    PROVE  OrderedLog(log \o <<"Started", "Routed">>)
<1> DEFINE new == log \o <<"Started", "Routed">>
           n == Len(log)
<1>1. /\ n \in Nat /\ Len(new) = n + 2 /\ new[n + 1] = "Started" /\ new[n + 2] = "Routed"
      /\ \A i \in 1 .. n : new[i] = log[i]
  BY DEF Entries
<1>2. \A i \in 1 .. n : new[i] \in {"Linked", "GateInvoke"}  BY <1>1
<1> HIDE DEF new, n
<1>3. \A i \in 1 .. n :
        /\ new[i] = "Linked" => i = 1
        /\ new[i] = "GateInvoke" => \A j \in 1 .. i - 1 : new[j] = "Linked"
  BY <1>1 DEF OrderedLog, n
<1>4. \A i \in 1 .. Len(new) : \/ i \in 1 .. n \/ (i = n + 1 /\ new[i] = "Started")
                                \/ (i = n + 2 /\ new[i] = "Routed")
  BY <1>1
<1>5. \A j \in 1 .. (n + 1) - 1 : new[j] \in {"Linked", "GateInvoke"}  BY <1>1, <1>2
<1>6. new[(n + 2) - 1] = "Started" /\ n + 2 > 1  BY <1>1
<1> QED  BY <1>2, <1>3, <1>4, <1>5, <1>6 DEF OrderedLog, new

\* An outcome after the choice of the backend, and a help request after a completion.
LEMMA EndedLog ==
    ASSUME NEW log \in Seq(Entries), OrderedLog(log), Len(log) > 0, log[Len(log)] = "Routed",
           NEW e \in {"Completed", "Failed"}
    PROVE  /\ OrderedLog(log \o <<e>>)
           /\ e = "Completed" => OrderedLog(log \o <<e, "HelpRequested">>)
<1> DEFINE n == Len(log)
           one == log \o <<e>>
           two == log \o <<e, "HelpRequested">>
<1>1. n \in Nat /\ n > 0 /\ log[n] = "Routed"  OBVIOUS
<1>2. Len(one) = n + 1 /\ one[n + 1] = e /\ \A i \in 1 .. n : one[i] = log[i]
  BY DEF Entries
<1>3. /\ Len(two) = n + 2 /\ two[n + 1] = e /\ two[n + 2] = "HelpRequested"
      /\ \A i \in 1 .. n : two[i] = log[i]
  BY DEF Entries
<1>4. \A i \in 1 .. n :
        /\ log[i] = "Linked" => i = 1
        /\ log[i] = "GateInvoke" => \A j \in 1 .. i - 1 : log[j] = "Linked"
        /\ log[i] # "GateDrop"
        /\ log[i] = "Started" => \A j \in 1 .. i - 1 : log[j] \in {"Linked", "GateInvoke"}
        /\ log[i] = "Routed" => i > 1 /\ log[i - 1] = "Started"
        /\ log[i] \in {"Completed", "Failed"} => i > 1 /\ log[i - 1] = "Routed"
        /\ log[i] = "HelpRequested" => i > 1 /\ log[i - 1] = "Completed"
  BY <1>1 DEF OrderedLog
<1> HIDE DEF n, one, two
<1>5. OrderedLog(one)
  <2>1. \A i \in 1 .. Len(one) : i \in 1 .. n \/ i = n + 1  BY <1>1, <1>2
  <2>2. \A i \in 1 .. n : \A j \in 1 .. i - 1 : j \in 1 .. n /\ one[j] = log[j]  BY <1>1, <1>2
  <2>3. \A i \in 1 .. n : i > 1 => one[i - 1] = log[i - 1]  BY <1>1, <1>2
  <2>4. one[(n + 1) - 1] = "Routed" /\ n + 1 > 1  BY <1>1, <1>2
  <2> DEFINE Fits(i) ==
        /\ one[i] = "Linked" => i = 1
        /\ one[i] \in {"GateInvoke", "GateDrop"} => \A j \in 1 .. i - 1 : one[j] = "Linked"
        /\ one[i] = "GateDrop" => i = Len(one)
        /\ one[i] = "Started" => \A j \in 1 .. i - 1 : one[j] \in {"Linked", "GateInvoke"}
        /\ one[i] = "Routed" => i > 1 /\ one[i - 1] = "Started"
        /\ one[i] \in {"Completed", "Failed"} => i > 1 /\ one[i - 1] = "Routed"
        /\ one[i] = "HelpRequested" => i > 1 /\ one[i - 1] = "Completed"
  <2>5. ASSUME NEW i \in 1 .. n PROVE Fits(i)  BY <1>1, <1>2, <1>4, <2>2, <2>3
  <2>6. Fits(n + 1)  BY <1>1, <1>2, <2>4
  <2> QED  BY <2>1, <2>5, <2>6 DEF OrderedLog
<1>6. ASSUME e = "Completed" PROVE OrderedLog(two)
  <2>1. \A i \in 1 .. Len(two) : i \in 1 .. n \/ i = n + 1 \/ i = n + 2  BY <1>1, <1>3
  <2>2. \A i \in 1 .. n : \A j \in 1 .. i - 1 : j \in 1 .. n /\ two[j] = log[j]  BY <1>1, <1>3
  <2>3. \A i \in 1 .. n : i > 1 => two[i - 1] = log[i - 1]  BY <1>1, <1>3
  <2>4. two[(n + 1) - 1] = "Routed" /\ n + 1 > 1  BY <1>1, <1>3
  <2>5. two[(n + 2) - 1] = "Completed" /\ n + 2 > 1  BY <1>1, <1>3, <1>6
  <2> QED  BY <1>1, <1>3, <1>4, <1>6, <2>1, <2>2, <2>3, <2>4, <2>5 DEF OrderedLog
<1> QED  BY <1>5, <1>6 DEF one, two

\* What Log leaves, entry by entry.
LEMMA LogShape ==
    ASSUME audit \in [Ids -> Seq(Entries)], NEW id \in Ids, NEW es \in Seq(Entries), Log(id, es)
    PROVE  /\ audit'[id] = audit[id] \o es
           /\ Len(audit'[id]) = Len(audit[id]) + Len(es)
           /\ \A i \in 1 .. Len(audit[id]) : audit'[id][i] = audit[id][i]
           /\ \A i \in 1 .. Len(es) : audit'[id][Len(audit[id]) + i] = es[i]
           /\ \A x \in Ids : x # id => audit'[x] = audit[x]
           /\ \A x \in Ids, e \in Entries : Logged(x, e) => Logged(x, e)'
           /\ \A x \in Ids, e \in Entries : x # id => (Logged(x, e)' <=> Logged(x, e))
           /\ \A e \in Entries : Logged(id, e)' <=> Logged(id, e) \/ \E i \in 1 .. Len(es) : es[i] = e
<1> DEFINE old == audit[id]
           new == old \o es
<1>1. old \in Seq(Entries) /\ Len(old) \in Nat /\ Len(es) \in Nat  OBVIOUS
<1>2. /\ Len(new) = Len(old) + Len(es)
      /\ \A i \in 1 .. Len(old) + Len(es) : new[i] = IF i <= Len(old) THEN old[i] ELSE es[i - Len(old)]
  BY <1>1, ConcatProperties, Zenon
<1>3. audit' = [audit EXCEPT ![id] = new]  BY DEF Log
<1>4. audit'[id] = new /\ \A x \in Ids : x # id => audit'[x] = audit[x]  BY <1>3
<1> HIDE DEF old, new
<1>5. \A i \in 1 .. Len(old) : i \in 1 .. Len(new) /\ new[i] = old[i]  BY <1>1, <1>2
<1>6. \A i \in 1 .. Len(es) : Len(old) + i \in 1 .. Len(new) /\ new[Len(old) + i] = es[i]
  <2> SUFFICES ASSUME NEW i \in 1 .. Len(es)
               PROVE  Len(old) + i \in 1 .. Len(new) /\ new[Len(old) + i] = es[i]
    OBVIOUS
  <2>1. /\ Len(old) + i \in 1 .. Len(old) + Len(es) /\ ~(Len(old) + i <= Len(old))
        /\ (Len(old) + i) - Len(old) = i
    BY <1>1
  <2> QED  BY <1>2, <2>1
<1>7. ASSUME NEW i \in 1 .. Len(new)
      PROVE  (i \in 1 .. Len(old) /\ new[i] = old[i]) \/ \E j \in 1 .. Len(es) : new[i] = es[j]
  <2>1. CASE i <= Len(old)  BY <1>1, <1>2, <2>1
  <2>2. CASE i > Len(old)
    <3>1. i - Len(old) \in 1 .. Len(es) /\ ~(i <= Len(old))  BY <1>1, <1>2, <2>2
    <3> QED  BY <1>1, <1>2, <2>2, <3>1
  <2> QED  BY <1>1, <2>1, <2>2
<1>8. \A x \in Ids, e \in Entries : x # id => (Logged(x, e)' <=> Logged(x, e))
  BY <1>4 DEF Logged
<1>9. ASSUME NEW e \in Entries
      PROVE  Logged(id, e)' <=> Logged(id, e) \/ \E i \in 1 .. Len(es) : es[i] = e
  <2>1. Logged(id, e)' <=> \E i \in 1 .. Len(new) : new[i] = e  BY <1>4 DEF Logged
  <2>2. Logged(id, e) <=> \E i \in 1 .. Len(old) : old[i] = e  BY DEF Logged, old
  <2> QED  BY <1>5, <1>6, <1>7, <2>1, <2>2
<1>10. \A x \in Ids, e \in Entries : Logged(x, e) => Logged(x, e)'  BY <1>8, <1>9
<1>11. Len(audit'[id]) = Len(old) + Len(es)  BY <1>2, <1>4
<1> QED  BY <1>4, <1>5, <1>6, <1>8, <1>9, <1>10, <1>11 DEF old, new

-----------------------------------------------------------------------------
(* The steps keep LifeInv *)

\* The operator messages admitted after a task depend on the packets and on the
\* gate's decisions alone.
LEMMA RecentKept ==
    ASSUME packetOf' = packetOf,
           \A x \in SensoryIds : Logged(x, "GateDrop")' <=> Logged(x, "GateDrop")
    PROVE  \A id \in SensoryIds : (Recent(id)' <=> Recent(id)) /\ (FromOperator(id)' <=> FromOperator(id))
<1> SUFFICES ASSUME NEW id \in SensoryIds
             PROVE  (Recent(id)' <=> Recent(id)) /\ (FromOperator(id)' <=> FromOperator(id))
  OBVIOUS
<1>1. \A x \in SensoryIds : FromOperator(x)' <=> FromOperator(x)  BY DEF FromOperator
<1>2. AdmittedAfter(id)' = AdmittedAfter(id)  BY <1>1 DEF AdmittedAfter
<1> QED  BY <1>1, <1>2 DEF Recent

\* Steps that neither log, hand out an id, speak, start nor end a task.
LEMMA QuietLife ==
    ASSUME SafeInv, LifeInv,
           UNCHANGED <<inflight, composed, operatorTasks, conversation, audit, packetOf, nextId>>,
           \A id \in Ids : Queued(agenda', id) <=> Queued(agenda, id),
           QueuedOnce(agenda'),
           \A i \in IntentionIds : intentions'[i] = "dispatched" <=> intentions[i] = "dispatched",
           \A i \in dueNow' : intentions'[i] \in {"due", "overdue"},
           pc' = "dispatch" <=> pc = "dispatch"
    PROVE  LifeInv'
<1> USE DEF LifeInv
<1>1. \A x \in Ids, e \in Entries : Logged(x, e)' <=> Logged(x, e)  BY DEF Logged
<1>2. InflightInv' /\ DueInv'  BY DEF InflightInv, DueInv
<1>3. FreshInv'
  <2>1. \A id \in Ids : FreshId(id)' => FreshId(id)  BY DEF FreshId, Ids
  <2> QED  BY <2>1 DEF FreshInv
<1>4. QueuedInv'  BY <1>1 DEF QueuedInv
<1>5. RunningInv'  BY DEF RunningInv, Logged
<1>6. AuditOrder'  BY DEF AuditOrder
<1>7. OperatorTasksPending'
  <2>1. \A id \in operatorTasks : FromOperator(id)' <=> FromOperator(id)  BY DEF FromOperator
  <2>2. \A id \in operatorTasks : id \in Ids => Queued(agenda', id)  BY DEF OperatorTasksPending
  <2>3. \A id \in operatorTasks : id \in Ids  BY IdFacts DEF SafeInv, TypeOK
  <2> QED  BY <2>1, <2>2, <2>3 DEF OperatorTasksPending
<1>8. ConversationInv'
  BY DEF ConversationInv, ConversationFollows, FromOperator, Logged
<1>9. TrackedInv' /\ OperatorHeard'
  <2>1. "GateDrop" \in Entries /\ "Started" \in Entries /\ "Completed" \in Entries  BY DEF Entries
  <2>2. \A id \in SensoryIds : Recent(id)' <=> Recent(id)
    BY <1>1, <2>1, IdFacts, RecentKept
  <2>3. TrackedInv'  BY <2>2, IdFacts DEF TrackedInv
  <2>4. OperatorHeard'
    BY <1>1, <2>1, <2>2, IdFacts DEF OperatorHeard, Recent, Spoken
  <2> QED  BY <2>3, <2>4
<1> QED  BY <1>2, <1>3, <1>4, <1>5, <1>6, <1>7, <1>8, <1>9

\* Console threads, signals, the host, the clock; and of the loop, everything
\* that touches no task.
LEMMA QuietStepsLife ==
    ASSUME SafeInv, LifeInv,
           \/ Environment \/ UNCHANGED vars
           \/ Supervise \/ Top \/ ScanIntentions \/ Sleep
           \/ \E run \in Runs : Restart(run)
    PROVE  LifeInv'
<1> USE DEF LifeInv
<1>1. UNCHANGED <<inflight, composed, operatorTasks, conversation, audit, packetOf, nextId>>
  BY DEF Environment, Submit, RequestShutdown, Tick, vars, loopVars, Supervise, Top,
         ScanIntentions, Sleep, Restart
<1>2. pc' = "dispatch" <=> pc = "dispatch"
  BY DEF Environment, Submit, RequestShutdown, Tick, vars, loopVars, Supervise, Top,
         ScanIntentions, Sleep, Restart
<1>3. (\A id \in Ids : Queued(agenda', id) <=> Queued(agenda, id)) /\ QueuedOnce(agenda')
  <2>1. agenda \in AgendasOf(Ids) /\ QueuedOnce(agenda)
    BY DEF SafeInv, TypeOK, AgendasOf, QueuedInv
  <2>2. agenda' = agenda \/ agenda' = BoostAllToHigh(agenda)
    BY DEF Environment, Submit, RequestShutdown, Tick, vars, loopVars, Supervise, Top,
           ScanIntentions, Sleep, Restart, CheckAndBoost
  <2>3. CASE agenda' = agenda  BY <2>1, <2>3
  <2>4. CASE agenda' = BoostAllToHigh(agenda)  BY <2>1, <2>4, BoostContents
  <2> QED  BY <2>2, <2>3, <2>4
<1>4. /\ \A i \in IntentionIds : intentions'[i] = "dispatched" <=> intentions[i] = "dispatched"
      /\ \A i \in dueNow' : intentions'[i] \in {"due", "overdue"}
  <2>1. CASE UNCHANGED <<intentions, dueNow>>  BY <2>1 DEF DueInv
  <2>2. CASE ScanIntentions  BY <2>2 DEF ScanIntentions
  <2>3. ASSUME NEW i \in IntentionIds, Tick(i)
        PROVE  /\ \A j \in IntentionIds : intentions'[j] = "dispatched" <=> intentions[j] = "dispatched"
               /\ \A j \in dueNow' : intentions'[j] \in {"due", "overdue"}
    <3>1. /\ dueNow' = {} /\ intentions[i] \in {"future", "due"}
          /\ intentions' = [intentions EXCEPT ![i] = IF @ = "future" THEN "due" ELSE "overdue"]
      BY <2>3 DEF Tick
    <3>2. intentions'[i] \in {"due", "overdue"} /\ \A j \in IntentionIds : j # i => intentions'[j] = intentions[j]
      BY <3>1 DEF SafeInv, TypeOK
    <3> QED  BY <3>1, <3>2
  <2> QED
    BY <2>1, <2>2, <2>3
    DEF Environment, Submit, RequestShutdown, vars, loopVars, Supervise, Top, Sleep, Restart
<1> QED  BY <1>1, <1>2, <1>3, <1>4, QuietLife

\* inject_due_intentions pushes an intention it had not pushed before.
LEMMA InjectLife ==
    ASSUME SafeInv, LifeInv, NEW i \in IntentionIds, Inject(i)
    PROVE  LifeInv'
<1> USE DEF LifeInv
<1>1. /\ pc = "inject" /\ i \in dueNow /\ dueNow' = dueNow \ {i}
      /\ intentions' = [intentions EXCEPT ![i] = "dispatched"]
      /\ UNCHANGED <<pc, nextId, operatorTasks, inflight, composed, conversation, audit, packetOf>>
  BY DEF Inject
<1>2. i \in Ids /\ i \notin SensoryIds
  BY BoundsAssumption DEF Ids, IntentionIds, SensoryIds, FirstSensoryId
<1>3. FreshId(i)  BY <1>1, <1>2 DEF FreshId, DueInv
<1>4. audit[i] = <<>> /\ ~Queued(agenda, i) /\ inflight # i  BY <1>2, <1>3 DEF FreshInv
<1>5. /\ \A x \in Ids : Queued(agenda', x) <=> Queued(agenda, x) \/ x = i
      /\ QueuedOnce(agenda')
  <2>1. agenda \in AgendasOf(Ids) /\ QueuedOnce(agenda)
    BY DEF SafeInv, TypeOK, AgendasOf, QueuedInv
  <2>2. PICK level \in Nat : agenda' = Push(agenda, level, i)  BY DEF Inject
  <2> QED  BY <1>2, <1>4, <2>1, <2>2, PushContents
<1>6. \A x \in Ids, e \in Entries : Logged(x, e)' <=> Logged(x, e)  BY <1>1 DEF Logged
<1>7. InflightInv'  BY <1>1 DEF InflightInv
<1>8. intentions'[i] = "dispatched" /\ \A j \in IntentionIds : j # i => intentions'[j] = intentions[j]
  BY <1>1 DEF SafeInv, TypeOK
<1>9. DueInv'  BY <1>1, <1>8 DEF DueInv, SafeInv, TypeOK
<1>10. FreshInv'
  <2>1. \A id \in Ids : FreshId(id)' => FreshId(id) /\ id # i
    BY <1>1, <1>2, <1>8 DEF FreshId, Ids
  <2> QED  BY <1>1, <1>5, <2>1 DEF FreshInv
<1>11. QueuedInv'
  <2>1. \A e \in Entries : ~Logged(i, e)  BY <1>4 DEF Logged
  <2> QED  BY <1>1, <1>2, <1>4, <1>5, <1>6, <2>1 DEF QueuedInv
<1>12. RunningInv'  BY <1>1 DEF RunningInv, Logged
<1>13. AuditOrder'  BY <1>1 DEF AuditOrder
<1>14. OperatorTasksPending'
  <2>1. \A id \in operatorTasks : id \in Ids  BY IdFacts DEF SafeInv, TypeOK
  <2> QED  BY <1>1, <1>5, <2>1 DEF OperatorTasksPending, FromOperator
<1>15. ConversationInv'
  BY <1>1 DEF ConversationInv, ConversationFollows, FromOperator, Logged
<1>16. "GateDrop" \in Entries /\ "Started" \in Entries /\ "Completed" \in Entries  BY DEF Entries
<1>17. \A id \in SensoryIds : Recent(id)' <=> Recent(id)
  BY <1>1, <1>6, <1>16, IdFacts, RecentKept
<1>18. TrackedInv'
  BY <1>1, <1>2, <1>5, <1>17, IdFacts DEF TrackedInv
<1>19. OperatorHeard'
  BY <1>1, <1>6, <1>16, <1>17, IdFacts DEF OperatorHeard, Recent, Spoken
<1> QED  BY <1>5, <1>7, <1>9, <1>10, <1>11, <1>12, <1>13, <1>14, <1>15, <1>18, <1>19

-----------------------------------------------------------------------------

\* Intake hands out a fresh id: what a packet's log and history are afterwards,
\* whichever of the intake entries are written.
LEMMA IngestLife ==
    ASSUME SafeInv, LifeInv, NEW p \in OfferedPackets, Ingest(p), NEW new, new = nextId,
           NEW es \in Seq({"Linked", "GateInvoke", "GateDrop"}), Log(nextId, es), OrderedLog(es)
    PROVE  /\ new \in SensoryIds /\ ~Queued(agenda, new) /\ inflight = NoTask
           /\ \A e \in Entries : Logged(new, e)' <=> \E i \in 1 .. Len(es) : es[i] = e
           /\ \A x \in Ids : x # new => audit'[x] = audit[x]
           /\ \A x \in Ids, e \in Entries : x # new => (Logged(x, e)' <=> Logged(x, e))
           /\ FromOperator(new)' <=> p.origin = "operator"
           /\ \A x \in SensoryIds : x # new => (FromOperator(x)' <=> FromOperator(x))
           /\ \A x \in SensoryIds : x # new /\ Recent(x)' => Recent(x)
           /\ \A x \in Ids : FreshId(x)' => FreshId(x) /\ x # new
           /\ InflightInv' /\ DueInv' /\ RunningInv' /\ AuditOrder' /\ ConversationInv'
           /\ OperatorHeard'
<1> USE DEF LifeInv
<1>1. /\ new \in SensoryIds /\ new \in Ids /\ nextId = new /\ nextId' = new + 1 /\ new \in Nat
      /\ packetOf'[new] = p
      /\ \A id \in SensoryIds : id # new => packetOf'[id] = packetOf[id]
      /\ audit \in [Ids -> Seq(Entries)]
  BY IngestFacts DEF SafeInv, TypeOK
<1>2. /\ pc = "ingest"
      /\ UNCHANGED <<pc, intentions, dueNow, inflight, composed, conversation>>
  BY DEF Ingest
<1>3. inflight = NoTask /\ composed = FALSE
  BY <1>2 DEF InflightInv, SafeInv, TypeOK
<1>4. FreshId(new)  BY <1>1 DEF FreshId
<1>5. audit[new] = <<>> /\ ~Queued(agenda, new) /\ packetOf[new] = NoTask
  BY <1>1, <1>4 DEF FreshInv
<1>6. es \in Seq(Entries)  BY DEF Entries
<1>7. /\ audit'[new] = audit[new] \o es
      /\ \A x \in Ids : x # new => audit'[x] = audit[x]
      /\ \A x \in Ids, e \in Entries : x # new => (Logged(x, e)' <=> Logged(x, e))
      /\ \A e \in Entries : Logged(new, e)' <=> Logged(new, e) \/ \E i \in 1 .. Len(es) : es[i] = e
  BY <1>1, <1>6, LogShape
<1>8. audit'[new] = es  BY <1>5, <1>6, <1>7
<1>9. \A e \in Entries : ~Logged(new, e)  BY <1>5 DEF Logged
<1>10. \A e \in Entries : Logged(new, e)' <=> \E i \in 1 .. Len(es) : es[i] = e
  BY <1>7, <1>9
<1>11. FromOperator(new)' <=> p.origin = "operator"
  <2>1. p # NoTask  BY InputsAssumption, NoTaskAssumption
  <2> QED  BY <1>1, <2>1 DEF FromOperator
<1>12. ~FromOperator(new)  BY <1>5 DEF FromOperator
<1>13. \A x \in SensoryIds : x # new => (FromOperator(x)' <=> FromOperator(x))
  BY <1>1 DEF FromOperator
<1>14. "GateDrop" \in Entries /\ "Started" \in Entries /\ "Completed" \in Entries  BY DEF Entries
<1>15. ASSUME NEW x \in SensoryIds, x # new, Recent(x)' PROVE Recent(x)
  <2>1. AdmittedAfter(x) \subseteq AdmittedAfter(x)'
    BY <1>7, <1>12, <1>13, <1>14, IdFacts DEF AdmittedAfter
  <2>2. IsFiniteSet(SensoryIds) /\ AdmittedAfter(x)' \subseteq SensoryIds
    <3>1. IsFiniteSet(SensoryIds)
      BY FS_Interval, IdFacts, BoundsAssumption DEF SensoryIds
    <3> QED  BY <3>1 DEF AdmittedAfter
  <2>3. IsFiniteSet(AdmittedAfter(x)')  BY <2>2, FS_Subset
  <2> DEFINE A == AdmittedAfter(x)
             B == AdmittedAfter(x)'
  <2>4. Cardinality(B) < MaxTracked /\ FromOperator(x)'  BY <1>15 DEF Recent
  <2> HIDE DEF A, B
  <2>5. A \subseteq B /\ IsFiniteSet(B)  BY <2>1, <2>3 DEF A, B
  <2>6. Cardinality(A) <= Cardinality(B) /\ IsFiniteSet(A)  BY <2>5, FS_Subset
  <2>7. Cardinality(A) \in Nat /\ Cardinality(B) \in Nat  BY <2>5, <2>6, FS_CardinalityType
  <2>8. Cardinality(A) < MaxTracked  BY <2>4, <2>6, <2>7, LimitsAssumption
  <2> QED  BY <1>13, <1>15, <2>4, <2>8 DEF Recent, A
<1>16. \A x \in Ids : FreshId(x)' => FreshId(x) /\ x # new
  BY <1>1, <1>2, IdFacts DEF FreshId
<1>17. InflightInv' /\ DueInv' /\ RunningInv'
  BY <1>2, <1>3 DEF InflightInv, DueInv, RunningInv
<1>18. AuditOrder'
  <2>1. \A id \in Ids : OrderedLog(audit[id])  BY OrderByLog
  <2>2. \A id \in Ids : OrderedLog(audit'[id])  BY <1>7, <1>8, <2>1
  <2> QED  BY <2>2 DEF AuditOrder, OrderedLog
<1>19. ConversationInv'
  <2>1. \A i \in 1 .. Len(conversation) :
          /\ conversation[i][2] \in SensoryIds /\ conversation[i][2] # new
          /\ Logged(conversation[i][2], "Started")'
    <3> SUFFICES ASSUME NEW i \in 1 .. Len(conversation)
                 PROVE  /\ conversation[i][2] \in SensoryIds /\ conversation[i][2] # new
                        /\ Logged(conversation[i][2], "Started")'
      OBVIOUS
    <3> DEFINE id == conversation[i][2]
    <3>1. id \in SensoryIds /\ Logged(id, "Started")  BY DEF ConversationInv, ConversationFollows
    <3>2. id # new  BY <1>9, <1>14, <3>1
    <3>3. id \in Ids /\ audit'[id] = audit[id]  BY <1>7, <3>1, <3>2, IdFacts
    <3> QED  BY <1>2, <3>1, <3>2, <3>3 DEF Logged
  <2>2. ConversationFollows'
    BY <1>2, <1>13, <2>1 DEF ConversationInv, ConversationFollows
  <2> QED  BY <1>2, <1>3, <2>1, <2>2 DEF ConversationInv
<1>20. OperatorHeard'
  <2> SUFFICES ASSUME NEW id \in SensoryIds, Recent(id)'
               PROVE  /\ Logged(id, "Started")' => Spoken("user", id)'
                      /\ Logged(id, "Completed")' => Spoken("reply", id)'
    BY DEF OperatorHeard, Recent
  <2>1. CASE id = new
    <3>1. ~Logged(id, "Started")' /\ ~Logged(id, "Completed")'
      BY <1>10, <1>14, <2>1
    <3> QED  BY <3>1
  <2>2. CASE id # new
    BY <1>2, <1>7, <1>14, <1>15, <2>2, IdFacts DEF OperatorHeard, Recent, Spoken
  <2> QED  BY <2>1, <2>2
<1> QED
  BY <1>1, <1>3, <1>5, <1>7, <1>10, <1>11, <1>13, <1>15, <1>16, <1>17, <1>18, <1>19, <1>20

\* The entries intake may write for one packet.
LEMMA IntakeEntries ==
    ASSUME NEW p, NEW last \in {<<>>, <<"GateInvoke">>, <<"GateDrop">>}
    PROVE  LinkEntry(p) \o last \in {last, <<"Linked">> \o last}
<1>1. last \in Seq(Entries)
  <2>1. <<>> \in Seq(Entries) /\ <<"GateInvoke">> \in Seq(Entries) /\ <<"GateDrop">> \in Seq(Entries)
    BY DEF Entries
  <2> QED  BY <2>1, Zenon
<1>2. <<>> \o last = last  BY <1>1
<1>3. LinkEntry(p) = <<"Linked">> \/ LinkEntry(p) = <<>>  BY Zenon DEF LinkEntry
<1>4. CASE LinkEntry(p) = <<>>  BY <1>2, <1>4
<1>5. CASE LinkEntry(p) = <<"Linked">>  BY <1>5, Zenon
<1> QED  BY <1>3, <1>4, <1>5

\* Two one-element sequences make a pair.
LEMMA PairConcat ==
    ASSUME NEW S, NEW a \in S, NEW b \in S
    PROVE  <<a>> \o <<b>> = <<a, b>>
<1> DEFINE s == <<a>> \o <<b>>
           t == <<a, b>>
<1>1. <<a>> \in Seq(S) /\ <<b>> \in Seq(S) /\ t \in Seq(S)  OBVIOUS
<1>2. s \in Seq(S)  BY <1>1, ConcatProperties, Zenon
<1>3. Len(s) = 2 /\ Len(t) = 2 /\ s[1] = a /\ s[2] = b /\ t[1] = a /\ t[2] = b
  OBVIOUS
<1> HIDE DEF s, t
<1>4. \A i \in 1 .. Len(s) : s[i] = t[i]  BY <1>3
<1>5. s = t  BY <1>1, <1>2, <1>3, <1>4, SeqEqual
<1> QED  BY <1>5 DEF s, t

\* The link entry comes before the gate's decision.
LEMMA LinkedFirst ==
    /\ <<"Linked">> \o <<>> = <<"Linked">>
    /\ <<"Linked">> \o <<"GateInvoke">> = <<"Linked", "GateInvoke">>
    /\ <<"Linked">> \o <<"GateDrop">> = <<"Linked", "GateDrop">>
<1>1. <<"Linked">> \o <<>> = <<"Linked">>
  <2>1. <<"Linked">> \in Seq(Entries)  BY DEF Entries
  <2> QED  BY <2>1, ConcatEmptySeq, Zenon
<1>2. "Linked" \in Entries /\ "GateInvoke" \in Entries /\ "GateDrop" \in Entries  BY DEF Entries
<1> QED  BY <1>1, <1>2, PairConcat, Zenon

\* A packet that becomes a task is queued once, and if it is an operator's it is
\* tracked; what operator_tasks evicts for it has MaxTracked later ones.
LEMMA AdmitLife ==
    ASSUME SafeInv, LifeInv, NEW p \in OfferedPackets, NEW mood \in Moods, Admit(p, mood)
    PROVE  LifeInv'
<1> USE DEF LifeInv
<1> DEFINE es == LinkEntry(p) \o (IF Gated(p) THEN <<"GateInvoke">> ELSE <<>>)
<1>1. PICK new : new = nextId  OBVIOUS
<1>2. /\ Ingest(p) /\ Log(nextId, es) /\ agenda' = Push(agenda, TierFor(p.priority), new)
      /\ operatorTasks' = IF p.origin = "operator" THEN Track(operatorTasks, new) ELSE operatorTasks
      /\ UNCHANGED <<inflight, composed>>
  BY <1>1 DEF Admit, Ingest
<1>3. es \in {<<>>, <<"Linked">>, <<"GateInvoke">>, <<"Linked", "GateInvoke">>}
  <2>1. CASE Gated(p)
    <3>1. es = LinkEntry(p) \o <<"GateInvoke">>  BY <2>1, Zenon
    <3> HIDE DEF es
    <3> QED  BY <3>1, IntakeEntries, LinkedFirst
  <2>2. CASE ~Gated(p)
    <3>1. es = LinkEntry(p) \o <<>>  BY <2>2, Zenon
    <3> HIDE DEF es
    <3> QED  BY <3>1, IntakeEntries, LinkedFirst
  <2> QED  BY <2>1, <2>2
<1> HIDE DEF es
<1>4. es \in Seq({"Linked", "GateInvoke"})
  <2>1. /\ <<>> \in Seq({"Linked", "GateInvoke"}) /\ <<"Linked">> \in Seq({"Linked", "GateInvoke"})
        /\ <<"GateInvoke">> \in Seq({"Linked", "GateInvoke"})
        /\ <<"Linked", "GateInvoke">> \in Seq({"Linked", "GateInvoke"})
    OBVIOUS
  <2> QED  BY <1>3, <2>1, Zenon
<1>5. es \in Seq({"Linked", "GateInvoke", "GateDrop"})  BY <1>4
<1>6. OrderedLog(es)  BY <1>3, IntakeLogs
<1>7. /\ new \in SensoryIds /\ ~Queued(agenda, new) /\ inflight = NoTask
      /\ \A e \in Entries : Logged(new, e)' <=> \E i \in 1 .. Len(es) : es[i] = e
      /\ \A x \in Ids : x # new => audit'[x] = audit[x]
      /\ \A x \in Ids, e \in Entries : x # new => (Logged(x, e)' <=> Logged(x, e))
      /\ FromOperator(new)' <=> p.origin = "operator"
      /\ \A x \in SensoryIds : x # new => (FromOperator(x)' <=> FromOperator(x))
      /\ \A x \in SensoryIds : x # new /\ Recent(x)' => Recent(x)
      /\ \A x \in Ids : FreshId(x)' => FreshId(x) /\ x # new
      /\ InflightInv' /\ DueInv' /\ RunningInv' /\ AuditOrder' /\ ConversationInv'
      /\ OperatorHeard'
  BY <1>1, <1>2, <1>5, <1>6, IngestLife
<1>8. new \in Ids /\ new \in Nat  BY <1>7, IdFacts
<1>9. /\ \A x \in Ids : Queued(agenda', x) <=> Queued(agenda, x) \/ x = new
      /\ QueuedOnce(agenda')
  <2>1. agenda \in AgendasOf(Ids) /\ QueuedOnce(agenda)
    BY DEF SafeInv, TypeOK, AgendasOf, QueuedInv
  <2>2. TierFor(p.priority) \in Nat  BY DEF TierFor
  <2> QED  BY <1>2, <1>7, <1>8, <2>1, <2>2, PushContents
<1>10. \A e \in Entries : Logged(new, e)' => e \in {"Linked", "GateInvoke"}
  BY <1>4, <1>7
<1>11. FreshInv'
  <2> SUFFICES ASSUME NEW id \in Ids, FreshId(id)'
               PROVE  /\ audit'[id] = <<>> /\ ~Queued(agenda', id) /\ inflight' # id
                      /\ id \in SensoryIds => packetOf'[id] = NoTask
    BY DEF FreshInv
  <2>1. FreshId(id) /\ id # new  BY <1>7
  <2>2. id \in SensoryIds => packetOf'[id] = packetOf[id]  BY <1>1, <1>2, <2>1, IngestFacts
  <2> QED  BY <1>2, <1>7, <1>9, <2>1, <2>2 DEF FreshInv
<1>12. QueuedInv'
  <2> SUFFICES ASSUME NEW id \in Ids, Queued(agenda', id)
               PROVE  /\ inflight' # id
                      /\ \A e \in Entries : Logged(id, e)' => e \in {"Linked", "GateInvoke"}
    BY <1>9 DEF QueuedInv
  <2>1. inflight' # id  BY <1>2, <1>7, IdFacts
  <2>2. CASE id = new  BY <1>10, <2>1, <2>2
  <2>3. CASE id # new  BY <1>7, <1>9, <2>1, <2>3 DEF QueuedInv
  <2> QED  BY <2>2, <2>3
<1>13. \A id \in operatorTasks : id \in SensoryIds /\ id \in Ids /\ id # new
  BY <1>7, IdFacts DEF SafeInv, TypeOK, OperatorTasksPending
<1>14. OperatorTasksPending'
  <2> SUFFICES ASSUME NEW id \in operatorTasks' PROVE Queued(agenda', id) /\ FromOperator(id)'
    BY DEF OperatorTasksPending
  <2>1. id \in operatorTasks \/ (id = new /\ p.origin = "operator")  BY <1>2 DEF Track
  <2>2. CASE id = new /\ p.origin = "operator"  BY <1>7, <1>8, <1>9, <2>2
  <2>3. CASE id \in operatorTasks  BY <1>7, <1>9, <1>13, <2>3 DEF OperatorTasksPending
  <2> QED  BY <2>1, <2>2, <2>3
<1>15. TrackedInv'
  <2> SUFFICES ASSUME NEW id \in SensoryIds, Recent(id)'
               PROVE  (Queued(agenda', id) => id \in operatorTasks') /\ inflight' # id
    BY DEF TrackedInv
  <2>1. inflight' # id  BY <1>2, <1>7, IdFacts
  <2>2. CASE id = new
    <3>1. p.origin = "operator"  BY <1>7, <2>2 DEF Recent
    <3> QED  BY <1>2, <2>1, <2>2, <3>1 DEF Track
  <2>3. CASE id # new /\ Queued(agenda', id)
    <3>1. id \in Ids /\ id \in Nat /\ Queued(agenda, id)  BY <1>9, <2>3, IdFacts
    <3>2. id \in operatorTasks  BY <1>7, <2>3, <3>1 DEF TrackedInv
    <3>3. CASE p.origin # "operator"  BY <1>2, <2>1, <3>2, <3>3
    <3>4. CASE p.origin = "operator" /\ ~(Cardinality(operatorTasks) >= MaxTracked)
      BY <1>2, <2>1, <3>2, <3>4 DEF Track
    <3>5. CASE p.origin = "operator" /\ Cardinality(operatorTasks) >= MaxTracked
      <4>1. operatorTasks' = {x \in operatorTasks : \E y \in operatorTasks : y < x} \cup {new}
        BY <1>2, <3>5 DEF Track
      <4>2. SUFFICES ASSUME \A y \in operatorTasks : ~(y < id) PROVE FALSE
        BY <2>1, <3>2, <4>1
      <4> DEFINE later == (operatorTasks \ {id}) \cup {new}
                 after == AdmittedAfter(id)'
      <4>3. later \subseteq after
        <5>1. "GateDrop" \in Entries  BY DEF Entries
        <5>2. ASSUME NEW y \in operatorTasks, y # id PROVE y \in after
          <6>1. y \in SensoryIds /\ y \in Ids /\ y # new /\ y \in Nat  BY <1>13, IdFacts
          <6>2. y > id  BY <3>1, <4>2, <5>2, <6>1
          <6>3. FromOperator(y)'  BY <1>7, <6>1 DEF OperatorTasksPending
          <6>4. ~Logged(y, "GateDrop")
            BY <5>1, <6>1 DEF OperatorTasksPending, QueuedInv
          <6>5. ~Logged(y, "GateDrop")'  BY <1>7, <5>1, <6>1, <6>4
          <6> QED  BY <6>1, <6>2, <6>3, <6>5 DEF AdmittedAfter
        <5>3. new \in after
          <6>1. id < new
            <7>1. ~FreshId(id)  BY <3>1 DEF FreshInv
            <7> QED  BY <1>1, <1>8, <3>1, <7>1 DEF FreshId
          <6>2. new > id  BY <1>8, <3>1, <6>1
          <6>3. ~Logged(new, "GateDrop")'  BY <1>10, <5>1
          <6>4. FromOperator(new)'  BY <1>7, <3>5
          <6> QED  BY <1>7, <6>2, <6>3, <6>4 DEF AdmittedAfter
        <5> QED  BY <5>2, <5>3
      <4>4. IsFiniteSet(SensoryIds)  BY FS_Interval, IdFacts, BoundsAssumption DEF SensoryIds
      <4>5. IsFiniteSet(operatorTasks)  BY <4>4, FS_Subset DEF SafeInv, TypeOK
      <4>6. IsFiniteSet(after)
        <5>1. after \subseteq SensoryIds  BY DEF AdmittedAfter
        <5> QED  BY <4>4, <5>1, FS_Subset
      <4>7. Cardinality(after) < MaxTracked  BY DEF Recent
      <4>8. /\ IsFiniteSet(operatorTasks \ {id})
            /\ Cardinality(operatorTasks \ {id}) = Cardinality(operatorTasks) - 1
        BY <3>2, <4>5, FS_RemoveElement
      <4>9. Cardinality(later) = Cardinality(operatorTasks \ {id}) + 1
        <5>1. new \notin operatorTasks \ {id}  BY <1>13
        <5> QED  BY <4>8, <5>1, FS_AddElement
      <4> HIDE DEF later, after
      <4>10. Cardinality(later) <= Cardinality(after)  BY <4>3, <4>6, FS_Subset
      <4>11. /\ Cardinality(operatorTasks) \in Nat /\ Cardinality(after) \in Nat
             /\ MaxTracked \in Nat
        BY <4>5, <4>6, FS_CardinalityType, LimitsAssumption
      <4> QED  BY <3>5, <4>7, <4>8, <4>9, <4>10, <4>11
    <3> QED  BY <3>3, <3>4, <3>5
  <2> QED  BY <2>1, <2>2, <2>3
<1> QED  BY <1>7, <1>9, <1>11, <1>12, <1>14, <1>15

\* A declined packet leaves its log and nothing else.
LEMMA DeclineLife ==
    ASSUME SafeInv, LifeInv, NEW p \in OfferedPackets, NEW mood \in Moods, Decline(p, mood)
    PROVE  LifeInv'
<1> USE DEF LifeInv
<1> DEFINE es == LinkEntry(p) \o <<"GateDrop">>
<1>1. PICK new : new = nextId  OBVIOUS
<1>2. /\ Ingest(p) /\ Log(nextId, es) /\ UNCHANGED <<agenda, operatorTasks, inflight, composed>>
  BY DEF Decline, Ingest
<1>3. es \in {<<"GateDrop">>, <<"Linked", "GateDrop">>}
  BY IntakeEntries, LinkedFirst
<1> HIDE DEF es
<1>4. es \in Seq({"Linked", "GateInvoke", "GateDrop"})
  <2>1. /\ <<"GateDrop">> \in Seq({"Linked", "GateInvoke", "GateDrop"})
        /\ <<"Linked", "GateDrop">> \in Seq({"Linked", "GateInvoke", "GateDrop"})
    OBVIOUS
  <2> QED  BY <1>3, <2>1, Zenon
<1>5. OrderedLog(es)  BY <1>3, IntakeLogs
<1>6. /\ new \in SensoryIds /\ ~Queued(agenda, new) /\ inflight = NoTask
      /\ \A x \in Ids : x # new => audit'[x] = audit[x]
      /\ \A x \in Ids, e \in Entries : x # new => (Logged(x, e)' <=> Logged(x, e))
      /\ \A x \in SensoryIds : x # new => (FromOperator(x)' <=> FromOperator(x))
      /\ \A x \in SensoryIds : x # new /\ Recent(x)' => Recent(x)
      /\ \A x \in Ids : FreshId(x)' => FreshId(x) /\ x # new
      /\ InflightInv' /\ DueInv' /\ RunningInv' /\ AuditOrder' /\ ConversationInv'
      /\ OperatorHeard'
  BY <1>1, <1>2, <1>4, <1>5, IngestLife
<1>7. FreshInv'
  <2> SUFFICES ASSUME NEW id \in Ids, FreshId(id)'
               PROVE  /\ audit'[id] = <<>> /\ ~Queued(agenda', id) /\ inflight' # id
                      /\ id \in SensoryIds => packetOf'[id] = NoTask
    BY DEF FreshInv
  <2>1. FreshId(id) /\ id # new  BY <1>6
  <2>2. id \in SensoryIds => packetOf'[id] = packetOf[id]  BY <1>1, <1>2, <2>1, IngestFacts
  <2> QED  BY <1>2, <1>6, <2>1, <2>2 DEF FreshInv
<1>8. QueuedInv'
  <2> SUFFICES ASSUME NEW id \in Ids, Queued(agenda', id)
               PROVE  /\ inflight' # id
                      /\ \A e \in Entries : Logged(id, e)' => e \in {"Linked", "GateInvoke"}
    BY <1>2 DEF QueuedInv
  <2>1. id # new  BY <1>2, <1>6
  <2> QED  BY <1>2, <1>6, <2>1 DEF QueuedInv
<1>9. OperatorTasksPending'
  <2> SUFFICES ASSUME NEW id \in operatorTasks PROVE Queued(agenda', id) /\ FromOperator(id)'
    BY <1>2 DEF OperatorTasksPending
  <2>1. id \in SensoryIds /\ id # new  BY <1>6 DEF SafeInv, TypeOK, OperatorTasksPending
  <2> QED  BY <1>2, <1>6, <2>1 DEF OperatorTasksPending
<1>10. TrackedInv'
  <2> SUFFICES ASSUME NEW id \in SensoryIds, Recent(id)'
               PROVE  (Queued(agenda', id) => id \in operatorTasks') /\ inflight' # id
    BY DEF TrackedInv
  <2>1. inflight' # id  BY <1>2, <1>6, IdFacts
  <2>2. CASE id = new  BY <1>2, <1>6, <2>1, <2>2
  <2>3. CASE id # new  BY <1>2, <1>6, <2>1, <2>3 DEF TrackedInv
  <2> QED  BY <2>2, <2>3
<1> QED  BY <1>6, <1>7, <1>8, <1>9, <1>10

\* ConversationFollows of a transcript c whose operator messages have the ids in S.
DialogueOf(c, S) ==
    \A i \in 1 .. Len(c) :
        /\ c[i][2] \in S
        /\ c[i][1] = "user" => \A j \in 1 .. i - 1 : c[j][2] # c[i][2]
        /\ c[i][1] = "reply" => i > 1 /\ c[i - 1] = <<"user", c[i][2]>>
        /\ c[i][1] = "question" => i > 1 /\ c[i - 1] = <<"reply", c[i][2]>>

OperatorIds == {x \in SensoryIds : FromOperator(x)}

\* DialogueOf is ConversationFollows.
LEMMA DialogueByTurn == ConversationFollows <=> DialogueOf(conversation, OperatorIds)
<1> DEFINE c == conversation
<1>1. \A x : x \in OperatorIds <=> x \in SensoryIds /\ FromOperator(x)  BY DEF OperatorIds
<1> HIDE DEF OperatorIds
<1>2. ConversationFollows <=>
        \A i \in 1 .. Len(c) :
            /\ c[i][2] \in SensoryIds /\ FromOperator(c[i][2])
            /\ c[i][1] = "user" => \A j \in 1 .. i - 1 : c[j][2] # c[i][2]
            /\ c[i][1] = "reply" => i > 1 /\ c[i - 1] = <<"user", c[i][2]>>
            /\ c[i][1] = "question" => i > 1 /\ c[i - 1] = <<"reply", c[i][2]>>
  BY DEF ConversationFollows
<1> QED  BY <1>1, <1>2 DEF DialogueOf

\* The turn <<role, x>> may come after c.
MayFollow(c, role, x) ==
    /\ role = "user" => \A j \in 1 .. Len(c) : c[j][2] # x
    /\ role = "reply" => Len(c) > 0 /\ c[Len(c)] = <<"user", x>>
    /\ role = "question" => Len(c) > 0 /\ c[Len(c)] = <<"reply", x>>

\* d is the dialogue c and one more turn.
Continued(c, d, turn, S) ==
    /\ DialogueOf(d, S) /\ d \in Seq(Roles \X Ids)
    /\ Len(c) \in Nat /\ Len(d) = Len(c) + 1 /\ d[Len(c) + 1] = turn
    /\ \A i \in 1 .. Len(c) : d[i] = c[i]

\* A turn that opens with a message not heard before, or that answers or doubts
\* the last turn, keeps the transcript a dialogue.
LEMMA DialogueAppend ==
    ASSUME NEW S, NEW c \in Seq(Roles \X Ids), DialogueOf(c, S),
           NEW role \in Roles, NEW x \in S, x \in Ids, MayFollow(c, role, x)
    PROVE  Continued(c, Append(c, <<role, x>>), <<role, x>>, S)
<1> DEFINE d == Append(c, <<role, x>>)
           n == Len(c)
<1>1. <<role, x>> \in Roles \X Ids  OBVIOUS
<1>2. /\ n \in Nat /\ d \in Seq(Roles \X Ids) /\ Len(d) = n + 1 /\ d[n + 1] = <<role, x>>
      /\ \A i \in 1 .. n : d[i] = c[i]
  BY <1>1, AppendProperties, LenProperties
<1>3. <<role, x>>[1] = role /\ <<role, x>>[2] = x  OBVIOUS
<1>4. \A i \in 1 .. n :
        /\ c[i][2] \in S
        /\ c[i][1] = "user" => \A j \in 1 .. i - 1 : c[j][2] # c[i][2]
        /\ c[i][1] = "reply" => i > 1 /\ c[i - 1] = <<"user", c[i][2]>>
        /\ c[i][1] = "question" => i > 1 /\ c[i - 1] = <<"reply", c[i][2]>>
  BY DEF DialogueOf
<1>5. /\ role = "user" => \A j \in 1 .. n : c[j][2] # x
      /\ role = "reply" => n > 0 /\ c[n] = <<"user", x>>
      /\ role = "question" => n > 0 /\ c[n] = <<"reply", x>>
  BY DEF MayFollow
<1> HIDE DEF d, n
<1>6. ASSUME NEW i \in 1 .. Len(d)
      PROVE  /\ d[i][2] \in S
             /\ d[i][1] = "user" => \A j \in 1 .. i - 1 : d[j][2] # d[i][2]
             /\ d[i][1] = "reply" => i > 1 /\ d[i - 1] = <<"user", d[i][2]>>
             /\ d[i][1] = "question" => i > 1 /\ d[i - 1] = <<"reply", d[i][2]>>
  <2>1. CASE i = n + 1
    <3>1. d[i][1] = role /\ d[i][2] = x  BY <1>2, <1>3, <2>1
    <3>2. \A j \in 1 .. i - 1 : j \in 1 .. n /\ d[j] = c[j]  BY <1>2, <2>1
    <3>3. n > 0 => i > 1 /\ d[i - 1] = c[n]  BY <1>2, <2>1
    <3> QED  BY <1>5, <3>1, <3>2, <3>3
  <2>2. CASE i # n + 1
    <3>1. i \in 1 .. n /\ d[i] = c[i]  BY <1>2, <2>2
    <3>2. \A j \in 1 .. i - 1 : d[j] = c[j]  BY <1>2, <3>1
    <3>3. i > 1 => d[i - 1] = c[i - 1]  BY <1>2, <3>1
    <3> QED  BY <1>4, <3>1, <3>2, <3>3
  <2> QED  BY <2>1, <2>2
<1>7. DialogueOf(d, S)  BY <1>6 DEF DialogueOf
<1> QED  BY <1>2, <1>7 DEF Continued, d, n

\* A dispatch begins: the task leaves the agenda for good, and an operator's task
\* opens a turn of the conversation that no turn was for before.
LEMMA BeginLife ==
    ASSUME SafeInv, LifeInv, NEW t \in Tiers, Begin(t)
    PROVE  LifeInv'
<1> USE DEF LifeInv
<1>1. PICK id : id = Head(agenda[t])  OBVIOUS
<1>2. /\ pc = "inject" /\ dueNow = {} /\ IsTop(agenda, t) /\ agenda' = PopTier(agenda, t)
      /\ inflight' = id /\ Log(id, <<"Started", "Routed">>) /\ composed' = (id \in operatorTasks)
      /\ operatorTasks' = operatorTasks \ {id} /\ pc' = "dispatch"
      /\ UNCHANGED <<intentions, dueNow, nextId, packetOf>>
  BY <1>1 DEF Begin, TakeOperatorTask, Log
<1>3. conversation' = IF id \in operatorTasks THEN Append(conversation, <<"user", id>>) ELSE conversation
  BY <1>2 DEF Begin
<1>4. inflight = NoTask /\ composed = FALSE
  BY <1>2 DEF InflightInv, SafeInv, TypeOK
<1>5. /\ id \in Ids /\ Queued(agenda, id) /\ QueuedOnce(agenda') /\ ~Queued(agenda', id)
      /\ \A x \in Ids : x # id => (Queued(agenda', x) <=> Queued(agenda, x))
  <2>1. agenda \in AgendasOf(Ids) /\ QueuedOnce(agenda)
    BY DEF SafeInv, TypeOK, AgendasOf, QueuedInv
  <2> QED  BY <1>1, <1>2, <2>1, PopContents
<1>6. \A e \in Entries : Logged(id, e) => e \in {"Linked", "GateInvoke"}
  BY <1>5 DEF QueuedInv
<1>7. /\ audit \in [Ids -> Seq(Entries)] /\ audit[id] \in Seq(Entries)
      /\ <<"Started", "Routed">> \in Seq(Entries)
  BY <1>5 DEF SafeInv, TypeOK, Entries
<1>8. /\ audit'[id] = audit[id] \o <<"Started", "Routed">>
      /\ Len(audit'[id]) = Len(audit[id]) + 2
      /\ audit'[id][Len(audit[id]) + 2] = "Routed"
      /\ \A x \in Ids : x # id => audit'[x] = audit[x]
      /\ \A x \in Ids, e \in Entries : Logged(x, e) => Logged(x, e)'
      /\ \A x \in Ids, e \in Entries : x # id => (Logged(x, e)' <=> Logged(x, e))
      /\ \A e \in Entries : Logged(id, e)' <=> Logged(id, e) \/ e \in {"Started", "Routed"}
  <2> DEFINE es == <<"Started", "Routed">>
  <2>1. Len(es) = 2 /\ es[1] = "Started" /\ es[2] = "Routed"  OBVIOUS
  <2>2. Log(id, es) /\ es \in Seq(Entries)  BY <1>2, <1>7
  <2> HIDE DEF es
  <2>3. /\ audit'[id] = audit[id] \o es /\ Len(audit'[id]) = Len(audit[id]) + Len(es)
        /\ \A i \in 1 .. Len(es) : audit'[id][Len(audit[id]) + i] = es[i]
        /\ \A x \in Ids : x # id => audit'[x] = audit[x]
        /\ \A x \in Ids, e \in Entries : Logged(x, e) => Logged(x, e)'
        /\ \A x \in Ids, e \in Entries : x # id => (Logged(x, e)' <=> Logged(x, e))
        /\ \A e \in Entries : Logged(id, e)' <=> Logged(id, e) \/ \E i \in 1 .. Len(es) : es[i] = e
    BY <1>5, <1>7, <2>2, LogShape
  <2>4. audit'[id] = audit[id] \o <<"Started", "Routed">>  BY <2>3 DEF es
  <2> QED  BY <2>1, <2>3, <2>4
<1>9. /\ "GateDrop" \in Entries /\ "Started" \in Entries /\ "Completed" \in Entries
      /\ \A x \in Ids : Logged(x, "GateDrop")' <=> Logged(x, "GateDrop")
      /\ \A x \in Ids : Logged(x, "Completed")' <=> Logged(x, "Completed")
  <2>1. "GateDrop" \in Entries /\ "Started" \in Entries /\ "Completed" \in Entries  BY DEF Entries
  <2> QED  BY <1>8, <2>1
<1>10. InflightInv' /\ DueInv'
  BY <1>2, <1>5, IdFacts DEF InflightInv, DueInv
<1>11. FreshInv'
  <2>1. \A x \in Ids : FreshId(x)' => FreshId(x)  BY <1>2 DEF FreshId
  <2>2. ~FreshId(id)  BY <1>5 DEF FreshInv
  <2> QED  BY <1>2, <1>5, <1>8, <2>1, <2>2 DEF FreshInv
<1>12. QueuedInv'
  <2> SUFFICES ASSUME NEW x \in Ids, Queued(agenda', x)
               PROVE  /\ inflight' # x
                      /\ \A e \in Entries : Logged(x, e)' => e \in {"Linked", "GateInvoke"}
    BY <1>5 DEF QueuedInv
  <2>1. x # id /\ Queued(agenda, x)  BY <1>5
  <2> QED  BY <1>2, <1>8, <2>1 DEF QueuedInv
<1>13. RunningInv'
  <2>1. Len(audit[id]) \in Nat  BY <1>7
  <2>2. Len(audit'[id]) > 0 /\ audit'[id][Len(audit'[id])] = "Routed"  BY <1>8, <2>1
  <2>3. \A e \in Entries : Logged(id, e)' => e \in {"Linked", "GateInvoke", "Started", "Routed"}
    BY <1>6, <1>8
  <2>4. Logged(id, "Started")'  BY <1>8, <1>9
  <2> QED  BY <1>2, <2>2, <2>3, <2>4 DEF RunningInv, Logged
<1>14. AuditOrder'
  <2>1. \A x \in Ids : OrderedLog(audit[x])  BY OrderByLog
  <2>2. \A i \in 1 .. Len(audit[id]) : audit[id][i] \in {"Linked", "GateInvoke"}
    BY <1>6, <1>7 DEF Logged
  <2>3. OrderedLog(audit'[id])  BY <1>5, <1>7, <1>8, <2>1, <2>2, StartedLog
  <2>4. \A x \in Ids : OrderedLog(audit'[x])  BY <1>8, <2>1, <2>3
  <2> QED  BY <2>4 DEF AuditOrder, OrderedLog
<1>15. OperatorTasksPending'
  <2> SUFFICES ASSUME NEW x \in operatorTasks, x # id PROVE Queued(agenda', x) /\ FromOperator(x)'
    BY <1>2 DEF OperatorTasksPending
  <2>1. x \in Ids  BY IdFacts DEF SafeInv, TypeOK
  <2> QED  BY <1>2, <1>5, <2>1 DEF OperatorTasksPending, FromOperator
<1>16. ASSUME id \in operatorTasks
       PROVE  /\ conversation' = Append(conversation, <<"user", id>>)
              /\ Len(conversation') = Len(conversation) + 1 /\ Len(conversation) \in Nat
              /\ conversation'[Len(conversation) + 1] = <<"user", id>>
              /\ \A i \in 1 .. Len(conversation) : conversation'[i] = conversation[i]
  <2>1. conversation \in Seq(Roles \X Ids)  BY DEF SafeInv, TypeOK
  <2>2. <<"user", id>> \in Roles \X Ids  BY <1>5 DEF Roles
  <2>3. conversation' = Append(conversation, <<"user", id>>)  BY <1>3, <1>16
  <2> QED  BY <2>1, <2>2, <2>3, AppendProperties, LenProperties
<1>17. ConversationInv'
  <2>1. \A i \in 1 .. Len(conversation) :
          /\ conversation[i][2] \in SensoryIds /\ conversation[i][2] # id
          /\ Logged(conversation[i][2], "Started")
    BY <1>6, <1>9 DEF ConversationInv, ConversationFollows
  <2>2. OperatorIds' = OperatorIds  BY <1>2 DEF OperatorIds, FromOperator
  <2>3. DialogueOf(conversation, OperatorIds)  BY DialogueByTurn DEF ConversationInv
  <2>4. \A i \in 1 .. Len(conversation) :
          \E j \in 1 .. Len(audit'[conversation[i][2]]) : audit'[conversation[i][2]][j] = "Started"
    <3>1. \A x \in Ids : Logged(x, "Started") => \E j \in 1 .. Len(audit'[x]) : audit'[x][j] = "Started"
      BY <1>8, <1>9 DEF Logged
    <3> QED  BY <2>1, <3>1, IdFacts, Zenon
  <2>5. \E j \in 1 .. Len(audit'[id]) : audit'[id][j] = "Started"
    BY <1>8, <1>9 DEF Logged
  <2>6. CASE id \notin operatorTasks
    <3>1. conversation' = conversation  BY <1>3, <2>6
    <3>2. ~composed'  BY <1>2, <2>6, Zenon
    <3>3. ConversationFollows'
      <4>1. DialogueOf(conversation, OperatorIds)'  BY <2>2, <2>3, <3>1
      <4> QED  BY <4>1, DialogueByTurn, PTL
    <3> QED  BY <2>4, <3>1, <3>2, <3>3 DEF ConversationInv, Logged
  <2>7. CASE id \in operatorTasks
    <3>1. id \in SensoryIds /\ FromOperator(id)  BY <2>7 DEF SafeInv, TypeOK, OperatorTasksPending
    <3>2. id \in OperatorIds /\ "user" \in Roles  BY <3>1 DEF OperatorIds, Roles
    <3>3. conversation \in Seq(Roles \X Ids)  BY DEF SafeInv, TypeOK
    <3>4. conversation' = Append(conversation, <<"user", id>>)  BY <1>16, <2>7
    <3>5. DialogueOf(conversation', OperatorIds)
      <4>1. MayFollow(conversation, "user", id)  BY <2>1 DEF MayFollow
      <4>2. Continued(conversation, conversation', <<"user", id>>, OperatorIds)
        BY <1>5, <2>3, <3>2, <3>3, <3>4, <4>1, DialogueAppend
      <4> QED  BY <4>2 DEF Continued
    <3>6. ConversationFollows'
      <4>1. DialogueOf(conversation, OperatorIds)'  BY <2>2, <3>5
      <4> QED  BY <4>1, DialogueByTurn, PTL
    <3> DEFINE n == Len(conversation)
               m == Len(conversation')
    <3>7. /\ n \in Nat /\ m = n + 1 /\ conversation'[m] = <<"user", id>>
          /\ \A i \in 1 .. n : conversation'[i] = conversation[i]
      BY <1>16, <2>7
    <3> HIDE DEF n, m
    <3>8. ASSUME NEW i \in 1 .. m
          PROVE  \E j \in 1 .. Len(audit'[conversation'[i][2]]) : audit'[conversation'[i][2]][j] = "Started"
      <4>1. CASE i = m  BY <2>5, <3>7, <4>1
      <4>2. CASE i # m
        <5>1. i \in 1 .. n  BY <3>7, <4>2
        <5> QED  BY <2>4, <3>7, <5>1 DEF n
      <4> QED  BY <4>1, <4>2
    <3>9. m > 0  BY <3>7
    <3> QED  BY <1>2, <3>6, <3>7, <3>8, <3>9 DEF ConversationInv, Logged, m
  <2> QED  BY <2>6, <2>7
<1>18. \A x \in SensoryIds : Recent(x)' <=> Recent(x)
  BY <1>2, <1>9, IdFacts, RecentKept
<1>19. TrackedInv'
  <2> SUFFICES ASSUME NEW x \in SensoryIds, Recent(x)
               PROVE  /\ Queued(agenda', x) => x \in operatorTasks'
                      /\ inflight' = x => composed'
    BY <1>18 DEF TrackedInv
  <2>1. x \in Ids  BY IdFacts
  <2>2. CASE x = id  BY <1>2, <1>5, <2>2 DEF TrackedInv
  <2>3. CASE x # id  BY <1>2, <1>5, <2>1, <2>3 DEF TrackedInv
  <2> QED  BY <2>2, <2>3
<1>20. OperatorHeard'
  <2> SUFFICES ASSUME NEW x \in SensoryIds, Recent(x)
               PROVE  /\ Logged(x, "Started")' => Spoken("user", x)'
                      /\ Logged(x, "Completed")' => Spoken("reply", x)'
    BY <1>18 DEF OperatorHeard, Recent
  <2>1. x \in Ids  BY IdFacts
  <2>2. \A role \in Roles : Spoken(role, x) => Spoken(role, x)'
    <3>1. CASE id \in operatorTasks
      <4>1. \A i \in 1 .. Len(conversation) : i \in 1 .. Len(conversation') /\ conversation'[i] = conversation[i]
        BY <1>16, <3>1
      <4> QED  BY <4>1 DEF Spoken
    <3>2. CASE id \notin operatorTasks  BY <1>3, <3>2 DEF Spoken
    <3> QED  BY <3>1, <3>2
  <2>3. CASE x = id
    <3>1. id \in operatorTasks  BY <1>5, <2>3 DEF TrackedInv
    <3>2. Spoken("user", id)'
      <4>1. Len(conversation) + 1 \in 1 .. Len(conversation')  BY <1>16, <3>1
      <4> QED  BY <1>16, <3>1, <4>1 DEF Spoken
    <3>3. ~Logged(id, "Completed")'  BY <1>5, <1>6, <1>9
    <3> QED  BY <2>3, <3>2, <3>3
  <2>4. CASE x # id
    BY <1>8, <1>9, <2>1, <2>2, <2>4 DEF OperatorHeard, Recent, Roles
  <2> QED  BY <2>3, <2>4
<1> QED
  BY <1>5, <1>10, <1>11, <1>12, <1>13, <1>14, <1>15, <1>17, <1>19, <1>20

\* What every end of a dispatch keeps, given what it logs and says.
LEMMA EndLife ==
    ASSUME SafeInv, LifeInv, EndDispatch, pc' \in {"top", "crashed"},
           NEW id, id = inflight,
           \A x \in Ids : x # id => audit'[x] = audit[x],
           OrderedLog(audit'[id]),
           \A e \in Entries : Logged(id, e) => Logged(id, e)',
           \A e \in Entries : Logged(id, e)' => Logged(id, e) \/ e \in {"Completed", "Failed", "HelpRequested"},
           DialogueOf(conversation', OperatorIds),
           \A i \in 1 .. Len(conversation) :
              i \in 1 .. Len(conversation') /\ conversation'[i] = conversation[i],
           \A i \in 1 .. Len(conversation') :
              \/ conversation'[i][2] = id
              \/ \E j \in 1 .. Len(conversation) : conversation'[i][2] = conversation[j][2],
           Logged(id, "Completed")' /\ composed =>
              \E i \in 1 .. Len(conversation') : conversation'[i] = <<"reply", id>>
    PROVE  LifeInv'
<1> USE DEF LifeInv
<1>1. /\ pc = "dispatch" /\ pc' # "dispatch" /\ inflight' = NoTask /\ ~composed'
      /\ UNCHANGED <<agenda, intentions, dueNow, nextId, operatorTasks, packetOf>>
  BY DEF EndDispatch
<1>2. id \in Ids /\ id # NoTask
  BY <1>1, IdFacts DEF InflightInv, SafeInv, TypeOK
<1>3. \A x \in Ids, e \in Entries : Logged(x, e) => Logged(x, e)'
  <2>1. \A x \in Ids, e \in Entries : x # id => (Logged(x, e)' <=> Logged(x, e))  BY DEF Logged
  <2> QED  BY <2>1
<1>4. \A x \in Ids, e \in Entries : x # id => (Logged(x, e)' <=> Logged(x, e))  BY DEF Logged
<1>5. /\ "GateDrop" \in Entries /\ "Started" \in Entries /\ "Completed" \in Entries
      /\ \A x \in Ids : Logged(x, "GateDrop")' <=> Logged(x, "GateDrop")
      /\ \A x \in Ids : Logged(x, "Started")' <=> Logged(x, "Started")
  <2>1. "GateDrop" \in Entries /\ "Started" \in Entries /\ "Completed" \in Entries  BY DEF Entries
  <2> QED  BY <1>3, <1>4, <2>1
<1>6. InflightInv' /\ DueInv'
  BY <1>1 DEF InflightInv, DueInv
<1>7. FreshInv'
  <2>1. ~FreshId(id)  BY <1>2 DEF FreshInv
  <2>2. \A x \in Ids : FreshId(x)' <=> FreshId(x)  BY <1>1 DEF FreshId
  <2> QED  BY <1>1, <2>1, <2>2, IdFacts DEF FreshInv
<1>8. QueuedInv'
  <2>1. \A x \in Ids : Queued(agenda, x) => x # id  BY DEF QueuedInv
  <2> QED  BY <1>1, <1>4, <2>1, IdFacts DEF QueuedInv
<1>9. RunningInv'  BY <1>1 DEF RunningInv
<1>10. AuditOrder'
  <2>1. \A x \in Ids : OrderedLog(audit[x])  BY OrderByLog
  <2>2. \A x \in Ids : OrderedLog(audit'[x])  BY <2>1
  <2> QED  BY <2>2 DEF AuditOrder, OrderedLog
<1>11. OperatorTasksPending'  BY <1>1 DEF OperatorTasksPending, FromOperator
<1>12. ConversationInv'
  <2>1. OperatorIds' = OperatorIds  BY <1>1 DEF OperatorIds, FromOperator
  <2>2. DialogueOf(conversation, OperatorIds)'  BY <2>1
  <2>3. ConversationFollows'  BY <2>2, DialogueByTurn, PTL
  <2>4. Logged(id, "Started")
    <3>1. Logged(id, "Started")  BY <1>2 DEF RunningInv
    <3>2. Len(audit[id]) \in Nat  BY <1>2 DEF SafeInv, TypeOK
    <3> QED  BY <3>1, <3>2 DEF Logged
  <2>5. \A i \in 1 .. Len(conversation) :
          conversation[i][2] \in Ids /\ Logged(conversation[i][2], "Started")
    BY IdFacts DEF ConversationInv, ConversationFollows
  <2>6. \A x \in Ids : Logged(x, "Started") => \E j \in 1 .. Len(audit'[x]) : audit'[x][j] = "Started"
    BY <1>5 DEF Logged
  <2>7. \A i \in 1 .. Len(conversation') :
          \E j \in 1 .. Len(audit'[conversation'[i][2]]) : audit'[conversation'[i][2]][j] = "Started"
    <3> SUFFICES ASSUME NEW i \in 1 .. Len(conversation')
                 PROVE  \E j \in 1 .. Len(audit'[conversation'[i][2]]) : audit'[conversation'[i][2]][j] = "Started"
      OBVIOUS
    <3>1. conversation'[i][2] \in Ids /\ Logged(conversation'[i][2], "Started")
      BY <1>2, <2>4, <2>5, Zenon
    <3> QED  BY <2>6, <3>1, Zenon
  <2> QED  BY <1>1, <2>3, <2>7 DEF ConversationInv, Logged
<1>13. \A x \in SensoryIds : Recent(x)' <=> Recent(x)
  BY <1>1, <1>5, IdFacts, RecentKept
<1>14. TrackedInv'
  BY <1>1, <1>13, IdFacts DEF TrackedInv
<1>15. OperatorHeard'
  <2> SUFFICES ASSUME NEW x \in SensoryIds, Recent(x)
               PROVE  /\ Logged(x, "Started")' => Spoken("user", x)'
                      /\ Logged(x, "Completed")' => Spoken("reply", x)'
    BY <1>13 DEF OperatorHeard, Recent
  <2>1. x \in Ids  BY IdFacts
  <2>2. \A role \in Roles : Spoken(role, x) => Spoken(role, x)'  BY DEF Spoken
  <2>3. "user" \in Roles /\ "reply" \in Roles  BY DEF Roles
  <2>4. /\ Logged(x, "Started") => Spoken("user", x)
        /\ Logged(x, "Completed") => Spoken("reply", x)
    BY DEF OperatorHeard, Recent
  <2>5. CASE x = id
    <3>1. composed  BY <2>5 DEF TrackedInv
    <3>2. Logged(x, "Completed")' => Spoken("reply", x)'  BY <2>5, <3>1 DEF Spoken
    <3> QED  BY <1>5, <2>1, <2>2, <2>3, <2>4, <3>2
  <2>6. CASE x # id
    BY <1>4, <1>5, <2>1, <2>2, <2>3, <2>4, <2>6
  <2> QED  BY <2>5, <2>6
<1> QED
  BY <1>6, <1>7, <1>8, <1>9, <1>10, <1>11, <1>12, <1>14, <1>15

\* The running task, its log and the open turn, before a dispatch ends.
LEMMA RunningFacts ==
    ASSUME SafeInv, LifeInv, pc = "dispatch"
    PROVE  /\ inflight \in Ids /\ audit[inflight] \in Seq(Entries)
           /\ OrderedLog(audit[inflight]) /\ Len(audit[inflight]) > 0
           /\ audit[inflight][Len(audit[inflight])] = "Routed"
           /\ Logged(inflight, "Started") /\ ~Logged(inflight, "Completed")
           /\ DialogueOf(conversation, OperatorIds) /\ conversation \in Seq(Roles \X Ids)
           /\ composed => /\ Len(conversation) > 0 /\ conversation[Len(conversation)] = <<"user", inflight>>
                          /\ inflight \in OperatorIds
<1> USE DEF LifeInv
<1>1. inflight \in Ids /\ inflight # NoTask
  BY IdFacts DEF SafeInv, TypeOK, Dispatching, InflightInv
<1>2. audit[inflight] \in Seq(Entries) /\ conversation \in Seq(Roles \X Ids)
  BY <1>1 DEF SafeInv, TypeOK
<1>3. OrderedLog(audit[inflight])  BY <1>1, OrderByLog
<1>4. /\ Len(audit[inflight]) > 0 /\ audit[inflight][Len(audit[inflight])] = "Routed"
      /\ Logged(inflight, "Started") /\ ~Logged(inflight, "Completed")
  <2>1. "Completed" \in Entries  BY DEF Entries
  <2> QED  BY <1>1, <2>1 DEF RunningInv
<1>5. DialogueOf(conversation, OperatorIds)  BY DialogueByTurn DEF ConversationInv
<1>6. ASSUME composed
      PROVE  /\ Len(conversation) > 0 /\ conversation[Len(conversation)] = <<"user", inflight>>
             /\ inflight \in OperatorIds
  <2>1. Len(conversation) > 0 /\ conversation[Len(conversation)] = <<"user", inflight>>
    BY <1>6 DEF ConversationInv
  <2>2. Len(conversation) \in 1 .. Len(conversation)
    <3>1. Len(conversation) \in Nat  BY <1>2, LenProperties
    <3> QED  BY <2>1, <3>1
  <2>3. conversation[Len(conversation)][2] \in OperatorIds  BY <1>5, <2>2 DEF DialogueOf
  <2> QED  BY <2>1, <2>3
<1> QED  BY <1>1, <1>2, <1>3, <1>4, <1>5, <1>6

\* A failed dispatch: no turn is added, and TaskFailed directly follows the choice of the backend.
LEMMA FailLife ==
    ASSUME SafeInv, LifeInv, Fail
    PROVE  LifeInv'
<1>1. PICK id : id = inflight  OBVIOUS
<1>2. /\ EndDispatch /\ pc = "dispatch" /\ pc' \in {"top", "crashed"}
      /\ Log(id, <<"Failed">>) /\ conversation' = conversation
  BY <1>1 DEF Fail, EndDispatch
<1>3. /\ id \in Ids /\ audit[id] \in Seq(Entries) /\ OrderedLog(audit[id])
      /\ Len(audit[id]) > 0 /\ audit[id][Len(audit[id])] = "Routed" /\ ~Logged(id, "Completed")
      /\ DialogueOf(conversation, OperatorIds)
  BY <1>1, <1>2, RunningFacts
<1> DEFINE es == <<"Failed">>
<1>5. es \in Seq(Entries) /\ Len(es) = 1 /\ es[1] = "Failed"  BY DEF Entries
<1>6. es = <<"Failed">> /\ Log(id, es) /\ audit \in [Ids -> Seq(Entries)]
  BY <1>2 DEF SafeInv, TypeOK
<1> HIDE DEF es
<1>7. /\ audit'[id] = audit[id] \o es
      /\ \A x \in Ids : x # id => audit'[x] = audit[x]
      /\ \A x \in Ids, e \in Entries : Logged(x, e) => Logged(x, e)'
      /\ \A e \in Entries : Logged(id, e)' <=> Logged(id, e) \/ \E i \in 1 .. Len(es) : es[i] = e
  BY <1>3, <1>5, <1>6, LogShape
<1>8. \A e \in Entries : Logged(id, e)' => Logged(id, e) \/ e = "Failed"
  BY <1>5, <1>7
<1>9. OrderedLog(audit'[id])
  <2>1. "Failed" \in {"Completed", "Failed"}  OBVIOUS
  <2>2. OrderedLog(audit[id] \o <<"Failed">>)  BY <1>3, <2>1, EndedLog, Zenon
  <2> QED  BY <1>6, <1>7, <2>2
<1>10. ~Logged(id, "Completed")'
  <2>1. "Completed" \in Entries  BY DEF Entries
  <2> QED  BY <1>3, <1>8, <2>1
<1> QED
  BY <1>1, <1>2, <1>3, <1>7, <1>8, <1>9, <1>10, EndLife

\* A panic: nothing is logged or said.
LEMMA PanicLife ==
    ASSUME SafeInv, LifeInv, Panic
    PROVE  LifeInv'
<1>1. PICK id : id = inflight  OBVIOUS
<1>2. /\ EndDispatch /\ pc = "dispatch" /\ pc' \in {"top", "crashed"}
      /\ audit' = audit /\ conversation' = conversation
  BY DEF Panic, EndDispatch
<1>3. /\ id \in Ids /\ OrderedLog(audit[id]) /\ ~Logged(id, "Completed")
      /\ DialogueOf(conversation, OperatorIds)
  BY <1>1, <1>2, RunningFacts
<1>4. \A e \in Entries : Logged(id, e)' <=> Logged(id, e)  BY <1>2 DEF Logged
<1>5. ~Logged(id, "Completed")'  BY <1>2, <1>3 DEF Logged
<1>6. OrderedLog(audit'[id]) /\ \A x \in Ids : x # id => audit'[x] = audit[x]  BY <1>2, <1>3
<1> QED
  BY <1>1, <1>2, <1>3, <1>4, <1>5, <1>6, EndLife

\* A completed dispatch: TaskCompleted directly follows the choice of the backend, the
\* request for help follows it; the reply directly follows the open turn and the
\* question follows the reply.
LEMMA CompleteLife ==
    ASSUME SafeInv, LifeInv, NEW unsure \in BOOLEAN, Complete(unsure)
    PROVE  LifeInv'
<1>1. PICK id : id = inflight  OBVIOUS
<1>2. /\ EndDispatch /\ pc = "dispatch" /\ pc' \in {"top", "crashed"}
      /\ Log(id, <<"Completed">> \o (IF unsure /\ composed THEN <<"HelpRequested">> ELSE <<>>))
      /\ conversation' = IF composed THEN conversation \o AgentTurns(id, unsure) ELSE conversation
  BY <1>1 DEF Complete, EndDispatch
<1>3. /\ id \in Ids /\ audit[id] \in Seq(Entries) /\ OrderedLog(audit[id])
      /\ Len(audit[id]) > 0 /\ audit[id][Len(audit[id])] = "Routed"
      /\ DialogueOf(conversation, OperatorIds) /\ conversation \in Seq(Roles \X Ids)
      /\ composed => /\ Len(conversation) > 0 /\ conversation[Len(conversation)] = <<"user", id>>
                     /\ id \in OperatorIds
  BY <1>1, <1>2, RunningFacts
<1>4. PICK es : /\ Log(id, es) /\ es \in Seq(Entries) /\ es \in {<<"Completed">>, <<"Completed", "HelpRequested">>}
                /\ \A i \in 1 .. Len(es) : es[i] \in {"Completed", "HelpRequested"}
  <2>1. CASE unsure /\ composed
    <3>1. Log(id, <<"Completed">> \o <<"HelpRequested">>)  BY <1>2, <2>1
    <3>2. <<"Completed">> \o <<"HelpRequested">> = <<"Completed", "HelpRequested">>
      <4>1. "Completed" \in Entries /\ "HelpRequested" \in Entries  BY DEF Entries
      <4> QED  BY <4>1, PairConcat, Zenon
    <3>3. Log(id, <<"Completed", "HelpRequested">>)  BY <3>1, <3>2
    <3>4. /\ <<"Completed", "HelpRequested">> \in Seq(Entries)
          /\ \A i \in 1 .. Len(<<"Completed", "HelpRequested">>) :
               <<"Completed", "HelpRequested">>[i] \in {"Completed", "HelpRequested"}
      BY DEF Entries
    <3> QED  BY <3>3, <3>4, Zenon
  <2>2. CASE ~(unsure /\ composed)
    <3>1. Log(id, <<"Completed">> \o <<>>)  BY <1>2, <2>2
    <3>2. <<"Completed">> \o <<>> = <<"Completed">>  OBVIOUS
    <3>3. Log(id, <<"Completed">>)  BY <3>1, <3>2
    <3>4. /\ <<"Completed">> \in Seq(Entries)
          /\ \A i \in 1 .. Len(<<"Completed">>) : <<"Completed">>[i] \in {"Completed", "HelpRequested"}
      BY DEF Entries
    <3> QED  BY <3>3, <3>4, Zenon
  <2> QED  BY <2>1, <2>2
<1>5. audit \in [Ids -> Seq(Entries)]  BY DEF SafeInv, TypeOK
<1>6. /\ audit'[id] = audit[id] \o es
      /\ \A x \in Ids : x # id => audit'[x] = audit[x]
      /\ \A x \in Ids, e \in Entries : Logged(x, e) => Logged(x, e)'
      /\ \A e \in Entries : Logged(id, e)' <=> Logged(id, e) \/ \E i \in 1 .. Len(es) : es[i] = e
  BY <1>3, <1>4, <1>5, LogShape
<1>7. \A e \in Entries : Logged(id, e)' => Logged(id, e) \/ e \in {"Completed", "Failed", "HelpRequested"}
  BY <1>4, <1>6
<1>8. OrderedLog(audit'[id])
  <2>1. "Completed" \in {"Completed", "Failed"}  OBVIOUS
  <2>2. OrderedLog(audit[id] \o <<"Completed">>) /\ OrderedLog(audit[id] \o <<"Completed", "HelpRequested">>)
    BY <1>3, <2>1, EndedLog, Zenon
  <2> QED  BY <1>4, <1>6, <2>2, Zenon
<1>9. /\ DialogueOf(conversation', OperatorIds)
      /\ \A i \in 1 .. Len(conversation) :
           i \in 1 .. Len(conversation') /\ conversation'[i] = conversation[i]
      /\ \A i \in 1 .. Len(conversation') :
           \/ conversation'[i][2] = id
           \/ \E j \in 1 .. Len(conversation) : conversation'[i][2] = conversation[j][2]
      /\ composed => \E i \in 1 .. Len(conversation') : conversation'[i] = <<"reply", id>>
  <2>1. CASE ~composed  BY <1>2, <1>3, <2>1
  <2>2. CASE composed
    <3> DEFINE one == Append(conversation, <<"reply", id>>)
               two == Append(one, <<"question", id>>)
               n == Len(conversation)
    <3>0. n \in Nat  BY <1>3, LenProperties
    <3>1. /\ DialogueOf(one, OperatorIds) /\ one \in Seq(Roles \X Ids) /\ Len(one) = n + 1
          /\ one[n + 1] = <<"reply", id>> /\ \A i \in 1 .. n : one[i] = conversation[i]
      <4>1. "reply" \in Roles /\ id \in OperatorIds  BY <1>3, <2>2 DEF Roles
      <4>2. MayFollow(conversation, "reply", id)  BY <1>3, <2>2 DEF MayFollow
      <4>3. Continued(conversation, one, <<"reply", id>>, OperatorIds)
        BY <1>3, <4>1, <4>2, DialogueAppend
      <4> QED  BY <4>3 DEF Continued
    <3> HIDE DEF one
    <3>2. Len(one) > 0 /\ one[Len(one)] = <<"reply", id>>  BY <3>0, <3>1
    <3>3. /\ DialogueOf(two, OperatorIds) /\ Len(two) = Len(one) + 1
          /\ two[Len(one) + 1] = <<"question", id>> /\ \A i \in 1 .. Len(one) : two[i] = one[i]
      <4>1. "question" \in Roles /\ id \in OperatorIds  BY <1>3, <2>2 DEF Roles
      <4>2. MayFollow(one, "question", id)  BY <3>2 DEF MayFollow
      <4>3. Continued(one, two, <<"question", id>>, OperatorIds)
        BY <1>3, <3>1, <4>1, <4>2, DialogueAppend
      <4> QED  BY <4>3 DEF Continued
    <3> HIDE DEF two
    <3>4. CASE ~unsure
      <4>1. conversation' = conversation \o (<< <<"reply", id>> >> \o <<>>)
        BY <1>2, <2>2, <3>4 DEF AgentTurns
      <4>2. conversation' = one
        <5>1. << <<"reply", id>> >> \o <<>> = << <<"reply", id>> >>  OBVIOUS
        <5>2. conversation \o << <<"reply", id>> >> = Append(conversation, <<"reply", id>>)  BY <1>3
        <5> QED  BY <4>1, <5>1, <5>2 DEF one
      <4> HIDE DEF n
      <4>3. \A i \in 1 .. n : i \in 1 .. n + 1  BY <3>0
      <4>4. \A i \in 1 .. n + 1 : i \in 1 .. n \/ i = n + 1  BY <3>0
      <4>5. n + 1 \in 1 .. n + 1  BY <3>0
      <4>6. <<"reply", id>>[2] = id  OBVIOUS
      <4> QED  BY <3>1, <4>2, <4>3, <4>4, <4>5, <4>6 DEF n
    <3>5. CASE unsure
      <4>1. conversation' = conversation \o (<< <<"reply", id>> >> \o << <<"question", id>> >>)
        BY <1>2, <2>2, <3>5 DEF AgentTurns
      <4>2. conversation' = two
        <5>1. << <<"reply", id>> >> \o << <<"question", id>> >> = << <<"reply", id>>, <<"question", id>> >>
          <6>1. <<"reply", id>> \in Roles \X Ids /\ <<"question", id>> \in Roles \X Ids
            BY <1>3 DEF Roles
          <6> QED  BY <6>1, PairConcat, Zenon
        <5>2. conversation \o << <<"reply", id>>, <<"question", id>> >>
                = Append(Append(conversation, <<"reply", id>>), <<"question", id>>)
          BY <1>3
        <5> QED  BY <4>1, <5>1, <5>2 DEF one, two
      <4> HIDE DEF n
      <4>3. /\ Len(two) = n + 2 /\ two[n + 1] = <<"reply", id>> /\ two[n + 2] = <<"question", id>>
            /\ \A i \in 1 .. n : two[i] = conversation[i]
        <5>1. (n + 1) + 1 = n + 2 /\ n + 1 \in 1 .. n + 1 /\ \A i \in 1 .. n : i \in 1 .. n + 1  BY <3>0
        <5> QED  BY <3>1, <3>3, <5>1
      <4>4. \A i \in 1 .. n : i \in 1 .. n + 2  BY <3>0
      <4>5. \A i \in 1 .. n + 2 : i \in 1 .. n \/ i = n + 1 \/ i = n + 2  BY <3>0
      <4>6. n + 1 \in 1 .. n + 2  BY <3>0
      <4>7. <<"reply", id>>[2] = id /\ <<"question", id>>[2] = id  OBVIOUS
      <4> QED  BY <3>3, <4>2, <4>3, <4>4, <4>5, <4>6, <4>7 DEF n
    <3> QED  BY <3>4, <3>5
  <2> QED  BY <2>1, <2>2
<1> QED
  BY <1>1, <1>2, <1>6, <1>7, <1>8, <1>9, EndLife

\* LifeInv holds in every reachable state.
THEOREM LifeInvariant == Spec => []LifeInv
<1>1. Init => LifeInv
  <2> SUFFICES ASSUME Init PROVE LifeInv  OBVIOUS
  <2>1. /\ pc = "supervise" /\ inflight = NoTask /\ ~composed /\ dueNow = {} /\ operatorTasks = {}
        /\ conversation = <<>> /\ \A id \in Ids : audit[id] = <<>>
        /\ \A id \in SensoryIds : packetOf[id] = NoTask
        /\ \A t \in Tiers : agenda[t] = <<>>
    BY DEF Init, EmptyAgenda
  <2>2. \A id : ~Queued(agenda, id)  BY <2>1 DEF Queued
  <2>3. \A id \in Ids, e \in Entries : ~Logged(id, e)  BY <2>1 DEF Logged
  <2>4. InflightInv /\ DueInv /\ RunningInv /\ OperatorTasksPending
    BY <2>1 DEF InflightInv, DueInv, RunningInv, OperatorTasksPending
  <2>5. FreshInv  BY <2>1, <2>2, IdFacts DEF FreshInv
  <2>6. QueuedInv
    <3>1. QueuedOnce(agenda)  BY <2>1 DEF QueuedOnce
    <3> QED  BY <2>2, <3>1 DEF QueuedInv
  <2>7. AuditOrder  BY <2>1 DEF AuditOrder
  <2>8. ConversationInv  BY <2>1 DEF ConversationInv, ConversationFollows
  <2>9. \A id \in SensoryIds : ~FromOperator(id)  BY <2>1 DEF FromOperator
  <2>10. TrackedInv /\ OperatorHeard  BY <2>9 DEF TrackedInv, Recent, OperatorHeard
  <2> QED  BY <2>4, <2>5, <2>6, <2>7, <2>8, <2>10 DEF LifeInv
<1>2. SafeInv /\ LifeInv /\ [Next]_vars => LifeInv'
  <2> SUFFICES ASSUME SafeInv, LifeInv, [Next]_vars PROVE LifeInv'  OBVIOUS
  <2>1. CASE LoopStep
    BY <2>1, QuietStepsLife, AdmitLife, DeclineLife, InjectLife, BeginLife, CompleteLife,
       FailLife, PanicLife DEF LoopStep
  <2>2. CASE Environment \/ UNCHANGED vars  BY <2>2, QuietStepsLife
  <2> QED  BY <2>1, <2>2 DEF Next, Terminated
<1> QED  BY <1>1, <1>2, SafeInvariant, PTL DEF Spec

\* Every task's log reads in the order the loop promises: link, gate decision,
\* one start, its outcome, a request for help; whatever panics and restarts.
THEOREM LogAttributable == Spec => []AuditOrder
<1>1. LifeInv => AuditOrder  BY DEF LifeInv
<1> QED  BY <1>1, LifeInvariant, PTL

\* The transcript is a dialogue: a reply directly follows the operator's message
\* it answers, a question the reply it doubts, and no message appears twice.
THEOREM TranscriptFollows == Spec => []ConversationFollows
<1>1. LifeInv => ConversationFollows  BY DEF LifeInv, ConversationInv
<1> QED  BY <1>1, LifeInvariant, PTL

\* operator_tasks leaks no entry: it holds operator tasks that wait in the agenda.
THEOREM TrackedTasksWait == Spec => []OperatorTasksPending
<1>1. LifeInv => OperatorTasksPending  BY DEF LifeInv
<1> QED  BY <1>1, LifeInvariant, PTL

\* A dispatched operator message is in the transcript, and its reply once it
\* completed, unless MAX_TRACKED_OPERATOR_TASKS later ones came in.
THEOREM EveryMessageHeard == Spec => []OperatorHeard
<1>1. LifeInv => OperatorHeard  BY DEF LifeInv
<1> QED  BY <1>1, LifeInvariant, PTL

-----------------------------------------------------------------------------
(* The loop implements the life cycle *)

\* A step that leaves a task's place and log alone leaves its status.
LEMMA StatusKept ==
    ASSUME NEW id \in Ids, inflight' = id <=> inflight = id, audit'[id] = audit[id],
           Queued(agenda', id) <=> Queued(agenda, id)
    PROVE  StatusOf(id)' = StatusOf(id)
<1>1. \A e : Logged(id, e)' <=> Logged(id, e)  BY DEF Logged
<1> QED  BY <1>1 DEF StatusOf

\* A step that changes one task's status changes the status function there.
LEMMA StatusStep ==
    ASSUME NEW id \in Ids, \A x \in Ids : x # id => StatusOf(x)' = StatusOf(x)
    PROVE  TaskStatus' = [TaskStatus EXCEPT ![id] = StatusOf(id)']
BY DEF TaskStatus

\* The status of a task in each of its places.
LEMMA StatusNow ==
    ASSUME SafeInv, LifeInv, NEW id \in Ids
    PROVE  /\ FreshId(id) => StatusOf(id) = "none"
           /\ Queued(agenda, id) => StatusOf(id) = "queued"
           /\ inflight = id => StatusOf(id) = "running"
           /\ inflight = NoTask => StatusOf(id) # "running"
<1> USE DEF LifeInv
<1>1. /\ "Completed" \in Entries /\ "Failed" \in Entries
      /\ "Started" \in Entries /\ "GateDrop" \in Entries
  BY DEF Entries
<1>2. FreshId(id) => StatusOf(id) = "none"
  <2> SUFFICES ASSUME FreshId(id) PROVE StatusOf(id) = "none"  OBVIOUS
  <2>1. audit[id] = <<>> /\ ~Queued(agenda, id) /\ inflight # id  BY DEF FreshInv
  <2>2. \A e : ~Logged(id, e)  BY <2>1 DEF Logged
  <2> QED  BY <2>1, <2>2 DEF StatusOf
<1>3. Queued(agenda, id) => StatusOf(id) = "queued"
  <2> SUFFICES ASSUME Queued(agenda, id) PROVE StatusOf(id) = "queued"  OBVIOUS
  <2>1. inflight # id /\ \A e \in Entries : Logged(id, e) => e \in {"Linked", "GateInvoke"}
    BY DEF QueuedInv
  <2> QED  BY <1>1, <2>1 DEF StatusOf
<1>4. inflight = id => StatusOf(id) = "running"  BY DEF StatusOf
<1>5. inflight = NoTask => StatusOf(id) # "running"
  <2>1. NoTask # id  BY IdFacts
  <2> QED  BY <2>1 DEF StatusOf
<1> QED  BY <1>2, <1>3, <1>4, <1>5

\* Steps that touch no task change no status.
LEMMA QuietStatus ==
    ASSUME SafeInv, LifeInv,
           \/ Environment \/ UNCHANGED vars
           \/ Supervise \/ Top \/ ScanIntentions \/ Sleep
           \/ \E run \in Runs : Restart(run)
    PROVE  TaskStatus' = TaskStatus
<1>1. UNCHANGED <<inflight, audit>>
  BY DEF Environment, Submit, RequestShutdown, Tick, vars, loopVars, Supervise, Top,
         ScanIntentions, Sleep, Restart
<1>2. \A x \in Ids : Queued(agenda', x) <=> Queued(agenda, x)
  <2>1. agenda \in AgendasOf(Ids)  BY DEF SafeInv, TypeOK, AgendasOf
  <2>2. agenda' = agenda \/ agenda' = BoostAllToHigh(agenda)
    BY DEF Environment, Submit, RequestShutdown, Tick, vars, loopVars, Supervise, Top,
           ScanIntentions, Sleep, Restart, CheckAndBoost
  <2> QED  BY <2>1, <2>2, BoostContents
<1>3. \A x \in Ids : StatusOf(x)' = StatusOf(x)  BY <1>1, <1>2, StatusKept
<1> QED  BY <1>3 DEF TaskStatus

\* A packet the gate lets through and an intention that came due are queued.
LEMMA QueueRefines ==
    ASSUME SafeInv, LifeInv, SafeInv', LifeInv', NEW new \in Ids, FreshId(new),
           NEW level \in Nat, agenda' = Push(agenda, level, new), inflight' = inflight,
           \A x \in Ids : x # new => audit'[x] = audit[x]
    PROVE  Lifecycle!Queue(new)
<1>1. agenda \in AgendasOf(Ids)  BY DEF SafeInv, TypeOK, AgendasOf
<1>2. \A x \in Ids : Queued(agenda', x) <=> Queued(agenda, x) \/ x = new  BY <1>1, PushContents
<1>3. StatusOf(new) = "none"  BY StatusNow
<1>4. StatusOf(new)' = "queued"
  <2>1. /\ inflight' # new
        /\ \A e \in Entries : Logged(new, e)' => e \in {"Linked", "GateInvoke"}
        /\ Queued(agenda', new)
    BY <1>2 DEF LifeInv, QueuedInv
  <2>2. /\ "Completed" \in Entries /\ "Failed" \in Entries
        /\ "Started" \in Entries /\ "GateDrop" \in Entries
    BY DEF Entries
  <2> QED  BY <2>1, <2>2 DEF StatusOf
<1>5. \A x \in Ids : x # new => StatusOf(x)' = StatusOf(x)  BY <1>2, StatusKept
<1> QED  BY <1>3, <1>4, <1>5, StatusStep DEF Lifecycle!Queue, TaskStatus

\* A packet the gate declines is dropped.
LEMMA DeclineRefines ==
    ASSUME SafeInv, LifeInv, SafeInv', LifeInv',
           NEW p \in OfferedPackets, NEW mood \in Moods, Decline(p, mood)
    PROVE  \E id \in Ids : Lifecycle!Drop(id)
<1> DEFINE es == LinkEntry(p) \o <<"GateDrop">>
<1>1. PICK new : new = nextId  OBVIOUS
<1>2. /\ Ingest(p) /\ Log(new, es) /\ UNCHANGED <<agenda, inflight>>
  BY <1>1 DEF Decline, Ingest
<1>3. /\ new \in SensoryIds /\ new \in Ids /\ FreshId(new)
  <2>1. new \in SensoryIds /\ new \in Nat  BY <1>1, <1>2, IngestFacts, IdFacts DEF SafeInv, TypeOK
  <2> QED  BY <1>1, <2>1, IdFacts DEF FreshId
<1>4. es \in {<<"GateDrop">>, <<"Linked", "GateDrop">>}
  BY IntakeEntries, LinkedFirst
<1>5. /\ es \in Seq(Entries) /\ \A i \in 1 .. Len(es) : es[i] \in {"Linked", "GateDrop"}
      /\ \E i \in 1 .. Len(es) : es[i] = "GateDrop"
  <2> HIDE DEF es
  <2>1. CASE es = <<"GateDrop">>  BY <2>1 DEF Entries
  <2>2. CASE es = <<"Linked", "GateDrop">>
    <3>1. Len(es) = 2 /\ es[1] = "Linked" /\ es[2] = "GateDrop" /\ es \in Seq(Entries)  BY <2>2 DEF Entries
    <3> QED  BY <3>1
  <2> QED  BY <1>4, <2>1, <2>2
<1> HIDE DEF es
<1>6. audit \in [Ids -> Seq(Entries)]  BY DEF SafeInv, TypeOK
<1>7. /\ \A x \in Ids : x # new => audit'[x] = audit[x]
      /\ \A e \in Entries : Logged(new, e)' <=> Logged(new, e) \/ \E i \in 1 .. Len(es) : es[i] = e
  BY <1>2, <1>3, <1>5, <1>6, LogShape
<1>8. audit[new] = <<>> /\ ~Queued(agenda, new) /\ inflight # new
  BY <1>3 DEF LifeInv, FreshInv
<1>9. StatusOf(new)' = "dropped"
  <2>1. \A e : ~Logged(new, e)  BY <1>8 DEF Logged
  <2>2. /\ "Completed" \in Entries /\ "Failed" \in Entries
        /\ "Started" \in Entries /\ "GateDrop" \in Entries
    BY DEF Entries
  <2>3. /\ ~Logged(new, "Completed")' /\ ~Logged(new, "Failed")'
        /\ ~Logged(new, "Started")' /\ Logged(new, "GateDrop")'
    BY <1>5, <1>7, <2>1, <2>2
  <2> QED  BY <1>2, <1>8, <2>3 DEF StatusOf
<1>10. \A x \in Ids : x # new => StatusOf(x)' = StatusOf(x)  BY <1>2, <1>7, StatusKept
<1>11. StatusOf(new) = "none"  BY <1>3, StatusNow
<1>12. Lifecycle!Drop(new)  BY <1>3, <1>9, <1>10, <1>11, StatusStep DEF Lifecycle!Drop, TaskStatus
<1> QED  BY <1>3, <1>12

\* A dispatch starts a queued task while none runs.
LEMMA BeginRefines ==
    ASSUME SafeInv, LifeInv, SafeInv', LifeInv', NEW t \in Tiers, Begin(t)
    PROVE  \E id \in Ids : Lifecycle!Start(id)
<1>1. PICK id : id = Head(agenda[t])  OBVIOUS
<1>2. /\ pc = "inject" /\ IsTop(agenda, t) /\ agenda' = PopTier(agenda, t)
      /\ inflight' = id /\ Log(id, <<"Started", "Routed">>)
  BY <1>1 DEF Begin, Log
<1>3. inflight = NoTask  BY <1>2 DEF LifeInv, InflightInv
<1>4. /\ id \in Ids /\ Queued(agenda, id)
      /\ \A x \in Ids : x # id => (Queued(agenda', x) <=> Queued(agenda, x))
  <2>1. agenda \in AgendasOf(Ids)  BY DEF SafeInv, TypeOK, AgendasOf
  <2> QED  BY <1>1, <1>2, <2>1, PopContents
<1>5. \A x \in Ids : x # id => audit'[x] = audit[x]  BY <1>2, <1>4 DEF Log, SafeInv, TypeOK
<1>6. \A x \in Ids : x # id => StatusOf(x)' = StatusOf(x)
  BY <1>2, <1>3, <1>4, <1>5, IdFacts, StatusKept
<1>7. StatusOf(id) = "queued" /\ \A x \in Ids : StatusOf(x) # "running"  BY <1>3, <1>4, StatusNow
<1>8. StatusOf(id)' = "running"  BY <1>2 DEF StatusOf
<1>9. Lifecycle!Start(id)  BY <1>4, <1>6, <1>7, <1>8, StatusStep DEF Lifecycle!Start, TaskStatus
<1> QED  BY <1>4, <1>9

\* A dispatch ends the running task, one way or another.
LEMMA EndRefines ==
    ASSUME SafeInv, LifeInv,
           \/ \E unsure \in BOOLEAN : Complete(unsure)
           \/ Fail
           \/ Panic
    PROVE  \E id \in Ids, how \in {"completed", "failed", "lost"} : Lifecycle!End(id, how)
<1>1. PICK id : id = inflight  OBVIOUS
<1>2. /\ pc = "dispatch" /\ inflight' = NoTask /\ agenda' = agenda
  BY DEF Complete, Fail, Panic, EndDispatch
<1>3. /\ id \in Ids /\ id # NoTask /\ audit[id] \in Seq(Entries)
      /\ Len(audit[id]) > 0 /\ audit[id][Len(audit[id])] = "Routed"
      /\ audit \in [Ids -> Seq(Entries)]
  BY <1>1, <1>2, RunningFacts, IdFacts DEF SafeInv, TypeOK
<1>4. /\ Logged(id, "Started") /\ ~Logged(id, "Completed") /\ ~Logged(id, "Failed")
  <2>2. Logged(id, "Started")  BY <1>1, <1>3 DEF LifeInv, RunningInv
  <2>3. "Completed" \in Entries /\ "Failed" \in Entries  BY DEF Entries
  <2>4. \A e \in Entries : Logged(id, e) => e \in {"Linked", "GateInvoke", "Started", "Routed"}
    BY <1>1, <1>3 DEF LifeInv, RunningInv
  <2> QED  BY <2>2, <2>3, <2>4
<1>5. audit' = audit \/ \E es \in Seq(Entries) : Log(id, es)
  <2>1. ASSUME NEW unsure \in BOOLEAN, Complete(unsure) PROVE \E es \in Seq(Entries) : Log(id, es)
    <3>1. Log(id, <<"Completed">> \o (IF unsure /\ composed THEN <<"HelpRequested">> ELSE <<>>))
      BY <1>1, <2>1 DEF Complete
    <3>2. /\ <<"Completed">> \in Seq(Entries) /\ <<"HelpRequested">> \in Seq(Entries)
          /\ <<>> \in Seq(Entries)
      BY DEF Entries
    <3>3. (IF unsure /\ composed THEN <<"HelpRequested">> ELSE <<>>) \in Seq(Entries)  BY <3>2, Zenon
    <3>4. <<"Completed">> \o (IF unsure /\ composed THEN <<"HelpRequested">> ELSE <<>>) \in Seq(Entries)
      BY <3>2, <3>3, ConcatProperties, Zenon
    <3> QED  BY <3>1, <3>4, Zenon
  <2>2. ASSUME Fail PROVE \E es \in Seq(Entries) : Log(id, es)
    <3>1. Log(id, <<"Failed">>)  BY <1>1, <2>2 DEF Fail
    <3>2. <<"Failed">> \in Seq(Entries)  BY DEF Entries
    <3> QED  BY <3>1, <3>2, Zenon
  <2>3. Panic => audit' = audit  BY DEF Panic
  <2> QED  BY <2>1, <2>2, <2>3
<1>6. /\ \A x \in Ids : x # id => audit'[x] = audit[x]
      /\ \A e \in Entries : Logged(id, e) => Logged(id, e)'
  <2>1. CASE audit' = audit  BY <2>1 DEF Logged
  <2>2. ASSUME NEW es \in Seq(Entries), Log(id, es)
        PROVE  /\ \A x \in Ids : x # id => audit'[x] = audit[x]
               /\ \A e \in Entries : Logged(id, e) => Logged(id, e)'
    BY <1>3, <2>2, LogShape
  <2> QED  BY <1>5, <2>1, <2>2
<1>7. \A x \in Ids : x # id => StatusOf(x)' = StatusOf(x)
  BY <1>1, <1>2, <1>6, IdFacts, StatusKept
<1>8. StatusOf(id) = "running"  BY <1>1, <1>3 DEF StatusOf
<1>9. StatusOf(id)' \in {"completed", "failed", "lost"}
  <2>1. Logged(id, "Started")'
    <3>1. "Started" \in Entries  BY DEF Entries
    <3> QED  BY <1>4, <1>6, <3>1
  <2>2. inflight' # id  BY <1>2, <1>3
  <2> QED  BY <2>1, <2>2 DEF StatusOf
<1>10. Lifecycle!End(id, StatusOf(id)')
  BY <1>3, <1>7, <1>8, StatusStep DEF Lifecycle!End, TaskStatus
<1> QED  BY <1>3, <1>9, <1>10

\* The loop implements TaskLifecycle: across intake, boosts, injection, failures,
\* panics and supervisor restarts no admitted task vanishes, none runs twice,
\* and two never run at once.
THEOREM LoopRefinesLifecycle == Spec => ImplementsLifecycle
<1>1. Init => Lifecycle!Init
  <2> SUFFICES ASSUME Init PROVE TaskStatus = [x \in Ids |-> "none"]
    BY DEF Lifecycle!Init
  <2>1. inflight = NoTask /\ \A t \in Tiers : agenda[t] = <<>>  BY DEF Init, EmptyAgenda
  <2>2. ASSUME NEW id \in Ids PROVE StatusOf(id) = "none"
    <3>1. audit[id] = <<>>  BY DEF Init
    <3>2. \A e : ~Logged(id, e)  BY <3>1 DEF Logged
    <3>3. ~Queued(agenda, id) /\ inflight # id  BY <2>1, IdFacts DEF Queued
    <3> QED  BY <3>2, <3>3 DEF StatusOf
  <2> QED  BY <2>2 DEF TaskStatus
<1>2. SafeInv /\ LifeInv /\ SafeInv' /\ LifeInv' /\ [Next]_vars =>
        [Lifecycle!Next]_TaskStatus
  <2> SUFFICES ASSUME SafeInv, LifeInv, SafeInv', LifeInv', [Next]_vars
               PROVE  \/ Lifecycle!Next
                      \/ TaskStatus' = TaskStatus
    OBVIOUS
  <2>1. ASSUME NEW p \in OfferedPackets, NEW mood \in Moods, Admit(p, mood)
        PROVE  Lifecycle!Next
    <3>1. PICK new : new = nextId  OBVIOUS
    <3>2. /\ Ingest(p) /\ inflight' = inflight /\ agenda' = Push(agenda, TierFor(p.priority), new)
      BY <2>1, <3>1 DEF Admit, Ingest
    <3>3. new \in SensoryIds /\ new \in Ids /\ new \in Nat
      BY <3>1, <3>2, IngestFacts, IdFacts DEF SafeInv, TypeOK
    <3>4. FreshId(new)  BY <3>1, <3>3 DEF FreshId
    <3>5. TierFor(p.priority) \in Nat  BY DEF TierFor
    <3>6. \A x \in Ids : x # new => audit'[x] = audit[x]
      BY <2>1, <3>1 DEF Admit, Log, SafeInv, TypeOK
    <3>7. Lifecycle!Queue(new)  BY <3>2, <3>3, <3>4, <3>5, <3>6, QueueRefines
    <3> QED  BY <3>3, <3>7 DEF Lifecycle!Next
  <2>2. ASSUME NEW p \in OfferedPackets, NEW mood \in Moods, Decline(p, mood)
        PROVE  Lifecycle!Next
    BY <2>2, DeclineRefines DEF Lifecycle!Next
  <2>3. ASSUME NEW i \in IntentionIds, Inject(i) PROVE Lifecycle!Next
    <3>1. /\ i \in dueNow /\ audit' = audit /\ inflight' = inflight  BY <2>3 DEF Inject
    <3>2. PICK level \in Nat : agenda' = Push(agenda, level, i)  BY <2>3 DEF Inject
    <3>3. i \in Ids /\ i \notin SensoryIds
      BY BoundsAssumption DEF Ids, IntentionIds, SensoryIds, FirstSensoryId
    <3>4. FreshId(i)  BY <3>1, <3>3 DEF FreshId, LifeInv, DueInv
    <3>5. Lifecycle!Queue(i)  BY <3>1, <3>2, <3>3, <3>4, QueueRefines
    <3> QED  BY <3>3, <3>5 DEF Lifecycle!Next
  <2>4. ASSUME NEW t \in Tiers, Begin(t) PROVE Lifecycle!Next
    BY <2>4, BeginRefines DEF Lifecycle!Next
  <2>5. CASE \/ \E unsure \in BOOLEAN : Complete(unsure)
             \/ Fail
             \/ Panic
    BY <2>5, EndRefines DEF Lifecycle!Next
  <2>6. CASE \/ Environment \/ UNCHANGED vars
             \/ Supervise \/ Top \/ ScanIntentions \/ Sleep
             \/ \E run \in Runs : Restart(run)
    BY <2>6, QuietStatus
  <2> QED  BY <2>1, <2>2, <2>3, <2>4, <2>5, <2>6 DEF Next, LoopStep, Terminated
<1> QED
  BY <1>1, <1>2, SafeInvariant, LifeInvariant, PTL DEF Spec, ImplementsLifecycle, Lifecycle!Spec
=============================================================================
