------------------------- MODULE SleepMemoryProofs -------------------------
(***************************************************************************)
(* Proofs about SleepMemory, for every set of keys and kinds, every        *)
(* capacity, sample and threshold, and any number of cycles and restarts.  *)
(***************************************************************************)
EXTENDS SleepMemory, TLAPS

InHand == {e.node.m : e \in evicted}

Accounted ==
    Held(l1) \cup InHand \cup Archived(index)
    \cup told \cup replaced \cup forgotten \cup dropped \cup overwritten

Counts ==
    /\ memories \in Nat /\ cycles \in Nat /\ restarts \in Nat /\ nextId \in Nat
    /\ DOMAIN index \subseteq Nat /\ DOMAIN disk \subseteq Nat

\* The file holds nothing that the index does not hold, and what the index holds
\* beyond it was reported.
DiskWithinIndex ==
    /\ \A i \in DOMAIN disk : i \in DOMAIN index /\ index[i] = disk[i]
    /\ Archived(index) \subseteq Archived(disk) \cup told

\* In its first life a process hands out ids the archive does not have yet.
FreshIds == restarts = 0 => \A i \in DOMAIN index : i < nextId

\* The first cycle finds an empty archive: there is nothing to roll back.
FirstCycleEmpty ==
    /\ cycles = 0 => DOMAIN index = {} /\ DOMAIN disk = {} /\ evicted = {} /\ pc = "awake"
    /\ cycles <= 1 => DOMAIN rollback = {}

\* Between cycles nothing is on its way.
AwakeSettled == pc = "awake" => evicted = {} /\ DOMAIN rollback = {}

Inv ==
    /\ Counts /\ DiskWithinIndex /\ FreshIds /\ FirstCycleEmpty /\ AwakeSettled
    /\ ArchivedStays
    /\ 1..memories \subseteq Accounted
    /\ dropped # {} => restarts > 0
    /\ overwritten # {} => cycles > 1

\* The initial state holds nothing.
LEMMA InitInv == Init => Inv
<1> SUFFICES ASSUME Init PROVE Inv
  OBVIOUS
<1>1. DOMAIN Empty = {}
  BY DEF Empty
<1>2. /\ DOMAIN l1 = {} /\ DOMAIN index = {} /\ DOMAIN disk = {} /\ DOMAIN rollback = {}
      /\ index = disk
  BY <1>1 DEF Init
<1>3. Counts /\ DiskWithinIndex /\ FreshIds /\ FirstCycleEmpty /\ AwakeSettled
  BY <1>2 DEF Init, Counts, DiskWithinIndex, FreshIds, FirstCycleEmpty, AwakeSettled, Archived
<1>4. ArchivedStays /\ 1..memories \subseteq Accounted
  BY DEF Init, ArchivedStays
<1>5. QED
  BY <1>3, <1>4 DEF Init, Inv

\* A memory that is inserted replaces at most the one under its key.
LEMMA InsertKeeps ==
    ASSUME Inv, NEW key \in Keys, NEW kind \in Kinds, Insert(key, kind)
    PROVE  Inv'
<1>1. /\ memories' = memories + 1
      /\ l1' = With(l1, key, Node(memories + 1, kind))
      /\ replaced' = replaced \cup IF key \in DOMAIN l1 THEN {l1[key].m} ELSE {}
      /\ UNCHANGED <<index, disk, nextId, pc, evicted, rollback, cycles, restarts,
                     faults, acked, told, forgotten, dropped, overwritten>>
  BY DEF Insert
<1>2. Node(memories + 1, kind).m = memories + 1
  BY DEF Node
<1> DEFINE node == Node(memories + 1, kind)
<1>0. /\ DOMAIN l1' = DOMAIN l1 \cup {key}
      /\ l1'[key] = node
      /\ \A k \in DOMAIN l1 : k # key => l1'[k] = l1[k]
  BY <1>1 DEF With
<1> HIDE DEF node
<1>3. memories + 1 \in Held(l1')
  BY <1>0, <1>2 DEF Held, node
<1>4. Held(l1) \subseteq Held(l1') \cup replaced'
  <2> SUFFICES ASSUME NEW k \in DOMAIN l1 PROVE l1[k].m \in Held(l1') \cup replaced'
    BY DEF Held
  <2>1. CASE k = key
    BY <1>1, <2>1
  <2>2. CASE k # key
    <3>1. k \in DOMAIN l1' /\ l1'[k] = l1[k]
      BY <1>0, <2>2
    <3>2. QED
      BY <3>1 DEF Held
  <2>3. QED
    BY <2>1, <2>2
<1>5. Accounted \cup {memories + 1} \subseteq Accounted'
  BY <1>1, <1>3, <1>4 DEF Accounted, InHand, Archived
<1>6. 1..memories' \subseteq (1..memories) \cup {memories + 1}
  BY <1>1 DEF Inv, Counts
<1>7. /\ Counts' /\ DiskWithinIndex' /\ FreshIds' /\ FirstCycleEmpty' /\ AwakeSettled'
      /\ ArchivedStays'
  BY <1>1 DEF Inv, Counts, DiskWithinIndex, FreshIds, FirstCycleEmpty, AwakeSettled,
              ArchivedStays, Archived
<1>8. QED
  BY <1>1, <1>5, <1>6, <1>7 DEF Inv

\* What is pruned is in hand; the first cycle rolls nothing back.
LEMMA SleepKeeps ==
    ASSUME Inv, Sleep
    PROVE  Inv'
<1>1. /\ cycles' = cycles + 1
      /\ evicted' = {Entry(key, l1[key]) : key \in Pruned}
      /\ l1' = Restrict(l1, DOMAIN l1 \ Pruned)
      /\ rollback' = RolledBack
      /\ UNCHANGED <<index, disk, nextId, memories, restarts, faults, acked, told,
                     replaced, forgotten, dropped, overwritten>>
  BY DEF Sleep
<1>2. evicted = {}
  BY DEF Inv, Sleep, AwakeSettled
<1>3. Held(l1) \subseteq Held(l1') \cup InHand'
  <2> SUFFICES ASSUME NEW k \in DOMAIN l1 PROVE l1[k].m \in Held(l1') \cup InHand'
    BY DEF Held
  <2>1. CASE k \in Pruned
    <3>1. Entry(k, l1[k]) \in evicted' /\ Entry(k, l1[k]).node.m = l1[k].m
      BY <1>1, <2>1 DEF Entry
    <3>2. QED
      BY <3>1 DEF InHand
  <2>2. CASE k \notin Pruned
    <3>1. k \in DOMAIN l1' /\ l1'[k] = l1[k]
      BY <1>1, <2>2 DEF Restrict
    <3>2. QED
      BY <3>1 DEF Held
  <2>3. QED
    BY <2>1, <2>2
<1>4. InHand = {}
  BY <1>2 DEF InHand
<1>5. Accounted \subseteq Accounted'
  BY <1>1, <1>3, <1>4 DEF Accounted, Archived
<1>6. DOMAIN index = {} => DOMAIN rollback' = {}
  <2> SUFFICES ASSUME DOMAIN index = {} PROVE DOMAIN RolledBack = {}
    BY <1>1
  <2>1. Sample = {}
    BY DEF Sample
  <2>2. QED
    BY <2>1 DEF RolledBack, Empty
<1>7. FirstCycleEmpty'
  BY <1>1, <1>6 DEF Inv, Counts, FirstCycleEmpty
<1>8. Counts' /\ DiskWithinIndex' /\ FreshIds' /\ AwakeSettled' /\ ArchivedStays'
  BY <1>1 DEF Inv, Counts, DiskWithinIndex, FreshIds, AwakeSettled, ArchivedStays, Archived, Sleep
<1>9. QED
  BY <1>1, <1>5, <1>7, <1>8 DEF Inv, Counts

\* What the four outcomes of a demotion share.
LEMMA DemotionFrame ==
    ASSUME Inv, NEW e \in evicted, Demotion(e)
    PROVE  /\ evicted' = evicted \ {e} /\ nextId' = nextId + 1 /\ nextId' \in Nat
           /\ UNCHANGED <<l1, pc, rollback, memories, cycles, restarts, replaced,
                          forgotten, overwritten>>
           /\ InHand \subseteq InHand' \cup {e.node.m}
           /\ pc = "demote" /\ cycles # 0
  BY DEF Inv, Counts, Demotion, InHand, FirstCycleEmpty

\* A demotion whose archive stays as it is accounts for its memory elsewhere.
LEMMA DemoteNothingKeeps ==
    ASSUME Inv, NEW e \in evicted, DemotePresent(e) \/ DemoteFull(e)
    PROVE  Inv'
<1>1. /\ evicted' = evicted \ {e} /\ nextId' = nextId + 1 /\ nextId' \in Nat
      /\ UNCHANGED <<l1, pc, rollback, memories, cycles, restarts, replaced, forgotten,
                     overwritten>>
      /\ InHand \subseteq InHand' \cup {e.node.m}
      /\ pc = "demote" /\ cycles # 0
  BY DemotionFrame DEF DemotePresent, DemoteFull
<1>2. /\ UNCHANGED <<index, disk, acked>>
      /\ told \subseteq told' /\ dropped \subseteq dropped'
      /\ e.node.m \in told' \cup dropped'
  BY DEF DemotePresent, DemoteFull
<1>3. Accounted \subseteq Accounted'
  BY <1>1, <1>2 DEF Accounted, Archived, Held
<1>4. dropped' # {} => restarts' > 0
  <2>1. CASE DemotePresent(e)
    <3>1. nextId \in DOMAIN index
      BY <2>1 DEF DemotePresent
    <3>2. restarts # 0
      BY <3>1 DEF Inv, Counts, FreshIds
    <3>3. QED
      BY <1>1, <3>2 DEF Inv, Counts
  <2>2. CASE DemoteFull(e)
    BY <1>1, <2>2 DEF DemoteFull, Inv
  <2>3. QED
    BY <2>1, <2>2
<1>5. Counts' /\ FreshIds'
  BY <1>1, <1>2 DEF Inv, Counts, FreshIds
<1>6. DiskWithinIndex' /\ FirstCycleEmpty' /\ AwakeSettled' /\ ArchivedStays'
  BY <1>1, <1>2 DEF Inv, DiskWithinIndex, FirstCycleEmpty, AwakeSettled, ArchivedStays, Archived
<1>7. QED
  BY <1>1, <1>3, <1>4, <1>5, <1>6 DEF Inv

\* The index grows by the memory; the file follows it, or the failure is told.
LEMMA DemoteKeeps ==
    ASSUME Inv, NEW e \in evicted, Demote(e) \/ DemoteFlushFails(e)
    PROVE  Inv'
<1>1. /\ evicted' = evicted \ {e} /\ nextId' = nextId + 1 /\ nextId' \in Nat
      /\ UNCHANGED <<l1, pc, rollback, memories, cycles, restarts, replaced, forgotten,
                     overwritten>>
      /\ InHand \subseteq InHand' \cup {e.node.m}
      /\ pc = "demote" /\ cycles # 0
  BY DemotionFrame DEF Demote, DemoteFlushFails
<1>2. /\ nextId \notin DOMAIN index
      /\ index' = With(index, nextId, e)
      /\ UNCHANGED dropped
      /\ \/ disk' = index' /\ acked' = acked \cup {e.node.m} /\ UNCHANGED told
         \/ told' = told \cup {e.node.m} /\ UNCHANGED <<disk, acked>>
  BY DEF Demote, DemoteFlushFails, Room
<1>3. /\ DOMAIN index' = DOMAIN index \cup {nextId}
      /\ index'[nextId] = e
      /\ \A i \in DOMAIN index : index'[i] = index[i]
  BY <1>2 DEF With
<1>4. Archived(index') = Archived(index) \cup {e.node.m}
  BY <1>3 DEF Archived
<1>5. Accounted \subseteq Accounted'
  BY <1>1, <1>2, <1>4 DEF Accounted, Held
<1>6. Counts' /\ FreshIds'
  BY <1>1, <1>2, <1>3 DEF Inv, Counts, FreshIds
<1>7. DiskWithinIndex' /\ ArchivedStays'
  <2>1. CASE disk' = index' /\ acked' = acked \cup {e.node.m} /\ UNCHANGED told
    <3>1. DiskWithinIndex'
      BY <2>1 DEF DiskWithinIndex
    <3>2. Archived(disk) \subseteq Archived(index)
      BY DEF Inv, DiskWithinIndex, Archived
    <3>3. ArchivedStays'
      BY <1>4, <2>1, <3>2 DEF Inv, ArchivedStays
    <3>4. QED
      BY <3>1, <3>3
  <2>2. CASE told' = told \cup {e.node.m} /\ UNCHANGED <<disk, acked>>
    <3>1. DiskWithinIndex'
      BY <1>3, <1>4, <2>2 DEF Inv, DiskWithinIndex
    <3>2. ArchivedStays'
      BY <2>2 DEF Inv, ArchivedStays
    <3>3. QED
      BY <3>1, <3>2
  <2>3. QED
    BY <1>2, <2>1, <2>2
<1>8. FirstCycleEmpty' /\ AwakeSettled'
  BY <1>1 DEF Inv, FirstCycleEmpty, AwakeSettled
<1>9. QED
  BY <1>1, <1>2, <1>5, <1>6, <1>7, <1>8 DEF Inv

\* Rolled-back nodes overwrite only after a second cycle.
LEMMA ReinsertKeeps ==
    ASSUME Inv, Reinsert
    PROVE  Inv'
<1>1. /\ pc = "demote" /\ evicted = {} /\ pc' = "awake" /\ rollback' = Empty
      /\ overwritten' = overwritten \cup (Held(l1) \ Held(l1'))
      /\ UNCHANGED <<index, disk, nextId, evicted, memories, cycles, restarts, acked, told,
                     replaced, forgotten, dropped>>
  BY DEF Reinsert, counters
<1>2. DOMAIN rollback' = {}
  BY <1>1 DEF Empty
<1>3. Accounted \subseteq Accounted'
  BY <1>1 DEF Accounted, InHand, Archived
<1>4. overwritten' # {} => cycles' > 1
  <2>1. CASE cycles <= 1
    <3>1. RollbackKeys = {}
      BY <2>1 DEF Inv, FirstCycleEmpty, RollbackKeys
    <3>2. DOMAIN l1' = DOMAIN l1 /\ \A k \in DOMAIN l1 : l1'[k] = l1[k]
      BY <3>1 DEF Reinsert
    <3>3. Held(l1') = Held(l1)
      BY <3>2 DEF Held
    <3>4. QED
      BY <1>1, <3>3 DEF Inv
  <2>2. CASE ~(cycles <= 1)
    BY <1>1, <2>2 DEF Inv, Counts
  <2>3. QED
    BY <2>1, <2>2
<1>5. /\ Counts' /\ DiskWithinIndex' /\ FreshIds' /\ FirstCycleEmpty' /\ AwakeSettled'
      /\ ArchivedStays'
  BY <1>1, <1>2 DEF Inv, Counts, DiskWithinIndex, FreshIds, FirstCycleEmpty, AwakeSettled,
                    ArchivedStays, Archived
<1>6. QED
  BY <1>1, <1>3, <1>4, <1>5 DEF Inv

\* What a restart forgets is in L1, in hand, or was told.
LEMMA RestartKeeps ==
    ASSUME Inv, Restart
    PROVE  Inv'
<1>1. /\ restarts' = restarts + 1
      /\ forgotten' = forgotten \cup Held(l1) \cup InHand
      /\ l1' = Empty /\ evicted' = {} /\ rollback' = Empty
      /\ index' = disk /\ nextId' = 0 /\ pc' = "awake"
      /\ UNCHANGED <<disk, memories, cycles, acked, told, replaced, dropped, overwritten>>
  BY DEF Restart, InHand
<1>2. DOMAIN rollback' = {}
  BY <1>1 DEF Empty
<1>3. Archived(index) \subseteq Archived(index') \cup told'
  BY <1>1 DEF Inv, DiskWithinIndex
<1>4. Accounted \subseteq Accounted'
  BY <1>1, <1>3 DEF Accounted
<1>5. Counts' /\ FreshIds' /\ restarts' > 0
  BY <1>1 DEF Inv, Counts, FreshIds
<1>6. DiskWithinIndex' /\ FirstCycleEmpty' /\ AwakeSettled' /\ ArchivedStays'
  BY <1>1, <1>2 DEF Inv, DiskWithinIndex, FirstCycleEmpty, AwakeSettled, ArchivedStays, Archived
<1>7. QED
  BY <1>1, <1>4, <1>5, <1>6 DEF Inv

\* Every step keeps the invariant.
LEMMA StepKeeps == Inv /\ [Next]_vars => Inv'
<1> SUFFICES ASSUME Inv, [Next]_vars PROVE Inv'
  OBVIOUS
<1>1. CASE \E key \in Keys, kind \in Kinds : Insert(key, kind)
  BY <1>1, InsertKeeps
<1>2. CASE Sleep
  BY <1>2, SleepKeeps
<1>3. CASE \E e \in evicted :
             DemotePresent(e) \/ DemoteFull(e) \/ Demote(e) \/ DemoteFlushFails(e)
  BY <1>3, DemoteNothingKeeps, DemoteKeeps
<1>4. CASE Reinsert
  BY <1>4, ReinsertKeeps
<1>5. CASE Restart
  BY <1>5, RestartKeeps
<1>6. CASE UNCHANGED vars
  BY <1>6 DEF vars, Inv, Counts, DiskWithinIndex, FreshIds, FirstCycleEmpty, AwakeSettled,
              ArchivedStays, Accounted, InHand, Held, Archived
<1>7. QED
  BY <1>1, <1>2, <1>3, <1>4, <1>5, <1>6 DEF Next

\* The invariant holds throughout.
LEMMA Invariance == Spec => []Inv
<1>1. Init => Inv
  BY InitInv
<1>2. Inv /\ [Next]_vars => Inv'
  BY StepKeeps
<1>3. QED
  BY <1>1, <1>2, PTL DEF Spec

\* A memory that demote answered Inserted for is in the archive file from then on
\* (L3Archive), whatever later writes fail and wherever a process ends.
THEOREM ArchiveKeepsItsWord == Spec => []ArchivedStays
<1>1. Inv => ArchivedStays
  BY DEF Inv
<1>2. QED
  BY <1>1, Invariance, PTL

\* Every memory is held somewhere or lost in one of the five named ways, of which
\* the two silent ones take a restart and a second cycle
\* (run_maintenance_and_postprocess).
THEOREM EveryLossAccounted == Spec => []LossAccounted
<1>1. Inv => LossAccounted
  BY DEF Inv, LossAccounted, Accounted, InHand
<1>2. QED
  BY <1>1, Invariance, PTL
=============================================================================
