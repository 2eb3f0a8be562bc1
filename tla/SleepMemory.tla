----------------------------- MODULE SleepMemory -----------------------------
(***************************************************************************)
(* The memory side of a sleep cycle: LifecycleManager::                    *)
(* run_maintenance_and_postprocess (crates/vita/src/lib.rs) over the L1     *)
(* store (memory/pruning.rs), the file-backed L3 archive                   *)
(* (memory/archival.rs) and the replay validation (memory/replay.rs).      *)
(*                                                                         *)
(* A cycle prunes L1, validates the archive as it was before, demotes what *)
(* was pruned one node at a time - each demotion rewrites the archive file *)
(* - and puts back into L1 what the validation rolled back.  The process   *)
(* may end between any two of these.                                       *)
(*                                                                         *)
(* A node's kind stands for its parameters: nodes of one kind have the     *)
(* same embedding, and decay the same way.  Its number says which memory   *)
(* it is.                                                                  *)
(***************************************************************************)
EXTENDS Naturals, FiniteSets, FiniteSetsExt, Functions

CONSTANTS
    Keys,
    Kinds,
    Fading,      \* kinds at or below the floor after pruning_elapsed
    Tuned,       \* kinds whose sigma is not the default
    Plain,       \* the kind a tuned node decodes to
    Capacity,    \* capacity of the archive
    SampleSize,  \* max_sample_size
    Threshold,   \* accuracy_threshold, in percent
    MaxMemories, MaxCycles, MaxRestarts, MaxFaults  \* bounds

ASSUME ConstantsAssumption ==
    /\ Fading \subseteq Kinds /\ Tuned \subseteq Kinds /\ Plain \in Kinds \ Tuned
    /\ {Capacity, SampleSize, Threshold} \subseteq Nat
    /\ {MaxMemories, MaxCycles, MaxRestarts, MaxFaults} \subseteq Nat

VARIABLES
    l1,         \* L1PruningStore: key -> node
    index,      \* L3Archive::index: id -> entry
    disk,       \* the archive file
    nextId,     \* next_archive_id
    pc,
    evicted,    \* evicted_l1_nodes still to be demoted
    rollback,   \* replay_rollback_nodes, by archive id
    memories, cycles, restarts, faults,
    acked,      \* history: memories demote answered Inserted for
    told,       \* history: memories whose demotion was reported as failed
    replaced,   \* history: memories a later insert replaced under their key
    forgotten,  \* history: memories in L1 or in hand when the process ended
    dropped,    \* history: memories demote answered AlreadyPresent for
    overwritten \* history: memories a rolled-back node replaced under their key

vars == <<l1, index, disk, nextId, pc, evicted, rollback, memories, cycles,
          restarts, faults, acked, told, replaced, forgotten, dropped, overwritten>>

counters == <<memories, cycles, restarts, faults>>

Node(m, kind) == [m |-> m, kind |-> kind]
Entry(key, node) == [key |-> key, node |-> node]
Empty == [x \in {} |-> x]

Init ==
    /\ l1 = Empty /\ index = Empty /\ disk = Empty
    /\ nextId = 0
    /\ pc = "awake" /\ evicted = {} /\ rollback = Empty
    /\ memories = 0 /\ cycles = 0 /\ restarts = 0 /\ faults = 0
    /\ acked = {} /\ told = {} /\ replaced = {}
    /\ forgotten = {} /\ dropped = {} /\ overwritten = {}

\* The function with x mapped to y.
With(f, x, y) == [z \in DOMAIN f \cup {x} |-> IF z = x THEN y ELSE f[z]]

\* The memories a store holds.
Held(f) == {f[x].m : x \in DOMAIN f}
Archived(f) == {f[i].node.m : i \in DOMAIN f}

-----------------------------------------------------------------------------
(* L1 *)

\* L1PruningStore::insert.
Insert(key, kind) ==
    /\ pc = "awake"
    /\ memories < MaxMemories
    /\ memories' = memories + 1
    /\ l1' = With(l1, key, Node(memories + 1, kind))
    /\ replaced' = replaced \cup IF key \in DOMAIN l1 THEN {l1[key].m} ELSE {}
    /\ UNCHANGED <<index, disk, nextId, pc, evicted, rollback, cycles, restarts,
                   faults, acked, told, forgotten, dropped, overwritten>>

-----------------------------------------------------------------------------
(* The cycle *)

\* run_replay_validation: the entries with the lowest ids, each looked up by its
\* own embedding.  search breaks ties by the lowest id.
Sample == {i \in DOMAIN index : Cardinality({j \in DOMAIN index : j < i}) < SampleSize}
Retrieved(i) ==
    \A j \in DOMAIN index : index[j].node.kind = index[i].node.kind => i <= j

\* decode_node_from_payload: sigma is not in the payload.
Decoded(node) == [node EXCEPT !.kind = IF @ \in Tuned THEN Plain ELSE @]

\* The failed entries, when the accuracy is below the threshold.
RolledBack ==
    LET failed == {i \in Sample : ~Retrieved(i)}
        validated == Cardinality(Sample) - Cardinality(failed)
    IN IF 100 * validated < Threshold * Cardinality(Sample)
       THEN [i \in failed |-> Entry(index[i].key, Decoded(index[i].node))]
       ELSE Empty

Pruned == {key \in DOMAIN l1 : l1[key].kind \in Fading}

\* run_maintenance_audited: pruning, then replay.  The dream walk and the
\* compilation only read.
Sleep ==
    /\ pc = "awake"
    /\ cycles < MaxCycles
    /\ cycles' = cycles + 1
    /\ evicted' = {Entry(key, l1[key]) : key \in Pruned}
    /\ l1' = Restrict(l1, DOMAIN l1 \ Pruned)
    /\ rollback' = RolledBack
    /\ pc' = "demote"
    /\ UNCHANGED <<index, disk, nextId, memories, restarts, faults, acked, told,
                   replaced, forgotten, dropped, overwritten>>

\* One turn of the demotion loop: an id is taken whatever happens to it.
Demotion(e) ==
    /\ pc = "demote"
    /\ e \in evicted
    /\ evicted' = evicted \ {e}
    /\ nextId' = nextId + 1
    /\ UNCHANGED <<l1, pc, rollback, memories, cycles, restarts, replaced, forgotten,
                   overwritten>>

\* The id is in the archive: Ok(AlreadyPresent), and nothing is said.
DemotePresent(e) ==
    /\ Demotion(e)
    /\ nextId \in DOMAIN index
    /\ dropped' = dropped \cup {e.node.m}
    /\ UNCHANGED <<index, disk, faults, acked, told>>

Room == nextId \notin DOMAIN index /\ Cardinality(DOMAIN index) < Capacity

\* Mutant: the Result is swallowed.
DemoteFullSilently(e) ==
    /\ Demotion(e)
    /\ nextId \notin DOMAIN index /\ ~Room
    /\ UNCHANGED <<index, disk, faults, acked, told, dropped>>

DemoteFull(e) ==
    /\ Demotion(e)
    /\ nextId \notin DOMAIN index /\ ~Room
    /\ told' = told \cup {e.node.m}
    /\ UNCHANGED <<index, disk, faults, acked, dropped>>

\* Mutant: the snapshot is taken before the insertion.
DemoteStaleSnapshot(e) ==
    /\ Demotion(e)
    /\ Room
    /\ index' = With(index, nextId, e)
    /\ disk' = index
    /\ acked' = acked \cup {e.node.m}
    /\ UNCHANGED <<faults, told, dropped>>

\* Inserted, and the whole archive written to its file.
Demote(e) ==
    /\ Demotion(e)
    /\ Room
    /\ index' = With(index, nextId, e)
    /\ disk' = index'
    /\ acked' = acked \cup {e.node.m}
    /\ UNCHANGED <<faults, told, dropped>>

\* The write fails: reported as not archived, and kept in the index.
DemoteFlushFails(e) ==
    /\ Demotion(e)
    /\ Room
    /\ faults < MaxFaults
    /\ faults' = faults + 1
    /\ index' = With(index, nextId, e)
    /\ told' = told \cup {e.node.m}
    /\ UNCHANGED <<disk, acked, dropped>>

\* The rolled-back nodes go back into L1 under their old keys, in order of id.
Reinserted(key) ==
    rollback[Max({i \in DOMAIN rollback : rollback[i].key = key})].node
RollbackKeys == {rollback[i].key : i \in DOMAIN rollback}

Reinsert ==
    /\ pc = "demote" /\ evicted = {}
    /\ l1' = [key \in DOMAIN l1 \cup RollbackKeys |->
                IF key \in RollbackKeys THEN Reinserted(key) ELSE l1[key]]
    /\ overwritten' = overwritten \cup (Held(l1) \ Held(l1'))
    /\ rollback' = Empty
    /\ pc' = "awake"
    /\ UNCHANGED <<index, disk, nextId, evicted, counters, acked, told, replaced,
                   forgotten, dropped>>

\* The process ends and starts again: LifecycleManager::new, L3Archive::open.
Restart ==
    /\ restarts < MaxRestarts
    /\ restarts' = restarts + 1
    /\ forgotten' = forgotten \cup Held(l1) \cup {e.node.m : e \in evicted}
    /\ l1' = Empty /\ evicted' = {} /\ rollback' = Empty
    /\ index' = disk
    /\ nextId' = 0
    /\ pc' = "awake"
    /\ UNCHANGED <<disk, memories, cycles, faults, acked, told, replaced, dropped,
                   overwritten>>

Next ==
    \/ \E key \in Keys, kind \in Kinds : Insert(key, kind)
    \/ Sleep
    \/ \E e \in evicted :
         DemotePresent(e) \/ DemoteFull(e) \/ Demote(e) \/ DemoteFlushFails(e)
    \/ Reinsert
    \/ Restart

Spec == Init /\ [][Next]_vars

-----------------------------------------------------------------------------
(* Properties *)

Nodes == [m : 1..MaxMemories, kind : Kinds]
Entries == [key : Keys, node : Nodes]

\* Types of the stores.
TypeOK ==
    /\ DOMAIN l1 \subseteq Keys /\ \A key \in DOMAIN l1 : l1[key] \in Nodes
    /\ DOMAIN index \subseteq Nat /\ \A i \in DOMAIN index : index[i] \in Entries
    /\ DOMAIN disk \subseteq Nat /\ \A i \in DOMAIN disk : disk[i] \in Entries
    /\ evicted \subseteq Entries /\ nextId \in Nat
    /\ \A i \in DOMAIN rollback : rollback[i] \in Entries

\* "The archive survives process restarts" (L3Archive): a memory that demote
\* answered Inserted for is in the file from then on, through failed writes of
\* later demotions and a process that ends in the middle of a cycle.
ArchivedStays == acked \subseteq Archived(disk)

\* "Don't silently drop the memory" (run_maintenance_and_postprocess): each
\* memory is in L1, on its way, or in the archive, or its loss was reported, or a
\* later memory took its key, or the process ended with it in memory.  Two more
\* ways to lose one are silent: a demotion under an id the archive has, which
\* takes a restart, and a rolled-back node that replaces a newer one under its
\* key, which takes a second cycle.
LossAccounted ==
    /\ 1..memories \subseteq
         Held(l1) \cup {e.node.m : e \in evicted} \cup Archived(index)
         \cup told \cup replaced \cup forgotten \cup dropped \cup overwritten
    /\ dropped # {} => restarts > 0
    /\ overwritten # {} => cycles > 1
=============================================================================
