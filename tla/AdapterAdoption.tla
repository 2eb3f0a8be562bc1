--------------------------- MODULE AdapterAdoption ---------------------------
(***************************************************************************)
(* How weights the agent trained for itself come to be served: the adapter *)
(* library (crates/finetune/src/library.rs), filled by sleep-phase         *)
(* consolidation (crates/vita/src/consolidation.rs), the evaluation half   *)
(* of the adoption gate (adoption.rs), the operator's approval queue       *)
(* (crates/lifecycle), and the console that settles a proposal in the      *)
(* queue and then, under another lock, in the library                      *)
(* (crates/console/src/server.rs).                                         *)
(*                                                                         *)
(* Threads: the loop, which trains; console connections; and the callers   *)
(* the library is written for, who at this commit are its tests: the       *)
(* evaluators, which judge an artifact and propose it, and the router,     *)
(* which mounts.  Each step holds one lock.  An artifact is abstracted to  *)
(* its weights_digest; whether it is a baked variant depends on its id.    *)
(***************************************************************************)
EXTENDS Naturals, FiniteSets

CONSTANTS
    Adapters,        \* adapter ids
    Digests,         \* weights digests
    Baked,           \* the ids whose method yields a baked variant
    MountIds,        \* (tier, model) mount points
    Capacity,        \* capacity of the library
    RejectWhenFull,  \* EvictionPolicy::RejectWhenFull rather than OldestFirst
    Evaluators,      \* threads that evaluate and propose
    Consoles,        \* console connections
    None

ASSUME CapacityAssumption == Capacity \in Nat \ {0}
ASSUME PolicyAssumption == Baked \subseteq Adapters /\ RejectWhenFull \in BOOLEAN
ASSUME NoneAssumption == None \notin Adapters \cup Digests

Decisions == [id : Adapters, digest : Digests, approved : BOOLEAN, recorded : BOOLEAN]

Settlements == [id : Adapters, digest : Digests, approve : BOOLEAN]

ASSUME NoneRecordAssumption == None \notin Decisions \cup Settlements

VARIABLES
    adapters,          \* the digest registered under each id, or None
    adopted,           \* the digest the automated gate cleared, or None
    operatorApproved,  \* the digest the operator signed off, or None
    mounts,            \* the adapter at each mount point, or None
    decision,          \* the decision each evaluator holds, or None
    proposals,         \* the queue: status of the proposal id@digest
    settling,          \* what a console settled in the queue and not yet in the library
    served             \* history: the digest that was mounted

vars == <<adapters, adopted, operatorApproved, mounts, decision, proposals, settling, served>>

Init ==
    /\ adapters = [a \in Adapters |-> None]
    /\ adopted = [a \in Adapters |-> None]
    /\ operatorApproved = [a \in Adapters |-> None]
    /\ mounts = [m \in MountIds |-> None]
    /\ decision = [e \in Evaluators |-> None]
    /\ proposals = [a \in Adapters |-> [d \in Digests |-> "none"]]
    /\ settling = [c \in Consoles |-> None]
    /\ served = [m \in MountIds |-> None]

Registered == {a \in Adapters : adapters[a] # None}

Mounted(a) == \E m \in MountIds : mounts[m] = a

\* One of the maps of the library without the entries of the ids in `gone`.
Forget(map, gone) == [a \in Adapters |-> IF a \in gone THEN None ELSE map[a]]

Unmounting(a) ==
    /\ mounts' = [m \in MountIds |-> IF mounts[m] = a THEN None ELSE mounts[m]]
    /\ served' = [m \in MountIds |-> IF mounts[m] = a THEN None ELSE served[m]]

-----------------------------------------------------------------------------
(* AdapterLibrary::register, called by run_consolidation *)

\* evict_one: the oldest entry that is not mounted.  created_at_ns is the
\* trainer's clock (the fixture trainer stamps a constant), so any unpinned
\* entry may be the oldest.
Victims == IF RejectWhenFull THEN {} ELSE {v \in Registered : ~Mounted(v)}

\* Mutant: one entry too many before the first eviction.
MustEvictLate(a) == a \notin Registered /\ Cardinality(Registered) > Capacity

MustEvict(a) == a \notin Registered /\ Cardinality(Registered) >= Capacity

\* Any registration of an id takes its clearances and its mounts away; then
\* the weights go in, in place, in a free slot, or in the slot of a victim.
Register(a, d) ==
    /\ \E gone \in (IF MustEvict(a) THEN {{v} : v \in Victims} ELSE {{}}) :
          /\ adapters' = [Forget(adapters, gone) EXCEPT ![a] = d]
          /\ adopted' = Forget(adopted, gone \cup {a})
          /\ operatorApproved' = Forget(operatorApproved, gone \cup {a})
    /\ Unmounting(a)
    /\ UNCHANGED <<decision, proposals, settling>>

\* The library is full and nothing may go: the error is dropped, the audit
\* entry still says registered.
TurnedAway(a) ==
    /\ MustEvict(a) /\ Victims = {}
    /\ adopted' = Forget(adopted, {a})
    /\ operatorApproved' = Forget(operatorApproved, {a})
    /\ Unmounting(a)
    /\ UNCHANGED <<adapters, decision, proposals, settling>>

-----------------------------------------------------------------------------
(* The evaluators *)

\* decide_adoption on the artifact that is registered now.
Decide(e, a, approved) ==
    /\ decision[e] = None
    /\ a \in Registered
    /\ decision' = [decision EXCEPT ![e] = [id |-> a, digest |-> adapters[a],
                                            approved |-> approved, recorded |-> FALSE]]
    /\ UNCHANGED <<adapters, adopted, operatorApproved, mounts, proposals, settling, served>>

\* Mutant: a rejected re-evaluation leaves the live mount alone.
RevokeOnly(a) ==
    /\ adopted' = Forget(adopted, {a})
    /\ operatorApproved' = Forget(operatorApproved, {a})
    /\ UNCHANGED <<mounts, served>>

\* The rejecting branch of record_adoption.
Revoke(a) ==
    /\ adopted' = Forget(adopted, {a})
    /\ operatorApproved' = Forget(operatorApproved, {a})
    /\ Unmounting(a)

\* record_adoption: ignored unless it is about the weights registered now.
RecordAdoption(e) ==
    /\ decision[e] # None /\ ~decision[e].recorded
    /\ decision' = [decision EXCEPT ![e].recorded = TRUE]
    /\ LET a == decision[e].id
           d == decision[e].digest
       IN  \/ /\ adapters[a] # d
              /\ UNCHANGED <<adopted, operatorApproved, mounts, served>>
           \/ /\ adapters[a] = d /\ decision[e].approved
              /\ adopted' = [adopted EXCEPT ![a] = d]
              /\ UNCHANGED <<operatorApproved, mounts, served>>
           \/ /\ adapters[a] = d /\ ~decision[e].approved
              /\ Revoke(a)
    /\ UNCHANGED <<adapters, proposals, settling>>

\* adapter_adoption_to_proposal on the artifact evaluated or on the one that
\* is registered by now, then ApprovalQueue::enqueue, which leaves a proposal
\* with the same id, decided or not, as it is.
Propose(e, artifact) ==
    /\ decision[e] # None /\ decision[e].recorded
    /\ LET a == decision[e].id
           d == decision[e].digest
           fits == decision[e].approved /\ artifact = d /\ a \notin Baked
       IN  /\ artifact \in {d, adapters[a]}
           /\ proposals' = IF fits /\ proposals[a][d] = "none"
                           THEN [proposals EXCEPT ![a][d] = "Pending"] ELSE proposals
    /\ decision' = [decision EXCEPT ![e] = None]
    /\ UNCHANGED <<adapters, adopted, operatorApproved, mounts, settling, served>>

-----------------------------------------------------------------------------
(* The console *)

\* serve_approval_action under the queue lock: only a pending proposal can be
\* approved or rejected.
Settle(c, a, d, approve) ==
    /\ settling[c] = None
    /\ proposals[a][d] = "Pending"
    /\ proposals' = [proposals EXCEPT ![a][d] = IF approve THEN "Approved" ELSE "Rejected"]
    /\ settling' = [settling EXCEPT ![c] = [id |-> a, digest |-> d, approve |-> approve]]
    /\ UNCHANGED <<adapters, adopted, operatorApproved, mounts, decision, served>>

\* Mutant: the sign-off is recorded for whatever is registered under the id.
SignOffAnything(a, d) ==
    operatorApproved' = IF adapters[a] # None THEN [operatorApproved EXCEPT ![a] = d]
                        ELSE operatorApproved

\* record_operator_approval: ignored unless it is about the registered weights.
SignOff(a, d) ==
    operatorApproved' = IF adapters[a] = d THEN [operatorApproved EXCEPT ![a] = d]
                        ELSE operatorApproved

\* revoke_operator_approval: ignored unless this digest is the approved one.
Withdraw(a, d) ==
    IF operatorApproved[a] = d
    THEN operatorApproved' = Forget(operatorApproved, {a}) /\ Unmounting(a)
    ELSE UNCHANGED <<operatorApproved, mounts, served>>

\* serve_approval_action under the library lock.
SettleInLibrary(c) ==
    /\ settling[c] # None
    /\ LET a == settling[c].id
           d == settling[c].digest
       IN  \/ settling[c].approve /\ SignOff(a, d) /\ UNCHANGED <<mounts, served>>
           \/ ~settling[c].approve /\ Withdraw(a, d)
    /\ settling' = [settling EXCEPT ![c] = None]
    /\ UNCHANGED <<adapters, adopted, decision, proposals>>

-----------------------------------------------------------------------------
(* The router *)

IsAdopted(a) == adopted[a] # None /\ adopted[a] = adapters[a]

IsOperatorApproved(a) == operatorApproved[a] # None /\ operatorApproved[a] = adapters[a]

\* mount_gated: both halves of the gate, then mount, which refuses a baked variant.
MountGated(m, a) ==
    /\ a \in Registered
    /\ IsAdopted(a) /\ IsOperatorApproved(a)
    /\ a \notin Baked
    /\ mounts' = [mounts EXCEPT ![m] = a]
    /\ served' = [served EXCEPT ![m] = adapters[a]]
    /\ UNCHANGED <<adapters, adopted, operatorApproved, decision, proposals, settling>>

Unmount(m) ==
    /\ mounts[m] # None
    /\ mounts' = [mounts EXCEPT ![m] = None]
    /\ served' = [served EXCEPT ![m] = None]
    /\ UNCHANGED <<adapters, adopted, operatorApproved, decision, proposals, settling>>

Next ==
    \/ \E a \in Adapters, d \in Digests : Register(a, d)
    \/ \E a \in Adapters : TurnedAway(a)
    \/ \E e \in Evaluators, a \in Adapters, approved \in BOOLEAN : Decide(e, a, approved)
    \/ \E e \in Evaluators : RecordAdoption(e)
    \/ \E e \in Evaluators, artifact \in Digests : Propose(e, artifact)
    \/ \E c \in Consoles, a \in Adapters, d \in Digests, approve \in BOOLEAN :
          Settle(c, a, d, approve)
    \/ \E c \in Consoles : SettleInLibrary(c)
    \/ \E m \in MountIds, a \in Adapters : MountGated(m, a)
    \/ \E m \in MountIds : Unmount(m)

Spec == Init /\ [][Next]_vars

-----------------------------------------------------------------------------
(* Properties *)

Status == {"none", "Pending", "Approved", "Rejected"}

\* Types of the library, the queue and the threads' locals.
TypeOK ==
    /\ adapters \in [Adapters -> Digests \cup {None}]
    /\ adopted \in [Adapters -> Digests \cup {None}]
    /\ operatorApproved \in [Adapters -> Digests \cup {None}]
    /\ mounts \in [MountIds -> Adapters \cup {None}]
    /\ decision \in [Evaluators -> Decisions \cup {None}]
    /\ proposals \in [Adapters -> [Digests -> Status]]
    /\ settling \in [Consoles -> Settlements \cup {None}]
    /\ served \in [MountIds -> Digests \cup {None}]

\* mount_gated: "self-trained weights never reach a serving tier on automated
\* clearance alone" - and they leave it as soon as either clearance goes.
\* What a mount point serves is what was mounted there, is still registered,
\* passed evaluation, and was approved by the operator, digest for digest,
\* however training, evaluation and two consoles interleave.
ServedCleared ==
    \A m \in MountIds :
        LET a == mounts[m] IN
        a # None =>
            /\ served[m] = adapters[a] /\ adapters[a] # None
            /\ adopted[a] = adapters[a]
            /\ operatorApproved[a] = adapters[a]
            /\ proposals[a][adapters[a]] = "Approved"

\* register: the library never holds more than its capacity.
WithinCapacity == Cardinality(Registered) <= Capacity

\* A step that takes a current sign-off away has one of three reasons.
SignOffKept ==
    \A a \in Adapters :
        IsOperatorApproved(a) /\ operatorApproved'[a] # operatorApproved[a] =>
            \/ \E d \in Digests : Register(a, d)
            \/ adapters'[a] = None
            \/ \E e \in Evaluators : RecordAdoption(e) /\ decision[e].id = a
                  /\ decision[e].digest = adapters[a] /\ ~decision[e].approved

\* A sign-off that stands for the registered weights goes only with them (they
\* are replaced or evicted) or when an evaluation rejects exactly these
\* weights: settling a stale proposal of the same adapter, either way, never
\* takes it down (the reason record_operator_approval and
\* revoke_operator_approval give for comparing digests).
SignOffStands == [][SignOffKept]_vars
=============================================================================
