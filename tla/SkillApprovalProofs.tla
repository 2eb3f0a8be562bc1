------------------------ MODULE SkillApprovalProofs ------------------------
(***************************************************************************)
(* Proofs about SkillApproval, for every set of tools, every setting of    *)
(* the reflection and every mix of deciders.                               *)
(***************************************************************************)
EXTENDS SkillApproval, TLAPS

States == {"absent", "proposed", "active", "quarantined", "rolledback"}
Statuses == {"absent", "pending", "approved", "rejected", "rolledback"}

\* With auto-promotion no skill is ever Proposed, so none is handed over.
NothingToHandOver ==
    AutoPromote =>
        /\ batch = {}
        /\ \A s \in Skills : registry[s] # "proposed" /\ proposals[s] = "absent"

\* A withdrawn skill rests in a retired state, and its proposal, which only an
\* auto-promoted skill never had, cannot be approved any more.
WithdrawnSettled ==
    \A s \in withdrawn :
        /\ registry[s] \in {"quarantined", "rolledback"}
        /\ proposals[s] # "pending"
        /\ proposals[s] = "absent" => AutoPromote

Inv == TypeOK /\ ActiveOnlyApproved /\ NothingToHandOver /\ WithdrawnSettled

\* The initial state has no skill and no proposal.
LEMMA InitInv == Init => Inv
<1> SUFFICES ASSUME Init PROVE Inv
  OBVIOUS
<1>1. TypeOK
  <2>1. episodes \in Seq(SUBSET Tools)
    BY DEF Init
  <2>2. QED
    BY <2>1 DEF Init, TypeOK
<1>2. ActiveOnlyApproved /\ NothingToHandOver /\ WithdrawnSettled
  BY DEF Init, ActiveOnlyApproved, NothingToHandOver, WithdrawnSettled
<1>3. QED
  BY <1>1, <1>2 DEF Inv

\* Episodes, dreams and panics touch no proposal; a dream adds absent skills.
LEMMA AgentKeeps ==
    ASSUME Inv,
           \/ \E used \in SUBSET Tools : RecordEpisode(used)
           \/ Dream
           \/ \E lock \in Locks : Poison(lock)
    PROVE  Inv'
<1> USE DEF Inv
<1>1. ASSUME NEW used \in SUBSET Tools, RecordEpisode(used) PROVE Inv'
  <2>1. episodes' \in Seq(SUBSET Tools)
    BY <1>1 DEF RecordEpisode, TypeOK
  <2>2. UNCHANGED <<registry, proposals, tracked, batch, telling, asked, poisoned, withdrawn>>
    BY <1>1 DEF RecordEpisode, drainer
  <2>3. QED
    BY <2>1, <2>2 DEF TypeOK, ActiveOnlyApproved, NothingToHandOver, WithdrawnSettled
<1>2. ASSUME Dream PROVE Inv'
  <2>1. UNCHANGED <<episodes, proposals, tracked, batch, telling, asked, poisoned, withdrawn>>
    BY <1>2 DEF Dream, drainer
  <2>2. /\ registry' \in [Skills -> States]
        /\ \A s \in Skills :
             \/ registry'[s] = registry[s]
             \/ registry[s] = "absent" /\ registry'[s] = InitialState
    BY <1>2 DEF Dream, TypeOK, InitialState, States
  <2>3. TypeOK'
    BY <2>1, <2>2 DEF TypeOK, States
  <2>4. ActiveOnlyApproved'
    BY <2>1, <2>2 DEF ActiveOnlyApproved, InitialState
  <2>5. NothingToHandOver'
    BY <2>1, <2>2 DEF NothingToHandOver, InitialState
  <2>6. WithdrawnSettled'
    BY <2>1, <2>2 DEF WithdrawnSettled, TypeOK
  <2>7. QED
    BY <2>3, <2>4, <2>5, <2>6
<1>3. ASSUME NEW lock \in Locks, Poison(lock) PROVE Inv'
  <2>1. UNCHANGED <<episodes, registry, proposals, tracked, batch, telling, asked, withdrawn>>
    BY <1>3 DEF Poison, drainer
  <2>2. poisoned' \subseteq Locks
    BY <1>3 DEF Poison, TypeOK
  <2>3. QED
    BY <2>1, <2>2 DEF TypeOK, ActiveOnlyApproved, NothingToHandOver, WithdrawnSettled
<1>4. QED
  BY <1>1, <1>2, <1>3

\* The drainer only turns absent proposals into pending ones, for skills that
\* were Proposed when it looked.
LEMMA DrainKeeps ==
    ASSUME Inv, Drain
    PROVE  Inv'
<1> USE DEF Inv
<1>1. CASE DrainSnapshot
  <2>1. /\ batch' \subseteq {s \in Skills : registry[s] = "proposed"}
        /\ UNCHANGED <<episodes, registry, proposals, tracked, telling, asked, poisoned, withdrawn>>
    BY <1>1 DEF DrainSnapshot
  <2>2. TypeOK' /\ ActiveOnlyApproved' /\ WithdrawnSettled'
    BY <2>1 DEF TypeOK, ActiveOnlyApproved, WithdrawnSettled
  <2>3. NothingToHandOver'
    BY <2>1 DEF NothingToHandOver
  <2>4. QED
    BY <2>2, <2>3
<1>2. ASSUME NEW s \in Skills, DrainEnqueue(s) PROVE Inv'
  <2>1. /\ s \in batch /\ batch' = batch \ {s}
        /\ UNCHANGED <<episodes, registry, asked, poisoned, withdrawn>>
    BY <1>2 DEF DrainEnqueue
  <2>2. ~AutoPromote
    BY <2>1 DEF NothingToHandOver
  <2>3. CASE "queue" \notin poisoned /\ proposals[s] = "absent"
    <3>1. /\ proposals' = [proposals EXCEPT ![s] = "pending"]
          /\ tracked' = tracked \cup {s} /\ telling' = {s}
      BY <1>2, <2>3 DEF DrainEnqueue
    <3>2. proposals' \in [Skills -> Statuses]
      BY <3>1 DEF TypeOK, Statuses
    <3>3. tracked' = {r \in Skills : proposals'[r] # "absent"}
      BY <3>1 DEF TypeOK
    <3>4. TypeOK'
      BY <2>1, <3>1, <3>2, <3>3 DEF TypeOK, Statuses
    <3>5. registry[s] # "active"
      BY <2>2, <2>3 DEF ActiveOnlyApproved
    <3>6. ActiveOnlyApproved'
      BY <2>1, <3>1, <3>5 DEF ActiveOnlyApproved, TypeOK
    <3>7. NothingToHandOver' /\ WithdrawnSettled'
      BY <2>1, <2>2, <2>3, <3>1 DEF NothingToHandOver, WithdrawnSettled, TypeOK
    <3>8. QED
      BY <3>4, <3>6, <3>7
  <2>4. CASE ~("queue" \notin poisoned /\ proposals[s] = "absent")
    <3>1. UNCHANGED <<proposals, tracked, telling>>
      BY <1>2, <2>4 DEF DrainEnqueue
    <3>2. TypeOK' /\ ActiveOnlyApproved' /\ WithdrawnSettled' /\ NothingToHandOver'
      BY <2>1, <2>2, <3>1
      DEF TypeOK, ActiveOnlyApproved, WithdrawnSettled, NothingToHandOver
    <3>3. QED
      BY <3>2
  <2>5. QED
    BY <2>3, <2>4
<1>3. CASE DrainAudit
  <2>1. /\ asked' = asked \cup telling /\ telling' = {}
        /\ UNCHANGED <<episodes, registry, proposals, tracked, batch, poisoned, withdrawn>>
    BY <1>3 DEF DrainAudit
  <2>2. QED
    BY <2>1 DEF TypeOK, ActiveOnlyApproved, NothingToHandOver, WithdrawnSettled
<1>4. QED
  BY <1>1, <1>2, <1>3 DEF Drain

\* A decision of the console moves a pending proposal and leaves the registry.
LEMMA ConsoleKeeps ==
    ASSUME Inv, NEW s \in Skills, NEW approve \in BOOLEAN, ConsoleDecide(s, approve)
    PROVE  Inv'
<1> USE DEF Inv
<1>1. /\ proposals[s] = "pending"
      /\ \/ proposals' = [proposals EXCEPT ![s] = "approved"]
         \/ proposals' = [proposals EXCEPT ![s] = "rejected"]
      /\ UNCHANGED <<episodes, registry, tracked, batch, telling, asked, poisoned, withdrawn>>
  BY DEF ConsoleDecide, QueueApprove, QueueReject, drainer
<1>2. /\ proposals' \in [Skills -> Statuses]
      /\ tracked' = {r \in Skills : proposals'[r] # "absent"}
  BY <1>1 DEF TypeOK, Statuses
<1>3. TypeOK'
  BY <1>1, <1>2 DEF TypeOK, Statuses
<1>4. ActiveOnlyApproved'
  BY <1>1 DEF ActiveOnlyApproved, TypeOK
<1>5. NothingToHandOver' /\ WithdrawnSettled'
  BY <1>1 DEF NothingToHandOver, WithdrawnSettled, TypeOK
<1>6. QED
  BY <1>3, <1>4, <1>5

\* The bridge moves queue and registry together.
LEMMA BridgeKeeps ==
    ASSUME Inv, NEW s \in Skills,
           BridgeApprove(s) \/ BridgeReject(s) \/ BridgeRollback(s)
    PROVE  Inv'
<1> USE DEF Inv
<1>1. CASE BridgeApprove(s)
  <2>1. /\ proposals[s] = "pending"
        /\ proposals' = [proposals EXCEPT ![s] = "approved"]
        /\ UNCHANGED <<episodes, tracked, batch, telling, asked, poisoned, withdrawn>>
    BY <1>1 DEF BridgeApprove, QueueApprove, drainer
  <2>2. s \in tracked /\ s \notin withdrawn /\ ~AutoPromote
    BY <2>1 DEF TypeOK, WithdrawnSettled, NothingToHandOver
  <2>3. registry' = [registry EXCEPT ![s] = "active"]
    BY <1>1, <2>2 DEF BridgeApprove
  <2>4. /\ proposals' \in [Skills -> Statuses]
        /\ tracked' = {r \in Skills : proposals'[r] # "absent"}
    BY <2>1 DEF TypeOK, Statuses
  <2>5. registry' \in [Skills -> States]
    BY <2>3 DEF TypeOK, States
  <2>6. TypeOK'
    BY <2>1, <2>4, <2>5 DEF TypeOK, Statuses, States
  <2>7. ActiveOnlyApproved'
    BY <2>1, <2>3 DEF ActiveOnlyApproved, TypeOK
  <2>8. NothingToHandOver' /\ WithdrawnSettled'
    BY <2>1, <2>2, <2>3 DEF NothingToHandOver, WithdrawnSettled, TypeOK
  <2>9. QED
    BY <2>6, <2>7, <2>8
<1>2. CASE BridgeReject(s)
  <2>1. /\ proposals[s] = "pending"
        /\ proposals' = [proposals EXCEPT ![s] = "rejected"]
        /\ UNCHANGED <<episodes, registry, tracked, batch, telling, asked, poisoned, withdrawn>>
    BY <1>2 DEF BridgeReject, QueueReject, drainer
  <2>2. /\ proposals' \in [Skills -> Statuses]
        /\ tracked' = {r \in Skills : proposals'[r] # "absent"}
    BY <2>1 DEF TypeOK, Statuses
  <2>3. TypeOK'
    BY <2>1, <2>2 DEF TypeOK, Statuses
  <2>4. ActiveOnlyApproved' /\ NothingToHandOver' /\ WithdrawnSettled'
    BY <2>1 DEF ActiveOnlyApproved, NothingToHandOver, WithdrawnSettled, TypeOK
  <2>5. QED
    BY <2>3, <2>4
<1>3. CASE BridgeRollback(s)
  <2>1. /\ proposals[s] = "approved"
        /\ proposals' = [proposals EXCEPT ![s] = "rolledback"]
        /\ UNCHANGED <<episodes, tracked, batch, telling, asked, poisoned>>
    BY <1>3 DEF BridgeRollback, QueueRollback, drainer
  <2>2. s \in tracked /\ ~AutoPromote
    BY <2>1 DEF TypeOK, NothingToHandOver
  <2>3. /\ registry' = [registry EXCEPT ![s] = "rolledback"]
        /\ withdrawn' \subseteq withdrawn \cup {s}
    BY <1>3, <2>2 DEF BridgeRollback, Withdraw
  <2>4. /\ proposals' \in [Skills -> Statuses]
        /\ tracked' = {r \in Skills : proposals'[r] # "absent"}
    BY <2>1 DEF TypeOK, Statuses
  <2>5. registry' \in [Skills -> States]
    BY <2>3 DEF TypeOK, States
  <2>6. TypeOK'
    BY <2>1, <2>3, <2>4, <2>5 DEF TypeOK, Statuses, States
  <2>7. ActiveOnlyApproved'
    BY <2>1, <2>3 DEF ActiveOnlyApproved, TypeOK
  <2>8. NothingToHandOver' /\ WithdrawnSettled'
    BY <2>1, <2>2, <2>3 DEF NothingToHandOver, WithdrawnSettled, TypeOK
  <2>9. QED
    BY <2>6, <2>7, <2>8
<1>4. QED
  BY <1>1, <1>2, <1>3

\* Retiring skills takes them out of service; an active one had its proposal
\* approved, or never had one.
LEMMA RetireKeeps ==
    ASSUME Inv, NEW skills \in SUBSET Skills,
           NEW state \in {"quarantined", "rolledback"}, Retire(skills, state)
    PROVE  Inv'
<1> USE DEF Inv
<1>1. /\ registry' = [s \in Skills |-> IF s \in skills THEN state ELSE registry[s]]
      /\ withdrawn' = withdrawn \cup {s \in skills : registry[s] = "active"}
      /\ UNCHANGED <<episodes, proposals, tracked, batch, telling, asked, poisoned>>
  BY DEF Retire, Withdraw, drainer
<1>2. registry' \in [Skills -> States]
  BY <1>1 DEF TypeOK, States
<1>3. TypeOK'
  BY <1>1, <1>2 DEF TypeOK, States
<1>4. ActiveOnlyApproved'
  BY <1>1 DEF ActiveOnlyApproved
<1>5. NothingToHandOver'
  BY <1>1 DEF NothingToHandOver
<1>6. WithdrawnSettled'
  <2> SUFFICES ASSUME NEW s \in withdrawn'
               PROVE  /\ registry'[s] \in {"quarantined", "rolledback"}
                      /\ proposals'[s] # "pending"
                      /\ proposals'[s] = "absent" => AutoPromote
    BY DEF WithdrawnSettled
  <2>1. CASE s \in withdrawn
    BY <1>1, <2>1 DEF WithdrawnSettled, TypeOK
  <2>2. CASE s \in skills /\ registry[s] = "active"
    BY <1>1, <2>2 DEF ActiveOnlyApproved, NothingToHandOver
  <2>3. QED
    BY <1>1, <2>1, <2>2
<1>7. QED
  BY <1>3, <1>4, <1>5, <1>6

\* Every step keeps the invariant.
LEMMA StepKeeps == Inv /\ [Next]_vars => Inv'
<1> SUFFICES ASSUME Inv, [Next]_vars PROVE Inv'
  OBVIOUS
<1>1. CASE \/ \E used \in SUBSET Tools : RecordEpisode(used)
           \/ Dream
           \/ \E lock \in Locks : Poison(lock)
  BY <1>1, AgentKeeps
<1>2. CASE Drain
  BY <1>2, DrainKeeps
<1>3. CASE \E s \in Skills, approve \in BOOLEAN : ConsoleDecide(s, approve)
  BY <1>3, ConsoleKeeps
<1>4. CASE \E s \in Skills : BridgeApprove(s) \/ BridgeReject(s) \/ BridgeRollback(s)
  BY <1>4, BridgeKeeps
<1>5. CASE \E s \in Skills : Quarantine(s) \/ Rollback(s)
  <2>1. PICK s \in Skills : Quarantine(s) \/ Rollback(s)
    BY <1>5
  <2>2. {s} \in SUBSET Skills
    OBVIOUS
  <2>3. QED
    BY <2>1, <2>2, RetireKeeps DEF Quarantine, Rollback
<1>6. CASE KillSwitch
  <2>1. {s \in Skills : registry[s] = "active"} \in SUBSET Skills
    OBVIOUS
  <2>2. QED
    BY <1>6, <2>1, RetireKeeps DEF KillSwitch
<1>7. CASE UNCHANGED vars
  BY <1>7 DEF vars, Inv, TypeOK, ActiveOnlyApproved, NothingToHandOver, WithdrawnSettled
<1>8. QED
  BY <1>1, <1>2, <1>3, <1>4, <1>5, <1>6, <1>7 DEF Next

\* The invariant holds throughout.
LEMMA Invariance == Spec => []Inv
<1>1. Init => Inv
  BY InitInv
<1>2. Inv /\ [Next]_vars => Inv'
  BY StepKeeps
<1>3. QED
  BY <1>1, <1>2, PTL DEF Spec

\* The registry, the queue and the drainer stay well typed, and the bridge tracks
\* exactly the skills that have a proposal (SkillApprovalBridge).
THEOREM TypeCorrect == Spec => []TypeOK
<1>1. Inv => TypeOK
  BY DEF Inv
<1>2. QED
  BY <1>1, Invariance, PTL

\* With auto-promotion off an agent's skill is active only while the operator's
\* approval of it stands (evaluate_skill_proposal, SkillApprovalBridge).
THEOREM OnlyApprovedActive == Spec => []ActiveOnlyApproved
<1>1. Inv => ActiveOnlyApproved
  BY DEF Inv
<1>2. QED
  BY <1>1, Invariance, PTL

\* A skill that was in service and was quarantined, rolled back or killed never
\* becomes active again (SkillRegistry, whose promote does not look at the state).
THEOREM WithdrawnForGood == Spec => []WithdrawnStaysOut
<1>1. Inv => WithdrawnStaysOut
  BY DEF Inv, WithdrawnSettled, WithdrawnStaysOut
<1>2. QED
  BY <1>1, Invariance, PTL
=============================================================================
