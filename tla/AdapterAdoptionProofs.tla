------------------------ MODULE AdapterAdoptionProofs ------------------------
(***************************************************************************)
(* Proofs about AdapterAdoption, for any number of adapters, digests,      *)
(* mount points, evaluators and console connections.                       *)
(*                                                                         *)
(* ServedCleared is not inductive: a sign-off reaches the library in a     *)
(* step of its own, after the queue.  ClearanceInv adds what the           *)
(* library's two clearance maps hold (only the digest registered now, and  *)
(* for the operator's map only a digest the queue has approved) and what a *)
(* console carries from the queue to the library.                          *)
(***************************************************************************)
EXTENDS AdapterAdoption, FiniteSetTheorems, TLAPS

\* A clearance is for the registered weights, and an operator's for weights
\* whose proposal is approved in the queue.
ClearancesCurrent ==
    \A a \in Adapters :
        /\ adopted[a] # None => adopted[a] = adapters[a]
        /\ operatorApproved[a] # None =>
              /\ operatorApproved[a] = adapters[a]
              /\ proposals[a][operatorApproved[a]] = "Approved"

\* What a console carries from the queue to the library is what the queue says,
\* and there to stay.
SettlingDecided ==
    \A c \in Consoles :
        settling[c] # None =>
            proposals[settling[c].id][settling[c].digest] =
                (IF settling[c].approve THEN "Approved" ELSE "Rejected")

\* A mounted adapter has both clearances and the weights it was mounted with.
MountsCleared ==
    \A m \in MountIds :
        mounts[m] # None =>
            /\ adopted[mounts[m]] # None
            /\ operatorApproved[mounts[m]] # None
            /\ served[m] = adapters[mounts[m]]

ClearanceInv == TypeOK /\ ClearancesCurrent /\ SettlingDecided /\ MountsCleared

-----------------------------------------------------------------------------

\* The strengthening is enough: it implies what mount_gated promises.
LEMMA ClearanceInvServes == ClearanceInv => ServedCleared
  BY NoneAssumption DEF ClearanceInv, TypeOK, ClearancesCurrent, MountsCleared, ServedCleared

\* Training: register and evict_one keep the clearances current.
LEMMA RegisterStep ==
    ASSUME ClearanceInv, NEW a \in Adapters, NEW d \in Digests, Register(a, d)
    PROVE  ClearanceInv'
  <1>. USE NoneAssumption DEF ClearanceInv
  <1>1. PICK gone \in SUBSET Adapters :
           /\ \A v \in gone : ~Mounted(v)
           /\ adapters' = [Forget(adapters, gone) EXCEPT ![a] = d]
           /\ adopted' = Forget(adopted, gone \cup {a})
           /\ operatorApproved' = Forget(operatorApproved, gone \cup {a})
    <2>1. PICK gone \in (IF MustEvict(a) THEN {{v} : v \in Victims} ELSE {{}}) :
           /\ adapters' = [Forget(adapters, gone) EXCEPT ![a] = d]
           /\ adopted' = Forget(adopted, gone \cup {a})
           /\ operatorApproved' = Forget(operatorApproved, gone \cup {a})
      BY DEF Register
    <2>2. gone \in SUBSET Adapters /\ \A v \in gone : ~Mounted(v)
      BY <2>1 DEF Victims, Registered
    <2>. QED  BY <2>1, <2>2
  <1>2. Unmounting(a) /\ UNCHANGED <<decision, proposals, settling>>
    BY DEF Register
  <1>3. \A x \in Adapters :
           /\ adapters'[x] = IF x = a THEN d ELSE IF x \in gone THEN None ELSE adapters[x]
           /\ adopted'[x] = IF x \in gone \cup {a} THEN None ELSE adopted[x]
           /\ operatorApproved'[x] = IF x \in gone \cup {a} THEN None ELSE operatorApproved[x]
    BY <1>1 DEF Forget, TypeOK
  <1>4. TypeOK'
    BY <1>1, <1>2 DEF TypeOK, Forget, Unmounting
  <1>5. ClearancesCurrent'
    BY <1>2, <1>3 DEF ClearancesCurrent
  <1>6. SettlingDecided'
    BY <1>2 DEF SettlingDecided
  <1>7. MountsCleared'
    <2>. SUFFICES ASSUME NEW m \in MountIds, mounts'[m] # None
                  PROVE  /\ adopted'[mounts'[m]] # None
                         /\ operatorApproved'[mounts'[m]] # None
                         /\ served'[m] = adapters'[mounts'[m]]
      BY DEF MountsCleared
    <2>1. mounts'[m] = mounts[m] /\ served'[m] = served[m] /\ mounts[m] # a /\ mounts[m] # None
      BY <1>2 DEF Unmounting, TypeOK
    <2>2. mounts[m] \in Adapters /\ mounts[m] \notin gone
      BY <2>1, <1>1 DEF Mounted, TypeOK
    <2>. QED  BY <2>1, <2>2, <1>3 DEF MountsCleared
  <1>. QED  BY <1>4, <1>5, <1>6, <1>7

\* A revocation, by a turned-away registration, a rejecting decision or a
\* withdrawn sign-off, takes the mounts with it.
LEMMA RevocationStep ==
    ASSUME ClearanceInv, NEW a \in Adapters, Unmounting(a),
           operatorApproved' = Forget(operatorApproved, {a}),
           adopted' = Forget(adopted, {a}) \/ adopted' = adopted,
           adapters' = adapters, proposals' = proposals,
           decision' \in [Evaluators -> Decisions \cup {None}],
           settling' \in [Consoles -> Settlements \cup {None}],
           \A c \in Consoles : settling'[c] = settling[c] \/ settling'[c] = None
    PROVE  ClearanceInv'
  <1>. USE NoneAssumption DEF ClearanceInv
  <1>1. /\ \A x \in Adapters : adopted'[x] = adopted[x] \/ (x = a /\ adopted'[x] = None)
        /\ \A x \in Adapters : operatorApproved'[x] = IF x = a THEN None ELSE operatorApproved[x]
    BY DEF Forget, TypeOK
  <1>2. TypeOK'
    BY DEF TypeOK, Forget, Unmounting
  <1>3. ClearancesCurrent'
    BY <1>1 DEF ClearancesCurrent
  <1>4. SettlingDecided'
    BY DEF SettlingDecided
  <1>5. MountsCleared'
    BY <1>1 DEF MountsCleared, Unmounting, TypeOK
  <1>. QED  BY <1>2, <1>3, <1>4, <1>5

\* Evaluation: record_adoption clears only the registered weights.
LEMMA RecordAdoptionStep ==
    ASSUME ClearanceInv, NEW e \in Evaluators, RecordAdoption(e)
    PROVE  ClearanceInv'
  <1>. USE NoneAssumption, NoneRecordAssumption DEF ClearanceInv
  <1>. DEFINE a == decision[e].id
              d == decision[e].digest
  <1>1. decision[e] \in Decisions /\ a \in Adapters /\ d \in Digests
    BY DEF TypeOK, RecordAdoption, Decisions
  <1>2. decision' \in [Evaluators -> Decisions \cup {None}]
    BY <1>1 DEF TypeOK, RecordAdoption, Decisions
  <1>3. UNCHANGED <<adapters, proposals, settling>>
    BY DEF RecordAdoption
  <1>4. CASE UNCHANGED <<adopted, operatorApproved, mounts, served>>
    BY <1>2, <1>3, <1>4 DEF TypeOK, ClearancesCurrent, SettlingDecided, MountsCleared
  <1>5. CASE /\ adapters[a] = d
             /\ adopted' = [adopted EXCEPT ![a] = d]
             /\ UNCHANGED <<operatorApproved, mounts, served>>
    <2>1. \A x \in Adapters : adopted'[x] = IF x = a THEN d ELSE adopted[x]
      BY <1>5 DEF TypeOK
    <2>2. TypeOK'
      BY <1>1, <1>2, <1>3, <1>5 DEF TypeOK
    <2>3. ClearancesCurrent'
      BY <1>3, <1>5, <2>1 DEF ClearancesCurrent
    <2>4. SettlingDecided'
      BY <1>3 DEF SettlingDecided
    <2>5. MountsCleared'
      BY <1>1, <1>3, <1>5, <2>1 DEF MountsCleared, TypeOK
    <2>. QED  BY <2>2, <2>3, <2>4, <2>5
  <1>6. CASE Revoke(a)
    <2>1. settling' \in [Consoles -> Settlements \cup {None}]
      BY <1>3 DEF TypeOK
    <2>. QED  BY <1>1, <1>2, <1>3, <1>6, <2>1, RevocationStep DEF Revoke
  <1>. QED  BY <1>4, <1>5, <1>6 DEF RecordAdoption

\* The queue: a decided proposal is never touched again.
LEMMA QueueStep ==
    ASSUME ClearanceInv,
           UNCHANGED <<adapters, adopted, operatorApproved, mounts, served>>,
           proposals' \in [Adapters -> [Digests -> Status]],
           decision' \in [Evaluators -> Decisions \cup {None}],
           settling' \in [Consoles -> Settlements \cup {None}],
           \A a \in Adapters, d \in Digests :
              proposals[a][d] \in {"Approved", "Rejected"} => proposals'[a][d] = proposals[a][d],
           \A c \in Consoles :
              settling'[c] # settling[c] =>
                 proposals'[settling'[c].id][settling'[c].digest] =
                     (IF settling'[c].approve THEN "Approved" ELSE "Rejected")
    PROVE  ClearanceInv'
  <1>. USE NoneAssumption DEF ClearanceInv
  <1>1. TypeOK'
    BY DEF TypeOK
  <1>2. ClearancesCurrent'
    BY DEF ClearancesCurrent, TypeOK
  <1>3. SettlingDecided'
    <2>. SUFFICES ASSUME NEW c \in Consoles, settling'[c] # None, settling'[c] = settling[c]
                  PROVE  proposals'[settling[c].id][settling[c].digest] =
                            proposals[settling[c].id][settling[c].digest]
      BY DEF SettlingDecided
    <2>1. settling[c].id \in Adapters /\ settling[c].digest \in Digests
      BY DEF TypeOK, Settlements
    <2>. QED  BY <2>1 DEF SettlingDecided
  <1>4. MountsCleared'
    BY DEF MountsCleared
  <1>. QED  BY <1>1, <1>2, <1>3, <1>4

\* An evaluation's verdict touches neither the library nor the queue.
LEMMA DecideStep ==
    ASSUME ClearanceInv, NEW e \in Evaluators, NEW a \in Adapters, NEW approved \in BOOLEAN,
           Decide(e, a, approved)
    PROVE  ClearanceInv'
  <1>1. adapters[a] \in Digests
    BY DEF ClearanceInv, TypeOK, Decide, Registered
  <1>2. decision' \in [Evaluators -> Decisions \cup {None}]
    BY <1>1 DEF ClearanceInv, TypeOK, Decide, Decisions
  <1>. QED  BY <1>2, QueueStep DEF ClearanceInv, TypeOK, Decide

\* Enqueueing changes only a digest that has no proposal, so no decision is undone.
LEMMA ProposeStep ==
    ASSUME ClearanceInv, NEW e \in Evaluators, NEW artifact \in Digests, Propose(e, artifact)
    PROVE  ClearanceInv'
  <1>. USE NoneAssumption, NoneRecordAssumption
  <1>. DEFINE a == decision[e].id
              d == decision[e].digest
  <1>1. a \in Adapters /\ d \in Digests
    BY DEF ClearanceInv, TypeOK, Propose, Decisions
  <1>2. \/ proposals' = proposals
        \/ proposals[a][d] = "none" /\ proposals' = [proposals EXCEPT ![a][d] = "Pending"]
    BY DEF Propose
  <1>. HIDE DEF a, d
  <1>3. proposals' \in [Adapters -> [Digests -> Status]]
    <2>1. proposals \in [Adapters -> [Digests -> Status]]
      BY DEF ClearanceInv, TypeOK
    <2>2. "Pending" \in Status
      BY DEF Status
    <2>3. [proposals[a] EXCEPT ![d] = "Pending"] \in [Digests -> Status]
      BY <1>1, <2>1, <2>2
    <2>. QED  BY <1>1, <1>2, <2>1, <2>3
  <1>4. \A x \in Adapters, y \in Digests :
           proposals[x][y] \in {"Approved", "Rejected"} => proposals'[x][y] = proposals[x][y]
    BY <1>1, <1>2 DEF ClearanceInv, TypeOK
  <1>5. /\ decision' \in [Evaluators -> Decisions \cup {None}]
        /\ settling' \in [Consoles -> Settlements \cup {None}]
        /\ UNCHANGED <<adapters, adopted, operatorApproved, mounts, settling, served>>
    BY DEF ClearanceInv, TypeOK, Propose
  <1>. QED  BY <1>3, <1>4, <1>5, QueueStep

\* The queue decides a pending proposal only, and the console carries that decision.
LEMMA SettleStep ==
    ASSUME ClearanceInv, NEW c \in Consoles, NEW a \in Adapters, NEW d \in Digests,
           NEW approve \in BOOLEAN, Settle(c, a, d, approve)
    PROVE  ClearanceInv'
  <1>1. proposals' \in [Adapters -> [Digests -> Status]]
    BY DEF ClearanceInv, TypeOK, Settle, Status
  <1>2. \A x \in Adapters, y \in Digests :
           proposals[x][y] \in {"Approved", "Rejected"} => proposals'[x][y] = proposals[x][y]
    BY DEF ClearanceInv, TypeOK, Settle
  <1>3. settling' \in [Consoles -> Settlements \cup {None}]
    BY DEF ClearanceInv, TypeOK, Settle, Settlements
  <1>4. ASSUME NEW k \in Consoles, settling'[k] # settling[k]
        PROVE  proposals'[settling'[k].id][settling'[k].digest] =
                  (IF settling'[k].approve THEN "Approved" ELSE "Rejected")
    <2>1. settling'[k] = [id |-> a, digest |-> d, approve |-> approve]
      BY <1>4 DEF ClearanceInv, TypeOK, Settle
    <2>2. proposals'[a][d] = IF approve THEN "Approved" ELSE "Rejected"
      BY DEF ClearanceInv, TypeOK, Settle
    <2>. QED  BY <2>1, <2>2
  <1>. QED  BY <1>1, <1>2, <1>3, <1>4, QueueStep DEF ClearanceInv, TypeOK, Settle

\* The console's second step: a sign-off that arrives late is for weights
\* that are gone, and changes nothing.
LEMMA SettleInLibraryStep ==
    ASSUME ClearanceInv, NEW c \in Consoles, SettleInLibrary(c)
    PROVE  ClearanceInv'
  <1>. USE NoneAssumption, NoneRecordAssumption
  <1>. DEFINE a == settling[c].id
              d == settling[c].digest
  <1>1. a \in Adapters /\ d \in Digests
    BY DEF ClearanceInv, TypeOK, SettleInLibrary, Settlements
  <1>2. /\ settling' \in [Consoles -> Settlements \cup {None}]
        /\ \A k \in Consoles : settling'[k] = settling[k] \/ settling'[k] = None
        /\ UNCHANGED <<adapters, adopted, decision, proposals>>
        /\ decision' \in [Evaluators -> Decisions \cup {None}]
    BY DEF ClearanceInv, TypeOK, SettleInLibrary
  <1>3. SettlingDecided'
    BY <1>2 DEF ClearanceInv, SettlingDecided
  <1>4. CASE UNCHANGED <<operatorApproved, mounts, served>>
    BY <1>2, <1>3, <1>4 DEF ClearanceInv, TypeOK, ClearancesCurrent, MountsCleared
  <1>5. CASE /\ settling[c].approve /\ adapters[a] = d
             /\ operatorApproved' = [operatorApproved EXCEPT ![a] = d]
             /\ UNCHANGED <<mounts, served>>
    <2>1. proposals[a][d] = "Approved"
      BY <1>5 DEF ClearanceInv, SettlingDecided, SettleInLibrary
    <2>2. \A x \in Adapters : operatorApproved'[x] = IF x = a THEN d ELSE operatorApproved[x]
      BY <1>5 DEF ClearanceInv, TypeOK
    <2>3. TypeOK'
      BY <1>1, <1>2, <1>5 DEF ClearanceInv, TypeOK
    <2>4. ClearancesCurrent'
      BY <1>2, <1>5, <2>1, <2>2 DEF ClearanceInv, ClearancesCurrent
    <2>5. MountsCleared'
      BY <1>1, <1>2, <1>5, <2>2 DEF ClearanceInv, MountsCleared, TypeOK
    <2>. QED  BY <1>3, <2>3, <2>4, <2>5 DEF ClearanceInv
  <1>6. CASE operatorApproved' = Forget(operatorApproved, {a}) /\ Unmounting(a)
    BY <1>1, <1>2, <1>6, RevocationStep
  <1>. QED  BY <1>4, <1>5, <1>6 DEF SettleInLibrary, SignOff, Withdraw

\* mount_gated serves weights only when both clearances are for them.
LEMMA MountStep ==
    ASSUME ClearanceInv, NEW m \in MountIds,
           Unmount(m) \/ \E a \in Adapters : MountGated(m, a)
    PROVE  ClearanceInv'
  <1>. USE NoneAssumption DEF ClearanceInv
  <1>1. TypeOK'
    <2>1. CASE Unmount(m)
      BY <2>1 DEF TypeOK, Unmount
    <2>2. ASSUME NEW a \in Adapters, MountGated(m, a) PROVE TypeOK'
      <3>1. adapters[a] \in Digests
        BY <2>2 DEF MountGated, Registered, TypeOK
      <3>. QED  BY <2>2, <3>1 DEF TypeOK, MountGated
    <2>. QED  BY <2>1, <2>2
  <1>2. ClearancesCurrent' /\ SettlingDecided'
    BY DEF ClearancesCurrent, SettlingDecided, Unmount, MountGated
  <1>3. MountsCleared'
    BY DEF MountsCleared, Unmount, MountGated, IsAdopted, IsOperatorApproved, TypeOK
  <1>. QED  BY <1>1, <1>2, <1>3

-----------------------------------------------------------------------------

\* However training, evaluation, the queue and the consoles interleave, each
\* clearance in the library is for the registered weights.
THEOREM ClearanceInvariant == Spec => []ClearanceInv
  <1>1. Init => ClearanceInv
    BY NoneAssumption, NoneRecordAssumption DEF Init, ClearanceInv, TypeOK, Status,
       ClearancesCurrent, SettlingDecided, MountsCleared
  <1>2. ClearanceInv /\ [Next]_vars => ClearanceInv'
    <2>. SUFFICES ASSUME ClearanceInv, [Next]_vars PROVE ClearanceInv'
      OBVIOUS
    <2>1. ASSUME NEW a \in Adapters, TurnedAway(a) PROVE ClearanceInv'
      BY <2>1, RevocationStep DEF TurnedAway, ClearanceInv, TypeOK
    <2>2. CASE UNCHANGED vars
      BY <2>2 DEF vars, ClearanceInv, TypeOK, ClearancesCurrent, SettlingDecided, MountsCleared
    <2>. QED
      BY <2>1, <2>2, RegisterStep, RecordAdoptionStep, DecideStep, ProposeStep, SettleStep,
         SettleInLibraryStep, MountStep DEF Next
  <1>. QED  BY <1>1, <1>2, PTL DEF Spec

\* Types of the library, the queue and the threads' locals.
THEOREM TypeCorrect == Spec => []TypeOK
  <1>1. ClearanceInv => TypeOK
    BY DEF ClearanceInv
  <1>. QED  BY <1>1, ClearanceInvariant, PTL

\* mount_gated's promise: what is served passed evaluation and was approved by
\* the operator, digest for digest, and is the registered artifact.
THEOREM ServedWeightsCleared == Spec => []ServedCleared
  BY ClearanceInvariant, ClearanceInvServes, PTL

\* Settling a stale proposal, either way, never takes a current sign-off down:
\* the queue decides a proposal once, so a rejection on its way to the library
\* is never about a digest that was signed off.
THEOREM SignOffOnlyRevokedWithCause == Spec => SignOffStands
  <1>1. ClearanceInv /\ [Next]_vars => [SignOffKept]_vars
    <2>. SUFFICES ASSUME ClearanceInv, Next, NEW a \in Adapters,
                         IsOperatorApproved(a), operatorApproved'[a] # operatorApproved[a]
                  PROVE  \/ \E d \in Digests : Register(a, d)
                         \/ adapters'[a] = None
                         \/ \E e \in Evaluators : RecordAdoption(e) /\ decision[e].id = a
                               /\ decision[e].digest = adapters[a] /\ ~decision[e].approved
      BY DEF SignOffKept
    <2>. USE NoneAssumption, NoneRecordAssumption DEF ClearanceInv, TypeOK
    <2>0. adapters[a] # None /\ operatorApproved[a] = adapters[a]
      BY DEF IsOperatorApproved
    <2>1. ASSUME NEW b \in Adapters, NEW d \in Digests, Register(b, d), b # a
          PROVE  adapters'[a] = None
      <3>1. PICK gone : /\ adapters' = [Forget(adapters, gone) EXCEPT ![b] = d]
                        /\ operatorApproved' = Forget(operatorApproved, gone \cup {b})
        BY <2>1 DEF Register
      <3>. QED  BY <2>1, <3>1 DEF Forget
    <2>2. ASSUME NEW b \in Adapters, TurnedAway(b) PROVE FALSE
      BY <2>0, <2>2 DEF TurnedAway, MustEvict, Registered, Forget
    <2>3. ASSUME NEW e \in Evaluators, RecordAdoption(e)
          PROVE  decision[e].id = a /\ decision[e].digest = adapters[a] /\ ~decision[e].approved
      BY <2>3 DEF RecordAdoption, Revoke, Forget
    <2>4. ASSUME NEW c \in Consoles, SettleInLibrary(c) PROVE FALSE
      <3>1. settling[c].id \in Adapters /\ settling[c].digest \in Digests
        BY <2>4 DEF SettleInLibrary, Settlements
      <3>2. CASE settling[c].approve /\ SignOff(settling[c].id, settling[c].digest)
        BY <2>0, <3>1, <3>2 DEF SignOff
      <3>3. CASE ~settling[c].approve /\ Withdraw(settling[c].id, settling[c].digest)
        <4>1. settling[c].id = a /\ settling[c].digest = operatorApproved[a]
          BY <3>1, <3>3 DEF Withdraw, Forget
        <4>2. proposals[a][operatorApproved[a]] = "Rejected"
          BY <2>4, <3>3, <4>1 DEF SettlingDecided, SettleInLibrary
        <4>3. proposals[a][operatorApproved[a]] = "Approved"
          BY <2>0 DEF ClearancesCurrent
        <4>. QED  BY <4>2, <4>3
      <3>. QED  BY <2>4, <3>2, <3>3 DEF SettleInLibrary
    <2>5. ASSUME operatorApproved' = operatorApproved PROVE FALSE
      BY <2>5
    <2>. QED
      BY <2>1, <2>2, <2>3, <2>4, <2>5 DEF Next, Decide, Propose, Settle, MountGated, Unmount
  <1>. QED  BY <1>1, ClearanceInvariant, PTL DEF Spec, SignOffStands

-----------------------------------------------------------------------------

\* The library's bound, with the finiteness its cardinality needs.
CapacityInv == IsFiniteSet(Registered) /\ WithinCapacity

\* register: in place, in a free slot, or in the slot of exactly one victim.
LEMMA RegisterKeepsCapacity ==
    ASSUME TypeOK, CapacityInv, NEW a \in Adapters, NEW d \in Digests, Register(a, d)
    PROVE  CapacityInv'
  <1>. USE NoneAssumption
  <1>. DEFINE R == Registered
  <1>1. ASSUME NEW gone \in SUBSET Adapters,
               adapters' = [Forget(adapters, gone) EXCEPT ![a] = d]
        PROVE  Registered' = (R \ gone) \cup {a}
    <2>1. \A x \in Adapters : adapters'[x] = IF x = a THEN d
                                             ELSE IF x \in gone THEN None ELSE adapters[x]
      BY <1>1 DEF Forget
    <2>. QED  BY <2>1 DEF Registered
  <1>2. IsFiniteSet(R) /\ Cardinality(R) \in Nat /\ Cardinality(R) <= Capacity
    BY FS_CardinalityType DEF CapacityInv, WithinCapacity
  <1>3. CASE ~MustEvict(a)
    <2>1. Registered' = R \cup {a}
      <3>1. adapters' = [Forget(adapters, {}) EXCEPT ![a] = d]
        BY <1>3 DEF Register
      <3>. QED  BY <1>1, <3>1
    <2>. HIDE DEF R
    <2>2. /\ IsFiniteSet(R \cup {a})
          /\ Cardinality(R \cup {a}) = IF a \in R THEN Cardinality(R) ELSE Cardinality(R) + 1
      BY <1>2, FS_AddElement
    <2>3. a \in R \/ ~(Cardinality(R) >= Capacity)
      BY <1>3 DEF MustEvict, R
    <2>. QED  BY <1>2, <2>1, <2>2, <2>3, CapacityAssumption DEF CapacityInv, WithinCapacity
  <1>4. CASE MustEvict(a)
    <2>1. PICK v \in R : adapters' = [Forget(adapters, {v}) EXCEPT ![a] = d]
      BY <1>4 DEF Register, Victims
    <2>2. Registered' = (R \ {v}) \cup {a}
      BY <1>1, <2>1 DEF Registered
    <2>3. a \notin R
      BY <1>4 DEF MustEvict
    <2>. HIDE DEF R
    <2>4. IsFiniteSet(R \ {v}) /\ Cardinality(R \ {v}) = Cardinality(R) - 1
      BY <1>2, <2>1, FS_RemoveElement
    <2>5. /\ IsFiniteSet((R \ {v}) \cup {a})
          /\ Cardinality((R \ {v}) \cup {a}) = Cardinality(R \ {v}) + 1
      BY <2>3, <2>4, FS_AddElement
    <2>. QED  BY <1>2, <2>2, <2>4, <2>5, CapacityAssumption DEF CapacityInv, WithinCapacity
  <1>. QED  BY <1>3, <1>4

\* The library never holds more than its capacity.
THEOREM CapacityRespected == Spec => []WithinCapacity
  <1>1. Init => CapacityInv
    <2>. SUFFICES ASSUME Init PROVE CapacityInv
      OBVIOUS
    <2>1. Registered = {}
      BY DEF Init, Registered
    <2>. QED  BY <2>1, FS_EmptySet, CapacityAssumption DEF CapacityInv, WithinCapacity
  <1>2. TypeOK /\ CapacityInv /\ [Next]_vars => CapacityInv'
    <2>1. CapacityInv /\ UNCHANGED adapters => CapacityInv'
      BY DEF CapacityInv, WithinCapacity, Registered
    <2>. QED
      BY <2>1, RegisterKeepsCapacity DEF Next, vars, TurnedAway, Decide, RecordAdoption, Propose,
         Settle, SettleInLibrary, MountGated, Unmount
  <1>3. CapacityInv => WithinCapacity
    BY DEF CapacityInv
  <1>. QED  BY <1>1, <1>2, <1>3, TypeCorrect, PTL DEF Spec
=============================================================================
