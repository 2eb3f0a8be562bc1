--------------------------- MODULE SkillApproval ---------------------------
(***************************************************************************)
(* From recurring friction to an active skill: the dreaming phase drafts   *)
(* skills from pairs of tools used together (crates/skills/src/            *)
(* reflection.rs, proposal.rs; crates/vita/src/sleep.rs), the registry     *)
(* holds them as Proposed (registry.rs), the drainer thread of `serve`     *)
(* puts them before the operator (kernels/hosted/src/commands.rs), and a   *)
(* decision reaches the approval queue (crates/lifecycle/src/approval.rs)  *)
(* from the console, or queue and registry from the SkillApprovalBridge    *)
(* (skill_bridge.rs).                                                      *)
(*                                                                         *)
(* A skill is the pair of tools it is drafted from.  The registry and the  *)
(* queue have a lock each; a thread that panics inside one poisons it.     *)
(***************************************************************************)
EXTENDS Naturals, FiniteSets, Sequences

CONSTANTS
    Tools,          \* tool names, as numbers in the order of the names
    Flagged,        \* drafts the content screen rejects
    MinEpisodes,    \* ReflectionConfig::min_episodes
    Threshold,      \* ReflectionConfig::min_occurrence_threshold
    MaxPatterns,    \* ReflectionConfig::max_patterns
    AutoPromote,    \* PromotionGateConfig::auto_promote_agent_skills
    Deciders,       \* who acts on proposals and skills: the "console", or code
                    \* that calls the bridge and the registry ("library")
    MaxEpisodes,    \* bound: episode summaries recorded
    Locks           \* bound: the locks a panic may poison

ASSUME ToolsAssumption == Tools \subseteq Nat /\ IsFiniteSet(Tools)
ASSUME ReflectionAssumption ==
    /\ {MinEpisodes, Threshold, MaxPatterns, MaxEpisodes} \subseteq Nat
    /\ AutoPromote \in BOOLEAN
    /\ Deciders \subseteq {"console", "library"}
    /\ Locks \subseteq {"registry", "queue"}

\* find_tool_co_occurrence_patterns: the pairs an episode can hold.
Skills == {pair \in SUBSET Tools : Cardinality(pair) = 2}

VARIABLES
    episodes,   \* recent_episode_summaries, the tools of each
    registry,   \* state of each skill
    proposals,  \* status of each skill's proposal in the ApprovalQueue
    tracked,    \* SkillApprovalBridge::skill_of_proposal
    batch,      \* the drainer's snapshot of what to hand over
    telling,    \* the proposal the drainer has queued and not yet audited
    asked,      \* proposals the audit log announced to the operator
    poisoned,   \* poisoned locks
    withdrawn   \* history: skills taken out of service after being active

vars == <<episodes, registry, proposals, tracked, batch, telling, asked, poisoned, withdrawn>>
drainer == <<tracked, batch, telling, asked>>

Init ==
    /\ episodes = <<>>
    /\ registry = [s \in Skills |-> "absent"]
    /\ proposals = [s \in Skills |-> "absent"]
    /\ tracked = {} /\ batch = {} /\ telling = {} /\ asked = {}
    /\ poisoned = {}
    /\ withdrawn = {}

-----------------------------------------------------------------------------
(* Reflection *)

\* record_episode_summary: nothing ever empties the buffer.
RecordEpisode(used) ==
    /\ Len(episodes) < MaxEpisodes
    /\ episodes' = Append(episodes, used)
    /\ UNCHANGED <<registry, proposals, drainer, poisoned, withdrawn>>

Occurrences(pair) == Cardinality({i \in DOMAIN episodes : pair \subseteq episodes[i]})

Smaller(pair) == CHOOSE t \in pair : \A u \in pair : t <= u
Larger(pair) == CHOOSE t \in pair : \A u \in pair : u <= t

\* The order of the report: by count, then by description.
Before(p, q) ==
    \/ Occurrences(p) > Occurrences(q)
    \/ /\ Occurrences(p) = Occurrences(q)
       /\ \/ Smaller(p) < Smaller(q)
          \/ Smaller(p) = Smaller(q) /\ Larger(p) < Larger(q)

\* reflect_on_episodes: the first max_patterns of the recurring pairs, known
\* ones included.
Patterns ==
    LET recurring == {p \in Skills : Occurrences(p) > 0 /\ Occurrences(p) >= Threshold}
    IN IF Len(episodes) < MinEpisodes
       THEN {}
       ELSE {p \in recurring : Cardinality({q \in recurring : Before(q, p)}) < MaxPatterns}

\* evaluate_skill_proposal, step 2, for an agent's proposal.
InitialState == IF AutoPromote THEN "active" ELSE "proposed"

\* run_self_improvement_reflection under the registry's lock, which it takes
\* even when it is poisoned: drafts that pass the screen and are new are added.
Dream ==
    /\ episodes # <<>>
    /\ registry' = [s \in Skills |->
                      IF s \in Patterns \ Flagged /\ registry[s] = "absent"
                      THEN InitialState
                      ELSE registry[s]]
    /\ UNCHANGED <<episodes, proposals, drainer, poisoned, withdrawn>>

\* A thread panics while it holds a lock.
Poison(lock) ==
    /\ lock \in Locks \ poisoned
    /\ poisoned' = poisoned \cup {lock}
    /\ UNCHANGED <<episodes, registry, proposals, drainer, withdrawn>>

-----------------------------------------------------------------------------
(* spawn_skill_approval_drainer *)

\* Mutant: the snapshot leaves out what was never tracked.
DrainSnapshotTracked ==
    /\ batch = {} /\ telling = {}
    /\ "registry" \notin poisoned
    /\ batch' = {s \in Skills : registry[s] = "proposed"} \cap tracked
    /\ batch' # {}
    /\ UNCHANGED <<episodes, registry, proposals, tracked, telling, asked, poisoned, withdrawn>>

\* 1. What is Proposed and not yet handed over; a poisoned lock skips the round.
DrainSnapshot ==
    /\ batch = {} /\ telling = {}
    /\ "registry" \notin poisoned
    /\ batch' = {s \in Skills : registry[s] = "proposed"} \ tracked
    /\ batch' # {}
    /\ UNCHANGED <<episodes, registry, proposals, tracked, telling, asked, poisoned, withdrawn>>

\* 2. enqueue_skill, under the queue's lock; a poisoned lock or a duplicate id
\* leaves the skill for the next round.
DrainEnqueue(s) ==
    /\ s \in batch /\ telling = {}
    /\ batch' = batch \ {s}
    /\ IF "queue" \notin poisoned /\ proposals[s] = "absent"
       THEN /\ proposals' = [proposals EXCEPT ![s] = "pending"]
            /\ tracked' = tracked \cup {s}
            /\ telling' = {s}
       ELSE UNCHANGED <<proposals, tracked, telling>>
    /\ UNCHANGED <<episodes, registry, asked, poisoned, withdrawn>>

\* ApprovalProposalQueued.
DrainAudit ==
    /\ telling # {}
    /\ asked' = asked \cup telling
    /\ telling' = {}
    /\ UNCHANGED <<episodes, registry, proposals, tracked, batch, poisoned, withdrawn>>

-----------------------------------------------------------------------------
(* Decisions *)

\* Mutant: a settled proposal may be approved again.
QueueApproveAgain(s) ==
    /\ proposals[s] # "absent"
    /\ proposals' = [proposals EXCEPT ![s] = "approved"]

\* ApprovalQueue::approve, reject, rollback, where they do not answer an error.
QueueApprove(s) ==
    /\ proposals[s] = "pending"
    /\ proposals' = [proposals EXCEPT ![s] = "approved"]

QueueReject(s) ==
    /\ proposals[s] = "pending"
    /\ proposals' = [proposals EXCEPT ![s] = "rejected"]

QueueRollback(s) ==
    /\ proposals[s] = "approved"
    /\ proposals' = [proposals EXCEPT ![s] = "rolledback"]

\* serve_approval_action for a NewSkill proposal: the queue, and only the queue.
ConsoleDecide(s, approve) ==
    /\ "console" \in Deciders
    /\ "queue" \notin poisoned
    /\ IF approve THEN QueueApprove(s) ELSE QueueReject(s)
    /\ UNCHANGED <<episodes, registry, drainer, poisoned, withdrawn>>

\* Leaving the registry's active list.
Withdraw(skills) == withdrawn' = withdrawn \cup {s \in skills : registry[s] = "active"}

\* SkillApprovalBridge::approve, reject, rollback.
BridgeApprove(s) ==
    /\ "library" \in Deciders
    /\ QueueApprove(s)
    /\ registry' = IF s \in tracked THEN [registry EXCEPT ![s] = "active"] ELSE registry
    /\ UNCHANGED <<episodes, drainer, poisoned, withdrawn>>

BridgeReject(s) ==
    /\ "library" \in Deciders
    /\ QueueReject(s)
    /\ UNCHANGED <<episodes, registry, drainer, poisoned, withdrawn>>

\* Mutant: a rollback settles the queue and leaves the registry.
BridgeRollbackQueueOnly(s) ==
    /\ "library" \in Deciders
    /\ QueueRollback(s)
    /\ UNCHANGED <<episodes, registry, drainer, poisoned, withdrawn>>

BridgeRollback(s) ==
    /\ "library" \in Deciders
    /\ QueueRollback(s)
    /\ registry' = IF s \in tracked THEN [registry EXCEPT ![s] = "rolledback"] ELSE registry
    /\ Withdraw({s} \cap tracked)
    /\ UNCHANGED <<episodes, drainer, poisoned>>

\* SkillRegistry::quarantine, rollback and kill_switch.
Retire(skills, state) ==
    /\ "library" \in Deciders
    /\ skills # {} /\ \A s \in skills : registry[s] # "absent"
    /\ registry' = [s \in Skills |-> IF s \in skills THEN state ELSE registry[s]]
    /\ Withdraw(skills)
    /\ UNCHANGED <<episodes, proposals, drainer, poisoned>>

Quarantine(s) == Retire({s}, "quarantined")
Rollback(s) == Retire({s}, "rolledback")
KillSwitch == Retire({s \in Skills : registry[s] = "active"}, "quarantined")

Drain ==
    \/ DrainSnapshot
    \/ \E s \in Skills : DrainEnqueue(s)
    \/ DrainAudit

Next ==
    \/ \E used \in SUBSET Tools : RecordEpisode(used)
    \/ Dream
    \/ \E lock \in Locks : Poison(lock)
    \/ Drain
    \/ \E s \in Skills, approve \in BOOLEAN : ConsoleDecide(s, approve)
    \/ \E s \in Skills : BridgeApprove(s) \/ BridgeReject(s) \/ BridgeRollback(s)
    \/ \E s \in Skills : Quarantine(s) \/ Rollback(s)
    \/ KillSwitch

Spec == Init /\ [][Next]_vars

\* The agent keeps dreaming and the drainer's thread runs.
FairSpec == Spec /\ WF_vars(Dream) /\ WF_vars(Drain)

-----------------------------------------------------------------------------
(* Properties *)

\* Types of the registry, the queue, the bridge and the drainer's locals; the
\* bridge tracks exactly the skills the queue has a proposal for.
TypeOK ==
    /\ episodes \in Seq(SUBSET Tools)
    /\ registry \in [Skills -> {"absent", "proposed", "active", "quarantined", "rolledback"}]
    /\ proposals \in [Skills -> {"absent", "pending", "approved", "rejected", "rolledback"}]
    /\ tracked = {s \in Skills : proposals[s] # "absent"}
    /\ batch \subseteq Skills /\ telling \subseteq tracked /\ asked \subseteq tracked
    /\ poisoned \subseteq Locks
    /\ withdrawn \subseteq Skills

\* The promotion gate with auto-promotion off: whatever the drainer, the
\* console and the bridge do at the same time, an agent's skill is active only
\* while the operator's approval of it stands.
ActiveOnlyApproved ==
    ~AutoPromote => \A s \in Skills : registry[s] = "active" => proposals[s] = "approved"

\* Quarantine, rollback and the kill switch are final for a skill that was in
\* service: no later dream, hand-over or decision brings it back.
WithdrawnStaysOut == \A s \in withdrawn : registry[s] # "active"

\* "Without this ... the agent proposes, and nobody is ever asked"
\* (spawn_skill_approval_drainer): a skill that stays Proposed is put before
\* the operator, unless a thread panicked inside one of the two locks.
ProposedReachesOperator ==
    \A s \in Skills :
        registry[s] = "proposed" ~> (s \in asked \/ registry[s] # "proposed" \/ poisoned # {})

\* "operator: approve(id) --> SkillRegistry::promote(skill_id)"
\* (crates/lifecycle/src/skill_bridge.rs): an approved skill becomes active.
ApprovedBecomesActive ==
    \A s \in Skills : proposals[s] = "approved" ~> registry[s] # "proposed"
=============================================================================
