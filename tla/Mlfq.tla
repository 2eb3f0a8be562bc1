--------------------------------- MODULE Mlfq ---------------------------------
(***************************************************************************)
(* The iteration-aware scheduler of crates/scheduler (mlfq.rs) driven the  *)
(* way its documentation asks for and the somatic loop does: once per      *)
(* iteration check_and_boost, then arrivals, then select_optimal_task and  *)
(* dispatch_task.  Task ids come back once they have been dispatched, so   *)
(* work may arrive for ever, which is what starvation is about.            *)
(*                                                                         *)
(* Left out: tier_counters, total_tokens_dispatched and dispatched_tasks,  *)
(* counters and a history that no decision reads, and what dispatch_task   *)
(* returns: the scheduler does nothing with it (SomaticLoop, which is the  *)
(* caller, chooses it).                                                    *)
(***************************************************************************)
EXTENDS Agenda, FiniteSets

CONSTANTS
    Tasks,          \* the pool of task ids
    Levels,         \* the mlfq_level values tasks are pushed with
    BoostInterval,  \* boost_interval, 0 = no boost
    Backlog         \* bound: the most tasks waiting at once

ASSUME BoostIntervalAssumption == BoostInterval \in Nat
ASSUME BacklogAssumption == Backlog \in Nat \ {0}
ASSUME LevelsAssumption == Levels \subseteq Nat

VARIABLES
    pc,       \* "boost": before check_and_boost; "select": after it
    agenda,
    phase,    \* the phase of dispatch_count, see Agenda
    waited,   \* history: dispatches a queued task has watched go by
    before    \* history: <<a, b>> when a, still waiting, had b arrive behind it

vars == <<pc, agenda, phase, waited, before>>

\* Bound: the history variable waited saturates here, above every value a
\* property compares it with.
WaitCap == BoostInterval + Backlog

Phases == 0 .. (IF BoostInterval = 0 THEN 1 ELSE BoostInterval)

Init ==
    /\ pc = "boost"
    /\ agenda = EmptyAgenda
    /\ phase = 0
    /\ waited = [id \in Tasks |-> 0]
    /\ before = {}

Boost ==
    /\ pc = "boost"
    /\ agenda' = CheckAndBoost(agenda, phase, BoostInterval)
    /\ pc' = "select"
    /\ UNCHANGED <<phase, waited, before>>

\* The tasks that wait in a tier no lower than the one `level` stands for: the
\* ones a task pushed at that level queues up behind.
AheadOf(level) ==
    {x \in Tasks : \E t \in 0 .. TierOf(level) :
                     \E i \in 1 .. Len(agenda[t]) : agenda[t][i] = x}

Arrive(id, level) ==
    /\ pc = "select"
    /\ ~Queued(agenda, id)
    /\ Size(agenda) < Backlog
    /\ agenda' = Push(agenda, level, id)
    /\ before' = before \cup (AheadOf(level) \X {id})
    /\ UNCHANGED <<pc, phase, waited>>

\* dispatch_count advances and the task leaves the agenda whatever the backend
\* answers; nothing is put back.
Dispatch(t) ==
    /\ pc = "select"
    /\ IsTop(agenda, t)
    /\ agenda' = PopTier(agenda, t)
    /\ phase' = NextPhase(phase, BoostInterval)
    /\ waited' = [id \in Tasks |-> IF ~Queued(agenda', id) THEN 0
                                   ELSE IF waited[id] < WaitCap THEN waited[id] + 1
                                   ELSE WaitCap]
    /\ before' = {p \in before : p[1] # Head(agenda[t])}
    /\ pc' = "boost"

Idle ==
    /\ pc = "select"
    /\ IsEmpty(agenda)
    /\ pc' = "boost"
    /\ UNCHANGED <<agenda, phase, waited, before>>

Step == Boost \/ Idle \/ \E t \in Tiers : Dispatch(t)

Next == Step \/ \E id \in Tasks, level \in Levels : Arrive(id, level)

Spec == Init /\ [][Next]_vars

\* The loop thread is never blocked: it keeps taking its own steps.
FairSpec == Spec /\ WF_vars(Step)

-----------------------------------------------------------------------------
(* Properties *)

\* Types of the scheduler's state (mlfq.rs: TaskAgenda, IterationAwareMlfq).
TypeOK ==
    /\ pc \in {"boost", "select"}
    /\ agenda \in [Tiers -> Seq(Tasks)]
    /\ phase \in Phases
    /\ waited \in [Tasks -> 0 .. WaitCap]
    /\ before \subseteq Tasks \X Tasks

\* What the boost of mlfq.rs buys, with boost_interval > 0: if no more than
\* Backlog tasks ever wait at once, a queued task sees at most BoostInterval +
\* Backlog - 2 other dispatches before its own, whatever keeps arriving in
\* High.  The bound is reached.
WaitBounded == \A id \in Tasks : waited[id] <= BoostInterval + Backlog - 2

\* a is served before b: it waits in a higher tier, or further up in the same.
Ahead(a, b) ==
    \E s, t \in Tiers : \E i \in 1 .. Len(agenda[s]), j \in 1 .. Len(agenda[t]) :
        /\ agenda[s][i] = a /\ agenda[t][j] = b
        /\ s < t \/ (s = t /\ i < j)

\* No task is overtaken by one that arrived behind it, in its own tier or a
\* lower one, however often the agenda is boosted in between: select_optimal_task
\* takes a tier's tasks in order, and boost_all_to_high empties Medium before
\* Low behind what High holds.  (A Low task that has been boosted is ahead of
\* the Medium tasks that arrive later: its tier counts, not its first level.)
NoOvertaking == \A p \in before : Ahead(p[1], p[2])

\* Every task that is queued is dispatched in the end, though higher tiers
\* keep receiving work (check_and_boost under a loop that keeps iterating).
NoStarvation == \A id \in Tasks : Queued(agenda, id) ~> ~Queued(agenda, id)
=============================================================================
