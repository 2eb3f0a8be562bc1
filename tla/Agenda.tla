-------------------------------- MODULE Agenda --------------------------------
(***************************************************************************)
(* The three-tier task agenda of crates/scheduler (mlfq.rs, TaskAgenda) as *)
(* constant-level operators.  An agenda maps each tier to the FIFO of the  *)
(* ids queued in it; a task's mlfq_level is the tier it sits in, so the    *)
(* level boost_all_to_high rewrites is the index itself.                   *)
(***************************************************************************)
EXTENDS Integers, Sequences

NUM_TIERS == 3

Tiers == 0 .. NUM_TIERS - 1

High == 0

\* TaskAgenda::new
EmptyAgenda == [t \in Tiers |-> <<>>]

\* TaskAgenda::push: an out-of-range level is clamped to the last tier.
TierOf(level) == IF level < NUM_TIERS THEN level ELSE NUM_TIERS - 1

Push(agenda, level, id) == [agenda EXCEPT ![TierOf(level)] = Append(@, id)]

IsEmpty(agenda) == \A t \in Tiers : agenda[t] = <<>>

Size(agenda) == Len(agenda[0]) + Len(agenda[1]) + Len(agenda[2])

\* id waits somewhere in the agenda.
Queued(agenda, id) == \E t \in Tiers : \E i \in 1 .. Len(agenda[t]) : agenda[t][i] = id

\* Mutant: the scan over the tiers stops one short of Low.
IsTopAboveLow(agenda, t) ==
    t < 2 /\ agenda[t] # <<>> /\ \A s \in Tiers : s < t => agenda[s] = <<>>

\* TaskAgenda::select_optimal_task scans the tiers in order: IsTop says that
\* tier t is the one it pops, the task being Head(agenda[t]).
IsTop(agenda, t) == agenda[t] # <<>> /\ \A s \in Tiers : s < t => agenda[s] = <<>>

PopTier(agenda, t) == [agenda EXCEPT ![t] = Tail(@)]

\* Mutant: the loop over the tiers stops one short and leaves Low behind.
BoostMediumOnly(agenda) ==
    [agenda EXCEPT ![0] = agenda[0] \o agenda[1], ![1] = <<>>]

\* Mutant: the tiers are emptied from the bottom up, Low before Medium.
BoostLowFirst(agenda) ==
    [t \in Tiers |-> IF t = High THEN agenda[0] \o agenda[2] \o agenda[1] ELSE <<>>]

\* TaskAgenda::boost_all_to_high: Medium, then Low, are moved in order behind
\* whatever High already holds.
BoostAllToHigh(agenda) ==
    [t \in Tiers |-> IF t = High THEN agenda[0] \o agenda[1] \o agenda[2] ELSE <<>>]

(***************************************************************************)
(* IterationAwareMlfq::check_and_boost.  dispatch_count is read only to    *)
(* ask whether it is a positive multiple of boost_interval, so the model   *)
(* keeps its phase: 0 before the first dispatch, then 1 .. interval, with  *)
(* interval standing for every positive multiple.  A boost_interval of 0   *)
(* never boosts.                                                           *)
(***************************************************************************)
NextPhase(phase, interval) == IF phase < interval THEN phase + 1 ELSE 1

BoostDue(phase, interval) == interval # 0 /\ phase # 0 /\ phase = interval

\* Mutant: a boost that is due is skipped while High has work of its own.
BoostIfHighIdle(agenda, phase, interval) ==
    IF BoostDue(phase, interval) /\ agenda[High] = <<>> THEN BoostAllToHigh(agenda) ELSE agenda

CheckAndBoost(agenda, phase, interval) ==
    IF BoostDue(phase, interval) THEN BoostAllToHigh(agenda) ELSE agenda
=============================================================================
