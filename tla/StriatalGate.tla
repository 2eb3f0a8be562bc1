----------------------------- MODULE StriatalGate -----------------------------
(***************************************************************************)
(* The arithmetic of the Striatal Gate (crates/vita/src/gate.rs) and of its *)
(* drive-augmented variant (motivation_gate.rs), as somatic intake uses it. *)
(* Inputs are percentages, scores ten-thousandths, so the weights of        *)
(* GateConfig::default are exact integers.                                  *)
(***************************************************************************)
EXTENDS Integers

Priorities == {"low", "normal", "high", "critical"}

Percent == 0 .. 100

\* HomeostaticSignals, less the two readings no formula uses.
Signals == [thermal : Percent, memory : Percent, financial : Percent, attention : Percent]

Neutral == [thermal |-> 0, memory |-> 0, financial |-> 100, attention |-> 0]

\* What the drives add to a value and multiply a threshold by (per cent) in
\* decide_motivated: every contribution is non-negative and the sum is capped
\* by max_drive_delta; the nudge is clamped to [0.9, 1.1].  NoMood is the plain
\* ThresholdGate.
Mood == [delta : 0 .. 2500, nudge : 90 .. 110]

NoMood == [delta |-> 0, nudge |-> 100]

Clamp(x, lo, hi) == IF x < lo THEN lo ELSE IF x > hi THEN hi ELSE x

\* The urgency somatic intake gives an operator packet of each priority.
Urgency(priority) ==
    IF priority = "low" THEN 25 ELSE IF priority = "normal" THEN 50
    ELSE IF priority = "high" THEN 75 ELSE 100

\* value_score of an intake event: novelty 0.5, user-facing, OperatorCommand.
ValueScore(priority) ==
    Clamp(65 * Urgency(priority) + 35 * 50 + 1500 + 2000, 0, 10000)

RawThreshold(s) ==
    4000 + 30 * s.thermal + 20 * s.memory + 15 * (100 - s.financial) - 20 * s.attention

AdaptiveThreshold(s) == Clamp(RawThreshold(s), 500, 9900)

\* Mutant: the nudged threshold is not clamped again.
NudgedUnclamped(s, mood) == (AdaptiveThreshold(s) * mood.nudge) \div 100

NudgedThreshold(s, mood) == Clamp((AdaptiveThreshold(s) * mood.nudge) \div 100, 500, 9900)

\* decide / decide_motivated: invoke?  OperatorForced always invokes.
Invoke(priority, forced, s, mood) ==
    \/ forced
    \/ Clamp(ValueScore(priority) + mood.delta, 0, 10000) >= NudgedThreshold(s, mood)
=============================================================================
