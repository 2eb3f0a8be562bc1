---------------------------- MODULE MCSomaticLoop ----------------------------
(* Small instances of the serving agent for TLC.                           *)
EXTENDS SomaticLoop

\* One packet of each kind the gate and the conversation treat differently.
MixedPackets ==
    { [origin |-> "operator", priority |-> "critical", forced |-> TRUE, linked |-> TRUE],
      [origin |-> "operator", priority |-> "high", forced |-> FALSE, linked |-> TRUE],
      [origin |-> "operator", priority |-> "low", forced |-> FALSE, linked |-> FALSE],
      [origin |-> "internal", priority |-> "normal", forced |-> FALSE, linked |-> FALSE] }

\* One packet the gate may decline and one it never sees.
TwoPackets ==
    { [origin |-> "operator", priority |-> "low", forced |-> FALSE, linked |-> TRUE],
      [origin |-> "internal", priority |-> "normal", forced |-> FALSE, linked |-> FALSE] }

\* The worst reading: the raw threshold is 1.05, above the gate's clamp.
Overheated == [thermal |-> 100, memory |-> 100, financial |-> 0, attention |-> 0]

Readings == {Neutral, Overheated}

\* The plain gate; the same and drives at the conservative end of the affect nudge.
PlainGate == {NoMood}

BothGates == {NoMood, [delta |-> 0, nudge |-> 110]}
=============================================================================
