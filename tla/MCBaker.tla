------------------------------ MODULE MCBaker ------------------------------
(* Small instances of Baker for TLC.                                       *)
EXTENDS Baker, TLC

CONSTANTS a, b, c, g, h, d1, d2

\* d1 proposes at round 1 of levels 1 and 2, and at round 0 of level 3.
RoundOneThenZero ==
    [l \in 1 .. MaxLevel + 1 |-> [r \in Rounds |->
        IF (l <= 2 /\ r = 1) \/ (l = 3 /\ r = 0) THEN d1 ELSE None]]

\* d1 proposes at round 2 of level 1 only.
LateSlot ==
    [l \in 1 .. MaxLevel + 1 |-> [r \in Rounds |->
        IF l = 1 /\ r = 2 THEN d1 ELSE None]]

NoSlots == [l \in 1 .. MaxLevel + 1 |-> [r \in Rounds |-> None]]

OneBranch == [y \in Payloads |-> g]
TwoBranches == [y \in Payloads |-> IF y = a THEN g ELSE h]
Later == [x \in Preds |-> IF x = g THEN 1 ELSE 0]
PayloadSymmetry == Permutations({a, b})
PredsAtRoundZero == [x \in Preds |-> 0]
=============================================================================
