\* A start on the first block of the protocol, then a level of votes, with
\* slots of our own at both, crashes and every failing call.
SPECIFICATION Spec
CONSTANTS
    a = a  b = b  c = c  g = g  h = h  d1 = d1  d2 = d2  None = None
    Delegates = {d1}
    MaxLevel = 2
    MaxRound = 1
    Payloads = {a, b}
    Preds = {g}
    PredOf <- OneBranch
    PredRound <- PredsAtRoundZero
    ActivationLevel = 1
    Proposer <- RoundOneThenZero
    Faults = {"crash", "sync", "disk", "read", "hwm", "sign", "forge", "inject"}
    StateRecorder = "Filesystem"
    MaxStream = 1
SYMMETRY PayloadSymmetry
INVARIANTS ForgedExtendsElected FirstBlockIsFinal LockedImpliesAttestable NoDoubleSigning
CHECK_DEADLOCK FALSE
