\* Three rounds of one level, crashes inside every action; our slot comes
\* at round 2.
SPECIFICATION Spec
CONSTANTS
    a = a  b = b  c = c  g = g  h = h  d1 = d1  d2 = d2  None = None
    Delegates = {d1}
    MaxLevel = 1
    MaxRound = 2
    Payloads = {a, b}
    Preds = {g}
    PredOf <- OneBranch
    PredRound <- PredsAtRoundZero
    ActivationLevel = 0
    Proposer <- LateSlot
    Faults = {"crash", "rpc"}
    StateRecorder = "Filesystem"
    MaxStream = 2
SYMMETRY PayloadSymmetry
INVARIANTS TypeOK QuorumMatchesBlock NeverDeaf LockCoversAttestations PrequorumsAreGenuine
PROPERTIES PreattestRule
CHECK_DEADLOCK FALSE
