\* Two predecessors for one level: switching branches.
SPECIFICATION Spec
CONSTANTS
    a = a  b = b  c = c  g = g  h = h  d1 = d1  d2 = d2  None = None
    Delegates = {d1}
    MaxLevel = 1
    MaxRound = 1
    Payloads = {a, b, c}
    Preds = {g, h}
    PredOf <- TwoBranches
    PredRound <- Later
    ActivationLevel = 0
    Proposer <- NoSlots
    Faults = {}
    StateRecorder = "Memory"
    MaxStream = 2
INVARIANTS WaitsInCurrentRound
PROPERTIES LocksNeverRegress
CHECK_DEADLOCK FALSE
