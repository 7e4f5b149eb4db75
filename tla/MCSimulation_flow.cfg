\* Transactions from the node to the chain: requests cut in chunks, losses,
\* reorderings, two blocks, a reboot.
SPECIFICATION Spec
CONSTANTS
    WordBytes = 2
    LongBytes = 1
    AddressBytes = 1
    ChainId = 3
    BaseFee = 2
    Submissions <- MCSubmissions
    Bridged <- MCBridged
    Calls <- MCCalls
    Deposits <- MCDeposits
    Genesis <- MCGenesis
    MaxChunkSize = 20
    BlueprintChunkSize = 60
    MaxAccepted = 2
    MaxFaults = 1
    MaxBlocks = 2
    MaxBlueprintTxs = 2
    MaxReboots = 1
INVARIANTS
    SimulatesTheRequest
    ValidationAgrees
    ChainReadsBack
CHECK_DEADLOCK FALSE
