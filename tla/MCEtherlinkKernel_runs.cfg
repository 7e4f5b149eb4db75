CONSTANTS
    None = None
    NoPointers = NoPointers
    NoId = NoId
    small = small
    big = big
    huge = huge
    wd = wd
    dust = dust
    poor = poor
    wrong = wrong
    cut = cut
    alice = alice
    bob = bob
    carol = carol
    zero = zero
    sr1 = sr1
    kt1Ticketer = kt1Ticketer
    kt1Admin = kt1Admin
    kt1SeqAdmin = kt1SeqAdmin
    kt1Bridge = kt1Bridge
    other = other
    seq = seq
    K1 = K1
    K2 = K2
    K3 = K3
    genesis = genesis
    MaxMessages = 3
    SmartRollup = sr1
    Ticketer = kt1Ticketer
    Admin = kt1Admin
    SequencerAdmin = kt1SeqAdmin
    DelayedBridge = kt1Bridge
    Pieces <- MCPieces
    ShortPieces = {"c2"}
    WeiPerMutez = 2
    Tx <- MCTx
    SequencerBlueprints <- MCSequencerBlueprints
    Addresses = {alice, bob, carol, zero}
    ZeroAddress = zero
    InitialBalance <- MCInitialBalance
    ChainId = 1
    BaseFee = 1
    TicksForDeposit = 1
    InvalidTicks = 1
    RegisterTicks = 1
    FinalizeTicks = 1
    TicksForCrypto = 1
    DepositGas = 1
    MaxAllowedTicks = 12
    FirstKernel = K1
    StorageVersion <- MCStorageVersion
    BrokenMigration = {K3}
    FirstParent = genesis
    InitialSequencers = {None, seq}
    Inboxes <- MCInboxes
    MaxReboots = 2
    MaxLevels = 3
SPECIFICATION FairSpec
INVARIANTS
    DepositsAccounted
    BalancesMatchReceipts
    ChainConsistent
    KernelMatchesStorage
    WithdrawalsPosted
PROPERTY BlockInProgressFinishes
