SPECIFICATION Spec
CONSTANTS
    MaxEntrypoint = 4
    DefaultEntrypoint <- const_DefaultEntrypoint
    Addresses = {1, 2}
    MaxU64 = 3
    MaxI64 = 2
    U16 = 3
    MaxContentSize = 4
    MaxHashesPerPage = 3
    MaxTopLevelHashes = 2
    ChunkSize = 5
    Themes <- const_Themes
    RollupAddress = 7
    CommitteeSize = 2
    MAX_ENVELOPE_CONTENT_SIZE = 64
    TRANSACTIONS_PER_KERNEL_RUN = 2
    PageSize = 4
    NumPages = 4
    MaxLevel = 3
INVARIANTS
    TicketsBacked
    PayloadInOrder
    WireFaithful
CHECK_DEADLOCK FALSE
