SPECIFICATION Spec
CONSTANTS
  Accounts <- MCAccounts
  Senders = {"alice"}
  Withdraw = "w"
  precompile_set <- MCPrecompiles
  Fresh <- MCFresh
  Fixed = "m"
  InitialWorld <- MCWorld
  GasLimits = {16, 31}
  NoLimit <- MCNoLimit
  GasPrice = 1
  StackLimit = 3
  BaseCost = 2
  OpcodeCost = 1
  TransferCost = 2
  CallStipend = 1
  DepositCost = 2
  PrecompileGas = 2
  PrecompileTicks = 3
  Divisor = 4
  TicksAllocated = 12
  MaxSteps = 3
  MaxTransactions = 1
  TxValues = {0, 1}
  TargetGas = {8}
  Slots = {1}
  Targets = {"c", "w", "h", "p", "m"}
INVARIANTS SupplyConserved StaticIsPure
PROPERTIES FailureLeavesNoTrace
