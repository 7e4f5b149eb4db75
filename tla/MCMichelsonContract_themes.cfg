CONSTANTS
  MaxMutez = 9
  Order = 5
  Amount = 3
  Balance = 6
  Level = 2
  Now = 100
  MinBlockTime = 1
  Prims <- MCPrims
  Contracts <- MCContracts
  SelfHash <- Self
  Sender <- Other
  Source <- MCSource
  VotingPowers <- MCVotingPowers
  Themes <- AllThemes
SPECIFICATION Spec
INVARIANTS
  TypeSoundness
  PackRoundTrip
  TicketsConserved
  StorageReloads
PROPERTY DumpPreserves
CHECK_DEADLOCK FALSE
