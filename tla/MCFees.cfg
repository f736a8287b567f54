\* One payer, two authors of whom one has no account yet, blocks of up to three
\* quarters with a target of one quarter, and issuances around and above the votes.
SPECIFICATION Spec
CONSTANTS
  alice = alice
  bob = bob
  carol = carol
  treasury = treasury
  Accounts <- MCAccounts
  Payers <- MCPayers
  Validators <- MCValidators
  Treasury = treasury
  GenesisBalances <- MCBalances
  ExistentialDeposit = 2
  BaseFee = 1
  WeightFeeCoefficient = 1
  Weights <- MCWeights
  MaxWeight = 8
  AvailableWeight = 6
  TargetWeight = 2
  One = 20
  V = 4
  HalfVSquared = 1
  MaxFixed = 4
  MaxVote = 6
  Rewards <- MCRewards
  MaxBalance = 14
INVARIANTS
  FeesAreAccounted
  MinorityVotesFit
PROPERTIES
  PriceFollowsLoad
  EmptyChainGetsFree
