SPECIFICATION Spec
CONSTANTS
  Address <- MCAddress
  StakeAddress = "stake"
  ScriptAddress = {"p"}
  NoSigner = ""
  Name <- MCName
  Txs <- MCTxs
  Blocks <- MCBlocks
  TicketOrder <- MCTicketOrder
  GenesisDraws <- ZeroDraw
  MaxSupply = 14
  BlockReward = 4
  HalvingInterval = 100
  SubsidyFloor = 0
  MinFee = 0
  AllowZeroReward = TRUE
  MaxBlockTxs = 2
  MaxU64 = 1000
  StakingActivation = 2
  StakeMin = 2
  StakeMaturity = 1
  UnbondDelay = 2
  VotesPerBlock = 1
  VoteQuorum = 1
  MinLiveTickets = 1
  StakeRewardBps = 2500
  MaxHeight = 5
  MaxReplaceHeight = 0
  MaxCrashes = 0
  Coinbases <- StakingCoinbases
  Bodies <- StakingBodies
  VoteLists <- LockVotes
  SlashLists <- LockSlashes
  Works = {1}
  DrawLists <- OneDraw
INVARIANTS
  SupplyConserved
  
  UnbondingRespected
