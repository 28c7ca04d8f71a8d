SPECIFICATION Spec
CONSTANTS
  Address <- MCAddress
  StakeAddress = "stake"
  ScriptAddress = {"p"}
  NoSigner = ""
  Name <- MCName
  Txs <- MCTxs
  Blocks <- ReorgBlocks
  TicketOrder <- MCTicketOrder
  GenesisDraws <- ZeroDraw
  MaxSupply = 10
  BlockReward = 4
  HalvingInterval = 100
  SubsidyFloor = 0
  MinFee = 0
  AllowZeroReward = FALSE
  MaxBlockTxs = 2
  MaxU64 = 1000
  StakingActivation = 2
  StakeMin = 2
  StakeMaturity = 1
  UnbondDelay = 2
  VotesPerBlock = 1
  VoteQuorum = 1
  MinLiveTickets = 2
  StakeRewardBps = 2500
  MaxHeight = 3
  MaxReplaceHeight = 3
  MaxCrashes = 1
  Coinbases <- ReorgCoinbases
  Bodies <- ReorgBodies
  VoteLists <- NoVotes
  SlashLists <- LockSlashes
  Works = {1, 2}
  DrawLists <- OneDraw
INVARIANTS
  EmissionCapped
  LateMintCheckHolds
  TicketsAreStakeOutputs
  
  StateIsReplayOfBlocks
  
PROPERTIES
  
  ChainChangesToHeavier
