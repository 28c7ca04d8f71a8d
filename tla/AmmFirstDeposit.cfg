SPECIFICATION Spec
CONSTANTS
    Parts = {"tokens"}
    Sessions <- FirstDeposits
    Setups <- AllSetups
    EngineOrder <- TwoEngines
    MaxWrites = 2
    MaxStarts = 2
    Forms = {"even", "number"}
CHECK_DEADLOCK FALSE
INVARIANT CommandsReturn
