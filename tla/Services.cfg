SPECIFICATION Spec
CONSTANTS
    Parts = {"tokens", "bridge", "contracts", "storage", "compute", "privacy", "notes", "messages", "pipeline", "files",
             "emission", "retarget", "draw"}
    Sessions <- AllSessions
    Setups <- AllSetups
    EngineOrder <- TwoEngines
    MaxWrites = 2
    MaxStarts = 2
    Forms = {"even", "number"}
INVARIANTS ClaimsAreBacked   RecordsAgree QuitSavesAll
INVARIANTS ForecastsComeTrue RetargetIsStable
PROPERTIES ValueIsConserved  
CHECK_DEADLOCK FALSE
