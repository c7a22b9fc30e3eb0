SPECIFICATION Spec
CONSTANTS
    Jobs = {"j1", "j2"}
    Prompts = {"p"}
    Hosts <- MCHosts
    CliFlags <- MCFlags
    Runs = 2
    Crashes = 1
INVARIANTS
    
    RestartKeepsALatest
PROPERTIES
    CommandsEnd
CHECK_DEADLOCK FALSE
