SPECIFICATION RuntimeSpec
CONSTANTS
    h = h
    j1 = j1
    j2 = j2
    NoProcess = NoProcess
    Process <- MCProcess
    Hosting <- MCHosting
    WritersRace = FALSE
    MaxCommands = 2
    MaxFaults = 2
CHECK_DEADLOCK FALSE
INVARIANTS HostSurvivesMembers
