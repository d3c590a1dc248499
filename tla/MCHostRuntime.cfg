SPECIFICATION RuntimeSpec
CONSTANTS
    h = h
    j1 = j1
    j2 = j2
    NoProcess = NoProcess
    Process <- MCProcess
    Hosting <- MCHosting
    WritersRace = TRUE
    MaxCommands = 1
    MaxFaults = 1
CHECK_DEADLOCK FALSE
INVARIANTS RuntimeTypeOK RosterIsShared SessionsAreOrderly
PROPERTIES GreetersAreServed GoneAreDropped LeaversEnd HostFollowsItsPeers
CONSTRAINT OneSpeaks
