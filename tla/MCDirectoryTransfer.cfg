CONSTANTS
  r1 = r1
  r2 = r2
  Receiver <- MCReceiver
  FileCount = 2
  Workers <- MCWorkers
  MaxFaults = 2
  MaxAttempts <- MCAttempts
SPECIFICATION DirectorySpec
CHECK_DEADLOCK FALSE
INVARIANTS DirectoryTypeOK OnlyFaultsFailADownload
PROPERTIES KeepsPromise
