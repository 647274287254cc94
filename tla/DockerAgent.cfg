SPECIFICATION FairSpec
CONSTANTS
  Ids = {c1, c2}
  Jobs = {j1, j2}
  Timeouts <- AskedTimeouts
  DefaultTimeout = 1
  None = None
  NoJob = NoJob
  MaxFaults = 2
  MaxCreates = 3
INVARIANT ReportCovers
PROPERTIES NeverEarly ContainersGo ReportsResume
