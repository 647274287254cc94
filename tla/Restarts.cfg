SPECIFICATION FairSpec
CONSTANTS
  Jobs = {Small, Large, Special}
  Small = Small
  Large = Large
  Special = Special
  Request <- FullJobs
  Machines <- OneMachine
  Others <- NoOthers
  Faults = {"probe", "silence", "save", "create", "late", "destroy", "restart"}
  MaxFaults = 2
INVARIANT PromisesFit
PROPERTY WaitingIsPlaced
