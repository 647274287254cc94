SPECIFICATION Spec
CONSTANTS
  Jobs = {Small, Large, Special}
  Small = Small
  Large = Large
  Special = Special
  Request <- MixedJobs
  Machines <- TwoMachines
  Others <- NoOthers
  Faults = {"probe", "save", "destroy"}
  MaxFaults = 2
INVARIANT NoOvercommit
PROPERTY LeastLoaded
