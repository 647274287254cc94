SPECIFICATION Spec
CONSTANTS
  Jobs = {Small, Large}
  Small = Small
  Large = Large
  Special = Special
  Request <- EqualJobs
  Machines <- OneMachine
  Others <- OtherPrograms
  Faults = {}
  MaxFaults = 0
INVARIANT NoOvercommit
