SPECIFICATION FairSpec
CONSTANTS
  Jobs = {j1}
  Nodes = {n1}
  Runners = {r1, r2, r3}
  NoJob = NoJob
  NoNode = NoNode
  NoRunner = NoRunner
  Labels <- OwnLabels
  WorkflowRun <- AllPushed
  Platform <- LinuxNodes
  Slots <- OneSlot
  QueueSize = 1
  Timeout = 1
  Grace = 1
  TTL = 1
  Faults = {"save", "getrun", "jit", "jitlost", "delete", "destroy", "create", "late", "dup", "lose", "stale", "probe", "exit"}
  MaxFaults = 1
  MaxCrashes = 1
  Forked = j2
  Foreign = j3
PROPERTIES PendingIsServed RecordsEnd ContainersEnd
