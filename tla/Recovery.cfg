SPECIFICATION Spec
CONSTANTS
  Jobs = {j1}
  Nodes = {n1, n2}
  Runners = {r1, r2}
  NoJob = NoJob
  NoNode = NoNode
  NoRunner = NoRunner
  Labels <- OwnLabels
  WorkflowRun <- AllPushed
  Platform <- LinuxNodes
  Slots <- OneSlot
  QueueSize = 1
  Timeout = 1
  Grace = 1
  TTL = 1
  Faults = {"save", "destroy", "create", "late", "dup"}
  MaxFaults = 2
  MaxCrashes = 1
  Forked = j2
  Foreign = j3
SYMMETRY Symmetric
INVARIANTS TypeOK OneUsableRunner UsableIsOnRecord
PROPERTIES TombstonesHold ImplementsLifecycle
