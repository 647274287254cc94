SPECIFICATION Spec
CONSTANTS
  Jobs = {j1, j2, j3}
  Nodes = {n1}
  Runners = {r1, r2}
  NoJob = NoJob
  NoNode = NoNode
  NoRunner = NoRunner
  Labels <- MixedLabels
  WorkflowRun <- MixedRuns
  Platform <- LinuxNodes
  Slots <- OneSlot
  QueueSize = 1
  Timeout = 1
  Grace = 1
  TTL = 1
  Faults = {"create", "delete"}
  MaxFaults = 2
  MaxCrashes = 0
  Forked = j2
  Foreign = j3
SYMMETRY Symmetric
INVARIANTS OnlyAdmittedJobsRun NamesAreNew
