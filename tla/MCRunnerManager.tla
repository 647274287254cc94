-------------------------- MODULE MCRunnerManager --------------------------
(* Instances of RunnerManager for TLC.                                      *)
EXTENDS RunnerManager, TLC

OneSlot  == [n \in Nodes |-> 1]
TwoSlots == [n \in Nodes |-> 2]

LinuxNodes == [n \in Nodes |-> [os |-> "linux", arch |-> "amd64", caps |-> {"docker"}]]

(* The labels of a job, with one of its own or without.                     *)
OwnLabels    == [j \in Jobs |-> {"cifleet", "linux-x64", j}]
SharedLabels == [j \in Jobs |-> {"cifleet", "linux", "x64"}]

Push == [repository |-> "same", private |-> FALSE, event |-> "push", head |-> "same"]
AllPushed == [j \in Jobs |-> Push]

(* Three jobs: one to be served, one of a pull request whose fork is gone,  *)
(* and one that does not ask for CIFleet but fits the first one's runner.   *)
CONSTANTS Forked, Foreign
MixedLabels ==
  [j \in Jobs |-> CASE j = Foreign -> {"linux", "x64"}
                   [] j = Forked  -> {"cifleet", "linux-x64", "cifleet-cap-docker"}
                   [] OTHER       -> {"cifleet", "linux", "x64"}]
MixedRuns ==
  [j \in Jobs |-> IF j = Forked
                    THEN [Push EXCEPT !.event = "pull_request", !.head = "none"]
                    ELSE Push]

Symmetric == Permutations(Nodes) \cup Permutations(Runners)

=============================================================================
