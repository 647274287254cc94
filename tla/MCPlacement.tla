---------------------------- MODULE MCPlacement ----------------------------
(* Instances of Placement for TLC.                                          *)
EXTENDS Placement

CONSTANTS Small, Large, Special     \* jobs

Node(cpu, memory, caps) ==
  [os |-> "linux", arch |-> "amd64", caps |-> caps, cpu |-> cpu, memory |-> memory]
Ask(cpu, memory, caps) ==
  [os |-> "linux", arch |-> "amd64", isolation |-> "container", caps |-> caps,
   cpu |-> cpu, memory |-> memory]

(* Two nodes, of which one has a capability, and three jobs: the records of *)
(* two controller configurations and one that needs the capability.         *)
TwoMachines == <<Node(4, 10, {}), Node(2, 10, {"gpu"})>>
MixedJobs ==
  [j \in Jobs |-> CASE j = Small   -> Ask(1, 4, {})
                   [] j = Large   -> Ask(2, 6, {})
                   [] j = Special -> Ask(1, 6, {"gpu"})]
NoOthers == [n \in Nodes |-> 0]

(* One node, with room for one large job, or for two small ones if no other *)
(* programs use four of its ten units of memory.                            *)
OneMachine    == <<Node(2, 10, {})>>
EqualJobs     == [j \in Jobs |-> Ask(1, 4, {})]
FullJobs      == [j \in Jobs |-> Ask(2, 6, {})]
OtherPrograms == [n \in Nodes |-> 4]

=============================================================================
