----------------------------- MODULE Placement -----------------------------
(***************************************************************************)
(* Where jobs are placed: RunnerManager.place with its reservations, the   *)
(* registry of Server and the capacity reports of the agents, in CPU and   *)
(* memory.  A report is measured by the agent, travels, and is used until  *)
(* the next one arrives; meanwhile containers start, exit and are removed. *)
(* A container can outlive its record: an undo or a recovery drops the     *)
(* error of its destroy, and after a restart the controller skips the      *)
(* destroys on nodes it has not heard of yet.                              *)
(*                                                                         *)
(* A handler is one step here, except that others see the record of an     *)
(* attempt while its container is being made.  Time is left out: any       *)
(* deadline may have passed.                                               *)
(***************************************************************************)
EXTENDS Scheduler, Integers, FiniteSetsExt

CONSTANTS
  Jobs,
  Request,     \* Request[j]: the requirements of j, with cpu and memory
  Machines,    \* the nodes in the order of their ids: os, arch, caps, cpu, memory
  Others,      \* Others[n]: memory other programs use on node n
  Faults,      \* the kinds of failures this instance includes
  MaxFaults    \* bound on the failures of a behaviour

Nodes == DOMAIN Machines

(* What a job asks for, and what a node is.                                 *)
Requirement ==
  [os : STRING, arch : STRING, isolation : DOMAIN Preferred, caps : SUBSET STRING,
   cpu : Nat, memory : Nat]
Machine == [os : STRING, arch : STRING, caps : SUBSET STRING, cpu : Nat, memory : Nat]

FaultKinds == {"probe", "silence", "save", "create", "late", "destroy", "restart"}

ASSUME PlacementAssumption ==
  /\ IsFiniteSet(Jobs) /\ Request \in [Jobs -> Requirement]
  /\ Machines \in Seq(Machine)
  /\ \A n \in Nodes : Others[n] \in 0..Machines[n].memory
  /\ Faults \subseteq FaultKinds /\ MaxFaults \in Nat

VARIABLES
  record,    \* record[j]: status and node of the job's record in memory
  disk,      \* the records in the state file
  busy,      \* the job whose container tryProvision is waiting for, if any
  box,       \* box[n][j]: the container named for j on node n: none, up, exited
  late,      \* create requests given up by the controller, still to be run
  beat,      \* beat[n]: the report on its way to the controller
  registry,  \* registry[n]: the last report that arrived, and whether it is recent
  faults

vars == <<record, disk, busy, box, late, beat, registry, faults>>

(* "running" stands for cleanup_pending too: place treats them alike, and a *)
(* running record may be overdue.                                           *)
Active  == {"provisioning", "running"}
Pending == [status |-> "pending", node |-> NoPlacement]

Unknown == [online |-> FALSE, entry |-> FALSE]     \* no heartbeat since the start
Stale   == [online |-> FALSE, entry |-> TRUE]      \* none for NodeTTL

Init ==
  /\ record = [j \in Jobs |-> Pending] /\ disk = record /\ busy = {}
  /\ box = [n \in Nodes |-> [j \in Jobs |-> "none"]] /\ late = {}
  /\ beat = [n \in Nodes |-> Unknown] /\ registry = [n \in Nodes |-> Unknown]
  /\ faults = 0

(* The failures K happen in one step.                                       *)
Fault(K) ==
  K \subseteq Faults /\ faults + Cardinality(K) <= MaxFaults /\ faults' = faults + Cardinality(K)

(* saveLocked, in a step with the failures K.                               *)
saveLocked(new, K) ==
  /\ record' = new
  /\ \/ disk' = new /\ Fault(K)
     \/ disk' = disk /\ Fault(K \cup {"save"})

(* What a set of jobs asks for together.                                    *)
CPU ==
  [J \in SUBSET Jobs |-> SumFunctionOnSet([j \in Jobs |-> Request[j].cpu], J)]
Memory ==
  [J \in SUBSET Jobs |-> SumFunctionOnSet([j \in Jobs |-> Request[j].memory], J)]

(* The containers of a node; docker ps lists the running ones.              *)
managed(n) == {j \in Jobs : box[n][j] # "none"}
managedContainerIDs(n) == {j \in Jobs : box[n][j] = "up"}

(* What the operating system says of the memory: containers may use none of *)
(* theirs, other programs use all of what they have.                        *)
memoryMB(n) ==
  [total |-> Machines[n].memory, available |-> Machines[n].memory - Others[n]]

(* Capacity: what is free is what no running container was promised, and of *)
(* memory no more than what is available.                                   *)
Capacity(n) ==
  LET ids == managedContainerIDs(n) IN
  [freeCPU    |-> Max({0, Machines[n].cpu - CPU[ids]}),
   freeMemory |-> Min({memoryMB(n).available, Max({0, memoryMB(n).total - Memory[ids]})}),
   running    |-> Cardinality(ids)]

(* sendHeartbeat measures; if the probe fails the node reports no backend   *)
(* and no capacity.                                                         *)
Report(c, backends, totalCPU, totalMemory) ==
  [online |-> TRUE, entry |-> TRUE, backends |-> backends,
   totalCPU |-> totalCPU, totalMemory |-> totalMemory,
   freeCPU |-> c.freeCPU, freeMemory |-> c.freeMemory, running |-> c.running]

Unavailable == Report([freeCPU |-> 0, freeMemory |-> 0, running |-> 0], {}, 0, 0)

sendHeartbeat(n) ==
  /\ beat[n] = Unknown
  /\ \/ /\ beat' = [beat EXCEPT ![n] =
                      Report(Capacity(n), {"docker"}, Machines[n].cpu, Machines[n].memory)]
        /\ UNCHANGED faults
     \/ Fault({"probe"}) /\ beat' = [beat EXCEPT ![n] = Unavailable]
  /\ UNCHANGED <<record, disk, busy, box, late, registry>>

(* The controller stores the report as it is.                               *)
heartbeat(n) ==
  /\ beat[n] # Unknown
  /\ registry' = [registry EXCEPT ![n] = beat[n]] /\ beat' = [beat EXCEPT ![n] = Unknown]
  /\ UNCHANGED <<record, disk, busy, box, late, faults>>

(* No report for NodeTTL.                                                   *)
silence(n) ==
  /\ registry[n].online /\ Fault({"silence"}) /\ registry' = [registry EXCEPT ![n] = Stale]
  /\ UNCHANGED <<record, disk, busy, box, late, beat>>

(* rawNode: the registry has an entry, online or not.                       *)
rawNode(n) == registry[n].entry

(* The jobs whose records hold a place on node n.                           *)
Holding(store, n) == {j \in Jobs : store[j].node = n /\ store[j].status \in Active}

(* Mutant: the places of jobs that are over are not given back.             *)
reservationsKeepDone(n) == {j \in Jobs : record[j].node = n}

(* Mutant: an attempt holds no place before its container runs.             *)
reservationsRunning(n) == {j \in Jobs : record[j].node = n /\ record[j].status = "running"}

reservations(n) == Holding(record, n)

(* What snapshotNodes and the adjustments of place make of a report.        *)
seen(n) ==
  LET r == registry[n]
      R == reservations(n)
      Within(free, total, used) == IF total > 0 THEN Min({free, Max({0, total - used})}) ELSE free
  IN [os |-> Machines[n].os, arch |-> Machines[n].arch, caps |-> Machines[n].caps,
      online     |-> r.online,
      backends   |-> IF r.online THEN r.backends ELSE {},
      freeCPU    |-> IF r.online THEN Within(r.freeCPU, r.totalCPU, CPU[R]) ELSE 0,
      freeMemory |-> IF r.online THEN Within(r.freeMemory, r.totalMemory, Memory[R]) ELSE 0,
      running    |-> IF r.online THEN Max({r.running, Cardinality(R)}) ELSE 0]

(* place, and the record that holds the place from then on.                 *)
Choice(j) == Place(Request[j], [n \in Nodes |-> seen(n)])

Placeable(j) == record[j].status = "pending" /\ Choice(j) # NoPlacement

(* The record is saved before the container is asked for; if that fails,    *)
(* memory keeps a record in provisioning and nothing is asked for.          *)
place(j) ==
  /\ busy = {} /\ Placeable(j)
  /\ record' = [record EXCEPT ![j] = [status |-> "provisioning", node |-> Choice(j)]]
  /\ \/ disk' = record' /\ busy' = {j} /\ Fault({})
     \/ disk' = disk /\ busy' = {} /\ Fault({"save"})
  /\ UNCHANGED <<box, late, beat, registry>>

(* DestroyInstance: a failed call may have removed the container.  Whether  *)
(* it names the container or its id matters only for one that a late create *)
(* put in the place of another; RunnerManager tells them apart.             *)
destroyed(n, j) == box' = [box EXCEPT ![n][j] = "none"]
destroyFails(n, j) == box' = box \/ destroyed(n, j)

(* CreateInstance makes the container if its name is free.                  *)
createInstance(j) ==
  LET n == record[j].node IN
  /\ busy = {j} /\ busy' = {}
  /\ box[n][j] = "none" /\ box' = [box EXCEPT ![n][j] = "up"]
  /\ saveLocked([record EXCEPT ![j].status = "running"], {})
  /\ UNCHANGED <<late, beat, registry>>

(* It fails because the name is in use, before or after the container was   *)
(* made, or while the request is on its way.  The undo drops the error of   *)
(* its destroy, and the record goes back to pending.                        *)
Failures == {{}, {"create"}, {"late"}}

createFails(j) ==
  LET n == record[j].node IN
  /\ busy = {j} /\ busy' = {}
  /\ \E K \in Failures :
       /\ K = {} => box[n][j] # "none"
       /\ late' = IF K = {"late"} THEN late \cup {<<n, j>>} ELSE late
       /\ \/ destroyed(n, j) /\ saveLocked([record EXCEPT ![j] = Pending], K)
          \/ /\ box' = IF K = {"create"} /\ box[n][j] = "none"
                        THEN [box EXCEPT ![n][j] = "up"] ELSE box
             /\ saveLocked([record EXCEPT ![j] = Pending], K \cup {"destroy"})
  /\ UNCHANGED <<beat, registry>>

(* A request the controller no longer waits for reaches Docker.             *)
lateCreate(n, j) ==
  /\ <<n, j>> \in late /\ late' = late \ {<<n, j>>}
  /\ box' = IF box[n][j] = "none" THEN [box EXCEPT ![n][j] = "up"] ELSE box
  /\ UNCHANGED <<record, disk, busy, beat, registry, faults>>

(* The process of a container ends; the container stays.                    *)
exit(n, j) ==
  /\ box[n][j] = "up" /\ box' = [box EXCEPT ![n][j] = "exited"]
  /\ UNCHANGED <<record, disk, busy, late, beat, registry, faults>>

(* The agent's sweep removes a container whose deadline has passed.         *)
janitor(n, j) ==
  /\ box[n][j] # "none" /\ destroyed(n, j)
  /\ UNCHANGED <<record, disk, busy, late, beat, registry, faults>>

(* Mutant: the record is released before the container is gone.             *)
releaseFirst(j) ==
  box' = box /\ saveLocked([record EXCEPT ![j].status = "done"], {})

(* The record is released once the container is gone; the destroy is        *)
(* skipped if the registry has no entry for the node.                       *)
release(j) ==
  LET n == record[j].node IN
  /\ IF rawNode(n) THEN destroyed(n, j) ELSE box' = box
  /\ saveLocked([record EXCEPT ![j].status = "done"], {})

(* handleCompleted; a record whose destroy failed waits for its cleanup.    *)
handleCompleted(j) ==
  LET r == record[j] IN
  /\ busy = {}
  /\ \/ /\ r.status = "pending" /\ box' = box
        /\ saveLocked([record EXCEPT ![j].status = "done"], {})
     \/ r.status \in Active /\ release(j)
     \/ /\ r.status \in Active /\ rawNode(r.node) /\ destroyFails(r.node, j)
        /\ saveLocked([record EXCEPT ![j].status = "running"], {"destroy"})
  /\ UNCHANGED <<busy, late, beat, registry>>

(* cleanupRecord, for an overdue record or one waiting for cleanup.         *)
cleanupRecord(j) ==
  /\ busy = {} /\ record[j].status = "running"
  /\ \/ release(j)
     \/ /\ rawNode(record[j].node) /\ destroyFails(record[j].node, j) /\ Fault({"destroy"})
        /\ UNCHANGED <<record, disk>>
  /\ UNCHANGED <<busy, late, beat, registry>>

(* recoverProvisioning, for an attempt nobody works on: the destroy is      *)
(* skipped if the registry has no entry for the node, and its error is      *)
(* dropped.  The attempt that follows, if GitHub answers, is place.         *)
recoverProvisioning(j) ==
  LET n == record[j].node
      new == [record EXCEPT ![j] = Pending]
  IN
  /\ busy = {} /\ record[j].status = "provisioning"
  /\ \/ ~rawNode(n) /\ box' = box /\ saveLocked(new, {})
     \/ rawNode(n) /\ destroyed(n, j) /\ saveLocked(new, {})
     \/ rawNode(n) /\ destroyFails(n, j) /\ saveLocked(new, {"destroy"})
  /\ UNCHANGED <<busy, late, beat, registry>>

(* The process ends and is started again: the records come from the state   *)
(* file, the registry is empty, reports on their way are lost with their    *)
(* connections, and a create request may be under way.                      *)
restart ==
  /\ Fault({"restart"})
  /\ record' = disk /\ busy' = {}
  /\ registry' = [n \in Nodes |-> Unknown] /\ beat' = [n \in Nodes |-> Unknown]
  /\ \/ late' = late
     \/ \E j \in busy : late' = late \cup {<<record[j].node, j>>}
  /\ UNCHANGED <<disk, box>>

Next ==
  \/ \E n \in Nodes : sendHeartbeat(n) \/ heartbeat(n) \/ silence(n)
  \/ \E n \in Nodes, j \in Jobs : lateCreate(n, j) \/ exit(n, j) \/ janitor(n, j)
  \/ \E j \in Jobs : \/ place(j) \/ createInstance(j) \/ createFails(j)
                     \/ handleCompleted(j) \/ cleanupRecord(j) \/ recoverProvisioning(j)
  \/ restart

Spec == Init /\ [][Next]_vars

(* Agents report and sweep on tickers, reconcile visits pending, overdue    *)
(* and interrupted records on another, and a handler runs to its end.  An   *)
(* action that is enabled exactly while a condition holds, and ends it, is  *)
(* weakly fair if the condition does not last: so for the reports, which    *)
(* keep leaving and arriving, and for place.  Nothing is assumed of GitHub: *)
(* the completed event of a job may never come.                             *)
Fairness ==
  /\ \A n \in Nodes : []<>(beat[n] # Unknown) /\ []<>(beat[n] = Unknown)
  /\ \A n \in Nodes, j \in Jobs : WF_vars(janitor(n, j))
  /\ \A j \in Jobs : /\ []<>~Placeable(j) /\ WF_vars(createInstance(j) \/ createFails(j))
                     /\ WF_vars(cleanupRecord(j)) /\ WF_vars(recoverProvisioning(j))

FairSpec == Spec /\ Fairness

(***************************************************************************)
(* Properties                                                              *)
(***************************************************************************)
(* The records that hold places on a node, in memory or after a restart     *)
(* from the state file, never ask for more CPU or memory than it has,       *)
(* however old the report is that place has used and whatever containers    *)
(* have lost their records.                                                 *)
PromisesFit ==
  \A n \in Nodes, s \in {record, disk} :
    CPU[Holding(s, n)] <= Machines[n].cpu /\ Memory[Holding(s, n)] <= Machines[n].memory

(* The containers of a node, with the jobs whose containers are about to be *)
(* made, and the other programs on it never exceed its CPU and memory:      *)
(* reservations stand in for what no heartbeat has told yet.                *)
NoOvercommit ==
  \A n \in Nodes : LET J == managed(n) \cup reservations(n) IN
    CPU[J] <= Machines[n].cpu /\ Memory[J] + Others[n] <= Machines[n].memory

(* A job goes to the least loaded node: no other node of its platform that  *)
(* reports docker has fewer jobs, by its last report and by the             *)
(* controller's records, and room for the job in both.                      *)
Load(n) == Max({registry[n].running, Cardinality(reservations(n))})
HasRoom(n, req) ==
  /\ registry[n].freeCPU >= req.cpu /\ registry[n].freeMemory >= req.memory
  /\ CPU[reservations(n)] + req.cpu <= Machines[n].cpu
  /\ Memory[reservations(n)] + req.memory <= Machines[n].memory

LeastLoaded ==
  [][\A j \in Jobs :
       ~restart /\ record[j].status = "pending" /\ record'[j].status = "provisioning" =>
       \A n \in Nodes :
         /\ registry[n].online /\ Suits(Request[j], Machines[n])
         /\ "docker" \in registry[n].backends /\ HasRoom(n, Request[j])
         => Load(record'[j].node) <= Load(n)]_vars

(* A job that some empty node can take is placed in the end and its         *)
(* record released, although others hold the places meanwhile, attempts     *)
(* fail, containers without records take up room until they are swept,      *)
(* nodes fall silent, the controller restarts, and the room given back      *)
(* shows only in a later heartbeat.                                         *)
Fits(j, n) ==
  /\ Suits(Request[j], Machines[n]) /\ Request[j].isolation = "container"
  /\ Request[j].cpu <= Machines[n].cpu /\ Request[j].memory + Others[n] <= Machines[n].memory

WaitingIsPlaced ==
  \A j \in Jobs :
    (\E n \in Nodes : Fits(j, n)) => (record[j].status = "pending" ~> record[j].status = "done")

=============================================================================
