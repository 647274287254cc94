--------------------------- MODULE RunnerManager ---------------------------
(***************************************************************************)
(* The job runner manager of the CIFleet controller                        *)
(* (internal/controller/github_*.go) with everything it talks to: GitHub's *)
(* webhooks, jobs and JIT runner registrations, the node registry filled   *)
(* by agent heartbeats, the Docker containers of the agents, and the JSON  *)
(* state file.                                                             *)
(*                                                                         *)
(* RunnerManager.Run is one goroutine: it takes an event from the queue or *)
(* reconciles on a ticker, and runs the handler to its end.  A handler is  *)
(* cut into steps at its calls to GitHub, to an agent and to the disk, so  *)
(* that heartbeats, webhooks, runners, janitors and a crash of the         *)
(* controller interleave with it; `pc' says which call comes next.         *)
(*                                                                         *)
(* Abstractions.  All jobs ask for the same RunnerCPU and RunnerMemoryM    *)
(* (github_jobs.go:200), so capacity is counted in runners.  Time is       *)
(* relative: a timer holds the ticks left until the instant the code       *)
(* compares the clock with, and Tick counts every timer down.  Fields no   *)
(* code reads after a record is completed or rejected are cleared.         *)
(***************************************************************************)
EXTENDS Naturals, Sequences, FiniteSets, Policy, Scheduler

CONSTANTS
  Jobs,        \* ids of workflow jobs
  Nodes,       \* ids of the worker nodes
  Runners,     \* ids GitHub can give to JIT runners; unused ones are reused
  NoJob, NoNode, NoRunner,
  Labels,      \* Labels[j]: the label set of job j
  WorkflowRun, \* WorkflowRun[j]: what GitHub says of the run of job j
  Platform,    \* Platform[n]: os, architecture and capabilities of node n
  Slots,       \* Slots[n]: how many runners fit on node n
  QueueSize,   \* capacity of the event channel
  Timeout,     \* RunnerTimeout: ticks from creation to a container's deadline
  Grace,       \* ticks from the deadline until now is after deadline + 2 min
  TTL,         \* ticks until a tombstone is older than TombstoneTTL
  Faults,      \* the kinds of failures this instance includes
  MaxFaults,   \* bound on the failures of a behaviour
  MaxCrashes   \* bound on the controller crashes of a behaviour

FaultKinds == {"save", "getrun", "jit", "jitlost", "delete", "destroy",
               "create", "late", "dup", "lose", "stale", "probe", "exit"}

ASSUME ConstantsAssumption ==
  /\ NoJob \notin Jobs /\ NoNode \notin Nodes /\ NoRunner \notin Runners
  /\ IsFiniteSet(Jobs)
  /\ WorkflowRun \in [Jobs -> WorkflowRuns]
  /\ Slots \in [Nodes -> Nat]
  /\ QueueSize \in Nat \ {0}
  /\ Timeout \in Nat \ {0} /\ Grace \in Nat \ {0} /\ TTL \in Nat \ {0}
  /\ Faults \subseteq FaultKinds /\ MaxFaults \in Nat /\ MaxCrashes \in Nat

VARIABLES
  \* the goroutine of RunnerManager.Run
  pc,       \* the next call of the handler, or where the loop stands
  cur,      \* the job the handler works on
  target,   \* the node chosen by place, until the record names it
  jit,      \* the runner id GitHub returned, until the record names it
  todo,     \* jobs reconcile still has to visit
  \* the controller's data
  jobs,     \* RunnerManager.jobs
  disk,     \* the state file
  queue,    \* RunnerManager.queue
  view,     \* Server.nodes as place and rawNode see it
  \* the agents
  cont,     \* cont[n][j]: the container named for job j on node n
  late,     \* create requests given up by the controller, still to be run
  \* GitHub
  gh,       \* status of each workflow job
  by,       \* the runner executing each running job
  reg,      \* registered JIT runners
  hooks,    \* webhook deliveries under way, in no order
  \* bounds
  faults, crashes

mgrVars   == <<pc, cur, target, jit, todo>>
storeVars == <<jobs, disk>>
agentVars == <<cont, late>>
ghVars    == <<gh, by, reg, hooks>>
vars == <<mgrVars, storeVars, queue, view, agentVars, ghVars, faults, crashes>>

Locations == {"boot", "idle", "loop", "getrun", "jit", "record", "dropRunner",
              "create", "started", "undoDestroy", "undoDelete", "undoSave",
              "stray", "complete", "defer", "delete", "finish",
              "recover", "recoverDelete", "recoverSave", "cleanup"}

(***************************************************************************)
(* Job records                                                             *)
(***************************************************************************)
Active     == {"provisioning", "running", "cleanup_pending"}
Tombstones == {"completed", "rejected"}

JobRecord == [status : {"absent", "pending"} \cup Active \cup Tombstones,
              node   : Nodes \cup {NoNode},
              inst   : BOOLEAN,          \* InstanceID is set
              runner : Runners \cup {NoRunner},
              attempt : Nat,
              left   : Nat]              \* until deadline + grace, or until TTL

Blank(s, a, t) == [status |-> s, node |-> NoNode, inst |-> FALSE,
                   runner |-> NoRunner, attempt |-> a, left |-> t]
Absent         == Blank("absent", 0, 0)
Pending(a)     == Blank("pending", a, 0)
Tombstone(s)   == Blank(s, 0, TTL)

(* A JIT runner: the id GitHub gave it and the parts of its name.           *)
RunnerName == [id : Runners, node : Nodes, job : Jobs, attempt : Nat]
NoName     == [id |-> NoRunner, node |-> NoNode, job |-> NoJob, attempt |-> 0]

(* An event; a completed one names the runner, of which the node and the    *)
(* job are kept.                                                            *)
Event      == [kind : {"queued", "completed"}, job : Jobs,
               on : Nodes \cup {NoNode}, of : Jobs \cup {NoJob}]
Queued(j)  == [kind |-> "queued", job |-> j, on |-> NoNode, of |-> NoJob]

Channel    == {q \in Seq(Event) : Len(q) <= QueueSize}

Container == [runner : Runners \cup {NoRunner}, left : Nat, up : BOOLEAN]
NoCont    == [runner |-> NoRunner, left |-> 0, up |-> FALSE]
Request   == [node : Nodes, job : Jobs, runner : Runners \cup {NoRunner}]

Views == {"unknown",  \* no heartbeat since the controller started
          "stale",    \* last heartbeat older than NodeTTL
          "full",     \* online, reports no free runner (or no backend)
          "free"}     \* online, reports room for a runner

TypeOK ==
  /\ pc \in Locations /\ cur \in Jobs \cup {NoJob}
  /\ target \in Nodes \cup {NoNode} /\ jit \in Runners \cup {NoRunner}
  /\ todo \subseteq Jobs
  /\ jobs \in [Jobs -> JobRecord] /\ disk \in [Jobs -> JobRecord]
  /\ queue \in Channel
  /\ view \in [Nodes -> Views]
  /\ cont \in [Nodes -> [Jobs -> Container]]
  /\ late \subseteq Request
  /\ gh \in [Jobs -> {"queued", "running", "done"}]
  /\ by \in [Jobs -> RunnerName \cup {NoName}]
  /\ reg \subseteq RunnerName
  /\ hooks \subseteq Event
  /\ faults \in Nat /\ crashes \in Nat

(* Every job is queued at GitHub and its webhook is under way; the          *)
(* controller starts with an empty state file and an empty registry.        *)
Init ==
  /\ pc = "boot" /\ cur = NoJob /\ target = NoNode /\ jit = NoRunner
  /\ todo = {}
  /\ jobs = [j \in Jobs |-> Absent] /\ disk = jobs
  /\ queue = << >>
  /\ view = [n \in Nodes |-> "unknown"]
  /\ cont = [n \in Nodes |-> [j \in Jobs |-> NoCont]] /\ late = {}
  /\ gh = [j \in Jobs |-> "queued"] /\ by = [j \in Jobs |-> NoName]
  /\ reg = {} /\ hooks = {Queued(j) : j \in Jobs}
  /\ faults = 0 /\ crashes = 0

(***************************************************************************)
(* Calls                                                                   *)
(***************************************************************************)
Fault(k) == k \in Faults /\ faults < MaxFaults /\ faults' = faults + 1
NoFault  == UNCHANGED faults

Goto(l) == pc' = l /\ UNCHANGED <<cur, target, jit, todo>>
Enter(l, j) == pc' = l /\ cur' = j /\ UNCHANGED <<target, jit, todo>>

(* The handler of cur returns: to reconcile's loop while ids are left, else *)
(* to the select of Run.                                                    *)
Return ==
  /\ todo' = todo \ {cur}
  /\ pc' = IF todo \subseteq {cur} THEN "idle" ELSE "loop"
  /\ cur' = NoJob /\ target' = NoNode /\ jit' = NoRunner

(* saveLocked writes a temporary file and renames it over the state file:   *)
(* the file holds all of the new map or all of the old one.                 *)
saved(new)      == jobs' = new /\ disk' = new /\ NoFault
saveFails(new)  == jobs' = new /\ disk' = disk /\ Fault("save")
saveLocked(new) == saved(new) \/ saveFails(new)

(* DestroyInstance: `docker rm -f' of a container id (inst) or of the       *)
(* deterministic name; a missing container is success.  A failed call may   *)
(* have removed the container; one that removes it only after its caller    *)
(* gave up, when the name may belong to a later attempt, is left out.       *)
Removed(n, j, inst) ==
  IF inst /\ cont[n][j].runner # jobs[j].runner
    THEN cont ELSE [cont EXCEPT ![n][j] = NoCont]
destroyed(n, j, inst)    == cont' = Removed(n, j, inst) /\ NoFault
destroyFails(n, j, inst) ==
  /\ Fault("destroy")
  /\ cont' = cont \/ cont' = Removed(n, j, inst)
DestroyInstance(n, j, inst) == destroyed(n, j, inst) \/ destroyFails(n, j, inst)

(* DeleteRunner, whose error every caller drops.                            *)
DeleteRunner(r) ==
  \/ reg' = {x \in reg : x.id # r} /\ NoFault
  \/ reg' = reg /\ Fault("delete")

(* rawNode: the registry has an entry, online or not.                       *)
rawNode(n) == n # NoNode /\ view[n] # "unknown"

(* Mutant: a record waiting for cleanup no longer holds its place.          *)
reservationsForgetCleanup(n) ==
  {j \in Jobs : jobs[j].node = n /\ jobs[j].status \in {"provisioning", "running"}}

(* reservations: the jobs whose records hold a place on node n.             *)
reservations(n) == {j \in Jobs : jobs[j].node = n /\ jobs[j].status \in Active}

(* Mutant: place trusts the heartbeats alone.                               *)
placeWithoutReservations(j) == {n \in Nodes : view[n] = "free"}

(* place: nodes that are online, suit the job, report room, and are not     *)
(* filled by the controller's own active records.  Which of them is least   *)
(* loaded is left open here.  Agents offer the Docker backend.              *)
CanServe(n, j) ==
  LET req == requirementsFromLabels(Labels[j])
  IN Suits(req, Platform[n]) /\ selectBackend(req.isolation, {"docker"}) = "docker"

place(j) ==
  {n \in Nodes :
     view[n] = "free" /\ CanServe(n, j) /\ Cardinality(reservations(n)) < Slots[n]}

(* The jobs tryProvision does not reject, and those some node can serve.    *)
Admitted == {j \in Jobs : trustedWorkflowRun(WorkflowRun[j]) /\ supported(Labels[j])}
Servable == {j \in Admitted : \E n \in Nodes : CanServe(n, j)}

(* GitHub knows a runner of this name.                                      *)
NameTaken(n, j, a) == \E x \in reg : x.node = n /\ x.job = j /\ x.attempt = a

Fresh(r) ==
  /\ \A x \in reg : x.id # r
  /\ \A j \in Jobs : jobs[j].runner # r /\ disk[j].runner # r /\ by[j].id # r
  /\ \A n \in Nodes, j \in Jobs : cont[n][j].runner # r
  /\ \A q \in late : q.runner # r

(***************************************************************************)
(* The loop of Run                                                         *)
(***************************************************************************)
Receive(k) == pc = "idle" /\ queue # << >> /\ Head(queue).kind = k /\ queue' = Tail(queue)

(* handleQueued: a known job is a duplicate delivery, a job without the     *)
(* marker label is not CIFleet's; a new one is saved as pending before      *)
(* anything else happens, or forgotten if that fails.                       *)
NotNew(j) == jobs[j] # Absent \/ ~hasLabel(Labels[j], Marker)

handleQueued ==
  /\ Receive("queued")
  /\ LET j == Head(queue).job IN
     \/ NotNew(j) /\ UNCHANGED <<mgrVars, storeVars, faults>>
     \/ ~NotNew(j) /\ saved([jobs EXCEPT ![j] = Pending(0)]) /\ Enter("getrun", j)
     \/ ~NotNew(j) /\ saveFails(jobs) /\ UNCHANGED mgrVars
  /\ UNCHANGED <<view, agentVars, ghVars, crashes>>

(* Mutant: the runner is never deleted.                                     *)
AfterDestroyNothing(r) == "finish"

(* A record without a runner id has no runner to delete.                    *)
AfterDestroy(r) == IF r.runner # NoRunner THEN "delete" ELSE "finish"

(* The runner's name says on which node the job's container is, if the      *)
(* runner was made for the job.                                             *)
nodeFromRunnerName(e) == IF e.of = e.job THEN e.on ELSE NoNode

(* handleCompleted up to its first call.                                    *)
handleCompleted ==
  /\ Receive("completed")
  /\ LET j == Head(queue).job
         on == nodeFromRunnerName(Head(queue))
         r == jobs[j]
     IN
     \/ /\ r = Absent /\ rawNode(on)
        /\ pc' = "stray" /\ cur' = j /\ target' = on /\ UNCHANGED <<jit, todo>>
     \/ r = Absent /\ ~rawNode(on) /\ Enter("finish", j)
     \/ r.status = "completed" /\ UNCHANGED mgrVars
     \/ /\ r.status \notin {"absent", "completed"}
        /\ Enter(IF rawNode(r.node) THEN "complete" ELSE AfterDestroy(r), j)
  /\ UNCHANGED <<storeVars, view, agentVars, ghVars, faults, crashes>>

(* Mutants: interrupted attempts are not recovered; overdue records are not *)
(* cleaned up; running ones are cleaned up before their deadline;           *)
(* tombstones are dropped at the first reconcile.                           *)
NeedsWorkNotProvisioning(r) ==
  \/ r.status \in {"pending", "cleanup_pending"}
  \/ r.status = "running" /\ r.left = 0
NeedsWorkNotOverdue(r) == r.status \in {"pending", "provisioning", "cleanup_pending"}
NeedsWorkTooEarly(r) == r.status \notin Tombstones \cup {"absent"}
ExpiredAtOnce(r) == r.status \in Tombstones

(* reconcile: forget old tombstones, then visit the records that need work. *)
NeedsWork(r) ==
  \/ r.status \in {"pending", "provisioning", "cleanup_pending"}
  \/ r.status = "running" /\ r.left = 0

Expired(r) == r.status \in Tombstones /\ r.left = 0

reconcile ==
  /\ pc \in {"boot", "idle"}
  /\ LET pruned == [j \in Jobs |-> IF Expired(jobs[j]) THEN Absent ELSE jobs[j]]
         work   == {j \in Jobs : NeedsWork(jobs[j])}
     IN
     /\ \/ pruned = jobs /\ UNCHANGED <<storeVars, faults>>
        \/ pruned # jobs /\ saveLocked(pruned)
     /\ todo' = work /\ pc' = IF work = {} THEN "idle" ELSE "loop"
  /\ UNCHANGED <<cur, target, jit, queue, view, agentVars, ghVars, crashes>>

(* The body of reconcile's loop up to its first call, and the entry of      *)
(* recoverProvisioning and cleanupRecord: without a registry entry for the  *)
(* record's node the destroy is skipped.                                    *)
visit(j) ==
  /\ pc = "loop" /\ j \in todo
  /\ LET r == jobs[j] IN
     Enter(CASE r.status = "pending"      -> "getrun"
             [] r.status = "provisioning" -> IF rawNode(r.node) THEN "recover" ELSE "recoverDelete"
             [] OTHER                     -> IF rawNode(r.node) THEN "cleanup" ELSE AfterDestroy(r), j)
  /\ UNCHANGED <<storeVars, queue, view, agentVars, ghVars, faults, crashes>>

(***************************************************************************)
(* tryProvision                                                            *)
(***************************************************************************)
(* GetWorkflowRun and the decision: reject, wait for capacity, or go on.    *)
checkAndPlace ==
  /\ pc = "getrun"
  /\ \/ Fault("getrun") /\ Return /\ UNCHANGED storeVars
     \/ /\ cur \notin Admitted
        /\ saveLocked([jobs EXCEPT ![cur] = Tombstone("rejected")]) /\ Return
     \/ cur \in Admitted /\ place(cur) = {} /\ Return /\ UNCHANGED <<storeVars, faults>>
     \/ /\ cur \in Admitted
        /\ \E n \in place(cur) : target' = n
        /\ pc' = "jit" /\ UNCHANGED <<cur, jit, todo, storeVars, faults>>
  /\ UNCHANGED <<queue, view, agentVars, ghVars, crashes>>

(* GenerateJITConfig asks for a runner named after the node, the job and    *)
(* the next attempt: the call fails, or GitHub refuses a name it knows, or  *)
(* it is done with the answer lost, or done.                                *)
GenerateJITConfig ==
  /\ pc = "jit"
  /\ \/ Fault("jit") /\ reg' = reg /\ Return
     \/ /\ NameTaken(target, cur, jobs[cur].attempt + 1)
        /\ reg' = reg /\ NoFault /\ Return
     \/ \E r \in Runners :
          /\ Fresh(r) /\ ~NameTaken(target, cur, jobs[cur].attempt + 1)
          /\ reg' = reg \cup {[id |-> r, node |-> target, job |-> cur,
                               attempt |-> jobs[cur].attempt + 1]}
          /\ \/ Fault("jitlost") /\ Return
             \/ NoFault /\ jit' = r /\ pc' = "record" /\ UNCHANGED <<cur, target, todo>>
  /\ UNCHANGED <<storeVars, queue, view, agentVars, gh, by, hooks, crashes>>

(* Mutant: the container is asked for even if the record was not saved.     *)
recordProvisioningUnsaved ==
  /\ pc = "record"
  /\ saveLocked([jobs EXCEPT ![cur] =
       [status |-> "provisioning", node |-> target, inst |-> FALSE,
        runner |-> jit, attempt |-> jobs[cur].attempt + 1, left |-> Timeout + Grace]])
  /\ pc' = "create" /\ target' = NoNode /\ jit' = NoRunner
  /\ UNCHANGED <<cur, todo, queue, view, agentVars, ghVars, crashes>>

(* Mutant: the record keeps the number of the attempt before.               *)
recordProvisioningOldAttempt ==
  /\ pc = "record"
  /\ LET new == [jobs EXCEPT ![cur] =
                   [status |-> "provisioning", node |-> target, inst |-> FALSE,
                    runner |-> jit, attempt |-> jobs[cur].attempt, left |-> Timeout + Grace]]
     IN \/ saved(new) /\ pc' = "create"
        \/ saveFails(new) /\ pc' = "dropRunner"
  /\ target' = NoNode /\ jit' = NoRunner
  /\ UNCHANGED <<cur, todo, queue, view, agentVars, ghVars, crashes>>

(* The provisioning record is written before the container is asked for.    *)
recordProvisioning ==
  /\ pc = "record"
  /\ LET new == [jobs EXCEPT ![cur] =
                   [status |-> "provisioning", node |-> target, inst |-> FALSE,
                    runner |-> jit, attempt |-> jobs[cur].attempt + 1, left |-> Timeout + Grace]]
     IN \/ saved(new) /\ pc' = "create"
        \/ saveFails(new) /\ pc' = "dropRunner"
  /\ target' = NoNode /\ jit' = NoRunner
  /\ UNCHANGED <<cur, todo, queue, view, agentVars, ghVars, crashes>>

dropRunner ==
  /\ pc = "dropRunner"
  /\ DeleteRunner(jobs[cur].runner) /\ Return
  /\ UNCHANGED <<storeVars, queue, view, agentVars, gh, by, hooks, crashes>>

(* Create: `docker run' labels the container with its deadline.             *)
Created(n, j, r) ==
  [cont EXCEPT ![n][j] = [runner |-> r, left |-> Timeout, up |-> TRUE]]

(* CreateInstance: `docker run' under the job's name on the chosen node.    *)
(* It succeeds only if the name is free; the call may also fail before or   *)
(* after the container was made, or while the request is still on its way.  *)
(* instance.Deadline of the answer goes to the record in memory, which no   *)
(* other code reads before recordRunning.                                   *)
CreateInstance ==
  /\ pc = "create"
  /\ LET n == jobs[cur].node
         r == jobs[cur].runner
         made == Created(n, cur, r)
         free == cont[n][cur] = NoCont
     IN
     \/ /\ free /\ cont' = made /\ NoFault /\ Goto("started")
        /\ jobs' = [jobs EXCEPT ![cur].left = Timeout + Grace] /\ UNCHANGED late
     \/ /\ ~free /\ NoFault /\ Goto("undoDestroy") /\ UNCHANGED <<agentVars, jobs>>
     \/ /\ Fault("create") /\ Goto("undoDestroy") /\ UNCHANGED <<late, jobs>>
        /\ cont' = cont \/ (free /\ cont' = made)
     \/ /\ Fault("late") /\ Goto("undoDestroy") /\ UNCHANGED <<cont, jobs>>
        /\ late' = late \cup {[node |-> n, job |-> cur, runner |-> r]}
  /\ UNCHANGED <<disk, queue, view, ghVars, crashes>>

recordRunning ==
  /\ pc = "started"
  /\ saveLocked([jobs EXCEPT ![cur].status = "running", ![cur].inst = TRUE])
  /\ Return
  /\ UNCHANGED <<queue, view, agentVars, ghVars, crashes>>

(* The error path of CreateInstance: destroy by name, delete the runner,    *)
(* go back to pending, whatever the first two return.                       *)
undoDestroy ==
  /\ pc = "undoDestroy"
  /\ DestroyInstance(jobs[cur].node, cur, FALSE) /\ Goto("undoDelete")
  /\ UNCHANGED <<storeVars, queue, view, late, ghVars, crashes>>

undoDelete ==
  /\ pc = "undoDelete"
  /\ DeleteRunner(jobs[cur].runner) /\ Goto("undoSave")
  /\ UNCHANGED <<storeVars, queue, view, agentVars, gh, by, hooks, crashes>>

undoSave ==
  /\ pc = "undoSave"
  /\ saveLocked([jobs EXCEPT ![cur] = Pending(jobs[cur].attempt)]) /\ Return
  /\ UNCHANGED <<queue, view, agentVars, ghVars, crashes>>

(***************************************************************************)
(* handleCompleted and cleanupRecord                                       *)
(***************************************************************************)
(* A completed job without a record: destroy by name on the node its runner *)
(* name points to, ignoring the result.                                     *)
destroyStray ==
  /\ pc = "stray"
  /\ DestroyInstance(target, cur, FALSE)
  /\ pc' = "finish" /\ target' = NoNode /\ UNCHANGED <<cur, jit, todo>>
  /\ UNCHANGED <<storeVars, queue, view, late, ghVars, crashes>>

(* Mutant: handleCompleted goes on when the destroy failed.                 *)
destroyCompletedAnyway ==
  /\ pc = "complete"
  /\ LET r == jobs[cur] IN DestroyInstance(r.node, cur, r.inst) /\ Goto(AfterDestroy(r))
  /\ UNCHANGED <<storeVars, queue, view, late, ghVars, crashes>>

destroyCompleted ==
  /\ pc = "complete"
  /\ LET r == jobs[cur] IN
     \/ destroyed(r.node, cur, r.inst) /\ Goto(AfterDestroy(r))
     \/ destroyFails(r.node, cur, r.inst) /\ Goto("defer")
  /\ UNCHANGED <<storeVars, queue, view, late, ghVars, crashes>>

deferCleanup ==
  /\ pc = "defer"
  /\ saveLocked([jobs EXCEPT ![cur].status = "cleanup_pending"]) /\ Return
  /\ UNCHANGED <<queue, view, agentVars, ghVars, crashes>>

cleanupRecord ==
  /\ pc = "cleanup"
  /\ LET r == jobs[cur] IN
     \/ destroyed(r.node, cur, r.inst) /\ Goto(AfterDestroy(r))
     \/ destroyFails(r.node, cur, r.inst) /\ Return
  /\ UNCHANGED <<storeVars, queue, view, late, ghVars, crashes>>

deleteRunner ==
  /\ pc = "delete"
  /\ DeleteRunner(jobs[cur].runner) /\ Goto("finish")
  /\ UNCHANGED <<storeVars, queue, view, agentVars, gh, by, hooks, crashes>>

finish ==
  /\ pc = "finish"
  /\ saveLocked([jobs EXCEPT ![cur] = Tombstone("completed")]) /\ Return
  /\ UNCHANGED <<queue, view, agentVars, ghVars, crashes>>

(***************************************************************************)
(* recoverProvisioning                                                     *)
(***************************************************************************)
recoverDestroy ==
  /\ pc = "recover"
  /\ DestroyInstance(jobs[cur].node, cur, FALSE) /\ Goto("recoverDelete")
  /\ UNCHANGED <<storeVars, queue, view, late, ghVars, crashes>>

(* Mutant: recovery leaves the interrupted attempt's runner registered.     *)
recoverDeleteSkipped ==
  /\ pc = "recoverDelete" /\ Goto("recoverSave")
  /\ UNCHANGED <<storeVars, queue, view, agentVars, ghVars, faults, crashes>>

recoverDelete ==
  /\ pc = "recoverDelete"
  /\ DeleteRunner(jobs[cur].runner) /\ Goto("recoverSave")
  /\ UNCHANGED <<storeVars, queue, view, agentVars, gh, by, hooks, crashes>>

recoverSave ==
  /\ pc = "recoverSave"
  /\ LET new == [jobs EXCEPT ![cur] = Pending(jobs[cur].attempt)] IN
     \/ saved(new) /\ Goto("getrun")
     \/ saveFails(new) /\ Return
  /\ UNCHANGED <<queue, view, agentVars, ghVars, crashes>>

(***************************************************************************)
(* The controller process, the registry and the webhook endpoint           *)
(***************************************************************************)
loadState == jobs' = disk

(* The process dies, or is told to end, which does not wait for the         *)
(* manager's handler, and is started again: memory is lost, the state file  *)
(* is loaded, the registry is empty.  A create request may be under way.    *)
Crash ==
  /\ crashes < MaxCrashes /\ crashes' = crashes + 1
  /\ pc' = "boot" /\ cur' = NoJob /\ target' = NoNode /\ jit' = NoRunner /\ todo' = {}
  /\ loadState /\ queue' = << >> /\ view' = [n \in Nodes |-> "unknown"]
  /\ \/ late' = late
     \/ /\ pc = "create"
        /\ late' = late \cup {[node |-> jobs[cur].node, job |-> cur, runner |-> jobs[cur].runner]}
  /\ UNCHANGED <<disk, cont, ghVars, faults>>

(* Mutant: the channel takes one event more than its capacity.              *)
SubmitUnbounded(e) == Len(queue) <= QueueSize /\ queue' = Append(queue, e)

(* Submit never blocks: an event enters the channel only if it has room.    *)
Submit(e) == Len(queue) < QueueSize /\ queue' = Append(queue, e)

(* The webhook handler submits an event of a CIFleet job; if it cannot, it  *)
(* answers 503 and the delivery is still to be made.  A delivery may be     *)
(* repeated at any later time.  Other jobs' events are answered 202 and     *)
(* dropped.                                                                 *)
Accepted(e) == accepts(e.kind, Labels[e.job], e.of # NoJob)

ignoreWebhook(e) ==
  /\ e \in hooks /\ ~Accepted(e) /\ hooks' = hooks \ {e}
  /\ UNCHANGED <<mgrVars, storeVars, queue, view, agentVars, gh, by, reg, faults, crashes>>

webhook(e) ==
  /\ e \in hooks /\ Accepted(e) /\ Submit(e)
  /\ \/ hooks' = hooks \ {e} /\ NoFault
     \/ hooks' = hooks /\ Fault("dup")
  /\ UNCHANGED <<mgrVars, storeVars, view, agentVars, gh, by, reg, crashes>>

loseWebhook(e) ==
  /\ e \in hooks /\ Fault("lose") /\ hooks' = hooks \ {e}
  /\ UNCHANGED <<mgrVars, storeVars, queue, view, agentVars, gh, by, reg, crashes>>

(* The agent reports capacity from its running containers; a failed probe   *)
(* reports no backend.                                                      *)
Running(n) == {j \in Jobs : cont[n][j].up}

heartbeat(n) ==
  /\ \/ NoFault /\ view' = [view EXCEPT ![n] =
                     IF Cardinality(Running(n)) < Slots[n] THEN "free" ELSE "full"]
     \/ Fault("probe") /\ view' = [view EXCEPT ![n] = "full"]
  /\ UNCHANGED <<mgrVars, storeVars, queue, agentVars, ghVars, crashes>>

(* No heartbeat of the node for NodeTTL.                                    *)
heartbeatsStop(n) ==
  /\ view[n] \in {"full", "free"} /\ Fault("stale")
  /\ view' = [view EXCEPT ![n] = "stale"]
  /\ UNCHANGED <<mgrVars, storeVars, queue, agentVars, ghVars, crashes>>

(***************************************************************************)
(* The agents                                                              *)
(***************************************************************************)
(* A create request the controller no longer waits for reaches Docker.      *)
lateCreate(q) ==
  /\ q \in late /\ late' = late \ {q}
  /\ cont' = IF cont[q.node][q.job] = NoCont THEN Created(q.node, q.job, q.runner) ELSE cont
  /\ UNCHANGED <<mgrVars, storeVars, queue, view, ghVars, faults, crashes>>

(* Mutant: the janitor lists running containers only (no -a).               *)
janitorRunningOnly(n, j) ==
  /\ cont[n][j].up /\ cont[n][j].left = 0
  /\ cont' = [cont EXCEPT ![n][j] = NoCont]
  /\ UNCHANGED <<mgrVars, storeVars, queue, view, late, ghVars, faults, crashes>>

(* CleanupExpired: the janitor removes a container past its deadline,       *)
(* running or not.                                                          *)
janitor(n, j) ==
  /\ cont[n][j] # NoCont /\ cont[n][j].left = 0
  /\ cont' = [cont EXCEPT ![n][j] = NoCont]
  /\ UNCHANGED <<mgrVars, storeVars, queue, view, late, ghVars, faults, crashes>>

(* The container's process ends by itself; the container stays.             *)
containerExits(n, j) ==
  /\ cont[n][j].up /\ Fault("exit")
  /\ cont' = [cont EXCEPT ![n][j].up = FALSE]
  /\ UNCHANGED <<mgrVars, storeVars, queue, view, late, ghVars, crashes>>

(***************************************************************************)
(* GitHub                                                                  *)
(***************************************************************************)
Busy(r) == \E j \in Jobs : by[j].id = r

(* GitHub gives a queued job to any idle registered runner that has all of  *)
(* its labels; a runner has the labels of the job it was made for.          *)
assign(j, n, k) ==
  /\ gh[j] = "queued" /\ cont[n][k].up
  /\ \E x \in reg :
       /\ x.id = cont[n][k].runner /\ Labels[j] \subseteq Labels[x.job] /\ ~Busy(x.id)
       /\ by' = [by EXCEPT ![j] = x]
  /\ gh' = [gh EXCEPT ![j] = "running"]
  /\ UNCHANGED <<mgrVars, storeVars, queue, view, agentVars, reg, hooks, faults, crashes>>

(* Job j is over; the completed webhook names the runner, and an ephemeral  *)
(* runner is removed from the registrations.                                *)
Over(j) ==
  /\ gh' = [gh EXCEPT ![j] = "done"] /\ by' = [by EXCEPT ![j] = NoName]
  /\ reg' = {x \in reg : x.id # by[j].id}
  /\ hooks' = hooks \cup
       {[kind |-> "completed", job |-> j, on |-> by[j].node, of |-> by[j].job]}
  /\ UNCHANGED <<mgrVars, storeVars, queue, view, late, faults, crashes>>

Executing(n, k, j) ==
  gh[j] = "running" /\ cont[n][k].up /\ cont[n][k].runner = by[j].id

jobEnds(j, n, k) ==
  /\ Executing(n, k, j) /\ cont' = [cont EXCEPT ![n][k].up = FALSE] /\ Over(j)

jobCancelled(j) == gh[j] = "queued" /\ cont' = cont /\ Over(j)

jobLost(j) ==
  /\ gh[j] = "running" /\ \A n \in Nodes, k \in Jobs : ~Executing(n, k, j)
  /\ cont' = cont /\ Over(j)

(***************************************************************************)
(* Time                                                                    *)
(***************************************************************************)
(* One clock for the controller and the agents: a record's deadline is the  *)
(* one the agent set, and reconcile's grace of two minutes is taken to      *)
(* cover the difference between their clocks.                               *)
Less(t) == IF t > 0 THEN t - 1 ELSE 0
Aged(store) == [j \in Jobs |-> [store[j] EXCEPT !.left = Less(@)]]

Tick ==
  /\ jobs' = Aged(jobs) /\ disk' = Aged(disk)
  /\ cont' = [n \in Nodes |-> Aged(cont[n])]
  /\ UNCHANGED <<mgrVars, queue, view, late, ghVars, faults, crashes>>

-----------------------------------------------------------------------------
tryProvision ==
  \/ checkAndPlace \/ GenerateJITConfig \/ recordProvisioning \/ dropRunner
  \/ CreateInstance \/ recordRunning \/ undoDestroy \/ undoDelete \/ undoSave
completing ==
  destroyStray \/ destroyCompleted \/ deferCleanup \/ cleanupRecord \/ deleteRunner \/ finish
recoverProvisioning == recoverDestroy \/ recoverDelete \/ recoverSave

Handler == tryProvision \/ completing \/ recoverProvisioning \/ \E j \in Jobs : visit(j)

Process == handleQueued \/ handleCompleted

Run == Process \/ reconcile \/ Handler

GitHub ==
  \E j \in Jobs : \/ jobCancelled(j) \/ jobLost(j)
                  \/ \E n \in Nodes, k \in Jobs : assign(j, n, k) \/ jobEnds(j, n, k)

Agents ==
  \/ \E n \in Nodes : heartbeat(n) \/ heartbeatsStop(n)
  \/ \E n \in Nodes, j \in Jobs : janitor(n, j) \/ containerExits(n, j)
  \/ \E q \in late : lateCreate(q)

Deliveries == \E e \in hooks : webhook(e) \/ ignoreWebhook(e) \/ loseWebhook(e)

Next ==
  Run \/ Crash \/ GitHub \/ Agents \/ Tick \/ Deliveries

Spec == Init /\ [][Next]_vars

(* Run's goroutine keeps going: every call has a timeout.  Go's select      *)
(* chooses among ready cases at random, so waiting events do not put the    *)
(* ticker off for ever.  Agents beat and sweep on tickers, and time passes. *)
(* Nothing is assumed of GitHub: webhooks may never come, jobs never end.   *)
Fairness ==
  /\ WF_vars(Handler) /\ SF_vars(reconcile)
  /\ \A n \in Nodes : WF_vars(heartbeat(n))
  /\ \A n \in Nodes, j \in Jobs : WF_vars(janitor(n, j))
  /\ WF_vars(Tick)

FairSpec == Spec /\ Fairness

(***************************************************************************)
(* Properties                                                              *)
(***************************************************************************)
Present(n, j) == cont[n][j] # NoCont
Registered(r) == \E x \in reg : x.id = r
Usable(n, j)  == Registered(cont[n][j].runner)

(* At any time at most one node holds a container for job j whose runner    *)
(* GitHub still knows: however often provisioning is retried, interrupted   *)
(* and recovered, a second container of a job can take no work.             *)
OneUsableRunner ==
  \A j \in Jobs, m, n \in Nodes : Usable(m, j) /\ Usable(n, j) => m = n

(* A container GitHub can give work to is always on record, in memory and   *)
(* in the state file, with its node and its runner: tryProvision saves the  *)
(* record before it asks for the container, and every path that rewrites    *)
(* the record first removes the runner.  A crash loses track of none.       *)
OnRecord(n, j, r) == \A s \in {jobs, disk} : s[j].node = n /\ s[j].runner = r

UsableIsOnRecord ==
  \A n \in Nodes, j \in Jobs : Usable(n, j) => OnRecord(n, j, cont[n][j].runner)

(* The controller implements the life cycle of JobLifecycle.  Its ledger is *)
(* the state file: a job is open from the first save until its tombstone,   *)
(* and closed while the tombstone is younger than the TTL.  It is served by *)
(* the nodes whose container of the job has a registered runner.            *)
Standing(r) ==
  IF r.status \in {"pending"} \cup Active THEN "open"
  ELSE IF r.status \in Tombstones /\ r.left > 0 THEN "closed" ELSE "none"

Ledger == [j \in Jobs |-> Standing(disk[j])]

Serving == [j \in Jobs |-> {n \in Nodes : Usable(n, j)}]

Lifecycle == INSTANCE JobLifecycle WITH ledger <- Ledger, serving <- Serving

(* Every step of the manager, of GitHub, of an agent, of the clock and every *)
(* crash is a step of that life cycle or leaves it alone: a runner can take  *)
(* work only while the file says the job is open, no second one starts       *)
(* beside it, no save closes or drops the job of a usable runner, and a      *)
(* valid tombstone is not reopened.                                          *)
ImplementsLifecycle == Lifecycle!Spec

(* Once a tombstone is on disk, no delivery, retry or restart registers a   *)
(* new runner for the job until TombstoneTTL has passed.                    *)
TombstonesHold ==
  [][\A j \in Jobs : disk[j].status \in Tombstones /\ disk[j].left > 0 =>
       /\ disk'[j].status \in Tombstones
       /\ \A x \in reg' \ reg : x.job # j]_vars

(* A record reaches completed only after the container it names is gone:    *)
(* handleCompleted and cleanupRecord keep the record until the destroy      *)
(* succeeded.                                                               *)
CompletionFreesContainer ==
  [][\A j \in Jobs : jobs[j].status \in Active /\ jobs'[j].status = "completed"
       => cont[jobs[j].node][j].runner # jobs[j].runner]_vars

(* When a job is recorded as completed, no runner made for it is left       *)
(* registered at GitHub.                                                    *)
CompletionRemovesRunner ==
  \A j \in Jobs : jobs[j].status = "completed" => \A x \in reg : x.job # j

(* A container that is executing a job is removed only once its deadline    *)
(* has passed, on a clock that reconcile and the agents share, and if no    *)
(* destroy takes effect after its caller gave up.                           *)
NoJobCutShort ==
  [][\A j \in Jobs, k \in Jobs, n \in Nodes :
       Executing(n, k, j) /\ cont[n][k].left > 0 => cont'[n][k] # NoCont]_vars

(* The records that hold a place on a node never exceed what fits on it, in *)
(* memory or after a restart from the state file: place counts the          *)
(* controller's own records, not only what the last heartbeat reported.     *)
Holding(store, n) == {j \in Jobs : store[j].node = n /\ store[j].status \in Active}

ReservationsFit ==
  \A n \in Nodes, s \in {jobs, disk} : Cardinality(Holding(s, n)) <= Slots[n]

(* No more containers run on a node than fit on it, between heartbeats too: *)
(* a record keeps its place until its container is known to be gone.        *)
RunningFit == \A n \in Nodes : Cardinality(Running(n)) <= Slots[n]

(* A runner is registered only for a job that carries the marker label and  *)
(* does not come from a fork or a pull_request_target event of a public     *)
(* repository, and only on a node of the platform the job's labels name:    *)
(* the endpoint's filter, the check of the run and the placement agree,     *)
(* whatever is lost, repeated or retried.                                   *)
FromOutside(run) ==
  /\ ~run.private
  /\ \/ run.event = "pull_request_target"
     \/ run.event = "pull_request" /\ run.head # "same"

OnlyAdmittedJobsRun ==
  \A x \in reg :
    /\ Marker \in Labels[x.job] /\ ~FromOutside(WorkflowRun[x.job])
    /\ platform(Labels[x.job]) = <<Platform[x.node].os, Platform[x.node].arch>>

(* tryProvision never asks GitHub for a runner name that is registered: the *)
(* attempt number in memory is ahead of every runner of the job, those      *)
(* included whose deletion failed or whose record was never saved.          *)
NamesAreNew ==
  pc = "jit" => ~NameTaken(target, cur, jobs[cur].attempt + 1)

(* recoverProvisioning goes back to pending only after both sides of the    *)
(* interrupted attempt are gone.                                            *)
RecoveryTearsDown ==
  [][\A j \in Jobs : jobs[j].status = "provisioning" /\ jobs'[j].status = "pending"
       => ~Usable(jobs[j].node, j) /\ ~Present(jobs[j].node, j)]_vars

(* A runner on no record has the name of the job's next attempt: its JIT    *)
(* answer was lost, or the record that named it was.  The runner that       *)
(* tryProvision has just been given and is about to record is not one.      *)
NextNameTaken(j) ==
  \E x \in reg : x.job = j /\ x.attempt = jobs[j].attempt + 1 /\ x.id # jit

(* A durable pending job that some node can serve gets a usable container,  *)
(* or is no longer waiting at GitHub.  The exception is a job whose next    *)
(* runner name is taken, which only GitHub can end.                         *)
PendingIsServed ==
  \A j \in Servable :
    disk[j].status = "pending" ~>
      gh[j] # "queued" \/ NextNameTaken(j) \/ \E n \in Nodes : Usable(n, j)

(* Every record of a job that is rejected or can be served is forgotten in  *)
(* the end, with the same exception: no job keeps its reservation or its    *)
(* place in the state file for ever.                                        *)
RecordsEnd ==
  \A j \in Servable \cup (Jobs \ Admitted) :
    jobs[j] # Absent ~> jobs[j] = Absent \/ NextNameTaken(j)

(* Every container, orphans of failed or interrupted handlers included, is  *)
(* removed in the end.                                                      *)
ContainersEnd ==
  \A n \in Nodes, j \in Jobs : Present(n, j) ~> ~Present(n, j)

=============================================================================
