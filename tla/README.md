# A TLA+ model of CIFleet

CIFleet runs GitHub Actions jobs on the machines of a small fleet. A controller
receives `workflow_job` webhooks, registers one just-in-time (JIT) runner per
job at GitHub and asks an agent on a chosen node to start it in a Docker
container. This directory models the controller, its policy and scheduler, the
agents and the GitHub client, checks the models with TLC on small instances, and
proves their central safety properties with TLAPS for all instances.
`PROJECT.json` maps every definition to the source lines it models.

## 1. The system

| Part | Source | State | Operations |
|---|---|---|---|
| Runner manager | `internal/controller/github_jobs.go`, `github_provision.go`, `github_lifecycle.go` | job records in memory, event channel | `Submit`, `Run`, `handleQueued`, `tryProvision`, `handleCompleted`, `reconcile`, `recoverProvisioning`, `cleanupRecord` |
| State file | `github_state.go` | JSON file | `loadState`, `saveLocked` |
| Webhook endpoint | `webhook.go` | none | verify, filter, submit, 202 or 503 |
| Node registry | `server.go` | map of nodes and last heartbeat | `heartbeat`, `snapshotNodes` |
| Scheduler | `internal/scheduler` | none | `Place` |
| Policy | `github_policy.go` | none | trust, labels to requirements, names |
| Agent client | `agent_client.go` | none | create and destroy over HTTP |
| Agent | `internal/agent` | none | HTTP API, heartbeat and janitor loop |
| Docker backend | `internal/backend/docker` | the containers | create, destroy, expire, capacity |
| GitHub client | `internal/githubapp` | token cache | get run, JIT config, delete runner |
| Programs, TLS, stubs | `cmd`, `internal/tlsutil`, `internal/backend/{kvm,hyperv}` | none | configuration |

How they interact. One goroutine (`Run`) takes events from the channel or
reconciles on a ticker. Each handler makes remote calls (GitHub, agent) and
saves the record before and after them. Meanwhile webhooks arrive in any order
and more than once, heartbeats refresh the registry, agents expire containers,
GitHub gives jobs to runners, and the controller may die. The hard part is what
is left behind when a call fails, is answered late, or is cut off by a restart,
and what is decided on a report, a list or a token that has grown old. The
`hazards` of `PROJECT.json` list these places one by one.

## 2. Modules

| Module | Content |
|---|---|
| `Policy` | operators: trust of a run, marker filter, labels to requirements |
| `Scheduler` | operators: eligibility, choice of a backend, order of nodes, `Place` |
| `RunnerManager` | the manager with state file, registry, agents and GitHub around it |
| `JobLifecycle` | what the controller promises for a job; `RunnerManager` implements it |
| `Placement` | `place` in CPU and memory: reservations, reports under way, registry |
| `DockerAgent` | the goroutine and the handlers of one agent, per docker command |
| `TokenCache` | installation tokens and JWTs under two clocks |
| `MC...` | the constants of the instances for TLC |
| `...Proofs` | theorems and their proofs, see section 5 |

`RunnerManager` and `Placement` extend `Scheduler`; `RunnerManager` extends
`Policy`. `RunnerManager` composes all parts with the detail its properties
need. `Placement`, `DockerAgent` and `TokenCache` open up what is one step or
one number there: a heartbeat's capacity, the janitor and the probe, a call to
GitHub.

### RunnerManager

State. `pc`, `cur`, `target`, `jit`, `todo` are the goroutine: the call that
comes next and the handler's locals. `jobs` is the map of records, `disk` the
state file, `queue` the channel. `view[n]` is what the registry says of a node:
unknown (no heartbeat since the controller started), stale (older than the
TTL), full or free. `cont[n][j]` is the container with job `j`'s deterministic
name on node `n`; `late` are create requests whose caller no longer waits.
`gh`, `by`, `reg`, `hooks` are GitHub's jobs, who executes them, the registered
runners and the deliveries under way.

Actions. A handler is cut at its external calls and saves. What runs between two
of them is one step, because only this goroutine touches the records. For
example `tryProvision` is `checkAndPlace`, `GenerateJITConfig`,
`recordProvisioning`, `CreateInstance`, `recordRunning`, with the error paths
`dropRunner` and `undoDestroy`, `undoDelete`, `undoSave`. Every call has the
outcomes the code can see: success, failure without effect, failure with effect,
and for the create call an effect that comes later. `Crash` may happen between
any two steps. It stands for a kill and for an ordinary shutdown, since `main`
does not wait for the manager.

Abstractions.

- All jobs ask for the same CPU and memory, so capacity is counted in runners
  (`Slots`). The order of the scheduler's candidates is left open here.
- Time is relative. A timer holds the ticks that are left; `Tick` counts all
  timers down. `Timeout`, `Grace` and `TTL` are the runner timeout, the two
  minutes after it, and the tombstone TTL. There is no bound on time.
- Runner ids no longer in use anywhere are used again, which keeps the model
  finite without bounding the number of attempts.
- Labels are sets of normalised labels. The repository of a run and its head
  repository are compared with the webhook's: same, other, none or a fork.
- A runner's name is the record of its node, job and attempt. For
  `nodeFromRunnerName` this assumes that no node id, and no job id, is part of
  another one.
- GitHub, as `src/` uses it, is external: it gives a queued job to any idle
  registered runner that has its labels, unregisters an ephemeral runner when
  its job ends, and refuses a runner name it knows.
- Fields that no code reads once a record is completed or rejected are cleared.

`Faults` names the kinds of failures of an instance, `MaxFaults` and
`MaxCrashes` bound their number.

### JobLifecycle

Two variables: a ledger (a job is none, open or closed) and the nodes that serve
a job. A closed job is not opened before it is forgotten, a served job stays
open, and a job is served by one node at most. The refinement mapping in
`RunnerManager` takes the state file as the ledger (`Ledger`) and the nodes whose
container of the job has a registered runner as `Serving`.

### Placement

`record[j]` is what `place` reads of a record, `disk[j]` the same in the state
file, `box[n][j]` the container named for job `j` on node `n`. A report is
measured (`sendHeartbeat`), travels (`beat[n]`), and is used (`registry[n]`)
until the next one arrives. `Capacity`, `seen` and `Place` are the arithmetic of
the code. Machines, requests and the memory of other programs are constants;
containers may use none of the memory they were promised, which makes reports as
optimistic as they can be.

A container can lose its record, and then no reservation stands for it.

- The undo of a failed create, and `recoverProvisioning`, drop the error of their
  destroy (`createFails`, `recoverProvisioning`).
- `handleCompleted`, `cleanupRecord` and `recoverProvisioning` skip the destroy on
  a node `rawNode` does not find. A registry entry is `Unknown` (no heartbeat
  since the start: skipped), `Stale` (none for the node TTL: the destroy is
  tried), or a report.
- A create request may be run after its caller gave up or died (`late`).

Such a container goes when its deadline passes (`janitor`), or when a later
attempt of the same job meets it and its undo removes it. A handler is one step
here, except that others see an attempt's record (`place`) before its container
(`createInstance`, `createFails`), and `busy` is the attempt under way. What a
crash inside another handler leaves is also left by a crash before or after it
and the janitor. Time is left out: any deadline may have passed. "running" stands
for cleanup_pending too. A report on its way is lost when the controller
restarts. Jobs are all there from the start; a job rejected by `tryProvision` is
one whose pending record is closed.

### DockerAgent

`loc` is where the goroutine of `Service.Run` stands; `listed`, `counted`,
`due`, `victim` are its locals, `fired` is the buffered cleanup tick with the
containers due at its time. `box[c]` is a container by id, `before` a history
variable for `ReportCovers`. `createInstance`, `dockerRun`, `destroyInstance`
and `exit` interleave with every docker command of the probe and of the sweep.
`restart` ends the agent at any point. Ids that nobody remembers are used again.

### TokenCache

Times are minutes relative to GitHub's clock; `offset` is the error of the
controller's clock, which `drift` may change within its bounds at any moment.
The manager's goroutine is the only user of the client, so there is one call at
a time. `grant` is GitHub's answer; `doJSON` and `fail` end a call.

## 3. Properties

| Property | Meaning |
|---|---|
| `TypeOK` | types, and the bound of the event channel |
| `OneUsableRunner` | a job never has two containers whose runners GitHub knows |
| `UsableIsOnRecord` | a container that can take work is named by the record in memory and on disk |
| `ImplementsLifecycle` | every step is a step of `JobLifecycle` or a stutter |
| `TombstonesHold` | no new runner for a job while its saved tombstone is younger than the TTL |
| `CompletionFreesContainer` | a record becomes completed only when the container it names is gone |
| `CompletionRemovesRunner` | a completed job has no registered runner left |
| `NoJobCutShort` | no container executing a job is removed before its deadline |
| `ReservationsFit` | records, in memory and on disk, hold no more places than a node has |
| `RunningFit` | no more containers run on a node than fit on it |
| `OnlyAdmittedJobsRun` | a runner is made only for a marked, trusted job, on its platform |
| `NamesAreNew` | no runner name is asked for that is still registered |
| `PendingIsServed` | a saved pending job gets a usable container or stops waiting at GitHub |
| `RecordsEnd` | every record is forgotten in the end |
| `ContainersEnd` | every container, orphans included, is removed in the end |
| `RecoveryTearsDown` | recovery removes the interrupted attempt first (does not hold) |
| `PromisesFit` | records, in memory and on disk, never ask for more CPU and memory of a node than it has |
| `NoOvercommit` | containers, orphans included, reservations and other programs never exceed a node's CPU and memory |
| `LeastLoaded` | no node with room, by report and by records, has fewer jobs than the chosen one |
| `WaitingIsPlaced` | a job some empty node can hold is placed and its record released in the end |
| `NeverEarly` | the sweep removes no container before its deadline |
| `ReportCovers` | a report counts every container that ran throughout its probe |
| `ContainersGo` | the agent alone removes every container in the end |
| `ReportsResume` | however probes fail, the node is reported with Docker again and again |
| `TokenOutlivesCall` | a token is valid as long as its call may arrive |
| `JWTAccepted` | a JWT is neither from the future, nor expired, nor too long-lived |

`PendingIsServed` and `RecordsEnd` have one exception, `NextNameTaken`: after a
lost JIT answer, or a crash before the record is saved, a runner on no record
has the name of the job's next attempt. The runner of the attempt under way,
whose answer has arrived and is about to be recorded, is not such a runner.
GitHub then refuses every retry until it forgets the leaked runner, which it
does in its own time.

## 4. Runs

| Run | Module | Instance | Result |
|---|---|---|---|
| `recovery` | `MCRunnerManager` | 1 job, 2 nodes, 2 runners, 2 failures of `save`, `destroy`, `create`, `late`, `dup`, 1 crash | holds, 1.1 million states |
| `two_jobs` | `MCRunnerManager` | 2 jobs with own labels, 2 nodes with 1 place, 1 failure of `save`, `getrun`, `jit`, `destroy`, `lose`, `stale`, `exit` | holds, 1.0 million |
| `attempts` | `MCRunnerManager` | 3 jobs (served, forked, unmarked), 1 node, 2 failures of `create`, `delete` | holds, 1.0 million |
| `liveness` | `MCRunnerManager` | 1 job, 1 node, 3 runners, 1 failure of any kind, 1 crash | holds, 0.2 million |
| `placement` | `MCPlacement` | 3 jobs, 2 machines, 2 failures of `probe`, `save`, `destroy` | holds, 0.6 million |
| `restarts` | `MCPlacement` | 3 equal jobs, 1 machine for one, 2 failures of any kind, restarts included | holds, 0.1 million |
| `docker_agent` | `MCDockerAgent` | 2 ids, 2 jobs, 3 creates, 2 failures | holds, 0.2 million |
| `token_cache` | `MCTokenCache` | 2 installations, in minutes; tokens live 12 instead of 60 | holds, 11 thousand |
| `runner_left` | `MCRunnerManager` | 1 job, 1 node, 1 refused deletion | violated |
| `shared_labels` | `MCRunnerManager` | 2 jobs with the same labels, 1 node with 2 places | violated |
| `startup_recovery` | `MCRunnerManager` | 1 job, 1 node, 1 crash | violated |
| `overcommit` | `MCPlacement` | 2 equal jobs, 1 machine with other programs on it | violated |

Bounds. In `RunnerManager`, `Timeout`, `Grace` and `TTL` are one tick each: a
container's deadline is one tick away, its record is overdue after two. The
hazards of one job need one record, two nodes (the old and the new place) and
the runner ids of a leaked attempt and a current one; the theorems of section 5
cover any number of them. In `liveness` there are more ids than a behaviour can
leak. Competition needs as many jobs as places, or more; cross-assignment two
jobs and two places on one node. Two failures reach a failure inside the
handling of another one. Symmetry over nodes and runners is used for safety
only. In `placement` either of the first two jobs can be held up by the other on
the small machine, the third needs a capability only that machine has, and the
machines differ so that fewest jobs and most free CPU disagree. In
`docker_agent` two ids let one container be removed and replaced while the
other is being inspected or swept; requested timeouts are none (the default,
one tick) and two ticks.

What a passing run leaves out is part of its statement.

- `recovery` excludes `delete`: a runner GitHub refuses to delete can be used
  after its record is gone.
- `two_jobs` excludes `delete` and `jitlost` (a refused deletion and a lost JIT
  answer leave a runner behind), `create` and `late` (a create call that takes
  effect after it failed can exceed a node's places for a while, and its undo
  may remove a container that has got work), and crashes (see
  `startup_recovery`). The theorems say which property needs which of these.
- `attempts` has the failures that leave a runner behind for the next attempt: a
  create that fails and a deletion that fails in its undo. `NewNames` covers
  other kinds. It excludes `jitlost` and crashes, where `NamesAreNew` fails and
  `NextNameTaken` takes over, and `dup`: a redelivery after the record was
  forgotten numbers attempts from one again, though a runner whose deletion
  failed may still have that name.
  Its one node is a Linux node, so that it shows nothing of platforms;
  `RunnersAdmitted` does.
- `placement` has no memory used by other programs, no restart, no late create
  and not both failing creates and failing destroys, so that no container loses
  its record. `overcommit` has the first. With a restart two CPUs can hold three
  jobs of one CPU each: a completed event handled before the node's first
  heartbeat releases the record and leaves the container, the node then reports
  one CPU free, and two more jobs are placed before the next heartbeat, because
  the reservations are taken from the total and not from what is free.
- `restarts` has no jobs that keep coming: among pending jobs the code keeps no
  order, so that an endless stream of small jobs could hold up a large one.

The four violated runs are the findings of `PROJECT.json`. `startup_recovery`:
after a start the registry is empty, and recovery treats a node without an entry
as a node without a container. `handleCompleted` does the same, so that a
completed event handled before the node's first heartbeat leaves the container
too. The orphans are removed at their deadline (`ContainersEnd`) and cannot take
work (`OneUsableRunner`). `runner_left` is a dropped error. `shared_labels` is an
interaction with GitHub: a runner registered for one job may be given another
job with the same labels, and the record does not know. `overcommit` is a
question of which numbers are subtracted from which: memory of other programs is
taken from the reported free memory only, reservations from the total only.
The share of a container that has lost its record is treated in the same way.

### Fairness

`RunnerManager`: weak fairness of the goroutine's own steps (every HTTP call has
a timeout), strong fairness of `reconcile` (Go's `select` chooses at random among
ready cases, so a busy queue does not starve the ticker), weak fairness of
heartbeats and of the janitor (tickers of the agent), and that time passes. It
assumes nothing of GitHub: no webhook has to arrive, no job has to end.

`Placement`: reports keep leaving and arriving, a placeable job is tried by
`reconcile`, an attempt runs to its end, `reconcile` cleans up running records,
since their deadline passes, and recovers interrupted attempts, and the janitor
removes containers past their deadline. Nothing is assumed of GitHub. The first
two are written as `[]<>` of the condition's end, which for these actions is
weak fairness and is cheaper to check.

`DockerAgent`: every docker command ends (weak fairness of the goroutine and of
`dockerRun`), tickers fire and time passes, and `select` is strongly fair to
both of its tickers. The number of failures and restarts is bounded, so what is
shown is recovery after the last of them.

## 5. Proofs

All theorems hold for every value of the constants that satisfies the named
assumption of their module, which TLC evaluates in every run. In `RunnerManager`
the sets of nodes and runners need not be finite; jobs are finitely many.

`TypeCorrect` (`RunnerManagerProofs`): `Spec => []TypeOK`. `TypeOK` alone is not
inductive: whether a step writes a well-typed record depends on where the
goroutine is. `TypeInv` adds `Control` (which locals are set and which status
the current record has at each `pc`) and `Shape` (a record, in memory and on
disk, names a node and a runner exactly while it is active).

`OneRunner` and `AlwaysOnRecord` (`OneRunnerProofs`): if `"delete"` is not among
the faults, then `Spec => [](OneUsableRunner /\ UsableIsOnRecord)`. A record
names one node, so `UsableIsOnRecord` implies `OneUsableRunner`. To be inductive
it needs two more facts. `LateIsOnRecord`: the runner of a create request still
under way is on record too, or is no longer registered. `Handover`: when the
container is asked for, both stores name its node and runner, and when a record
is about to be released, its runner is no longer registered. A crash then loses
nothing, because memory is only replaced by a file that names the same runner.
The assumption on `delete` is needed: without it the undo and recovery paths
drop the error and release a record whose runner lives on.

`NoReopening` (`RunnerManagerProofs`): `Spec => TombstonesHold`, with every kind of
failure. The module proves `StoreSteps` before, a summary of what any step can do
to the two stores: nothing, reload, age, or `Written`, where each record is kept,
opened, released, closed, forgotten or claimed. The invariant `TombInv` says that
memory holds every valid tombstone of the file, and for at least as long. That a
failed save leaves memory ahead of the file, never behind, is what makes a crash
harmless.

`RunnersAdmitted` (`LifecycleProofs`) and `PlacesFit` (`CapacityProofs`):
`OnlyAdmittedJobsRun` and `ReservationsFit`, with every kind of failure. Both
rest on the same observation: between the check (the run is trusted and the
platform fits; a place is free) and the step that uses it there are remote
calls, and only the clock may touch the records meanwhile (`ProvisioningSteps`).
`Checked` and `PlaceFree` carry the check to its use.

`LifecycleImplemented` (`LifecycleProofs`): `Spec => ImplementsLifecycle`, if
`"delete"` is not among the faults. The invariant joins those of `OneRunner` and
`NoReopening` with `OwnInv`: no two records name the same runner, so that the
deletion of a runner ends the service of one job only. `ServiceStep` summarises
what any step does to containers and registrations; `LifecycleStep` maps each
case to `Record`, `Start`, `Stop` or a stutter.

The remaining theorems about `RunnerManager` are about one life of the process
(`MaxCrashes = 0`). A restarted controller has an empty registry, skips the
destroys of nodes it has not heard of (`startup_recovery`) and does not know the
runner of an unsaved record, so that none of the five properties survives a
restart as it stands.

- `NoRunnerLeft` (`LifecycleProofs`): `Spec => []CompletionRemovesRunner`, if
  neither `"delete"` nor `"jitlost"` is among the faults; without the first,
  `runner_left` is a counterexample. `NamedInv`: every registered runner is named
  by the record of its job, or is the one about to be recorded. With `Handover`
  of `OneRunner`, a record lets go of a runner only when GitHub has deleted it.
- `NewNames` (`LifecycleProofs`): `Spec => []NamesAreNew`, if neither `"dup"` nor
  `"jitlost"` is among the faults. `Ahead`: an open record counts at least as
  many attempts as any registered runner of its job. Opening a record sets the
  count to zero, so the invariant also needs `AnnouncedOnce`: the queued event of
  a job is on its way or in the queue at most once, and while it is, the job has
  no open record and no runner.
- `ContainersFirst` (`ContainerProofs`): `Spec => CompletionFreesContainer`,
  whatever calls fail. `KnownNodes`: the node of an active record has a registry
  entry, so no destroy is skipped. `GoneInv`: from the successful destroy to the
  save of the tombstone the container stays away. A create request that outlasts
  its call cannot bring it back, because the error path of that call has released
  the record's runner before.
- `ContainersFit` (`CapacityProofs`): `Spec => []RunningFit`, if `"late"` is not
  among the faults and not both `"create"` and `"destroy"` are: undoing a failed
  create releases the place even when the destroy fails. `UpInv`: a running
  container has an active record with its node and runner, which is provisioning
  only while the container is being started or undone. The containers that run on
  a node are then among the holders of its places, and `PlacesFit` counts those.
- `NoneCutShort` (`ContainerProofs`): `Spec => NoJobCutShort`, if neither
  `"late"` nor `"create"` is among the faults and no job has all the labels of
  another; without the last, `shared_labels` is a counterexample. The invariant
  follows the three ways a container is destroyed. `EventInv`: a completed event,
  wherever it is, is about a job that is done. `WorkInv` and `LeftInv`: a record
  that `reconcile` cleans up is overdue or waiting for cleanup, and a container's
  deadline comes before its record's. `NameInv`: a job runs on the runner made
  for it, so the container of a job that is done executes no other. The theorem
  is about one clock and destroys that end with their calls (section 6).

All of these rest on summaries of what one step can do, proved once:
`StoreSteps`, `LiveStore` and `RewrittenActive` for the records, `NewRunners` for
registrations, `QueueSteps` for deliveries and the queue (`RunnerManagerProofs`),
`RunConts` and `OutsideConts` for containers (`ContainerProofs`). The proof
modules build on each other: `RunnerManagerProofs`; on it `OneRunnerProofs` and
`ContainerProofs`; on the former `LifecycleProofs`, on the latter
`CapacityProofs`, which needs the theorems about finite sets. `USE Zenon` makes
Zenon the prover of these modules; leaves with arithmetic or records cite `SMT`.

`PromisesKept`, `NothingOvercommitted` and `FewestJobsFirst` (`PlacementProofs`).
`Spec => []PromisesFit` and `Spec => LeastLoaded` hold with every kind of failure
and restart. `Spec => []NoOvercommit` holds if no other program uses memory on
the nodes and no container can lose its record (`NoOrphans`): no restart, no late
create, and not both failing creates and failing destroys. `overcommit` is a
counterexample without the first. The assumption on
the constants is that jobs are finitely many, requests and machines are records
with natural numbers, and other programs use no more memory than there is.

- `PlacementInv` is inductive. `FitStore` of both stores: the records that hold
  places on a node ask for no more than it has. `RecordSteps` sums up what a step
  does to the records: nothing, a placement, a restart, or `Lighter`, which gives
  back a place or none; the state file stays or gets what memory has.
  `BusyInv`: an attempt under way has a record in provisioning. `TypeInv`: a
  report, on its way or stored, is none, one without a backend, or one with the
  totals of its machine and no more free. Nothing is said of how old a report is:
  `place` takes the smaller of what the report and the reservations leave
  (`WithinRoom`), and the second alone bounds the sum.
- `BoxInv`, for `NoOvercommit`: a container has a running record on its node, so
  its job is among the reservations. It needs `KnownInv`: the registry has an
  entry for the node of every active record, so that no destroy is skipped. Only
  a restart loses an entry (`EntryStays`).
- `SeenCandidates` says in terms of reports and records which nodes `Place`
  considers; `PlaceFirst`, that what it returns is the first of them in the order
  of the stable sort; `Chosen`, that no other has a smaller load.
- The properties add up what a set of jobs asks for, and `Place` takes the least
  of a finite set. The induction theorems of the library cannot be used (they
  take an operator as a parameter), but strict inclusion among the subsets of a
  finite set is well-founded, so each of these facts is proved from a smallest
  counterexample (`Smallest`): the recursion behind `SumFunctionOnSet` has a
  solution (`AdderExists`), any term can be taken out of a sum (`SumRemove`), and
  a finite set with a strict total order has a least element (`LeastExists`).

`CredentialsValid` and `TokenRequestsValid` (`TokenCacheProofs`): both
properties of `TokenCache`, from `ClockAssumption`, which says what the numbers
in the code must satisfy: the margin of five minutes exceeds the clock's lag and
a call's time together, the minute a JWT is dated back covers the clock's lead,
and its nine minutes and that lead stay within GitHub's ten. `TokenInv` and
`JWTInv` relate what is left of a credential to the age of its request.

`AgentSafe` and `ReportsComplete` (`DockerAgentProofs`): `NeverEarly` and
`ReportCovers`. `DueInv`: a container that was due when a tick fired is due or
gone ever after. `ProbeInv`: what has been running since before the probe is on
the list or counted.

Only model-checked: the liveness properties (fairness and `ENABLED` are outside
the prover's reach). Every invariant and action property of a passing run is
proved, each under the conditions named above. Three of the violated properties
(`CompletionRemovesRunner`, `NoJobCutShort` and `NoOvercommit`) hold in other
runs and are proved under conditions that exclude the violation.

## 6. Not modelled

- Signature checks, request size limits, decoding, TLS, certificate names and
  authorization decide only whether a request is one of the parties' requests.
- Flags, defaults and start-up of the two programs (`cmd`), logging, HTTP
  encoding, JWT signing: no state of the system depends on them. A state file
  that cannot be loaded stops the controller from starting.
- Two clocks. `reconcile` compares the deadline an agent has set with the
  controller's clock, two minutes late. `RunnerManager` has one clock, so that
  `NoJobCutShort` holds for clocks that differ by less than that grace.
- A destroy that takes effect after its caller gave up. By name it could remove
  the container of a later attempt, before its deadline, which `NoJobCutShort`
  would not allow. The other properties bound what exists or say that it goes,
  and a removal breaks none of them; a job whose container is gone is one whose
  container has exited, which is modelled.
- Cache directories and the arguments of `docker run`, the parsing of what
  Docker and `/proc/meminfo` print.
- `safeName`, the formats of names and the matching of a runner's name with
  nodes whose ids are prefixes of one another. A wrong match changes only on
  which node the destroy of an unknown job's container is tried.
- The read-only endpoints, and `POST /v1/schedule`, which answers with a
  placement and keeps nothing.
- KVM and Hyper-V backends are stubs. Jobs that ask for a VM have no backend
  that starts them and stay pending until GitHub completes them.
