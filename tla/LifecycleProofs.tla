-------------------------- MODULE LifecycleProofs --------------------------
(* The life of a job and of its runners: RunnerManager implements           *)
(* JobLifecycle, a completed job keeps no runner, runners are made only for *)
(* admitted jobs, and no runner is given a name that was used before.       *)
EXTENDS OneRunnerProofs

USE ConstantsAssumption, Zenon

(***************************************************************************)
(* No two jobs share a runner                                              *)
(***************************************************************************)
OwnRunner(store) ==
  \A j, k \in Jobs : j # k /\ store[j].runner = store[k].runner => store[j].runner = NoRunner

(* The runner GitHub has just made is on no record yet.                     *)
JITIsNew == pc = "record" => \A j \in Jobs : jobs[j].runner # jit

OwnInv == OwnRunner(jobs) /\ OwnRunner(disk) /\ JITIsNew

(* Two records never name the same runner.                                  *)
LEMMA OwnStep == TypeInv /\ OwnInv /\ [Next]_vars => OwnInv'
<1> SUFFICES ASSUME TypeInv, OwnInv, [Next]_vars PROVE OwnInv'
  OBVIOUS
<1>0. jobs \in [Jobs -> JobRecord] /\ disk \in [Jobs -> JobRecord]
  BY DEF TypeInv, TypeOK
<1>1. OwnRunner(jobs') /\ OwnRunner(disk')
  <2>1. CASE UNCHANGED storeVars
    BY <2>1 DEF storeVars, OwnInv
  <2>2. CASE jobs' = disk /\ disk' = disk
    BY <2>2 DEF OwnInv
  <2>3. CASE jobs' = Aged(jobs) /\ disk' = Aged(disk)
    BY <1>0, <2>3, AgedRecord, SMT DEF OwnInv, OwnRunner
  <2>4. CASE Written
    <3>1. ASSUME NEW j \in Jobs
          PROVE  \/ jobs'[j].runner \in {jobs[j].runner, NoRunner}
                 \/ pc = "record" /\ j = cur /\ jobs'[j].runner = jit
      BY <2>4, RewrittenRunner DEF Written
    <3>2. OwnRunner(jobs')
      BY <3>1, SMT DEF OwnInv, OwnRunner, JITIsNew
    <3> QED BY <2>4, <3>2 DEF Written, OwnInv
  <2> QED BY <1>0, <2>1, <2>2, <2>3, <2>4, StoreSteps DEF StoreStep
<1>2. JITIsNew'
  <2> SUFFICES ASSUME pc' = "record", NEW j \in Jobs PROVE jobs'[j].runner # jit'
    BY DEF JITIsNew
  <2>1. CASE Fresh(jit') /\ UNCHANGED storeVars
    BY <2>1 DEF Fresh, storeVars
  <2>2. CASE UNCHANGED mgrVars /\ (UNCHANGED storeVars \/ jobs' = Aged(jobs))
    BY <1>0, <2>2, AgedRecord, SMT DEF OwnInv, JITIsNew, mgrVars, storeVars
  <2> QED BY <2>1, <2>2, ProvisioningSteps DEF Provisioning
<1> QED BY <1>1, <1>2 DEF OwnInv, OwnRunner

(***************************************************************************)
(* What a step does to the usable containers                               *)
(***************************************************************************)
SameRunners == \A n \in Nodes, j \in Jobs : cont'[n][j].runner = cont[n][j].runner

ContainersOf(j) ==
  \A n \in Nodes, k \in Jobs \ {j} : cont'[n][k].runner = cont[n][k].runner

ServiceStep ==
  \/ reg' = reg /\ SameRunners
  \/ disk' = disk /\ reg' = reg /\ \E j \in Jobs : ContainersOf(j)
  \/ disk' = disk /\ SameRunners /\ \E r : reg' = {x \in reg : x.id # r}
  \/ /\ disk' = disk /\ SameRunners
     /\ \E r : Fresh(r) /\ \A x : Registered(x)' <=> (Registered(x) \/ x = r)

(* A destroy, done or failed, touches the containers of one job.            *)
LEMMA DestroyService ==
  ASSUME TypeInv, NEW n, NEW j \in Jobs, NEW inst, DestroyInstance(n, j, inst),
         disk' = disk, reg' = reg
  PROVE  ServiceStep
<1>1. cont \in [Nodes -> [Jobs -> Container]]
  BY DEF TypeInv, TypeOK
<1>2. cont' = cont \/ cont' = [cont EXCEPT ![n][j] = NoCont]
  BY DEF DestroyInstance, destroyed, destroyFails, Removed
<1>3. ContainersOf(j)
  BY <1>1, <1>2, SMT DEF ContainersOf
<1> QED BY <1>3 DEF ServiceStep

(* A create touches the containers of one job.                              *)
LEMMA CreateService ==
  ASSUME TypeInv, NEW n, NEW j \in Jobs, NEW r, cont' = cont \/ cont' = Created(n, j, r),
         disk' = disk, reg' = reg
  PROVE  ServiceStep
<1>1. cont \in [Nodes -> [Jobs -> Container]]
  BY DEF TypeInv, TypeOK
<1>2. ContainersOf(j)
  BY <1>1, SMT DEF ContainersOf, Created
<1> QED BY <1>2 DEF ServiceStep

(* The steps of Run: a save, or one change at one side, never both.         *)
LEMMA RunService == TypeInv /\ Run => ServiceStep
<1> SUFFICES ASSUME TypeInv, Run PROVE ServiceStep
  OBVIOUS
<1>1. CASE Process \/ reconcile \/ (\E j \in Jobs : visit(j))
           \/ checkAndPlace \/ recordProvisioning \/ recordRunning \/ undoSave
           \/ deferCleanup \/ finish \/ recoverSave
  BY <1>1 DEF Process, handleQueued, handleCompleted, reconcile, visit, checkAndPlace,
     recordProvisioning, recordRunning, undoSave, deferCleanup, finish, recoverSave,
     agentVars, ghVars, ServiceStep, SameRunners
<1>2. CASE GenerateJITConfig
  <2>1. disk' = disk /\ SameRunners
    BY <1>2 DEF GenerateJITConfig, storeVars, agentVars, SameRunners
  <2>2. CASE reg' = reg
    BY <2>1, <2>2 DEF ServiceStep
  <2>3. ASSUME NEW r \in Runners, Fresh(r),
               reg' = reg \cup {[id |-> r, node |-> target, job |-> cur,
                                 attempt |-> jobs[cur].attempt + 1]}
        PROVE  ServiceStep
    <3> DEFINE e == [id |-> r, node |-> target, job |-> cur, attempt |-> jobs[cur].attempt + 1]
    <3>0. reg' = reg \cup {e} /\ e.id = r
      BY <2>3
    <3> HIDE DEF e
    <3>1. \A x : Registered(x)' <=> (Registered(x) \/ x = r)
      BY <3>0 DEF Registered
    <3> QED BY <2>1, <2>3, <3>1 DEF ServiceStep
  <2> QED BY <1>2, <2>2, <2>3 DEF GenerateJITConfig
<1>3. CASE dropRunner \/ undoDelete \/ deleteRunner \/ recoverDelete
  <2>1. DeleteRunner(jobs[cur].runner) /\ disk' = disk /\ SameRunners
    BY <1>3
      DEF dropRunner, undoDelete, deleteRunner, recoverDelete, storeVars, agentVars, SameRunners
  <2> QED BY <2>1 DEF DeleteRunner, ServiceStep
<1>4. CASE undoDestroy \/ destroyStray \/ destroyCompleted \/ cleanupRecord \/ recoverDestroy
  <2>1. cur \in Jobs /\ disk' = disk /\ reg' = reg /\ \E n, inst : DestroyInstance(n, cur, inst)
    BY <1>4
      DEF undoDestroy, destroyStray, destroyCompleted, cleanupRecord, recoverDestroy,
       DestroyInstance, storeVars, ghVars, TypeInv, Control
  <2> QED BY <2>1, DestroyService
<1>5. CASE CreateInstance
  <2>1. /\ cur \in Jobs /\ disk' = disk /\ reg' = reg
        /\ cont' = cont \/ cont' = Created(jobs[cur].node, cur, jobs[cur].runner)
    BY <1>5 DEF CreateInstance, agentVars, ghVars, TypeInv, Control
  <2> QED BY <2>1, CreateService
<1> QED BY <1>1, <1>2, <1>3, <1>4, <1>5
          DEF Run, Handler, tryProvision, completing, recoverProvisioning

(* The same of every other step.                                            *)
LEMMA OutsideService == TypeInv /\ [Next]_vars /\ ~Run => ServiceStep
<1> SUFFICES ASSUME TypeInv, [Next]_vars, ~Run PROVE ServiceStep
  OBVIOUS
<1>0. cont \in [Nodes -> [Jobs -> Container]]
  BY DEF TypeInv, TypeOK
<1>1. CASE Crash \/ Deliveries \/ (\E n \in Nodes : heartbeat(n) \/ heartbeatsStop(n)) \/ UNCHANGED vars
  BY <1>1
    DEF Crash, loadState, Deliveries, webhook, ignoreWebhook, loseWebhook, heartbeat,
        heartbeatsStop, vars,
     agentVars, ghVars, ServiceStep, SameRunners
<1>2. ASSUME NEW n \in Nodes, NEW j \in Jobs, janitor(n, j) \/ containerExits(n, j) PROVE ServiceStep
  <2>1. disk' = disk /\ reg' = reg
    BY <1>2 DEF janitor, containerExits, storeVars, ghVars
  <2>2. ContainersOf(j)
    BY <1>0, <1>2, SMT DEF janitor, containerExits, ContainersOf
  <2> QED BY <2>1, <2>2 DEF ServiceStep
<1>3. ASSUME NEW q \in late, lateCreate(q) PROVE ServiceStep
  <2>1. /\ q.job \in Jobs /\ disk' = disk /\ reg' = reg
        /\ cont' = cont \/ cont' = Created(q.node, q.job, q.runner)
    BY <1>3 DEF lateCreate, storeVars, ghVars, TypeInv, TypeOK, Request
  <2> QED BY <2>1, CreateService
<1>4. CASE GitHub
  <2>1. disk' = disk
    BY <1>4, SMT DEF GitHub, jobCancelled, jobLost, assign, jobEnds, Over, storeVars
  <2>2. SameRunners
    <3>1. ASSUME NEW j \in Jobs, NEW n \in Nodes, NEW k \in Jobs, jobEnds(j, n, k) PROVE SameRunners
      BY <1>0, <3>1, SMT DEF jobEnds, SameRunners, Container
    <3>2. CASE cont' = cont
      BY <3>2 DEF SameRunners
    <3> QED BY <1>4, <3>1, <3>2 DEF GitHub, jobCancelled, jobLost, assign, agentVars
  <2>3. reg' = reg \/ \E r : reg' = {x \in reg : x.id # r}
    <3>1. (\E j \in Jobs : Over(j)) \/ reg' = reg
      BY <1>4 DEF GitHub, jobCancelled, jobLost, assign, jobEnds
    <3>2. ASSUME NEW j \in Jobs, Over(j) PROVE reg' = {x \in reg : x.id # by[j].id}
      BY <3>2 DEF Over
    <3> QED BY <3>1, <3>2
  <2> QED BY <2>1, <2>2, <2>3 DEF ServiceStep
<1>5. CASE Tick
  <2>1. ASSUME NEW n \in Nodes, NEW j \in Jobs PROVE cont'[n][j].runner = cont[n][j].runner
    <3>1. cont[n][j] \in Container
      BY <1>0, SMT
    <3> QED BY <1>5, <3>1 DEF Tick, Aged, Container
  <2> QED BY <1>5, <2>1 DEF Tick, ghVars, ServiceStep, SameRunners
<1> QED BY <1>1, <1>2, <1>3, <1>4, <1>5 DEF Next, Agents

(***************************************************************************)
(* The refinement                                                          *)
(***************************************************************************)
LifeInv == Inv /\ OwnInv /\ TombInv

(* No runner is registered under NoRunner after a step either.              *)
LEMMA NotRegisteredNext ==
  ASSUME TypeInv'
  PROVE  ~Registered(NoRunner)'
<1>1. reg' \subseteq RunnerName
  BY DEF TypeInv, TypeOK
<1> QED BY <1>1, ConstantsAssumption DEF Registered, RunnerName

(* What the state file says of a usable container.                          *)
LEMMA Recorded ==
  ASSUME Inv, NEW n \in Nodes, NEW j \in Jobs, Usable(n, j)
  PROVE  disk[j].node = n /\ disk[j].runner = cont[n][j].runner
  BY DEF Inv, RunnerInv, UsableIsOnRecord, OnRecord

(* A node that serves a job is the one the state file names, and the file   *)
(* says the job is open.                                                    *)
LEMMA ServedIsOpen ==
  ASSUME Inv, NEW j \in Jobs, NEW n \in Serving[j]
  PROVE  n \in Nodes /\ disk[j].node = n /\ disk[j].runner = cont[n][j].runner /\ Ledger[j] = "open"
<1>1. n \in Nodes /\ Usable(n, j)
  BY DEF Serving
<1>2. disk[j].node = n /\ disk[j].runner = cont[n][j].runner
  BY <1>1, Recorded
<1>3. disk[j].runner # NoRunner
  BY <1>1, <1>2, NotRegistered DEF Inv, Usable
<1>4. disk[j].status \in Active
  BY <1>3 DEF Inv, TypeInv, Shape
<1> QED BY <1>1, <1>2, <1>4 DEF Ledger, Standing

(* A step that changes who serves one job starts or stops its service.      *)
LEMMA OneJobServed ==
  ASSUME Inv, Inv', disk' = disk, NEW j \in Jobs,
         \A k \in Jobs \ {j} : Serving'[k] = Serving[k]
  PROVE  [Lifecycle!Next]_(Lifecycle!vars)
<1>1. Ledger' = Ledger
  BY DEF Ledger
<1>2. /\ \A n \in Serving[j] : n = disk[j].node
      /\ \A n \in Serving'[j] : n = disk[j].node /\ n \in Nodes /\ Ledger[j] = "open"
  <2>1. \A n \in Serving[j] : n = disk[j].node
    BY ServedIsOpen
  <2>2. ASSUME NEW n \in Serving'[j] PROVE n = disk[j].node /\ n \in Nodes /\ Ledger[j] = "open"
    <3>1. n \in Nodes /\ Usable(n, j)'
      BY DEF Serving
    <3>2. disk'[j].node = n /\ disk'[j].runner = cont'[n][j].runner
      BY <3>1, SMT DEF Inv, RunnerInv, UsableIsOnRecord, OnRecord
    <3>3. disk'[j].runner # NoRunner
      <4>1. ~Registered(NoRunner)'
        BY NotRegisteredNext DEF Inv
      <4> QED BY <3>1, <3>2, <4>1 DEF Usable
    <3>4. disk'[j].status \in Active
      BY <3>3 DEF Inv, TypeInv, Shape
    <3>5. Ledger'[j] = "open"
      BY <3>4 DEF Ledger, Standing
    <3> QED BY <1>1, <3>1, <3>2, <3>5
  <2> QED BY <2>1, <2>2
<1>3. Serving = [k \in Jobs |-> Serving[k]] /\ Serving' = [k \in Jobs |-> Serving'[k]]
  BY DEF Serving
<1>4. Serving' = [Serving EXCEPT ![j] = Serving'[j]]
  BY <1>3
<1>5. CASE Serving'[j] = {}
  <2>1. CASE Serving[j] = {}
    <3>1. Serving' = Serving
      BY <1>3, <1>4, <1>5, <2>1
    <3> QED BY <1>1, <3>1 DEF Lifecycle!vars
  <2>2. CASE Serving[j] # {}
    <3>1. Lifecycle!Stop(j)
      BY <1>1, <1>4, <1>5, <2>2 DEF Lifecycle!Stop
    <3> QED BY <3>1 DEF Lifecycle!Next
  <2> QED BY <2>1, <2>2
<1>6. CASE Serving'[j] # {} /\ Serving[j] = {}
  <2>1. PICK n \in Nodes : Serving'[j] = {n} /\ Ledger[j] = "open"
    BY <1>2, <1>6, SMT
  <2>2. Lifecycle!Start(j, n)
    BY <1>1, <1>4, <1>6, <2>1 DEF Lifecycle!Start
  <2> QED BY <2>2 DEF Lifecycle!Next
<1>7. CASE Serving'[j] # {} /\ Serving[j] # {}
  <2>1. Serving'[j] = Serving[j]
    <3>1. \A S, x : S # {} /\ (\A y \in S : y = x) => S = {x}
      OBVIOUS
    <3>2. Serving[j] = {disk[j].node}
      BY <1>2, <1>7, <3>1
    <3>3. Serving'[j] = {disk[j].node}
      BY <1>2, <1>7, <3>1, SMT
    <3> QED BY <3>2, <3>3
  <2>2. Serving' = Serving
    BY <1>3, <1>4, <2>1
  <2> QED BY <1>1, <2>2 DEF Lifecycle!vars
<1> QED BY <1>5, <1>6, <1>7

(* A step that changes no service writes the ledger, or nothing.            *)
LEMMA SameService ==
  ASSUME LifeInv, LifeInv', [Next]_vars, Serving' = Serving
  PROVE  [Lifecycle!Next]_(Lifecycle!vars)
<1>1. ASSUME NEW j \in Jobs PROVE Lifecycle!MayBecome(j, Ledger'[j])
  <2>1. ASSUME Serving[j] # {} PROVE Ledger'[j] = "open"
    <3>1. PICK n \in Nodes : Usable(n, j)'
      BY <2>1 DEF Serving
    <3>2. disk'[j].runner = cont'[n][j].runner
      BY <3>1, SMT DEF LifeInv, Inv, RunnerInv, UsableIsOnRecord, OnRecord
    <3>3. ~Registered(NoRunner)'
      BY NotRegisteredNext DEF LifeInv, Inv
    <3>4. disk'[j].status \in Active
      <4>1. Shape(disk)'
        BY DEF LifeInv, Inv, TypeInv
      <4>2. disk'[j].runner # NoRunner
        BY <3>1, <3>2, <3>3 DEF Usable
      <4> QED BY <4>1, <4>2 DEF Shape
    <3> QED BY <3>4 DEF Ledger, Standing
  <2>2. ASSUME Ledger[j] = "closed" PROVE Ledger'[j] # "open"
    <3>1. Buried(disk[j]) /\ disk[j].left > 0
      BY <2>2 DEF Ledger, Standing, Buried
    <3>2. Buried(disk'[j])
      BY <3>1, BuriedOnDisk DEF LifeInv, Inv
    <3> QED BY <3>2 DEF Ledger, Standing, Buried, Tombstones, Active
  <2> QED BY <2>1, <2>2 DEF Lifecycle!MayBecome
<1>2. Ledger' \in [Jobs -> {"none", "open", "closed"}]
  BY DEF Ledger, Standing
<1> QED BY <1>1, <1>2 DEF Lifecycle!Next, Lifecycle!Record

(* Every step of the system is a step of the life cycle or stutters.        *)
LEMMA LifecycleStep ==
  ASSUME LifeInv, LifeInv', [Next]_vars
  PROVE  [Lifecycle!Next]_(Lifecycle!vars)
<1>0. ServiceStep
  BY RunService, OutsideService DEF LifeInv, Inv
<1>1. CASE reg' = reg /\ SameRunners
  <2>1. Serving' = Serving
    BY <1>1, SMT DEF Serving, Usable, Registered, SameRunners
  <2> QED BY <2>1, SameService
<1>2. ASSUME disk' = disk, reg' = reg, NEW j \in Jobs, ContainersOf(j)
      PROVE  [Lifecycle!Next]_(Lifecycle!vars)
  <2>1. \A k \in Jobs \ {j} : Serving'[k] = Serving[k]
    BY <1>2, SMT DEF Serving, Usable, Registered, ContainersOf
  <2> QED BY <1>2, <2>1, OneJobServed DEF LifeInv
<1>3. ASSUME disk' = disk, SameRunners, NEW r, reg' = {x \in reg : x.id # r}
      PROVE  [Lifecycle!Next]_(Lifecycle!vars)
  <2>1. \A x : Registered(x)' <=> Registered(x) /\ x # r
    BY <1>3 DEF Registered
  <2>2. CASE \A k \in Jobs : \A n \in Serving[k] : cont[n][k].runner # r
    <3>1. \A k \in Jobs, n \in Nodes : Usable(n, k)' <=> Usable(n, k)
      BY <1>3, <2>1, <2>2 DEF Serving, Usable, SameRunners
    <3>2. Serving' = Serving
      BY <3>1 DEF Serving
    <3> QED BY <3>2, SameService
  <2>3. ASSUME NEW j \in Jobs, NEW m \in Serving[j], cont[m][j].runner = r
        PROVE  [Lifecycle!Next]_(Lifecycle!vars)
    <3>1. disk[j].runner = r
      BY <2>3, ServedIsOpen DEF LifeInv
    <3>2. r # NoRunner
      BY <2>3, NotRegistered DEF Serving, Usable, LifeInv, Inv
    <3>3. ASSUME NEW k \in Jobs \ {j}, NEW n \in Nodes PROVE Usable(n, k)' <=> Usable(n, k)
      <4>1. cont'[n][k].runner = cont[n][k].runner
        BY <1>3 DEF SameRunners
      <4>2. ASSUME Usable(n, k) PROVE cont[n][k].runner # r
        <5>1. disk[k].runner = cont[n][k].runner
          BY <4>2, Recorded DEF LifeInv
        <5> QED BY <3>1, <3>2, <5>1 DEF LifeInv, OwnInv, OwnRunner
      <4> QED BY <2>1, <4>1, <4>2 DEF Usable
    <3>4. \A k \in Jobs \ {j} : Serving'[k] = Serving[k]
      BY <3>3 DEF Serving
    <3> QED BY <1>3, <3>4, OneJobServed DEF LifeInv
  <2> QED BY <2>2, <2>3
<1>4. ASSUME SameRunners, NEW r, Fresh(r), \A x : Registered(x)' <=> (Registered(x) \/ x = r)
      PROVE  [Lifecycle!Next]_(Lifecycle!vars)
  <2>1. \A k \in Jobs, n \in Nodes : Usable(n, k)' <=> Usable(n, k)
    BY <1>4 DEF Usable, SameRunners, Fresh
  <2>2. Serving' = Serving
    BY <2>1 DEF Serving
  <2> QED BY <2>2, SameService
<1> QED BY <1>0, <1>1, <1>2, <1>3, <1>4 DEF ServiceStep

(* The controller, with agents, GitHub, time and crashes around it,         *)
(* implements the life cycle of a job: for any jobs, nodes, bounds and      *)
(* kinds of failures except a runner GitHub refuses to delete, a runner can *)
(* take work only while the state file says its job is open, one job has at *)
(* most one such runner, and a saved tombstone is not reopened.             *)
THEOREM LifecycleImplemented ==
  ASSUME "delete" \notin Faults
  PROVE  Spec => ImplementsLifecycle
<1>1. Init => LifeInv /\ Lifecycle!Init
  <2> SUFFICES ASSUME Init PROVE LifeInv /\ Lifecycle!Init
    OBVIOUS
  <2>1. Inv
    BY InitTypeInv, InitRunnerInv DEF Inv
  <2>2. OwnInv /\ TombInv
    BY DEF Init, OwnInv, OwnRunner, JITIsNew, TombInv, Buried, Absent, Blank, Tombstones
  <2>3. Lifecycle!Init
    BY DEF Init, Lifecycle!Init, Ledger, Standing, Serving, Usable, Registered, Absent, Blank,
       Active, Tombstones
  <2> QED BY <2>1, <2>2, <2>3 DEF LifeInv
<1>2. LifeInv /\ [Next]_vars => LifeInv'
  BY RunnerStep, OwnStep, TombStep DEF LifeInv, Inv
<1>3. LifeInv /\ LifeInv' /\ [Next]_vars => [Lifecycle!Next]_(Lifecycle!vars)
  BY LifecycleStep
<1> QED BY <1>1, <1>2, <1>3, PTL DEF Spec, ImplementsLifecycle, Lifecycle!Spec

(***************************************************************************)
(* Completed jobs keep no runner                                           *)
(***************************************************************************)
(* Every registered runner is named by the record of its job, or is about   *)
(* to be.                                                                   *)
Named(x) == jobs[x.job].runner = x.id \/ (pc = "record" /\ x.job = cur /\ x.id = jit)

NamedInv == \A x \in reg : Named(x)

(* A runner loses its record only by being deleted.                         *)
LEMMA NamedStep ==
  ASSUME MaxCrashes = 0, "jitlost" \notin Faults, Inv, NamedInv, [Next]_vars
  PROVE  NamedInv'
<1> SUFFICES ASSUME NEW x \in reg' PROVE Named(x)'
  BY DEF NamedInv
<1>0. TypeInv
  BY DEF Inv
<1>1. CASE x \notin reg
  <2>1. GenerateJITConfig /\ x.job = cur
    BY <1>1, NewRunners
  <2>2. pc' = "record" /\ cur' = cur /\ x.id = jit'
    BY <1>1, <2>1, SMT DEF GenerateJITConfig, Fault
  <2> QED BY <2>1, <2>2 DEF Named
<1>2. CASE x \in reg /\ jobs[x.job].runner = x.id
  <2>0. x.job \in Jobs /\ x.id # NoRunner /\ jobs[x.job].status \in Active
    BY <1>0, <1>2, TypeParts, RecordParts, SMT DEF RunnerName, Shape
  <2>1. CASE Written
    <3>1. ~(pc \in Releasing /\ x.job = cur)
      BY <1>2 DEF Inv, RunnerInv, Handover, Registered
    <3>2. Kept(x.job, jobs'[x.job])
      BY <2>0, <2>1, <3>1, RewrittenActive DEF Written, Released, Releasing
    <3> QED BY <1>2, <3>2 DEF Kept, Named
  <2>2. CASE jobs'[x.job].runner = jobs[x.job].runner
    BY <1>2, <2>2 DEF Named
  <2> QED BY <1>0, <2>0, <2>1, <2>2, UnwrittenSame DEF SameRecord
<1>3. CASE pc = "record" /\ x.job = cur /\ x.id = jit
  <2>1. CASE Run
    BY <1>0, <1>3, <2>1, RecordClaims DEF Named
  <2>2. CASE ~Run
    BY <1>0, <1>3, <2>2, NoCrash, OutsideStore DEF Named, mgrVars
  <2> QED BY <2>1, <2>2
<1> QED BY <1>1, <1>2, <1>3 DEF NamedInv, Named

(* When a job is recorded as completed, no runner made for it is left at    *)
(* GitHub, for any number of jobs and attempts: every path that gives a     *)
(* runner's record up deletes the runner first.  This needs a process that  *)
(* lives, deletions that succeed, and answers of GenerateJITConfig that     *)
(* arrive.                                                                  *)
THEOREM NoRunnerLeft ==
  ASSUME MaxCrashes = 0, "delete" \notin Faults, "jitlost" \notin Faults
  PROVE  Spec => []CompletionRemovesRunner
<1>1. Init => Inv /\ NamedInv
  <2>1. Init => NamedInv
    BY DEF Init, NamedInv
  <2> QED BY <2>1, InitTypeInv, InitRunnerInv DEF Inv
<1>2. Inv /\ NamedInv /\ [Next]_vars => (Inv /\ NamedInv)'
  BY RunnerStep, NamedStep
<1>3. Inv /\ NamedInv => CompletionRemovesRunner
  <2> SUFFICES ASSUME Inv, NamedInv, NEW x \in reg, jobs[x.job].status = "completed"
               PROVE  FALSE
    BY DEF CompletionRemovesRunner
  <2>0. TypeInv
    BY DEF Inv
  <2>1. x.job \in Jobs /\ x.id \in Runners
    BY <2>0, TypeParts DEF RunnerName
  <2>2. jobs[x.job].runner = NoRunner
    BY <2>0, <2>1, RecordParts DEF Shape, Active
  <2>3. pc # "record" \/ x.job # cur
    BY <2>0, LocalParts DEF Control
  <2> QED BY <2>1, <2>2, <2>3 DEF NamedInv, Named
<1> QED BY <1>1, <1>2, <1>3, PTL DEF Spec

(***************************************************************************)
(* Admission                                                               *)
(***************************************************************************)
Open == {"pending"} \cup Active

Marked(store) == \A j \in Jobs : store[j].status \in Open => Marker \in Labels[j]

(* Between the check of the run and the registration nothing changes hands. *)
Checked == pc \in Provisioning => cur \in Admitted /\ CanServe(target, cur)

AdmissionInv == Marked(jobs) /\ Marked(disk) /\ Checked /\ OnlyAdmittedJobsRun

(* What the checks of tryProvision and place come to.                       *)
LEMMA AdmittedMeans ==
  ASSUME NEW j \in Admitted, NEW n, CanServe(n, j)
  PROVE  ~FromOutside(WorkflowRun[j]) /\ platform(Labels[j]) = <<Platform[n].os, Platform[n].arch>>
<1>1. ~FromOutside(WorkflowRun[j])
  <2>1. WorkflowRun[j] \in WorkflowRuns /\ trustedWorkflowRun(WorkflowRun[j])
    BY DEF Admitted
  <2> QED BY <2>1 DEF WorkflowRuns, trustedWorkflowRun, FromOutside
<1>2. platform(Labels[j]) \in
        {<<"linux", "amd64">>, <<"linux", "arm64">>, <<"windows", "amd64">>, <<"macos", "arm64">>}
  <2>1. platform(Labels[j]) # << >>
    BY DEF Admitted, supported
  <2> QED BY <2>1 DEF platform
<1>3. /\ platform(Labels[j])[1] = Platform[n].os
      /\ platform(Labels[j])[2] = Platform[n].arch
  BY DEF CanServe, Suits, requirementsFromLabels
<1> QED BY <1>1, <1>2, <1>3, SMT

(* No step registers a runner, or opens a record, that was not checked.     *)
LEMMA AdmissionStep == TypeInv /\ AdmissionInv /\ [Next]_vars => AdmissionInv'
<1> SUFFICES ASSUME TypeInv, AdmissionInv, [Next]_vars PROVE AdmissionInv'
  OBVIOUS
<1>0. jobs \in [Jobs -> JobRecord] /\ disk \in [Jobs -> JobRecord]
  BY DEF TypeInv, TypeOK
<1>1. Marked(jobs') /\ Marked(disk')
  <2>1. CASE UNCHANGED storeVars
    BY <2>1 DEF storeVars, AdmissionInv
  <2>2. CASE jobs' = disk /\ disk' = disk
    BY <2>2 DEF AdmissionInv
  <2>3. CASE jobs' = Aged(jobs) /\ disk' = Aged(disk)
    BY <1>0, <2>3, AgedRecord DEF AdmissionInv, Marked
  <2>4. CASE Written
    <3>1. ASSUME NEW j \in Jobs, jobs'[j].status \in Open PROVE Marker \in Labels[j]
      <4>1. Rewrite(j, jobs'[j]) /\ (jobs[j].status \in Open => Marker \in Labels[j])
        BY <2>4 DEF Written, AdmissionInv, Marked
      <4>2. CASE Opened(j, jobs'[j])
        BY <4>2 DEF Opened, hasLabel
      <4>3. CASE ~Opened(j, jobs'[j])
        BY <3>1, <4>1, <4>3, SMT DEF Rewrite, Kept, Released, Closed, Forgotten, Claimed, Open, Active,
           Tombstone, Absent, Blank
      <4> QED BY <4>2, <4>3
    <3> QED BY <2>4, <3>1 DEF Written, Marked, AdmissionInv
  <2> QED BY <2>1, <2>2, <2>3, <2>4, StoreSteps DEF StoreStep
<1>2. Checked'
  <2> SUFFICES ASSUME pc' \in Provisioning PROVE cur' \in Admitted /\ CanServe(target', cur')
    BY DEF Checked, CanServe
  <2> QED BY ProvisioningSteps DEF AdmissionInv, Checked, Provisioning, place, mgrVars
<1>3. OnlyAdmittedJobsRun'
  <2> SUFFICES ASSUME NEW x \in reg'
               PROVE  /\ Marker \in Labels[x.job] /\ ~FromOutside(WorkflowRun[x.job])
                      /\ platform(Labels[x.job]) = <<Platform[x.node].os, Platform[x.node].arch>>
    BY DEF OnlyAdmittedJobsRun
  <2>1. CASE x \in reg
    BY <2>1 DEF AdmissionInv, OnlyAdmittedJobsRun
  <2>2. CASE x \notin reg
    <3>1. pc = "jit" /\ x.job = cur /\ x.node = target
      BY <2>2, NewRunners
    <3>2. cur \in Admitted /\ CanServe(target, cur)
      BY <3>1 DEF AdmissionInv, Checked, Provisioning
    <3>3. Marker \in Labels[cur]
      BY <3>1 DEF AdmissionInv, Marked, Open, TypeInv, Control
    <3> QED BY <3>1, <3>2, <3>3, AdmittedMeans
  <2> QED BY <2>1, <2>2
<1> QED BY <1>1, <1>2, <1>3 DEF AdmissionInv, Marked

(* Every runner ever registered is for a job that carries the marker label  *)
(* and comes from a trusted run, on a node of the platform its labels name. *)
(* The label is checked when the record is made and lives on in the file;   *)
(* the run is checked again before every attempt.                           *)
THEOREM RunnersAdmitted == Spec => []OnlyAdmittedJobsRun
<1>1. Init => TypeInv /\ AdmissionInv
  <2> SUFFICES ASSUME Init PROVE AdmissionInv
    BY InitTypeInv
  <2> QED BY DEF Init, AdmissionInv, Marked, Checked, Provisioning, OnlyAdmittedJobsRun, Open,
             Active, Absent, Blank
<1>2. TypeInv /\ AdmissionInv /\ [Next]_vars => (TypeInv /\ AdmissionInv)'
  BY TypeStep, AdmissionStep
<1>3. AdmissionInv => OnlyAdmittedJobsRun
  BY DEF AdmissionInv
<1> QED BY <1>1, <1>2, <1>3, PTL DEF Spec

(***************************************************************************)
(* Runner names                                                            *)
(***************************************************************************)
(* A job is announced once: its queued webhook is on its way or in the      *)
(* queue, never both nor twice, and until the manager takes it there is     *)
(* neither an open record nor a runner of the job.                          *)
InQueue(j) == \E i \in 1 .. Len(queue) : queue[i] = Queued(j)
Once(j) ==
  /\ Queued(j) \in hooks => ~InQueue(j)
  /\ \A i, k \in 1 .. Len(queue) : queue[i] = Queued(j) /\ queue[k] = Queued(j) => i = k
Untouched(j) == jobs[j].status \in {"absent", "completed"} /\ \A x \in reg : x.job # j
Genuine(e) == e.kind = "queued" => e = Queued(e.job)
AnnouncedOnce ==
  /\ \A e \in hooks : Genuine(e)
  /\ \A i \in 1 .. Len(queue) : Genuine(queue[i])
  /\ \A j \in Jobs : Once(j) /\ (Queued(j) \in hooks \/ InQueue(j) => Untouched(j))

(* Every queued event in flight or in the queue came from its job.          *)
LEMMA GenuineStep ==
  ASSUME TypeInv, QueueStep, \A e \in hooks : Genuine(e),
         \A i \in 1 .. Len(queue) : Genuine(queue[i])
  PROVE  /\ \A e \in hooks' : Genuine(e)
         /\ \A i \in 1 .. Len(queue') : Genuine(queue'[i])
<1>1. \A e \in hooks' : e \in hooks \/ e.kind = "completed"
  BY DEF QueueStep
<1>2. \A e \in hooks' : Genuine(e)
  BY <1>1 DEF Genuine
<1>3. \A i \in 1 .. Len(queue') : Genuine(queue'[i])
  BY QueueElements
<1> QED BY <1>2, <1>3

(* The queued event of a job moves from GitHub to the queue and out, once.  *)
LEMMA OnceStep ==
  ASSUME TypeInv, QueueStep, "dup" \notin Faults, NEW j \in Jobs, Once(j)
  PROVE  /\ Once(j)'
         /\ Queued(j) \in hooks' \/ InQueue(j)' => Queued(j) \in hooks \/ InQueue(j)
         /\ queue # << >> /\ queue' = Tail(queue) /\ Head(queue) = Queued(j)
              => Queued(j) \notin hooks' /\ ~InQueue(j)'
<1>0. /\ queue \in Seq(Event) /\ hooks \subseteq Event
      /\ Queued(j).kind # "completed"
  BY TypeParts DEF Channel, Queued
<1>1. CASE queue' = queue /\ \A e \in hooks' : e \in hooks \/ e.kind = "completed"
  <2>1. Queued(j) \in hooks' => Queued(j) \in hooks
    BY <1>0, <1>1
  <2>2. ~(queue # << >> /\ queue' = Tail(queue))
    <3>1. queue # << >> => Len(Tail(queue)) # Len(queue)
      BY <1>0, TailElements, SMT
    <3> QED BY <1>1, <3>1
  <2> QED BY <1>1, <2>1, <2>2 DEF Once, InQueue
<1>2. CASE queue # << >> /\ queue' = Tail(queue) /\ hooks' = hooks
  <2>1. /\ \A i \in 1 .. Len(queue') : i + 1 \in 1 .. Len(queue) /\ queue'[i] = queue[i + 1]
        /\ 1 \in 1 .. Len(queue) /\ Head(queue) = queue[1] /\ Len(queue) \in Nat
    BY <1>0, <1>2, TailElements
  <2>2. InQueue(j)' => InQueue(j)
    BY <2>1 DEF InQueue
  <2>3. ASSUME NEW i \in 1 .. Len(queue'), NEW k \in 1 .. Len(queue'),
               queue'[i] = Queued(j), queue'[k] = Queued(j)
        PROVE  i = k
    <3>1. /\ i + 1 \in 1 .. Len(queue) /\ queue[i + 1] = Queued(j)
          /\ k + 1 \in 1 .. Len(queue) /\ queue[k + 1] = Queued(j)
      BY <2>1, <2>3
    <3>2. i + 1 = k + 1
      BY <3>1 DEF Once
    <3> QED BY <3>2, SMT
  <2>4. ASSUME Head(queue) = Queued(j) PROVE Queued(j) \notin hooks' /\ ~InQueue(j)'
    <3>1. InQueue(j) /\ Queued(j) \notin hooks
      BY <2>1, <2>4 DEF Once, InQueue
    <3>2. ASSUME NEW i \in 1 .. Len(queue'), queue'[i] = Queued(j) PROVE FALSE
      <4>1. i + 1 = 1
        BY <2>1, <2>4, <3>2, SMT DEF Once
      <4> QED BY <4>1, SMT
    <3> QED BY <1>2, <3>1, <3>2 DEF InQueue
  <2> QED BY <1>2, <2>2, <2>3, <2>4 DEF Once
<1>3. ASSUME NEW e \in hooks, queue' = Append(queue, e), hooks' = hooks \ {e}
      PROVE  /\ Once(j)'
             /\ Queued(j) \in hooks' \/ InQueue(j)' => Queued(j) \in hooks \/ InQueue(j)
             /\ ~(queue # << >> /\ queue' = Tail(queue))
  <2>1. /\ Len(queue') = Len(queue) + 1 /\ Len(queue) \in Nat
        /\ \A i \in 1 .. Len(queue) : queue'[i] = queue[i]
        /\ \A i \in 1 .. Len(queue') : i \in 1 .. Len(queue) \/ i = Len(queue) + 1
        /\ queue'[Len(queue) + 1] = e
    BY <1>0, <1>3, AppendElements, SMT
  <2>2. InQueue(j)' => InQueue(j) \/ e = Queued(j)
    BY <2>1 DEF InQueue
  <2>3. Queued(j) \in hooks' => ~InQueue(j)'
    BY <1>3, <2>2 DEF Once
  <2>4. ASSUME NEW i \in 1 .. Len(queue'), NEW k \in 1 .. Len(queue'),
               queue'[i] = Queued(j), queue'[k] = Queued(j)
        PROVE  i = k
    <3>1. CASE e = Queued(j)
      <4>1. \A m \in 1 .. Len(queue) : queue[m] # Queued(j)
        BY <1>3, <3>1 DEF Once, InQueue
      <4> QED BY <2>1, <2>4, <4>1
    <3>2. CASE e # Queued(j)
      BY <2>1, <2>4, <3>2 DEF Once
    <3> QED BY <3>1, <3>2
  <2>5. ~(queue # << >> /\ queue' = Tail(queue))
    BY <1>0, <2>1, TailElements, SMT
  <2>6. Once(j)'
    BY <2>3, <2>4 DEF Once
  <2> QED BY <1>3, <2>2, <2>5, <2>6
<1>4. CASE queue' = << >> /\ hooks' = hooks
  <2>1. Len(queue') = 0
    BY <1>4
  <2>2. ~InQueue(j)' /\ Once(j)'
    BY <2>1, SMT DEF InQueue, Once
  <2>3. Head(queue) = Queued(j) /\ queue # << >> => InQueue(j)
    BY <1>0, TailElements DEF InQueue
  <2> QED BY <1>4, <2>2, <2>3 DEF Once
<1> QED BY <1>1, <1>2, <1>3, <1>4 DEF QueueStep

(* A record is opened with the job's announcement at the head of the queue. *)
LEMMA OpenedUntouched ==
  ASSUME TypeInv, AnnouncedOnce, NEW j \in Jobs, NEW rec, Opened(j, rec)
  PROVE  /\ queue # << >> /\ queue' = Tail(queue) /\ Head(queue) = Queued(j)
         /\ Untouched(j)
<1>1. /\ queue # << >> /\ queue' = Tail(queue) /\ Head(queue).kind = "queued"
      /\ Head(queue).job = j
  BY DEF Opened, Receive
<1>2. 1 \in 1 .. Len(queue) /\ Head(queue) = queue[1]
  BY <1>1, TypeParts, TailElements DEF Channel
<1>3. Head(queue) = Queued(j)
  BY <1>1, <1>2 DEF AnnouncedOnce, Genuine
<1>4. InQueue(j)
  BY <1>2, <1>3 DEF InQueue
<1> QED BY <1>1, <1>3, <1>4 DEF AnnouncedOnce

(* The manager takes a job's announcement, opens its record and registers   *)
(* its runners only once the announcement is no longer under way.           *)
LEMMA AnnouncedStep ==
  ASSUME MaxCrashes = 0, "dup" \notin Faults, TypeInv, AnnouncedOnce, [Next]_vars
  PROVE  AnnouncedOnce'
<1>0. QueueStep
  BY QueueSteps
<1>1. /\ \A e \in hooks' : Genuine(e)
      /\ \A i \in 1 .. Len(queue') : Genuine(queue'[i])
  BY <1>0, GenuineStep DEF AnnouncedOnce
<1>2. ASSUME NEW j \in Jobs PROVE Once(j)'
  BY <1>0, OnceStep DEF AnnouncedOnce
<1>3. ASSUME NEW j \in Jobs, Queued(j) \in hooks' \/ InQueue(j)' PROVE Untouched(j)'
  <2>1. Untouched(j)
    BY <1>0, <1>3, OnceStep DEF AnnouncedOnce
  <2>2. ASSUME NEW x \in reg' PROVE x.job # j
    <3>1. CASE x \in reg
      BY <2>1, <3>1 DEF Untouched
    <3>2. CASE x \notin reg
      <4>1. pc = "jit" /\ x.job = cur
        BY <3>2, NewRunners
      <4>2. jobs[cur].status = "pending"
        BY <4>1, LocalParts DEF Control
      <4> QED BY <2>1, <4>1, <4>2 DEF Untouched
    <3> QED BY <3>1, <3>2
  <2>3. ~Opened(j, jobs'[j])
    <3> SUFFICES ASSUME Opened(j, jobs'[j]) PROVE FALSE
      OBVIOUS
    <3>1. queue # << >> /\ queue' = Tail(queue) /\ Head(queue) = Queued(j)
      BY OpenedUntouched
    <3>2. Queued(j) \notin hooks' /\ ~InQueue(j)'
      BY <1>0, <3>1, OnceStep DEF AnnouncedOnce
    <3> QED BY <1>3, <3>2
  <2>4. jobs'[j].status \in {"absent", "completed"}
    <3>1. CASE Written
      <4>1. Rewrite(j, jobs'[j]) /\ jobs[j].status \in {"absent", "completed"}
        BY <2>1, <3>1 DEF Written, Untouched
      <4>2. CASE Kept(j, jobs'[j])
        BY <4>1, <4>2 DEF Kept, Active
      <4>3. CASE Closed(j, jobs'[j]) \/ Forgotten(j, jobs'[j])
        BY <4>1, <4>3, SMT DEF Closed, Forgotten, Tombstone, Absent, Blank
      <4> QED BY <2>3, <4>1, <4>2, <4>3 DEF Rewrite, Released, Claimed
    <3> QED BY <2>1, <3>1, UnwrittenSame DEF SameRecord, Untouched
  <2> QED BY <2>2, <2>4 DEF Untouched
<1> QED BY <1>1, <1>2, <1>3 DEF AnnouncedOnce, Genuine

(* The attempt of a record is ahead of every runner of the job.             *)
Ahead ==
  \A x \in reg : jobs[x.job].status \in Open =>
    \/ x.attempt <= jobs[x.job].attempt
    \/ pc = "record" /\ x.job = cur /\ x.attempt = jobs[cur].attempt + 1

(* Every new runner raises the attempt, and no record is opened twice.      *)
LEMMA AheadStep ==
  ASSUME MaxCrashes = 0, "jitlost" \notin Faults, TypeInv, AnnouncedOnce, Ahead, [Next]_vars
  PROVE  Ahead'
<1> SUFFICES ASSUME NEW x \in reg', jobs'[x.job].status \in Open
             PROVE  \/ x.attempt <= jobs'[x.job].attempt
                    \/ pc' = "record" /\ x.job = cur' /\ x.attempt = jobs'[cur'].attempt + 1
  BY DEF Ahead
<1>1. CASE x \notin reg
  <2>1. GenerateJITConfig /\ x.job = cur /\ x.attempt = jobs[cur].attempt + 1
    BY <1>1, NewRunners
  <2>2. pc' = "record" /\ cur' = cur /\ jobs' = jobs
    BY <1>1, <2>1 DEF GenerateJITConfig, Fault, storeVars
  <2> QED BY <2>1, <2>2
<1>2. CASE x \in reg
  <2>0. x.attempt \in Nat /\ x.job \in Jobs /\ jobs[x.job].attempt \in Nat
    BY <1>2, TypeParts, AttemptType DEF RunnerName
  <2>1. CASE Run /\ pc = "record" /\ x.job = cur
    <3>1. jobs'[x.job].attempt = jobs[x.job].attempt + 1
      BY <2>1, RecordClaims
    <3>2. jobs[x.job].status \in Open
      BY <2>1, LocalParts DEF Control, Open
    <3> QED BY <1>2, <2>0, <2>1, <3>1, <3>2, SMT DEF Ahead
  <2>2. CASE ~Run
    <3>1. /\ jobs'[x.job].status = jobs[x.job].status /\ jobs'[x.job].attempt = jobs[x.job].attempt
          /\ UNCHANGED mgrVars
      BY <2>0, <2>2, OutsideSame DEF SameRecord
    <3> QED BY <1>2, <3>1 DEF Ahead, mgrVars
  <2>3. CASE Run /\ ~(pc = "record" /\ x.job = cur)
    <3>1. jobs[x.job].status \in Open /\ jobs'[x.job].attempt = jobs[x.job].attempt
      <4>1. CASE Written
        <5>1. Rewrite(x.job, jobs'[x.job])
          BY <2>0, <4>1 DEF Written
        <5>2. ~Opened(x.job, jobs'[x.job])
          BY <1>2, <2>0, OpenedUntouched DEF Untouched
        <5>3. CASE Kept(x.job, jobs'[x.job])
          BY <5>3 DEF Kept, Open
        <5>4. CASE Released(x.job, jobs'[x.job])
          BY <5>4, SMT DEF Released, Open, Active, Pending, Blank
        <5>5. ~(Closed(x.job, jobs'[x.job]) \/ Forgotten(x.job, jobs'[x.job]))
          BY SMT DEF Closed, Forgotten, Open, Active, Tombstone, Absent, Blank
        <5> QED BY <2>3, <5>1, <5>2, <5>3, <5>4, <5>5 DEF Rewrite, Claimed
      <4> QED BY <2>3, <4>1, RunStore DEF RunWrite, storeVars
    <3> QED BY <1>2, <2>3, <3>1 DEF Ahead
  <2> QED BY <2>1, <2>2, <2>3
<1> QED BY <1>1, <1>2

(* tryProvision never asks GitHub for a name it knows, for any number of    *)
(* jobs, attempts and deletions that fail: the record in memory counts the  *)
(* attempts, saved or not.  This needs a process that lives, answers of     *)
(* GitHub that arrive, and announcements that are not repeated: after the   *)
(* tombstone is forgotten a repeated one would count from zero again.       *)
THEOREM NewNames ==
  ASSUME MaxCrashes = 0, "dup" \notin Faults, "jitlost" \notin Faults
  PROVE  Spec => []NamesAreNew
<1> DEFINE I == TypeInv /\ AnnouncedOnce /\ Ahead
<1>1. Init => I
  <2> SUFFICES ASSUME Init PROVE AnnouncedOnce /\ Ahead
    BY InitTypeInv
  <2>1. \A j \in Jobs : Queued(j).job = j /\ Queued(j).kind = "queued"
    BY DEF Queued
  <2>2. \A e \in hooks : Genuine(e)
    BY <2>1 DEF Init, Genuine
  <2>3. Len(queue) = 0
    BY DEF Init
  <2>4. \A j \in Jobs : Once(j) /\ Untouched(j)
    BY <2>3, SMT DEF Init, Once, InQueue, Untouched, Absent, Blank
  <2> QED BY <2>2, <2>3, <2>4, SMT DEF Init, AnnouncedOnce, Ahead
<1>2. I /\ [Next]_vars => I'
  BY TypeStep, AnnouncedStep, AheadStep
<1>3. I => NamesAreNew
  <2> SUFFICES ASSUME I, pc = "jit", NEW x \in reg, x.job = cur, x.attempt = jobs[cur].attempt + 1
               PROVE  FALSE
    BY DEF NamesAreNew, NameTaken
  <2>1. cur \in Jobs /\ jobs[cur].status \in Open /\ jobs[cur].attempt \in Nat
    BY LocalParts, AttemptType DEF Control, Open
  <2> QED BY <2>1, SMT DEF Ahead
<1> HIDE DEF I
<1> QED BY <1>1, <1>2, <1>3, PTL DEF Spec

=============================================================================
