-------------------------- MODULE ContainerProofs --------------------------
(* What the controller does to containers while its process lives: it       *)
(* closes a record only when the container is gone, runs none without a     *)
(* record, and removes none that still has work and time.                   *)
EXTENDS RunnerManagerProofs

USE ConstantsAssumption, Zenon

(***************************************************************************)
(* What each step does to the containers                                   *)
(***************************************************************************)
(* The steps that touch containers: a destroy, or the create of tryProvision *)
Destroying ==
  \/ undoDestroy \/ destroyStray \/ destroyCompleted \/ cleanupRecord \/ recoverDestroy

(* A step of the goroutine destroys, creates, or leaves the agents alone.   *)
LEMMA RunAgents == Run => Destroying \/ CreateInstance \/ UNCHANGED agentVars
<1>1. Process \/ reconcile => UNCHANGED agentVars
  BY DEF Process, handleQueued, handleCompleted, reconcile
<1>2. tryProvision => undoDestroy \/ CreateInstance \/ UNCHANGED agentVars
  BY DEF tryProvision, checkAndPlace, GenerateJITConfig, recordProvisioning, dropRunner,
     recordRunning, undoDelete, undoSave
<1>3. completing \/ recoverProvisioning => Destroying \/ UNCHANGED agentVars
  BY DEF completing, recoverProvisioning, deferCleanup, deleteRunner, finish, recoverDelete,
     recoverSave, Destroying
<1>4. (\E j \in Jobs : visit(j)) => UNCHANGED agentVars
  BY DEF visit
<1> QED BY <1>1, <1>2, <1>3, <1>4 DEF Run, Handler, Destroying

(* The node and the job whose container a destroy removes, if it removes    *)
(* one.                                                                     *)
DestroyNode == IF pc = "stray" THEN target ELSE jobs[cur].node

(* A destroy removes that container or none.                                *)
LEMMA DestroyingConts ==
  ASSUME TypeInv, Destroying, NEW n \in Nodes, NEW j \in Jobs
  PROVE  /\ late' = late /\ pc \in {"undoDestroy", "stray", "complete", "cleanup", "recover"}
         /\ \/ cont'[n][j] = cont[n][j]
            \/ cont'[n][j] = NoCont /\ n = DestroyNode /\ j = cur
<1>1. PICK inst \in BOOLEAN : DestroyInstance(DestroyNode, cur, inst)
  <2>1. CASE undoDestroy \/ recoverDestroy
    BY <2>1 DEF undoDestroy, recoverDestroy, DestroyNode
  <2>2. CASE destroyStray
    BY <2>2 DEF destroyStray, DestroyNode
  <2>3. CASE destroyCompleted \/ cleanupRecord
    <3>1. cur \in Jobs /\ jobs[cur].inst \in BOOLEAN
      BY <2>3, LocalParts, RecordParts DEF destroyCompleted, cleanupRecord, Control, JobRecord
    <3> QED BY <2>3, <3>1 DEF destroyCompleted, cleanupRecord, DestroyNode, DestroyInstance
  <2> QED BY <2>1, <2>2, <2>3 DEF Destroying
<1>2. cont' \in {cont, [cont EXCEPT ![DestroyNode][cur] = NoCont]}
  BY <1>1 DEF DestroyInstance, destroyed, destroyFails, Removed
<1>3. cont'[n][j] = cont[n][j] \/ (cont'[n][j] = NoCont /\ n = DestroyNode /\ j = cur)
  BY <1>2, TypeParts, SMT
<1>4. late' = late /\ pc \in {"undoDestroy", "stray", "complete", "cleanup", "recover"}
  BY DEF Destroying, undoDestroy, destroyStray, destroyCompleted, cleanupRecord, recoverDestroy
<1> QED BY <1>3, <1>4

(* A create makes the container the record names, or none.                  *)
MadeBy(n, j) ==
  /\ pc = "create" /\ j = cur /\ n = jobs[cur].node /\ cont[n][j] = NoCont
  /\ cont'[n][j] = [runner |-> jobs[cur].runner, left |-> Timeout, up |-> TRUE]
  /\ \/ pc' = "started" /\ jobs'[cur].left = Timeout + Grace
     \/ pc' = "undoDestroy" /\ jobs' = jobs /\ "create" \in Faults

(* CreateInstance makes the container of its record or none.                *)
LEMMA CreateConts ==
  ASSUME TypeInv, CreateInstance, NEW n \in Nodes, NEW j \in Jobs
  PROVE  /\ pc = "create" /\ cur' = cur /\ pc' \in {"started", "undoDestroy"}
         /\ cont'[n][j] = cont[n][j] \/ MadeBy(n, j)
<1>1. /\ pc = "create" /\ cur' = cur /\ pc' \in {"started", "undoDestroy"}
      /\ cur \in Jobs
  BY LocalParts DEF CreateInstance, Goto, Control
<1>2. CASE cont' = cont
  BY <1>1, <1>2
<1>3. CASE cont' # cont
  <2> DEFINE m == jobs[cur].node
  <2>1. /\ cont[m][cur] = NoCont /\ cont' = Created(m, cur, jobs[cur].runner)
        /\ \/ pc' = "started" /\ jobs' = [jobs EXCEPT ![cur].left = Timeout + Grace]
           \/ pc' = "undoDestroy" /\ jobs' = jobs /\ "create" \in Faults
    BY <1>3 DEF CreateInstance, Goto, Fault, agentVars
  <2>2. jobs' = [jobs EXCEPT ![cur].left = Timeout + Grace] => jobs'[cur].left = Timeout + Grace
    BY <1>1, RecordParts, SMT DEF JobRecord
  <2> HIDE DEF m
  <2>3. CASE n = m /\ j = cur
    <3>1. cont'[n][j] = [runner |-> jobs[cur].runner, left |-> Timeout, up |-> TRUE]
      BY <2>1, <2>3, TypeParts DEF Created
    <3> QED BY <1>1, <2>1, <2>2, <2>3, <3>1 DEF MadeBy, m
  <2>4. CASE ~(n = m /\ j = cur)
    BY <1>1, <2>1, <2>4, TypeParts DEF Created
  <2> QED BY <2>3, <2>4
<1> QED BY <1>2, <1>3

(* So a step of the goroutine removes one container, makes one or keeps     *)
(* all.                                                                     *)
LEMMA RunConts ==
  ASSUME TypeInv, Run, NEW n \in Nodes, NEW j \in Jobs
  PROVE  \/ cont'[n][j] = cont[n][j]
         \/ /\ pc \in {"undoDestroy", "stray", "complete", "cleanup", "recover"}
            /\ cont'[n][j] = NoCont /\ n = DestroyNode /\ j = cur
         \/ MadeBy(n, j) /\ cur' = cur
<1>1. CASE UNCHANGED agentVars
  BY <1>1 DEF agentVars
<1>2. CASE Destroying
  BY <1>2, DestroyingConts
<1>3. CASE CreateInstance
  BY <1>3, CreateConts
<1> QED BY <1>1, <1>2, <1>3, RunAgents

(* What the rest of the world does to a container: the janitor removes one  *)
(* past its deadline, one stops or grows older, or a request the controller *)
(* no longer waits for makes one.                                           *)
Older(c, d) ==
  /\ d.runner = c.runner /\ (d.up => c.up)
  /\ d = c \/ (d.left = c.left /\ ~d.up) \/ (d.left = Less(c.left) /\ d.up = c.up)
MadeLate(n, j) ==
  \E q \in late : /\ q.node = n /\ q.job = j
                  /\ cont'[n][j] = [runner |-> q.runner, left |-> Timeout, up |-> TRUE]

(* Outside the goroutine a container ages or exits, the janitor removes it  *)
(* past its deadline, or a late request makes one.                          *)
LEMMA OutsideConts ==
  ASSUME TypeInv, [Next]_vars, ~Run, NEW n \in Nodes, NEW j \in Jobs
  PROVE  \/ Older(cont[n][j], cont'[n][j])
         \/ cont'[n][j] = NoCont /\ cont[n][j].left = 0
         \/ MadeLate(n, j)
<1>0. cont \in [Nodes -> [Jobs -> Container]] /\ cont[n][j] \in Container /\ late \subseteq Request
  BY TypeParts, SMT
<1>1. CASE cont' = cont
  BY <1>1 DEF Older
<1>2. CASE GitHub /\ cont' # cont
  <2>1. PICK m \in Nodes, k \in Jobs : cont' = [cont EXCEPT ![m][k].up = FALSE]
    BY <1>2 DEF GitHub, jobCancelled, jobLost, assign, jobEnds, agentVars
  <2>2. cont'[n][j] = cont[n][j] \/ cont'[n][j] = [cont[n][j] EXCEPT !.up = FALSE]
    BY <1>0, <2>1
  <2> QED BY <1>0, <2>2 DEF Older, Container
<1>3. ASSUME NEW m \in Nodes, NEW k \in Jobs, containerExits(m, k) PROVE Older(cont[n][j], cont'[n][j])
  <2>1. cont'[n][j] = cont[n][j] \/ cont'[n][j] = [cont[n][j] EXCEPT !.up = FALSE]
    BY <1>0, <1>3 DEF containerExits
  <2> QED BY <1>0, <2>1 DEF Older, Container
<1>4. ASSUME NEW m \in Nodes, NEW k \in Jobs, janitor(m, k), cont'[n][j] # cont[n][j]
      PROVE  cont'[n][j] = NoCont /\ cont[n][j].left = 0
  BY <1>0, <1>4 DEF janitor
<1>5. ASSUME NEW q \in late, lateCreate(q), cont'[n][j] # cont[n][j] PROVE MadeLate(n, j)
  <2>1. cont' = Created(q.node, q.job, q.runner)
    BY <1>5 DEF lateCreate
  <2>2. q.node = n /\ q.job = j
    BY <1>0, <1>5, <2>1 DEF Created
  <2>3. cont'[n][j] = [runner |-> q.runner, left |-> Timeout, up |-> TRUE]
    BY <1>0, <2>1, <2>2 DEF Created
  <2> QED BY <2>2, <2>3 DEF MadeLate
<1>6. CASE Tick
  <2>1. cont'[n][j] = [cont[n][j] EXCEPT !.left = Less(@)]
    BY <1>6 DEF Tick, Aged
  <2> QED BY <1>0, <2>1 DEF Older, Container
<1>7. CASE Crash \/ Deliveries \/ (\E m \in Nodes : heartbeat(m) \/ heartbeatsStop(m)) \/ UNCHANGED vars
  <2>1. cont' = cont
    BY <1>7 DEF Crash, Deliveries, webhook, ignoreWebhook, loseWebhook, heartbeat,
       heartbeatsStop, agentVars, vars
  <2> QED BY <1>1, <2>1
<1>8. CASE Agents
  <2>1. CASE \E m \in Nodes, k \in Jobs : janitor(m, k) \/ containerExits(m, k)
    BY <1>1, <1>3, <1>4, <2>1 DEF Older
  <2>2. CASE \E q \in late : lateCreate(q)
    BY <1>5, <2>2 DEF Older
  <2> QED BY <1>7, <1>8, <2>1, <2>2 DEF Agents
<1> QED BY <1>1, <1>2, <1>6, <1>7, <1>8 DEF Next

(* A request is left behind by a create that was given up, and by nothing   *)
(* else while the process lives.                                            *)
LEMMA LateSteps ==
  ASSUME TypeInv, [Next]_vars, ~Crash
  PROVE  \/ late' \subseteq late
         \/ /\ pc = "create" /\ pc' = "undoDestroy" /\ cur' = cur /\ "late" \in Faults
            /\ \A q \in late' \ late : q.job = cur
<1>1. CASE Run
  <2>1. CASE Destroying
    BY <2>1 DEF Destroying, undoDestroy, destroyStray, destroyCompleted, cleanupRecord,
       recoverDestroy
  <2>2. CASE CreateInstance
    BY <2>2, SMT DEF CreateInstance, Goto, Fault, agentVars
  <2> QED BY <1>1, <2>1, <2>2, RunAgents DEF agentVars
<1>2. CASE GitHub \/ Tick
  BY <1>2, SMT DEF GitHub, jobCancelled, jobLost, assign, jobEnds, Over, Tick, agentVars
<1>3. CASE Agents
  BY <1>3 DEF Agents, heartbeat, heartbeatsStop, janitor, containerExits, lateCreate, agentVars
<1>4. CASE Deliveries \/ UNCHANGED vars
  BY <1>4 DEF Deliveries, webhook, ignoreWebhook, loseWebhook, agentVars, vars
<1> QED BY <1>1, <1>2, <1>3, <1>4 DEF Next

(***************************************************************************)
(* A record is closed after its container                                  *)
(***************************************************************************)
(* While the process lives the registry forgets no node, so the node of an  *)
(* active record has an entry and no destroy is skipped.                    *)
KnownNodes ==
  /\ \A j \in Jobs : jobs[j].status \in Active => rawNode(jobs[j].node)
  /\ pc \in Provisioning => rawNode(target)

(* A node the registry knows stays known until the process ends.            *)
LEMMA KnownStays ==
  ASSUME TypeInv, [Next]_vars, ~Crash, NEW n, rawNode(n), n \in Nodes
  PROVE  n # NoNode /\ view'[n] # "unknown"
<1>1. CASE Run
  BY <1>1, RunFrame DEF rawNode
<1>2. CASE \E m \in Nodes : heartbeat(m) \/ heartbeatsStop(m)
  BY <1>2, EnvParts DEF heartbeat, heartbeatsStop, rawNode
<1>3. CASE GitHub
  BY <1>3, SMT DEF GitHub, jobCancelled, jobLost, assign, jobEnds, Over, rawNode
<1>5. CASE Tick \/ Deliveries \/ UNCHANGED vars
  BY <1>5 DEF Tick, Deliveries, webhook, ignoreWebhook, loseWebhook, rawNode, vars
<1>4. CASE Agents
  BY <1>2, <1>4 DEF Agents, janitor, containerExits, lateCreate, rawNode
<1> QED BY <1>1, <1>3, <1>4, <1>5 DEF Next

(* Every step that writes a node into a record has it from the registry.    *)
LEMMA KnownStep ==
  ASSUME MaxCrashes = 0, TypeInv, KnownNodes, [Next]_vars
  PROVE  KnownNodes'
<1>1. ASSUME NEW n \in Nodes, rawNode(n) PROVE rawNode(n)'
  BY <1>1, NoCrash, KnownStays DEF rawNode
<1>2. ASSUME NEW j \in Jobs, jobs'[j].status \in Active PROVE rawNode(jobs[j].node)'
  <2>1. jobs'[j].node \in Nodes
    BY <1>2, TypeStep, RecordParts DEF TypeInv, Shape
  <2>2. CASE jobs[j].status \in Active /\ jobs'[j].node = jobs[j].node
    BY <1>1, <2>1, <2>2 DEF KnownNodes, rawNode
  <2>3. CASE Written
    <3>1. (Kept(j, jobs'[j]) /\ jobs[j].status \in Active) \/ Claimed(j, jobs'[j])
      BY <1>2, <2>3, RewrittenToActive DEF Written
    <3>2. CASE Claimed(j, jobs'[j])
      BY <1>1, <2>1, <3>2 DEF Claimed, KnownNodes, Provisioning, rawNode
    <3> QED BY <2>2, <3>1, <3>2 DEF Kept
  <2>4. CASE UNCHANGED storeVars
    BY <1>2, <2>2, <2>4 DEF storeVars
  <2>5. CASE jobs' = Aged(jobs)
    BY <1>2, <2>2, <2>5, RecordParts, AgedRecord
  <2> QED BY <2>3, <2>4, <2>5, LiveStore
<1>3. ASSUME pc' \in Provisioning PROVE rawNode(target)'
  <2>1. CASE target' \in place(cur)
    <3>1. target' \in Nodes /\ rawNode(target')
      BY <2>1 DEF place, rawNode
    <3> QED BY <1>1, <3>1 DEF rawNode
  <2>2. CASE pc \in Provisioning /\ target' = target
    BY <1>1, <2>2, LocalParts DEF KnownNodes, rawNode, Control, Provisioning
  <2> QED BY <1>3, <2>1, <2>2, ProvisioningSteps DEF mgrVars, Provisioning
<1> QED BY <1>2, <1>3 DEF KnownNodes

(* Where a handler stands between the destroy and the tombstone.            *)
Closing == {"delete", "finish"}

(* It gets there with an active record by a destroy that succeeded.         *)
ClosingStep ==
  \/ /\ pc \in {"complete", "cleanup"} /\ cur' = cur
     /\ destroyed(jobs[cur].node, cur, jobs[cur].inst) /\ jobs' = jobs
  \/ pc = "delete" /\ cur' = cur /\ jobs' = jobs /\ cont' = cont
  \/ ~Run /\ UNCHANGED mgrVars

(* There is no other way into the locations that close a record.            *)
LEMMA ClosingSteps ==
  ASSUME MaxCrashes = 0, TypeInv, KnownNodes, [Next]_vars,
         pc' \in Closing, cur' \in Jobs, jobs'[cur'].status \in Active
  PROVE  ClosingStep
<1>1. CASE Process \/ reconcile
  <2>1. jobs' = jobs
    BY <1>1 DEF Process, handleQueued, handleCompleted, reconcile, Receive, Enter, Closing, mgrVars,
       storeVars
  <2>2. rawNode(jobs[cur'].node)
    BY <2>1 DEF KnownNodes
  <2>3. CASE handleQueued \/ reconcile
    BY <2>3 DEF handleQueued, reconcile, Receive, Enter, Closing, mgrVars
  <2>4. CASE handleCompleted
    BY <2>1, <2>2, <2>4, SMT DEF handleCompleted, Receive, Enter, Closing, mgrVars, Active, Absent, Blank
  <2> QED BY <1>1, <2>3, <2>4 DEF Process
<1>2. CASE \E j \in Jobs : visit(j)
  <2>1. jobs' = jobs
    BY <1>2 DEF visit, storeVars
  <2>2. rawNode(jobs[cur'].node)
    BY <2>1 DEF KnownNodes
  <2> QED BY <1>2, <2>1, <2>2 DEF visit, Enter, Closing
<1>3. CASE tryProvision
  BY <1>3
    DEF tryProvision, checkAndPlace, GenerateJITConfig, recordProvisioning, dropRunner,
     CreateInstance, recordRunning, undoDestroy, undoDelete, undoSave, Return, Goto, Closing
<1>4. CASE destroyStray
  <2>1. jobs'[cur'].status = "absent"
    BY <1>4, LocalParts DEF destroyStray, Control, storeVars
  <2> QED BY <2>1 DEF Active
<1>5. CASE destroyCompleted \/ cleanupRecord
  BY <1>5 DEF destroyCompleted, cleanupRecord, Return, Goto, Closing, storeVars,
     ClosingStep
<1>6. CASE deleteRunner
  BY <1>6 DEF deleteRunner, Goto, storeVars, agentVars, ClosingStep
<1>7. CASE deferCleanup \/ finish \/ recoverProvisioning
  BY <1>7
    DEF deferCleanup, finish, recoverProvisioning, recoverDestroy, recoverDelete, recoverSave,
     Return, Goto, Closing
<1>8. CASE ~Run
  BY <1>8, NoCrash, OutsideStore DEF ClosingStep
<1>9. CASE completing
  BY <1>4, <1>5, <1>6, <1>7, <1>9 DEF completing
<1> QED BY <1>1, <1>2, <1>3, <1>7, <1>8, <1>9 DEF Run, Handler

(* Where the error path of CreateInstance stands.                           *)
Undoing == {"undoDestroy", "undoDelete", "undoSave"}

(* There the goroutine does nothing else.                                   *)
LEMMA UndoingRuns ==
  ASSUME Run, pc \in Undoing
  PROVE  undoDestroy \/ undoDelete \/ undoSave
<1>1. ~(Process \/ reconcile \/ \E j \in Jobs : visit(j))
  BY DEF Process, handleQueued, handleCompleted, reconcile, Receive, visit, Undoing
<1>2. ~(completing \/ recoverProvisioning)
  BY DEF completing, recoverProvisioning, destroyStray, destroyCompleted, deferCleanup,
     cleanupRecord, deleteRunner, finish, recoverDestroy, recoverDelete, recoverSave, Undoing
<1>3. tryProvision => undoDestroy \/ undoDelete \/ undoSave
  BY DEF tryProvision, checkAndPlace, GenerateJITConfig, recordProvisioning, dropRunner,
     CreateInstance, recordRunning, Undoing
<1> QED BY <1>1, <1>2, <1>3 DEF Run, Handler

(* It stays there until the record has given up its runner.                 *)
LEMMA UndoSteps ==
  ASSUME MaxCrashes = 0, TypeInv, [Next]_vars, pc \in Undoing
  PROVE  \/ pc' \in Undoing /\ cur' = cur
         \/ jobs'[cur].runner = NoRunner
<1>1. CASE ~Run
  BY <1>1, NoCrash, OutsideStore DEF mgrVars
<1>2. CASE undoDestroy \/ undoDelete
  BY <1>2 DEF undoDestroy, undoDelete, Goto, Undoing
<1>3. CASE undoSave
  <2>1. cur \in Jobs /\ jobs' = [jobs EXCEPT ![cur] = Pending(jobs[cur].attempt)]
    BY <1>3, LocalParts DEF undoSave, Control, saveLocked, saved, saveFails
  <2> QED BY <2>1, RecordParts DEF Pending, Blank
<1> QED BY <1>1, <1>2, <1>3, UndoingRuns

(* A create request that was given up names the runner of a record only     *)
(* until the error path has written the record back, so it cannot bring the *)
(* container of a record back that is being closed.                         *)
GoneInv ==
  /\ \A q \in late : q.runner # NoRunner /\ q.runner = jobs[q.job].runner
                       => pc \in Undoing /\ cur = q.job
  /\ pc = "record" => \A q \in late : q.runner # jit
  /\ pc \in Closing /\ jobs[cur].status \in Active
       => cont[jobs[cur].node][cur].runner # jobs[cur].runner

(* Nothing runs and nothing is closing at the start.                        *)
LEMMA InitGone == Init => KnownNodes /\ GoneInv
  BY SMT DEF Init, KnownNodes, GoneInv, Provisioning, Closing, Active, Absent, Blank

(* No step, a late create included, brings back the container of a record   *)
(* that is being closed.                                                    *)
LEMMA GoneStep ==
  ASSUME MaxCrashes = 0, TypeInv, KnownNodes, GoneInv, [Next]_vars
  PROVE  GoneInv'
<1>0. ~Crash /\ TypeInv'
  BY NoCrash, TypeStep
<1>1. ASSUME NEW q \in late', q.runner # NoRunner, q.runner = jobs'[q.job].runner
      PROVE  pc' \in Undoing /\ cur' = q.job
  <2>0. q.job \in Jobs
    BY <1>0, TypeParts DEF TypeInv, TypeOK, Request
  <2>1. CASE q \notin late
    BY <1>0, <1>1, <2>1, LateSteps DEF Undoing
  <2>2. CASE q \in late /\ jobs'[q.job].runner = jobs[q.job].runner
    BY <1>1, <2>2, UndoSteps DEF GoneInv
  <2>3. CASE q \in late /\ pc = "record" /\ jobs'[q.job].runner = jit
    BY <1>1, <2>3 DEF GoneInv
  <2>4. jobs'[q.job].runner \in {jobs[q.job].runner, NoRunner}
          \/ (pc = "record" /\ jobs'[q.job].runner = jit)
    <3>1. CASE Written
      BY <2>0, <3>1, RewrittenRunner DEF Written
    <3> QED BY <2>0, <3>1, UnwrittenSame DEF SameRecord
  <2> QED BY <1>1, <2>1, <2>2, <2>3, <2>4
<1>2. ASSUME pc' = "record", NEW q \in late' PROVE q.runner # jit'
  <2>1. q \in late
    BY <1>0, <1>2, LateSteps
  <2>2. CASE Fresh(jit')
    BY <2>1, <2>2 DEF Fresh
  <2> QED BY <1>2, <2>1, <2>2, ProvisioningSteps DEF Provisioning, GoneInv, mgrVars
<1>3. ASSUME pc' \in Closing, jobs'[cur'].status \in Active
      PROVE  cont'[jobs'[cur'].node][cur'].runner # jobs'[cur'].runner
  <2>a. cur' \in Jobs /\ jobs'[cur'].node \in Nodes /\ jobs'[cur'].runner \in Runners
    BY <1>0, <1>3 DEF TypeInv, Control, Shape, Closing
  <2>0. PICK j \in Jobs, n \in Nodes : j = cur' /\ n = jobs'[j].node /\ jobs'[j].runner \in Runners
    BY <2>a
  <2>1. CASE /\ pc \in {"complete", "cleanup"} /\ cur' = cur
             /\ destroyed(jobs[cur].node, cur, jobs[cur].inst) /\ jobs' = jobs
    <3>1. cont' = Removed(n, j, jobs[j].inst)
      BY <2>0, <2>1 DEF destroyed
    <3>2. (cont[n][j].runner # jobs'[j].runner /\ cont' = cont) \/ cont'[n][j] = NoCont
      BY <2>0, <2>1, <3>1, TypeParts DEF Removed
    <3> QED BY <2>0, <3>2, SMT DEF NoCont
  <2>2. CASE pc = "delete" /\ cur' = cur /\ jobs' = jobs /\ cont' = cont
    BY <1>3, <2>2 DEF GoneInv, Closing
  <2>3. CASE ~Run /\ UNCHANGED mgrVars
    <3>a. /\ jobs[j].node = jobs'[j].node /\ jobs[j].runner = jobs'[j].runner
          /\ jobs[j].status = jobs'[j].status
      BY <2>3, OutsideSame DEF SameRecord
    <3>1. /\ pc \in Closing /\ cur = j /\ jobs[j].node = n /\ jobs[j].runner = jobs'[j].runner
          /\ jobs[j].status \in Active
      BY <1>3, <2>0, <2>3, <3>a DEF mgrVars
    <3>2. cont[n][j].runner # jobs'[j].runner
      BY <3>1 DEF GoneInv
    <3>3. ASSUME MadeLate(n, j) PROVE cont'[n][j].runner # jobs'[j].runner
      <4>1. PICK q \in late : q.job = j /\ cont'[n][j].runner = q.runner
        BY <3>3, SMT DEF MadeLate
      <4> QED BY <2>0, <3>1, <4>1 DEF GoneInv, Undoing, Closing
    <3>4. ASSUME Older(cont[n][j], cont'[n][j]) \/ cont'[n][j] = NoCont
          PROVE  cont'[n][j].runner # jobs'[j].runner
      BY <2>0, <3>2, <3>4, SMT DEF Older, NoCont
    <3>5. cont'[n][j].runner # jobs'[j].runner
      <4>1. Older(cont[n][j], cont'[n][j]) \/ cont'[n][j] = NoCont \/ MadeLate(n, j)
        BY <2>3, OutsideConts
      <4> QED BY <3>3, <3>4, <4>1
    <3> QED BY <2>0, <3>5
  <2>4. ClosingStep
    BY <1>3, <2>a, ClosingSteps
  <2> QED BY <2>1, <2>2, <2>3, <2>4 DEF ClosingStep
<1> QED BY <1>1, <1>2, <1>3 DEF GoneInv

(* A record becomes completed only when the container it names is gone, for *)
(* any number of jobs and nodes and whatever calls fail, while the process  *)
(* lives: handleCompleted and cleanupRecord keep the record until a destroy *)
(* has succeeded, and nothing can bring the container back in between.  The *)
(* restarted controller has no registry entries and skips the destroy.      *)
THEOREM ContainersFirst ==
  ASSUME MaxCrashes = 0
  PROVE  Spec => CompletionFreesContainer
<1> DEFINE I == TypeInv /\ KnownNodes /\ GoneInv
           Step == \A j \in Jobs : jobs[j].status \in Active /\ jobs'[j].status = "completed"
                     => cont[jobs[j].node][j].runner # jobs[j].runner
<1>1. Init => I
  BY InitTypeInv, InitGone
<1>2. I /\ [Next]_vars => I'
  BY TypeStep, KnownStep, GoneStep
<1>3. I /\ [Next]_vars => [Step]_vars
  <2> SUFFICES ASSUME I, [Next]_vars, NEW j \in Jobs, jobs[j].status \in Active,
                      jobs'[j].status = "completed"
               PROVE  cont[jobs[j].node][j].runner # jobs[j].runner
    OBVIOUS
  <2>1. CASE Written
    <3>1. pc = "finish" /\ j = cur
      BY <2>1, RewrittenActive, SMT DEF Written, Kept, Moved, Active, Released, Pending, Blank
    <3> QED BY <3>1 DEF GoneInv, Closing
  <2> QED BY <2>1, UnwrittenSame DEF SameRecord, Active
<1> HIDE DEF I, Step
<1>4. Spec => []I /\ [][Step]_vars
  BY <1>1, <1>2, <1>3, PTL DEF Spec
<1> QED BY <1>4 DEF CompletionFreesContainer, Step

(***************************************************************************)
(* Every running container has a record                                    *)
(***************************************************************************)
(* A running container has an active record that names it.  Only while it   *)
(* is being started, or a failed create undone, is the record provisioning. *)
Starting(j) ==
  /\ cur = j
  /\ pc = "started" \/ (pc = "undoDestroy" /\ "create" \in Faults /\ "destroy" \notin Faults)

HasRecord(n, j) ==
  /\ jobs[j].status \in Active /\ jobs[j].node = n /\ jobs[j].runner = cont[n][j].runner
  /\ jobs[j].status = "provisioning" => Starting(j)

UpInv == late = {} /\ \A n \in Nodes, j \in Jobs : cont[n][j].up => HasRecord(n, j)

(* The two steps that leave these places.                                   *)
LEMMA StartedRuns ==
  ASSUME TypeInv, Run, pc = "started"
  PROVE  jobs'[cur].status = "running"
<1>1. ~(Process \/ reconcile \/ \E j \in Jobs : visit(j))
  BY DEF Process, handleQueued, handleCompleted, reconcile, Receive, visit
<1>2. ~(completing \/ recoverProvisioning)
  BY DEF completing, recoverProvisioning, destroyStray, destroyCompleted, deferCleanup,
     cleanupRecord, deleteRunner, finish, recoverDestroy, recoverDelete, recoverSave
<1>3. tryProvision => recordRunning
  BY DEF tryProvision, checkAndPlace, GenerateJITConfig, recordProvisioning, dropRunner,
     CreateInstance, undoDestroy, undoDelete, undoSave
<1>4. recordRunning
  BY <1>1, <1>2, <1>3 DEF Run, Handler
<1>5. cur \in Jobs /\ jobs' = [jobs EXCEPT ![cur].status = "running", ![cur].inst = TRUE]
  BY <1>4, LocalParts DEF recordRunning, Control, saveLocked, saved, saveFails
<1> QED BY <1>5, RecordParts, SMT DEF JobRecord

(* A destroy that cannot fail leaves no container behind a failed create.   *)
LEMMA UndoDestroys ==
  ASSUME TypeInv, Run, pc = "undoDestroy", "destroy" \notin Faults
  PROVE  cont'[jobs[cur].node][cur] = NoCont
<1>1. undoDestroy
  BY UndoingRuns DEF Undoing, undoDelete, undoSave
<1>2. cont' = [cont EXCEPT ![jobs[cur].node][cur] = NoCont]
  BY <1>1 DEF undoDestroy, DestroyInstance, destroyed, destroyFails, Removed, Fault
<1>3. cur \in Jobs /\ jobs[cur].node \in Nodes
  BY LocalParts, RecordParts DEF Control, Shape, Active
<1> QED BY <1>2, <1>3, TypeParts

(* A container starts with its record, and the record goes after it.        *)
LEMMA UpStep ==
  ASSUME MaxCrashes = 0, "late" \notin Faults, "create" \notin Faults \/ "destroy" \notin Faults,
         TypeInv, KnownNodes, GoneInv, UpInv, [Next]_vars
  PROVE  UpInv'
<1>1. late' = {}
  BY NoCrash, LateSteps DEF UpInv
<1>2. ASSUME NEW n \in Nodes, NEW j \in Jobs, cont'[n][j].up PROVE HasRecord(n, j)'
  <2>1. CASE ~Run
    <3>1. Older(cont[n][j], cont'[n][j])
      <4>1. ~MadeLate(n, j)
        BY DEF MadeLate, UpInv
      <4>2. cont'[n][j] # NoCont
        BY <1>2, SMT DEF NoCont
      <4> QED BY <2>1, <4>1, <4>2, OutsideConts
    <3>2. HasRecord(n, j) /\ cont'[n][j].runner = cont[n][j].runner
      BY <1>2, <3>1 DEF Older, UpInv
    <3>3. /\ jobs'[j].node = jobs[j].node /\ jobs'[j].runner = jobs[j].runner
          /\ jobs'[j].status = jobs[j].status /\ UNCHANGED <<pc, cur>>
      BY <2>1, OutsideSame DEF SameRecord, mgrVars
    <3> QED BY <3>2, <3>3 DEF HasRecord, Starting
  <2>2. CASE Run /\ MadeBy(n, j) /\ cur' = cur
    <3>1. cur \in Jobs /\ jobs[cur].status = "provisioning"
      BY <2>2, LocalParts DEF MadeBy, Control
    <3>2. /\ jobs'[cur].node = jobs[cur].node /\ jobs'[cur].runner = jobs[cur].runner
          /\ jobs'[cur].status = "provisioning"
      <4>1. CASE Written
        <5>1. Kept(cur, jobs'[cur])
          BY <2>2, <3>1, <4>1, RewrittenActive DEF Written, Released, MadeBy, Active
        <5> QED BY <2>2, <3>1, <5>1 DEF Kept, Moved, MadeBy
      <4> QED BY <3>1, <4>1, UnwrittenSame DEF SameRecord
    <3>3. cont'[n][j].runner = jobs[cur].runner /\ j = cur /\ n = jobs[cur].node
      BY <2>2, SMT DEF MadeBy
    <3>4. Starting(j)'
      BY <2>2 DEF MadeBy, Starting
    <3> QED BY <3>1, <3>2, <3>3, <3>4 DEF HasRecord, Active
  <2>3. CASE Run /\ cont'[n][j] = cont[n][j]
    <3>1. HasRecord(n, j)
      BY <1>2, <2>3 DEF UpInv
    <3>2. CASE jobs[j].status = "provisioning"
      <4>1. cur = j /\ pc \in {"started", "undoDestroy"} /\ (pc = "undoDestroy" => "destroy" \notin Faults)
        BY <3>1, <3>2 DEF HasRecord, Starting
      <4>2. pc = "started"
        <5>1. jobs[j].node = n
          BY <3>1 DEF HasRecord
        <5>2. cont'[n][j] # NoCont
          BY <1>2, SMT DEF NoCont
        <5> QED BY <2>3, <4>1, <5>1, <5>2, UndoDestroys
      <4>3. jobs'[j].status = "running"
        BY <2>3, <4>1, <4>2, StartedRuns
      <4>4. jobs'[j].node = jobs[j].node /\ jobs'[j].runner = jobs[j].runner
        <5>1. CASE Written
          <6>1. Kept(j, jobs'[j])
            BY <3>1, <4>2, <5>1, RewrittenActive DEF Written, Released, HasRecord
          <6> QED BY <6>1 DEF Kept
        <5> QED BY <5>1, UnwrittenSame DEF SameRecord
      <4> QED BY <2>3, <3>1, <4>3, <4>4 DEF HasRecord, Active
    <3>3. CASE jobs[j].status # "provisioning"
      <4>1. /\ jobs'[j].node = jobs[j].node /\ jobs'[j].runner = jobs[j].runner
            /\ jobs'[j].status \in Active \ {"provisioning"}
        <5>1. CASE Written
          <6>1. ~(pc = "finish" /\ j = cur)
            BY <3>1 DEF HasRecord, GoneInv, Closing
          <6>2. Kept(j, jobs'[j])
            BY <3>1, <3>3, <5>1, <6>1, RewrittenActive DEF Written, Released, HasRecord
          <6>3. ~(pc = "create" /\ j = cur)
            BY <3>3, LocalParts DEF Control
          <6> QED BY <3>1, <3>3, <6>2, <6>3 DEF Kept, Moved, HasRecord, Active
        <5> QED BY <3>1, <3>3, <5>1, UnwrittenSame DEF SameRecord, HasRecord
      <4> QED BY <2>3, <3>1, <4>1 DEF HasRecord
    <3> QED BY <3>2, <3>3
  <2>4. cont'[n][j] # NoCont
    BY <1>2, SMT DEF NoCont
  <2> QED BY <2>1, <2>2, <2>3, <2>4, RunConts
<1> QED BY <1>1, <1>2 DEF UpInv

(***************************************************************************)
(* No job is cut short                                                     *)
(***************************************************************************)
(* What happens to a workflow job at GitHub.                                *)
LEMMA JobSteps ==
  ASSUME TypeInv, [Next]_vars, NEW j \in Jobs
  PROVE  \/ gh'[j] = gh[j] /\ by'[j] = by[j]
         \/ gh'[j] = "done" /\ by'[j] = NoName
         \/ gh[j] = "queued" /\ by'[j] \in reg /\ Labels[j] \subseteq Labels[by'[j].job]
<1>0. gh \in [Jobs -> {"queued", "running", "done"}] /\ by \in [Jobs -> RunnerName \cup {NoName}]
  BY EnvParts
<1>1. CASE UNCHANGED <<gh, by>>
  BY <1>1
<1>2. ASSUME NEW k \in Jobs, Over(k)
      PROVE  (gh'[j] = gh[j] /\ by'[j] = by[j]) \/ (gh'[j] = "done" /\ by'[j] = NoName)
  BY <1>0, <1>2 DEF Over
<1>3. ASSUME NEW k \in Jobs, NEW n \in Nodes, NEW m \in Jobs, assign(k, n, m)
      PROVE  \/ gh'[j] = gh[j] /\ by'[j] = by[j]
             \/ gh[j] = "queued" /\ by'[j] \in reg /\ Labels[j] \subseteq Labels[by'[j].job]
  <2>1. PICK x \in reg : Labels[k] \subseteq Labels[x.job] /\ by' = [by EXCEPT ![k] = x]
    BY <1>3 DEF assign
  <2>2. gh[k] = "queued" /\ gh' = [gh EXCEPT ![k] = "running"]
    BY <1>3 DEF assign
  <2> QED BY <1>0, <2>1, <2>2
<1>4. CASE GitHub
  BY <1>2, <1>3, <1>4 DEF GitHub, jobCancelled, jobLost, jobEnds
<1>5. CASE Run
  BY <1>1, <1>5, RunFrame
<1>6. CASE Agents
  BY <1>1, <1>6 DEF Agents, heartbeat, heartbeatsStop, janitor, containerExits, lateCreate, ghVars
<1>7. CASE Tick \/ Crash \/ Deliveries \/ UNCHANGED vars
  BY <1>1, <1>7 DEF Tick, Crash, Deliveries, webhook, ignoreWebhook, loseWebhook, ghVars, vars
<1> QED BY <1>4, <1>5, <1>6, <1>7 DEF Next

(* handleCompleted works for a job that is done: a completed webhook, the   *)
(* event in the queue, the handler that took it and the record it leaves    *)
(* for cleanup all say so.                                                  *)
EventInv ==
  /\ \A e \in hooks : e.kind = "completed" => gh[e.job] = "done"
  /\ \A i \in 1 .. Len(queue) : queue[i].kind = "completed" => gh[queue[i].job] = "done"
  /\ pc \in {"complete", "defer"} => gh[cur] = "done"
  /\ \A j \in Jobs : jobs[j].status = "cleanup_pending" => gh[j] = "done"

(* Only a completed event leads to the handling of a completion.            *)
LEMMA CompleteSteps ==
  ASSUME TypeInv, [Next]_vars, pc' \in {"complete", "defer"}
  PROVE  \/ Receive("completed") /\ cur' = Head(queue).job
         \/ pc = "complete" /\ cur' = cur
         \/ ~Run /\ UNCHANGED mgrVars
<1>1. CASE Process \/ reconcile
  BY <1>1 DEF Process, handleQueued, handleCompleted, reconcile, Receive, Enter, mgrVars
<1>2. CASE \E j \in Jobs : visit(j)
  BY <1>2 DEF visit, Enter, AfterDestroy
<1>3. CASE tryProvision
  BY <1>3
    DEF tryProvision, checkAndPlace, GenerateJITConfig, recordProvisioning, dropRunner,
     CreateInstance, recordRunning, undoDestroy, undoDelete, undoSave, Return, Goto
<1>4. CASE completing
  BY <1>4
    DEF completing, destroyStray, destroyCompleted, deferCleanup, cleanupRecord, deleteRunner,
     finish, Return, Goto, AfterDestroy
<1>5. CASE recoverProvisioning
  BY <1>5
    DEF recoverProvisioning, recoverDestroy, recoverDelete, recoverSave, Return, Goto
<1>6. CASE ~Run
  BY <1>6, OutsideStore DEF Crash
<1> QED BY <1>1, <1>2, <1>3, <1>4, <1>5, <1>6 DEF Run, Handler

(* A workflow job that is done stays done, and only then is it announced.   *)
LEMMA EventStep ==
  ASSUME MaxCrashes = 0, TypeInv, EventInv, [Next]_vars
  PROVE  EventInv'
<1>0. ASSUME NEW j \in Jobs, gh[j] = "done" PROVE gh'[j] = "done"
  BY <1>0, JobSteps
<1>1. ASSUME NEW e \in hooks', e.kind = "completed" PROVE gh'[e.job] = "done"
  <2>1. CASE e \in hooks
    <3>1. e.job \in Jobs
      BY <2>1, TypeParts DEF Event
    <3> QED BY <1>0, <1>1, <2>1, <3>1 DEF EventInv
  <2> QED BY <2>1, NewHooks
<1>2. ASSUME NEW i \in 1 .. Len(queue'), queue'[i].kind = "completed" PROVE gh'[queue'[i].job] = "done"
  <2>1. gh[queue'[i].job] = "done"
    BY <1>2, QueueSteps, QueueElements, SMT DEF EventInv
  <2>2. queue'[i].job \in Jobs
    <3>1. queue' \in Seq(Event)
      BY TypeStep DEF TypeInv, TypeOK, Channel
    <3>2. queue'[i] \in Event
      BY <3>1, SMT
    <3> QED BY <3>2 DEF Event
  <2> QED BY <1>0, <2>1, <2>2
<1>3. ASSUME pc' \in {"complete", "defer"} PROVE gh'[cur'] = "done"
  <2>1. cur' \in Jobs
    BY <1>3, TypeStep DEF TypeInv, Control
  <2>2. CASE Receive("completed") /\ cur' = Head(queue).job
    <3>1. queue \in Seq(Event) /\ queue # << >> /\ Head(queue).kind = "completed"
      BY <2>2, TypeParts DEF Channel, Receive
    <3>2. 1 \in 1 .. Len(queue) /\ Head(queue) = queue[1]
      BY <3>1, SMT
    <3> QED BY <1>0, <2>1, <2>2, <3>1, <3>2, SMT DEF EventInv
  <2>3. CASE pc \in {"complete", "defer"} /\ cur' = cur
    BY <1>0, <2>1, <2>3 DEF EventInv
  <2> QED BY <1>3, <2>2, <2>3, CompleteSteps DEF mgrVars
<1>4. ASSUME NEW j \in Jobs, jobs'[j].status = "cleanup_pending" PROVE gh'[j] = "done"
  <2>1. CASE jobs[j].status = "cleanup_pending"
    BY <1>0, <2>1 DEF EventInv
  <2>2. CASE Written
    <3>1. Kept(j, jobs'[j]) \/ Claimed(j, jobs'[j])
      BY <1>4, <2>2, RewrittenToActive DEF Written, Active
    <3>2. jobs[j].status = "cleanup_pending" \/ (pc = "defer" /\ j = cur)
      BY <1>4, <3>1 DEF Kept, Moved, Claimed
    <3> QED BY <1>0, <2>1, <3>2, SMT DEF EventInv
  <2> QED BY <1>4, <2>1, <2>2, UnwrittenSame DEF SameRecord
<1> QED BY <1>1, <1>2, <1>3, <1>4 DEF EventInv

(* reconcile visits records that need work still: nobody but its own        *)
(* handlers changes them, and time makes no record less overdue.            *)
Resting == {"boot", "idle", "loop"}
WorkInv ==
  /\ pc \in Resting => cur = NoJob
  /\ \A j \in todo : j = cur \/ NeedsWork(jobs[j])
  /\ pc = "cleanup" => jobs[cur].status = "cleanup_pending" \/ jobs[cur].left = 0

CurStep ==
  \/ cur' = cur /\ todo' = todo /\ (pc' \in Resting => pc \in Resting)
  \/ cur' = NoJob /\ todo' = todo \ {cur}
  \/ pc \in Resting /\ pc' \notin Resting /\ todo' = todo
  \/ pc \in Resting /\ cur' = cur /\ todo' = {j \in Jobs : NeedsWork(jobs[j])}

(* Every step of the goroutine moves cur and todo in one of these ways.     *)
LEMMA CurSteps == Run => CurStep
<1>1. Process => CurStep
  BY DEF Process, handleQueued, handleCompleted, Receive, Enter, AfterDestroy, mgrVars, Resting,
     CurStep
<1>2. reconcile => CurStep
  BY DEF reconcile, Resting, CurStep
<1>3. (\E j \in Jobs : visit(j)) => CurStep
  BY DEF visit, Enter, AfterDestroy, Resting, CurStep
<1>4. Return => CurStep
  BY DEF Return, CurStep
<1>5. ASSUME NEW l, l \notin Resting, Goto(l) PROVE CurStep
  BY <1>5 DEF Goto, CurStep
<1>6. checkAndPlace \/ GenerateJITConfig \/ recordProvisioning => CurStep
  BY <1>4 DEF checkAndPlace, GenerateJITConfig, recordProvisioning, CurStep, Resting
<1>7. dropRunner \/ CreateInstance \/ recordRunning \/ undoDestroy \/ undoDelete \/ undoSave => CurStep
  BY <1>4, <1>5 DEF dropRunner, CreateInstance, recordRunning, undoDestroy, undoDelete, undoSave,
     Resting
<1>8. destroyStray => CurStep
  BY DEF destroyStray, CurStep, Resting
<1>9. destroyCompleted \/ deferCleanup \/ cleanupRecord \/ deleteRunner \/ finish => CurStep
  BY <1>4, <1>5 DEF destroyCompleted, deferCleanup, cleanupRecord, deleteRunner, finish,
     AfterDestroy, Resting
<1>10. recoverProvisioning => CurStep
  BY <1>4, <1>5 DEF recoverProvisioning, recoverDestroy, recoverDelete, recoverSave, Resting
<1> QED BY <1>1, <1>2, <1>3, <1>6, <1>7, <1>8, <1>9, <1>10
        DEF Run, Handler, tryProvision, completing

(* reconcile cleans up only records on its list, on nodes it knows.         *)
LEMMA CleanupSteps ==
  ASSUME TypeInv, [Next]_vars, pc' = "cleanup"
  PROVE  \/ /\ pc = "loop" /\ cur' \in todo /\ jobs' = jobs /\ rawNode(jobs[cur'].node)
            /\ jobs[cur'].status \notin {"pending", "provisioning"}
         \/ ~Run /\ UNCHANGED mgrVars
<1>1. CASE Process \/ reconcile
  BY <1>1 DEF Process, handleQueued, handleCompleted, reconcile, Receive, Enter, AfterDestroy, mgrVars
<1>2. CASE \E j \in Jobs : visit(j)
  BY <1>2 DEF visit, Enter, AfterDestroy, storeVars
<1>3. CASE tryProvision
  BY <1>3
    DEF tryProvision, checkAndPlace, GenerateJITConfig, recordProvisioning, dropRunner,
     CreateInstance, recordRunning, undoDestroy, undoDelete, undoSave, Return, Goto
<1>4. CASE completing
  BY <1>4
    DEF completing, destroyStray, destroyCompleted, deferCleanup, cleanupRecord, deleteRunner,
     finish, Return, Goto, AfterDestroy
<1>5. CASE recoverProvisioning
  BY <1>5
    DEF recoverProvisioning, recoverDestroy, recoverDelete, recoverSave, Return, Goto
<1>6. CASE ~Run
  BY <1>6, OutsideStore DEF Crash
<1> QED BY <1>1, <1>2, <1>3, <1>4, <1>5, <1>6 DEF Run, Handler

(* A handler leaves the records of other jobs that need work alone.         *)
LEMMA WorkStays ==
  ASSUME MaxCrashes = 0, TypeInv, [Next]_vars, NEW j \in Jobs, j # cur, NeedsWork(jobs[j])
  PROVE  NeedsWork(jobs'[j])
<1>1. CASE Written
  <2>1. Rewrite(j, jobs'[j])
    BY <1>1 DEF Written
  <2>2. jobs'[j] = jobs[j]
    BY <2>1, SMT DEF Rewrite, Kept, Opened, Released, Closed, Forgotten, Claimed, Expired, NeedsWork,
       Tombstones, Absent, Blank
  <2> QED BY <2>2
<1>2. CASE jobs' = Aged(jobs)
  BY <1>2, RecordParts, AgedRecord, SMT DEF NeedsWork, Less
<1> QED BY <1>1, <1>2, LiveStore DEF storeVars

(* A record on the list still needs work when its turn comes.               *)
LEMMA WorkStep ==
  ASSUME MaxCrashes = 0, TypeInv, WorkInv, [Next]_vars
  PROVE  WorkInv'
<1>0. TypeInv'
  BY TypeStep
<1>1. CurStep
  <2>1. CASE ~Run
    BY <2>1, NoCrash, OutsideStore DEF mgrVars, CurStep
  <2> QED BY <2>1, CurSteps
<1>2. pc' \in Resting => cur' = NoJob
  BY <1>1 DEF CurStep, WorkInv
<1>3. ASSUME NEW j \in todo', j # cur' PROVE NeedsWork(jobs'[j])
  <2>0. j \in Jobs
    BY <1>0, LocalParts DEF TypeInv, TypeOK
  <2>1. j # cur /\ NeedsWork(jobs[j])
    <3>1. pc \in Resting => j # cur
      BY <2>0 DEF WorkInv
    <3> QED BY <1>3, <1>1, <3>1, SMT DEF CurStep, WorkInv
  <2> QED BY <2>0, <2>1, WorkStays
<1>4. ASSUME pc' = "cleanup" PROVE jobs'[cur'].status = "cleanup_pending" \/ jobs'[cur'].left = 0
  <2>0. cur' \in Jobs
    BY <1>0, <1>4 DEF TypeInv, Control
  <2>1. CASE /\ pc = "loop" /\ cur' \in todo /\ jobs' = jobs /\ rawNode(jobs[cur'].node)
             /\ jobs[cur'].status \notin {"pending", "provisioning"}
    <3>1. cur' # cur /\ NeedsWork(jobs[cur'])
      BY <2>0, <2>1 DEF WorkInv, Resting
    <3> QED BY <2>1, <3>1 DEF NeedsWork
  <2>2. CASE ~Run /\ UNCHANGED mgrVars
    <3>1. cur' = cur /\ (jobs[cur].status = "cleanup_pending" \/ jobs[cur].left = 0)
      BY <1>4, <2>2 DEF WorkInv, mgrVars
    <3>2. CASE jobs' = Aged(jobs)
      BY <2>0, <3>1, <3>2, RecordParts, AgedRecord, SMT DEF Less
    <3>3. CASE jobs' = jobs
      BY <3>1, <3>3
    <3> QED BY <2>2, <3>2, <3>3, NoCrash, OutsideStore DEF storeVars, Tick
  <2> QED BY <1>4, <2>1, <2>2, CleanupSteps
<1> QED BY <1>2, <1>3, <1>4 DEF WorkInv

(* A container's deadline comes before the controller gives it up.          *)
LeftInv == \A n \in Nodes, j \in Jobs : cont[n][j].up => cont[n][j].left <= jobs[j].left

(* The clock takes from both, and a record keeps the time it started with.  *)
LEMMA LeftStep ==
  ASSUME MaxCrashes = 0, "late" \notin Faults, "create" \notin Faults,
         TypeInv, UpInv, UpInv', LeftInv, [Next]_vars
  PROVE  LeftInv'
<1> SUFFICES ASSUME NEW n \in Nodes, NEW j \in Jobs, cont'[n][j].up
             PROVE  cont'[n][j].left <= jobs'[j].left
  BY DEF LeftInv
<1>0. /\ cont[n][j].left \in Nat /\ jobs[j].left \in Nat /\ jobs[j] \in JobRecord
      /\ cont[n][j] \in Container
  BY TypeParts, RecordParts, SMT DEF Container, JobRecord
<1>1. CASE Tick
  <2>1. cont'[n][j] = [cont[n][j] EXCEPT !.left = Less(@)] /\ jobs' = Aged(jobs)
    BY <1>1 DEF Tick, Aged
  <2>2. cont'[n][j].left = Less(cont[n][j].left) /\ cont[n][j].up
    BY <1>0, <2>1 DEF Container
  <2>3. jobs'[j].left = Less(jobs[j].left)
    BY <2>1, RecordParts, AgedRecord
  <2>4. cont[n][j].left <= jobs[j].left
    BY <2>2 DEF LeftInv
  <2> QED BY <1>0, <2>2, <2>3, <2>4, SMT DEF Less
<1>2. CASE ~Run /\ ~Tick
  <2>1. jobs' = jobs
    BY <1>2, NoCrash, OutsideStore DEF storeVars
  <2>2. Older(cont[n][j], cont'[n][j])
    BY <1>2, OutsideConts, SMT DEF MadeLate, UpInv, NoCont
  <2>3. cont[n][j].up /\ cont'[n][j].left \in {cont[n][j].left, Less(cont[n][j].left)}
    BY <2>2 DEF Older
  <2>4. cont[n][j].left <= jobs[j].left
    BY <2>3 DEF LeftInv
  <2> QED BY <1>0, <2>1, <2>3, <2>4, SMT DEF Less
<1>3. CASE Run /\ cont'[n][j] = cont[n][j]
  <2>1. HasRecord(n, j) /\ cont[n][j].left <= jobs[j].left
    BY <1>3 DEF UpInv, LeftInv
  <2>2. CASE Written
    <3>1. jobs'[j].status \in Active
      BY DEF UpInv, HasRecord
    <3>2. Kept(j, jobs'[j])
      BY <2>1, <2>2, <3>1, RewrittenToActive DEF Written, Claimed, HasRecord, Active
    <3>3. ~(pc = "create" /\ j = cur)
      BY <2>1, LocalParts DEF Control, HasRecord, Starting
    <3>4. jobs'[j].left = jobs[j].left
      BY <3>2, <3>3 DEF Kept, Moved
    <3> QED BY <1>3, <2>1, <3>4
  <2>3. CASE jobs' = jobs
    BY <1>3, <2>1, <2>3
  <2> QED BY <1>3, <2>2, <2>3, RunStore DEF RunWrite, storeVars
<1>4. CASE MadeBy(n, j)
  BY <1>4, SMT DEF MadeBy
<1>5. cont'[n][j] # NoCont
  BY SMT DEF NoCont
<1> QED BY <1>1, <1>2, <1>3, <1>4, <1>5, RunConts

(* A runner is found only in containers and records of the job it was made  *)
(* for.                                                                     *)
MadeFor(x) ==
  /\ \A n \in Nodes, k \in Jobs : cont[n][k].runner = x.id => x.job = k
  /\ \A k \in Jobs : jobs[k].runner = x.id => x.job = k
  /\ pc = "record" /\ jit = x.id => x.job = cur

NameInv ==
  /\ \A x \in reg : MadeFor(x)
  /\ \A j \in Jobs : by[j].id # NoRunner => MadeFor(by[j])
  /\ \A j \in Jobs : gh[j] = "running" => by[j].job = j

(* No later record or container takes over the runner of another job.       *)
LEMMA MadeForStays ==
  ASSUME MaxCrashes = 0, TypeInv, late = {}, [Next]_vars, NEW x, x.id # NoRunner,
         MadeFor(x), Fresh(jit') => x.id # jit'
  PROVE  MadeFor(x)'
<1>1. ASSUME NEW n \in Nodes, NEW k \in Jobs, cont'[n][k].runner = x.id PROVE x.job = k
  <2>1. CASE cont'[n][k].runner = cont[n][k].runner
    BY <1>1, <2>1 DEF MadeFor
  <2>2. CASE MadeBy(n, k)
    BY <1>1, <2>2, SMT DEF MadeBy, MadeFor
  <2>3. cont'[n][k] # NoCont
    BY <1>1, SMT DEF NoCont
  <2>4. CASE Run
    BY <2>1, <2>2, <2>3, <2>4, RunConts
  <2>5. CASE ~Run
    BY <2>1, <2>3, <2>5, OutsideConts DEF MadeLate, Older
  <2> QED BY <2>4, <2>5
<1>2. ASSUME NEW k \in Jobs, jobs'[k].runner = x.id PROVE x.job = k
  <2>1. CASE jobs'[k].runner = jobs[k].runner
    BY <1>2, <2>1 DEF MadeFor
  <2>2. CASE Written
    BY <1>2, <2>1, <2>2, RewrittenRunner, SMT DEF Written, MadeFor
  <2> QED BY <2>1, <2>2, UnwrittenSame DEF SameRecord
<1>3. ASSUME pc' = "record", jit' = x.id PROVE x.job = cur'
  BY <1>3, ProvisioningSteps DEF Provisioning, MadeFor, mgrVars
<1> QED BY <1>1, <1>2, <1>3 DEF MadeFor

(* GitHub's new runner is nowhere yet.                                      *)
LEMMA NewMadeFor ==
  ASSUME TypeInv, [Next]_vars, NEW x \in reg' \ reg
  PROVE  MadeFor(x)'
<1>1. GenerateJITConfig /\ Fresh(x.id) /\ x.job = cur
  BY NewRunners
<1>2. jobs' = jobs /\ cont' = cont /\ (pc' = "record" => cur' = cur)
  BY <1>1 DEF GenerateJITConfig, Return, storeVars, agentVars
<1> QED BY <1>1, <1>2 DEF MadeFor, Fresh

(* A job runs on the runner that was made for it, as no other fits.         *)
LEMMA NameStep ==
  ASSUME MaxCrashes = 0, \A j, k \in Jobs : Labels[j] \subseteq Labels[k] => j = k,
         TypeInv, late = {}, NameInv, [Next]_vars
  PROVE  NameInv'
<1>0. reg \subseteq RunnerName /\ by \in [Jobs -> RunnerName \cup {NoName}]
  BY TypeParts, EnvParts
<1>1. ASSUME NEW x \in reg PROVE MadeFor(x)'
  <2>1. x.id # NoRunner /\ MadeFor(x) /\ (Fresh(jit') => x.id # jit')
    BY <1>0, SMT DEF RunnerName, NameInv, Fresh
  <2> QED BY <2>1, MadeForStays
<1>2. ASSUME NEW x \in reg' PROVE MadeFor(x)'
  BY <1>1, NewMadeFor
<1>3. ASSUME NEW j \in Jobs, by'[j].id # NoRunner PROVE MadeFor(by[j])'
  <2>1. PICK x : x = by'[j]
    OBVIOUS
  <2>2. CASE x = by[j]
    <3>1. x.id # NoRunner /\ MadeFor(x) /\ (Fresh(jit') => x.id # jit')
      BY <1>3, <2>1, <2>2 DEF NameInv, Fresh
    <3>2. MadeFor(x)'
      BY <3>1, MadeForStays
    <3> QED BY <2>1, <3>2 DEF MadeFor
  <2>3. CASE x \in reg
    <3>1. MadeFor(x)'
      BY <1>1, <2>3
    <3> QED BY <2>1, <3>1 DEF MadeFor
  <2> QED BY <1>3, <2>1, <2>2, <2>3, JobSteps, SMT DEF NoName
<1>4. ASSUME NEW j \in Jobs, gh'[j] = "running" PROVE by'[j].job = j
  <2>1. CASE by'[j] \in reg /\ Labels[j] \subseteq Labels[by'[j].job]
    <3>1. by'[j].job \in Jobs
      BY <1>0, <2>1 DEF RunnerName
    <3> QED BY <2>1, <3>1
  <2>2. CASE gh'[j] = gh[j] /\ by'[j] = by[j]
    BY <1>4, <2>2 DEF NameInv
  <2> QED BY <1>4, <2>1, <2>2, JobSteps
<1> QED BY <1>2, <1>3, <1>4 DEF NameInv

(* Under these invariants a destroy meets no container that has work and    *)
(* time.                                                                    *)
LEMMA DestroySpares ==
  ASSUME "create" \notin Faults, TypeInv, UpInv, EventInv, WorkInv, LeftInv, NameInv,
         NEW n \in Nodes, NEW k \in Jobs, NEW j \in Jobs,
         Executing(n, k, j), cont[n][k].left > 0, k = cur
  PROVE  pc \notin {"undoDestroy", "stray", "complete", "cleanup", "recover"}
<1>1. /\ gh[j] = "running" /\ cont[n][k].runner = by[j].id /\ HasRecord(n, k)
      /\ cont[n][k].left <= jobs[k].left /\ cont[n][k].left \in Nat /\ jobs[k].left \in Nat
  BY TypeParts, RecordParts, SMT DEF Executing, UpInv, LeftInv, Container, JobRecord
<1>2. jobs[k].status \in Active /\ jobs[k].runner = by[j].id /\ by[j].id # NoRunner
  BY <1>1, RecordParts, SMT DEF HasRecord, Shape
<1>3. j = k
  BY <1>1, <1>2 DEF NameInv, MadeFor
<1>4. pc # "stray" /\ pc # "complete"
  BY <1>1, <1>2, <1>3, LocalParts DEF Control, EventInv, Active
<1>5. pc \notin {"undoDestroy", "recover"}
  BY <1>1, LocalParts DEF Control, HasRecord, Starting
<1>6. jobs[k].status # "cleanup_pending"
  BY <1>1, <1>3 DEF EventInv
<1>7. pc # "cleanup"
  BY <1>1, <1>6, SMT DEF WorkInv
<1> QED BY <1>4, <1>5, <1>7

(* No container that executes a job is removed before its deadline, for any *)
(* number of jobs and nodes: handleCompleted destroys the container of a    *)
(* job that is done, reconcile one that is overdue, the janitor one past    *)
(* its deadline.  This needs a process that lives, create calls that make   *)
(* no container when they fail, and jobs whose labels keep their runners    *)
(* apart: GitHub may give a runner made for one job to another whose labels *)
(* it has.  The model has one clock and no destroy that takes effect after  *)
(* its caller gave up; the theorem says nothing of either.                  *)
THEOREM NoneCutShort ==
  ASSUME MaxCrashes = 0, "late" \notin Faults, "create" \notin Faults,
         \A j, k \in Jobs : Labels[j] \subseteq Labels[k] => j = k
  PROVE  Spec => NoJobCutShort
<1> DEFINE I == /\ TypeInv /\ KnownNodes /\ GoneInv /\ UpInv
                /\ EventInv /\ WorkInv /\ LeftInv /\ NameInv
           Step == \A j \in Jobs, k \in Jobs, n \in Nodes :
                     Executing(n, k, j) /\ cont[n][k].left > 0 => cont'[n][k] # NoCont
<1>1. Init => I
  <2> SUFFICES ASSUME Init PROVE UpInv /\ EventInv /\ WorkInv /\ LeftInv /\ NameInv
    BY InitTypeInv, InitGone
  <2>1. UpInv /\ LeftInv
    BY DEF Init, UpInv, LeftInv, NoCont
  <2>2. EventInv
    BY SMT DEF Init, EventInv, Queued, Absent, Blank
  <2>3. WorkInv
    BY DEF Init, WorkInv
  <2>4. NameInv
    BY DEF Init, NameInv, NoName
  <2> QED BY <2>1, <2>2, <2>3, <2>4
<1>2. I /\ [Next]_vars => I'
  <2> SUFFICES ASSUME I, [Next]_vars PROVE I'
    OBVIOUS
  <2>1. TypeInv' /\ KnownNodes' /\ GoneInv' /\ UpInv'
    BY TypeStep, KnownStep, GoneStep, UpStep
  <2>2. EventInv' /\ WorkInv'
    BY EventStep, WorkStep
  <2>3. LeftInv'
    BY <2>1, LeftStep
  <2>4. NameInv'
    BY NameStep DEF UpInv
  <2> QED BY <2>1, <2>2, <2>3, <2>4
<1>3. I /\ [Next]_vars => [Step]_vars
  <2> SUFFICES ASSUME I, [Next]_vars, NEW j \in Jobs, NEW k \in Jobs, NEW n \in Nodes,
                      Executing(n, k, j), cont[n][k].left > 0
               PROVE  cont'[n][k] # NoCont
    OBVIOUS
  <2>0. cont[n][k].up /\ cont[n][k] # NoCont /\ cont[n][k].left \in Nat
    BY TypeParts, SMT DEF Executing, NoCont, Container
  <2>1. CASE Run
    <3>1. CASE /\ pc \in {"undoDestroy", "stray", "complete", "cleanup", "recover"}
               /\ k = cur
      BY <3>1, DestroySpares
    <3>2. CASE MadeBy(n, k)
      BY <3>2, SMT DEF MadeBy, NoCont
    <3> QED BY <2>0, <2>1, <3>1, <3>2, RunConts
  <2>2. CASE ~Run
    <3>1. CASE Older(cont[n][k], cont'[n][k])
      <4>1. \/ cont'[n][k] = cont[n][k] \/ cont'[n][k].left = cont[n][k].left
            \/ cont'[n][k].up
        BY <2>0, <3>1 DEF Older
      <4> QED BY <2>0, <4>1, SMT DEF NoCont
    <3>2. ~MadeLate(n, k)
      BY DEF MadeLate, UpInv
    <3> QED BY <2>0, <2>2, <3>1, <3>2, OutsideConts, SMT
  <2> QED BY <2>1, <2>2
<1> HIDE DEF I, Step
<1>4. Spec => []I /\ [][Step]_vars
  BY <1>1, <1>2, <1>3, PTL DEF Spec
<1> QED BY <1>4 DEF NoJobCutShort, Step

=============================================================================
