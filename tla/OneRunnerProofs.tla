-------------------------- MODULE OneRunnerProofs --------------------------
(* OneUsableRunner holds for all constants, provided GitHub does not refuse *)
(* to delete a runner.                                                      *)
EXTENDS RunnerManagerProofs

USE Zenon

(***************************************************************************)
(* At most one usable container per job                                    *)
(*                                                                         *)
(* OneUsableRunner follows from UsableIsOnRecord, since a record names one *)
(* node.  To make that inductive it must also cover the create requests    *)
(* still under way (LateIsOnRecord), the moment a container is asked for,  *)
(* and the moments a record is about to let go of its runner.              *)
(***************************************************************************)
LateIsOnRecord == \A q \in late : Registered(q.runner) => OnRecord(q.node, q.job, q.runner)

Releasing == {"undoSave", "recoverSave", "finish"}

Handover ==
  /\ pc = "create" => OnRecord(jobs[cur].node, cur, jobs[cur].runner)
  /\ pc \in Releasing => ~Registered(jobs[cur].runner)

RunnerInv == UsableIsOnRecord /\ LateIsOnRecord /\ Handover

Inv == TypeInv /\ RunnerInv

(* At the start there are no containers, requests or registrations.         *)
LEMMA InitRunnerInv == Init => RunnerInv
  BY DEF Init, RunnerInv, UsableIsOnRecord, LateIsOnRecord, Handover, Releasing, Usable, Registered

(* No runner is registered under NoRunner.                                  *)
LEMMA NotRegistered == TypeInv => ~Registered(NoRunner)
  BY ConstantsAssumption, SMT DEF TypeInv, TypeOK, Registered, RunnerName

(* Registrations that only shrink register nothing.                         *)
LEMMA RegistrationsShrink ==
  ASSUME reg' \subseteq reg
  PROVE  \A r : Registered(r)' => Registered(r)
  BY DEF Registered

(* Steps that register nothing, start nothing and keep the records' nodes   *)
(* and runners.                                                             *)
LEMMA KeepRecords ==
  ASSUME Inv, reg' \subseteq reg, late' \subseteq late,
         \A n \in Nodes, j \in Jobs : cont'[n][j].runner \in {cont[n][j].runner, NoRunner},
         \A j \in Jobs : /\ jobs'[j].node = jobs[j].node /\ jobs'[j].runner = jobs[j].runner
                         /\ disk'[j].node = disk[j].node /\ disk'[j].runner = disk[j].runner
  PROVE  UsableIsOnRecord' /\ LateIsOnRecord'
<1>1. \A r : Registered(r)' => Registered(r) /\ r # NoRunner
  BY NotRegistered, RegistrationsShrink DEF Inv
<1>2. ASSUME NEW n \in Nodes, NEW j \in Jobs, Usable(n, j)'
      PROVE  OnRecord(n, j, cont[n][j].runner)'
  <2>1. cont'[n][j].runner = cont[n][j].runner /\ Usable(n, j)
    BY <1>1, <1>2 DEF Usable
  <2>2. OnRecord(n, j, cont[n][j].runner)
    BY <2>1 DEF Inv, RunnerInv, UsableIsOnRecord
  <2> QED BY <2>1, <2>2 DEF OnRecord
<1>3. ASSUME NEW q \in late', Registered(q.runner)'
      PROVE  OnRecord(q.node, q.job, q.runner)'
  <2>1. q \in late /\ Registered(q.runner) /\ q.job \in Jobs
    BY <1>1, <1>3 DEF Inv, TypeInv, TypeOK, Request
  <2>2. OnRecord(q.node, q.job, q.runner)
    BY <2>1 DEF Inv, RunnerInv, LateIsOnRecord
  <2> QED BY <2>1, <2>2 DEF OnRecord
<1> QED BY <1>2, <1>3 DEF UsableIsOnRecord, LateIsOnRecord

(* Writing a record that keeps its node and runner, or whose runner is gone. *)
LEMMA WriteRecord ==
  ASSUME Inv, NEW j \in Jobs, NEW rec \in JobRecord,
         \/ rec.node = jobs[j].node /\ rec.runner = jobs[j].runner
         \/ ~Registered(jobs[j].runner),
         saveLocked([jobs EXCEPT ![j] = rec]), UNCHANGED <<cont, late, reg>>
  PROVE  UsableIsOnRecord' /\ LateIsOnRecord'
<1>1. /\ jobs' = [jobs EXCEPT ![j] = rec] /\ (disk' = disk \/ disk' = jobs')
      /\ jobs \in [Jobs -> JobRecord]
  BY DEF Inv, TypeInv, TypeOK, saveLocked, saved, saveFails
<1>2. ASSUME NEW n, NEW k \in Jobs, NEW r, OnRecord(n, k, r), Registered(r)
      PROVE  OnRecord(n, k, r)'
  <2>1. CASE k = j
    <3>1. rec.node = jobs[j].node /\ rec.runner = jobs[j].runner
      BY <1>2, <2>1 DEF OnRecord
    <3> QED BY <1>1, <1>2, <2>1, <3>1 DEF OnRecord
  <2>2. CASE k # j
    BY <1>1, <1>2, <2>2 DEF OnRecord
  <2> QED BY <2>1, <2>2
<1>3. \A q \in late : q.job \in Jobs
  BY DEF Inv, TypeInv, TypeOK, Request
<1>4. \A r : Registered(r)' <=> Registered(r)
  BY DEF Registered
<1>5. UsableIsOnRecord'
  BY <1>2, <1>4 DEF Inv, RunnerInv, UsableIsOnRecord, Usable
<1>6. LateIsOnRecord'
  BY <1>2, <1>3, <1>4 DEF Inv, RunnerInv, LateIsOnRecord
<1> QED BY <1>5, <1>6

(***************************************************************************)
(* The steps of Run                                                        *)
(***************************************************************************)
LEMMA QueuedInv == Inv /\ handleQueued => RunnerInv'
<1> SUFFICES ASSUME Inv, handleQueued PROVE RunnerInv'
  OBVIOUS
<1> DEFINE j == Head(queue).job
<1>0. j \in Jobs /\ pc = "idle" /\ UNCHANGED <<cont, late, reg>>
  BY QueueTypes DEF Inv, TypeInv, TypeOK, handleQueued, Receive, agentVars, ghVars
<1>1. CASE NotNew(j) /\ UNCHANGED <<mgrVars, storeVars, faults>>
  BY <1>0, <1>1, KeepRecords DEF mgrVars, storeVars, RunnerInv, Handover, Releasing
<1>2. CASE ~NotNew(j) /\ saved([jobs EXCEPT ![j] = Pending(0)]) /\ Enter("getrun", j)
  <2>1. ~Registered(jobs[j].runner)
    BY <1>2, NotRegistered, SMT DEF Inv, NotNew, Absent, Blank
  <2>2. UsableIsOnRecord' /\ LateIsOnRecord'
    BY <1>0, <1>2, <2>1, WriteRecord, RecordTypes DEF saveLocked
  <2> QED BY <1>2, <2>2 DEF Enter, RunnerInv, Handover, Releasing
<1>3. CASE saveFails(jobs) /\ UNCHANGED mgrVars
  BY <1>0, <1>3, KeepRecords DEF mgrVars, saveFails, RunnerInv, Handover, Releasing
<1> QED BY <1>1, <1>2, <1>3 DEF handleQueued

(* Entering a handler: only `finish' is reached without a call, and then    *)
(* the record has no runner.                                                *)
LEMMA CompletedInv == Inv /\ handleCompleted => RunnerInv'
<1> SUFFICES ASSUME Inv, handleCompleted PROVE RunnerInv'
  OBVIOUS
<1>0. UNCHANGED <<storeVars, cont, late, reg>> /\ pc = "idle"
  BY DEF handleCompleted, Receive, agentVars, ghVars
<1>1. UsableIsOnRecord' /\ LateIsOnRecord'
  BY <1>0, KeepRecords DEF storeVars
<1>2. pc' = "create" \/ pc' \in Releasing => pc' = "finish" /\ jobs[cur'].runner = NoRunner
  BY <1>0, SMT DEF handleCompleted, Enter, AfterDestroy, Releasing, Absent, Blank, mgrVars
<1>3. Handover'
  BY <1>0, <1>2, NotRegistered DEF Handover, Releasing, Registered, storeVars, Inv
<1> QED BY <1>1, <1>3 DEF RunnerInv

(* reconcile prunes only tombstones, which name no runner.                  *)
LEMMA ReconcileInv == Inv /\ reconcile => RunnerInv'
<1> SUFFICES ASSUME Inv, reconcile PROVE RunnerInv'
  OBVIOUS
<1> DEFINE pruned == [j \in Jobs |-> IF Expired(jobs[j]) THEN Absent ELSE jobs[j]]
<1>0. UNCHANGED <<cont, late, reg>> /\ pc' \in {"idle", "loop"}
  BY DEF reconcile, agentVars, ghVars
<1>1. \A j \in Jobs : pruned[j].node = jobs[j].node /\ pruned[j].runner = jobs[j].runner
  BY DEF Inv, TypeInv, Shape, Expired, Tombstones, Active, Absent, Blank
<1>2. /\ jobs' = jobs \/ jobs' = pruned
      /\ disk' = disk \/ disk' = pruned
  BY DEF reconcile, saveLocked, saved, saveFails, storeVars
<1> HIDE DEF pruned
<1>3. ASSUME NEW n, NEW k \in Jobs, NEW r, OnRecord(n, k, r) PROVE OnRecord(n, k, r)'
  BY <1>1, <1>2, <1>3 DEF OnRecord
<1>4. \A r : Registered(r)' <=> Registered(r)
  BY <1>0 DEF Registered
<1>5. UsableIsOnRecord'
  BY <1>0, <1>3, <1>4 DEF Inv, RunnerInv, UsableIsOnRecord, Usable
<1>6. LateIsOnRecord'
  <2>1. \A q \in late : q.job \in Jobs
    BY DEF Inv, TypeInv, TypeOK, Request
  <2> QED BY <1>0, <1>3, <1>4, <2>1 DEF Inv, RunnerInv, LateIsOnRecord
<1> QED BY <1>0, <1>5, <1>6 DEF RunnerInv, Handover, Releasing

(* visit only chooses a branch.                                             *)
LEMMA VisitInv == Inv /\ (\E j \in Jobs : visit(j)) => RunnerInv'
<1> SUFFICES ASSUME Inv, NEW j \in Jobs, visit(j) PROVE RunnerInv'
  OBVIOUS
<1>0. UNCHANGED <<storeVars, cont, late, reg>> /\ cur' = j
  BY DEF visit, Enter, agentVars, ghVars
<1>1. UsableIsOnRecord' /\ LateIsOnRecord'
  BY <1>0, KeepRecords DEF storeVars
<1>2. pc' = "create" \/ pc' \in Releasing => pc' = "finish" /\ jobs[j].runner = NoRunner
  BY DEF visit, Enter, AfterDestroy, Releasing
<1>3. Handover'
  BY <1>0, <1>2, NotRegistered DEF Handover, Releasing, Registered, storeVars, Inv
<1> QED BY <1>1, <1>3 DEF RunnerInv

(* tryProvision up to place changes at most a record without a runner.      *)
LEMMA CheckInv == Inv /\ checkAndPlace => RunnerInv'
<1> SUFFICES ASSUME Inv, checkAndPlace PROVE RunnerInv'
  OBVIOUS
<1>0. /\ cur \in Jobs /\ jobs[cur].status = "pending" /\ UNCHANGED <<cont, late, reg>>
      /\ pc' \in {"idle", "loop", "jit"}
  BY DEF Inv, TypeInv, Control, checkAndPlace, Return, agentVars, ghVars
<1>1. CASE UNCHANGED storeVars
  BY <1>0, <1>1, KeepRecords DEF storeVars, RunnerInv, Handover, Releasing
<1>2. CASE saveLocked([jobs EXCEPT ![cur] = Tombstone("rejected")])
  <2>1. ~Registered(jobs[cur].runner) /\ Tombstone("rejected") \in JobRecord
    BY <1>0, NotRegistered, RecordTypes DEF Inv, TypeInv, Shape, Active, Tombstones
  <2> QED BY <1>0, <1>2, <2>1, WriteRecord DEF RunnerInv, Handover, Releasing
<1> QED BY <1>1, <1>2 DEF checkAndPlace

(* The new runner is in no container and no request.                        *)
LEMMA JITInv == Inv /\ GenerateJITConfig => RunnerInv'
<1> SUFFICES ASSUME Inv, GenerateJITConfig PROVE RunnerInv'
  OBVIOUS
<1>0. UNCHANGED <<storeVars, cont, late>> /\ pc' \in {"idle", "loop", "record"}
  BY DEF GenerateJITConfig, Return, agentVars
<1>1. CASE reg' = reg
  BY <1>0, <1>1, KeepRecords DEF storeVars, RunnerInv, Handover, Releasing
<1>2. ASSUME NEW r \in Runners, Fresh(r),
             reg' = reg \cup {[id |-> r, node |-> target, job |-> cur,
                               attempt |-> jobs[cur].attempt + 1]}
      PROVE  RunnerInv'
  <2>1. \A x : Registered(x)' => Registered(x) \/ x = r
    BY <1>2, SMT DEF Registered
  <2>2. UsableIsOnRecord'
    <3> SUFFICES ASSUME NEW n \in Nodes, NEW j \in Jobs, Usable(n, j)'
                 PROVE  OnRecord(n, j, cont[n][j].runner)'
      BY DEF UsableIsOnRecord
    <3>1. Usable(n, j)
      BY <1>0, <1>2, <2>1 DEF Usable, Fresh
    <3>2. OnRecord(n, j, cont[n][j].runner)
      BY <3>1 DEF Inv, RunnerInv, UsableIsOnRecord
    <3> QED BY <1>0, <3>2 DEF OnRecord, storeVars
  <2>3. LateIsOnRecord'
    BY <1>0, <1>2, <2>1 DEF Inv, RunnerInv, LateIsOnRecord, OnRecord, Fresh, storeVars
  <2> QED BY <1>0, <2>2, <2>3 DEF RunnerInv, Handover, Releasing
<1> QED BY <1>1, <1>2 DEF GenerateJITConfig

(* The provisioning record names the new runner in both stores before the   *)
(* container is asked for, or the container is not asked for.               *)
LEMMA RecordInv == Inv /\ recordProvisioning => RunnerInv'
<1> SUFFICES ASSUME Inv, recordProvisioning PROVE RunnerInv'
  OBVIOUS
<1> DEFINE rec == [status |-> "provisioning", node |-> target, inst |-> FALSE,
                   runner |-> jit, attempt |-> jobs[cur].attempt + 1, left |-> Timeout + Grace]
           new == [jobs EXCEPT ![cur] = rec]
<1>0. /\ cur \in Jobs /\ jobs[cur].status = "pending" /\ UNCHANGED <<cur, cont, late, reg>>
      /\ target \in Nodes /\ jit \in Runners
      /\ \/ saved(new) /\ pc' = "create"
         \/ saveFails(new) /\ pc' = "dropRunner"
  BY DEF Inv, TypeInv, Control, recordProvisioning, agentVars, ghVars
<1>1. ~Registered(jobs[cur].runner)
  BY <1>0, NotRegistered DEF Inv, TypeInv, Shape, Active
<1>2. rec \in JobRecord
  <2>1. jobs[cur].attempt + 1 \in Nat
    BY <1>0, SMT DEF Inv, TypeInv, TypeOK, JobRecord
  <2> QED BY <1>0, <2>1, ConstantsAssumption, SMT DEF JobRecord, Active
<1>3. UsableIsOnRecord' /\ LateIsOnRecord'
  <2> HIDE DEF rec
  <2> QED BY <1>0, <1>1, <1>2, WriteRecord DEF saveLocked
<1>4. Handover'
  BY <1>0 DEF Handover, Releasing, OnRecord, saved
<1> QED BY <1>3, <1>4 DEF RunnerInv

(* Steps of a handler that only take containers or registrations away.      *)
LEMMA ShrinkInv ==
  ASSUME Inv, UNCHANGED <<storeVars, late>>, reg' \subseteq reg,
         \A n \in Nodes, j \in Jobs : cont'[n][j] \in {cont[n][j], NoCont},
         pc' # "create", pc' \in Releasing => ~Registered(jobs[cur].runner)'
  PROVE  RunnerInv'
<1>1. UsableIsOnRecord' /\ LateIsOnRecord'
  <2>1. \A n \in Nodes, j \in Jobs : cont'[n][j].runner \in {cont[n][j].runner, NoRunner}
    BY SMT DEF NoCont
  <2>2. UNCHANGED <<jobs, disk, late>>
    BY DEF storeVars
  <2> QED BY <2>1, <2>2, KeepRecords
<1>2. Handover'
  BY DEF Handover
<1> QED BY <1>1, <1>2 DEF RunnerInv

(* The calls of DestroyInstance only take containers away.                  *)
LEMMA DestroyStepsInv ==
  Inv /\ (undoDestroy \/ destroyStray \/ destroyCompleted \/ cleanupRecord \/ recoverDestroy)
    => RunnerInv'
<1> SUFFICES ASSUME Inv,
                    undoDestroy \/ destroyStray \/ destroyCompleted \/ cleanupRecord \/ recoverDestroy
             PROVE  RunnerInv'
  OBVIOUS
<1>1. /\ \E n, inst : DestroyInstance(n, cur, inst)
      /\ UNCHANGED <<storeVars, late, reg>> /\ pc' # "create"
      /\ pc' \in Releasing => cur' = cur /\ jobs[cur].runner = NoRunner
  <2>1. CASE undoDestroy \/ recoverDestroy
    BY <2>1 DEF undoDestroy, recoverDestroy, Goto, Releasing, ghVars
  <2>2. CASE destroyStray
    BY <2>2 DEF destroyStray, Releasing, ghVars, Inv, TypeInv, Control, Shape, Active
  <2>3. CASE destroyCompleted
    BY <2>3 DEF destroyCompleted, DestroyInstance, Goto, AfterDestroy, Releasing, ghVars
  <2>4. CASE cleanupRecord
    BY <2>4 DEF cleanupRecord, DestroyInstance, Goto, Return, AfterDestroy, Releasing, ghVars
  <2> QED BY <2>1, <2>2, <2>3, <2>4
<1>2. \A n \in Nodes, j \in Jobs : cont'[n][j] \in {cont[n][j], NoCont}
  BY <1>1, DestroyType DEF Inv
<1>3. pc' \in Releasing => ~Registered(jobs[cur].runner)'
  BY <1>1, NotRegistered DEF Inv, Registered, storeVars
<1> QED BY <1>1, <1>2, <1>3, ShrinkInv

(* The steps that delete a runner do delete it.                             *)
LEMMA DeleteStepsInv ==
  ASSUME "delete" \notin Faults, Inv, dropRunner \/ undoDelete \/ deleteRunner \/ recoverDelete
  PROVE  RunnerInv'
<1>1. /\ DeleteRunner(jobs[cur].runner)
      /\ UNCHANGED <<storeVars, cont, late>> /\ pc' # "create"
      /\ pc' \in Releasing => cur' = cur
  BY DEF dropRunner, undoDelete, deleteRunner, recoverDelete, Goto, Return, Releasing, agentVars
<1>2. reg' = {x \in reg : x.id # jobs[cur].runner}
  BY <1>1 DEF DeleteRunner, Fault
<1>3. \A x \in reg' : x.id # jobs[cur].runner
  BY <1>2
<1>4. pc' \in Releasing => ~Registered(jobs[cur].runner)'
  BY <1>1, <1>3 DEF Registered, storeVars
<1>5. reg' \subseteq reg /\ \A n \in Nodes, j \in Jobs : cont'[n][j] \in {cont[n][j], NoCont}
  BY <1>1, <1>2
<1> QED BY <1>1, <1>4, <1>5, ShrinkInv

(* The steps that rewrite a record: the new one keeps node and runner, or   *)
(* the runner is gone.                                                      *)
LEMMA WriteStepsInv ==
  Inv /\ (recordRunning \/ deferCleanup \/ undoSave \/ finish \/ recoverSave) => RunnerInv'
<1> SUFFICES ASSUME Inv, recordRunning \/ deferCleanup \/ undoSave \/ finish \/ recoverSave
             PROVE  RunnerInv'
  OBVIOUS
<1>0. /\ cur \in Jobs /\ jobs[cur] \in JobRecord /\ jobs \in [Jobs -> JobRecord]
      /\ UNCHANGED <<cont, late, reg>> /\ pc' \in {"idle", "loop", "getrun"}
  BY DEF Inv, TypeInv, TypeOK, Control, recordRunning, deferCleanup, undoSave, finish, recoverSave,
     Return, Goto, agentVars, ghVars
<1>1. \E rec \in JobRecord :
        /\ \/ rec.node = jobs[cur].node /\ rec.runner = jobs[cur].runner
           \/ ~Registered(jobs[cur].runner)
        /\ saveLocked([jobs EXCEPT ![cur] = rec])
  <2>1. CASE recordRunning
    <3> DEFINE rec == [jobs[cur] EXCEPT !.status = "running", !.inst = TRUE]
    <3>1. rec \in JobRecord /\ rec.node = jobs[cur].node /\ rec.runner = jobs[cur].runner
      BY <1>0 DEF JobRecord, Active
    <3>2. [jobs EXCEPT ![cur].status = "running", ![cur].inst = TRUE] = [jobs EXCEPT ![cur] = rec]
      BY <1>0
    <3>3. saveLocked([jobs EXCEPT ![cur] = rec])
      BY <2>1, <3>2 DEF recordRunning
    <3> HIDE DEF rec
    <3> QED BY <3>1, <3>3
  <2>2. CASE deferCleanup
    <3> DEFINE rec == [jobs[cur] EXCEPT !.status = "cleanup_pending"]
    <3>1. rec \in JobRecord /\ rec.node = jobs[cur].node /\ rec.runner = jobs[cur].runner
      BY <1>0 DEF JobRecord, Active
    <3>2. [jobs EXCEPT ![cur].status = "cleanup_pending"] = [jobs EXCEPT ![cur] = rec]
      BY <1>0
    <3>3. saveLocked([jobs EXCEPT ![cur] = rec])
      BY <2>2, <3>2 DEF deferCleanup
    <3> HIDE DEF rec
    <3> QED BY <3>1, <3>3
  <2>3. CASE undoSave \/ recoverSave
    <3>1. ~Registered(jobs[cur].runner) /\ saveLocked([jobs EXCEPT ![cur] = Pending(jobs[cur].attempt)])
      BY <2>3 DEF undoSave, recoverSave, saveLocked, Inv, RunnerInv, Handover, Releasing
    <3>2. jobs[cur].attempt \in Nat
      BY <1>0 DEF JobRecord
    <3> QED BY <3>1, <3>2, RecordTypes
  <2>4. CASE finish
    <3>1. ~Registered(jobs[cur].runner) /\ saveLocked([jobs EXCEPT ![cur] = Tombstone("completed")])
      BY <2>4 DEF finish, Inv, RunnerInv, Handover, Releasing
    <3>2. Tombstone("completed") \in JobRecord
      BY RecordTypes DEF Tombstones
    <3> QED BY <3>1, <3>2
  <2> QED BY <2>1, <2>2, <2>3, <2>4
<1>2. UsableIsOnRecord' /\ LateIsOnRecord'
  BY <1>0, <1>1, WriteRecord
<1> QED BY <1>0, <1>2 DEF RunnerInv, Handover, Releasing

(* A container is created, or left to be created, under a saved record.     *)
LEMMA CreateInv == Inv /\ CreateInstance => RunnerInv'
<1> SUFFICES ASSUME Inv, CreateInstance PROVE RunnerInv'
  OBVIOUS
<1> DEFINE n == jobs[cur].node
           r == jobs[cur].runner
<1>0. /\ pc = "create" /\ cur \in Jobs /\ n \in Nodes /\ OnRecord(n, cur, r)
      /\ UNCHANGED <<cur, disk, reg>> /\ pc' \in {"started", "undoDestroy"}
      /\ cont \in [Nodes -> [Jobs -> Container]] /\ jobs \in [Jobs -> JobRecord]
      /\ \A q \in late : q.job \in Jobs
  BY DEF Inv, TypeInv, TypeOK, Control, Shape, Active, RunnerInv, Handover, CreateInstance, Goto,
     ghVars, Request
<1>1. /\ cont' = cont \/ cont' = [cont EXCEPT ![n][cur] = [runner |-> r, left |-> Timeout, up |-> TRUE]]
      /\ late' = late \/ late' = late \cup {[node |-> n, job |-> cur, runner |-> r]}
      /\ jobs' = jobs \/ jobs' = [jobs EXCEPT ![cur].left = Timeout + Grace]
  BY DEF CreateInstance, Created, agentVars
<1>2. \A j \in Jobs : jobs'[j].node = jobs[j].node /\ jobs'[j].runner = jobs[j].runner
  BY <1>0, <1>1, SMT DEF JobRecord
<1>3. \A m, x : \A j \in Jobs : OnRecord(m, j, x) => OnRecord(m, j, x)'
  BY <1>0, <1>2, SMT DEF OnRecord
<1>4. \A x : Registered(x)' <=> Registered(x)
  BY <1>0 DEF Registered
<1>5. \A m \in Nodes, j \in Jobs :
        \/ cont'[m][j].runner = cont[m][j].runner
        \/ m = n /\ j = cur /\ cont'[m][j].runner = r
  BY <1>0, <1>1, SMT
<1>6. UsableIsOnRecord'
  <2> SUFFICES ASSUME NEW m \in Nodes, NEW j \in Jobs, Usable(m, j)'
               PROVE  OnRecord(m, j, cont[m][j].runner)'
    BY DEF UsableIsOnRecord
  <2>1. CASE cont'[m][j].runner = cont[m][j].runner
    <3>1. Usable(m, j)
      BY <1>4, <2>1 DEF Usable
    <3>2. OnRecord(m, j, cont'[m][j].runner)
      BY <2>1, <3>1 DEF Inv, RunnerInv, UsableIsOnRecord
    <3> QED BY <1>3, <3>2
  <2>2. CASE m = n /\ j = cur /\ cont'[m][j].runner = r
    <3>1. OnRecord(m, j, cont'[m][j].runner)
      BY <1>0, <2>2
    <3> QED BY <1>3, <3>1
  <2> QED BY <1>5, <2>1, <2>2
<1>7. LateIsOnRecord'
  BY <1>0, <1>1, <1>3, <1>4, SMT DEF Inv, RunnerInv, LateIsOnRecord
<1> QED BY <1>0, <1>6, <1>7 DEF RunnerInv, Handover, Releasing

(***************************************************************************)
(* The environment                                                         *)
(***************************************************************************)
(* A crash reloads the state file, which has every usable container on      *)
(* record.                                                                  *)
LEMMA CrashInv == Inv /\ Crash => RunnerInv'
<1> SUFFICES ASSUME Inv, Crash PROVE RunnerInv'
  OBVIOUS
<1>0. jobs' = disk /\ disk' = disk /\ UNCHANGED <<cont, reg>> /\ pc' = "boot"
  BY DEF Crash, loadState, ghVars
<1>1. \A m, j, x : OnRecord(m, j, x) => OnRecord(m, j, x)'
  BY <1>0 DEF OnRecord
<1>2. \A x : Registered(x)' <=> Registered(x)
  BY <1>0 DEF Registered
<1>3. UsableIsOnRecord'
  BY <1>0, <1>1, <1>2 DEF Inv, RunnerInv, UsableIsOnRecord, Usable
<1>4. LateIsOnRecord'
  BY <1>1, <1>2, SMT DEF Crash, loadState, Inv, RunnerInv, LateIsOnRecord, Handover
<1> QED BY <1>0, <1>3, <1>4 DEF RunnerInv, Handover, Releasing

(* Steps that leave the goroutine alone, register nothing and put no runner *)
(* anywhere.                                                                *)
LEMMA EnvInv ==
  ASSUME Inv, UNCHANGED mgrVars, reg' \subseteq reg, late' \subseteq late,
         \A n \in Nodes, j \in Jobs : cont'[n][j].runner \in {cont[n][j].runner, NoRunner},
         \A j \in Jobs : /\ jobs'[j].node = jobs[j].node /\ jobs'[j].runner = jobs[j].runner
                         /\ disk'[j].node = disk[j].node /\ disk'[j].runner = disk[j].runner
  PROVE  RunnerInv'
<1>1. UsableIsOnRecord' /\ LateIsOnRecord'
  BY KeepRecords
<1>2. \A r : Registered(r)' => Registered(r)
  BY RegistrationsShrink
<1>3. pc' \in {"create"} \cup Releasing => cur' = cur /\ cur \in Jobs /\ pc' = pc
  BY DEF mgrVars, Inv, TypeInv, Control, Releasing
<1>4. Handover'
  BY <1>2, <1>3 DEF Handover, OnRecord, Inv, RunnerInv
<1> QED BY <1>1, <1>4 DEF RunnerInv

(* Webhooks, heartbeats and stuttering touch neither records nor            *)
(* containers.                                                              *)
LEMMA QuietInv ==
  ASSUME Inv, \/ Deliveries
              \/ \E n \in Nodes : heartbeat(n) \/ heartbeatsStop(n)
              \/ UNCHANGED vars
  PROVE  RunnerInv'
<1>1. UNCHANGED <<mgrVars, storeVars, cont, late, reg>>
  BY
    DEF Deliveries, webhook, ignoreWebhook, loseWebhook, heartbeat, heartbeatsStop, vars,
        agentVars, ghVars
<1> QED BY <1>1, EnvInv DEF storeVars

(* The janitor and an exiting container start nothing.                      *)
LEMMA JanitorInv ==
  Inv /\ (\E n \in Nodes, j \in Jobs : janitor(n, j) \/ containerExits(n, j)) => RunnerInv'
<1> SUFFICES ASSUME Inv, NEW n \in Nodes, NEW j \in Jobs, janitor(n, j) \/ containerExits(n, j)
             PROVE  RunnerInv'
  OBVIOUS
<1>1. UNCHANGED <<mgrVars, storeVars, late, reg>>
  BY DEF janitor, containerExits, ghVars
<1>2. \A m \in Nodes, k \in Jobs : cont'[m][k].runner \in {cont[m][k].runner, NoRunner}
  <2>1. cont \in [Nodes -> [Jobs -> Container]]
    BY DEF Inv, TypeInv, TypeOK
  <2>2. CASE janitor(n, j)
    BY <2>1, <2>2 DEF janitor, NoCont
  <2>3. CASE containerExits(n, j)
    BY <2>1, <2>3, SMT DEF containerExits, Container
  <2> QED BY <2>2, <2>3
<1> QED BY <1>1, <1>2, EnvInv DEF storeVars

(* A request that arrives late starts a container that is on record if it   *)
(* is usable at all.                                                        *)
LEMMA LateInv == Inv /\ (\E q \in late : lateCreate(q)) => RunnerInv'
<1> SUFFICES ASSUME Inv, NEW q \in late, lateCreate(q) PROVE RunnerInv'
  OBVIOUS
<1>0. /\ UNCHANGED <<mgrVars, storeVars, reg>> /\ late' \subseteq late
      /\ q.node \in Nodes /\ q.job \in Jobs
      /\ cont \in [Nodes -> [Jobs -> Container]]
  BY DEF lateCreate, ghVars, Inv, TypeInv, TypeOK, Request
<1>1. \A m \in Nodes, j \in Jobs :
        \/ cont'[m][j].runner = cont[m][j].runner
        \/ m = q.node /\ j = q.job /\ cont'[m][j].runner = q.runner
  BY <1>0 DEF lateCreate, Created
<1>2. /\ \A x : Registered(x)' <=> Registered(x)
      /\ \A m, j, x : OnRecord(m, j, x)' <=> OnRecord(m, j, x)
  BY <1>0 DEF Registered, OnRecord, storeVars
<1>3. UsableIsOnRecord'
  <2> SUFFICES ASSUME NEW n \in Nodes, NEW j \in Jobs, Usable(n, j)'
               PROVE  OnRecord(n, j, cont[n][j].runner)'
    BY DEF UsableIsOnRecord
  <2>1. Registered(cont'[n][j].runner)
    BY <1>2 DEF Usable
  <2>2. CASE cont'[n][j].runner = cont[n][j].runner
    BY <1>2, <2>1, <2>2 DEF Inv, RunnerInv, UsableIsOnRecord, Usable
  <2>3. CASE n = q.node /\ j = q.job /\ cont'[n][j].runner = q.runner
    BY <1>2, <2>1, <2>3 DEF Inv, RunnerInv, LateIsOnRecord
  <2> QED BY <1>1, <2>2, <2>3
<1>4. LateIsOnRecord'
  BY <1>0, <1>2 DEF Inv, RunnerInv, LateIsOnRecord
<1>5. Handover'
  BY <1>0, <1>2 DEF Inv, RunnerInv, Handover, Registered, OnRecord, mgrVars, storeVars
<1> QED BY <1>3, <1>4, <1>5 DEF RunnerInv

(* GitHub registers no runner by itself.                                    *)
LEMMA GitHubInv == Inv /\ GitHub => RunnerInv'
<1> SUFFICES ASSUME Inv, GitHub PROVE RunnerInv'
  OBVIOUS
<1>0. cont \in [Nodes -> [Jobs -> Container]]
  BY DEF Inv, TypeInv, TypeOK
<1>1. ASSUME NEW j \in Jobs, jobCancelled(j) \/ jobLost(j) PROVE RunnerInv'
  <2>1. UNCHANGED <<mgrVars, storeVars, cont, late>> /\ reg' \subseteq reg
    BY <1>1 DEF jobCancelled, jobLost, Over
  <2> QED BY <2>1, EnvInv DEF storeVars
<1>2. ASSUME NEW j \in Jobs, NEW n \in Nodes, NEW k \in Jobs, assign(j, n, k) PROVE RunnerInv'
  <2>1. UNCHANGED <<mgrVars, storeVars, cont, late, reg>>
    BY <1>2 DEF assign, agentVars
  <2> QED BY <2>1, EnvInv DEF storeVars
<1>3. ASSUME NEW j \in Jobs, NEW n \in Nodes, NEW k \in Jobs, jobEnds(j, n, k) PROVE RunnerInv'
  <2>1. UNCHANGED <<mgrVars, storeVars, late>> /\ reg' \subseteq reg
    BY <1>3 DEF jobEnds, Over
  <2>2. \A m \in Nodes, i \in Jobs : cont'[m][i].runner \in {cont[m][i].runner, NoRunner}
    BY <1>0, <1>3, SMT DEF jobEnds, Container
  <2> QED BY <2>1, <2>2, EnvInv DEF storeVars
<1> QED BY <1>1, <1>2, <1>3 DEF GitHub

(* Time changes timers only.                                                *)
LEMMA TickInv == Inv /\ Tick => RunnerInv'
<1> SUFFICES ASSUME Inv, Tick PROVE RunnerInv'
  OBVIOUS
<1>1. ASSUME NEW s \in [Jobs -> JobRecord], NEW j \in Jobs
      PROVE  Aged(s)[j].node = s[j].node /\ Aged(s)[j].runner = s[j].runner
  <2>1. s[j] \in JobRecord
    OBVIOUS
  <2> QED BY <2>1 DEF Aged, JobRecord
<1>2. ASSUME NEW n \in Nodes, NEW j \in Jobs PROVE cont'[n][j].runner = cont[n][j].runner
  <2>1. cont[n][j] \in Container
    BY SMT DEF Inv, TypeInv, TypeOK
  <2> QED BY <2>1 DEF Tick, Aged, Container
<1>3. \A j \in Jobs : /\ jobs'[j].node = jobs[j].node /\ jobs'[j].runner = jobs[j].runner
                      /\ disk'[j].node = disk[j].node /\ disk'[j].runner = disk[j].runner
  BY <1>1 DEF Tick, Inv, TypeInv, TypeOK
<1> QED BY <1>2, <1>3, EnvInv DEF Tick, ghVars

(* Inv is inductive if GitHub never refuses to delete a runner.             *)
LEMMA RunnerStep ==
  ASSUME "delete" \notin Faults
  PROVE  Inv /\ [Next]_vars => Inv'
<1> SUFFICES ASSUME Inv, [Next]_vars PROVE Inv'
  OBVIOUS
<1>1. TypeInv'
  BY TypeStep DEF Inv
<1>2. CASE Run
  <2>1. CASE tryProvision
    BY <1>1, <2>1, CheckInv, JITInv, RecordInv, CreateInv, DestroyStepsInv, DeleteStepsInv,
       WriteStepsInv DEF tryProvision, Inv
  <2>2. CASE completing \/ recoverProvisioning
    BY <1>1, <2>2, DestroyStepsInv, DeleteStepsInv, WriteStepsInv
       DEF completing, recoverProvisioning, Inv
  <2> QED BY <1>1, <1>2, <2>1, <2>2, QueuedInv, CompletedInv, ReconcileInv, VisitInv
       DEF Run, Process, Handler, Inv
<1>3. CASE ~Run
  BY <1>1, <1>3, CrashInv, QuietInv, JanitorInv, LateInv, GitHubInv, TickInv DEF Next, Agents, Inv
<1> QED BY <1>2, <1>3

(* However often provisioning of a job is retried, interrupted and          *)
(* recovered, at most one of its containers can be given work, and both the *)
(* controller's memory and its state file name that container: for any      *)
(* numbers of jobs, nodes and crashes and for every failure except a runner *)
(* GitHub refuses to delete.                                                *)
THEOREM OneRunner ==
  ASSUME "delete" \notin Faults
  PROVE  Spec => [](OneUsableRunner /\ UsableIsOnRecord)
<1>1. Init => Inv
  BY InitTypeInv, InitRunnerInv DEF Inv
<1>2. Inv /\ [Next]_vars => Inv'
  BY RunnerStep
<1>3. Inv => OneUsableRunner /\ UsableIsOnRecord
  <2> SUFFICES ASSUME Inv PROVE OneUsableRunner
    BY DEF Inv, RunnerInv
  <2> QED BY DEF Inv, RunnerInv, UsableIsOnRecord, OnRecord, OneUsableRunner
<1> QED BY <1>1, <1>2, <1>3, PTL DEF Spec

(* A container GitHub can give work to is named by its job's record, in     *)
(* memory and in the state file, at every moment of every handler and       *)
(* through every crash.                                                     *)
COROLLARY AlwaysOnRecord ==
  ASSUME "delete" \notin Faults
  PROVE  Spec => []UsableIsOnRecord
  BY OneRunner, PTL

=============================================================================
