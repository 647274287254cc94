------------------------ MODULE RunnerManagerProofs ------------------------
(* Type correctness of RunnerManager, what a step can do to a job record,   *)
(* to the registrations and to the queue, and that a tombstone in the state *)
(* file keeps its job closed, for all constants and all kinds of failures.  *)
EXTENDS RunnerManager, TLAPS

(* A record holds a node and a runner exactly while it is active.           *)
Shape(store) ==
  \A j \in Jobs :
    IF store[j].status \in Active
      THEN store[j].node \in Nodes /\ store[j].runner \in Runners
      ELSE store[j].node = NoNode /\ store[j].runner = NoRunner

(* What the goroutine of Run knows at each location.                        *)
Control ==
  /\ pc \notin {"boot", "idle", "loop"} => cur \in Jobs
  /\ pc \in {"jit", "record"} => target \in Nodes
  /\ pc = "record" => jit \in Runners
  /\ pc \in {"getrun", "jit", "record"} => jobs[cur].status = "pending"
  /\ pc \in {"create", "started", "dropRunner", "undoDestroy", "undoDelete", "undoSave",
             "recover", "recoverDelete", "recoverSave"}
       => jobs[cur].status = "provisioning"
  /\ pc \in {"complete", "cleanup", "defer"} => jobs[cur].status \in Active
  /\ pc = "stray" => jobs[cur].status = "absent"

TypeInv == TypeOK /\ Control /\ Shape(jobs) /\ Shape(disk)

(* Zenon proves most leaves; a leaf with arithmetic or records cites SMT.    *)
USE ConstantsAssumption, Zenon

(* A new channel is empty.                                                  *)
LEMMA EmptyChannel == << >> \in Channel
  BY SMT DEF Channel

(* TypeInv holds when the controller first starts (NewRunnerManager).       *)
LEMMA InitTypeInv == Init => TypeInv
  BY EmptyChannel, SMT DEF Init, TypeInv, TypeOK, Control, Shape, Absent, Blank, NoCont, NoName, Queued,
     JobRecord, Container, RunnerName, Event, Locations, Active, Views, Request, Tombstones

(* The constant records are well typed.                                     *)
LEMMA RecordTypes ==
  /\ Absent \in JobRecord /\ \A a \in Nat : Pending(a) \in JobRecord
  /\ \A s \in Tombstones : Tombstone(s) \in JobRecord
  /\ NoCont \in Container /\ NoName \notin RunnerName
  BY
    DEF Absent, Pending, Tombstone, Blank, JobRecord, NoCont, Container, Tombstones, NoName,
        RunnerName

(* Replacing one container of one node.                                     *)
LEMMA ContainerUpdate ==
  ASSUME NEW f \in [Nodes -> [Jobs -> Container]], NEW n, NEW j, NEW c \in Container
  PROVE  [f EXCEPT ![n][j] = c] \in [Nodes -> [Jobs -> Container]]
<1>1. ASSUME NEW m \in Nodes
      PROVE  [f EXCEPT ![n][j] = c][m] \in [Jobs -> Container]
  <2>1. f[m] \in [Jobs -> Container] /\ [f[m] EXCEPT ![j] = c] \in [Jobs -> Container]
    OBVIOUS
  <2>2. [f EXCEPT ![n][j] = c][m] = IF m = n THEN [f[m] EXCEPT ![j] = c] ELSE f[m]
    OBVIOUS
  <2> QED BY <2>1, <2>2
<1>2. [f EXCEPT ![n][j] = c] = [m \in Nodes |-> [f EXCEPT ![n][j] = c][m]]
  OBVIOUS
<1> QED BY <1>1, <1>2

(* What TypeInv says of the variables that calls change.                    *)
LEMMA TypeParts ==
  ASSUME TypeInv
  PROVE  /\ queue \in Channel /\ hooks \subseteq Event /\ faults \in Nat
         /\ cont \in [Nodes -> [Jobs -> Container]] /\ late \subseteq Request
         /\ reg \subseteq RunnerName
  BY DEF TypeInv, TypeOK

(* What it says of the records.                                             *)
LEMMA RecordParts ==
  ASSUME TypeInv
  PROVE  /\ jobs \in [Jobs -> JobRecord] /\ disk \in [Jobs -> JobRecord]
         /\ Shape(jobs) /\ Shape(disk)
  BY DEF TypeInv, TypeOK

(* And of the goroutine's locals.                                           *)
LEMMA LocalParts ==
  ASSUME TypeInv
  PROVE  /\ pc \in Locations /\ cur \in Jobs \cup {NoJob} /\ target \in Nodes \cup {NoNode}
         /\ jit \in Runners \cup {NoRunner} /\ todo \subseteq Jobs /\ Control
  BY DEF TypeInv, TypeOK

(* Taking an event off the queue.                                           *)
LEMMA QueueTypes ==
  ASSUME queue \in Channel, queue # << >>
  PROVE  /\ Head(queue) \in Event /\ Tail(queue) \in Channel
         /\ Head(queue).job \in Jobs /\ Head(queue).on \in Nodes \cup {NoNode}
<1>1. Head(queue) \in Event /\ Tail(queue) \in Seq(Event) /\ Len(Tail(queue)) <= QueueSize
  BY SMT DEF Channel
<1> QED BY <1>1 DEF Event, Channel

(* A handler that returns leaves nothing to know about its locals.          *)
LEMMA ReturnType ==
  ASSUME TypeInv, Return
  PROVE  /\ pc' \in {"idle", "loop"} /\ cur' = NoJob /\ target' = NoNode
         /\ jit' = NoRunner /\ todo' \subseteq Jobs /\ Control'
<1>1. /\ pc' \in {"idle", "loop"} /\ cur' = NoJob /\ target' = NoNode
      /\ jit' = NoRunner /\ todo' \subseteq Jobs
  BY LocalParts DEF Return
<1>2. Control'
  BY <1>1 DEF Control
<1> QED BY <1>1, <1>2

(* What a handler knows stays true while it stands still.                   *)
LEMMA ControlFrame ==
  ASSUME TypeInv, UNCHANGED <<pc, cur, target, jit, jobs>>
  PROVE  Control'
  BY LocalParts DEF Control

(* A step with well-typed results.                                          *)
LEMMA WriteFrame ==
  ASSUME TypeInv, jobs' \in [Jobs -> JobRecord], disk' \in [Jobs -> JobRecord],
         Shape(jobs)', Shape(disk)', Control',
         pc' \in Locations, cur' \in Jobs \cup {NoJob}, target' \in Nodes \cup {NoNode},
         jit' \in Runners \cup {NoRunner}, todo' \subseteq Jobs,
         UNCHANGED <<view, gh, by, crashes>>, queue' \in Channel, faults' \in Nat,
         cont' \in [Nodes -> [Jobs -> Container]], late' \subseteq Request,
         reg' \subseteq RunnerName, hooks' \subseteq Event
  PROVE  TypeInv'
<1>1. /\ view' \in [Nodes -> Views] /\ gh' \in [Jobs -> {"queued", "running", "done"}]
      /\ by' \in [Jobs -> RunnerName \cup {NoName}] /\ crashes' \in Nat
  BY DEF TypeInv, TypeOK
<1>2. TypeOK'
  BY <1>1 DEF TypeOK
<1> QED BY <1>2 DEF TypeInv

(* A step that leaves the records alone and returns or goes to a location.  *)
LEMMA HandlerFrame ==
  ASSUME TypeInv, UNCHANGED storeVars, Control',
         pc' \in Locations, cur' \in Jobs \cup {NoJob}, target' \in Nodes \cup {NoNode},
         jit' \in Runners \cup {NoRunner}, todo' \subseteq Jobs,
         UNCHANGED <<view, gh, by, crashes>>, queue' \in Channel, faults' \in Nat,
         cont' \in [Nodes -> [Jobs -> Container]], late' \subseteq Request,
         reg' \subseteq RunnerName, hooks' \subseteq Event
  PROVE  TypeInv'
<1>1. jobs' = jobs /\ disk' = disk
  BY DEF storeVars
<1>2. /\ jobs' \in [Jobs -> JobRecord] /\ disk' \in [Jobs -> JobRecord]
      /\ Shape(jobs)' /\ Shape(disk)'
  BY <1>1, RecordParts DEF Shape
<1> QED BY <1>2, WriteFrame

(* A call that leaves the records alone, and a return.                      *)
LEMMA ReturnFrame ==
  ASSUME TypeInv, Return, UNCHANGED storeVars,
         UNCHANGED <<queue, view, gh, by, hooks, crashes>>, faults' \in Nat,
         cont' \in [Nodes -> [Jobs -> Container]], late' \subseteq Request,
         reg' \subseteq RunnerName
  PROVE  TypeInv'
<1>1. /\ pc' \in Locations /\ cur' \in Jobs \cup {NoJob} /\ target' \in Nodes \cup {NoNode}
      /\ jit' \in Runners \cup {NoRunner} /\ todo' \subseteq Jobs /\ Control'
  BY ReturnType DEF Locations
<1>2. queue' \in Channel /\ hooks' \subseteq Event
  BY TypeParts
<1> QED BY <1>1, <1>2, HandlerFrame

(* A call that leaves the records alone, and the next call.                 *)
LEMMA GotoFrame ==
  ASSUME TypeInv, UNCHANGED storeVars, Control', pc' \in Locations,
         target' \in Nodes \cup {NoNode}, UNCHANGED <<cur, jit, todo>>,
         UNCHANGED <<queue, view, gh, by, hooks, crashes>>, faults' \in Nat,
         cont' \in [Nodes -> [Jobs -> Container]], late' \subseteq Request,
         reg' \subseteq RunnerName
  PROVE  TypeInv'
<1>1. /\ cur' \in Jobs \cup {NoJob} /\ jit' \in Runners \cup {NoRunner} /\ todo' \subseteq Jobs
      /\ queue' \in Channel /\ hooks' \subseteq Event
  BY LocalParts, TypeParts
<1> QED BY <1>1, HandlerFrame

(* The number of attempts is a number.                                      *)
LEMMA AttemptType ==
  ASSUME TypeInv, NEW j \in Jobs
  PROVE  jobs[j].attempt \in Nat
<1>1. jobs[j] \in JobRecord
  BY RecordParts
<1> QED BY <1>1 DEF JobRecord

(* Records that hold a node and a runner, or neither.                       *)
WellShaped(rec) ==
  IF rec.status \in Active
    THEN rec.node \in Nodes /\ rec.runner \in Runners
    ELSE rec.node = NoNode /\ rec.runner = NoRunner

(* The records without a node are well shaped.                              *)
LEMMA BlankShape ==
  /\ \A a \in Nat : Pending(a) \in JobRecord /\ WellShaped(Pending(a))
  /\ \A s \in Tombstones : Tombstone(s) \in JobRecord /\ WellShaped(Tombstone(s))
<1>1. \A a : WellShaped(Pending(a))
  BY DEF WellShaped, Pending, Blank, Active
<1>2. \A s \in Tombstones : WellShaped(Tombstone(s))
  BY DEF WellShaped, Tombstone, Tombstones, Blank, Active
<1> QED BY <1>1, <1>2, RecordTypes

(* Replacing one record of a store.                                         *)
LEMMA StoreUpdate ==
  ASSUME NEW f \in [Jobs -> JobRecord], Shape(f), NEW j \in Jobs,
         NEW rec \in JobRecord, WellShaped(rec)
  PROVE  /\ [f EXCEPT ![j] = rec] \in [Jobs -> JobRecord] /\ Shape([f EXCEPT ![j] = rec])
         /\ [f EXCEPT ![j] = rec][j] = rec
<1> DEFINE g == [f EXCEPT ![j] = rec]
<1>1. g \in [Jobs -> JobRecord] /\ \A k \in Jobs : g[k] = IF k = j THEN rec ELSE f[k]
  OBVIOUS
<1> HIDE DEF g
<1>2. Shape(g)
  BY <1>1 DEF Shape, WellShaped
<1>3. g[j] = rec
  BY <1>1
<1> QED BY <1>1, <1>2, <1>3 DEF g

(* Writing a well-shaped record keeps both stores well-shaped.              *)
LEMMA WriteType ==
  ASSUME TypeInv, NEW j \in Jobs, NEW rec \in JobRecord, WellShaped(rec),
         saveLocked([jobs EXCEPT ![j] = rec])
  PROVE  /\ jobs' \in [Jobs -> JobRecord] /\ disk' \in [Jobs -> JobRecord]
         /\ Shape(jobs)' /\ Shape(disk)' /\ faults' \in Nat
         /\ jobs'[j] = rec
<1> DEFINE new == [jobs EXCEPT ![j] = rec]
<1>1. new \in [Jobs -> JobRecord] /\ Shape(new) /\ new[j] = rec
  BY RecordParts, StoreUpdate
<1> HIDE DEF new
<1>2. jobs' = new /\ (disk' = disk \/ disk' = new) /\ faults' \in Nat
  BY TypeParts, SMT DEF saveLocked, saved, saveFails, NoFault, Fault, new
<1>3. Shape(jobs)' /\ Shape(disk)'
  BY <1>1, <1>2, RecordParts DEF Shape
<1> QED BY <1>1, <1>2, <1>3, RecordParts

(* A write followed by a return.                                            *)
LEMMA WriteReturnType ==
  ASSUME TypeInv, cur \in Jobs, NEW rec \in JobRecord, WellShaped(rec),
         saveLocked([jobs EXCEPT ![cur] = rec]), Return,
         UNCHANGED <<queue, view, agentVars, ghVars, crashes>>
  PROVE  TypeInv'
<1>1. /\ jobs' \in [Jobs -> JobRecord] /\ disk' \in [Jobs -> JobRecord]
      /\ Shape(jobs)' /\ Shape(disk)' /\ faults' \in Nat
  BY WriteType
<1>2. /\ pc' \in Locations /\ cur' \in Jobs \cup {NoJob} /\ target' \in Nodes \cup {NoNode}
      /\ jit' \in Runners \cup {NoRunner} /\ todo' \subseteq Jobs /\ Control'
  BY ReturnType DEF Locations
<1>3. /\ queue' \in Channel /\ hooks' \subseteq Event /\ reg' \subseteq RunnerName
      /\ cont' \in [Nodes -> [Jobs -> Container]] /\ late' \subseteq Request
      /\ UNCHANGED <<view, gh, by, crashes>>
  BY TypeParts DEF agentVars, ghVars
<1> QED BY <1>1, <1>2, <1>3, WriteFrame

(* A write followed by a call.                                              *)
LEMMA WriteGotoType ==
  ASSUME TypeInv, NEW j \in Jobs, NEW rec \in JobRecord, WellShaped(rec),
         saveLocked([jobs EXCEPT ![j] = rec]), queue' \in Channel,
         jobs'[j] = rec => Control', pc' \in Locations, cur' = j,
         target' \in Nodes \cup {NoNode}, jit' \in Runners \cup {NoRunner}, todo' = todo,
         UNCHANGED <<view, agentVars, ghVars, crashes>>
  PROVE  TypeInv'
<1>1. /\ jobs' \in [Jobs -> JobRecord] /\ disk' \in [Jobs -> JobRecord]
      /\ Shape(jobs)' /\ Shape(disk)' /\ faults' \in Nat /\ jobs'[j] = rec
  BY WriteType
<1>2. /\ hooks' \subseteq Event /\ reg' \subseteq RunnerName
      /\ cont' \in [Nodes -> [Jobs -> Container]] /\ late' \subseteq Request
      /\ UNCHANGED <<view, gh, by, crashes>>
  BY TypeParts DEF agentVars, ghVars
<1>3. cur' \in Jobs \cup {NoJob} /\ todo' \subseteq Jobs
  BY LocalParts
<1> QED BY <1>1, <1>2, <1>3, WriteFrame

(* handleQueued writes a pending record or none.                            *)
LEMMA QueuedType == TypeInv /\ handleQueued => TypeInv'
<1> SUFFICES ASSUME TypeInv, handleQueued PROVE TypeInv'
  OBVIOUS
<1> DEFINE j == Head(queue).job
<1>0. /\ queue # << >> /\ queue' = Tail(queue)
      /\ UNCHANGED <<view, agentVars, ghVars, crashes>>
  BY DEF handleQueued, Receive
<1>q. queue' \in Channel /\ j \in Jobs
  BY <1>0, TypeParts, QueueTypes
<1>1. CASE UNCHANGED <<mgrVars, storeVars>> /\ faults' \in Nat
  <2>1. UNCHANGED <<pc, cur, target, jit, todo, jobs, view, cont, late, gh, by, reg, hooks, crashes>>
    BY <1>0, <1>1 DEF mgrVars, storeVars, agentVars, ghVars
  <2>2. Control'
    BY <2>1, ControlFrame
  <2> QED BY <1>q, <1>1, <2>1, <2>2, LocalParts, TypeParts, HandlerFrame
<1>2. CASE saved([jobs EXCEPT ![j] = Pending(0)]) /\ Enter("getrun", j)
  <2>1. Pending(0) \in JobRecord /\ WellShaped(Pending(0)) /\ Pending(0).status = "pending"
    BY BlankShape DEF Pending, Blank
  <2>2. saveLocked([jobs EXCEPT ![j] = Pending(0)])
    BY <1>2 DEF saveLocked
  <2>3. pc' = "getrun" /\ cur' = j /\ UNCHANGED <<target, jit, todo>>
    BY <1>2 DEF Enter
  <2>4. jobs'[j] = Pending(0) => Control'
    BY <1>q, <2>1, <2>3 DEF Control
  <2>5. pc' \in Locations /\ target' \in Nodes \cup {NoNode} /\ jit' \in Runners \cup {NoRunner}
    BY <2>3, LocalParts DEF Locations
  <2> HIDE DEF j
  <2> QED BY <1>0, <1>q, <2>1, <2>2, <2>3, <2>4, <2>5, WriteGotoType
<1>3. \/ UNCHANGED <<mgrVars, storeVars>> /\ faults' \in Nat
      \/ saved([jobs EXCEPT ![j] = Pending(0)]) /\ Enter("getrun", j)
  BY TypeParts, SMT DEF handleQueued, saveFails, Fault, storeVars
<1> QED BY <1>1, <1>2, <1>3

(* handleCompleted chooses the first call from the record.                  *)
LEMMA CompletedType == TypeInv /\ handleCompleted => TypeInv'
<1> SUFFICES ASSUME TypeInv, handleCompleted PROVE TypeInv'
  OBVIOUS
<1> DEFINE j == Head(queue).job
           on == nodeFromRunnerName(Head(queue))
           r == jobs[j]
<1>0. /\ queue # << >> /\ queue' = Tail(queue) /\ pc = "idle"
      /\ UNCHANGED <<storeVars, view, agentVars, ghVars, faults, crashes>>
  BY DEF handleCompleted, Receive
<1>q. queue' \in Channel /\ j \in Jobs /\ on \in Nodes \cup {NoNode}
  BY <1>0, TypeParts, QueueTypes DEF nodeFromRunnerName
<1>1. \/ r = Absent /\ pc' = "stray" /\ cur' = j /\ target' = on /\ UNCHANGED <<jit, todo>>
      \/ pc' \in {"finish", "delete"} /\ cur' = j /\ UNCHANGED <<target, jit, todo>>
      \/ UNCHANGED mgrVars
      \/ rawNode(r.node) /\ pc' = "complete" /\ cur' = j /\ UNCHANGED <<target, jit, todo>>
  BY DEF handleCompleted, Enter, AfterDestroy
<1>u. UNCHANGED <<jobs, view, cont, late, gh, by, reg, hooks, faults, crashes>>
  BY <1>0 DEF storeVars, agentVars, ghVars
<1>c. rawNode(r.node) => r.status \in Active
  BY <1>q, RecordParts DEF Shape, rawNode
<1> HIDE DEF j, on
<1>2. /\ Control' /\ pc' \in Locations /\ cur' \in Jobs \cup {NoJob}
      /\ target' \in Nodes \cup {NoNode} /\ UNCHANGED <<jit, todo>>
  <2>1. CASE r = Absent /\ pc' = "stray" /\ cur' = j /\ target' = on /\ UNCHANGED <<jit, todo>>
    <3>1. jobs'[cur'].status = "absent"
      BY <1>u, <2>1, SMT DEF Absent, Blank
    <3> QED BY <1>q, <2>1, <3>1 DEF Control, Locations
  <2>2. CASE pc' \in {"finish", "delete"} /\ cur' = j /\ UNCHANGED <<target, jit, todo>>
    BY <1>q, <2>2, LocalParts DEF Control, Locations
  <2>3. CASE UNCHANGED mgrVars
    BY <1>u, <2>3, LocalParts, ControlFrame DEF mgrVars
  <2>4. CASE rawNode(r.node) /\ pc' = "complete" /\ cur' = j /\ UNCHANGED <<target, jit, todo>>
    <3>1. jobs'[cur'].status \in Active
      BY <1>u, <1>c, <2>4
    <3> QED BY <1>q, <2>4, <3>1, LocalParts DEF Control, Locations
  <2> QED BY <1>1, <2>1, <2>2, <2>3, <2>4
<1>3. jit' \in Runners \cup {NoRunner} /\ todo' \subseteq Jobs
  BY <1>2, LocalParts
<1> QED BY <1>0, <1>q, <1>u, <1>2, <1>3, TypeParts, HandlerFrame

(* reconcile writes pruned records.                                         *)
LEMMA ReconcileType == TypeInv /\ reconcile => TypeInv'
<1> SUFFICES ASSUME TypeInv, reconcile PROVE TypeInv'
  OBVIOUS
<1> DEFINE pruned == [j \in Jobs |-> IF Expired(jobs[j]) THEN Absent ELSE jobs[j]]
<1>1. pc' \in {"idle", "loop"} /\ todo' \subseteq Jobs /\ UNCHANGED <<cur, target, jit>>
  BY DEF reconcile
<1>2. pruned \in [Jobs -> JobRecord] /\ Shape(pruned)
  <2>1. pruned \in [Jobs -> JobRecord]
    BY RecordTypes, RecordParts
  <2>2. WellShaped(Absent)
    BY DEF WellShaped, Absent, Blank, Active
  <2>3. Shape(pruned)
    BY <2>2, RecordParts DEF Shape, WellShaped
  <2> QED BY <2>1, <2>3
<1>3. /\ jobs' = jobs \/ jobs' = pruned
      /\ disk' = disk \/ disk' = pruned
      /\ faults' \in Nat
  BY TypeParts, SMT DEF reconcile, saveLocked, saved, saveFails, storeVars, NoFault, Fault
<1> HIDE DEF pruned
<1>4. jobs' \in [Jobs -> JobRecord] /\ disk' \in [Jobs -> JobRecord]
  BY <1>2, <1>3, RecordParts
<1>5. Shape(jobs)' /\ Shape(disk)'
  BY <1>2, <1>3, RecordParts, SMT DEF Shape
<1>6. Control'
  BY <1>1 DEF Control
<1>7. UNCHANGED <<queue, view, cont, late, gh, by, reg, hooks, crashes>>
  BY DEF reconcile, agentVars, ghVars
<1>8. pc' \in Locations
  BY <1>1 DEF Locations
<1> QED BY <1>1, <1>3, <1>4, <1>5, <1>6, <1>7, <1>8, LocalParts, TypeParts, WriteFrame

(* The branch of reconcile's loop fits the status of the record.            *)
LEMMA VisitType == TypeInv /\ (\E j \in Jobs : visit(j)) => TypeInv'
<1> SUFFICES ASSUME TypeInv, NEW j \in Jobs, visit(j) PROVE TypeInv'
  OBVIOUS
<1> DEFINE r == jobs[j]
<1>0. /\ pc = "loop" /\ cur' = j
      /\ UNCHANGED <<target, jit, todo, storeVars, jobs, queue, view, cont, late, gh, by, reg,
                     hooks, faults, crashes>>
  BY DEF visit, Enter, storeVars, agentVars, ghVars
<1>1. /\ Control' /\ pc' \in Locations
  <2>1. CASE r.status = "pending" /\ pc' = "getrun"
    BY <1>0, <2>1 DEF Control, Locations
  <2>2. CASE r.status = "provisioning" /\ pc' \in {"recover", "recoverDelete"}
    BY <1>0, <2>2 DEF Control, Locations
  <2>3. CASE rawNode(r.node) /\ pc' = "cleanup"
    <3>1. r.status \in Active
      BY <2>3, RecordParts DEF Shape, rawNode
    <3> QED BY <1>0, <2>3, <3>1 DEF Control, Locations
  <2>4. CASE pc' \in {"delete", "finish"}
    BY <1>0, <2>4 DEF Control, Locations
  <2> QED BY <2>1, <2>2, <2>3, <2>4 DEF visit, Enter, AfterDestroy
<1> QED BY <1>0, <1>1, LocalParts, TypeParts, HandlerFrame

(***************************************************************************)
(* tryProvision                                                            *)
(***************************************************************************)
LEMMA CheckType == TypeInv /\ checkAndPlace => TypeInv'
<1> SUFFICES ASSUME TypeInv, checkAndPlace PROVE TypeInv'
  OBVIOUS
<1>0. pc = "getrun" /\ UNCHANGED <<queue, view, agentVars, ghVars, crashes>>
  BY DEF checkAndPlace
<1>1. cur \in Jobs /\ jobs[cur].status = "pending"
  BY <1>0, LocalParts DEF Control
<1>2. UNCHANGED <<queue, view, cont, late, gh, by, reg, hooks, crashes>>
  BY <1>0 DEF agentVars, ghVars
<1>3. CASE Return /\ UNCHANGED storeVars /\ faults' \in Nat
  BY <1>2, <1>3, TypeParts, ReturnFrame
<1>4. CASE saveLocked([jobs EXCEPT ![cur] = Tombstone("rejected")]) /\ Return
  <2>1. Tombstone("rejected") \in JobRecord /\ WellShaped(Tombstone("rejected"))
    BY BlankShape DEF Tombstones
  <2> QED BY <1>0, <1>1, <1>4, <2>1, WriteReturnType
<1>5. CASE target' \in Nodes /\ pc' = "jit" /\ UNCHANGED <<cur, jit, todo, storeVars, faults>>
  <2>1. Control'
    BY <1>1, <1>5 DEF Control, storeVars
  <2>2. pc' \in Locations /\ target' \in Nodes \cup {NoNode}
    BY <1>5 DEF Locations
  <2> QED BY <1>2, <1>5, <2>1, <2>2, TypeParts, GotoFrame
<1>6. \/ Return /\ UNCHANGED storeVars /\ faults' \in Nat
      \/ saveLocked([jobs EXCEPT ![cur] = Tombstone("rejected")]) /\ Return
      \/ target' \in Nodes /\ pc' = "jit" /\ UNCHANGED <<cur, jit, todo, storeVars, faults>>
  BY TypeParts, SMT DEF checkAndPlace, Fault, place
<1> QED BY <1>3, <1>4, <1>5, <1>6

(* GenerateJITConfig registers a runner with a well-formed name.            *)
LEMMA JITType == TypeInv /\ GenerateJITConfig => TypeInv'
<1> SUFFICES ASSUME TypeInv, GenerateJITConfig PROVE TypeInv'
  OBVIOUS
<1>0. pc = "jit" /\ UNCHANGED <<storeVars, queue, view, agentVars, gh, by, hooks, crashes>>
  BY DEF GenerateJITConfig
<1>1. cur \in Jobs /\ target \in Nodes /\ jobs[cur].status = "pending"
  BY <1>0, LocalParts DEF Control
<1>2. UNCHANGED <<queue, view, cont, late, gh, by, hooks, crashes>>
  BY <1>0 DEF agentVars
<1> DEFINE name(r) == [id |-> r, node |-> target, job |-> cur, attempt |-> jobs[cur].attempt + 1]
<1>3. ASSUME NEW r \in Runners PROVE name(r) \in RunnerName
  <2>1. jobs[cur] \in JobRecord
    BY <1>1, RecordParts
  <2>2. jobs[cur].attempt + 1 \in Nat
    BY <2>1, SMT DEF JobRecord
  <2> QED BY <1>1, <2>2 DEF RunnerName
<1>f. Fault("jit") \/ Fault("jitlost") \/ NoFault => faults' \in Nat
  BY TypeParts, SMT DEF Fault, NoFault
<1>4. \/ reg' = reg /\ Return /\ faults' \in Nat
      \/ \E r \in Runners :
           /\ reg' = reg \cup {name(r)} /\ faults' \in Nat
           /\ Return \/ (jit' = r /\ pc' = "record" /\ UNCHANGED <<cur, target, todo>>)
  BY <1>f DEF GenerateJITConfig
<1> HIDE DEF name
<1>5. CASE reg' = reg /\ Return /\ faults' \in Nat
  BY <1>0, <1>2, <1>5, TypeParts, ReturnFrame
<1>6. ASSUME NEW r \in Runners, reg' = reg \cup {name(r)}, faults' \in Nat,
             Return \/ (jit' = r /\ pc' = "record" /\ UNCHANGED <<cur, target, todo>>)
      PROVE  TypeInv'
  <2>1. reg' \subseteq RunnerName
    BY <1>3, <1>6, TypeParts
  <2>2. CASE Return
    BY <1>0, <1>2, <1>6, <2>1, <2>2, TypeParts, ReturnFrame
  <2>3. CASE jit' = r /\ pc' = "record" /\ UNCHANGED <<cur, target, todo>>
    <3>1. Control'
      BY <1>0, <1>1, <2>3 DEF Control, storeVars
    <3>2. pc' \in Locations /\ jit' \in Runners \cup {NoRunner}
      BY <2>3 DEF Locations
    <3> QED BY <1>0, <1>2, <1>6, <2>1, <2>3, <3>1, <3>2, LocalParts, TypeParts, HandlerFrame
  <2> QED BY <1>6, <2>2, <2>3
<1> QED BY <1>4, <1>5, <1>6

(* The provisioning record has a node and a runner.                         *)
LEMMA RecordType == TypeInv /\ recordProvisioning => TypeInv'
<1> SUFFICES ASSUME TypeInv, recordProvisioning PROVE TypeInv'
  OBVIOUS
<1> DEFINE rec == [status |-> "provisioning", node |-> target, inst |-> FALSE,
                   runner |-> jit, attempt |-> jobs[cur].attempt + 1, left |-> Timeout + Grace]
<1>0. /\ pc = "record" /\ target' = NoNode /\ jit' = NoRunner
      /\ UNCHANGED <<cur, todo, queue, view, agentVars, ghVars, crashes>>
      /\ saveLocked([jobs EXCEPT ![cur] = rec])
      /\ pc' \in {"create", "dropRunner"}
  BY DEF recordProvisioning, saveLocked
<1>1. cur \in Jobs /\ target \in Nodes /\ jit \in Runners
  BY <1>0, LocalParts DEF Control
<1>2. rec \in JobRecord
  <2>1. jobs[cur] \in JobRecord /\ Timeout + Grace \in Nat
    BY <1>1, RecordParts, SMT
  <2>2. jobs[cur].attempt + 1 \in Nat
    BY <2>1, SMT DEF JobRecord
  <2> QED BY <1>1, <2>1, <2>2 DEF JobRecord, Active
<1>3. WellShaped(rec) /\ rec.status = "provisioning"
  BY <1>1 DEF WellShaped, Active
<1> HIDE DEF rec
<1>4. jobs'[cur] = rec => Control'
  BY <1>0, <1>1, <1>3 DEF Control
<1>5. pc' \in Locations /\ queue' \in Channel
  BY <1>0, TypeParts DEF Locations
<1> QED BY <1>0, <1>1, <1>2, <1>3, <1>4, <1>5, WriteGotoType

(* DeleteRunner only takes registrations away.                              *)
LEMMA DeleteType ==
  ASSUME TypeInv, NEW r, DeleteRunner(r)
  PROVE  reg' \subseteq RunnerName /\ reg' \subseteq reg /\ faults' \in Nat
  BY TypeParts, SMT DEF DeleteRunner, NoFault, Fault

(* DestroyInstance only takes containers away.                              *)
LEMMA DestroyType ==
  ASSUME TypeInv, NEW n, NEW j, NEW inst, DestroyInstance(n, j, inst)
  PROVE  /\ cont' \in [Nodes -> [Jobs -> Container]] /\ faults' \in Nat
         /\ \A m \in Nodes, k \in Jobs : cont'[m][k] \in {cont[m][k], NoCont}
<1>1. cont \in [Nodes -> [Jobs -> Container]] /\ faults \in Nat
  BY TypeParts
<1>2. cont' = cont \/ cont' = [cont EXCEPT ![n][j] = NoCont]
  BY DEF DestroyInstance, destroyed, destroyFails, Removed
<1>3. faults' \in Nat
  BY <1>1, SMT DEF DestroyInstance, destroyed, destroyFails, NoFault, Fault
<1> DEFINE new == [cont EXCEPT ![n][j] = NoCont]
<1>4. /\ new \in [Nodes -> [Jobs -> Container]]
      /\ \A m \in Nodes, k \in Jobs : new[m][k] = IF m = n /\ k = j THEN NoCont ELSE cont[m][k]
  <2>1. NoCont \in Container
    BY RecordTypes
  <2>2. cont \in [Nodes -> [Jobs -> Container]]
    BY <1>1
  <2>3. new \in [Nodes -> [Jobs -> Container]]
    BY <2>1, <2>2, ContainerUpdate
  <2>4. ASSUME NEW m \in Nodes, NEW k \in Jobs
        PROVE  new[m][k] = IF m = n /\ k = j THEN NoCont ELSE cont[m][k]
    BY <2>2
  <2> QED BY <2>3, <2>4
<1> HIDE DEF new
<1>5. cont' = cont \/ cont' = new
  BY <1>2 DEF new
<1> QED BY <1>1, <1>3, <1>4, <1>5

(* DeleteRunner on the way to another call.                                 *)
LEMMA DeleteGoto ==
  ASSUME TypeInv, NEW r, DeleteRunner(r), Control', pc' \in Locations,
         UNCHANGED <<cur, target, jit, todo>>,
         UNCHANGED <<storeVars, queue, view, agentVars, gh, by, hooks, crashes>>
  PROVE  TypeInv'
<1>1. reg' \subseteq RunnerName /\ faults' \in Nat
  BY DeleteType
<1>2. UNCHANGED <<cont, late>>
  BY DEF agentVars
<1>3. target' \in Nodes \cup {NoNode}
  BY LocalParts
<1> QED BY <1>1, <1>2, <1>3, TypeParts, GotoFrame

(* DestroyInstance on the way to another call.                              *)
LEMMA DestroyGoto ==
  ASSUME TypeInv, NEW n, NEW j, NEW inst, DestroyInstance(n, j, inst),
         Control', pc' \in Locations, target' \in Nodes \cup {NoNode},
         UNCHANGED <<cur, jit, todo>>,
         UNCHANGED <<storeVars, queue, view, late, ghVars, crashes>>
  PROVE  TypeInv'
<1>1. cont' \in [Nodes -> [Jobs -> Container]] /\ faults' \in Nat
  BY DestroyType
<1>2. UNCHANGED <<gh, by, reg, hooks>>
  BY DEF ghVars
<1> QED BY <1>1, <1>2, TypeParts, GotoFrame

(* dropRunner deletes the runner and returns.                               *)
LEMMA DropType == TypeInv /\ dropRunner => TypeInv'
<1> SUFFICES ASSUME TypeInv, dropRunner PROVE TypeInv'
  OBVIOUS
<1>1. /\ DeleteRunner(jobs[cur].runner) /\ Return
      /\ UNCHANGED <<storeVars, queue, view, cont, late, gh, by, hooks, crashes>>
  BY DEF dropRunner, agentVars
<1>2. reg' \subseteq RunnerName /\ faults' \in Nat
  BY <1>1, DeleteType
<1> QED BY <1>1, <1>2, TypeParts, ReturnFrame

(* CreateInstance makes a container or a request.                           *)
LEMMA CreateType == TypeInv /\ CreateInstance => TypeInv'
<1> SUFFICES ASSUME TypeInv, CreateInstance PROVE TypeInv'
  OBVIOUS
<1> DEFINE n == jobs[cur].node
           r == jobs[cur].runner
           c == [runner |-> r, left |-> Timeout, up |-> TRUE]
           made == [cont EXCEPT ![n][cur] = c]
           q == [node |-> n, job |-> cur, runner |-> r]
           rec == [jobs[cur] EXCEPT !.left = Timeout + Grace]
           new == [jobs EXCEPT ![cur] = rec]
<1>0. /\ pc = "create" /\ pc' \in {"started", "undoDestroy"}
      /\ UNCHANGED <<disk, queue, view, ghVars, crashes, cur, target, jit, todo>>
  BY DEF CreateInstance, Goto
<1>1. cur \in Jobs /\ jobs[cur].status = "provisioning" /\ jobs[cur] \in JobRecord
  BY <1>0, LocalParts, RecordParts DEF Control
<1>2. n \in Nodes /\ r \in Runners
  BY <1>1, RecordParts DEF Shape, Active
<1>3. rec \in JobRecord /\ rec.status = "provisioning" /\ rec.node = n /\ rec.runner = r
  BY <1>1, SMT DEF JobRecord
<1>4. WellShaped(rec)
  BY <1>2, <1>3 DEF WellShaped, Active
<1>5. [jobs EXCEPT ![cur].left = Timeout + Grace] = new
  BY <1>1, RecordParts
<1>6. /\ cont' = cont \/ cont' = made
      /\ late' = late \/ late' = late \cup {q}
      /\ jobs' = jobs \/ jobs' = new
      /\ faults' \in Nat
  BY <1>5, TypeParts, SMT DEF CreateInstance, Created, agentVars, NoFault, Fault
<1>7. cont' \in [Nodes -> [Jobs -> Container]]
  <2>1. c \in Container
    BY <1>2 DEF Container
  <2>2. cont \in [Nodes -> [Jobs -> Container]]
    BY TypeParts
  <2> HIDE DEF c
  <2>3. made \in [Nodes -> [Jobs -> Container]]
    BY <2>1, <2>2, ContainerUpdate
  <2> QED BY <1>6, <2>2, <2>3
<1>8. late' \subseteq Request
  <2>1. q \in Request
    BY <1>1, <1>2 DEF Request
  <2> QED BY <1>6, <2>1, TypeParts
<1> HIDE DEF rec
<1>9. /\ jobs' \in [Jobs -> JobRecord] /\ jobs'[cur].status = "provisioning" /\ Shape(jobs)'
  <2>1. new \in [Jobs -> JobRecord] /\ Shape(new) /\ new[cur] = rec
    BY <1>1, <1>3, <1>4, RecordParts, StoreUpdate
  <2> HIDE DEF new
  <2>2. CASE jobs' = new
    BY <1>3, <2>1, <2>2 DEF Shape
  <2>3. CASE jobs' = jobs
    BY <1>1, <2>3, RecordParts DEF Shape
  <2> QED BY <1>6, <2>2, <2>3
<1>10. Control'
  BY <1>0, <1>1, <1>9 DEF Control
<1>11. disk' \in [Jobs -> JobRecord] /\ Shape(disk)'
  BY <1>0, RecordParts DEF Shape
<1>12. UNCHANGED <<gh, by, reg, hooks>> /\ pc' \in Locations
  BY <1>0 DEF ghVars, Locations
<1> QED
  BY <1>0, <1>6, <1>7, <1>8, <1>9, <1>10, <1>11, <1>12, LocalParts, TypeParts, WriteFrame

(* recordRunning keeps node and runner.                                     *)
LEMMA RunningType == TypeInv /\ recordRunning => TypeInv'
<1> SUFFICES ASSUME TypeInv, recordRunning PROVE TypeInv'
  OBVIOUS
<1> DEFINE rec == [jobs[cur] EXCEPT !.status = "running", !.inst = TRUE]
<1>0. pc = "started" /\ Return /\ UNCHANGED <<queue, view, agentVars, ghVars, crashes>>
  BY DEF recordRunning
<1>1. cur \in Jobs /\ jobs[cur].status = "provisioning" /\ jobs[cur] \in JobRecord
  BY <1>0, LocalParts, RecordParts DEF Control
<1>2. jobs[cur].node \in Nodes /\ jobs[cur].runner \in Runners
  BY <1>1, RecordParts DEF Shape, Active
<1>3. rec \in JobRecord /\ WellShaped(rec)
  BY <1>1, <1>2 DEF JobRecord, Active, WellShaped
<1>4. [jobs EXCEPT ![cur].status = "running", ![cur].inst = TRUE] = [jobs EXCEPT ![cur] = rec]
  BY <1>1, RecordParts
<1>5. saveLocked([jobs EXCEPT ![cur] = rec])
  BY <1>4 DEF recordRunning
<1> HIDE DEF rec
<1> QED BY <1>0, <1>1, <1>3, <1>5, WriteReturnType

(* The error path of CreateInstance: destroy,                               *)
LEMMA UndoDestroyType == TypeInv /\ undoDestroy => TypeInv'
<1> SUFFICES ASSUME TypeInv, undoDestroy PROVE TypeInv'
  OBVIOUS
<1>1. /\ DestroyInstance(jobs[cur].node, cur, FALSE) /\ pc = "undoDestroy" /\ pc' = "undoDelete"
      /\ UNCHANGED <<cur, target, jit, todo, storeVars, queue, view, late, ghVars, crashes>>
  BY DEF undoDestroy, Goto
<1>2. Control'
  BY <1>1, LocalParts DEF Control, storeVars
<1>3. pc' \in Locations
  BY <1>1 DEF Locations
<1> QED BY <1>1, <1>2, <1>3, LocalParts, DestroyGoto

(* delete the runner,                                                       *)
LEMMA UndoDeleteType == TypeInv /\ undoDelete => TypeInv'
<1> SUFFICES ASSUME TypeInv, undoDelete PROVE TypeInv'
  OBVIOUS
<1>1. /\ DeleteRunner(jobs[cur].runner) /\ pc = "undoDelete" /\ pc' = "undoSave"
      /\ UNCHANGED <<cur, target, jit, todo>>
      /\ UNCHANGED <<storeVars, queue, view, agentVars, gh, by, hooks, crashes>>
  BY DEF undoDelete, Goto
<1>2. Control'
  BY <1>1, LocalParts DEF Control, storeVars
<1>3. pc' \in Locations
  BY <1>1 DEF Locations
<1> QED BY <1>1, <1>2, <1>3, DeleteGoto

(* and go back to pending.                                                  *)
LEMMA UndoSaveType == TypeInv /\ undoSave => TypeInv'
<1> SUFFICES ASSUME TypeInv, undoSave PROVE TypeInv'
  OBVIOUS
<1>0. /\ pc = "undoSave" /\ Return /\ UNCHANGED <<queue, view, agentVars, ghVars, crashes>>
      /\ saveLocked([jobs EXCEPT ![cur] = Pending(jobs[cur].attempt)])
  BY DEF undoSave
<1>1. cur \in Jobs
  BY <1>0, LocalParts DEF Control
<1>2. Pending(jobs[cur].attempt) \in JobRecord /\ WellShaped(Pending(jobs[cur].attempt))
  BY <1>1, AttemptType, BlankShape
<1> QED BY <1>0, <1>1, <1>2, WriteReturnType

(***************************************************************************)
(* handleCompleted, cleanupRecord, recoverProvisioning                     *)
(***************************************************************************)
LEMMA StrayType == TypeInv /\ destroyStray => TypeInv'
<1> SUFFICES ASSUME TypeInv, destroyStray PROVE TypeInv'
  OBVIOUS
<1>1. /\ DestroyInstance(target, cur, FALSE) /\ pc = "stray" /\ pc' = "finish"
      /\ target' = NoNode /\ UNCHANGED <<cur, jit, todo>>
      /\ UNCHANGED <<storeVars, queue, view, late, ghVars, crashes>>
  BY DEF destroyStray
<1>2. Control'
  BY <1>1, LocalParts DEF Control
<1>3. pc' \in Locations /\ target' \in Nodes \cup {NoNode}
  BY <1>1 DEF Locations
<1> QED BY <1>1, <1>2, <1>3, DestroyGoto

(* handleCompleted destroys the container.                                  *)
LEMMA DestroyCompletedType == TypeInv /\ destroyCompleted => TypeInv'
<1> SUFFICES ASSUME TypeInv, destroyCompleted PROVE TypeInv'
  OBVIOUS
<1>1. /\ DestroyInstance(jobs[cur].node, cur, jobs[cur].inst)
      /\ pc = "complete" /\ pc' \in {"delete", "finish", "defer"}
      /\ UNCHANGED <<cur, target, jit, todo, storeVars, queue, view, late, ghVars, crashes>>
  BY DEF destroyCompleted, DestroyInstance, Goto, AfterDestroy
<1>2. Control'
  BY <1>1, LocalParts DEF Control, storeVars
<1>3. pc' \in Locations
  BY <1>1 DEF Locations
<1> QED BY <1>1, <1>2, <1>3, LocalParts, DestroyGoto

(* A failed destroy leaves a record to clean up.                            *)
LEMMA DeferType == TypeInv /\ deferCleanup => TypeInv'
<1> SUFFICES ASSUME TypeInv, deferCleanup PROVE TypeInv'
  OBVIOUS
<1> DEFINE rec == [jobs[cur] EXCEPT !.status = "cleanup_pending"]
<1>0. pc = "defer" /\ Return /\ UNCHANGED <<queue, view, agentVars, ghVars, crashes>>
  BY DEF deferCleanup
<1>1. cur \in Jobs /\ jobs[cur].status \in Active /\ jobs[cur] \in JobRecord
  BY <1>0, LocalParts, RecordParts DEF Control
<1>2. jobs[cur].node \in Nodes /\ jobs[cur].runner \in Runners
  BY <1>1, RecordParts DEF Shape
<1>3. rec \in JobRecord /\ WellShaped(rec)
  BY <1>1, <1>2 DEF JobRecord, Active, WellShaped
<1>4. [jobs EXCEPT ![cur].status = "cleanup_pending"] = [jobs EXCEPT ![cur] = rec]
  BY <1>1, RecordParts
<1>5. saveLocked([jobs EXCEPT ![cur] = rec])
  BY <1>4 DEF deferCleanup
<1> HIDE DEF rec
<1> QED BY <1>0, <1>1, <1>3, <1>5, WriteReturnType

(* cleanupRecord destroys the container.                                    *)
LEMMA CleanupType == TypeInv /\ cleanupRecord => TypeInv'
<1> SUFFICES ASSUME TypeInv, cleanupRecord PROVE TypeInv'
  OBVIOUS
<1>1. /\ DestroyInstance(jobs[cur].node, cur, jobs[cur].inst) /\ pc = "cleanup"
      /\ UNCHANGED <<storeVars, queue, view, late, ghVars, crashes>>
      /\ Return \/ (pc' \in {"delete", "finish"} /\ UNCHANGED <<cur, target, jit, todo>>)
  BY DEF cleanupRecord, DestroyInstance, Goto, AfterDestroy
<1>2. CASE Return
  <2>1. cont' \in [Nodes -> [Jobs -> Container]] /\ faults' \in Nat
    BY <1>1, DestroyType
  <2>2. UNCHANGED <<gh, by, reg, hooks>>
    BY <1>1 DEF ghVars
  <2> QED BY <1>1, <1>2, <2>1, <2>2, TypeParts, ReturnFrame
<1>3. CASE pc' \in {"delete", "finish"} /\ UNCHANGED <<cur, target, jit, todo>>
  <2>1. Control'
    BY <1>1, <1>3, LocalParts DEF Control
  <2>2. pc' \in Locations
    BY <1>3 DEF Locations
  <2> QED BY <1>1, <1>3, <2>1, <2>2, LocalParts, DestroyGoto
<1> QED BY <1>1, <1>2, <1>3

(* Then the runner is deleted,                                              *)
LEMMA DeleteRunnerType == TypeInv /\ deleteRunner => TypeInv'
<1> SUFFICES ASSUME TypeInv, deleteRunner PROVE TypeInv'
  OBVIOUS
<1>1. /\ DeleteRunner(jobs[cur].runner) /\ pc = "delete" /\ pc' = "finish"
      /\ UNCHANGED <<cur, target, jit, todo>>
      /\ UNCHANGED <<storeVars, queue, view, agentVars, gh, by, hooks, crashes>>
  BY DEF deleteRunner, Goto
<1>2. Control'
  BY <1>1, LocalParts DEF Control
<1>3. pc' \in Locations
  BY <1>1 DEF Locations
<1> QED BY <1>1, <1>2, <1>3, DeleteGoto

(* and the tombstone is written.                                            *)
LEMMA FinishType == TypeInv /\ finish => TypeInv'
<1> SUFFICES ASSUME TypeInv, finish PROVE TypeInv'
  OBVIOUS
<1>0. /\ pc = "finish" /\ Return /\ UNCHANGED <<queue, view, agentVars, ghVars, crashes>>
      /\ saveLocked([jobs EXCEPT ![cur] = Tombstone("completed")])
  BY DEF finish
<1>1. cur \in Jobs
  BY <1>0, LocalParts DEF Control
<1>2. Tombstone("completed") \in JobRecord /\ WellShaped(Tombstone("completed"))
  BY BlankShape DEF Tombstones
<1> QED BY <1>0, <1>1, <1>2, WriteReturnType

(* recoverProvisioning: destroy,                                            *)
LEMMA RecoverDestroyType == TypeInv /\ recoverDestroy => TypeInv'
<1> SUFFICES ASSUME TypeInv, recoverDestroy PROVE TypeInv'
  OBVIOUS
<1>1. /\ DestroyInstance(jobs[cur].node, cur, FALSE) /\ pc = "recover" /\ pc' = "recoverDelete"
      /\ UNCHANGED <<cur, target, jit, todo, storeVars, queue, view, late, ghVars, crashes>>
  BY DEF recoverDestroy, Goto
<1>2. Control'
  BY <1>1, LocalParts DEF Control, storeVars
<1>3. pc' \in Locations
  BY <1>1 DEF Locations
<1> QED BY <1>1, <1>2, <1>3, LocalParts, DestroyGoto

(* delete the runner,                                                       *)
LEMMA RecoverDeleteType == TypeInv /\ recoverDelete => TypeInv'
<1> SUFFICES ASSUME TypeInv, recoverDelete PROVE TypeInv'
  OBVIOUS
<1>1. /\ DeleteRunner(jobs[cur].runner) /\ pc = "recoverDelete" /\ pc' = "recoverSave"
      /\ UNCHANGED <<cur, target, jit, todo>>
      /\ UNCHANGED <<storeVars, queue, view, agentVars, gh, by, hooks, crashes>>
  BY DEF recoverDelete, Goto
<1>2. Control'
  BY <1>1, LocalParts DEF Control, storeVars
<1>3. pc' \in Locations
  BY <1>1 DEF Locations
<1> QED BY <1>1, <1>2, <1>3, DeleteGoto

(* and go back to pending, and from there to tryProvision.                  *)
LEMMA RecoverSaveType == TypeInv /\ recoverSave => TypeInv'
<1> SUFFICES ASSUME TypeInv, recoverSave PROVE TypeInv'
  OBVIOUS
<1> DEFINE rec == Pending(jobs[cur].attempt)
<1>0. /\ pc = "recoverSave" /\ saveLocked([jobs EXCEPT ![cur] = rec])
      /\ UNCHANGED <<queue, view, agentVars, ghVars, crashes>>
      /\ (pc' = "getrun" /\ UNCHANGED <<cur, target, jit, todo>>) \/ Return
  BY DEF recoverSave, saveLocked, Goto
<1>1. cur \in Jobs
  BY <1>0, LocalParts DEF Control
<1>2. rec \in JobRecord /\ WellShaped(rec) /\ rec.status = "pending"
  BY <1>1, AttemptType, BlankShape DEF Pending, Blank
<1> HIDE DEF rec
<1>3. CASE Return
  BY <1>0, <1>1, <1>2, <1>3, WriteReturnType
<1>4. CASE pc' = "getrun" /\ UNCHANGED <<cur, target, jit, todo>>
  <2>1. jobs'[cur] = rec => Control'
    BY <1>1, <1>2, <1>4 DEF Control
  <2>2. pc' \in Locations /\ queue' \in Channel
    BY <1>0, <1>4, TypeParts DEF Locations
  <2> QED BY <1>0, <1>1, <1>2, <1>4, <2>1, <2>2, LocalParts, WriteGotoType
<1> QED BY <1>0, <1>3, <1>4

(***************************************************************************)
(* The environment                                                         *)
(***************************************************************************)
(* What TypeInv says of GitHub and the registry.                            *)
LEMMA EnvParts ==
  ASSUME TypeInv
  PROVE  /\ view \in [Nodes -> Views] /\ gh \in [Jobs -> {"queued", "running", "done"}]
         /\ by \in [Jobs -> RunnerName \cup {NoName}] /\ crashes \in Nat
  BY DEF TypeInv, TypeOK

(* A crash reloads the state file.                                          *)
LEMMA CrashType == TypeInv /\ Crash => TypeInv'
<1> SUFFICES ASSUME TypeInv, Crash PROVE TypeInv'
  OBVIOUS
<1>1. late' \subseteq Request
  <2>1. ASSUME pc = "create"
        PROVE  [node |-> jobs[cur].node, job |-> cur, runner |-> jobs[cur].runner] \in Request
    <3>1. cur \in Jobs /\ jobs[cur].status = "provisioning"
      BY <2>1, LocalParts DEF Control
    <3> QED BY <3>1, RecordParts DEF Shape, Active, Request
  <2> QED BY <2>1, TypeParts, SMT DEF Crash
<1>2. /\ pc' = "boot" /\ cur' = NoJob /\ target' = NoNode /\ jit' = NoRunner /\ todo' = {}
      /\ queue' = << >> /\ view' = [n \in Nodes |-> "unknown"]
      /\ jobs' = disk /\ disk' = disk
      /\ UNCHANGED <<cont, gh, by, reg, hooks, faults>> /\ crashes' = crashes + 1
  BY DEF Crash, loadState, ghVars
<1>3. /\ jobs' \in [Jobs -> JobRecord] /\ disk' \in [Jobs -> JobRecord]
      /\ Shape(jobs)' /\ Shape(disk)'
  BY <1>2, RecordParts DEF Shape
<1>4. Control'
  BY <1>2 DEF Control
<1>5. /\ gh' \in [Jobs -> {"queued", "running", "done"}]
      /\ by' \in [Jobs -> RunnerName \cup {NoName}] /\ crashes' \in Nat
  BY <1>2, EnvParts, SMT
<1>6. view' \in [Nodes -> Views] /\ pc' \in Locations /\ queue' \in Channel
  BY <1>2, EmptyChannel DEF Views, Locations
<1>7. TypeOK'
  BY <1>1, <1>2, <1>3, <1>5, <1>6, TypeParts DEF TypeOK
<1> QED BY <1>3, <1>4, <1>7 DEF TypeInv

(* Steps of the environment that leave the controller's memory and file     *)
(* alone.                                                                   *)
LEMMA EnvFrame ==
  ASSUME TypeInv, UNCHANGED <<mgrVars, storeVars>>,
         queue' \in Channel, view' \in [Nodes -> Views], faults' \in Nat, crashes' = crashes,
         cont' \in [Nodes -> [Jobs -> Container]], late' \subseteq Request,
         gh' \in [Jobs -> {"queued", "running", "done"}],
         by' \in [Jobs -> RunnerName \cup {NoName}],
         reg' \subseteq RunnerName, hooks' \subseteq Event
  PROVE  TypeInv'
<1>1. UNCHANGED <<pc, cur, target, jit, todo, jobs, disk>>
  BY DEF mgrVars, storeVars
<1>2. Shape(jobs)' /\ Shape(disk)'
  BY <1>1, RecordParts DEF Shape
<1>3. Control'
  BY <1>1, ControlFrame
<1>4. crashes' \in Nat
  BY DEF TypeInv, TypeOK
<1>5. TypeOK'
  BY <1>1, <1>4, LocalParts, RecordParts DEF TypeOK
<1> QED BY <1>2, <1>3, <1>5 DEF TypeInv

(* Submit appends an event to the queue.                                    *)
LEMMA WebhookType == TypeInv /\ Deliveries => TypeInv'
<1> SUFFICES ASSUME TypeInv, NEW e \in hooks,
                    webhook(e) \/ ignoreWebhook(e) \/ loseWebhook(e)
             PROVE  TypeInv'
  BY DEF Deliveries
<1>1. e \in Event /\ queue \in Channel
  BY TypeParts
<1>2. webhook(e) => Append(queue, e) \in Channel
  BY <1>1, SMT DEF webhook, Submit, Channel
<1>3. queue' = queue \/ (webhook(e) /\ queue' = Append(queue, e))
  BY DEF webhook, Submit, ignoreWebhook, loseWebhook
<1>4. hooks' \subseteq hooks /\ faults' \in Nat
  <2>1. hooks' \in {hooks, hooks \ {e}}
    BY DEF webhook, ignoreWebhook, loseWebhook
  <2>2. faults' \in {faults, faults + 1}
    BY DEF webhook, ignoreWebhook, loseWebhook, NoFault, Fault
  <2> QED BY <2>1, <2>2, TypeParts, SMT
<1>5. UNCHANGED <<mgrVars, storeVars, view, cont, late, gh, by, reg, crashes>>
  BY DEF webhook, ignoreWebhook, loseWebhook, agentVars
<1>6. queue' \in Channel
  BY <1>1, <1>2, <1>3
<1> QED BY <1>4, <1>5, <1>6, TypeParts, EnvParts, EnvFrame

(* Heartbeats change the registry only.                                     *)
LEMMA HeartbeatType ==
  TypeInv /\ (\E n \in Nodes : heartbeat(n) \/ heartbeatsStop(n)) => TypeInv'
<1> SUFFICES ASSUME TypeInv, NEW n \in Nodes, heartbeat(n) \/ heartbeatsStop(n) PROVE TypeInv'
  OBVIOUS
<1>1. \E v \in Views : view' = [view EXCEPT ![n] = v]
  BY DEF heartbeat, heartbeatsStop, Views
<1>2. faults' \in Nat
  BY TypeParts, SMT DEF heartbeat, heartbeatsStop, NoFault, Fault
<1>3. UNCHANGED <<mgrVars, storeVars, queue, cont, late, gh, by, reg, hooks, crashes>>
  BY DEF heartbeat, heartbeatsStop, agentVars, ghVars
<1>4. view' \in [Nodes -> Views]
  BY <1>1, EnvParts
<1> QED BY <1>2, <1>3, <1>4, TypeParts, EnvParts, EnvFrame

(* Steps that change one container.                                         *)
LEMMA ContainerStepType ==
  ASSUME TypeInv, NEW n \in Nodes, NEW j \in Jobs, NEW c \in Container,
         cont' = cont \/ cont' = [cont EXCEPT ![n][j] = c],
         late' \subseteq Request, faults' \in Nat,
         UNCHANGED <<mgrVars, storeVars, queue, view, crashes>>,
         gh' \in [Jobs -> {"queued", "running", "done"}],
         by' \in [Jobs -> RunnerName \cup {NoName}],
         reg' \subseteq RunnerName, hooks' \subseteq Event
  PROVE  TypeInv'
<1>1. cont \in [Nodes -> [Jobs -> Container]]
  BY TypeParts
<1>2. [cont EXCEPT ![n][j] = c] \in [Nodes -> [Jobs -> Container]]
  BY <1>1, ContainerUpdate
<1>3. cont' \in [Nodes -> [Jobs -> Container]]
  BY <1>1, <1>2
<1> QED BY <1>3, TypeParts, EnvParts, EnvFrame

(* A late request makes a container.                                        *)
LEMMA LateType == TypeInv /\ (\E q \in late : lateCreate(q)) => TypeInv'
<1> SUFFICES ASSUME TypeInv, NEW q \in late, lateCreate(q) PROVE TypeInv'
  OBVIOUS
<1> DEFINE c == [runner |-> q.runner, left |-> Timeout, up |-> TRUE]
<1>1. q \in Request
  BY TypeParts
<1>2. q.node \in Nodes /\ q.job \in Jobs /\ c \in Container
  BY <1>1 DEF Request, Container
<1>3. cont' = cont \/ cont' = [cont EXCEPT ![q.node][q.job] = c]
  BY DEF lateCreate, Created
<1>4. /\ late' \subseteq late
      /\ UNCHANGED <<mgrVars, storeVars, queue, view, gh, by, reg, hooks, faults, crashes>>
  BY DEF lateCreate, ghVars
<1> HIDE DEF c
<1> QED BY <1>2, <1>3, <1>4, TypeParts, EnvParts, ContainerStepType

(* CleanupExpired and exits change one container.                           *)
LEMMA JanitorType ==
  TypeInv /\ (\E n \in Nodes, j \in Jobs : janitor(n, j) \/ containerExits(n, j)) => TypeInv'
<1> SUFFICES ASSUME TypeInv, NEW n \in Nodes, NEW j \in Jobs,
                    janitor(n, j) \/ containerExits(n, j)
             PROVE  TypeInv'
  OBVIOUS
<1>1. cont \in [Nodes -> [Jobs -> Container]] /\ cont[n][j] \in Container
  BY TypeParts, SMT
<1>2. \E c \in Container : cont' = [cont EXCEPT ![n][j] = c]
  <2>1. CASE janitor(n, j)
    BY <2>1, RecordTypes DEF janitor
  <2>2. CASE containerExits(n, j)
    <3>1. [cont[n][j] EXCEPT !.up = FALSE] \in Container
      BY <1>1 DEF Container
    <3>2. cont' = [cont EXCEPT ![n][j] = [cont[n][j] EXCEPT !.up = FALSE]]
      BY <1>1, <2>2 DEF containerExits
    <3> QED BY <3>1, <3>2
  <2> QED BY <2>1, <2>2
<1>3. /\ faults' \in Nat
      /\ UNCHANGED <<mgrVars, storeVars, queue, view, late, gh, by, reg, hooks, crashes>>
  BY TypeParts, SMT DEF janitor, containerExits, Fault, ghVars
<1> QED BY <1>2, <1>3, TypeParts, EnvParts, ContainerStepType

(* The end of a job takes its runner off the registrations and sends a      *)
(* well-formed event.                                                       *)
LEMMA OverType ==
  ASSUME TypeInv, NEW j \in Jobs, Over(j)
  PROVE  /\ gh' \in [Jobs -> {"queued", "running", "done"}]
         /\ by' \in [Jobs -> RunnerName \cup {NoName}]
         /\ reg' \subseteq RunnerName /\ reg' \subseteq reg /\ hooks' \subseteq Event
<1>1. /\ gh \in [Jobs -> {"queued", "running", "done"}]
      /\ by \in [Jobs -> RunnerName \cup {NoName}] /\ reg \subseteq RunnerName /\ hooks \subseteq Event
  BY TypeParts, EnvParts
<1>2. by[j].node \in Nodes \cup {NoNode} /\ by[j].job \in Jobs \cup {NoJob}
  BY <1>1, SMT DEF RunnerName, NoName
<1>3. [kind |-> "completed", job |-> j, on |-> by[j].node, of |-> by[j].job] \in Event
  BY <1>2 DEF Event
<1>4. hooks' \subseteq Event
  BY <1>1, <1>3 DEF Over
<1>5. gh' \in [Jobs -> {"queued", "running", "done"}] /\ by' \in [Jobs -> RunnerName \cup {NoName}]
  BY <1>1 DEF Over
<1>6. reg' \subseteq RunnerName /\ reg' \subseteq reg
  BY <1>1 DEF Over
<1> QED BY <1>4, <1>5, <1>6

(* GitHub's steps change jobs, registrations and deliveries.                *)
LEMMA GitHubType == TypeInv /\ GitHub => TypeInv'
<1> SUFFICES ASSUME TypeInv, GitHub PROVE TypeInv'
  OBVIOUS
<1>1. ASSUME NEW j \in Jobs, jobCancelled(j) \/ jobLost(j) PROVE TypeInv'
  <2>1. cont' = cont /\ Over(j)
    BY <1>1 DEF jobCancelled, jobLost
  <2>2. UNCHANGED <<mgrVars, storeVars, queue, view, late, faults, crashes>>
    BY <2>1 DEF Over
  <2> QED BY <2>1, <2>2, OverType, TypeParts, EnvParts, EnvFrame
<1>2. ASSUME NEW j \in Jobs, NEW n \in Nodes, NEW k \in Jobs, assign(j, n, k) PROVE TypeInv'
  <2>1. /\ \E x \in RunnerName : by' = [by EXCEPT ![j] = x]
        /\ gh' = [gh EXCEPT ![j] = "running"]
        /\ UNCHANGED <<mgrVars, storeVars, queue, view, agentVars, reg, hooks, faults, crashes>>
    BY <1>2, TypeParts DEF assign
  <2>2. /\ gh' \in [Jobs -> {"queued", "running", "done"}]
        /\ by' \in [Jobs -> RunnerName \cup {NoName}]
    BY <2>1, EnvParts, SMT
  <2>3. UNCHANGED <<cont, late>>
    BY <2>1 DEF agentVars
  <2> QED BY <2>1, <2>2, <2>3, TypeParts, EnvParts, EnvFrame
<1>3. ASSUME NEW j \in Jobs, NEW n \in Nodes, NEW k \in Jobs, jobEnds(j, n, k) PROVE TypeInv'
  <2> DEFINE c == [cont[n][k] EXCEPT !.up = FALSE]
  <2>0. cont \in [Nodes -> [Jobs -> Container]] /\ cont[n][k] \in Container
    BY TypeParts, SMT
  <2>1. c \in Container
    BY <2>0 DEF Container
  <2>2. cont' = [cont EXCEPT ![n][k] = c] /\ Over(j)
    BY <1>3, <2>0 DEF jobEnds
  <2>3. UNCHANGED <<mgrVars, storeVars, queue, view, late, faults, crashes>>
    BY <2>2 DEF Over
  <2> HIDE DEF c
  <2> QED BY <2>1, <2>2, <2>3, OverType, TypeParts, ContainerStepType
<1> QED BY <1>1, <1>2, <1>3 DEF GitHub

(* Timers stay natural numbers.                                             *)
LEMMA TickType == TypeInv /\ Tick => TypeInv'
<1> SUFFICES ASSUME TypeInv, Tick PROVE TypeInv'
  OBVIOUS
<1>1. ASSUME NEW t \in Nat PROVE Less(t) \in Nat
  BY SMT DEF Less
<1>2. ASSUME NEW s \in [Jobs -> JobRecord]
      PROVE  /\ Aged(s) \in [Jobs -> JobRecord]
             /\ \A j \in Jobs : /\ Aged(s)[j].status = s[j].status
                                /\ Aged(s)[j].node = s[j].node
                                /\ Aged(s)[j].runner = s[j].runner
  <2>1. ASSUME NEW j \in Jobs
        PROVE  /\ [s[j] EXCEPT !.left = Less(@)] \in JobRecord
               /\ [s[j] EXCEPT !.left = Less(@)].status = s[j].status
               /\ [s[j] EXCEPT !.left = Less(@)].node = s[j].node
               /\ [s[j] EXCEPT !.left = Less(@)].runner = s[j].runner
    <3>1. s[j] \in JobRecord
      OBVIOUS
    <3> QED BY <1>1, <3>1 DEF JobRecord
  <2> QED BY <2>1 DEF Aged
<1>3. ASSUME NEW n \in Nodes PROVE Aged(cont[n]) \in [Jobs -> Container]
  <2>1. ASSUME NEW j \in Jobs PROVE [cont[n][j] EXCEPT !.left = Less(@)] \in Container
    <3>1. cont[n][j] \in Container
      BY TypeParts, SMT
    <3> QED BY <1>1, <3>1 DEF Container
  <2> QED BY <2>1 DEF Aged
<1>4. /\ jobs' = Aged(jobs) /\ disk' = Aged(disk)
      /\ jobs \in [Jobs -> JobRecord] /\ disk \in [Jobs -> JobRecord]
      /\ cont' \in [Nodes -> [Jobs -> Container]]
      /\ UNCHANGED <<mgrVars, queue, view, late, ghVars, faults, crashes>>
  BY <1>3, RecordParts DEF Tick
<1>5. jobs' \in [Jobs -> JobRecord] /\ disk' \in [Jobs -> JobRecord]
  BY <1>2, <1>4
<1>6. \A j \in Jobs : /\ jobs'[j].status = jobs[j].status
                      /\ jobs'[j].node = jobs[j].node /\ jobs'[j].runner = jobs[j].runner
                      /\ disk'[j].status = disk[j].status
                      /\ disk'[j].node = disk[j].node /\ disk'[j].runner = disk[j].runner
  BY <1>2, <1>4
<1>7. UNCHANGED <<pc, cur, target, jit, todo, queue, view, late, gh, by, reg, hooks, faults, crashes>>
  BY <1>4 DEF mgrVars, ghVars
<1>8. Control'
  BY <1>6, <1>7, LocalParts DEF Control
<1>9. Shape(jobs)' /\ Shape(disk)'
  BY <1>6, RecordParts, SMT DEF Shape
<1> QED BY <1>4, <1>5, <1>7, <1>8, <1>9, LocalParts, TypeParts, WriteFrame

(* TypeInv is inductive.                                                    *)
LEMMA TypeStep == TypeInv /\ [Next]_vars => TypeInv'
<1> SUFFICES ASSUME TypeInv, [Next]_vars PROVE TypeInv'
  OBVIOUS
<1>1. CASE Process
  BY <1>1, QueuedType, CompletedType DEF Process
<1>2. CASE tryProvision
  BY <1>2, CheckType, JITType, RecordType, DropType, CreateType, RunningType,
     UndoDestroyType, UndoDeleteType, UndoSaveType DEF tryProvision
<1>3. CASE completing
  BY <1>3, StrayType, DestroyCompletedType, DeferType, CleanupType, DeleteRunnerType, FinishType
     DEF completing
<1>4. CASE recoverProvisioning
  BY <1>4, RecoverDestroyType, RecoverDeleteType, RecoverSaveType DEF recoverProvisioning
<1>5. CASE UNCHANGED vars
  <2>1. UNCHANGED <<mgrVars, storeVars, queue, view, agentVars, ghVars, faults, crashes>>
    BY <1>5 DEF vars
  <2>2. TypeOK'
    BY <2>1 DEF TypeInv, TypeOK, mgrVars, storeVars, agentVars, ghVars
  <2>3. Control' /\ Shape(jobs)' /\ Shape(disk)'
    BY <2>1 DEF TypeInv, Control, Shape, mgrVars, storeVars
  <2> QED BY <2>2, <2>3 DEF TypeInv
<1> QED
  BY <1>1, <1>2, <1>3, <1>4, <1>5, ReconcileType, VisitType, CrashType, WebhookType,
     HeartbeatType, LateType, JanitorType, GitHubType, TickType
  DEF Next, Run, Handler, Agents

(* Every reachable state is well typed, whatever the numbers of jobs and    *)
(* nodes, the failures and the crashes.                                     *)
THEOREM TypeCorrect == Spec => []TypeOK
<1>1. Spec => []TypeInv
  BY InitTypeInv, TypeStep, PTL DEF Spec
<1>2. TypeInv => TypeOK
  BY DEF TypeInv
<1> QED BY <1>1, <1>2, PTL

(***************************************************************************)
(* The life of a record                                                    *)
(***************************************************************************)
(* A handler keeps a record's place, opens, releases, closes or forgets the *)
(* record, or claims the place and the runner it has just been given.       *)
Moved(rec) ==
  \/ pc = "create" /\ rec.status = "provisioning" /\ rec.left = Timeout + Grace
  \/ pc = "started" /\ rec.status = "running" /\ rec.left = jobs[cur].left
  \/ pc = "defer" /\ rec.status = "cleanup_pending" /\ rec.left = jobs[cur].left
Kept(j, rec) ==
  /\ rec.node = jobs[j].node /\ rec.runner = jobs[j].runner /\ rec.attempt = jobs[j].attempt
  /\ rec = jobs[j] \/ (j = cur /\ jobs[j].status \in Active /\ Moved(rec))
Opened(j, rec) ==
  /\ Receive("queued") /\ j = Head(queue).job
  /\ jobs[j] = Absent /\ rec = Pending(0) /\ hasLabel(Labels[j], Marker)
Released(j, rec) ==
  /\ pc \in {"undoSave", "recoverSave"} /\ j = cur
  /\ jobs[j].status = "provisioning" /\ rec = Pending(jobs[j].attempt)
Closed(j, rec) ==
  /\ j = cur
  /\ \/ pc = "finish" /\ rec = Tombstone("completed")
     \/ pc = "getrun" /\ jobs[j].status = "pending" /\ rec = Tombstone("rejected")
Forgotten(j, rec) == Expired(jobs[j]) /\ rec = Absent
Claimed(j, rec) ==
  /\ pc = "record" /\ j = cur /\ pc' # "record" /\ jobs[j].status = "pending"
  /\ rec.status = "provisioning" /\ rec.node = target /\ rec.runner = jit
  /\ rec.attempt = jobs[j].attempt + 1

Rewrite(j, rec) ==
  \/ Kept(j, rec) \/ Opened(j, rec) \/ Released(j, rec)
  \/ Closed(j, rec) \/ Forgotten(j, rec) \/ Claimed(j, rec)

Written ==
  /\ \A j \in Jobs : Rewrite(j, jobs'[j])
  /\ disk' = disk \/ disk' = jobs'

RunWrite == UNCHANGED storeVars \/ Written
StoreStep ==
  \/ UNCHANGED storeVars
  \/ jobs' = disk /\ disk' = disk /\ pc' = "boot" /\ crashes < MaxCrashes
  \/ jobs' = Aged(jobs) /\ disk' = Aged(disk) /\ UNCHANGED mgrVars
  \/ Written

(* A save of the map with one record rewritten.                             *)
LEMMA WriteOne ==
  ASSUME TypeInv, NEW j \in Jobs, NEW rec, Rewrite(j, rec),
         saveLocked([jobs EXCEPT ![j] = rec])
  PROVE  Written
<1>1. /\ jobs' = [jobs EXCEPT ![j] = rec] /\ (disk' = disk \/ disk' = jobs')
      /\ jobs \in [Jobs -> JobRecord]
  BY DEF TypeInv, TypeOK, saveLocked, saved, saveFails
<1>2. jobs'[j] = rec /\ \A k \in Jobs : k # j => jobs'[k] = jobs[k]
  BY <1>1
<1>3. \A k \in Jobs : k # j => Rewrite(k, jobs'[k])
  BY <1>2 DEF Rewrite, Kept
<1> QED BY <1>1, <1>2, <1>3 DEF Written

(* The steps of Run that write records.                                     *)
LEMMA QueuedStore == TypeInv /\ handleQueued => RunWrite
<1> SUFFICES ASSUME TypeInv, handleQueued PROVE RunWrite
  OBVIOUS
<1> DEFINE j == Head(queue).job
<1>0. j \in Jobs
  BY QueueTypes DEF TypeInv, TypeOK, handleQueued, Receive
<1>1. CASE ~NotNew(j) /\ saved([jobs EXCEPT ![j] = Pending(0)])
  <2>1. Rewrite(j, Pending(0))
    BY <1>1 DEF handleQueued, NotNew, Rewrite, Opened
  <2> HIDE DEF j
  <2> QED BY <1>0, <1>1, <2>1, WriteOne DEF saveLocked, RunWrite
<1>2. CASE UNCHANGED storeVars
  BY <1>2 DEF RunWrite
<1> QED BY <1>1, <1>2 DEF handleQueued, saveFails, storeVars

(* reconcile forgets tombstones past their TTL and writes nothing else.     *)
LEMMA ReconcileStore == TypeInv /\ reconcile => RunWrite
<1> SUFFICES ASSUME TypeInv, reconcile PROVE RunWrite
  OBVIOUS
<1> DEFINE pruned == [j \in Jobs |-> IF Expired(jobs[j]) THEN Absent ELSE jobs[j]]
<1>1. CASE saveLocked(pruned)
  <2>1. jobs' = pruned /\ (disk' = disk \/ disk' = jobs')
    BY <1>1 DEF saveLocked, saved, saveFails
  <2>2. \A j \in Jobs : Rewrite(j, jobs'[j])
    BY <2>1 DEF Rewrite, Kept, Forgotten
  <2> QED BY <2>1, <2>2 DEF Written, RunWrite
<1>2. CASE UNCHANGED storeVars
  BY <1>2 DEF RunWrite
<1> QED BY <1>1, <1>2 DEF reconcile

(* tryProvision rejects, claims its place, starts or releases a record.     *)
LEMMA ProvisionStore == TypeInv /\ tryProvision => RunWrite
<1> SUFFICES ASSUME TypeInv, tryProvision PROVE RunWrite
  OBVIOUS
<1>1. CASE checkAndPlace
  <2>1. CASE saveLocked([jobs EXCEPT ![cur] = Tombstone("rejected")])
    <3>1. cur \in Jobs /\ Rewrite(cur, Tombstone("rejected"))
      BY <1>1, LocalParts DEF checkAndPlace, Control, Rewrite, Closed
    <3> QED BY <2>1, <3>1, WriteOne DEF RunWrite
  <2>2. CASE UNCHANGED storeVars
    BY <2>2 DEF RunWrite
  <2> QED BY <1>1, <2>1, <2>2 DEF checkAndPlace
<1>2. CASE recordProvisioning
  <2> DEFINE rec == [status |-> "provisioning", node |-> target, inst |-> FALSE,
                     runner |-> jit, attempt |-> jobs[cur].attempt + 1, left |-> Timeout + Grace]
  <2>1. cur \in Jobs /\ Rewrite(cur, rec) /\ saveLocked([jobs EXCEPT ![cur] = rec])
    BY <1>2, LocalParts DEF recordProvisioning, saveLocked, Control, Rewrite, Claimed
  <2> HIDE DEF rec
  <2> QED BY <2>1, WriteOne DEF RunWrite
<1>3. CASE CreateInstance
  <2>1. /\ cur \in Jobs /\ jobs[cur].status = "provisioning" /\ jobs \in [Jobs -> JobRecord]
        /\ disk' = disk /\ (jobs' = jobs \/ jobs' = [jobs EXCEPT ![cur].left = Timeout + Grace])
        /\ pc = "create"
    BY <1>3, LocalParts, RecordParts DEF CreateInstance, Control
  <2>2. CASE jobs' = jobs
    BY <2>1, <2>2 DEF RunWrite, storeVars
  <2>3. CASE jobs' = [jobs EXCEPT ![cur].left = Timeout + Grace]
    <3>1. jobs[cur] \in JobRecord
      BY <2>1
    <3>2. /\ jobs'[cur] = [jobs[cur] EXCEPT !.left = Timeout + Grace]
          /\ \A k \in Jobs : k # cur => jobs'[k] = jobs[k]
      BY <2>1, <2>3
    <3>4. Kept(cur, jobs'[cur])
      BY <2>1, <3>1, <3>2 DEF Kept, Moved, Active, JobRecord
    <3>3. \A k \in Jobs : Rewrite(k, jobs'[k])
      BY <3>2, <3>4 DEF Rewrite, Kept
    <3> QED BY <2>1, <3>3 DEF Written, RunWrite
  <2> QED BY <2>1, <2>2, <2>3
<1>4. CASE recordRunning
  <2> DEFINE rec == [jobs[cur] EXCEPT !.status = "running", !.inst = TRUE]
  <2>1. /\ cur \in Jobs /\ jobs[cur].status = "provisioning" /\ jobs[cur] \in JobRecord
        /\ jobs \in [Jobs -> JobRecord] /\ pc = "started"
    BY <1>4, LocalParts, RecordParts DEF recordRunning, Control
  <2>2. Rewrite(cur, rec)
    BY <2>1 DEF Rewrite, Kept, Moved, Active, JobRecord
  <2>3. [jobs EXCEPT ![cur].status = "running", ![cur].inst = TRUE] = [jobs EXCEPT ![cur] = rec]
    BY <2>1
  <2>4. saveLocked([jobs EXCEPT ![cur] = rec])
    BY <1>4, <2>3 DEF recordRunning
  <2> HIDE DEF rec
  <2> QED BY <2>1, <2>2, <2>4, WriteOne DEF RunWrite
<1>5. CASE undoSave
  <2>1. cur \in Jobs /\ Rewrite(cur, Pending(jobs[cur].attempt))
    BY <1>5, LocalParts DEF undoSave, Control, Rewrite, Released
  <2> QED BY <1>5, <2>1, WriteOne DEF undoSave, RunWrite
<1>6. CASE GenerateJITConfig \/ dropRunner \/ undoDestroy \/ undoDelete
  BY <1>6 DEF GenerateJITConfig, dropRunner, undoDestroy, undoDelete, RunWrite
<1> QED BY <1>1, <1>2, <1>3, <1>4, <1>5, <1>6 DEF tryProvision

(* Completion, cleanup and recovery close, defer or release a record.       *)
LEMMA CompletingStore == TypeInv /\ (completing \/ recoverProvisioning) => RunWrite
<1> SUFFICES ASSUME TypeInv, completing \/ recoverProvisioning PROVE RunWrite
  OBVIOUS
<1>1. CASE deferCleanup
  <2> DEFINE rec == [jobs[cur] EXCEPT !.status = "cleanup_pending"]
  <2>1. /\ cur \in Jobs /\ jobs[cur].status \in Active /\ jobs[cur] \in JobRecord
        /\ jobs \in [Jobs -> JobRecord] /\ pc = "defer"
    BY <1>1, LocalParts, RecordParts DEF deferCleanup, Control
  <2>2. Rewrite(cur, rec)
    BY <2>1 DEF Rewrite, Kept, Moved, Active, JobRecord
  <2>3. [jobs EXCEPT ![cur].status = "cleanup_pending"] = [jobs EXCEPT ![cur] = rec]
    BY <2>1
  <2>4. saveLocked([jobs EXCEPT ![cur] = rec])
    BY <1>1, <2>3 DEF deferCleanup
  <2> HIDE DEF rec
  <2> QED BY <2>1, <2>2, <2>4, WriteOne DEF RunWrite
<1>2. CASE finish
  <2>1. cur \in Jobs /\ Rewrite(cur, Tombstone("completed"))
    BY <1>2, LocalParts DEF finish, Control, Rewrite, Closed
  <2> QED BY <1>2, <2>1, WriteOne DEF finish, RunWrite
<1>3. CASE recoverSave
  <2>1. /\ cur \in Jobs /\ Rewrite(cur, Pending(jobs[cur].attempt))
        /\ saveLocked([jobs EXCEPT ![cur] = Pending(jobs[cur].attempt)])
    BY <1>3, LocalParts DEF recoverSave, saveLocked, Control, Rewrite, Released
  <2> QED BY <2>1, WriteOne DEF RunWrite
<1>4. CASE destroyStray \/ destroyCompleted \/ cleanupRecord \/ deleteRunner
           \/ recoverDestroy \/ recoverDelete
  BY <1>4
    DEF destroyStray, destroyCompleted, cleanupRecord, deleteRunner, recoverDestroy,
     recoverDelete, RunWrite
<1> QED BY <1>1, <1>2, <1>3, <1>4 DEF completing, recoverProvisioning

(* Outside the goroutine only a crash and the clock change records.         *)
LEMMA OutsideStore ==
  [Next]_vars /\ ~Run =>
    \/ Crash
    \/ UNCHANGED mgrVars /\ (UNCHANGED storeVars \/ Tick)
<1> SUFFICES ASSUME [Next]_vars, ~Run, ~Crash, ~Tick PROVE UNCHANGED <<mgrVars, storeVars>>
  BY DEF Tick
<1>1. CASE GitHub
  BY <1>1, SMT DEF GitHub, jobCancelled, jobLost, assign, jobEnds, Over
<1>2. CASE Agents
  BY <1>2 DEF Agents, heartbeat, heartbeatsStop, janitor, containerExits, lateCreate
<1>3. CASE Deliveries \/ UNCHANGED vars
  BY <1>3 DEF Deliveries, webhook, ignoreWebhook, loseWebhook, vars
<1> QED BY <1>1, <1>2, <1>3 DEF Next

(* A step of the goroutine writes one record or none.                       *)
LEMMA RunStore == TypeInv /\ Run => RunWrite
<1>1. handleCompleted \/ (\E j \in Jobs : visit(j)) => RunWrite
  BY DEF handleCompleted, visit, RunWrite
<1> QED BY <1>1, QueuedStore, ReconcileStore, ProvisionStore, CompletingStore
        DEF Run, Process, Handler

(* Every step does one of these things to the records.                      *)
LEMMA StoreSteps == TypeInv /\ [Next]_vars => StoreStep
<1> SUFFICES ASSUME TypeInv, [Next]_vars PROVE StoreStep
  OBVIOUS
<1>1. CASE Run
  BY <1>1, RunStore DEF RunWrite, StoreStep
<1>2. CASE ~Run
  BY <1>2, OutsideStore DEF Crash, loadState, Tick, StoreStep
<1> QED BY <1>1, <1>2

(* How the goroutine comes to ask for a runner and to record it.            *)
Provisioning == {"jit", "record"}

(* On the way from the check of the run to the save of the provisioning     *)
(* record only the clock may touch the records.                             *)
LEMMA ProvisioningSteps ==
  ASSUME TypeInv, [Next]_vars, pc' \in Provisioning
  PROVE  \/ /\ pc = "getrun" /\ pc' = "jit" /\ cur \in Admitted /\ cur' = cur /\ target' \in place(cur)
            /\ UNCHANGED <<storeVars, reg>>
         \/ /\ pc = "jit" /\ pc' = "record" /\ Fresh(jit') /\ UNCHANGED <<cur, target, storeVars>>
         \/ UNCHANGED mgrVars /\ (UNCHANGED storeVars \/ (jobs' = Aged(jobs) /\ disk' = Aged(disk)))
<1>1. CASE checkAndPlace
  BY <1>1 DEF checkAndPlace, Return, Provisioning, ghVars
<1>2. CASE GenerateJITConfig
  BY <1>2 DEF GenerateJITConfig, Return, Provisioning
<1>3. CASE Run /\ ~checkAndPlace /\ ~GenerateJITConfig
  <2>1. CASE Process \/ reconcile
    BY <2>1 DEF Process, handleQueued, handleCompleted, reconcile, Enter, AfterDestroy, Receive,
       mgrVars, Provisioning
  <2>2. CASE \E j \in Jobs : visit(j)
    BY <2>2 DEF visit, Enter, AfterDestroy, Provisioning
  <2>3. CASE tryProvision
    BY <1>3, <2>3
      DEF tryProvision, recordProvisioning, dropRunner, CreateInstance, recordRunning,
       undoDestroy, undoDelete, undoSave, Return, Goto, Provisioning
  <2>4. CASE completing \/ recoverProvisioning
    BY <2>4
      DEF completing, recoverProvisioning, destroyStray, destroyCompleted, deferCleanup,
       cleanupRecord, deleteRunner, finish, recoverDestroy, recoverDelete, recoverSave, Return,
       Goto, AfterDestroy, Provisioning
  <2> QED BY <1>3, <2>1, <2>2, <2>3, <2>4 DEF Run, Handler
<1>4. CASE ~Run
  BY <1>4, OutsideStore DEF Crash, loadState, Tick, Provisioning
<1> QED BY <1>1, <1>2, <1>3, <1>4

(* A runner is registered by GenerateJITConfig only, for the job and on the *)
(* node tryProvision has chosen.                                            *)
LEMMA NewRunners ==
  ASSUME [Next]_vars, NEW x \in reg' \ reg
  PROVE  /\ GenerateJITConfig /\ pc = "jit" /\ Fresh(x.id)
         /\ x.job = cur /\ x.node = target /\ x.attempt = jobs[cur].attempt + 1
<1>1. CASE GenerateJITConfig
  BY <1>1, SMT DEF GenerateJITConfig
<1>2. CASE Run /\ ~GenerateJITConfig
  BY <1>2
    DEF Run, Process, Handler, tryProvision, completing, recoverProvisioning, handleQueued,
     handleCompleted, reconcile, visit, checkAndPlace, recordProvisioning, dropRunner,
     CreateInstance, recordRunning, undoDestroy, undoDelete, undoSave, destroyStray,
     destroyCompleted, deferCleanup, cleanupRecord, deleteRunner, finish, recoverDestroy,
     recoverDelete, recoverSave, DeleteRunner, ghVars
<1>3. CASE GitHub
  BY <1>3, SMT DEF GitHub, jobCancelled, jobLost, assign, jobEnds, Over
<1>4. CASE Agents
  BY <1>4
    DEF Agents, heartbeat, heartbeatsStop, janitor, containerExits, lateCreate, ghVars
<1>5. CASE Deliveries \/ Crash \/ Tick \/ UNCHANGED vars
  BY <1>5 DEF Deliveries, webhook, ignoreWebhook, loseWebhook, Crash, loadState, Tick, vars, ghVars
<1> QED BY <1>1, <1>2, <1>3, <1>4, <1>5 DEF Next

(* Time changes nothing of a record but its timer.                          *)
LEMMA AgedRecord ==
  ASSUME NEW s \in [Jobs -> JobRecord], NEW j \in Jobs
  PROVE  /\ Aged(s)[j].status = s[j].status /\ Aged(s)[j].node = s[j].node
         /\ Aged(s)[j].runner = s[j].runner /\ Aged(s)[j].left = Less(s[j].left)
         /\ Aged(s)[j].attempt = s[j].attempt
<1>1. s[j] \in JobRecord
  OBVIOUS
<1> QED BY <1>1 DEF Aged, JobRecord

(* What a handler can make of the runner and the place of a record.         *)
LEMMA RewrittenRunner ==
  ASSUME NEW j \in Jobs, NEW rec, Rewrite(j, rec)
  PROVE  \/ rec.runner \in {jobs[j].runner, NoRunner}
         \/ pc = "record" /\ j = cur /\ rec.runner = jit
<1>1. CASE Kept(j, rec) \/ Claimed(j, rec)
  BY <1>1 DEF Kept, Claimed
<1>2. CASE Opened(j, rec) \/ Released(j, rec) \/ Closed(j, rec) \/ Forgotten(j, rec)
  BY <1>2, SMT DEF Opened, Released, Closed, Forgotten, Absent, Pending, Tombstone, Blank
<1> QED BY <1>1, <1>2 DEF Rewrite

(* What becomes of a record that holds a place: it keeps node and runner,   *)
(* or is released or closed at the end of its handler.                      *)
LEMMA RewrittenActive ==
  ASSUME NEW j \in Jobs, NEW rec, Rewrite(j, rec), jobs[j].status \in Active
  PROVE  \/ Kept(j, rec) \/ Released(j, rec)
         \/ pc = "finish" /\ j = cur /\ rec = Tombstone("completed")
  BY SMT DEF Rewrite, Opened, Closed, Forgotten, Claimed, Expired, Active, Tombstones,
     Absent, Blank

(* And a record that comes to hold one has just been claimed.               *)
LEMMA RewrittenToActive ==
  ASSUME NEW j \in Jobs, NEW rec, Rewrite(j, rec), rec.status \in Active
  PROVE  (Kept(j, rec) /\ jobs[j].status \in Active) \/ Claimed(j, rec)
  BY SMT DEF Rewrite, Kept, Opened, Released, Closed, Forgotten, Active, Absent, Pending, Tombstone, Blank

(***************************************************************************)
(* The goroutine, the crash and the queue                                  *)
(***************************************************************************)
(* An instance without crashes has none.                                    *)
LEMMA NoCrash ==
  ASSUME MaxCrashes = 0, TypeInv
  PROVE  ~Crash
  BY EnvParts, SMT DEF Crash

(* Its steps leave the records, age them or are a handler's.                *)
LEMMA LiveStore ==
  ASSUME MaxCrashes = 0, TypeInv, [Next]_vars
  PROVE  \/ UNCHANGED storeVars
         \/ jobs' = Aged(jobs) /\ disk' = Aged(disk) /\ UNCHANGED mgrVars
         \/ Written
  BY EnvParts, StoreSteps, SMT DEF StoreStep

(* A record no handler writes keeps all but its age.                        *)
SameRecord(j) ==
  /\ jobs'[j].status = jobs[j].status /\ jobs'[j].node = jobs[j].node
  /\ jobs'[j].runner = jobs[j].runner /\ jobs'[j].attempt = jobs[j].attempt

(* So does every record when nothing is written.                            *)
LEMMA UnwrittenSame ==
  ASSUME MaxCrashes = 0, TypeInv, [Next]_vars, ~Written, NEW j \in Jobs
  PROVE  SameRecord(j)
<1>1. jobs' = jobs \/ jobs' = Aged(jobs)
  BY LiveStore DEF storeVars
<1> QED BY <1>1, RecordParts, AgedRecord, SMT DEF SameRecord

(* And when the step is not the goroutine's, whose locals then stay.        *)
LEMMA OutsideSame ==
  ASSUME MaxCrashes = 0, TypeInv, [Next]_vars, ~Run, NEW j \in Jobs
  PROVE  SameRecord(j) /\ UNCHANGED mgrVars
<1>1. (jobs' = jobs \/ jobs' = Aged(jobs)) /\ UNCHANGED mgrVars
  BY NoCrash, OutsideStore DEF storeVars, Tick
<1> QED BY <1>1, RecordParts, AgedRecord, SMT DEF SameRecord

(* The manager's goroutine does not change the registry, GitHub's jobs or   *)
(* its webhooks.                                                            *)
LEMMA RunFrame == Run => UNCHANGED <<view, gh, by, hooks, crashes>>
<1>1. Process \/ reconcile => UNCHANGED <<view, gh, by, hooks, crashes>>
  BY DEF Process, handleQueued, handleCompleted, reconcile, ghVars
<1>2. tryProvision => UNCHANGED <<view, gh, by, hooks, crashes>>
  BY DEF tryProvision, checkAndPlace, GenerateJITConfig, recordProvisioning, dropRunner,
     CreateInstance, recordRunning, undoDestroy, undoDelete, undoSave, ghVars
<1>3. completing \/ recoverProvisioning => UNCHANGED <<view, gh, by, hooks, crashes>>
  BY DEF completing, recoverProvisioning, destroyStray, destroyCompleted, deferCleanup,
     cleanupRecord, deleteRunner, finish, recoverDestroy, recoverDelete, recoverSave, ghVars
<1>4. (\E j \in Jobs : visit(j)) => UNCHANGED <<view, gh, by, hooks, crashes>>
  BY DEF visit, ghVars
<1> QED BY <1>1, <1>2, <1>3, <1>4 DEF Run, Handler

(* At "record" it writes the record of the runner it was given.             *)
LEMMA RecordClaims ==
  ASSUME TypeInv, Run, pc = "record"
  PROVE  jobs'[cur].attempt = jobs[cur].attempt + 1 /\ jobs'[cur].runner = jit
<1>1. ~(Process \/ reconcile \/ \E j \in Jobs : visit(j))
  BY DEF Process, handleQueued, handleCompleted, reconcile, Receive, visit
<1>2. ~(completing \/ recoverProvisioning)
  BY DEF completing, recoverProvisioning, destroyStray, destroyCompleted, deferCleanup,
     cleanupRecord, deleteRunner, finish, recoverDestroy, recoverDelete, recoverSave
<1>3. tryProvision => recordProvisioning
  BY DEF tryProvision, checkAndPlace, GenerateJITConfig, dropRunner, CreateInstance,
     recordRunning, undoDestroy, undoDelete, undoSave
<1>4. recordProvisioning
  BY <1>1, <1>2, <1>3 DEF Run, Handler
<1>5. cur \in Jobs /\ jobs' = [jobs EXCEPT ![cur] =
        [status |-> "provisioning", node |-> target, inst |-> FALSE, runner |-> jit,
         attempt |-> jobs[cur].attempt + 1, left |-> Timeout + Grace]]
  BY <1>4, LocalParts DEF recordProvisioning, Control, saved, saveFails
<1> QED BY <1>5, RecordParts

(* A new webhook is the completed one of a job that is done.                *)
LEMMA NewHooks ==
  ASSUME TypeInv, [Next]_vars, NEW e \in hooks' \ hooks
  PROVE  e.kind = "completed" /\ gh'[e.job] = "done"
<1>1. ASSUME NEW k \in Jobs, Over(k) PROVE e.kind = "completed" /\ gh'[e.job] = "done"
  BY <1>1, EnvParts, SMT DEF Over
<1>2. CASE GitHub
  BY <1>1, <1>2 DEF GitHub, jobCancelled, jobLost, jobEnds, assign
<1>3. CASE Run
  BY <1>3, RunFrame
<1>4. CASE Agents
  BY <1>4 DEF Agents, heartbeat, heartbeatsStop, janitor, containerExits, lateCreate, ghVars
<1>5. CASE Tick \/ Crash \/ Deliveries \/ UNCHANGED vars
  BY <1>5 DEF Tick, Crash, Deliveries, webhook, ignoreWebhook, loseWebhook, ghVars, vars
<1> QED BY <1>2, <1>3, <1>4, <1>5 DEF Next

(* The manager takes events off the queue, and only when it is idle.        *)
LEMMA RunQueue == Run => queue' = queue \/ (queue # << >> /\ queue' = Tail(queue) /\ pc = "idle")
<1>1. Process \/ reconcile => queue' = queue \/ (queue # << >> /\ queue' = Tail(queue) /\ pc = "idle")
  BY DEF Process, handleQueued, handleCompleted, reconcile, Receive
<1>2. tryProvision => queue' = queue
  BY DEF tryProvision, checkAndPlace, GenerateJITConfig, recordProvisioning, dropRunner,
     CreateInstance, recordRunning, undoDestroy, undoDelete, undoSave
<1>3. completing \/ recoverProvisioning => queue' = queue
  BY DEF completing, recoverProvisioning, destroyStray, destroyCompleted, deferCleanup,
     cleanupRecord, deleteRunner, finish, recoverDestroy, recoverDelete, recoverSave
<1>4. (\E j \in Jobs : visit(j)) => queue' = queue
  BY DEF visit
<1> QED BY <1>1, <1>2, <1>3, <1>4 DEF Run, Handler

(* The queue: Run takes the first event, the endpoint adds a webhook's at   *)
(* the end, a crash loses all.                                              *)
QueueStep ==
  \/ queue' = queue /\ \A e \in hooks' : e \in hooks \/ e.kind = "completed"
  \/ queue # << >> /\ queue' = Tail(queue) /\ hooks' = hooks /\ pc = "idle"
  \/ \E e \in hooks : /\ queue' = Append(queue, e)
                      /\ hooks' = hooks \ {e} \/ (hooks' = hooks /\ "dup" \in Faults)
  \/ queue' = << >> /\ hooks' = hooks /\ crashes < MaxCrashes

(* Every step does one of these to the deliveries and to the queue.         *)
LEMMA QueueSteps == TypeInv /\ [Next]_vars => QueueStep
<1> SUFFICES ASSUME TypeInv, [Next]_vars PROVE QueueStep
  OBVIOUS
<1>1. ASSUME queue' = queue PROVE QueueStep
  BY <1>1, NewHooks DEF QueueStep
<1>2. CASE Run
  BY <1>2, RunQueue, RunFrame DEF QueueStep
<1>3. CASE Deliveries
  BY <1>1, <1>3 DEF Deliveries, webhook, ignoreWebhook, loseWebhook, Submit, Fault, QueueStep
<1>4. CASE GitHub
  BY <1>1, <1>4, SMT DEF GitHub, jobCancelled, jobLost, assign, jobEnds, Over
<1>7. CASE Agents
  BY <1>1, <1>7 DEF Agents, heartbeat, heartbeatsStop, janitor, containerExits, lateCreate
<1>5. CASE Tick \/ UNCHANGED vars
  BY <1>1, <1>5 DEF Tick, vars
<1>6. CASE Crash
  BY <1>6 DEF Crash, ghVars, QueueStep
<1> QED BY <1>2, <1>3, <1>4, <1>5, <1>6, <1>7 DEF Next

(* What taking and adding do to the sequence.                               *)
LEMMA TailElements ==
  ASSUME NEW q \in Seq(Event), q # << >>
  PROVE  /\ Tail(q) \in Seq(Event) /\ Len(Tail(q)) = Len(q) - 1 /\ Len(q) \in Nat \ {0}
         /\ 1 \in 1 .. Len(q) /\ Head(q) = q[1]
         /\ \A i \in 1 .. Len(Tail(q)) : i + 1 \in 1 .. Len(q) /\ Tail(q)[i] = q[i + 1]
  BY SMT

(* What Append does to the elements of a queue.                             *)
LEMMA AppendElements ==
  ASSUME NEW q \in Seq(Event), NEW e \in Event
  PROVE  /\ Len(Append(q, e)) = Len(q) + 1 /\ Len(q) \in Nat
         /\ \A i \in 1 .. Len(q) : i \in 1 .. Len(Append(q, e)) /\ Append(q, e)[i] = q[i]
         /\ \A i \in 1 .. Len(Append(q, e)) : i \in 1 .. Len(q) \/ i = Len(q) + 1
         /\ Append(q, e)[Len(q) + 1] = e
  BY SMT

(* Every event of the queue was there before or comes from a webhook.       *)
LEMMA QueueElements ==
  ASSUME TypeInv, QueueStep, NEW i \in 1 .. Len(queue')
  PROVE  queue'[i] \in hooks \/ \E k \in 1 .. Len(queue) : queue'[i] = queue[k]
<1>0. queue \in Seq(Event) /\ hooks \subseteq Event
  BY TypeParts DEF Channel
<1>1. CASE queue' = queue
  BY <1>1
<1>2. CASE queue # << >> /\ queue' = Tail(queue)
  BY <1>0, <1>2, TailElements
<1>3. ASSUME NEW e \in hooks, queue' = Append(queue, e)
      PROVE  queue'[i] \in hooks \/ \E k \in 1 .. Len(queue) : queue'[i] = queue[k]
  BY <1>0, <1>3, AppendElements, SMT
<1>4. CASE queue' = << >>
  BY <1>4, SMT
<1> QED BY <1>1, <1>2, <1>3, <1>4 DEF QueueStep

(***************************************************************************)
(* Tombstones                                                              *)
(*                                                                         *)
(* A tombstone that is valid on disk is in memory too, and lasts there at  *)
(* least as long, so neither a duplicate delivery nor the pruning of       *)
(* reconcile can reopen the job before the file forgets it.                *)
(***************************************************************************)
Buried(r) == r.status \in Tombstones

TombInv ==
  \A j \in Jobs :
    /\ Buried(jobs[j]) => jobs[j].left <= TTL
    /\ Buried(disk[j]) => disk[j].left <= TTL
    /\ Buried(disk[j]) /\ disk[j].left > 0 => Buried(jobs[j]) /\ jobs[j].left >= disk[j].left

(* A handler leaves a valid tombstone, or puts a new one in its place.      *)
LEMMA BuriedStays ==
  ASSUME TypeInv, NEW j \in Jobs, NEW rec, Rewrite(j, rec),
         Buried(jobs[j]), jobs[j].left > 0, jobs[j].left <= TTL
  PROVE  Buried(rec) /\ rec.left >= jobs[j].left
<1>1. jobs[j].left \in Nat
  BY DEF TypeInv, TypeOK, JobRecord
<1>2. CASE Kept(j, rec)
  BY <1>1, <1>2, SMT DEF Kept, Buried, Tombstones, Active
<1>3. CASE Closed(j, rec)
  BY <1>3, SMT DEF Closed, Buried, Tombstones, Tombstone, Blank
<1>4. Kept(j, rec) \/ Closed(j, rec)
  BY <1>1, SMT DEF Rewrite, Opened, Released, Forgotten, Claimed, Buried, Expired, Tombstones, Absent, Blank
<1> QED BY <1>2, <1>3, <1>4

(* A record that becomes a tombstone starts with the full TTL.              *)
LEMMA BuriedBound ==
  ASSUME NEW j \in Jobs, NEW rec, Rewrite(j, rec), Buried(jobs[j]) => jobs[j].left <= TTL
  PROVE  Buried(rec) => rec.left <= TTL
<1>1. CASE Kept(j, rec)
  BY <1>1 DEF Kept, Moved, Buried, Tombstones
<1>2. CASE Closed(j, rec)
  BY <1>2, SMT DEF Closed, Buried, Tombstone, Blank
<1>3. Buried(rec) => Kept(j, rec) \/ Closed(j, rec)
  BY SMT DEF Rewrite, Opened, Released, Forgotten, Claimed, Buried, Tombstones, Absent, Pending, Blank
<1> QED BY <1>1, <1>2, <1>3

(* Memory holds every valid tombstone of the file, and holds it longer.     *)
LEMMA TombStep == TypeInv /\ TombInv /\ [Next]_vars => TombInv'
<1> SUFFICES ASSUME TypeInv, TombInv, [Next]_vars, NEW j \in Jobs
             PROVE  /\ Buried(jobs'[j]) => jobs'[j].left <= TTL
                    /\ Buried(disk'[j]) => disk'[j].left <= TTL
                    /\ Buried(disk'[j]) /\ disk'[j].left > 0
                         => Buried(jobs'[j]) /\ jobs'[j].left >= disk'[j].left
  BY DEF TombInv, Buried
<1>0. /\ Buried(jobs[j]) => jobs[j].left <= TTL
      /\ Buried(disk[j]) => disk[j].left <= TTL
      /\ Buried(disk[j]) /\ disk[j].left > 0 => Buried(jobs[j]) /\ jobs[j].left >= disk[j].left
      /\ jobs \in [Jobs -> JobRecord] /\ disk \in [Jobs -> JobRecord]
      /\ jobs[j].left \in Nat /\ disk[j].left \in Nat
  BY DEF TombInv, TypeInv, TypeOK, JobRecord
<1>1. CASE UNCHANGED storeVars
  BY <1>0, <1>1 DEF storeVars
<1>2. CASE jobs' = disk /\ disk' = disk
  BY <1>0, <1>2, SMT
<1>3. CASE jobs' = Aged(jobs) /\ disk' = Aged(disk)
  BY <1>0, <1>3, AgedRecord, SMT DEF Less, Buried
<1>4. CASE Written
  <2>1. Rewrite(j, jobs'[j]) /\ (disk' = disk \/ disk' = jobs')
    BY <1>4 DEF Written
  <2>2. Buried(jobs'[j]) => jobs'[j].left <= TTL
    BY <1>0, <2>1, BuriedBound
  <2>3. jobs'[j].left \in Nat
    BY TypeStep DEF TypeInv, TypeOK, JobRecord
  <2>4. CASE disk' = disk
    BY <1>0, <2>1, <2>2, <2>3, <2>4, BuriedStays, SMT
  <2>5. CASE disk' = jobs'
    BY <2>2, <2>3, <2>5, SMT
  <2> QED BY <2>1, <2>4, <2>5
<1> QED BY <1>1, <1>2, <1>3, <1>4, StoreSteps DEF StoreStep

(* A valid tombstone on disk is replaced by a tombstone only.               *)
LEMMA BuriedOnDisk ==
  ASSUME TypeInv, TombInv, [Next]_vars, NEW j \in Jobs, Buried(disk[j]), disk[j].left > 0
  PROVE  Buried(jobs[j]) /\ Buried(disk'[j])
<1>1. /\ Buried(jobs[j]) /\ jobs[j].left > 0 /\ jobs[j].left <= TTL
      /\ disk \in [Jobs -> JobRecord]
  <2>1. Buried(jobs[j]) /\ jobs[j].left >= disk[j].left /\ jobs[j].left <= TTL
    BY DEF TombInv
  <2>2. jobs[j].left \in Nat /\ disk[j].left \in Nat /\ disk \in [Jobs -> JobRecord]
    BY DEF TypeInv, TypeOK, JobRecord
  <2> QED BY <2>1, <2>2, SMT
<1>2. Buried(disk'[j])
  <2>1. CASE UNCHANGED storeVars \/ disk' = disk
    BY <2>1 DEF storeVars
  <2>2. CASE disk' = Aged(disk)
    BY <1>1, <2>2, AgedRecord DEF Buried
  <2>3. CASE Written
    BY <1>1, <2>3, BuriedStays DEF Written
  <2> QED BY <2>1, <2>2, <2>3, StoreSteps DEF StoreStep
<1> QED BY <1>1, <1>2

(* Once a tombstone has been saved no delivery, retry, failed save or       *)
(* restart reopens the job or registers a runner for it before the TTL has  *)
(* passed.                                                                  *)
THEOREM NoReopening == Spec => TombstonesHold
<1>1. Init => TypeInv /\ TombInv
  <2>1. Init => TombInv
    BY SMT DEF Init, TombInv, Buried, Absent, Blank, Tombstones
  <2> QED BY <2>1, InitTypeInv
<1>2. TypeInv /\ TombInv /\ [Next]_vars => (TypeInv /\ TombInv)'
  BY TypeStep, TombStep
<1> DEFINE Holds(j) == disk[j].status \in Tombstones /\ disk[j].left > 0 =>
                         /\ disk'[j].status \in Tombstones
                         /\ \A x \in reg' \ reg : x.job # j
<1>3. TypeInv /\ TombInv /\ [Next]_vars => [\A j \in Jobs : Holds(j)]_vars
  <2> SUFFICES ASSUME TypeInv, TombInv, [Next]_vars, NEW j \in Jobs,
                      Buried(disk[j]), disk[j].left > 0
               PROVE  Buried(disk'[j]) /\ \A x \in reg' \ reg : x.job # j
    BY DEF Buried
  <2>1. Buried(jobs[j]) /\ Buried(disk'[j])
    BY BuriedOnDisk
  <2>2. ASSUME NEW x \in reg' \ reg PROVE x.job # j
    BY <2>1, <2>2, NewRunners DEF TypeInv, Control, Buried, Tombstones
  <2> QED BY <2>1, <2>2
<1> QED BY <1>1, <1>2, <1>3, PTL DEF Spec, TombstonesHold

=============================================================================
