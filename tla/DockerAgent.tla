---------------------------- MODULE DockerAgent ----------------------------
(***************************************************************************)
(* The agent of one node: the goroutine of Service.Run, which probes for   *)
(* heartbeats and sweeps expired containers, and the HTTP handlers that    *)
(* create and destroy containers at the same time.  Every docker command   *)
(* is a step; between two of them containers come, go, exit and expire.    *)
(* Time is relative: `left' counts the ticks until a container's deadline. *)
(***************************************************************************)
EXTENDS Naturals

CONSTANTS
  Ids,            \* container ids; ids nobody remembers are used again
  Jobs,           \* a job's id makes the name of its container
  Timeouts,       \* the timeouts that create requests ask for
  DefaultTimeout, \* Config.DefaultTimeout in ticks
  None, NoJob,
  MaxFaults,      \* bound on docker commands that fail and on restarts
  MaxCreates      \* bound on containers made

ASSUME AgentAssumption ==
  /\ NoJob \notin Jobs /\ None \notin Ids /\ Timeouts \subseteq Nat
  /\ DefaultTimeout \in Nat \ {0} /\ MaxFaults \in Nat /\ MaxCreates \in Nat

VARIABLES
  box,      \* box[c]: the container with id c: job, ticks left, and whether it is
            \* asked for (docker run under way), up or down
  loc,      \* where the goroutine stands
  booting,  \* it has not yet done its first heartbeat and sweep
  listed,   \* ids of the last docker ps still to be inspected
  counted,  \* ids the probe has inspected
  fired,    \* the buffered cleanup tick: the containers due at its time
  due,      \* the containers due at the time of the tick being handled
  victim,   \* the id the sweep removes next
  before,   \* history: ids running since the probe began
  faults, creates

loop == <<loc, booting, listed, counted, fired, due, victim>>
vars == <<box, loop, before, faults, creates>>

Nobody == [job |-> NoJob, left |-> 0, st |-> "none"]
Up == {c \in Ids : box[c].st = "up"}
All == {c \in Ids : box[c].st \in {"up", "down"}}
Exists(c) == c \in All
Expired == {c \in Ids : box[c] # Nobody /\ box[c].left = 0}
NoTick == [at |-> FALSE, due |-> {}]

Init ==
  /\ box = [c \in Ids |-> Nobody]
  /\ loc = "select" /\ booting = TRUE
  /\ listed = {} /\ counted = {} /\ fired = NoTick /\ due = {} /\ victim = None
  /\ before = {} /\ faults = 0 /\ creates = 0

Fault == faults < MaxFaults /\ faults' = faults + 1
NoFault == UNCHANGED faults

(***************************************************************************)
(* The goroutine of Service.Run                                            *)
(***************************************************************************)
(* sendHeartbeat starts the probe of Capacity: at once after the start of   *)
(* the agent, then on the ticker.                                           *)
sendHeartbeat ==
  /\ loc = "select" /\ loc' = "ps" /\ before' = Up
  /\ UNCHANGED <<box, booting, listed, counted, fired, due, victim, faults, creates>>

(* docker ps lists the running containers, or fails.                        *)
ps ==
  /\ loc = "ps" /\ counted' = {}
  /\ \/ listed' = Up /\ loc' = (IF Up = {} THEN "send" ELSE "inspect") /\ NoFault
     \/ Fault /\ listed' = {} /\ loc' = "fail"
  /\ UNCHANGED <<box, booting, fired, due, victim, before, creates>>

(* Mutant: a container that cannot be inspected is left out.                *)
inspectSkips(c) ==
  /\ loc = "inspect" /\ c \in listed /\ listed' = listed \ {c}
  /\ loc' = IF listed = {c} THEN "send" ELSE "inspect"
  /\ \/ Exists(c) /\ NoFault /\ counted' = counted \cup {c}
     \/ ~Exists(c) /\ NoFault /\ counted' = counted
     \/ Exists(c) /\ Fault /\ counted' = counted
  /\ UNCHANGED <<box, booting, fired, due, victim, before, creates>>

(* docker inspect reads the labels with CPU and memory; one container that  *)
(* cannot be inspected, because it is gone or otherwise, fails the probe.   *)
inspect(c) ==
  /\ loc = "inspect" /\ c \in listed
  /\ \/ /\ Exists(c) /\ NoFault /\ counted' = counted \cup {c} /\ listed' = listed \ {c}
        /\ loc' = IF listed = {c} THEN "send" ELSE "inspect"
     \/ ~Exists(c) /\ NoFault /\ loc' = "fail" /\ listed' = {} /\ counted' = {}
     \/ Exists(c) /\ Fault /\ loc' = "fail" /\ listed' = {} /\ counted' = {}
  /\ UNCHANGED <<box, booting, fired, due, victim, before, creates>>

(* After its first heartbeat the agent sweeps at once.                      *)
Continue ==
  /\ booting' = FALSE
  /\ IF booting THEN loc' = "psAll" /\ due' = Expired ELSE loc' = "select" /\ due' = {}

(* Mutant: the loop ends with the first probe that fails.                   *)
sendAndStop ==
  /\ loc \in {"send", "fail"}
  /\ counted' = {} /\ before' = {}
  /\ booting' = FALSE /\ due' = {} /\ loc' = IF loc = "send" THEN "select" ELSE "stopped"
  /\ UNCHANGED <<box, listed, fired, victim, faults, creates>>

(* The heartbeat is sent, from "send" with the backend and what was counted, *)
(* from "fail" without; whether it arrives changes nothing here.           *)
send ==
  /\ loc \in {"send", "fail"}
  /\ counted' = {} /\ before' = {} /\ Continue
  /\ UNCHANGED <<box, listed, fired, victim, faults, creates>>

(* The cleanup ticker: a tick that finds another one waiting is dropped.    *)
fire ==
  /\ fired = NoTick /\ fired' = [at |-> TRUE, due |-> Expired]
  /\ UNCHANGED <<box, loc, booting, listed, counted, due, victim, before, faults, creates>>

cleanupAt ==
  /\ loc = "select" /\ fired # NoTick /\ ~booting
  /\ loc' = "psAll" /\ due' = fired.due /\ fired' = NoTick
  /\ UNCHANGED <<box, booting, listed, counted, victim, before, faults, creates>>

AfterSweep(rest) == IF rest = {} THEN "select" ELSE "examine"

(* Mutant: docker ps without -a.                                            *)
psRunning ==
  /\ loc = "psAll"
  /\ \/ listed' = Up /\ NoFault /\ loc' = AfterSweep(Up)
     \/ Fault /\ listed' = {} /\ loc' = "select"
  /\ UNCHANGED <<box, booting, counted, fired, due, victim, before, creates>>

(* CleanupExpired: docker ps -a lists containers running or not.            *)
psAll ==
  /\ loc = "psAll"
  /\ \/ listed' = All /\ NoFault /\ loc' = AfterSweep(All)
     \/ Fault /\ listed' = {} /\ loc' = "select"
  /\ UNCHANGED <<box, booting, counted, fired, due, victim, before, creates>>

(* Mutant: the comparison with the clock is dropped.                        *)
examineAny(c) ==
  /\ loc = "examine" /\ c \in listed /\ listed' = listed \ {c}
  /\ \/ Exists(c) /\ NoFault /\ loc' = "rm" /\ victim' = c
     \/ ~Exists(c) /\ NoFault /\ loc' = AfterSweep(listed') /\ UNCHANGED victim
     \/ Exists(c) /\ Fault /\ loc' = AfterSweep(listed') /\ UNCHANGED victim
  /\ UNCHANGED <<box, booting, counted, fired, due, before, creates>>

(* A container that is gone, unreadable or not yet due is passed over.      *)
examine(c) ==
  /\ loc = "examine" /\ c \in listed /\ listed' = listed \ {c}
  /\ \/ Exists(c) /\ c \in due /\ NoFault /\ loc' = "rm" /\ victim' = c
     \/ ~(Exists(c) /\ c \in due) /\ NoFault /\ loc' = AfterSweep(listed') /\ UNCHANGED victim
     \/ Exists(c) /\ Fault /\ loc' = AfterSweep(listed') /\ UNCHANGED victim
  /\ UNCHANGED <<box, booting, counted, fired, due, before, creates>>

Without(c) == [box EXCEPT ![c] = Nobody]

(* docker rm -f of the id; nothing happens if it is gone by now.            *)
rm ==
  /\ loc = "rm" /\ loc' = AfterSweep(listed) /\ victim' = None
  /\ \/ box' = Without(victim) /\ NoFault
     \/ Fault /\ UNCHANGED box
  /\ UNCHANGED <<booting, listed, counted, fired, due, before, creates>>

(* The agent ends at any point and is started again; containers stay.       *)
restart ==
  /\ Fault /\ loc' = "select" /\ booting' = TRUE
  /\ listed' = {} /\ counted' = {} /\ fired' = NoTick /\ due' = {} /\ victim' = None
  /\ before' = {} /\ UNCHANGED <<box, creates>>

(***************************************************************************)
(* The HTTP handlers, concurrent with the goroutine, and Docker            *)
(***************************************************************************)
Unused(c) ==
  /\ box[c] = Nobody /\ c # victim
  /\ c \notin listed \cup counted \cup fired.due \cup due \cup before

EffectiveTimeout(t) == IF t > 0 THEN t ELSE DefaultTimeout

(* createInstance: Create computes the deadline, then runs docker run, which *)
(* may take any time.                                                       *)
createInstance(c, j, t) ==
  /\ creates < MaxCreates /\ creates' = creates + 1
  /\ Unused(c)
  /\ box' = [box EXCEPT ![c] = [job |-> j, left |-> EffectiveTimeout(t), st |-> "asked"]]
  /\ UNCHANGED <<loop, before, faults>>

(* docker run starts the container, makes it without starting it, or fails, *)
(* as it does if the name is taken.                                         *)
dockerRun(c) ==
  /\ box[c].st = "asked"
  /\ \/ /\ \A d \in All : box[d].job # box[c].job
        /\ \/ box' = [box EXCEPT ![c].st = "up"] /\ NoFault
           \/ box' = [box EXCEPT ![c].st = "down"] /\ Fault
     \/ box' = Without(c) /\ NoFault
  /\ UNCHANGED <<loop, before, creates>>

(* destroyInstance: docker rm -f of an id, or of the name the job gives.    *)
destroyInstance(c) ==
  /\ Exists(c) /\ box' = Without(c) /\ before' = before \ {c}
  /\ UNCHANGED <<loop, faults, creates>>

(* The container's process ends.                                            *)
exit(c) ==
  /\ box[c].st = "up" /\ box' = [box EXCEPT ![c].st = "down"] /\ before' = before \ {c}
  /\ UNCHANGED <<loop, faults, creates>>

Tick ==
  /\ \E c \in Ids : box[c].left > 0
  /\ box' = [c \in Ids |-> [box[c] EXCEPT !.left = IF @ = 0 THEN 0 ELSE @ - 1]]
  /\ UNCHANGED <<loop, before, faults, creates>>

goroutine ==
  \/ ps \/ send \/ psAll \/ rm
  \/ \E c \in Ids : inspect(c) \/ examine(c)

Next ==
  \/ goroutine \/ sendHeartbeat \/ fire \/ cleanupAt \/ restart \/ Tick
  \/ \E c \in Ids :
       \/ \E j \in Jobs, t \in Timeouts : createInstance(c, j, t)
       \/ dockerRun(c) \/ destroyInstance(c) \/ exit(c)

Spec == Init /\ [][Next]_vars

(* Every docker command ends.  Both tickers fire for ever, and select       *)
(* chooses at random among the ready ones, so neither starves the other.    *)
Fairness ==
  /\ WF_vars(goroutine) /\ WF_vars(fire) /\ WF_vars(Tick)
  /\ SF_vars(sendHeartbeat) /\ SF_vars(cleanupAt)
  /\ \A c \in Ids : WF_vars(dockerRun(c))

FairSpec == Spec /\ Fairness

(***************************************************************************)
(* Properties                                                              *)
(***************************************************************************)
(* The sweep of CleanupExpired never removes a container before its         *)
(* deadline, although it decides on a list and a clock that may be old and  *)
(* a job's container may have been replaced under the same name meanwhile.  *)
NeverEarly ==
  [][loc = "rm" /\ loc' # "rm" =>
       \A c \in Ids : Exists(c) /\ box'[c] = Nobody => box[c].left = 0]_vars

(* A heartbeat that offers Docker counts every container that has been      *)
(* running since before the probe of Capacity began, so the controller      *)
(* never sees the resources of a long-running container as free.            *)
ReportCovers == loc = "send" => before \subseteq counted

(* Every container is removed at some time after it was made: running,      *)
(* ended or never started, whatever the controller asks for, and although   *)
(* sweeps share their goroutine with heartbeats, may fail and may be cut    *)
(* off by a restart.                                                        *)
ContainersGo == \A c \in Ids : Exists(c) ~> ~Exists(c)

(* However probes fail, the loop goes on: the node is again and again       *)
(* reported with Docker.                                                    *)
ReportsResume == []<>(loc = "send")

=============================================================================
