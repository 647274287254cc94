------------------------- MODULE DockerAgentProofs -------------------------
(* The safety properties of DockerAgent, for all constants.                 *)
EXTENDS DockerAgent, TLAPS

USE AgentAssumption

Box == [job : Jobs \cup {NoJob}, left : Nat, st : {"none", "asked", "up", "down"}]

TypeInv ==
  /\ box \in [Ids -> Box]
  /\ listed \subseteq Ids /\ counted \subseteq Ids /\ due \subseteq Ids /\ before \subseteq Ids
  /\ fired \in [at : BOOLEAN, due : SUBSET Ids]
  /\ loc = "rm" => victim \in Ids

(* Who was due when a tick fired is due ever after, until it is gone: its   *)
(* id is not given to another container while the agent remembers it.       *)
DueInv ==
  /\ \A c \in due \cup fired.due : box[c] # Nobody => box[c].left = 0
  /\ loc = "rm" => victim \in due

(* The containers that have been running since before the probe are listed  *)
(* by ps and stay on the list or are counted.                               *)
ProbeInv ==
  /\ loc = "ps" => before \subseteq Up
  /\ loc = "inspect" => before \subseteq counted \cup listed
  /\ loc = "send" => before \subseteq counted

Inv == TypeInv /\ DueInv /\ ProbeInv

(* Changes of one container.                                                *)
LEMMA BoxTypes ==
  /\ Nobody \in Box
  /\ \A b \in Box : \A s \in {"up", "down"} : [b EXCEPT !.st = s] \in Box
  /\ TypeInv => \A c \in Ids : Without(c) \in [Ids -> Box]
  BY DEF Nobody, Box, Without, TypeInv

(* A step outside the goroutine that makes no container due any less and    *)
(* takes from `before' what no longer runs.                                 *)
LEMMA OutsideStep ==
  ASSUME Inv, UNCHANGED loop, box' \in [Ids -> Box], before' \subseteq before,
         \A c \in due \cup fired.due : box'[c] # Nobody => box[c] # Nobody /\ box'[c].left <= box[c].left,
         \A c \in before' : c \in Up => box'[c].st = "up"
  PROVE  Inv'
<1>1. TypeInv'
  BY DEF Inv, TypeInv, loop
<1>2. DueInv'
  <2>1. ASSUME NEW c \in due \cup fired.due, box'[c] # Nobody PROVE box'[c].left = 0
    <3>1. box[c].left = 0 /\ box'[c].left <= box[c].left /\ c \in Ids
      BY <2>1 DEF Inv, DueInv, TypeInv
    <3>2. box'[c].left \in Nat
      BY <3>1 DEF Box
    <3> QED BY <3>1, <3>2
  <2> QED BY <2>1 DEF Inv, DueInv, loop
<1>3. ProbeInv'
  BY DEF Inv, TypeInv, ProbeInv, Up, loop
<1> QED BY <1>1, <1>2, <1>3 DEF Inv

(* The steps of the goroutine, its tickers and restarts.                    *)
LEMMA GoroutineStep == Inv /\ (goroutine \/ sendHeartbeat \/ fire \/ cleanupAt \/ restart) => Inv'
<1> SUFFICES ASSUME Inv, goroutine \/ sendHeartbeat \/ fire \/ cleanupAt \/ restart PROVE Inv'
  OBVIOUS
<1>1. CASE sendHeartbeat \/ ps
  BY <1>1 DEF sendHeartbeat, ps, Inv, TypeInv, DueInv, ProbeInv, Up
<1>2. ASSUME NEW c \in Ids, inspect(c) PROVE Inv'
  BY <1>2 DEF inspect, Inv, TypeInv, DueInv, ProbeInv
<1>3. CASE send
  BY <1>3 DEF send, Continue, Expired, Inv, TypeInv, DueInv, ProbeInv
<1>4. CASE fire \/ cleanupAt \/ restart
  <2>1. CASE fire
    <3>1. fired'.due = Expired /\ fired' \in [at : BOOLEAN, due : SUBSET Ids]
      BY <2>1 DEF fire, Expired
    <3> QED BY <2>1, <3>1 DEF fire, Expired, Up, Inv, TypeInv, DueInv, ProbeInv
  <2>2. CASE cleanupAt
    <3>1. fired'.due = {} /\ fired' \in [at : BOOLEAN, due : SUBSET Ids] /\ fired.due \subseteq Ids
      BY <2>2 DEF cleanupAt, NoTick, Inv, TypeInv
    <3> QED BY <2>2, <3>1 DEF cleanupAt, Inv, TypeInv, DueInv, ProbeInv
  <2>3. CASE restart
    <3>1. fired'.due = {} /\ fired' \in [at : BOOLEAN, due : SUBSET Ids]
      BY <2>3 DEF restart, NoTick
    <3> QED BY <2>3, <3>1 DEF restart, Inv, TypeInv, DueInv, ProbeInv
  <2> QED BY <1>4, <2>1, <2>2, <2>3
<1>5. CASE psAll
  BY <1>5 DEF psAll, AfterSweep, All, Inv, TypeInv, DueInv, ProbeInv
<1>6. ASSUME NEW c \in Ids, examine(c) PROVE Inv'
  BY <1>6 DEF examine, AfterSweep, Inv, TypeInv, DueInv, ProbeInv
<1>7. CASE rm
  <2>1. /\ loc' \in {"select", "examine"} /\ victim \in Ids
        /\ box' = box \/ box' = [box EXCEPT ![victim] = Nobody]
        /\ UNCHANGED <<listed, counted, fired, due, before>>
    BY <1>7 DEF rm, AfterSweep, Without, Inv, TypeInv
  <2>2. box' \in [Ids -> Box] /\ \A c \in Ids : box'[c] # Nobody => box'[c] = box[c]
    BY <2>1, BoxTypes DEF Inv, TypeInv
  <2> QED BY <2>1, <2>2 DEF Inv, TypeInv, DueInv, ProbeInv
<1> QED BY <1>1, <1>2, <1>3, <1>4, <1>5, <1>6, <1>7 DEF goroutine

(* The steps of the HTTP handlers and of Docker on one container.           *)
LEMMA HandlerStep ==
  ASSUME Inv, NEW c \in Ids,
         \/ \E j \in Jobs, t \in Timeouts : createInstance(c, j, t)
         \/ dockerRun(c) \/ destroyInstance(c) \/ exit(c)
  PROVE  Inv'
<1>0. box \in [Ids -> Box] /\ box[c] \in Box
  BY DEF Inv, TypeInv
<1>1. ASSUME NEW j \in Jobs, NEW t \in Timeouts, createInstance(c, j, t) PROVE Inv'
  <2>1. EffectiveTimeout(t) \in Nat
    BY DEF EffectiveTimeout
  <2>2. /\ box' \in [Ids -> Box] /\ c \notin due \cup fired.due \cup before
        /\ \A d \in Ids : d # c => box'[d] = box[d]
    BY <1>0, <1>1, <2>1 DEF createInstance, Unused, Box
  <2>3. \A d \in Ids : box[d].left <= box[d].left
    BY <1>0 DEF Box
  <2>4. UNCHANGED <<loop, before>> /\ due \cup fired.due \subseteq Ids /\ before \subseteq Ids
    BY <1>1 DEF createInstance, Inv, TypeInv
  <2> QED BY <2>2, <2>3, <2>4, OutsideStep DEF Up
<1>2. CASE dockerRun(c) \/ destroyInstance(c) \/ exit(c)
  <2>1. PICK b \in Box :
          /\ box' = [box EXCEPT ![c] = b]
          /\ b # Nobody => box[c] # Nobody /\ b.left = box[c].left
          /\ before' \subseteq before /\ UNCHANGED loop
          /\ c \in before' => box[c].st # "up"
    <3>1. CASE dockerRun(c)
      <4>1. box[c].st = "asked" /\ UNCHANGED <<loop, before>>
        BY <3>1 DEF dockerRun
      <4>2. \/ box' = [box EXCEPT ![c] = Nobody]
            \/ \E s \in {"up", "down"} : box' = [box EXCEPT ![c] = [box[c] EXCEPT !.st = s]]
        BY <1>0, <3>1 DEF dockerRun, Without
      <4>3. ASSUME NEW s \in {"up", "down"}
            PROVE  [box[c] EXCEPT !.st = s].left = box[c].left
        BY <1>0 DEF Box
      <4>4. box[c] # Nobody
        BY <4>1 DEF Nobody
      <4> QED BY <1>0, <4>1, <4>2, <4>3, <4>4, BoxTypes, Zenon
    <3>2. CASE destroyInstance(c)
      BY <1>0, <3>2, BoxTypes, Zenon DEF destroyInstance, Without
    <3>3. CASE exit(c)
      <4>1. /\ box[c].st = "up" /\ before' = before \ {c} /\ UNCHANGED loop
            /\ box' = [box EXCEPT ![c] = [box[c] EXCEPT !.st = "down"]]
        BY <1>0, <3>3 DEF exit
      <4>2. box[c] # Nobody /\ [box[c] EXCEPT !.st = "down"].left = box[c].left
        BY <1>0, <4>1 DEF Nobody, Box
      <4> QED BY <1>0, <4>1, <4>2, BoxTypes, Zenon
    <3> QED BY <1>2, <3>1, <3>2, <3>3
  <2>2. box' \in [Ids -> Box] /\ \A d \in Ids : d # c => box'[d] = box[d]
    BY <1>0, <2>1
  <2>3. \A d \in Ids : box[d].left <= box[d].left
    BY <1>0 DEF Box
  <2>4. due \cup fired.due \subseteq Ids /\ before \subseteq Ids /\ box'[c] = b
    BY <1>0, <2>1 DEF Inv, TypeInv
  <2> QED BY <2>1, <2>2, <2>3, <2>4, OutsideStep DEF Up
<1> QED BY <1>1, <1>2

(* Time makes no container less due.                                        *)
LEMMA TickStep == Inv /\ Tick => Inv'
<1> SUFFICES ASSUME Inv, Tick PROVE Inv'
  OBVIOUS
<1>1. ASSUME NEW c \in Ids
      PROVE  /\ box'[c] \in Box /\ box'[c].st = box[c].st /\ box'[c].left <= box[c].left
             /\ box[c] = Nobody => box'[c] = Nobody
  <2>1. box[c] \in Box
    BY DEF Inv, TypeInv
  <2>2. box'[c] = [box[c] EXCEPT !.left = IF box[c].left = 0 THEN 0 ELSE box[c].left - 1]
    BY DEF Tick
  <2> QED BY <2>1, <2>2 DEF Box, Nobody
<1>2. box' \in [Ids -> Box]
  BY <1>1 DEF Tick
<1>3. UNCHANGED <<loop, before>> /\ due \cup fired.due \subseteq Ids /\ before \subseteq Ids
  BY DEF Tick, Inv, TypeInv
<1> QED BY <1>1, <1>2, <1>3, OutsideStep DEF Up

(* However the goroutine, the handlers, Docker and restarts interleave, the *)
(* sweep removes no container before its deadline and a report counts every *)
(* container that has been running since before its probe.                  *)
THEOREM AgentSafe == Spec => NeverEarly /\ []ReportCovers
<1>1. Init => Inv
  BY DEF Init, Inv, TypeInv, DueInv, ProbeInv, Box, Nobody, NoTick
<1>2. Inv /\ [Next]_vars => Inv'
  <2> SUFFICES ASSUME Inv, [Next]_vars PROVE Inv'
    OBVIOUS
  <2>1. CASE UNCHANGED vars
    BY <2>1 DEF vars, loop, Inv, TypeInv, DueInv, ProbeInv, Up
  <2> QED BY <2>1, GoroutineStep, HandlerStep, TickStep DEF Next
<1> DEFINE Early == loc = "rm" /\ loc' # "rm" =>
                      \A c \in Ids : Exists(c) /\ box'[c] = Nobody => box[c].left = 0
<1>3. Inv /\ [Next]_vars => [Early]_vars
  <2> SUFFICES ASSUME Inv, Next, loc = "rm", loc' # "rm", NEW c \in Ids, Exists(c), box'[c] = Nobody
               PROVE  box[c].left = 0
    OBVIOUS
  <2>1. rm \/ restart
    BY DEF Next, goroutine, ps, send, psAll, inspect, examine, sendHeartbeat, fire, cleanupAt, Tick,
       createInstance, dockerRun, destroyInstance, exit, loop
  <2>2. box[c] # Nobody
    BY DEF Exists, All, Nobody
  <2>3. c = victim
    BY <2>1, <2>2 DEF rm, restart, Without, Inv, TypeInv
  <2> QED BY <2>2, <2>3 DEF Inv, DueInv
<1>4. Inv => ReportCovers
  BY DEF Inv, ProbeInv, ReportCovers
<1> QED BY <1>1, <1>2, <1>3, <1>4, PTL DEF Spec, NeverEarly

(* A report that offers Docker counts every container that has been running *)
(* since before its probe began.                                            *)
COROLLARY ReportsComplete == Spec => []ReportCovers
  BY AgentSafe, PTL

=============================================================================
