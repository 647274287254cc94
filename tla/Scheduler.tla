----------------------------- MODULE Scheduler -----------------------------
(***************************************************************************)
(* Scheduler.Place (internal/scheduler/scheduler.go): the placement of a   *)
(* job on one of the nodes the registry lists.  A requirement has fields   *)
(* os, arch, isolation, caps, cpu and memory; a node has os, arch, caps,   *)
(* online, backends, freeCPU, freeMemory and running.                      *)
(***************************************************************************)
EXTENDS Naturals, Sequences

(* The part of eligible that no heartbeat changes.                          *)
Suits(req, n) ==
  req.os = n.os /\ req.arch = n.arch /\ req.caps \subseteq n.caps

(* A job that asks for no CPU or no memory is not held up by it.            *)
eligible(req, n) ==
  /\ n.online /\ Suits(req, n)
  /\ req.cpu > 0 => n.freeCPU >= req.cpu
  /\ req.memory > 0 => n.freeMemory >= req.memory

Preferred == [container |-> <<"docker">>, vm |-> <<"kvm", "hyperv">>, native |-> <<"native">>]

(* The first backend of the isolation's list that the node offers.          *)
selectBackend(isolation, backends) ==
  LET list  == Preferred[isolation]
      found == {i \in DOMAIN list : list[i] \in backends}
  IN IF found = {} THEN "none"
     ELSE list[CHOOSE i \in found : \A k \in found : i <= k]

(* Mutant: the order of candidates forgets the running jobs.                *)
BeforeByCPU(a, b) ==
  a.freeCPU > b.freeCPU \/ (a.freeCPU = b.freeCPU /\ a.freeMemory > b.freeMemory)

(* The order of candidates: fewer running jobs, then more free CPU, then    *)
(* more free memory.                                                        *)
Before(a, b) ==
  \/ a.running < b.running
  \/ /\ a.running = b.running
     /\ \/ a.freeCPU > b.freeCPU
        \/ a.freeCPU = b.freeCPU /\ a.freeMemory > b.freeMemory

Candidates(req, nodes) ==
  {i \in DOMAIN nodes :
     eligible(req, nodes[i]) /\ selectBackend(req.isolation, nodes[i].backends) # "none"}

NoPlacement == 0

(* Place takes the nodes in the order of their ids and returns the place in *)
(* it of the first candidate after a stable sort.                           *)
Place(req, nodes) ==
  LET C == Candidates(req, nodes) IN
  IF C = {} THEN NoPlacement
  ELSE CHOOSE i \in C :
         \A k \in C \ {i} :
           \/ Before(nodes[i], nodes[k])
           \/ ~Before(nodes[k], nodes[i]) /\ i < k

=============================================================================
