--------------------------- MODULE JobLifecycle ---------------------------
(***************************************************************************)
(* What the controller promises for a workflow job, without saying how: it *)
(* keeps a ledger that survives restarts, a job is served by at most one   *)
(* runner, and only while the ledger says the job is open.                 *)
(***************************************************************************)
CONSTANTS Jobs, Nodes

VARIABLES
  ledger,   \* ledger[j]: none, open, or closed while the tombstone is valid
  serving   \* serving[j]: the nodes with a runner for j that can take work

vars == <<ledger, serving>>

Init ==
  /\ ledger  = [j \in Jobs |-> "none"]
  /\ serving = [j \in Jobs |-> {}]

(* A closed job cannot be opened again before it is forgotten, and an open  *)
(* one that is being served stays open.                                     *)
MayBecome(j, l) ==
  /\ ledger[j] = "closed" => l # "open"
  /\ serving[j] # {} => l = "open"

(* One write of the ledger, or the passing of time, may change any number   *)
(* of entries.                                                              *)
Record ==
  /\ ledger' \in [Jobs -> {"none", "open", "closed"}]
  /\ \A j \in Jobs : MayBecome(j, ledger'[j])
  /\ UNCHANGED serving

Start(j, n) ==
  /\ ledger[j] = "open" /\ serving[j] = {}
  /\ serving' = [serving EXCEPT ![j] = {n}] /\ UNCHANGED ledger

Stop(j) ==
  /\ serving' = [serving EXCEPT ![j] = {}] /\ UNCHANGED ledger

Next ==
  \/ Record
  \/ \E j \in Jobs : Stop(j) \/ \E n \in Nodes : Start(j, n)

Spec == Init /\ [][Next]_vars

=============================================================================
