------------------------------ MODULE Policy ------------------------------
(***************************************************************************)
(* The decisions of the controller that depend on an event's or a run's    *)
(* data only: which deliveries become events (webhook.go), which runs are  *)
(* trusted and what a job's labels ask for (github_policy.go).  Labels are *)
(* compared after trimming and lower-casing, so a label set is the set of  *)
(* the normalised labels.                                                  *)
(***************************************************************************)

(* What GitHub says of a workflow run: the repository and the head          *)
(* repository relative to the repository of the webhook.                    *)
WorkflowRuns ==
  [repository : {"unnamed", "same", "other"}, private : BOOLEAN,
   event : {"push", "pull_request", "pull_request_target"},
   head : {"none", "same", "fork"}]

(* Mutant: only forks that have a head repository count as forks.           *)
trustedWorkflowRunNoHead(run) ==
  /\ run.repository # "other"
  /\ \/ run.private
     \/ /\ run.event # "pull_request_target"
        /\ run.event = "pull_request" => run.head # "fork"

trustedWorkflowRun(run) ==
  /\ run.repository # "other"
  /\ \/ run.private
     \/ /\ run.event # "pull_request_target"
        /\ run.event = "pull_request" => run.head = "same"

Marker == "cifleet"

hasLabel(labels, wanted) == wanted \in labels

(* The webhook endpoint: a queued job needs the marker label, a completed   *)
(* one the marker or a runner whose name starts with cifleet-.              *)
accepts(action, labels, onFleetRunner) ==
  \/ action = "queued" /\ hasLabel(labels, Marker)
  \/ action = "completed" /\ (hasLabel(labels, Marker) \/ onFleetRunner)

Asks(labels, joint, os, arch) == joint \in labels \/ {os, arch} \subseteq labels

(* The platforms in the order in which requirementsFromLabels tries them.   *)
platform(labels) ==
  IF Asks(labels, "linux-x64", "linux", "x64")            THEN <<"linux", "amd64">>
  ELSE IF Asks(labels, "linux-arm64", "linux", "arm64")   THEN <<"linux", "arm64">>
  ELSE IF Asks(labels, "windows-x64", "windows", "x64")   THEN <<"windows", "amd64">>
  ELSE IF Asks(labels, "macos-arm64", "macos", "arm64")   THEN <<"macos", "arm64">>
  ELSE << >>

supported(labels) == platform(labels) # << >>

(* The labels cifleet-cap-* and the capabilities they ask for.              *)
CapabilityLabel == [gpu |-> "cifleet-cap-gpu", docker |-> "cifleet-cap-docker"]

(* Defined for supported labels; anything but Linux means a VM.             *)
requirementsFromLabels(labels) ==
  [os        |-> platform(labels)[1],
   arch      |-> platform(labels)[2],
   isolation |-> IF platform(labels)[1] # "linux" \/ "cifleet-vm" \in labels
                   THEN "vm" ELSE "container",
   caps      |-> {c \in DOMAIN CapabilityLabel : CapabilityLabel[c] \in labels}]

=============================================================================
