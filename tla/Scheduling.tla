----------------------------- MODULE Scheduling -----------------------------
(***************************************************************************)
(* internal/scheduling: how an InferenceService becomes a batch/v1 Job     *)
(* that Kueue can admit.  Quantities are integers: CPU in thousandths of a *)
(* core, memory in MiB.  Labels, names and the fixed container arguments   *)
(* that no component reads are left out.                                   *)
(***************************************************************************)
EXTENDS ApiTypes

PriorityClassForWorkloadClass(class) ==
    CASE class = "interactive" -> "platform-interactive"
      [] class = "background"  -> "platform-background"
      [] OTHER                 -> "platform-batch"

CPURequest(class) ==
    IF class = "interactive" THEN [cpu |-> 500, memory |-> 1024]
    ELSE IF class = "background" THEN [cpu |-> 100, memory |-> 256]
    ELSE [cpu |-> 250, memory |-> 512]

ReplicaCount(spec) ==
    IF spec.replicas = None \/ spec.replicas < 1 THEN 1 ELSE spec.replicas

WantsGPU(spec) == spec.gpu # None /\ spec.gpu

GPUResourceName(spec) ==
    IF spec.gpuType = "mig-3g.40gb" THEN "nvidia.com/mig-3g.40gb"
                                    ELSE "nvidia.com/gpu"

\* The queue that reconcileKueueJob names, without the namespace prefix.
LocalQueueName(spec) ==
    IF spec.gpu # None /\ spec.gpu THEN "gpu-queue" ELSE "queue"

\* A pod template's resources: a function on the resource names it gives.
Quantities ==
    [cpu : Nat, memory : Nat]
        \cup [{"nvidia.com/gpu"} -> {1}]
        \cup [{"nvidia.com/mig-3g.40gb"} -> {1}]

Job ==
    [owner           : Nat,
     queue           : {"queue", "gpu-queue"},
     priorityClass   : {"platform-interactive", "platform-batch",
                        "platform-background"},
     suspend         : BOOLEAN,
     pods            : Nat,
     container       : {"vllm", "placeholder"},
     model           : URIs \cup {"", None},
     resources       : Quantities,
     securityContext : {"gpu", "restricted"},
     runtimeClass    : {"nvidia", None}]

\* What one container asks for.
Resources(spec) ==
    IF WantsGPU(spec)
    THEN [r \in {GPUResourceName(spec)} |-> 1]
    ELSE CPURequest(spec.workloadClass)

\* securityContext: restrictedSecurityContext or gpuSecurityContext, each
\* with the pod-level part that goes with it.
BuildJob(spec, uid, modelURI, localQueueName) ==
    [owner           |-> uid,
     queue           |-> localQueueName,
     priorityClass   |-> PriorityClassForWorkloadClass(spec.workloadClass),
     suspend         |-> TRUE,
     pods            |-> ReplicaCount(spec),
     container       |-> IF WantsGPU(spec) THEN "vllm" ELSE "placeholder",
     model           |-> IF WantsGPU(spec) THEN modelURI ELSE None,
     resources       |-> Resources(spec),
     securityContext |-> IF WantsGPU(spec) THEN "gpu" ELSE "restricted",
     runtimeClass    |-> IF WantsGPU(spec) THEN "nvidia" ELSE None]
=============================================================================
