----------------------------- MODULE MCPlatform -----------------------------
(* Values for the constants of Platform. *)
EXTENDS Platform

Signed   == [uri |-> "uri1", digest |-> "d1", requireSignedImage |-> TRUE]
Unsigned == [uri |-> "uri2", digest |-> "", requireSignedImage |-> TRUE]
MCModelSpecs == {Signed, Unsigned}

GpuSpec == [model |-> "m1", workloadClass |-> "batch",
            resourceProfile |-> "batch-shared", priority |-> None,
            gpu |-> TRUE, gpuType |-> "full", replicas |-> None]

MCOneSpec == {GpuSpec}

SomeTenant == [priority |-> 100]

ModelKinds == {"create", "update", "delete", "fault", "restart"}
ServiceKinds == ModelKinds \cup {"model", "tenant", "deleteJob", "collect", "list"}

\* A Model is created and edited, a service created; the process may die.
\* "model" is enough for the writes of users and controller together.
EditModel == [k \in ModelKinds |-> IF k \in {"create", "update", "restart"}
                                   THEN 1 ELSE 0]
OneService == [k \in ServiceKinds |-> CASE k = "model" -> 20
                                         [] k \in {"create", "collect", "restart"} -> 1
                                         [] OTHER -> 0]
=============================================================================
