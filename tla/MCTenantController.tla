------------------------- MODULE MCTenantController -------------------------
(* Values for the constants of TenantController. *)
EXTENDS TenantController

SmallQuota == [cpu |-> 2, memory |-> 4, gpu |-> 0, pods |-> 5, jobs |-> None]
LargeQuota == [cpu |-> 4, memory |-> 8, gpu |-> 1, pods |-> None, jobs |-> 3]

MCQuotas == {SmallQuota, LargeQuota}
MCOneQuota == {SmallQuota}

NoEvents == [k \in Kinds |-> 0]

\* A Tenant is edited; a call fails, a cache lags; no resync.
RetryBudget == [NoEvents EXCEPT !["create"] = 1, !["update"] = 1,
                                !["lag"] = 1, !["fault"] = 1]

\* A spec is changed and changed back.
FlipBudget == [NoEvents EXCEPT !["create"] = 1, !["update"] = 2,
                               !["lag"] = 1, !["resync"] = 1]

\* A Tenant is edited, deleted and created again.
ReplaceBudget == [NoEvents EXCEPT !["create"] = 2, !["update"] = 1,
                                  !["delete"] = 1, !["lag"] = 1,
                                  !["resync"] = 1]

\* Objects are edited, replaced or deleted, and a cache still shows them.
DriftBudget == [NoEvents EXCEPT !["create"] = 1, !["drift"] = 1,
                                !["lag"] = 1, !["resync"] = 1]

\* The process dies on the way, twice; no resync.
RestartBudget == [NoEvents EXCEPT !["create"] = 1, !["restart"] = 2]

MCBudgets == {RetryBudget, FlipBudget, ReplaceBudget, DriftBudget,
              RestartBudget}

FaultBudget == [NoEvents EXCEPT !["create"] = 1, !["fault"] = 1]
MCFaultBudget == {FaultBudget}
=============================================================================
