---------------------------- MODULE StatusWriter ----------------------------
(***************************************************************************)
(* What a controller of this operator promises of the objects it reports   *)
(* on.  Users create, edit and delete them; the controller only replaces   *)
(* the status of an object that exists, leaves everything else of it alone *)
(* and writes a verdict on the object as it is at that moment.  There are  *)
(* no caches, copies, queues or failures here.                             *)
(***************************************************************************)
CONSTANTS
    None,
    Names,
    InitialStatus,
    IsVerdict(_, _)     \* the object, the status

VARIABLE obj            \* the objects by name; None where there is none

Create(n) ==
    /\ obj[n] = None
    /\ obj'[n] # None
    /\ obj'[n].status = InitialStatus

Edit(n) ==
    /\ obj[n] # None
    /\ obj'[n] # None
    /\ obj'[n].uid = obj[n].uid
    /\ obj'[n].status = obj[n].status

Delete(n) == obj[n] # None /\ obj'[n] = None

Write(n) ==
    /\ obj[n] # None
    /\ obj'[n] # None
    /\ obj'[n] = [obj[n] EXCEPT !.status = obj'[n].status]
    /\ IsVerdict(obj[n], obj'[n].status)

Init == obj = [n \in Names |-> None]

Next ==
    \E n \in Names :
        /\ obj' = [obj EXCEPT ![n] = obj'[n]]
        /\ Create(n) \/ Edit(n) \/ Delete(n) \/ Write(n)

Spec == Init /\ [][Next]_obj
=============================================================================
