---------------------------- MODULE WatchedObject ----------------------------
(***************************************************************************)
(* One Kubernetes object as the operator deals with it.  The API server    *)
(* and the controller-runtime client are not part of this repository; this *)
(* module states what the controllers rely on when they call r.Get,        *)
(* r.Create and r.Status().Update on the manager's client:                 *)
(*                                                                         *)
(*  - a write goes to the API server, which gives the object a new         *)
(*    resourceVersion;                                                     *)
(*  - a read is answered from the informer cache, which holds an older or  *)
(*    the current version of the object (or no object);                    *)
(*  - the watch brings later versions to the cache, never an earlier one.  *)
(*    It may skip versions: an informer that lost its watch lists again.   *)
(*                                                                         *)
(* A version is the pair of a resourceVersion and the object's content,    *)
(* None when the object does not exist.                                    *)
(***************************************************************************)
EXTENDS ApiTypes

Version(Obj) == [rv : Nat, obj : Obj \cup {None}]

\* cur: what the API server stores.  cache: what a read returns.
\* watch: the versions stored after the cached one and not delivered yet.
Replica(Obj) ==
    [cur : Version(Obj), cache : Version(Obj), watch : SUBSET Version(Obj)]

InitialReplica(o) ==
    LET v == [rv |-> 0, obj |-> o]
    IN  [cur |-> v, cache |-> v, watch |-> {}]

\* The API server stores o (None: it deletes the object).
Put(r, o) ==
    LET v == [rv |-> r.cur.rv + 1, obj |-> o]
    IN  [cur |-> v, cache |-> r.cache, watch |-> r.watch \cup {v}]

\* The informer applies version v of r.watch to the cache.
Deliver(r, v) ==
    [cur |-> r.cur, cache |-> v, watch |-> {w \in r.watch : w.rv > v.rv}]

\* A new process lists the object.
Relist(r) == [cur |-> r.cur, cache |-> r.cur, watch |-> {}]

Versions(r) == {r.cur, r.cache} \cup r.watch

\* Two copies with the resourceVersion of the stored object are that object.
\* This is what makes the resourceVersion check of an update a sound
\* optimistic lock.
Coherent(r) ==
    \A v \in Versions(r) :
        /\ v.rv <= r.cur.rv
        /\ v.rv = r.cur.rv => v = r.cur

\* The same of a copy somebody keeps.
CopyCoherent(v, cur) == v.rv <= cur.rv /\ (v.rv = cur.rv => v = cur)
=============================================================================
