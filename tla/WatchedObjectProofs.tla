------------------------- MODULE WatchedObjectProofs -------------------------
(***************************************************************************)
(* What the operations on a Replica preserve, for objects of any type.     *)
(***************************************************************************)
EXTENDS WatchedObject, FiniteSetTheorems, TLAPS

\* A write to the API server leaves a well-formed object and watch.
LEMMA PutType ==
    ASSUME NEW Obj, NEW r \in Replica(Obj), NEW o \in Obj \cup {None}
    PROVE  Put(r, o) \in Replica(Obj)
BY DEF Put, Replica, Version

\* So does the delivery of a watch event.
LEMMA DeliverType ==
    ASSUME NEW Obj, NEW r \in Replica(Obj), NEW v \in r.watch
    PROVE  Deliver(r, v) \in Replica(Obj)
BY DEF Deliver, Replica, Version

\* So does a list after a restart.
LEMMA RelistType ==
    ASSUME NEW Obj, NEW r \in Replica(Obj)
    PROVE  Relist(r) \in Replica(Obj)
BY DEF Relist, Replica, Version

\* Every version of an object in the API server, the cache or the watch is
\* well formed.
LEMMA VersionsType ==
    ASSUME NEW Obj, NEW r \in Replica(Obj)
    PROVE  /\ r.cur \in Version(Obj)
           /\ r.cache \in Version(Obj)
           /\ \A v \in Versions(r) : v \in Version(Obj)
           /\ r.cur \in Versions(r)
           /\ r.cache \in Versions(r)
BY DEF Versions, Replica, Version

\* A write adds one version, the next one.
LEMMA PutVersions ==
    ASSUME NEW Obj, NEW r \in Replica(Obj), NEW o \in Obj \cup {None}
    PROVE  /\ Put(r, o).cur = [rv |-> r.cur.rv + 1, obj |-> o]
           /\ \A v \in Versions(Put(r, o)) :
                 v \in Versions(r) \/ v = [rv |-> r.cur.rv + 1, obj |-> o]
           /\ Coherent(r) => Coherent(Put(r, o))
<1>1. Put(r, o).cur = [rv |-> r.cur.rv + 1, obj |-> o]
  BY DEF Put
<1>2. \A v \in Versions(Put(r, o)) :
         v \in Versions(r) \/ v = [rv |-> r.cur.rv + 1, obj |-> o]
  BY DEF Put, Versions
<1>3. ASSUME Coherent(r) PROVE Coherent(Put(r, o))
  <2>1. r.cur.rv \in Nat
    BY DEF Replica, Version
  <2>2. \A v \in Versions(r) : v.rv \in Nat /\ v.rv <= r.cur.rv
    BY <1>3, VersionsType DEF Coherent, Version
  <2> QED
    BY <1>1, <1>2, <2>1, <2>2 DEF Coherent
<1> QED
  BY <1>1, <1>2, <1>3

\* Whatever the object is.
LEMMA PutAdds ==
    ASSUME NEW r, NEW o
    PROVE  \A v \in Versions(Put(r, o)) : v \in Versions(r) \/ v.obj = o
BY DEF Put, Versions

\* A delivery adds none and leaves the stored object alone.
LEMMA DeliverVersions ==
    ASSUME NEW Obj, NEW r \in Replica(Obj), NEW v \in r.watch
    PROVE  /\ Deliver(r, v).cur = r.cur
           /\ Versions(Deliver(r, v)) \subseteq Versions(r)
           /\ Coherent(r) => Coherent(Deliver(r, v))
BY DEF Deliver, Versions, Coherent, Replica

\* Neither does a list.
LEMMA RelistVersions ==
    ASSUME NEW Obj, NEW r \in Replica(Obj)
    PROVE  /\ Relist(r).cur = r.cur
           /\ Versions(Relist(r)) \subseteq Versions(r)
           /\ Coherent(r) => Coherent(Relist(r))
BY DEF Relist, Versions, Coherent, Replica

-----------------------------------------------------------------------------
(* Sets that the watches fill and empty.                                   *)

\* A write brings at most one more member.
LEMMA OneMore ==
    ASSUME NEW S, IsFiniteSet(S), NEW x, NEW T, T \subseteq S \cup {x}
    PROVE  /\ IsFiniteSet(T)
           /\ Cardinality(T) \in Nat
           /\ Cardinality(T) <= Cardinality(S) + 1
<1>0. /\ Cardinality(S) \in Nat
      /\ IsFiniteSet(S \cup {x})
      /\ \/ Cardinality(S \cup {x}) = Cardinality(S)
         \/ Cardinality(S \cup {x}) = Cardinality(S) + 1
  BY FS_AddElement, FS_CardinalityType, Zenon
<1>1. /\ IsFiniteSet(S \cup {x})
      /\ Cardinality(S) \in Nat
      /\ Cardinality(S \cup {x}) <= Cardinality(S) + 1
  BY <1>0
<1>2. T \in SUBSET (S \cup {x})
  OBVIOUS
<1>3. IsFiniteSet(T) /\ Cardinality(T) <= Cardinality(S \cup {x})
  BY <1>1, <1>2, FS_Subset
<1> QED
  BY <1>1, <1>3, FS_CardinalityType

\* A delivery takes at least the version it brings.
LEMMA OneLess ==
    ASSUME NEW S, IsFiniteSet(S), NEW x \in S, NEW T, T \subseteq S \ {x}
    PROVE  /\ IsFiniteSet(T)
           /\ Cardinality(T) \in Nat
           /\ Cardinality(T) + 1 <= Cardinality(S)
<1>1. /\ IsFiniteSet(S \ {x})
      /\ Cardinality(S) \in Nat
      /\ Cardinality(S \ {x}) = Cardinality(S) - 1
  BY FS_RemoveElement, FS_CardinalityType
<1>2. T \in SUBSET (S \ {x})
  OBVIOUS
<1>3. IsFiniteSet(T) /\ Cardinality(T) <= Cardinality(S \ {x})
  BY <1>1, <1>2, FS_Subset
<1>4. Cardinality(T) \in Nat
  BY <1>3, FS_CardinalityType
<1> QED
  BY <1>1, <1>3, <1>4

\* A part of a finite set is finite and no larger.
LEMMA NoMore ==
    ASSUME NEW S, IsFiniteSet(S), NEW T, T \subseteq S
    PROVE  /\ IsFiniteSet(T)
           /\ Cardinality(T) \in Nat
           /\ Cardinality(S) \in Nat
           /\ Cardinality(T) <= Cardinality(S)
BY FS_Subset, FS_CardinalityType
=============================================================================
