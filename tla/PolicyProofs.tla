---------------------------- MODULE PolicyProofs ----------------------------
(***************************************************************************)
(* The eviction policies of the object store track exactly what they are   *)
(* meant to evict, for every configuration and every choice of victims.    *)
(***************************************************************************)
EXTENDS TierManagerTypes, FiniteSetTheorems

\* An open store of a RAM-only object has a region: begin_store refuses one
\* that gets none.
HandlesHoused ==
    \A w \in Writers : handle[w] # None /\ RamOnly(handle[w].size) /\ handle[w].size > 0
        => handle[w].head # None

PolicyInv == TypeOK /\ PoliciesExact /\ HandlesHoused

\* An index ix with the two policies that belong to it.
Exact(ix, heads, objects) ==
    /\ heads = {k \in Keys : Resident(ix, k)}
    /\ objects = Present(ix)
    /\ \A k \in Keys : ix[k] # None /\ RamOnly(ix[k].size) /\ ix[k].size > 0
          => ix[k].head # None

\* PoliciesExact is Exact of the current state.
LEMMA ExactHere == PoliciesExact <=> Exact(index, policy, objectPolicy)
BY DEF PoliciesExact, Exact, Present

\* ... and of the next.
LEMMA ExactNext == PoliciesExact' <=> Exact(index', policy', objectPolicy')
BY DEF PoliciesExact, Exact, Present, Resident

\* Evicting heads takes them from the head policy, and the RAM-only objects
\* among them from the object policy and the index as well.
LEMMA EvictExact ==
    ASSUME TypeOK, PoliciesExact, NEW V \in SUBSET policy, NEW T, Evict(V, T)
    PROVE  PoliciesExact'
<1>1. Exact(index, policy, objectPolicy) /\ V \subseteq Keys
  BY ExactHere DEF TypeOK
<1>2. /\ index' = EvictedIndex(V) /\ policy' = policy \ V
      /\ objectPolicy' = objectPolicy \ EvictedObjects(V)
  BY DEF Evict
<1>3. ASSUME NEW k \in Keys
      PROVE  /\ k \in V => Resident(index, k)
             /\ index'[k] = IF k \in V /\ RamOnly(index[k].size) THEN None
                            ELSE IF k \in V THEN [index[k] EXCEPT !.head = None]
                            ELSE index[k]
             /\ k \in EvictedObjects(V) <=> k \in V /\ RamOnly(index[k].size)
  BY <1>1, <1>2 DEF Exact, EvictedIndex, EvictedObjects
<1>4. ASSUME NEW k \in Keys, k \in V, ~RamOnly(index[k].size)
      PROVE  index'[k] # None /\ index'[k].head = None /\ index'[k].size = index[k].size
  <2>1. index[k] \in Meta
    BY <1>3, <1>4 DEF TypeOK, Resident
  <2>2. index'[k] = [index[k] EXCEPT !.head = None]
    BY <1>3, <1>4
  <2>3. index'[k] \in Meta
    BY <2>1, <2>2 DEF Meta
  <2>. QED BY <2>1, <2>2, <2>3, NoneIsApart DEF Meta
<1>5. ASSUME NEW k \in Keys
      PROVE  /\ k \in policy' <=> Resident(index', k)
             /\ k \in objectPolicy' <=> index'[k] # None
             /\ index'[k] # None /\ RamOnly(index'[k].size) /\ index'[k].size > 0
                  => index'[k].head # None
  <2>1. CASE k \notin V
    BY <1>1, <1>2, <1>3, <2>1 DEF Exact, Resident, Present
  <2>2. CASE k \in V /\ RamOnly(index[k].size)
    BY <1>2, <1>3, <2>2 DEF Resident
  <2>3. CASE k \in V /\ ~RamOnly(index[k].size)
    BY <1>1, <1>2, <1>3, <1>4, <2>3 DEF Exact, Resident, Present
  <2>. QED BY <2>1, <2>2, <2>3
<1>6. policy' \subseteq Keys /\ objectPolicy' \subseteq Keys
  BY <1>2 DEF TypeOK
<1>. QED BY <1>5, <1>6, ExactNext DEF Exact, Present

\* Dropping objects takes them from the index and from both policies.
LEMMA DropExact ==
    ASSUME NEW ix, NEW heads, NEW objects, Exact(ix, heads, objects), NEW V
    PROVE  Exact(DropIndex(ix, V), heads \ V, objects \ V)
<1>1. ASSUME NEW k \in Keys
      PROVE  DropIndex(ix, V)[k] = IF k \in V THEN None ELSE ix[k]
  BY DEF DropIndex
<1>. QED BY <1>1 DEF Exact, Present, Resident

\* Publishing an object under k tracks it in the policies it belongs to.
LEMMA PublishExact ==
    ASSUME TypeOK, PoliciesExact, NEW k \in Keys, NEW m \in Meta,
           RamOnly(m.size) /\ m.size > 0 => m.head # None
    PROVE  Exact([index EXCEPT ![k] = m],
                 (policy \ (IF Resident(index, k) THEN {k} ELSE {}))
                     \cup (IF m.head # None THEN {k} ELSE {}),
                 objectPolicy \cup (IF index[k] = None THEN {k} ELSE {}))
<1> DEFINE ix == [index EXCEPT ![k] = m]
<1>1. m # None /\ ix[k] = m /\ \A j \in Keys : j # k => ix[j] = index[j]
  BY NoneIsApart DEF TypeOK
<1>2. Exact(index, policy, objectPolicy)
  BY ExactHere
<1> HIDE DEF ix
<1>3. Present(ix) = objectPolicy \cup (IF index[k] = None THEN {k} ELSE {})
  BY <1>1, <1>2 DEF Exact, Present
<1>4. {j \in Keys : Resident(ix, j)}
         = (policy \ (IF Resident(index, k) THEN {k} ELSE {}))
           \cup (IF m.head # None THEN {k} ELSE {})
  BY <1>1, <1>2 DEF Exact, Resident
<1>5. \A j \in Keys : ix[j] # None /\ RamOnly(ix[j].size) /\ ix[j].size > 0
         => ix[j].head # None
  BY <1>1, <1>2 DEF Exact
<1>. QED BY <1>3, <1>4, <1>5 DEF Exact, ix

\* commit keeps the policies exact: the object is tracked, and the victims of
\* the object bound are not.
LEMMA CommitExact ==
    ASSUME PolicyInv, NEW w \in Writers, NEW expiry \in Expiries, Commit(w, expiry)
    PROVE  PoliciesExact'
<1> DEFINE k == handle[w].key
           m == Published(w, expiry)
           ix == [index EXCEPT ![k] = m]
           tracked == objectPolicy \cup (IF index[k] = None THEN {k} ELSE {})
           heads == (policy \ (IF Resident(index, k) THEN {k} ELSE {}))
                    \cup (IF handle[w].head # None THEN {k} ELSE {})
<1>1. TypeOK /\ PoliciesExact /\ handle[w] # None
  BY DEF PolicyInv, Commit, Complete
<1>2. k \in Keys
  BY <1>1 DEF TypeOK, Handle
<1>3. m \in Meta
  BY <1>1, PublishedType
<1>4. m.size = handle[w].size /\ m.head = handle[w].head
  BY DEF Published
<1>5. RamOnly(m.size) /\ m.size > 0 => m.head # None
  BY <1>1, <1>4 DEF PolicyInv, HandlesHoused
<1>6. PICK V \in BoundVictims(ix, tracked) :
         /\ index' = DropIndex(ix, V) /\ policy' = heads \ V /\ objectPolicy' = tracked \ V
  BY DEF Commit
<1> HIDE DEF k, m
<1>7. Exact(ix, heads, tracked)
  BY <1>1, <1>2, <1>3, <1>4, <1>5, PublishExact
<1> HIDE DEF ix, heads, tracked
<1>8. Exact(DropIndex(ix, V), heads \ V, tracked \ V)
  BY <1>7, DropExact
<1>. QED BY <1>6, <1>8, ExactNext

\* Removing an object keeps the policies exact.
LEMMA RemoveExact ==
    ASSUME PoliciesExact, NEW k \in Keys, drop_object(k)
    PROVE  PoliciesExact'
<1>1. Exact(DropIndex(index, {k}), policy \ {k}, objectPolicy \ {k})
  BY ExactHere, DropExact
<1>. QED BY <1>1, ExactNext DEF drop_object

\* A touch changes the expiry of an object, which no policy looks at.
LEMMA TouchExact ==
    ASSUME TypeOK, PoliciesExact, NEW k \in Keys, NEW expiry \in Expiries,
           touch_ttl(k, expiry)
    PROVE  PoliciesExact'
<1>1. index[k] \in Meta /\ index[k] # None
  BY DEF touch_ttl, TypeOK
<1>2. /\ index'[k] = [index[k] EXCEPT !.expiry = expiry]
      /\ \A j \in Keys : j # k => index'[j] = index[j]
  BY DEF touch_ttl, TypeOK
<1>3. /\ index'[k].head = index[k].head /\ index'[k].size = index[k].size
      /\ index'[k] \in Meta
  BY <1>1, <1>2, ExpiriesType DEF Meta, TypeOK
<1>4. index'[k] # None
  BY <1>3, NoneIsApart
<1>5. policy' = policy /\ objectPolicy' = objectPolicy
  BY DEF touch_ttl
<1>6. ASSUME NEW j \in Keys
      PROVE  /\ Resident(index', j) <=> Resident(index, j)
             /\ index'[j] # None <=> index[j] # None
             /\ index'[j].head = index[j].head /\ index'[j].size = index[j].size
  BY <1>1, <1>2, <1>3, <1>4 DEF Resident
<1>. QED BY <1>5, <1>6, ExactHere, ExactNext DEF Exact, Present

\* A step that leaves the index and the policies alone keeps them exact.
LEMMA QuietExact ==
    ASSUME PoliciesExact, UNCHANGED <<index, policy, objectPolicy>>
    PROVE  PoliciesExact'
BY ExactHere, ExactNext

\* A step that only closes handles keeps the open ones housed.
LEMMA ClosedHoused ==
    ASSUME TypeOK, HandlesHoused, NEW w \in Writers, handle' = [handle EXCEPT ![w] = None]
    PROVE  HandlesHoused'
BY DEF HandlesHoused, TypeOK

\* begin_store opens a handle that has a region when the object lives in RAM
\* alone, and evicts as EvictExact says.
LEMMA BeginStorePolicy ==
    ASSUME PolicyInv, NEW w \in Writers, NEW k \in Keys, NEW size \in Sizes,
           NEW cas \in ClientCas(k), BeginStore(w, k, size, cas)
    PROVE  PoliciesExact' /\ HandlesHoused'
<1>1. PICK V \in SUBSET policy, head \in Regions \cup {None} :
         /\ ~(RamOnly(size) /\ head_len(size) > 0 /\ head = None)
         /\ Evict(V, {head})
         /\ handle' = [handle EXCEPT ![w] =
               [key |-> k, size |-> size, ver |-> NextVersion, head |-> head, off |-> 0,
                cas |-> cas, basis |-> IF cas = 0 THEN None ELSE index[k].ver]]
  BY ZenonT(30) DEF BeginStore
<1>2. PoliciesExact'
  BY <1>1, EvictExact DEF PolicyInv
<1>3. RamOnly(size) /\ size > 0 => head # None
  BY <1>1 DEF RamOnly, head_len, Lesser
<1>4. /\ handle'[w].size = size /\ handle'[w].head = head
      /\ \A v \in Writers : v # w => handle'[v] = handle[v]
  BY <1>1 DEF PolicyInv, TypeOK
<1>5. HandlesHoused'
  BY <1>3, <1>4 DEF PolicyInv, HandlesHoused
<1>. QED BY <1>2, <1>5

\* Every step keeps the policies exact and the open stores housed.
LEMMA PolicyStep == PolicyInv /\ [Next]_vars => PolicyInv'
<1> SUFFICES ASSUME PolicyInv, [Next]_vars PROVE PolicyInv'
  OBVIOUS
<1>0. TypeOK /\ PoliciesExact /\ HandlesHoused /\ TypeOK'
  BY TypeStep DEF PolicyInv
<1> DEFINE Goal == PoliciesExact' /\ HandlesHoused'
<1>1. ASSUME UNCHANGED <<index, policy, objectPolicy, handle>> PROVE Goal
  BY <1>0, <1>1, QuietExact DEF HandlesHoused
<1>2. ASSUME NEW w \in Writers, NEW k \in Keys, NEW size \in Sizes,
             BeginStoreNoRam(w, k, size)
      PROVE  Goal
  <2>1. Evict(policy, {}) /\ handle' = handle
    BY <1>2 DEF BeginStoreNoRam
  <2>. QED BY <1>0, <2>1, EvictExact DEF HandlesHoused
<1>3. ASSUME NEW w \in Writers, NEW n \in Nat, write(w, n) PROVE Goal
  <2>1. handle[w] # None /\ handle[w] \in Handle
    BY <1>0, <1>3 DEF write, TypeOK
  <2>2. /\ handle'[w].size = handle[w].size /\ handle'[w].head = handle[w].head
        /\ \A v \in Writers : v # w => handle'[v] = handle[v]
    BY <1>0, <1>3, <2>1 DEF write, TypeOK, Handle
  <2>3. HandlesHoused'
    BY <1>0, <2>1, <2>2 DEF HandlesHoused
  <2>. QED BY <1>0, <1>3, <2>3, QuietExact DEF write
<1>4. ASSUME NEW w \in Writers,
             abort_uncommitted(w) \/ CommitCasMismatch(w) \/ CommitPublishFails(w)
      PROVE  Goal
  <2>1. /\ UNCHANGED <<index, policy, objectPolicy>>
        /\ handle' = [handle EXCEPT ![w] = None]
    BY <1>4 DEF abort_uncommitted, CommitCasMismatch, CommitPublishFails, Abort
  <2>. QED BY <1>0, <2>1, QuietExact, ClosedHoused
<1>5. ASSUME NEW w \in Writers, NEW expiry \in Expiries, Commit(w, expiry) PROVE Goal
  <2>1. handle' = [handle EXCEPT ![w] = None]
    BY <1>5 DEF Commit
  <2>. QED BY <1>0, <1>5, <2>1, CommitExact, ClosedHoused
<1>6. ASSUME NEW k \in Keys, remove(k) \/ ReapRemove(k) PROVE Goal
  <2>1. drop_object(k) /\ handle' = handle
    BY <1>6 DEF remove, ReapRemove
  <2>. QED BY <1>0, <2>1, RemoveExact DEF HandlesHoused
<1>7. ASSUME NEW k \in Keys, NEW expiry \in Expiries, touch_ttl(k, expiry) PROVE Goal
  <2>1. handle' = handle
    BY <1>7 DEF touch_ttl
  <2>. QED BY <1>0, <1>7, <2>1, TouchExact DEF HandlesHoused
<1>8. ASSUME NEW w \in Writers, StoreStep(w) PROVE Goal
  <2>1. ASSUME NEW k \in Keys, NEW size \in Sizes,
               BeginStoreOpenFails(w, k, size) \/ BeginStoreNoStage(w, k, size)
        PROVE  Goal
    BY <1>1, <2>1 DEF BeginStoreOpenFails, BeginStoreNoStage
  <2>2. handle[w] # None => 1..handle[w].size \subseteq Nat
    BY <1>0, PieceType
  <2>. QED BY <1>2, <1>3, <1>4, <1>5, <1>8, <2>1, <2>2, BeginStorePolicy DEF StoreStep
<1>9. ASSUME NEW k \in Keys, KeyStep(k) PROVE Goal
  BY <1>6, <1>7, <1>9 DEF KeyStep
<1>10. ASSUME NEW r \in Readers, ReadStep(r) PROVE Goal
  BY ZenonT(30), <1>1, <1>10 DEF ReadStep, open_snapshot, SendHead, plan, CloseSnapshot
<1>11. ASSUME ReapScan \/ Tick \/ UNCHANGED vars PROVE Goal
  BY <1>1, <1>11 DEF ReapScan, Tick, vars
<1>12. Goal
  BY <1>8, <1>9, <1>10, <1>11 DEF Next
<1>. QED BY <1>0, <1>12 DEF PolicyInv

\* A new store has nothing to track.
LEMMA PolicyBegin == Init => PolicyInv
<1> SUFFICES ASSUME Init PROVE PolicyInv
  OBVIOUS
<1>1. PoliciesExact
  BY DEF Init, PoliciesExact, Resident, Present
<1>2. HandlesHoused
  BY DEF Init, HandlesHoused
<1>. QED BY <1>1, <1>2, TypeInit DEF PolicyInv

\* Whatever is stored, evicted, expired, touched or removed, in any order and
\* by any number of threads, each eviction policy of TierManager tracks
\* exactly the keys it is meant to evict, and no object whose only copy was a
\* RAM head outlives that head.
THEOREM PoliciesStayExact == Spec => []PoliciesExact
<1>1. PolicyInv => PoliciesExact
  BY DEF PolicyInv
<1>. QED BY <1>1, PolicyBegin, PolicyStep, PTL DEF Spec

----------------------------------------------------------------------------
(* The limits on objects and staging buffers.  enforce_object_bound takes  *)
(* its victims from the object policy, so that the bound rests on that     *)
(* policy tracking every object of the index.                              *)

OpenWriters == {w \in Writers : handle[w] # None}

\* As many buffers are free as are not held by an open store.
LEMMA LimitsHere ==
    LimitsKept <=> /\ MaxObjects # 0 => Cardinality(Present(index)) <= MaxObjects
                   /\ stageFree + Cardinality(OpenWriters) = WriteBuffers
BY DEF LimitsKept, OpenWriters

\* ... and so in the next state.
LEMMA LimitsNext ==
    LimitsKept' <=> /\ MaxObjects # 0 => Cardinality(Present(index')) <= MaxObjects
                    /\ stageFree' + Cardinality(OpenWriters') = WriteBuffers
BY DEF LimitsKept, OpenWriters, Present

\* The open stores can be counted.
LEMMA OpenFinite == IsFiniteSet(OpenWriters) /\ Cardinality(OpenWriters) \in Nat
<1>1. OpenWriters \in SUBSET Writers
  BY DEF OpenWriters
<1>. QED BY <1>1, FiniteStore, FS_Subset, FS_CardinalityType

\* The objects of an index can be counted.
LEMMA PresentFinite ==
    ASSUME NEW ix
    PROVE  IsFiniteSet(Present(ix)) /\ Cardinality(Present(ix)) \in Nat
<1>1. Present(ix) \in SUBSET Keys
  BY DEF Present
<1>. QED BY <1>1, FiniteStore, FS_Subset, FS_CardinalityType

\* A step that publishes no new key keeps the object bound.
LEMMA FewerObjects ==
    ASSUME LimitsKept, Present(index') \subseteq Present(index), MaxObjects # 0
    PROVE  Cardinality(Present(index')) <= MaxObjects
<1>1. /\ Cardinality(Present(index')) <= Cardinality(Present(index))
      /\ Cardinality(Present(index')) \in Nat /\ Cardinality(Present(index)) \in Nat
  BY PresentFinite, FS_Subset
<1>. QED BY SMTT(30), Z3T(30), <1>1, LimitsHere, StoreConfig

\* Opening a handle adds one open store.
LEMMA OpenOne ==
    ASSUME TypeOK, NEW w \in Writers, handle[w] = None, NEW h \in Handle,
           handle' = [handle EXCEPT ![w] = h]
    PROVE  Cardinality(OpenWriters') = Cardinality(OpenWriters) + 1
<1>1. h # None
  BY NoneIsApart
<1>2. OpenWriters' = OpenWriters \cup {w} /\ w \notin OpenWriters
  BY <1>1 DEF OpenWriters, TypeOK
<1>. QED BY <1>2, OpenFinite, FS_AddElement

\* Closing one takes it away.
LEMMA CloseOne ==
    ASSUME TypeOK, NEW w \in Writers, handle[w] # None,
           handle' = [handle EXCEPT ![w] = None]
    PROVE  Cardinality(OpenWriters') = Cardinality(OpenWriters) - 1
<1>1. OpenWriters' = OpenWriters \ {w} /\ w \in OpenWriters
  BY DEF OpenWriters, TypeOK
<1>. QED BY <1>1, OpenFinite, FS_RemoveElement

\* A store that ends returns its buffer.
LEMMA BufferReturned ==
    ASSUME TypeOK, LimitsKept, NEW w \in Writers, handle[w] # None,
           handle' = [handle EXCEPT ![w] = None], stageFree' = stageFree + 1
    PROVE  stageFree' + Cardinality(OpenWriters') = WriteBuffers
<1>1. Cardinality(OpenWriters') = Cardinality(OpenWriters) - 1
  BY CloseOne
<1>2. stageFree \in Nat /\ stageFree + Cardinality(OpenWriters) = WriteBuffers
  BY LimitsHere DEF TypeOK
<1>. QED BY <1>1, <1>2, OpenFinite

\* Evicting heads adds no object.
LEMMA EvictFewer ==
    ASSUME NEW V, NEW T, Evict(V, T)
    PROVE  Present(index') \subseteq Present(index)
<1>1. ASSUME NEW k \in Keys, index[k] = None PROVE index'[k] = None
  BY <1>1 DEF Evict, EvictedIndex, Resident
<1>. QED BY <1>1 DEF Present

\* Of a tracked index, enforce_object_bound leaves at most MaxObjects.
LEMMA BoundEnforced ==
    ASSUME NEW ix, NEW V \in BoundVictims(ix, Present(ix)), MaxObjects # 0
    PROVE  Cardinality(Present(DropIndex(ix, V))) <= MaxObjects
<1> DEFINE P == Present(ix)
<1>1. IsFiniteSet(P) /\ Cardinality(P) \in Nat
  BY PresentFinite
<1>2. V \in SUBSET P
  BY BoundVictimsType
<1>3. Present(DropIndex(ix, V)) = P \ V
  BY DEF Present, DropIndex
<1>4. CASE Cardinality(P) > MaxObjects
  <2>1. Cardinality(V) = Cardinality(P) - MaxObjects
    BY <1>1, <1>4, StoreConfig DEF BoundVictims, Lesser
  <2>2. P \cap V = V
    BY <1>2
  <2>3. Cardinality(P \ V) = Cardinality(P) - Cardinality(P \cap V)
    BY <1>1, FS_Difference
  <2> HIDE DEF P
  <2>4. Cardinality(P \ V) = MaxObjects
    BY <1>1, <2>1, <2>2, <2>3, StoreConfig
  <2>. QED BY SMTT(30), Z3T(30), <1>3, <2>4, StoreConfig
<1>5. CASE ~(Cardinality(P) > MaxObjects)
  <2>1. V = {}
    BY <1>5 DEF BoundVictims
  <2>2. P \ V = P
    BY <2>1
  <2>. QED BY <1>1, <1>3, <1>5, <2>2, StoreConfig
<1>. QED BY <1>4, <1>5

\* commit keeps both limits: the object policy has the new key by the time
\* the bound is enforced.
LEMMA CommitLimits ==
    ASSUME PolicyInv, LimitsKept, NEW w \in Writers, NEW expiry \in Expiries,
           Commit(w, expiry)
    PROVE  LimitsKept'
<1> DEFINE k == handle[w].key
           m == Published(w, expiry)
           ix == [index EXCEPT ![k] = m]
           tracked == objectPolicy \cup (IF index[k] = None THEN {k} ELSE {})
<1>1. TypeOK /\ PoliciesExact /\ handle[w] # None
  BY DEF PolicyInv, Commit, Complete
<1>2. PICK V \in BoundVictims(ix, tracked) : index' = DropIndex(ix, V)
  BY DEF Commit
<1>3. k \in Keys /\ m \in Meta
  BY <1>1, PublishedType DEF TypeOK, Handle
<1>4. stageFree' + Cardinality(OpenWriters') = WriteBuffers
  <2>1. handle' = [handle EXCEPT ![w] = None] /\ stageFree' = stageFree + 1
    BY DEF Commit
  <2>. QED BY <1>1, <2>1, BufferReturned
<1>5. objectPolicy = Present(index)
  BY <1>1 DEF PoliciesExact
<1> HIDE DEF k, m
<1>6. tracked = Present(ix)
  <2>1. m # None /\ ix[k] = m /\ \A j \in Keys : j # k => ix[j] = index[j]
    BY <1>1, <1>3, NoneIsApart DEF TypeOK
  <2> HIDE DEF ix
  <2>. QED BY <1>3, <1>5, <2>1 DEF Present
<1> HIDE DEF ix, tracked
<1>7. MaxObjects # 0 => Cardinality(Present(index')) <= MaxObjects
  BY <1>2, <1>6, BoundEnforced
<1>. QED BY <1>4, <1>7, LimitsNext

\* A store takes a buffer as it begins.
LEMMA BeginLimits ==
    ASSUME PolicyInv, LimitsKept, NEW w \in Writers, NEW j \in Keys, NEW size \in Sizes,
           NEW cas \in ClientCas(j), BeginStore(w, j, size, cas)
    PROVE  LimitsKept'
<1>1. PICK V \in SUBSET policy, head \in Regions \cup {None} :
         /\ Evict(V, {head})
         /\ handle' = [handle EXCEPT ![w] =
               [key |-> j, size |-> size, ver |-> NextVersion, head |-> head, off |-> 0,
                cas |-> cas, basis |-> IF cas = 0 THEN None ELSE index[j].ver]]
  BY ZenonT(30) DEF BeginStore
<1>2. TypeOK /\ handle[w] = None /\ stageFree' = stageFree - 1
  BY DEF PolicyInv, BeginStore
<1>3. Cardinality(OpenWriters') = Cardinality(OpenWriters) + 1
  BY <1>1, <1>2, NewHandleType, OpenOne
<1>4. stageFree \in Nat /\ stageFree + Cardinality(OpenWriters) = WriteBuffers
  BY <1>2, LimitsHere DEF TypeOK
<1>5. stageFree' + Cardinality(OpenWriters') = WriteBuffers
  BY <1>2, <1>3, <1>4, OpenFinite
<1>. QED BY <1>1, <1>5, EvictFewer, FewerObjects, LimitsNext

\* Every step keeps the limits.
LEMMA LimitsStep == PolicyInv /\ LimitsKept /\ [Next]_vars => LimitsKept'
<1> SUFFICES ASSUME PolicyInv, LimitsKept, [Next]_vars PROVE LimitsKept'
  OBVIOUS
<1>0. TypeOK
  BY DEF PolicyInv
<1>1. ASSUME UNCHANGED <<handle, stageFree>>, Present(index') \subseteq Present(index)
      PROVE  LimitsKept'
  <2>1. OpenWriters' = OpenWriters
    BY <1>1 DEF OpenWriters
  <2>. QED BY <1>1, <2>1, FewerObjects, LimitsHere, LimitsNext
<1>2. ASSUME UNCHANGED <<index, handle, stageFree>> PROVE LimitsKept'
  BY <1>1, <1>2
<1>3. ASSUME NEW w \in Writers, NEW n \in Nat, write(w, n) PROVE LimitsKept'
  <2>1. /\ UNCHANGED <<index, stageFree>>
        /\ handle[w] # None /\ handle' = [handle EXCEPT ![w].off = @ + n]
    BY <1>3 DEF write
  <2>2. handle[w] \in Handle /\ handle'[w] = [handle[w] EXCEPT !.off = @ + n]
    BY <1>0, <2>1 DEF TypeOK
  <2>3. handle'[w] \in Handle
    BY <2>2 DEF Handle
  <2>4. \A v \in Writers : v # w => handle'[v] = handle[v]
    BY <1>0, <2>1 DEF TypeOK
  <2>5. OpenWriters' = OpenWriters
    BY <2>1, <2>3, <2>4, NoneIsApart DEF OpenWriters
  <2>. QED BY <2>1, <2>5, LimitsHere, LimitsNext
<1>4. ASSUME NEW w \in Writers,
             abort_uncommitted(w) \/ CommitCasMismatch(w) \/ CommitPublishFails(w)
      PROVE  LimitsKept'
  <2>1. /\ handle[w] # None /\ index' = index /\ stageFree' = stageFree + 1
        /\ handle' = [handle EXCEPT ![w] = None]
    BY <1>4 DEF abort_uncommitted, CommitCasMismatch, CommitPublishFails, Complete, Abort
  <2>2. stageFree' + Cardinality(OpenWriters') = WriteBuffers
    BY <1>0, <2>1, BufferReturned
  <2>. QED BY <2>1, <2>2, LimitsHere, LimitsNext
<1>5. ASSUME NEW k \in Keys, remove(k) \/ ReapRemove(k) PROVE LimitsKept'
  <2>1. index' = DropIndex(index, {k}) /\ UNCHANGED <<handle, stageFree>>
    BY <1>5 DEF remove, ReapRemove, drop_object
  <2>2. Present(index') \subseteq Present(index)
    BY <2>1 DEF DropIndex, Present
  <2>. QED BY <1>1, <2>1, <2>2
<1>6. ASSUME NEW k \in Keys, NEW expiry \in Expiries, touch_ttl(k, expiry)
      PROVE  LimitsKept'
  <2>1. /\ index[k] # None /\ UNCHANGED <<handle, stageFree>>
        /\ \A j \in Keys : j # k => index'[j] = index[j]
    BY <1>0, <1>6 DEF touch_ttl, TypeOK
  <2>2. Present(index') \subseteq Present(index)
    BY <2>1 DEF Present
  <2>. QED BY <1>1, <2>1, <2>2
<1>7. ASSUME NEW w \in Writers, StoreStep(w) PROVE LimitsKept'
  <2>1. ASSUME NEW k \in Keys, NEW size \in Sizes,
               BeginStoreOpenFails(w, k, size) \/ BeginStoreNoStage(w, k, size)
        PROVE  LimitsKept'
    BY <1>2, <2>1 DEF BeginStoreOpenFails, BeginStoreNoStage
  <2>2. ASSUME NEW k \in Keys, NEW size \in Sizes, BeginStoreNoRam(w, k, size)
        PROVE  LimitsKept'
    <3>1. Evict(policy, {}) /\ UNCHANGED <<handle, stageFree>>
      BY <2>2 DEF BeginStoreNoRam
    <3>. QED BY <1>1, <3>1, EvictFewer
  <2>3. handle[w] # None => 1..handle[w].size \subseteq Nat
    BY <1>0, PieceType
  <2>. QED BY <1>3, <1>4, <1>7, <2>1, <2>2, <2>3, BeginLimits, CommitLimits DEF StoreStep
<1>8. ASSUME NEW k \in Keys, KeyStep(k) PROVE LimitsKept'
  BY <1>5, <1>6, <1>8 DEF KeyStep
<1>9. ASSUME NEW r \in Readers, ReadStep(r) PROVE LimitsKept'
  BY ZenonT(30), <1>2, <1>9 DEF ReadStep, open_snapshot, SendHead, plan, CloseSnapshot
<1>10. ASSUME ReapScan \/ Tick \/ UNCHANGED vars PROVE LimitsKept'
  BY <1>2, <1>10 DEF ReapScan, Tick, vars
<1>. QED BY <1>7, <1>8, <1>9, <1>10 DEF Next

\* A new store is empty and all its buffers are free.
LEMMA LimitsBegin == Init => LimitsKept
<1> SUFFICES ASSUME Init PROVE LimitsKept
  OBVIOUS
<1>1. Present(index) = {} /\ OpenWriters = {} /\ stageFree = WriteBuffers
  BY DEF Init, Present, OpenWriters
<1>2. Cardinality({}) = 0
  BY FS_EmptySet
<1>. QED BY <1>1, <1>2, LimitsHere, StoreConfig

\* However stores, aborts, failed renames, evictions and removals interleave,
\* the index never holds more objects than max_objects allows once a locked
\* section of TierManager is over, and no staging buffer is lost or shared.
THEOREM LimitsStayKept == Spec => []LimitsKept
<1>. QED BY PolicyBegin, PolicyStep, LimitsBegin, LimitsStep, PTL DEF Spec
=============================================================================
