------------------------- MODULE StartupData_proofs -------------------------
(***************************************************************************)
(* Theorems about StartupData for any finite sets of objects and any blobs.*)
(***************************************************************************)
EXTENDS StartupData, FiniteSetTheorems, TLAPS

\* Only objects that exist own blobs, and only open isolates read one: theirs.
OnlyLiveOwn ==
    /\ \A s \in Snapshots : s \notin snapshots => blob[s] = NoBlob
    /\ \A i \in Isolates :
          /\ stage[i] = "none" => taken[i] = NoBlob
          /\ stage[i] # "open" => reads[i] = NoBlob
          /\ reads[i] \in {NoBlob, taken[i]}

\* What CountExact says of a blob, in terms of the count.
Counted(b) ==
    /\ inUse[b] = Cardinality(Owners(b)) + leaked[b]
    /\ b \in allocated <=> inUse[b] # 0

AllCounted == \A b \in Blobs : Counted(b)

\* An isolate's blob is of this version and has data.
TakenCompatible ==
    \A i \in Isolates :
        taken[i] # NoBlob => /\ usable[taken[i]] /\ matches[taken[i]]
                             /\ ~rejected[taken[i]]

IInv == TypeOK /\ OnlyLiveOwn /\ AllCounted /\ TakenCompatible

-----------------------------------------------------------------------------
\* Lemmas about owners.

LEMMA OwnersFinite == \A b : IsFiniteSet(Owners(b)) /\ Cardinality(Owners(b)) \in Nat
<1> TAKE b
<1>1. IsFiniteSet(Snapshots \union Isolates)
    BY ObjectsAssumption, FS_Union
<1>2. Owners(b) \subseteq Snapshots \union Isolates
    BY DEF Owners
<1> QED
    BY <1>1, <1>2, FS_Subset, FS_CardinalityType

\* The counts of a blob are numbers, and an owned one is allocated.
LEMMA OwnedAllocated ==
    ASSUME IInv, NEW b \in Blobs
    PROVE  /\ Owners(b) # {} => b \in allocated /\ inUse[b] # 0
           /\ inUse[b] \in Nat /\ leaked[b] \in Nat
           /\ Cardinality(Owners(b)) \in Nat
           /\ inUse[b] = Cardinality(Owners(b)) + leaked[b]
           /\ b \in allocated <=> inUse[b] # 0
<1>1. Cardinality(Owners(b)) \in Nat /\ (Cardinality(Owners(b)) = 0 <=> Owners(b) = {})
    BY OwnersFinite, FS_EmptySet
<1>2. inUse[b] \in Nat /\ leaked[b] \in Nat
    BY DEF IInv, TypeOK
<1>3. Counted(b)
    BY DEF IInv, AllCounted
<1> QED
    BY <1>1, <1>2, <1>3 DEF Counted

\* A blob's owners and its count change together.
LEMMA CountedNext ==
    ASSUME NEW b \in Blobs, NEW n \in Nat,
           Cardinality(Owners(b)') + leaked'[b] = n, inUse'[b] = n,
           b \in allocated' <=> n # 0
    PROVE  Counted(b)'
BY DEF Counted

-----------------------------------------------------------------------------
LEMMA InitInv == Init => IInv
<1> SUFFICES ASSUME Init PROVE IInv
    OBVIOUS
<1>1. TypeOK /\ OnlyLiveOwn /\ TakenCompatible
    BY DEF Init, TypeOK, OnlyLiveOwn, TakenCompatible
<1>2. ASSUME NEW b \in Blobs PROVE Counted(b)
  <2>1. Owners(b) = {}
      BY BlobsAssumption DEF Init, Owners
  <2>2. Cardinality(Owners(b)) = 0
      BY <2>1, FS_EmptySet
  <2> QED
      BY <2>2 DEF Init, Counted
<1> QED
    BY <1>1, <1>2 DEF IInv, AllCounted

\* A StartupData object gets a new blob in the place of the one it had, if any.
Bind(s, b, data, current) ==
    /\ snapshots' = snapshots \union {s}
    /\ blob' = [blob EXCEPT ![s] = b]
    /\ Forget(blob[s])
    /\ NewBlob(b, data, current)
    /\ UNCHANGED engines

LEMMA BindKeeps ==
    ASSUME IInv, NEW s \in Snapshots, NEW n \in Blobs, NEW data \in BOOLEAN,
           NEW current \in BOOLEAN, Bind(s, n, data, current)
    PROVE  IInv'
<1> USE DEF Bind, NewBlob, engines
<1>1. /\ n \notin allocated /\ allocated' = allocated \union {n}
      /\ inUse' = [inUse EXCEPT ![n] = 1]
      /\ leaked' = [x \in Blobs |-> IF x = blob[s] THEN leaked[x] + 1 ELSE leaked[x]]
      /\ snapshots' = snapshots \union {s}
      /\ blob' = [blob EXCEPT ![s] = n]
      /\ stage' = stage /\ taken' = taken /\ reads' = reads
    BY DEF Forget
<1>2. /\ blob \in [Snapshots -> Blobs \union {NoBlob}]
      /\ taken \in [Isolates -> Blobs \union {NoBlob}]
      /\ inUse \in [Blobs -> Nat] /\ leaked \in [Blobs -> Nat]
      /\ n # NoBlob
    BY BlobsAssumption DEF IInv, TypeOK
<1>3. TypeOK'
    BY <1>1, <1>2 DEF IInv, TypeOK
<1>4. OnlyLiveOwn'
    BY <1>1, <1>2 DEF IInv, OnlyLiveOwn
<1>5. Owners(n) = {} /\ leaked[n] = 0
  <2>1. inUse[n] = 0
      BY <1>1, OwnedAllocated
  <2> QED
      BY <2>1, OwnedAllocated
<1>6. Owners(n)' = {s}
    BY <1>1, <1>2, <1>5 DEF Owners
<1>7. \A b \in Blobs \ {n} : Owners(b)' = Owners(b) \ {s}
    BY <1>1, <1>2, ObjectsAssumption DEF Owners
<1>8. ASSUME NEW b \in Blobs PROVE Counted(b)'
  <2>1. CASE b = n
    <3>1. Cardinality(Owners(b)') = 1
        BY <2>1, <1>6, FS_Singleton
    <3>2. b # blob[s]
        BY <2>1, <1>5 DEF Owners
    <3>3. leaked'[b] = 0 /\ inUse'[b] = 1 /\ b \in allocated'
        BY <2>1, <3>2, <1>1, <1>2, <1>5
    <3> QED
        BY <3>1, <3>3, CountedNext
  <2>2. CASE b # n
    <3>1. inUse'[b] = inUse[b] /\ (b \in allocated' <=> b \in allocated)
        BY <2>2, <1>1, <1>2
    <3>2. Cardinality(Owners(b)') + leaked'[b] = inUse[b]
      <4>1. CASE b = blob[s]
        <5>1. s \in Owners(b) /\ leaked'[b] = leaked[b] + 1
            BY <4>1, <1>1 DEF Owners
        <5>2. Cardinality(Owners(b) \ {s}) = Cardinality(Owners(b)) - 1
            BY <5>1, OwnersFinite, FS_RemoveElement
        <5>3. Cardinality(Owners(b)') = Cardinality(Owners(b)) - 1
            BY <5>2, <2>2, <1>7
        <5> QED
            BY <5>1, <5>3, OwnedAllocated
      <4>2. CASE b # blob[s]
        <5>1. s \notin Owners(b) /\ leaked'[b] = leaked[b]
            BY <4>2, <1>1, ObjectsAssumption DEF Owners
        <5>2. Owners(b)' = Owners(b)
            BY <5>1, <2>2, <1>7
        <5>3. Cardinality(Owners(b)') = Cardinality(Owners(b))
            BY <5>2
        <5> QED
            BY <5>1, <5>3, OwnedAllocated
      <4> QED
          BY <4>1, <4>2
    <3> QED
        BY <3>1, <3>2, OwnedAllocated, CountedNext
  <2> QED
      BY <2>1, <2>2
<1>9. TakenCompatible'
  <2> SUFFICES ASSUME NEW i \in Isolates, taken[i] # NoBlob
               PROVE  usable'[taken[i]] /\ matches'[taken[i]] /\ ~rejected'[taken[i]]
      BY <1>1 DEF TakenCompatible
  <2>1. taken[i] \in Blobs /\ i \in Owners(taken[i])
      BY <1>2 DEF Owners
  <2>2. taken[i] # n
      BY <2>1, <1>5
  <2> QED
      BY <2>1, <2>2 DEF IInv, TypeOK, TakenCompatible
<1> QED
    BY <1>3, <1>4, <1>8, <1>9 DEF IInv, AllCounted

\* An owner of a blob gives its reference back.
LEMMA ReleaseKeeps ==
    ASSUME IInv, NEW x, NEW r \in Blobs, x \in Owners(r), Release(r), leaked' = leaked,
           Owners(r)' = Owners(r) \ {x},
           \A b \in Blobs \ {r} : Owners(b)' = Owners(b)
    PROVE  inUse' \in [Blobs -> Nat] /\ AllCounted'
<1>1. inUse \in [Blobs -> Nat]
    BY DEF IInv, TypeOK
<1>2. /\ inUse[r] \in Nat \ {0} /\ leaked[r] \in Nat
      /\ r \in allocated
      /\ Cardinality(Owners(r)) \in Nat
      /\ inUse[r] = Cardinality(Owners(r)) + leaked[r]
    BY OwnedAllocated
<1>3. Cardinality(Owners(r)') = Cardinality(Owners(r)) - 1
  <2>1. Cardinality(Owners(r) \ {x}) = Cardinality(Owners(r)) - 1
      BY OwnersFinite, FS_RemoveElement
  <2> QED
      BY <2>1
<1>4. /\ inUse' = [inUse EXCEPT ![r] = @ - 1]
      /\ allocated' = IF inUse[r] = 1 THEN allocated \ {r} ELSE allocated
    BY DEF Release
<1>5. inUse' \in [Blobs -> Nat] /\ inUse'[r] = inUse[r] - 1
    BY <1>1, <1>2, <1>4
<1>6. ASSUME NEW b \in Blobs PROVE Counted(b)'
  <2>1. CASE b = r
    <3>1. r \in allocated' <=> inUse[r] - 1 # 0
        BY <1>2, <1>4
    <3>2. Cardinality(Owners(r)') + leaked'[r] = inUse[r] - 1
        BY <1>2, <1>3
    <3>3. inUse[r] - 1 \in Nat
        BY <1>2
    <3> QED
        BY <2>1, <3>1, <3>2, <3>3, <1>5, CountedNext
  <2>2. CASE b # r
    <3>1. Cardinality(Owners(b)') = Cardinality(Owners(b))
        BY <2>2
    <3>2. inUse'[b] = inUse[b] /\ (b \in allocated' <=> b \in allocated)
        BY <2>2, <1>1, <1>4
    <3> QED
        BY <3>1, <3>2, OwnedAllocated, CountedNext
  <2> QED
      BY <2>1, <2>2
<1> QED
    BY <1>5, <1>6 DEF AllCounted

\* Nothing changes for any blob.
LEMMA SameOwnersKeep ==
    ASSUME IInv, inUse' = inUse, allocated' = allocated, leaked' = leaked,
           \A b \in Blobs : Owners(b)' = Owners(b)
    PROVE  AllCounted'
<1> SUFFICES ASSUME NEW b \in Blobs PROVE Counted(b)'
    BY DEF AllCounted
<1>1. Cardinality(Owners(b)') = Cardinality(Owners(b))
    OBVIOUS
<1> QED
    BY <1>1, OwnedAllocated, CountedNext

LEMMA ConstructFailedKeeps ==
    ASSUME IInv, NEW s \in Snapshots, ConstructFailed(s)
    PROVE  IInv'
<1> USE DEF ConstructFailed, engines, memory
<1>1. TypeOK' /\ OnlyLiveOwn' /\ TakenCompatible'
    BY DEF IInv, TypeOK, OnlyLiveOwn, TakenCompatible
<1>2. \A b \in Blobs : Owners(b)' = Owners(b)
    BY DEF Owners
<1> QED
    BY <1>1, <1>2, SameOwnersKeep DEF IInv

LEMMA FreeSnapshotKeeps ==
    ASSUME IInv, NEW s \in Snapshots, FreeSnapshot(s)
    PROVE  IInv'
<1>1. /\ snapshots' = snapshots \ {s}
      /\ blob' = [blob EXCEPT ![s] = NoBlob]
      /\ stage' = stage /\ taken' = taken /\ reads' = reads
      /\ usable' = usable /\ matches' = matches /\ rejected' = rejected
      /\ allocated' \subseteq allocated /\ leaked' = leaked
    BY DEF FreeSnapshot, Release, engines, memory
<1>2. /\ blob \in [Snapshots -> Blobs \union {NoBlob}]
      /\ taken \in [Isolates -> Blobs \union {NoBlob}]
      /\ inUse \in [Blobs -> Nat]
    BY DEF IInv, TypeOK
<1>3. OnlyLiveOwn' /\ TakenCompatible'
    BY <1>1, <1>2 DEF IInv, OnlyLiveOwn, TakenCompatible
<1>4. \A b \in Blobs : b # blob[s] => Owners(b)' = Owners(b)
    BY <1>1, <1>2, BlobsAssumption DEF Owners
<1>5. inUse' \in [Blobs -> Nat] /\ AllCounted'
  <2>1. CASE blob[s] = NoBlob
    <3>1. inUse' = inUse /\ allocated' = allocated
        BY <2>1 DEF FreeSnapshot, memory
    <3>2. \A b \in Blobs : Owners(b)' = Owners(b)
        BY <2>1, <1>4, BlobsAssumption
    <3> QED
        BY <3>1, <3>2, <1>1, <1>2, SameOwnersKeep
  <2>2. CASE blob[s] # NoBlob
    <3>1. PICK r \in Blobs : r = blob[s]
        BY <2>2, <1>2
    <3>2. s \in Owners(r) /\ Release(r)
        BY <2>2, <3>1 DEF Owners, FreeSnapshot
    <3>3. Owners(r)' = Owners(r) \ {s}
      <4>1. \A x \in Snapshots : blob'[x] = r <=> blob[x] = r /\ x # s
          BY <1>1, <1>2, <2>2, <3>1
      <4>2. {x \in Snapshots : blob'[x] = r} = {x \in Snapshots : blob[x] = r} \ {s}
          BY <4>1
      <4>3. {y \in Isolates : taken'[y] = r} = {y \in Isolates : taken[y] = r} \ {s}
          BY <1>1, ObjectsAssumption
      <4> QED
          BY <4>2, <4>3 DEF Owners
    <3>4. \A b \in Blobs \ {r} : Owners(b)' = Owners(b)
        BY <1>4, <3>1
    <3> QED
        BY <3>2, <3>3, <3>4, <1>1, ReleaseKeeps
  <2> QED
      BY <2>1, <2>2
<1>6. TypeOK'
    BY <1>1, <1>2, <1>5, BlobsAssumption DEF IInv, TypeOK
<1> QED
    BY <1>3, <1>5, <1>6 DEF IInv

\* An isolate is created without a reference to another blob.
LEMMA OpenSameKeeps ==
    ASSUME IInv, NEW i \in Isolates, NewEngine(i, taken[i]),
           UNCHANGED <<objects, taken, allocated, inUse, usable, matches, leaked>>,
           rejected' \in [Blobs -> BOOLEAN],
           \A b \in Blobs : matches[b] => rejected'[b] = rejected[b]
    PROVE  IInv'
<1> USE DEF NewEngine, objects
<1>1. TypeOK'
    BY DEF IInv, TypeOK
<1>2. OnlyLiveOwn'
    BY DEF IInv, TypeOK, OnlyLiveOwn
<1>3. TakenCompatible'
    BY DEF IInv, TypeOK, TakenCompatible
<1>4. \A b \in Blobs : Owners(b)' = Owners(b)
    BY DEF Owners
<1> QED
    BY <1>1, <1>2, <1>3, <1>4, SameOwnersKeep DEF IInv

LEMMA OpenFromKeeps ==
    ASSUME IInv, NEW i \in Isolates, NEW s \in Snapshots, OpenFrom(i, s)
    PROVE  IInv'
<1>0. PICK r \in Blobs : r = blob[s] /\ r # NoBlob
    BY BlobsAssumption DEF OpenFrom, IInv, TypeOK
<1>1. /\ r # NoBlob /\ usable[r] /\ ~rejected[r] /\ matches[r]
      /\ taken' = [taken EXCEPT ![i] = r]
      /\ inUse' = [inUse EXCEPT ![r] = @ + 1]
      /\ leaked' = [x \in Blobs |-> IF x = taken[i] THEN leaked[x] + 1 ELSE leaked[x]]
      /\ stage' = [stage EXCEPT ![i] = "open"]
      /\ reads' = [reads EXCEPT ![i] = r]
      /\ snapshots' = snapshots /\ blob' = blob /\ allocated' = allocated
      /\ usable' = usable /\ matches' = matches /\ rejected' = rejected
    BY <1>0 DEF OpenFrom, NewEngine, Forget, objects
<1>2. /\ blob \in [Snapshots -> Blobs \union {NoBlob}]
      /\ taken \in [Isolates -> Blobs \union {NoBlob}]
      /\ reads \in [Isolates -> Blobs \union {NoBlob}]
      /\ stage \in [Isolates -> {"none", "open", "closing"}]
      /\ inUse \in [Blobs -> Nat] /\ leaked \in [Blobs -> Nat]
    BY DEF IInv, TypeOK
<1>3. s \in Owners(r)
    BY <1>0 DEF Owners
<1>4. r \in allocated /\ inUse[r] \in Nat
    BY <1>3, OwnedAllocated
<1>5. inUse' \in [Blobs -> Nat] /\ inUse'[r] = inUse[r] + 1 /\ leaked' \in [Blobs -> Nat]
    BY <1>1, <1>2, <1>4
<1>6. TypeOK'
    BY <1>1, <1>2, <1>5 DEF IInv, TypeOK
<1>7. OnlyLiveOwn'
    BY <1>1, <1>2 DEF IInv, OnlyLiveOwn
<1>8. TakenCompatible'
    BY <1>1, <1>2 DEF IInv, TakenCompatible
<1>9. Owners(r)' = Owners(r) \union {i}
  <2>1. \A x \in Isolates : taken'[x] = r <=> taken[x] = r \/ x = i
      BY <1>1, <1>2
  <2>2. {x \in Isolates : taken'[x] = r} = {x \in Isolates : taken[x] = r} \union {i}
      BY <2>1
  <2> QED
      BY <2>2, <1>1 DEF Owners
<1>10. \A b \in Blobs \ {r} : Owners(b)' = Owners(b) \ {i}
  <2> SUFFICES ASSUME NEW b \in Blobs \ {r} PROVE Owners(b)' = Owners(b) \ {i}
      OBVIOUS
  <2>1. \A x \in Isolates : taken'[x] = b <=> taken[x] = b /\ x # i
      BY <1>1, <1>2
  <2>2. {x \in Isolates : taken'[x] = b} = {x \in Isolates : taken[x] = b} \ {i}
      BY <2>1
  <2>3. {x \in Snapshots : blob[x] = b} = {x \in Snapshots : blob[x] = b} \ {i}
      BY ObjectsAssumption
  <2> QED
      BY <2>2, <2>3, <1>1 DEF Owners
<1>11. \A b \in Blobs : i \in Owners(b) <=> b = taken[i]
    BY ObjectsAssumption DEF Owners
<1>12. ASSUME NEW b \in Blobs PROVE Counted(b)'
  <2>1. /\ IsFiniteSet(Owners(b)) /\ Cardinality(Owners(b)) \in Nat
        /\ inUse[b] \in Nat /\ leaked[b] \in Nat
        /\ inUse[b] = Cardinality(Owners(b)) + leaked[b]
        /\ b \in allocated <=> inUse[b] # 0
      BY OwnersFinite, OwnedAllocated
  <2>2. CASE b = r
    <3>1. inUse'[b] = inUse[b] + 1 /\ inUse[b] + 1 \in Nat /\ inUse[b] + 1 # 0
        BY <2>1, <2>2, <1>5
    <3>2. Cardinality(Owners(b)') + leaked'[b] = inUse[b] + 1
      <4>1. CASE b = taken[i]
        <5>1. Owners(b)' = Owners(b)
            BY <4>1, <2>2, <1>9, <1>11
        <5>2. Cardinality(Owners(b)') = Cardinality(Owners(b)) /\ leaked'[b] = leaked[b] + 1
            BY <5>1, <4>1, <1>1
        <5> QED
            BY <5>2, <2>1
      <4>2. CASE b # taken[i]
        <5>1. i \notin Owners(b) /\ Owners(b)' = Owners(b) \union {i} /\ leaked'[b] = leaked[b]
            BY <4>2, <2>2, <1>1, <1>9, <1>11
        <5>2. Cardinality(Owners(b) \union {i}) = Cardinality(Owners(b)) + 1
            BY <5>1, <2>1, FS_AddElement
        <5>3. Cardinality(Owners(b)') = Cardinality(Owners(b)) + 1
            BY <5>1, <5>2
        <5> QED
            BY <5>1, <5>3, <2>1
      <4> QED
          BY <4>1, <4>2
    <3>3. b \in allocated'
        BY <2>2, <1>1, <1>4
    <3> QED
        BY <3>1, <3>2, <3>3, CountedNext
  <2>3. CASE b # r
    <3>1. inUse'[b] = inUse[b] /\ allocated' = allocated
        BY <2>3, <1>1, <1>2
    <3>2. Cardinality(Owners(b)') + leaked'[b] = inUse[b]
      <4>1. CASE b = taken[i]
        <5>1. i \in Owners(b) /\ Owners(b)' = Owners(b) \ {i} /\ leaked'[b] = leaked[b] + 1
            BY <4>1, <2>3, <1>1, <1>10, <1>11
        <5>2. Cardinality(Owners(b) \ {i}) = Cardinality(Owners(b)) - 1
            BY <5>1, <2>1, FS_RemoveElement
        <5>3. Cardinality(Owners(b)') = Cardinality(Owners(b)) - 1
            BY <5>1, <5>2
        <5> QED
            BY <5>1, <5>3, <2>1
      <4>2. CASE b # taken[i]
        <5>1. Owners(b)' = Owners(b) /\ leaked'[b] = leaked[b]
            BY <4>2, <2>3, <1>1, <1>10, <1>11
        <5>2. Cardinality(Owners(b)') = Cardinality(Owners(b))
            BY <5>1
        <5> QED
            BY <5>1, <5>2, <2>1
      <4> QED
          BY <4>1, <4>2
    <3> QED
        BY <3>1, <3>2, <2>1, CountedNext
  <2> QED
      BY <2>2, <2>3
<1> QED
    BY <1>6, <1>7, <1>8, <1>12 DEF IInv, AllCounted

LEMMA DisposeKeeps ==
    ASSUME IInv, NEW i \in Isolates, Dispose(i)
    PROVE  IInv'
<1> USE DEF Dispose, objects, memory
<1>1. TypeOK' /\ TakenCompatible'
    BY DEF IInv, TypeOK, TakenCompatible
<1>2. OnlyLiveOwn'
    BY DEF IInv, TypeOK, OnlyLiveOwn
<1>3. \A b \in Blobs : Owners(b)' = Owners(b)
    BY DEF Owners
<1> QED
    BY <1>1, <1>2, <1>3, SameOwnersKeep DEF IInv

LEMMA ReleaseBlobKeeps ==
    ASSUME IInv, NEW i \in Isolates, ReleaseBlob(i)
    PROVE  IInv'
<1>1. /\ stage[i] = "closing"
      /\ stage' = [stage EXCEPT ![i] = "none"]
      /\ taken' = [taken EXCEPT ![i] = NoBlob]
      /\ snapshots' = snapshots /\ blob' = blob /\ reads' = reads
      /\ usable' = usable /\ matches' = matches /\ rejected' = rejected
      /\ allocated' \subseteq allocated /\ leaked' = leaked
    BY DEF ReleaseBlob, Release, objects, memory
<1>2. /\ blob \in [Snapshots -> Blobs \union {NoBlob}]
      /\ taken \in [Isolates -> Blobs \union {NoBlob}]
      /\ stage \in [Isolates -> {"none", "open", "closing"}]
      /\ inUse \in [Blobs -> Nat]
    BY DEF IInv, TypeOK
<1>3. OnlyLiveOwn' /\ TakenCompatible'
    BY <1>1, <1>2 DEF IInv, OnlyLiveOwn, TakenCompatible
<1>4. \A b \in Blobs : b # taken[i] => Owners(b)' = Owners(b)
    BY <1>1, <1>2, BlobsAssumption DEF Owners
<1>5. inUse' \in [Blobs -> Nat] /\ AllCounted'
  <2>1. CASE taken[i] = NoBlob
    <3>1. inUse' = inUse /\ allocated' = allocated
        BY <2>1 DEF ReleaseBlob, memory
    <3>2. \A b \in Blobs : Owners(b)' = Owners(b)
        BY <2>1, <1>4, BlobsAssumption
    <3> QED
        BY <3>1, <3>2, <1>1, <1>2, SameOwnersKeep
  <2>2. CASE taken[i] # NoBlob
    <3>1. PICK r \in Blobs : r = taken[i]
        BY <2>2, <1>2
    <3>2. i \in Owners(r) /\ Release(r)
        BY <2>2, <3>1 DEF Owners, ReleaseBlob
    <3>3. Owners(r)' = Owners(r) \ {i}
      <4>1. \A x \in Isolates : taken'[x] = r <=> taken[x] = r /\ x # i
          BY <1>1, <1>2, <2>2, <3>1
      <4>2. {x \in Isolates : taken'[x] = r} = {x \in Isolates : taken[x] = r} \ {i}
          BY <4>1
      <4>3. {y \in Snapshots : blob'[y] = r} = {y \in Snapshots : blob[y] = r} \ {i}
          BY <1>1, ObjectsAssumption
      <4> QED
          BY <4>2, <4>3 DEF Owners
    <3>4. \A b \in Blobs \ {r} : Owners(b)' = Owners(b)
        BY <1>4, <3>1
    <3> QED
        BY <3>2, <3>3, <3>4, <1>1, ReleaseKeeps
  <2> QED
      BY <2>1, <2>2
<1>6. TypeOK'
    BY <1>1, <1>2, <1>5 DEF IInv, TypeOK
<1> QED
    BY <1>3, <1>5, <1>6 DEF IInv

-----------------------------------------------------------------------------
LEMMA StepKeepsInv ==
    ASSUME IInv, [Next]_vars
    PROVE  IInv'
<1>1. ASSUME NEW s \in Snapshots, NEW b \in Blobs, NEW data \in BOOLEAN,
             NEW current \in BOOLEAN, Construct(s, b, data, current)
      PROVE  IInv'
  <2>1. Bind(s, b, data, current)
      BY <1>1 DEF Construct, Bind
  <2> QED
      BY <2>1, BindKeeps
<1>2. ASSUME NEW s \in Snapshots, ConstructFailed(s)
      PROVE  IInv'
    BY <1>2, ConstructFailedKeeps
<1>3. ASSUME NEW s \in Snapshots, NEW b \in Blobs, Create(s, b)
      PROVE  IInv'
  <2>1. blob[s] = NoBlob /\ leaked \in [Blobs -> Nat]
      BY <1>3 DEF Create, IInv, OnlyLiveOwn, TypeOK
  <2>2. Forget(blob[s])
      BY <1>3, <2>1, BlobsAssumption DEF Create, Forget
  <2>3. Bind(s, b, TRUE, TRUE)
      BY <1>3, <2>2 DEF Create, Bind
  <2> QED
      BY <2>3, BindKeeps
<1>4. ASSUME NEW s \in Snapshots, FreeSnapshot(s)
      PROVE  IInv'
    BY <1>4, FreeSnapshotKeeps
<1>5. ASSUME NEW i \in Isolates, OpenPlain(i)
      PROVE  IInv'
  <2>1. /\ NewEngine(i, taken[i])
        /\ UNCHANGED <<objects, taken, allocated, inUse, usable, matches, leaked>>
        /\ rejected' = rejected
      BY <1>5 DEF OpenPlain, memory
  <2> QED
      BY <2>1, OpenSameKeeps DEF IInv, TypeOK
<1>6. ASSUME NEW i \in Isolates, NEW s \in Snapshots, OpenFrom(i, s)
      PROVE  IInv'
    BY <1>6, OpenFromKeeps
<1>7. ASSUME NEW i \in Isolates, NEW s \in Snapshots, OpenRejected(i, s)
      PROVE  IInv'
  <2>1. /\ NewEngine(i, taken[i])
        /\ UNCHANGED <<objects, taken, allocated, inUse, usable, matches, leaked>>
        /\ rejected' = [rejected EXCEPT ![blob[s]] = TRUE]
        /\ ~matches[blob[s]]
      BY <1>7 DEF OpenRejected
  <2>2. rejected \in [Blobs -> BOOLEAN]
      BY DEF IInv, TypeOK
  <2>3. /\ rejected' \in [Blobs -> BOOLEAN]
        /\ \A b \in Blobs : matches[b] => rejected'[b] = rejected[b]
      BY <2>1, <2>2
  <2> QED
      BY <2>1, <2>3, OpenSameKeeps
<1>8. ASSUME NEW i \in Isolates, Dispose(i)
      PROVE  IInv'
    BY <1>8, DisposeKeeps
<1>9. ASSUME NEW i \in Isolates, ReleaseBlob(i)
      PROVE  IInv'
    BY <1>9, ReleaseBlobKeeps
<1>10. CASE UNCHANGED vars
  <2> USE <1>10 DEF vars, objects, engines, memory
  <2>1. TypeOK' /\ OnlyLiveOwn' /\ TakenCompatible'
      BY DEF IInv, TypeOK, OnlyLiveOwn, TakenCompatible
  <2>2. \A b \in Blobs : Owners(b)' = Owners(b)
      BY DEF Owners
  <2> QED
      BY <2>1, <2>2, SameOwnersKeep DEF IInv
<1> QED
    BY <1>1, <1>2, <1>3, <1>4, <1>5, <1>6, <1>7, <1>8, <1>9, <1>10 DEF Next

\* The invariant behind the other theorems holds in every reachable state.
THEOREM BlobInvariance == Spec => []IInv
<1>1. Init => IInv
    BY InitInv
<1>2. IInv /\ [Next]_vars => IInv'
    BY StepKeepsInv
<1> QED
    BY <1>1, <1>2, PTL DEF Spec

\* Every variable keeps its type; in_use never falls below zero.
THEOREM BlobTypeCorrect == Spec => []TypeOK
<1>1. IInv => TypeOK
    BY DEF IInv
<1> QED
    BY <1>1, BlobInvariance, PTL

\* The count of a blob is the number of its references, and the last one that is
\* released deletes it.
THEOREM CountStaysExact == Spec => []CountExact
<1>1. IInv => CountExact
  <2> SUFFICES ASSUME IInv, NEW b \in Blobs
               PROVE  /\ inUse[b] = Cardinality(Owners(b)) + leaked[b]
                      /\ b \in allocated <=> Owners(b) # {} \/ leaked[b] > 0
      BY DEF CountExact
  <2>1. Cardinality(Owners(b)) = 0 <=> Owners(b) = {}
      BY OwnersFinite, FS_EmptySet
  <2>2. leaked[b] > 0 <=> leaked[b] # 0
      BY OwnedAllocated
  <2>3. inUse[b] # 0 <=> Cardinality(Owners(b)) # 0 \/ leaked[b] # 0
      BY OwnedAllocated
  <2> QED
      BY <2>1, <2>2, <2>3, OwnedAllocated
<1> QED
    BY <1>1, BlobInvariance, PTL

\* If no constructor is called twice, no reference is overwritten: a blob exists
\* exactly as long as an object refers to it.
THEOREM NothingLeaks ==
    ASSUME "reconstruct" \notin Behaviours
    PROVE  Spec => [](\A b \in Blobs : b \in allocated <=> Owners(b) # {})
<1> DEFINE None == \A b \in Blobs : leaked[b] = 0
<1>1. Init => None
    BY DEF Init
<1>2. IInv /\ None /\ [Next]_vars => None'
  <2> SUFFICES ASSUME IInv, None, [Next]_vars PROVE None'
      OBVIOUS
  <2>1. ASSUME NEW s \in Snapshots, NEW b \in Blobs, NEW data \in BOOLEAN,
               NEW current \in BOOLEAN, Construct(s, b, data, current)
        PROVE  None'
      BY <2>1, BlobsAssumption DEF Construct, Forget, IInv, OnlyLiveOwn
  <2>2. ASSUME NEW i \in Isolates, NEW s \in Snapshots, OpenFrom(i, s)
        PROVE  None'
      BY <2>2, BlobsAssumption DEF OpenFrom, MayOpen, Forget, IInv, OnlyLiveOwn
  <2>3. CASE leaked' = leaked
      BY <2>3
  <2>4. \/ \E s \in Snapshots, b \in Blobs, data \in BOOLEAN, current \in BOOLEAN :
               Construct(s, b, data, current)
        \/ \E i \in Isolates, s \in Snapshots : OpenFrom(i, s)
        \/ leaked' = leaked
      BY DEF Next, vars, ConstructFailed, Create, FreeSnapshot, OpenPlain,
             OpenRejected, Dispose, ReleaseBlob
  <2> QED
      BY <2>1, <2>2, <2>3, <2>4
<1>3. CountExact /\ None => \A b \in Blobs : b \in allocated <=> Owners(b) # {}
    BY DEF CountExact
<1> HIDE DEF None
<1> QED
    BY <1>1, <1>2, <1>3, BlobInvariance, CountStaysExact, PTL DEF Spec

\* No V8 isolate reads a deleted blob.
THEOREM ReadersStaySafe == Spec => []ReadersSafe
<1>1. IInv => ReadersSafe
  <2> SUFFICES ASSUME IInv, NEW b \in Blobs, NEW i \in Isolates, reads[i] = b
               PROVE  b \in allocated
      BY DEF ReadersSafe
  <2>1. taken[i] = b
      BY BlobsAssumption DEF IInv, OnlyLiveOwn
  <2> QED
      BY <2>1, OwnedAllocated DEF Owners
<1> QED
    BY <1>1, BlobInvariance, PTL

\* V8 never reads a rejected blob.
THEOREM ReadersStayCompatible == Spec => []ReadersCompatible
<1>1. IInv => ReadersCompatible
    BY DEF IInv, OnlyLiveOwn, TakenCompatible, ReadersCompatible
<1> QED
    BY <1>1, BlobInvariance, PTL
=============================================================================
