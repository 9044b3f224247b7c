------------------------- MODULE WeakHandles_proofs -------------------------
(***************************************************************************)
(* Proofs about WeakHandles for any number of wrappers, values and         *)
(* buckets, of a program that calls no object's constructor twice.         *)
(***************************************************************************)
EXTENDS WeakHandles, TLAPS

LEMMA KindFacts ==
    /\ "function" \in ObjectKinds /\ "primitive" \notin ObjectKinds
    /\ ObjectKinds \subseteq Kinds /\ None \notin Kinds /\ None \notin Things
  BY NoneAssumption DEF ObjectKinds, Kinds

-----------------------------------------------------------------------------
(* The inductive invariant                                                 *)

\* A handle, PHP's or one left to the isolate, is empty or has a value that V8
\* has; a name without a handle is as good as new.
HandlesOK ==
    /\ live \intersect weak = {}
    /\ \A w \in live \union weak : target[w] # None => target[w] \in Existing
    /\ \A w \in weak : buckets[w] > 0
    /\ \A w \in Fresh : target[w] = None /\ buckets[w] = 0 /\ adjusted[w] = 0
    /\ reached \subseteq Existing

\* Only objects have a private property or callables.
ObjectsOnly ==
    /\ \A o \in Things : self[o] # None => IsObject(o)
    /\ \A e \in externals : IsObject(e[1])

IInv ==
    /\ TypeOK
    /\ HandlesOK
    /\ ObjectsOnly
    /\ SelfFaithful
    /\ CallbacksCallable
    /\ ReportBalanced

LEMMA InitInv == Init => IInv
<1> SUFFICES ASSUME Init PROVE IInv
  OBVIOUS
<1> USE DEF Init
<1>1. TypeOK
  <2>1. buckets \in [Wrappers -> 0..MaxBuckets] /\ adjusted \in [Wrappers -> 0..MaxAdjusted]
    BY BoundsAssumption
  <2>2. target \in [Wrappers -> Things \union {None}] /\ reported \in [Wrappers -> Int]
    OBVIOUS
  <2>3. kind \in [Things -> Kinds \union {None}] /\ self \in [Things -> Wrappers \union {None}]
    OBVIOUS
  <2> QED
    BY <2>1, <2>2, <2>3 DEF TypeOK
<1>2. HandlesOK
  BY DEF HandlesOK, Fresh, Existing
<1>3. ObjectsOnly
  BY DEF ObjectsOnly
<1>4. SelfFaithful /\ CallbacksCallable
  BY DEF SelfFaithful, CallbacksCallable
<1>5. ReportBalanced
  BY DEF ReportBalanced
<1> QED
  BY <1>1, <1>2, <1>3, <1>4, <1>5 DEF IInv

-----------------------------------------------------------------------------
(* Steps that bind a wrapper                                               *)

\* Storing the address is of o only, and leaves it faithful or spoilt.
LEMMA StoreSelfOutcome ==
    ASSUME TypeOK, NEW w \in Wrappers, NEW o \in Things, StoreSelf(w, o)
    PROVE  /\ self' \in [Things -> Wrappers \union {None}]
           /\ spoilt \subseteq spoilt' /\ spoilt' \subseteq spoilt \union {o}
           /\ \A x \in Things \ {o} : self'[x] = self[x]
           /\ o \notin spoilt' => self'[o] = w /\ self[o] = None
  BY DEF StoreSelf, TypeOK

\* What Construct and GetOrCreate have in common: the fresh wrapper w is bound
\* to o, and a function comes with its callable.
Binds(w, o) ==
    /\ w \in Fresh /\ o \in Things
    /\ Bind(w, o)
    /\ kind' \in [Things -> Kinds \union {None}]
    /\ o \in Existing' /\ \A x \in Existing : kind'[x] = kind[x] /\ x \in Existing'
    /\ UNCHANGED <<weak, adjusted, reached, reported>>
    /\ \/ UNCHANGED <<buckets, externals>>
       \/ /\ kind'[o] \in ObjectKinds
          /\ buckets' = [buckets EXCEPT ![w] = 1]
          /\ externals' = externals \union {<<o, w>>}

LEMMA BindsInv ==
    ASSUME IInv, NEW w \in Wrappers, NEW o \in Things, Binds(w, o)
    PROVE  /\ HandlesOK' /\ ObjectsOnly' /\ SelfFaithful' /\ CallbacksCallable' /\ ReportBalanced'
           /\ self' \in [Things -> Wrappers \union {None}] /\ spoilt' \subseteq Things
<1> USE DEF IInv, TypeOK
<1>1. /\ live' = live \union {w} /\ target' = [target EXCEPT ![w] = o]
      /\ w \notin live /\ w \notin weak /\ weak' = weak /\ Fresh' = Fresh \ {w}
  BY DEF Binds, Bind, Fresh
<1>2. target'[w] = o /\ \A v \in Wrappers \ {w} : target'[v] = target[v]
  BY <1>1
<1>3. o \in Existing' /\ \A x \in Existing : kind'[x] = kind[x] /\ x \in Existing'
  BY DEF Binds
<1>4. \A x \in Things : IsObject(x) => x \in Existing
  BY KindFacts DEF Existing, IsObject
<1>5. /\ self' \in [Things -> Wrappers \union {None}]
      /\ spoilt \subseteq spoilt' /\ spoilt' \subseteq spoilt \union {o}
      /\ \A x \in Things \ {o} : self'[x] = self[x]
      /\ o \notin spoilt' => self[o] = None
      /\ kind'[o] \in ObjectKinds /\ o \notin spoilt' => self'[o] = w
      /\ kind'[o] \notin ObjectKinds => self'[o] = None
  <2>1. CASE kind'[o] \in ObjectKinds
    <3>1. StoreSelf(w, o)
      BY <2>1 DEF Binds, Bind
    <3> QED
      BY <2>1, <3>1, StoreSelfOutcome
  <2>2. CASE kind'[o] \notin ObjectKinds
    <3>1. self' = self /\ spoilt' = spoilt
      BY <2>2 DEF Binds, Bind, identity
    <3>2. ~IsObject(o)
      BY <2>2, <1>3, <1>4 DEF IsObject
    <3>3. self[o] = None
      BY <3>2 DEF ObjectsOnly
    <3> QED
      BY <2>2, <3>1, <3>3
  <2> QED
    BY <2>1, <2>2
<1>6. /\ \A v \in Wrappers \ {w} : buckets'[v] = buckets[v]
      /\ \A e \in externals' : e \in externals
            \/ (e = <<o, w>> /\ buckets'[w] = 1 /\ kind'[o] \in ObjectKinds)
  BY DEF Binds
<1>7. HandlesOK'
  <2>1. live' \intersect weak' = {}
    BY <1>1 DEF HandlesOK
  <2>2. \A v \in live' \union weak' : target'[v] # None => target'[v] \in Existing'
    BY <1>1, <1>2, <1>3 DEF HandlesOK
  <2>3. \A v \in weak' : buckets'[v] > 0
    BY <1>1, <1>6 DEF HandlesOK
  <2>4. \A v \in Fresh' : target'[v] = None /\ buckets'[v] = 0 /\ adjusted'[v] = 0
    <3> SUFFICES ASSUME NEW v \in Fresh'
                 PROVE  target'[v] = None /\ buckets'[v] = 0 /\ adjusted'[v] = 0
      OBVIOUS
    <3>1. v \in Fresh /\ v \in Wrappers \ {w}
      BY <1>1 DEF Fresh
    <3> QED
      BY <3>1, <1>2, <1>6 DEF HandlesOK, Binds
  <2>5. reached' \subseteq Existing'
    BY <1>3 DEF HandlesOK, Binds
  <2> QED
    BY <2>1, <2>2, <2>3, <2>4, <2>5 DEF HandlesOK
<1>8. ObjectsOnly'
  <2>1. \A x \in Things : self'[x] # None => kind'[x] \in ObjectKinds
    BY <1>3, <1>4, <1>5 DEF ObjectsOnly, IsObject
  <2>2. \A e \in externals' : kind'[e[1]] \in ObjectKinds
    <3>1. ASSUME NEW e \in externals PROVE kind'[e[1]] \in ObjectKinds
      <4>1. e[1] \in Things /\ IsObject(e[1])
        BY DEF ObjectsOnly
      <4> QED
        BY <4>1, <1>3, <1>4 DEF IsObject
    <3> QED
      BY <3>1, <1>6
  <2> QED
    BY <2>1, <2>2 DEF ObjectsOnly, IsObject
<1>9. SelfFaithful'
  <2>1. ASSUME NEW x \in Things \ spoilt', self'[x] # None
        PROVE  self'[x] \in live' /\ target'[self'[x]] = x
    <3>1. CASE x = o
      BY <3>1, <2>1, <1>1, <1>2, <1>5
    <3>2. CASE x # o
      <4>1. self'[x] = self[x] /\ x \in Things \ spoilt
        BY <3>2, <2>1, <1>5
      <4> QED
        BY <4>1, <2>1, <1>1, <1>2 DEF SelfFaithful
    <3> QED
      BY <3>1, <3>2
  <2>2. ASSUME NEW v \in live', target'[v] \in Things \ spoilt', kind'[target'[v]] \in ObjectKinds
        PROVE  self'[target'[v]] = v
    <3>1. CASE v = w
      BY <3>1, <2>2, <1>2, <1>5
    <3>2. CASE v # w
      <4>1. v \in live /\ target'[v] = target[v] /\ target[v] \in Existing
        BY <3>2, <2>2, <1>1, <1>2, KindFacts DEF HandlesOK
      <4>2. target[v] \in Things \ spoilt /\ IsObject(target[v])
        BY <4>1, <2>2, <1>3, <1>5 DEF IsObject
      <4>3. self[target[v]] = v /\ v # None
        BY <4>1, <4>2, NoneAssumption DEF SelfFaithful
      <4> QED
        BY <4>1, <4>2, <4>3, <2>2, <1>5
    <3> QED
      BY <3>1, <3>2
  <2> QED
    BY <2>1, <2>2 DEF SelfFaithful, IsObject
<1>10. CallbacksCallable'
  <2> SUFFICES ASSUME NEW e \in externals'
               PROVE  e[2] \in live' \union weak' /\ target'[e[2]] = e[1] /\ buckets'[e[2]] > 0
    BY DEF CallbacksCallable
  <2>1. CASE e \in externals
    <3>1. e[2] \in live \union weak /\ target[e[2]] = e[1] /\ buckets[e[2]] > 0
      BY <2>1 DEF CallbacksCallable
    <3> QED
      BY <3>1, <1>1, <1>2, <1>6
  <2>2. CASE e = <<o, w>> /\ buckets'[w] = 1
    BY <2>2, <1>1, <1>2
  <2> QED
    BY <2>1, <2>2, <1>6
<1>11. ReportBalanced'
  BY <1>1, <1>6 DEF ReportBalanced, Binds, TotalSize
<1> QED
  BY <1>5, <1>7, <1>8, <1>9, <1>10, <1>11

LEMMA ConstructInv ==
    ASSUME IInv, NEW w \in Wrappers, NEW o \in Things, NEW k \in Kinds, Construct(w, o, k)
    PROVE  IInv'
<1> USE DEF Construct
<1>1. kind' \in [Things -> Kinds \union {None}] /\ kind'[o] = k
      /\ \A x \in Things \ {o} : kind'[x] = kind[x]
  BY DEF IInv, TypeOK
<1>2. o \notin Existing /\ o \in Existing'
  BY <1>1, KindFacts DEF Existing
<1>3. Binds(w, o)
  BY <1>1, <1>2, KindFacts DEF Binds, Existing
<1>4. TypeOK'
  <2>1. self' \in [Things -> Wrappers \union {None}] /\ spoilt' \subseteq Things
    BY <1>3, BindsInv
  <2> QED
    BY <2>1, <1>1, BoundsAssumption DEF IInv, TypeOK, Bind
<1> QED
  BY <1>3, <1>4, BindsInv DEF IInv

LEMMA GetOrCreateInv ==
    ASSUME IInv, NEW w \in Wrappers, NEW o \in Things, GetOrCreate(w, o)
    PROVE  IInv'
<1> USE DEF GetOrCreate, datas
<1>1. o \in Existing /\ kind' = kind
  BY DEF IInv, HandlesOK
<1>2. Binds(w, o)
  BY <1>1 DEF Binds, Existing, IInv, TypeOK
<1>3. TypeOK'
  <2>1. self' \in [Things -> Wrappers \union {None}] /\ spoilt' \subseteq Things
    BY <1>2, BindsInv
  <2> QED
    BY <2>1 DEF IInv, TypeOK, Bind
<1> QED
  BY <1>2, <1>3, BindsInv DEF IInv

LEMMA ConstructFailedInv ==
    ASSUME IInv, NEW w \in Wrappers, NEW n \in {0, 1}, ConstructFailed(w, n)
    PROVE  IInv'
<1> USE DEF IInv, TypeOK, ConstructFailed
<1>1. /\ UNCHANGED <<weak, target, adjusted, kind, reached, self, spoilt, spoilt, externals, reported>>
      /\ live' = live \union {w} /\ Existing' = Existing /\ Fresh' = Fresh \ {w}
      /\ w \in Fresh /\ w \notin live \union weak /\ target[w] = None
  BY DEF heap, identity, Existing, Fresh, HandlesOK
<1>2. buckets'[w] \in 0..MaxBuckets /\ \A v \in Wrappers \ {w} : buckets'[v] = buckets[v]
  BY BoundsAssumption
<1>3. TypeOK'
  BY <1>1, <1>2 DEF heap
<1>4. HandlesOK'
  <2>1. \A v \in Fresh' : target'[v] = None /\ buckets'[v] = 0 /\ adjusted'[v] = 0
    BY <1>1, <1>2 DEF HandlesOK, Fresh
  <2> QED
    BY <2>1, <1>1, <1>2 DEF HandlesOK
<1>5. ObjectsOnly' /\ SelfFaithful'
  BY <1>1, KindFacts DEF ObjectsOnly, IsObject, SelfFaithful
<1>6. CallbacksCallable'
  BY <1>1, <1>2 DEF CallbacksCallable
<1>7. ReportBalanced'
  BY <1>1, <1>2 DEF ReportBalanced, TotalSize
<1> QED
  BY <1>3, <1>4, <1>5, <1>6, <1>7

-----------------------------------------------------------------------------
(* Steps of a bound wrapper                                                *)

LEMMA ConstructAgainInv ==
    ASSUME IInv, Behaviours = {}, NEW w \in Wrappers, NEW o \in Things, ConstructAgain(w, o)
    PROVE  IInv'
<1> USE DEF IInv, TypeOK, ConstructAgain
<1>1. ~IsObject(target[w]) /\ target[w] \in Existing /\ target[w] \in Things
      /\ kind[target[w]] # "function"
  BY KindFacts DEF HandlesOK, IsObject, Existing
<1>2. /\ target'[w] = o /\ \A v \in Wrappers \ {w} : target'[v] = target[v]
      /\ kind'[o] = kind[target[w]] /\ \A x \in Things \ {o} : kind'[x] = kind[x]
      /\ o \notin Existing /\ kind'[o] # None /\ kind'[o] \notin ObjectKinds
  BY <1>1 DEF Existing, Bind, IsObject
<1>3. /\ UNCHANGED <<self, spoilt, externals, live, weak, buckets, adjusted, reached, reported>>
      /\ Fresh' = Fresh
  BY <1>1, <1>2 DEF Fresh, datas, Bind, identity
<1>4. \A x \in Existing : kind'[x] = kind[x] /\ x \in Existing'
  BY <1>2 DEF Existing
<1>5. TypeOK'
  BY <1>1, <1>2, <1>3 DEF Existing, Bind
<1>6. HandlesOK'
  <2>1. w \notin weak /\ w \notin Fresh /\ o \in Existing'
    BY <1>2 DEF HandlesOK, Fresh, Existing
  <2>2. ASSUME NEW v \in live' \union weak', target'[v] # None PROVE target'[v] \in Existing'
    <3>1. CASE v = w
      BY <3>1, <2>1, <1>2
    <3>2. CASE v # w
      BY <3>2, <2>2, <1>2, <1>3, <1>4 DEF HandlesOK
    <3> QED
      BY <3>1, <3>2
  <2>3. \A v \in Fresh' : target'[v] = None /\ buckets'[v] = 0 /\ adjusted'[v] = 0
    BY <2>1, <1>2, <1>3 DEF HandlesOK, Fresh
  <2> QED
    BY <2>2, <2>3, <1>3, <1>4 DEF HandlesOK
<1>7. ObjectsOnly'
  <2>1. \A x \in Things : IsObject(x) => x \in Existing
    BY KindFacts DEF IsObject, Existing
  <2> QED
    BY <2>1, <1>3, <1>4 DEF ObjectsOnly, IsObject
<1>8. \A x \in Things \ spoilt : self[x] # w
  BY <1>1, NoneAssumption DEF SelfFaithful, ObjectsOnly
<1>9. SelfFaithful'
  <2>1. ASSUME NEW x \in Things \ spoilt', self'[x] # None
        PROVE  self'[x] \in live' /\ target'[self'[x]] = x
    BY <2>1, <1>2, <1>3, <1>8 DEF SelfFaithful
  <2>2. ASSUME NEW v \in live', target'[v] \in Things \ spoilt', kind'[target'[v]] \in ObjectKinds
        PROVE  self'[target'[v]] = v
    <3>1. v # w
      BY <2>2, <1>2
    <3>2. v \in live /\ target'[v] = target[v] /\ target[v] \in Existing
      BY <3>1, <2>2, <1>2, <1>3, KindFacts DEF HandlesOK
    <3> QED
      BY <3>2, <2>2, <1>3, <1>4 DEF SelfFaithful, IsObject
  <2> QED
    BY <2>1, <2>2 DEF SelfFaithful, IsObject
<1>10. CallbacksCallable'
  <2>1. \A e \in externals : e[2] # w
    BY <1>1 DEF CallbacksCallable, ObjectsOnly
  <2> QED
    BY <2>1, <1>2, <1>3 DEF CallbacksCallable
<1>11. ReportBalanced'
  BY <1>3 DEF ReportBalanced, TotalSize
<1> QED
  BY <1>5, <1>6, <1>7, <1>9, <1>10, <1>11

LEMMA SetAccessorInv ==
    ASSUME IInv, NEW w \in Wrappers, NEW set \in BOOLEAN, SetAccessor(w, set)
    PROVE  IInv'
<1> USE DEF IInv, TypeOK, SetAccessor
<1>1. /\ UNCHANGED <<up, live, weak, target, adjusted, kind, reached, self, spoilt, reported>>
      /\ Fresh' = Fresh /\ Existing' = Existing
  BY DEF wrapping, identity, Fresh, Existing
<1>2. /\ w \in live /\ w \notin weak /\ w \notin Fresh
      /\ target[w] \in Things /\ IsObject(target[w])
  BY DEF HandlesOK, Fresh, Existing
<1>3. buckets'[w] = buckets[w] + 1 /\ buckets'[w] \in 0..MaxBuckets /\ buckets'[w] > 0
  BY BoundsAssumption
<1>4. \A v \in Wrappers \ {w} : buckets'[v] = buckets[v]
  OBVIOUS
<1>5. TypeOK'
  BY <1>1, <1>2, <1>3
<1>6. HandlesOK'
  BY <1>1, <1>2, <1>4 DEF HandlesOK
<1>7. ObjectsOnly'
  BY <1>1, <1>2 DEF ObjectsOnly, IsObject
<1>8. SelfFaithful'
  BY <1>1 DEF SelfFaithful, IsObject
<1>9. CallbacksCallable'
  <2> SUFFICES ASSUME NEW e \in externals'
               PROVE  e[2] \in live' \union weak' /\ target'[e[2]] = e[1] /\ buckets'[e[2]] > 0
    BY DEF CallbacksCallable
  <2>1. CASE e \in externals
    BY <2>1, <1>1, <1>3, <1>4 DEF CallbacksCallable
  <2>2. CASE e = <<target[w], w>>
    BY <2>2, <1>1, <1>2, <1>3
  <2> QED
    BY <2>1, <2>2
<1>10. ReportBalanced'
  BY <1>1, <1>2, <1>4 DEF ReportBalanced, TotalSize
<1> QED
  BY <1>5, <1>6, <1>7, <1>8, <1>9, <1>10

LEMMA AdjustInv ==
    ASSUME IInv, NEW w \in Wrappers, NEW change \in {-1, 1}, Adjust(w, change)
    PROVE  IInv'
<1> USE DEF IInv, TypeOK, Adjust
<1>1. /\ UNCHANGED <<up, live, weak, target, buckets, kind, reached, self, spoilt, terminating, externals, reported>>
      /\ Fresh' = Fresh /\ Existing' = Existing
  BY DEF wrapping, heap, identity, Fresh, Existing
<1>2. w \notin weak /\ w \notin Fresh
  BY DEF HandlesOK, Fresh
<1>3. adjusted'[w] \in 0..MaxAdjusted /\ \A v \in Wrappers \ {w} : adjusted'[v] = adjusted[v]
  BY BoundsAssumption
<1>4. TypeOK'
  BY <1>1, <1>3
<1>5. HandlesOK'
  BY <1>1, <1>2, <1>3 DEF HandlesOK
<1>6. ObjectsOnly' /\ SelfFaithful' /\ CallbacksCallable'
  BY <1>1 DEF ObjectsOnly, IsObject, SelfFaithful, CallbacksCallable
<1>7. ReportBalanced'
  BY <1>1, <1>2, <1>3 DEF ReportBalanced, TotalSize
<1> QED
  BY <1>4, <1>5, <1>6, <1>7

LEMMA ReachInv ==
    ASSUME IInv, NEW w \in Wrappers, Reach(w)
    PROVE  IInv'
<1> USE DEF IInv, TypeOK, Reach
<1>1. /\ UNCHANGED <<up, live, weak, target, buckets, adjusted, kind, self, spoilt, externals, reported>>
      /\ Fresh' = Fresh /\ Existing' = Existing
  BY DEF wrapping, datas, identity, Fresh, Existing
<1>2. target[w] \in Existing /\ target[w] \in Things
  BY DEF HandlesOK, Existing
<1>3. TypeOK' /\ HandlesOK'
  BY <1>1, <1>2 DEF HandlesOK
<1>4. ObjectsOnly' /\ SelfFaithful' /\ CallbacksCallable' /\ ReportBalanced'
  BY <1>1 DEF ObjectsOnly, IsObject, SelfFaithful, CallbacksCallable, ReportBalanced, TotalSize
<1> QED
  BY <1>3, <1>4

LEMMA FreeInv ==
    ASSUME IInv, NEW w \in Wrappers, Free(w)
    PROVE  IInv'
<1> USE DEF IInv, TypeOK
<1>1. /\ UNCHANGED <<up, kind, reached, terminating, externals>> /\ live' = live \ {w} /\ w \in live
      /\ ReleaseHandle(w) /\ Existing' = Existing
  BY DEF Free, Existing
<1>2. /\ w \notin weak /\ w \notin Fresh /\ reported[w] = 0
      /\ target[w] # None => target[w] \in Existing /\ target[w] \in Things
  BY <1>1 DEF HandlesOK, Fresh, Existing, ReportBalanced
<1>3. /\ self' \in [Things -> Wrappers \union {None}]
      /\ spoilt \subseteq spoilt' /\ spoilt' \subseteq Things
      /\ \A x \in Things : self'[x] # None => self'[x] = self[x]
      /\ \A x \in Things \ spoilt' : self[x] = w => self'[x] = None
      /\ \A x \in Things : x # target[w] => self'[x] = self[x]
  <2>1. CASE target[w] # None /\ IsObject(target[w])
    <3>1. /\ DeleteSelf(target[w]) /\ target[w] \in Things
          /\ \A x \in Things \ spoilt : self[x] = w => x = target[w]
      BY <1>2, <2>1, NoneAssumption DEF Free, SelfFaithful
    <3> QED
      BY <3>1 DEF DeleteSelf
  <2>2. CASE ~(target[w] # None /\ IsObject(target[w]))
    <3>1. self' = self /\ spoilt' = spoilt
      BY <2>2 DEF Free, identity
    <3>2. \A x \in Things \ spoilt : self[x] # w
      BY <2>2, <1>1, NoneAssumption, KindFacts DEF SelfFaithful, ObjectsOnly
    <3> QED
      BY <3>1, <3>2
  <2> QED
    BY <2>1, <2>2
<1>4. \A v \in Wrappers \ {w} : /\ target'[v] = target[v] /\ buckets'[v] = buckets[v]
                                /\ adjusted'[v] = adjusted[v] /\ reported'[v] = reported[v]
  BY <1>1 DEF ReleaseHandle, datas
<1>5. \/ /\ buckets[w] > 0 /\ weak' = weak \union {w}
         /\ reported'[w] = TotalSize(w)
         /\ UNCHANGED <<target, buckets, adjusted>>
      \/ /\ buckets[w] = 0 /\ weak' = weak
         /\ target'[w] = None /\ adjusted'[w] = 0
         /\ UNCHANGED <<buckets, reported>>
  <2>1. CASE buckets[w] > 0
    <3>1. reported' = [reported EXCEPT ![w] = @ + TotalSize(w)]
      BY <1>1, <2>1 DEF ReleaseHandle
    <3>2. reported'[w] = reported[w] + TotalSize(w)
      BY <3>1
    <3>3. TotalSize(w) \in Int
      BY BoundsAssumption DEF TotalSize
    <3>4. reported'[w] = TotalSize(w)
      BY <1>2, <3>2, <3>3
    <3> QED
      BY <1>1, <2>1, <3>4 DEF ReleaseHandle, datas
  <2>2. CASE ~(buckets[w] > 0)
    BY <1>1, <2>2, BoundsAssumption DEF ReleaseHandle
  <2> QED
    BY <2>1, <2>2
<1>6. TypeOK'
  <2>2. reported' \in [Wrappers -> Int]
    <3>1. TotalSize(w) \in Int
      BY BoundsAssumption DEF TotalSize
    <3> QED
      BY <1>1, <3>1 DEF ReleaseHandle
  <2>3. target' \in [Wrappers -> Things \union {None}] /\ buckets' \in [Wrappers -> 0..MaxBuckets]
        /\ adjusted' \in [Wrappers -> 0..MaxAdjusted] /\ weak' \subseteq Wrappers
    BY <1>1, BoundsAssumption DEF ReleaseHandle, datas
  <2> QED
    BY <2>2, <2>3, <1>1, <1>3
<1>7. HandlesOK'
  <2>1. live' \intersect weak' = {}
    BY <1>1, <1>5 DEF HandlesOK
  <2>2. \A v \in live' \union weak' : target'[v] # None => target'[v] \in Existing'
    BY <1>1, <1>2, <1>4, <1>5 DEF HandlesOK
  <2>3. \A v \in weak' : buckets'[v] > 0
    BY <1>1, <1>4, <1>5 DEF HandlesOK
  <2>4. \A v \in Fresh' : target'[v] = None /\ buckets'[v] = 0 /\ adjusted'[v] = 0
    <3> SUFFICES ASSUME NEW v \in Fresh'
                 PROVE  target'[v] = None /\ buckets'[v] = 0 /\ adjusted'[v] = 0
      OBVIOUS
    <3>1. CASE v = w
      BY <3>1, <1>1, <1>5 DEF Fresh
    <3>2. CASE v # w
      <4>1. v \in Fresh /\ v \in Wrappers \ {w}
        BY <3>2, <1>1, <1>5 DEF Fresh
      <4> QED
        BY <4>1, <1>4 DEF HandlesOK
    <3> QED
      BY <3>1, <3>2
  <2> QED
    BY <2>1, <2>2, <2>3, <2>4, <1>1 DEF HandlesOK
<1>8. ObjectsOnly'
  BY <1>1, <1>3 DEF ObjectsOnly, IsObject
<1>9. SelfFaithful'
  <2>1. ASSUME NEW x \in Things \ spoilt', self'[x] # None
        PROVE  self'[x] \in live' /\ target'[self'[x]] = x
    <3>1. self'[x] = self[x] /\ x \in Things \ spoilt /\ self[x] # w
      BY <2>1, <1>3
    <3> QED
      BY <3>1, <2>1, <1>1, <1>4 DEF SelfFaithful
  <2>2. ASSUME NEW v \in live', target'[v] \in Things \ spoilt', kind'[target'[v]] \in ObjectKinds
        PROVE  self'[target'[v]] = v
    <3>1. v \in live /\ v # w /\ target'[v] = target[v] /\ target[v] \in Things \ spoilt
          /\ IsObject(target[v])
      BY <2>2, <1>1, <1>3, <1>4 DEF IsObject
    <3>2. self[target[v]] = v /\ (target[v] = target[w] => self[target[w]] = w)
      BY <3>1, <1>1 DEF SelfFaithful
    <3> QED
      BY <3>1, <3>2, <1>3
  <2> QED
    BY <2>1, <2>2 DEF SelfFaithful, IsObject
<1>10. CallbacksCallable'
  BY <1>1, <1>4, <1>5 DEF CallbacksCallable
<1>11. ReportBalanced'
  <2> SUFFICES ASSUME NEW v \in Wrappers
               PROVE  reported'[v] = IF v \in weak' THEN TotalSize(v)' ELSE 0
    BY DEF ReportBalanced
  <2>1. CASE v = w
    BY <2>1, <1>2, <1>5 DEF TotalSize
  <2>2. CASE v # w
    BY <2>2, <1>4, <1>5 DEF ReportBalanced, TotalSize
  <2> QED
    BY <2>1, <2>2
<1> QED
  BY <1>6, <1>7, <1>8, <1>9, <1>10, <1>11

LEMMA DisposeInv ==
    ASSUME IInv, Dispose
    PROVE  IInv'
<1> USE DEF IInv, TypeOK, Dispose
<1>1. TypeOK'
  <2>1. /\ buckets' \in [Wrappers -> 0..MaxBuckets] /\ adjusted' \in [Wrappers -> 0..MaxAdjusted]
        /\ reported' \in [Wrappers -> Int]
    BY BoundsAssumption
  <2>2. /\ target' \in [Wrappers -> Things \union {None}] /\ kind' \in [Things -> Kinds \union {None}]
        /\ self' \in [Things -> Wrappers \union {None}] /\ live' \subseteq Wrappers
    OBVIOUS
  <2> QED
    BY <2>1, <2>2
<1>2. HandlesOK'
  BY DEF HandlesOK, Fresh, Existing
<1>3. ObjectsOnly' /\ SelfFaithful' /\ CallbacksCallable'
  BY DEF ObjectsOnly, SelfFaithful, CallbacksCallable
<1>4. ReportBalanced'
  BY DEF ReportBalanced
<1> QED
  BY <1>1, <1>2, <1>3, <1>4

-----------------------------------------------------------------------------
(* V8's steps                                                              *)

LEMMA CreateInv ==
    ASSUME IInv, NEW o \in Things, NEW k \in Kinds, Create(o, k)
    PROVE  IInv'
<1> USE DEF IInv, TypeOK, Create
<1>1. /\ UNCHANGED <<up, live, weak, target, buckets, adjusted, self, spoilt, externals, reported>>
      /\ Fresh' = Fresh
  BY DEF wrapping, datas, identity, Fresh
<1>2. \A x \in Existing : kind'[x] = kind[x] /\ x \in Existing'
  BY DEF Existing
<1>3. /\ o \in Existing' /\ o \notin Existing
      /\ \A x \in Things : IsObject(x) => x \in Existing
  BY KindFacts DEF Existing, IsObject
<1>4. TypeOK'
  BY <1>1
<1>5. HandlesOK'
  BY <1>1, <1>2, <1>3 DEF HandlesOK
<1>6. ObjectsOnly'
  BY <1>1, <1>2, <1>3 DEF ObjectsOnly, IsObject
<1>7. SelfFaithful'
  <2>1. ASSUME NEW v \in live', target'[v] \in Things \ spoilt', kind'[target'[v]] \in ObjectKinds
        PROVE  self'[target'[v]] = v
    <3>1. target[v] \in Existing
      BY <2>1, <1>1, KindFacts DEF HandlesOK
    <3> QED
      BY <3>1, <2>1, <1>1, <1>2 DEF SelfFaithful, IsObject
  <2> QED
    BY <2>1, <1>1 DEF SelfFaithful, IsObject
<1>8. CallbacksCallable' /\ ReportBalanced'
  BY <1>1 DEF CallbacksCallable, ReportBalanced, TotalSize
<1> QED
  BY <1>4, <1>5, <1>6, <1>7, <1>8

LEMMA ForgetInv ==
    ASSUME IInv, NEW o \in Things, Forget(o)
    PROVE  IInv'
<1> USE DEF IInv, TypeOK, Forget
<1>1. /\ UNCHANGED <<up, live, weak, target, buckets, adjusted, kind, self, spoilt, externals, reported>>
      /\ Fresh' = Fresh /\ Existing' = Existing
  BY DEF wrapping, datas, identity, Fresh, Existing
<1>2. TypeOK' /\ HandlesOK'
  BY <1>1 DEF HandlesOK
<1>3. ObjectsOnly' /\ SelfFaithful' /\ CallbacksCallable' /\ ReportBalanced'
  BY <1>1 DEF ObjectsOnly, IsObject, SelfFaithful, CallbacksCallable, ReportBalanced, TotalSize
<1> QED
  BY <1>2, <1>3

LEMMA CollectInv ==
    ASSUME IInv, NEW dead \in SUBSET Things, Collect(dead)
    PROVE  IInv'
<1> USE DEF IInv, TypeOK
<1>1. PICK gone : gone = {w \in weak : target[w] \in dead}
  OBVIOUS
<1>2. /\ UNCHANGED <<up, live, reached, terminating>> /\ spoilt' = spoilt \ dead
      /\ dead \intersect (reached \union {target[w] : w \in live}) = {}
      /\ kind' = [o \in Things |-> IF o \in dead THEN None ELSE kind[o]]
      /\ self' = [o \in Things |-> IF o \in dead THEN None ELSE self[o]]
      /\ externals' = {e \in externals : e[1] \notin dead}
      /\ WeakCallbacks(gone)
  BY <1>1 DEF Collect
<1>3. /\ weak' = weak \ gone
      /\ reported' = [w \in Wrappers |-> IF w \in gone THEN reported[w] - TotalSize(w) ELSE reported[w]]
      /\ target' = [w \in Wrappers |-> IF w \in gone THEN None ELSE target[w]]
      /\ buckets' = [w \in Wrappers |-> IF w \in gone THEN 0 ELSE buckets[w]]
      /\ adjusted' = [w \in Wrappers |-> IF w \in gone THEN 0 ELSE adjusted[w]]
  BY <1>2 DEF WeakCallbacks
<1>4. \A w \in live : w \notin gone /\ target'[w] = target[w] /\ target[w] \notin dead
  <2> SUFFICES ASSUME NEW w \in live
               PROVE  w \notin gone /\ target'[w] = target[w] /\ target[w] \notin dead
    OBVIOUS
  <2>1. w \notin gone /\ target[w] \notin dead /\ w \in Wrappers
    BY <1>1, <1>2 DEF HandlesOK
  <2> QED
    BY <2>1, <1>3
<1>5. \A x \in Existing \ dead : x \in Existing' /\ kind'[x] = kind[x]
  BY <1>2 DEF Existing
<1>6. TypeOK'
  <2>1. \A w \in Wrappers : reported[w] - TotalSize(w) \in Int
    BY BoundsAssumption DEF TotalSize
  <2>2. reported' \in [Wrappers -> Int]
    BY <2>1, <1>3
  <2>3. buckets' \in [Wrappers -> 0..MaxBuckets] /\ adjusted' \in [Wrappers -> 0..MaxAdjusted]
    BY <1>3, BoundsAssumption
  <2> QED
    BY <2>2, <2>3, <1>2, <1>3
<1>7. HandlesOK'
  <2>1. live' \intersect weak' = {}
    BY <1>2, <1>3 DEF HandlesOK
  <2>2. \A v \in live' \union weak' : target'[v] # None => target'[v] \in Existing'
    <3>1. ASSUME NEW v \in weak, v \notin gone PROVE target[v] \notin dead
      BY <3>1, <1>1
    <3> QED
      BY <3>1, <1>1, <1>2, <1>3, <1>4, <1>5 DEF HandlesOK
  <2>3. \A v \in weak' : buckets'[v] > 0
    BY <1>3 DEF HandlesOK
  <2>4. \A v \in Fresh' : target'[v] = None /\ buckets'[v] = 0 /\ adjusted'[v] = 0
    BY <1>1, <1>2, <1>3 DEF HandlesOK, Fresh
  <2>5. reached' \subseteq Existing'
    BY <1>2, <1>5 DEF HandlesOK
  <2> QED
    BY <2>1, <2>2, <2>3, <2>4, <2>5 DEF HandlesOK
<1>8. ObjectsOnly'
  <2>1. \A x \in Things : x \notin dead => kind'[x] = kind[x]
    BY <1>2
  <2> QED
    BY <2>1, <1>2 DEF ObjectsOnly, IsObject
<1>9. SelfFaithful'
  <2>1. ASSUME NEW x \in Things \ spoilt', self'[x] # None
        PROVE  self'[x] \in live' /\ target'[self'[x]] = x
    <3>1. self'[x] = self[x] /\ x \in Things \ spoilt
      BY <2>1, <1>2
    <3> QED
      BY <3>1, <2>1, <1>2, <1>4 DEF SelfFaithful
  <2>2. ASSUME NEW v \in live', target'[v] \in Things \ spoilt', kind'[target'[v]] \in ObjectKinds
        PROVE  self'[target'[v]] = v
    <3>1. v \in live /\ target'[v] = target[v] /\ target[v] \notin dead
          /\ target[v] \in Things \ spoilt
      BY <2>2, <1>2, <1>4
    <3>2. IsObject(target[v])
      BY <3>1, <2>2, <1>2 DEF IsObject
    <3> QED
      BY <3>1, <3>2, <1>2 DEF SelfFaithful
  <2> QED
    BY <2>1, <2>2 DEF SelfFaithful, IsObject
<1>10. CallbacksCallable'
  BY <1>1, <1>2, <1>3, <1>4 DEF CallbacksCallable
<1>11. ReportBalanced'
  <2> SUFFICES ASSUME NEW v \in Wrappers
               PROVE  reported'[v] = IF v \in weak' THEN TotalSize(v)' ELSE 0
    BY DEF ReportBalanced
  <2>1. CASE v \in gone
    <3>1. v \in weak /\ v \notin weak' /\ TotalSize(v) \in Int /\ reported[v] = TotalSize(v)
      BY <2>1, <1>1, <1>3, BoundsAssumption DEF ReportBalanced, TotalSize
    <3> QED
      BY <2>1, <3>1, <1>3
  <2>2. CASE v \notin gone
    <3>1. reported'[v] = reported[v] /\ (v \in weak' <=> v \in weak) /\ TotalSize(v)' = TotalSize(v)
      BY <2>2, <1>3 DEF TotalSize
    <3> QED
      BY <3>1 DEF ReportBalanced
  <2> QED
    BY <2>1, <2>2
<1> QED
  BY <1>6, <1>7, <1>8, <1>9, <1>10, <1>11

LEMMA TerminationInv ==
    ASSUME IInv, Terminate \/ Terminated
    PROVE  IInv'
<1>1. UNCHANGED <<up, wrapping, datas, kind, reached, identity, externals, reported>>
      /\ terminating' \in BOOLEAN
  BY DEF Terminate, Terminated
<1> QED
  BY <1>1 DEF wrapping, datas, identity, IInv, TypeOK, HandlesOK, Fresh, Existing, ObjectsOnly,
     IsObject, SelfFaithful, CallbacksCallable, ReportBalanced, TotalSize

-----------------------------------------------------------------------------
(* Theorems                                                                *)

\* A program that gives no object a second constructor call keeps the invariant.
THEOREM WrapperInvariance == (Behaviours = {}) => (Spec => []IInv)
<1> SUFFICES ASSUME Behaviours = {} PROVE Spec => []IInv
  OBVIOUS
<1>1. IInv /\ [Next]_vars => IInv'
  <2> SUFFICES ASSUME IInv, [Next]_vars PROVE IInv'
    OBVIOUS
  <2>1. CASE PhpStep
    BY <2>1, ConstructInv, ConstructFailedInv, GetOrCreateInv, ConstructAgainInv, SetAccessorInv,
       ReachInv, FreeInv, AdjustInv, DisposeInv DEF PhpStep
  <2>2. CASE V8Step
    BY <2>2, CreateInv, ForgetInv, CollectInv, TerminationInv DEF V8Step
  <2>3. CASE UNCHANGED vars
    BY <2>3 DEF vars, wrapping, datas, heap, identity, IInv, TypeOK, HandlesOK, Fresh, Existing, ObjectsOnly,
       IsObject, SelfFaithful, CallbacksCallable, ReportBalanced, TotalSize
  <2> QED
    BY <2>1, <2>2, <2>3 DEF Next
<1> QED
  BY <1>1, InitInv, PTL DEF Spec

\* The variables keep their types; the hint never becomes negative.
THEOREM WrapperTypes == (Behaviours = {}) => (Spec => []TypeOK)
<1>1. IInv => TypeOK
  BY DEF IInv
<1> QED
  BY <1>1, WrapperInvariance, PTL

\* One object, one wrapper: the address an object has is never that of a freed
\* wrapper or of another object's, but for objects of which a termination made
\* a private property call fail; whatever comes of those, the others keep theirs.
THEOREM SelfAlwaysFaithful == (Behaviours = {}) => (Spec => []SelfFaithful)
<1>1. IInv => SelfFaithful
  BY DEF IInv
<1> QED
  BY <1>1, WrapperInvariance, PTL

\* No accessor or function of V8's refers to deleted callables.
THEOREM CallbacksStayCallable == (Behaviours = {}) => (Spec => []CallbacksCallable)
<1>1. IInv => CallbacksCallable
  BY DEF IInv
<1> QED
  BY <1>1, WrapperInvariance, PTL

\* What V8 is told about the memory of a freed wrapper is taken back exactly.
THEOREM ReportsStayBalanced == (Behaviours = {}) => (Spec => []ReportBalanced)
<1>1. IInv => ReportBalanced
  BY DEF IInv
<1> QED
  BY <1>1, WrapperInvariance, PTL
=============================================================================
