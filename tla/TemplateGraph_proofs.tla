------------------------ MODULE TemplateGraph_proofs ------------------------
(***************************************************************************)
(* Proofs about TemplateGraph for every set of wrappers and templates: the *)
(* recursion check of set() ends and is right, as far as it can be.        *)
(***************************************************************************)
EXTENDS TemplateGraph, TLAPS

-----------------------------------------------------------------------------
(* Closure.                                                                *)

\* Every member's successors are inside, and so are those of the start.
LEMMA ClosureClosed ==
    ASSUME NEW N, NEW succ \in [N -> SUBSET N], NEW x \in N
    PROVE  /\ succ[x] \subseteq Closure(succ, x)
           /\ Closure(succ, x) \subseteq N
           /\ \A z \in Closure(succ, x) : succ[z] \subseteq Closure(succ, x)
  BY DEF Closure

\* It is the least such set.
LEMMA ClosureLeast ==
    ASSUME NEW N, NEW succ \in [N -> SUBSET N], NEW x \in N,
           NEW S \in SUBSET N, succ[x] \subseteq S,
           \A z \in S : succ[z] \subseteq S
    PROVE  Closure(succ, x) \subseteq S
  BY DEF Closure

\* What can be reached from a successor, or from what can be reached, can be
\* reached.
LEMMA ClosureTrans ==
    ASSUME NEW N, NEW succ \in [N -> SUBSET N], NEW x \in N,
           NEW y \in N, y \in succ[x] \/ y \in Closure(succ, x)
    PROVE  Closure(succ, y) \subseteq Closure(succ, x)
<1>1. Closure(succ, x) \in SUBSET N /\ succ[x] \subseteq Closure(succ, x)
      /\ \A z \in Closure(succ, x) : succ[z] \subseteq Closure(succ, x)
  BY ClosureClosed
<1>2. succ[y] \subseteq Closure(succ, x)
  BY <1>1
<1>3. QED
  BY <1>1, <1>2, ClosureLeast

\* Fewer successors reach less.
LEMMA ClosureMonotone ==
    ASSUME NEW N, NEW succ \in [N -> SUBSET N], NEW less \in [N -> SUBSET N],
           \A z \in N : less[z] \subseteq succ[z], NEW x \in N
    PROVE  Closure(less, x) \subseteq Closure(succ, x)
<1>1. Closure(succ, x) \in SUBSET N /\ succ[x] \subseteq Closure(succ, x)
      /\ \A z \in Closure(succ, x) : succ[z] \subseteq Closure(succ, x)
  BY ClosureClosed
<1>2. less[x] \subseteq Closure(succ, x)
      /\ \A z \in Closure(succ, x) : less[z] \subseteq Closure(succ, x)
  BY <1>1
<1>3. QED
  BY <1>1, <1>2, ClosureLeast

Acyclic(N, succ) == \A z \in N : z \notin Closure(succ, z)

\* `more` is `succ` with one successor added.
WithEdge(N, succ, more, c, p) ==
    more[c] = succ[c] \cup {p} /\ \A x \in N \ {c} : more[x] = succ[x]

\* The check of php_v8_template_node_set is enough: an edge to p from a node
\* that p does not reach closes no cycle.
LEMMA EdgeKeepsAcyclic ==
    ASSUME NEW N, NEW succ \in [N -> SUBSET N], Acyclic(N, succ),
           NEW p \in N, NEW c \in N, p # c, c \notin Closure(succ, p),
           NEW more \in [N -> SUBSET N], WithEdge(N, succ, more, c, p)
    PROVE  Acyclic(N, more)
<1> USE DEF Acyclic, WithEdge
<1> SUFFICES ASSUME NEW n \in N PROVE n \notin Closure(more, n)
  OBVIOUS
<1>a. \A x \in N : /\ Closure(succ, x) \in SUBSET N
                   /\ succ[x] \subseteq Closure(succ, x)
                   /\ \A z \in Closure(succ, x) : succ[z] \subseteq Closure(succ, x)
  BY ClosureClosed
<1>1. CASE c \in Closure(succ, n) \/ c = n
  <2>0. PICK S \in SUBSET N : S = Closure(succ, n) \cup {p} \cup Closure(succ, p)
    BY <1>a
  <2>1. S \in SUBSET N /\ more[n] \subseteq S /\ \A z \in S : more[z] \subseteq S
    BY <1>1, <1>a, <2>0
  <2>2. Closure(more, n) \subseteq S
    BY <2>1, ClosureLeast
  <2>3. n # p
    BY <1>1
  <2>4. n \notin Closure(succ, p)
    <3>1. SUFFICES ASSUME n \in Closure(succ, p) PROVE FALSE
      OBVIOUS
    <3>2. Closure(succ, n) \subseteq Closure(succ, p)
      BY <3>1, ClosureTrans
    <3>3. QED
      BY <1>1, <3>1, <3>2
  <2>5. n \notin S
    BY <1>a, <2>0, <2>3, <2>4
  <2>6. QED
    BY <2>2, <2>5
<1>2. CASE ~(c \in Closure(succ, n) \/ c = n)
  <2>1. more[n] \subseteq Closure(succ, n)
        /\ \A z \in Closure(succ, n) : more[z] \subseteq Closure(succ, n)
    BY <1>2, <1>a
  <2>2. Closure(more, n) \subseteq Closure(succ, n)
    BY <1>a, <2>1, ClosureLeast
  <2>3. QED
    BY <2>2
<1>3. QED
  BY <1>1, <1>2

-----------------------------------------------------------------------------
(* The inductive invariant.                                                *)

\* A wrapper has its handle either from PHP or from the weak collections, and
\* V8 keeps the template.
HandlesExist ==
    /\ live \cap weak = {}
    /\ \A w \in live \cup weak : handle[w] \in exists

\* Both ends of a nesting exist.
NestedExist == \A e \in nested : e[1] \in exists /\ e[2] \in exists

\* Linked nodes stand for nested templates.
NodesNested ==
    \A p \in Wrappers : \A c \in children[p] : <<handle[p], handle[c]>> \in nested

GraphInv == /\ NodesLinked /\ SearchTerminates /\ NodesNested
            /\ HandlesExist /\ NestedExist
DataInv  == CallbacksOwned /\ ReportBalanced
IInv     == TypeOK /\ GraphInv /\ DataInv

LEMMA InitInv == Init => IInv
<1> SUFFICES ASSUME Init PROVE IInv
  OBVIOUS
<1> USE TemplatesAssumption, BoundsAssumption DEF Init
<1>1. TypeOK
  BY DEF TypeOK
<1>2. NodesLinked /\ NodesNested /\ HandlesExist /\ NestedExist
  BY DEF NodesLinked, NodesNested, HandlesExist, NestedExist
<1>3. SearchTerminates
  <2> SUFFICES ASSUME NEW w \in Wrappers PROVE w \notin Closure(parents, w)
    BY DEF SearchTerminates, IsParent
  <2>1. parents \in [Wrappers -> SUBSET Wrappers]
        /\ parents[w] \subseteq {} /\ \A z \in {} : parents[z] \subseteq {}
    OBVIOUS
  <2>2. Closure(parents, w) \subseteq {}
    BY <2>1, ClosureLeast
  <2>3. QED
    BY <2>2
<1>4. CallbacksOwned /\ ReportBalanced
  BY DEF CallbacksOwned, ReportBalanced
<1>5. QED
  BY <1>1, <1>2, <1>3, <1>4 DEF IInv, GraphInv, DataInv

\* Actions that touch neither nodes nor the nesting of existing templates:
\* new wrappers, callbacks, hints and instances.
LEMMA ConstructKeeps ==
    ASSUME IInv, NEW w \in Wrappers, NEW t \in Templates, NEW n \in {0, 1},
           Construct(w, t, n)
    PROVE  IInv'
<1> USE TemplatesAssumption, BoundsAssumption
        DEF IInv, GraphInv, DataInv, Construct, nodes
<1>1. TypeOK'
  BY DEF TypeOK
<1>2. NodesLinked' /\ SearchTerminates'
  BY DEF TypeOK, NodesLinked, SearchTerminates, IsParent
<1>3. NodesNested'
  BY DEF TypeOK, NodesLinked, NodesNested
<1>4. HandlesExist' /\ NestedExist'
  BY DEF TypeOK, HandlesExist, NestedExist
<1>5. CallbacksOwned'
  BY DEF TypeOK, CallbacksOwned
<1>6. ReportBalanced'
  BY DEF TypeOK, ReportBalanced, TotalSize
<1>7. QED
  BY <1>1, <1>2, <1>3, <1>4, <1>5, <1>6

LEMMA InnerTemplateKeeps ==
    ASSUME IInv, NEW w \in Wrappers, NEW i \in Wrappers, NEW t \in Templates,
           InnerTemplate(w, i, t)
    PROVE  IInv'
<1> USE TemplatesAssumption DEF IInv, GraphInv, DataInv, InnerTemplate, nodes, datas
<1>1. TypeOK'
  BY DEF TypeOK
<1>2. NodesLinked' /\ SearchTerminates'
  BY DEF TypeOK, NodesLinked, SearchTerminates, IsParent
<1>3. NodesNested'
  BY DEF TypeOK, NodesLinked, NodesNested
<1>4. HandlesExist' /\ NestedExist'
  BY DEF TypeOK, HandlesExist, NestedExist
<1>5. CallbacksOwned'
  BY DEF TypeOK, CallbacksOwned
<1>6. ReportBalanced'
  BY DEF TypeOK, ReportBalanced, TotalSize
<1>7. QED
  BY <1>1, <1>2, <1>3, <1>4, <1>5, <1>6

LEMMA AddCallbackKeeps ==
    ASSUME IInv, NEW w \in Wrappers, AddCallback(w)
    PROVE  IInv'
<1> USE BoundsAssumption DEF IInv, GraphInv, DataInv, AddCallback, nodes
<1>1. TypeOK'
  <2>1. buckets' \in [Wrappers -> 0..MaxBuckets]
    BY DEF TypeOK
  <2>2. w \in live
    OBVIOUS
  <2>3. handle[w] \in Templates
    BY <2>2, TemplatesAssumption DEF TypeOK, HandlesExist
  <2>4. externals' \subseteq Templates \X Wrappers
    BY <2>3 DEF TypeOK
  <2>5. QED
    BY <2>1, <2>4 DEF TypeOK
<1>2. NodesLinked' /\ SearchTerminates' /\ NodesNested'
  BY DEF NodesLinked, SearchTerminates, IsParent, NodesNested
<1>3. HandlesExist' /\ NestedExist'
  BY DEF HandlesExist, NestedExist
<1>4. CallbacksOwned'
  <2>1. \A v \in Wrappers : /\ buckets[v] > 0 => buckets'[v] > 0
                           /\ buckets'[w] > 0
    BY DEF TypeOK
  <2>2. \A e \in externals' : e \in externals \/ e = <<handle[w], w>>
    OBVIOUS
  <2>3. QED
    BY <2>1, <2>2 DEF TypeOK, CallbacksOwned
<1>5. ReportBalanced'
  BY DEF TypeOK, HandlesExist, ReportBalanced, TotalSize
<1>6. QED
  BY <1>1, <1>2, <1>3, <1>4, <1>5

LEMMA AdjustKeeps ==
    ASSUME IInv, NEW w \in Wrappers, NEW change \in {-1, 1}, Adjust(w, change)
    PROVE  IInv'
<1> USE BoundsAssumption DEF IInv, GraphInv, DataInv, Adjust, nodes, heap
<1>1. TypeOK'
  BY DEF TypeOK
<1>2. NodesLinked' /\ SearchTerminates' /\ NodesNested'
  BY DEF NodesLinked, SearchTerminates, IsParent, NodesNested
<1>3. HandlesExist' /\ NestedExist' /\ CallbacksOwned'
  BY DEF HandlesExist, NestedExist, CallbacksOwned
<1>4. ReportBalanced'
  BY DEF TypeOK, HandlesExist, ReportBalanced, TotalSize
<1>5. QED
  BY <1>1, <1>2, <1>3, <1>4

LEMMA InstancesKeep ==
    ASSUME IInv,
           \/ \E w \in Wrappers : NewInstance(w)
           \/ \E t \in Templates : DropInstance(t)
           \/ UNCHANGED vars
    PROVE  IInv'
<1>1. /\ UNCHANGED <<live, weak, handle, nodes, datas, exists, nested, inner,
                     externals, reported>>
      /\ pinned' \subseteq Templates
  BY DEF IInv, GraphInv, TypeOK, HandlesExist, NewInstance, DropInstance, vars, heap
<1>2. QED
  BY <1>1 DEF IInv, GraphInv, DataInv, TypeOK, NodesLinked, SearchTerminates,
     IsParent, NodesNested, HandlesExist, NestedExist, CallbacksOwned,
     ReportBalanced, TotalSize, nodes, datas

\* Nesting: the search of set() keeps the nodes free of cycles.
LEMMA SetKeeps ==
    ASSUME IInv, NEW p \in Wrappers, NEW c \in Wrappers, Set(p, c)
    PROVE  IInv'
<1>1. CASE p = c \/ IsParent(p, c)
  <2>1. UNCHANGED <<live, weak, handle, parents, children, buckets, adjusted,
                    exists, nested, inner, externals, pinned, reported>>
    BY <1>1 DEF Set, nodes, datas
  <2>2. QED
    BY <2>1 DEF IInv, GraphInv, DataInv, TypeOK, NodesLinked, SearchTerminates,
       IsParent, NodesNested, HandlesExist, NestedExist, CallbacksOwned,
       ReportBalanced, TotalSize
<1>2. CASE ~(p = c \/ IsParent(p, c))
  <2>0. /\ p \in live /\ c \in live
        /\ children' = [children EXCEPT ![p] = @ \cup {c}]
        /\ parents' = [parents EXCEPT ![c] = @ \cup {p}]
        /\ nested' = nested \cup {<<handle[p], handle[c]>>}
        /\ UNCHANGED <<live, weak, handle, buckets, adjusted, exists, inner,
                       externals, pinned, reported>>
    BY <1>2 DEF Set, datas
  <2> USE DEF IInv, GraphInv, DataInv
  <2>1. handle[p] \in exists /\ handle[c] \in exists
    BY <2>0 DEF HandlesExist
  <2>2. TypeOK'
    <3>1. /\ parents' \in [Wrappers -> SUBSET Wrappers]
          /\ children' \in [Wrappers -> SUBSET Wrappers]
      BY <2>0 DEF TypeOK
    <3>2. nested' \subseteq Templates \X Templates
      BY <2>0, <2>1 DEF TypeOK
    <3>3. QED
      BY <2>0, <3>1, <3>2 DEF TypeOK
  <2>3. NodesLinked'
    BY <2>0 DEF TypeOK, NodesLinked
  <2>4. SearchTerminates'
    <3>1. /\ parents \in [Wrappers -> SUBSET Wrappers]
          /\ parents' \in [Wrappers -> SUBSET Wrappers]
      BY <2>2 DEF TypeOK
    <3>2. WithEdge(Wrappers, parents, parents', c, p)
      BY <2>0 DEF TypeOK, WithEdge
    <3>3. Acyclic(Wrappers, parents) /\ p # c /\ c \notin Closure(parents, p)
      BY <1>2 DEF SearchTerminates, IsParent, Acyclic
    <3>4. Acyclic(Wrappers, parents')
      BY <3>1, <3>2, <3>3, EdgeKeepsAcyclic
    <3>5. QED
      BY <3>4 DEF SearchTerminates, IsParent, Acyclic
  <2>5. NodesNested'
    BY <2>0 DEF TypeOK, NodesNested
  <2>6. HandlesExist' /\ NestedExist'
    BY <2>0, <2>1 DEF HandlesExist, NestedExist
  <2>7. CallbacksOwned' /\ ReportBalanced'
    BY <2>0 DEF CallbacksOwned, ReportBalanced, TotalSize
  <2>8. QED
    BY <2>2, <2>3, <2>4, <2>5, <2>6, <2>7
<1>3. QED
  BY <1>1, <1>2

\* Freeing a wrapper: only links go, and a wrapper with callbacks stays weak.
LEMMA FreeKeeps ==
    ASSUME IInv, NEW w \in Wrappers, Free(w)
    PROVE  IInv'
<1> USE DEF IInv, GraphInv, DataInv
<1>0. /\ w \in live /\ w \notin weak /\ live' = live \ {w}
      /\ UNCHANGED <<exists, nested, inner, externals, pinned>>
      /\ ReleaseHandle(w) /\ DeleteNode(w)
  BY DEF Free, HandlesExist
<1>1. /\ parents' = [x \in Wrappers |->
            IF x = w THEN {} ELSE
            IF x \in children[w] THEN parents[x] \ {w} ELSE parents[x]]
      /\ children' = [x \in Wrappers |->
            IF x = w THEN {} ELSE
            IF x \in parents[w] THEN children[x] \ {w} ELSE children[x]]
  BY <1>0 DEF DeleteNode
<1>2. \A x \in Wrappers : x # w => /\ handle'[x] = handle[x]
                                   /\ buckets'[x] = buckets[x]
                                   /\ adjusted'[x] = adjusted[x]
                                   /\ reported'[x] = reported[x]
                                   /\ x \in weak' <=> x \in weak
  BY <1>0 DEF TypeOK, ReleaseHandle, datas
<1>3. TypeOK'
  <2>1. /\ parents' \in [Wrappers -> SUBSET Wrappers]
        /\ children' \in [Wrappers -> SUBSET Wrappers]
    BY <1>1 DEF TypeOK
  <2>2. CASE buckets[w] > 0
    BY <1>0, <2>1, <2>2 DEF TypeOK, ReleaseHandle, TotalSize, datas
  <2>3. CASE ~(buckets[w] > 0)
    BY <1>0, <2>1, <2>3, BoundsAssumption DEF TypeOK, ReleaseHandle
  <2>4. QED
    BY <2>2, <2>3
<1>4. NodesLinked'
  BY <1>0, <1>1 DEF TypeOK, NodesLinked
<1>5. SearchTerminates'
  <2>1. /\ parents \in [Wrappers -> SUBSET Wrappers]
        /\ parents' \in [Wrappers -> SUBSET Wrappers]
        /\ \A x \in Wrappers : parents'[x] \subseteq parents[x]
    BY <1>1, <1>3 DEF TypeOK
  <2>2. \A x \in Wrappers : Closure(parents', x) \subseteq Closure(parents, x)
    BY <2>1, ClosureMonotone
  <2>3. QED
    BY <2>2 DEF SearchTerminates, IsParent
<1>6. NodesNested'
  <2>1. SUFFICES ASSUME NEW p \in Wrappers, NEW c \in children'[p]
                 PROVE  <<handle'[p], handle'[c]>> \in nested
    BY <1>0 DEF NodesNested
  <2>2. p # w /\ c # w /\ c \in Wrappers /\ c \in children[p]
    BY <1>1, <2>1 DEF TypeOK, NodesLinked
  <2>3. QED
    BY <1>2, <2>2 DEF NodesNested
<1>7. HandlesExist'
  BY <1>0, <1>2 DEF TypeOK, HandlesExist, ReleaseHandle
<1>8. NestedExist'
  BY <1>0 DEF NestedExist
<1>9. CallbacksOwned'
  <2>1. CASE buckets[w] > 0
    BY <1>0, <2>1 DEF CallbacksOwned, ReleaseHandle, datas
  <2>2. CASE ~(buckets[w] > 0)
    <3>1. \A e \in externals : e[2] \in Wrappers /\ e[2] # w
      BY <2>2 DEF TypeOK, CallbacksOwned
    <3>2. QED
      BY <1>0, <1>2, <3>1 DEF CallbacksOwned
  <2>3. QED
    BY <2>1, <2>2
<1>10. ReportBalanced'
  <2>1. CASE buckets[w] > 0
    BY <1>0, <2>1 DEF TypeOK, ReportBalanced, ReleaseHandle, TotalSize, datas
  <2>2. CASE ~(buckets[w] > 0)
    BY <1>0, <2>2 DEF TypeOK, ReportBalanced, ReleaseHandle, TotalSize
  <2>3. QED
    BY <2>1, <2>2
<1>11. QED
  BY <1>3, <1>4, <1>5, <1>6, <1>7, <1>8, <1>9, <1>10

\* A collection: what it takes is reachable from no wrapper, and the weak
\* callbacks clean up behind exactly that.
LEMMA CollectKeeps ==
    ASSUME IInv, NEW dead \in SUBSET Templates, Collect(dead)
    PROVE  IInv'
<1> USE DEF IInv, GraphInv, DataInv
<1>0. /\ Garbage(dead) /\ exists' = exists \ dead
      /\ nested' = {e \in nested : e[1] \notin dead}
      /\ inner' = [f \in FunctionTemplates |->
                    IF f \in dead THEN NoTemplate ELSE inner[f]]
      /\ externals' = {e \in externals : e[1] \notin dead}
      /\ WeakCallbacks(Collected(dead))
      /\ UNCHANGED <<live, parents, children, pinned>>
  BY DEF Collect, nodes
<1>1. \A w \in live : w \notin Collected(dead) /\ handle[w] \notin dead
  BY <1>0 DEF HandlesExist, Collected, Garbage
<1>2. \A w \in Wrappers : w \notin Collected(dead) =>
            /\ handle'[w] = handle[w] /\ buckets'[w] = buckets[w]
            /\ adjusted'[w] = adjusted[w] /\ reported'[w] = reported[w]
  BY <1>0 DEF WeakCallbacks
<1>3. TypeOK'
  BY <1>0, BoundsAssumption DEF TypeOK, WeakCallbacks, TotalSize
<1>4. NodesLinked' /\ SearchTerminates'
  BY <1>0 DEF NodesLinked, SearchTerminates, IsParent
<1>5. NodesNested'
  <2>1. SUFFICES ASSUME NEW p \in Wrappers, NEW c \in children[p]
                 PROVE  <<handle'[p], handle'[c]>> \in nested'
    BY <1>0 DEF NodesNested
  <2>2. p \in live /\ c \in live /\ c \in Wrappers
    BY <2>1 DEF TypeOK, NodesLinked
  <2>3. QED
    BY <1>0, <1>1, <1>2, <2>1, <2>2 DEF NodesNested
<1>6. HandlesExist'
  BY <1>0, <1>1, <1>2 DEF TypeOK, HandlesExist, WeakCallbacks, Collected
<1>7. NestedExist'
  <2>1. SUFFICES ASSUME NEW e \in nested, e[1] \notin dead
                 PROVE  e[1] \in exists' /\ e[2] \in exists'
    BY <1>0 DEF NestedExist
  <2>2. e[1] \in exists /\ e[2] \in exists /\ <<e[1], e[2]>> \in nested
    BY <2>1 DEF NestedExist, TypeOK
  <2>3. e[2] \notin dead
    BY <1>0, <2>1, <2>2 DEF Garbage, Holders
  <2>4. QED
    BY <1>0, <2>1, <2>2, <2>3
<1>8. CallbacksOwned'
  <2>1. SUFFICES ASSUME NEW e \in externals, e[1] \notin dead
                 PROVE  /\ e[2] \in live' \cup weak' /\ handle'[e[2]] = e[1]
                        /\ buckets'[e[2]] > 0
    BY <1>0 DEF CallbacksOwned
  <2>2. e[2] \in Wrappers /\ e[2] \notin Collected(dead)
    BY <2>1 DEF TypeOK, CallbacksOwned, Collected
  <2>3. QED
    BY <1>0, <1>2, <2>1, <2>2 DEF CallbacksOwned, WeakCallbacks
<1>9. ReportBalanced'
  BY <1>0 DEF TypeOK, ReportBalanced, WeakCallbacks, Collected, TotalSize
<1>10. QED
  BY <1>3, <1>4, <1>5, <1>6, <1>7, <1>8, <1>9

-----------------------------------------------------------------------------
(* Theorems.                                                               *)

\* The inductive invariant holds in every reachable state.
THEOREM GraphInvariance == Spec => []IInv
<1>1. Init => IInv
  BY InitInv
<1>2. IInv /\ [Next]_vars => IInv'
  <2> SUFFICES ASSUME IInv, [Next]_vars PROVE IInv'
    OBVIOUS
  <2>1. ASSUME NEW w \in Wrappers, NEW t \in Templates, NEW n \in {0, 1},
               Construct(w, t, n)
        PROVE  IInv'
    BY <2>1, ConstructKeeps
  <2>2. ASSUME NEW w \in Wrappers, NEW i \in Wrappers, NEW t \in Templates,
               InnerTemplate(w, i, t)
        PROVE  IInv'
    BY <2>2, InnerTemplateKeeps
  <2>3. ASSUME NEW p \in Wrappers, NEW c \in Wrappers, Set(p, c) PROVE IInv'
    BY <2>3, SetKeeps
  <2>4. ASSUME NEW w \in Wrappers, AddCallback(w) PROVE IInv'
    BY <2>4, AddCallbackKeeps
  <2>5. ASSUME NEW w \in Wrappers, NEW change \in {-1, 1}, Adjust(w, change)
        PROVE  IInv'
    BY <2>5, AdjustKeeps
  <2>6. ASSUME NEW w \in Wrappers, Free(w) PROVE IInv'
    BY <2>6, FreeKeeps
  <2>7. ASSUME NEW dead \in SUBSET Templates, Collect(dead) PROVE IInv'
    BY <2>7, CollectKeeps
  <2>8. ASSUME \/ \E w \in Wrappers : NewInstance(w)
               \/ \E t \in Templates : DropInstance(t)
               \/ UNCHANGED vars
        PROVE  IInv'
    BY <2>8, InstancesKeep
  <2>9. QED
    BY <2>1, <2>2, <2>3, <2>4, <2>5, <2>6, <2>7, <2>8 DEF Next
<1>3. QED
  BY <1>1, <1>2, PTL DEF Spec

\* Every variable keeps its type.
THEOREM GraphTypeCorrect == Spec => []TypeOK
<1>1. IInv => TypeOK
  BY DEF IInv
<1>2. QED
  BY <1>1, GraphInvariance, PTL

\* Neither isParent nor ~TemplateNode ever follows a pointer to a deleted node.
THEOREM NodesStayLinked == Spec => []NodesLinked
<1>1. IInv => NodesLinked
  BY DEF IInv, GraphInv
<1>2. QED
  BY <1>1, GraphInvariance, PTL

\* The recursion in isParent ends: the nodes are acyclic whatever is nested,
\* viewed, freed and constructed again.
THEOREM SearchAlwaysTerminates == Spec => []SearchTerminates
<1>1. IInv => SearchTerminates
  BY DEF IInv, GraphInv
<1>2. QED
  BY <1>1, GraphInvariance, PTL

\* V8 never holds a reference to a bucket that is gone.
THEOREM CallbacksStayOwned == Spec => []CallbacksOwned
<1>1. IInv => CallbacksOwned
  BY DEF IInv, DataInv
<1>2. QED
  BY <1>1, GraphInvariance, PTL

\* What a freed wrapper adds to V8's external memory is taken back exactly.
THEOREM ReportStaysBalanced == Spec => []ReportBalanced
<1>1. IInv => ReportBalanced
  BY DEF IInv, DataInv
<1>2. QED
  BY <1>1, GraphInvariance, PTL

\* set() refuses only what would be recursive: the ancestors of a node stand
\* for templates its own template is nested in.
THEOREM RefusalsAlwaysJustified == Spec => []RefusalsJustified
<1>1. IInv => RefusalsJustified
  <2> SUFFICES ASSUME IInv, NEW p \in live, NEW c \in live, IsParent(p, c)
               PROVE  handle[p] \in Closure(Nests, handle[c])
    BY DEF RefusalsJustified
  <2> USE DEF IInv, GraphInv
  <2>1. /\ parents \in [Wrappers -> SUBSET Wrappers] /\ p \in Wrappers
        /\ Nests \in [Templates -> SUBSET Templates]
    BY DEF TypeOK, Nests
  <2>2. \A x \in live : x \in Wrappers /\ handle[x] \in Templates
    BY DEF TypeOK, HandlesExist
  <2>3. \A x \in Wrappers : \A y \in parents[x] :
            /\ x \in live /\ y \in live
            /\ handle[x] \in Nests[handle[y]]
    BY <2>2 DEF TypeOK, NodesLinked, NodesNested, Nests
  <2>4. PICK S \in SUBSET Wrappers :
            S = {x \in live : handle[p] \in Closure(Nests, handle[x])}
    BY <2>2
  <2>5. parents[p] \subseteq S
    BY <2>1, <2>2, <2>3, <2>4, ClosureClosed
  <2>6. \A x \in S : parents[x] \subseteq S
    <3>1. SUFFICES ASSUME NEW x \in S, NEW y \in parents[x] PROVE y \in S
      OBVIOUS
    <3>2. x \in Wrappers /\ y \in live /\ handle[x] \in Nests[handle[y]]
      BY <2>3, <3>1
    <3>3. Closure(Nests, handle[x]) \subseteq Closure(Nests, handle[y])
      BY <2>1, <2>2, <2>3, <3>1, <3>2, ClosureTrans
    <3>4. QED
      BY <2>4, <3>2, <3>3
  <2>7. Closure(parents, p) \subseteq S
    BY <2>1, <2>5, <2>6, ClosureLeast
  <2>8. QED
    BY <2>4, <2>7 DEF IsParent
<1>2. QED
  BY <1>1, GraphInvariance, PTL

-----------------------------------------------------------------------------
(* Constructed templates.                                                  *)

\* A constructed template has one wrapper while that is alive, and the nodes of
\* two such wrappers are linked whenever their templates are nested.
HeldWrappers == {w \in live : handle[w] \notin InnerTemplates}
OneWrapper   == \A w, x \in HeldWrappers : handle[w] = handle[x] => w = x
HeldNodes    == \A p, c \in HeldWrappers :
                    <<handle[p], handle[c]>> \in nested => c \in children[p]
InnerNamed   == \A f \in FunctionTemplates : inner[f] \in InnerTemplates \cup {NoTemplate}
HeldInv      == OneWrapper /\ HeldNodes /\ InnerNamed

\* Steps that make no wrapper and nest no templates.
LEMMA HeldInvShrinks ==
    ASSUME OneWrapper, HeldNodes, HeldWrappers' \subseteq HeldWrappers,
           \A x \in HeldWrappers' : handle'[x] = handle[x],
           nested' \subseteq nested,
           \A x, y \in HeldWrappers' : y \in children[x] => y \in children'[x]
    PROVE  OneWrapper' /\ HeldNodes'
<1>1. OneWrapper'
  BY DEF OneWrapper
<1>2. HeldNodes'
  BY DEF HeldNodes
<1>3. QED
  BY <1>1, <1>2

LEMMA ConstructKeepsHeld ==
    ASSUME IInv, HeldInv, NEW w \in Wrappers, NEW t \in Templates, NEW n \in {0, 1},
           Construct(w, t, n)
    PROVE  HeldInv'
<1> USE DEF IInv, GraphInv, HeldInv
<1>1. /\ w \notin live /\ live' = live \cup {w} /\ t \notin exists
      /\ t \notin InnerTemplates
      /\ UNCHANGED <<children, nested, inner>> /\ handle' = [handle EXCEPT ![w] = t]
  BY DEF Construct, nodes
<1>2. handle'[w] = t /\ \A x \in live : handle'[x] = handle[x] /\ handle[x] \in exists
  BY <1>1 DEF TypeOK, HandlesExist
<1>3. \A x \in HeldWrappers' : x # w => x \in HeldWrappers /\ handle'[x] = handle[x]
  BY <1>1, <1>2 DEF HeldWrappers
<1>4. \A x \in HeldWrappers : handle[x] \in exists /\ handle[x] \in Templates
  BY <1>2 DEF HeldWrappers, TypeOK
<1>5. OneWrapper'
  BY <1>1, <1>2, <1>3, <1>4 DEF OneWrapper
<1>6. HeldNodes'
  <2>1. SUFFICES ASSUME NEW p \in HeldWrappers', NEW c \in HeldWrappers',
                        <<handle'[p], handle'[c]>> \in nested
                 PROVE  c \in children[p]
    BY <1>1 DEF HeldNodes
  <2>2. handle'[p] \in exists /\ handle'[c] \in exists
    BY <2>1 DEF NestedExist
  <2>3. p # w /\ c # w
    BY <1>1, <1>2, <2>2
  <2>4. QED
    BY <1>3, <2>1, <2>3 DEF HeldNodes
<1>7. InnerNamed'
  BY <1>1 DEF InnerNamed
<1>8. QED
  BY <1>5, <1>6, <1>7

\* A wrapper for an inner template is none of a constructed one.
LEMMA InnerTemplateKeepsHeld ==
    ASSUME IInv, HeldInv, NEW w \in Wrappers, NEW i \in Wrappers, NEW t \in Templates,
           InnerTemplate(w, i, t)
    PROVE  HeldInv'
<1> USE DEF IInv, GraphInv, HeldInv
<1>1. /\ i \notin live /\ live' = live \cup {i}
      /\ UNCHANGED <<children, nested>> /\ handle' = [handle EXCEPT ![i] = t]
      /\ inner' = [inner EXCEPT ![handle[w]] = t]
      /\ handle[w] \in FunctionTemplates
  BY DEF InnerTemplate, nodes
<1>2. t \in InnerTemplates
  BY <1>1, TemplatesAssumption DEF InnerTemplate, InnerNamed
<1>3. handle'[i] = t /\ \A x \in live : handle'[x] = handle[x]
  BY <1>1 DEF TypeOK
<1>4. HeldWrappers' \subseteq HeldWrappers /\ \A x \in HeldWrappers' : handle'[x] = handle[x]
  BY <1>1, <1>2, <1>3 DEF HeldWrappers
<1>5. OneWrapper' /\ HeldNodes'
  BY <1>1, <1>4, HeldInvShrinks
<1>6. InnerNamed'
  BY <1>1, <1>2 DEF InnerNamed, TypeOK
<1>7. QED
  BY <1>5, <1>6

LEMMA SetKeepsHeld ==
    ASSUME IInv, HeldInv, NEW p \in Wrappers, NEW c \in Wrappers, Set(p, c)
    PROVE  HeldInv'
<1> USE DEF IInv, GraphInv, HeldInv
<1>1. UNCHANGED <<live, handle, inner>> /\ p \in live /\ c \in live
  BY DEF Set
<1>2. HeldWrappers' = HeldWrappers /\ OneWrapper' /\ InnerNamed'
  BY <1>1 DEF HeldWrappers, OneWrapper, InnerNamed
<1>3. CASE p = c \/ IsParent(p, c)
  BY <1>1, <1>2, <1>3 DEF Set, nodes, HeldNodes
<1>4. CASE ~(p = c \/ IsParent(p, c))
  <2>1. /\ children' = [children EXCEPT ![p] = @ \cup {c}]
        /\ nested' = nested \cup {<<handle[p], handle[c]>>}
    BY <1>4 DEF Set
  <2>2. SUFFICES ASSUME NEW x \in HeldWrappers, NEW y \in HeldWrappers,
                        <<handle[x], handle[y]>> \in nested'
                 PROVE  y \in children'[x]
    BY <1>1, <1>2 DEF HeldNodes
  <2>3. CASE <<handle[x], handle[y]>> \in nested
    BY <2>1, <2>2, <2>3 DEF HeldNodes, HeldWrappers, TypeOK
  <2>4. CASE handle[x] = handle[p] /\ handle[y] = handle[c]
    <3>1. p \in HeldWrappers /\ c \in HeldWrappers
      BY <1>1, <2>4 DEF HeldWrappers
    <3>2. x = p /\ y = c
      BY <2>4, <3>1 DEF OneWrapper
    <3>3. QED
      BY <2>1, <3>2 DEF TypeOK
  <2>5. QED
    BY <2>1, <2>2, <2>3, <2>4
<1>5. QED
  BY <1>2, <1>3, <1>4

LEMMA HeldInvStep ==
    ASSUME IInv, HeldInv, [Next]_vars
    PROVE  HeldInv'
<1> USE DEF IInv, GraphInv, HeldInv
<1>1. ASSUME NEW w \in Wrappers, Free(w)
      PROVE  HeldInv'
  <2>1. /\ live' = live \ {w} /\ UNCHANGED <<nested, inner>>
        /\ \A x \in live' : handle'[x] = handle[x]
        /\ \A x, y \in live' : y \in children[x] => y \in children'[x]
    BY <1>1 DEF Free, ReleaseHandle, DeleteNode, TypeOK
  <2>2. HeldWrappers' \subseteq HeldWrappers /\ HeldWrappers' \subseteq live'
    BY <2>1 DEF HeldWrappers
  <2>3. OneWrapper' /\ HeldNodes'
    BY <2>1, <2>2, HeldInvShrinks
  <2>4. QED
    BY <2>1, <2>3 DEF InnerNamed
<1>2. ASSUME NEW dead \in SUBSET Templates, Collect(dead)
      PROVE  HeldInv'
  <2>1. /\ UNCHANGED <<live, children>> /\ nested' \subseteq nested
        /\ \A x \in live : handle'[x] = handle[x]
        /\ inner' = [f \in FunctionTemplates |->
                        IF f \in dead THEN NoTemplate ELSE inner[f]]
    BY <1>2 DEF Collect, WeakCallbacks, Collected, HandlesExist, TypeOK, nodes
  <2>2. HeldWrappers' \subseteq HeldWrappers /\ HeldWrappers' \subseteq live
    BY <2>1 DEF HeldWrappers
  <2>3. OneWrapper' /\ HeldNodes'
    BY <2>1, <2>2, HeldInvShrinks
  <2>4. QED
    BY <2>1, <2>3 DEF InnerNamed
<1>3. ASSUME \/ \E w \in Wrappers : AddCallback(w)
             \/ \E w \in Wrappers, change \in {-1, 1} : Adjust(w, change)
             \/ \E w \in Wrappers : NewInstance(w)
             \/ \E t \in Templates : DropInstance(t)
             \/ UNCHANGED vars
      PROVE  HeldInv'
  <2>1. UNCHANGED <<live, handle, children, nested, inner>>
    BY <1>3 DEF AddCallback, Adjust, NewInstance, DropInstance, vars, nodes, heap
  <2>2. QED
    BY <2>1 DEF OneWrapper, HeldNodes, HeldWrappers, InnerNamed
<1>4. QED
  BY <1>1, <1>2, <1>3, ConstructKeepsHeld, InnerTemplateKeepsHeld, SetKeepsHeld DEF Next

LEMMA HeldInvAcyclic ==
    ASSUME IInv, HeldInv
    PROVE  HeldAcyclic
<1> USE DEF IInv, GraphInv, HeldInv
<1>1. Held = {handle[w] : w \in HeldWrappers}
  BY DEF Held, HeldWrappers
<1>2. SUFFICES ASSUME NEW w \in HeldWrappers
               PROVE  handle[w] \notin Closure(NestsHeld, handle[w])
  BY <1>1 DEF HeldAcyclic
<1>3. /\ parents \in [Wrappers -> SUBSET Wrappers]
      /\ HeldWrappers \in SUBSET Wrappers /\ HeldWrappers \in SUBSET live
      /\ NestsHeld \in [Held -> SUBSET Held]
      /\ \A x \in HeldWrappers : handle[x] \in Held
  BY <1>1 DEF TypeOK, HeldWrappers, NestsHeld
<1>4. \A x \in HeldWrappers : \A u \in NestsHeld[handle[x]] :
            \E c \in HeldWrappers : u = handle[c] /\ x \in parents[c]
  BY <1>1, <1>3 DEF NestsHeld, HeldNodes, NodesLinked
\* The templates of the nodes below w.
<1>5. PICK S \in SUBSET Held :
            S = {handle[x] : x \in {y \in HeldWrappers : IsParent(y, w)}}
  BY <1>3
<1>6. NestsHeld[handle[w]] \subseteq S
  BY <1>3, <1>4, <1>5, ClosureClosed DEF IsParent
<1>7. \A t \in S : NestsHeld[t] \subseteq S
  <2>1. SUFFICES ASSUME NEW x \in HeldWrappers, IsParent(x, w),
                        NEW u \in NestsHeld[handle[x]]
                 PROVE  u \in S
    BY <1>5
  <2>2. PICK c \in HeldWrappers : u = handle[c] /\ x \in parents[c]
    BY <1>4, <2>1
  <2>3. Closure(parents, x) \subseteq Closure(parents, c)
    BY <1>3, <2>2, ClosureTrans
  <2>4. IsParent(c, w)
    BY <2>1, <2>3 DEF IsParent
  <2>5. QED
    BY <1>5, <2>2, <2>4
<1>8. Closure(NestsHeld, handle[w]) \subseteq S
  BY <1>3, <1>6, <1>7, ClosureLeast
<1>9. handle[w] \notin S
  BY <1>3, <1>5 DEF OneWrapper, SearchTerminates
<1>10. QED
  BY <1>8, <1>9

\* Constructed templates whose wrappers are alive are never nested in each other
\* in a circle: for them the check of set() is complete.
THEOREM HeldTemplatesAcyclic == Spec => []HeldAcyclic
<1>1. Init => HeldInv
  BY DEF Init, HeldInv, OneWrapper, HeldNodes, HeldWrappers, InnerNamed
<1>2. IInv /\ HeldInv /\ [Next]_vars => HeldInv'
  BY HeldInvStep
<1>3. IInv /\ HeldInv => HeldAcyclic
  BY HeldInvAcyclic
<1>4. QED
  BY <1>1, <1>2, <1>3, GraphInvariance, PTL DEF Spec
=============================================================================
