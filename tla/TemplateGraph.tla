--------------------------- MODULE TemplateGraph ---------------------------
(***************************************************************************)
(* Nested templates (php_v8_template.{h,cc}, php_v8_object_template.cc,    *)
(* php_v8_function_template.cc).                                           *)
(*                                                                         *)
(* A PHP wrapper owns a TemplateNode, the buckets of its callbacks and a   *)
(* persistent handle to a V8 template.  set() nests one template in        *)
(* another; to refuse a template that would be nested in itself it         *)
(* searches the nodes first.  The nodes live as long as the wrappers, V8's *)
(* templates as long as V8 can reach them, and a freed wrapper with        *)
(* callbacks leaves a weak handle behind.                                  *)
(*                                                                         *)
(* A member of Wrappers names the PHP object, its node, its PersistentData *)
(* and its persistent handle; the name is free again when all are gone.    *)
(***************************************************************************)
EXTENDS Integers

CONSTANTS
    Wrappers,           \* names of wrappers
    Templates,          \* names of V8's templates
    FunctionTemplates,  \* those made by FunctionTemplate::__construct
    InnerTemplates,     \* those V8 makes for a function template
    NoTemplate,
    MaxBuckets,         \* bound: callback buckets of a wrapper
    MaxAdjusted,        \* bound: adjusted_size_ of a wrapper
    Behaviours          \* the optional things the PHP program may do

AllBehaviours ==
    { "free",      \* drops its last reference to a wrapper
      "view",      \* calls FunctionTemplate::instanceTemplate() or
                   \* prototypeTemplate(); each call makes another wrapper
      "callback",  \* registers callbacks
      "instance" } \* creates and drops instances

ASSUME TemplatesAssumption ==
    /\ FunctionTemplates \subseteq Templates
    /\ NoTemplate \notin Templates
    /\ InnerTemplates \subseteq Templates \ FunctionTemplates
ASSUME BoundsAssumption == MaxBuckets \in Nat /\ MaxAdjusted \in Nat
ASSUME TemplateBehavioursAssumption == Behaviours \subseteq AllBehaviours

VARIABLES
    live,       \* constructed wrappers PHP still refers to
    weak,       \* weak_object_templates and weak_function_templates
    handle,     \* the V8 template of a wrapper's persistent
    parents,    \* TemplateNode::parents
    children,   \* TemplateNode::children
    buckets,    \* PersistentData: the number of callback buckets
    adjusted,   \* PersistentData::adjusted_size_
    \* V8
    exists,     \* templates not collected yet
    nested,     \* <<t, u>>: u is the value of a property of t
    inner,      \* the instance or prototype template of a function template
    externals,  \* <<t, w>>: t refers to a bucket of w's PersistentData
    pinned,     \* templates with an instance or a function in a context
    reported    \* AdjustAmountOfExternalAllocatedMemory, by handle

nodes == <<parents, children>>
datas == <<buckets, adjusted>>
heap  == <<exists, nested, inner, externals, pinned, reported>>
vars  == <<live, weak, handle, nodes, datas, heap>>

\* The least set that contains succ[x] and is closed under succ.
Closure(succ, x) ==
    {y \in DOMAIN succ :
        \A S \in SUBSET DOMAIN succ :
            (succ[x] \subseteq S /\ \A z \in S : succ[z] \subseteq S) => y \in S}

\* TemplateNode::isParent: node is an ancestor of w.
IsParent(w, node) == node \in Closure(parents, w)

\* PersistentData::getTotalSize: one unit for each bucket, and the hint.
TotalSize(w) == buckets[w] + adjusted[w]

Init ==
    /\ live = {} /\ weak = {}
    /\ handle = [w \in Wrappers |-> NoTemplate]
    /\ parents = [w \in Wrappers |-> {}]
    /\ children = [w \in Wrappers |-> {}]
    /\ buckets = [w \in Wrappers |-> 0]
    /\ adjusted = [w \in Wrappers |-> 0]
    /\ exists = {} /\ nested = {} /\ externals = {} /\ pinned = {}
    /\ inner = [f \in FunctionTemplates |-> NoTemplate]
    /\ reported = [w \in Wrappers |-> 0]

-----------------------------------------------------------------------------
(* PHP methods.                                                            *)

\* ObjectTemplate::__construct and FunctionTemplate::__construct; only the
\* latter can be given a callback.
Construct(w, t, n) ==
    /\ w \notin live \cup weak /\ t \notin exists \cup InnerTemplates
    /\ n <= MaxBuckets
    /\ n = 0 \/ ("callback" \in Behaviours /\ t \in FunctionTemplates)
    /\ live' = live \cup {w}
    /\ exists' = exists \cup {t}
    /\ handle' = [handle EXCEPT ![w] = t]
    /\ buckets' = [buckets EXCEPT ![w] = n]
    /\ externals' = IF n = 0 THEN externals ELSE externals \cup {<<t, w>>}
    /\ UNCHANGED <<weak, nodes, adjusted, nested, inner, pinned, reported>>

\* FunctionTemplate::instanceTemplate and prototypeTemplate: a new wrapper with
\* a node of its own for a template V8 creates on the first call.
InnerTemplate(w, i, t) ==
    /\ "view" \in Behaviours
    /\ w \in live /\ handle[w] \in FunctionTemplates
    /\ i \notin live \cup weak
    /\ IF inner[handle[w]] = NoTemplate
       THEN t \in InnerTemplates \ exists
       ELSE t = inner[handle[w]]
    /\ live' = live \cup {i}
    /\ exists' = exists \cup {t}
    /\ handle' = [handle EXCEPT ![i] = t]
    /\ inner' = [inner EXCEPT ![handle[w]] = t]
    /\ UNCHANGED <<weak, nodes, datas, nested, externals, pinned, reported>>

\* Mutant: isParent looks at the direct parents only.
SetUnlessDirectParent(p, c) ==
    /\ p \in live /\ c \in live
    /\ IF p = c \/ c \in parents[p]
       THEN UNCHANGED <<nodes, nested>>
       ELSE /\ children' = [children EXCEPT ![p] = @ \cup {c}]
            /\ parents' = [parents EXCEPT ![c] = @ \cup {p}]
            /\ nested' = nested \cup {<<handle[p], handle[c]>>}
    /\ UNCHANGED <<live, weak, handle, datas, exists, inner, externals, pinned,
                   reported>>

\* Mutant: the search starts from the child, so that it looks for its children.
SetSwapped(p, c) ==
    /\ p \in live /\ c \in live
    /\ IF p = c \/ IsParent(c, p)
       THEN UNCHANGED <<nodes, nested>>
       ELSE /\ children' = [children EXCEPT ![p] = @ \cup {c}]
            /\ parents' = [parents EXCEPT ![c] = @ \cup {p}]
            /\ nested' = nested \cup {<<handle[p], handle[c]>>}
    /\ UNCHANGED <<live, weak, handle, datas, exists, inner, externals, pinned,
                   reported>>

\* php_v8_template_Set with a template: a template that is an ancestor is
\* refused with an exception, any other is registered and nested.
Set(p, c) ==
    /\ p \in live /\ c \in live
    /\ IF p = c \/ IsParent(p, c)
       THEN UNCHANGED <<nodes, nested>>
       ELSE /\ children' = [children EXCEPT ![p] = @ \cup {c}]
            /\ parents' = [parents EXCEPT ![c] = @ \cup {p}]
            /\ nested' = nested \cup {<<handle[p], handle[c]>>}
    /\ UNCHANGED <<live, weak, handle, datas, exists, inner, externals, pinned,
                   reported>>

\* setNativeDataProperty, setLazyDataProperty, setAccessor, setHandlerFor...,
\* setCallHandler, setCallAsFunctionHandler: a bucket of the wrapper, found by
\* name or created, is handed to the template as v8::External.
AddCallback(w) ==
    /\ "callback" \in Behaviours
    /\ w \in live /\ buckets[w] < MaxBuckets
    /\ buckets' = [buckets EXCEPT ![w] = @ + 1]
    /\ externals' = externals \cup {<<handle[w], w>>}
    /\ UNCHANGED <<live, weak, handle, nodes, adjusted, exists, nested, inner,
                   pinned, reported>>

\* Mutant: the hint may become negative.
AdjustUnclamped(w, change) ==
    /\ w \in live /\ adjusted[w] + change <= MaxAdjusted
    /\ adjusted' = [adjusted EXCEPT ![w] = @ + change]
    /\ UNCHANGED <<live, weak, handle, nodes, buckets, heap>>

\* adjustExternalAllocatedMemory: clamped at zero, and only remembered.
Adjust(w, change) ==
    /\ w \in live /\ adjusted[w] + change <= MaxAdjusted
    /\ adjusted' = [adjusted EXCEPT ![w] = IF @ + change < 0 THEN 0 ELSE @ + change]
    /\ UNCHANGED <<live, weak, handle, nodes, buckets, heap>>

\* ObjectTemplate::newInstance, FunctionTemplate::getFunction
NewInstance(w) ==
    /\ "instance" \in Behaviours
    /\ w \in live
    /\ pinned' = pinned \cup {handle[w]}
    /\ UNCHANGED <<live, weak, handle, nodes, datas, exists, nested, inner,
                   externals, reported>>

-----------------------------------------------------------------------------
(* php_v8_object_template_free and php_v8_function_template_free.          *)

\* Mutant: the destructor leaves the children alone.
DeleteNodeHalf(w) ==
    /\ children' = [x \in Wrappers |->
            IF x = w THEN {} ELSE
            IF x \in parents[w] THEN children[x] \ {w} ELSE children[x]]
    /\ parents' = [parents EXCEPT ![w] = {}]

\* delete node: ~TemplateNode unlinks the node from its neighbours.
DeleteNode(w) ==
    /\ children' = [x \in Wrappers |->
            IF x = w THEN {} ELSE
            IF x \in parents[w] THEN children[x] \ {w} ELSE children[x]]
    /\ parents' = [x \in Wrappers |->
            IF x = w THEN {} ELSE
            IF x \in children[w] THEN parents[x] \ {w} ELSE parents[x]]

\* Mutant: the buckets go even when V8 still refers to them.
ReleaseHandleAlways(w) ==
    /\ handle' = [handle EXCEPT ![w] = NoTemplate]
    /\ adjusted' = [adjusted EXCEPT ![w] = 0]
    /\ buckets' = [buckets EXCEPT ![w] = 0]
    /\ UNCHANGED <<weak, reported>>

\* With callbacks the persistent is made weak and handed to the isolate
\* together with the buckets, and V8 is told their size; without, both go.
ReleaseHandle(w) ==
    IF buckets[w] > 0
    THEN /\ weak' = weak \cup {w}
         /\ reported' = [reported EXCEPT ![w] = @ + TotalSize(w)]
         /\ UNCHANGED <<handle, datas>>
    ELSE /\ handle' = [handle EXCEPT ![w] = NoTemplate]
         /\ adjusted' = [adjusted EXCEPT ![w] = 0]
         /\ UNCHANGED <<weak, buckets, reported>>

Free(w) ==
    /\ "free" \in Behaviours
    /\ w \in live
    /\ live' = live \ {w}
    /\ ReleaseHandle(w)
    /\ DeleteNode(w)
    /\ UNCHANGED <<exists, nested, inner, externals, pinned>>

-----------------------------------------------------------------------------
(* V8.                                                                     *)

\* An instance is collected, or its context is.
DropInstance(t) ==
    /\ t \in pinned
    /\ pinned' = pinned \ {t}
    /\ UNCHANGED <<live, weak, handle, nodes, datas, exists, nested, inner,
                   externals, reported>>

\* What keeps t alive: the templates that lead to it.
Holders(t) ==
    {u \in exists : <<u, t>> \in nested \/ (u \in FunctionTemplates /\ inner[u] = t)}

\* A collection may find any part of what no strong handle reaches.
Garbage(dead) ==
    /\ dead # {} /\ dead \subseteq exists
    /\ dead \cap (pinned \cup {handle[w] : w \in live}) = {}
    /\ \A t \in dead : Holders(t) \subseteq dead

\* The weak handles whose callbacks a collection runs.
Collected(dead) == {w \in weak : handle[w] \in dead}

\* Mutant: only the estimate for the buckets is taken back.
WeakCallbacksEstimate(gone) ==
    /\ weak' = weak \ gone
    /\ reported' = [w \in Wrappers |->
            IF w \in gone THEN reported[w] - buckets[w] ELSE reported[w]]
    /\ handle' = [w \in Wrappers |-> IF w \in gone THEN NoTemplate ELSE handle[w]]
    /\ buckets' = [w \in Wrappers |-> IF w \in gone THEN 0 ELSE buckets[w]]
    /\ adjusted' = [w \in Wrappers |-> IF w \in gone THEN 0 ELSE adjusted[w]]

\* php_v8_object_template_weak_callback, php_v8_function_template_weak_callback:
\* the size is taken back, the buckets are deleted, the handle is reset.
WeakCallbacks(gone) ==
    /\ weak' = weak \ gone
    /\ reported' = [w \in Wrappers |->
            IF w \in gone THEN reported[w] - TotalSize(w) ELSE reported[w]]
    /\ handle' = [w \in Wrappers |-> IF w \in gone THEN NoTemplate ELSE handle[w]]
    /\ buckets' = [w \in Wrappers |-> IF w \in gone THEN 0 ELSE buckets[w]]
    /\ adjusted' = [w \in Wrappers |-> IF w \in gone THEN 0 ELSE adjusted[w]]

Collect(dead) ==
    /\ Garbage(dead)
    /\ exists' = exists \ dead
    /\ nested' = {e \in nested : e[1] \notin dead}
    /\ inner' = [f \in FunctionTemplates |->
                    IF f \in dead THEN NoTemplate ELSE inner[f]]
    /\ externals' = {e \in externals : e[1] \notin dead}
    /\ WeakCallbacks(Collected(dead))
    /\ UNCHANGED <<live, nodes, pinned>>

-----------------------------------------------------------------------------

Next ==
    \/ \E w \in Wrappers, t \in Templates, n \in {0, 1} : Construct(w, t, n)
    \/ \E w, i \in Wrappers, t \in Templates : InnerTemplate(w, i, t)
    \/ \E p, c \in Wrappers : Set(p, c)
    \/ \E w \in Wrappers : AddCallback(w)
    \/ \E w \in Wrappers, change \in {-1, 1} : Adjust(w, change)
    \/ \E w \in Wrappers : NewInstance(w)
    \/ \E w \in Wrappers : Free(w)
    \/ \E t \in Templates : DropInstance(t)
    \/ \E dead \in SUBSET Templates : Collect(dead)

Spec == Init /\ [][Next]_vars

-----------------------------------------------------------------------------
(* Properties.                                                             *)

\* Type invariant.
TypeOK ==
    /\ live \subseteq Wrappers /\ weak \subseteq Wrappers
    /\ handle \in [Wrappers -> Templates \cup {NoTemplate}]
    /\ parents \in [Wrappers -> SUBSET Wrappers]
    /\ children \in [Wrappers -> SUBSET Wrappers]
    /\ buckets \in [Wrappers -> 0..MaxBuckets]
    /\ adjusted \in [Wrappers -> 0..MaxAdjusted]
    /\ exists \subseteq Templates /\ pinned \subseteq Templates
    /\ nested \subseteq Templates \X Templates
    /\ inner \in [FunctionTemplates -> Templates \cup {NoTemplate}]
    /\ externals \subseteq Templates \X Wrappers
    /\ reported \in [Wrappers -> Int]

\* The node graph is symmetric and names live wrappers only: neither isParent
\* nor a destructor follows a pointer to a deleted node.
NodesLinked ==
    \A p, c \in Wrappers :
        /\ c \in children[p] <=> p \in parents[c]
        /\ c \in children[p] => p \in live /\ c \in live

\* No node is its own ancestor, so the recursion in isParent ends.
SearchTerminates == \A w \in Wrappers : ~IsParent(w, w)

\* A template V8 still has never refers to a bucket that was deleted: every
\* callback V8 can make finds its PHP callable.
CallbacksOwned ==
    \A e \in externals : e[2] \in live \cup weak /\ handle[e[2]] = e[1]
                         /\ buckets[e[2]] > 0

\* The external memory V8 was told about is that of the weak handles that are
\* left: what a freed wrapper adds, its weak callback takes back to the byte.
ReportBalanced ==
    \A w \in Wrappers : reported[w] = IF w \in weak THEN TotalSize(w) ELSE 0

\* The property lists of V8's templates as a function.
Nests == [t \in Templates |-> {u \in Templates : <<t, u>> \in nested}]

\* set() never refuses a template that V8 could instantiate: a refused child
\* really has the parent nested in it.
RefusalsJustified ==
    \A p, c \in live : IsParent(p, c) => handle[p] \in Closure(Nests, handle[c])

\* The constructed templates whose wrapper is alive.
Held == {handle[w] : w \in live} \ InnerTemplates
NestsHeld == [t \in Held |-> {u \in Held : <<t, u>> \in nested}]

\* Constructed templates whose wrappers are kept alive are never nested in
\* themselves through each other: set() detects the recursion.
HeldAcyclic == \A t \in Held : t \notin Closure(NestsHeld, t)

\* "Can't set: recursion detected" (tests/003-V8ObjectTemplate_recursive_*.phpt):
\* no template of V8's is nested in itself.
NestingAcyclic == \A t \in exists : t \notin Closure(Nests, t)
=============================================================================
