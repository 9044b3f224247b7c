---------------------------- MODULE WeakHandles ----------------------------
(***************************************************************************)
(* The PHP objects of one isolate's JavaScript values (php_v8_value.cc,    *)
(* php_v8_object.cc, php_v8_function.cc).                                  *)
(*                                                                         *)
(* A wrapper, a V8\Value object, owns a persistent handle to its value and *)
(* the callables the value was given through it (PersistentData).  A       *)
(* JavaScript object has a private property with the address of its        *)
(* wrapper, through which it is always given the same one.  PHP may drop a *)
(* wrapper while scripts still reach the value: with callables, its handle *)
(* is then made weak and left to the isolate, and V8 runs the weak         *)
(* callback when it collects the value.                                    *)
(*                                                                         *)
(* V8 refuses to read, set or delete a private property while a            *)
(* termination is scheduled: after it stopped a call that a callback made, *)
(* until the scripts below that callback have been left.  PHP code runs    *)
(* meanwhile, and the code goes on as if nothing had failed.               *)
(*                                                                         *)
(* A member of Wrappers names the PHP object, its persistent handle and    *)
(* its PersistentData; the name is free again when all are gone.           *)
(***************************************************************************)
EXTENDS Integers, Sequences

CONSTANTS
    Wrappers,     \* names of wrappers
    Things,       \* names of V8's values
    None,
    MaxBuckets,   \* bound: callback buckets of a wrapper
    MaxAdjusted,  \* bound: adjusted_size_ of a wrapper
    Behaviours    \* what the PHP program may do that has no good end

AllBehaviours == { "construct" }   \* calls an object's constructor again

\* All that matters of a value here.
ObjectKinds == {"object", "function"}
Kinds       == ObjectKinds \union {"primitive"}

ASSUME NoneAssumption == None \notin Wrappers \union Things \union Kinds
ASSUME BoundsAssumption == MaxBuckets \in Nat \ {0} /\ MaxAdjusted \in Nat
ASSUME BehavioursAssumption == Behaviours \subseteq AllBehaviours

VARIABLES
    up,         \* the isolate has not been disposed of
    live,       \* constructed wrappers PHP refers to
    weak,       \* weak_values
    target,     \* the value of a wrapper's persistent, None for an empty one
    buckets,    \* PersistentData: the number of callback buckets
    adjusted,   \* PersistentData::adjusted_size_
    \* V8
    kind,       \* of a value V8 has, else None
    reached,    \* values scripts can still get hold of
    self,       \* the private property: the address of a wrapper
    terminating,\* a termination is scheduled
    spoilt,     \* history: objects of which it made a private property call fail
    externals,  \* <<o, w>>: an accessor or the code of o refers to a bucket of w
    reported    \* AdjustAmountOfExternalAllocatedMemory, by handle

wrapping == <<live, weak, target>>
datas    == <<buckets, adjusted>>
identity == <<self, spoilt>>
heap     == <<kind, reached, identity, terminating, externals, reported>>
vars     == <<up, wrapping, datas, heap>>

TypeOK ==
    /\ up \in BOOLEAN
    /\ live \subseteq Wrappers /\ weak \subseteq Wrappers
    /\ target \in [Wrappers -> Things \union {None}]
    /\ buckets \in [Wrappers -> 0..MaxBuckets]
    /\ adjusted \in [Wrappers -> 0..MaxAdjusted]
    /\ kind \in [Things -> Kinds \union {None}]
    /\ reached \subseteq Things
    /\ self \in [Things -> Wrappers \union {None}]
    /\ terminating \in BOOLEAN /\ spoilt \subseteq Things
    /\ externals \subseteq Things \X Wrappers
    /\ reported \in [Wrappers -> Int]

Existing == {o \in Things : kind[o] # None}
IsObject(o) == kind[o] \in ObjectKinds

\* PersistentData::getTotalSize: one unit for each bucket, and the hint.
TotalSize(w) == buckets[w] + adjusted[w]

Init ==
    /\ up = TRUE
    /\ live = {} /\ weak = {}
    /\ target = [w \in Wrappers |-> None]
    /\ buckets = [w \in Wrappers |-> 0]
    /\ adjusted = [w \in Wrappers |-> 0]
    /\ kind = [o \in Things |-> None]
    /\ reached = {}
    /\ self = [o \in Things |-> None]
    /\ terminating = FALSE /\ spoilt = {}
    /\ externals = {}
    /\ reported = [w \in Wrappers |-> 0]

-----------------------------------------------------------------------------
(* PHP                                                                     *)

Fresh == Wrappers \ (live \union weak)

\* php_v8_object_store_self_ptr(): V8 may refuse, which throws an internal error
\* in PHP; no caller looks at the result.
StoreSelf(w, o) ==
    \/ /\ self' = [self EXCEPT ![o] = w]
       /\ spoilt' = IF self[o] = None THEN spoilt ELSE spoilt \union {o}
    \/ /\ terminating
       /\ self' = self
       /\ spoilt' = spoilt \union {o}

\* php_v8_object_delete_self_ptr(): V8 may refuse, and php_v8_value_free() goes on.
DeleteSelf(o) ==
    \/ self' = [self EXCEPT ![o] = None] /\ spoilt' = spoilt
    \/ terminating /\ self' = self /\ spoilt' = spoilt \union {o}

\* A wrapper w is bound to the value o, which learns of it if it is an object.
Bind(w, o) ==
    /\ live' = live \union {w}
    /\ target' = [target EXCEPT ![w] = o]
    /\ IF kind'[o] \in ObjectKinds THEN StoreSelf(w, o) ELSE UNCHANGED identity

\* The constructors: V8 makes the value; a function's callable is in the first
\* bucket of its wrapper.
Construct(w, o, k) ==
    /\ up /\ w \in Fresh /\ kind[o] = None
    /\ kind' = [kind EXCEPT ![o] = k]
    /\ Bind(w, o)
    /\ IF k = "function"
       THEN /\ buckets' = [buckets EXCEPT ![w] = 1]
            /\ externals' = externals \union {<<o, w>>}
       ELSE UNCHANGED <<buckets, externals>>
    /\ UNCHANGED <<up, weak, adjusted, reached, terminating, reported>>

\* A constructor for which V8 makes no value throws, and leaves a wrapper with
\* an empty handle.  A function's has the bucket already.
ConstructFailed(w, n) ==
    /\ up /\ w \in Fresh
    /\ live' = live \union {w}
    /\ buckets' = [buckets EXCEPT ![w] = n]
    /\ UNCHANGED <<up, weak, target, adjusted, heap>>

\* A constructor called again on w: the handle moves to a new value.  A program
\* does that with primitive values; an object would keep its wrapper's address.
ConstructAgain(w, o) ==
    /\ up /\ w \in live /\ target[w] # None /\ kind[o] = None
    /\ IsObject(target[w]) => "construct" \in Behaviours
    /\ kind' = [kind EXCEPT ![o] = kind[target[w]]]
    /\ Bind(w, o)
    /\ externals' = IF kind'[o] = "function" THEN externals \union {<<o, w>>} ELSE externals
    /\ UNCHANGED <<up, weak, datas, reached, terminating, reported>>

\* Mutant: the object's wrapper is not looked up.
GetOrCreateAlways(w, o) ==
    /\ up /\ o \in reached /\ w \in Fresh
    /\ kind' = kind
    /\ live' = live \union {w}
    /\ target' = [target EXCEPT ![w] = o]
    /\ self' = IF IsObject(o) THEN [self EXCEPT ![o] = w] ELSE self
    /\ UNCHANGED <<up, weak, datas, reached, spoilt, terminating, externals, reported>>

\* php_v8_get_or_create_value(), for what a script returns or passes to a
\* callback: an object with a wrapper is given that one, anything else a new
\* one.  A private property that cannot be read is taken for none.  (When the
\* wrapper it names was freed, what follows is undefined: here, nothing.)
GetOrCreate(w, o) ==
    /\ up /\ o \in reached /\ w \in Fresh
    /\ IsObject(o) => self[o] = None \/ terminating
    /\ kind' = kind
    /\ Bind(w, o)
    /\ UNCHANGED <<up, weak, datas, reached, terminating, externals, reported>>

\* setAccessor(), setNativeDataProperty(), setLazyDataProperty(): the bucket is
\* there before V8 is asked, and stays when V8 does not want the accessor.
SetAccessor(w, set) ==
    /\ up /\ w \in live /\ target[w] # None /\ IsObject(target[w])
    /\ buckets[w] < MaxBuckets
    /\ buckets' = [buckets EXCEPT ![w] = @ + 1]
    /\ externals' = IF set THEN externals \union {<<target[w], w>>} ELSE externals
    /\ UNCHANGED <<up, wrapping, adjusted, kind, reached, identity, terminating, reported>>

\* Mutant: the hint may become negative.
AdjustUnclamped(w, change) ==
    /\ w \in live /\ adjusted[w] + change <= MaxAdjusted
    /\ adjusted' = [adjusted EXCEPT ![w] = @ + change]
    /\ UNCHANGED <<up, wrapping, buckets, heap>>

\* adjustExternalAllocatedMemory(): clamped at zero, and only remembered.
Adjust(w, change) ==
    /\ w \in live /\ adjusted[w] + change <= MaxAdjusted
    /\ adjusted' = [adjusted EXCEPT ![w] = IF @ + change < 0 THEN 0 ELSE @ + change]
    /\ UNCHANGED <<up, wrapping, buckets, heap>>

\* An object with a wrapper is set somewhere scripts find it.
Reach(w) ==
    /\ up /\ w \in live /\ target[w] # None
    /\ reached' = reached \union {target[w]}
    /\ UNCHANGED <<up, wrapping, datas, kind, identity, terminating, externals, reported>>

\* Mutant: the callables go with the wrapper.
MakeWeakNever(w) ==
    /\ target' = [target EXCEPT ![w] = None]
    /\ buckets' = [buckets EXCEPT ![w] = 0]
    /\ adjusted' = [adjusted EXCEPT ![w] = 0]
    /\ UNCHANGED <<weak, reported>>

\* php_v8_value_make_weak(), or the handle is reset and the data deleted.  V8 is
\* asked to make an empty handle weak too, when a bucket was there before the
\* value: a null pointer is followed, which ends the process, or nothing comes of it.
ReleaseHandle(w) ==
    IF buckets[w] > 0
    THEN /\ weak' = weak \union {w}
         /\ reported' = [reported EXCEPT ![w] = @ + TotalSize(w)]
         /\ UNCHANGED <<target, datas>>
    ELSE /\ target' = [target EXCEPT ![w] = None]
         /\ adjusted' = [adjusted EXCEPT ![w] = 0]
         /\ UNCHANGED <<weak, buckets, reported>>

\* php_v8_value_free(): the object is to forget its wrapper, which goes either way.
Free(w) ==
    /\ up /\ w \in live
    /\ live' = live \ {w}
    /\ IF target[w] # None /\ IsObject(target[w]) THEN DeleteSelf(target[w]) ELSE UNCHANGED identity
    /\ ReleaseHandle(w)
    /\ UNCHANGED <<up, kind, reached, terminating, externals>>

\* php_v8_isolate_free(), after the last wrapper: what the isolate was left
\* with is deleted, and V8 disposed of without another collection.
Dispose ==
    /\ up /\ live = {}
    /\ up' = FALSE
    /\ weak' = {}
    /\ target' = [w \in Wrappers |-> None]
    /\ buckets' = [w \in Wrappers |-> 0]
    /\ adjusted' = [w \in Wrappers |-> 0]
    /\ kind' = [o \in Things |-> None]
    /\ reached' = {}
    /\ self' = [o \in Things |-> None]
    /\ terminating' = FALSE /\ spoilt' = {}
    /\ externals' = {}
    /\ reported' = [w \in Wrappers |-> 0]
    /\ UNCHANGED live

-----------------------------------------------------------------------------
(* V8                                                                      *)

\* A script makes a value.
Create(o, k) ==
    /\ up /\ ~terminating /\ kind[o] = None
    /\ kind' = [kind EXCEPT ![o] = k]
    /\ reached' = reached \union {o}
    /\ UNCHANGED <<up, wrapping, datas, identity, terminating, externals, reported>>

\* Scripts lose their last way to a value.
Forget(o) ==
    /\ up /\ o \in reached
    /\ reached' = reached \ {o}
    /\ UNCHANGED <<up, wrapping, datas, kind, identity, terminating, externals, reported>>

\* A call made by a callback is stopped, by a limit or terminateExecution(); the
\* scripts below the callback are left.
Terminate ==
    /\ up /\ ~terminating
    /\ terminating' = TRUE
    /\ UNCHANGED <<up, wrapping, datas, kind, reached, identity, externals, reported>>

Terminated ==
    /\ terminating
    /\ terminating' = FALSE
    /\ UNCHANGED <<up, wrapping, datas, kind, reached, identity, externals, reported>>

\* Mutant: only the estimate for the buckets is taken back.
WeakCallbacksEstimate(gone) ==
    /\ weak' = weak \ gone
    /\ reported' = [w \in Wrappers |-> IF w \in gone THEN reported[w] - buckets[w] ELSE reported[w]]
    /\ target' = [w \in Wrappers |-> IF w \in gone THEN None ELSE target[w]]
    /\ buckets' = [w \in Wrappers |-> IF w \in gone THEN 0 ELSE buckets[w]]
    /\ adjusted' = [w \in Wrappers |-> IF w \in gone THEN 0 ELSE adjusted[w]]

\* php_v8_value_weak_callback() for each handle: the size is taken back, the
\* callables are released, the handle is reset.
WeakCallbacks(gone) ==
    /\ weak' = weak \ gone
    /\ reported' = [w \in Wrappers |-> IF w \in gone THEN reported[w] - TotalSize(w) ELSE reported[w]]
    /\ target' = [w \in Wrappers |-> IF w \in gone THEN None ELSE target[w]]
    /\ buckets' = [w \in Wrappers |-> IF w \in gone THEN 0 ELSE buckets[w]]
    /\ adjusted' = [w \in Wrappers |-> IF w \in gone THEN 0 ELSE adjusted[w]]

\* A collection may find any part of what neither scripts nor handles reach.
Collect(dead) ==
    /\ up /\ dead # {} /\ dead \subseteq Existing
    /\ dead \intersect (reached \union {target[w] : w \in live}) = {}
    /\ kind' = [o \in Things |-> IF o \in dead THEN None ELSE kind[o]]
    /\ self' = [o \in Things |-> IF o \in dead THEN None ELSE self[o]]
    /\ spoilt' = spoilt \ dead
    /\ externals' = {e \in externals : e[1] \notin dead}
    /\ WeakCallbacks({w \in weak : target[w] \in dead})
    /\ UNCHANGED <<up, live, reached, terminating>>

-----------------------------------------------------------------------------
PhpStep ==
    \/ \E w \in Wrappers, o \in Things, k \in Kinds : Construct(w, o, k)
    \/ \E w \in Wrappers, o \in Things : GetOrCreate(w, o) \/ ConstructAgain(w, o)
    \/ \E w \in Wrappers : \/ \E n \in {0, 1} : ConstructFailed(w, n)
                          \/ \E set \in BOOLEAN : SetAccessor(w, set)
                          \/ Reach(w) \/ Free(w)
    \/ \E w \in Wrappers, change \in {-1, 1} : Adjust(w, change)
    \/ Dispose

V8Step ==
    \/ \E o \in Things, k \in Kinds : Create(o, k)
    \/ \E o \in Things : Forget(o)
    \/ \E dead \in SUBSET Things : Collect(dead)
    \/ Terminate \/ Terminated

Next == PhpStep \/ V8Step
Spec == Init /\ [][Next]_vars

-----------------------------------------------------------------------------
(* Properties                                                              *)

\* An object's private property is the address of the one wrapper PHP has for
\* it: it never outlives the wrapper, whatever became of earlier ones, and an
\* object PHP holds is always given the same wrapper.  But for objects of which
\* a private property call failed; no other object is affected by them, nor a
\* new one in the place of a collected one.
SelfFaithful ==
    /\ \A o \in Things \ spoilt : self[o] # None => self[o] \in live /\ target[self[o]] = o
    /\ \A w \in live : target[w] \in Things \ spoilt /\ IsObject(target[w]) => self[target[w]] = w

\* No accessor and no function that V8 still has refers to a bucket that was
\* deleted, although the PHP object the bucket came with may be long gone.
CallbacksCallable ==
    \A e \in externals : e[2] \in live \union weak /\ target[e[2]] = e[1] /\ buckets[e[2]] > 0

\* What V8 was told of external memory is that of the weak handles left: what
\* is added when a wrapper goes is taken back to the byte when its value does.
ReportBalanced ==
    \A w \in Wrappers : reported[w] = IF w \in weak THEN TotalSize(w) ELSE 0
=============================================================================
