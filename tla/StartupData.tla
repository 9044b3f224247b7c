----------------------------- MODULE StartupData -----------------------------
(***************************************************************************)
(* Snapshot blobs shared between V8\StartupData and V8\Isolate objects     *)
(* (php_v8_startup_data.{h,cc}, php_v8_isolate.cc).                        *)
(*                                                                         *)
(* A blob has a reference count of its own.  The PHP object that made it   *)
(* holds one reference and each isolate created from it another; V8 reads  *)
(* the blob's data as long as its isolate exists, whenever it makes a      *)
(* context.  A blob of another version of V8 is marked rejected and the    *)
(* isolate is created without it.                                          *)
(*                                                                         *)
(* Freeing an Isolate object disposes of the V8 isolate, then destroys the *)
(* properties of the PHP object, whose destructors are PHP code, and then  *)
(* releases the blob.                                                      *)
(***************************************************************************)
EXTENDS Integers, FiniteSets

CONSTANTS Snapshots,    \* V8\StartupData objects
          Isolates,     \* V8\Isolate objects
          Blobs,        \* addresses of phpv8::StartupData
          NoBlob,
          MaxUse,       \* bound: references to a blob
          Behaviours    \* "reconstruct": programs call __construct() again

ASSUME BlobsAssumption == NoBlob \notin Blobs
ASSUME UseAssumption == MaxUse \in Nat
ASSUME ObjectsAssumption ==
    /\ IsFiniteSet(Snapshots) /\ IsFiniteSet(Isolates)
    /\ Snapshots \intersect Isolates = {}

VARIABLES
    snapshots,   \* the StartupData objects that exist
    blob,        \* php_v8_startup_data_t::blob
    stage,       \* of an Isolate object: "none", "open", "closing"
    taken,       \* php_v8_isolate_t::blob
    reads,       \* the blob an isolate's V8 isolate was created from
    allocated,   \* blobs that are not deleted
    inUse,       \* in_use
    usable,      \* of a blob: it has data
    matches,     \* of a blob: its version is the one of this V8
    rejected,    \* _rejected
    leaked       \* history: references to a blob that a second constructor
                 \* call overwrote

objects == <<snapshots, blob>>
engines == <<stage, taken, reads>>
memory  == <<allocated, inUse, usable, matches, rejected>>
vars    == <<objects, engines, memory, leaked>>

Init ==
    /\ snapshots = {}
    /\ blob = [s \in Snapshots |-> NoBlob]
    /\ stage = [i \in Isolates |-> "none"]
    /\ taken = [i \in Isolates |-> NoBlob]
    /\ reads = [i \in Isolates |-> NoBlob]
    /\ allocated = {}
    /\ inUse = [b \in Blobs |-> 0]
    /\ usable = [b \in Blobs |-> FALSE]
    /\ matches = [b \in Blobs |-> FALSE]
    /\ rejected = [b \in Blobs |-> FALSE]
    /\ leaked = [b \in Blobs |-> 0]

\* new phpv8::StartupData(data, version)
NewBlob(b, data, current) ==
    /\ b \notin allocated
    /\ allocated' = allocated \union {b}
    /\ inUse' = [inUse EXCEPT ![b] = 1]
    /\ usable' = [usable EXCEPT ![b] = data]
    /\ matches' = [matches EXCEPT ![b] = current]
    /\ rejected' = [rejected EXCEPT ![b] = FALSE]

\* Mutant: the blob is deleted with one reference left.
ReleaseEarly(b) ==
    /\ inUse' = [inUse EXCEPT ![b] = @ - 1]
    /\ allocated' = IF inUse[b] <= 2 THEN allocated \ {b} ELSE allocated
    /\ UNCHANGED <<usable, matches, rejected>>

\* if (blob->release()) delete blob;
Release(b) ==
    /\ inUse' = [inUse EXCEPT ![b] = @ - 1]
    /\ allocated' = IF inUse[b] = 1 THEN allocated \ {b} ELSE allocated
    /\ UNCHANGED <<usable, matches, rejected>>

\* A pointer to a blob is overwritten.
Forget(b) == leaked' = [x \in Blobs |-> IF x = b THEN leaked[x] + 1 ELSE leaked[x]]

-----------------------------------------------------------------------------
\* StartupData::__construct(): the string's tag is the version, the rest the
\* data.  A blob the object had before is not released.
Construct(s, b, data, current) ==
    /\ s \in snapshots => "reconstruct" \in Behaviours
    /\ snapshots' = snapshots \union {s}
    /\ blob' = [blob EXCEPT ![s] = b]
    /\ Forget(blob[s])
    /\ NewBlob(b, data, current)
    /\ UNCHANGED engines

\* The constructor threw, its string being too small or too large, and a
\* subclass caught the exception: the object has no blob.
ConstructFailed(s) ==
    /\ s \notin snapshots
    /\ snapshots' = snapshots \union {s}
    /\ UNCHANGED <<blob, engines, memory, leaked>>

\* StartupData::createFromSource() and warmUpSnapshotDataBlob(): V8's result is
\* copied into a blob of a new object.
Create(s, b) ==
    /\ s \notin snapshots
    /\ snapshots' = snapshots \union {s}
    /\ blob' = [blob EXCEPT ![s] = b]
    /\ NewBlob(b, TRUE, TRUE)
    /\ UNCHANGED <<engines, leaked>>

FreeSnapshot(s) ==
    /\ s \in snapshots
    /\ snapshots' = snapshots \ {s}
    /\ blob' = [blob EXCEPT ![s] = NoBlob]
    /\ IF blob[s] = NoBlob THEN UNCHANGED memory ELSE Release(blob[s])
    /\ UNCHANGED <<engines, leaked>>

-----------------------------------------------------------------------------
\* A new V8 isolate, which takes the place of the one the object had, if any:
\* that one is neither used nor disposed of any more.
NewEngine(i, b) ==
    /\ stage' = [stage EXCEPT ![i] = "open"]
    /\ reads' = [reads EXCEPT ![i] = b]

MayOpen(i) ==
    \/ stage[i] = "none"
    \/ stage[i] = "open" /\ "reconstruct" \in Behaviours

\* Isolate::__construct() without a snapshot, or with one that is empty or
\* already rejected.  The creation parameters of an earlier call stay as they are.
OpenPlain(i) ==
    /\ MayOpen(i)
    /\ NewEngine(i, taken[i])
    /\ UNCHANGED <<objects, taken, memory, leaked>>

\* Mutant: the isolate takes the blob's data without acquiring it.
OpenFromUncounted(i, s) ==
    LET b == blob[s] IN
    /\ MayOpen(i) /\ s \in snapshots
    /\ b # NoBlob /\ usable[b] /\ ~rejected[b] /\ matches[b]
    /\ Forget(taken[i])
    /\ taken' = [taken EXCEPT ![i] = b]
    /\ NewEngine(i, b)
    /\ UNCHANGED <<objects, memory>>

\* Isolate::__construct() with a snapshot of this version.
OpenFrom(i, s) ==
    LET b == blob[s] IN
    /\ MayOpen(i) /\ s \in snapshots
    /\ b # NoBlob /\ usable[b] /\ ~rejected[b] /\ matches[b]
    /\ inUse[b] < MaxUse
    /\ Forget(taken[i])
    /\ taken' = [taken EXCEPT ![i] = b]
    /\ inUse' = [inUse EXCEPT ![b] = @ + 1]
    /\ NewEngine(i, b)
    /\ UNCHANGED <<objects, allocated, usable, matches, rejected>>

\* Mutant: the isolate is created from the blob all the same.
OpenRejectedAnyway(i, s) ==
    LET b == blob[s] IN
    /\ MayOpen(i) /\ s \in snapshots
    /\ b # NoBlob /\ usable[b] /\ ~rejected[b] /\ ~matches[b]
    /\ rejected' = [rejected EXCEPT ![b] = TRUE]
    /\ taken' = [taken EXCEPT ![i] = b]
    /\ inUse' = [inUse EXCEPT ![b] = @ + 1]
    /\ NewEngine(i, b)
    /\ UNCHANGED <<objects, allocated, usable, matches, leaked>>

\* Isolate::__construct() with a snapshot of another version.
OpenRejected(i, s) ==
    LET b == blob[s] IN
    /\ MayOpen(i) /\ s \in snapshots
    /\ b # NoBlob /\ usable[b] /\ ~rejected[b] /\ ~matches[b]
    /\ rejected' = [rejected EXCEPT ![b] = TRUE]
    /\ NewEngine(i, taken[i])
    /\ UNCHANGED <<objects, taken, allocated, inUse, usable, matches, leaked>>

\* Mutant: the blob is released before V8's isolate is disposed of.
DisposeLate(i) ==
    /\ stage[i] = "open"
    /\ stage' = [stage EXCEPT ![i] = "closing"]
    /\ taken' = [taken EXCEPT ![i] = NoBlob]
    /\ IF taken[i] = NoBlob THEN UNCHANGED memory ELSE Release(taken[i])
    /\ UNCHANGED <<objects, reads, leaked>>

\* php_v8_isolate_free() up to the destruction of the object's properties.
Dispose(i) ==
    /\ stage[i] = "open"
    /\ stage' = [stage EXCEPT ![i] = "closing"]
    /\ reads' = [reads EXCEPT ![i] = NoBlob]
    /\ UNCHANGED <<objects, taken, memory, leaked>>

\* The rest of php_v8_isolate_free().
ReleaseBlob(i) ==
    /\ stage[i] = "closing"
    /\ stage' = [stage EXCEPT ![i] = "none"]
    /\ taken' = [taken EXCEPT ![i] = NoBlob]
    /\ IF taken[i] = NoBlob THEN UNCHANGED memory ELSE Release(taken[i])
    /\ UNCHANGED <<objects, reads, leaked>>

Next ==
    \/ \E s \in Snapshots :
          \/ \E b \in Blobs, data \in BOOLEAN, current \in BOOLEAN :
                Construct(s, b, data, current)
          \/ ConstructFailed(s)
          \/ \E b \in Blobs : Create(s, b)
          \/ FreeSnapshot(s)
    \/ \E i \in Isolates :
          \/ OpenPlain(i)
          \/ \E s \in Snapshots : OpenFrom(i, s) \/ OpenRejected(i, s)
          \/ Dispose(i)
          \/ ReleaseBlob(i)

Spec == Init /\ [][Next]_vars

-----------------------------------------------------------------------------
\* Properties.

\* The references to a blob.
Owners(b) == {s \in Snapshots : blob[s] = b} \union {i \in Isolates : taken[i] = b}

TypeOK ==
    /\ snapshots \subseteq Snapshots
    /\ blob \in [Snapshots -> Blobs \union {NoBlob}]
    /\ stage \in [Isolates -> {"none", "open", "closing"}]
    /\ taken \in [Isolates -> Blobs \union {NoBlob}]
    /\ reads \in [Isolates -> Blobs \union {NoBlob}]
    /\ allocated \subseteq Blobs
    /\ inUse \in [Blobs -> Nat]
    /\ usable \in [Blobs -> BOOLEAN]
    /\ matches \in [Blobs -> BOOLEAN]
    /\ rejected \in [Blobs -> BOOLEAN]
    /\ leaked \in [Blobs -> Nat]

\* The count of a blob is the number of the objects that refer to it and of the
\* references that were overwritten.  Only a blob without any is deleted, so that
\* no object refers to a deleted one, and each such blob is.
CountExact ==
    \A b \in Blobs :
        /\ inUse[b] = Cardinality(Owners(b)) + leaked[b]
        /\ b \in allocated <=> Owners(b) # {} \/ leaked[b] > 0

\* No V8 isolate reads a blob that has been deleted, whatever is constructed,
\* constructed again and freed.
ReadersSafe ==
    \A b \in Blobs :
        (\E i \in Isolates : reads[i] = b) => b \in allocated

\* V8 never reads a blob of another version, nor an empty one.
ReadersCompatible ==
    \A i \in Isolates :
        reads[i] # NoBlob => /\ usable[reads[i]] /\ matches[reads[i]]
                             /\ ~rejected[reads[i]]
=============================================================================
