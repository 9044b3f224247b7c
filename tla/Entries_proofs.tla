-------------------------- MODULE Entries_proofs --------------------------
(***************************************************************************)
(* Entries for any sets of values and externals and any nesting bound.     *)
(***************************************************************************)
EXTENDS Entries, FiniteSetTheorems, SequenceTheorems, TLAPS

\* The watched entries of a stack.
Watches(f) == {i \in 1..Len(f) : f[i] = "watched"}
Count(f) == Cardinality(Watches(f))

\* limits.depth counts the watched entries on the stack, however they are left
\* (PHP_V8_MAYBE_CATCH returns early): "the outermost" is then what it says.
OutermostAgrees == depth = 0 <=> Watches(frames) = {}

-----------------------------------------------------------------------------
(* Counting the watched entries of a stack                                 *)

\* The watched entries of a stack are finitely many.
LEMMA WatchesFinite ==
    ASSUME NEW f \in Seq(Kinds)
    PROVE  IsFiniteSet(Watches(f)) /\ Count(f) \in Nat
<1>1. Watches(f) \in SUBSET (1..Len(f))
  BY DEF Watches
<1>2. IsFiniteSet(1..Len(f))
  BY FS_Interval, Len(f) \in Int
<1>3. IsFiniteSet(Watches(f))
  BY <1>1, <1>2, FS_Subset
<1> QED
  BY <1>3, FS_CardinalityType DEF Count

\* No more of them than there are entries.
LEMMA WatchesBounded ==
    ASSUME NEW f \in Seq(Kinds)
    PROVE  Count(f) <= Len(f)
<1>1. Len(f) \in Nat
  BY LenProperties
<1>2. IsFiniteSet(1..Len(f)) /\ Cardinality(1..Len(f)) = Len(f)
  <2>1. IsFiniteSet(1..Len(f)) /\ Cardinality(1..Len(f)) = IF 1 > Len(f) THEN 0 ELSE Len(f) - 1 + 1
    BY <1>1, FS_Interval
  <2> QED
    BY <1>1, <2>1
<1>3. Watches(f) \in SUBSET (1..Len(f))
  BY DEF Watches
<1>4. Cardinality(Watches(f)) <= Cardinality(1..Len(f))
  BY <1>2, <1>3, FS_Subset
<1> QED
  BY <1>2, <1>4 DEF Count

\* An empty stack holds none.
LEMMA WatchesEmpty == Watches(<< >>) = {} /\ Count(<< >>) = 0
<1>1. Watches(<< >>) = {}
  BY DEF Watches
<1> QED
  BY <1>1, FS_EmptySet DEF Count

\* Entering V8 adds one exactly when the entry is watched.
LEMMA WatchesAppend ==
    ASSUME NEW f \in Seq(Kinds), NEW k \in Kinds
    PROVE  /\ Append(f, k) \in Seq(Kinds)
           /\ Len(Append(f, k)) = Len(f) + 1
           /\ k = "watched" => Count(Append(f, k)) = Count(f) + 1
           /\ k # "watched" => Count(Append(f, k)) = Count(f)
<1>1. CASE k = "watched"
  <2>1. Watches(Append(f, k)) = Watches(f) \union {Len(f) + 1}
    BY <1>1 DEF Watches
  <2>2. Len(f) + 1 \notin Watches(f)
    BY DEF Watches
  <2> QED
    BY <1>1, <2>1, <2>2, WatchesFinite, FS_AddElement DEF Count
<1>2. CASE k # "watched"
  <2>1. Watches(Append(f, k)) = Watches(f)
    BY <1>2 DEF Watches
  <2> QED
    BY <1>2, <2>1 DEF Count
<1> QED
  BY <1>1, <1>2

\* Leaving V8 takes one away exactly when the entry was watched.
LEMMA WatchesPop ==
    ASSUME NEW f \in Seq(Kinds), f # << >>
    PROVE  /\ Pop(f) \in Seq(Kinds)
           /\ Len(Pop(f)) = Len(f) - 1
           /\ f[Len(f)] = "watched" => Count(f) > 0 /\ Count(Pop(f)) = Count(f) - 1
           /\ f[Len(f)] # "watched" => Count(Pop(f)) = Count(f)
<1>1. Len(f) \in Nat /\ Len(f) > 0
  BY EmptySeq, LenProperties
<1>2. /\ Pop(f) \in Seq(Kinds)
      /\ Len(Pop(f)) = Len(f) - 1
      /\ \A i \in 1..(Len(f) - 1) : Pop(f)[i] = f[i]
  <2>1. \A i \in 1..(Len(f) - 1) : f[i] \in Kinds
    BY <1>1, ElementOfSeq
  <2> DEFINE n == Len(f) - 1
  <2>2. n \in Nat /\ n \in Int /\ 1 \in Int
    BY <1>1
  <2>3. /\ SubSeq(f, 1, n) \in Seq(Kinds)
        /\ Len(SubSeq(f, 1, n)) = IF 1 <= n THEN n - 1 + 1 ELSE 0
        /\ \A i \in 1 .. n - 1 + 1 : SubSeq(f, 1, n)[i] = f[1 + i - 1]
    <3> HIDE DEF n
    <3> QED BY <2>1, <2>2, SubSeqProperties DEF n
  <2>4. Pop(f) = SubSeq(f, 1, n)
    BY DEF Pop
  <2>5. \A m \in Nat : (IF 1 <= m THEN m - 1 + 1 ELSE 0) = m /\ m - 1 + 1 = m
    OBVIOUS
  <2>6. \A i \in 1..n : 1 + i - 1 = i
    BY <1>1
  <2> HIDE DEF n
  <2>7. /\ Pop(f) \in Seq(Kinds)
        /\ Len(Pop(f)) = n
        /\ \A i \in 1..n : Pop(f)[i] = f[i]
    BY <2>2, <2>3, <2>4, <2>5, <2>6
  <2> QED
    BY <2>7 DEF n
<1>3. Watches(Pop(f)) = Watches(f) \ {Len(f)}
  BY <1>1, <1>2 DEF Watches
<1>4. Len(f) \in Watches(f) <=> f[Len(f)] = "watched"
  BY <1>1 DEF Watches
<1>5. IsFiniteSet(Watches(f)) /\ Count(f) \in Nat
  BY WatchesFinite
<1>6. CASE f[Len(f)] = "watched"
  <2>1. Cardinality(Watches(f) \ {Len(f)}) = Cardinality(Watches(f)) - 1
    BY <1>4, <1>5, <1>6, FS_RemoveElement
  <2>2. Count(Pop(f)) \in Nat
    BY <1>2, WatchesFinite
  <2> QED
    BY <1>2, <1>3, <1>5, <1>6, <2>1, <2>2 DEF Count
<1>7. CASE f[Len(f)] # "watched"
  <2>1. Watches(f) \ {Len(f)} = Watches(f)
    BY <1>4, <1>7
  <2> QED
    BY <1>2, <1>3, <1>7, <2>1 DEF Count
<1> QED
  BY <1>6, <1>7

\* Entering V8, and leaving a bare entry, hides no call that converts.
LEMMA ConvertingStays ==
    ASSUME NEW f \in Seq(Kinds), NEW k \in Kinds
    PROVE  /\ Converting(f) => Converting(Append(f, k))
           /\ (f # << >> /\ f[Len(f)] \notin Values /\ Converting(f)) => Converting(Pop(f))
<1>1. Converting(f) => Converting(Append(f, k))
  <2> SUFFICES ASSUME Converting(f) PROVE Converting(Append(f, k))
    OBVIOUS
  <2>1. PICK i \in 1..Len(f) : f[i] \in Values
    BY DEF Converting
  <2>2. Len(Append(f, k)) = Len(f) + 1 /\ Append(f, k)[i] = f[i]
    BY AppendProperties
  <2>3. i \in DOMAIN Append(f, k)
    BY <2>2, LenProperties, AppendProperties
  <2> QED
    BY <2>1, <2>2, <2>3 DEF Converting
<1>2. ASSUME f # << >>, f[Len(f)] \notin Values, Converting(f) PROVE Converting(Pop(f))
  <2>1. PICK i \in 1..Len(f) : f[i] \in Values
    BY <1>2 DEF Converting
  <2>2. i \in 1..(Len(f) - 1) /\ Len(f) \in Nat
    BY <1>2, <2>1, LenProperties
  <2>3. Pop(f)[i] = f[i] /\ i \in DOMAIN Pop(f)
    BY <2>2 DEF Pop
  <2> QED
    BY <2>1, <2>3 DEF Converting
<1> QED
  BY <1>1, <1>2

\* A call that converts what it caught is no longer counted.
LEMMA WatchesConvert ==
    ASSUME NEW f \in Seq(Kinds), f # << >>, f[Len(f)] = "watched", NEW v \in Values
    PROVE  /\ Append(Pop(f), v) \in Seq(Kinds)
           /\ Len(Append(Pop(f), v)) = Len(f)
           /\ Append(Pop(f), v) # << >>
           /\ Count(f) > 0 /\ Count(Append(Pop(f), v)) = Count(f) - 1
<1>1. /\ Pop(f) \in Seq(Kinds) /\ Len(Pop(f)) = Len(f) - 1
      /\ Count(f) > 0 /\ Count(Pop(f)) = Count(f) - 1
  BY WatchesPop
<1>2. v \in Kinds /\ v # "watched"
  BY ValuesAssumption DEF Kinds
<1>3. /\ Append(Pop(f), v) \in Seq(Kinds)
      /\ Len(Append(Pop(f), v)) = Len(Pop(f)) + 1
      /\ Count(Append(Pop(f), v)) = Count(Pop(f))
  BY <1>1, <1>2, WatchesAppend
<1>4. Len(f) \in Nat /\ Len(f) > 0
  BY EmptySeq, LenProperties
<1>5. Len(Append(Pop(f), v)) = Len(f)
  BY <1>1, <1>3, <1>4
<1>6. Append(Pop(f), v) # << >>
  BY <1>4, <1>5
<1> QED
  BY <1>1, <1>3, <1>5, <1>6

-----------------------------------------------------------------------------
(* The inductive invariant                                                 *)

\* The stack and the counter.
ControlOK ==
    /\ frames \in Seq(Kinds) /\ Len(frames) <= MaxFrames
    /\ php \in BOOLEAN /\ (frames = << >> => php)
    /\ depth \in Nat /\ depth = Count(frames)

\* What is being thrown, scheduled and pending.
ErrorsOK ==
    /\ thrown \in Values \union {Termination, None}
    /\ scheduled \in Values \union {Termination, None}
    /\ pending \in BOOLEAN

\* The PHP objects and their externals.
ExternalsOK ==
    /\ held \subseteq Values /\ kept \subseteq Values
    /\ attached \in [Values -> Externals \union {None}]
    /\ owed \in [Values -> Externals \union {None}] /\ lost \subseteq Values
    /\ caught \in [value : Values \union {None}, external : Externals \union {None}]

GivenOK == given \subseteq {"own", "foreign", "unbuilt", "hollow"}

\* Nothing is owed when no call is left to hand it over.
NothingOwed == depth = 0 /\ ~Converting(frames) => owed = Nobody

IInv == ControlOK /\ ErrorsOK /\ ExternalsOK /\ GivenOK /\ NothingOwed /\ ExternalsKept

-----------------------------------------------------------------------------
(* The handles of a call                                                   *)

\* What Attempts holds.
LEMMA AttemptShape ==
    ASSUME NEW a \in Attempts
    PROVE  \E m \in Methods : \E h \in HandlesOf(m) :
               a = [way |-> m.way, accepted |-> Accepted(m, h), handles |-> {h[r] : r \in m.roles}]
BY DEF Attempts

\* The statuses of a call's handles.
LEMMA AttemptHandles ==
    ASSUME NEW a \in Attempts
    PROVE  a.handles \subseteq {"own", "foreign", "unbuilt", "hollow"}
<1>0. PICK m \in Methods : \E h \in HandlesOf(m) :
          a = [way |-> m.way, accepted |-> Accepted(m, h), handles |-> {h[r] : r \in m.roles}]
  BY AttemptShape
<1>1. PICK h \in HandlesOf(m) :
          a = [way |-> m.way, accepted |-> Accepted(m, h), handles |-> {h[r] : r \in m.roles}]
  BY <1>0
<1>2. h \in [m.roles -> Statuses]
  BY DEF HandlesOf
<1> QED
  BY <1>1, <1>2 DEF Statuses

\* An accepted call of an expected program has handles of this isolate only.
LEMMA AcceptedOwn ==
    ASSUME Behaviours = {}, NEW a \in Attempts, a.accepted
    PROVE  a.handles \subseteq {"own"}
<1>0. PICK m \in Methods : \E h \in HandlesOf(m) :
          a = [way |-> m.way, accepted |-> Accepted(m, h), handles |-> {h[r] : r \in m.roles}]
  BY AttemptShape
<1>1. PICK h \in HandlesOf(m) :
          a = [way |-> m.way, accepted |-> Accepted(m, h), handles |-> {h[r] : r \in m.roles}]
  BY <1>0
<1>2. Accepted(m, h)
  BY <1>1
<1>3. h \in [m.roles -> {"own", "foreign", "unbuilt"}]
  BY DEF HandlesOf, Statuses
<1>4. ASSUME NEW r \in m.roles PROVE h[r] = "own"
  <2>1. h[r] # "unbuilt"
    BY <1>2 DEF Accepted, Built, Unpacked, Single
  <2>2. h[r] # "foreign"
    <3>1. CASE m.loose # {}
      <4>1. m.method \in Lenient
        BY <3>1 DEF Lenient
      <4> QED
        BY <4>1 DEF HandlesOf
    <3>2. CASE m.loose = {}
      <4>1. PICK s \in m.roles : h[s] = "own"
        BY DEF HandlesOf
      <4>2. \A x, y \in Single(m) : h[x] = "foreign" => h[y] # "own"
        BY <1>2, <3>2 DEF Accepted, SameIsolate
      <4>3. "arguments" \in m.roles =>
                \A x \in Single(m) : h[x] \in {"own", "foreign"} => h["arguments"] = h[x]
        BY <1>2 DEF Accepted, Unpacked
      <4> QED
        BY <4>1, <4>2, <4>3 DEF Single
    <3> QED
      BY <3>1, <3>2
  <2> QED
    BY <1>3, <2>1, <2>2
<1> QED
  BY <1>1, <1>4

-----------------------------------------------------------------------------
(* Leaving V8                                                              *)

\* What surviving associations are, and where they stay.
LEMMA SurvivingKeeps ==
    ASSUME NEW a \in [Values -> Externals \union {None}]
    PROVE  /\ Surviving(a) \in [Values -> Externals \union {None}]
           /\ \A v \in Values : v \in kept' => Surviving(a)[v] = a[v]
BY DEF Surviving

\* Whatever owed and lost become at depth d is of their types, and what is still
\* owed and not lost is kept.
LEMMA AtDepth ==
    ASSUME IInv, NEW d \in Nat
    PROVE  /\ OwedAt(d) \in [Values -> Externals \union {None}]
           /\ LostAt(d) \subseteq Values /\ KeptAt(d) \subseteq Values
           /\ d = 0 /\ ~Converting(frames)' => OwedAt(d) = Nobody
           /\ \A v \in Values \ LostAt(d) : OwedAt(d)[v] # None =>
                  v \notin lost /\ OwedAt(d)[v] = owed[v] /\ v \in KeptAt(d)
<1> USE DEF IInv, ExternalsOK
<1>1. Nobody \in [Values -> Externals \union {None}] /\ \A v \in Values : Nobody[v] = None
  BY DEF Nobody
<1>2. CASE d > 0
  <2>1. OwedAt(d) = owed /\ LostAt(d) = lost /\ KeptAt(d) = kept
    BY <1>2 DEF OwedAt, LostAt, KeptAt
  <2> QED
    BY <1>2, <2>1 DEF ExternalsKept
<1>3. CASE d = 0 /\ Converting(frames')
  <2>1. OwedAt(d) = owed /\ LostAt(d) = lost \union {v \in Values : owed[v] # None} /\ KeptAt(d) = {}
    BY <1>3 DEF OwedAt, LostAt, KeptAt
  <2> QED
    BY <1>3, <2>1
<1>4. CASE d = 0 /\ ~Converting(frames')
  <2>1. OwedAt(d) = Nobody /\ LostAt(d) = {} /\ KeptAt(d) = {}
    BY <1>4 DEF OwedAt, LostAt, KeptAt
  <2> QED
    BY <1>1, <1>4, <2>1
<1> QED
  BY <1>2, <1>3, <1>4

\* The end of a call gives up what is kept at depth 0 and nothing before.
LEMMA ReleaseKeeps ==
    ASSUME IInv, NEW d \in Nat, depth' = d, Release(d),
           caught' \in [value : Values \union {None}, external : Externals \union {None}]
    PROVE  ExternalsOK' /\ ExternalsKept' /\ NothingOwed'
<1> USE DEF IInv, ExternalsOK
<1>1. kept' = KeptAt(d) /\ owed' = OwedAt(d) /\ lost' = LostAt(d) /\ held' = held
      /\ attached' = Surviving(attached)
  BY DEF Release
<1>2. ExternalsOK'
  BY <1>1, AtDepth, SurvivingKeeps
<1>3. ExternalsKept'
  BY <1>1, AtDepth, SurvivingKeeps DEF ExternalsKept
<1>4. NothingOwed'
  <2>1. depth' = 0 /\ ~Converting(frames)' => OwedAt(d) = Nobody
    BY AtDepth
  <2> QED
    BY <1>1, <2>1 DEF NothingOwed, Nobody
<1> QED
  BY <1>2, <1>3, <1>4

\* So does a hand-over, which takes the external of what was caught first.
LEMMA HandOverKeeps ==
    ASSUME IInv, NEW x \in Values, NEW d \in Nat, depth' = d, HandOver(x, d)
    PROVE  ExternalsOK' /\ ExternalsKept' /\ NothingOwed'
<1> USE DEF IInv, ExternalsOK
<1>1. /\ kept' = KeptAt(d) /\ lost' = LostAt(d)
      /\ caught' = [value |-> x, external |-> attached[x]]
      /\ held' = held \union {x}
      /\ attached' = Surviving([attached EXCEPT ![x] = None])
      /\ owed' = [OwedAt(d) EXCEPT ![x] = None]
  BY DEF HandOver
<1>2. [attached EXCEPT ![x] = None] \in [Values -> Externals \union {None}]
  OBVIOUS
<1>3. ExternalsOK'
  BY <1>1, <1>2, AtDepth, SurvivingKeeps
<1>4. ExternalsKept'
  <2> SUFFICES ASSUME NEW v \in Values, v \notin lost', owed'[v] # None
               PROVE  attached'[v] = owed'[v] /\ v \in kept'
    BY DEF ExternalsKept
  <2>1. v # x /\ owed'[v] = OwedAt(d)[v]
    BY <1>1, AtDepth
  <2>2. v \notin lost /\ OwedAt(d)[v] = owed[v] /\ v \in KeptAt(d)
    BY <1>1, <2>1, AtDepth
  <2>3. attached[v] = owed[v]
    BY <2>1, <2>2 DEF ExternalsKept
  <2>4. attached'[v] = [attached EXCEPT ![x] = None][v]
    BY <1>1, <1>2, <2>2, SurvivingKeeps
  <2> QED
    BY <1>1, <2>1, <2>2, <2>3, <2>4
<1>5. NothingOwed'
  <2>1. depth' = 0 /\ ~Converting(frames)' => OwedAt(d) = Nobody
    BY AtDepth
  <2>2. [Nobody EXCEPT ![x] = None] = Nobody
    BY DEF Nobody
  <2> QED
    BY <1>1, <2>1, <2>2 DEF NothingOwed, Nobody
<1> QED
  BY <1>3, <1>4, <1>5

\* A frame that is left is watched exactly when depth counts it.
LEMMA LeaveControl ==
    ASSUME IInv, frames # << >>, frames' = Pop(frames), php' = TRUE,
           \/ Top = "watched" /\ depth' = depth - 1
           \/ Top # "watched" /\ depth' = depth
    PROVE  ControlOK'
<1> USE DEF IInv, ControlOK
<1>1. /\ Pop(frames) \in Seq(Kinds)
      /\ Len(Pop(frames)) = Len(frames) - 1
      /\ Top = "watched" => Count(frames) > 0 /\ Count(Pop(frames)) = Count(frames) - 1
      /\ Top # "watched" => Count(Pop(frames)) = Count(frames)
  BY WatchesPop DEF Top
<1>2. Len(frames) \in Nat /\ MaxFrames \in Nat
  BY LenProperties, FramesAssumption
<1>3. depth' \in Nat /\ depth' = Count(frames')
  BY <1>1
<1>4. frames' \in Seq(Kinds) /\ Len(frames') <= MaxFrames
  BY <1>1, <1>2
<1> QED
  BY <1>3, <1>4

-----------------------------------------------------------------------------
(* Invariance                                                              *)

\* The initial state.
LEMMA InitIInv == Init => IInv
<1> SUFFICES ASSUME Init PROVE IInv
  OBVIOUS
<1>1. ControlOK
  BY WatchesEmpty, FramesAssumption DEF Init, ControlOK
<1>2. ErrorsOK /\ ExternalsOK /\ GivenOK /\ NothingOwed /\ ExternalsKept
  BY DEF Init, ErrorsOK, ExternalsOK, GivenOK, NothingOwed, ExternalsKept, Nobody
<1> QED
  BY <1>1, <1>2 DEF IInv

\* Steps that leave the stack and the externals alone.
LEMMA ErrorStep ==
    ASSUME IInv, UNCHANGED <<frames, depth, externals, given>>, ErrorsOK',
           php' \in BOOLEAN, frames = << >> => php'
    PROVE  IInv'
<1>1. ControlOK'
  BY DEF IInv, ControlOK
<1>2. ExternalsOK' /\ GivenOK' /\ NothingOwed' /\ ExternalsKept'
  BY DEF IInv, ExternalsOK, GivenOK, NothingOwed, ExternalsKept, externals, Nobody
<1> QED
  BY <1>1, <1>2 DEF IInv

\* A call of a method.
LEMMA CallStep ==
    ASSUME IInv, NEW a \in Attempts, Refuse(a) \/ CallQuiet(a) \/ CallWatched(a) \/ CallBare(a)
    PROVE  IInv'
<1>1. a.handles \subseteq {"own", "foreign", "unbuilt", "hollow"}
  BY AttemptHandles
<1>2. CASE Refuse(a)
  BY <1>2, ErrorStep DEF Refuse, IInv, ErrorsOK, ControlOK, control
<1>3. CASE CallQuiet(a)
  <2>1. ControlOK' /\ ErrorsOK'
    BY <1>3 DEF CallQuiet, IInv, ControlOK, ErrorsOK, control, errors
  <2>2. ExternalsOK' /\ GivenOK' /\ NothingOwed' /\ ExternalsKept'
    BY <1>1, <1>3 DEF CallQuiet, IInv, ExternalsOK, GivenOK, NothingOwed, ExternalsKept,
                      externals, control, Nobody
  <2> QED
    BY <2>1, <2>2 DEF IInv
<1>4. CASE CallWatched(a)
  <2>1. ErrorsOK' /\ ExternalsOK' /\ GivenOK' /\ ExternalsKept'
    BY <1>1, <1>4 DEF CallWatched, IInv, ErrorsOK, ExternalsOK, GivenOK, ExternalsKept,
                      externals, errors
  <2>2. ControlOK' /\ depth' # 0
    <3>1. frames' = Append(frames, "watched") /\ depth' = depth + 1 /\ php' = FALSE
          /\ Len(frames) < MaxFrames
      BY <1>4 DEF CallWatched
    <3>2. frames' \in Seq(Kinds) /\ Len(frames') = Len(frames) + 1 /\ Count(frames') = Count(frames) + 1
      BY <3>1, WatchesAppend DEF IInv, ControlOK, Kinds
    <3>3. frames' # << >>
      BY <3>1 DEF IInv, ControlOK
    <3>4. Len(frames) \in Nat /\ MaxFrames \in Nat /\ depth \in Nat /\ depth = Count(frames)
      BY LenProperties, FramesAssumption DEF IInv, ControlOK
    <3>5. Len(frames') <= MaxFrames
      BY <3>1, <3>2, <3>4
    <3>6. depth' \in Nat /\ depth' = Count(frames') /\ depth' # 0
      BY <3>1, <3>2, <3>4
    <3> QED
      BY <3>1, <3>2, <3>3, <3>5, <3>6 DEF ControlOK
  <2> QED
    BY <2>1, <2>2 DEF IInv, NothingOwed
<1>5. CASE CallBare(a)
  <2>1. ErrorsOK' /\ ExternalsOK' /\ GivenOK' /\ ExternalsKept'
    BY <1>1, <1>5 DEF CallBare, IInv, ErrorsOK, ExternalsOK, GivenOK, ExternalsKept,
                      externals, errors
  <2>3. NothingOwed'
    <3>1. frames' = Append(frames, "bare") /\ depth' = depth /\ owed' = owed
      BY <1>5 DEF CallBare, externals
    <3>2. Converting(frames) => Converting(frames')
      BY <3>1, ConvertingStays DEF IInv, ControlOK, Kinds
    <3> QED
      BY <3>1, <3>2 DEF IInv, NothingOwed, Nobody
  <2>2. ControlOK'
    <3>1. frames' = Append(frames, "bare") /\ depth' = depth /\ php' = FALSE
          /\ Len(frames) < MaxFrames
      BY <1>5 DEF CallBare
    <3>2. frames' \in Seq(Kinds) /\ Len(frames') = Len(frames) + 1 /\ Count(frames') = Count(frames)
      BY <3>1, WatchesAppend DEF IInv, ControlOK, Kinds
    <3>3. frames' # << >>
      BY <3>1 DEF IInv, ControlOK
    <3>4. Len(frames) \in Nat /\ MaxFrames \in Nat /\ depth \in Nat /\ depth = Count(frames)
      BY LenProperties, FramesAssumption DEF IInv, ControlOK
    <3>5. Len(frames') <= MaxFrames
      BY <3>1, <3>2, <3>4
    <3>6. depth' \in Nat /\ depth' = Count(frames')
      BY <3>1, <3>2, <3>4
    <3> QED
      BY <3>1, <3>2, <3>3, <3>5, <3>6 DEF ControlOK
  <2> QED
    BY <2>1, <2>2, <2>3 DEF IInv
<1> QED
  BY <1>2, <1>3, <1>4, <1>5

\* throwException() with an external.
LEMMA AssociateStep ==
    ASSUME IInv, NEW v \in Values, NEW e \in Externals, Associate(v, e)
    PROVE  IInv'
<1> USE DEF IInv, ExternalsOK
<1>1. ControlOK' /\ ErrorsOK' /\ GivenOK'
  BY DEF Associate, ControlOK, ErrorsOK, GivenOK, control
<1>2. ExternalsOK'
  BY DEF Associate
<1>3. NothingOwed'
  BY DEF Associate, NothingOwed, ControlOK, control, Nobody
<1>4. ExternalsKept'
  BY DEF Associate, ExternalsKept
<1> QED
  BY <1>1, <1>2, <1>3, <1>4

\* Values come and go in PHP.
LEMMA ReferenceStep ==
    ASSUME IInv, NEW v \in Values, Obtain(v) \/ Drop(v)
    PROVE  IInv'
<1> USE DEF IInv, ExternalsOK
<1>1. ControlOK' /\ ErrorsOK' /\ GivenOK' /\ NothingOwed'
  BY DEF Obtain, Drop, ControlOK, ErrorsOK, GivenOK, NothingOwed, control, errors, Nobody
<1>2. CASE Obtain(v)
  <2>1. ExternalsOK' /\ ExternalsKept'
    BY <1>2 DEF Obtain, ExternalsKept
  <2> QED
    BY <1>1, <2>1
<1>3. CASE Drop(v)
  <2>1. ExternalsOK' /\ ExternalsKept'
    BY <1>3, SurvivingKeeps DEF Drop, ExternalsKept
  <2> QED
    BY <1>1, <2>1
<1> QED
  BY <1>2, <1>3

\* What the ways out of V8 have in common.
LEMMA LeaveBase ==
    ASSUME IInv, Leave
    PROVE  /\ frames # << >> /\ depth \in Nat /\ ErrorsOK' /\ GivenOK'
           /\ ~FailWatched => ControlOK'
           /\ caught' \in [value : Values \union {None}, external : Externals \union {None}]
<1> USE DEF Leave, Fail, FinishWatched, FinishBare, FailWatched, FailTerminated, FailBare,
            Converted, NotConverted
<1>1. frames # << >> /\ depth \in Nat /\ thrown \in Values \union {Termination, None}
  BY DEF IInv, ControlOK, ErrorsOK
<1>2. GivenOK'
  BY DEF IInv, GivenOK
<1>3. ErrorsOK'
  BY DEF IInv, ErrorsOK, Onward, errors
<1>4. ~FailWatched => ControlOK'
  <2>1. Top \in Values => Top # "watched"
    BY ValuesAssumption
  <2> QED
    BY <1>1, <2>1, LeaveControl DEF externals
<1>5. caught' \in [value : Values \union {None}, external : Externals \union {None}]
  <2>1. CASE Converted
    <3>1. Top \in Values /\ caught' = [value |-> Top, external |-> attached[Top]]
      BY <2>1 DEF HandOver
    <3> QED
      BY <3>1 DEF IInv, ExternalsOK
  <2>2. CASE ~Converted
    BY <2>2 DEF externals, IInv, ExternalsOK
  <2> QED
    BY <2>1, <2>2
<1> QED
  BY <1>1, <1>2, <1>3, <1>4, <1>5

\* V8 is left, or a call begins to convert what it caught.
LEMMA LeaveStep ==
    ASSUME IInv, Leave
    PROVE  IInv'
<1>1. PICK d : d = depth'
  OBVIOUS
<1>2. CASE FinishWatched \/ FailTerminated \/ NotConverted
  <2>1. ControlOK' /\ d \in Nat
    <3>1. ~FailWatched
      BY <1>2, ValuesAssumption DEF FinishWatched, FailTerminated, NotConverted, FailWatched
    <3> QED
      BY <1>1, <3>1, LeaveBase DEF ControlOK
  <2>2. Release(d)
    BY <1>1, <1>2 DEF FinishWatched, FailTerminated, NotConverted
  <2>3. ExternalsOK' /\ ExternalsKept' /\ NothingOwed'
    BY <1>1, <2>1, <2>2, LeaveBase, ReleaseKeeps
  <2> QED
    BY <2>1, <2>3, LeaveBase DEF IInv
<1>3. CASE Converted
  <2>1. ControlOK' /\ d \in Nat
    <3>1. ~FailWatched
      BY <1>3, ValuesAssumption DEF Converted, FailWatched
    <3> QED
      BY <1>1, <3>1, LeaveBase DEF ControlOK
  <2>2. PICK x \in Values : x = Top
    BY <1>3 DEF Converted
  <2>3. HandOver(x, d)
    BY <1>1, <1>3, <2>2 DEF Converted
  <2>4. ExternalsOK' /\ ExternalsKept' /\ NothingOwed'
    BY <1>1, <2>1, <2>3, HandOverKeeps
  <2> QED
    BY <2>1, <2>4, LeaveBase DEF IInv
<1>4. CASE FinishBare \/ FailBare
  <2>1. ~FailWatched
    BY <1>4 DEF FinishBare, FailBare, FailWatched
  <2>2. ExternalsOK' /\ ExternalsKept'
    BY <1>4 DEF FinishBare, FailBare, IInv, ExternalsOK, ExternalsKept, externals
  <2>3. NothingOwed'
    <3>1. frames' = Pop(frames) /\ depth' = depth /\ owed' = owed /\ Top = "bare"
      BY <1>4 DEF FinishBare, FailBare, externals
    <3>2. Converting(frames) => Converting(frames')
      BY <3>1, LeaveBase, ConvertingStays, ValuesAssumption DEF IInv, ControlOK, Top, Kinds
    <3> QED
      BY <3>1, <3>2 DEF IInv, NothingOwed, Nobody
  <2> QED
    BY <2>1, <2>2, <2>3, LeaveBase DEF IInv
<1>5. CASE FailWatched
  <2>1. PICK x \in Values : x = thrown
    BY <1>5 DEF FailWatched
  <2>2. /\ frames' = Append(Pop(frames), x) /\ depth' = depth - 1 /\ php' = FALSE
        /\ frames # << >> /\ frames[Len(frames)] = "watched"
    BY <1>5, <2>1, LeaveBase DEF FailWatched, Top
  <2>3. /\ frames' \in Seq(Kinds) /\ Len(frames') = Len(frames) /\ frames' # << >>
        /\ Count(frames) > 0 /\ Count(frames') = Count(frames) - 1
    BY <2>2, WatchesConvert DEF IInv, ControlOK
  <2>4. ControlOK'
    <3>1. depth \in Nat /\ depth = Count(frames) /\ Len(frames) <= MaxFrames
      BY DEF IInv, ControlOK
    <3>2. depth' \in Nat /\ depth' = Count(frames')
      BY <2>2, <2>3, <3>1
    <3>3. frames' \in Seq(Kinds) /\ Len(frames') <= MaxFrames
      BY <2>3, <3>1
    <3>4. php' \in BOOLEAN /\ (frames' = << >> => php')
      BY <2>2, <2>3
    <3> QED
      BY <3>2, <3>3, <3>4 DEF ControlOK
  <2>5. Converting(frames')
    <3>1. Pop(frames) \in Seq(Kinds)
      BY <2>2, WatchesPop DEF IInv, ControlOK
    <3>2. x \in Kinds
      BY DEF Kinds
    <3>3. frames'[Len(Pop(frames)) + 1] = x /\ Len(Pop(frames)) + 1 \in DOMAIN frames'
      BY <2>2, <3>1, <3>2, AppendProperties, LenProperties
    <3> QED
      BY <3>3 DEF Converting
  <2>6. ExternalsOK' /\ ExternalsKept' /\ NothingOwed'
    <3>1. UNCHANGED <<held, kept, attached, owed, lost, caught>>
      BY <1>5 DEF FailWatched, externals
    <3> QED
      BY <2>5, <3>1 DEF IInv, ExternalsOK, ExternalsKept, NothingOwed
  <2> QED
    BY <2>4, <2>6, LeaveBase DEF IInv
<1> QED
  BY <1>2, <1>3, <1>4, <1>5 DEF Leave, Fail

\* Every step.
LEMMA NextIInv == IInv /\ [Next]_vars => IInv'
<1> SUFFICES ASSUME IInv, [Next]_vars PROVE IInv'
  OBVIOUS
<1>1. CASE Calls
  BY <1>1, CallStep DEF Calls
<1>2. CASE Throws
  <2>1. ASSUME NEW v \in Values, ThrowValue(v) \/ AssociateRefused(v) PROVE IInv'
    <3>1. /\ UNCHANGED <<frames, depth, externals, given>> /\ ErrorsOK'
          /\ php' \in BOOLEAN /\ (frames = << >> => php')
      BY <2>1 DEF ThrowValue, AssociateRefused, IInv, ErrorsOK, ControlOK, control, externals
    <3> QED
      BY <3>1, ErrorStep
  <2> QED
    BY <1>2, <2>1, AssociateStep DEF Throws
<1>3. CASE PhpThrow \/ PhpCatch \/ Return
  <2>1. /\ UNCHANGED <<frames, depth, externals, given>> /\ ErrorsOK'
        /\ php' \in BOOLEAN /\ (frames = << >> => php')
    BY <1>3 DEF PhpThrow, PhpCatch, Return, IInv, ErrorsOK, ControlOK, control, externals
  <2> QED
    BY <2>1, ErrorStep
<1>4. CASE \E v \in Values : Obtain(v) \/ Drop(v)
  BY <1>4, ReferenceStep
<1>5. CASE JsStep
  <2>1. /\ UNCHANGED <<frames, depth, externals, given>> /\ ErrorsOK'
        /\ php' \in BOOLEAN /\ (frames = << >> => php')
    BY <1>5 DEF JsStep, JsThrow, JsCatch, Stop, Callback, IInv, ErrorsOK, ControlOK, control,
                externals, errors
  <2> QED
    BY <2>1, ErrorStep
<1>6. CASE Leave
  BY <1>6, LeaveStep
<1>7. CASE UNCHANGED vars
  <2>1. /\ UNCHANGED <<frames, depth, externals, given>> /\ ErrorsOK'
        /\ php' \in BOOLEAN /\ (frames = << >> => php')
    BY <1>7 DEF vars, control, errors, IInv, ErrorsOK, ControlOK
  <2> QED
    BY <2>1, ErrorStep
<1> QED
  BY <1>1, <1>2, <1>3, <1>4, <1>5, <1>6, <1>7 DEF Next, PhpStep

\* The inductive invariant holds in every reachable state.
THEOREM Invariance == Spec => []IInv
BY InitIInv, NextIInv, PTL DEF Spec

\* Every variable keeps its type, and depth never underflows.
THEOREM TypeCorrect == Spec => []TypeOK
<1>1. IInv => TypeOK
  <2> SUFFICES ASSUME IInv PROVE TypeOK
    OBVIOUS
  <2>1. depth \in 0..Len(frames)
    BY WatchesBounded, LenProperties DEF IInv, ControlOK
  <2> QED
    BY <2>1 DEF IInv, TypeOK, ControlOK, ErrorsOK, ExternalsOK, GivenOK
<1> QED
  BY <1>1, Invariance, PTL

\* depth is 0 exactly when no entry on the stack is watched.
THEOREM Outermost == Spec => []OutermostAgrees
<1>1. IInv => OutermostAgrees
  <2> SUFFICES ASSUME IInv PROVE OutermostAgrees
    OBVIOUS
  <2>1. IsFiniteSet(Watches(frames)) /\ depth = Cardinality(Watches(frames))
    BY WatchesFinite DEF IInv, ControlOK, Count
  <2>2. Cardinality(Watches(frames)) = 0 <=> Watches(frames) = {}
    BY <2>1, FS_EmptySet
  <2> QED
    BY <2>1, <2>2 DEF OutermostAgrees
<1> QED
  BY <1>1, Invariance, PTL

\* An external stays associated, and its value's PHP object is kept, until a
\* watched call hands it over, conversions and all that runs in them included;
\* the exception is spelt out in what lost is.
THEOREM ExternalsSafe == Spec => []ExternalsKept
<1>1. IInv => ExternalsKept
  BY DEF IInv
<1> QED
  BY <1>1, Invariance, PTL

-----------------------------------------------------------------------------
(* What a step may do                                                      *)

\* A watched call that has converted what it caught hands over the external the
\* value was thrown with.
THEOREM Delivered == Spec => ExternalDelivered
<1>1. ASSUME IInv, [Next]_vars
      PROVE  [\A v \in Values \ lost : (Converted /\ Top = v /\ owed[v] # None)
                  => caught' = [value |-> v, external |-> owed[v]]]_vars
  <2>1. ASSUME NEW v \in Values \ lost, Converted, Top = v, owed[v] # None
        PROVE  caught' = [value |-> v, external |-> owed[v]]
    <3>1. caught' = [value |-> v, external |-> attached[v]]
      BY <2>1 DEF Converted, HandOver
    <3> QED
      BY <1>1, <2>1, <3>1 DEF IInv, ExternalsKept
  <2> QED
    BY <2>1
<1> QED
  BY <1>1, Invariance, PTL DEF Spec, ExternalDelivered

\* Every way out of the outermost watched call, a failed conversion included,
\* releases what was kept.
THEOREM Released == Spec => AllReleased
<1>1. ASSUME IInv, [Next]_vars
      PROVE  [(Len(frames') < Len(frames) /\ Top # "bare" /\ depth' = 0) => kept' = {}]_vars
  <2> SUFFICES ASSUME Len(frames') < Len(frames), Top # "bare", depth' = 0 PROVE kept' = {}
    OBVIOUS
  <2>1. Len(frames) \in Nat /\ ~(Len(frames) < Len(frames)) /\ ~(Len(frames) + 1 < Len(frames))
    BY <1>1, LenProperties DEF IInv, ControlOK
  <2>2. \A a : ~CallWatched(a) /\ ~CallBare(a)
    <3>1. Len(Append(frames, "watched")) = Len(frames) + 1 /\ Len(Append(frames, "bare")) = Len(frames) + 1
      BY <1>1, WatchesAppend DEF IInv, ControlOK, Kinds
    <3> QED
      BY <2>1, <3>1 DEF CallWatched, CallBare
  <2>3. ~FailWatched
    <3> SUFFICES ASSUME FailWatched PROVE FALSE
      OBVIOUS
    <3>1. PICK x \in Values : x = thrown
      BY DEF FailWatched
    <3>2. Len(Append(Pop(frames), x)) = Len(frames)
      BY <1>1, WatchesConvert DEF FailWatched, IInv, ControlOK, Top
    <3> QED
      BY <2>1, <3>1, <3>2 DEF FailWatched
  <2>4. FinishWatched \/ FailTerminated \/ Converted \/ NotConverted
    BY <1>1, <2>1, <2>2, <2>3 DEF Next, vars, control, PhpStep, JsStep, Leave, Fail, Calls, Throws,
         Refuse, CallQuiet, ThrowValue, Associate, AssociateRefused, PhpThrow, PhpCatch, Return,
         Obtain, Drop, JsThrow, JsCatch, Stop, Callback, FinishBare, FailBare
  <2>5. kept' = KeptAt(0)
    BY <2>4 DEF FinishWatched, FailTerminated, Converted, NotConverted, Release, HandOver
  <2> QED
    BY <2>5 DEF KeptAt
<1> QED
  BY <1>1, Invariance, PTL DEF Spec, AllReleased

\* A program that does what is expected of it never makes V8 meet handles of
\* two isolates or an empty one, whichever methods it calls with whatever it has.
THEOREM HandlesOwn == (Behaviours = {}) => (Spec => []OwnHandles)
<1> SUFFICES ASSUME Behaviours = {} PROVE Spec => []OwnHandles
  OBVIOUS
<1>1. Init => OwnHandles
  BY DEF Init, OwnHandles
<1>2. OwnHandles /\ [Next]_vars => OwnHandles'
  <2> SUFFICES ASSUME OwnHandles, [Next]_vars PROVE OwnHandles'
    OBVIOUS
  <2>1. CASE \E a \in Attempts : CallQuiet(a) \/ CallWatched(a) \/ CallBare(a)
    <3>1. PICK a \in Attempts : CallQuiet(a) \/ CallWatched(a) \/ CallBare(a)
      BY <2>1
    <3>2. a.accepted /\ given' = a.handles
      BY <3>1 DEF CallQuiet, CallWatched, CallBare
    <3> QED
      BY <3>2, AcceptedOwn DEF OwnHandles
  <2>2. CASE ~(\E a \in Attempts : CallQuiet(a) \/ CallWatched(a) \/ CallBare(a))
    <3>1. given' = given
      BY <2>2 DEF Next, vars, PhpStep, JsStep, Leave, Calls, Throws, Refuse, ThrowValue,
           Associate, AssociateRefused, PhpThrow, PhpCatch, Return, Obtain, Drop, JsThrow,
           JsCatch, Stop, Callback, Fail, FinishWatched, FailWatched, FailTerminated, FinishBare,
           FailBare, Converted, NotConverted
    <3> QED
      BY <3>1 DEF OwnHandles
  <2> QED
    BY <2>1, <2>2
<1> QED
  BY <1>1, <1>2, PTL DEF Spec
=============================================================================
