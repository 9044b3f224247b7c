------------------------ MODULE CallbackReturn_proofs ------------------------
(***************************************************************************)
(* Theorems about CallbackReturn for any number of objects and any depth   *)
(* of callbacks.  What exit() leaves behind is excluded by an assumption   *)
(* where it matters: the frames vanish and their objects do not expire.    *)
(***************************************************************************)
EXTENDS CallbackReturn, SequenceTheorems, TLAPS

\* A frame's object exists as long as the frame.
OwnersHeld == \A i \in DOMAIN stack : stack[i].owner \in held

\* Objects that do not exist accept nothing.
OnlyHeldAccept == \A o \in Objects : accepts[o] # "invalid" => o \in held

FrameInv == TypeOK /\ OwnersHeld /\ OwnFrame /\ OnlyHeldAccept

IInv == FrameInv /\ ExpiredAfterwards /\ ResultsTyped

-----------------------------------------------------------------------------
\* Lemmas about sequences: what entering, leaving and filling a frame does.

LEMMA AppendFrame ==
    ASSUME NEW S, NEW s \in Seq(S), NEW f \in S
    PROVE  /\ Append(s, f) \in Seq(S)
           /\ Len(s) \in Nat
           /\ Len(Append(s, f)) = Len(s) + 1
           /\ DOMAIN Append(s, f) = DOMAIN s \union {Len(s) + 1}
           /\ Len(s) + 1 \notin DOMAIN s
           /\ \A i \in DOMAIN s : Append(s, f)[i] = s[i]
           /\ Append(s, f)[Len(s) + 1] = f
<1>1. /\ Len(s) \in Nat
      /\ DOMAIN s = 1..Len(s)
    BY LenProperties
<1>2. /\ Append(s, f) \in Seq(S)
      /\ Len(Append(s, f)) = Len(s) + 1
      /\ \A i \in 1..Len(s) : Append(s, f)[i] = s[i]
      /\ Append(s, f)[Len(s) + 1] = f
    BY AppendProperties
<1>3. DOMAIN Append(s, f) = 1..(Len(s) + 1)
    BY <1>2, LenProperties
<1>4. 1..(Len(s) + 1) = 1..Len(s) \union {Len(s) + 1}
    BY <1>1
<1> QED
    BY <1>1, <1>2, <1>3, <1>4

LEMMA PopFrame ==
    ASSUME NEW S, NEW s \in Seq(S), s # << >>
    PROVE  /\ SubSeq(s, 1, Len(s) - 1) \in Seq(S)
           /\ Len(s) \in DOMAIN s
           /\ Len(s) \in Nat \ {0}
           /\ Len(SubSeq(s, 1, Len(s) - 1)) = Len(s) - 1
           /\ DOMAIN SubSeq(s, 1, Len(s) - 1) = DOMAIN s \ {Len(s)}
           /\ \A i \in DOMAIN s \ {Len(s)} : SubSeq(s, 1, Len(s) - 1)[i] = s[i]
<1>1. /\ Len(s) \in Nat \ {0}
      /\ DOMAIN s = 1..Len(s)
      /\ \A i \in 1..Len(s) : s[i] \in S
    BY LenProperties, EmptySeq, ElementOfSeq
<1>2. \A i \in 1..(Len(s) - 1) : s[i] \in S
    BY <1>1
<1>3. Len(s) - 1 \in Int /\ 1 \in Int
    BY <1>1
<1>4. /\ SubSeq(s, 1, Len(s) - 1) \in Seq(S)
      /\ Len(SubSeq(s, 1, Len(s) - 1)) =
            IF 1 <= Len(s) - 1 THEN Len(s) - 1 - 1 + 1 ELSE 0
      /\ \A i \in 1..(Len(s) - 1 - 1 + 1) :
            SubSeq(s, 1, Len(s) - 1)[i] = s[1 + i - 1]
    BY <1>2, <1>3, SubSeqProperties
<1>5. /\ Len(SubSeq(s, 1, Len(s) - 1)) = Len(s) - 1
      /\ \A i \in 1..(Len(s) - 1) : SubSeq(s, 1, Len(s) - 1)[i] = s[i]
    BY <1>1, <1>4
<1>6. DOMAIN SubSeq(s, 1, Len(s) - 1) = 1..(Len(s) - 1)
    BY <1>4, <1>5, LenProperties
<1>7. 1..(Len(s) - 1) = 1..Len(s) \ {Len(s)}
    BY <1>1
<1> QED
    BY <1>1, <1>4, <1>5, <1>6, <1>7

LEMMA FillFrame ==
    ASSUME NEW S, NEW s \in Seq(S), NEW i \in DOMAIN s, NEW f \in S
    PROVE  /\ [s EXCEPT ![i] = f] \in Seq(S)
           /\ Len([s EXCEPT ![i] = f]) = Len(s)
           /\ DOMAIN [s EXCEPT ![i] = f] = DOMAIN s
           /\ \A j \in DOMAIN s : [s EXCEPT ![i] = f][j] = IF j = i THEN f ELSE s[j]
<1>1. DOMAIN s = 1..Len(s)
    BY LenProperties
<1> QED
    BY <1>1, ExceptSeq

\* Filling a frame of the stack changes neither its kind nor its owner.
LEMMA FillKeepsShape ==
    ASSUME NEW i \in DOMAIN stack, NEW v \in Values, stack \in Seq(Frame)
    PROVE  /\ [stack EXCEPT ![i].value = v] \in Seq(Frame)
           /\ Len([stack EXCEPT ![i].value = v]) = Len(stack)
           /\ DOMAIN [stack EXCEPT ![i].value = v] = DOMAIN stack
           /\ \A j \in DOMAIN stack :
                 /\ [stack EXCEPT ![i].value = v][j].kind = stack[j].kind
                 /\ [stack EXCEPT ![i].value = v][j].owner = stack[j].owner
                 /\ [stack EXCEPT ![i].value = v][j].value =
                        IF j = i THEN v ELSE stack[j].value
<1> DEFINE f == [stack[i] EXCEPT !.value = v]
<1>1. stack[i] \in Frame
    BY LenProperties, ElementOfSeq
<1>2. /\ f \in Frame
      /\ f.kind = stack[i].kind
      /\ f.owner = stack[i].owner
      /\ f.value = v
    BY <1>1 DEF Frame
<1>3. [stack EXCEPT ![i].value = v] = [stack EXCEPT ![i] = f]
    OBVIOUS
<1> HIDE DEF f
<1> QED
    BY <1>2, <1>3, FillFrame

-----------------------------------------------------------------------------
\* What the methods of V8\ReturnValue do.

Read(o) ==
    /\ outcome' \in Values
    /\ rv[o] \in DOMAIN stack =>
          outcome' = IF stack[rv[o]].value = "unset" THEN "undefined"
                                                     ELSE stack[rv[o]].value
    /\ UNCHANGED <<stack, mode, pending, held, accepts, rv>>

\* Every method throws, or stores what the call may return, or reads.
LEMMA UseCases ==
    ASSUME NEW o \in Objects, TypeOK, Use(o)
    PROVE  /\ InUse(o)
           /\ \/ \E e \in Errors : Refuse(e)
              \/ /\ accepts[o] # "invalid"
                 /\ \E v \in Values : v \in Allowed(accepts[o]) /\ Store(rv[o], v)
              \/ accepts[o] # "invalid" /\ Read(o)
<1>1. accepts[o] \in Kinds \union {"invalid"}
    BY DEF TypeOK
<1> DEFINE Stored == /\ accepts[o] # "invalid"
                     /\ \E v \in Values : v \in Allowed(accepts[o]) /\ Store(rv[o], v)
           Refused == \E e \in Errors : Refuse(e)
<1>2. ASSUME NEW v \in Values, NEW K \in SUBSET Kinds, QuickSet(o, v, K),
             \A k \in K : v \in Allowed(k)
      PROVE  Stored \/ Refused
    BY <1>1, <1>2 DEF QuickSet, Errors, Cells!Errors, Kinds, Cells!Kinds
<1>3. /\ {"any"} \in SUBSET Kinds
      /\ {"any", "boolean"} \in SUBSET Kinds
      /\ {"any", "integer"} \in SUBSET Kinds
      /\ Allowed("any") = Values
      /\ "boolean" \in Allowed("boolean")
      /\ {"int32", "uint32"} \subseteq Allowed("integer")
      /\ Allowed("integer") \subseteq Values
      /\ Allowed("array") \subseteq Values
      /\ {"null", "undefined", "string", "boolean", "int32", "uint32", "number"} \subseteq Values
    BY DEF Kinds, Cells!Kinds, Allowed, Cells!Allowed, Values, Cells!Values
<1>4. CASE \E v \in Values : Set(o, v)
  <2>1. PICK v \in Values : Set(o, v)
      BY <1>4
  <2> QED
      BY <2>1, <1>1, <1>3 DEF Set, Errors, Cells!Errors
<1>5. CASE SetNull(o)
    BY <1>5, <1>2, <1>3 DEF SetNull
<1>6. CASE SetUndefined(o)
    BY <1>6, <1>2, <1>3 DEF SetUndefined
<1>7. CASE SetEmptyString(o)
    BY <1>7, <1>2, <1>3 DEF SetEmptyString
<1>8. CASE SetBool(o)
    BY <1>8, <1>2, <1>3 DEF SetBool
<1>9. CASE \E i \in {"int32", "uint32", "int64"} : SetInteger(o, i)
  <2>1. PICK i \in {"int32", "uint32", "int64"} : SetInteger(o, i)
      BY <1>9
  <2>2. CASE i = "int64"
      BY <2>1, <2>2 DEF SetInteger, Errors, Cells!Errors
  <2>3. CASE i # "int64"
      BY <2>1, <2>3, <1>2, <1>3 DEF SetInteger
  <2> QED
      BY <2>2, <2>3
<1>10. CASE \E v \in {"int32", "uint32", "number"} : SetFloat(o, v)
  <2>1. PICK v \in {"int32", "uint32", "number"} : SetFloat(o, v)
      BY <1>10
  <2> QED
      BY <2>1, <1>2, <1>3 DEF SetFloat
<1>11. CASE Get(o)
  <2>1. CASE accepts[o] = "invalid"
      BY <1>11, <2>1 DEF Get, Errors, Cells!Errors
  <2>2. CASE accepts[o] # "invalid"
    <3>1. ASSUME rv[o] \in DOMAIN stack
          PROVE  stack[rv[o]].value \in Values \union {"unset"}
      <4>1. stack[rv[o]] \in Frame
          BY <3>1, LenProperties, ElementOfSeq DEF TypeOK
      <4> QED
          BY <4>1 DEF Frame
    <3>2. Read(o)
        BY <1>11, <2>2, <3>1, <1>3 DEF Get, Read
    <3> QED
        BY <1>11, <2>2, <3>2 DEF Get
  <2> QED
      BY <2>1, <2>2
<1> QED
    BY <1>4, <1>5, <1>6, <1>7, <1>8, <1>9, <1>10, <1>11 DEF Use

-----------------------------------------------------------------------------
\* The inductive invariant.  FrameInv holds whatever scripts do; the rest needs
\* that no frame is left by exit().

LEMMA InitInv == Init => IInv
<1> SUFFICES ASSUME Init PROVE IInv
    OBVIOUS
<1>1. stack = << >> /\ DOMAIN stack = {} /\ Len(stack) = 0 /\ stack \in Seq(Frame)
    BY EmptySeq DEF Init
<1>2. TypeOK
  <2>1. depth <= MaxDepth
      BY <1>1, DepthAssumption DEF depth
  <2>2. rv \in [Objects -> 0..MaxDepth]
      BY DepthAssumption DEF Init
  <2> QED
      BY <1>1, <2>1, <2>2 DEF Init, TypeOK
<1> QED
    BY <1>1, <1>2 DEF Init, IInv, FrameInv, OwnersHeld, OwnFrame, OnlyHeldAccept,
                      ExpiredAfterwards, ResultsTyped

LEMMA KindsOfCallbacks == \A callback \in DOMAIN KindOf : KindOf[callback] \in Kinds
BY DEF KindOf, Kinds, Cells!Kinds

\* Entering a frame.
LEMMA DispatchKeepsInv ==
    ASSUME NEW kind \in Kinds, NEW o \in Objects, FrameInv, Dispatch(kind, o)
    PROVE  /\ FrameInv'
           /\ ExpiredAfterwards => ExpiredAfterwards'
           /\ ResultsTyped => ResultsTyped'
<1> DEFINE f == [kind |-> kind, value |-> "unset", owner |-> o]
<1>1. f \in Frame /\ f.kind = kind /\ f.owner = o /\ f.value = "unset"
    BY DEF Frame
<1>2. stack' = Append(stack, f) /\ stack \in Seq(Frame)
    BY DEF Dispatch, FrameInv, TypeOK
<1> HIDE DEF f
<1>3. /\ stack' \in Seq(Frame)
      /\ depth \in Nat
      /\ depth' = depth + 1
      /\ DOMAIN stack' = DOMAIN stack \union {depth + 1}
      /\ depth + 1 \notin DOMAIN stack
      /\ \A i \in DOMAIN stack : stack'[i] = stack[i]
      /\ stack'[depth + 1] = f
    BY <1>1, <1>2, AppendFrame DEF depth
<1>4. /\ o \notin held /\ depth < MaxDepth /\ mode' = "php" /\ outcome' = "none"
      /\ held' = held \union {o}
      /\ pending' = pending
      /\ accepts' = [accepts EXCEPT ![o] = kind]
      /\ rv' = [rv EXCEPT ![o] = depth + 1]
    BY DEF Dispatch
<1>5. /\ accepts \in [Objects -> Kinds \union {"invalid"}]
      /\ rv \in [Objects -> 0..MaxDepth]
    BY DEF FrameInv, TypeOK
<1>6. /\ accepts'[o] = kind /\ rv'[o] = depth + 1
      /\ \A x \in Objects \ {o} : accepts'[x] = accepts[x] /\ rv'[x] = rv[x]
    BY <1>4, <1>5
<1>7. depth + 1 \in 0..MaxDepth /\ depth + 1 <= MaxDepth
    BY <1>3, <1>4, DepthAssumption
<1>8. TypeOK'
    BY <1>3, <1>4, <1>5, <1>7 DEF FrameInv, TypeOK
<1>9. OwnersHeld'
    BY <1>1, <1>3, <1>4 DEF FrameInv, OwnersHeld
<1>10. \A i \in DOMAIN stack : stack[i].owner \in Objects \ {o}
    BY <1>4 DEF FrameInv, TypeOK, OwnersHeld
<1>11. OwnFrame'
    BY <1>1, <1>3, <1>6, <1>10 DEF FrameInv, OwnFrame
<1>12. OnlyHeldAccept'
    BY <1>4, <1>6 DEF FrameInv, OnlyHeldAccept
<1>13. ASSUME ExpiredAfterwards PROVE ExpiredAfterwards'
  <2>1. \A x \in Objects \ {o} : accepts'[x] # "invalid" =>
            rv'[x] \in DOMAIN stack' /\ stack'[rv'[x]].owner = x
      BY <1>13, <1>3, <1>6 DEF ExpiredAfterwards
  <2>2. rv'[o] \in DOMAIN stack' /\ stack'[rv'[o]].owner = o
      BY <1>1, <1>3, <1>6
  <2> QED
      BY <2>1, <2>2 DEF ExpiredAfterwards
<1>14. ASSUME ResultsTyped PROVE ResultsTyped'
    BY <1>14, <1>1, <1>3 DEF ResultsTyped
<1> QED
    BY <1>8, <1>9, <1>11, <1>12, <1>13, <1>14 DEF FrameInv

\* Leaving a frame.
LEMMA ReturnKeepsInv ==
    ASSUME NEW kept \in BOOLEAN, FrameInv, Return(kept)
    PROVE  /\ FrameInv'
           /\ ExpiredAfterwards => ExpiredAfterwards'
           /\ ResultsTyped => ResultsTyped'
<1> DEFINE o == stack[depth].owner
<1>1. stack \in Seq(Frame) /\ stack # << >>
    BY DEF Return, FrameInv, TypeOK
<1>2. stack' = SubSeq(stack, 1, Len(stack) - 1)
    BY DEF Return, depth
<1>3. /\ stack' \in Seq(Frame)
      /\ depth \in DOMAIN stack
      /\ depth \in Nat \ {0}
      /\ depth' = depth - 1
      /\ DOMAIN stack' = DOMAIN stack \ {depth}
      /\ \A i \in DOMAIN stack' : stack'[i] = stack[i]
    BY <1>1, <1>2, PopFrame DEF depth
<1>4. stack[depth] \in Frame
    BY <1>1, <1>3, LenProperties, ElementOfSeq DEF depth
<1>5. o \in Objects /\ stack[depth].value \in Values \union {"unset"}
    BY <1>4 DEF Frame
<1>6. /\ accepts \in [Objects -> Kinds \union {"invalid"}]
      /\ rv \in [Objects -> 0..MaxDepth]
      /\ depth <= MaxDepth
      /\ held \subseteq Objects
      /\ pending \in BOOLEAN
    BY DEF FrameInv, TypeOK
<1>7. /\ accepts' = [accepts EXCEPT ![o] = "invalid"]
      /\ held \ {o} \subseteq held' /\ held' \subseteq held
      /\ rv' = rv \/ rv' = [rv EXCEPT ![o] = 0]
      /\ mode' = "js" /\ pending' = pending
      /\ outcome' = stack[depth].value
    BY DEF Return
<1>8. /\ accepts'[o] = "invalid"
      /\ \A x \in Objects \ {o} : accepts'[x] = accepts[x] /\ rv'[x] = rv[x]
    BY <1>5, <1>6, <1>7
<1>9. depth' <= MaxDepth
    BY <1>3, <1>6, DepthAssumption
<1>10. accepts' \in [Objects -> Kinds \union {"invalid"}]
    BY <1>6, <1>7
<1>11. rv' \in [Objects -> 0..MaxDepth]
    BY <1>6, <1>7, DepthAssumption
<1>12. TypeOK'
    BY <1>3, <1>5, <1>6, <1>7, <1>9, <1>10, <1>11 DEF TypeOK
<1>13. rv[o] = depth
    BY <1>3 DEF FrameInv, OwnFrame
<1>14. \A i \in DOMAIN stack' : stack'[i].owner \in held \ {o}
    BY <1>3, <1>13 DEF FrameInv, OwnersHeld, OwnFrame
<1>15. OwnersHeld'
    BY <1>7, <1>14 DEF OwnersHeld
<1>16. OwnFrame'
    BY <1>3, <1>6, <1>8, <1>14 DEF FrameInv, OwnFrame
<1>17. OnlyHeldAccept'
    BY <1>7, <1>8 DEF FrameInv, OnlyHeldAccept
<1>18. ASSUME ExpiredAfterwards PROVE ExpiredAfterwards'
    BY <1>18, <1>3, <1>8 DEF ExpiredAfterwards
<1>19. ASSUME ResultsTyped PROVE ResultsTyped'
    BY <1>19, <1>3 DEF ResultsTyped
<1> HIDE DEF o
<1> QED
    BY <1>12, <1>15, <1>16, <1>17, <1>18, <1>19 DEF FrameInv

\* Filling a frame.
LEMMA StoreKeepsInv ==
    ASSUME NEW o \in Objects, NEW v \in Values, FrameInv,
           accepts[o] # "invalid", v \in Allowed(accepts[o]), Store(rv[o], v)
    PROVE  /\ FrameInv'
           /\ ExpiredAfterwards => ExpiredAfterwards'
           /\ ExpiredAfterwards /\ ResultsTyped => ResultsTyped'
<1>1. stack \in Seq(Frame)
    BY DEF FrameInv, TypeOK
<1>2. /\ mode' = mode /\ pending' = pending /\ held' = held
      /\ accepts' = accepts /\ rv' = rv /\ outcome' = "done"
    BY DEF Store
<1>3. /\ stack' \in Seq(Frame)
      /\ depth' = depth
      /\ DOMAIN stack' = DOMAIN stack
      /\ \A j \in DOMAIN stack :
            /\ stack'[j].kind = stack[j].kind
            /\ stack'[j].owner = stack[j].owner
            /\ stack'[j].value = IF j = rv[o] THEN v ELSE stack[j].value
  <2>1. CASE rv[o] \in DOMAIN stack
      BY <2>1, <1>1, FillKeepsShape DEF Store, depth
  <2>2. CASE rv[o] \notin DOMAIN stack
      BY <2>2, <1>1 DEF Store, depth
  <2> QED
      BY <2>1, <2>2
<1>4. TypeOK'
    BY <1>2, <1>3 DEF FrameInv, TypeOK
<1>5. OwnersHeld' /\ OwnFrame' /\ OnlyHeldAccept'
    BY <1>2, <1>3 DEF FrameInv, OwnersHeld, OwnFrame, OnlyHeldAccept
<1>6. ASSUME ExpiredAfterwards PROVE ExpiredAfterwards'
    BY <1>6, <1>2, <1>3 DEF ExpiredAfterwards
<1>7. ASSUME ExpiredAfterwards, ResultsTyped PROVE ResultsTyped'
  <2>1. rv[o] \in DOMAIN stack /\ stack[rv[o]].kind = accepts[o]
      BY <1>7 DEF ExpiredAfterwards, FrameInv, OwnFrame
  <2>2. ASSUME NEW j \in DOMAIN stack
        PROVE  stack'[j].value \in Allowed(stack'[j].kind) \union {"unset"}
    <3>1. CASE j = rv[o]
        BY <3>1, <2>1, <1>3
    <3>2. CASE j # rv[o]
        BY <3>2, <1>3, <1>7 DEF ResultsTyped
    <3> QED
        BY <3>1, <3>2
  <2> QED
      BY <2>2, <1>3 DEF ResultsTyped
<1> QED
    BY <1>4, <1>5, <1>6, <1>7 DEF FrameInv

\* Dropping an expired object.
LEMMA ReleaseKeepsInv ==
    ASSUME NEW o \in Objects, FrameInv, Release(o)
    PROVE  /\ FrameInv'
           /\ ExpiredAfterwards => ExpiredAfterwards'
           /\ ResultsTyped => ResultsTyped'
<1>1. /\ \A i \in DOMAIN stack : stack[i].owner # o
      /\ held' = held \ {o}
      /\ accepts' = [accepts EXCEPT ![o] = "invalid"]
      /\ rv' = [rv EXCEPT ![o] = 0]
      /\ stack' = stack /\ mode' = mode /\ pending' = pending /\ outcome' = outcome
    BY DEF Release
<1>2. /\ accepts \in [Objects -> Kinds \union {"invalid"}]
      /\ rv \in [Objects -> 0..MaxDepth]
    BY DEF FrameInv, TypeOK
<1>3. /\ accepts'[o] = "invalid"
      /\ \A x \in Objects \ {o} : accepts'[x] = accepts[x] /\ rv'[x] = rv[x]
    BY <1>1, <1>2
<1>4. rv' \in [Objects -> 0..MaxDepth]
    BY <1>1, <1>2, DepthAssumption
<1>5. TypeOK'
    BY <1>1, <1>2, <1>4 DEF FrameInv, TypeOK, depth
<1>6. \A i \in DOMAIN stack : stack[i].owner \in Objects \ {o}
    BY <1>1 DEF FrameInv, TypeOK, OwnersHeld
<1>7. OwnersHeld' /\ OwnFrame' /\ OnlyHeldAccept'
    BY <1>1, <1>3, <1>6 DEF FrameInv, OwnersHeld, OwnFrame, OnlyHeldAccept
<1>8. ASSUME ExpiredAfterwards PROVE ExpiredAfterwards'
    BY <1>8, <1>1, <1>3 DEF ExpiredAfterwards
<1>9. ASSUME ResultsTyped PROVE ResultsTyped'
    BY <1>9, <1>1 DEF ResultsTyped
<1> QED
    BY <1>5, <1>7, <1>8, <1>9 DEF FrameInv

\* A step that leaves the frames and the objects alone.
Elsewhere == UNCHANGED <<stack, held, accepts, rv>>

LEMMA ElsewhereKeepsInv ==
    ASSUME FrameInv, Elsewhere, mode' \in {"php", "js"}, pending' \in BOOLEAN,
           outcome' \in Values \union Errors \union {"none", "done", "unset"}
    PROVE  /\ FrameInv'
           /\ ExpiredAfterwards => ExpiredAfterwards'
           /\ ResultsTyped => ResultsTyped'
<1>1. TypeOK'
    BY DEF FrameInv, TypeOK, Elsewhere, depth
<1>2. OwnersHeld' /\ OwnFrame' /\ OnlyHeldAccept'
    BY DEF FrameInv, OwnersHeld, OwnFrame, OnlyHeldAccept, Elsewhere
<1> QED
    BY <1>1, <1>2 DEF FrameInv, ExpiredAfterwards, ResultsTyped, Elsewhere

LEMMA ExitKeepsFrameInv ==
    ASSUME FrameInv, Exit
    PROVE  FrameInv'
<1>1. stack' = << >> /\ stack' \in Seq(Frame) /\ DOMAIN stack' = {} /\ depth' = 0
    BY EmptySeq DEF Exit, depth
<1>2. TypeOK'
  <2>1. depth' <= MaxDepth
      BY <1>1, DepthAssumption
  <2> QED
      BY <1>1, <2>1 DEF FrameInv, TypeOK, Exit
<1>3. OwnersHeld' /\ OwnFrame' /\ OnlyHeldAccept'
    BY <1>1 DEF FrameInv, OwnersHeld, OwnFrame, OnlyHeldAccept, Exit
<1> QED
    BY <1>2, <1>3 DEF FrameInv

LEMMA UseKeepsInv ==
    ASSUME NEW o \in Objects, FrameInv, Use(o)
    PROVE  /\ FrameInv'
           /\ ExpiredAfterwards => ExpiredAfterwards'
           /\ ExpiredAfterwards /\ ResultsTyped => ResultsTyped'
<1>1. TypeOK
    BY DEF FrameInv
<1>2. CASE \E e \in Errors : Refuse(e)
    BY <1>1, <1>2, ElsewhereKeepsInv DEF Refuse, Elsewhere, TypeOK
<1>3. CASE /\ accepts[o] # "invalid"
           /\ \E v \in Values : v \in Allowed(accepts[o]) /\ Store(rv[o], v)
    BY <1>3, StoreKeepsInv
<1>4. CASE accepts[o] # "invalid" /\ Read(o)
    BY <1>1, <1>4, ElsewhereKeepsInv DEF Read, Elsewhere, TypeOK
<1> QED
    BY <1>1, <1>2, <1>3, <1>4, UseCases

\* Every step but exit() keeps all of the invariant.
LEMMA StepKeepsInv ==
    ASSUME FrameInv, [Next]_vars
    PROVE  /\ FrameInv'
           /\ ~Exit => /\ ExpiredAfterwards => ExpiredAfterwards'
                       /\ ExpiredAfterwards /\ ResultsTyped => ResultsTyped'
<1>1. TypeOK
    BY DEF FrameInv
<1>2. CASE Enter
    BY <1>1, <1>2, ElsewhereKeepsInv DEF Enter, Elsewhere, TypeOK
<1>3. CASE Finish
    BY <1>1, <1>3, ElsewhereKeepsInv DEF Finish, Elsewhere, TypeOK
<1>4. CASE \E callback \in DOMAIN KindOf, o \in Objects : Dispatch(KindOf[callback], o)
    BY <1>4, KindsOfCallbacks, DispatchKeepsInv
<1>5. CASE DispatchSkipped
    BY <1>1, <1>5, ElsewhereKeepsInv DEF DispatchSkipped, Elsewhere, TypeOK
<1>6. CASE \E kept \in BOOLEAN : Return(kept)
    BY <1>6, ReturnKeepsInv
<1>7. CASE Exit
    BY <1>7, ExitKeepsFrameInv
<1>8. CASE Throw
    BY <1>1, <1>8, ElsewhereKeepsInv DEF Throw, Elsewhere, TypeOK
<1>9. CASE Catch
    BY <1>1, <1>9, ElsewhereKeepsInv DEF Catch, Elsewhere, TypeOK
<1>10. CASE \E o \in Objects : Release(o)
    BY <1>10, ReleaseKeepsInv
<1>11. CASE \E o \in Objects : Use(o)
    BY <1>11, UseKeepsInv
<1>12. CASE UNCHANGED vars
    BY <1>1, <1>12, ElsewhereKeepsInv DEF vars, Elsewhere, TypeOK
<1> QED
    BY <1>2, <1>3, <1>4, <1>5, <1>6, <1>7, <1>8, <1>9, <1>10, <1>11, <1>12 DEF Next

-----------------------------------------------------------------------------
\* The frames and their objects agree in every reachable state, whatever scripts
\* do, exit() in the middle of a callback included.
THEOREM FramesOwned == Spec => []FrameInv
<1>1. Init => FrameInv
    BY InitInv DEF IInv
<1>2. FrameInv /\ [Next]_vars => FrameInv'
    BY StepKeepsInv
<1> QED
    BY <1>1, <1>2, PTL DEF Spec

\* Every variable keeps its type.
THEOREM CallbackTypeCorrect == Spec => []TypeOK
<1>1. FrameInv => TypeOK
    BY DEF FrameInv
<1> QED
    BY <1>1, FramesOwned, PTL

\* The object of a running callback leads to that callback's own frame.
THEOREM ObjectsLeadHome == Spec => []OwnFrame
<1>1. FrameInv => OwnFrame
    BY DEF FrameInv
<1> QED
    BY <1>1, FramesOwned, PTL

\* Without exit(), all of the invariant holds.
THEOREM CallbackInvariance ==
    ASSUME "exit" \notin Behaviours
    PROVE  Spec => []IInv
<1>1. Init => IInv
    BY InitInv
<1>2. IInv /\ [Next]_vars => IInv'
  <2>1. ~Exit
      BY DEF Exit
  <2> QED
      BY <2>1, StepKeepsInv DEF IInv
<1> QED
    BY <1>1, <1>2, PTL DEF Spec

\* Without exit(), a kept object accepts nothing once its callback has returned.
THEOREM KeptObjectsExpire ==
    ASSUME "exit" \notin Behaviours
    PROVE  Spec => []UsableInContext
<1>1. IInv => UsableInContext
    BY DEF IInv, FrameInv, UsableInContext
<1> QED
    BY <1>1, CallbackInvariance, PTL

\* Without exit(), V8 gets from every callback a value of the type it expects.
THEOREM ResultsStayTyped ==
    ASSUME "exit" \notin Behaviours
    PROVE  Spec => []ResultsTyped
<1>1. IInv => ResultsTyped
    BY DEF IInv
<1> QED
    BY <1>1, CallbackInvariance, PTL

-----------------------------------------------------------------------------
\* Every step is a step of ResultCells or leaves the cells alone.
LEMMA StepRefines ==
    ASSUME IInv, [Next]_vars, ~Exit
    PROVE  [Cells!Next]_(Cells!vars)
<1> USE DEF Cells!vars
<1>1. CASE Enter \/ Finish \/ Throw \/ Catch \/ (\E o \in Objects : Release(o)) \/ UNCHANGED vars
    BY <1>1 DEF Enter, Finish, Throw, Catch, Release, vars
<1>2. CASE \E callback \in DOMAIN KindOf, o \in Objects : Dispatch(KindOf[callback], o)
  <2>1. PICK kind \in Kinds, o \in Objects : Dispatch(kind, o)
      BY <1>2, KindsOfCallbacks
  <2>2. Cells!Open(kind, o)
      BY <2>1 DEF Dispatch, Cells!Open, IInv, FrameInv, OwnersHeld
  <2> QED
      BY <2>2 DEF Cells!Next, Kinds
<1>3. CASE DispatchSkipped
    BY <1>3 DEF DispatchSkipped, Cells!Next, Cells!Skip
<1>4. CASE \E kept \in BOOLEAN : Return(kept)
    BY <1>4 DEF Return, depth, Cells!Next, Cells!Close
<1>5. CASE \E o \in Objects : Use(o)
  <2>1. PICK o \in Objects : Use(o)
      BY <1>5
  <2>2. TypeOK
      BY DEF IInv, FrameInv
  <2>3. accepts[o] # "invalid" => /\ rv[o] \in DOMAIN stack
                                 /\ stack[rv[o]].owner = o
                                 /\ stack[rv[o]].kind = accepts[o]
      BY DEF IInv, FrameInv, ExpiredAfterwards, OwnFrame
  <2>4. CASE \E e \in Errors : Refuse(e)
      BY <2>4 DEF Refuse, Errors, Cells!Next, Cells!Refuse
  <2>5. CASE /\ accepts[o] # "invalid"
             /\ \E v \in Values : v \in Allowed(accepts[o]) /\ Store(rv[o], v)
    <3>1. PICK v \in Values : v \in Allowed(accepts[o]) /\ Store(rv[o], v)
        BY <2>5
    <3>2. Cells!Put(o, v)
        BY <2>3, <2>5, <3>1 DEF Store, Allowed, Cells!Put
    <3> QED
        BY <3>2 DEF Values, Cells!Next
  <2>6. CASE accepts[o] # "invalid" /\ Read(o)
    <3>1. Cells!Take(o)
        BY <2>3, <2>6 DEF Read, Cells!Take
    <3> QED
        BY <3>1 DEF Cells!Next
  <2> QED
      BY <2>1, <2>2, <2>4, <2>5, <2>6, UseCases
<1> QED
    BY <1>1, <1>2, <1>3, <1>4, <1>5 DEF Next

\* Without exit(), callbacks and their objects implement the cells: what PHP puts
\* into an object is what JavaScript gets from that object's call.
THEOREM CallbacksImplementCells ==
    ASSUME "exit" \notin Behaviours
    PROVE  Spec => ImplementsCells
<1>1. Init => Cells!Init
    BY DEF Init, Cells!Init
<1>2. IInv /\ [Next]_vars => [Cells!Next]_(Cells!vars)
  <2>1. ~Exit
      BY DEF Exit
  <2> QED
      BY <2>1, StepRefines
<1> QED
    BY <1>1, <1>2, CallbackInvariance, PTL DEF Spec, ImplementsCells, Cells!Spec
=============================================================================
