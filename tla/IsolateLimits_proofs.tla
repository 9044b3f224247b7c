----------------------- MODULE IsolateLimits_proofs -----------------------
(***************************************************************************)
(* Safety of IsolateLimits for every nesting bound and every choice of     *)
(* Behaviours.                                                             *)
(***************************************************************************)
EXTENDS IsolateLimits, FiniteSetTheorems, SequenceTheorems, TLAPS

Kinds == {"limited", "bare"}

-----------------------------------------------------------------------------
(* Counting the supervised entries of a stack                              *)

\* The supervised entries of a stack are finitely many.
LEMMA LimitedFinite ==
    ASSUME NEW f \in Seq(Kinds)
    PROVE  IsFiniteSet(LimitedFrames(f)) /\ LimitedCount(f) \in Nat
<1>1. LimitedFrames(f) \in SUBSET (1..Len(f))
  BY DEF LimitedFrames
<1>2. IsFiniteSet(1..Len(f))
  BY FS_Interval, Len(f) \in Int
<1>3. IsFiniteSet(LimitedFrames(f))
  BY <1>1, <1>2, FS_Subset
<1> QED
  BY <1>3, FS_CardinalityType DEF LimitedCount

\* An empty stack holds none.
LEMMA LimitedEmpty == LimitedCount(<<>>) = 0
<1>1. LimitedFrames(<<>>) = {}
  BY DEF LimitedFrames
<1> QED
  BY <1>1, FS_EmptySet DEF LimitedCount

\* Entering V8 adds one exactly when the entry is supervised.
LEMMA LimitedAppend ==
    ASSUME NEW f \in Seq(Kinds), NEW k \in Kinds
    PROVE  LimitedCount(Append(f, k)) =
               LimitedCount(f) + (IF k = "limited" THEN 1 ELSE 0)
<1>1. CASE k = "limited"
  <2>1. LimitedFrames(Append(f, k)) = LimitedFrames(f) \cup {Len(f) + 1}
    BY <1>1 DEF LimitedFrames
  <2>2. Len(f) + 1 \notin LimitedFrames(f)
    BY DEF LimitedFrames
  <2> QED
    BY <1>1, <2>1, <2>2, LimitedFinite, FS_AddElement DEF LimitedCount
<1>2. CASE k # "limited"
  <2>1. LimitedFrames(Append(f, k)) = LimitedFrames(f)
    BY <1>2 DEF LimitedFrames
  <2> QED
    BY <1>2, <2>1, LimitedFinite DEF LimitedCount
<1> QED
  BY <1>1, <1>2

\* Leaving V8 takes one away exactly when the entry was supervised.
LEMMA LimitedPop ==
    ASSUME NEW f \in Seq(Kinds), f # <<>>
    PROVE  /\ Pop(f) \in Seq(Kinds)
           /\ Len(Pop(f)) = Len(f) - 1
           /\ LimitedCount(Pop(f)) =
                 LimitedCount(f) - (IF f[Len(f)] = "limited" THEN 1 ELSE 0)
<1>1. Len(f) \in Nat /\ Len(f) > 0
  BY EmptySeq, LenProperties
<1>2. /\ Pop(f) \in Seq(Kinds)
      /\ Len(Pop(f)) = Len(f) - 1
      /\ \A i \in 1..(Len(f) - 1) : Pop(f)[i] = f[i]
  <2>1. \A i \in 1..(Len(f) - 1) : f[i] \in Kinds
    BY <1>1, ElementOfSeq
  <2> DEFINE n == Len(f) - 1
  <2>2. n \in Nat /\ n \in Int /\ 1 \in Int
    BY <1>1
  <2>3. /\ SubSeq(f, 1, n) \in Seq(Kinds)
        /\ Len(SubSeq(f, 1, n)) = IF 1 <= n THEN n - 1 + 1 ELSE 0
        /\ \A i \in 1 .. n - 1 + 1 : SubSeq(f, 1, n)[i] = f[1 + i - 1]
    <3> HIDE DEF n
    <3> QED BY <2>1, <2>2, SubSeqProperties DEF n
  <2>4. Pop(f) = SubSeq(f, 1, n)
    BY DEF Pop
  <2>5. \A m \in Nat : (IF 1 <= m THEN m - 1 + 1 ELSE 0) = m /\ m - 1 + 1 = m
    OBVIOUS
  <2>6. \A i \in 1..n : 1 + i - 1 = i
    BY <1>1
  <2> HIDE DEF n
  <2>7. /\ Pop(f) \in Seq(Kinds)
        /\ Len(Pop(f)) = n
        /\ \A i \in 1..n : Pop(f)[i] = f[i]
    BY <2>2, <2>3, <2>4, <2>5, <2>6
  <2> QED
    BY <2>7 DEF n
<1>3. LimitedFrames(Pop(f)) = LimitedFrames(f) \ {Len(f)}
  BY <1>1, <1>2 DEF LimitedFrames
<1>4. Len(f) \in LimitedFrames(f) <=> f[Len(f)] = "limited"
  BY <1>1 DEF LimitedFrames
<1>5. Cardinality(LimitedFrames(f) \ {Len(f)}) =
        IF Len(f) \in LimitedFrames(f)
        THEN Cardinality(LimitedFrames(f)) - 1 ELSE Cardinality(LimitedFrames(f))
  BY LimitedFinite, FS_RemoveElement
<1> QED
  BY <1>2, <1>3, <1>4, <1>5, LimitedFinite DEF LimitedCount

\* A stack with a supervised entry on top counts at least that one.
LEMMA LimitedTop ==
    ASSUME NEW f \in Seq(Kinds), f # <<>>, f[Len(f)] = "limited"
    PROVE  LimitedCount(f) > 0
BY LimitedPop, LimitedFinite

-----------------------------------------------------------------------------
(* The inductive invariant                                                 *)

FreeSteps == {"free", "free_join", "freed"}

\* limits->thread is set exactly while there is a thread to join.
ThreadMatches == thread <=> tpc # "none"

\* Who may hold the mutex at which step.
MutexMatches ==
    /\ owner = "timer" <=> tpc \in {"deactivate", "terminate", "check_memory", "mark"}
    /\ owner = "php" => pc \in {"intr_gc", "set_join", "free", "free_join"}
    /\ pc \in {"intr_gc", "set_join"} => owner = "php"

\* The mutex is created with the first limit.
MutexBeforeLimits ==
    (~hasMutex /\ pc # "freed") =>
        ~timeLimit /\ ~memLimit /\ ~active /\ ~thread /\ owner = "none"

\* What the PHP thread's step says of its stack.
StackMatches ==
    /\ pc \in {"js", "intr", "intr_gc", "stop"} => frames # <<>>
    /\ pc = "stop" => Top = "limited"
    /\ pc = "start" => Len(frames) < MaxDepth

\* Only the way out of the outermost entry sees a timer at depth 0, and there
\* it has been told to stop.
TimerNested ==
    /\ (thread /\ depth = 0) => pc \in {"stop_check", "free", "free_join"}
    /\ (pc = "stop_check" /\ depth = 0) => ~active

\* Without a timer the flags read by CheckLimits are still valid in StartTimer.
ChecksStayValid == (pc = "start" /\ ~thread) => (~timeHit /\ ~memHit)

\* A limit that is set and not hit is active, or will be again when the
\* stop that is under way restores `active`.
LimitsArmed ==
    ((timeLimit \/ memLimit) /\ ~timeHit /\ ~memHit) =>
        /\ pc \notin {"stop_check", "stop_restore"} \cup FreeSteps => active
        /\ pc \in {"stop_check", "stop_restore"} => saved

\* timeHit is set before the timer clears `active`.
HitBeforeStop == tpc = "deactivate" => timeHit

\* The unlocked steps of a stop or a setter follow a locked one.
LockedBefore == pc \in {"stop_check", "stop_restore", "set_join", "set_tail"} => hasMutex

\* The memory checks requested or running.
Checks == interrupts + (IF pc \in {"intr", "intr_gc"} THEN 1 ELSE 0)

\* memInProgress follows the one check there may be; TimerMark catches up
\* with the request just made.
ChecksMatch ==
    /\ tpc = "mark" => Checks = 1 /\ ~memInProgress
    /\ tpc # "mark" => /\ Checks <= 1
                       /\ Checks = 1 => memInProgress
                       /\ memInProgress => Checks = 1 \/ pc \in FreeSteps

Control == /\ ThreadMatches /\ MutexMatches /\ MutexBeforeLimits /\ TimerNested
           /\ ChecksStayValid /\ LimitsArmed /\ HitBeforeStop /\ LockedBefore
           /\ ChecksMatch

IInv == TypeOK /\ StackMatches /\ DepthBalanced /\ Control

\* A setter's argument says whether its limit is on.
LEMMA ArgOn == ASSUME arg \in Args PROVE arg.on \in BOOLEAN
<1>1. CASE arg = NoArg
  BY <1>1, Zenon DEF NoArg
<1>2. CASE arg # NoArg
  BY <1>2, Zenon DEF Args, NoArg
<1> QED
  BY <1>1, <1>2

\* Init establishes the invariant.
LEMMA InitInv == Init => IInv
<1> SUFFICES ASSUME Init PROVE IInv
  OBVIOUS
<1>1. TypeOK
  <2>1. FlagsOK
    BY Zenon DEF Init, FlagsOK
  <2> QED
    BY <2>1, MaxDepthAssumption, EmptySeq
    DEF Init, TypeOK, PhpSteps, TimerSteps, Args, NoArg, Kinds
<1>2. StackMatches /\ DepthBalanced
  BY LimitedEmpty DEF Init, StackMatches, DepthBalanced
<1>3. Control
  BY DEF Init, Control, ThreadMatches, MutexMatches, MutexBeforeLimits, TimerNested,
             ChecksStayValid, LimitsArmed, HitBeforeStop, LockedBefore,
             ChecksMatch, Checks, FreeSteps
<1> QED
  BY <1>1, <1>2, <1>3 DEF IInv

\* Entering V8 preserves the invariant.
LEMMA EnterKeeps == IInv /\ EnterStep => IInv'
<1> SUFFICES ASSUME IInv, EnterStep PROVE IInv'
  OBVIOUS
<1> USE DEF shared, v8, php
<1>1. CASE CheckLimits
  <2>1. TypeOK'
    <3>1. arg.on \in BOOLEAN
      BY ArgOn DEF IInv, TypeOK
    <3>2. FlagsOK'
      BY <1>1, <3>1, Zenon DEF IInv, TypeOK, FlagsOK, CheckLimits
    <3> QED
      BY <3>2, <1>1 DEF IInv, StackMatches, DepthBalanced, TypeOK, CheckLimits,
       PhpSteps, TimerSteps, Args, NoArg
  <2>2. StackMatches' /\ DepthBalanced'
    BY <1>1 DEF IInv, TypeOK, StackMatches, DepthBalanced, CheckLimits, Top
  <2>3. Control'
    BY <1>1 DEF IInv, TypeOK, StackMatches, DepthBalanced, CheckLimits,
             Control, ThreadMatches, MutexMatches, MutexBeforeLimits, TimerNested,
             ChecksStayValid, LimitsArmed, HitBeforeStop, LockedBefore,
             ChecksMatch, Checks, FreeSteps
  <2> QED
    BY <2>1, <2>2, <2>3 DEF IInv
<1>2. CASE StartTimer
  <2>1. TypeOK'
    <3>1. arg.on \in BOOLEAN
      BY ArgOn DEF IInv, TypeOK
    <3>2. FlagsOK'
      BY <1>2, <3>1, Zenon DEF IInv, TypeOK, FlagsOK, StartTimer
    <3>3. frames \in Seq(Kinds) /\ Len(frames) < MaxDepth
      BY <1>2 DEF IInv, TypeOK, StackMatches, Kinds, StartTimer
    <3>4. "limited" \in Kinds /\ frames' = Append(frames, "limited")
      BY <1>2 DEF Kinds, StartTimer
    <3>5. frames' \in Seq(Kinds) /\ Len(frames') = Len(frames) + 1
      BY <3>3, <3>4, AppendProperties
    <3>6. Len(frames') <= MaxDepth
      BY <3>3, <3>5, MaxDepthAssumption, LenProperties
    <3> QED
      BY <3>2, <3>5, <3>6, <1>2 DEF IInv, StackMatches, DepthBalanced, TypeOK, StartTimer,
       PhpSteps, TimerSteps, Args, NoArg, Kinds, Top
  <2>2. StackMatches' /\ DepthBalanced'
    BY LimitedAppend, AppendProperties, <1>2 DEF IInv, TypeOK, StackMatches, DepthBalanced, StartTimer, Top, Kinds
  <2>3. Control'
    BY LimitedAppend, AppendProperties, <1>2 DEF IInv, TypeOK, StackMatches, DepthBalanced, StartTimer,
             Control, ThreadMatches, MutexMatches, MutexBeforeLimits, TimerNested,
             ChecksStayValid, LimitsArmed, HitBeforeStop, LockedBefore,
             ChecksMatch, Checks, FreeSteps, Kinds
  <2> QED
    BY <2>1, <2>2, <2>3 DEF IInv
<1>3. CASE EnterBareJs
  <2>1. TypeOK'
    <3>1. arg.on \in BOOLEAN
      BY ArgOn DEF IInv, TypeOK
    <3>2. FlagsOK'
      BY <1>3, <3>1, Zenon DEF IInv, TypeOK, FlagsOK, EnterBareJs
    <3>3. frames \in Seq(Kinds) /\ Len(frames) < MaxDepth
      BY <1>3 DEF IInv, TypeOK, Kinds, EnterBareJs
    <3>4. "bare" \in Kinds /\ frames' = Append(frames, "bare")
      BY <1>3 DEF Kinds, EnterBareJs
    <3>5. frames' \in Seq(Kinds) /\ Len(frames') = Len(frames) + 1
      BY <3>3, <3>4, AppendProperties
    <3>6. Len(frames') <= MaxDepth
      BY <3>3, <3>5, MaxDepthAssumption, LenProperties
    <3> QED
      BY <3>2, <3>5, <3>6, <1>3 DEF IInv, StackMatches, DepthBalanced, TypeOK, EnterBareJs,
       PhpSteps, TimerSteps, Args, NoArg, Kinds, Top
  <2>2. StackMatches' /\ DepthBalanced'
    BY LimitedAppend, AppendProperties, <1>3 DEF IInv, TypeOK, StackMatches, DepthBalanced, EnterBareJs, Top, Kinds
  <2>3. Control'
    BY LimitedAppend, AppendProperties, <1>3 DEF IInv, TypeOK, StackMatches, DepthBalanced, EnterBareJs,
             Control, ThreadMatches, MutexMatches, MutexBeforeLimits, TimerNested,
             ChecksStayValid, LimitsArmed, HitBeforeStop, LockedBefore,
             ChecksMatch, Checks, FreeSteps, Kinds
  <2> QED
    BY <2>1, <2>2, <2>3 DEF IInv
<1> QED
  BY <1>1, <1>2, <1>3 DEF EnterStep

\* Moving between JS and PHP preserves it.
LEMMA JsKeeps == IInv /\ JsStep => IInv'
<1> SUFFICES ASSUME IInv, JsStep PROVE IInv'
  OBVIOUS
<1> USE DEF shared, v8, php
<1>1. CASE JsCallback
  <2>1. TypeOK'
    <3>1. arg.on \in BOOLEAN
      BY ArgOn DEF IInv, TypeOK
    <3>2. FlagsOK'
      BY <1>1, <3>1, Zenon DEF IInv, TypeOK, FlagsOK, JsCallback
    <3> QED
      BY <3>2, <1>1 DEF IInv, StackMatches, DepthBalanced, TypeOK, JsCallback,
       PhpSteps, TimerSteps, Args, NoArg
  <2>2. StackMatches' /\ DepthBalanced'
    BY <1>1 DEF IInv, TypeOK, StackMatches, DepthBalanced, JsCallback, Top
  <2>3. Control'
    BY <1>1 DEF IInv, TypeOK, StackMatches, DepthBalanced, JsCallback,
             Control, ThreadMatches, MutexMatches, MutexBeforeLimits, TimerNested,
             ChecksStayValid, LimitsArmed, HitBeforeStop, LockedBefore,
             ChecksMatch, Checks, FreeSteps
  <2> QED
    BY <2>1, <2>2, <2>3 DEF IInv
<1>2. CASE ReturnToJs
  <2>1. TypeOK'
    <3>1. arg.on \in BOOLEAN
      BY ArgOn DEF IInv, TypeOK
    <3>2. FlagsOK'
      BY <1>2, <3>1, Zenon DEF IInv, TypeOK, FlagsOK, ReturnToJs
    <3> QED
      BY <3>2, <1>2 DEF IInv, StackMatches, DepthBalanced, TypeOK, ReturnToJs,
       PhpSteps, TimerSteps, Args, NoArg
  <2>2. StackMatches' /\ DepthBalanced'
    BY <1>2 DEF IInv, TypeOK, StackMatches, DepthBalanced, ReturnToJs, Top
  <2>3. Control'
    BY <1>2 DEF IInv, TypeOK, StackMatches, DepthBalanced, ReturnToJs,
             Control, ThreadMatches, MutexMatches, MutexBeforeLimits, TimerNested,
             ChecksStayValid, LimitsArmed, HitBeforeStop, LockedBefore,
             ChecksMatch, Checks, FreeSteps
  <2> QED
    BY <2>1, <2>2, <2>3 DEF IInv
<1>3. CASE JsFinish
  <2>1. TypeOK'
    <3>1. arg.on \in BOOLEAN
      BY ArgOn DEF IInv, TypeOK
    <3>2. FlagsOK'
      BY <1>3, <3>1, Zenon DEF IInv, TypeOK, FlagsOK, JsFinish, LeaveJs
    <3>3. frames \in Seq(Kinds) /\ frames # <<>> /\ Len(frames) <= MaxDepth
      BY <1>3 DEF IInv, TypeOK, StackMatches, Kinds, JsFinish
    <3>4. frames' = frames \/ frames' = Pop(frames)
      BY <1>3 DEF JsFinish, LeaveJs
    <3>5. Pop(frames) \in Seq(Kinds) /\ Len(Pop(frames)) = Len(frames) - 1
      BY <3>3, LimitedPop
    <3>6. frames' \in Seq(Kinds) /\ Len(frames') <= MaxDepth
      BY <3>3, <3>4, <3>5, MaxDepthAssumption, LenProperties
    <3> QED
      BY <3>2, <3>6, <1>3 DEF IInv, StackMatches, DepthBalanced, TypeOK, JsFinish, LeaveJs,
       PhpSteps, TimerSteps, Args, NoArg, Kinds, Top
  <2>2. StackMatches' /\ DepthBalanced'
    BY LimitedPop, <1>3 DEF IInv, TypeOK, StackMatches, DepthBalanced, JsFinish, LeaveJs, Top, Kinds
  <2>3. Control'
    BY LimitedPop, <1>3 DEF IInv, TypeOK, StackMatches, DepthBalanced, JsFinish, LeaveJs,
             Control, ThreadMatches, MutexMatches, MutexBeforeLimits, TimerNested,
             ChecksStayValid, LimitsArmed, HitBeforeStop, LockedBefore,
             ChecksMatch, Checks, FreeSteps, Kinds
  <2> QED
    BY <2>1, <2>2, <2>3 DEF IInv
<1>4. CASE JsUnwind
  <2>1. TypeOK'
    <3>1. arg.on \in BOOLEAN
      BY ArgOn DEF IInv, TypeOK
    <3>2. FlagsOK'
      BY <1>4, <3>1, Zenon DEF IInv, TypeOK, FlagsOK, JsUnwind, LeaveJs
    <3>3. frames \in Seq(Kinds) /\ frames # <<>> /\ Len(frames) <= MaxDepth
      BY <1>4 DEF IInv, TypeOK, StackMatches, Kinds, JsUnwind
    <3>4. frames' = frames \/ frames' = Pop(frames)
      BY <1>4 DEF JsUnwind, LeaveJs
    <3>5. Pop(frames) \in Seq(Kinds) /\ Len(Pop(frames)) = Len(frames) - 1
      BY <3>3, LimitedPop
    <3>6. frames' \in Seq(Kinds) /\ Len(frames') <= MaxDepth
      BY <3>3, <3>4, <3>5, MaxDepthAssumption, LenProperties
    <3> QED
      BY <3>2, <3>6, <1>4 DEF IInv, StackMatches, DepthBalanced, TypeOK, JsUnwind, LeaveJs,
       PhpSteps, TimerSteps, Args, NoArg, Kinds, Top
  <2>2. StackMatches' /\ DepthBalanced'
    BY LimitedPop, <1>4 DEF IInv, TypeOK, StackMatches, DepthBalanced, JsUnwind, LeaveJs, Top, Kinds
  <2>3. Control'
    BY LimitedPop, <1>4 DEF IInv, TypeOK, StackMatches, DepthBalanced, JsUnwind, LeaveJs,
             Control, ThreadMatches, MutexMatches, MutexBeforeLimits, TimerNested,
             ChecksStayValid, LimitsArmed, HitBeforeStop, LockedBefore,
             ChecksMatch, Checks, FreeSteps, Kinds
  <2> QED
    BY <2>1, <2>2, <2>3 DEF IInv
<1>5. CASE TakeInterrupt
  <2>1. TypeOK'
    <3>1. arg.on \in BOOLEAN
      BY ArgOn DEF IInv, TypeOK
    <3>2. FlagsOK'
      BY <1>5, <3>1, Zenon DEF IInv, TypeOK, FlagsOK, TakeInterrupt
    <3> QED
      BY <3>2, <1>5 DEF IInv, StackMatches, DepthBalanced, TypeOK, TakeInterrupt,
       PhpSteps, TimerSteps, Args, NoArg
  <2>2. StackMatches' /\ DepthBalanced'
    BY <1>5 DEF IInv, TypeOK, StackMatches, DepthBalanced, TakeInterrupt, Top
  <2>3. Control'
    BY <1>5 DEF IInv, TypeOK, StackMatches, DepthBalanced, TakeInterrupt,
             Control, ThreadMatches, MutexMatches, MutexBeforeLimits, TimerNested,
             ChecksStayValid, LimitsArmed, HitBeforeStop, LockedBefore,
             ChecksMatch, Checks, FreeSteps
  <2> QED
    BY <2>1, <2>2, <2>3 DEF IInv
<1> QED
  BY <1>1, <1>2, <1>3, <1>4, <1>5 DEF JsStep

\* Terminating and cancelling preserve it.
LEMMA UserKeeps == IInv /\ UserStep => IInv'
<1> SUFFICES ASSUME IInv, UserStep PROVE IInv'
  OBVIOUS
<1> USE DEF shared, v8, php
<1>1. CASE TerminateExecution
  <2>1. TypeOK'
    <3>1. arg.on \in BOOLEAN
      BY ArgOn DEF IInv, TypeOK
    <3>2. FlagsOK'
      BY <1>1, <3>1, Zenon DEF IInv, TypeOK, FlagsOK, TerminateExecution
    <3> QED
      BY <3>2, <1>1 DEF IInv, StackMatches, DepthBalanced, TypeOK, TerminateExecution,
       PhpSteps, TimerSteps, Args, NoArg
  <2>2. StackMatches' /\ DepthBalanced'
    BY <1>1 DEF IInv, TypeOK, StackMatches, DepthBalanced, TerminateExecution, Top
  <2>3. Control'
    BY <1>1 DEF IInv, TypeOK, StackMatches, DepthBalanced, TerminateExecution,
             Control, ThreadMatches, MutexMatches, MutexBeforeLimits, TimerNested,
             ChecksStayValid, LimitsArmed, HitBeforeStop, LockedBefore,
             ChecksMatch, Checks, FreeSteps
  <2> QED
    BY <2>1, <2>2, <2>3 DEF IInv
<1>2. CASE CancelTerminateExecution
  <2>1. TypeOK'
    <3>1. arg.on \in BOOLEAN
      BY ArgOn DEF IInv, TypeOK
    <3>2. FlagsOK'
      BY <1>2, <3>1, Zenon DEF IInv, TypeOK, FlagsOK, CancelTerminateExecution, CancelTermination
    <3> QED
      BY <3>2, <1>2 DEF IInv, StackMatches, DepthBalanced, TypeOK, CancelTerminateExecution, CancelTermination,
       PhpSteps, TimerSteps, Args, NoArg
  <2>2. StackMatches' /\ DepthBalanced'
    BY <1>2 DEF IInv, TypeOK, StackMatches, DepthBalanced, CancelTerminateExecution, CancelTermination, Top
  <2>3. Control'
    BY <1>2 DEF IInv, TypeOK, StackMatches, DepthBalanced, CancelTerminateExecution, CancelTermination,
             Control, ThreadMatches, MutexMatches, MutexBeforeLimits, TimerNested,
             ChecksStayValid, LimitsArmed, HitBeforeStop, LockedBefore,
             ChecksMatch, Checks, FreeSteps
  <2> QED
    BY <2>1, <2>2, <2>3 DEF IInv
<1> QED
  BY <1>1, <1>2 DEF UserStep

\* The interrupt handler preserves it.
LEMMA HandleKeeps == IInv /\ HandleStep => IInv'
<1> SUFFICES ASSUME IInv, HandleStep PROVE IInv'
  OBVIOUS
<1> USE DEF shared, v8, php
<1>1. CASE HandlerCheck
  <2>1. TypeOK'
    <3>1. arg.on \in BOOLEAN
      BY ArgOn DEF IInv, TypeOK
    <3>2. FlagsOK'
      BY <1>1, <3>1, Zenon DEF IInv, TypeOK, FlagsOK, HandlerCheck
    <3> QED
      BY <3>2, <1>1 DEF IInv, StackMatches, DepthBalanced, TypeOK, HandlerCheck,
       PhpSteps, TimerSteps, Args, NoArg
  <2>2. StackMatches' /\ DepthBalanced'
    BY <1>1 DEF IInv, TypeOK, StackMatches, DepthBalanced, HandlerCheck, Top
  <2>3. Control'
    BY <1>1 DEF IInv, TypeOK, StackMatches, DepthBalanced, HandlerCheck,
             Control, ThreadMatches, MutexMatches, MutexBeforeLimits, TimerNested,
             ChecksStayValid, LimitsArmed, HitBeforeStop, LockedBefore,
             ChecksMatch, Checks, FreeSteps
  <2> QED
    BY <2>1, <2>2, <2>3 DEF IInv
<1>2. CASE HandlerRecheck
  <2>1. TypeOK'
    <3>1. arg.on \in BOOLEAN
      BY ArgOn DEF IInv, TypeOK
    <3>2. FlagsOK'
      BY <1>2, <3>1, Zenon DEF IInv, TypeOK, FlagsOK, HandlerRecheck
    <3> QED
      BY <3>2, <1>2 DEF IInv, StackMatches, DepthBalanced, TypeOK, HandlerRecheck,
       PhpSteps, TimerSteps, Args, NoArg
  <2>2. StackMatches' /\ DepthBalanced'
    BY <1>2 DEF IInv, TypeOK, StackMatches, DepthBalanced, HandlerRecheck, Top
  <2>3. Control'
    BY <1>2 DEF IInv, TypeOK, StackMatches, DepthBalanced, HandlerRecheck,
             Control, ThreadMatches, MutexMatches, MutexBeforeLimits, TimerNested,
             ChecksStayValid, LimitsArmed, HitBeforeStop, LockedBefore,
             ChecksMatch, Checks, FreeSteps
  <2> QED
    BY <2>1, <2>2, <2>3 DEF IInv
<1>3. CASE HandlerOom
  <2>1. TypeOK'
    <3>1. arg.on \in BOOLEAN
      BY ArgOn DEF IInv, TypeOK
    <3>2. FlagsOK'
      BY <1>3, <3>1, Zenon DEF IInv, TypeOK, FlagsOK, HandlerOom
    <3> QED
      BY <3>2, EmptySeq, MaxDepthAssumption, <1>3 DEF IInv, StackMatches, DepthBalanced, TypeOK, HandlerOom,
       PhpSteps, TimerSteps, Args, NoArg, Kinds, Top
  <2>2. StackMatches' /\ DepthBalanced'
    BY EmptySeq, MaxDepthAssumption, <1>3 DEF IInv, TypeOK, StackMatches, DepthBalanced, HandlerOom, Top, Kinds
  <2>3. Control'
    BY EmptySeq, MaxDepthAssumption, <1>3 DEF IInv, TypeOK, StackMatches, DepthBalanced, HandlerOom,
             Control, ThreadMatches, MutexMatches, MutexBeforeLimits, TimerNested,
             ChecksStayValid, LimitsArmed, HitBeforeStop, LockedBefore,
             ChecksMatch, Checks, FreeSteps, Kinds
  <2> QED
    BY <2>1, <2>2, <2>3 DEF IInv
<1> QED
  BY <1>1, <1>2, <1>3 DEF HandleStep

\* Leaving a supervised entry preserves it.
LEMMA StopKeeps == IInv /\ StopStep => IInv'
<1> SUFFICES ASSUME IInv, StopStep PROVE IInv'
  OBVIOUS
<1> USE DEF shared, v8, php
<1>1. CASE StopTimer
  <2>1. TypeOK'
    <3>1. arg.on \in BOOLEAN
      BY ArgOn DEF IInv, TypeOK
    <3>2. FlagsOK'
      BY <1>1, <3>1, Zenon DEF IInv, TypeOK, FlagsOK, StopTimer
    <3>3. /\ frames \in Seq(Kinds) /\ frames # <<>> /\ Len(frames) <= MaxDepth
          /\ frames[Len(frames)] = "limited" /\ depth = LimitedCount(frames)
      BY <1>1 DEF IInv, TypeOK, StackMatches, DepthBalanced, Top, Kinds, StopTimer
    <3>4. frames' = Pop(frames) /\ depth' = depth - 1
      BY <1>1 DEF StopTimer
    <3>5. Pop(frames) \in Seq(Kinds) /\ Len(Pop(frames)) = Len(frames) - 1
      BY <3>3, LimitedPop
    <3>6. depth' \in Nat
      BY <3>3, <3>4, LimitedTop, LimitedFinite
    <3>7. frames' \in Seq(Kinds) /\ Len(frames') <= MaxDepth
      BY <3>3, <3>4, <3>5, MaxDepthAssumption, LenProperties
    <3> QED
      BY <3>2, <3>6, <3>7, <1>1 DEF IInv, StackMatches, DepthBalanced, TypeOK, StopTimer,
       PhpSteps, TimerSteps, Args, NoArg, Kinds, Top
  <2>2. StackMatches' /\ DepthBalanced'
    BY LimitedPop, LimitedTop, <1>1 DEF IInv, TypeOK, StackMatches, DepthBalanced, StopTimer, Top, Kinds
  <2>3. Control'
    <3>1. ThreadMatches' /\ MutexMatches' /\ HitBeforeStop' /\ ChecksStayValid'
      BY <1>1 DEF IInv, TypeOK, Control, ThreadMatches, MutexMatches, HitBeforeStop,
                  ChecksStayValid, StopTimer
    <3>2. ASSUME ~hasMutex
          PROVE  MutexBeforeLimits' /\ LimitsArmed' /\ TimerNested' /\ LockedBefore'
      <4>1. ~timeLimit /\ ~memLimit /\ ~active /\ ~thread /\ owner = "none"
        BY <1>1, <3>2 DEF IInv, Control, MutexBeforeLimits, StopTimer
      <4>2. MutexBeforeLimits' /\ LimitsArmed' /\ TimerNested' /\ LockedBefore'
        BY <1>1, <3>2, <4>1 DEF MutexBeforeLimits, LimitsArmed, TimerNested,
                  LockedBefore, StopTimer
      <4> QED
        BY <4>2
    <3>3. ASSUME hasMutex
          PROVE  MutexBeforeLimits' /\ LimitsArmed' /\ TimerNested' /\ LockedBefore'
      <4>1. saved' = active /\ active' = (active /\ depth' > 0) /\ pc' = "stop_check"
        BY <1>1, <3>3 DEF StopTimer
      <4>2. depth' = 0 => ~(depth' > 0)
        OBVIOUS
      <4>3. TimerNested'
        BY <4>1, <4>2, Zenon DEF TimerNested
      <4>4. ((timeLimit \/ memLimit) /\ ~timeHit /\ ~memHit) => active
        BY <1>1 DEF IInv, Control, LimitsArmed, FreeSteps, StopTimer
      <4>5. UNCHANGED <<timeLimit, memLimit, timeHit, memHit, hasMutex>>
        BY <1>1 DEF StopTimer
      <4>6. LimitsArmed'
        BY <4>1, <4>4, <4>5, Zenon DEF LimitsArmed
      <4>7. MutexBeforeLimits' /\ LockedBefore'
        BY <3>3, <4>5 DEF MutexBeforeLimits, LockedBefore
      <4> QED
        BY <4>3, <4>6, <4>7
    <3>4. ChecksMatch'
      BY <1>1 DEF IInv, TypeOK, Control, ChecksMatch, Checks, FreeSteps, StopTimer
    <3>5. hasMutex \/ ~hasMutex
      OBVIOUS
    <3> QED
      BY <3>1, <3>2, <3>3, <3>4, <3>5 DEF Control
  <2> QED
    BY <2>1, <2>2, <2>3 DEF IInv
<1>2. CASE StopSkipJoin
  <2>1. TypeOK'
    <3>1. arg.on \in BOOLEAN
      BY ArgOn DEF IInv, TypeOK
    <3>2. FlagsOK'
      BY <1>2, <3>1, Zenon DEF IInv, TypeOK, FlagsOK, StopSkipJoin
    <3> QED
      BY <3>2, <1>2 DEF IInv, StackMatches, DepthBalanced, TypeOK, StopSkipJoin,
       PhpSteps, TimerSteps, Args, NoArg
  <2>2. StackMatches' /\ DepthBalanced'
    BY <1>2 DEF IInv, TypeOK, StackMatches, DepthBalanced, StopSkipJoin, Top
  <2>3. Control'
    BY <1>2 DEF IInv, TypeOK, StackMatches, DepthBalanced, StopSkipJoin,
             Control, ThreadMatches, MutexMatches, MutexBeforeLimits, TimerNested,
             ChecksStayValid, LimitsArmed, HitBeforeStop, LockedBefore,
             ChecksMatch, Checks, FreeSteps
  <2> QED
    BY <2>1, <2>2, <2>3 DEF IInv
<1>3. CASE StopJoin
  <2>1. TypeOK'
    <3>1. arg.on \in BOOLEAN
      BY ArgOn DEF IInv, TypeOK
    <3>2. FlagsOK'
      BY <1>3, <3>1, Zenon DEF IInv, TypeOK, FlagsOK, StopJoin
    <3> QED
      BY <3>2, <1>3 DEF IInv, StackMatches, DepthBalanced, TypeOK, StopJoin,
       PhpSteps, TimerSteps, Args, NoArg
  <2>2. StackMatches' /\ DepthBalanced'
    BY <1>3 DEF IInv, TypeOK, StackMatches, DepthBalanced, StopJoin, Top
  <2>3. Control'
    BY <1>3 DEF IInv, TypeOK, StackMatches, DepthBalanced, StopJoin,
             Control, ThreadMatches, MutexMatches, MutexBeforeLimits, TimerNested,
             ChecksStayValid, LimitsArmed, HitBeforeStop, LockedBefore,
             ChecksMatch, Checks, FreeSteps
  <2> QED
    BY <2>1, <2>2, <2>3 DEF IInv
<1>4. CASE StopRestore
  <2>1. TypeOK'
    <3>1. arg.on \in BOOLEAN
      BY ArgOn DEF IInv, TypeOK
    <3>2. FlagsOK'
      BY <1>4, <3>1, Zenon DEF IInv, TypeOK, FlagsOK, StopRestore
    <3> QED
      BY <3>2, <1>4 DEF IInv, StackMatches, DepthBalanced, TypeOK, StopRestore,
       PhpSteps, TimerSteps, Args, NoArg
  <2>2. StackMatches' /\ DepthBalanced'
    BY <1>4 DEF IInv, TypeOK, StackMatches, DepthBalanced, StopRestore, Top
  <2>3. Control'
    BY <1>4 DEF IInv, TypeOK, StackMatches, DepthBalanced, StopRestore,
             Control, ThreadMatches, MutexMatches, MutexBeforeLimits, TimerNested,
             ChecksStayValid, LimitsArmed, HitBeforeStop, LockedBefore,
             ChecksMatch, Checks, FreeSteps
  <2> QED
    BY <2>1, <2>2, <2>3 DEF IInv
<1> QED
  BY <1>1, <1>2, <1>3, <1>4 DEF StopStep

\* The setters preserve it.
LEMMA SetKeeps == IInv /\ SetStep => IInv'
<1> SUFFICES ASSUME IInv, SetStep PROVE IInv'
  OBVIOUS
<1> USE DEF shared, v8, php
<1>1. CASE CallSetter
  <2>1. TypeOK'
    <3>1. arg.on \in BOOLEAN
      BY ArgOn DEF IInv, TypeOK
    <3>2. FlagsOK'
      BY <1>1, <3>1, Zenon DEF IInv, TypeOK, FlagsOK, CallSetter
    <3> QED
      BY <3>2, <1>1 DEF IInv, StackMatches, DepthBalanced, TypeOK, CallSetter,
       PhpSteps, TimerSteps, Args, NoArg
  <2>2. StackMatches' /\ DepthBalanced'
    BY <1>1 DEF IInv, TypeOK, StackMatches, DepthBalanced, CallSetter, Top
  <2>3. Control'
    BY <1>1 DEF IInv, TypeOK, StackMatches, DepthBalanced, CallSetter,
             Control, ThreadMatches, MutexMatches, MutexBeforeLimits, TimerNested,
             ChecksStayValid, LimitsArmed, HitBeforeStop, LockedBefore,
             ChecksMatch, Checks, FreeSteps
  <2> QED
    BY <2>1, <2>2, <2>3 DEF IInv
<1>2. CASE SetLimit
  <2>1. TypeOK'
    <3>1. arg.on \in BOOLEAN
      BY ArgOn DEF IInv, TypeOK
    <3>2. FlagsOK'
      BY <1>2, <3>1, Zenon DEF IInv, TypeOK, FlagsOK, SetLimit, StoreLimit, OwnLimitHit, CancelTermination, Rearm
    <3> QED
      BY <3>2, <1>2 DEF IInv, StackMatches, DepthBalanced, TypeOK, SetLimit, StoreLimit, OwnLimitHit, CancelTermination, Rearm,
       PhpSteps, TimerSteps, Args, NoArg
  <2>2. StackMatches' /\ DepthBalanced'
    BY <1>2 DEF IInv, TypeOK, StackMatches, DepthBalanced, SetLimit, StoreLimit, OwnLimitHit, CancelTermination, Rearm, Top
  <2>3. Control'
    <3>1. CASE OwnLimitHit /\ ~active /\ thread
      BY <1>2, <3>1 DEF IInv, TypeOK, SetLimit, StoreLimit, OwnLimitHit, CancelTermination,
             Control, ThreadMatches, MutexMatches, MutexBeforeLimits, TimerNested,
             ChecksStayValid, LimitsArmed, HitBeforeStop, LockedBefore,
             ChecksMatch, Checks, FreeSteps
    <3>2. CASE ~(OwnLimitHit /\ ~active /\ thread)
      <4>1. Rearm(thread) /\ hasMutex' = TRUE
        BY <1>2, <3>2 DEF SetLimit
      <4>2. UNCHANGED <<depth, memInProgress, interrupts>> /\ pc = "set" /\ owner = "none"
        BY <1>2 DEF SetLimit
      <4>3. LimitsArmed'
        BY <4>1, Zenon DEF LimitsArmed, Rearm, FreeSteps
      <4>4. ThreadMatches'
        BY <4>1 DEF IInv, TypeOK, Control, ThreadMatches, Rearm
      <4>5. MutexMatches' /\ HitBeforeStop' /\ LockedBefore'
        BY <4>1, <4>2 DEF IInv, TypeOK, Control, MutexMatches, ThreadMatches, HitBeforeStop,
                  LockedBefore, Rearm
      <4>6. MutexBeforeLimits' /\ ChecksStayValid'
        BY <4>1 DEF MutexBeforeLimits, ChecksStayValid, Rearm
      <4>7. TimerNested'
        <5>1. depth = 0 => ~thread /\ ~(depth > 0)
          BY <4>2 DEF IInv, Control, TimerNested
        <5>2. thread' = (thread \/ (active' /\ depth > 0)) /\ pc' = "set_tail"
          BY <4>1 DEF Rearm
        <5> QED
          BY <4>2, <5>1, <5>2, Zenon DEF TimerNested
      <4>8. ChecksMatch'
        BY <4>1, <4>2 DEF IInv, TypeOK, Control, ThreadMatches, MutexMatches, ChecksMatch, Checks,
                  FreeSteps, Rearm
      <4> QED
        BY <4>3, <4>4, <4>5, <4>6, <4>7, <4>8 DEF Control
    <3> QED
      BY <3>1, <3>2
  <2> QED
    BY <2>1, <2>2, <2>3 DEF IInv
<1>3. CASE SetJoin
  <2>1. TypeOK'
    <3>1. arg.on \in BOOLEAN
      BY ArgOn DEF IInv, TypeOK
    <3>2. FlagsOK'
      BY <1>3, <3>1, Zenon DEF IInv, TypeOK, FlagsOK, SetJoin, Rearm
    <3> QED
      BY <3>2, <1>3 DEF IInv, StackMatches, DepthBalanced, TypeOK, SetJoin, Rearm,
       PhpSteps, TimerSteps, Args, NoArg
  <2>2. StackMatches' /\ DepthBalanced'
    BY <1>3 DEF IInv, TypeOK, StackMatches, DepthBalanced, SetJoin, Rearm, Top
  <2>3. Control'
    BY <1>3 DEF IInv, TypeOK, StackMatches, DepthBalanced, SetJoin, Rearm,
             Control, ThreadMatches, MutexMatches, MutexBeforeLimits, TimerNested,
             ChecksStayValid, LimitsArmed, HitBeforeStop, LockedBefore,
             ChecksMatch, Checks, FreeSteps
  <2> QED
    BY <2>1, <2>2, <2>3 DEF IInv
<1>4. CASE SetSkipJoin
  <2>1. TypeOK'
    <3>1. arg.on \in BOOLEAN
      BY ArgOn DEF IInv, TypeOK
    <3>2. FlagsOK'
      BY <1>4, <3>1, Zenon DEF IInv, TypeOK, FlagsOK, SetSkipJoin
    <3> QED
      BY <3>2, <1>4 DEF IInv, StackMatches, DepthBalanced, TypeOK, SetSkipJoin,
       PhpSteps, TimerSteps, Args, NoArg
  <2>2. StackMatches' /\ DepthBalanced'
    BY <1>4 DEF IInv, TypeOK, StackMatches, DepthBalanced, SetSkipJoin, Top
  <2>3. Control'
    BY <1>4 DEF IInv, TypeOK, StackMatches, DepthBalanced, SetSkipJoin,
             Control, ThreadMatches, MutexMatches, MutexBeforeLimits, TimerNested,
             ChecksStayValid, LimitsArmed, HitBeforeStop, LockedBefore,
             ChecksMatch, Checks, FreeSteps
  <2> QED
    BY <2>1, <2>2, <2>3 DEF IInv
<1>5. CASE SetTailJoin
  <2>1. TypeOK'
    <3>1. arg.on \in BOOLEAN
      BY ArgOn DEF IInv, TypeOK
    <3>2. FlagsOK'
      BY <1>5, <3>1, Zenon DEF IInv, TypeOK, FlagsOK, SetTailJoin
    <3> QED
      BY <3>2, <1>5 DEF IInv, StackMatches, DepthBalanced, TypeOK, SetTailJoin,
       PhpSteps, TimerSteps, Args, NoArg
  <2>2. StackMatches' /\ DepthBalanced'
    BY <1>5 DEF IInv, TypeOK, StackMatches, DepthBalanced, SetTailJoin, Top
  <2>3. Control'
    BY <1>5 DEF IInv, TypeOK, StackMatches, DepthBalanced, SetTailJoin,
             Control, ThreadMatches, MutexMatches, MutexBeforeLimits, TimerNested,
             ChecksStayValid, LimitsArmed, HitBeforeStop, LockedBefore,
             ChecksMatch, Checks, FreeSteps
  <2> QED
    BY <2>1, <2>2, <2>3 DEF IInv
<1> QED
  BY <1>1, <1>2, <1>3, <1>4, <1>5 DEF SetStep

\* Disposal preserves it.
LEMMA FreeKeeps == IInv /\ FreeStep => IInv'
<1> SUFFICES ASSUME IInv, FreeStep PROVE IInv'
  OBVIOUS
<1> USE DEF shared, v8, php
<1>1. CASE Dispose
  <2>1. TypeOK'
    <3>1. arg.on \in BOOLEAN
      BY ArgOn DEF IInv, TypeOK
    <3>2. FlagsOK'
      BY <1>1, <3>1, Zenon DEF IInv, TypeOK, FlagsOK, Dispose
    <3> QED
      BY <3>2, EmptySeq, MaxDepthAssumption, <1>1 DEF IInv, StackMatches, DepthBalanced, TypeOK, Dispose,
       PhpSteps, TimerSteps, Args, NoArg, Kinds, Top
  <2>2. StackMatches' /\ DepthBalanced'
    BY EmptySeq, MaxDepthAssumption, <1>1 DEF IInv, TypeOK, StackMatches, DepthBalanced, Dispose, Top, Kinds
  <2>3. Control'
    BY EmptySeq, MaxDepthAssumption, <1>1 DEF IInv, TypeOK, StackMatches, DepthBalanced, Dispose,
             Control, ThreadMatches, MutexMatches, MutexBeforeLimits, TimerNested,
             ChecksStayValid, LimitsArmed, HitBeforeStop, LockedBefore,
             ChecksMatch, Checks, FreeSteps, Kinds
  <2> QED
    BY <2>1, <2>2, <2>3 DEF IInv
<1>2. CASE FreeDeactivate
  <2>1. TypeOK'
    <3>1. arg.on \in BOOLEAN
      BY ArgOn DEF IInv, TypeOK
    <3>2. FlagsOK'
      BY <1>2, <3>1, Zenon DEF IInv, TypeOK, FlagsOK, FreeDeactivate
    <3> QED
      BY <3>2, <1>2 DEF IInv, StackMatches, DepthBalanced, TypeOK, FreeDeactivate,
       PhpSteps, TimerSteps, Args, NoArg
  <2>2. StackMatches' /\ DepthBalanced'
    BY <1>2 DEF IInv, TypeOK, StackMatches, DepthBalanced, FreeDeactivate, Top
  <2>3. Control'
    BY <1>2 DEF IInv, TypeOK, StackMatches, DepthBalanced, FreeDeactivate,
             Control, ThreadMatches, MutexMatches, MutexBeforeLimits, TimerNested,
             ChecksStayValid, LimitsArmed, HitBeforeStop, LockedBefore,
             ChecksMatch, Checks, FreeSteps
  <2> QED
    BY <2>1, <2>2, <2>3 DEF IInv
<1>3. CASE FreeJoin
  <2>1. TypeOK'
    <3>1. arg.on \in BOOLEAN
      BY ArgOn DEF IInv, TypeOK
    <3>2. FlagsOK'
      BY <1>3, <3>1, Zenon DEF IInv, TypeOK, FlagsOK, FreeJoin
    <3> QED
      BY <3>2, <1>3 DEF IInv, StackMatches, DepthBalanced, TypeOK, FreeJoin,
       PhpSteps, TimerSteps, Args, NoArg
  <2>2. StackMatches' /\ DepthBalanced'
    BY <1>3 DEF IInv, TypeOK, StackMatches, DepthBalanced, FreeJoin, Top
  <2>3. Control'
    BY <1>3 DEF IInv, TypeOK, StackMatches, DepthBalanced, FreeJoin,
             Control, ThreadMatches, MutexMatches, MutexBeforeLimits, TimerNested,
             ChecksStayValid, LimitsArmed, HitBeforeStop, LockedBefore,
             ChecksMatch, Checks, FreeSteps
  <2> QED
    BY <2>1, <2>2, <2>3 DEF IInv
<1>4. CASE Freed
  <2>1. TypeOK'
    <3>1. arg.on \in BOOLEAN
      BY ArgOn DEF IInv, TypeOK
    <3>2. FlagsOK'
      BY <1>4, <3>1, Zenon DEF IInv, TypeOK, FlagsOK, Freed, vars
    <3> QED
      BY <3>2, <1>4 DEF IInv, StackMatches, DepthBalanced, TypeOK, Freed, vars,
       PhpSteps, TimerSteps, Args, NoArg
  <2>2. StackMatches' /\ DepthBalanced'
    BY <1>4 DEF IInv, TypeOK, StackMatches, DepthBalanced, Freed, vars, Top
  <2>3. Control'
    BY <1>4 DEF IInv, TypeOK, StackMatches, DepthBalanced, Freed, vars,
             Control, ThreadMatches, MutexMatches, MutexBeforeLimits, TimerNested,
             ChecksStayValid, LimitsArmed, HitBeforeStop, LockedBefore,
             ChecksMatch, Checks, FreeSteps
  <2> QED
    BY <2>1, <2>2, <2>3 DEF IInv
<1> QED
  BY <1>1, <1>2, <1>3, <1>4 DEF FreeStep

\* The timer thread preserves it.
LEMMA TimerKeeps == IInv /\ TimerStep => IInv'
<1> SUFFICES ASSUME IInv, TimerStep PROVE IInv'
  OBVIOUS
<1> USE DEF shared, v8, php
<1>1. CASE TimerLock
  <2>1. TypeOK'
    <3>1. arg.on \in BOOLEAN
      BY ArgOn DEF IInv, TypeOK
    <3>2. FlagsOK'
      BY <1>1, <3>1, Zenon DEF IInv, TypeOK, FlagsOK, TimerLock
    <3> QED
      BY <3>2, <1>1 DEF IInv, StackMatches, DepthBalanced, TypeOK, TimerLock,
       PhpSteps, TimerSteps, Args, NoArg
  <2>2. StackMatches' /\ DepthBalanced'
    BY <1>1 DEF IInv, TypeOK, StackMatches, DepthBalanced, TimerLock, Top
  <2>3. Control'
    BY <1>1 DEF IInv, TypeOK, StackMatches, DepthBalanced, TimerLock,
             Control, ThreadMatches, MutexMatches, MutexBeforeLimits, TimerNested,
             ChecksStayValid, LimitsArmed, HitBeforeStop, LockedBefore,
             ChecksMatch, Checks, FreeSteps
  <2> QED
    BY <2>1, <2>2, <2>3 DEF IInv
<1>2. CASE TimerDeactivate
  <2>1. TypeOK'
    <3>1. arg.on \in BOOLEAN
      BY ArgOn DEF IInv, TypeOK
    <3>2. FlagsOK'
      BY <1>2, <3>1, Zenon DEF IInv, TypeOK, FlagsOK, TimerDeactivate
    <3> QED
      BY <3>2, <1>2 DEF IInv, StackMatches, DepthBalanced, TypeOK, TimerDeactivate,
       PhpSteps, TimerSteps, Args, NoArg
  <2>2. StackMatches' /\ DepthBalanced'
    BY <1>2 DEF IInv, TypeOK, StackMatches, DepthBalanced, TimerDeactivate, Top
  <2>3. Control'
    BY <1>2 DEF IInv, TypeOK, StackMatches, DepthBalanced, TimerDeactivate,
             Control, ThreadMatches, MutexMatches, MutexBeforeLimits, TimerNested,
             ChecksStayValid, LimitsArmed, HitBeforeStop, LockedBefore,
             ChecksMatch, Checks, FreeSteps
  <2> QED
    BY <2>1, <2>2, <2>3 DEF IInv
<1>3. CASE TimerTerminate
  <2>1. TypeOK'
    <3>1. arg.on \in BOOLEAN
      BY ArgOn DEF IInv, TypeOK
    <3>2. FlagsOK'
      BY <1>3, <3>1, Zenon DEF IInv, TypeOK, FlagsOK, TimerTerminate
    <3> QED
      BY <3>2, <1>3 DEF IInv, StackMatches, DepthBalanced, TypeOK, TimerTerminate,
       PhpSteps, TimerSteps, Args, NoArg
  <2>2. StackMatches' /\ DepthBalanced'
    BY <1>3 DEF IInv, TypeOK, StackMatches, DepthBalanced, TimerTerminate, Top
  <2>3. Control'
    BY <1>3 DEF IInv, TypeOK, StackMatches, DepthBalanced, TimerTerminate,
             Control, ThreadMatches, MutexMatches, MutexBeforeLimits, TimerNested,
             ChecksStayValid, LimitsArmed, HitBeforeStop, LockedBefore,
             ChecksMatch, Checks, FreeSteps
  <2> QED
    BY <2>1, <2>2, <2>3 DEF IInv
<1>4. CASE TimerCheckMemory
  <2>1. TypeOK'
    <3>1. arg.on \in BOOLEAN
      BY ArgOn DEF IInv, TypeOK
    <3>2. FlagsOK'
      BY <1>4, <3>1, Zenon DEF IInv, TypeOK, FlagsOK, TimerCheckMemory
    <3> QED
      BY <3>2, <1>4 DEF IInv, StackMatches, DepthBalanced, TypeOK, TimerCheckMemory,
       PhpSteps, TimerSteps, Args, NoArg
  <2>2. StackMatches' /\ DepthBalanced'
    BY <1>4 DEF IInv, TypeOK, StackMatches, DepthBalanced, TimerCheckMemory, Top
  <2>3. Control'
    BY <1>4 DEF IInv, TypeOK, StackMatches, DepthBalanced, TimerCheckMemory,
             Control, ThreadMatches, MutexMatches, MutexBeforeLimits, TimerNested,
             ChecksStayValid, LimitsArmed, HitBeforeStop, LockedBefore,
             ChecksMatch, Checks, FreeSteps
  <2> QED
    BY <2>1, <2>2, <2>3 DEF IInv
<1>5. CASE TimerMark
  <2>1. TypeOK'
    <3>1. arg.on \in BOOLEAN
      BY ArgOn DEF IInv, TypeOK
    <3>2. FlagsOK'
      BY <1>5, <3>1, Zenon DEF IInv, TypeOK, FlagsOK, TimerMark
    <3> QED
      BY <3>2, <1>5 DEF IInv, StackMatches, DepthBalanced, TypeOK, TimerMark,
       PhpSteps, TimerSteps, Args, NoArg
  <2>2. StackMatches' /\ DepthBalanced'
    BY <1>5 DEF IInv, TypeOK, StackMatches, DepthBalanced, TimerMark, Top
  <2>3. Control'
    BY <1>5 DEF IInv, TypeOK, StackMatches, DepthBalanced, TimerMark,
             Control, ThreadMatches, MutexMatches, MutexBeforeLimits, TimerNested,
             ChecksStayValid, LimitsArmed, HitBeforeStop, LockedBefore,
             ChecksMatch, Checks, FreeSteps
  <2> QED
    BY <2>1, <2>2, <2>3 DEF IInv
<1>6. CASE TimerCheckActive
  <2>1. TypeOK'
    <3>1. arg.on \in BOOLEAN
      BY ArgOn DEF IInv, TypeOK
    <3>2. FlagsOK'
      BY <1>6, <3>1, Zenon DEF IInv, TypeOK, FlagsOK, TimerCheckActive
    <3> QED
      BY <3>2, <1>6 DEF IInv, StackMatches, DepthBalanced, TypeOK, TimerCheckActive,
       PhpSteps, TimerSteps, Args, NoArg
  <2>2. StackMatches' /\ DepthBalanced'
    BY <1>6 DEF IInv, TypeOK, StackMatches, DepthBalanced, TimerCheckActive, Top
  <2>3. Control'
    BY <1>6 DEF IInv, TypeOK, StackMatches, DepthBalanced, TimerCheckActive,
             Control, ThreadMatches, MutexMatches, MutexBeforeLimits, TimerNested,
             ChecksStayValid, LimitsArmed, HitBeforeStop, LockedBefore,
             ChecksMatch, Checks, FreeSteps
  <2> QED
    BY <2>1, <2>2, <2>3 DEF IInv
<1> QED
  BY <1>1, <1>2, <1>3, <1>4, <1>5, <1>6 DEF TimerStep

\* Only an entry adds to depth.
LEMMA DepthGrows ==
    ASSUME IInv, [Next]_vars, depth = 0, depth' = 1
    PROVE  StartTimer
<1>1. depth \in Nat
  BY DEF IInv, TypeOK
<1> USE DEF shared, v8, php
<1>2. ~(EnterStep /\ ~StartTimer)
  BY DEF EnterStep, CheckLimits, EnterBareJs
<1>3. ~JsStep
  BY DEF JsStep, JsCallback, ReturnToJs, JsFinish, JsUnwind, TakeInterrupt
<1>4. ~UserStep
  BY DEF UserStep, TerminateExecution, CancelTerminateExecution
<1>5. ~HandleStep
  BY DEF HandleStep, HandlerCheck, HandlerRecheck, HandlerOom
<1>6. ~StopStep
  BY <1>1 DEF StopStep, StopTimer, StopSkipJoin, StopJoin, StopRestore
<1>7. ~SetStep
  BY DEF SetStep, CallSetter, SetLimit, SetJoin, SetSkipJoin, SetTailJoin
<1>8. ~FreeStep
  BY DEF FreeStep, Dispose, FreeDeactivate, FreeJoin, Freed, vars
<1>9. ~TimerStep
  BY DEF TimerStep, TimerLock, TimerDeactivate, TimerTerminate, TimerCheckMemory,
         TimerMark, TimerCheckActive
<1>10. ~Expire /\ ~UNCHANGED vars
  BY DEF Expire, vars
<1> QED
  BY <1>2, <1>3, <1>4, <1>5, <1>6, <1>7, <1>8, <1>9, <1>10 DEF Next

-----------------------------------------------------------------------------
(* Theorems                                                                *)

\* The invariant holds in every reachable state.
THEOREM Invariance == Spec => []IInv
<1>1. IInv /\ [Next]_vars => IInv'
  <2> SUFFICES ASSUME IInv, [Next]_vars PROVE IInv'
    OBVIOUS
  <2>1. CASE Expire
    <3>1. FlagsOK'
      BY <2>1, Zenon DEF IInv, TypeOK, FlagsOK, Expire, v8, php
    <3>2. TypeOK'
      BY <2>1, <3>1 DEF IInv, TypeOK, Expire, v8, php
    <3>3. StackMatches' /\ DepthBalanced' /\ Control'
      BY <2>1 DEF IInv, StackMatches, Top, DepthBalanced, Expire, v8, php,
             Control, ThreadMatches, MutexMatches, MutexBeforeLimits, TimerNested,
             ChecksStayValid, LimitsArmed, HitBeforeStop, LockedBefore,
             ChecksMatch, Checks, FreeSteps
    <3> QED
      BY <3>2, <3>3 DEF IInv
  <2>2. CASE UNCHANGED vars
    <3>1. TypeOK'
      BY <2>2 DEF IInv, TypeOK, FlagsOK, vars, shared, v8, php
    <3>2. StackMatches' /\ DepthBalanced' /\ Control'
      BY <2>2 DEF IInv, StackMatches, Top, DepthBalanced, vars, shared, v8, php,
             Control, ThreadMatches, MutexMatches, MutexBeforeLimits, TimerNested,
             ChecksStayValid, LimitsArmed, HitBeforeStop, LockedBefore,
             ChecksMatch, Checks, FreeSteps
    <3> QED
      BY <3>1, <3>2 DEF IInv
  <2> QED
    BY <2>1, <2>2, EnterKeeps, JsKeeps, UserKeeps, HandleKeeps, StopKeeps, SetKeeps,
       FreeKeeps, TimerKeeps DEF Next
<1> QED
  BY InitInv, <1>1, PTL DEF Spec

\* Every variable keeps its type; in particular depth never underflows in
\* maybe_stop_timer, which asserts that it is positive.
THEOREM TypeCorrect == Spec => []TypeOK
<1>1. IInv => TypeOK
  BY DEF IInv
<1> QED
  BY <1>1, Invariance, PTL

\* limits->depth counts the supervised V8 entries on the stack, whatever the
\* order of returns, exceptions, terminations and limits set in callbacks.
THEOREM DepthAlwaysBalanced == Spec => []DepthBalanced
<1>1. IInv => DepthBalanced
  BY DEF IInv
<1> QED
  BY <1>1, Invariance, PTL

\* PHP code outside V8 never runs beside a timer thread.
THEOREM NeverTimerAtRest == Spec => []NoTimerAtRest
<1>1. IInv => NoTimerAtRest
  BY DEF IInv, Control, TimerNested, NoTimerAtRest
<1> QED
  BY <1>1, Invariance, PTL

\* memory_limit_in_progress is set exactly while a check is due.
THEOREM MemoryChecksMatch == Spec => []MemoryCheckArmed
<1>1. IInv => MemoryCheckArmed
  BY DEF IInv, TypeOK, Control, ChecksMatch, Checks, FreeSteps, MemoryCheckArmed
<1> QED
  BY <1>1, Invariance, PTL

\* The outermost entry under a time limit starts a timer with a fresh deadline.
THEOREM EntriesGetFullTime == Spec => FullTimeAtEntry
<1>1. IInv /\ [Next]_vars =>
        [(depth = 0 /\ depth' = 1 /\ timeLimit) => (thread' /\ ~expired')]_vars
  <2> SUFFICES ASSUME IInv, [Next]_vars, depth = 0, depth' = 1, timeLimit
               PROVE  thread' /\ ~expired'
    OBVIOUS
  <2>1. StartTimer
    BY DepthGrows
  <2>2. ~thread /\ ~timeHit /\ ~memHit
    BY <2>1 DEF IInv, Control, TimerNested, ChecksStayValid, StartTimer
  <2>3. active /\ hasMutex
    BY <2>1, <2>2 DEF IInv, Control, LimitsArmed, MutexBeforeLimits, FreeSteps, StartTimer
  <2>4. thread' = TRUE /\ expired' = FALSE
    BY <2>1, <2>2, <2>3 DEF StartTimer
  <2> QED
    BY <2>4
<1> QED
  BY <1>1, Invariance, PTL DEF Spec, FullTimeAtEntry
=============================================================================
