-------------------- MODULE IsolateLimitsEnforced_proofs --------------------
(***************************************************************************)
(* How far the limits of IsolateLimits are enforced: for each of           *)
(* NoStrayTermination, Supervised, HitStopsJs and JoinsCanEnd the weakest  *)
(* assumptions on MaxDepth and Behaviours we know, and the proof that it   *)
(* holds under them in every reachable state; and the refinement of        *)
(* LimitsPromise.                                                          *)
(***************************************************************************)
EXTENDS IsolateLimits_proofs

-----------------------------------------------------------------------------
(* Terminations have a cause                                               *)

\* A termination has its hit on record, also when the timer is about to request
\* it; a setter that waits for the timer has already taken it back.
CauseKnown ==
    /\ NoStrayTermination
    /\ tpc = "terminate" => timeHit
    /\ pc = "set_join" => ~termRequested /\ ~unwinding

\* Without terminateExecution() every step keeps it.
LEMMA CauseKept ==
    ASSUME "terminate" \notin Behaviours, IInv, CauseKnown, [Next]_vars
    PROVE  CauseKnown'
<1> USE DEF shared, v8, php, CauseKnown, NoStrayTermination, IInv, Control, MutexMatches, HitBeforeStop
<1>1. CASE CheckLimits
  BY <1>1 DEF CheckLimits
<1>2. CASE StartTimer
  BY <1>2 DEF StartTimer
<1>3. CASE EnterBareJs
  BY <1>3 DEF EnterBareJs
<1>4. CASE JsCallback
  BY <1>4 DEF JsCallback
<1>5. CASE ReturnToJs
  BY <1>5 DEF ReturnToJs
<1>6. CASE JsFinish
  BY <1>6 DEF JsFinish, LeaveJs
<1>7. CASE JsUnwind
  BY <1>7 DEF JsUnwind, LeaveJs
<1>8. CASE TakeInterrupt
  BY <1>8 DEF TakeInterrupt
<1>9. CASE TerminateExecution
  BY <1>9 DEF TerminateExecution
<1>10. CASE CancelTerminateExecution
  BY <1>10 DEF CancelTerminateExecution, CancelTermination
<1>11. CASE HandlerCheck
  BY <1>11 DEF HandlerCheck
<1>12. CASE HandlerRecheck
  BY <1>12 DEF HandlerRecheck
<1>13. CASE HandlerOom
  BY <1>13 DEF HandlerOom
<1>14. CASE StopTimer
  BY <1>14 DEF StopTimer
<1>15. CASE StopSkipJoin
  BY <1>15 DEF StopSkipJoin
<1>16. CASE StopJoin
  BY <1>16 DEF StopJoin
<1>17. CASE StopRestore
  BY <1>17 DEF StopRestore
<1>18. CASE CallSetter
  BY <1>18 DEF CallSetter, Args, NoArg
<1>19. CASE SetLimit
  BY <1>19 DEF SetLimit, StoreLimit, OwnLimitHit, CancelTermination, Rearm
<1>20. CASE SetJoin
  BY <1>20 DEF SetJoin, Rearm, OwnLimitHit
<1>21. CASE SetSkipJoin
  BY <1>21 DEF SetSkipJoin
<1>22. CASE SetTailJoin
  BY <1>22 DEF SetTailJoin
<1>23. CASE Dispose
  BY <1>23 DEF Dispose
<1>24. CASE FreeDeactivate
  BY <1>24 DEF FreeDeactivate
<1>25. CASE FreeJoin
  BY <1>25 DEF FreeJoin
<1>26. CASE Freed
  BY <1>26 DEF Freed, vars
<1>27. CASE TimerLock
  BY <1>27 DEF TimerLock
<1>28. CASE TimerDeactivate
  BY <1>28 DEF TimerDeactivate
<1>29. CASE TimerTerminate
  BY <1>29 DEF TimerTerminate
<1>30. CASE TimerCheckMemory
  BY <1>30 DEF TimerCheckMemory
<1>31. CASE TimerMark
  BY <1>31 DEF TimerMark
<1>32. CASE TimerCheckActive
  BY <1>32 DEF TimerCheckActive
<1>33. CASE Expire
  BY <1>33 DEF Expire
<1>34. CASE UNCHANGED vars
  BY <1>34 DEF vars
<1> QED
  BY <1>1, <1>2, <1>3, <1>4, <1>5, <1>6, <1>7, <1>8, <1>9, <1>10, <1>11,
     <1>12, <1>13, <1>14, <1>15, <1>16, <1>17, <1>18, <1>19, <1>20, <1>21,
     <1>22, <1>23, <1>24, <1>25, <1>26, <1>27, <1>28, <1>29, <1>30, <1>31,
     <1>32, <1>33, <1>34
  DEF Next, EnterStep, JsStep, UserStep, HandleStep, StopStep, SetStep, FreeStep,
      TimerStep

-----------------------------------------------------------------------------
(* Limits that are never set                                               *)

\* A limit no one sets is off, is never hit and has no setter running; without
\* a memory limit the interrupt handler collects nothing.
Unused ==
    /\ "set_time" \notin Behaviours => ~timeLimit /\ ~timeHit /\ arg.limit # "time"
    /\ "set_memory" \notin Behaviours =>
          ~memLimit /\ ~memHit /\ arg.limit # "memory" /\ pc # "intr_gc"

\* Every step keeps it.
LEMMA UnusedKept ==
    ASSUME IInv, Unused, [Next]_vars
    PROVE  Unused'
<1> USE DEF shared, v8, php, Unused
<1>1. CASE CheckLimits
  BY <1>1 DEF CheckLimits
<1>2. CASE StartTimer
  BY <1>2 DEF StartTimer
<1>3. CASE EnterBareJs
  BY <1>3 DEF EnterBareJs
<1>4. CASE JsCallback
  BY <1>4 DEF JsCallback
<1>5. CASE ReturnToJs
  BY <1>5 DEF ReturnToJs
<1>6. CASE JsFinish
  BY <1>6 DEF JsFinish, LeaveJs
<1>7. CASE JsUnwind
  BY <1>7 DEF JsUnwind, LeaveJs
<1>8. CASE TakeInterrupt
  BY <1>8 DEF TakeInterrupt
<1>9. CASE TerminateExecution
  BY <1>9 DEF TerminateExecution
<1>10. CASE CancelTerminateExecution
  BY <1>10 DEF CancelTerminateExecution, CancelTermination
<1>11. CASE HandlerCheck
  BY <1>11 DEF HandlerCheck
<1>12. CASE HandlerRecheck
  BY <1>12 DEF HandlerRecheck
<1>13. CASE HandlerOom
  BY <1>13 DEF HandlerOom
<1>14. CASE StopTimer
  BY <1>14 DEF StopTimer
<1>15. CASE StopSkipJoin
  BY <1>15 DEF StopSkipJoin
<1>16. CASE StopJoin
  BY <1>16 DEF StopJoin
<1>17. CASE StopRestore
  BY <1>17 DEF StopRestore
<1>18. CASE CallSetter
  <2>1. PICK a \in Args : /\ a.limit = "time" => "set_time" \in Behaviours
                          /\ a.limit = "memory" => "set_memory" \in Behaviours
                          /\ arg' = a
    BY <1>18, Zenon DEF CallSetter
  <2>2. UNCHANGED <<timeLimit, timeHit, memLimit, memHit>> /\ pc' = "set"
    BY <1>18 DEF CallSetter
  <2> QED
    BY <2>1, <2>2
<1>19. CASE SetLimit
  <2>1. arg' = arg /\ pc' # "intr_gc"
    BY <1>19 DEF SetLimit, Rearm
  <2>2. "set_time" \notin Behaviours => ~timeLimit' /\ ~timeHit'
    BY <1>19 DEF SetLimit, Rearm, StoreLimit, OwnLimitHit
  <2>3. "set_memory" \notin Behaviours => ~memLimit' /\ ~memHit'
    BY <1>19 DEF SetLimit, Rearm, StoreLimit, OwnLimitHit
  <2> QED
    BY <2>1, <2>2, <2>3
<1>20. CASE SetJoin
  BY <1>20 DEF SetJoin, Rearm, OwnLimitHit
<1>21. CASE SetSkipJoin
  BY <1>21 DEF SetSkipJoin, NoArg
<1>22. CASE SetTailJoin
  BY <1>22 DEF SetTailJoin, NoArg
<1>23. CASE Dispose
  BY <1>23 DEF Dispose
<1>24. CASE FreeDeactivate
  BY <1>24 DEF FreeDeactivate
<1>25. CASE FreeJoin
  BY <1>25 DEF FreeJoin
<1>26. CASE Freed
  BY <1>26 DEF Freed, vars
<1>27. CASE TimerLock
  BY <1>27 DEF TimerLock
<1>28. CASE TimerDeactivate
  BY <1>28 DEF TimerDeactivate
<1>29. CASE TimerTerminate
  BY <1>29 DEF TimerTerminate
<1>30. CASE TimerCheckMemory
  BY <1>30 DEF TimerCheckMemory
<1>31. CASE TimerMark
  BY <1>31 DEF TimerMark
<1>32. CASE TimerCheckActive
  BY <1>32 DEF TimerCheckActive
<1>33. CASE Expire
  BY <1>33 DEF Expire
<1>34. CASE UNCHANGED vars
  BY <1>34 DEF vars
<1> QED
  BY <1>1, <1>2, <1>3, <1>4, <1>5, <1>6, <1>7, <1>8, <1>9, <1>10, <1>11,
     <1>12, <1>13, <1>14, <1>15, <1>16, <1>17, <1>18, <1>19, <1>20, <1>21,
     <1>22, <1>23, <1>24, <1>25, <1>26, <1>27, <1>28, <1>29, <1>30, <1>31,
     <1>32, <1>33, <1>34
  DEF Next, EnterStep, JsStep, UserStep, HandleStep, StopStep, SetStep, FreeStep,
      TimerStep

-----------------------------------------------------------------------------
(* Supervision                                                             *)

\* The value a nested stop is about to write back is the one `active` has.
\* It fails when the timer may hit the time limit in between, which needs a
\* time limit and an entry below the one that is left.
SavedCurrent ==
    (pc \in {"stop_check", "stop_restore"} /\ depth > 0)
        => (active <=> saved) /\ MaxDepth # 1

\* Inside a supervised entry `active` means that a timer is running.
Watched == (active /\ depth > 0 /\ pc \notin FreeSteps) => thread /\ tpc # "exited"

\* Only a hit, or the PHP thread in the steps that then join it, tells the timer
\* to stop.
StoppedByHit ==
    (thread /\ ~active /\ pc \notin {"stop_check", "set_tail"} \cup FreeSteps)
        => timeHit \/ memHit

SupInv == Unused /\ SavedCurrent /\ Watched /\ StoppedByHit

\* With one entry at most, leaving it leaves an empty stack.
LEMMA LastEntry ==
    ASSUME IInv, MaxDepth = 1, frames # <<>>
    PROVE  Pop(frames) = <<>> /\ LimitedCount(Pop(frames)) = 0
<1>1. frames \in Seq(Kinds) /\ Len(frames) <= 1
  BY DEF IInv, TypeOK, Kinds
<1>2. Pop(frames) \in Seq(Kinds) /\ Len(Pop(frames)) = Len(frames) - 1
  BY <1>1, LimitedPop
<1>3. Pop(frames) = <<>>
  BY <1>1, <1>2, EmptySeq, LenProperties
<1> QED
  BY <1>3, LimitedEmpty

\* Every step keeps it when no nested stop can race the time limit.
LEMMA SupervisionKept ==
    ASSUME MaxDepth = 1 \/ "set_time" \notin Behaviours,
           IInv, IInv', SupInv, [Next]_vars
    PROVE  SavedCurrent' /\ Watched' /\ StoppedByHit'
<1> USE DEF shared, v8, php, SupInv, SavedCurrent, Watched, StoppedByHit, FreeSteps
<1>1. CASE CheckLimits
  BY <1>1 DEF CheckLimits
<1>2. CASE StartTimer
  BY <1>2 DEF StartTimer, IInv, TypeOK, Control, TimerNested, MutexBeforeLimits
<1>3. CASE EnterBareJs
  BY <1>3 DEF EnterBareJs
<1>4. CASE JsCallback
  BY <1>4 DEF JsCallback
<1>5. CASE ReturnToJs
  BY <1>5 DEF ReturnToJs
<1>6. CASE JsFinish
  BY <1>6 DEF JsFinish, LeaveJs
<1>7. CASE JsUnwind
  BY <1>7 DEF JsUnwind, LeaveJs
<1>8. CASE TakeInterrupt
  BY <1>8 DEF TakeInterrupt
<1>9. CASE TerminateExecution
  BY <1>9 DEF TerminateExecution
<1>10. CASE CancelTerminateExecution
  BY <1>10 DEF CancelTerminateExecution, CancelTermination
<1>11. CASE HandlerCheck
  BY <1>11 DEF HandlerCheck
<1>12. CASE HandlerRecheck
  BY <1>12 DEF HandlerRecheck
<1>13. CASE HandlerOom
  BY <1>13 DEF HandlerOom
<1>14. CASE StopTimer
  <2>1. depth \in Nat /\ depth' = depth - 1
    BY <1>14 DEF IInv, TypeOK, StopTimer
  <2>2. MaxDepth = 1 => depth' = 0
    <3>1. depth' = LimitedCount(frames') /\ frames' = Pop(frames) /\ frames # <<>>
      BY <1>14 DEF IInv, StackMatches, DepthBalanced, StopTimer
    <3> QED
      BY <3>1, LastEntry
  <2>3. depth' > 0 => (active' <=> active)
    BY <1>14 DEF StopTimer
  <2>4. pc' = "php" \/ (pc' = "stop_check" /\ saved' = active)
    BY <1>14 DEF StopTimer
  <2>5. thread' = thread /\ tpc' = tpc /\ pc = "stop"
    BY <1>14 DEF StopTimer
  <2>6. SavedCurrent'
    BY <2>2, <2>3, <2>4
  <2>7. Watched'
    BY <2>1, <2>3, <2>5
  <2>8. StoppedByHit'
    BY <1>14, <2>1 DEF StopTimer
  <2> QED
    BY <2>6, <2>7, <2>8
<1>15. CASE StopSkipJoin
  BY <1>15 DEF StopSkipJoin
<1>16. CASE StopJoin
  BY <1>16 DEF StopJoin
<1>17. CASE StopRestore
  BY <1>17 DEF StopRestore, IInv, TypeOK, Control, TimerNested
<1>18. CASE CallSetter
  BY <1>18 DEF CallSetter, Args, NoArg
<1>19. CASE SetLimit
  BY <1>19 DEF SetLimit, StoreLimit, OwnLimitHit, CancelTermination, Rearm
<1>20. CASE SetJoin
  BY <1>20 DEF SetJoin, Rearm, OwnLimitHit
<1>21. CASE SetSkipJoin
  BY <1>21 DEF SetSkipJoin
<1>22. CASE SetTailJoin
  BY <1>22 DEF SetTailJoin
<1>23. CASE Dispose
  BY <1>23 DEF Dispose
<1>24. CASE FreeDeactivate
  BY <1>24 DEF FreeDeactivate
<1>25. CASE FreeJoin
  BY <1>25 DEF FreeJoin
<1>26. CASE Freed
  BY <1>26 DEF Freed, vars
<1>27. CASE TimerLock
  BY <1>27 DEF TimerLock
<1>28. CASE TimerDeactivate
  BY <1>28 DEF TimerDeactivate, Unused, IInv, Control, HitBeforeStop
<1>29. CASE TimerTerminate
  BY <1>29 DEF TimerTerminate
<1>30. CASE TimerCheckMemory
  BY <1>30 DEF TimerCheckMemory
<1>31. CASE TimerMark
  BY <1>31 DEF TimerMark
<1>32. CASE TimerCheckActive
  BY <1>32 DEF TimerCheckActive
<1>33. CASE Expire
  BY <1>33 DEF Expire
<1>34. CASE UNCHANGED vars
  BY <1>34 DEF vars
<1> QED
  BY <1>1, <1>2, <1>3, <1>4, <1>5, <1>6, <1>7, <1>8, <1>9, <1>10, <1>11,
     <1>12, <1>13, <1>14, <1>15, <1>16, <1>17, <1>18, <1>19, <1>20, <1>21,
     <1>22, <1>23, <1>24, <1>25, <1>26, <1>27, <1>28, <1>29, <1>30, <1>31,
     <1>32, <1>33, <1>34
  DEF Next, EnterStep, JsStep, UserStep, HandleStep, StopStep, SetStep, FreeStep,
      TimerStep

-----------------------------------------------------------------------------
(* Memory hits with one entry at most                                      *)

\* With one entry at most and no late callback, JS that hit the memory limit can
\* only be left: no callback runs in it any more.
NoCallbackAfterHit ==
    (MaxDepth = 1 /\ "late_callback" \notin Behaviours) =>
        /\ ~unwinding
        /\ depth > 0 /\ memHit => \/ pc = "js" /\ termRequested
                                  \/ pc \in {"stop"} \cup FreeSteps

\* What JS leaves behind when its top entry is left: with a supervised entry
\* still to unwind the stack below is not empty.
LEMMA EntriesBelow ==
    ASSUME IInv, pc = "js"
    PROVE  /\ depth = LimitedCount(frames) /\ frames # <<>>
           /\ Top = "limited" /\ depth > 1 => Pop(frames) # <<>>
           /\ Top # "limited" /\ depth > 0 => Pop(frames) # <<>>
           /\ MaxDepth = 1 => Pop(frames) = <<>>
<1>1. frames \in Seq(Kinds) /\ frames # <<>> /\ depth = LimitedCount(frames)
  BY DEF IInv, TypeOK, StackMatches, DepthBalanced, Kinds
<1>2. LimitedCount(Pop(frames)) = depth - (IF Top = "limited" THEN 1 ELSE 0)
  BY <1>1, LimitedPop DEF Top
<1>3. depth \in Nat
  BY DEF IInv, TypeOK
<1> QED
  BY <1>1, <1>2, <1>3, LimitedEmpty, LastEntry

\* Every step keeps it.
LEMMA NoCallbackKept ==
    ASSUME IInv, IInv', NoCallbackAfterHit, [Next]_vars
    PROVE  NoCallbackAfterHit'
<1> USE DEF shared, v8, php, NoCallbackAfterHit, FreeSteps
<1>1. CASE CheckLimits
  BY <1>1 DEF CheckLimits
<1>2. CASE StartTimer
  BY <1>2 DEF StartTimer, IInv, TypeOK, Control, TimerNested, ChecksStayValid
<1>3. CASE EnterBareJs
  BY <1>3 DEF EnterBareJs
<1>4. CASE JsCallback
  BY <1>4 DEF JsCallback
<1>5. CASE ReturnToJs
  BY <1>5 DEF ReturnToJs
<1>6. CASE JsFinish
  BY <1>6, EntriesBelow DEF JsFinish, LeaveJs, IInv, TypeOK
<1>7. CASE JsUnwind
  BY <1>7, EntriesBelow DEF JsUnwind, LeaveJs, IInv, TypeOK
<1>8. CASE TakeInterrupt
  BY <1>8 DEF TakeInterrupt
<1>9. CASE TerminateExecution
  BY <1>9 DEF TerminateExecution
<1>10. CASE CancelTerminateExecution
  BY <1>10 DEF CancelTerminateExecution, CancelTermination
<1>11. CASE HandlerCheck
  BY <1>11 DEF HandlerCheck
<1>12. CASE HandlerRecheck
  BY <1>12 DEF HandlerRecheck
<1>13. CASE HandlerOom
  BY <1>13 DEF HandlerOom
<1>14. CASE StopTimer
  <2>1. depth \in Nat /\ depth' = depth - 1 /\ pc = "stop"
    BY <1>14 DEF IInv, TypeOK, StopTimer
  <2>2. pc' \in {"stop_check", "php"}
    BY <1>14 DEF StopTimer
  <2>3. MaxDepth = 1 => depth' = 0
    <3>1. depth' = LimitedCount(frames') /\ frames' = Pop(frames) /\ frames # <<>>
      BY <1>14, <2>2 DEF IInv, StackMatches, DepthBalanced, StopTimer
    <3> QED
      BY <3>1, LastEntry
  <2>4. UNCHANGED <<timeHit, memHit, termRequested, unwinding, tpc>>
    BY <1>14 DEF StopTimer
  <2> QED
    BY <2>1, <2>2, <2>3, <2>4
<1>15. CASE StopSkipJoin
  BY <1>15 DEF StopSkipJoin
<1>16. CASE StopJoin
  BY <1>16 DEF StopJoin
<1>17. CASE StopRestore
  BY <1>17 DEF StopRestore
<1>18. CASE CallSetter
  BY <1>18 DEF CallSetter, Args, NoArg
<1>19. CASE SetLimit
  <2>1. pc = "set" /\ depth' = depth /\ (memHit' => memHit) /\ (unwinding' => unwinding)
    BY <1>19 DEF SetLimit, Rearm, CancelTermination
  <2> QED
    BY <2>1
<1>20. CASE SetJoin
  <2>1. pc = "set_join" /\ depth' = depth /\ (memHit' => memHit) /\ unwinding' = unwinding
    BY <1>20 DEF SetJoin, Rearm
  <2> QED
    BY <2>1
<1>21. CASE SetSkipJoin
  BY <1>21 DEF SetSkipJoin
<1>22. CASE SetTailJoin
  BY <1>22 DEF SetTailJoin
<1>23. CASE Dispose
  BY <1>23 DEF Dispose
<1>24. CASE FreeDeactivate
  BY <1>24 DEF FreeDeactivate
<1>25. CASE FreeJoin
  BY <1>25 DEF FreeJoin
<1>26. CASE Freed
  BY <1>26 DEF Freed, vars
<1>27. CASE TimerLock
  BY <1>27 DEF TimerLock
<1>28. CASE TimerDeactivate
  BY <1>28 DEF TimerDeactivate
<1>29. CASE TimerTerminate
  BY <1>29 DEF TimerTerminate
<1>30. CASE TimerCheckMemory
  BY <1>30 DEF TimerCheckMemory
<1>31. CASE TimerMark
  BY <1>31 DEF TimerMark
<1>32. CASE TimerCheckActive
  BY <1>32 DEF TimerCheckActive
<1>33. CASE Expire
  BY <1>33 DEF Expire
<1>34. CASE UNCHANGED vars
  BY <1>34 DEF vars
<1> QED
  BY <1>1, <1>2, <1>3, <1>4, <1>5, <1>6, <1>7, <1>8, <1>9, <1>10, <1>11,
     <1>12, <1>13, <1>14, <1>15, <1>16, <1>17, <1>18, <1>19, <1>20, <1>21,
     <1>22, <1>23, <1>24, <1>25, <1>26, <1>27, <1>28, <1>29, <1>30, <1>31,
     <1>32, <1>33, <1>34
  DEF Next, EnterStep, JsStep, UserStep, HandleStep, StopStep, SetStep, FreeStep,
      TimerStep

-----------------------------------------------------------------------------
(* Hits                                                                    *)

\* What a hit needs to reach the code it was hit in: nobody cancels the
\* termination but the setter of the limit that was hit.  With both limits a
\* setter may also take back the other one's, unless callbacks never run while
\* a termination is pending.
Undisturbed ==
    /\ "cancel" \notin Behaviours
    /\ \/ MaxDepth = 1 /\ "late_callback" \notin Behaviours
       \/ "set_time" \notin Behaviours
       \/ "set_memory" \notin Behaviours

\* Some supervised entry is left to unwind, and no setter is about to reset
\* the hit.
Inside == /\ depth > (IF pc = "stop" THEN 1 ELSE 0)
          /\ pc \notin {"set_join"} \cup FreeSteps

\* The termination that follows a hit is requested or under way.  The interrupt
\* handler requests it in the step that records the hit, the timer two steps
\* later.
MemoryHitPending == (Inside /\ memHit) => termRequested \/ unwinding
TimeHitPending ==
    (Inside /\ timeHit /\ tpc \notin {"deactivate", "terminate"})
        => termRequested \/ unwinding

\* A setter that waits for the timer resets the only hit there is.
JoinResetsHit ==
    pc = "set_join" => \/ arg.limit = "time" /\ ~memHit
                       \/ arg.limit = "memory" /\ ~timeHit

HitInv == Unused /\ MemoryHitPending /\ TimeHitPending /\ JoinResetsHit /\ NoCallbackAfterHit

\* Every step keeps it.
LEMMA HitKept ==
    ASSUME Undisturbed, IInv, IInv', HitInv, [Next]_vars
    PROVE  MemoryHitPending' /\ TimeHitPending' /\ JoinResetsHit'
<1> USE DEF shared, v8, php, HitInv, MemoryHitPending, TimeHitPending, Inside, JoinResetsHit,
       NoCallbackAfterHit, FreeSteps
<1>1. CASE CheckLimits
  BY <1>1 DEF CheckLimits
<1>2. CASE StartTimer
  BY <1>2 DEF StartTimer, IInv, TypeOK, Control, TimerNested, ChecksStayValid
<1>3. CASE EnterBareJs
  BY <1>3 DEF EnterBareJs
<1>4. CASE JsCallback
  BY <1>4 DEF JsCallback
<1>5. CASE ReturnToJs
  BY <1>5 DEF ReturnToJs
<1>6. CASE JsFinish
  BY <1>6, EntriesBelow DEF JsFinish, LeaveJs, IInv, TypeOK
<1>7. CASE JsUnwind
  BY <1>7, EntriesBelow DEF JsUnwind, LeaveJs, IInv, TypeOK
<1>8. CASE TakeInterrupt
  BY <1>8 DEF TakeInterrupt
<1>9. CASE TerminateExecution
  BY <1>9 DEF TerminateExecution
<1>10. CASE CancelTerminateExecution
  BY <1>10 DEF CancelTerminateExecution, CancelTermination, Undisturbed
<1>11. CASE HandlerCheck
  BY <1>11 DEF HandlerCheck
<1>12. CASE HandlerRecheck
  BY <1>12 DEF HandlerRecheck
<1>13. CASE HandlerOom
  BY <1>13 DEF HandlerOom
<1>14. CASE StopTimer
  <2>1. depth \in Nat /\ depth' = depth - 1 /\ pc = "stop"
    BY <1>14 DEF IInv, TypeOK, StopTimer
  <2>2. pc' \in {"stop_check", "php"}
    BY <1>14 DEF StopTimer
  <2>3. UNCHANGED <<timeHit, memHit, termRequested, unwinding, tpc>>
    BY <1>14 DEF StopTimer
  <2> QED
    BY <2>1, <2>2, <2>3
<1>15. CASE StopSkipJoin
  BY <1>15 DEF StopSkipJoin
<1>16. CASE StopJoin
  BY <1>16 DEF StopJoin
<1>17. CASE StopRestore
  BY <1>17 DEF StopRestore
<1>18. CASE CallSetter
  BY <1>18 DEF CallSetter, Args, NoArg
<1>19. CASE SetLimit
  <2>1. pc = "set" /\ owner = "none" /\ depth' = depth /\ arg' = arg
    BY <1>19 DEF SetLimit, Rearm
  <2>2. OwnLimitHit /\ depth > 0 => \/ arg.limit = "time" /\ ~memHit
                                    \/ arg.limit = "memory" /\ ~timeHit
    BY <2>1 DEF OwnLimitHit, Undisturbed, Unused
  <2>3. CASE pc' = "set_join"
    <3>1. /\ OwnLimitHit /\ thread
          /\ UNCHANGED <<timeHit, memHit>>
          /\ termRequested' = FALSE /\ unwinding' = FALSE
      BY <1>19, <2>3 DEF SetLimit, Rearm, CancelTermination
    <3>2. depth > 0
      BY <2>1, <3>1 DEF IInv, TypeOK, Control, TimerNested
    <3> QED
      BY <2>1, <2>2, <2>3, <3>1, <3>2
  <2>4. CASE pc' # "set_join"
    <3>1. /\ timeHit' <=> (timeHit /\ arg.limit # "time")
          /\ memHit' <=> (memHit /\ arg.limit # "memory")
          /\ pc' = "set_tail"
      BY <1>19, <2>4 DEF SetLimit, Rearm
    <3>2. ~OwnLimitHit => termRequested' = termRequested /\ unwinding' = unwinding
      BY <1>19 DEF SetLimit
    <3>3. unwinding' => unwinding
      BY <1>19 DEF SetLimit, CancelTermination
    <3>4. OwnLimitHit /\ depth > 0 => ~timeHit' /\ ~memHit'
      BY <2>2, <3>1
    <3>5. tpc \notin {"deactivate", "terminate"}
      BY <2>1 DEF IInv, Control, MutexMatches
    <3> QED
      BY <2>1, <2>4, <3>1, <3>2, <3>3, <3>4, <3>5
  <2> QED
    BY <2>3, <2>4
<1>20. CASE SetJoin
  BY <1>20 DEF SetJoin, Rearm, OwnLimitHit
<1>21. CASE SetSkipJoin
  BY <1>21 DEF SetSkipJoin
<1>22. CASE SetTailJoin
  BY <1>22 DEF SetTailJoin
<1>23. CASE Dispose
  BY <1>23 DEF Dispose
<1>24. CASE FreeDeactivate
  BY <1>24 DEF FreeDeactivate
<1>25. CASE FreeJoin
  BY <1>25 DEF FreeJoin
<1>26. CASE Freed
  BY <1>26 DEF Freed, vars
<1>27. CASE TimerLock
  BY <1>27 DEF TimerLock, IInv, Control, MutexMatches
<1>28. CASE TimerDeactivate
  BY <1>28 DEF TimerDeactivate
<1>29. CASE TimerTerminate
  BY <1>29 DEF TimerTerminate
<1>30. CASE TimerCheckMemory
  BY <1>30 DEF TimerCheckMemory
<1>31. CASE TimerMark
  BY <1>31 DEF TimerMark
<1>32. CASE TimerCheckActive
  BY <1>32 DEF TimerCheckActive
<1>33. CASE Expire
  BY <1>33 DEF Expire
<1>34. CASE UNCHANGED vars
  BY <1>34 DEF vars
<1> QED
  BY <1>1, <1>2, <1>3, <1>4, <1>5, <1>6, <1>7, <1>8, <1>9, <1>10, <1>11,
     <1>12, <1>13, <1>14, <1>15, <1>16, <1>17, <1>18, <1>19, <1>20, <1>21,
     <1>22, <1>23, <1>24, <1>25, <1>26, <1>27, <1>28, <1>29, <1>30, <1>31,
     <1>32, <1>33, <1>34
  DEF Next, EnterStep, JsStep, UserStep, HandleStep, StopStep, SetStep, FreeStep,
      TimerStep

-----------------------------------------------------------------------------
(* Joins                                                                   *)

\* Whoever waits for the timer to end leaves it the mutex: nobody joins a timer
\* that still has to lock it while holding it.
JoinsCanEnd ==
    (pc \in {"stop_check", "set_join", "set_tail", "free", "free_join"} /\ tpc = "lock")
        => owner = "none"

\* A timer told to stop does not go round its loop again.  Where it was told by
\* the memory check, or by the PHP thread that is about to join it, it may still
\* be on its way to the mutex.
StoppedTimerLeaves ==
    (thread /\ ~active /\ tpc = "lock")
        => memHit \/ pc \in {"stop_check", "set_tail"} \cup FreeSteps

\* A stop restores at least what is there.
RestoresActive == (pc \in {"stop_check", "stop_restore"} /\ active) => saved

\* A setter waits for a timer that is past the mutex, and only a collection that
\* runs out of memory leaves it locked.
JoinPastLock ==
    /\ pc = "set_join" => ~active /\ tpc # "lock"
    /\ pc \in FreeSteps => owner # "php"

\* Without bare entries all the stack is supervised.
NoBareEntries ==
    "bare_js" \notin Behaviours => \A i \in 1..Len(frames) : frames[i] = "limited"

\* JS that hit the memory limit is left, and its timer joined, before PHP code
\* runs again; nothing switches the timer on before the hit is taken back.
MemoryHitJoined ==
    memHit =>
        /\ ~active
        /\ pc \in {"stop_check", "stop_restore"} => ~saved
        /\ thread => \/ pc = "js" /\ (termRequested \/ unwinding)
                     \/ pc \in {"stop", "stop_check"} \cup FreeSteps

JoinInv ==
    /\ Unused /\ NoBareEntries /\ MemoryHitJoined
    /\ StoppedTimerLeaves /\ RestoresActive /\ JoinPastLock

\* What a setter of the memory limit needs of the program: PHP code does not run
\* between the hit and the stop that joins the timer, neither in the JS that hit
\* the limit nor below a bare entry on top of a supervised one, and no collection
\* dies.
JoinsSafe ==
    \/ "set_memory" \notin Behaviours
    \/ /\ {"late_callback", "oom"} \cap Behaviours = {}
       /\ MaxDepth = 1 \/ "bare_js" \notin Behaviours

\* Leaving the top entry does not change the ones below.
LEMMA PopKeepsRest ==
    ASSUME NEW f \in Seq(Kinds), f # <<>>
    PROVE  \A i \in 1..Len(Pop(f)) : i \in 1..Len(f) /\ Pop(f)[i] = f[i]
<1>1. Len(f) \in Nat /\ Len(f) > 0 /\ Len(Pop(f)) = Len(f) - 1
  BY LimitedPop, EmptySeq, LenProperties
<1>2. \A i \in 1..(Len(f) - 1) : SubSeq(f, 1, Len(f) - 1)[i] = f[i]
  BY <1>1
<1> QED
  BY <1>1, <1>2 DEF Pop

\* Every step keeps it.
LEMMA NoBareKept ==
    ASSUME IInv, NoBareEntries, [Next]_vars
    PROVE  NoBareEntries'
<1> USE DEF NoBareEntries, shared, v8, php
<1>1. frames \in Seq(Kinds)
  BY DEF IInv, TypeOK, Kinds
<1>2. CASE UNCHANGED frames
  BY <1>2
<1>3. CASE frames' = <<>>
  BY <1>3
<1>4. CASE frames' = Append(frames, "limited")
  BY <1>1, <1>4
<1>5. CASE frames' = Pop(frames) /\ frames # <<>>
  BY <1>1, <1>5, PopKeepsRest
<1>6. CASE EnterBareJs
  BY <1>6 DEF EnterBareJs
<1>7. pc \in {"js", "stop"} => frames # <<>>
  BY DEF IInv, StackMatches
<1>8. EnterStep => UNCHANGED frames \/ frames' = Append(frames, "limited") \/ EnterBareJs
  BY DEF EnterStep, CheckLimits, StartTimer
<1>9. JsStep => UNCHANGED frames \/ (frames' = Pop(frames) /\ frames # <<>>)
  BY <1>7 DEF JsStep, JsCallback, ReturnToJs, JsFinish, JsUnwind, TakeInterrupt, LeaveJs
<1>10. UserStep => UNCHANGED frames
  BY DEF UserStep, TerminateExecution, CancelTerminateExecution
<1>11. HandleStep => UNCHANGED frames \/ frames' = <<>>
  BY DEF HandleStep, HandlerCheck, HandlerRecheck, HandlerOom
<1>12. StopStep => UNCHANGED frames \/ (frames' = Pop(frames) /\ frames # <<>>)
  BY <1>7 DEF StopStep, StopTimer, StopSkipJoin, StopJoin, StopRestore
<1>13. SetStep => UNCHANGED frames
  BY DEF SetStep, CallSetter, SetLimit, SetJoin, SetSkipJoin, SetTailJoin
<1>14. FreeStep => UNCHANGED frames \/ frames' = <<>>
  BY DEF FreeStep, Dispose, FreeDeactivate, FreeJoin, Freed, vars
<1>15. TimerStep \/ Expire => UNCHANGED frames
  BY DEF TimerStep, TimerLock, TimerDeactivate, TimerTerminate, TimerCheckMemory,
         TimerMark, TimerCheckActive, Expire
<1>16. UNCHANGED vars => UNCHANGED frames
  BY DEF vars
<1> QED
  BY <1>2, <1>3, <1>4, <1>5, <1>6, <1>8, <1>9, <1>10, <1>11, <1>12, <1>13, <1>14,
     <1>15, <1>16 DEF Next

\* In JS that runs under a timer the top entry is supervised.
LEMMA SupervisedTop ==
    ASSUME IInv, NoBareEntries, MaxDepth = 1 \/ "bare_js" \notin Behaviours,
           pc = "js", thread
    PROVE  Top = "limited"
<1>1. frames \in Seq(Kinds) /\ frames # <<>>
  BY DEF IInv, TypeOK, Kinds, StackMatches
<1>2. Len(frames) \in 1..Len(frames)
  BY <1>1, EmptySeq, LenProperties
<1>3. CASE "bare_js" \notin Behaviours
  BY <1>2, <1>3 DEF NoBareEntries, Top
<1>4. CASE MaxDepth = 1
  <2>1. depth > 0
    BY DEF IInv, TypeOK, Control, TimerNested
  <2> QED
    BY <1>4, <2>1, EntriesBelow
<1> QED
  BY <1>3, <1>4

\* Every step keeps it.
LEMMA MemoryHitKept ==
    ASSUME JoinsSafe, IInv, IInv', JoinInv, [Next]_vars
    PROVE  MemoryHitJoined'
<1> USE DEF shared, v8, php, JoinInv, MemoryHitJoined, FreeSteps
<1>1. CASE CheckLimits
  BY <1>1 DEF CheckLimits
<1>2. CASE StartTimer
  BY <1>2 DEF StartTimer
<1>3. CASE EnterBareJs
  BY <1>3 DEF EnterBareJs
<1>4. CASE JsCallback
  BY <1>4 DEF JsCallback, JoinsSafe, Unused
<1>5. CASE ReturnToJs
  BY <1>5 DEF ReturnToJs
<1>6. CASE JsFinish
  <2>1. pc = "js" /\ frames # <<>> /\ frames \in Seq(Kinds) /\ UNCHANGED <<memHit, active, thread>>
    BY <1>6 DEF JsFinish, IInv, TypeOK, Kinds, StackMatches
  <2>2. memHit /\ thread => Top = "limited"
    BY <2>1, SupervisedTop DEF JoinsSafe, Unused
  <2> QED
    BY <1>6, <2>1, <2>2 DEF JsFinish, LeaveJs
<1>7. CASE JsUnwind
  <2>1. pc = "js" /\ frames # <<>> /\ frames \in Seq(Kinds) /\ UNCHANGED <<memHit, active, thread>>
    BY <1>7 DEF JsUnwind, IInv, TypeOK, Kinds, StackMatches
  <2>2. memHit /\ thread => Top = "limited"
    BY <2>1, SupervisedTop DEF JoinsSafe, Unused
  <2> QED
    BY <1>7, <2>1, <2>2 DEF JsUnwind, LeaveJs
<1>8. CASE TakeInterrupt
  BY <1>8 DEF TakeInterrupt
<1>9. CASE TerminateExecution
  BY <1>9 DEF TerminateExecution
<1>10. CASE CancelTerminateExecution
  BY <1>10 DEF CancelTerminateExecution, CancelTermination
<1>11. CASE HandlerCheck
  BY <1>11 DEF HandlerCheck
<1>12. CASE HandlerRecheck
  BY <1>12 DEF HandlerRecheck
<1>13. CASE HandlerOom
  BY <1>13 DEF HandlerOom, JoinsSafe, Unused
<1>14. CASE StopTimer
  BY <1>14 DEF StopTimer, IInv, Control, MutexBeforeLimits
<1>15. CASE StopSkipJoin
  BY <1>15 DEF StopSkipJoin
<1>16. CASE StopJoin
  BY <1>16 DEF StopJoin
<1>17. CASE StopRestore
  BY <1>17 DEF StopRestore
<1>18. CASE CallSetter
  BY <1>18 DEF CallSetter, Args, NoArg
<1>19. CASE SetLimit
  <2>1. pc = "set" /\ pc' \in {"set_join", "set_tail"} /\ (memHit' => memHit)
    BY <1>19 DEF SetLimit, Rearm
  <2>2. CASE UNCHANGED <<active, thread>>
    BY <2>1, <2>2
  <2>3. CASE Rearm(thread)
    BY <2>1, <2>3 DEF Rearm
  <2> QED
    BY <1>19, <2>2, <2>3 DEF SetLimit
<1>20. CASE SetJoin
  BY <1>20 DEF SetJoin, Rearm
<1>21. CASE SetSkipJoin
  BY <1>21 DEF SetSkipJoin
<1>22. CASE SetTailJoin
  BY <1>22 DEF SetTailJoin
<1>23. CASE Dispose
  BY <1>23 DEF Dispose, IInv, Control, MutexMatches
<1>24. CASE FreeDeactivate
  BY <1>24 DEF FreeDeactivate
<1>25. CASE FreeJoin
  BY <1>25 DEF FreeJoin
<1>26. CASE Freed
  BY <1>26 DEF Freed, vars
<1>27. CASE TimerLock
  BY <1>27 DEF TimerLock
<1>28. CASE TimerDeactivate
  BY <1>28 DEF TimerDeactivate
<1>29. CASE TimerTerminate
  BY <1>29 DEF TimerTerminate
<1>30. CASE TimerCheckMemory
  BY <1>30 DEF TimerCheckMemory
<1>31. CASE TimerMark
  BY <1>31 DEF TimerMark
<1>32. CASE TimerCheckActive
  BY <1>32 DEF TimerCheckActive
<1>33. CASE Expire
  BY <1>33 DEF Expire
<1>34. CASE UNCHANGED vars
  BY <1>34 DEF vars
<1> QED
  BY <1>1, <1>2, <1>3, <1>4, <1>5, <1>6, <1>7, <1>8, <1>9, <1>10, <1>11,
     <1>12, <1>13, <1>14, <1>15, <1>16, <1>17, <1>18, <1>19, <1>20, <1>21,
     <1>22, <1>23, <1>24, <1>25, <1>26, <1>27, <1>28, <1>29, <1>30, <1>31,
     <1>32, <1>33, <1>34
  DEF Next, EnterStep, JsStep, UserStep, HandleStep, StopStep, SetStep, FreeStep,
      TimerStep

\* Every step keeps it.
LEMMA JoinKept ==
    ASSUME JoinsSafe, IInv, IInv', JoinInv, [Next]_vars
    PROVE  StoppedTimerLeaves' /\ RestoresActive' /\ JoinPastLock'
<1> USE DEF shared, v8, php, JoinInv, StoppedTimerLeaves, RestoresActive, JoinPastLock, FreeSteps
<1>1. CASE CheckLimits
  BY <1>1 DEF CheckLimits
<1>2. CASE StartTimer
  BY <1>2 DEF StartTimer
<1>3. CASE EnterBareJs
  BY <1>3 DEF EnterBareJs
<1>4. CASE JsCallback
  BY <1>4 DEF JsCallback
<1>5. CASE ReturnToJs
  BY <1>5 DEF ReturnToJs
<1>6. CASE JsFinish
  BY <1>6 DEF JsFinish, LeaveJs
<1>7. CASE JsUnwind
  BY <1>7 DEF JsUnwind, LeaveJs
<1>8. CASE TakeInterrupt
  BY <1>8 DEF TakeInterrupt
<1>9. CASE TerminateExecution
  BY <1>9 DEF TerminateExecution
<1>10. CASE CancelTerminateExecution
  BY <1>10 DEF CancelTerminateExecution, CancelTermination
<1>11. CASE HandlerCheck
  BY <1>11 DEF HandlerCheck
<1>12. CASE HandlerRecheck
  BY <1>12 DEF HandlerRecheck
<1>13. CASE HandlerOom
  BY <1>13 DEF HandlerOom, JoinsSafe, Unused
<1>14. CASE StopTimer
  <2>1. /\ pc = "stop" /\ UNCHANGED <<thread, tpc, memHit>>
        /\ (active' => active)
        /\ \/ pc' = "php" /\ active' = active
           \/ pc' = "stop_check" /\ saved' = active
    BY <1>14 DEF StopTimer
  <2> QED
    BY <2>1
<1>15. CASE StopSkipJoin
  BY <1>15 DEF StopSkipJoin
<1>16. CASE StopJoin
  BY <1>16 DEF StopJoin
<1>17. CASE StopRestore
  BY <1>17 DEF StopRestore
<1>18. CASE CallSetter
  BY <1>18 DEF CallSetter, Args, NoArg
<1>19. CASE SetLimit
  <2>1. /\ pc = "set" /\ owner = "none" /\ memHit' \in {memHit, FALSE}
        /\ pc' \in {"set_join", "set_tail"}
    BY <1>19 DEF SetLimit, Rearm, IInv, TypeOK, FlagsOK
  <2>2. CASE pc' = "set_join"
    <3>1. thread /\ ~active /\ OwnLimitHit /\ UNCHANGED <<thread, active, memHit, tpc>>
      BY <1>19, <2>2 DEF SetLimit, Rearm
    <3>2. ~memHit
      BY <2>1, <3>1 DEF MemoryHitJoined
    <3>3. tpc # "lock"
      BY <2>1, <3>1, <3>2
    <3> QED
      BY <2>2, <3>1, <3>3
  <2>3. CASE pc' = "set_tail"
    BY <2>3
  <2> QED
    BY <2>1, <2>2, <2>3
<1>20. CASE SetJoin
  BY <1>20 DEF SetJoin, Rearm, OwnLimitHit
<1>21. CASE SetSkipJoin
  BY <1>21 DEF SetSkipJoin
<1>22. CASE SetTailJoin
  BY <1>22 DEF SetTailJoin
<1>23. CASE Dispose
  BY <1>23 DEF Dispose, IInv, Control, MutexMatches
<1>24. CASE FreeDeactivate
  BY <1>24 DEF FreeDeactivate
<1>25. CASE FreeJoin
  BY <1>25 DEF FreeJoin
<1>26. CASE Freed
  BY <1>26 DEF Freed, vars
<1>27. CASE TimerLock
  BY <1>27 DEF TimerLock
<1>28. CASE TimerDeactivate
  BY <1>28 DEF TimerDeactivate
<1>29. CASE TimerTerminate
  BY <1>29 DEF TimerTerminate
<1>30. CASE TimerCheckMemory
  BY <1>30 DEF TimerCheckMemory
<1>31. CASE TimerMark
  BY <1>31 DEF TimerMark
<1>32. CASE TimerCheckActive
  BY <1>32 DEF TimerCheckActive
<1>33. CASE Expire
  BY <1>33 DEF Expire
<1>34. CASE UNCHANGED vars
  BY <1>34 DEF vars
<1> QED
  BY <1>1, <1>2, <1>3, <1>4, <1>5, <1>6, <1>7, <1>8, <1>9, <1>10, <1>11,
     <1>12, <1>13, <1>14, <1>15, <1>16, <1>17, <1>18, <1>19, <1>20, <1>21,
     <1>22, <1>23, <1>24, <1>25, <1>26, <1>27, <1>28, <1>29, <1>30, <1>31,
     <1>32, <1>33, <1>34
  DEF Next, EnterStep, JsStep, UserStep, HandleStep, StopStep, SetStep, FreeStep,
      TimerStep

-----------------------------------------------------------------------------
(* Theorems                                                                *)

\* A setter's argument is NoArg at first.
LEMMA EnforcedInit == Init => CauseKnown /\ SupInv /\ HitInv
BY DEF Init, NoArg, CauseKnown, NoStrayTermination, SupInv, Unused, SavedCurrent,
       Watched, StoppedByHit, HitInv, MemoryHitPending, TimeHitPending, Inside,
       JoinResetsHit, NoCallbackAfterHit

\* Unless the program terminates JS itself, a termination that is requested or
\* under way has the hit that caused it on record, at every depth and with every
\* setter, late callback, cancellation and fatal error.
THEOREM TerminationsHaveCause ==
    ASSUME "terminate" \notin Behaviours
    PROVE  Spec => []NoStrayTermination
<1>1. IInv /\ CauseKnown /\ [Next]_vars => CauseKnown'
  BY CauseKept
<1>2. CauseKnown => NoStrayTermination
  BY DEF CauseKnown
<1> QED
  BY <1>1, <1>2, EnforcedInit, Invariance, PTL DEF Spec

\* JS that runs under a limit not yet hit has a timer watching it, with a memory
\* limit alone at every depth, with a time limit as long as entries are not
\* nested: what fails otherwise is SavedCurrent, the stale write of `active`.
THEOREM SupervisedJs ==
    ASSUME MaxDepth = 1 \/ "set_time" \notin Behaviours
    PROVE  Spec => []Supervised
<1>1. IInv /\ IInv' /\ SupInv /\ [Next]_vars => SupInv'
  BY UnusedKept, SupervisionKept DEF SupInv
<1>2. IInv /\ SupInv => Supervised
  BY DEF IInv, Control, LimitsArmed, SupInv, Watched, Supervised, FreeSteps
<1> QED
  BY <1>1, <1>2, EnforcedInit, Invariance, PTL DEF Spec

\* JS in which a limit was hit is being terminated, unless the program cancels
\* that: with one kind of limit at every depth, with both kinds where a callback
\* cannot set one limit after the other one was hit.
THEOREM HitsStopJs ==
    ASSUME Undisturbed
    PROVE  Spec => []HitStopsJs
<1>1. IInv /\ IInv' /\ HitInv /\ [Next]_vars => HitInv'
  BY UnusedKept, NoCallbackKept, HitKept DEF HitInv
<1>2. IInv /\ HitInv => HitStopsJs
  BY DEF IInv, Control, MutexMatches, HitInv, MemoryHitPending, TimeHitPending,
         Inside, FreeSteps, HitStopsJs
<1> QED
  BY <1>1, <1>2, EnforcedInit, Invariance, PTL DEF Spec

\* Nothing waits for the timer at first.
LEMMA JoinInit == Init => JoinInv
BY DEF Init, NoArg, JoinInv, Unused, NoBareEntries, MemoryHitJoined, StoppedTimerLeaves,
       RestoresActive, JoinPastLock, FreeSteps

\* No join of the timer can deadlock, neither of a stop nor of a setter nor of
\* the disposal, at any depth, unless PHP code runs between a memory hit and the
\* stop that joins the timer (limits_memory_recovery sets the limit again there)
\* or a collection dies.
THEOREM JoinsAlwaysEnd ==
    ASSUME JoinsSafe
    PROVE  Spec => []JoinsCanEnd
<1>1. IInv /\ IInv' /\ JoinInv /\ [Next]_vars => JoinInv'
  BY UnusedKept, NoBareKept, MemoryHitKept, JoinKept DEF JoinInv
<1>2. IInv /\ JoinInv => JoinsCanEnd
  BY DEF IInv, TypeOK, Control, MutexMatches, JoinInv, JoinPastLock, JoinsCanEnd, FreeSteps
<1> QED
  BY <1>1, <1>2, JoinInit, Invariance, PTL DEF Spec

-----------------------------------------------------------------------------
(* The promise                                                             *)

\* The timer is switched on for a limit only, and the value a stop writes back
\* is no exception.
ActiveLimited ==
    /\ active => timeLimit \/ memLimit
    /\ (pc \in {"stop_check", "stop_restore"} /\ saved) => timeLimit \/ memLimit

\* A collection is forced for a memory limit only.
CollectsForLimit == pc = "intr_gc" => memLimit

\* A timer that is not being stopped belongs to an entry, also during disposal.
TimerEntered == (thread /\ depth = 0) => pc = "stop_check"

\* A setter that waits is one of the two.
JoinHasLimit == pc = "set_join" => arg.limit \in {"time", "memory"}

PromiseInv == ActiveLimited /\ CollectsForLimit /\ TimerEntered /\ JoinHasLimit

\* Every step keeps it, whatever the behaviours.
LEMMA PromiseInvKept ==
    ASSUME IInv, PromiseInv, [Next]_vars
    PROVE  PromiseInv'
<1> USE DEF shared, v8, php, PromiseInv, ActiveLimited, CollectsForLimit, TimerEntered, JoinHasLimit,
       FreeSteps
<1>1. CASE CheckLimits
  BY <1>1 DEF CheckLimits
<1>2. CASE StartTimer
  BY <1>2 DEF StartTimer, IInv, TypeOK
<1>3. CASE EnterBareJs
  BY <1>3 DEF EnterBareJs
<1>4. CASE JsCallback
  BY <1>4 DEF JsCallback
<1>5. CASE ReturnToJs
  BY <1>5 DEF ReturnToJs
<1>6. CASE JsFinish
  BY <1>6 DEF JsFinish, LeaveJs
<1>7. CASE JsUnwind
  BY <1>7 DEF JsUnwind, LeaveJs
<1>8. CASE TakeInterrupt
  BY <1>8 DEF TakeInterrupt
<1>9. CASE TerminateExecution
  BY <1>9 DEF TerminateExecution
<1>10. CASE CancelTerminateExecution
  BY <1>10 DEF CancelTerminateExecution, CancelTermination
<1>11. CASE HandlerCheck
  BY <1>11 DEF HandlerCheck
<1>12. CASE HandlerRecheck
  BY <1>12 DEF HandlerRecheck
<1>13. CASE HandlerOom
  BY <1>13 DEF HandlerOom, IInv, Control, TimerNested
<1>14. CASE StopTimer
  <2>1. /\ active' => active
        /\ pc' = "stop_check" => saved' = active
        /\ pc' \in {"stop_check", "php"}
    BY <1>14 DEF StopTimer
  <2>2. UNCHANGED <<thread, timeLimit, memLimit>> /\ hasMutex' = hasMutex
    BY <1>14 DEF StopTimer
  <2>3. pc' = "php" => ~thread
    BY <1>14 DEF StopTimer, IInv, Control, MutexBeforeLimits
  <2> QED
    BY <2>1, <2>2, <2>3
<1>15. CASE StopSkipJoin
  BY <1>15 DEF StopSkipJoin, IInv, Control, TimerNested
<1>16. CASE StopJoin
  BY <1>16 DEF StopJoin
<1>17. CASE StopRestore
  BY <1>17 DEF StopRestore
<1>18. CASE CallSetter
  BY <1>18 DEF CallSetter, Args, NoArg
<1>19. CASE SetLimit
  <2>1. pc = "set" /\ depth' = depth /\ pc' \in {"set_join", "set_tail"}
    BY <1>19 DEF SetLimit, Rearm
  <2>2. depth = 0 => ~thread
    BY <2>1 DEF IInv, Control, TimerNested
  <2>3. active' => timeLimit' \/ memLimit'
    BY <1>19 DEF SetLimit, Rearm
  <2>4. thread' => thread \/ depth > 0
    BY <1>19 DEF SetLimit, Rearm
  <2>5. arg' = arg /\ (pc' = "set_join" => OwnLimitHit)
    BY <1>19 DEF SetLimit, Rearm
  <2> QED
    BY <2>1, <2>2, <2>3, <2>4, <2>5 DEF OwnLimitHit
<1>20. CASE SetJoin
  <2>1. pc' = "set_tail" /\ depth' = depth
    BY <1>20 DEF SetJoin, Rearm
  <2>2. active' => timeLimit' \/ memLimit'
    BY <1>20 DEF SetJoin, Rearm
  <2>3. thread' => depth > 0
    BY <1>20 DEF SetJoin, Rearm
  <2> QED
    BY <2>1, <2>2, <2>3
<1>21. CASE SetSkipJoin
  BY <1>21 DEF SetSkipJoin
<1>22. CASE SetTailJoin
  BY <1>22 DEF SetTailJoin
<1>23. CASE Dispose
  BY <1>23 DEF Dispose, IInv, Control, TimerNested
<1>24. CASE FreeDeactivate
  BY <1>24 DEF FreeDeactivate
<1>25. CASE FreeJoin
  BY <1>25 DEF FreeJoin
<1>26. CASE Freed
  BY <1>26 DEF Freed, vars
<1>27. CASE TimerLock
  BY <1>27 DEF TimerLock
<1>28. CASE TimerDeactivate
  BY <1>28 DEF TimerDeactivate
<1>29. CASE TimerTerminate
  BY <1>29 DEF TimerTerminate
<1>30. CASE TimerCheckMemory
  BY <1>30 DEF TimerCheckMemory
<1>31. CASE TimerMark
  BY <1>31 DEF TimerMark
<1>32. CASE TimerCheckActive
  BY <1>32 DEF TimerCheckActive
<1>33. CASE Expire
  BY <1>33 DEF Expire
<1>34. CASE UNCHANGED vars
  BY <1>34 DEF vars
<1> QED
  BY <1>1, <1>2, <1>3, <1>4, <1>5, <1>6, <1>7, <1>8, <1>9, <1>10, <1>11,
     <1>12, <1>13, <1>14, <1>15, <1>16, <1>17, <1>18, <1>19, <1>20, <1>21,
     <1>22, <1>23, <1>24, <1>25, <1>26, <1>27, <1>28, <1>29, <1>30, <1>31,
     <1>32, <1>33, <1>34
  DEF Next, EnterStep, JsStep, UserStep, HandleStep, StopStep, SetStep, FreeStep,
      TimerStep

\* The sets of LimitsPromise say what the flags say.
LEMMA SetsOfFlags ==
    /\ "time" \in LimitsSet <=> timeLimit
    /\ "memory" \in LimitsSet <=> memLimit
    /\ "time" \in LimitsHit <=> timeHit
    /\ "memory" \in LimitsHit <=> memHit
    /\ LimitsSet \subseteq {"time", "memory"} /\ LimitsHit \subseteq {"time", "memory"}
BY DEF LimitsSet, LimitsHit

\* They do so after a step, too.
LEMMA SetsOfNextFlags ==
    /\ "time" \in LimitsSet' <=> timeLimit'
    /\ "memory" \in LimitsSet' <=> memLimit'
    /\ "time" \in LimitsHit' <=> timeHit'
    /\ "memory" \in LimitsHit' <=> memHit'
    /\ LimitsSet' \subseteq {"time", "memory"} /\ LimitsHit' \subseteq {"time", "memory"}
BY DEF LimitsSet, LimitsHit

\* What is owed to the program, in terms of the flags.
LEMMA OwedFlags ==
    Promise!Owed <=> depth > 0 /\ (timeLimit \/ memLimit) /\ ~timeHit /\ ~memHit
BY SetsOfFlags DEF Promise!Owed

\* What is owed after a step.
LEMMA OwedNextFlags ==
    Promise!Owed' <=> depth' > 0 /\ (timeLimit' \/ memLimit') /\ ~timeHit' /\ ~memHit'
BY SetsOfNextFlags DEF Promise!Owed

\* JS that has to be stopped has a live timer, also in the middle of a nested
\* stop.
LEMMA OwedWatched ==
    ASSUME IInv, SupInv, Promise!Owed, pc \notin FreeSteps
    PROVE  active /\ thread /\ tpc # "exited"
<1>1. depth > 0 /\ (timeLimit \/ memLimit) /\ ~timeHit /\ ~memHit
  BY OwedFlags
<1>2. active
  BY <1>1 DEF IInv, Control, LimitsArmed, SupInv, SavedCurrent
<1> QED
  BY <1>1, <1>2 DEF SupInv, Watched

\* The same holds after a step.
LEMMA OwedNextWatched ==
    ASSUME IInv', SupInv', Promise!Owed', pc' \notin FreeSteps
    PROVE  active' /\ thread' /\ tpc' # "exited"
<1>1. depth' > 0 /\ (timeLimit' \/ memLimit') /\ ~timeHit' /\ ~memHit'
  BY OwedNextFlags
<1>2. active'
  BY <1>1 DEF IInv, Control, LimitsArmed, SupInv, SavedCurrent
<1> QED
  BY <1>1, <1>2 DEF SupInv, Watched

\* A step that touches none of this is a stutter.
LEMMA PromiseStutter ==
    ASSUME UNCHANGED <<depth, timeLimit, memLimit, timeHit, memHit>>,
           (thread' /\ tpc' # "exited") <=> (thread /\ tpc # "exited"),
           "set_join" \in {pc, pc'} => pc' = pc /\ arg' = arg,
           pc \in FreeSteps <=> pc' \in FreeSteps
    PROVE  UNCHANGED Promise!vars
<1>1. LimitsSet' = LimitsSet /\ LimitsHit' = LimitsHit
  BY DEF LimitsSet, LimitsHit
<1>2. (thread' /\ tpc' # "exited") = (thread /\ tpc # "exited")
  OBVIOUS
<1>3. (pc' \in {"free", "free_join", "freed"}) = (pc \in {"free", "free_join", "freed"})
  BY DEF FreeSteps
<1>4. (IF pc' = "set_join" THEN arg'.limit ELSE "none") =
      (IF pc = "set_join" THEN arg.limit ELSE "none")
  OBVIOUS
<1> QED
  BY <1>1, <1>2, <1>3, <1>4 DEF Promise!vars

\* Storing a limit sets or removes that limit only.
LEMMA StoredLimit ==
    ASSUME StoreLimit
    PROVE  /\ arg.limit \in {"time", "memory"}
           /\ LimitsSet' \in {LimitsSet \cup {arg.limit}, LimitsSet \ {arg.limit}}
<1>1. arg.limit \in {"time", "memory"}
  BY DEF StoreLimit
<1>2. CASE arg.limit = "time"
  <2>1. memLimit' = memLimit
    BY <1>2 DEF StoreLimit
  <2> QED
    BY <1>2, <2>1 DEF LimitsSet
<1>3. CASE arg.limit = "memory"
  <2>1. timeLimit' = timeLimit
    BY <1>3 DEF StoreLimit
  <2> QED
    BY <1>3, <2>1 DEF LimitsSet
<1> QED
  BY <1>1, <1>2, <1>3

\* The end of a setter's critical section resets its own hit only.
LEMMA RearmedHits ==
    ASSUME NEW running, Rearm(running), arg.limit \in {"time", "memory"}
    PROVE  LimitsHit' = LimitsHit \ {arg.limit}
<1>1. /\ timeHit' <=> timeHit /\ arg.limit # "time"
      /\ memHit' <=> memHit /\ arg.limit # "memory"
  BY DEF Rearm
<1> QED
  BY <1>1 DEF LimitsHit

\* Every step is a step of LimitsPromise or a stutter.
LEMMA StepKeepsPromise ==
    ASSUME IInv, IInv', SupInv, SupInv', PromiseInv, [Next]_vars
    PROVE  [Promise!Next]_(Promise!vars)
<1> USE DEF shared, v8, php
<1>1. CASE CheckLimits
  BY <1>1, PromiseStutter DEF CheckLimits, FreeSteps
<1>2. CASE StartTimer
  <2>1. /\ depth \in Nat /\ depth' = depth + 1 /\ pc = "start" /\ pc' = "js"
        /\ UNCHANGED <<timeLimit, memLimit, timeHit, memHit>>
    BY <1>2 DEF StartTimer, IInv, TypeOK
  <2>2. depth = 0 => ~thread /\ ~timeHit /\ ~memHit
    BY <2>1 DEF IInv, Control, TimerNested, ChecksStayValid
  <2>3. depth = 0 => LimitsHit = {}
    BY <2>2 DEF LimitsHit
  <2>4. thread /\ tpc # "exited" => thread' /\ tpc' # "exited"
    BY <1>2 DEF StartTimer
  <2>5. Promise!Owed' => thread' /\ tpc' # "exited"
    BY <2>1, OwedNextWatched DEF FreeSteps
  <2>6. thread' /\ tpc' # "exited" => Promise!Owed' \/ (thread /\ tpc # "exited")
    <3>1. ASSUME thread', tpc' # "exited", ~(thread /\ tpc # "exited")
          PROVE  Promise!Owed'
      <4>1. ~thread /\ active
        BY <1>2, <3>1 DEF StartTimer
      <4>2. ~timeHit /\ ~memHit /\ (timeLimit \/ memLimit)
        BY <2>1, <4>1 DEF IInv, Control, ChecksStayValid, PromiseInv, ActiveLimited
      <4> QED
        BY <2>1, <4>2, OwedNextFlags
    <3> QED
      BY <3>1
  <2>7. (thread' /\ tpc' # "exited") = ((thread /\ tpc # "exited") \/ Promise!Owed')
    BY <2>4, <2>5, <2>6
  <2>8. LimitsSet' = LimitsSet /\ LimitsHit' = LimitsHit
    BY <2>1 DEF LimitsSet, LimitsHit
  <2>9. Promise!Enter
    BY <2>1, <2>2, <2>3, <2>7, <2>8 DEF Promise!Enter
  <2> QED
    BY <2>9 DEF Promise!Next
<1>3. CASE EnterBareJs
  BY <1>3, PromiseStutter DEF EnterBareJs, FreeSteps
<1>4. CASE JsCallback
  BY <1>4, PromiseStutter DEF JsCallback, FreeSteps
<1>5. CASE ReturnToJs
  BY <1>5, PromiseStutter DEF ReturnToJs, FreeSteps
<1>6. CASE JsFinish
  BY <1>6, PromiseStutter DEF JsFinish, LeaveJs, FreeSteps
<1>7. CASE JsUnwind
  BY <1>7, PromiseStutter DEF JsUnwind, LeaveJs, FreeSteps
<1>8. CASE TakeInterrupt
  BY <1>8, PromiseStutter DEF TakeInterrupt, FreeSteps
<1>9. CASE TerminateExecution
  BY <1>9, PromiseStutter DEF TerminateExecution, FreeSteps
<1>10. CASE CancelTerminateExecution
  BY <1>10, PromiseStutter DEF CancelTerminateExecution, CancelTermination, FreeSteps
<1>11. CASE HandlerCheck
  BY <1>11, PromiseStutter DEF HandlerCheck, FreeSteps
<1>12. CASE HandlerRecheck
  <2>1. /\ UNCHANGED <<depth, timeLimit, memLimit, timeHit, thread, tpc>>
        /\ pc = "intr_gc" /\ pc' = "js" /\ (memHit' = memHit \/ memHit' = TRUE)
    BY <1>12 DEF HandlerRecheck
  <2>2. CASE memHit' = memHit
    BY <2>1, <2>2, PromiseStutter DEF FreeSteps
  <2>3. CASE memHit' = TRUE
    <3>1. memLimit
      BY <2>1 DEF PromiseInv, CollectsForLimit
    <3>2. /\ LimitsSet' = LimitsSet /\ LimitsHit' = LimitsHit \cup {"memory"}
          /\ "memory" \in LimitsSet
      BY <2>1, <2>3, <3>1 DEF LimitsSet, LimitsHit
    <3>3. Promise!Exceed("memory")
      BY <2>1, <3>2 DEF Promise!Exceed
    <3> QED
      BY <3>3 DEF Promise!Next, Promise!Limits
  <2> QED
    BY <2>1, <2>2, <2>3
<1>13. CASE HandlerOom
  <2>1. /\ UNCHANGED <<depth, timeLimit, memLimit, timeHit, memHit, thread, tpc>>
        /\ pc \in {"php", "intr_gc"} /\ pc' = "free"
    BY <1>13 DEF HandlerOom
  <2>2. LimitsSet' = LimitsSet /\ LimitsHit' = LimitsHit
    BY <2>1 DEF LimitsSet, LimitsHit
  <2>3. Promise!Dispose
    BY <2>1, <2>2 DEF Promise!Dispose
  <2> QED
    BY <2>3 DEF Promise!Next
<1>14. CASE StopTimer
  <2>1. /\ depth \in Nat /\ depth' = depth - 1 /\ pc = "stop" /\ pc' \in {"stop_check", "php"}
        /\ UNCHANGED <<timeLimit, memLimit, timeHit, memHit, thread, tpc>>
    BY <1>14 DEF StopTimer, IInv, TypeOK
  <2>2. depth > 0
    BY <2>1, LimitedTop DEF IInv, TypeOK, StackMatches, DepthBalanced, Top, Kinds
  <2>3. LimitsSet' = LimitsSet /\ LimitsHit' = LimitsHit
    BY <2>1 DEF LimitsSet, LimitsHit
  <2>4. Promise!Leave
    BY <2>1, <2>2, <2>3 DEF Promise!Leave
  <2> QED
    BY <2>4 DEF Promise!Next
<1>15. CASE StopSkipJoin
  BY <1>15, PromiseStutter DEF StopSkipJoin, FreeSteps
<1>16. CASE StopJoin
  BY <1>16, PromiseStutter DEF StopJoin, FreeSteps
<1>17. CASE StopRestore
  BY <1>17, PromiseStutter DEF StopRestore, FreeSteps
<1>18. CASE CallSetter
  BY <1>18, PromiseStutter DEF CallSetter, Args, NoArg, FreeSteps
<1>19. CASE SetLimit
  <2>1. /\ pc = "set" /\ depth' = depth /\ arg' = arg /\ pc' \in {"set_join", "set_tail"}
        /\ StoreLimit
    BY <1>19 DEF SetLimit, Rearm
  <2>2. /\ arg.limit \in {"time", "memory"}
        /\ LimitsSet' \in {LimitsSet \cup {arg.limit}, LimitsSet \ {arg.limit}}
    BY <2>1, StoredLimit
  <2>3. CASE pc' = "set_join"
    <3>1. OwnLimitHit /\ UNCHANGED <<thread, tpc, timeHit, memHit>>
      BY <1>19, <2>3 DEF SetLimit, Rearm
    <3>2. LimitsHit' = LimitsHit /\ arg.limit \in LimitsHit
      BY <3>1 DEF LimitsHit, OwnLimitHit
    <3>3. Promise!Set(arg.limit)
      BY <2>1, <2>2, <2>3, <3>1, <3>2 DEF Promise!Set
    <3> QED
      BY <2>2, <3>3 DEF Promise!Next, Promise!Limits
  <2>4. CASE pc' = "set_tail"
    <3>1. Rearm(thread)
      BY <1>19, <2>4 DEF SetLimit
    <3>2. LimitsHit' = LimitsHit \ {arg.limit}
      BY <2>2, <3>1, RearmedHits
    <3>3. (thread' /\ tpc' # "exited") = ((thread /\ tpc # "exited") \/ Promise!Owed')
      <4>1. thread => thread' /\ tpc' = tpc
        BY <3>1 DEF Rearm
      <4>2. ~thread /\ thread' => Promise!Owed'
        BY <2>1, <3>1, OwedNextFlags DEF Rearm
      <4>3. Promise!Owed' => thread' /\ tpc' # "exited"
        BY <2>4, OwedNextWatched DEF FreeSteps
      <4> QED
        BY <4>1, <4>2, <4>3
    <3>4. Promise!Set(arg.limit)
      BY <2>1, <2>2, <2>4, <3>2, <3>3 DEF Promise!Set, Promise!Reset
    <3> QED
      BY <2>2, <3>4 DEF Promise!Next, Promise!Limits
  <2> QED
    BY <2>1, <2>3, <2>4
<1>20. CASE SetJoin
  <2>1. /\ pc = "set_join" /\ tpc = "exited" /\ pc' = "set_tail"
        /\ UNCHANGED <<depth, timeLimit, memLimit, arg>> /\ Rearm(FALSE)
    BY <1>20 DEF SetJoin, Rearm
  <2>2. arg.limit \in {"time", "memory"}
    BY <2>1 DEF PromiseInv, JoinHasLimit
  <2>3. LimitsSet' = LimitsSet /\ LimitsHit' = LimitsHit \ {arg.limit}
    BY <2>1, <2>2, RearmedHits DEF LimitsSet
  <2>4. thread' => Promise!Owed'
    BY <2>1, OwedNextFlags DEF Rearm
  <2>5. Promise!Owed' => thread' /\ tpc' # "exited"
    BY <2>1, OwedNextWatched DEF FreeSteps
  <2>6. (thread' /\ tpc' # "exited") = ((thread /\ tpc # "exited") \/ Promise!Owed')
    BY <2>1, <2>4, <2>5
  <2>7. Promise!FinishSet
    BY <2>1, <2>2, <2>3, <2>6 DEF Promise!FinishSet, Promise!Reset
  <2> QED
    BY <2>7 DEF Promise!Next
<1>21. CASE SetSkipJoin
  BY <1>21, PromiseStutter DEF SetSkipJoin, FreeSteps
<1>22. CASE SetTailJoin
  BY <1>22, PromiseStutter DEF SetTailJoin, FreeSteps
<1>23. CASE Dispose
  <2>1. /\ UNCHANGED <<depth, timeLimit, memLimit, timeHit, memHit, thread, tpc>>
        /\ pc \in {"php", "intr_gc"} /\ pc' = "free"
    BY <1>23 DEF Dispose
  <2>2. LimitsSet' = LimitsSet /\ LimitsHit' = LimitsHit
    BY <2>1 DEF LimitsSet, LimitsHit
  <2>3. Promise!Dispose
    BY <2>1, <2>2 DEF Promise!Dispose
  <2> QED
    BY <2>3 DEF Promise!Next
<1>24. CASE FreeDeactivate
  BY <1>24, PromiseStutter DEF FreeDeactivate, FreeSteps
<1>25. CASE FreeJoin
  BY <1>25, PromiseStutter DEF FreeJoin, FreeSteps
<1>26. CASE Freed
  BY <1>26, PromiseStutter DEF Freed, vars, FreeSteps
<1>27. CASE TimerLock
  <2>1. CASE active /\ timeLimit /\ expired
    <3>1. /\ UNCHANGED <<depth, timeLimit, memLimit, memHit, thread, pc, arg>>
          /\ timeHit' = TRUE /\ tpc = "lock" /\ tpc' = "deactivate"
      BY <1>27, <2>1 DEF TimerLock
    <3>2. thread /\ depth > 0
      BY <2>1, <3>1 DEF IInv, TypeOK, Control, ThreadMatches, TimerNested, PromiseInv,
                        TimerEntered
    <3>3. LimitsSet' = LimitsSet /\ LimitsHit' = LimitsHit \cup {"time"} /\ "time" \in LimitsSet
      BY <2>1, <3>1 DEF LimitsSet, LimitsHit
    <3>4. Promise!Exceed("time")
      BY <3>1, <3>2, <3>3 DEF Promise!Exceed
    <3> QED
      BY <3>4 DEF Promise!Next, Promise!Limits
  <2>2. CASE ~(active /\ timeLimit /\ expired)
    BY <1>27, <2>2, PromiseStutter DEF TimerLock
  <2> QED
    BY <2>1, <2>2
<1>28. CASE TimerDeactivate
  BY <1>28, PromiseStutter DEF TimerDeactivate, FreeSteps
<1>29. CASE TimerTerminate
  BY <1>29, PromiseStutter DEF TimerTerminate, FreeSteps
<1>30. CASE TimerCheckMemory
  BY <1>30, PromiseStutter DEF TimerCheckMemory, FreeSteps
<1>31. CASE TimerMark
  BY <1>31, PromiseStutter DEF TimerMark, FreeSteps
<1>32. CASE TimerCheckActive
  <2>1. /\ UNCHANGED <<depth, timeLimit, memLimit, timeHit, memHit, thread, pc, arg>>
        /\ tpc = "check_active" /\ thread
    BY <1>32 DEF TimerCheckActive, IInv, Control, ThreadMatches
  <2>2. CASE active
    <3>1. tpc' = "lock"
      BY <1>32, <2>2 DEF TimerCheckActive
    <3> QED
      BY <2>1, <3>1, PromiseStutter
  <2>3. CASE ~active
    <3>1. tpc' = "exited"
      BY <1>32, <2>3 DEF TimerCheckActive
    <3>2. Promise!Owed => pc \in FreeSteps
      BY <2>3, OwedWatched
    <3>3. LimitsSet' = LimitsSet /\ LimitsHit' = LimitsHit
      BY <2>1 DEF LimitsSet, LimitsHit
    <3>4. Promise!GiveUp
      BY <2>1, <3>1, <3>2, <3>3 DEF Promise!GiveUp, FreeSteps
    <3> QED
      BY <3>4 DEF Promise!Next
  <2> QED
    BY <2>2, <2>3
<1>33. CASE Expire
  BY <1>33, PromiseStutter DEF Expire, FreeSteps
<1>34. CASE UNCHANGED vars
  BY <1>34, PromiseStutter DEF vars
<1> QED
  BY <1>1, <1>2, <1>3, <1>4, <1>5, <1>6, <1>7, <1>8, <1>9, <1>10, <1>11,
     <1>12, <1>13, <1>14, <1>15, <1>16, <1>17, <1>18, <1>19, <1>20, <1>21,
     <1>22, <1>23, <1>24, <1>25, <1>26, <1>27, <1>28, <1>29, <1>30, <1>31,
     <1>32, <1>33, <1>34
  DEF Next, EnterStep, JsStep, UserStep, HandleStep, StopStep, SetStep, FreeStep,
      TimerStep

\* The invariant holds at first.
LEMMA PromiseInit == Init => PromiseInv /\ Promise!Init
BY DEF Init, PromiseInv, ActiveLimited, CollectsForLimit, TimerEntered, JoinHasLimit,
       Promise!Init, LimitsSet, LimitsHit

\* The two threads implement LimitsPromise where no nested stop can race the
\* time limit: setters in callbacks, timers that end, hits and disposal included.
THEOREM LimitsKeepPromise ==
    ASSUME MaxDepth = 1 \/ "set_time" \notin Behaviours
    PROVE  Spec => ImplementsPromise
<1>1. IInv /\ IInv' /\ SupInv /\ [Next]_vars => SupInv'
  BY UnusedKept, SupervisionKept DEF SupInv
<1>2. IInv /\ PromiseInv /\ [Next]_vars => PromiseInv'
  BY PromiseInvKept
<1>3. IInv /\ IInv' /\ SupInv /\ SupInv' /\ PromiseInv /\ [Next]_vars
        => [Promise!Next]_(Promise!vars)
  BY StepKeepsPromise
<1> QED
  BY <1>1, <1>2, <1>3, EnforcedInit, PromiseInit, Invariance, PTL
  DEF Spec, ImplementsPromise, Promise!Spec
=============================================================================
