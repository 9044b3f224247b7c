--------------------------- MODULE IsolateLimits ---------------------------
(***************************************************************************)
(* Execution-time and memory limits of V8\Isolate                          *)
(* (php_v8_isolate_limits.{h,cc} and the macros that call it).             *)
(*                                                                         *)
(* Two threads: the PHP thread, which runs PHP code, JavaScript and the    *)
(* interrupt handler in turn, and the timer thread it starts and joins.    *)
(* They share php_v8_isolate_limits_t and V8's two cross-thread requests,  *)
(* TerminateExecution and RequestInterrupt.  A step is what a thread does  *)
(* between two points the other thread can observe: the body of a critical *)
(* section is one step unless it touches `active`, which is also read and  *)
(* written outside the mutex, or blocks (a join, a garbage collection).    *)
(***************************************************************************)
EXTENDS Naturals, Sequences, FiniteSets

CONSTANTS
    MaxDepth,   \* bound: V8 entries that may be nested on the PHP thread's stack
    Behaviours  \* the optional things the embedding PHP program and V8 may do

AllBehaviours ==
    { "set_time",       \* calls setTimeLimit()
      "set_memory",     \* calls setMemoryLimit()
      "terminate",      \* calls terminateExecution()
      "cancel",         \* calls cancelTerminateExecution()
      "bare_js",        \* runs JS through an API method that starts no timer
      "late_callback",  \* V8 calls back between a termination request and the
                        \* stack check that notices it
      "fatal",          \* a PHP fatal error or exit() while V8 is on the stack
      "oom" }           \* V8 runs out of memory during a forced collection

ASSUME MaxDepthAssumption == MaxDepth \in Nat \ {0}
ASSUME BehavioursAssumption == Behaviours \subseteq AllBehaviours

VARIABLES
    \* php_v8_isolate_limits_t; depth is derived state of the real stack `frames`
    active, depth, thread, hasMutex, timeLimit, timeHit,
    memLimit, memHit, memInProgress,
    expired,        \* now > time_point
    owner,          \* who holds the mutex
    \* V8
    termRequested,  \* TerminateExecution() not yet noticed by JS
    unwinding,      \* JS frames below the top one still have to be unwound
    interrupts,     \* requested interrupts not yet handled
    \* control
    frames,         \* the V8 entries on the PHP thread's stack, oldest first
    pc,             \* PHP thread
    saved,          \* local `active` of maybe_stop_timer
    arg,            \* argument of the running setter
    tpc             \* timer thread

shared == <<active, depth, thread, hasMutex, timeLimit, timeHit,
            memLimit, memHit, memInProgress, expired>>
v8     == <<termRequested, unwinding, interrupts>>
php    == <<frames, pc, saved, arg>>
vars   == <<shared, owner, v8, php, tpc>>

NoArg == [limit |-> "none", on |-> FALSE]
Args  == [limit : {"time", "memory"}, on : BOOLEAN] \cup {NoArg}

PhpSteps == {"php", "start", "js", "intr", "intr_gc", "stop", "stop_check",
             "stop_restore", "set", "set_join", "set_tail",
             "free", "free_join", "freed"}
TimerSteps == {"none", "lock", "deactivate", "terminate", "check_memory",
               "mark", "check_active", "exited"}

InJs == pc \in {"js", "intr", "intr_gc"}

\* The frames entered through PHP_V8_INIT_ISOLATE_LIMITS_ON_*.
LimitedFrames(f) == {i \in 1..Len(f) : f[i] = "limited"}
LimitedCount(f)  == Cardinality(LimitedFrames(f))

Pop(f) == SubSeq(f, 1, Len(f) - 1)
Top    == frames[Len(frames)]

Init ==
    /\ active = FALSE /\ depth = 0 /\ thread = FALSE /\ hasMutex = FALSE
    /\ timeLimit = FALSE /\ timeHit = FALSE
    /\ memLimit = FALSE /\ memHit = FALSE /\ memInProgress = FALSE
    /\ expired = FALSE /\ owner = "none"
    /\ termRequested = FALSE /\ unwinding = FALSE /\ interrupts = 0
    /\ frames = <<>> /\ pc = "php" /\ saved = FALSE /\ arg = NoArg
    /\ tpc = "none"

-----------------------------------------------------------------------------
(* Entering JavaScript: PHP_V8_INIT_ISOLATE_LIMITS_ON_*                    *)

\* PHP_V8_THROW_EXCEPTION_WHEN_LIMITS_HIT reads both flags without the mutex;
\* when one is set the method throws and nothing changes.
CheckLimits ==
    /\ pc = "php" /\ Len(frames) < MaxDepth
    /\ ~timeHit /\ ~memHit
    /\ pc' = "start"
    /\ UNCHANGED <<shared, owner, v8, frames, saved, arg, tpc>>

\* Mutant: an entry made before any limit exists is not counted.
StartTimerUncounted ==
    /\ pc = "start"
    /\ hasMutex => owner = "none"
    /\ depth' = IF hasMutex THEN depth + 1 ELSE depth
    /\ frames' = Append(frames, "limited")
    /\ pc' = "js"
    /\ IF hasMutex /\ active /\ ~thread
       THEN /\ thread' = TRUE /\ tpc' = "lock" /\ expired' = FALSE
       ELSE UNCHANGED <<thread, tpc, expired>>
    /\ UNCHANGED <<active, hasMutex, timeLimit, timeHit, memLimit, memHit,
                   memInProgress, owner, v8, saved, arg>>

\* Mutant: the timer is started without update_time_point.
StartTimerStalePoint ==
    /\ pc = "start"
    /\ hasMutex => owner = "none"
    /\ depth' = depth + 1
    /\ frames' = Append(frames, "limited")
    /\ pc' = "js"
    /\ IF hasMutex /\ active /\ ~thread
       THEN thread' = TRUE /\ tpc' = "lock"
       ELSE UNCHANGED <<thread, tpc>>
    /\ UNCHANGED <<active, hasMutex, timeLimit, timeHit, memLimit, memHit,
                   memInProgress, expired, owner, v8, saved, arg>>

StartTimer ==
    /\ pc = "start"
    /\ hasMutex => owner = "none"
    /\ depth' = depth + 1
    /\ frames' = Append(frames, "limited")
    /\ pc' = "js"
    /\ IF hasMutex /\ active /\ ~thread
       THEN /\ thread' = TRUE /\ tpc' = "lock" /\ expired' = FALSE
       ELSE UNCHANGED <<thread, tpc, expired>>
    /\ UNCHANGED <<active, hasMutex, timeLimit, timeHit, memLimit, memHit,
                   memInProgress, owner, v8, saved, arg>>

\* API methods that run JS without the limits macros, e.g. Resolver::resolve
\* (the `then` getter, microtasks) and the conversion of a caught exception
\* to a string.
EnterBareJs ==
    /\ "bare_js" \in Behaviours
    /\ pc = "php" /\ Len(frames) < MaxDepth
    /\ frames' = Append(frames, "bare")
    /\ pc' = "js"
    /\ UNCHANGED <<shared, owner, v8, saved, arg, tpc>>

-----------------------------------------------------------------------------
(* V8, as the extension uses it                                            *)

\* JS calls a PHP callback.
JsCallback ==
    /\ pc = "js" /\ ~unwinding
    /\ termRequested => "late_callback" \in Behaviours
    /\ pc' = "php"
    /\ UNCHANGED <<shared, owner, v8, frames, saved, arg, tpc>>

ReturnToJs ==
    /\ pc = "php" /\ frames # <<>>
    /\ pc' = "js"
    /\ UNCHANGED <<shared, owner, v8, frames, saved, arg, tpc>>

\* Mutant: PHP_V8_MAYBE_CATCH where PHP_V8_INIT_ISOLATE_LIMITS_ON_* is missing.
LeaveJsUnpaired == pc' = "stop" /\ UNCHANGED frames

\* The top V8 entry is left: an entry that started the timer goes on to
\* PHP_V8_MAYBE_CATCH, a bare one is back in PHP.
LeaveJs ==
    IF Top = "limited"
    THEN pc' = "stop" /\ UNCHANGED frames
    ELSE pc' = "php" /\ frames' = Pop(frames)

\* JS returns or throws; a termination request it has not noticed stays.
JsFinish ==
    /\ pc = "js" /\ ~unwinding
    /\ LeaveJs
    /\ UNCHANGED <<shared, owner, v8, saved, arg, tpc>>

\* Mutant: the termination ends at the entry that noticed it.
JsUnwindTopOnly ==
    /\ pc = "js" /\ (termRequested \/ unwinding)
    /\ termRequested' = (termRequested /\ unwinding)
    /\ unwinding' = FALSE
    /\ LeaveJs
    /\ UNCHANGED <<shared, owner, interrupts, saved, arg, tpc>>

\* A stack check notices the request, or JS below a terminated entry is
\* resumed: the termination propagates to the next entry.
JsUnwind ==
    /\ pc = "js" /\ (termRequested \/ unwinding)
    /\ termRequested' = (termRequested /\ unwinding)
    /\ unwinding' = (Pop(frames) # <<>>)
    /\ LeaveJs
    /\ UNCHANGED <<shared, owner, interrupts, saved, arg, tpc>>

\* A stack check runs the requested interrupts; termination goes first.
TakeInterrupt ==
    /\ pc = "js" /\ interrupts > 0 /\ ~termRequested /\ ~unwinding
    /\ interrupts' = interrupts - 1
    /\ pc' = "intr"
    /\ UNCHANGED <<shared, owner, termRequested, unwinding, frames, saved, arg, tpc>>

\* Isolate::terminateExecution
TerminateExecution ==
    /\ "terminate" \in Behaviours
    /\ pc = "php"
    /\ termRequested' = TRUE
    /\ UNCHANGED <<shared, owner, unwinding, interrupts, php, tpc>>

\* v8::Isolate::CancelTerminateExecution drops the request as well as a
\* termination already scheduled for the JS frames below.
CancelTermination == termRequested' = FALSE /\ unwinding' = FALSE

\* Isolate::cancelTerminateExecution
CancelTerminateExecution ==
    /\ "cancel" \in Behaviours
    /\ pc = "php"
    /\ CancelTermination
    /\ UNCHANGED <<shared, owner, interrupts, php, tpc>>

-----------------------------------------------------------------------------
(* php_v8_isolate_limits_interrupt_handler                                 *)

\* Mutant: under the limit the handler returns early, memInProgress still set.
HandlerCheckEarlyReturn ==
    /\ pc = "intr" /\ owner = "none"
    /\ \/ pc' = "js" /\ UNCHANGED owner
       \/ memLimit /\ owner' = "php" /\ pc' = "intr_gc"
    /\ UNCHANGED <<shared, v8, frames, saved, arg, tpc>>

\* The heap is measured; over the limit, a collection starts under the mutex.
HandlerCheck ==
    /\ pc = "intr" /\ owner = "none"
    /\ \/ /\ memInProgress' = FALSE
          /\ pc' = "js"
          /\ UNCHANGED owner
       \/ /\ memLimit
          /\ owner' = "php"
          /\ pc' = "intr_gc"
          /\ UNCHANGED memInProgress
    /\ UNCHANGED <<active, depth, thread, hasMutex, timeLimit, timeHit, memLimit,
                   memHit, expired, v8, frames, saved, arg, tpc>>

\* It is measured again after the collection.
HandlerRecheck ==
    /\ pc = "intr_gc"
    /\ \/ UNCHANGED <<active, memHit, termRequested>>
       \/ /\ termRequested' = TRUE
          /\ active' = FALSE
          /\ memHit' = TRUE
    /\ memInProgress' = FALSE
    /\ owner' = "none"
    /\ pc' = "js"
    /\ UNCHANGED <<depth, thread, hasMutex, timeLimit, timeHit, memLimit, expired,
                   unwinding, interrupts, frames, saved, arg, tpc>>

\* The collection runs out of memory: the OOM callback raises E_ERROR, whose
\* longjmp runs no C++ destructor, so the lock_guard never unlocks the mutex.
HandlerOom ==
    /\ "oom" \in Behaviours
    /\ pc = "intr_gc"
    /\ pc' = "free"
    /\ frames' = <<>>
    /\ UNCHANGED <<shared, owner, v8, saved, arg, tpc>>

-----------------------------------------------------------------------------
(* Leaving JavaScript: php_v8_isolate_limits_maybe_stop_timer, called by   *)
(* PHP_V8_MAYBE_CATCH                                                      *)

\* Mutant: `active` stays set when the outermost entry is left.
StopTimerIgnoresDepth ==
    /\ pc = "stop"
    /\ hasMutex => owner = "none"
    /\ depth' = depth - 1
    /\ frames' = Pop(frames)
    /\ IF hasMutex
       THEN saved' = active /\ pc' = "stop_check"
       ELSE pc' = "php" /\ UNCHANGED saved
    /\ UNCHANGED <<active, thread, hasMutex, timeLimit, timeHit, memLimit, memHit,
                   memInProgress, expired, owner, v8, arg, tpc>>

StopTimer ==
    /\ pc = "stop"
    /\ hasMutex => owner = "none"
    /\ depth' = depth - 1
    /\ frames' = Pop(frames)
    /\ IF hasMutex
       THEN /\ saved' = active
            /\ active' = (active /\ depth' > 0)
            /\ pc' = "stop_check"
       ELSE pc' = "php" /\ UNCHANGED <<saved, active>>
    /\ UNCHANGED <<thread, hasMutex, timeLimit, timeHit, memLimit, memHit,
                   memInProgress, expired, owner, v8, arg, tpc>>

\* From here on the mutex is not held.
StopSkipJoin ==
    /\ pc = "stop_check"
    /\ active \/ ~thread
    /\ pc' = "stop_restore"
    /\ UNCHANGED <<shared, owner, v8, frames, saved, arg, tpc>>

StopJoin ==
    /\ pc = "stop_check"
    /\ ~active /\ thread /\ tpc = "exited"
    /\ thread' = FALSE /\ tpc' = "none"
    /\ pc' = "stop_restore"
    /\ UNCHANGED <<active, depth, hasMutex, timeLimit, timeHit, memLimit, memHit,
                   memInProgress, expired, owner, v8, frames, saved, arg>>

StopRestore ==
    /\ pc = "stop_restore"
    /\ active' = saved
    /\ saved' = FALSE
    /\ pc' = "php"
    /\ UNCHANGED <<depth, thread, hasMutex, timeLimit, timeHit, memLimit, memHit,
                   memInProgress, expired, owner, v8, frames, arg, tpc>>

-----------------------------------------------------------------------------
(* php_v8_isolate_limits_set_time_limit / _set_memory_limit                *)

CallSetter ==
    /\ pc = "php"
    /\ \E a \in Args :
          /\ a.limit = "time" => "set_time" \in Behaviours
          /\ a.limit = "memory" => "set_memory" \in Behaviours
          /\ a # NoArg
          /\ arg' = a
    /\ pc' = "set"
    /\ UNCHANGED <<shared, owner, v8, frames, saved, tpc>>

\* Only the time setter moves time_point.
StoreLimit ==
    \/ /\ arg.limit = "time"
       /\ timeLimit' = arg.on /\ expired' = FALSE
       /\ UNCHANGED memLimit
    \/ /\ arg.limit = "memory"
       /\ memLimit' = arg.on
       /\ UNCHANGED <<timeLimit, expired>>

OwnLimitHit == (arg.limit = "time" /\ timeHit) \/ (arg.limit = "memory" /\ memHit)

\* Mutant: a setter called from a callback does not start the timer.
RearmNoRestart(running) ==
    /\ timeHit' = (timeHit /\ arg.limit # "time")
    /\ memHit' = (memHit /\ arg.limit # "memory")
    /\ active' = ((timeLimit' \/ memLimit') /\ ~timeHit' /\ ~memHit')
    /\ thread' = running
    /\ tpc' = IF running THEN tpc ELSE "none"
    /\ owner' = "none"
    /\ pc' = "set_tail"

\* Mutant: the last maybe_terminate_thread comes before the unlock.
RearmJoinsLocked(running) ==
    /\ timeHit' = (timeHit /\ arg.limit # "time")
    /\ memHit' = (memHit /\ arg.limit # "memory")
    /\ active' = ((timeLimit' \/ memLimit') /\ ~timeHit' /\ ~memHit')
    /\ thread' = (running \/ (active' /\ depth > 0))
    /\ tpc' = IF running THEN tpc ELSE IF thread' THEN "lock" ELSE "none"
    /\ IF running /\ ~active'
       THEN owner' = "php" /\ pc' = "set_join"
       ELSE owner' = "none" /\ pc' = "set_tail"

\* The rest of the critical section: the setter's own hit flag is cleared,
\* `active` computed anew and a timer started if there is none (`running`).
Rearm(running) ==
    /\ timeHit' = (timeHit /\ arg.limit # "time")
    /\ memHit' = (memHit /\ arg.limit # "memory")
    /\ active' = ((timeLimit' \/ memLimit') /\ ~timeHit' /\ ~memHit')
    /\ thread' = (running \/ (active' /\ depth > 0))
    /\ tpc' = IF running THEN tpc ELSE IF thread' THEN "lock" ELSE "none"
    /\ owner' = "none"
    /\ pc' = "set_tail"

\* Mutant: every setter cancels, whichever limit was hit.
SetLimitAlwaysCancels ==
    /\ pc = "set" /\ owner = "none"
    /\ hasMutex' = TRUE
    /\ StoreLimit
    /\ CancelTermination
    /\ IF OwnLimitHit /\ ~active /\ thread
       THEN /\ owner' = "php" /\ pc' = "set_join"
            /\ UNCHANGED <<active, thread, timeHit, memHit, tpc>>
       ELSE Rearm(thread)
    /\ UNCHANGED <<depth, memInProgress, interrupts, frames, saved, arg>>

\* Mutant: the hit is reset but the termination is not.
SetLimitNeverCancels ==
    /\ pc = "set" /\ owner = "none"
    /\ hasMutex' = TRUE
    /\ StoreLimit
    /\ UNCHANGED <<termRequested, unwinding>>
    /\ IF OwnLimitHit /\ ~active /\ thread
       THEN /\ owner' = "php" /\ pc' = "set_join"
            /\ UNCHANGED <<active, thread, timeHit, memHit, tpc>>
       ELSE Rearm(thread)
    /\ UNCHANGED <<depth, memInProgress, interrupts, frames, saved, arg>>

SetLimit ==
    /\ pc = "set" /\ owner = "none"
    /\ hasMutex' = TRUE
    /\ StoreLimit
    /\ IF OwnLimitHit THEN CancelTermination ELSE UNCHANGED <<termRequested, unwinding>>
    /\ IF OwnLimitHit /\ ~active /\ thread
       THEN /\ owner' = "php"     \* joins the timer while it holds the mutex
            /\ pc' = "set_join"
            /\ UNCHANGED <<active, thread, timeHit, memHit, tpc>>
       ELSE Rearm(thread)
    /\ UNCHANGED <<depth, memInProgress, interrupts, frames, saved, arg>>

SetJoin ==
    /\ pc = "set_join" /\ tpc = "exited"
    /\ UNCHANGED <<timeLimit, memLimit>>
    /\ Rearm(FALSE)
    /\ UNCHANGED <<depth, hasMutex, memInProgress, expired, v8, frames, saved, arg>>

\* The maybe_terminate_thread after the unlock.
SetSkipJoin ==
    /\ pc = "set_tail"
    /\ active \/ ~thread
    /\ pc' = "php" /\ arg' = NoArg
    /\ UNCHANGED <<shared, owner, v8, frames, saved, tpc>>

SetTailJoin ==
    /\ pc = "set_tail"
    /\ ~active /\ thread /\ tpc = "exited"
    /\ thread' = FALSE /\ tpc' = "none"
    /\ pc' = "php" /\ arg' = NoArg
    /\ UNCHANGED <<active, depth, hasMutex, timeLimit, timeHit, memLimit, memHit,
                   memInProgress, expired, owner, v8, frames, saved>>

-----------------------------------------------------------------------------
(* php_v8_isolate_free and php_v8_isolate_limits_free                      *)

\* The isolate object is released; with V8 on the stack only a fatal error or
\* exit() in a callback gets here, and the frames are abandoned.
Dispose ==
    /\ pc = "php"
    /\ frames # <<>> => "fatal" \in Behaviours
    /\ pc' = "free"
    /\ frames' = <<>>
    /\ UNCHANGED <<shared, owner, v8, saved, arg, tpc>>

\* Mutant: limits_free joins a timer it did not tell to stop.
FreeDeactivateForgotten ==
    /\ pc = "free"
    /\ pc' = "free_join"
    /\ UNCHANGED <<shared, owner, v8, frames, saved, arg, tpc>>

FreeDeactivate ==
    /\ pc = "free"
    /\ active' = FALSE
    /\ pc' = "free_join"
    /\ UNCHANGED <<depth, thread, hasMutex, timeLimit, timeHit, memLimit, memHit,
                   memInProgress, expired, owner, v8, frames, saved, arg, tpc>>

FreeJoin ==
    /\ pc = "free_join"
    /\ thread => tpc = "exited"
    /\ thread' = FALSE /\ tpc' = "none"
    /\ hasMutex' = FALSE /\ owner' = "none"
    /\ pc' = "freed"
    /\ UNCHANGED <<active, depth, timeLimit, timeHit, memLimit, memHit,
                   memInProgress, expired, v8, frames, saved, arg>>

Freed == pc = "freed" /\ UNCHANGED vars

-----------------------------------------------------------------------------
(* php_v8_isolate_limits_thread                                            *)

TimerLock ==
    /\ tpc = "lock" /\ owner = "none"
    /\ owner' = "timer"
    /\ IF active /\ timeLimit /\ expired
       THEN timeHit' = TRUE /\ tpc' = "deactivate"
       ELSE tpc' = "check_memory" /\ UNCHANGED timeHit
    /\ UNCHANGED <<active, depth, thread, hasMutex, timeLimit, memLimit, memHit,
                   memInProgress, expired, v8, php>>

TimerDeactivate ==
    /\ tpc = "deactivate"
    /\ active' = FALSE
    /\ tpc' = "terminate"
    /\ UNCHANGED <<depth, thread, hasMutex, timeLimit, timeHit, memLimit, memHit,
                   memInProgress, expired, owner, v8, php>>

\* Mutant: the hit is recorded, nothing is terminated.
TimerTerminateForgotten ==
    /\ tpc = "terminate"
    /\ tpc' = "check_memory"
    /\ UNCHANGED <<shared, owner, v8, php>>

TimerTerminate ==
    /\ tpc = "terminate"
    /\ termRequested' = TRUE
    /\ tpc' = "check_memory"
    /\ UNCHANGED <<shared, owner, unwinding, interrupts, php>>

\* Mutant: a check is requested although one is in progress.
TimerCheckMemoryTwice ==
    /\ tpc = "check_memory"
    /\ IF active /\ memLimit
       THEN interrupts' = interrupts + 1 /\ tpc' = "mark" /\ UNCHANGED owner
       ELSE owner' = "none" /\ tpc' = "check_active" /\ UNCHANGED interrupts
    /\ UNCHANGED <<shared, termRequested, unwinding, php>>

\* Mutant: the loop is left inside the critical section.
TimerCheckMemoryExitsLocked ==
    /\ tpc = "check_memory"
    /\ IF ~active
       THEN tpc' = "exited" /\ UNCHANGED <<interrupts, owner>>
       ELSE IF memLimit /\ ~memInProgress
       THEN interrupts' = interrupts + 1 /\ tpc' = "mark" /\ UNCHANGED owner
       ELSE owner' = "none" /\ tpc' = "check_active" /\ UNCHANGED interrupts
    /\ UNCHANGED <<shared, termRequested, unwinding, php>>

TimerCheckMemory ==
    /\ tpc = "check_memory"
    /\ IF active /\ memLimit /\ ~memInProgress
       THEN /\ interrupts' = interrupts + 1
            /\ tpc' = "mark"
            /\ UNCHANGED owner
       ELSE /\ owner' = "none"
            /\ tpc' = "check_active"
            /\ UNCHANGED interrupts
    /\ UNCHANGED <<shared, termRequested, unwinding, php>>

TimerMark ==
    /\ tpc = "mark"
    /\ memInProgress' = TRUE
    /\ owner' = "none"
    /\ tpc' = "check_active"
    /\ UNCHANGED <<active, depth, thread, hasMutex, timeLimit, timeHit, memLimit,
                   memHit, expired, v8, php>>

\* After the unlock: exit, or sleep and go round again.
TimerCheckActive ==
    /\ tpc = "check_active"
    /\ tpc' = IF active THEN "lock" ELSE "exited"
    /\ UNCHANGED <<shared, owner, v8, php>>

\* The clock passes time_point.
Expire ==
    /\ timeLimit /\ ~expired /\ pc # "freed"
    /\ expired' = TRUE
    /\ UNCHANGED <<active, depth, thread, hasMutex, timeLimit, timeHit, memLimit,
                   memHit, memInProgress, owner, v8, php, tpc>>

-----------------------------------------------------------------------------

EnterStep  == CheckLimits \/ StartTimer \/ EnterBareJs
JsStep     == JsCallback \/ ReturnToJs \/ JsFinish \/ JsUnwind \/ TakeInterrupt
UserStep   == TerminateExecution \/ CancelTerminateExecution
HandleStep == HandlerCheck \/ HandlerRecheck \/ HandlerOom
StopStep   == StopTimer \/ StopSkipJoin \/ StopJoin \/ StopRestore
SetStep    == CallSetter \/ SetLimit \/ SetJoin \/ SetSkipJoin \/ SetTailJoin
FreeStep   == Dispose \/ FreeDeactivate \/ FreeJoin \/ Freed
TimerStep  == \/ TimerLock \/ TimerDeactivate \/ TimerTerminate
              \/ TimerCheckMemory \/ TimerMark \/ TimerCheckActive

Next == \/ EnterStep \/ JsStep \/ UserStep \/ HandleStep
        \/ StopStep \/ SetStep \/ FreeStep \/ TimerStep \/ Expire

Spec == Init /\ [][Next]_vars

-----------------------------------------------------------------------------
(* Properties                                                              *)

FlagsOK ==
    /\ active \in BOOLEAN /\ thread \in BOOLEAN /\ hasMutex \in BOOLEAN
    /\ timeLimit \in BOOLEAN /\ timeHit \in BOOLEAN /\ expired \in BOOLEAN
    /\ memLimit \in BOOLEAN /\ memHit \in BOOLEAN /\ memInProgress \in BOOLEAN
    /\ termRequested \in BOOLEAN /\ unwinding \in BOOLEAN /\ saved \in BOOLEAN

TypeOK ==
    /\ FlagsOK
    /\ depth \in Nat /\ interrupts \in Nat
    /\ owner \in {"none", "php", "timer"}
    /\ frames \in Seq({"limited", "bare"}) /\ Len(frames) <= MaxDepth
    /\ pc \in PhpSteps /\ tpc \in TimerSteps
    /\ arg \in Args

\* depth is the number of V8 entries on the stack that started the timer: no
\* way out of an entry (return, exception, termination) leaks or loses one,
\* also when the mutex is created between the entry and its exit.
DepthBalanced ==
    pc \notin {"free", "free_join", "freed"} => depth = LimitedCount(frames)

\* No timer thread outlives the outermost supervised entry: at rest the time
\* spent in PHP code costs nothing and no one can be terminated for it.
NoTimerAtRest == (pc = "php" /\ depth = 0) => ~thread

\* memInProgress says exactly that a memory check is requested or running, so
\* a check is never requested twice and never given up for good.
MemoryCheckArmed ==
    /\ interrupts + (IF pc \in {"intr", "intr_gc"} THEN 1 ELSE 0) <= 1
    /\ tpc # "mark" /\ pc \notin {"free", "free_join", "freed"} =>
          (memInProgress <=> interrupts = 1 \/ pc \in {"intr", "intr_gc"})

\* A hit limit that was not set again stops the JS it was hit in: while a
\* supervised entry runs, the termination is on its way.
HitStopsJs ==
    (pc = "js" /\ depth > 0 /\ (timeHit \/ memHit) /\ owner # "timer")
        => termRequested \/ unwinding

\* A termination in flight has its cause on record; whoever resets the hit
\* takes back the termination with it.
NoStrayTermination == (termRequested \/ unwinding) => timeHit \/ memHit

\* JS that runs under a limit not yet hit has a live timer watching it, also
\* after the limits were changed from a callback or after a nested entry.
Supervised ==
    (pc = "js" /\ depth > 0 /\ (timeLimit \/ memLimit) /\ ~timeHit /\ ~memHit)
        => active /\ thread /\ tpc # "exited"

\* Each outermost supervised entry gets the whole time limit.
FullTimeAtEntry ==
    [][(depth = 0 /\ depth' = 1 /\ timeLimit) => (thread' /\ ~expired')]_vars

\* The flags of php_v8_isolate_limits_t as LimitsPromise sees them.
LimitsSet == {l \in {"time", "memory"} :
                 (l = "time" /\ timeLimit) \/ (l = "memory" /\ memLimit)}
LimitsHit == {l \in {"time", "memory"} :
                 (l = "time" /\ timeHit) \/ (l = "memory" /\ memHit)}

Promise == INSTANCE LimitsPromise WITH
    entered  <- depth,
    limits   <- LimitsSet,
    hits     <- LimitsHit,
    watched  <- (thread /\ tpc # "exited"),
    setting  <- (IF pc = "set_join" THEN arg.limit ELSE "none"),
    disposed <- (pc \in {"free", "free_join", "freed"})

\* The two threads keep the promise of the limits: JS that has to be stopped is
\* watched by a live timer, through entries, setters called in callbacks and
\* timers that end; a hit comes from a limit that is set and is taken back by
\* its own setter only; at rest there is no timer.
ImplementsPromise == Promise!Spec

-----------------------------------------------------------------------------
(* Progress                                                                *)

\* The two threads are scheduled; the clock advances.  A lock attempt is
\* strongly fair: the timer sleeps PHP_V8_TIME_SLEEP_MILLISECONDS outside the
\* mutex in every round and the PHP thread holds it for a bounded time.
\* JS reaches stack checks as long as it runs, and PHP callbacks return.
\* Nothing makes JS finish or PHP call anything.
LockFairness ==
    /\ SF_vars(StartTimer) /\ SF_vars(StopTimer) /\ SF_vars(SetLimit)
    /\ SF_vars(HandlerCheck) /\ SF_vars(TimerLock)
StepFairness ==
    /\ WF_vars(HandlerRecheck)
    /\ WF_vars(StopSkipJoin) /\ WF_vars(StopJoin) /\ WF_vars(StopRestore)
    /\ WF_vars(SetJoin) /\ WF_vars(SetSkipJoin) /\ WF_vars(SetTailJoin)
    /\ WF_vars(FreeDeactivate) /\ WF_vars(FreeJoin)
    /\ WF_vars(TimerDeactivate) /\ WF_vars(TimerTerminate)
    /\ WF_vars(TimerCheckMemory) /\ WF_vars(TimerMark) /\ WF_vars(TimerCheckActive)
    /\ WF_vars(Expire)
V8Fairness == SF_vars(JsUnwind) /\ SF_vars(TakeInterrupt)
CallbackFairness == SF_vars(ReturnToJs)

FairSpec == Spec /\ LockFairness /\ StepFairness /\ V8Fairness /\ CallbackFairness

\* JS under a time limit cannot run on forever: it is left, returns or at
\* least calls back into PHP.
TimeLimitEnforced == []<>~(InJs /\ depth > 0 /\ timeLimit)

\* JS that runs on under a memory limit has its heap measured again and again.
MemoryMeasured ==
    []<>~(pc = "js" /\ depth > 0 /\ memLimit /\ ~timeHit /\ ~memHit)

\* A hit limit unwinds every V8 entry on the stack, unless PHP resets it.
HitReachesCaller ==
    (depth > 0 /\ (timeHit \/ memHit)) ~> (frames = <<>> \/ (~timeHit /\ ~memHit))

\* Leaving a supervised entry always gets back to PHP: the timer it joins ends.
StopReturns == (pc = "stop") ~> (pc = "php")

\* A setter always returns to its caller.
SetterReturns == (pc = "set") ~> (pc = "php")

\* The isolate is always disposed of: limits_free does not wait forever.
DisposeCompletes == (pc = "free") ~> (pc = "freed")
=============================================================================
