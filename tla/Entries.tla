------------------------------ MODULE Entries ------------------------------
(***************************************************************************)
(* How the methods of one isolate's objects enter V8 and leave it, and how *)
(* an exception crosses the border between JavaScript and PHP              *)
(* (php_v8_exceptions.{h,cc}, php_v8_try_catch.cc, Isolate::throwException *)
(* and the bodies all methods of Api share).                               *)
(*                                                                         *)
(* A PHP callback throws into JavaScript with Isolate::throwException(),   *)
(* and may associate a PHP exception (the external exception) with the     *)
(* JavaScript object it throws.  The external is kept by the PHP object of *)
(* the value, and the isolate keeps that PHP object alive until the        *)
(* outermost watched call ends, as nothing else in PHP may refer to it.    *)
(* The watched call that catches the value converts it to a string, which  *)
(* runs its toString(), and then hands the external over.                  *)
(*                                                                         *)
(* Every entry below the innermost has a callback that runs; the innermost *)
(* runs JavaScript, or a callback too (php).  The conversion is an entry   *)
(* in the place of the call that failed, after its timer was stopped.      *)
(***************************************************************************)
EXTENDS Api, Naturals, Sequences

CONSTANTS Values,      \* JavaScript objects that are thrown
          Externals,   \* PHP exceptions associated with them
          None,
          MaxFrames,   \* bound: V8 entries inside one another
          Behaviours   \* what the program may do beyond what is expected of it

AllBehaviours ==
    { "hollow",     \* uses an object whose constructor threw
      "lenient" }   \* mixes isolates in a method of Lenient

Termination == "termination"

ASSUME FramesAssumption == MaxFrames \in Nat \ {0}
ASSUME BehavioursAssumption == Behaviours \subseteq AllBehaviours
ASSUME NoneAssumption == None \notin Values \union Externals \union {Termination}
ASSUME ValuesAssumption == Values \intersect {Termination, "watched", "bare"} = {}

VARIABLES frames,     \* the entries on the stack, innermost last; a value for a
                      \*   call that caught it and now converts it
          php,        \* PHP code runs in the innermost entry (or there is none)
          depth,      \* limits.depth
          thrown,     \* what is being thrown in the innermost entry's JavaScript
          scheduled,  \* V8's exception to throw when the running callback returns
          pending,    \* EG(exception) is set
          held,       \* values whose PHP objects the program refers to
          kept,       \* values whose PHP objects external_exceptions refers to
          attached,   \* php_v8_value_t.exception of a value's PHP object
          owed,       \* history: the external a value was thrown with and that
                      \*   no watched call has handed over yet, as long as there is
                      \*   one that could
          lost,       \* history: the values that external_exceptions gave up while
                      \*   an external was owed
          caught,     \* the last V8\TryCatch: its exception and external exception
          given       \* what the handles of the last V8 call were

control == <<frames, php, depth>>
errors  == <<thrown, scheduled, pending>>
externals == <<held, kept, attached, owed, lost, caught>>
vars    == <<control, errors, externals, given>>

Kinds == {"watched", "bare"} \union Values
Pop(f)  == SubSeq(f, 1, Len(f) - 1)
Top     == frames[Len(frames)]

\* A call on the stack f has yet to hand over what it caught.
Converting(f) == \E i \in DOMAIN f : f[i] \in Values

TypeOK ==
    /\ frames \in Seq(Kinds) /\ Len(frames) <= MaxFrames
    /\ php \in BOOLEAN /\ (frames = << >> => php)
    /\ depth \in 0..Len(frames)
    /\ thrown \in Values \union {Termination, None}
    /\ scheduled \in Values \union {Termination, None}
    /\ pending \in BOOLEAN
    /\ held \subseteq Values /\ kept \subseteq Values
    /\ attached \in [Values -> Externals \union {None}]
    /\ owed \in [Values -> Externals \union {None}] /\ lost \subseteq Values
    /\ caught \in [value : Values \union {None}, external : Externals \union {None}]
    /\ given \subseteq {"own", "foreign", "unbuilt", "hollow"}

Nobody == [v \in Values |-> None]

Init ==
    /\ frames = << >> /\ php = TRUE /\ depth = 0
    /\ thrown = None /\ scheduled = None /\ pending = FALSE
    /\ held = {} /\ kept = {} /\ attached = Nobody /\ owed = Nobody /\ lost = {}
    /\ caught = [value |-> None, external |-> None]
    /\ given = {}

-----------------------------------------------------------------------------
(* What is tested of the handles of a call                                 *)

\* A handle is of this isolate or of another (foreign); its constructor was
\* never called (unbuilt) or threw after it had stored the isolate (hollow).
Statuses == {"own", "foreign", "unbuilt"} \union ({"hollow"} \intersect Behaviours)

\* The methods with a handle they do not compare the isolate of: the
\* constructors of RegExpObject and StringObject, Context::setSecurityToken(),
\* FunctionTemplate::inherit() and hasInstance().
Lenient == {m.method : m \in {n \in Methods : n.loose # {}}}

\* The handles of a call of m on this isolate.
HandlesOf(m) ==
    {h \in [m.roles -> Statuses] :
        /\ \E r \in m.roles : h[r] = "own"
        /\ (m.method \in Lenient /\ "lenient" \notin Behaviours)
              => \A r \in m.roles : h[r] # "foreign"}

Single(m) == m.roles \ {"arguments"}

\* An object's isolate pointer is set.
Built(m, h) == \A r \in Single(m) : h[r] # "unbuilt"

SameIsolate(m, h) == \A r, s \in Single(m) \ m.loose : h[r] = "foreign" => h[s] # "own"

\* Mutant: the isolate of the elements of an arguments array is not compared.
UnpackedUnchecked(m, h) == "arguments" \in m.roles => h["arguments"] \notin {"unbuilt", "hollow"}

\* The elements of an arguments array are tested, for emptiness too, on the way
\* into the C array they are copied to.
Unpacked(m, h) ==
    "arguments" \in m.roles =>
        /\ h["arguments"] \notin {"unbuilt", "hollow"}
        /\ \A s \in Single(m) : h[s] \in {"own", "foreign"} => h["arguments"] = h[s]

Accepted(m, h) == Built(m, h) /\ SameIsolate(m, h) /\ Unpacked(m, h)

\* The calls there are, but for what they are called.
Attempts ==
    UNION {{[way |-> m.way, accepted |-> Accepted(m, h), handles |-> {h[r] : r \in m.roles}]
               : h \in HandlesOf(m)} : m \in Methods}

-----------------------------------------------------------------------------
(* Leaving V8                                                              *)

\* Mutant: the isolate's references go when any watched call ends.
KeptAtAlways(d) == {}

\* php_v8_isolate_external_exceptions_maybe_clear(): the isolate's references
\* to PHP objects go when a watched call ends and leaves depth at 0, be it
\* inside the conversion of an exception that an outermost call caught.
KeptAt(d) == IF d = 0 THEN {} ELSE kept

\* Nothing is owed any more when no call is left that could hand it over.
OwedAt(d) == IF d = 0 /\ ~Converting(frames') THEN Nobody ELSE owed

LostAt(d) ==
    CASE d > 0                           -> lost
      [] d = 0 /\ Converting(frames')    -> lost \union {v \in Values : owed[v] # None}
      [] d = 0 /\ ~Converting(frames')   -> {}

\* The PHP object of a value dies with the last reference to it, and the
\* association with it.
Surviving(a) == [v \in Values |-> IF v \in held' \union kept' THEN a[v] ELSE None]

\* Mutant: the last reference goes before the external is handed over.
HandOverLate(x, d) ==
    LET live == [v \in Values |-> IF v \in held \union KeptAt(d) THEN attached[v] ELSE None]
    IN /\ kept' = KeptAt(d)
       /\ caught' = [value |-> x, external |-> live[x]]
       /\ held' = held \union {x}
       /\ attached' = Surviving([live EXCEPT ![x] = None])
       /\ owed' = [OwedAt(d) EXCEPT ![x] = None]
       /\ lost' = LostAt(d)

\* A V8\TryCatch is made of what was caught: it refers to the value's PHP
\* object and takes the external from it.  Then the kept references go.
HandOver(x, d) ==
    /\ kept' = KeptAt(d)
    /\ caught' = [value |-> x, external |-> attached[x]]
    /\ held' = held \union {x}
    /\ attached' = Surviving([attached EXCEPT ![x] = None])
    /\ owed' = [OwedAt(d) EXCEPT ![x] = None]
    /\ lost' = LostAt(d)

Release(d) ==
    /\ kept' = KeptAt(d)
    /\ UNCHANGED held
    /\ attached' = Surviving(attached)
    /\ owed' = OwedAt(d)
    /\ lost' = LostAt(d)

-----------------------------------------------------------------------------
(* PHP code                                                                *)

\* PHP statements run: no exception is pending.  A program that has made V8
\* throw returns to it before it uses V8 again.
PhpRuns == php /\ ~pending
PhpFree == PhpRuns /\ scheduled = None

\* A method throws before V8 is entered: a test of its handles fails, or a
\* limit has been hit (IsolateLimits says when) and the method is a watched one.
Refuse(a) ==
    /\ PhpFree
    /\ ~a.accepted \/ a.way = "watched"
    /\ pending' = TRUE
    /\ UNCHANGED <<control, thrown, scheduled, externals, given>>

\* A method of which no JavaScript runs.
CallQuiet(a) ==
    /\ PhpFree
    /\ a.accepted /\ a.way \in {"quiet", "read"}
    /\ given' = a.handles
    /\ UNCHANGED <<control, errors, externals>>

\* The timer is started, or goes on; the method's JavaScript runs.
CallWatched(a) ==
    /\ PhpFree /\ Len(frames) < MaxFrames
    /\ a.accepted /\ a.way = "watched"
    /\ frames' = Append(frames, "watched")
    /\ depth' = depth + 1
    /\ php' = FALSE
    /\ given' = a.handles
    /\ UNCHANGED <<errors, externals>>

\* JavaScript may run, without the limits and without a TryCatch.
CallBare(a) ==
    /\ PhpFree /\ Len(frames) < MaxFrames
    /\ a.accepted /\ a.way = "bare"
    /\ frames' = Append(frames, "bare")
    /\ php' = FALSE
    /\ given' = a.handles
    /\ UNCHANGED <<depth, errors, externals>>

\* throwException(context, v)
ThrowValue(v) ==
    /\ PhpFree /\ frames # << >> /\ v \in held
    /\ scheduled' = v
    /\ UNCHANGED <<control, thrown, pending, externals, given>>

\* throwException(context, v, e)
Associate(v, e) ==
    /\ PhpFree /\ frames # << >> /\ v \in held
    /\ attached[v] = None
    /\ attached' = [attached EXCEPT ![v] = e]
    /\ kept' = kept \union {v}
    /\ IF depth > 0
       THEN owed' = [owed EXCEPT ![v] = e] /\ lost' = lost \ {v}
       ELSE UNCHANGED <<owed, lost>>
    /\ scheduled' = v
    /\ UNCHANGED <<control, thrown, pending, held, caught, given>>

\* throwException(context, v, e): another external is associated with v.
AssociateRefused(v) ==
    /\ PhpFree /\ frames # << >> /\ v \in held
    /\ attached[v] # None
    /\ pending' = TRUE
    /\ UNCHANGED <<control, thrown, scheduled, externals, given>>

PhpThrow ==
    /\ PhpRuns
    /\ pending' = TRUE
    /\ UNCHANGED <<control, thrown, scheduled, externals, given>>

PhpCatch ==
    /\ php /\ pending
    /\ pending' = FALSE
    /\ UNCHANGED <<control, thrown, scheduled, externals, given>>

\* The program comes by a value: a callback's argument, a result.
Obtain(v) ==
    /\ PhpRuns
    /\ v \notin held
    /\ held' = held \union {v}
    /\ UNCHANGED <<control, errors, kept, attached, owed, lost, caught, given>>

\* The program's last reference to a value goes, be it by an unwinding.
Drop(v) ==
    /\ php /\ v \in held
    /\ held' = held \ {v}
    /\ kept' = kept
    /\ attached' = Surviving(attached)
    /\ UNCHANGED <<control, errors, owed, lost, caught, given>>

\* A callback returns; V8 throws what it was told to.
Return ==
    /\ php /\ frames # << >>
    /\ php' = FALSE
    /\ thrown' = scheduled
    /\ scheduled' = None
    /\ UNCHANGED <<frames, depth, pending, externals, given>>

-----------------------------------------------------------------------------
(* JavaScript                                                              *)

JsThrow(v) ==
    /\ ~php /\ thrown = None
    /\ thrown' = v
    /\ UNCHANGED <<control, scheduled, pending, externals, given>>

\* A script's catch block; none runs for a termination.
JsCatch ==
    /\ ~php /\ thrown \in Values
    /\ thrown' = None
    /\ UNCHANGED <<control, scheduled, pending, externals, given>>

\* A limit is hit, or terminateExecution() was called.
Stop ==
    /\ ~php /\ thrown # Termination
    /\ thrown' = Termination
    /\ UNCHANGED <<control, scheduled, pending, externals, given>>

\* JavaScript calls a PHP function; zend_call_function() does nothing while an
\* exception is pending.
Callback ==
    /\ ~php /\ thrown = None /\ ~pending
    /\ php' = TRUE
    /\ UNCHANGED <<frames, depth, errors, externals, given>>

\* A watched call returns.
FinishWatched ==
    /\ ~php /\ thrown = None /\ Top = "watched"
    /\ frames' = Pop(frames)
    /\ depth' = depth - 1
    /\ php' = TRUE
    /\ Release(depth')
    /\ UNCHANGED <<errors, caught, given>>

FinishBare ==
    /\ ~php /\ thrown = None /\ Top = "bare"
    /\ frames' = Pop(frames)
    /\ php' = TRUE
    /\ UNCHANGED <<depth, errors, externals, given>>

\* V8 forgets an exception that leaves its outermost entry, and throws it on
\* into the JavaScript below when there is some.
Onward(x) == IF Len(frames) = 1 THEN None ELSE x

\* A termination reaches a watched call: it has no value to convert.
FailTerminated ==
    /\ ~php /\ thrown = Termination /\ Top = "watched"
    /\ frames' = Pop(frames)
    /\ depth' = depth - 1
    /\ php' = TRUE
    /\ thrown' = None
    /\ scheduled' = Onward(Termination)
    /\ pending' = TRUE
    /\ caught' = [value |-> None, external |-> None]
    /\ Release(depth')
    /\ UNCHANGED given

\* Mutant: a call that caught something skips the stop of the timer.
FailWatchedUncounted ==
    /\ ~php /\ thrown \in Values /\ Top = "watched"
    /\ frames' = Append(Pop(frames), thrown)
    /\ thrown' = None
    /\ UNCHANGED <<php, depth, scheduled, pending, externals, given>>

\* An exception reaches a watched call: the timer is stopped, and the value's
\* toString() runs, with callbacks and all, and is not counted by depth.
FailWatched ==
    /\ ~php /\ thrown \in Values /\ Top = "watched"
    /\ frames' = Append(Pop(frames), thrown)
    /\ depth' = depth - 1
    /\ thrown' = None
    /\ UNCHANGED <<php, scheduled, pending, externals, given>>

\* The value was converted: it becomes a PHP exception with a V8\TryCatch.
Converted ==
    /\ ~php /\ thrown = None /\ Top \in Values
    /\ frames' = Pop(frames)
    /\ php' = TRUE
    /\ pending' = TRUE
    /\ HandOver(Top, depth)
    /\ UNCHANGED <<depth, thrown, scheduled, given>>

\* Mutant: the early return of a failed conversion is the call's, too.
NotConvertedUncleared ==
    /\ ~php /\ thrown # None /\ Top \in Values
    /\ frames' = Pop(frames)
    /\ php' = TRUE
    /\ thrown' = None
    /\ scheduled' = IF thrown = Termination THEN Onward(thrown) ELSE None
    /\ pending' = TRUE
    /\ UNCHANGED <<depth, externals, given>>

\* The conversion threw, or was terminated: PHP is told of an internal error,
\* no V8\TryCatch is made, and an exception object that was never set is
\* thrown, which ends the request (here: no further step) or throws some
\* earlier one.
NotConverted ==
    /\ ~php /\ thrown # None /\ Top \in Values
    /\ frames' = Pop(frames)
    /\ php' = TRUE
    /\ thrown' = None
    /\ scheduled' = IF thrown = Termination THEN Onward(thrown) ELSE None
    /\ pending' = TRUE
    /\ Release(depth)
    /\ UNCHANGED <<depth, caught, given>>

\* An exception leaves a bare call: PHP is told of a failure and no more, and
\* V8 still has it when there is JavaScript below.
FailBare ==
    /\ ~php /\ thrown # None /\ Top = "bare"
    /\ frames' = Pop(frames)
    /\ php' = TRUE
    /\ thrown' = None
    /\ scheduled' = Onward(thrown)
    /\ pending' = TRUE
    /\ UNCHANGED <<depth, externals, given>>

-----------------------------------------------------------------------------
Calls    == \E a \in Attempts : Refuse(a) \/ CallQuiet(a) \/ CallWatched(a) \/ CallBare(a)
Throws   == \E v \in Values : \/ ThrowValue(v) \/ AssociateRefused(v)
                              \/ \E e \in Externals : Associate(v, e)
PhpStep  == Calls \/ Throws \/ PhpThrow \/ PhpCatch \/ Return \/ \E v \in Values : Obtain(v) \/ Drop(v)
JsStep   == (\E v \in Values : JsThrow(v)) \/ JsCatch \/ Stop \/ Callback
Fail     == FailWatched \/ FailTerminated \/ FailBare
Leave    == FinishWatched \/ FinishBare \/ Fail \/ Converted \/ NotConverted

Next == PhpStep \/ JsStep \/ Leave
Spec == Init /\ [][Next]_vars

-----------------------------------------------------------------------------
(* Properties                                                              *)

\* The external a value was thrown with under a watched call stays associated
\* with it, and its PHP object is kept, until it is handed over, whatever the
\* program drops, scripts catch and throw again, nested calls do and
\* conversions run; but for the values that a call made by an outermost call's
\* conversion had the isolate give up (lost).
ExternalsKept ==
    \A v \in Values \ lost : owed[v] # None => attached[v] = owed[v] /\ v \in kept

\* A watched call that has converted a value hands over the external the value
\* was thrown with, although its toString() ran since and may have thrown,
\* caught and dropped anything: the references at depth 0 are cleared after.
ExternalDelivered ==
    [][\A v \in Values \ lost : (Converted /\ Top = v /\ owed[v] # None)
            => caught' = [value |-> v, external |-> owed[v]]]_vars

\* When a watched call has ended with depth at 0, whether it returned, was
\* terminated, or could or could not convert what it caught, the isolate no
\* longer keeps any PHP object alive for an external.
AllReleased ==
    [][(Len(frames') < Len(frames) /\ Top # "bare" /\ depth' = 0) => kept' = {}]_vars

\* V8 is never given handles of two isolates, or an empty one, in a call, be
\* they this, an argument, or an element of an array (the checks that start
\* each method and php_v8_function_unpack_*args).
OwnHandles == given \subseteq {"own"}
=============================================================================
