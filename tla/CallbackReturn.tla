--------------------------- MODULE CallbackReturn ---------------------------
(***************************************************************************)
(* A callback from JavaScript into PHP and the V8\ReturnValue object it is *)
(* given (php_v8_callbacks.cc, php_v8_return_value.cc).                    *)
(*                                                                         *)
(* The C++ function V8 calls keeps a v8::ReturnValue in its stack frame    *)
(* and makes a PHP object that holds the frame's address.  PHP code may    *)
(* keep that object, run JavaScript that calls other callbacks, and use    *)
(* the objects of all of them.  The object must not be used once its frame *)
(* has gone, which is what its field "accepts" is for: the frame's last    *)
(* statement sets it to "invalid".                                         *)
(*                                                                         *)
(* Two pieces of code alternate: PHP (mode "php") and JavaScript ("js").   *)
(* A PHP exception nobody caught stays pending when a callback returns to  *)
(* JavaScript, which runs on without being told.  PHP destructors, which   *)
(* PHP runs with the pending exception set aside, are Catch, some uses,    *)
(* and Throw.                                                              *)
(***************************************************************************)
EXTENDS Naturals, Sequences

CONSTANTS Objects,      \* V8\ReturnValue objects
          MaxDepth,     \* bound: callbacks inside callbacks
          Behaviours    \* "exit": scripts may exit, or die, in a callback

ASSUME DepthAssumption == MaxDepth \in Nat \ {0}

VARIABLES stack,     \* the C++ frames of the callbacks that run, innermost last:
                     \*   the kind and value of the v8::ReturnValue, and its object
          mode,      \* "php" or "js": what runs in the innermost frame
          pending,   \* EG(exception) is set
          held,      \* the V8\ReturnValue objects that exist
          accepts,   \* of an object: what may be set, or "invalid"
          rv,        \* of an object: the place of its frame on the stack
          outcome    \* what the last step told PHP or JavaScript

vars == <<stack, mode, pending, held, accepts, rv, outcome>>

Cells == INSTANCE ResultCells WITH cells <- stack

Kinds   == Cells!Kinds
Values  == Cells!Values
Errors  == Cells!Errors
Allowed(kind) == Cells!Allowed(kind)

\* What V8 takes from a function and from each accessor and interceptor, be the
\* property's key a name or an index.
KindOf == [function |-> "any", getter |-> "any", setter |-> "void",
           interceptGetter |-> "any", interceptSetter |-> "any", query |-> "integer",
           deleter |-> "boolean", enumerator |-> "array"]

depth == Len(stack)

Init ==
    /\ stack = << >>
    /\ mode = "php"
    /\ pending = FALSE
    /\ held = {}
    /\ accepts = [o \in Objects |-> "invalid"]
    /\ rv = [o \in Objects |-> 0]
    /\ outcome = "none"

-----------------------------------------------------------------------------
\* JavaScript and PHP call each other.

\* PHP runs a script or calls a function; JavaScript returns or is stopped.
Enter ==
    /\ mode = "php" /\ ~pending
    /\ mode' = "js"
    /\ UNCHANGED <<stack, pending, held, accepts, rv, outcome>>

Finish ==
    /\ mode = "js"
    /\ mode' = "php"
    /\ UNCHANGED <<stack, pending, held, accepts, rv, outcome>>

\* Mutant: the object is never given the frame's address.
DispatchUnbound(kind, o) ==
    /\ mode = "js" /\ ~pending
    /\ depth < MaxDepth
    /\ o \notin held
    /\ stack' = Append(stack, [kind |-> kind, value |-> "unset", owner |-> o])
    /\ held' = held \union {o}
    /\ accepts' = [accepts EXCEPT ![o] = kind]
    /\ mode' = "php"
    /\ outcome' = "none"
    /\ UNCHANGED <<pending, rv>>

\* JavaScript calls a PHP function, accessor or interceptor: the frame is
\* entered, its object created and bound to it, and the PHP code called.
Dispatch(kind, o) ==
    /\ mode = "js" /\ ~pending
    /\ depth < MaxDepth
    /\ o \notin held
    /\ stack' = Append(stack, [kind |-> kind, value |-> "unset", owner |-> o])
    /\ held' = held \union {o}
    /\ accepts' = [accepts EXCEPT ![o] = kind]
    /\ rv' = [rv EXCEPT ![o] = depth + 1]
    /\ mode' = "php"
    /\ outcome' = "none"
    /\ UNCHANGED pending

\* zend_call_function() does nothing while an exception is pending: the frame
\* and its object come and go, and JavaScript gets an unset result.
DispatchSkipped ==
    /\ mode = "js" /\ pending
    /\ outcome' = "unset"
    /\ UNCHANGED <<stack, mode, pending, held, accepts, rv>>

\* Mutant: the callback's frame does not end with marking the object expired.
ReturnUnexpired(kept) ==
    LET o == stack[depth].owner IN
    /\ mode = "php" /\ stack # << >>
    /\ held' = IF kept THEN held ELSE held \ {o}
    /\ accepts' = IF kept THEN accepts ELSE [accepts EXCEPT ![o] = "invalid"]
    /\ rv' = IF kept THEN rv ELSE [rv EXCEPT ![o] = 0]
    /\ stack' = SubSeq(stack, 1, depth - 1)
    /\ outcome' = stack[depth].value
    /\ mode' = "js"
    /\ UNCHANGED pending

\* The PHP code of the innermost callback returns, or throws; its object
\* expires, and is destroyed unless PHP kept it.
Return(kept) ==
    LET o == stack[depth].owner IN
    /\ mode = "php" /\ stack # << >>
    /\ accepts' = [accepts EXCEPT ![o] = "invalid"]
    /\ held' = IF kept THEN held ELSE held \ {o}
    /\ rv' = IF kept THEN rv ELSE [rv EXCEPT ![o] = 0]
    /\ stack' = SubSeq(stack, 1, depth - 1)
    /\ outcome' = stack[depth].value
    /\ mode' = "js"
    /\ UNCHANGED pending

\* exit() and fatal errors leave all frames with a longjmp: no object expires.
\* What runs next are the shutdown functions.
Exit ==
    /\ "exit" \in Behaviours
    /\ mode = "php" /\ stack # << >>
    /\ stack' = << >>
    /\ pending' = FALSE
    /\ outcome' = "none"
    /\ UNCHANGED <<mode, held, accepts, rv>>

Throw ==
    /\ mode = "php" /\ ~pending
    /\ pending' = TRUE
    /\ UNCHANGED <<stack, mode, held, accepts, rv, outcome>>

Catch ==
    /\ mode = "php" /\ pending
    /\ pending' = FALSE
    /\ UNCHANGED <<stack, mode, held, accepts, rv, outcome>>

\* PHP drops its last reference to an object whose callback has returned; the
\* frame of one that runs holds a reference of its own.
Release(o) ==
    /\ mode = "php" /\ o \in held
    /\ \A i \in DOMAIN stack : stack[i].owner # o
    /\ held' = held \ {o}
    /\ accepts' = [accepts EXCEPT ![o] = "invalid"]
    /\ rv' = [rv EXCEPT ![o] = 0]
    /\ UNCHANGED <<stack, mode, pending, outcome>>

-----------------------------------------------------------------------------
\* The methods of V8\ReturnValue.

Refuse(error) ==
    /\ outcome' = error
    /\ pending' = TRUE
    /\ UNCHANGED <<stack, mode, held, accepts, rv>>

\* Mutant: the value is written to the innermost frame.
StoreInnermost(i, v) ==
    /\ stack' = IF i \in DOMAIN stack THEN [stack EXCEPT ![depth].value = v] ELSE stack
    /\ outcome' = "done"
    /\ UNCHANGED <<mode, pending, held, accepts, rv>>

\* A value is written where the object's pointer leads, be that frame alive or
\* not: the frame that is now in its place gets the value, if there is one.
Store(i, v) ==
    /\ stack' = IF i \in DOMAIN stack THEN [stack EXCEPT ![i].value = v] ELSE stack
    /\ outcome' = "done"
    /\ UNCHANGED <<mode, pending, held, accepts, rv>>

InUse(o) == mode = "php" /\ ~pending /\ o \in held

\* Mutant: nothing tests what an array-valued callback is given.
SetUntyped(o, v) ==
    /\ InUse(o)
    /\ CASE accepts[o] = "invalid" -> Refuse("out of context")
         [] accepts[o] = "void"    -> Refuse("no value accepted")
         [] accepts[o] \in {"any", "array"} \/
              (accepts[o] = "integer" /\ v \in Allowed(accepts[o]))
                                   -> Store(rv[o], v)
         [] OTHER                  -> Refuse("should never go here")

\* set(): the branch for booleans can only be entered by other values, so a
\* boolean, like every value of a wrong type, falls through to the end.
Set(o, v) ==
    /\ InUse(o)
    /\ CASE accepts[o] = "invalid" -> Refuse("out of context")
         [] accepts[o] = "void"    -> Refuse("no value accepted")
         [] accepts[o] = "any" \/ (accepts[o] \in {"integer", "array"}
                                     /\ v \in Allowed(accepts[o]))
                                   -> Store(rv[o], v)
         [] OTHER                  -> Refuse("should never go here")

\* The quick setters store a value of their own type if the call's kind is
\* among the kinds they know.
QuickSet(o, v, kinds) ==
    CASE accepts[o] = "invalid" -> Refuse("out of context")
      [] accepts[o] = "void"    -> Refuse("no value accepted")
      [] accepts[o] \in kinds   -> Store(rv[o], v)
      [] OTHER                  -> Refuse("not accepted")

SetNull(o)        == InUse(o) /\ QuickSet(o, "null", {"any"})
SetUndefined(o)   == InUse(o) /\ QuickSet(o, "undefined", {"any"})
SetEmptyString(o) == InUse(o) /\ QuickSet(o, "string", {"any"})
SetBool(o)        == InUse(o) /\ QuickSet(o, "boolean", {"any", "boolean"})

\* Mutant: the range is not checked.
SetIntegerUnchecked(o, i) ==
    InUse(o) /\ QuickSet(o, i, {"any", "integer"})

\* PHP integers are 64 bits wide.  The range is checked before the object is.
SetInteger(o, i) ==
    /\ InUse(o)
    /\ IF i = "int64" THEN Refuse("out of range")
                      ELSE QuickSet(o, i, {"any", "integer"})

\* A float that is a whole number becomes one of V8's integers.
SetFloat(o, v) == InUse(o) /\ QuickSet(o, v, {"any"})

\* get(): a dead frame may have left anything in its place.
Get(o) ==
    /\ InUse(o)
    /\ IF accepts[o] = "invalid" THEN Refuse("out of context")
       ELSE /\ outcome' \in
                 IF rv[o] \notin DOMAIN stack THEN Values
                 ELSE {IF stack[rv[o]].value = "unset" THEN "undefined"
                                                       ELSE stack[rv[o]].value}
            /\ UNCHANGED <<stack, mode, pending, held, accepts, rv>>

-----------------------------------------------------------------------------
Use(o) ==
    \/ \E v \in Values : Set(o, v)
    \/ SetNull(o)
    \/ SetUndefined(o)
    \/ SetEmptyString(o)
    \/ SetBool(o)
    \/ \E i \in {"int32", "uint32", "int64"} : SetInteger(o, i)
    \/ \E v \in {"int32", "uint32", "number"} : SetFloat(o, v)
    \/ Get(o)

Next ==
    \/ Enter
    \/ Finish
    \/ \E callback \in DOMAIN KindOf, o \in Objects : Dispatch(KindOf[callback], o)
    \/ DispatchSkipped
    \/ \E kept \in BOOLEAN : Return(kept)
    \/ Exit
    \/ Throw
    \/ Catch
    \/ \E o \in Objects : Release(o) \/ Use(o)

Spec == Init /\ [][Next]_vars

-----------------------------------------------------------------------------
\* Properties.

Frame == [kind : Kinds, value : Values \union {"unset"}, owner : Objects]

TypeOK ==
    /\ stack \in Seq(Frame) /\ depth <= MaxDepth
    /\ mode \in {"php", "js"}
    /\ pending \in BOOLEAN
    /\ held \subseteq Objects
    /\ accepts \in [Objects -> Kinds \union {"invalid"}]
    /\ rv \in [Objects -> 0..MaxDepth]
    /\ outcome \in Values \union Errors \union {"none", "done", "unset"}

\* A call's result, if set, is of the type V8 expects of it: the typed
\* v8::ReturnValue is reached through unchecked casts.
ResultsTyped ==
    \A i \in DOMAIN stack :
        stack[i].value \in Allowed(stack[i].kind) \union {"unset"}

\* The object of a running callback accepts what the callback's frame takes and
\* points at this frame, whatever nested callbacks or earlier exits left behind.
OwnFrame ==
    \A i \in DOMAIN stack :
        /\ accepts[stack[i].owner] = stack[i].kind
        /\ rv[stack[i].owner] = i

\* An object PHP kept accepts nothing once its callback has returned.
ExpiredAfterwards ==
    \A o \in Objects :
        accepts[o] # "invalid" => /\ rv[o] \in DOMAIN stack
                                 /\ stack[rv[o]].owner = o

\* inContext(): "return value is in current calling context and thus is usable".
UsableInContext == OwnFrame /\ ExpiredAfterwards

\* The objects and the pointers in them implement the cells of ResultCells: a
\* use of an object reaches the cell V8 opened for its call, or is refused.
ImplementsCells == Cells!Spec
=============================================================================
