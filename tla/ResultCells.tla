---------------------------- MODULE ResultCells ----------------------------
(***************************************************************************)
(* What a V8\ReturnValue promises.  V8 opens a cell for the result of each *)
(* call it makes to PHP and gives the call an object to fill it with.  The *)
(* object reaches that cell and no other, as long as the call runs; what   *)
(* it puts there is of the type the call returns, and the last value put   *)
(* there is what JavaScript gets.  A use that is refused changes no cell.  *)
(***************************************************************************)
EXTENDS Naturals, Sequences

CONSTANT Objects

Kinds == {"void", "any", "integer", "boolean", "array"}

Values == {"undefined", "null", "string", "boolean", "int32", "uint32",
           "number", "array", "object"}

Errors == {"out of context", "out of range", "no value accepted",
           "not accepted", "should never go here"}

\* The values a call of each kind may return.
Allowed(kind) ==
    CASE kind = "void"    -> {}
      [] kind = "any"     -> Values
      [] kind = "integer" -> {"int32", "uint32"}
      [] kind = "boolean" -> {"boolean"}
      [] kind = "array"   -> {"array"}

VARIABLES cells,    \* the open cells, innermost last
          outcome   \* what the last step told PHP or JavaScript

vars == <<cells, outcome>>

Init == cells = << >> /\ outcome = "none"

Open(kind, o) ==
    /\ \A i \in DOMAIN cells : cells[i].owner # o
    /\ cells' = Append(cells, [kind |-> kind, value |-> "unset", owner |-> o])
    /\ outcome' = "none"

Put(o, v) ==
    \E i \in DOMAIN cells :
        /\ cells[i].owner = o
        /\ v \in Allowed(cells[i].kind)
        /\ cells' = [cells EXCEPT ![i].value = v]
        /\ outcome' = "done"

Take(o) ==
    \E i \in DOMAIN cells :
        /\ cells[i].owner = o
        /\ outcome' = IF cells[i].value = "unset" THEN "undefined" ELSE cells[i].value
        /\ UNCHANGED cells

Refuse == outcome' \in Errors /\ UNCHANGED cells

\* A call that is never made returns nothing.
Skip == outcome' = "unset" /\ UNCHANGED cells

Close ==
    /\ cells # << >>
    /\ outcome' = cells[Len(cells)].value
    /\ cells' = SubSeq(cells, 1, Len(cells) - 1)

Next ==
    \/ \E o \in Objects :
          \/ \E kind \in Kinds : Open(kind, o)
          \/ \E v \in Values : Put(o, v)
          \/ Take(o)
    \/ Refuse
    \/ Skip
    \/ Close

Spec == Init /\ [][Next]_vars
=============================================================================
