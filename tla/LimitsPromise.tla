--------------------------- MODULE LimitsPromise ---------------------------
(***************************************************************************)
(* What the limits of V8\Isolate promise to the PHP program that sets      *)
(* them.  JS entered under a limit is watched until it is left or a limit  *)
(* is hit.  Only a limit that is set is hit, the time limit only while     *)
(* watched JS runs.  A hit stays, and nothing is run under the limits any  *)
(* more, until PHP sets that same limit again; JS still running is then    *)
(* watched again.                                                          *)
(***************************************************************************)
EXTENDS Naturals

Limits == {"time", "memory"}

VARIABLES entered,   \* calls into JS under the limits that have not returned
          limits,    \* the limits that are set
          hits,      \* the limits that were hit and not set again
          watched,   \* someone watches the clock and the heap
          setting,   \* the limit a setter is busy with, or "none"
          disposed   \* the isolate is being released

vars == <<entered, limits, hits, watched, setting, disposed>>

\* JS runs that has to be stopped as soon as a limit is exceeded.
Owed == entered > 0 /\ limits # {} /\ hits = {}

Init ==
    /\ entered = 0 /\ limits = {} /\ hits = {}
    /\ watched = FALSE /\ setting = "none" /\ disposed = FALSE

\* At rest no one watches, and a hit limit lets no one in.
Enter ==
    /\ ~disposed
    /\ entered = 0 => hits = {} /\ ~watched
    /\ entered' = entered + 1
    /\ UNCHANGED <<limits, hits, setting, disposed>>
    /\ watched' = (watched \/ Owed')

Leave ==
    /\ ~disposed /\ entered > 0
    /\ entered' = entered - 1
    /\ UNCHANGED <<limits, hits, watched, setting, disposed>>

\* The memory limit may also be hit in JS that is not watched: the heap is
\* measured when V8 gets to it.
Exceed(l) ==
    /\ l \in limits
    /\ l = "time" => watched /\ entered > 0
    /\ hits' = hits \cup {l}
    /\ UNCHANGED <<entered, limits, watched, setting, disposed>>

Reset(l) ==
    /\ hits' = hits \ {l}
    /\ setting' = "none"
    /\ watched' = (watched \/ Owed')

\* A setter may have to wait for whoever watches before it resets the hit.
Set(l) ==
    /\ ~disposed /\ setting = "none"
    /\ limits' \in {limits \cup {l}, limits \ {l}}
    /\ UNCHANGED <<entered, disposed>>
    /\ \/ Reset(l)
       \/ l \in hits /\ setting' = l /\ UNCHANGED <<hits, watched>>

FinishSet ==
    /\ setting # "none"
    /\ UNCHANGED <<entered, limits, disposed>>
    /\ Reset(setting)

\* No one gives up on JS that has to be stopped.
GiveUp ==
    /\ watched /\ (Owed => disposed)
    /\ watched' = FALSE
    /\ UNCHANGED <<entered, limits, hits, setting, disposed>>

Dispose ==
    /\ ~disposed
    /\ disposed' = TRUE
    /\ UNCHANGED <<entered, limits, hits, watched, setting>>

Next ==
    \/ Enter \/ Leave
    \/ \E l \in Limits : Exceed(l) \/ Set(l)
    \/ FinishSet \/ GiveUp \/ Dispose

Spec == Init /\ [][Next]_vars
=============================================================================
