--------------------------- MODULE TurnLifecycle ---------------------------
(***************************************************************************)
(* When a turn may run, seen from the life of the process: what main(), the *)
(* executor's queue and the interrupts of TurnExecutor come to together.   *)
(* Turns are not told apart.                                               *)
(***************************************************************************)

VARIABLES
    phase,  \* how far main() is
    turn,   \* a turn is being answered
    cut     \* an interrupt cut main()'s cleanup short

vars == <<phase, turn, cut>>

\* "open" until the teardown has run or is no longer waited for, "closing"
\* until the executor is shut down, "over" until the process ends.
Phases == {"before", "open", "closing", "over", "gone"}

Init == phase = "before" /\ turn = FALSE /\ cut = FALSE

Open ==
    /\ phase = "before"
    /\ phase' = "open"
    /\ UNCHANGED <<turn, cut>>

\* The teardown queues behind the turn in flight: only an interrupt gets main
\* past it.
Leave ==
    /\ phase \in {"before", "open"}
    /\ phase' = "closing"
    /\ \/ ~ turn /\ UNCHANGED cut
       \/ cut' = TRUE
    /\ UNCHANGED turn

Shutdown ==
    /\ phase = "closing"
    /\ phase' = "over"
    /\ UNCHANGED <<turn, cut>>

CutShort ==
    /\ phase \in {"closing", "over"}
    /\ cut' = TRUE
    /\ UNCHANGED <<phase, turn>>

End ==
    /\ phase = "over"
    /\ ~ turn
    /\ phase' = "gone"
    /\ UNCHANGED <<turn, cut>>

\* No turn begins before the front-ends are up, or once the executor is shut down.
BeginTurn ==
    /\ phase \in {"open", "closing"}
    /\ ~ turn
    /\ turn' = TRUE
    /\ UNCHANGED <<phase, cut>>

EndTurn ==
    /\ turn
    /\ turn' = FALSE
    /\ UNCHANGED <<phase, cut>>

Next == Open \/ Leave \/ Shutdown \/ CutShort \/ End \/ BeginTurn \/ EndTurn

Spec == Init /\ [][Next]_vars
=============================================================================
