------------------------- MODULE ModelServerProofs -------------------------
(***************************************************************************)
(* For any number of server processes and of polls: no foreign server is    *)
(* stopped, none of ours is forgotten, and _proc needs no lock.  Once main  *)
(* is in the REPL the server has been seen, so a turn only looks for one    *)
(* again after main has stopped it and is done with _proc.                  *)
(***************************************************************************)
EXTENDS ModelServer, TLAPS

\* Who is in ensure_running: main while it warms the model up, or a turn.
Called ==
    /\ epc # "idle" => IF caller = "main" THEN main = "warming" ELSE turn
    /\ main = "warming" => caller = "main" /\ epc # "idle"
    /\ epc = "post" => caller = "worker"
    /\ turn => main \in {"repl", "closing", "stopping", "joining"}
    /\ turn /\ main \in {"stopping", "joining"} => leftover

\* Who is in stop: main at its end, or whoever waited for the server in vain.
Stopping ==
    /\ spc["worker"] # "none" => epc = "stop" /\ caller = "worker"
    /\ spc["main"] # "none" => main = "stopping" \/ (main = "warming" /\ epc = "stop")
    /\ epc = "stop" => spc[caller] # "none"
    /\ main = "stopping" => spc["main"] # "none"
    /\ \A t \in Threads : /\ spc[t] # "none" => proc # None
                          /\ spc[t] = "drop" => state[proc] = "dead"

\* From the REPL to the end of main's stop a turn finds _ready set.
Seen ==
    /\ main \in {"repl", "closing"} \/ (main = "stopping" /\ turn) => ready
    /\ main \in {"repl", "closing", "stopping"} => epc \in {"idle", "call", "post"}

\* Ours are the processes that were spawned here; until main has stopped, the one
\* of them that may be alive is _proc.
Ours ==
    /\ \A p \in Procs : state[p] = "none" => owner[p] = "other"
    /\ proc # None => owner[proc] = "us"
    /\ main \notin {"joining", "gone"} =>
           \A p \in Procs : owner[p] = "us" /\ Alive(p) => p = proc
    /\ main = "warm" \/ (main = "warming" /\ epc \in {"call", "check", "spawn"}) => proc = None

\* After main's stop none of ours is alive, unless a turn was left to spawn one.
LeftNone ==
    main \in {"joining", "gone"} /\ stopServer /\ ~ cut /\ ~ leftover =>
        \A p \in Procs : owner[p] = "us" => ~ Alive(p)

IInv == TypeOK /\ Called /\ Stopping /\ Seen /\ Ours /\ LeftNone /\ ForeignSpared

-----------------------------------------------------------------------------
\* Two threads are never in stop at once: main is in it at its end only, when no turn
\* looks for the server.
LEMMA OneStops ==
    ASSUME IInv, NEW t \in Threads, NEW u \in Threads, spc[t] # "none", spc[u] # "none"
    PROVE  t = u
BY DEF IInv, TypeOK, Threads, Called, Stopping, Seen

LEMMA IInvInit == Init => IInv
<1> SUFFICES ASSUME Init PROVE IInv
  OBVIOUS
<1>1. /\ stopServer \in BOOLEAN /\ ready \in BOOLEAN /\ turn \in BOOLEAN
      /\ cut \in BOOLEAN /\ leftover \in BOOLEAN
  BY Zenon DEF Init
<1>2. TypeOK
  <2>1. 0 \in 0 .. MaxPolls
    BY ModelServerAssumption
  <2>2. spc \in [Threads -> {"none", "terminate", "wait", "drop"}] /\ owner \in [Procs -> {"us", "other"}]
    BY DEF Init
  <2> QED
    BY <1>1, <2>1, <2>2 DEF Init, TypeOK, Threads
<1> QED
  BY <1>1, <1>2 DEF Init, IInv, Called, Stopping, Seen, Ours, LeftNone, ForeignSpared,
     Procs, Threads, None, Alive

LEMMA IInvStep == IInv /\ [Next]_vars => IInv'
<1> SUFFICES ASSUME IInv, [Next]_vars PROVE IInv'
  OBVIOUS
<1> USE ModelServerAssumption DEF IInv, TypeOK, Called, Stopping, Seen, Ours, LeftNone, ForeignSpared,
        Threads, None, Procs, Alive, procVars, ensureVars, mainVars
<1>1. CASE IsReady
  BY <1>1 DEF IsReady, Ensured
<1>2. CASE FoundUp
  BY <1>2 DEF FoundUp
<1>3. CASE NotUp
  BY <1>3 DEF NotUp
<1>4. CASE Spawn
  BY <1>4 DEF Spawn
<1>5. CASE SpawnFails
  BY <1>5 DEF SpawnFails, EnsureRaises
<1>6. CASE ExitedEarly
  BY <1>6 DEF ExitedEarly, EnsureRaises
<1>7. CASE CameUp
  BY <1>7 DEF CameUp
<1>8. CASE NotYet
  BY <1>8 DEF NotYet
<1>9. CASE MarkReady
  BY <1>9 DEF MarkReady, Ensured
<1>10. CASE Timeout
  <2>1. CASE proc = None
    BY <1>10, <2>1 DEF Timeout, EnsureRaises
  <2>2. CASE proc # None
    BY <1>10, <2>2 DEF Timeout
  <2> QED BY <2>1, <2>2
<1>11. ASSUME NEW t \in Threads, Terminate(t) PROVE IInv'
  BY <1>11, OneStops DEF Terminate
<1>12. ASSUME NEW t \in Threads, Reap(t) PROVE IInv'
  BY <1>12, OneStops DEF Reap
<1>13. ASSUME NEW t \in Threads, Drop(t) PROVE IInv'
  BY <1>13, OneStops DEF Drop, AfterStop, EnsureRaises
<1>14. CASE WarmUp
  BY <1>14 DEF WarmUp
<1>15. CASE InterruptWarmUp
  BY <1>15 DEF InterruptWarmUp
<1>16. CASE LeaveRepl
  BY <1>16 DEF LeaveRepl
<1>17. CASE StopServer
  BY <1>17 DEF StopServer
<1>18. CASE InterruptStop
  BY <1>18 DEF InterruptStop
<1>19. CASE ProcessExit
  BY <1>19 DEF ProcessExit
<1>20. CASE BeginTurn
  BY <1>20 DEF BeginTurn
<1>21. CASE Generate
  BY <1>21 DEF Generate
<1>22. CASE Posted
  BY <1>22 DEF Posted
<1>23. CASE EndTurn
  BY <1>23 DEF EndTurn
<1>24. CASE ForeignAppears
  BY <1>24 DEF ForeignAppears
<1>25. CASE Loads
  BY <1>25 DEF Loads
<1>26. CASE Dies
  BY <1>26 DEF Dies
<1>27. CASE UNCHANGED vars
  BY <1>27 DEF vars
<1> QED
  BY <1>1, <1>2, <1>3, <1>4, <1>5, <1>6, <1>7, <1>8, <1>9, <1>10, <1>11, <1>12, <1>13, <1>14,
     <1>15, <1>16, <1>17, <1>18, <1>19, <1>20, <1>21, <1>22, <1>23, <1>24, <1>25, <1>26, <1>27
     DEF Next, EnsureStep, StopStep, MainStep, Operator, Turns, Processes
-----------------------------------------------------------------------------
\* IInv holds in every state of every behaviour.
THEOREM ServerInductive == Spec => []IInv
BY IInvInit, IInvStep, PTL DEF Spec

\* A server of another run is never told to stop by this one.
THEOREM ForeignNotStopped == Spec => []ForeignSpared
<1>1. IInv => ForeignSpared
  BY DEF IInv
<1> QED BY <1>1, ServerInductive, PTL

\* Until main's stop, a live server that this run spawned is the one in _proc,
\* wherever a start was interrupted, failed or timed out.
THEOREM OursRemembered == Spec => []NoneForgotten
<1>1. IInv => NoneForgotten
  BY DEF IInv, TypeOK, Ours, NoneForgotten
<1> QED BY <1>1, ServerInductive, PTL

\* main's stop and a turn that was left over never use _proc at once.
THEOREM ProcNeedsNoLock == Spec => []ProcUnshared
<1>1. IInv => ProcUnshared
  BY DEF IInv, TypeOK, Called, Stopping, Seen, ProcUnshared
<1> QED BY <1>1, ServerInductive, PTL

\* --stop-server leaves no server of ours alive, if it was not interrupted and no
\* turn was left over.
THEOREM StopComplete == Spec => []StopLeavesNone
<1>1. IInv => StopLeavesNone
  BY DEF IInv, LeftNone, StopLeavesNone
<1> QED BY <1>1, ServerInductive, PTL

\* The state of the manager, of its callers and of the processes keeps its types.
THEOREM ServerTyped == Spec => []TypeOK
<1>1. IInv => TypeOK
  BY DEF IInv
<1> QED BY <1>1, ServerInductive, PTL
-----------------------------------------------------------------------------
(* The length of a call: the safety half of EnsureEnds.                          *)

\* The steps that a stop has left.
StopLeft(t) ==
    CASE spc[t] = "none" -> 0
      [] spc[t] = "terminate" -> 3
      [] spc[t] = "wait" -> 2
      [] spc[t] = "drop" -> 1

\* The steps that the call of ensure_running, and the request behind it, have left at
\* most.
EnsureLeft ==
    CASE epc = "idle" -> 0
      [] epc = "post" -> 1
      [] epc = "up" -> 2
      [] epc = "stop" -> 1 + StopLeft(caller)
      [] epc = "wait" -> 5 + (MaxPolls - polls)
      [] epc = "spawn" -> MaxPolls + 6
      [] epc = "check" -> MaxPolls + 7
      [] epc = "call" -> MaxPolls + 8

\* The steps of the call itself, those of the stop at its end included.
CallStep == EnsureStep \/ (epc = "stop" /\ StopStep)

LEMMA EnsureLeftInRange == IInv => EnsureLeft \in 0 .. MaxPolls + 8
BY ModelServerAssumption DEF IInv, TypeOK, EnsureLeft, StopLeft, Threads

LEMMA EnsureTypes ==
    ASSUME IInv
    PROVE  /\ MaxPolls \in Nat /\ polls \in 0 .. MaxPolls /\ caller \in Threads
           /\ spc \in [Threads -> {"none", "terminate", "wait", "drop"}]
           /\ EnsureLeft \in Nat
BY ModelServerAssumption, EnsureLeftInRange DEF IInv, TypeOK

\* Whoever is in stop when a call ends with one is the caller.
LEMMA StopShortens ==
    ASSUME IInv, NEW t \in Threads, Terminate(t) \/ Reap(t) \/ Drop(t)
    PROVE  IF epc = "stop" THEN EnsureLeft' < EnsureLeft ELSE EnsureLeft' = EnsureLeft
<1> USE EnsureTypes
<1>1. CASE epc = "stop"
  <2>1. t = caller
    BY <1>1, OneStops DEF IInv, Stopping, Terminate, Reap, Drop
  <2>2. CASE Terminate(t) \/ Reap(t)
    <3>1. /\ epc' = "stop" /\ caller' = t
          /\ \/ spc[t] = "terminate" /\ spc'[t] = "wait"
             \/ spc[t] = "wait" /\ spc'[t] = "drop"
      BY <1>1, <2>1, <2>2 DEF Terminate, Reap, ensureVars
    <3> QED BY <1>1, <2>1, <3>1 DEF EnsureLeft, StopLeft
  <2>3. CASE Drop(t)
    <3>1. spc[t] = "drop" /\ epc' = "idle"
      BY <1>1, <2>1, <2>3 DEF Drop, AfterStop, EnsureRaises
    <3> QED BY <1>1, <2>1, <3>1 DEF EnsureLeft, StopLeft
  <2> QED BY <1>1, <2>2, <2>3
<1>2. CASE epc # "stop"
  <2>1. UNCHANGED <<epc, polls>>
    BY <1>2 DEF Terminate, Reap, Drop, AfterStop, ensureVars
  <2> QED BY <1>2, <2>1 DEF EnsureLeft
<1> QED BY <1>1, <1>2

LEMMA CallShortens ==
    ASSUME IInv, CallStep
    PROVE  EnsureLeft' < EnsureLeft
<1> USE EnsureTypes
<1>1. CASE IsReady \/ FoundUp \/ NotUp \/ Spawn \/ SpawnFails \/ MarkReady \/ Posted
  BY <1>1 DEF IsReady, FoundUp, NotUp, Spawn, SpawnFails, MarkReady, Posted, Ensured, EnsureRaises,
     EnsureLeft
<1>2. CASE ExitedEarly \/ CameUp \/ NotYet
  BY <1>2 DEF ExitedEarly, CameUp, NotYet, EnsureRaises, EnsureLeft
<1>3. CASE Timeout
  <2>1. EnsureLeft = 5
    BY <1>3 DEF Timeout, EnsureLeft
  <2>2. EnsureLeft' \in {0, 4}
    <3>1. CASE proc = None
      BY <1>3, <3>1 DEF Timeout, EnsureRaises, EnsureLeft
    <3>2. CASE proc # None
      <4>1. epc' = "stop" /\ caller' = caller /\ spc'[caller] = "terminate"
        BY <1>3, <3>2 DEF Timeout
      <4> QED BY <4>1 DEF EnsureLeft, StopLeft
    <3> QED BY <3>1, <3>2
  <2> QED BY <2>1, <2>2
<1>4. CASE epc = "stop" /\ StopStep
  BY <1>4, StopShortens DEF StopStep
<1> QED BY <1>1, <1>2, <1>3, <1>4 DEF CallStep, EnsureStep

\* Nothing that main, the other turns or the processes do lengthens a call.
LEMMA NothingLengthens ==
    ASSUME IInv, [Next]_vars, epc # "idle"
    PROVE  EnsureLeft' <= EnsureLeft
<1> USE EnsureTypes
<1>t. EnsureLeft' \in Nat
  BY IInvStep, ModelServerAssumption DEF IInv, TypeOK, EnsureLeft, StopLeft
<1>1. CASE EnsureStep
  BY <1>t, <1>1, CallShortens DEF CallStep
<1>2. CASE StopStep
  BY <1>t, <1>2, StopShortens DEF StopStep
<1>3. CASE WarmUp \/ Generate
  BY <1>3 DEF WarmUp, Generate, IInv, Called, TypeOK
<1>4. CASE InterruptWarmUp
  <2>1. EnsureLeft' = 0
    BY <1>4 DEF InterruptWarmUp, EnsureLeft
  <2> QED BY <2>1
<1>5. CASE StopServer \/ InterruptStop
  <2>1. UNCHANGED <<epc, polls, caller>> /\ \A t \in Threads \ {"main"} : spc'[t] = spc[t]
    BY <1>5 DEF StopServer, InterruptStop, ensureVars
  <2>2. epc = "stop" => caller # "main"
    BY <1>5 DEF StopServer, InterruptStop, IInv, Called
  <2>3. EnsureLeft' = EnsureLeft
    BY <2>1, <2>2 DEF EnsureLeft, StopLeft
  <2> QED BY <2>3
<1>6. CASE \/ LeaveRepl \/ ProcessExit \/ BeginTurn \/ EndTurn
           \/ ForeignAppears \/ Loads \/ Dies \/ UNCHANGED vars
  <2>1. UNCHANGED <<epc, polls, caller, spc>>
    BY <1>6 DEF LeaveRepl, ProcessExit, BeginTurn, EndTurn, ForeignAppears, Loads, Dies, vars,
       ensureVars
  <2>2. EnsureLeft' = EnsureLeft
    BY <2>1 DEF EnsureLeft, StopLeft
  <2> QED BY <2>2
<1> QED BY <1>1, <1>2, <1>3, <1>4, <1>5, <1>6 DEF Next, MainStep, Operator, Turns, Processes

\* For any number of processes and of polls, whatever becomes of the servers and
\* wherever main is interrupted: a call of ensure_running is over after at most
\* MaxPolls + 8 steps of its own, because each is one fewer to go and nothing else
\* adds to them.
THEOREM EnsureBounded ==
    Spec => /\ [](EnsureLeft \in 0 .. MaxPolls + 8)
            /\ [][/\ CallStep => EnsureLeft' < EnsureLeft
                  /\ epc # "idle" => EnsureLeft' <= EnsureLeft]_vars
<1>1. IInv /\ [Next]_vars => [/\ CallStep => EnsureLeft' < EnsureLeft
                              /\ epc # "idle" => EnsureLeft' <= EnsureLeft]_vars
  BY CallShortens, NothingLengthens
<1> QED BY <1>1, EnsureLeftInRange, ServerInductive, PTL DEF Spec

\* stop reads _proc anew at every step, and without a lock: it is there until stop
\* itself drops it, so terminate, wait and kill are never called on None.
THEOREM StopFindsProc == Spec => [](\A t \in Threads : spc[t] # "none" => proc # None)
<1>1. IInv => \A t \in Threads : spc[t] # "none" => proc # None
  BY DEF IInv, Stopping
<1> QED BY <1>1, ServerInductive, PTL
=============================================================================
