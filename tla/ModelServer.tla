----------------------------- MODULE ModelServer -----------------------------
(***************************************************************************)
(* model/runtime.py: the mlx_vlm.server the harness reuses or spawns, used *)
(* by the turn thread ("worker") and started and stopped by main().        *)
(*                                                                         *)
(* ensure_running runs on main while the model is warmed up and on the     *)
(* worker ever after; stop runs on main, and on either thread when the     *)
(* server does not come up in time.  Processes on the port come and go by  *)
(* themselves: another run of the harness may own one.  What a turn does   *)
(* between two calls of generate is left to ToolLoop.                      *)
(***************************************************************************)
EXTENDS Naturals

CONSTANTS
    MaxProcs,   \* bound: server processes there can be
    MaxPolls    \* bound: polls that fit in model_server_startup_timeout_s

ASSUME ModelServerAssumption == MaxProcs \in Nat \ {0} /\ MaxPolls \in Nat

Procs == 1 .. MaxProcs
None == 0

VARIABLES
    \* the processes
    state,      \* of each process
    owner,      \* who spawned it
    \* MLXServerManager
    proc,       \* _proc
    ready,      \* _ready
    \* ensure_running, on whichever thread is in it
    caller,
    epc,
    polls,
    \* stop, on each thread
    spc,
    \* main() and the turns
    main,
    stopServer, \* --stop-server, or keep_model_server is off
    turn,       \* a turn is being answered on the worker
    \* history variables
    cut,        \* an interrupt cut main()'s cleanup short
    leftover    \* a turn was being answered when main() came to stop_server

procVars == <<state, owner>>
ensureVars == <<caller, epc, polls>>
mainVars == <<main, stopServer, turn, cut, leftover>>
vars == <<procVars, proc, ready, ensureVars, spc, mainVars>>

Threads == {"main", "worker"}

TypeOK ==
    /\ state \in [Procs -> {"none", "loading", "serving", "dying", "dead"}]
    /\ owner \in [Procs -> {"us", "other"}]
    /\ proc \in Procs \cup {None}
    /\ ready \in BOOLEAN
    /\ caller \in Threads
    /\ epc \in {"idle", "call", "check", "spawn", "wait", "up", "stop", "post"}
    /\ polls \in 0 .. MaxPolls
    /\ spc \in [Threads -> {"none", "terminate", "wait", "drop"}]
    /\ main \in {"warm", "warming", "unstarted", "repl", "closing", "stopping",
                 "joining", "gone"}
    /\ stopServer \in BOOLEAN /\ turn \in BOOLEAN
    /\ cut \in BOOLEAN /\ leftover \in BOOLEAN

Init ==
    /\ state = [p \in Procs |-> "none"]
    /\ owner = [p \in Procs |-> "other"]
    /\ proc = None /\ ready = FALSE
    /\ caller = "main" /\ epc = "idle" /\ polls = 0
    /\ spc = [t \in Threads |-> "none"]
    /\ main = "warm" /\ stopServer \in BOOLEAN /\ turn = FALSE
    /\ cut = FALSE /\ leftover = FALSE

Alive(p) == state[p] \in {"loading", "serving", "dying"}
Up == \E p \in Procs : state[p] = "serving"

-----------------------------------------------------------------------------
(* ensure_running.                                                         *)

\* The call returns: main goes on to the REPL, the worker posts its request.
Ensured ==
    IF caller = "main" THEN epc' = "idle" /\ main' = "repl"
                       ELSE epc' = "post" /\ UNCHANGED main

\* The call raises: out of main's try, or out of the turn.
EnsureRaises ==
    /\ epc' = "idle"
    /\ IF caller = "main" THEN main' = "unstarted" /\ UNCHANGED turn
                          ELSE turn' = FALSE /\ UNCHANGED main

IsReady ==
    /\ epc = "call"
    /\ IF ready THEN Ensured ELSE epc' = "check" /\ UNCHANGED main
    /\ UNCHANGED <<procVars, proc, ready, caller, polls, spc, stopServer, turn, cut, leftover>>

\* Mutation: the server found on the port is taken for the one to stop.
FoundUpAdopts ==
    /\ epc = "check"
    /\ Up
    /\ proc' = CHOOSE p \in Procs : state[p] = "serving"
    /\ epc' = "up"
    /\ UNCHANGED <<procVars, ready, caller, polls, spc, mainVars>>

\* _is_up, before anything is spawned.
FoundUp ==
    /\ epc = "check"
    /\ Up
    /\ epc' = "up"
    /\ UNCHANGED <<procVars, proc, ready, caller, polls, spc, mainVars>>

\* Nothing answers, what answers is no model server, or it is too slow to.
NotUp ==
    /\ epc = "check"
    /\ epc' = "spawn"
    /\ UNCHANGED <<procVars, proc, ready, caller, polls, spc, mainVars>>

Spawn ==
    /\ epc = "spawn"
    /\ \E p \in Procs :
           /\ state[p] = "none"
           /\ state' = [state EXCEPT ![p] = "loading"]
           /\ owner' = [owner EXCEPT ![p] = "us"]
           /\ proc' = p
    /\ epc' = "wait"
    /\ polls' = 0
    /\ UNCHANGED <<ready, caller, spc, mainVars>>

\* Popen raises.
SpawnFails ==
    /\ epc = "spawn"
    /\ EnsureRaises
    /\ UNCHANGED <<procVars, proc, ready, caller, polls, spc, stopServer, cut, leftover>>

\* _wait_ready: the process is looked at, then the port.
Exited == proc # None /\ state[proc] = "dead"

ExitedEarly ==
    /\ epc = "wait"
    /\ polls < MaxPolls
    /\ Exited
    /\ EnsureRaises
    /\ UNCHANGED <<procVars, proc, ready, caller, polls, spc, stopServer, cut, leftover>>

CameUp ==
    /\ epc = "wait"
    /\ polls < MaxPolls
    /\ ~ Exited
    /\ Up
    /\ epc' = "up"
    /\ UNCHANGED <<procVars, proc, ready, caller, polls, spc, mainVars>>

\* Mutation: the deadline starts anew with every poll.
NotYetUncounted ==
    /\ epc = "wait"
    /\ polls < MaxPolls
    /\ ~ Exited
    /\ UNCHANGED vars

\* Mutation: the deadline is looked at one poll too late.
NotYetOnceMore ==
    /\ epc = "wait"
    /\ polls <= MaxPolls
    /\ ~ Exited
    /\ polls' = polls + 1
    /\ UNCHANGED <<procVars, proc, ready, caller, epc, spc, mainVars>>

\* The server has neither come up nor exited before the deadline: sleep, loop.
NotYet ==
    /\ epc = "wait"
    /\ polls < MaxPolls
    /\ ~ Exited
    /\ polls' = polls + 1
    /\ UNCHANGED <<procVars, proc, ready, caller, epc, spc, mainVars>>

MarkReady ==
    /\ epc = "up"
    /\ ready' = TRUE
    /\ Ensured
    /\ UNCHANGED <<procVars, proc, caller, polls, spc, stopServer, turn, cut, leftover>>

\* The startup timeout: stop, then MLXServerError.
Timeout ==
    /\ epc = "wait"
    /\ polls = MaxPolls
    /\ IF proc = None
       THEN EnsureRaises /\ UNCHANGED spc
       ELSE /\ epc' = "stop"
            /\ spc' = [spc EXCEPT ![caller] = "terminate"]
            /\ UNCHANGED <<main, turn>>
    /\ UNCHANGED <<procVars, proc, ready, caller, polls, stopServer, cut, leftover>>

-----------------------------------------------------------------------------
(* stop, once it has found a process to stop.  _proc is read anew at every  *)
(* step; ProcUnshared says why that finds what the first look found.        *)

AfterStop(t) ==
    IF epc = "stop" /\ caller = t THEN EnsureRaises
    ELSE main' = "joining" /\ UNCHANGED <<epc, turn>>

\* Mutation: the server is no longer counted as ready once it is told to stop.
TerminateUnready(t) ==
    /\ spc[t] = "terminate"
    /\ proc # None
    /\ state' = [state EXCEPT ![proc] = IF Alive(proc) THEN "dying" ELSE @]
    /\ ready' = FALSE
    /\ spc' = [spc EXCEPT ![t] = "wait"]
    /\ UNCHANGED <<owner, proc, ensureVars, mainVars>>

Terminate(t) ==
    /\ spc[t] = "terminate"
    /\ proc # None
    /\ state' = [state EXCEPT ![proc] = IF Alive(proc) THEN "dying" ELSE @]
    /\ spc' = [spc EXCEPT ![t] = "wait"]
    /\ UNCHANGED <<owner, proc, ready, ensureVars, mainVars>>

\* Mutation: a server that does not end within the timeout is not killed.
ReapWithoutKill(t) ==
    /\ spc[t] = "wait"
    /\ proc # None
    /\ spc' = [spc EXCEPT ![t] = "drop"]
    /\ UNCHANGED <<procVars, proc, ready, ensureVars, mainVars>>

\* wait(timeout=10), and kill if that was not enough.
Reap(t) ==
    /\ spc[t] = "wait"
    /\ proc # None
    /\ state' = [state EXCEPT ![proc] = "dead"]
    /\ spc' = [spc EXCEPT ![t] = "drop"]
    /\ UNCHANGED <<owner, proc, ready, ensureVars, mainVars>>

Drop(t) ==
    /\ spc[t] = "drop"
    /\ proc' = None
    /\ ready' = FALSE
    /\ spc' = [spc EXCEPT ![t] = "none"]
    /\ AfterStop(t)
    /\ UNCHANGED <<procVars, caller, polls, stopServer, cut, leftover>>

-----------------------------------------------------------------------------
(* main().                                                                 *)

WarmUp ==
    /\ main = "warm"
    /\ main' = "warming"
    /\ caller' = "main" /\ epc' = "call"
    /\ UNCHANGED <<procVars, proc, ready, polls, spc, stopServer, turn, cut, leftover>>

\* An interrupt while the model is warmed up leaves ensure_running where it is.
InterruptWarmUp ==
    /\ main = "warming"
    /\ main' = "unstarted"
    /\ epc' = "idle"
    /\ spc' = [spc EXCEPT !["main"] = "none"]
    /\ UNCHANGED <<procVars, proc, ready, caller, polls, stopServer, turn, cut, leftover>>

\* The teardown waits behind the turn in flight, unless it is interrupted.
LeaveRepl ==
    /\ main = "repl"
    /\ \/ ~ turn /\ UNCHANGED cut
       \/ turn /\ cut' = TRUE
    /\ main' = "closing"
    /\ UNCHANGED <<procVars, proc, ready, ensureVars, spc, stopServer, turn, leftover>>

\* Mutation: only a server that has become ready is stopped.
StopServerIfReady ==
    /\ main \in {"closing", "unstarted"}
    /\ leftover' = turn
    /\ IF stopServer /\ ready /\ proc # None
       THEN main' = "stopping" /\ spc' = [spc EXCEPT !["main"] = "terminate"]
       ELSE main' = "joining" /\ UNCHANGED spc
    /\ UNCHANGED <<procVars, proc, ready, ensureVars, stopServer, turn, cut>>

StopServer ==
    /\ main \in {"closing", "unstarted"}
    /\ leftover' = turn
    /\ IF stopServer /\ proc # None
       THEN main' = "stopping" /\ spc' = [spc EXCEPT !["main"] = "terminate"]
       ELSE main' = "joining" /\ UNCHANGED spc
    /\ UNCHANGED <<procVars, proc, ready, ensureVars, stopServer, turn, cut>>

InterruptStop ==
    /\ main = "stopping"
    /\ main' = "joining"
    /\ cut' = TRUE
    /\ spc' = [spc EXCEPT !["main"] = "none"]
    /\ UNCHANGED <<procVars, proc, ready, ensureVars, stopServer, turn, leftover>>

\* The interpreter waits for the worker.
ProcessExit ==
    /\ main = "joining"
    /\ ~ turn
    /\ main' = "gone"
    /\ UNCHANGED <<procVars, proc, ready, ensureVars, spc, stopServer, turn, cut, leftover>>

-----------------------------------------------------------------------------
(* The turns, one at a time on the executor's one thread.                   *)

\* Turns come from the REPL and the bot, which main() starts once the model is
\* warm, and are taken up until turn_executor.shutdown: also one that was
\* submitted after the teardown.
BeginTurn ==
    /\ main \in {"repl", "closing"}
    /\ ~ turn
    /\ turn' = TRUE
    /\ UNCHANGED <<procVars, proc, ready, ensureVars, spc, main, stopServer, cut, leftover>>

Generate ==
    /\ turn
    /\ epc = "idle"
    /\ caller' = "worker" /\ epc' = "call"
    /\ UNCHANGED <<procVars, proc, ready, polls, spc, mainVars>>

\* The request returns and the turn goes on, or it fails and the turn with it.
Posted ==
    /\ epc = "post"
    /\ epc' = "idle"
    /\ \/ Up /\ UNCHANGED turn
       \/ turn' = FALSE
    /\ UNCHANGED <<procVars, proc, ready, caller, polls, spc, main, stopServer, cut, leftover>>

EndTurn ==
    /\ turn
    /\ epc = "idle"
    /\ turn' = FALSE
    /\ UNCHANGED <<procVars, proc, ready, ensureVars, spc, main, stopServer, cut, leftover>>

-----------------------------------------------------------------------------
(* The processes.  One that finds the port taken exits; any may die.        *)

ForeignAppears ==
    /\ \E p \in Procs :
           /\ state[p] = "none"
           /\ state' = [state EXCEPT ![p] = "loading"]
           /\ UNCHANGED owner
    /\ UNCHANGED <<proc, ready, ensureVars, spc, mainVars>>

Loads ==
    /\ \E p \in Procs :
           /\ state[p] = "loading"
           /\ state' = [state EXCEPT ![p] = IF Up THEN "dead" ELSE "serving"]
    /\ UNCHANGED <<owner, proc, ready, ensureVars, spc, mainVars>>

Dies ==
    /\ \E p \in Procs : Alive(p) /\ state' = [state EXCEPT ![p] = "dead"]
    /\ UNCHANGED <<owner, proc, ready, ensureVars, spc, mainVars>>

-----------------------------------------------------------------------------
EnsureStep ==
    \/ IsReady \/ FoundUp \/ NotUp \/ Spawn \/ SpawnFails
    \/ ExitedEarly \/ CameUp \/ NotYet \/ MarkReady \/ Timeout
    \/ Posted

StopStep == \E t \in Threads : Terminate(t) \/ Reap(t) \/ Drop(t)

MainStep == WarmUp \/ StopServer \/ ProcessExit

Operator == InterruptWarmUp \/ LeaveRepl \/ InterruptStop

Turns == BeginTurn \/ Generate \/ EndTurn

Processes == ForeignAppears \/ Loads \/ Dies

Next == EnsureStep \/ StopStep \/ MainStep \/ Operator \/ Turns \/ Processes

\* Both threads run; a request, a probe and the wait for a process to exit have
\* timeouts.  Nothing makes a server come up, or die, or an operator leave.
Spec ==
    /\ Init
    /\ [][Next]_vars
    /\ WF_vars(EnsureStep)
    /\ WF_vars(StopStep)
    /\ WF_vars(MainStep)

-----------------------------------------------------------------------------
\* A server of another run is never stopped by this one, however its own
\* attempts to start one ended.
ForeignSpared == \A p \in Procs : state[p] = "dying" => owner[p] = "us"

\* Every live server this run spawned is the one stop would terminate: none is
\* forgotten when a start is interrupted, exits early or times out and is stopped.
NoneForgotten ==
    main \in {"warm", "warming", "unstarted", "repl", "closing"} =>
        \A p \in Procs : owner[p] = "us" /\ Alive(p) => p = proc

\* _proc has no lock: while main is in stop no turn that is left running spawns a
\* server, waits for one or stops one, so neither finds _proc changed under it.
ProcUnshared ==
    spc["main"] # "none" /\ caller = "worker" => epc \notin {"spawn", "wait", "stop"}

\* With --stop-server, and no interrupt and no turn under way at the end, the
\* process leaves no server behind that it spawned, also when the warm-up was
\* interrupted before the server was up.
StopLeavesNone ==
    main = "gone" /\ stopServer /\ ~ cut /\ ~ leftover =>
        \A p \in Procs : owner[p] = "us" => ~ Alive(p)

\* ensure_running comes to an end whatever becomes of the servers.
EnsureEnds == epc \in {"call", "check", "spawn", "wait", "up", "stop"} ~> epc \in {"idle", "post"}

\* main()'s finally: an explicit --stop-server must not leave the model server
\* behind.
StopServerHonoured ==
    main = "gone" /\ stopServer /\ ~ cut =>
        \A p \in Procs : owner[p] = "us" => ~ Alive(p)
=============================================================================
