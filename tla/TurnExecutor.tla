---------------------------- MODULE TurnExecutor ----------------------------
(***************************************************************************)
(* The process around the one browser session: the main thread (__main__,  *)
(* run_repl), the single-worker turn executor, the turn lock, and the      *)
(* Discord bot's event loop (discord_bot.py).                              *)
(*                                                                         *)
(* Jobs handed to the executor are the session start, the REPL's tasks,    *)
(* the Discord messages and the teardown.  Each task and message is one    *)
(* occurrence: it is asked at most once.  What a turn computes is left to  *)
(* ToolLoop, what happens in the browser session to NodeSession; here a    *)
(* job ends with one of the outcomes its caller tells apart.               *)
(***************************************************************************)
EXTENDS Conversation

CONSTANTS
    Tasks,      \* lines typed at the REPL that are neither blank nor "exit"
    Messages,   \* Discord messages
    Channels,   \* Discord channels
    Info,       \* what on_message looks at, of each message
    Allowlist   \* COLFIN_DISCORD_ALLOWED_USERS

Jobs == Turns \cup {"start", "teardown"}
Conversations == Channels \cup {"repl"}

ASSUME TurnExecutorAssumption ==
    /\ Turns = Tasks \cup Messages
    /\ Tasks \cap Messages = {}
    /\ {"start", "teardown", "none"} \cap Turns = {}
    /\ "repl" \notin Channels
    /\ \A m \in Messages : Info[m].channel \in Channels

Outcomes == {"ok", "LoginFailed", "SessionExpired", "Error"}
Resolved == Outcomes \cup {"cancelled"}
FutureState == Resolved \cup {"none", "pending", "running"}
Threads == {"main", "worker"}

VARIABLES
    \* the main thread
    mainPc,      \* where main() and run_repl() are
    asking,      \* the REPL task whose result main waits for
    abandoned,   \* a second interrupt cut the wait for the teardown short
    \* the executor and its only worker thread
    queue,       \* the executor's work queue
    future,      \* the state of each job's future
    accepting,   \* shutdown() has not been called
    workerPc,
    workerJob,   \* the job the worker last took up
    lock,        \* turn_lock: its holder, or "free"
    \* the session, as far as this module sees it
    playwright,  \* the thread sync Playwright was started on
    inSession,   \* threads that are inside a session call
    session,
    creds,       \* the password the session holds for a silent re-login
    \* the conversations
    history,     \* what the next turn of a conversation is given
    answered,    \* every turn answered so far (history variable)
    \* the Discord event loop
    bot,
    handler      \* where on_message is for each message

mainVars == <<mainPc, asking, abandoned>>
execVars == <<queue, future, accepting>>
workerVars == <<workerPc, workerJob, lock>>
sessionVars == <<playwright, inSession, session, creds>>
convVars == <<history, answered>>
botVars == <<bot, handler>>
vars == <<mainVars, execVars, workerVars, sessionVars, convVars, botVars>>

MainPc == {"boot", "awaitStart", "warm", "prompt", "awaitTurn", "finally",
           "awaitTeardown", "shutdown", "joining", "gone"}
HandlerState == {"unseen", "ignored", "typing", "awaiting",
                 "answered", "down", "failed", "dropped"}

TypeOK ==
    /\ mainPc \in MainPc
    /\ asking \in Tasks \cup {"none"}
    /\ abandoned \in BOOLEAN
    /\ queue \in Seq(Jobs)
    /\ future \in [Jobs -> FutureState]
    /\ accepting \in BOOLEAN
    /\ workerPc \in {"idle", "wantLock", "running"}
    /\ workerJob \in Jobs \cup {"none"}
    /\ lock \in Threads \cup {"free"}
    /\ playwright \in Threads \cup {"none"}
    /\ inSession \in SUBSET Threads
    /\ session \in {"new", "open", "failed", "closed", "halfClosed"}
    /\ creds \in {"none", "held", "cleared"}
    /\ history \in [Conversations -> Seq(Turns)]
    /\ answered \in [Conversations -> Seq(Turns)]
    /\ bot \in {"off", "up", "down"}
    /\ handler \in [Messages -> HandlerState]

Init ==
    /\ mainPc = "boot"
    /\ asking = "none"
    /\ abandoned = FALSE
    /\ queue = <<>>
    /\ future = [j \in Jobs |-> "none"]
    /\ accepting = TRUE
    /\ workerPc = "idle"
    /\ workerJob = "none"
    /\ lock = "free"
    /\ playwright = "none"
    /\ inSession = {}
    /\ session = "new"
    /\ creds = "none"
    /\ history = [c \in Conversations |-> <<>>]
    /\ answered = [c \in Conversations |-> <<>>]
    /\ bot = "off"
    /\ handler = [m \in Messages |-> "unseen"]

Conversation(turn) == IF turn \in Tasks THEN "repl" ELSE Info[turn].channel

-----------------------------------------------------------------------------
(* ThreadPoolExecutor.submit: enqueue and return; nothing runs here.       *)

Submit(job) ==
    /\ accepting
    /\ future[job] = "none"
    /\ queue' = Append(queue, job)
    /\ future' = [future EXCEPT ![job] = "pending"]
    /\ UNCHANGED accepting

-----------------------------------------------------------------------------
(* The main thread.                                                        *)

SubmitStart ==
    /\ mainPc = "boot"
    /\ Submit("start")
    /\ mainPc' = "awaitStart"
    /\ UNCHANGED <<asking, abandoned, workerVars, sessionVars, convVars, botVars>>

AwaitStart ==
    /\ mainPc = "awaitStart"
    /\ future["start"] \in Resolved
    /\ mainPc' = IF future["start"] = "ok" THEN "warm" ELSE "finally"
    /\ UNCHANGED <<asking, abandoned, execVars, workerVars, sessionVars, convVars, botVars>>

\* runtime.ensure_server() may raise; if it does not, the bot's thread is
\* started when there is a token for it.
WarmModel ==
    /\ mainPc = "warm"
    /\ \/ mainPc' = "finally" /\ UNCHANGED bot
       \/ mainPc' = "prompt" /\ bot' \in {"off", "up"}
    /\ UNCHANGED <<asking, abandoned, execVars, workerVars, sessionVars, convVars, handler>>

\* Mutation: the turn lock taken on the main thread around submit.
ReadTaskHoldingLock(t) ==
    /\ mainPc = "prompt"
    /\ lock = "free"
    /\ lock' = "main"
    /\ Submit(t)
    /\ asking' = t
    /\ mainPc' = "awaitTurn"
    /\ UNCHANGED <<abandoned, workerPc, workerJob, sessionVars, convVars, botVars>>

ReadTask(t) ==
    /\ mainPc = "prompt"
    /\ Submit(t)
    /\ asking' = t
    /\ mainPc' = "awaitTurn"
    /\ UNCHANGED <<abandoned, workerVars, sessionVars, convVars, botVars>>

\* "exit", end of input, or an interrupt at the prompt.
ReadExit ==
    /\ mainPc = "prompt"
    /\ mainPc' = "finally"
    /\ UNCHANGED <<asking, abandoned, execVars, workerVars, sessionVars, convVars, botVars>>

AwaitTurn ==
    /\ mainPc = "awaitTurn"
    /\ \/ /\ future[asking] = "ok"
          /\ history' = [history EXCEPT !["repl"] = RecordTurn(@, asking)]
          /\ mainPc' = "prompt"
       \/ /\ future[asking] \in {"SessionExpired", "LoginFailed"}
          /\ mainPc' = "finally"
          /\ UNCHANGED history
       \/ /\ future[asking] = "Error"
          /\ mainPc' = "prompt"
          /\ UNCHANGED history
    /\ UNCHANGED <<asking, abandoned, execVars, workerVars, sessionVars, answered, botVars>>

\* KeyboardInterrupt while main waits or warms the model up: no except clause
\* catches it, so it reaches main()'s finally, or, there, ends the wait for the
\* teardown.
Interrupt ==
    /\ \/ /\ mainPc \in {"awaitStart", "warm", "awaitTurn"}
          /\ mainPc' = "finally"
          /\ UNCHANGED abandoned
       \/ /\ mainPc = "awaitTeardown"
          /\ mainPc' = "shutdown"
          /\ abandoned' = TRUE
    /\ UNCHANGED <<asking, execVars, workerVars, sessionVars, convVars, botVars>>

\* Mutation: the session closed on the main thread, not queued on the executor.
TeardownInline ==
    /\ mainPc = "finally"
    /\ creds' = IF creds = "held" THEN "cleared" ELSE creds
    /\ session' = "closed"
    /\ mainPc' = "shutdown"
    /\ UNCHANGED <<asking, abandoned, execVars, workerVars, playwright, inSession,
                   convVars, botVars>>

\* Mutation: main takes the turn lock and keeps it while the teardown runs.
TeardownHoldingLock ==
    /\ mainPc = "finally"
    /\ lock = "free"
    /\ lock' = "main"
    /\ Submit("teardown")
    /\ mainPc' = "awaitTeardown"
    /\ UNCHANGED <<asking, abandoned, workerPc, workerJob, sessionVars, convVars, botVars>>

SubmitTeardown ==
    /\ mainPc = "finally"
    /\ Submit("teardown")
    /\ mainPc' = "awaitTeardown"
    /\ UNCHANGED <<asking, abandoned, workerVars, sessionVars, convVars, botVars>>

\* Mutation: the teardown submitted but its result not waited for.
TeardownNotAwaited ==
    /\ mainPc = "awaitTeardown"
    /\ mainPc' = "shutdown"
    /\ UNCHANGED <<asking, abandoned, execVars, workerVars, sessionVars, convVars, botVars>>

AwaitTeardown ==
    /\ mainPc = "awaitTeardown"
    /\ future["teardown"] \in Resolved
    /\ mainPc' = "shutdown"
    /\ UNCHANGED <<asking, abandoned, execVars, workerVars, sessionVars, convVars, botVars>>

\* Mutation: the executor is shut down without cancelling what is queued.
ShutdownKeepsQueue ==
    /\ mainPc = "shutdown"
    /\ mainPc' = "joining"
    /\ accepting' = FALSE
    /\ UNCHANGED <<asking, abandoned, queue, future, workerVars, sessionVars, convVars, botVars>>

\* shutdown(wait=False, cancel_futures=True): what is still queued is
\* cancelled, what is running is not.
ShutdownExecutor ==
    /\ mainPc = "shutdown"
    /\ mainPc' = "joining"
    /\ accepting' = FALSE
    /\ queue' = <<>>
    /\ future' = [j \in Jobs |-> IF future[j] = "pending" THEN "cancelled" ELSE future[j]]
    /\ UNCHANGED <<asking, abandoned, workerVars, sessionVars, convVars, botVars>>

\* The interpreter joins the worker thread before the process ends.
ProcessExit ==
    /\ mainPc = "joining"
    /\ workerPc = "idle"
    /\ mainPc' = "gone"
    /\ UNCHANGED <<asking, abandoned, execVars, workerVars, sessionVars, convVars, botVars>>

-----------------------------------------------------------------------------
(* The worker thread.  A cancelled job is passed over.  session.start runs *)
(* without the lock; every other job takes it first.                       *)

EnterSession ==
    /\ workerPc' = "running"
    /\ inSession' = inSession \cup {"worker"}

LeaveSession ==
    /\ workerPc' = "idle"
    /\ inSession' = inSession \ {"worker"}

Dequeue ==
    /\ workerPc = "idle"
    /\ queue # <<>>
    /\ queue' = Tail(queue)
    /\ \/ /\ future[Head(queue)] = "cancelled"
          /\ UNCHANGED <<future, workerPc, workerJob, playwright, inSession>>
       \/ /\ future[Head(queue)] = "pending"
          /\ future' = [future EXCEPT ![Head(queue)] = "running"]
          /\ workerJob' = Head(queue)
          /\ IF Head(queue) = "start"
             THEN EnterSession /\ playwright' = "worker"
             ELSE workerPc' = "wantLock" /\ UNCHANGED <<playwright, inSession>>
    /\ UNCHANGED <<mainVars, accepting, lock, session, creds, convVars, botVars>>

\* Mutation: turns run without the shared lock.
EnterWithoutLock ==
    /\ workerPc = "wantLock"
    /\ EnterSession
    /\ UNCHANGED <<mainVars, execVars, workerJob, lock, playwright, session, creds,
                   convVars, botVars>>

\* Mutation: the lock remembers the job it was taken for, not the thread.
LockForJob ==
    /\ workerPc = "wantLock"
    /\ lock = "free"
    /\ lock' = workerJob
    /\ EnterSession
    /\ UNCHANGED <<mainVars, execVars, workerJob, playwright, session, creds, convVars, botVars>>

AcquireLock ==
    /\ workerPc = "wantLock"
    /\ lock = "free"
    /\ lock' = "worker"
    /\ EnterSession
    /\ UNCHANGED <<mainVars, execVars, workerJob, playwright, session, creds, convVars, botVars>>

Resolve(job, outcome) == future' = [future EXCEPT ![job] = outcome]

\* SessionManager.start: the profile is warm and no credentials are asked for,
\* or it is cold and the login succeeds or not.
FinishStart ==
    /\ workerPc = "running"
    /\ workerJob = "start"
    /\ \E outcome \in {"ok", "LoginFailed", "Error"} :
           /\ Resolve("start", outcome)
           /\ session' = IF outcome = "ok" THEN "open" ELSE "failed"
    /\ creds' \in {"none", "held"}
    /\ LeaveSession
    /\ UNCHANGED <<mainVars, queue, accepting, workerJob, lock, playwright, convVars, botVars>>

\* Mutation: the answer appended to the channel's history but not trimmed.
FinishTurnUntrimmed ==
    /\ workerPc = "running"
    /\ workerJob \in Turns
    /\ \/ /\ Resolve(workerJob, "ok")
          /\ answered' = [answered EXCEPT ![Conversation(workerJob)] = Append(@, workerJob)]
          /\ history' = IF workerJob \in Tasks THEN history
                        ELSE [history EXCEPT ![Conversation(workerJob)] = Append(@, workerJob)]
       \/ /\ \E outcome \in Outcomes \ {"ok"} : Resolve(workerJob, outcome)
          /\ UNCHANGED convVars
    /\ lock' = "free"
    /\ LeaveSession
    /\ UNCHANGED <<mainVars, queue, accepting, workerJob, playwright, session, creds, botVars>>

\* Mutation: the lock acquired and released by hand, so that an exception
\* leaves it held.
FinishTurnKeepingLock ==
    /\ workerPc = "running"
    /\ workerJob \in Turns
    /\ \/ /\ Resolve(workerJob, "ok")
          /\ lock' = "free"
       \/ /\ \E outcome \in Outcomes \ {"ok"} : Resolve(workerJob, outcome)
          /\ UNCHANGED lock
    /\ LeaveSession
    /\ UNCHANGED <<mainVars, queue, accepting, workerJob, playwright, session, creds,
                   convVars, botVars>>

\* _locked_turn and _run_turn around answer_task: the lock is released however
\* the turn ends.  The Discord turn records its history here, on the worker;
\* the REPL turn leaves that to the main thread.
FinishTurn ==
    /\ workerPc = "running"
    /\ workerJob \in Turns
    /\ \/ /\ Resolve(workerJob, "ok")
          /\ answered' = [answered EXCEPT ![Conversation(workerJob)] = Append(@, workerJob)]
          /\ history' = IF workerJob \in Tasks THEN history
                        ELSE [history EXCEPT ![Conversation(workerJob)] =
                                  RecordTurn(@, workerJob)]
       \/ /\ \E outcome \in Outcomes \ {"ok"} : Resolve(workerJob, outcome)
          /\ UNCHANGED convVars
    /\ lock' = "free"
    /\ LeaveSession
    /\ UNCHANGED <<mainVars, queue, accepting, workerJob, playwright, session, creds, botVars>>

\* _teardown: clear_credentials, then close, which may raise part way.
FinishTeardown ==
    /\ workerPc = "running"
    /\ workerJob = "teardown"
    /\ creds' = IF creds = "held" THEN "cleared" ELSE creds
    /\ \/ Resolve("teardown", "ok") /\ session' = "closed"
       \/ Resolve("teardown", "Error") /\ session' = "halfClosed"
    /\ lock' = "free"
    /\ LeaveSession
    /\ UNCHANGED <<mainVars, queue, accepting, workerJob, playwright, convVars, botVars>>

-----------------------------------------------------------------------------
(* The Discord event loop, until the process ends.                         *)

Alive == mainPc # "gone"

ShouldRespond(m) ==
    /\ ~ Info[m].fromBot
    /\ Info[m].author \in Allowlist
    /\ Info[m].isDm \/ Info[m].mentionsBot

Move(m, to) == handler' = [handler EXCEPT ![m] = to]

Receive(m) ==
    /\ Alive
    /\ bot = "up"
    /\ handler[m] = "unseen"
    /\ Move(m, IF ShouldRespond(m) /\ ~ Info[m].blank THEN "typing" ELSE "ignored")
    /\ UNCHANGED <<mainVars, execVars, workerVars, sessionVars, convVars, bot>>

\* typing() is awaited before run_in_executor submits, so two messages can be
\* submitted in another order than they came.  submit raises after shutdown.
SubmitMessage(m) ==
    /\ Alive
    /\ handler[m] = "typing"
    /\ \/ Submit(m) /\ Move(m, "awaiting")
       \/ ~ accepting /\ Move(m, "failed") /\ UNCHANGED execVars
    /\ UNCHANGED <<mainVars, workerVars, sessionVars, convVars, bot>>

TypingFails(m) ==
    /\ Alive
    /\ handler[m] = "typing"
    /\ Move(m, "failed")
    /\ UNCHANGED <<mainVars, execVars, workerVars, sessionVars, convVars, bot>>

\* A cancelled future raises CancelledError, which no except clause catches.
Reply(m) ==
    /\ Alive
    /\ handler[m] = "awaiting"
    /\ future[m] \in Resolved
    /\ Move(m, CASE future[m] = "ok" -> "answered"
                 [] future[m] = "LoginFailed" -> "down"
                 [] future[m] = "cancelled" -> "dropped"
                 [] OTHER -> "failed")
    /\ UNCHANGED <<mainVars, execVars, workerVars, sessionVars, convVars, bot>>

\* Mutation: stopping the bot also marks the turn being answered as cancelled.
BotStopsRunningTurn ==
    /\ Alive
    /\ bot = "up"
    /\ bot' = "down"
    /\ handler' = [m \in Messages |->
                      IF handler[m] \in {"typing", "awaiting"} THEN "dropped" ELSE handler[m]]
    /\ future' = [j \in Jobs |->
                      IF j \in Messages /\ future[j] \in {"pending", "running"}
                      THEN "cancelled" ELSE future[j]]
    /\ UNCHANGED <<mainVars, queue, accepting, workerVars, sessionVars, convVars>>

\* run_discord_bot's finally: every handler task is cancelled, and with it the
\* future it waits for unless that is already running.
BotStops ==
    /\ Alive
    /\ bot = "up"
    /\ bot' = "down"
    /\ handler' = [m \in Messages |->
                      IF handler[m] \in {"typing", "awaiting"} THEN "dropped" ELSE handler[m]]
    /\ future' = [j \in Jobs |->
                      IF j \in Messages /\ future[j] = "pending" THEN "cancelled" ELSE future[j]]
    /\ UNCHANGED <<mainVars, queue, accepting, workerVars, sessionVars, convVars>>

-----------------------------------------------------------------------------
MainNext ==
    \/ SubmitStart \/ AwaitStart \/ WarmModel
    \/ AwaitTurn
    \/ SubmitTeardown \/ AwaitTeardown \/ ShutdownExecutor \/ ProcessExit

WorkerNext == Dequeue \/ AcquireLock \/ FinishStart \/ FinishTurn \/ FinishTeardown

OperatorNext == (\E t \in Tasks : ReadTask(t)) \/ ReadExit \/ Interrupt

DiscordNext ==
    \/ \E m \in Messages : Receive(m) \/ SubmitMessage(m) \/ TypingFails(m) \/ Reply(m)
    \/ BotStops

Next == MainNext \/ WorkerNext \/ OperatorNext \/ DiscordNext

\* The threads keep running and every job ends: HTTP requests, the model and
\* the browser have timeouts and the tool loop is bounded; session.start also
\* relies on the operator answering the password prompt.  Nothing makes an
\* operator type, a message arrive or the bot stop.
Fairness ==
    /\ WF_vars(MainNext)
    /\ WF_vars(WorkerNext)
    /\ \A m \in Messages : WF_vars(SubmitMessage(m)) /\ WF_vars(Reply(m))

Spec == Init /\ [][Next]_vars /\ Fairness

-----------------------------------------------------------------------------
(* Safety.                                                                 *)

\* Sync Playwright is thread-affine: only the thread it was started on is ever
\* inside a session call, and once the session has been started only while it
\* holds the lock the front-ends share.
SessionDiscipline ==
    /\ inSession \subseteq {playwright}
    /\ inSession # {} /\ workerJob # "start" => lock \in inSession

\* A running turn is given exactly the newest turns answered before it in its own
\* conversation, as many as the bounds allow: none missing, none of another
\* channel's, none in another order, and none dropped that would still have
\* fitted, although the REPL's turns are recorded on the main thread and
\* Discord's on the worker.
HistorySeen ==
    workerPc = "running" /\ workerJob \in Turns =>
        LET c == Conversation(workerJob)
        IN  history[c] = LongestFitting(answered[c])

\* When the process has ended, and nobody cut the teardown short, the session
\* is closed (unless closing it raised) and no password is held.
CleanExit ==
    mainPc = "gone" /\ ~ abandoned =>
        /\ creds # "held"
        /\ session = "closed" \/ future["teardown"] = "Error"

\* The session is never closed, and its password never cleared, while a turn
\* of any front-end is being answered.
NoCloseUnderTurn ==
    [][session' # session \/ creds' # creds =>
           \A t \in Turns : future[t] # "running"]_vars

-----------------------------------------------------------------------------
(* Liveness.                                                               *)

\* The REPL gets its prompt back, or leaves: waiting for the worker never
\* deadlocks with a Discord turn that occupies it.
TurnWaitEnds == mainPc = "awaitTurn" ~> mainPc # "awaitTurn"

\* A Discord message whose turn was submitted is settled one way or another.
MessageSettled ==
    \A m \in Messages : handler[m] = "awaiting" ~> handler[m] # "awaiting" \/ ~ Alive

\* Once main() is in its finally the process ends.
ExitReached == mainPc = "finally" ~> mainPc = "gone"

-----------------------------------------------------------------------------
(* The executor as every caller relies on it: SerialTurns.                 *)

JobStatus ==
    [j \in Jobs |-> CASE future[j] = "none" -> "none"
                      [] future[j] = "pending" -> "waiting"
                      [] future[j] = "running" -> "serving"
                      [] future[j] = "cancelled" -> "cancelled"
                      [] OTHER -> "served"]

Serial == INSTANCE SerialTurns WITH line <- queue, status <- JobStatus, open <- accepting

\* Jobs are served one at a time, in the order of their submission, and each is
\* eventually served or cancelled.
ServesSerially == Serial!Spec

-----------------------------------------------------------------------------
(* The executor over the life of the process: TurnLifecycle.               *)

TurnRuns == \E t \in Turns : future[t] = "running"

\* The session is closing from the moment the teardown has run, or main no
\* longer waits for it.
Phase ==
    CASE mainPc \in {"boot", "awaitStart", "warm"} -> "before"
      [] mainPc \in {"prompt", "awaitTurn"} -> "open"
      [] mainPc \in {"finally", "awaitTeardown"} ->
             IF future["teardown"] \in Resolved THEN "closing" ELSE "open"
      [] mainPc = "shutdown" -> "closing"
      [] mainPc = "joining" -> "over"
      [] mainPc = "gone" -> "gone"

Lifecycle == INSTANCE TurnLifecycle WITH phase <- Phase, turn <- TurnRuns, cut <- abandoned

\* No turn begins before the front-ends are up or after the executor was shut
\* down, and main only gets to the shutdown past a running turn when its wait for
\* the teardown was interrupted or the turn was taken up after the teardown.
FollowsLifecycle == Lifecycle!Spec
=============================================================================
