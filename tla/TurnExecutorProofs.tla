------------------------- MODULE TurnExecutorProofs -------------------------
(***************************************************************************)
(* Theorems about TurnExecutor for every set of tasks, messages, channels  *)
(* and every history bound.                                                *)
(***************************************************************************)
EXTENDS TurnExecutor, ConversationProofs

\* A future is running exactly for the job the worker has in hand.
InHand ==
    /\ \A j \in Jobs : future[j] = "running" <=> workerPc # "idle" /\ workerJob = j
    /\ workerPc # "idle" => workerJob \in Jobs
    /\ workerPc = "wantLock" => workerJob # "start"

\* Nothing but the worker enters the session or takes the lock.
Entered ==
    /\ inSession = IF workerPc = "running" THEN {"worker"} ELSE {}
    /\ lock = IF workerPc = "running" /\ workerJob # "start" THEN "worker" ELSE "free"
    /\ workerPc # "idle" => playwright = "worker"

\* The session start is the first job the worker takes up: until Playwright
\* runs it is at the head of the queue, if the executor is in use at all.
StartFirst ==
    /\ mainPc = "boot" => queue = <<>> /\ future["start"] = "none"
    /\ mainPc \in {"boot", "awaitStart", "warm"} => bot = "off"
    /\ bot = "off" => \A m \in Messages : handler[m] = "unseen"
    /\ \/ mainPc = "boot"
       \/ ~ accepting
       \/ playwright = "worker"
       \/ queue # <<>> /\ Head(queue) = "start" /\ future["start"] = "pending"
    /\ future["start"] \in {"none", "pending"} => playwright = "none" /\ workerPc = "idle"
    /\ ~ accepting <=> mainPc \in {"joining", "gone"}
    /\ ~ accepting => queue = <<>>

\* A teardown that was served came after the start and left nothing behind, and
\* main passes it by only after it was served or abandoned.
TeardownLast ==
    /\ future["teardown"] \in {"none", "pending", "running", "cancelled", "ok", "Error"}
    /\ future["teardown"] \in {"ok", "Error"} =>
           /\ future["start"] \notin {"none", "pending", "running"}
           /\ creds # "held"
           /\ session = "closed" \/ future["teardown"] = "Error"
    /\ future["teardown"] = "cancelled" => ~ accepting
    /\ mainPc \in {"shutdown", "joining", "gone"} /\ ~ abandoned =>
           future["teardown"] \in {"ok", "Error"}

\* The REPL waits for a task it read.
Asked == mainPc = "awaitTurn" => asking \in Tasks

IInv == TypeOK /\ Asked /\ InHand /\ Entered /\ StartFirst /\ TeardownLast

-----------------------------------------------------------------------------
\* The executor's two own jobs are jobs like the turns, and neither is a turn.
LEMMA JobTypes ==
    /\ Turns \subseteq Jobs
    /\ Tasks \subseteq Turns
    /\ Messages \subseteq Turns
    /\ "start" \in Jobs /\ "start" \notin Turns
    /\ "teardown" \in Jobs /\ "teardown" \notin Turns
    /\ "none" \notin Tasks
    /\ \A t \in Turns : Conversation(t) \in Conversations
    /\ "repl" \in Conversations
<1>1. /\ Turns \subseteq Jobs
      /\ Tasks \subseteq Turns
      /\ Messages \subseteq Turns
      /\ "start" \in Jobs /\ "start" \notin Turns
      /\ "teardown" \in Jobs /\ "teardown" \notin Turns
      /\ "none" \notin Tasks
  BY TurnExecutorAssumption DEF Jobs
<1>2. "repl" \in Conversations
  BY DEF Conversations
<1>3. ASSUME NEW t \in Turns PROVE Conversation(t) \in Conversations
  <2>1. CASE t \in Tasks
    BY <2>1, <1>2 DEF Conversation
  <2>2. CASE t \notin Tasks
    <3>1. t \in Messages
      BY <2>2, TurnExecutorAssumption
    <3>2. Info[t].channel \in Channels
      BY <3>1, TurnExecutorAssumption
    <3> QED
      BY <2>2, <3>2 DEF Conversation, Conversations
  <2> QED
    BY <2>1, <2>2
<1> QED
  BY <1>1, <1>2, <1>3

\* The process starts in the invariant: nothing queued, running or entered.
LEMMA InitIInv == Init => IInv
<1> SUFFICES ASSUME Init PROVE IInv
  OBVIOUS
<1>1. TypeOK
  <2>1. future \in [Jobs -> FutureState]
    BY DEF Init, FutureState
  <2>2. queue \in Seq(Jobs)
    BY DEF Init
  <2>3. history \in [Conversations -> Seq(Turns)] /\ answered \in [Conversations -> Seq(Turns)]
    BY DEF Init
  <2>4. handler \in [Messages -> HandlerState]
    BY DEF Init, HandlerState
  <2>5. inSession \in SUBSET Threads
    BY DEF Init
  <2> QED
    BY <2>1, <2>2, <2>3, <2>4, <2>5 DEF Init, TypeOK, MainPc
<1>2. Asked /\ InHand /\ Entered
  BY DEF Init, Asked, InHand, Entered
<1>3. StartFirst /\ TeardownLast
  BY JobTypes DEF Init, StartFirst, TeardownLast
<1> QED
  BY <1>1, <1>2, <1>3 DEF IInv

\* Submitting a job and settling one keep the queue and the futures typed.
LEMMA SubmitType ==
    ASSUME TypeOK, NEW job \in Jobs, Submit(job)
    PROVE  /\ queue' \in Seq(Jobs)
           /\ future' \in [Jobs -> FutureState]
           /\ accepting' \in BOOLEAN
  BY DEF TypeOK, Submit, FutureState

\* Every action of the main thread, the worker, the operator and the bot keeps
\* the types.
LEMMA TypeStep ==
    ASSUME TypeOK, Asked, [Next]_vars
    PROVE  TypeOK' /\ Asked'
<1> USE DEF TypeOK, Asked
<1>1. CASE UNCHANGED vars
  BY <1>1 DEF vars, mainVars, execVars, workerVars, sessionVars, convVars, botVars
<1>2. CASE SubmitStart
  BY <1>2, SubmitType, JobTypes DEF SubmitStart, MainPc, workerVars, sessionVars, convVars, botVars
<1>3. CASE AwaitStart
  BY <1>3 DEF AwaitStart, MainPc, execVars, workerVars, sessionVars, convVars, botVars
<1>4. CASE WarmModel
  BY <1>4 DEF WarmModel, MainPc, execVars, workerVars, sessionVars, convVars
<1>5. CASE AwaitTurn
  <2>1. asking \in Turns
    BY <1>5, JobTypes DEF AwaitTurn
  <2>2. history["repl"] \in Seq(Turns)
    BY JobTypes
  <2>3. RecordTurn(history["repl"], asking) \in Seq(Turns)
    BY <2>1, <2>2, RecordTurnType
  <2>4. history' \in [Conversations -> Seq(Turns)]
    BY <1>5, <2>3 DEF AwaitTurn
  <2> QED
    BY <1>5, <2>4 DEF AwaitTurn, MainPc, execVars, workerVars, sessionVars, botVars
<1>6. CASE SubmitTeardown
  BY <1>6, SubmitType, JobTypes DEF SubmitTeardown, MainPc, workerVars, sessionVars, convVars, botVars
<1>7. CASE AwaitTeardown
  BY <1>7 DEF AwaitTeardown, MainPc, execVars, workerVars, sessionVars, convVars, botVars
<1>8. CASE ShutdownExecutor
  <2>1. future' \in [Jobs -> FutureState]
    BY <1>8 DEF ShutdownExecutor, FutureState, Resolved
  <2>2. queue' \in Seq(Jobs)
    BY <1>8 DEF ShutdownExecutor
  <2> QED
    BY <1>8, <2>1, <2>2 DEF ShutdownExecutor, MainPc, workerVars, sessionVars, convVars, botVars
<1>9. CASE ProcessExit
  BY <1>9 DEF ProcessExit, MainPc, execVars, workerVars, sessionVars, convVars, botVars
<1>10. CASE Dequeue
  <2>1. Head(queue) \in Jobs /\ Tail(queue) \in Seq(Jobs)
    BY <1>10, HeadTailProperties DEF Dequeue
  <2>2. playwright' \in Threads \cup {"none"} /\ inSession' \in SUBSET Threads
    BY <1>10 DEF Dequeue, EnterSession, Threads
  <2>3. future' \in [Jobs -> FutureState]
    BY <1>10, <2>1 DEF Dequeue, FutureState
  <2>4. workerJob' \in Jobs \cup {"none"} /\ workerPc' \in {"idle", "wantLock", "running"}
    BY <1>10, <2>1 DEF Dequeue, EnterSession
  <2> QED
    BY <1>10, <2>1, <2>2, <2>3, <2>4 DEF Dequeue, mainVars, convVars, botVars
<1>11. CASE AcquireLock
  BY <1>11 DEF AcquireLock, EnterSession, Threads, mainVars, execVars, convVars, botVars
<1>12. CASE FinishStart
  BY <1>12, JobTypes DEF FinishStart, Resolve, LeaveSession, FutureState, Resolved, Outcomes,
                         mainVars, convVars, botVars
<1>13. CASE FinishTurn
  <2>1. Conversation(workerJob) \in Conversations
    BY <1>13, JobTypes DEF FinishTurn
  <2>2. history[Conversation(workerJob)] \in Seq(Turns)
    BY <2>1
  <2>3. RecordTurn(history[Conversation(workerJob)], workerJob) \in Seq(Turns)
    BY <1>13, <2>2, RecordTurnType DEF FinishTurn
  <2>4. history' \in [Conversations -> Seq(Turns)]
    BY <1>13, <2>3 DEF FinishTurn, convVars
  <2>5. Append(answered[Conversation(workerJob)], workerJob) \in Seq(Turns)
    BY <1>13, <2>1 DEF FinishTurn
  <2>6. answered' \in [Conversations -> Seq(Turns)]
    BY <1>13, <2>5 DEF FinishTurn, convVars
  <2>7. future' \in [Jobs -> FutureState]
    BY <1>13 DEF FinishTurn, Resolve, FutureState, Resolved, Outcomes
  <2> QED
    BY <1>13, <2>4, <2>6, <2>7 DEF FinishTurn, LeaveSession, mainVars, botVars
<1>14. CASE FinishTeardown
  BY <1>14, JobTypes DEF FinishTeardown, Resolve, LeaveSession, FutureState, Resolved, Outcomes,
                         mainVars, convVars, botVars
<1>15. ASSUME NEW t \in Tasks, ReadTask(t) PROVE TypeOK' /\ Asked'
  BY <1>15, SubmitType, JobTypes DEF ReadTask, MainPc, workerVars, sessionVars, convVars, botVars
<1>16. CASE ReadExit
  BY <1>16 DEF ReadExit, MainPc, execVars, workerVars, sessionVars, convVars, botVars
<1>17. CASE Interrupt
  <2>1. mainPc' \in {"finally", "shutdown"} /\ mainPc' \in MainPc
    BY <1>17 DEF Interrupt, MainPc
  <2>2. abandoned' \in BOOLEAN
    BY <1>17 DEF Interrupt
  <2> QED
    BY <1>17, <2>1, <2>2 DEF Interrupt, execVars, workerVars, sessionVars, convVars, botVars
<1>18. ASSUME NEW m \in Messages, Receive(m) PROVE TypeOK' /\ Asked'
  BY <1>18 DEF Receive, Move, HandlerState, mainVars, execVars, workerVars, sessionVars, convVars
<1>19. ASSUME NEW m \in Messages, SubmitMessage(m) PROVE TypeOK' /\ Asked'
  <2>1. handler' \in [Messages -> HandlerState]
    BY <1>19 DEF SubmitMessage, Move, HandlerState
  <2> QED
    BY <1>19, <2>1, SubmitType, JobTypes DEF SubmitMessage, execVars, mainVars, workerVars, sessionVars, convVars
<1>20. ASSUME NEW m \in Messages, TypingFails(m) PROVE TypeOK' /\ Asked'
  BY <1>20 DEF TypingFails, Move, HandlerState, mainVars, execVars, workerVars, sessionVars, convVars
<1>21. ASSUME NEW m \in Messages, Reply(m) PROVE TypeOK' /\ Asked'
  <2>1. handler' \in [Messages -> HandlerState]
    BY <1>21 DEF Reply, Move, HandlerState
  <2> QED
    BY <1>21, <2>1 DEF Reply, mainVars, execVars, workerVars, sessionVars, convVars
<1>22. CASE BotStops
  BY <1>22 DEF BotStops, HandlerState, FutureState, Resolved, mainVars, workerVars, sessionVars, convVars
<1> QED
  BY <1>1, <1>2, <1>3, <1>4, <1>5, <1>6, <1>7, <1>8, <1>9, <1>10, <1>11, <1>12, <1>13, <1>14,
     <1>15, <1>16, <1>17, <1>18, <1>19, <1>20, <1>21, <1>22
     DEF Next, MainNext, WorkerNext, OperatorNext, DiscordNext

-----------------------------------------------------------------------------
\* Between Dequeue and the worker's Finish actions the job in hand is running,
\* and no other.
LEMMA InHandStep ==
    ASSUME IInv, [Next]_vars
    PROVE  InHand'
<1> USE DEF IInv, TypeOK, InHand
<1>1. CASE UNCHANGED <<future, workerPc, workerJob>>
  BY <1>1
<1>2. ASSUME NEW job \in Jobs, Submit(job), UNCHANGED <<workerPc, workerJob>> PROVE InHand'
  BY <1>2 DEF Submit
<1>3. CASE ShutdownExecutor
  BY <1>3 DEF ShutdownExecutor, workerVars
<1>4. CASE BotStops
  BY <1>4 DEF BotStops, workerVars
<1>5. CASE Dequeue
  <2>1. Head(queue) \in Jobs
    BY <1>5, HeadTailProperties DEF Dequeue
  <2>2. \A j \in Jobs : future[j] # "running"
    BY <1>5 DEF Dequeue
  <2> QED
    BY <1>5, <2>1, <2>2 DEF Dequeue, EnterSession
<1>6. CASE AcquireLock
  BY <1>6 DEF AcquireLock, EnterSession, execVars
<1>7. CASE FinishStart
  BY <1>7 DEF FinishStart, Resolve, LeaveSession
<1>8. CASE FinishTurn
  <2>1. \E outcome \in Outcomes : Resolve(workerJob, outcome)
    BY <1>8 DEF FinishTurn, Outcomes
  <2> QED
    BY <1>8, <2>1 DEF FinishTurn, Resolve, LeaveSession, Outcomes
<1>9. CASE FinishTeardown
  BY <1>9 DEF FinishTeardown, Resolve, LeaveSession
<1>10. CASE SubmitStart \/ SubmitTeardown \/ \E t \in Tasks : ReadTask(t)
  BY <1>10, <1>2, JobTypes DEF SubmitStart, SubmitTeardown, ReadTask, workerVars
<1>11. ASSUME NEW m \in Messages, SubmitMessage(m) PROVE InHand'
  BY <1>11, <1>1, <1>2, JobTypes DEF SubmitMessage, execVars, workerVars
<1>12. CASE \/ AwaitStart \/ WarmModel \/ AwaitTurn \/ AwaitTeardown \/ ProcessExit
            \/ ReadExit \/ Interrupt
            \/ \E m \in Messages : Receive(m) \/ TypingFails(m) \/ Reply(m)
            \/ UNCHANGED vars
  <2>1. UNCHANGED <<future, workerPc, workerJob>>
    BY <1>12 DEF AwaitStart, WarmModel, AwaitTurn, AwaitTeardown, ProcessExit, ReadExit,
                 Interrupt, Receive, TypingFails, Reply, vars, execVars, workerVars
  <2> QED
    BY <2>1, <1>1
<1> QED
  BY <1>3, <1>4, <1>5, <1>6, <1>7, <1>8, <1>9, <1>10, <1>11, <1>12
     DEF Next, MainNext, WorkerNext, OperatorNext, DiscordNext

\* Only Dequeue, AcquireLock and the Finish actions touch the lock or enter and
\* leave the session, and they do both on the worker.
LEMMA EnteredStep ==
    ASSUME IInv, [Next]_vars
    PROVE  Entered'
<1> USE DEF IInv, TypeOK, InHand, Entered
<1>1. CASE Dequeue
  <2>1. Head(queue) \in Jobs
    BY <1>1, HeadTailProperties DEF Dequeue
  <2>2. queue # <<>> /\ workerPc = "idle" /\ UNCHANGED lock
    BY <1>1 DEF Dequeue
  <2>3. playwright # "worker" => Head(queue) = "start" /\ future["start"] = "pending"
    BY <2>2, JobTypes DEF StartFirst
  <2>4. CASE future[Head(queue)] = "cancelled"
    BY <1>1, <2>2, <2>4 DEF Dequeue
  <2>5. CASE future[Head(queue)] = "pending" /\ Head(queue) = "start"
    BY <1>1, <2>2, <2>5 DEF Dequeue, EnterSession
  <2>6. CASE future[Head(queue)] = "pending" /\ Head(queue) # "start"
    BY <1>1, <2>2, <2>3, <2>6 DEF Dequeue
  <2> QED
    BY <1>1, <2>4, <2>5, <2>6 DEF Dequeue
<1>2. CASE AcquireLock
  BY <1>2 DEF AcquireLock, EnterSession, execVars
<1>3. CASE FinishStart
  BY <1>3 DEF FinishStart, LeaveSession
<1>4. CASE FinishTurn
  BY <1>4 DEF FinishTurn, LeaveSession
<1>5. CASE FinishTeardown
  BY <1>5 DEF FinishTeardown, LeaveSession
<1>6. CASE MainNext \/ OperatorNext \/ DiscordNext \/ UNCHANGED vars
  <2>1. UNCHANGED <<inSession, lock, playwright, workerPc, workerJob>>
    BY <1>6 DEF MainNext, OperatorNext, DiscordNext, SubmitStart, AwaitStart, WarmModel,
                AwaitTurn, SubmitTeardown, AwaitTeardown, ShutdownExecutor, ProcessExit,
                ReadTask, ReadExit, Interrupt, Receive, SubmitMessage, TypingFails, Reply,
                BotStops, vars, workerVars, sessionVars
  <2> QED
    BY <2>1
<1> QED
  BY <1>1, <1>2, <1>3, <1>4, <1>5, <1>6 DEF Next, WorkerNext

\* What is at the head of the queue stays there when a job is submitted.
LEMMA SubmitKeepsHead ==
    ASSUME TypeOK, NEW job \in Jobs, Submit(job), queue # <<>>
    PROVE  queue' # <<>> /\ Head(queue') = Head(queue)
  BY HeadTailProperties, AppendProperties DEF TypeOK, Submit

\* Until the worker takes the start up nothing can get ahead of it, and after
\* that Playwright belongs to the worker.
LEMMA StartFirstStep ==
    ASSUME IInv, [Next]_vars
    PROVE  StartFirst'
<1> USE DEF IInv, TypeOK, StartFirst
<1>1. CASE UNCHANGED vars
  BY <1>1 DEF vars, mainVars, execVars, workerVars, sessionVars, botVars
<1>2. CASE SubmitStart
  <2>1. queue' = <<"start">>
    BY <1>2 DEF SubmitStart, Submit
  <2>2. future'["start"] = "pending" /\ accepting
    BY <1>2, JobTypes DEF SubmitStart, Submit
  <2>3. /\ accepting' /\ mainPc' = "awaitStart"
        /\ UNCHANGED <<playwright, workerPc, bot, handler>>
    BY <1>2, <2>2 DEF SubmitStart, Submit, workerVars, sessionVars, botVars
  <2>4. queue' # <<>> /\ Head(queue') = "start"
    BY <2>1
  <2> QED
    BY <1>2, <2>2, <2>3, <2>4 DEF SubmitStart
<1>3. ASSUME NEW job \in Jobs, job # "start", Submit(job), mainPc # "boot",
             UNCHANGED <<playwright, workerPc, bot>>,
             mainPc' \notin {"boot", "joining", "gone"},
             mainPc' \in {"awaitStart", "warm"} => UNCHANGED mainPc,
             bot = "off" => UNCHANGED handler
      PROVE  StartFirst'
  <2>1. future'["start"] = future["start"]
    BY <1>3, JobTypes DEF Submit
  <2>2. accepting /\ accepting'
    BY <1>3 DEF Submit
  <2>3. CASE playwright = "worker"
    BY <1>3, <2>1, <2>2, <2>3
  <2>4. CASE queue # <<>> /\ Head(queue) = "start" /\ future["start"] = "pending"
    BY <1>3, <2>1, <2>2, <2>4, SubmitKeepsHead
  <2> QED
    BY <1>3, <2>2, <2>3, <2>4
<1>4. CASE SubmitTeardown \/ \E t \in Tasks : ReadTask(t)
  BY <1>4, <1>3, JobTypes DEF SubmitTeardown, ReadTask, workerVars, sessionVars, botVars
<1>5. ASSUME NEW m \in Messages, SubmitMessage(m) PROVE StartFirst'
  <2>1. handler[m] = "typing" /\ bot # "off" /\ mainPc # "boot"
    BY <1>5 DEF SubmitMessage
  <2>2. CASE Submit(m)
    <3>1. UNCHANGED mainPc /\ mainPc' \notin {"boot", "joining", "gone"}
      BY <1>5, <2>1, <2>2 DEF SubmitMessage, Submit, mainVars
    <3>2. m \in Jobs /\ m # "start"
      BY JobTypes
    <3> QED
      BY <1>5, <2>1, <2>2, <3>1, <3>2, <1>3
         DEF SubmitMessage, mainVars, workerVars, sessionVars
  <2>3. CASE UNCHANGED execVars
    BY <1>5, <2>1, <2>3 DEF SubmitMessage, mainVars, execVars, workerVars, sessionVars
  <2> QED
    BY <1>5, <2>2, <2>3 DEF SubmitMessage
<1>6. CASE ShutdownExecutor
  BY <1>6, JobTypes DEF ShutdownExecutor, workerVars, sessionVars, botVars
<1>7. CASE BotStops
  <2>1. future'["start"] = future["start"]
    BY <1>7, JobTypes DEF BotStops
  <2> QED
    BY <1>7, <2>1 DEF BotStops, mainVars, workerVars, sessionVars
<1>8. CASE Dequeue
  <2>1. queue # <<>> /\ workerPc = "idle" /\ Head(queue) \in Jobs
    BY <1>8, HeadTailProperties DEF Dequeue
  <2>2. UNCHANGED <<mainPc, accepting, bot, handler>>
    BY <1>8 DEF Dequeue, mainVars, botVars
  <2>3. mainPc # "boot" /\ accepting
    BY <2>1
  <2>4. playwright' = "worker"
    BY <1>8, <2>1, <2>3 DEF Dequeue
  <2>5. future'["start"] \notin {"none", "pending"}
    <3>1. CASE playwright = "worker"
      BY <1>8, <2>1, <3>1, JobTypes DEF Dequeue
    <3>2. CASE Head(queue) = "start" /\ future["start"] = "pending"
      BY <1>8, <3>2, JobTypes DEF Dequeue
    <3> QED
      BY <2>1, <2>3, <3>1, <3>2
  <2> QED
    BY <2>2, <2>3, <2>4, <2>5
<1>9. CASE AcquireLock
  BY <1>9 DEF AcquireLock, mainVars, execVars, botVars
<1>10. CASE FinishStart \/ FinishTurn \/ FinishTeardown
  <2>1. workerPc = "running" /\ future["start"] \notin {"none", "pending"}
    BY <1>10 DEF FinishStart, FinishTurn, FinishTeardown
  <2>2. \E outcome \in Outcomes : Resolve(workerJob, outcome)
    BY <1>10 DEF FinishStart, FinishTurn, FinishTeardown, Outcomes
  <2>3. future'["start"] \notin {"none", "pending"}
    BY <2>1, <2>2, JobTypes DEF Resolve, Outcomes
  <2>4. UNCHANGED <<mainPc, queue, accepting, playwright, bot, handler>>
    BY <1>10 DEF FinishStart, FinishTurn, FinishTeardown, mainVars, botVars
  <2> QED
    BY <2>1, <2>3, <2>4, JobTypes
<1>11. CASE AwaitStart \/ AwaitTurn \/ AwaitTeardown \/ ProcessExit \/ ReadExit \/ Interrupt
  <2>1. UNCHANGED <<queue, future, accepting, playwright, workerPc, bot, handler>>
    BY <1>11 DEF AwaitStart, AwaitTurn, AwaitTeardown, ProcessExit, ReadExit, Interrupt,
                 execVars, workerVars, sessionVars, botVars
  <2>2. /\ mainPc # "boot" /\ mainPc' # "boot"
        /\ mainPc' = "warm" => mainPc = "awaitStart"
        /\ mainPc' # "awaitStart"
        /\ mainPc' \in {"joining", "gone"} <=> mainPc \in {"joining", "gone"}
    BY <1>11 DEF AwaitStart, AwaitTurn, AwaitTeardown, ProcessExit, ReadExit, Interrupt
  <2> QED
    BY <2>1, <2>2
<1>12. CASE WarmModel
  <2>1. /\ UNCHANGED <<queue, future, accepting, playwright, workerPc, handler>>
        /\ mainPc = "warm" /\ mainPc' \in {"finally", "prompt"}
    BY <1>12 DEF WarmModel, execVars, workerVars, sessionVars
  <2> QED
    BY <2>1
<1>13. ASSUME NEW m \in Messages, Receive(m) \/ TypingFails(m) \/ Reply(m) PROVE StartFirst'
  <2>1. UNCHANGED <<mainPc, queue, future, accepting, playwright, workerPc, bot>>
    BY <1>13 DEF Receive, TypingFails, Reply, mainVars, execVars, workerVars, sessionVars
  <2>2. bot # "off"
    BY <1>13 DEF Receive, TypingFails, Reply
  <2> QED
    BY <2>1, <2>2
<1> QED
  BY <1>1, <1>2, <1>4, <1>5, <1>6, <1>7, <1>8, <1>9, <1>10, <1>11, <1>12, <1>13
     DEF Next, MainNext, WorkerNext, OperatorNext, DiscordNext

\* The outcome of the teardown, and what it left, stand once it was served.
LEMMA TeardownLastStep ==
    ASSUME IInv, [Next]_vars
    PROVE  TeardownLast'
<1> USE DEF IInv, TypeOK, TeardownLast
<1>1. CASE UNCHANGED vars
  BY <1>1 DEF vars, mainVars, execVars, sessionVars
<1>3. CASE SubmitStart
  BY <1>3, JobTypes DEF SubmitStart, Submit, sessionVars
<1>4. CASE SubmitTeardown
  BY <1>4, JobTypes DEF SubmitTeardown, Submit, sessionVars
<1>5. ASSUME NEW turn \in Turns, Submit(turn), UNCHANGED <<session, creds, abandoned>>,
             mainPc' \in {"shutdown", "joining", "gone"} => UNCHANGED mainPc
      PROVE  TeardownLast'
  <2>1. UNCHANGED <<future["start"], future["teardown"], accepting>>
    BY <1>5, JobTypes DEF Submit
  <2> QED
    BY <1>5, <2>1
<1>6. CASE \E t \in Tasks : ReadTask(t)
  BY <1>6, <1>5, JobTypes DEF ReadTask, sessionVars
<1>7. ASSUME NEW m \in Messages, SubmitMessage(m) PROVE TeardownLast'
  BY <1>7, <1>5, JobTypes DEF SubmitMessage, mainVars, execVars, sessionVars
<1>8. CASE AwaitTeardown
  <2>1. accepting /\ future["teardown"] \in {"ok", "Error"}
    BY <1>8 DEF AwaitTeardown, Resolved, Outcomes, StartFirst
  <2> QED
    BY <1>8, <2>1 DEF AwaitTeardown, execVars, sessionVars
<1>9. CASE ShutdownExecutor
  BY <1>9, JobTypes DEF ShutdownExecutor, sessionVars
<1>10. CASE BotStops
  <2>1. UNCHANGED <<future["start"], future["teardown"]>>
    BY <1>10, JobTypes DEF BotStops
  <2> QED
    BY <1>10, <2>1 DEF BotStops, mainVars, sessionVars
<1>11. CASE Dequeue
  <2>1. Head(queue) \in Jobs
    BY <1>11, HeadTailProperties DEF Dequeue
  <2>2. UNCHANGED <<mainPc, abandoned, accepting, session, creds>>
    BY <1>11 DEF Dequeue, mainVars
  <2>3. \/ UNCHANGED future
        \/ /\ future[Head(queue)] = "pending"
           /\ future' = [future EXCEPT ![Head(queue)] = "running"]
    BY <1>11 DEF Dequeue
  <2>4. /\ future["start"] \notin {"none", "pending", "running"} => UNCHANGED future["start"]
        /\ \/ UNCHANGED future["teardown"]
           \/ future["teardown"] = "pending" /\ future'["teardown"] = "running"
        /\ future["start"] = "running" => future'["start"] = "running"
    BY <2>1, <2>3, JobTypes
  <2> QED
    BY <2>2, <2>4
<1>12. CASE AcquireLock
  BY <1>12 DEF AcquireLock, mainVars, execVars
<1>13. CASE FinishStart
  <2>1. future["start"] = "running"
    BY <1>13, JobTypes DEF FinishStart, InHand
  <2>2. UNCHANGED <<future["teardown"], mainPc, abandoned, accepting>>
    BY <1>13, JobTypes DEF FinishStart, Resolve, mainVars
  <2> QED
    BY <2>1, <2>2
<1>14. CASE FinishTurn
  <2>1. \E outcome \in Outcomes : Resolve(workerJob, outcome)
    BY <1>14 DEF FinishTurn, Outcomes
  <2>2. UNCHANGED <<future["start"], future["teardown"]>>
    BY <1>14, <2>1, JobTypes DEF FinishTurn, Resolve
  <2> QED
    BY <1>14, <2>2 DEF FinishTurn, mainVars
<1>15. CASE FinishTeardown
  <2>1. future["start"] \notin {"none", "pending", "running"}
    BY <1>15, JobTypes DEF FinishTeardown, InHand, StartFirst
  <2>2. UNCHANGED <<future["start"], mainPc, abandoned, accepting>>
    BY <1>15, JobTypes DEF FinishTeardown, Resolve, mainVars
  <2>3. creds' # "held"
    BY <1>15 DEF FinishTeardown
  <2>4. \/ future'["teardown"] = "ok" /\ session' = "closed"
        \/ future'["teardown"] = "Error"
    BY <1>15, JobTypes DEF FinishTeardown, Resolve
  <2> QED
    BY <2>1, <2>2, <2>3, <2>4
<1>16. CASE \/ AwaitStart \/ WarmModel \/ AwaitTurn \/ ProcessExit \/ ReadExit \/ Interrupt
            \/ \E m \in Messages : Receive(m) \/ TypingFails(m) \/ Reply(m)
  <2>1. UNCHANGED <<future, accepting, session, creds>>
    BY <1>16 DEF AwaitStart, WarmModel, AwaitTurn, ProcessExit, ReadExit, Interrupt,
                 Receive, TypingFails, Reply, execVars, sessionVars
  <2>2. mainPc' \in {"shutdown", "joining", "gone"} /\ ~ abandoned' =>
            mainPc \in {"shutdown", "joining", "gone"} /\ ~ abandoned
    BY <1>16 DEF AwaitStart, WarmModel, AwaitTurn, ProcessExit, ReadExit, Interrupt,
                 Receive, TypingFails, Reply, mainVars
  <2> QED
    BY <2>1, <2>2
<1> QED
  BY <1>1, <1>3, <1>4, <1>6, <1>7, <1>8, <1>9, <1>10, <1>11, <1>12, <1>13, <1>14, <1>15, <1>16
     DEF Next, MainNext, WorkerNext, OperatorNext, DiscordNext

-----------------------------------------------------------------------------
\* IInv holds in every state of every behaviour.
THEOREM Inductive == Spec => []IInv
<1>1. Init => IInv
  BY InitIInv
<1>2. IInv /\ [Next]_vars => IInv'
  BY TypeStep, InHandStep, EnteredStep, StartFirstStep, TeardownLastStep DEF IInv
<1> QED
  BY <1>1, <1>2, PTL DEF Spec

\* The state of the process keeps its types: in particular every history stays
\* a sequence of turns whatever trim_history drops from it.
THEOREM TypeCorrect == Spec => []TypeOK
<1>1. IInv => TypeOK
  BY DEF IInv
<1> QED
  BY <1>1, Inductive, PTL

\* For every set of tasks and messages, only the thread sync Playwright was
\* started on is ever inside the session, and after the start only while it
\* holds the turn lock.
THEOREM Disciplined == Spec => []SessionDiscipline
<1>1. IInv => SessionDiscipline
  BY DEF IInv, Entered, SessionDiscipline
<1> QED
  BY <1>1, Inductive, PTL

\* Whatever is queued, in flight or interrupted when main() reaches its finally,
\* unless the wait for the teardown was cut short the process ends with the
\* session closed, or its close having raised, and with no password held.
THEOREM ExitsClean == Spec => []CleanExit
<1>1. IInv => CleanExit
  BY DEF IInv, TeardownLast, CleanExit
<1> QED
  BY <1>1, Inductive, PTL

\* The session changes hands, and the password goes, only between turns.
THEOREM ClosedBetweenTurns == Spec => NoCloseUnderTurn
<1> DEFINE A == session' # session \/ creds' # creds =>
                    \A t \in Turns : future[t] # "running"
<1>1. IInv /\ [Next]_vars => [A]_vars
  <2> SUFFICES ASSUME IInv, Next, session' # session \/ creds' # creds,
                      NEW t \in Turns
               PROVE  future[t] # "running"
    BY DEF vars
  <2>1. FinishStart \/ FinishTeardown
    BY DEF Next, MainNext, WorkerNext, OperatorNext, DiscordNext, SubmitStart, AwaitStart,
           WarmModel, AwaitTurn, SubmitTeardown, AwaitTeardown, ShutdownExecutor, ProcessExit,
           Dequeue, AcquireLock, FinishTurn, ReadTask, ReadExit, Interrupt, Receive,
           SubmitMessage, TypingFails, Reply, BotStops, sessionVars
  <2>2. workerJob \notin Turns
    BY <2>1, JobTypes DEF FinishStart, FinishTeardown
  <2> QED
    BY <2>2, JobTypes DEF IInv, InHand
<1>2. Spec => [][A]_vars
  BY <1>1, Inductive, PTL DEF Spec
<1> QED
  BY <1>2 DEF NoCloseUnderTurn

-----------------------------------------------------------------------------
\* A task that waits for the worker or runs is the one the REPL last asked, and the
\* REPL does not prompt for another.
OneAsked ==
    \A t \in Tasks : future[t] \in {"pending", "running"} =>
        t = asking /\ mainPc \notin {"boot", "awaitStart", "warm", "prompt"}

\* The REPL's history is up to date when the next turn could be given it.
ReplUpToDate ==
    \/ mainPc \in {"boot", "awaitStart", "warm", "prompt"}
    \/ mainPc = "awaitTurn" /\ future[asking] # "ok"
    \/ asking \in Tasks /\ future[asking] \in {"pending", "running"}

\* A channel's history is the trimmed record of its answers; the REPL's is so but
\* for the answer that the main thread has yet to record.
Recorded ==
    /\ \A c \in Channels : history[c] = TrimHistory(answered[c])
    /\ ReplUpToDate => history["repl"] = TrimHistory(answered["repl"])
    /\ mainPc = "awaitTurn" /\ future[asking] = "ok" =>
           RecordTurn(history["repl"], asking) = TrimHistory(answered["repl"])

LEMMA RecordedInit == Init => OneAsked /\ Recorded
<1> SUFFICES ASSUME Init PROVE OneAsked /\ Recorded
  OBVIOUS
<1>1. TrimHistory(<<>>) = <<>>
  <2>1. <<>> \in Seq(Turns) /\ Len(<<>>) = 0
    OBVIOUS
  <2>2. PICK k \in 1 .. Len(<<>>) + 1 : TrimHistory(<<>>) = Newest(<<>>, k)
    BY <2>1, TrimHistoryFits
  <2>3. Newest(<<>>, k) \in Seq(Turns) /\ Len(Newest(<<>>, k)) = Len(<<>>) - k + 1
    BY <2>1, NewestType
  <2>4. Len(Newest(<<>>, k)) = 0
    BY <2>1, <2>2, <2>3
  <2> QED BY <2>2, <2>3, <2>4
<1>2. OneAsked
  BY JobTypes DEF Init, OneAsked
<1>3. Recorded
  BY <1>1, JobTypes DEF Init, Recorded, Conversations
<1> QED BY <1>2, <1>3

LEMMA OneAskedStep ==
    ASSUME IInv, OneAsked, [Next]_vars
    PROVE  OneAsked'
<1> USE DEF OneAsked, IInv, TypeOK
<1>1. CASE UNCHANGED <<future, asking, mainPc>>
  BY <1>1
<1>2. ASSUME NEW job \in Jobs \ Tasks, Submit(job), UNCHANGED asking,
             mainPc' = mainPc \/ mainPc' \notin {"boot", "awaitStart", "warm", "prompt"}
                              \/ mainPc = "boot"
      PROVE  OneAsked'
  <2>1. \A t \in Tasks : future'[t] = future[t]
    BY <1>2, JobTypes DEF Submit
  <2> QED BY <1>2, <2>1
<1>3. CASE SubmitStart
  BY <1>3, <1>2, JobTypes DEF SubmitStart
<1>4. CASE AwaitStart
  BY <1>4 DEF AwaitStart, execVars
<1>5. CASE WarmModel
  BY <1>5 DEF WarmModel, execVars
<1>6. CASE AwaitTurn
  BY <1>6 DEF AwaitTurn, execVars
<1>7. CASE SubmitTeardown
  BY <1>7, <1>2, JobTypes DEF SubmitTeardown
<1>8. CASE AwaitTeardown
  BY <1>8 DEF AwaitTeardown, execVars
<1>9. CASE ShutdownExecutor
  BY <1>9, JobTypes DEF ShutdownExecutor
<1>10. CASE ProcessExit
  BY <1>10 DEF ProcessExit, execVars
<1>11. CASE Dequeue
  <2>1. Head(queue) \in Jobs
    BY <1>11, HeadTailProperties DEF Dequeue
  <2> QED BY <1>11, <2>1, JobTypes DEF Dequeue, mainVars
<1>12. CASE AcquireLock
  BY <1>12 DEF AcquireLock, mainVars, execVars
<1>13. ASSUME NEW job \in Jobs, NEW outcome \in Outcomes, Resolve(job, outcome), UNCHANGED mainVars
       PROVE  OneAsked'
  <2>1. \A t \in Tasks : future'[t] \in {future[t], outcome}
    BY <1>13, JobTypes DEF Resolve
  <2> QED BY <1>13, <2>1 DEF mainVars, Outcomes
<1>14. CASE FinishStart
  BY <1>14, <1>13, JobTypes DEF FinishStart, Outcomes
<1>15. CASE FinishTurn
  BY <1>15, <1>13, JobTypes DEF FinishTurn, Outcomes
<1>16. CASE FinishTeardown
  BY <1>16, <1>13, JobTypes DEF FinishTeardown, Outcomes
<1>17. ASSUME NEW t \in Tasks, ReadTask(t) PROVE OneAsked'
  <2>1. \A s \in Tasks : future[s] \notin {"pending", "running"}
    BY <1>17 DEF ReadTask
  <2>2. \A s \in Tasks : s # t => future'[s] = future[s]
    BY <1>17, JobTypes DEF ReadTask, Submit
  <2> QED BY <1>17, <2>1, <2>2 DEF ReadTask
<1>18. CASE ReadExit
  BY <1>18 DEF ReadExit, execVars
<1>19. CASE Interrupt
  BY <1>19 DEF Interrupt, execVars
<1>20. ASSUME NEW m \in Messages, Receive(m) \/ TypingFails(m) \/ Reply(m) PROVE OneAsked'
  BY <1>20 DEF Receive, TypingFails, Reply, mainVars, execVars
<1>21. ASSUME NEW m \in Messages, SubmitMessage(m) PROVE OneAsked'
  <2>1. m \in Jobs \ Tasks
    BY JobTypes, TurnExecutorAssumption
  <2> QED BY <1>21, <1>2, <2>1 DEF SubmitMessage, mainVars, execVars
<1>22. CASE BotStops
  BY <1>22, JobTypes DEF BotStops, mainVars
<1>23. CASE UNCHANGED vars
  BY <1>23 DEF vars, mainVars, execVars
<1> QED
  BY <1>3, <1>4, <1>5, <1>6, <1>7, <1>8, <1>9, <1>10, <1>11, <1>12, <1>14, <1>15, <1>16,
     <1>17, <1>18, <1>19, <1>20, <1>21, <1>22, <1>23
     DEF Next, MainNext, WorkerNext, OperatorNext, DiscordNext

\* A step that leaves the conversations alone, and moves the REPL and the future of
\* its task so that nothing new is promised of them.
LEMMA RecordedKept ==
    ASSUME Recorded, UNCHANGED convVars, ReplUpToDate' => ReplUpToDate,
           mainPc' = "awaitTurn" /\ future'[asking'] = "ok" =>
               mainPc = "awaitTurn" /\ future[asking] = "ok" /\ asking' = asking
    PROVE  Recorded'
BY DEF Recorded, convVars

\* The worker answers the task of the REPL, or a message.
LEMMA RecordedTurn ==
    ASSUME IInv, OneAsked, Recorded, FinishTurn
    PROVE  Recorded'
<1>1. /\ workerPc = "running" /\ workerJob \in Turns /\ workerJob \in Jobs
      /\ future[workerJob] = "running" /\ UNCHANGED <<mainPc, asking>>
      /\ future \in [Jobs -> FutureState]
      /\ history \in [Conversations -> Seq(Turns)] /\ answered \in [Conversations -> Seq(Turns)]
  BY JobTypes DEF FinishTurn, IInv, TypeOK, InHand, mainVars
<1> DEFINE c == Conversation(workerJob)
<1>2. c \in Conversations /\ answered[c] \in Seq(Turns)
  BY <1>1, JobTypes
<1>3. RecordTurn(TrimHistory(answered[c]), workerJob) = TrimHistory(Append(answered[c], workerJob))
  BY <1>1, <1>2, RecordTrimmed
<1>4. "repl" \in Conversations /\ Channels \subseteq Conversations /\ "repl" \notin Channels
  BY TurnExecutorAssumption DEF Conversations
<1>5. CASE workerJob \in Tasks
  <2>1. /\ workerJob = asking /\ mainPc \notin {"boot", "awaitStart", "warm", "prompt"}
        /\ c = "repl"
    BY <1>1, <1>5 DEF OneAsked, Conversation
  <2>2. history["repl"] = TrimHistory(answered["repl"])
    BY <1>1, <1>5, <2>1 DEF Recorded, ReplUpToDate
  <2>3. CASE Resolve(workerJob, "ok") /\ history' = history
             /\ answered' = [answered EXCEPT ![c] = Append(@, workerJob)]
    <3>1. future'[asking] = "ok"
      BY <1>1, <2>1, <2>3 DEF Resolve
    <3>2. ~ ReplUpToDate'
      BY <1>1, <2>1, <3>1 DEF ReplUpToDate
    <3>3. \A d \in Channels : history'[d] = history[d] /\ answered'[d] = answered[d]
      BY <1>1, <1>4, <2>1, <2>3
    <3>4. answered'["repl"] = Append(answered["repl"], workerJob) /\ history'["repl"] = history["repl"]
      BY <1>1, <1>4, <2>1, <2>3
    <3>5. RecordTurn(history'["repl"], asking') = TrimHistory(answered'["repl"])
      BY <1>1, <1>3, <2>1, <2>2, <3>4
    <3> QED BY <3>2, <3>3, <3>5 DEF Recorded
  <2>4. CASE (\E outcome \in Outcomes \ {"ok"} : Resolve(workerJob, outcome)) /\ UNCHANGED convVars
    <3>1. future'[asking] # "ok"
      BY <1>1, <2>1, <2>4 DEF Resolve
    <3>2. ReplUpToDate
      BY <1>1, <1>5, <2>1 DEF ReplUpToDate
    <3> QED BY <1>1, <2>4, <3>1, <3>2, RecordedKept
  <2> QED BY <1>5, <2>3, <2>4 DEF FinishTurn
<1>6. CASE workerJob \notin Tasks
  <2>1. c \in Channels /\ c # "repl"
    BY <1>1, <1>4, <1>6, TurnExecutorAssumption DEF Conversation
  <2>2. mainPc = "awaitTurn" => asking \in Tasks
    BY DEF IInv, Asked
  <2>3. \A t \in Tasks : future'[t] = future[t]
    BY <1>1, <1>6, JobTypes DEF FinishTurn, Resolve
  <2>4. /\ ReplUpToDate' <=> ReplUpToDate
        /\ mainPc' = "awaitTurn" => future'[asking'] = future[asking]
    BY <1>1, <2>2, <2>3 DEF ReplUpToDate
  <2>5. CASE history' = [history EXCEPT ![c] = RecordTurn(@, workerJob)]
             /\ answered' = [answered EXCEPT ![c] = Append(@, workerJob)]
    <3>1. history'[c] = TrimHistory(answered'[c])
      BY <1>1, <1>2, <1>3, <2>1, <2>5 DEF Recorded
    <3>2. \A d \in Conversations : d # c => history'[d] = history[d] /\ answered'[d] = answered[d]
      BY <1>1, <2>5
    <3>3. \A d \in Channels : history'[d] = TrimHistory(answered'[d])
      BY <1>4, <3>1, <3>2 DEF Recorded
    <3>4. history'["repl"] = history["repl"] /\ answered'["repl"] = answered["repl"]
      BY <1>4, <2>1, <3>2
    <3> QED BY <1>1, <2>4, <3>3, <3>4 DEF Recorded
  <2>6. CASE UNCHANGED convVars
    BY <1>1, <2>4, <2>6, RecordedKept
  <2> QED BY <1>6, <2>5, <2>6 DEF FinishTurn
<1> QED BY <1>5, <1>6

LEMMA RecordedStep ==
    ASSUME IInv, OneAsked, Recorded, [Next]_vars
    PROVE  Recorded'
<1>0. /\ future \in [Jobs -> FutureState] /\ history \in [Conversations -> Seq(Turns)]
      /\ mainPc = "awaitTurn" => asking \in Tasks
  BY DEF IInv, TypeOK, Asked
<1>1. ASSUME UNCHANGED <<mainPc, asking, future>>, UNCHANGED convVars PROVE Recorded'
  BY <1>1, RecordedKept DEF ReplUpToDate
<1>2. ASSUME UNCHANGED mainVars, UNCHANGED convVars,
             \A t \in Tasks : \/ future'[t] = future[t]
                              \/ future[t] = "pending" /\ future'[t] = "running"
      PROVE  Recorded'
  BY <1>0, <1>2, RecordedKept DEF ReplUpToDate, mainVars
<1>3. ASSUME UNCHANGED convVars, UNCHANGED asking,
             mainPc' \notin {"boot", "awaitStart", "warm", "prompt", "awaitTurn"},
             \A t \in Tasks : future'[t] \in {"pending", "running"} => future'[t] = future[t]
      PROVE  Recorded'
  BY <1>3, RecordedKept DEF ReplUpToDate
<1>4. ASSUME NEW job \in Jobs \ Tasks, NEW outcome, future' = [future EXCEPT ![job] = outcome]
      PROVE  \A t \in Tasks : future'[t] = future[t]
  BY <1>0, <1>4, JobTypes
<1>5. CASE SubmitStart \/ AwaitStart \/ WarmModel
  <2>1. mainPc \in {"boot", "awaitStart", "warm"} /\ mainPc' # "awaitTurn" /\ UNCHANGED convVars
    BY <1>5 DEF SubmitStart, AwaitStart, WarmModel
  <2> QED BY <2>1, RecordedKept DEF ReplUpToDate
<1>6. CASE AwaitTurn
  <2>1. mainPc = "awaitTurn" /\ UNCHANGED <<asking, future, answered>> /\ "repl" \in Conversations
        /\ mainPc' \in {"prompt", "finally"}
    BY <1>6, JobTypes DEF AwaitTurn, execVars
  <2>2. CASE future[asking] = "ok" /\ history' = [history EXCEPT !["repl"] = RecordTurn(@, asking)]
    <3>1. history'["repl"] = TrimHistory(answered'["repl"])
      BY <1>0, <2>1, <2>2 DEF Recorded
    <3>2. \A c \in Channels : history'[c] = history[c]
      BY <1>0, <2>2, TurnExecutorAssumption DEF Conversations
    <3> QED BY <2>1, <3>1, <3>2 DEF Recorded
  <2>3. CASE future[asking] # "ok" /\ UNCHANGED history
    BY <2>1, <2>3 DEF Recorded, ReplUpToDate
  <2> QED BY <1>6, <2>2, <2>3 DEF AwaitTurn
<1>7. CASE SubmitTeardown
  BY <1>7, <1>3, <1>4, JobTypes DEF SubmitTeardown, Submit
<1>8. CASE AwaitTeardown \/ ProcessExit \/ ReadExit
  BY <1>8, <1>3 DEF AwaitTeardown, ProcessExit, ReadExit, execVars
<1>9. CASE ShutdownExecutor
  BY <1>9, <1>3, JobTypes DEF ShutdownExecutor
<1>10. CASE Interrupt
  BY <1>10, <1>3 DEF Interrupt, execVars
<1>11. CASE Dequeue
  <2>1. Head(queue) \in Jobs
    BY <1>11, HeadTailProperties DEF Dequeue, IInv, TypeOK
  <2>2. UNCHANGED mainVars /\ UNCHANGED convVars
    BY <1>11 DEF Dequeue
  <2>3. \A t \in Tasks : \/ future'[t] = future[t]
                         \/ future[t] = "pending" /\ future'[t] = "running"
    BY <1>0, <1>11, <2>1, JobTypes DEF Dequeue
  <2> QED BY <2>2, <2>3, <1>2
<1>12. CASE AcquireLock
  BY <1>12, <1>1 DEF AcquireLock, mainVars, execVars
<1>13. CASE FinishStart
  <2>1. UNCHANGED mainVars /\ UNCHANGED convVars /\ "start" \in Jobs \ Tasks
    BY <1>13, JobTypes DEF FinishStart
  <2>2. \A t \in Tasks : future'[t] = future[t]
    BY <1>13, <1>4, <2>1 DEF FinishStart, Resolve
  <2> QED BY <2>1, <2>2, <1>2
<1>14. CASE FinishTurn
  BY <1>14, RecordedTurn
<1>15. CASE FinishTeardown
  <2>1. UNCHANGED mainVars /\ UNCHANGED convVars /\ "teardown" \in Jobs \ Tasks
    BY <1>15, JobTypes DEF FinishTeardown
  <2>2. \A t \in Tasks : future'[t] = future[t]
    BY <1>15, <1>4, <2>1 DEF FinishTeardown, Resolve
  <2> QED BY <2>1, <2>2, <1>2
<1>16. ASSUME NEW t \in Tasks, ReadTask(t) PROVE Recorded'
  <2>1. mainPc = "prompt" /\ asking' = t /\ future'[t] = "pending" /\ UNCHANGED convVars
    BY <1>0, <1>16, JobTypes DEF ReadTask, Submit
  <2> QED BY <2>1, RecordedKept DEF ReplUpToDate
<1>17. ASSUME NEW m \in Messages, Receive(m) \/ TypingFails(m) \/ Reply(m) PROVE Recorded'
  BY <1>17, <1>1 DEF Receive, TypingFails, Reply, mainVars, execVars
<1>18. ASSUME NEW m \in Messages, SubmitMessage(m) PROVE Recorded'
  <2>1. m \in Jobs \ Tasks
    BY JobTypes, TurnExecutorAssumption
  <2>2. UNCHANGED mainVars /\ UNCHANGED convVars
    BY <1>18 DEF SubmitMessage
  <2>3. \A t \in Tasks : future'[t] = future[t]
    BY <1>18, <1>4, <2>1 DEF SubmitMessage, Submit, execVars
  <2> QED BY <2>2, <2>3, <1>2
<1>19. CASE BotStops
  <2>1. \A t \in Tasks : future'[t] = future[t]
    BY <1>0, <1>19, JobTypes, TurnExecutorAssumption DEF BotStops
  <2>2. UNCHANGED mainVars /\ UNCHANGED convVars
    BY <1>19 DEF BotStops
  <2> QED BY <2>1, <2>2, <1>2
<1>20. CASE UNCHANGED vars
  BY <1>20, <1>1 DEF vars, mainVars, execVars
<1> QED
  BY <1>5, <1>6, <1>7, <1>8, <1>9, <1>10, <1>11, <1>12, <1>13, <1>14, <1>15, <1>16,
     <1>17, <1>18, <1>19, <1>20
     DEF Next, MainNext, WorkerNext, OperatorNext, DiscordNext

\* A turn is given exactly the trimmed record of the answers before it in its
\* own conversation, however the two front-ends' turns interleave and whatever
\* is interrupted: for every bound of the history and any lengths of its turns.
THEOREM HistoryComplete == Spec => []HistorySeen
<1>1. IInv /\ OneAsked /\ Recorded => HistorySeen
  <2> SUFFICES ASSUME IInv, OneAsked, Recorded, workerPc = "running", workerJob \in Turns
               PROVE  history[Conversation(workerJob)] = LongestFitting(answered[Conversation(workerJob)])
    BY DEF HistorySeen
  <2>1. future[workerJob] = "running"
    BY JobTypes DEF IInv, InHand
  <2>2. answered[Conversation(workerJob)] \in Seq(Turns)
    BY JobTypes DEF IInv, TypeOK
  <2>3. TrimHistory(answered[Conversation(workerJob)]) = LongestFitting(answered[Conversation(workerJob)])
    BY <2>2, TrimIsLongest
  <2>4. CASE workerJob \in Tasks
    <3>1. Conversation(workerJob) = "repl" /\ workerJob = asking
      BY <2>1, <2>4 DEF OneAsked, Conversation
    <3>2. ReplUpToDate
      BY <2>1, <2>4, <3>1 DEF ReplUpToDate
    <3> QED BY <2>3, <3>1, <3>2 DEF Recorded
  <2>5. CASE workerJob \notin Tasks
    <3>1. Conversation(workerJob) \in Channels
      BY <2>5, TurnExecutorAssumption DEF Conversation
    <3> QED BY <2>3, <3>1 DEF Recorded
  <2> QED BY <2>4, <2>5
<1>2. Spec => [](IInv /\ OneAsked /\ Recorded)
  <2>1. IInv /\ OneAsked /\ Recorded /\ [Next]_vars => (OneAsked /\ Recorded)'
    BY OneAskedStep, RecordedStep
  <2> QED BY <2>1, RecordedInit, Inductive, PTL DEF Spec
<1> QED BY <1>1, <1>2, PTL

-----------------------------------------------------------------------------
\* What a caller sees of a job is determined by its future.
LEMMA StatusOfFuture ==
    ASSUME TypeOK
    PROVE  /\ \A j \in Jobs :
                  /\ future[j] = "none" => JobStatus[j] = "none"
                  /\ future[j] = "pending" <=> JobStatus[j] = "waiting"
                  /\ future[j] = "running" <=> JobStatus[j] = "serving"
                  /\ future[j] = "cancelled" => JobStatus[j] = "cancelled"
                  /\ future[j] \in Outcomes => JobStatus[j] = "served"
           /\ DOMAIN JobStatus = Jobs
           /\ JobStatus = [j \in Jobs |-> JobStatus[j]]
  BY DEF TypeOK, FutureState, Resolved, Outcomes, JobStatus

\* Changing one future changes what is seen of that job only.
LEMMA StatusUpdate ==
    ASSUME TypeOK, NEW job \in Jobs,
           \A j \in Jobs \ {job} : future'[j] = future[j]
    PROVE  JobStatus' = [JobStatus EXCEPT ![job] = JobStatus'[job]]
  BY DEF JobStatus

\* Every step of the process is a step of the serial server or leaves what it
\* shows unchanged.
LEMMA SerialStep ==
    ASSUME IInv, IInv', [Next]_vars
    PROVE  [Serial!Next]_(Serial!vars)
<1> DEFINE Step == [Serial!Next]_(Serial!vars)
<1>t. TypeOK /\ TypeOK'
  BY DEF IInv
<1>1. ASSUME NEW job \in Jobs, Submit(job) PROVE Step
  <2>1. future[job] = "none" /\ future' = [future EXCEPT ![job] = "pending"]
    BY <1>1 DEF Submit
  <2>2. JobStatus[job] = "none"
    BY <1>t, <2>1, StatusOfFuture
  <2>3. future'[job] = "pending" /\ \A j \in Jobs \ {job} : future'[j] = future[j]
    BY <1>t, <2>1 DEF TypeOK
  <2>4. JobStatus'[job] = "waiting"
    BY <2>3 DEF JobStatus
  <2>5. JobStatus' = [JobStatus EXCEPT ![job] = "waiting"]
    BY <1>t, <2>3, <2>4, StatusUpdate
  <2>6. Serial!Accept(job)
    BY <1>1, <2>2, <2>5 DEF Submit, Serial!Accept
  <2> QED
    BY <2>6 DEF Serial!Next
<1>2. CASE UNCHANGED <<queue, future, accepting>>
  <2>1. JobStatus' = JobStatus
    BY <1>2 DEF JobStatus
  <2> QED
    BY <1>2, <2>1 DEF Serial!vars
<1>3. CASE ShutdownExecutor
  <2>1. accepting
    BY <1>3 DEF ShutdownExecutor, IInv, StartFirst
  <2>2. JobStatus' = [j \in Jobs |-> IF JobStatus[j] = "waiting" THEN "cancelled"
                                                             ELSE JobStatus[j]]
    <3>1. \A j \in Jobs : future'[j] = IF future[j] = "pending" THEN "cancelled" ELSE future[j]
      BY <1>3 DEF ShutdownExecutor
    <3>2. \A j \in Jobs : JobStatus'[j] = IF JobStatus[j] = "waiting" THEN "cancelled"
                                                                    ELSE JobStatus[j]
      BY <3>1 DEF JobStatus
    <3> QED
      BY <3>2 DEF JobStatus
  <2>3. Serial!Close
    BY <1>3, <2>1, <2>2 DEF ShutdownExecutor, Serial!Close
  <2> QED
    BY <2>3 DEF Serial!Next
<1>4. CASE BotStops
  <2> DEFINE withdrawn == {m \in Messages : future[m] = "pending"}
  <2>1. withdrawn \in SUBSET {j \in Jobs : JobStatus[j] = "waiting"}
    BY <1>t, JobTypes, StatusOfFuture
  <2>2. \A j \in Jobs : future'[j] = IF j \in withdrawn THEN "cancelled" ELSE future[j]
    BY <1>4 DEF BotStops
  <2>3. \A j \in Jobs : JobStatus'[j] = IF j \in withdrawn THEN "cancelled" ELSE JobStatus[j]
    BY <2>2 DEF JobStatus
  <2>4. JobStatus' = [j \in Jobs |-> IF j \in withdrawn THEN "cancelled" ELSE JobStatus[j]]
    BY <2>3 DEF JobStatus
  <2>5. Serial!Withdraw
    BY <1>4, <2>1, <2>4 DEF BotStops, Serial!Withdraw
  <2> QED
    BY <2>5 DEF Serial!Next
<1>5. CASE Dequeue
  <2> DEFINE job == Head(queue)
  <2>1. queue # <<>> /\ queue' = Tail(queue) /\ job \in Jobs /\ UNCHANGED accepting
    BY <1>5, <1>t, HeadTailProperties DEF Dequeue, TypeOK
  <2>2. ~ Serial!Busy
    BY <1>5, <1>t, StatusOfFuture DEF Dequeue, IInv, InHand, Serial!Busy
  <2>3. CASE future[job] = "cancelled"
    <3>1. future' = future
      BY <1>5, <2>3 DEF Dequeue
    <3>2. JobStatus' = JobStatus /\ JobStatus[job] # "waiting"
      BY <1>t, <2>1, <2>3, <3>1, StatusOfFuture DEF JobStatus
    <3>3. JobStatus' = [JobStatus EXCEPT ![job] = IF @ = "waiting" THEN "serving" ELSE @]
      BY <2>1, <3>2, <1>t, StatusOfFuture
    <3>4. Serial!TakeUp
      BY <2>1, <2>2, <3>3 DEF Serial!TakeUp
    <3> QED
      BY <3>4 DEF Serial!Next
  <2>4. CASE future[job] = "pending"
    <3>1. future' = [future EXCEPT ![job] = "running"]
      BY <1>5, <2>4 DEF Dequeue
    <3>2. future'[job] = "running" /\ \A j \in Jobs \ {job} : future'[j] = future[j]
      BY <1>t, <2>1, <3>1 DEF TypeOK
    <3>3. JobStatus[job] = "waiting" /\ JobStatus'[job] = "serving"
      BY <1>t, <2>1, <2>4, <3>2, StatusOfFuture DEF JobStatus
    <3>4. JobStatus' = [JobStatus EXCEPT ![job] = "serving"]
      BY <1>t, <2>1, <3>2, <3>3, StatusUpdate
    <3>5. JobStatus' = [JobStatus EXCEPT ![job] = IF @ = "waiting" THEN "serving" ELSE @]
      BY <3>3, <3>4
    <3>6. Serial!TakeUp
      BY <2>1, <2>2, <3>5 DEF Serial!TakeUp
    <3> QED
      BY <3>6 DEF Serial!Next
  <2> QED
    BY <1>5, <2>3, <2>4 DEF Dequeue
<1>6. CASE FinishStart \/ FinishTurn \/ FinishTeardown
  <2>1. workerJob \in Jobs /\ future[workerJob] = "running"
    BY <1>6 DEF IInv, InHand, FinishStart, FinishTurn, FinishTeardown
  <2>2. UNCHANGED <<queue, accepting>>
    BY <1>6 DEF FinishStart, FinishTurn, FinishTeardown
  <2>3. \E outcome \in Outcomes : Resolve(workerJob, outcome)
    BY <1>6 DEF FinishStart, FinishTurn, FinishTeardown, Outcomes
  <2>4. future'[workerJob] \in Outcomes
        /\ \A j \in Jobs \ {workerJob} : future'[j] = future[j]
    BY <1>t, <2>1, <2>3 DEF TypeOK, Resolve
  <2>5. JobStatus[workerJob] = "serving"
    BY <1>t, <2>1, StatusOfFuture
  <2>6. JobStatus'[workerJob] = "served"
    BY <2>1, <2>4 DEF JobStatus, Outcomes
  <2>7. JobStatus' = [JobStatus EXCEPT ![workerJob] = "served"]
    BY <1>t, <2>1, <2>4, <2>6, StatusUpdate
  <2>8. Serial!Complete(workerJob)
    BY <2>2, <2>5, <2>7 DEF Serial!Complete
  <2> QED
    BY <2>1, <2>8 DEF Serial!Next
<1>7. CASE SubmitStart \/ SubmitTeardown \/ \E t \in Tasks : ReadTask(t)
  BY <1>7, <1>1, JobTypes DEF SubmitStart, SubmitTeardown, ReadTask
<1>8. ASSUME NEW m \in Messages, SubmitMessage(m) PROVE Step
  BY <1>8, <1>1, <1>2, JobTypes DEF SubmitMessage, execVars
<1>9. CASE \/ AwaitStart \/ WarmModel \/ AwaitTurn \/ AwaitTeardown \/ ProcessExit
           \/ ReadExit \/ Interrupt \/ AcquireLock
           \/ \E m \in Messages : Receive(m) \/ TypingFails(m) \/ Reply(m)
           \/ UNCHANGED vars
  <2>1. UNCHANGED <<queue, future, accepting>>
    BY <1>9 DEF AwaitStart, WarmModel, AwaitTurn, AwaitTeardown, ProcessExit, ReadExit,
                Interrupt, AcquireLock, Receive, TypingFails, Reply, vars, execVars
  <2> QED
    BY <2>1, <1>2
<1> QED
  BY <1>3, <1>4, <1>5, <1>6, <1>7, <1>8, <1>9
     DEF Next, MainNext, WorkerNext, OperatorNext, DiscordNext

\* Threads, lock, interrupts and the two front-ends together never show a caller
\* anything but jobs served one at a time in the order they were submitted: the
\* safety part of ServesSerially, for any number of jobs.
THEOREM SerialSafety == Spec => Serial!Init /\ [][Serial!Next]_(Serial!vars)
<1>1. Init => Serial!Init
  <2> SUFFICES ASSUME Init PROVE Serial!Init
    OBVIOUS
  <2>1. \A j \in Jobs : future[j] = "none"
    BY DEF Init
  <2>2. JobStatus = [j \in Jobs |-> "none"]
    BY <2>1 DEF JobStatus
  <2> QED
    BY <2>2 DEF Init, Serial!Init
<1>2. IInv /\ IInv' /\ [Next]_vars => [Serial!Next]_(Serial!vars)
  BY SerialStep
<1> QED
  BY <1>1, <1>2, Inductive, PTL DEF Spec
-----------------------------------------------------------------------------
\* No turn is asked for before the front-ends are up, and no teardown before they
\* are left.
Before == {"boot", "awaitStart", "warm"}
Left == {"awaitTeardown", "shutdown", "joining", "gone"}

Ordered ==
    /\ mainPc \in Before => \A t \in Turns : future[t] = "none"
    /\ mainPc \notin Left => future["teardown"] = "none"

LEMMA OrderedStep ==
    ASSUME IInv, Ordered, [Next]_vars
    PROVE  Ordered'
<1> USE DEF Ordered, Before, Left, IInv, TypeOK
<1>1. CASE UNCHANGED vars
  BY <1>1 DEF vars, mainVars, execVars
<1>2. CASE SubmitStart
  BY <1>2, JobTypes DEF SubmitStart, Submit
<1>3. CASE AwaitStart \/ WarmModel \/ AwaitTurn \/ AwaitTeardown \/ ProcessExit \/ ReadExit
           \/ Interrupt \/ AcquireLock
           \/ \E m \in Messages : Receive(m) \/ TypingFails(m) \/ Reply(m)
  <2>1. UNCHANGED future
    BY <1>3 DEF AwaitStart, WarmModel, AwaitTurn, AwaitTeardown, ProcessExit, ReadExit, Interrupt,
       AcquireLock, Receive, TypingFails, Reply, execVars
  <2>2. /\ mainPc' \in Before => mainPc \in Before
        /\ mainPc' \notin Left => mainPc \notin Left
    BY <1>3 DEF AwaitStart, WarmModel, AwaitTurn, AwaitTeardown, ProcessExit, ReadExit, Interrupt,
       AcquireLock, Receive, TypingFails, Reply, mainVars
  <2> QED BY <2>1, <2>2
<1>4. CASE SubmitTeardown \/ \E t \in Tasks : ReadTask(t)
  BY <1>4, JobTypes DEF SubmitTeardown, ReadTask, Submit
<1>5. ASSUME NEW m \in Messages, SubmitMessage(m) PROVE Ordered'
  <2>1. mainPc \notin Before
    BY <1>5 DEF SubmitMessage, StartFirst
  <2> QED BY <1>5, <2>1, JobTypes DEF SubmitMessage, Submit, mainVars, execVars
<1>6. CASE ShutdownExecutor
  BY <1>6 DEF ShutdownExecutor
<1>7. CASE BotStops
  BY <1>7, JobTypes DEF BotStops, mainVars
<1>8. CASE Dequeue
  <2>1. queue # <<>> /\ Head(queue) \in Jobs
    BY <1>8, HeadTailProperties DEF Dequeue
  <2> QED BY <1>8, <2>1, JobTypes DEF Dequeue, mainVars
<1>9. CASE FinishStart \/ FinishTurn \/ FinishTeardown
  <2>1. workerJob \in Jobs /\ future[workerJob] = "running" /\ UNCHANGED mainPc
    BY <1>9, JobTypes DEF FinishStart, FinishTurn, FinishTeardown, InHand, mainVars
  <2>2. \E outcome \in Outcomes : Resolve(workerJob, outcome)
    BY <1>9 DEF FinishStart, FinishTurn, FinishTeardown, Outcomes
  <2> QED BY <2>1, <2>2, JobTypes DEF Resolve
<1> QED
  BY <1>1, <1>2, <1>3, <1>4, <1>5, <1>6, <1>7, <1>8, <1>9
     DEF Next, MainNext, WorkerNext, OperatorNext, DiscordNext

\* The phase at each place of main, and that a turn runs when it is in hand.
PhaseMap ==
    /\ mainPc \in Before => Phase = "before"
    /\ mainPc \in {"prompt", "awaitTurn"} => Phase = "open"
    /\ mainPc \in {"finally", "awaitTeardown"} =>
           Phase = IF future["teardown"] \in Resolved THEN "closing" ELSE "open"
    /\ mainPc = "shutdown" => Phase = "closing"
    /\ mainPc = "joining" => Phase = "over"
    /\ mainPc = "gone" => Phase = "gone"
    /\ TurnRuns \in BOOLEAN
    /\ TurnRuns <=> workerPc # "idle" /\ workerJob \in Turns

LEMMA PhaseIs == IInv => PhaseMap
<1> SUFFICES ASSUME IInv PROVE PhaseMap
  OBVIOUS
<1>1. TurnRuns <=> workerPc # "idle" /\ workerJob \in Turns
  BY JobTypes DEF IInv, InHand, TurnRuns
<1>2. TurnRuns \in BOOLEAN
  BY Zenon DEF TurnRuns
<1> QED BY <1>1, <1>2 DEF PhaseMap, Phase, Before

\* Every step of the process is one that TurnLifecycle lets it take, or none that it
\* can see.
LEMMA LifecycleStep ==
    ASSUME IInv, IInv', Ordered, [Next]_vars
    PROVE  [Lifecycle!Next]_(Lifecycle!vars)
<1>1. PhaseMap /\ PhaseMap'
  BY PhaseIs, PTL
<1>2. abandoned \in BOOLEAN /\ mainPc \in MainPc
  BY DEF IInv, TypeOK
<1>t. "teardown" \in Jobs /\ "start" \in Jobs /\ "teardown" \notin Turns /\ "start" \notin Turns
  BY JobTypes
<1>3. ASSUME Phase' = Phase, TurnRuns' = TurnRuns, abandoned' = abandoned
      PROVE  [Lifecycle!Next]_(Lifecycle!vars)
  BY <1>3 DEF Lifecycle!vars
<1>4. ASSUME UNCHANGED <<workerPc, workerJob>>
      PROVE  TurnRuns' = TurnRuns
  BY <1>1, <1>4 DEF PhaseMap
<1>5. ASSUME UNCHANGED mainPc, future'["teardown"] = future["teardown"]
      PROVE  Phase' = Phase
  BY <1>5 DEF Phase
<1>6. CASE UNCHANGED vars
  BY <1>3, <1>4, <1>5, <1>6 DEF vars, mainVars, execVars, workerVars
\* main.
<1>7. CASE SubmitStart \/ \E t \in Tasks : ReadTask(t)
  <2>1. Phase' = Phase
    BY <1>1, <1>7 DEF PhaseMap, SubmitStart, ReadTask, Before
  <2> QED BY <1>3, <1>4, <1>7, <2>1 DEF SubmitStart, ReadTask, workerVars
<1>8. CASE AwaitStart \/ WarmModel \/ AwaitTurn \/ ReadExit \/ (Interrupt /\ mainPc # "awaitTeardown")
  <2>1. /\ UNCHANGED <<future, workerPc, workerJob, abandoned>>
        /\ mainPc \in {"awaitStart", "warm", "prompt", "awaitTurn"}
        /\ mainPc' \in {"warm", "prompt", "finally"}
        /\ mainPc' = "warm" => mainPc = "awaitStart"
    BY <1>8 DEF AwaitStart, WarmModel, AwaitTurn, ReadExit, Interrupt, execVars, workerVars
  <2>2. future["teardown"] \notin Resolved
    BY <2>1 DEF Ordered, Left, Resolved, Outcomes
  <2>3. Phase \in {"before", "open"} /\ Phase' \in {Phase, "open"}
    BY <1>1, <2>1, <2>2 DEF PhaseMap, Before
  <2>4. TurnRuns' = TurnRuns
    BY <1>4, <2>1
  <2>5. CASE Phase' = Phase
    BY <1>3, <2>1, <2>4, <2>5
  <2>6. CASE Phase' # Phase
    <3>1. Lifecycle!Open
      BY <2>1, <2>3, <2>4, <2>6 DEF Lifecycle!Open
    <3> QED BY <3>1 DEF Lifecycle!Next
  <2> QED BY <2>5, <2>6
<1>9. CASE SubmitTeardown
  <2>1. future["teardown"] = "none" /\ future'["teardown"] = "pending"
    BY <1>9, <1>t DEF SubmitTeardown, Submit, IInv, TypeOK
  <2>2. Phase' = Phase
    BY <1>1, <1>9, <2>1 DEF PhaseMap, SubmitTeardown, Resolved, Outcomes
  <2> QED BY <1>3, <1>4, <1>9, <2>2 DEF SubmitTeardown, workerVars
<1>10. CASE AwaitTeardown
  <2>1. Phase' = Phase
    BY <1>1, <1>10 DEF PhaseMap, AwaitTeardown
  <2> QED BY <1>3, <1>4, <1>10, <2>1 DEF AwaitTeardown, workerVars
<1>11. CASE Interrupt /\ mainPc = "awaitTeardown"
  <2>1. Phase \in {"open", "closing"} /\ Phase' = "closing" /\ abandoned' = TRUE
    BY <1>1, <1>11 DEF PhaseMap, Interrupt
  <2>2. TurnRuns' = TurnRuns
    BY <1>4, <1>11 DEF Interrupt, workerVars
  <2>3. Lifecycle!Leave \/ Lifecycle!CutShort
    BY <2>1, <2>2 DEF Lifecycle!Leave, Lifecycle!CutShort
  <2> QED BY <2>3 DEF Lifecycle!Next
<1>12. CASE ShutdownExecutor
  <2>1. Phase = "closing" /\ Phase' = "over" /\ abandoned' = abandoned
    BY <1>1, <1>12 DEF PhaseMap, ShutdownExecutor
  <2>2. TurnRuns' = TurnRuns
    BY <1>4, <1>12 DEF ShutdownExecutor, workerVars
  <2>3. Lifecycle!Shutdown
    BY <2>1, <2>2 DEF Lifecycle!Shutdown
  <2> QED BY <2>3 DEF Lifecycle!Next
<1>13. CASE ProcessExit
  <2>1. Phase = "over" /\ Phase' = "gone" /\ abandoned' = abandoned /\ ~ TurnRuns
    BY <1>1, <1>13 DEF PhaseMap, ProcessExit
  <2>2. TurnRuns' = TurnRuns
    BY <1>4, <1>13 DEF ProcessExit, workerVars
  <2>3. Lifecycle!End
    BY <2>1, <2>2 DEF Lifecycle!End
  <2> QED BY <2>3 DEF Lifecycle!Next
\* The worker.
<1>14. CASE Dequeue
  <2>1. queue # <<>> /\ Head(queue) \in Jobs /\ workerPc = "idle" /\ UNCHANGED <<mainPc, abandoned>>
    BY <1>14, HeadTailProperties DEF Dequeue, IInv, TypeOK, mainVars
  <2>2. ~ TurnRuns
    BY <1>1, <2>1 DEF PhaseMap
  <2>3. Phase' = Phase
    <3>1. future'["teardown"] \in Resolved <=> future["teardown"] \in Resolved
      BY <1>14, <1>t, <2>1 DEF Dequeue, IInv, TypeOK, Resolved, Outcomes
    <3> QED BY <1>1, <1>2, <2>1, <3>1 DEF PhaseMap, MainPc, Before
  <2>4. CASE TurnRuns'
    <3>1. workerJob' \in Turns /\ workerPc' # "idle"
      BY <1>1, <2>4 DEF PhaseMap
    <3>2. Head(queue) \in Turns /\ future[Head(queue)] = "pending"
      BY <1>14, <2>1, <3>1 DEF Dequeue
    <3>3. mainPc \notin Before /\ mainPc \notin {"joining", "gone"}
      BY <2>1, <3>2 DEF Ordered, IInv, StartFirst
    <3>4. Phase \in {"open", "closing"}
      BY <1>1, <1>2, <3>3 DEF PhaseMap, MainPc, Before
    <3>5. Lifecycle!BeginTurn
      BY <1>1, <2>1, <2>2, <2>3, <2>4, <3>4 DEF Lifecycle!BeginTurn, PhaseMap
    <3> QED BY <3>5 DEF Lifecycle!Next
  <2>5. CASE ~ TurnRuns'
    <3>1. TurnRuns' = TurnRuns
      BY <1>1, <2>2, <2>5 DEF PhaseMap
    <3> QED BY <1>3, <2>1, <2>3, <3>1
  <2> QED BY <2>4, <2>5
<1>15. CASE AcquireLock
  <2>1. TurnRuns' = TurnRuns
    BY <1>1, <1>15 DEF PhaseMap, AcquireLock, EnterSession
  <2> QED BY <1>3, <1>5, <1>15, <2>1 DEF AcquireLock, mainVars, execVars
<1>16. CASE FinishStart
  <2>1. ~ TurnRuns /\ ~ TurnRuns'
    BY <1>1, <1>16, <1>t DEF PhaseMap, FinishStart, LeaveSession
  <2>2. future'["teardown"] = future["teardown"]
    BY <1>16, <1>t DEF FinishStart, Resolve, IInv, TypeOK
  <2>3. TurnRuns' = TurnRuns
    BY <1>1, <2>1 DEF PhaseMap
  <2> QED BY <1>3, <1>5, <1>16, <2>2, <2>3 DEF FinishStart, mainVars
<1>17. CASE FinishTurn
  <2>1. TurnRuns /\ ~ TurnRuns' /\ UNCHANGED <<mainPc, abandoned>>
    BY <1>1, <1>17 DEF PhaseMap, FinishTurn, LeaveSession, mainVars
  <2>2. future'["teardown"] = future["teardown"]
    BY <1>17, <1>t DEF FinishTurn, Resolve, IInv, TypeOK
  <2>3. Lifecycle!EndTurn
    BY <1>1, <1>5, <2>1, <2>2 DEF Lifecycle!EndTurn, PhaseMap
  <2> QED BY <2>3 DEF Lifecycle!Next
<1>18. CASE FinishTeardown
  <2>1. ~ TurnRuns /\ ~ TurnRuns' /\ UNCHANGED <<mainPc, abandoned>>
    BY <1>1, <1>18, <1>t DEF PhaseMap, FinishTeardown, LeaveSession, mainVars
  <2>2. TurnRuns' = TurnRuns
    BY <1>1, <2>1 DEF PhaseMap
  <2>3. future["teardown"] = "running" /\ future'["teardown"] \in Resolved
    BY <1>18, <1>t DEF FinishTeardown, Resolve, IInv, TypeOK, InHand, Resolved, Outcomes
  <2>4. mainPc \in Left
    BY <2>3 DEF Ordered
  <2>5. Phase' = Phase \/ (Phase = "open" /\ Phase' = "closing")
    BY <1>1, <2>1, <2>3, <2>4 DEF PhaseMap, Left, Resolved, Outcomes
  <2>6. CASE Phase' = Phase
    BY <1>3, <2>1, <2>2, <2>6
  <2>7. CASE Phase = "open" /\ Phase' = "closing"
    <3>1. Lifecycle!Leave
      BY <2>1, <2>2, <2>7 DEF Lifecycle!Leave
    <3> QED BY <3>1 DEF Lifecycle!Next
  <2> QED BY <2>5, <2>6, <2>7
\* The bot.
<1>19. ASSUME NEW m \in Messages, Receive(m) \/ SubmitMessage(m) \/ TypingFails(m) \/ Reply(m)
       PROVE  [Lifecycle!Next]_(Lifecycle!vars)
  <2>1. UNCHANGED <<mainPc, abandoned, workerPc, workerJob>>
    BY <1>19 DEF Receive, SubmitMessage, TypingFails, Reply, mainVars, workerVars
  <2>2. future'["teardown"] = future["teardown"]
    BY <1>19, JobTypes DEF Receive, SubmitMessage, TypingFails, Reply, Submit, execVars, IInv, TypeOK
  <2> QED BY <1>3, <1>4, <1>5, <2>1, <2>2
<1>20. CASE BotStops
  <2>1. future'["teardown"] = future["teardown"]
    BY <1>20, JobTypes DEF BotStops
  <2> QED BY <1>3, <1>4, <1>5, <1>20, <2>1 DEF BotStops, mainVars, workerVars
<1> QED
  BY <1>6, <1>7, <1>8, <1>9, <1>10, <1>11, <1>12, <1>13, <1>14, <1>15, <1>16, <1>17, <1>18, <1>19, <1>20
     DEF Next, MainNext, WorkerNext, OperatorNext, DiscordNext

\* Main, the executor and the turns keep to the life of the process: a turn runs
\* only between the start of the front-ends and the shutdown of the executor.
THEOREM TurnsFollowLifecycle == Spec => FollowsLifecycle
<1>1. Init => Lifecycle!Init
  <2> SUFFICES ASSUME Init PROVE Lifecycle!Init
    OBVIOUS
  <2>1. ~ TurnRuns /\ TurnRuns \in BOOLEAN
    BY JobTypes DEF Init, TurnRuns
  <2>2. Phase = "before" /\ abandoned = FALSE
    BY DEF Init, Phase
  <2> QED BY <2>1, <2>2 DEF Lifecycle!Init
<1>2. Init => Ordered
  BY JobTypes DEF Init, Ordered
<1>3. IInv /\ IInv' /\ Ordered /\ [Next]_vars => Ordered' /\ [Lifecycle!Next]_(Lifecycle!vars)
  BY OrderedStep, LifecycleStep
<1> QED
  BY <1>1, <1>2, <1>3, Inductive, PTL DEF Spec, FollowsLifecycle, Lifecycle!Spec
-----------------------------------------------------------------------------
(* Nobody waits in vain: the safety half of TurnWaitEnds, MessageSettled and     *)
(* ExitReached.                                                                  *)

Queued(j) == \E k \in 1 .. Len(queue) : queue[k] = j

\* The queue holds every job that waits, once, and else only jobs that were cancelled
\* while they waited.
Line ==
    /\ \A k \in 1 .. Len(queue) : future[queue[k]] \in {"pending", "cancelled"}
    /\ \A k, l \in 1 .. Len(queue) : queue[k] = queue[l] => k = l
    /\ \A j \in Jobs : future[j] = "pending" => Queued(j)

\* The jobs whose result the main thread waits for.
MainAwaits(j) ==
    \/ mainPc = "awaitStart" /\ j = "start"
    \/ mainPc = "awaitTurn" /\ j = asking
    \/ mainPc = "awaitTeardown" /\ j = "teardown"

\* What somebody waits for was submitted, and what main waits for is not cancelled.
Awaited ==
    /\ \A j \in Jobs : MainAwaits(j) => future[j] \notin {"none", "cancelled"}
    /\ \A m \in Messages : handler[m] = "awaiting" => future[m] # "none"

LEMMA LineInit == Init => Line /\ Awaited
BY DEF Init, Line, Awaited, MainAwaits

LEMMA LineSubmit ==
    ASSUME TypeOK, Line, NEW job \in Jobs, Submit(job)
    PROVE  Line'
<1>1. /\ queue \in Seq(Jobs) /\ queue' = Append(queue, job) /\ future \in [Jobs -> FutureState]
      /\ future[job] = "none" /\ future' = [future EXCEPT ![job] = "pending"]
  BY DEF TypeOK, Submit
<1>2. /\ Len(queue) \in Nat /\ Len(queue') = Len(queue) + 1 /\ queue'[Len(queue) + 1] = job
      /\ \A k \in 1 .. Len(queue) : queue'[k] = queue[k] /\ queue[k] \in Jobs
  BY <1>1, AppendProperties
<1>3. \A k \in 1 .. Len(queue) : queue[k] # job /\ future'[queue[k]] = future[queue[k]]
  BY <1>1, <1>2 DEF Line
<1>4. \A k \in 1 .. Len(queue') : k \in 1 .. Len(queue) \/ k = Len(queue) + 1
  BY <1>2
<1>5. \A k \in 1 .. Len(queue') : future'[queue'[k]] \in {"pending", "cancelled"}
  BY <1>1, <1>2, <1>3, <1>4 DEF Line
<1>6. \A k, l \in 1 .. Len(queue') : queue'[k] = queue'[l] => k = l
  BY <1>2, <1>3, <1>4 DEF Line
<1>7. ASSUME NEW j \in Jobs, future'[j] = "pending" PROVE Queued(j)'
  <2>1. CASE j = job
    BY <1>2, <2>1 DEF Queued
  <2>2. CASE j # job
    <3>1. PICK k \in 1 .. Len(queue) : queue[k] = j
      BY <1>1, <1>7, <2>2 DEF Line, Queued
    <3>2. k \in 1 .. Len(queue') /\ queue'[k] = j
      BY <1>2, <3>1
    <3> QED BY <3>2 DEF Queued
  <2> QED BY <2>1, <2>2
<1> QED BY <1>5, <1>6, <1>7 DEF Line

LEMMA LineDequeue ==
    ASSUME TypeOK, Line, Dequeue
    PROVE  Line'
<1>1. /\ queue \in Seq(Jobs) /\ queue # <<>> /\ queue' = Tail(queue)
      /\ future \in [Jobs -> FutureState]
      /\ future' \in {future, [future EXCEPT ![Head(queue)] = "running"]}
      /\ future[Head(queue)] \in {"pending", "cancelled"}
      /\ future[Head(queue)] = "pending" => future'[Head(queue)] = "running"
  <2>1. Head(queue) \in Jobs /\ queue \in Seq(Jobs) /\ queue # <<>>
    BY HeadTailProperties DEF Dequeue, TypeOK
  <2> QED BY <2>1 DEF Dequeue, TypeOK
<1>2. /\ Len(queue) \in Nat /\ Len(queue) > 0 /\ Len(queue') = Len(queue) - 1
      /\ Head(queue) = queue[1]
      /\ \A k \in 1 .. Len(queue') : k + 1 \in 1 .. Len(queue) /\ queue'[k] = queue[k + 1]
      /\ \A k \in 1 .. Len(queue) : queue[k] \in Jobs
  BY <1>1, HeadTailProperties
<1>3. \A k \in 1 .. Len(queue') : queue'[k] # queue[1] /\ queue'[k] \in Jobs
  BY <1>2 DEF Line
<1>4. \A j \in Jobs : j # queue[1] => future'[j] = future[j]
  BY <1>1, <1>2
<1>5. \A k \in 1 .. Len(queue') : future'[queue'[k]] \in {"pending", "cancelled"}
  BY <1>2, <1>3, <1>4 DEF Line
<1>6. \A k, l \in 1 .. Len(queue') : queue'[k] = queue'[l] => k = l
  <2> SUFFICES ASSUME NEW k \in 1 .. Len(queue'), NEW l \in 1 .. Len(queue'),
                      queue'[k] = queue'[l]
               PROVE  k = l
    OBVIOUS
  <2>1. queue[k + 1] = queue[l + 1]
    BY <1>2
  <2>2. k + 1 = l + 1
    BY <1>2, <2>1 DEF Line
  <2> QED BY <2>2
<1>7. ASSUME NEW j \in Jobs, future'[j] = "pending" PROVE Queued(j)'
  <2>1. j # queue[1]
    BY <1>1, <1>2, <1>7
  <2>2. PICK k \in 1 .. Len(queue) : queue[k] = j
    BY <1>4, <1>7, <2>1 DEF Line, Queued
  <2>3. k - 1 \in 1 .. Len(queue') /\ (k - 1) + 1 = k
    BY <1>2, <2>1, <2>2
  <2>4. queue'[k - 1] = j
    BY <1>2, <2>2, <2>3
  <2> QED BY <2>3, <2>4 DEF Queued
<1> QED BY <1>5, <1>6, <1>7 DEF Line

\* The queue stands, and what is in it stays pending or is cancelled.
LEMMA LineKept ==
    ASSUME TypeOK, Line, queue' = queue,
           \A j \in Jobs : \/ future'[j] = future[j]
                           \/ future[j] = "pending" /\ future'[j] = "cancelled"
                           \/ future[j] = "running" /\ future'[j] \in Resolved
    PROVE  Line'
<1>1. queue \in Seq(Jobs) /\ \A k \in 1 .. Len(queue) : queue[k] \in Jobs
  BY DEF TypeOK
<1>2. "pending" \notin Resolved
  BY DEF Resolved, Outcomes
<1>3. \A j \in Jobs : future'[j] = "pending" => future[j] = "pending"
  BY <1>2
<1> QED BY <1>1, <1>3 DEF Line, Queued

\* The worker ends the job it has in hand.
LEMMA Settled ==
    ASSUME IInv, NEW job \in Jobs, workerPc = "running", workerJob = job,
           NEW outcome \in Outcomes, Resolve(job, outcome)
    PROVE  /\ future[job] = "running" /\ future'[job] = outcome /\ outcome \in Resolved
           /\ \A j \in Jobs : j # job => future'[j] = future[j]
  BY DEF IInv, TypeOK, InHand, Resolve, Resolved

LEMMA LineStep ==
    ASSUME IInv, Line, Awaited, [Next]_vars
    PROVE  Line' /\ Awaited'
<1> USE DEF MainAwaits
<1>t. TypeOK /\ Asked /\ future \in [Jobs -> FutureState]
  BY DEF IInv, TypeOK
<1>1. CASE UNCHANGED <<queue, future, mainPc, asking, handler>>
  <2>1. Line' /\ Awaited'
    BY <1>1, <1>t, LineKept DEF Awaited
  <2> QED BY <2>1
<1>2. ASSUME UNCHANGED execVars, UNCHANGED handler,
             mainPc' \notin {"awaitStart", "awaitTurn", "awaitTeardown"}
      PROVE  Line' /\ Awaited'
  BY <1>2, <1>t, LineKept DEF Awaited, execVars
<1>3. ASSUME NEW job \in Jobs, Submit(job), \A j \in Jobs : MainAwaits(j)' => j = job \/ MainAwaits(j),
             \A m \in Messages : handler'[m] = "awaiting" => m = job \/ handler[m] = "awaiting"
      PROVE  Line' /\ Awaited'
  <2>1. future'[job] = "pending" /\ \A j \in Jobs : j # job => future'[j] = future[j]
    BY <1>3, <1>t DEF Submit
  <2>2. Awaited'
    <3>1. \A j \in Jobs : MainAwaits(j)' => future'[j] \notin {"none", "cancelled"}
      BY <1>3, <2>1 DEF Awaited
    <3>2. \A m \in Messages : handler'[m] = "awaiting" => future'[m] # "none"
      BY <1>3, <2>1, JobTypes DEF Awaited
    <3> QED BY <3>1, <3>2 DEF Awaited
  <2> QED BY <1>3, <1>t, <2>2, LineSubmit
<1>4. CASE SubmitStart
  BY <1>3, <1>4, JobTypes DEF SubmitStart, botVars
<1>5. CASE AwaitStart \/ WarmModel \/ AwaitTurn \/ AwaitTeardown \/ ProcessExit \/ ReadExit
  <2>1. UNCHANGED execVars /\ UNCHANGED handler
    BY <1>5 DEF AwaitStart, WarmModel, AwaitTurn, AwaitTeardown, ProcessExit, ReadExit, botVars
  <2>2. mainPc' \in {"warm", "finally", "prompt", "shutdown", "gone"}
    BY <1>5 DEF AwaitStart, WarmModel, AwaitTurn, AwaitTeardown, ProcessExit, ReadExit
  <2> QED BY <1>2, <2>1, <2>2
<1>6. CASE Interrupt
  BY <1>2, <1>6 DEF Interrupt, botVars
<1>7. ASSUME NEW t \in Tasks, ReadTask(t) PROVE Line' /\ Awaited'
  BY <1>3, <1>7, JobTypes DEF ReadTask, botVars
<1>8. CASE SubmitTeardown
  BY <1>3, <1>8, JobTypes DEF SubmitTeardown, botVars
<1>9. CASE ShutdownExecutor
  <2>1. queue' = <<>> /\ mainPc' = "joining" /\ handler' = handler
        /\ future' = [j \in Jobs |-> IF future[j] = "pending" THEN "cancelled" ELSE future[j]]
    BY <1>9 DEF ShutdownExecutor, botVars
  <2>2. Line'
    BY <2>1 DEF Line
  <2>3. Awaited'
    BY <2>1, JobTypes DEF Awaited
  <2> QED BY <2>2, <2>3
<1>10. CASE Dequeue
  <2>1. UNCHANGED <<mainPc, asking, handler>>
    BY <1>10 DEF Dequeue, mainVars, botVars
  <2>2. Head(queue) \in Jobs
    BY <1>10, <1>t, HeadTailProperties DEF Dequeue, TypeOK
  <2>3. \A j \in Jobs : future'[j] \in {future[j], "running"}
    BY <1>10, <1>t, <2>2 DEF Dequeue
  <2>4. Awaited'
    BY <2>1, <2>3, JobTypes DEF Awaited
  <2> QED BY <1>10, <1>t, <2>4, LineDequeue
<1>11. CASE AcquireLock
  BY <1>1, <1>11 DEF AcquireLock, mainVars, execVars, botVars
<1>12. ASSUME NEW job \in Jobs, workerPc = "running", workerJob = job,
              NEW outcome \in Outcomes, Resolve(job, outcome),
              UNCHANGED <<queue, mainPc, asking, handler>>
       PROVE  Line' /\ Awaited'
  <2>1. /\ future[job] = "running" /\ future'[job] = outcome /\ outcome \in Resolved
        /\ \A j \in Jobs : j # job => future'[j] = future[j]
    BY <1>12, Settled
  <2>2. Line'
    BY <1>12, <1>t, <2>1, LineKept
  <2>3. outcome \notin {"none", "cancelled"}
    BY DEF Outcomes
  <2>4. Awaited'
    BY <1>12, <2>1, <2>3, JobTypes DEF Awaited
  <2> QED BY <2>2, <2>4
<1>13. CASE FinishStart
  <2>1. PICK outcome \in {"ok", "LoginFailed", "Error"} : Resolve("start", outcome)
    BY <1>13 DEF FinishStart
  <2>2. /\ workerPc = "running" /\ workerJob = "start" /\ outcome \in Outcomes
        /\ UNCHANGED <<queue, mainPc, asking, handler>>
    BY <1>13 DEF FinishStart, Outcomes, mainVars, botVars
  <2> QED BY <1>12, <2>1, <2>2, JobTypes
<1>14. CASE FinishTurn
  <2>1. PICK outcome \in Outcomes : Resolve(workerJob, outcome)
    BY <1>14 DEF FinishTurn, Outcomes
  <2>2. /\ workerPc = "running" /\ workerJob \in Jobs
        /\ UNCHANGED <<queue, mainPc, asking, handler>>
    BY <1>14, JobTypes DEF FinishTurn, mainVars, botVars
  <2> QED BY <1>12, <2>1, <2>2
<1>15. CASE FinishTeardown
  <2>1. PICK outcome \in Outcomes : Resolve("teardown", outcome)
    BY <1>15 DEF FinishTeardown, Outcomes
  <2>2. /\ workerPc = "running" /\ workerJob = "teardown"
        /\ UNCHANGED <<queue, mainPc, asking, handler>>
    BY <1>15 DEF FinishTeardown, mainVars, botVars
  <2> QED BY <1>12, <2>1, <2>2, JobTypes
<1>16. ASSUME NEW m \in Messages, SubmitMessage(m) PROVE Line' /\ Awaited'
  <2>1. UNCHANGED <<mainPc, asking>> /\ handler \in [Messages -> HandlerState] /\ m \in Jobs
    BY <1>16, <1>t, JobTypes DEF SubmitMessage, mainVars, TypeOK
  <2>2. CASE Submit(m) /\ Move(m, "awaiting")
    BY <1>3, <2>1, <2>2 DEF Move
  <2>3. CASE Move(m, "failed") /\ UNCHANGED execVars
    <3>1. \A n \in Messages : handler'[n] = "awaiting" => handler[n] = "awaiting"
      BY <2>1, <2>3 DEF Move
    <3>2. UNCHANGED <<queue, future>>
      BY <2>3 DEF execVars
    <3>3. Line'
      BY <1>t, <3>2, LineKept
    <3> QED BY <2>1, <3>1, <3>2, <3>3 DEF Awaited
  <2> QED BY <1>16, <2>2, <2>3 DEF SubmitMessage
<1>17. ASSUME NEW m \in Messages, Receive(m) \/ TypingFails(m) \/ Reply(m)
       PROVE  Line' /\ Awaited'
  <2>1. UNCHANGED <<queue, future, mainPc, asking>> /\ handler \in [Messages -> HandlerState]
    BY <1>17, <1>t DEF Receive, TypingFails, Reply, mainVars, execVars, TypeOK
  <2>2. PICK to : to # "awaiting" /\ Move(m, to)
    <3>1. CASE Receive(m)
      BY <3>1 DEF Receive
    <3>2. CASE TypingFails(m)
      BY <3>2 DEF TypingFails
    <3>3. CASE Reply(m)
      BY <3>3 DEF Reply
    <3> QED BY <1>17, <3>1, <3>2, <3>3
  <2>3. \A n \in Messages : handler'[n] = "awaiting" => handler[n] = "awaiting"
    BY <2>1, <2>2 DEF Move
  <2>4. Line'
    BY <1>t, <2>1, LineKept
  <2> QED BY <2>1, <2>3, <2>4 DEF Awaited
<1>18. CASE BotStops
  <2>1. /\ UNCHANGED <<queue, mainPc, asking>>
        /\ \A m \in Messages : handler'[m] # "awaiting"
        /\ future' = [j \in Jobs |-> IF j \in Messages /\ future[j] = "pending"
                                     THEN "cancelled" ELSE future[j]]
    BY <1>18 DEF BotStops, mainVars
  <2>2. \A j \in Jobs : \/ future'[j] = future[j]
                        \/ future[j] = "pending" /\ future'[j] = "cancelled" /\ j \in Messages
    BY <2>1
  <2>3. Line'
    BY <1>t, <2>1, <2>2, LineKept
  <2>4. \A j \in Jobs : MainAwaits(j) => j \notin Messages
    BY <1>t, TurnExecutorAssumption DEF Asked
  <2>5. Awaited'
    BY <2>1, <2>2, <2>4 DEF Awaited
  <2> QED BY <2>3, <2>5
<1>19. CASE UNCHANGED vars
  BY <1>1, <1>19 DEF vars, mainVars, execVars, botVars
<1> QED
  BY <1>4, <1>5, <1>6, <1>7, <1>8, <1>9, <1>10, <1>11, <1>13, <1>14, <1>15, <1>16, <1>17,
     <1>18, <1>19 DEF Next, MainNext, WorkerNext, OperatorNext, DiscordNext

\* A job that is not settled is in the worker's hands or in the queue for it; the
\* worker can always take up what is at the head of the queue, and never waits
\* for the turn lock.  What the main thread waits for is never cancelled, which
\* no except clause of run_repl would catch.
Unblocked ==
    /\ \A j \in Jobs : MainAwaits(j) \/ (j \in Messages /\ handler[j] = "awaiting") =>
           \/ future[j] \in Resolved
           \/ workerPc # "idle" /\ workerJob = j
           \/ Queued(j)
    /\ \A j \in Jobs : MainAwaits(j) => future[j] # "cancelled"
    /\ queue # <<>> => future[Head(queue)] \in {"pending", "cancelled"}
    /\ workerPc = "wantLock" => lock = "free"

\* However many tasks and messages there are, and whatever is interrupted or
\* cancelled: nobody waits for a job that no one will do, and the worker for nobody.
\* This is why TurnWaitEnds, MessageSettled and ExitReached need no more than
\* that threads keep running and jobs end.
THEOREM NobodyWaitsInVain == Spec => []Unblocked
<1>1. IInv /\ Line /\ Awaited => Unblocked
  <2> SUFFICES ASSUME IInv, Line, Awaited PROVE Unblocked
    OBVIOUS
  <2>1. \A j \in Jobs : future[j] \in Resolved \cup {"none", "pending", "running"}
    BY DEF IInv, TypeOK, FutureState
  <2>2. ASSUME NEW j \in Jobs, MainAwaits(j) \/ (j \in Messages /\ handler[j] = "awaiting")
        PROVE  future[j] \in Resolved \/ (workerPc # "idle" /\ workerJob = j) \/ Queued(j)
    <3>1. future[j] # "none"
      BY <2>2 DEF Awaited
    <3>2. future[j] = "running" => workerPc # "idle" /\ workerJob = j
      BY DEF IInv, InHand
    <3>3. future[j] = "pending" => Queued(j)
      BY DEF Line
    <3> QED BY <2>1, <3>1, <3>2, <3>3
  <2>3. \A j \in Jobs : MainAwaits(j) => future[j] # "cancelled"
    BY DEF Awaited
  <2>4. queue # <<>> => future[Head(queue)] \in {"pending", "cancelled"}
    <3>1. queue \in Seq(Jobs) /\ (queue # <<>> => 1 \in 1 .. Len(queue) /\ Head(queue) = queue[1])
      BY HeadTailProperties DEF IInv, TypeOK
    <3> QED BY <3>1 DEF Line
  <2>5. workerPc = "wantLock" => lock = "free"
    BY DEF IInv, Entered
  <2> QED BY <2>2, <2>3, <2>4, <2>5 DEF Unblocked
<1>2. IInv /\ Line /\ Awaited /\ [Next]_vars => Line' /\ Awaited'
  BY LineStep
<1> QED
  BY <1>1, <1>2, LineInit, Inductive, PTL DEF Spec
=============================================================================
