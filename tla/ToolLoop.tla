------------------------------ MODULE ToolLoop ------------------------------
(***************************************************************************)
(* One turn: answer_task (conversation.py) around Orchestrator.run         *)
(* (orchestrator/loop.py), with the tools it calls (orchestrator/tools.py) *)
(* as far as the loop sees them.                                           *)
(*                                                                         *)
(* A model reply is abstracted to what extract_tool_call makes of it, a    *)
(* screenshot to the run and the step that took it.  Between its steps the *)
(* COL session may expire at any moment.                                   *)
(***************************************************************************)
EXTENDS Naturals, FiniteSets

CONSTANTS
    MaxSteps,         \* max_steps
    MaxParseRetries   \* max_parse_retries

ASSUME ToolLoopAssumption ==
    /\ MaxSteps \in Nat \ {0}
    /\ MaxParseRetries \in Nat \ {0}

Shots == {1, 2} \X (1 .. MaxSteps)

\* "malformed": ProtocolError; "final": an object with a final_answer; the
\* others are tool calls: of an unknown tool or with args that are no object,
\* of a tool that fetches fragments, and of take_screenshot.
ToolCalls == {"refused", "data", "screenshot"}
Replies == {"malformed", "final"} \cup ToolCalls

Failures == {"OrchestrationError", "SessionExpired", "LoginFailed", "Error"}

VARIABLES
    pc,
    run,        \* which orchestrator.run of the turn this is
    steps,      \* len(steps): tool calls executed in this run
    attempt,    \* replies rejected so far in this _next_call
    pending,    \* the images the next generate sends
    call,       \* the tool call to be executed
    session,
    outcome,    \* what answer_task returned or raised
    \* history variables
    taken,      \* screenshots taken
    sent,       \* how often each screenshot was sent to the model
    metExpiry,  \* a tool call of this turn met an expired session
    relogins    \* calls of session.relogin

loopVars == <<run, steps, attempt, pending, call>>
vars == <<pc, loopVars, session, outcome, taken, sent, metExpiry, relogins>>

TypeOK ==
    /\ pc \in {"idle", "asking", "executing", "done"}
    /\ run \in 0 .. 2
    /\ steps \in 0 .. MaxSteps - 1
    /\ attempt \in 0 .. MaxParseRetries - 1
    /\ pending \in SUBSET Shots
    /\ call \in ToolCalls \cup {"none"}
    /\ session \in {"live", "expired"}
    /\ outcome \in Failures \cup {"none", "answer"}
    /\ taken \in SUBSET Shots
    /\ sent \in [Shots -> Nat]
    /\ metExpiry \in BOOLEAN
    /\ relogins \in 0 .. 1

Init ==
    /\ pc = "idle"
    /\ run = 0
    /\ steps = 0
    /\ attempt = 0
    /\ pending = {}
    /\ call = "none"
    /\ session = "live"
    /\ outcome = "none"
    /\ taken = {}
    /\ sent = [s \in Shots |-> 0]
    /\ metExpiry = FALSE
    /\ relogins = 0

-----------------------------------------------------------------------------
\* orchestrator.run(task, history): no steps, no pending images.
BeginRun(n) ==
    /\ pc' = "asking"
    /\ run' = n
    /\ steps' = 0
    /\ attempt' = 0
    /\ pending' = {}
    /\ call' = "none"

EndTurn(result) ==
    /\ pc' = "done"
    /\ outcome' = result
    /\ UNCHANGED loopVars

\* answer_task around an exception of orchestrator.run: one re-login and one
\* more run if it is SessionExpired, out of answer_task if it is anything else
\* or the second run.  relogin raises LoginFailed if it does not succeed.
RunRaises(exception) ==
    IF exception = "SessionExpired" /\ run = 1
    THEN /\ relogins' = relogins + 1
         /\ \E succeeds \in BOOLEAN :
                IF succeeds
                THEN BeginRun(2) /\ session' = "live" /\ UNCHANGED outcome
                ELSE EndTurn("LoginFailed") /\ UNCHANGED session
    ELSE EndTurn(exception) /\ UNCHANGED <<session, relogins>>

AnswerTask ==
    /\ pc = "idle"
    /\ BeginRun(1)
    /\ UNCHANGED <<session, outcome, taken, sent, metExpiry, relogins>>

-----------------------------------------------------------------------------
\* vlm.generate: the pending images go out with the prompt.
Generate ==
    /\ pc = "asking"
    /\ sent' = [s \in Shots |-> IF s \in pending THEN sent[s] + 1 ELSE sent[s]]
    /\ UNCHANGED <<taken, metExpiry>>

\* The server cannot be brought up, or the request fails or times out.
GenerateFails ==
    /\ pc = "asking"
    /\ RunRaises("Error")
    /\ UNCHANGED <<taken, sent, metExpiry>>

Answer ==
    /\ Generate
    /\ EndTurn("answer")
    /\ UNCHANGED <<session, relogins>>

CallTool ==
    /\ Generate
    /\ call' \in ToolCalls
    /\ pc' = "executing"
    /\ UNCHANGED <<run, steps, attempt, pending, session, outcome, relogins>>

\* Mutations of Nag: the images sent again; one attempt too many.
NagWithImages ==
    /\ attempt + 1 < MaxParseRetries
    /\ Generate
    /\ attempt' = attempt + 1
    /\ UNCHANGED <<pc, run, steps, pending, call, session, outcome, relogins>>

NagOnceMore ==
    /\ attempt + 1 <= MaxParseRetries
    /\ Generate
    /\ attempt' = attempt + 1
    /\ pending' = {}
    /\ UNCHANGED <<pc, run, steps, call, session, outcome, relogins>>

\* A malformed reply is retried with a nag, and without the images.
Nag ==
    /\ attempt + 1 < MaxParseRetries
    /\ Generate
    /\ attempt' = attempt + 1
    /\ pending' = {}
    /\ UNCHANGED <<pc, run, steps, call, session, outcome, relogins>>

GiveUpParsing ==
    /\ attempt + 1 = MaxParseRetries
    /\ Generate
    /\ RunRaises("OrchestrationError")

-----------------------------------------------------------------------------
\* What a tool may raise: a fragment fetch raises SessionExpired on a logout
\* page, or is bounced off the node or fails; a screenshot never looks at the
\* session but refuses the login page.
ToolRaises ==
    CASE call = "refused" -> {"none"}
      [] call = "data" -> IF session = "expired" THEN {"SessionExpired", "Error"}
                                                 ELSE {"none", "Error"}
      [] call = "screenshot" -> {"none", "Error"}

\* Mutation: a call the loop refuses to make is not counted as a step.
ExecuteRefusedFree ==
    /\ pc = "executing"
    /\ \E raised \in ToolRaises :
           LET shots == IF call = "screenshot" /\ raised = "none"
                        THEN {<<run, steps + 1>>} ELSE {}
           IN  /\ taken' = taken \cup shots
               /\ metExpiry' = (metExpiry \/ raised = "SessionExpired")
               /\ IF steps + 1 = MaxSteps /\ call # "refused"
                  THEN RunRaises("OrchestrationError")
                  ELSE /\ pc' = "asking"
                       /\ steps' = IF call = "refused" THEN steps ELSE steps + 1
                       /\ attempt' = 0
                       /\ pending' = shots
                       /\ call' = "none"
                       /\ UNCHANGED <<run, session, outcome, relogins>>
    /\ UNCHANGED sent

\* The step is recorded with its observation, whatever the tool raised: every
\* Exception becomes an "ERROR: ..." observation.  After the last step the run
\* gives up without showing the model that observation.
Execute ==
    /\ pc = "executing"
    /\ \E raised \in ToolRaises :
           LET shots == IF call = "screenshot" /\ raised = "none"
                        THEN {<<run, steps + 1>>} ELSE {}
           IN  /\ taken' = taken \cup shots
               /\ metExpiry' = (metExpiry \/ raised = "SessionExpired")
               /\ IF steps + 1 = MaxSteps
                  THEN RunRaises("OrchestrationError")
                  ELSE /\ pc' = "asking"
                       /\ steps' = steps + 1
                       /\ attempt' = 0
                       /\ pending' = shots
                       /\ call' = "none"
                       /\ UNCHANGED <<run, session, outcome, relogins>>
    /\ UNCHANGED sent

\* The environment: the idle watchdog, another login, the server.
Expire ==
    /\ session = "live"
    /\ session' = "expired"
    /\ UNCHANGED <<pc, loopVars, outcome, taken, sent, metExpiry, relogins>>

Step == AnswerTask \/ GenerateFails \/ Answer \/ CallTool \/ Nag \/ GiveUpParsing \/ Execute
Next == Step \/ Expire

\* Every generate and every tool call returns or raises: each has a timeout.
Spec == Init /\ [][Next]_vars /\ WF_vars(Step)

-----------------------------------------------------------------------------
\* Every screenshot reaches the model exactly once, with the first prompt after
\* it was taken, however many malformed replies follow: none is ever sent
\* twice, and when a later tool is called or the answer given none was missed.
ScreenshotsShown ==
    /\ \A s \in Shots : sent[s] <= 1
    /\ pc = "executing" \/ outcome = "answer" => \A s \in taken : sent[s] = 1

\* A turn ends, whatever the model replies and whatever the tools raise.
TurnEnds == pc = "asking" ~> pc = "done"

\* docs/discord-bot.md: a session that expires mid-turn is silently logged in
\* again, once.  So no turn that met the expiry ends without a re-login.
ExpiryReauthenticated == outcome # "none" /\ metExpiry => relogins = 1
=============================================================================
