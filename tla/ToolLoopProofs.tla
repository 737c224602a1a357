--------------------------- MODULE ToolLoopProofs ---------------------------
(***************************************************************************)
(* For every bound on the steps and on the retries: the loop is type        *)
(* correct, each screenshot goes to the model exactly once, and the turn is *)
(* at most a fixed number of steps long.                                    *)
(***************************************************************************)
EXTENDS ToolLoop, TLAPS

\* No exception that the loop lets out is a SessionExpired, so a turn has one run.
OneRun == (pc = "idle" \/ run = 1) /\ run \in 0 .. 1 /\ relogins = 0

\* The images that wait for a prompt were taken by the steps before it.
Waiting ==
    /\ pc = "idle" => taken = {} /\ outcome = "none"
    /\ pc = "asking" => pending \subseteq taken /\ (attempt > 0 => pending = {})
    /\ pc \in {"asking", "executing"} => outcome = "none" /\ \A s \in taken : s[2] <= steps
    /\ pc = "executing" => call # "none"

\* What was taken was sent, but for what waits; nothing else was.
Delivered ==
    /\ \A s \in Shots : sent[s] <= 1
    /\ \A s \in Shots \ taken : sent[s] = 0
    /\ pc = "asking" => \A s \in Shots : sent[s] = IF s \in taken \ pending THEN 1 ELSE 0
    /\ pc = "executing" \/ outcome = "answer" => \A s \in taken : sent[s] = 1

Inv == TypeOK /\ OneRun /\ Waiting /\ Delivered

LEMMA ShotsType == \A r, k : r \in {1, 2} /\ k \in 1 .. MaxSteps => <<r, k>> \in Shots
BY DEF Shots

LEMMA InvInit == Init => Inv
<1> SUFFICES ASSUME Init PROVE Inv
  OBVIOUS
<1>1. TypeOK
  <2>1. sent \in [Shots -> Nat] /\ metExpiry \in BOOLEAN
    BY DEF Init
  <2>2. 0 \in 0 .. MaxSteps - 1 /\ 0 \in 0 .. MaxParseRetries - 1
    BY ToolLoopAssumption
  <2> QED BY <2>1, <2>2 DEF Init, TypeOK
<1>2. OneRun /\ Waiting
  BY DEF Init, OneRun, Waiting
<1>3. Delivered
  BY DEF Init, Delivered
<1> QED BY <1>1, <1>2, <1>3 DEF Inv

\* A prompt leaves no image waiting that was not sent.
LEMMA GenerateSends ==
    ASSUME Inv, Generate
    PROVE  /\ sent' \in [Shots -> Nat] /\ taken' = taken
           /\ \A s \in Shots : sent'[s] = IF s \in taken THEN 1 ELSE 0
<1>1. pc = "asking" /\ pending \in SUBSET Shots /\ sent \in [Shots -> Nat] /\ taken' = taken
  BY DEF Generate, Inv, TypeOK
<1>2. \A s \in Shots : sent[s] = IF s \in taken \ pending THEN 1 ELSE 0
  BY <1>1 DEF Inv, Delivered
<1>3. \A s \in Shots : sent'[s] = IF s \in pending THEN sent[s] + 1 ELSE sent[s]
  BY <1>1 DEF Generate
<1>4. sent' \in [Shots -> Nat]
  BY <1>1 DEF Generate
<1>5. pending \subseteq taken
  BY <1>1 DEF Inv, Waiting
<1> QED BY <1>1, <1>2, <1>3, <1>4, <1>5
\* The turn ends: without an answer, or with every image sent.
LEMMA Ended ==
    ASSUME Inv, NEW result \in Failures \cup {"answer"}, EndTurn(result),
           UNCHANGED <<session, relogins>>, metExpiry' \in BOOLEAN,
           taken' \in SUBSET Shots, sent' \in [Shots -> Nat],
           pc # "idle", \A s \in Shots : sent'[s] <= 1, \A s \in Shots \ taken' : sent'[s] = 0,
           result = "answer" => \A s \in taken' : sent'[s] = 1
    PROVE  Inv'
<1>1. pc' = "done" /\ outcome' = result /\ UNCHANGED <<run, steps, attempt, pending, call>>
  BY DEF EndTurn, loopVars
<1>2. TypeOK'
  BY <1>1 DEF Inv, TypeOK
<1>3. OneRun' /\ Waiting'
  BY <1>1 DEF Inv, OneRun, Waiting
<1>4. Delivered'
  BY <1>1 DEF Delivered
<1> QED BY <1>2, <1>3, <1>4 DEF Inv

\* The loop asks again: after a malformed reply, or after a step.
LEMMA Asked ==
    ASSUME Inv, pc \in {"asking", "executing"}, pc' = "asking",
           UNCHANGED <<run, session, outcome, relogins>>, metExpiry' \in BOOLEAN,
           steps' \in steps .. MaxSteps - 1, attempt' \in 0 .. MaxParseRetries - 1,
           call' \in ToolCalls \cup {"none"},
           taken' \in SUBSET Shots, pending' \in SUBSET taken', sent' \in [Shots -> Nat],
           attempt' > 0 => pending' = {}, \A s \in taken' : s[2] <= steps',
           \A s \in Shots : sent'[s] = IF s \in taken' \ pending' THEN 1 ELSE 0
    PROVE  Inv'
<1>1. TypeOK'
  BY DEF Inv, TypeOK
<1>2. OneRun' /\ Waiting'
  BY DEF Inv, OneRun, Waiting
<1>3. Delivered'
  BY DEF Inv, Waiting, Delivered
<1> QED BY <1>1, <1>2, <1>3 DEF Inv

LEMMA InvStep == Inv /\ [Next]_vars => Inv'
<1> SUFFICES ASSUME Inv, [Next]_vars PROVE Inv'
  OBVIOUS
<1>1. CASE AnswerTask
  <2>1. /\ pc = "idle" /\ pc' = "asking" /\ run' = 1 /\ steps' = 0 /\ attempt' = 0
        /\ pending' = {} /\ call' = "none"
        /\ UNCHANGED <<session, outcome, taken, sent, metExpiry, relogins>>
    BY <1>1 DEF AnswerTask, BeginRun
  <2>2. taken = {} /\ outcome = "none"
    BY <2>1 DEF Inv, Waiting
  <2>3. TypeOK'
    BY <2>1, ToolLoopAssumption DEF Inv, TypeOK
  <2>4. OneRun' /\ Waiting'
    BY <2>1, <2>2 DEF Inv, OneRun, Waiting
  <2>5. Delivered'
    BY <2>1, <2>2 DEF Inv, Delivered
  <2> QED BY <2>3, <2>4, <2>5 DEF Inv
<1>2. CASE GenerateFails
  <2>1. pc = "asking" /\ UNCHANGED <<taken, sent, metExpiry>>
    BY <1>2 DEF GenerateFails
  <2>2. EndTurn("Error") /\ UNCHANGED <<session, relogins>>
    BY <1>2 DEF GenerateFails, RunRaises
  <2> QED BY <2>1, <2>2, Ended DEF Inv, TypeOK, Delivered, Failures
<1>3. ASSUME Generate PROVE /\ pc = "asking" /\ pc # "idle" /\ metExpiry' \in BOOLEAN
                            /\ taken' \in SUBSET Shots /\ sent' \in [Shots -> Nat]
                            /\ \A s \in Shots : sent'[s] = IF s \in taken' THEN 1 ELSE 0
  BY <1>3, GenerateSends DEF Inv, TypeOK, Generate
<1>4. ASSUME Generate PROVE /\ \A s \in Shots : sent'[s] <= 1
                            /\ \A s \in Shots \ taken' : sent'[s] = 0
                            /\ \A s \in taken' : sent'[s] = 1
  BY <1>3, <1>4
<1>5. CASE Answer
  <2>1. Generate /\ EndTurn("answer") /\ UNCHANGED <<session, relogins>>
    BY <1>5 DEF Answer
  <2> QED BY <2>1, <1>3, <1>4, Ended
<1>6. CASE GiveUpParsing
  <2>1. Generate /\ EndTurn("OrchestrationError") /\ UNCHANGED <<session, relogins>>
    BY <1>6 DEF GiveUpParsing, RunRaises
  <2> QED BY <2>1, <1>3, <1>4, Ended DEF Failures
<1>7. CASE CallTool
  <2>1. /\ Generate /\ call' \in ToolCalls /\ pc' = "executing" /\ taken' = taken
        /\ UNCHANGED <<run, steps, attempt, pending, session, outcome, relogins, metExpiry>>
    BY <1>7 DEF CallTool, Generate
  <2>2. TypeOK'
    BY <2>1, <1>3 DEF Inv, TypeOK
  <2>3. OneRun' /\ Waiting'
    BY <2>1, <1>3 DEF Inv, OneRun, Waiting, ToolCalls
  <2>4. Delivered'
    BY <2>1, <1>3, <1>4 DEF Inv, Delivered
  <2> QED BY <2>2, <2>3, <2>4 DEF Inv
<1>8. CASE Nag
  <2>1. /\ Generate /\ attempt + 1 < MaxParseRetries /\ attempt' = attempt + 1 /\ pending' = {}
        /\ UNCHANGED <<pc, run, steps, call, session, outcome, relogins>> /\ taken' = taken
    BY <1>8 DEF Nag, Generate
  <2>2. pc = "asking" /\ \A s \in taken : s[2] <= steps
    BY <2>1, <1>3 DEF Inv, Waiting
  <2>3. /\ steps' \in steps .. MaxSteps - 1 /\ attempt' \in 0 .. MaxParseRetries - 1
        /\ call' \in ToolCalls \cup {"none"}
    BY <2>1, ToolLoopAssumption DEF Inv, TypeOK
  <2> QED BY <2>1, <2>2, <2>3, <1>3, Asked
<1>9. CASE Execute
  <2>1. PICK raised \in ToolRaises :
            LET shots == IF call = "screenshot" /\ raised = "none"
                         THEN {<<run, steps + 1>>} ELSE {}
            IN  /\ taken' = taken \cup shots
                /\ metExpiry' = (metExpiry \/ raised = "SessionExpired")
                /\ IF steps + 1 = MaxSteps
                   THEN RunRaises("OrchestrationError")
                   ELSE /\ pc' = "asking"
                        /\ steps' = steps + 1
                        /\ attempt' = 0
                        /\ pending' = shots
                        /\ call' = "none"
                        /\ UNCHANGED <<run, session, outcome, relogins>>
    BY <1>9 DEF Execute
  <2>2. pc = "executing" /\ sent' = sent /\ sent \in [Shots -> Nat]
    BY <1>9 DEF Execute, Inv, TypeOK
  <2> DEFINE shots == IF call = "screenshot" /\ raised = "none"
                      THEN {<<run, steps + 1>>} ELSE {}
  <2>3. /\ run = 1 /\ steps \in Nat /\ steps + 1 \in 1 .. MaxSteps
        /\ taken \in SUBSET Shots /\ \A s \in taken : s[2] <= steps
    BY <2>2, ToolLoopAssumption DEF Inv, TypeOK, OneRun, Waiting
  <2>4. shots \in SUBSET Shots /\ \A s \in shots : s[2] = steps + 1 /\ s \notin taken
    <3>1. <<run, steps + 1>> \in Shots /\ <<run, steps + 1>>[2] = steps + 1
      BY <2>3, ShotsType
    <3> QED BY <2>3, <3>1
  <2> HIDE DEF shots
  <2>5. /\ taken' = taken \cup shots /\ taken' \in SUBSET Shots
        /\ metExpiry' \in BOOLEAN
    BY <2>1, <2>3, <2>4 DEF shots
  <2>6. /\ \A s \in taken : sent[s] = 1
        /\ \A s \in Shots \ taken : sent[s] = 0
    BY <2>2 DEF Inv, Delivered
  <2>7. CASE steps + 1 = MaxSteps
    <3>1. EndTurn("OrchestrationError") /\ UNCHANGED <<session, relogins>>
      BY <2>1, <2>7 DEF RunRaises
    <3>2. /\ \A s \in Shots : sent'[s] <= 1
          /\ \A s \in Shots \ taken' : sent'[s] = 0
      BY <2>2, <2>5, <2>6
    <3> QED BY <3>1, <3>2, <2>2, <2>5, Ended DEF Failures
  <2>8. CASE steps + 1 # MaxSteps
    <3>1. /\ pc' = "asking" /\ steps' = steps + 1 /\ attempt' = 0 /\ pending' = shots
          /\ call' = "none" /\ UNCHANGED <<run, session, outcome, relogins>>
      BY <2>1, <2>8 DEF shots
    <3>2. steps' \in steps .. MaxSteps - 1 /\ attempt' \in 0 .. MaxParseRetries - 1
      BY <3>1, <2>3, <2>8, ToolLoopAssumption
    <3>3. \A s \in taken' : s[2] <= steps'
      <4>1. \A s \in taken : s[2] \in Nat
        BY <2>3, ToolLoopAssumption DEF Shots
      <4> QED BY <4>1, <3>1, <2>3, <2>4, <2>5
    <3>4. \A s \in Shots : sent'[s] = IF s \in taken' \ pending' THEN 1 ELSE 0
      BY <3>1, <2>2, <2>4, <2>5, <2>6
    <3>5. ~ (attempt' > 0) /\ pending' \in SUBSET taken'
      BY <3>1, <2>5
    <3> QED BY <3>1, <3>2, <3>3, <3>4, <3>5, <2>2, <2>5, Asked
  <2> QED BY <2>7, <2>8
<1>10. CASE Expire
  <2>1. /\ session' = "expired"
        /\ UNCHANGED <<pc, run, steps, attempt, pending, call, outcome, taken, sent, metExpiry,
                       relogins>>
    BY <1>10 DEF Expire, loopVars
  <2> QED BY <2>1 DEF Inv, TypeOK, OneRun, Waiting, Delivered
<1>11. CASE UNCHANGED vars
  BY <1>11 DEF vars, loopVars, Inv, TypeOK, OneRun, Waiting, Delivered
<1> QED
  BY <1>1, <1>2, <1>5, <1>6, <1>7, <1>8, <1>9, <1>10, <1>11 DEF Next, Step

LEMMA Inductive == Spec => []Inv
BY InvInit, InvStep, PTL DEF Spec

\* The loop's state keeps its types, and its counters their bounds.
THEOREM LoopTyped == Spec => []TypeOK
<1>1. Inv => TypeOK
  BY DEF Inv
<1> QED BY <1>1, Inductive, PTL

\* No screenshot is sent twice, and an answer is given only once all are sent.
THEOREM ScreenshotsSentOnce == Spec => []ScreenshotsShown
<1>1. Inv => ScreenshotsShown
  BY DEF Inv, Delivered, ScreenshotsShown
<1> QED BY <1>1, Inductive, PTL

\* The one re-login of a turn is never made: the loop lets no SessionExpired out.
THEOREM NeverReloggedIn == Spec => [](relogins = 0)
<1>1. Inv => relogins = 0
  BY DEF Inv, OneRun
<1> QED BY <1>1, Inductive, PTL

-----------------------------------------------------------------------------
(* The length of a turn.  Every tool call takes one of the MaxSteps, and before  *)
(* each there are at most MaxParseRetries prompts.                               *)

\* A tool call with the prompts before it.
Round == MaxParseRetries + 1

\* The steps that a turn has left at most.
Left ==
    CASE pc = "idle" -> MaxSteps * Round + 1
      [] pc = "asking" -> (MaxSteps - steps) * Round - attempt
      [] pc = "executing" -> (MaxSteps - steps - 1) * Round + 1
      [] pc = "done" -> 0

LEMMA Rounds ==
    ASSUME NEW k \in Nat, NEW n \in Nat, k < n
    PROVE  /\ (n - k) * Round \in Nat /\ (n - k - 1) * Round \in Nat
           /\ (n - k) * Round = (n - k - 1) * Round + Round
           /\ (n - k) * Round <= n * Round
<1>1. Round \in Nat
  BY ToolLoopAssumption DEF Round
<1>2. \A i \in Nat : i * Round \in Nat /\ (i + 1) * Round = i * Round + Round
  BY <1>1, SMT
<1>3. PICK i \in Nat : n - k = i + 1 /\ n - k - 1 = i
  <2>1. n - k - 1 \in Nat /\ n - k = (n - k - 1) + 1
    OBVIOUS
  <2> QED BY <2>1
<1>4. (n - k) * Round <= n * Round
  <2>1. n * Round = (n - k) * Round + k * Round
    BY <1>1, SMT
  <2>2. k * Round \in Nat /\ (n - k) * Round \in Nat
    BY <1>2, <1>3
  <2>3. \A a, b, c \in Nat : c = a + b => a <= c
    OBVIOUS
  <2> QED BY <1>2, <2>1, <2>2, <2>3
<1> QED BY <1>2, <1>3, <1>4

LEMMA LeftInRange == Inv => Left \in 0 .. MaxSteps * Round + 1
<1> SUFFICES ASSUME Inv PROVE Left \in 0 .. MaxSteps * Round + 1
  OBVIOUS
<1>1. /\ pc \in {"idle", "asking", "executing", "done"}
      /\ steps \in Nat /\ MaxSteps \in Nat /\ steps < MaxSteps
      /\ attempt \in 0 .. MaxParseRetries - 1 /\ MaxParseRetries \in Nat
  BY ToolLoopAssumption DEF Inv, TypeOK
<1>2. /\ (MaxSteps - steps) * Round \in Nat /\ (MaxSteps - steps - 1) * Round \in Nat
      /\ (MaxSteps - steps) * Round = (MaxSteps - steps - 1) * Round + Round
      /\ (MaxSteps - steps) * Round <= MaxSteps * Round
  BY <1>1, Rounds
<1>3. MaxSteps * Round \in Nat /\ Round \in Nat /\ attempt < Round
  BY <1>1, SMT DEF Round
<1> DEFINE all == MaxSteps * Round
            now == (MaxSteps - steps) * Round
            next == (MaxSteps - steps - 1) * Round
<1>4. /\ now \in Nat /\ next \in Nat /\ all \in Nat /\ now = next + Round /\ now <= all
  BY <1>2, <1>3
<1>5. Left = CASE pc = "idle" -> all + 1
               [] pc = "asking" -> now - attempt
               [] pc = "executing" -> next + 1
               [] pc = "done" -> 0
  BY DEF Left
<1> HIDE DEF all, now, next
<1>6. Left \in 0 .. all + 1
  BY <1>1, <1>3, <1>4, <1>5
<1> QED BY <1>6 DEF all

\* A step of the turn shortens it, an expiry of the session leaves it alone.
LEMMA StepShortens == Inv /\ Next => (Step => Left' < Left) /\ (Expire => Left' = Left)
<1> SUFFICES ASSUME Inv, Next PROVE (Step => Left' < Left) /\ (Expire => Left' = Left)
  OBVIOUS
<1>1. /\ steps \in Nat /\ MaxSteps \in Nat /\ steps < MaxSteps
      /\ attempt \in 0 .. MaxParseRetries - 1 /\ MaxParseRetries \in Nat
      /\ (pc = "idle" \/ run = 1)
  BY ToolLoopAssumption DEF Inv, TypeOK, OneRun
<1>2. /\ (MaxSteps - steps) * Round \in Nat /\ (MaxSteps - steps - 1) * Round \in Nat
      /\ (MaxSteps - steps) * Round = (MaxSteps - steps - 1) * Round + Round
  BY <1>1, Rounds
<1>3. MaxSteps * Round \in Nat /\ Round \in Nat /\ attempt + 1 < Round
  BY <1>1, SMT DEF Round
<1>4. \A n \in {"Error", "answer", "OrchestrationError"} : EndTurn(n) => Left' = 0
  BY DEF EndTurn, Left
<1>5. pc = "asking" => Left = (MaxSteps - steps) * Round - attempt /\ Left > 0
  <2>1. pc = "asking" => Left = (MaxSteps - steps) * Round - attempt
    BY DEF Left
  <2>2. \A now, next \in Nat : now = next + Round => now - attempt > 0
    BY <1>1, <1>3
  <2> QED BY <1>2, <2>1, <2>2
<1>6. pc = "executing" => Left = (MaxSteps - steps - 1) * Round + 1 /\ Left > 0
  <2>1. pc = "executing" => Left = (MaxSteps - steps - 1) * Round + 1
    BY DEF Left
  <2> QED BY <1>2, <2>1
<1>7. CASE AnswerTask
  <2>1. pc = "idle" /\ pc' = "asking" /\ steps' = 0 /\ attempt' = 0
    BY <1>7 DEF AnswerTask, BeginRun
  <2>2. Left = MaxSteps * Round + 1 /\ Left' = (MaxSteps - 0) * Round - 0
    BY <2>1 DEF Left, Round
  <2>3. MaxSteps - 0 = MaxSteps /\ MaxSteps * Round - 0 = MaxSteps * Round
    BY <1>1, <1>3
  <2>4. ~ Expire
    BY <2>1 DEF Expire
  <2> QED BY <1>3, <2>2, <2>3, <2>4
<1>8. CASE GenerateFails \/ Answer \/ GiveUpParsing
  <2>1. pc = "asking" /\ pc' = "done" /\ Left' = 0
    BY <1>1, <1>4, <1>8 DEF GenerateFails, Answer, GiveUpParsing, Generate, RunRaises, EndTurn
  <2> QED BY <1>5, <2>1 DEF Expire
<1>9. CASE CallTool
  <2>1. pc = "asking" /\ pc' = "executing" /\ steps' = steps
    BY <1>9 DEF CallTool, Generate
  <2>2. Left' = (MaxSteps - steps - 1) * Round + 1
    BY <2>1 DEF Left, Round
  <2>3. \A now, next \in Nat : now = next + Round => next + 1 < now - attempt
    BY <1>1, <1>3
  <2> QED BY <1>2, <1>5, <2>1, <2>2, <2>3 DEF Expire
<1>10. CASE Nag
  <2>1. pc = "asking" /\ pc' = "asking" /\ steps' = steps /\ attempt' = attempt + 1
    BY <1>10 DEF Nag, Generate
  <2>2. Left' = (MaxSteps - steps) * Round - (attempt + 1)
    BY <2>1 DEF Left, Round
  <2>3. \A now \in Nat : now - (attempt + 1) < now - attempt
    BY <1>1
  <2> QED BY <1>1, <1>2, <1>5, <2>1, <2>2, <2>3 DEF Expire, loopVars
<1>11. CASE Execute
  <2>1. \/ pc = "executing" /\ pc' = "asking" /\ steps' = steps + 1 /\ attempt' = 0
        \/ pc = "executing" /\ EndTurn("OrchestrationError")
    BY <1>11 DEF Execute, RunRaises
  <2>2. CASE pc' = "asking" /\ steps' = steps + 1 /\ attempt' = 0
    <3>1. Left' = (MaxSteps - (steps + 1)) * Round - 0
      BY <2>2 DEF Left, Round
    <3>2. MaxSteps - (steps + 1) = MaxSteps - steps - 1
      BY <1>1
    <3> QED BY <1>2, <1>6, <2>1, <2>2, <3>1, <3>2 DEF Expire
  <2>3. CASE EndTurn("OrchestrationError")
    BY <1>4, <1>6, <2>1, <2>3 DEF Expire, EndTurn
  <2> QED BY <2>1, <2>2, <2>3
<1>12. CASE Expire
  <2>1. UNCHANGED <<pc, steps, attempt>>
    BY <1>12 DEF Expire, loopVars
  <2>2. Left' = Left
    BY <2>1 DEF Left, Round
  <2>3. ~ Step
    BY <1>12, <2>1 DEF Expire, Step, AnswerTask, BeginRun, GenerateFails, Answer, CallTool, Nag,
       GiveUpParsing, Execute, Generate, RunRaises, EndTurn
  <2> QED BY <2>2, <2>3
<1> QED BY <1>7, <1>8, <1>9, <1>10, <1>11, <1>12 DEF Next, Step

\* However malformed the replies, whatever the tools raise and whenever the
\* session expires: a turn is over after MaxSteps * (MaxParseRetries + 1) + 1
\* steps, because each of them is one fewer to go.  This is the loop's half of
\* TurnEnds; that a step is always taken is what the fairness of Spec says.
THEOREM TurnBounded ==
    Spec => /\ [](Left \in 0 .. MaxSteps * Round + 1)
            /\ [][(Step => Left' < Left) /\ (Expire => Left' = Left)]_vars
<1>1. Inv /\ [Next]_vars => [(Step => Left' < Left) /\ (Expire => Left' = Left)]_vars
  BY StepShortens
<1> QED BY <1>1, LeftInRange, Inductive, PTL DEF Spec
=============================================================================
