# Formal models of the COL Financial harness

TLA+ modules, TLC configurations and TLAPS proofs for `colfin_harness`: one
process that puts a local vision-language model in front of a logged-in COL
Financial browser session and answers questions from a terminal REPL and a
Discord bot. Paths below are relative to `src/colfin_harness/`.

Every definition is written from the code. Code outside the repository that
the models need (COL's servers and pages, the browser, `ThreadPoolExecutor`,
the `mlx_vlm.server` process) is modelled from how this code uses it and
marked external in `PROJECT.json`.

## 1. The system

| component | state it keeps | operations | talks to |
|---|---|---|---|
| `__main__.py` `main`, `run_repl` | executor, turn lock, REPL history | start, warm up, read a task, teardown, stop the server | everything |
| `discord_bot.py` | per-channel histories, the handler task of each message | gate, submit, answer, reply, stop | executor, turn lock |
| `conversation.py` | none (edits histories) | `answer_task`, `trim_history` | tool loop, session |
| `orchestrator/loop.py` | steps, pending images, nag | `run`, `_next_call`, `_execute` | model, tools |
| `orchestrator/tools.py` | the registry | one function per tool | agents, session |
| `session/manager.py` | pinned node, cookie jar, node cache file, credentials, session lock, keep-alive thread | `start`, `relogin`, `fetch_fragment`, `keep_warm`, `screenshot`, `close` | browser, COL |
| `model/runtime.py` | `_proc`, `_ready` | `ensure_running`, `stop`, `generate` | the model server process |
| `agents/quotes.py` + `parsing/stock_info.py`, `parsing/quotes.py` | none of its own; uses the *current stock* COL keeps in the session | the four quote tools | session |
| `agents/portfolio.py` + `parsing/portfolio.py` | none | one fetch, a page without section markers | session |
| `agents/research.py` + `parsing/tech_guide.py` | none | two fetches of a frameset COL may republish in between | session |
| `agents/market_info.py` + `parsing/market_info.py` | none | three pages, signs in colours | session |
| `agents/order_entry.py` | none | one fetch, a refusal | session |
| `parsing/util.py` | none | `to_decimal`, `numbers_in`, colours | - |
| `config.py`, `credentials.py`, `keychain.py`, `schemas.py`, `exceptions.py` | settings, a password holder | validators, prompts | - |

How they interact. `main` starts the session *on* a one-thread executor,
because sync Playwright may only be used from the thread that started it; every
REPL turn, Discord turn and the teardown are submitted to that executor and take
one shared lock there. The main thread blocks on the result of a REPL turn; the
Discord event loop awaits its own. A turn runs the tool loop, which alternates
model calls and tool calls; a tool fetches fragments over httpx with cookies
mirrored from the browser, or takes a screenshot. A keep-alive thread shares the
httpx client with the turn thread under a re-entrant lock. The page in the
browser navigates by itself, and COL expires sessions and assigns nodes by
itself.

What is hard here:

- threads: main, worker, event loop, keep-alive; two locks and one queue;
- interrupts while the main thread waits for the start, the warm-up, a turn or the
  teardown, twice;
- a login is asynchronous: submit a form, poll a page that navigates on its own,
  re-pin the client, with a deadline;
- state on the server that two fetches share (the current stock), and pages that
  change between two fetches (the guide);
- pages that say what a number means by its place, its colour or the rows above it;
- a process on a port that others may own, that dies, or comes up late;
- crashes between two writes, and restarts from what a cache file holds;
- replies cut into chunks, sent one await at a time while other replies are sent.

What makes each part correct is the list of properties in section 4; the
hazards they were chosen for, each at its line, are in `PROJECT.json`.

## 2. Modules

| module | models | kind |
|---|---|---|
| `Conversation` | `trim_history`, `record_turn` | operators |
| `SerialTurns` | what the executor promises its callers | abstract specification |
| `TurnLifecycle` | when a turn may run in the life of the process | abstract specification |
| `TurnExecutor`, `MCTurnExecutor` | main thread, executor, turn lock, Discord event loop | component, MC; implements both of the above |
| `ModelServer` | `MLXServerManager`, `VLMRuntime`, `main`'s use of them | component |
| `ToolLoop` | `answer_task` around `Orchestrator.run` | component |
| `NodeSession` | `SessionManager` and its keep-alive thread, COL around them | component |
| `Cells` | `to_decimal`, `direction_from`, and how COL prints a number | operators |
| `CurrentStock`, `MCCurrentStock` | the quotes agent over the current stock | component, MC |
| `Portfolio` | the account page | component |
| `MarketInfo` | market summary, gainers and losers, most active | component |
| `TechnicalGuide` | `get_technical_guide` over the two frames of the guide | component |
| `ReplyChunks` | splitting and sending the replies of a channel | component |
| `MCParts` | the last five, and COL's pages, for TLC | MC |
| `ConversationProofs`, `TurnExecutorProofs`, `ToolLoopProofs`, `NodeSessionProofs`, `ModelServerProofs`, `CurrentStockProofs`, `ReplyChunksProofs` | theorems about the module of that name | proofs |
| `PageProofs` | theorems about `Cells`, `Portfolio`, `MarketInfo` and `TechnicalGuide` | proofs |

**Conversation.** A turn is a value with a length; `Chars[turn]` stands for
`len(question) + len(answer)`. `trim_history` is two popping loops, one after
the other (`PopTurns`, `PopChars`). `LongestFitting` is what it is for, the
longest suffix that fits both bounds; that the loops leave it is proved
(`TrimIsLongest`), and `HistorySeen` is stated with it.

**TurnExecutor.** `mainPc` is the point `main`/`run_repl` has reached,
`queue`/`future`/`accepting` the executor, `workerPc`/`workerJob` its thread,
`lock` the turn lock, `handler[m]` the place of `on_message` for message `m`.
`Submit` is `ThreadPoolExecutor.submit`; `Dequeue` is the worker taking up the
next job that was not cancelled; `AcquireLock` and the `Finish*` actions are the
two ends of a job. `session.start` runs without the lock, as in the code. The
REPL records its turn on the main thread (`AwaitTurn`), Discord on the worker
(`FinishTurn`). `Interrupt` is a `KeyboardInterrupt` while the main thread waits
for the start, warms the model up, waits for a turn or for the teardown. One at the
prompt is caught there and leaves the REPL like an `exit`; one while the
interpreter joins the worker at the very end, when nothing of `main` is left to
run, is not modelled. Each task and message is one occurrence. A job ends with any
outcome its caller tells apart, a superset of what `answer_task` produces. What
becomes of an answer on Discord is in `ReplyChunks`.

**ModelServer.** Processes are numbered; `state` and `owner` say how they are and
who spawned them. `ensure_running` runs on main while the model is warmed up and
on the worker later, `stop` on either; `stop` reads `_proc` anew at every step, as
the code does, and `ProcUnshared` says why that is safe without a lock.

Its `main` and its turns are written from `main()`: a turn can begin once the
REPL or the bot is up and until the executor is shut down, because
`turn_executor.shutdown` comes after the teardown and the worker goes on taking up
jobs until then (`__main__.py:233-261`); it is not said here how they queue.

**TurnLifecycle** is what the front-ends, the queue, the teardown, the interrupts
and `shutdown(cancel_futures=True)` of `TurnExecutor` come to over the life of the
process: phases of `main`, and when a turn may begin and must be over. Only
`TurnExecutor` implements it, under the refinement mapping `Phase`; nothing is
proved about a product of `TurnExecutor` and `ModelServer`.

**ToolLoop.** A model reply is what `extract_tool_call` makes of it (malformed,
a final answer, or a tool call of one of three kinds); a screenshot is the run
and step that took it. `_execute` turns every exception into an observation, so
`Execute` never hands one to `RunRaises`; the `SessionExpired` branch of
`RunRaises` is `answer_task`'s, kept although the loop never reaches it
(`NeverReloggedIn` in `ToolLoopProofs`).

**NodeSession.** `pin` is `_host` together with the client's base URL and
Referer, `jar` the client's cookies, `cache` the node cache file, `browser` the
session cookies of the profile, `live` the sessions the server still honours. A
cookie is scoped to the node that minted it or to the parent domain; a new one
replaces the one of its own scope only (`Stored`), in the browser as in the
client, so that both can hold several for one host (`Sent`, which is
`context.cookies(node_base_url)`). A session is valid only on the node that
minted it. Which of several cookies COL goes by is not known, so that a request
may be served for any valid one (`MayServe`) and refused for any other
(`MayRefuse`). `BrowserDrops` is a cookie the profile loses, at any time.
`_sync_cookies` is two actions (clear, fill) so that other threads can come in
between; a poll of `_await_auth` is four. `LaunchFails`, `StartRaises` and
`CookiesRaise` are the exceptions of the browser calls. `ProcessEnds` is an
orderly end or a crash, after which `Start` runs from what the profile and the
cache file hold. Left out: cookies that a response refreshes by `Set-Cookie`,
the user agent, and the names of the form's fields.

**CurrentStock.** A page is abstracted to the stock it is about and whether it
names the company. Somebody with another page of the same session may quote at
any time; the session may expire and be replaced by one without a current stock.

**Cells, Portfolio, MarketInfo.** A number on a page is its value and the style
it is printed in (`Printed` is COL's side, `ToDecimal` the parser's); a colour is
what `util.py` takes it for. One step reads one row. A holding, an index or a
stock stands for the row it is read from, because all its other fields are
copied from cells of that row. `InOrder` lists the places of a page that a
parser keeps, by a recursive function over places, so that proofs can use it.

Three assumptions say what a page can be, and are evaluated by TLC on the pages
of the runs: `PortfolioAssumption` (a total of the equities, where there is one,
is between the equities and the funds); `SummaryAssumption` (each row of the
summary at most once, the gain or loss of each section included, the cash balance
next to its labels or in the row below, a change one percentage and one amount or
only one of them; any number may be a dash); and `MarketAssumption` (the change of an
index is the difference of its levels, and no colour contradicts a number, while
a dash may keep any colour). A row of the market pages is a stock's by its rank
and symbol (`IsStock`), an index's by its two levels; a row with a rank and a blank
symbol is skipped like a header.

**TechnicalGuide.** Table and date are two requests; an edition of the guide is
the number of publications before it, and `Publish` may come at any time. The
rows, the rolling sector and the filters of the tool (`Picked`) are modelled; one
support/resistance level stands for the two.

**ReplyChunks.** A chunk is its first and last place in the answer. `Split` is
one round of the loop of `chunk_message`; `Send` is one awaited send, so the
handlers of several messages alternate; a send may fail, and the loop may stop
with handlers waiting.

**MCParts.** The five read-only parts share no variable. `part` chooses one in
the initial state and only that part moves, so that one run holds the sum and
not the product of their states.

## 3. Plan

In order of importance to the system:

1. done: `Conversation`, `SerialTurns`, `TurnExecutor`, `ToolLoop`, `NodeSession`,
   `ModelServer`, `CurrentStock`;
2. done: `TurnExecutor` over the life of the process (`TurnLifecycle`);
3. done: `Cells`, `Portfolio`, `MarketInfo`, `TechnicalGuide`, `ReplyChunks`;
4. done: proofs about every component, also that `TurnExecutor`
   implements `TurnLifecycle`;
5. done: the two loops of `trim_history` and what they leave; proofs of every
   safety property of the runs, and of the safety half of every liveness property;
6. optional: the column copying of the parsers, which today is one place per row.

## 4. Runs and what they show

Runs that pass:

| run | bounds | properties |
|---|---|---|
| `turn_safety` | 3 REPL tasks, 2 messages of one channel, a history of 2 turns and 4 characters | `SessionDiscipline`: only Playwright's thread is inside the session, under the lock. `HistorySeen`: a running turn is given the newest turns of its own conversation that fit, and nothing else. `CleanExit`: the process ends with the session closed and no password held. `NoCloseUnderTurn`: neither goes while a turn runs. `FollowsLifecycle`: turns run only when `TurnLifecycle` lets them. |
| `turn_liveness` | 1 task, 3 messages, one of a stranger | `TurnWaitEnds`, `MessageSettled`, `ExitReached`: nobody waits for ever. `ServesSerially`: the process implements `SerialTurns`, fairness included. |
| `tool_loop` | 4 steps, 3 replies per step | `ScreenshotsShown`: each screenshot reaches the model exactly once. `TurnEnds`. |
| `node_session` | 2 nodes, 2 logins, 2 polls | `PingNotStraddled`: no ping across a re-pin. `MirrorServes`: no cookie left in the jar gets a valid session refused that is the browser's only one for the node. `PinAgreesWithCache`: also after a failed login. `FreshLoginUsable`: an accepted login is valid on the pinned node, whichever cookie the probe was answered for. `LoginSettles`: a login ends and lets go of the lock. `KeepaliveStops`. |
| `model_server` | 3 processes, 2 polls | `ForeignSpared`, `NoneForgotten`: no foreign server is stopped, none of ours forgotten. `ProcUnshared`: main's stop and a leftover turn never use `_proc` at once. `StopLeavesNone`: `--stop-server` leaves none of ours, unless a turn was left running. `EnsureEnds`: so does a wait that is interrupted or in vain. |
| `parts` | 3 listed symbols of 2 companies and 1 unlisted; the pages of `MCParts`; guides of at most 3 rows, 2 editions; 2 messages, answers of at most 4 characters, a limit of 2 | Quotes: `NamedDataIsRight`, `UnknownNeverMislabeled`, `UndisturbedDataIsRight`. Account: `SectionsRight` (no holding lost or in the wrong section), `TotalsRight` (what no dash precedes is in its field). Market: `RowsKept` (no row with rank and symbol is lost), `SignsRight`, `DirectionsRight`. Guide: `DateNeverOlder`, `ListingRight`. Replies: `ChunksTile`, `ShownInOrder`, `NothingLost`. |

Why the bounds are enough. `turn_safety` has what the interleavings need: a task
behind a message, two messages of one channel, a turn larger than the character
budget and a history that must drop a turn. A stranger's message and another
channel are in `turn_liveness`. Two nodes and two logins, each cookie with
either scope, are what it takes for the browser to hold an old cookie for the
parent domain next to the new one, and for the jar to be rebuilt on either; two
polls separate "the page moved in time" from "too late". Three processes are one
of ours, one of another run and one respawned. Two stocks of one company are
there because the check compares company names, not symbols. The account pages
have every optional row present and absent, no holding to two per section, the
cash balance in both places, dashes in the balance, the totals and the change,
both orders of percentage and amount, and each way of printing a loss; the
market pages have every printable row, alone and next to rows that are skipped
(a header, one with too few cells, one with a rank and no symbol), and missing
tables. A guide of three rows has a ticker twice, an entry before any label and
a blank separator after one. Four characters are two full chunks, or three with
a newline between. Because the pages of a run are a sample, what is said of
every page is proved (section 5).

Each property has a mutant in `PROJECT.json`: a plausible bug of one action that
TLC finds by that property. The mutated operators stand in the modules, each
before the action it mutates, under a comment that begins with "Mutation".

Runs that show a disagreement between the code and what is said of it:

| run | what TLC finds |
|---|---|
| `expiry_mid_turn` | `loop.py:177` catches `SessionExpired` with every other exception, so the silent re-login `docs/discord-bot.md` promises never happens. |
| `stop_server` | a turn taken up between teardown and shutdown spawns the model server again after `--stop-server` stopped it. |
| `safe_to_accept` | the first poll after the click can accept the session that was valid before it; the login then lands on another node, against `manager.py:346`. |
| `screenshot_race` | the page can bounce to the login page between the URL check and the capture. |
| `unnamed_prices` | a trade-prices page without a company name is returned for the wrong stock when the current stock was repointed in between. |
| `equities_total` | on a page with both rows that `docs/read-only-agents.md` names, the numbers of TOTAL EQUITIES GAIN/LOSS replace those of TOTAL EQUITIES, because `parsing/portfolio.py:106` looks for a label that both contain. (A row of the funds' gain or loss with the label of line 109 would do the same to their total.) |

Fairness. `TurnExecutor` assumes that threads keep running and every job ends:
HTTP requests, the model request and the browser calls have timeouts and the tool
loop is bounded (`TurnEnds`); `session.start` also relies on the operator answering
the password prompt. Nothing makes an operator type, a message arrive, `typing()`
succeed or the bot stop. `NodeSession` and `ModelServer` assume that their
threads run and every request, browser call and wait returns within its timeout;
nothing makes a session expire, a page navigate, a login be answered or a server
come up. Deadlock checking is off because all of these systems may stop: the
process exits, a turn ends, no operator types, a page is read.

## 5. What is proved

Every theorem is for every value of the constants, from the named assumptions of
the modules only.

`ConversationProofs`. `TrimIsLongest`: the two loops leave `LongestFitting`, the
longest suffix within both bounds. The first loop looks only at the turns, the
second only at the characters, and a longer suffix never weighs less
(`WeightGrows`), so both together stop at the first place that fits (`TrimStops`).
`TrimHistoryFits` and `RecordTurnType` rest on the same. `RecordTrimmed`: trimming after
every turn leaves what trimming the whole conversation once would, so the turns
dropped early are never missed later. The weight of a history and the place where
a loop stops are recursive functions, and what they compute is an induction over
data that the prover has no rule for; it is done by taking the least
counterexample (`LeastNumber`).

`TurnExecutorProofs`:

- `Inductive`: `Spec => []IInv`. The safety properties are not inductive as they
  stand. `IInv` adds: a job in a caller's hands was submitted (`Asked`); between
  `Dequeue` and the end of a job exactly the job in hand is running (`InHand`); a
  thread is inside the session only then, and holds the lock unless the job is
  the start (`Entered`); until the worker takes the start up it is at the head
  of the queue, and after that Playwright belongs to the worker (`StartFirst`);
  the teardown's outcome and what it left stand (`TeardownLast`).
- `TypeCorrect`, `Disciplined`, `ExitsClean`: `TypeOK`, `SessionDiscipline` and
  `CleanExit` always hold.
- `ClosedBetweenTurns`: `Spec => NoCloseUnderTurn`. Session and password change
  only in `FinishStart` and `FinishTeardown`, where the job in hand is no turn
  and, by `InHand`, no other job is running.
- `HistoryComplete`: `Spec => []HistorySeen`. The REPL records on another thread
  than Discord, after its turn is over. That a next turn never sees the history
  without it needs that the REPL has one task at a time (`OneAsked`) and that
  only `AwaitTurn` separates an answer from its record (`ReplUpToDate`,
  `Recorded`); `RecordTrimmed` makes the record of the new turn the trimmed
  record of all, and `TrimIsLongest` the newest turns that fit.
- `NobodyWaitsInVain`: `Spec => []Unblocked`. A job that a thread or handler
  waits for is settled, in the worker's hands or in the queue; what the main
  thread waits for is never cancelled; the worker can take up the head of the
  queue and never waits for the turn lock. The queue holds each pending job once
  and else only cancelled ones (`Line`), and a caller that waits has submitted
  (`Awaited`). This is the safety half of `TurnWaitEnds`, `MessageSettled` and
  `ExitReached`.
- `SerialSafety`: every step of the process is a step of `SerialTurns` or a
  stutter; the safety half of `ServesSerially`.
- `TurnsFollowLifecycle`: `Spec => FollowsLifecycle`. `Ordered` says that no turn
  is submitted before the front-ends are up, and no teardown before `main` leaves
  them; that a turn runs is read off the job in hand (`PhaseMap`).

`ToolLoopProofs`: `LoopTyped`, `ScreenshotsSentOnce`, `NeverReloggedIn`, for any
number of steps and replies. The strengthening: a turn has one run (`OneRun`),
the images that wait were taken by earlier steps (`Waiting`), and each taken was
sent once unless it waits (`Delivered`). `TurnBounded`: a turn is over after at
most `MaxSteps * (MaxParseRetries + 1) + 1` steps, because `Left` counts them
down; the safety half of `TurnEnds`.

`NodeSessionProofs`, for any number of nodes, logins and polls: `SessionTyped`,
`PingsNotStraddled`, `MirrorsServe`, `PinRemembered` and `LoginUsable` are the
properties of `NodeSession`. The strengthening says where the worker is in which
public method (`Placed`) and who has the lock (`Locked`); that the jar is empty
before it is filled (`Cleared`), from which `MirrorsServe` follows; that
sessions are numbered as they are minted (`Minted`); that the pin is the cached
one, or the one a login will go back to (`Remembered`); that nothing is posted,
and nothing moves the page, but by a login (`Still`). For `FreshLoginUsable`,
`Fresh` says that in a login submitted when no session was valid on the pinned
node neither the page, nor the pin, nor a cookie of the jar or the browser can
be taken for the new session's before the login has landed on that node
(`Landed`), and `Usable` that the node found then stays right. The invariant is
where the login's race is visible: without "submitted when no session was valid"
it is not inductive, and `safe_to_accept` shows why. That a step keeps the
invariant is one lemma per conjunct (`PlacedStep`, `LockedStep`, ...), and for
`Fresh` one per stage of a login. `LoginBounded`: a login takes at most `4 *
MaxPolls + 2` steps of its thread, a poll being four, and the keep-alive thread
does not have the lock meanwhile; `KeepaliveBounded`: once told to stop the
keep-alive thread has at most three steps left, nobody starts it again, and no
method of the session has the lock. They are the safety halves of `LoginSettles`
and `KeepaliveStops`.

`ModelServerProofs`, for any number of processes and polls: `ServerTyped`,
`ForeignNotStopped`, `OursRemembered`, `ProcNeedsNoLock` and `StopComplete` are
the invariants of `ModelServer`. The strengthening says who is in
`ensure_running` (`Called`) and in `stop` (`Stopping`), and that the one process
of ours that may be alive is `_proc` until main has stopped it (`Ours`,
`LeftNone`). `_proc` needs no lock because of `Seen`: from the REPL on the
server has been seen, so a turn looks for one again only after main's stop is
through with `_proc`. `StopFindsProc`: `stop` never finds `_proc` gone between
two of its steps. `EnsureBounded`: a call of `ensure_running` is over after at
most `MaxPolls + 8` steps of its own; the safety half of `EnsureEnds`.

`CurrentStockProofs`, for every set of stocks and every naming of them:
`NamedRight`, `UnknownRight` and `UndisturbedRight` are the three safety
invariants of `CurrentStock`. The strengthening says that trade prices are only
fetched for a stock whose own page was parsed (`StockKnown`), that a call which
has not returned has no result (`NoResultYet`), and that unless somebody else
quoted the current stock is the one the call set or none (`StockSet`).

`PageProofs`, for every page that satisfies the assumptions, and any length of it:

- Cells. `PrintedIsRead` (`to_decimal` undoes every way of printing a signed
  number) and `UnsignedIsRead`.
- Lists. A list that names a set of places in order is determined by the set
  (`ListsUnique`), and `InOrder` is that list (`InOrderLists`). What a parser
  gathers row by row and what a filter of the whole page leaves are both such
  lists, which is how they are compared.
- Account. `PortfolioSections` is `SectionsRight`: the lists hold the holdings
  above and below the first total of the equities that was read, in order
  (`Split`). `SummaryRead` is `TotalsRight`: after each row, each field of the
  summary shows the row of its label if that has been passed (`SummaryInv`); no
  later row replaces it, because by `SummaryAssumption` its label comes once. What
  a field shows of a row with dashes is the numbers in front of the first
  (`NumbersRead`, from `FirstInOrder`). The totals of the sections are the exception
  that `equities_total` is about: `TotalsRight` says nothing of one on a page that
  also shows the gain or loss of the section.
- Market. `SignsRead` and `DirectionsRead`, from the cells; `RowsListed` is
  `RowsKept`: the entries of the table being read are its rows with rank and symbol,
  or with two levels, so far
  (`RowListed`), those of the tables before it are complete.
- Guide. `DateAfterRows`, for any number of publications: the date is fetched
  after the table, so an edition seen by the second request is not older than
  the first's (`Dated`). `AnswerRight` is `ListingRight`: the entries are the
  entry rows so far, each under the label before it (`AnswerInv`), so a filter of
  the entries is the filter of the rows of the table.

`ReplyChunksProofs`: `AnswerTiled`, `RepliesInOrder` and `RepliesWhole`, for any
number of messages, any answers and any limit. The strengthening, for each
message by itself: the chunks tile what is split (`Tiled`), what is shown comes
before what is unsent (`Queued`), and a chunk with a letter is one of the two
(`Kept`).

Only model-checked: the liveness properties (`TurnWaitEnds`, `MessageSettled`,
`ExitReached`, `TurnEnds`, `LoginSettles`, `KeepaliveStops`, `EnsureEnds`) and the
fairness half of `ServesSerially`; liveness and `ENABLED` are out of the prover's
reach. What the code contributes to them is proved above: a measure that every
step lowers, or that whatever is waited for is on its way. What remains is that a
step which can be taken is taken, the fairness of section 4.

## 6. What is not modelled

Argument parsing, `config.py`, prompts and the keychain (pure or run once);
`schemas.py` and `exceptions.py` (data); the order-entry agent (one read-only
fetch and a refusal); `run_repl` without an executor (tests only); the columns
the parsers copy, the HTML trees below a row, wording, formatting and logging.

Four hazards in `PROJECT.json` have no property, because the code promises
nothing there: the observation of the last step is never shown to the model
(`orchestrator/loop.py:192`); a login answered after the deadline leaves the
browser on a node the client is not pinned to (`session/manager.py:381`); once
`ensure_running` has seen a server it never looks again, so a server that dies is
not brought up by later turns (`model/runtime.py:88`); and the buyers and the
sellers of one answer are two fetches (`agents/quotes.py:39`).

Three things seen while modelling of which no run is made. A turn taken up between
the teardown and the shutdown can also be answered, if it needs no tool that touches
the session; the comment at `__main__.py:249` says that it is cancelled or
fails. A dash in a total row, or for the balance, moves the numbers behind it to the
fields in front (`numbers_in`, `parsing/util.py:43`, drops what is no number), and a
balance of dashes only is looked for in the next row whatever that is
(`parsing/portfolio.py:66`); `TotalsRight` vouches for what comes before the first
dash and for nothing behind it, and no document says what such a page must give. A
ranked row with a blank symbol is not returned (`parsing/market_info.py:140` and
`185`), so that a gap in the ranks can also be such a row.
