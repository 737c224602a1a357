---------------------------- MODULE NodeSession ----------------------------
(***************************************************************************)
(* session/manager.py: the browser session and its fast lane, pinned to    *)
(* the sticky node that a login is assigned to, across logins, expiries,   *)
(* keep-alive pings, crashes and restarts.                                 *)
(*                                                                         *)
(* Three parties run concurrently: the session's own thread ("worker"),    *)
(* the keep-alive thread, and the world (the page, which navigates by      *)
(* itself, and the COL server).  COL is external: it is modelled from what *)
(* manager.py relies on.  A session cookie is valid only on the node that  *)
(* minted it; it may be scoped to that host or to the parent domain.       *)
(***************************************************************************)
EXTENDS Naturals, FiniteSets

CONSTANTS
    Nodes,        \* the phNN hosts
    DefaultNode,  \* the host of config.base_url
    MaxLogins,    \* bound: sessions the server mints
    MaxPolls      \* bound: polls that fit in auth_handoff_timeout_s

ASSUME NodeSessionAssumption ==
    /\ DefaultNode \in Nodes
    /\ MaxLogins \in Nat \ {0}
    /\ MaxPolls \in Nat
    /\ {"none", "junk", "login", "blank"} \cap Nodes = {}

Cookies == [login : 1 .. MaxLogins, node : Nodes, wide : BOOLEAN]
NoPing == [host |-> DefaultNode, jar |-> {}]

VARIABLES
    \* the world
    browser,    \* the profile's session cookies (survive the process)
    live,       \* the sessions the server still honours
    logins,     \* sessions minted so far
    page,       \* the host the page is on
    posting,    \* the login form is submitted and not answered
    redirect,   \* the node the page is about to move to
    \* SessionManager
    pin,        \* _host, and with it the client's base_url and Referer
    jar,        \* the client's cookies
    cache,      \* the node cache file (survives the process)
    creds,      \* are credentials held?
    lock,       \* _session_lock
    stop,       \* _stop_keepalive
    op,         \* the public method the worker is in
    polling,    \* is it inside _await_auth?
    pc,         \* and where
    previous,   \* _await_auth's previous
    polls,
    expired,    \* the last fetch_fragment raised SessionExpired
    \* the keep-alive thread
    kpc,
    ping,       \* the host and the cookies the ping in flight was sent with
    \* history variables
    lastLogin,  \* of this process; "redundant": submitted while a session was valid
    excused     \* the cache write failed, or nothing restored the pin

world == <<browser, live, logins, page, posting, redirect>>
client == <<pin, jar>>
locals == <<previous, polls>>
worker == <<op, polling, pc, locals, expired>>
keepalive == <<kpc, ping>>
ghosts == <<lastLogin, excused>>
vars == <<world, client, cache, creds, lock, stop, worker, keepalive, ghosts>>

TypeOK ==
    /\ browser \in SUBSET Cookies
    /\ live \in SUBSET Cookies
    /\ logins \in 0 .. MaxLogins
    /\ page \in Nodes \cup {"login", "blank"}
    /\ posting \in BOOLEAN
    /\ redirect \in Nodes \cup {"none"}
    /\ pin \in Nodes
    /\ jar \in SUBSET Cookies
    /\ cache \in Nodes \cup {"none", "junk"}
    /\ creds \in BOOLEAN
    /\ lock \in {"free", "worker", "keepalive"}
    /\ stop \in BOOLEAN
    /\ op \in {"none", "start", "relogin", "fetch"}
    /\ polling \in BOOLEAN
    /\ pc \in {"down", "ready", "sync", "fill", "get", "form", "poll", "accept",
               "shoot", "close", "closed"}
    /\ previous \in Nodes
    /\ polls \in 0 .. MaxPolls
    /\ expired \in BOOLEAN
    /\ kpc \in {"off", "waiting", "wantLock", "inFlight"}
    /\ ping \in [host : Nodes, jar : SUBSET Cookies]
    /\ lastLogin \in {"none", "sound", "redundant", "failed"}
    /\ excused \in BOOLEAN

\* A first run, or one after another: a cold or a warm profile, with whatever
\* the cache file holds.
Init ==
    /\ \/ browser = {} /\ logins = 0
       \/ \E c \in Cookies : c.login = 1 /\ browser = {c} /\ logins = 1
    /\ live = browser
    /\ page = "blank" /\ posting = FALSE /\ redirect = "none"
    /\ pin = DefaultNode /\ jar = {}
    /\ cache \in Nodes \cup {"none", "junk"}
    /\ creds = FALSE
    /\ lock = "free" /\ stop = FALSE
    /\ op = "none" /\ polling = FALSE /\ pc = "down"
    /\ previous = DefaultNode /\ polls = 0 /\ expired = FALSE
    /\ kpc = "off" /\ ping = NoPing
    /\ lastLogin = "none" /\ excused = FALSE

-----------------------------------------------------------------------------
\* A store of cookies has one entry for the parent domain and one for each host;
\* setting a cookie replaces the one of its scope only.
SameScope(c, d) == c.wide = d.wide /\ (c.wide \/ c.node = d.node)
Stored(store, new) == {d \in store : \A c \in new : ~ SameScope(c, d)} \cup new

\* The cookies of a store that go with a request to a host.
Sent(store, host) == {c \in store : c.wide \/ c.node = host}

\* A session is valid on the node that minted it.  Which of several session cookies
\* COL goes by is left open: a request may be authenticated by any of them, and
\* refused for any of them.
Valid(c, host) == c \in live /\ c.node = host
MayServe(store, host) == \E c \in Sent(store, host) : Valid(c, host)
MayRefuse(store, host) ==
    Sent(store, host) = {} \/ \E c \in Sent(store, host) : ~ Valid(c, host)

\* context.cookies(node_base_url): the browser's cookies for the pinned host.
BrowserCookies == Sent(browser, pin)

-----------------------------------------------------------------------------
(* start, up to the first probe.                                           *)

\* Mutation: whatever the file holds is pinned.
CachedPinUnchecked == cache

\* _apply_cached_node: only a well-formed node name is pinned.
CachedPin == IF cache \in Nodes THEN cache ELSE DefaultNode

Start ==
    /\ pc = "down"
    /\ pin' = CachedPin
    /\ op' = "start"
    /\ pc' = "sync"
    /\ UNCHANGED <<world, jar, cache, creds, lock, stop, polling, locals, expired,
                   keepalive, ghosts>>

\* start raises before it has pinned anything: sync Playwright or the browser
\* does not come up.  main still closes the session.
LaunchFails ==
    /\ pc = "down"
    /\ stop' = TRUE
    /\ pc' = "close"
    /\ UNCHANGED <<world, client, cache, creds, lock, op, polling, locals, expired,
                   keepalive, ghosts>>

-----------------------------------------------------------------------------
(* _sync_cookies: clear, then set, under the re-entrant session lock, which *)
(* relogin already holds.                                                   *)

\* Mutations of SyncClear: no lock; a lock that is not re-entrant; the browser's
\* cookies merged into the jar instead of replacing it.
SyncUnlocked ==
    /\ pc = "sync"
    /\ jar' = {}
    /\ pc' = "fill"
    /\ UNCHANGED <<world, pin, cache, creds, lock, stop, op, polling, locals, expired,
                   keepalive, ghosts>>

SyncNotReentrant ==
    /\ pc = "sync"
    /\ lock = "free"
    /\ lock' = "worker"
    /\ jar' = {}
    /\ pc' = "fill"
    /\ UNCHANGED <<world, pin, cache, creds, stop, op, polling, locals, expired,
                   keepalive, ghosts>>

SyncMerge ==
    /\ pc = "sync"
    /\ lock \in {"free", "worker"}
    /\ lock' = "worker"
    /\ pc' = "fill"
    /\ UNCHANGED <<world, client, cache, creds, stop, op, polling, locals, expired,
                   keepalive, ghosts>>

SyncClear ==
    /\ pc = "sync"
    /\ lock \in {"free", "worker"}
    /\ lock' = "worker"
    /\ jar' = {}
    /\ pc' = "fill"
    /\ UNCHANGED <<world, pin, cache, creds, stop, op, polling, locals, expired,
                   keepalive, ghosts>>

SyncFill ==
    /\ pc = "fill"
    /\ jar' = Stored(jar, BrowserCookies)
    /\ lock' = IF op = "relogin" THEN lock ELSE "free"
    /\ pc' = "get"
    /\ UNCHANGED <<world, pin, cache, creds, stop, op, polling, locals, expired,
                   keepalive, ghosts>>

-----------------------------------------------------------------------------
(* is_authenticated and what start, _await_auth and fetch_fragment do next. *)

Release == lock' = IF lock = "worker" THEN "free" ELSE lock

StartKeepalive == kpc' = IF kpc = "off" THEN "waiting" ELSE kpc

\* The public method returns, and its local variables are gone.
Return ==
    /\ op' = "none"
    /\ polling' = FALSE
    /\ pc' = "ready"
    /\ Release
    /\ previous' = DefaultNode /\ polls' = 0

\* An exception out of start reaches main, which tears the session down; one
\* out of relogin or fetch_fragment reaches a front-end, which may go on.
Unwind ==
    /\ op' = "none"
    /\ polling' = FALSE
    /\ pc' = IF op = "start" THEN "close" ELSE "ready"
    /\ Release
    /\ stop' = (stop \/ op = "start")
    /\ previous' = DefaultNode /\ polls' = 0

\* page.goto(login_url): whatever the page was waiting for is given up.
GoToLogin == page' = "login" /\ posting' = FALSE /\ redirect' = "none"

\* The browser is gone, or does not answer, when its cookies are asked for: the
\* jar has been cleared and the with block lets go of the lock.
CookiesRaise ==
    /\ pc = "fill"
    /\ lastLogin' = IF polling THEN "failed" ELSE lastLogin
    /\ excused' = (excused \/ polling)
    /\ Unwind
    /\ UNCHANGED <<world, client, cache, creds, expired, keepalive>>

\* A warm profile: the page goes to the app's home.
ProbeWarm ==
    /\ pc = "get" /\ op = "start" /\ ~ polling
    /\ MayServe(jar, pin)
    /\ page' = pin
    /\ Return
    /\ StartKeepalive
    /\ UNCHANGED <<browser, live, logins, posting, redirect, client, cache, creds, stop,
                   expired, ping, ghosts>>

\* Not authenticated, or the probe failed over HTTP: credentials are asked for
\* if none are held, and the page goes to the login form.
ProbeCold ==
    /\ pc = "get" /\ op = "start" /\ ~ polling
    /\ creds' = TRUE
    /\ GoToLogin
    /\ pc' = "form"
    /\ UNCHANGED <<browser, live, logins, client, cache, lock, stop, op, polling, locals,
                   expired, keepalive, ghosts>>

\* Nobody provides credentials, the prompt is interrupted, or the login page
\* cannot be opened.
StartRaises ==
    /\ pc = "get" /\ op = "start" /\ ~ polling
    /\ creds' \in {creds, TRUE}
    /\ Unwind
    /\ UNCHANGED <<world, client, cache, expired, keepalive, ghosts>>

\* Mutation: any 200 without a logout marker counts, from whatever host.
ProbeAcceptsBounce ==
    /\ pc = "get" /\ polling
    /\ pc' = "accept"
    /\ UNCHANGED <<world, client, cache, creds, lock, stop, op, polling, locals, expired,
                   keepalive, ghosts>>

ProbeAccepts ==
    /\ pc = "get" /\ polling
    /\ MayServe(jar, pin)
    /\ pc' = "accept"
    /\ UNCHANGED <<world, client, cache, creds, lock, stop, op, polling, locals, expired,
                   keepalive, ghosts>>

ProbeRejects ==
    /\ pc = "get" /\ polling
    /\ pc' = "poll"
    /\ UNCHANGED <<world, client, cache, creds, lock, stop, op, polling, locals, expired,
                   keepalive, ghosts>>

-----------------------------------------------------------------------------
(* _login and _await_auth.                                                 *)

\* The form is filled and submitted the way the page's own button does it.
SubmitForm ==
    /\ pc = "form"
    /\ posting' = TRUE
    /\ previous' = pin
    /\ polling' = TRUE
    /\ pc' = "poll"
    /\ lastLogin' = IF \E c \in browser : Valid(c, pin) THEN "redundant" ELSE "sound"
    /\ UNCHANGED <<browser, live, logins, page, redirect, client, cache, creds, lock, stop, op,
                   polls, expired, keepalive, excused>>

\* The form is not there, or cannot be filled.
FormMissing ==
    /\ pc = "form"
    /\ lastLogin' = "failed"
    /\ Unwind
    /\ UNCHANGED <<world, client, cache, creds, expired, keepalive, excused>>

\* One poll reads the page's URL once; a page on another node re-pins.
Poll ==
    /\ pc = "poll"
    /\ polls < MaxPolls
    /\ polls' = polls + 1
    /\ pin' = IF page \in Nodes THEN page ELSE pin
    /\ pc' = "sync"
    /\ UNCHANGED <<world, jar, cache, creds, lock, stop, op, polling, previous, expired,
                   keepalive, ghosts>>

\* _cache_node, then page.goto(home); the write may fail without failing the
\* login, the navigation may raise.
Accept ==
    /\ pc = "accept"
    /\ \/ cache' = pin /\ excused' = FALSE
       \/ UNCHANGED cache /\ excused' = TRUE
    /\ posting' = FALSE /\ redirect' = "none"
    /\ \/ page' = pin /\ Return /\ StartKeepalive /\ UNCHANGED stop
       \/ UNCHANGED <<page, kpc>> /\ Unwind
    /\ UNCHANGED <<browser, live, logins, client, creds, expired, ping, lastLogin>>

\* Mutation: the pin left where the failed login took it.
DeadlineKeepingPin ==
    /\ pc = "poll"
    /\ lastLogin' = "failed"
    /\ Unwind
    /\ UNCHANGED <<world, client, cache, creds, expired, keepalive, excused>>

\* The deadline passed: the previous pin is restored and LoginFailed raised.
\* The form's answer may still be on its way.
Deadline ==
    /\ pc = "poll"
    /\ pin' = previous
    /\ lastLogin' = "failed"
    /\ Unwind
    /\ UNCHANGED <<world, jar, cache, creds, expired, keepalive, excused>>

\* Any other exception while polling (the page is gone, its URL cannot be
\* read): nothing restores the pin.
PollRaises ==
    /\ pc = "poll"
    /\ lastLogin' = "failed"
    /\ excused' = TRUE
    /\ Unwind
    /\ UNCHANGED <<world, client, cache, creds, expired, keepalive>>

-----------------------------------------------------------------------------
(* fetch_fragment, relogin, screenshot, close.                             *)

Fetch ==
    /\ pc = "ready"
    /\ op' = "fetch"
    /\ pc' = "sync"
    /\ UNCHANGED <<world, client, cache, creds, lock, stop, polling, locals, expired,
                   keepalive, ghosts>>

\* A request that is not authenticated is bounced off the node or answered with
\* a logout page; any request may fail over HTTP.
FetchOutcomes ==
    {"HTTPError"} \cup {x \in {"fragment"} : MayServe(jar, pin)}
                  \cup {x \in {"NodePinningError", "SessionExpired"} : MayRefuse(jar, pin)}

FetchReturns ==
    /\ pc = "get" /\ op = "fetch"
    /\ \E outcome \in FetchOutcomes : expired' = (outcome = "SessionExpired")
    /\ Return
    /\ UNCHANGED <<world, client, cache, creds, stop, keepalive, ghosts>>

\* Called by answer_task after SessionExpired; without credentials it raises at
\* once and changes nothing.
Relogin ==
    /\ pc = "ready"
    /\ expired
    /\ creds
    /\ lock = "free"
    /\ lock' = "worker"
    /\ GoToLogin
    /\ expired' = FALSE
    /\ op' = "relogin"
    /\ pc' = "form"
    /\ UNCHANGED <<browser, live, logins, client, cache, creds, stop, polling, locals,
                   keepalive, ghosts>>

\* screenshot looks at the URL and, in a later call, captures the page.
CheckPage ==
    /\ pc = "ready"
    /\ page # "login"
    /\ pc' = "shoot"
    /\ UNCHANGED <<world, client, cache, creds, lock, stop, op, polling, locals, expired,
                   keepalive, ghosts>>

Shoot ==
    /\ pc = "shoot"
    /\ pc' = "ready"
    /\ UNCHANGED <<world, client, cache, creds, lock, stop, op, polling, locals, expired,
                   keepalive, ghosts>>

Close ==
    /\ pc = "ready"
    /\ stop' = TRUE
    /\ pc' = "close"
    /\ UNCHANGED <<world, client, cache, creds, lock, op, polling, locals, expired,
                   keepalive, ghosts>>

\* join(timeout=5) gives up on a ping that takes longer; the browser and the
\* client are closed in either case.
FinishClose ==
    /\ pc = "close"
    /\ page' = "blank" /\ posting' = FALSE /\ redirect' = "none"
    /\ pc' = "closed"
    /\ UNCHANGED <<browser, live, logins, client, cache, creds, lock, stop, op, polling,
                   locals, expired, keepalive, ghosts>>

-----------------------------------------------------------------------------
(* The process ends, in order or by a crash, and starts again.             *)

\* The profile keeps what cookies it has (BrowserDrops is what it loses).  A crash
\* while the cache is being written leaves the old file, an empty one or the new one.
ProcessEnds ==
    /\ pc # "down"
    /\ page' = "blank" /\ posting' = FALSE /\ redirect' = "none"
    /\ cache' \in IF pc = "accept" THEN {cache, "none", pin} ELSE {cache}
    /\ pin' = DefaultNode /\ jar' = {}
    /\ creds' = FALSE /\ lock' = "free" /\ stop' = FALSE
    /\ op' = "none" /\ polling' = FALSE /\ pc' = "down"
    /\ previous' = DefaultNode /\ polls' = 0 /\ expired' = FALSE
    /\ kpc' = "off" /\ ping' = NoPing
    /\ lastLogin' = "none" /\ excused' = FALSE
    /\ UNCHANGED <<browser, live, logins>>

-----------------------------------------------------------------------------
(* The keep-alive thread.                                                  *)

KeepaliveDue ==
    /\ kpc = "waiting"
    /\ ~ stop
    /\ kpc' = "wantLock"
    /\ UNCHANGED <<world, client, cache, creds, lock, stop, worker, ping, ghosts>>

\* Mutation: the loop sleeps instead of waiting for the stop event.
KeepaliveNeverStops ==
    /\ kpc = "waiting"
    /\ kpc' = "wantLock"
    /\ UNCHANGED <<world, client, cache, creds, lock, stop, worker, ping, ghosts>>

KeepaliveEnds ==
    /\ kpc = "waiting"
    /\ stop
    /\ kpc' = "off"
    /\ UNCHANGED <<world, client, cache, creds, lock, stop, worker, ping, ghosts>>

SendPing ==
    /\ kpc = "wantLock"
    /\ lock = "free"
    /\ lock' = "keepalive"
    /\ ping' = [host |-> pin, jar |-> jar]
    /\ kpc' = "inFlight"
    /\ UNCHANGED <<world, client, cache, creds, stop, worker, ghosts>>

PingReturns ==
    /\ kpc = "inFlight"
    /\ lock' = "free"
    /\ kpc' = "waiting"
    /\ ping' = NoPing
    /\ UNCHANGED <<world, client, cache, creds, stop, worker, ghosts>>

-----------------------------------------------------------------------------
(* The world.                                                              *)

\* The login is answered: a session is minted on some node, its cookie joins the
\* browser's, other sessions of the user may end, and the page is sent to the node;
\* or it is rejected.
LoginLands ==
    /\ posting
    /\ posting' = FALSE
    /\ logins < MaxLogins
    /\ logins' = logins + 1
    /\ \E n \in Nodes, w \in BOOLEAN :
           LET c == [login |-> logins + 1, node |-> n, wide |-> w]
           IN  /\ browser' = Stored(browser, {c})
               /\ live' \in {live \cup {c}, {c}}
               /\ redirect' = n
    /\ UNCHANGED <<page, client, cache, creds, lock, stop, worker, keepalive, ghosts>>

LoginRejected ==
    /\ posting
    /\ posting' = FALSE
    /\ UNCHANGED <<browser, live, logins, page, redirect, client, cache, creds, lock, stop,
                   worker, keepalive, ghosts>>

\* The redirect is client-side script: it may come late, or never.
PageArrives ==
    /\ redirect # "none"
    /\ page' = redirect
    /\ redirect' = "none"
    /\ UNCHANGED <<browser, live, logins, posting, client, cache, creds, lock, stop,
                   worker, keepalive, ghosts>>

\* The idle watchdog of the page, when its node refuses the browser.
PageBounces ==
    /\ page \in Nodes
    /\ MayRefuse(browser, page)
    /\ page' = "login"
    /\ UNCHANGED <<browser, live, logins, posting, redirect, client, cache, creds, lock, stop,
                   worker, keepalive, ghosts>>

Expire ==
    /\ \E c \in live : live' = live \ {c}
    /\ UNCHANGED <<browser, logins, page, posting, redirect, client, cache, creds, lock, stop,
                   worker, keepalive, ghosts>>

\* A cookie is deleted by an answer or a page's script, is past its date, or was
\* meant for one run of the browser only.
BrowserDrops ==
    /\ \E c \in browser : browser' = browser \ {c}
    /\ UNCHANGED <<live, logins, page, posting, redirect, client, cache, creds, lock, stop,
                   worker, keepalive, ghosts>>

-----------------------------------------------------------------------------
\* Steps the worker takes without being asked to.
WorkerStep ==
    \/ SyncClear \/ SyncFill \/ CookiesRaise
    \/ ProbeWarm \/ ProbeCold \/ StartRaises \/ ProbeAccepts \/ ProbeRejects
    \/ SubmitForm \/ FormMissing \/ Poll \/ Accept \/ Deadline \/ PollRaises
    \/ FetchReturns \/ Shoot \/ FinishClose

KeepaliveStep == KeepaliveEnds \/ SendPing \/ PingReturns

Calls == Start \/ LaunchFails \/ Fetch \/ Relogin \/ CheckPage \/ Close

World ==
    \/ ProcessEnds \/ KeepaliveDue
    \/ LoginLands \/ LoginRejected \/ PageArrives \/ PageBounces \/ Expire \/ BrowserDrops

Next == WorkerStep \/ KeepaliveStep \/ Calls \/ World

\* Both threads run, and every request and browser call returns within its
\* timeout.  Nothing makes a caller call, a session expire, a page navigate or
\* the server answer.
Spec ==
    /\ Init
    /\ [][Next]_vars
    /\ WF_vars(WorkerStep)
    /\ WF_vars(KeepaliveStep)

-----------------------------------------------------------------------------
\* A ping in flight never straddles a re-pin or a rebuild of the cookie jar:
\* what it was sent with is what its answer is judged by.
PingNotStraddled ==
    kpc = "inFlight" => ping = [host |-> pin, jar |-> jar] /\ pc # "fill"

\* Whenever the session is ready for use its pin is the one the next process
\* will start from, also after a login that failed half way through a re-pin.
PinAgreesWithCache ==
    pc = "ready" /\ ~ excused => pin = CachedPin

\* After a login, and until its session expires, that is valid on the pinned node:
\* no login is accepted on a node it was not assigned to, by whichever of the
\* browser's cookies, and none lands on another node after it was accepted.
\* Excepted is a login that was submitted although a session was still valid.
NewestOnPin == \A c \in browser \cap live : c.login = logins => c.node = pin
FreshLoginUsable == pc = "ready" /\ lastLogin = "sound" => NewestOnPin

\* _await_auth's docstring: a successful probe of the current pin is safe to
\* accept, whatever page the browser is on.
ProbeSafeToAccept == pc = "ready" /\ lastLogin \in {"sound", "redundant"} => NewestOnPin

\* _sync_cookies' docstring: mirror means replace.  If the browser's one session
\* cookie for the pinned host is valid there, a request sent on the rebuilt jar is
\* not refused, whatever other cookies earlier logins had left in the jar and the
\* browser has dropped or re-scoped since.
MirrorServes ==
    [][SyncFill => \A c \in live : BrowserCookies = {c} /\ c.node = pin
                                     => ~ MayRefuse(jar, pin)']_vars

\* start and relogin end, so a re-login always lets go of the session lock.
LoginSettles == pc \in {"form", "poll"} ~> pc \in {"ready", "close", "down"}

\* Once the session is being closed the keep-alive thread ends.
KeepaliveStops == stop ~> kpc = "off"

\* The module's docstring: screenshots, but never of the login page.
NeverCapturesLogin == [][Shoot => page # "login"]_vars
=============================================================================
