------------------------- MODULE NodeSessionProofs -------------------------
(***************************************************************************)
(* For any number of nodes, logins and polls: the client's cookies and pin  *)
(* agree with the browser's and the server's where the fast lane, the next  *)
(* process and a caller of relogin rely on it.                              *)
(***************************************************************************)
EXTENDS NodeSession, TLAPS

\* Where the worker is in which public method.
Placed ==
    /\ op = "none" <=> pc \in {"down", "ready", "shoot", "close", "closed"}
    /\ pc \in {"form", "poll", "accept"} => op # "fetch"
    /\ pc \in {"poll", "accept"} => polling
    /\ pc = "form" => ~ polling
    /\ op \in {"none", "fetch"} => ~ polling
    /\ op = "relogin" => pc = "form" \/ polling

\* Whoever has the session lock: a ping, a re-login, or a rebuild of the jar.
Locked ==
    /\ lock = "keepalive" <=> kpc = "inFlight"
    /\ lock = "worker" <=> pc = "fill" \/ op = "relogin"
    /\ pc = "down" \/ op = "start" => kpc = "off"

\* Nothing is put in the jar between its clearing and its filling.
Cleared == pc = "fill" => jar = {}

\* The sessions are numbered in the order in which they are minted.
Minted == \A c \in browser \cup live : c.login <= logins

\* The pin is the cached one, but for a login under way, which knows the pin to go
\* back to.
Remembered ==
    ~ excused =>
        /\ polling => previous = CachedPin
        /\ ~ polling /\ pc \notin {"down", "close", "closed"} => pin = CachedPin

\* Nothing is posted, and nothing leads the page away, but by a login.
Still ==
    /\ pc = "down" \/ (op = "start" /\ ~ polling) => lastLogin = "none"
    /\ pc = "form" => page = "login" /\ ~ posting /\ redirect = "none"

\* The login was answered, with a session on node n.
Landed(n) == ~ posting /\ \A c \in browser \cup live : c.login = logins => c.node = n

\* A login that was submitted when no session was valid on the pinned node: no cookie
\* of the browser's and none of the jar's is, neither is the page moved, nor the
\* client re-pinned, before the new session is there, and then only to its node.
Fresh ==
    lastLogin = "sound" /\ polling =>
        /\ page \in Nodes => Landed(page)
        /\ redirect # "none" => Landed(redirect)
        /\ pin # previous => Landed(pin)
        /\ \A c \in browser : Valid(c, pin) => Landed(pin)
        /\ pc = "get" => \A c \in jar : Valid(c, pin) => Landed(pin)
        /\ pc = "accept" => Landed(pin)

\* And after it the newest session is of the pinned node for as long as it lives.
Usable ==
    lastLogin = "sound" /\ (pc \in {"ready", "shoot"} \/ op = "fetch") => Landed(pin)

IInv ==
    /\ TypeOK /\ Placed /\ Locked /\ Cleared /\ Minted /\ Remembered /\ Still /\ Fresh /\ Usable
    /\ PingNotStraddled
-----------------------------------------------------------------------------
\* The variables that are true or false, for themselves: a prover that does sets of
\* truth values well does not do the rest.
Flags ==
    /\ posting \in BOOLEAN /\ creds \in BOOLEAN /\ stop \in BOOLEAN
    /\ polling \in BOOLEAN /\ expired \in BOOLEAN /\ excused \in BOOLEAN

LEMMA FlagsStep == Flags /\ [Next]_vars => Flags'
<1> SUFFICES ASSUME Flags, [Next]_vars PROVE Flags'
  OBVIOUS
<1> USE DEF Flags, world, client, locals, worker, keepalive, ghosts, Return, Unwind, GoToLogin
<1>1. CASE Start
  BY <1>1, Zenon DEF Start
<1>2. CASE LaunchFails
  BY <1>2, Zenon DEF LaunchFails
<1>3. CASE SyncClear
  BY <1>3, Zenon DEF SyncClear
<1>4. CASE SyncFill
  BY <1>4, Zenon DEF SyncFill
<1>5. CASE CookiesRaise
  BY <1>5, Zenon DEF CookiesRaise
<1>6. CASE ProbeWarm
  BY <1>6, Zenon DEF ProbeWarm
<1>7. CASE ProbeCold
  BY <1>7, Zenon DEF ProbeCold
<1>8. CASE StartRaises
  BY <1>8, Zenon DEF StartRaises
<1>9. CASE ProbeAccepts
  BY <1>9, Zenon DEF ProbeAccepts
<1>10. CASE ProbeRejects
  BY <1>10, Zenon DEF ProbeRejects
<1>11. CASE SubmitForm
  BY <1>11, Zenon DEF SubmitForm
<1>12. CASE FormMissing
  BY <1>12, Zenon DEF FormMissing
<1>13. CASE Poll
  BY <1>13, Zenon DEF Poll
<1>14. CASE Accept
  BY <1>14, Zenon DEF Accept
<1>15. CASE Deadline
  BY <1>15, Zenon DEF Deadline
<1>16. CASE PollRaises
  BY <1>16, Zenon DEF PollRaises
<1>17. CASE Fetch
  BY <1>17, Zenon DEF Fetch
<1>18. CASE FetchReturns
  BY <1>18, Zenon DEF FetchReturns
<1>19. CASE Relogin
  BY <1>19, Zenon DEF Relogin
<1>20. CASE CheckPage
  BY <1>20, Zenon DEF CheckPage
<1>21. CASE Shoot
  BY <1>21, Zenon DEF Shoot
<1>22. CASE Close
  BY <1>22, Zenon DEF Close
<1>23. CASE FinishClose
  BY <1>23, Zenon DEF FinishClose
<1>24. CASE ProcessEnds
  BY <1>24, Zenon DEF ProcessEnds
<1>25. CASE KeepaliveDue
  BY <1>25, Zenon DEF KeepaliveDue
<1>26. CASE KeepaliveEnds
  BY <1>26, Zenon DEF KeepaliveEnds
<1>27. CASE SendPing
  BY <1>27, Zenon DEF SendPing
<1>28. CASE PingReturns
  BY <1>28, Zenon DEF PingReturns
<1>29. CASE LoginLands
  BY <1>29, Zenon DEF LoginLands
<1>30. CASE LoginRejected
  BY <1>30, Zenon DEF LoginRejected
<1>31. CASE PageArrives
  BY <1>31, Zenon DEF PageArrives
<1>32. CASE PageBounces
  BY <1>32, Zenon DEF PageBounces
<1>33. CASE Expire
  BY <1>33, Zenon DEF Expire
<1>34. CASE UNCHANGED vars
  BY <1>34, Zenon DEF vars
<1>35. CASE BrowserDrops
  BY <1>35, Zenon DEF BrowserDrops
<1> QED
  BY <1>1, <1>2, <1>3, <1>4, <1>5, <1>6, <1>7, <1>8, <1>9, <1>10, <1>11, <1>12, <1>13,
     <1>14, <1>15, <1>16, <1>17, <1>18, <1>19, <1>20, <1>21, <1>22, <1>23, <1>24, <1>25,
     <1>26, <1>27, <1>28, <1>29, <1>30, <1>31, <1>32, <1>33, <1>34, <1>35
     DEF Next, WorkerStep, KeepaliveStep, Calls, World

LEMMA TypeStep == IInv /\ [Next]_vars => TypeOK'
<1> SUFFICES ASSUME IInv, [Next]_vars PROVE TypeOK'
  OBVIOUS
<1>f. Flags'
  BY FlagsStep DEF IInv, TypeOK, Flags
<1> USE NodeSessionAssumption DEF IInv, TypeOK, Flags,
        world, client, locals, worker, keepalive, ghosts, Return, Release, Unwind, GoToLogin,
        StartKeepalive, CachedPin, BrowserCookies, Sent, Stored, NoPing
<1>1. CASE Start
  BY <1>1, <1>f DEF Start
<1>2. CASE LaunchFails
  BY <1>2, <1>f DEF LaunchFails
<1>3. CASE SyncClear
  BY <1>3, <1>f DEF SyncClear
<1>4. CASE SyncFill
  BY <1>4, <1>f DEF SyncFill
<1>5. CASE CookiesRaise
  BY <1>5, <1>f DEF CookiesRaise
<1>6. CASE ProbeWarm
  BY <1>6, <1>f DEF ProbeWarm
<1>7. CASE ProbeCold
  BY <1>7, <1>f DEF ProbeCold
<1>8. CASE StartRaises
  BY <1>8, <1>f DEF StartRaises
<1>9. CASE ProbeAccepts
  BY <1>9, <1>f DEF ProbeAccepts
<1>10. CASE ProbeRejects
  BY <1>10, <1>f DEF ProbeRejects
<1>11. CASE SubmitForm
  BY <1>11, <1>f DEF SubmitForm
<1>12. CASE FormMissing
  BY <1>12, <1>f DEF FormMissing
<1>13. CASE Poll
  BY <1>13, <1>f DEF Poll
<1>14. CASE Accept
  BY <1>14, <1>f DEF Accept
<1>15. CASE Deadline
  BY <1>15, <1>f DEF Deadline
<1>16. CASE PollRaises
  BY <1>16, <1>f DEF PollRaises
<1>17. CASE Fetch
  BY <1>17, <1>f DEF Fetch
<1>18. CASE FetchReturns
  BY <1>18, <1>f DEF FetchReturns
<1>19. CASE Relogin
  BY <1>19, <1>f DEF Relogin
<1>20. CASE CheckPage
  BY <1>20, <1>f DEF CheckPage
<1>21. CASE Shoot
  BY <1>21, <1>f DEF Shoot
<1>22. CASE Close
  BY <1>22, <1>f DEF Close
<1>23. CASE FinishClose
  BY <1>23, <1>f DEF FinishClose
<1>24. CASE ProcessEnds
  BY <1>24, <1>f DEF ProcessEnds
<1>25. CASE KeepaliveDue
  BY <1>25, <1>f DEF KeepaliveDue
<1>26. CASE KeepaliveEnds
  BY <1>26, <1>f DEF KeepaliveEnds
<1>27. CASE SendPing
  BY <1>27, <1>f DEF SendPing
<1>28. CASE PingReturns
  BY <1>28, <1>f DEF PingReturns
<1>29. CASE LoginLands
  <2>1. PICK n \in Nodes, w \in BOOLEAN :
            LET c == [login |-> logins + 1, node |-> n, wide |-> w]
            IN  browser' = Stored(browser, {c}) /\ live' \in {live \cup {c}, {c}} /\ redirect' = n
    BY <1>29 DEF LoginLands
  <2>2. logins + 1 \in 1 .. MaxLogins /\ logins' = logins + 1
    BY <1>29 DEF LoginLands
  <2>3. [login |-> logins + 1, node |-> n, wide |-> w] \in Cookies
    BY <2>2 DEF Cookies
  <2>4. browser' \in SUBSET Cookies /\ live' \in SUBSET Cookies /\ redirect' \in Nodes
    BY <2>1, <2>3 DEF Stored
  <2> QED BY <1>29, <1>f, <2>2, <2>4 DEF LoginLands
<1>30. CASE LoginRejected
  BY <1>30, <1>f DEF LoginRejected
<1>31. CASE PageArrives
  BY <1>31, <1>f DEF PageArrives
<1>32. CASE PageBounces
  BY <1>32, <1>f DEF PageBounces
<1>33. CASE Expire
  BY <1>33, <1>f DEF Expire
<1>34. CASE UNCHANGED vars
  BY <1>34, <1>f DEF vars
<1>35. CASE BrowserDrops
  BY <1>35, <1>f DEF BrowserDrops
<1> QED
  BY <1>1, <1>2, <1>3, <1>4, <1>5, <1>6, <1>7, <1>8, <1>9, <1>10, <1>11, <1>12, <1>13,
     <1>14, <1>15, <1>16, <1>17, <1>18, <1>19, <1>20, <1>21, <1>22, <1>23, <1>24, <1>25,
     <1>26, <1>27, <1>28, <1>29, <1>30, <1>31, <1>32, <1>33, <1>34, <1>35
     DEF Next, WorkerStep, KeepaliveStep, Calls, World

\* The worker moves from method to method by its own steps only.
LEMMA PlacedStep ==
    ASSUME Flags, Placed, [Next]_vars
    PROVE  Placed'
<1> USE DEF Flags, Placed
<1>1. ASSUME UNCHANGED worker PROVE Placed'
  BY <1>1 DEF worker
<1>2. CASE Start \/ LaunchFails \/ Fetch \/ Relogin \/ CheckPage \/ Close
  BY <1>2 DEF Start, LaunchFails, Fetch, Relogin, CheckPage, Close
<1>3. CASE SyncClear \/ SyncFill \/ ProbeCold \/ ProbeAccepts \/ ProbeRejects \/ SubmitForm \/ Poll
  BY <1>3 DEF SyncClear, SyncFill, ProbeCold, ProbeAccepts, ProbeRejects, SubmitForm, Poll
<1>4. CASE ProbeWarm \/ FetchReturns
  BY <1>4 DEF ProbeWarm, FetchReturns, Return
<1>5. CASE CookiesRaise \/ StartRaises \/ FormMissing \/ Deadline \/ PollRaises
  BY <1>5 DEF CookiesRaise, StartRaises, FormMissing, Deadline, PollRaises, Unwind
<1>6. CASE Accept
  BY <1>6 DEF Accept, Return, Unwind
<1>7. CASE Shoot \/ FinishClose \/ ProcessEnds
  BY <1>7 DEF Shoot, FinishClose, ProcessEnds
<1>8. CASE KeepaliveStep \/ (World /\ ~ ProcessEnds) \/ UNCHANGED vars
  BY <1>1, <1>8 DEF KeepaliveStep, KeepaliveEnds, SendPing, PingReturns, World, KeepaliveDue,
     LoginLands, LoginRejected, PageArrives, PageBounces, Expire, BrowserDrops, vars
<1> QED BY <1>2, <1>3, <1>4, <1>5, <1>6, <1>7, <1>8 DEF Next, WorkerStep, Calls

\* The worker takes the lock in SyncClear and in Relogin, and lets go of it where the
\* with block ends; the keep-alive thread has it for as long as a ping is in flight.
LEMMA LockedStep ==
    ASSUME TypeOK, Placed, Locked, [Next]_vars
    PROVE  Locked'
<1> USE DEF TypeOK, Placed, Locked
<1>1. ASSUME UNCHANGED <<lock, kpc, pc, op>> PROVE Locked'
  BY <1>1
<1>2. CASE SyncClear
  BY <1>2 DEF SyncClear, keepalive
<1>3. CASE SyncFill
  BY <1>3 DEF SyncFill, keepalive
<1>4. CASE CookiesRaise
  BY <1>4 DEF CookiesRaise, Unwind, Release, keepalive
<1>5. CASE ProbeWarm \/ FetchReturns
  BY <1>5 DEF ProbeWarm, FetchReturns, Return, Release, StartKeepalive, keepalive
<1>6. CASE StartRaises \/ FormMissing \/ Deadline \/ PollRaises
  BY <1>6 DEF StartRaises, FormMissing, Deadline, PollRaises, Unwind, Release, keepalive
<1>7. CASE Accept
  BY <1>7 DEF Accept, Return, Unwind, Release, StartKeepalive
<1>8. CASE ProbeCold \/ ProbeAccepts \/ ProbeRejects \/ SubmitForm \/ Poll
  BY <1>8 DEF ProbeCold, ProbeAccepts, ProbeRejects, SubmitForm, Poll, keepalive
<1>9. CASE Start \/ LaunchFails \/ Fetch \/ Relogin \/ CheckPage \/ Close
  BY <1>9 DEF Start, LaunchFails, Fetch, Relogin, CheckPage, Close, keepalive
<1>10. CASE Shoot \/ FinishClose \/ ProcessEnds
  BY <1>10 DEF Shoot, FinishClose, ProcessEnds, keepalive
<1>11. CASE KeepaliveStep \/ KeepaliveDue
  BY <1>11 DEF KeepaliveStep, KeepaliveEnds, SendPing, PingReturns, KeepaliveDue, worker
<1>12. CASE \/ LoginLands \/ LoginRejected \/ PageArrives \/ PageBounces \/ Expire \/ BrowserDrops
            \/ UNCHANGED vars
  BY <1>1, <1>12 DEF LoginLands, LoginRejected, PageArrives, PageBounces, Expire, BrowserDrops, vars, worker,
     keepalive
<1> QED
  BY <1>2, <1>3, <1>4, <1>5, <1>6, <1>7, <1>8, <1>9, <1>10, <1>11, <1>12
     DEF Next, WorkerStep, Calls, World

\* Only SyncClear begins a rebuild of the jar, and nobody writes to it meanwhile.
LEMMA ClearedStep ==
    ASSUME Cleared, [Next]_vars
    PROVE  Cleared'
<1> USE DEF Cleared
<1>1. ASSUME UNCHANGED jar, pc' # "fill" \/ pc' = pc PROVE Cleared'
  BY <1>1
<1>2. CASE SyncClear \/ SyncFill \/ ProcessEnds
  BY <1>2 DEF SyncClear, SyncFill, ProcessEnds
<1>3. CASE WorkerStep /\ ~ SyncClear /\ ~ SyncFill
  BY <1>1, <1>3 DEF WorkerStep, CookiesRaise, ProbeWarm, ProbeCold, StartRaises, ProbeAccepts,
     ProbeRejects, SubmitForm, FormMissing, Poll, Accept, Deadline, PollRaises, FetchReturns,
     Shoot, FinishClose, Return, Unwind, client
<1>4. CASE Calls
  BY <1>1, <1>4 DEF Calls, Start, LaunchFails, Fetch, Relogin, CheckPage, Close, client
<1>5. CASE KeepaliveStep \/ (World /\ ~ ProcessEnds) \/ UNCHANGED vars
  BY <1>1, <1>5 DEF KeepaliveStep, KeepaliveEnds, SendPing, PingReturns, World, KeepaliveDue,
     LoginLands, LoginRejected, PageArrives, PageBounces, Expire, BrowserDrops, vars, worker,
     client
<1> QED BY <1>2, <1>3, <1>4, <1>5 DEF Next

\* What an answered login leaves: the new session is the only one of its number.
LEMMA LandedNow ==
    ASSUME TypeOK, Minted, LoginLands
    PROVE  /\ posting /\ ~ posting' /\ logins' = logins + 1 /\ page' = page
           /\ redirect' \in Nodes
           /\ \A d \in browser' \cup live' :
                 d.login < logins' \/ (d.login = logins' /\ d.node = redirect')
           /\ \A d \in live' : d \in live \/ (d.login = logins' /\ d.node = redirect')
           /\ \A d \in browser' : d \in browser \/ (d.login = logins' /\ d.node = redirect')
<1>1. PICK n \in Nodes, w \in BOOLEAN :
          LET c == [login |-> logins + 1, node |-> n, wide |-> w]
          IN  browser' = Stored(browser, {c}) /\ live' \in {live \cup {c}, {c}} /\ redirect' = n
  BY DEF LoginLands
<1> DEFINE c == [login |-> logins + 1, node |-> n, wide |-> w]
<1>2. browser' \subseteq browser \cup {c} /\ live' \subseteq live \cup {c} /\ redirect' = n
  BY <1>1 DEF Stored
<1>3. c.login = logins + 1 /\ c.node = n
  OBVIOUS
<1>4. posting /\ ~ posting' /\ logins' = logins + 1 /\ page' = page
  BY DEF LoginLands
<1>5. \A d \in browser \cup live : d.login \in Nat /\ d.login < logins + 1
  BY DEF TypeOK, Minted, Cookies
<1> HIDE DEF c
<1> QED BY <1>2, <1>3, <1>4, <1>5

LEMMA MintedStep ==
    ASSUME TypeOK, Minted, [Next]_vars
    PROVE  Minted'
<1>1. CASE LoginLands
  <2>1. logins' \in Nat /\ \A d \in browser \cup live : d.login \in Nat
    BY <1>1 DEF LoginLands, TypeOK, Cookies
  <2> QED BY <1>1, <2>1, LandedNow DEF Minted
<1>2. CASE ~ LoginLands
  <2>1. browser' \subseteq browser /\ live' \subseteq live /\ logins' = logins
    <3>1. CASE WorkerStep
      BY <3>1 DEF WorkerStep, SyncClear, SyncFill, CookiesRaise, ProbeWarm, ProbeCold, StartRaises,
         ProbeAccepts, ProbeRejects, SubmitForm, FormMissing, Poll, Accept, Deadline, PollRaises,
         FetchReturns, Shoot, FinishClose, world
    <3>2. CASE Calls
      BY <3>2 DEF Calls, Start, LaunchFails, Fetch, Relogin, CheckPage, Close, world
    <3>3. CASE KeepaliveStep \/ World \/ UNCHANGED vars
      BY <1>2, <3>3 DEF KeepaliveStep, KeepaliveEnds, SendPing, PingReturns, World, ProcessEnds,
         KeepaliveDue, LoginRejected, PageArrives, PageBounces, Expire, BrowserDrops, vars, world
    <3> QED BY <3>1, <3>2, <3>3 DEF Next
  <2> QED BY <2>1 DEF Minted
<1> QED BY <1>1, <1>2

\* A login remembers the pin before it posts, and goes back to it or caches the new one.
LEMMA RememberedStep ==
    ASSUME TypeOK, Flags, Placed, Remembered, [Next]_vars
    PROVE  Remembered'
<1>t. pin \in Nodes
  BY DEF TypeOK
<1> USE DEF Flags, Placed, Remembered
<1>1. ASSUME UNCHANGED <<excused, polling, previous, cache, pin>>,
             pc' \in {"down", "close", "closed"} \/ pc \notin {"down", "close", "closed"}
      PROVE  Remembered'
  BY <1>1 DEF CachedPin
<1>2. CASE Start
  BY <1>2 DEF Start, CachedPin, ghosts
<1>3. CASE SubmitForm
  BY <1>3 DEF SubmitForm, CachedPin
<1>4. CASE Poll
  BY <1>4 DEF Poll, CachedPin, ghosts
<1>5. CASE Accept
  BY <1>t, <1>5 DEF Accept, Return, Unwind, CachedPin, client
<1>6. CASE Deadline
  BY <1>6 DEF Deadline, Unwind, CachedPin
<1>7. CASE PollRaises
  BY <1>7 DEF PollRaises
<1>8. CASE CookiesRaise
  BY <1>8 DEF CookiesRaise, Unwind, CachedPin, client
<1>9. CASE StartRaises \/ FormMissing
  BY <1>9 DEF StartRaises, FormMissing, Unwind, CachedPin, client, ghosts
<1>10. CASE ProbeWarm \/ FetchReturns
  BY <1>10 DEF ProbeWarm, FetchReturns, Return, CachedPin, client, ghosts
<1>11. CASE SyncClear \/ SyncFill \/ ProbeCold \/ ProbeAccepts \/ ProbeRejects \/ Shoot
  BY <1>1, <1>11 DEF SyncClear, SyncFill, ProbeCold, ProbeAccepts, ProbeRejects, Shoot,
     locals, client, ghosts
<1>12. CASE LaunchFails \/ Fetch \/ Relogin \/ CheckPage \/ Close \/ FinishClose
  BY <1>1, <1>12 DEF LaunchFails, Fetch, Relogin, CheckPage, Close, FinishClose,
     locals, client, ghosts
<1>13. CASE ProcessEnds
  BY <1>13 DEF ProcessEnds
<1>14. CASE KeepaliveStep \/ (World /\ ~ ProcessEnds) \/ UNCHANGED vars
  BY <1>14 DEF KeepaliveStep, KeepaliveEnds, SendPing, PingReturns, World, KeepaliveDue,
     LoginLands, LoginRejected, PageArrives, PageBounces, Expire, BrowserDrops, vars, worker, locals, client,
     ghosts, CachedPin
<1> QED
  BY <1>2, <1>3, <1>4, <1>5, <1>6, <1>7, <1>8, <1>9, <1>10, <1>11, <1>12, <1>13, <1>14
     DEF Next, WorkerStep, Calls

\* Whoever re-pins the client or clears its jar is the start, before there is a
\* keep-alive thread, or has the lock that a ping in flight would hold.
LEMMA PingStep ==
    ASSUME TypeOK, Placed, Locked, PingNotStraddled, [Next]_vars
    PROVE  PingNotStraddled'
<1> USE DEF TypeOK, Placed, Locked, PingNotStraddled
<1>1. ASSUME UNCHANGED <<kpc, ping, pin, jar>>, pc' # "fill" \/ pc' = pc
      PROVE  PingNotStraddled'
  BY <1>1
<1>2. ASSUME kpc # "inFlight", kpc' # "inFlight" PROVE PingNotStraddled'
  BY <1>2
<1>3. CASE Start \/ SyncClear \/ SyncFill \/ Poll \/ Deadline
  <2>1. kpc # "inFlight" /\ kpc' = kpc
    BY <1>3 DEF Start, SyncClear, SyncFill, Poll, Deadline, keepalive
  <2> QED BY <1>2, <2>1
<1>4. CASE ProbeWarm \/ Accept
  BY <1>4 DEF ProbeWarm, Accept, Return, Unwind, StartKeepalive, client, keepalive
<1>5. CASE \/ CookiesRaise \/ ProbeCold \/ StartRaises \/ ProbeAccepts \/ ProbeRejects
           \/ SubmitForm \/ FormMissing \/ PollRaises \/ FetchReturns \/ Shoot \/ FinishClose
  BY <1>1, <1>5 DEF CookiesRaise, ProbeCold, StartRaises, ProbeAccepts, ProbeRejects, SubmitForm,
     FormMissing, PollRaises, FetchReturns, Shoot, FinishClose, Return, Unwind, client, keepalive
<1>6. CASE LaunchFails \/ Fetch \/ Relogin \/ CheckPage \/ Close
  BY <1>1, <1>6 DEF LaunchFails, Fetch, Relogin, CheckPage, Close, client, keepalive
<1>7. CASE SendPing
  <2>1. pc # "fill"
    BY <1>7 DEF SendPing
  <2> QED BY <1>7, <2>1 DEF SendPing, client, worker
<1>8. CASE KeepaliveEnds \/ PingReturns \/ KeepaliveDue \/ ProcessEnds
  BY <1>8 DEF KeepaliveEnds, PingReturns, KeepaliveDue, ProcessEnds
<1>9. CASE \/ LoginLands \/ LoginRejected \/ PageArrives \/ PageBounces \/ Expire \/ BrowserDrops
           \/ UNCHANGED vars
  BY <1>1, <1>9 DEF LoginLands, LoginRejected, PageArrives, PageBounces, Expire, BrowserDrops, vars, worker,
     client, keepalive
<1> QED
  BY <1>3, <1>4, <1>5, <1>6, <1>7, <1>8, <1>9
     DEF Next, WorkerStep, KeepaliveStep, Calls, World

\* Only SubmitForm posts, and the form is on the page when it does; before it there
\* was no login in this process.
LEMMA StillStep ==
    ASSUME TypeOK, Placed, Still, [Next]_vars
    PROVE  Still'
<1> USE DEF TypeOK, Placed, Still
<1>1. CASE Start \/ LaunchFails \/ Fetch \/ CheckPage \/ Close
  BY <1>1 DEF Start, LaunchFails, Fetch, CheckPage, Close, world, ghosts
<1>2. CASE Relogin \/ ProbeCold
  BY <1>2 DEF Relogin, ProbeCold, GoToLogin, ghosts
<1>3. CASE SyncClear
  BY <1>3 DEF SyncClear, world, ghosts
<1>4. CASE SyncFill
  BY <1>4 DEF SyncFill, world, ghosts
<1>5. CASE CookiesRaise \/ StartRaises \/ FormMissing \/ Deadline \/ PollRaises
  BY <1>5 DEF CookiesRaise, StartRaises, FormMissing, Deadline, PollRaises, Unwind, world, ghosts
<1>6. CASE ProbeWarm \/ FetchReturns
  BY <1>6 DEF ProbeWarm, FetchReturns, Return, world, ghosts
<1>7. CASE ProbeAccepts \/ ProbeRejects \/ Poll
  BY <1>7 DEF ProbeAccepts, ProbeRejects, Poll, world, ghosts
<1>8. CASE SubmitForm
  BY <1>8 DEF SubmitForm
<1>9. CASE Accept
  BY <1>9 DEF Accept, Return, Unwind
<1>10. CASE Shoot \/ FinishClose \/ ProcessEnds
  BY <1>10 DEF Shoot, FinishClose, ProcessEnds, world, ghosts
<1>11. CASE KeepaliveStep \/ KeepaliveDue \/ UNCHANGED vars
  BY <1>11 DEF KeepaliveStep, KeepaliveEnds, SendPing, PingReturns, KeepaliveDue, vars, world,
     worker, ghosts
<1>12. CASE LoginLands \/ LoginRejected \/ PageArrives \/ PageBounces \/ Expire \/ BrowserDrops
  BY <1>12 DEF LoginLands, LoginRejected, PageArrives, PageBounces, Expire, BrowserDrops, worker, ghosts
<1> QED
  BY <1>1, <1>2, <1>3, <1>4, <1>5, <1>6, <1>7, <1>8, <1>9, <1>10, <1>11, <1>12
     DEF Next, WorkerStep, Calls, World

\* A login that is excused, or was submitted while a session was valid, promises nothing.
LEMMA NotSound ==
    ASSUME lastLogin' # "sound"
    PROVE  Fresh' /\ Usable'
BY DEF Fresh, Usable

\* What is Landed stays so while nothing is posted, minted or added to the cookies.
LEMMA LandedKept ==
    ASSUME NEW n, Landed(n), browser' \subseteq browser, live' \subseteq live, logins' = logins,
           ~ posting'
    PROVE  Landed(n)'
BY DEF Landed

\* SubmitForm: the page is still on the form, and no cookie of the browser's is valid
\* on the pinned node.
LEMMA FreshSubmitted ==
    ASSUME IInv, SubmitForm
    PROVE  Fresh' /\ Usable'
<1>1. /\ pc = "form" /\ pc' = "poll" /\ polling' /\ previous' = pin
      /\ UNCHANGED <<browser, live, page, redirect, pin, op>>
      /\ lastLogin' = "sound" => \A c \in browser : ~ Valid(c, pin)
  BY DEF SubmitForm, client
<1>2. page = "login" /\ redirect = "none" /\ op # "fetch" /\ page \notin Nodes
  BY <1>1, NodeSessionAssumption DEF IInv, Still, Placed
<1>3. Fresh'
  BY <1>1, <1>2 DEF Fresh, Valid
<1>4. Usable'
  BY <1>1, <1>2 DEF Usable
<1> QED BY <1>3, <1>4

\* A poll reads the page: on a node it is where the new session was minted.
LEMMA FreshPolled ==
    ASSUME IInv, Poll
    PROVE  Fresh' /\ Usable'
<1>1. /\ pc = "poll" /\ pc' = "sync" /\ polling /\ polling' /\ op' = op /\ op # "fetch"
      /\ pin' = (IF page \in Nodes THEN page ELSE pin)
      /\ UNCHANGED <<browser, live, logins, posting, page, redirect, previous, lastLogin>>
  BY DEF Poll, IInv, TypeOK, Placed, world, ghosts
<1>2. ASSUME lastLogin = "sound" PROVE Fresh'
  <2>1. /\ page \in Nodes => Landed(page)
        /\ redirect # "none" => Landed(redirect)
        /\ pin # previous => Landed(pin)
        /\ \A c \in browser : Valid(c, pin) => Landed(pin)
    BY <1>1, <1>2 DEF IInv, Fresh
  <2>2. CASE page \in Nodes
    <3>1. Landed(page)' /\ pin' = page
      BY <1>1, <2>1, <2>2 DEF Landed
    <3>2. redirect # "none" => Landed(redirect)'
      BY <1>1, <2>1 DEF Landed
    <3> QED BY <1>1, <3>1, <3>2 DEF Fresh
  <2>3. CASE page \notin Nodes
    <3>1. pin' = pin
      BY <1>1, <2>3
    <3> QED BY <1>1, <2>1, <2>3, <3>1 DEF Fresh, Landed, Valid
  <2> QED BY <2>2, <2>3
<1>3. Usable'
  BY <1>1 DEF Usable
<1> QED BY <1>1, <1>2, <1>3 DEF Fresh

\* The jar is filled for the probe with cookies of the browser's.
LEMMA FreshFilled ==
    ASSUME IInv, SyncFill
    PROVE  Fresh' /\ Usable'
<1>1. /\ pc = "fill" /\ pc' = "get" /\ jar' \subseteq browser
      /\ UNCHANGED <<browser, live, logins, posting, page, redirect, pin, previous, polling, op,
                     lastLogin>>
  BY DEF SyncFill, IInv, Cleared, Stored, BrowserCookies, Sent, world, locals, ghosts
<1>2. Fresh'
  BY <1>1 DEF IInv, Fresh, Landed, Valid
<1>3. Usable'
  BY <1>1 DEF IInv, Usable, Landed
<1> QED BY <1>2, <1>3

\* Whichever cookie of the jar the probe is answered for, it is valid on the pin.
LEMMA FreshAccepted ==
    ASSUME IInv, ProbeAccepts
    PROVE  Fresh' /\ Usable'
<1>1. /\ pc = "get" /\ pc' = "accept" /\ polling /\ op # "fetch"
      /\ UNCHANGED <<browser, live, logins, posting, page, redirect, pin, jar, previous, polling,
                     op, lastLogin>>
  BY DEF ProbeAccepts, IInv, Placed, world, client, locals, ghosts
<1>2. \E c \in jar : Valid(c, pin)
  BY DEF ProbeAccepts, MayServe, Sent
<1>3. lastLogin = "sound" => Landed(pin)
  BY <1>1, <1>2 DEF IInv, Fresh
<1>4. Fresh'
  BY <1>1, <1>3 DEF IInv, Fresh, Landed, Valid
<1>5. Usable'
  BY <1>1 DEF Usable
<1> QED BY <1>4, <1>5

\* A login comes to an end on the node that was accepted.
LEMMA UsableAccepted ==
    ASSUME IInv, Accept
    PROVE  Fresh' /\ Usable'
<1>1. /\ pc = "accept" /\ polling /\ ~ polling' /\ ~ posting'
      /\ UNCHANGED <<browser, live, logins, pin, lastLogin>>
  BY DEF Accept, Return, Unwind, IInv, Placed, client
<1>2. lastLogin = "sound" => Landed(pin)
  BY <1>1 DEF IInv, Fresh
<1> QED BY <1>1, <1>2 DEF Fresh, Usable, Landed

\* The answer of the login: nothing was valid on the pin, and now at most what is new.
LEMMA FreshLanded ==
    ASSUME IInv, LoginLands
    PROVE  Fresh' /\ Usable'
<1>1. UNCHANGED <<pin, jar, previous, polling, pc, op, lastLogin>>
  BY DEF LoginLands, client, worker, locals, ghosts
<1>2. /\ posting /\ ~ posting' /\ page' = page
      /\ \A d \in live' : d \in live \/ d.node = redirect'
      /\ \A d \in browser' : d \in browser \/ d.node = redirect'
  BY LandedNow DEF IInv
<1>3. Landed(redirect)'
  <2>1. /\ ~ posting' /\ logins' \in Nat
        /\ \A d \in browser' \cup live' : d.login < logins' \/ d.node = redirect'
    BY LandedNow DEF IInv, TypeOK
  <2> QED BY <2>1 DEF Landed
<1>4. ASSUME lastLogin = "sound", polling PROVE Fresh'
  <2>1. /\ page \notin Nodes /\ pin = previous /\ pc # "accept"
        /\ \A c \in browser : ~ Valid(c, pin)
        /\ pc = "get" => \A c \in jar : ~ Valid(c, pin)
    BY <1>2, <1>4 DEF IInv, Fresh, Landed
  <2>2. \A c \in browser' : Valid(c, pin)' => pin = redirect'
    <3> SUFFICES ASSUME NEW c \in browser', c \in live', c.node = pin PROVE pin = redirect'
      BY <1>1 DEF Valid
    <3> QED BY <1>2, <2>1 DEF Valid
  <2>3. pc = "get" => \A c \in jar : Valid(c, pin)' => pin = redirect'
    <3> SUFFICES ASSUME pc = "get", NEW c \in jar, c \in live', c.node = pin PROVE pin = redirect'
      BY <1>1 DEF Valid
    <3> QED BY <1>2, <2>1 DEF Valid
  <2> QED BY <1>1, <1>2, <1>3, <2>1, <2>2, <2>3 DEF Fresh
<1>5. Usable'
  BY <1>1, <1>2 DEF IInv, Usable, Landed
<1> QED BY <1>1, <1>4, <1>5 DEF Fresh

\* What else the world does takes away: cookies, sessions, the page, the redirect.
LEMMA FreshWorld ==
    ASSUME IInv, LoginRejected \/ PageArrives \/ PageBounces \/ Expire \/ BrowserDrops
    PROVE  Fresh' /\ Usable'
<1>1. /\ UNCHANGED <<pin, jar, previous, polling, pc, op, lastLogin, logins>>
      /\ browser' \subseteq browser /\ live' \subseteq live
      /\ ~ posting => ~ posting'
      /\ page' \in Nodes => page' = page \/ (redirect # "none" /\ page' = redirect)
      /\ redirect' # "none" => redirect' = redirect
  BY NodeSessionAssumption DEF LoginRejected, PageArrives, PageBounces, Expire, BrowserDrops, client,
     worker, locals, ghosts
<1>2. \A n : Landed(n) => Landed(n)'
  BY <1>1, LandedKept DEF Landed
<1>3. \A c, n : Valid(c, n)' => Valid(c, n)
  BY <1>1 DEF Valid
<1>4. ASSUME lastLogin = "sound", polling PROVE Fresh'
  <2>1. /\ page \in Nodes => Landed(page)
        /\ redirect # "none" => Landed(redirect)
        /\ pin # previous => Landed(pin)
        /\ \A c \in browser : Valid(c, pin) => Landed(pin)
        /\ pc = "get" => \A c \in jar : Valid(c, pin) => Landed(pin)
        /\ pc = "accept" => Landed(pin)
    BY <1>4 DEF IInv, Fresh
  <2>2. page' \in Nodes => Landed(page)'
    BY <1>1, <1>2, <2>1 DEF Landed
  <2>3. redirect' # "none" => Landed(redirect)'
    BY <1>1, <1>2, <2>1 DEF Landed
  <2>4. Landed(pin) => Landed(pin)'
    BY <1>1, <1>2 DEF Landed
  <2>5. \A c : Valid(c, pin)' => Valid(c, pin)
    BY <1>1 DEF Valid
  <2> QED BY <1>1, <2>1, <2>2, <2>3, <2>4, <2>5 DEF Fresh
<1>5. Usable'
  BY <1>1 DEF IInv, Usable, Landed
<1> QED BY <1>1, <1>4, <1>5 DEF Fresh

LEMMA FreshStep ==
    ASSUME IInv, [Next]_vars
    PROVE  Fresh' /\ Usable'
<1>p. Placed /\ Flags /\ Still
  BY DEF IInv, TypeOK, Flags
<1>1. ASSUME UNCHANGED <<browser, live, logins, posting, page, redirect, pin, jar, previous, polling,
                         pc, op, lastLogin>>
      PROVE  Fresh' /\ Usable'
  BY <1>1 DEF IInv, Fresh, Usable, Landed, Valid
<1>2. CASE SubmitForm \/ Poll \/ SyncFill \/ ProbeAccepts \/ Accept
  BY <1>2, FreshSubmitted, FreshPolled, FreshFilled, FreshAccepted, UsableAccepted
<1>3. CASE FormMissing \/ Deadline \/ PollRaises
  BY <1>3, NotSound DEF FormMissing, Deadline, PollRaises
<1>4. CASE CookiesRaise \/ StartRaises
  <2>1. CASE polling /\ CookiesRaise
    BY <2>1, NotSound DEF CookiesRaise
  <2>2. CASE ~ polling
    <3>1. /\ UNCHANGED <<browser, live, logins, posting, pin, lastLogin>> /\ ~ polling'
          /\ op' = "none" /\ pc' = IF op = "start" THEN "close" ELSE "ready"
      BY <1>4, <2>2 DEF CookiesRaise, StartRaises, Unwind, world, client, ghosts
    <3>2. op \in {"start", "fetch"}
      BY <1>4, <2>2, <1>p DEF CookiesRaise, StartRaises, IInv, TypeOK, Placed
    <3> QED BY <3>1, <3>2 DEF IInv, Fresh, Usable, Landed
  <2> QED BY <1>4, <1>p, <2>1, <2>2 DEF StartRaises
<1>5. CASE FetchReturns
  <2>1. /\ op = "fetch" /\ ~ polling /\ ~ polling' /\ op' = "none"
        /\ UNCHANGED <<browser, live, logins, posting, pin, lastLogin>>
    BY <1>5, <1>p DEF FetchReturns, Return, Placed, world, client, ghosts
  <2> QED BY <2>1 DEF IInv, Fresh, Usable, Landed
<1>6. CASE SyncClear \/ ProbeRejects
  <2>1. /\ UNCHANGED <<browser, live, logins, posting, page, redirect, pin, previous, polling, op,
                       lastLogin>>
        /\ pc' \in {"fill", "poll"} /\ pc \in {"sync", "get"}
    BY <1>6 DEF SyncClear, ProbeRejects, world, client, locals, ghosts
  <2> QED BY <2>1 DEF IInv, Fresh, Usable, Landed, Valid
<1>7. CASE ProbeCold \/ Start \/ LaunchFails \/ Close \/ FinishClose
  <2>1. ~ polling' /\ pc' \in {"form", "sync", "close", "closed"} /\ op' # "fetch"
    BY <1>7, <1>p DEF ProbeCold, Start, LaunchFails, Close, FinishClose, Placed
  <2> QED BY <2>1 DEF Fresh, Usable
<1>8. CASE Fetch \/ Shoot \/ CheckPage
  <2>1. /\ pc \in {"ready", "shoot"} /\ ~ polling'
        /\ UNCHANGED <<browser, live, logins, posting, pin, lastLogin>>
    BY <1>8, <1>p DEF Fetch, Shoot, CheckPage, Placed, world, client, ghosts
  <2> QED BY <2>1 DEF IInv, Fresh, Usable, Landed
<1>9. CASE Relogin
  <2>1. ~ polling' /\ pc' = "form" /\ op' = "relogin"
    BY <1>9, <1>p DEF Relogin, Placed
  <2> QED BY <2>1 DEF Fresh, Usable
<1>10. CASE ProcessEnds \/ ProbeWarm
  <2>1. lastLogin' = "none"
    BY <1>10, <1>p DEF ProcessEnds, ProbeWarm, Still, ghosts
  <2> QED BY <2>1, NotSound
<1>11. CASE LoginLands \/ LoginRejected \/ PageArrives \/ PageBounces \/ Expire \/ BrowserDrops
  BY <1>11, FreshLanded, FreshWorld
<1>12. CASE KeepaliveStep \/ KeepaliveDue \/ UNCHANGED vars
  BY <1>1, <1>12 DEF KeepaliveStep, KeepaliveEnds, SendPing, PingReturns, KeepaliveDue, vars, world,
     client, worker, locals, ghosts
<1> QED
  BY <1>2, <1>3, <1>4, <1>5, <1>6, <1>7, <1>8, <1>9, <1>10, <1>11, <1>12
     DEF Next, WorkerStep, Calls, World

LEMMA IInvStep == IInv /\ [Next]_vars => IInv'
<1> SUFFICES ASSUME IInv, [Next]_vars PROVE IInv'
  OBVIOUS
<1>1. TypeOK /\ Flags /\ Placed /\ Locked /\ Cleared /\ Minted /\ Remembered /\ Still /\ PingNotStraddled
  BY DEF IInv, TypeOK, Flags
<1> QED
  BY <1>1, TypeStep, PlacedStep, LockedStep, ClearedStep, MintedStep, RememberedStep, StillStep, FreshStep,
     PingStep DEF IInv

LEMMA IInvInit == Init => IInv
<1> SUFFICES ASSUME Init PROVE IInv
  OBVIOUS
<1>1. Flags
  BY Zenon DEF Init, Flags
<1>2. /\ browser \in SUBSET Cookies /\ live = browser /\ logins \in 0 .. MaxLogins
      /\ \A c \in browser : c.login = logins
  BY NodeSessionAssumption DEF Init
<1>3. TypeOK
  BY <1>1, <1>2, NodeSessionAssumption DEF Init, TypeOK, Flags, NoPing
<1>4. /\ Placed /\ Locked /\ Cleared /\ Remembered /\ Still /\ Fresh /\ Usable
      /\ PingNotStraddled
  BY NodeSessionAssumption
     DEF Init, Placed, Locked, Cleared, Remembered, Still, Fresh, Usable, PingNotStraddled
<1>5. Minted
  <2>1. \A c \in browser \cup live : c.login = logins /\ logins \in Nat
    BY <1>2
  <2> QED BY <2>1 DEF Minted
<1> QED
  BY <1>3, <1>4, <1>5 DEF IInv

-----------------------------------------------------------------------------
\* What the theorems below rest on: the worker, the keep-alive thread and the world
\* keep the inductive invariant.
THEOREM SessionInductive == Spec => []IInv
BY IInvInit, IInvStep, PTL DEF Spec

\* The state of the session keeps its types.
THEOREM SessionTyped == Spec => []TypeOK
BY SessionInductive, PTL DEF IInv

\* keep_warm and _sync_cookies hold the same lock: no ping is under way while the
\* client is re-pinned or its cookies rebuilt.
THEOREM PingsNotStraddled == Spec => []PingNotStraddled
BY SessionInductive, PTL DEF IInv

\* _sync_cookies clears before it fills: whatever earlier logins and dropped or
\* re-scoped cookies had left in the jar, once it is rebuilt a session that is the
\* browser's only one for the pinned host is not refused for another one's sake.
THEOREM MirrorsServe == Spec => MirrorServes
<1>1. IInv => (SyncFill => \A c \in live : BrowserCookies = {c} /\ c.node = pin
                                          => ~ MayRefuse(jar, pin)')
  <2> SUFFICES ASSUME IInv, SyncFill, NEW c \in live, BrowserCookies = {c}, c.node = pin
               PROVE  ~ MayRefuse(jar, pin)'
    OBVIOUS
  <2>1. jar = {} /\ jar' = Stored(jar, BrowserCookies) /\ pin' = pin /\ live' = live
    BY DEF SyncFill, IInv, Cleared, world
  <2>2. jar' = {c}
    BY <2>1 DEF Stored
  <2>3. Sent(jar, pin)' = {c} /\ Valid(c, pin)'
    BY <2>1, <2>2 DEF Sent, Valid
  <2> QED BY <2>3, <2>1 DEF MayRefuse, Valid
<1> QED
  BY <1>1, SessionInductive, PTL DEF MirrorServes

\* _await_auth puts the pin back when the deadline passes, so a session that is ready
\* is pinned to the node the next process starts from.
THEOREM PinRemembered == Spec => []PinAgreesWithCache
<1>1. IInv => PinAgreesWithCache
  BY DEF IInv, Placed, Remembered, PinAgreesWithCache
<1> QED
  BY <1>1, SessionInductive, PTL

\* No login is accepted on a node it was not assigned to, if none was submitted while
\* a session was still valid.
THEOREM LoginUsable == Spec => []FreshLoginUsable
<1>1. Usable => FreshLoginUsable
  BY DEF Usable, FreshLoginUsable, NewestOnPin, Landed
<1> QED
  BY <1>1, SessionInductive, PTL DEF IInv

-----------------------------------------------------------------------------
(* The length of a login: the safety half of LoginSettles.                       *)

InLogin == pc = "form" \/ polling

\* The steps that a login has left at most.  A poll is four: look at the page, clear
\* the jar, fill it, probe.
LoginLeft ==
    CASE ~ InLogin -> 0
      [] pc = "form" -> 4 * MaxPolls + 2
      [] polling /\ pc = "sync" -> 4 * (MaxPolls - polls) + 4
      [] polling /\ pc = "fill" -> 4 * (MaxPolls - polls) + 3
      [] polling /\ pc = "get" -> 4 * (MaxPolls - polls) + 2
      [] polling /\ pc \in {"poll", "accept"} -> 4 * (MaxPolls - polls) + 1

LEMMA LoginPlaces ==
    ASSUME IInv
    PROVE  /\ MaxPolls \in Nat /\ polls \in 0 .. MaxPolls /\ polling \in BOOLEAN
           /\ polling => pc \in {"sync", "fill", "get", "poll", "accept"}
           /\ pc \in {"poll", "accept"} => polling
BY NodeSessionAssumption DEF IInv, TypeOK, Placed

\* The jar is rebuilt and the pin probed by a poll, which has been counted.
Counted == polling /\ pc # "poll" => polls > 0

LEMMA LoginLeftInRange == IInv /\ Counted => LoginLeft \in 0 .. 4 * MaxPolls + 2
<1> SUFFICES ASSUME IInv, Counted PROVE LoginLeft \in 0 .. 4 * MaxPolls + 2
  OBVIOUS
<1> USE LoginPlaces
<1>1. CASE ~ InLogin
  BY <1>1 DEF LoginLeft, InLogin
<1>2. CASE pc = "form"
  BY <1>2 DEF LoginLeft, InLogin
<1>3. CASE polling
  BY <1>3 DEF LoginLeft, InLogin, Counted
<1> QED BY <1>1, <1>2, <1>3 DEF InLogin

\* The steps of the keep-alive thread and of the world leave the login where it is,
\* or end it with the process.
LEMMA OthersKeepLogin ==
    ASSUME IInv, KeepaliveStep \/ World \/ UNCHANGED vars
    PROVE  LoginLeft' \in {LoginLeft, 0}
<1>1. CASE ProcessEnds
  BY <1>1 DEF ProcessEnds, LoginLeft, InLogin
<1>2. CASE KeepaliveStep \/ (World /\ ~ ProcessEnds) \/ UNCHANGED vars
  <2>1. UNCHANGED <<polling, pc, polls>>
    BY <1>2 DEF KeepaliveStep, World, KeepaliveEnds, SendPing, PingReturns, KeepaliveDue,
       LoginLands, LoginRejected, PageArrives, PageBounces, Expire, BrowserDrops, vars, worker, locals
  <2> QED BY <2>1 DEF LoginLeft, InLogin
<1> QED BY <1>1, <1>2

\* A call begins only when no login is under way.
LEMMA CallsWaitForLogin ==
    ASSUME IInv, Calls
    PROVE  ~ InLogin
BY LoginPlaces DEF Calls, Start, LaunchFails, Fetch, Relogin, CheckPage, Close, InLogin

LEMMA StepShortensLogin ==
    ASSUME IInv, InLogin, WorkerStep
    PROVE  LoginLeft' < LoginLeft
<1>1. /\ MaxPolls \in Nat /\ polls \in 0 .. MaxPolls /\ polling \in BOOLEAN
      /\ LoginLeft > 0
      /\ polling => pc \in {"sync", "fill", "get", "poll", "accept"}
  BY LoginPlaces DEF InLogin, LoginLeft
<1>2. ASSUME polling' = FALSE, pc' # "form" PROVE LoginLeft' = 0
  BY <1>2 DEF LoginLeft, InLogin
<1>3. CASE CookiesRaise \/ FormMissing \/ Accept \/ Deadline \/ PollRaises
  <2>1. polling' = FALSE /\ pc' # "form"
    BY <1>3 DEF CookiesRaise, FormMissing, Accept, Deadline, PollRaises, Return, Unwind
  <2> QED BY <1>1, <1>2, <2>1
<1>4. CASE SubmitForm
  <2>1. pc = "form" /\ pc' = "poll" /\ polling' /\ UNCHANGED polls
    BY <1>4 DEF SubmitForm
  <2>2. ~ polling
    BY <1>1, <2>1
  <2> QED BY <1>1, <2>1, <2>2 DEF LoginLeft, InLogin
<1>5. CASE Poll
  <2>1. pc = "poll" /\ polls < MaxPolls /\ polls' = polls + 1 /\ pc' = "sync" /\ polling' = polling
    BY <1>5 DEF Poll
  <2> QED BY <1>1, <2>1 DEF LoginLeft, InLogin
<1>6. CASE SyncClear
  BY <1>1, <1>6 DEF SyncClear, LoginLeft, InLogin, locals
<1>7. CASE SyncFill
  BY <1>1, <1>7 DEF SyncFill, LoginLeft, InLogin, locals
<1>8. CASE ProbeAccepts \/ ProbeRejects
  BY <1>1, <1>8 DEF ProbeAccepts, ProbeRejects, LoginLeft, InLogin, locals
<1>9. CASE ProbeWarm \/ ProbeCold \/ StartRaises \/ FetchReturns \/ Shoot \/ FinishClose
  BY <1>1, <1>9 DEF ProbeWarm, ProbeCold, StartRaises, FetchReturns, Shoot, FinishClose, InLogin,
     IInv, Placed
<1> QED BY <1>3, <1>4, <1>5, <1>6, <1>7, <1>8, <1>9 DEF WorkerStep

LEMMA CountedStep ==
    ASSUME IInv, Counted, [Next]_vars
    PROVE  Counted'
<1> USE LoginPlaces DEF Counted
<1>1. CASE UNCHANGED <<polling, pc, polls>>
  BY <1>1
<1>2. CASE KeepaliveStep \/ World \/ UNCHANGED vars
  <2>1. CASE ProcessEnds
    BY <2>1 DEF ProcessEnds
  <2>2. CASE ~ ProcessEnds
    BY <1>1, <1>2, <2>2 DEF KeepaliveStep, World, KeepaliveEnds, SendPing, PingReturns,
       KeepaliveDue, LoginLands, LoginRejected, PageArrives, PageBounces, Expire, BrowserDrops, vars, worker,
       locals
  <2> QED BY <2>1, <2>2
<1>3. CASE Calls
  <2>1. ~ polling /\ UNCHANGED polling
    BY <1>3, CallsWaitForLogin
       DEF InLogin, Calls, Start, LaunchFails, Fetch, Relogin, CheckPage, Close
  <2> QED BY <2>1
<1>4. CASE \/ CookiesRaise \/ StartRaises \/ FormMissing \/ Accept \/ Deadline \/ PollRaises
           \/ FetchReturns \/ ProbeWarm
  BY <1>4 DEF CookiesRaise, StartRaises, FormMissing, Accept, Deadline, PollRaises, FetchReturns,
     ProbeWarm, Return, Unwind
<1>5. CASE SubmitForm \/ Poll
  <2>1. pc' = "poll" \/ polls' = polls + 1
    BY <1>5 DEF SubmitForm, Poll
  <2>2. polls + 1 > 0
    OBVIOUS
  <2> QED BY <2>1, <2>2
<1>6. CASE SyncClear \/ SyncFill \/ ProbeCold \/ ProbeAccepts \/ ProbeRejects
  BY <1>6 DEF SyncClear, SyncFill, ProbeCold, ProbeAccepts, ProbeRejects, locals
<1>7. CASE Shoot \/ FinishClose
  BY <1>7 DEF Shoot, FinishClose, locals
<1> QED BY <1>2, <1>3, <1>4, <1>5, <1>6, <1>7 DEF Next, WorkerStep

\* For any number of nodes, logins and polls, whatever the page does meanwhile: a
\* login is over after at most 4 * MaxPolls + 2 steps of the thread that makes it.
\* Each is one fewer to go, nothing but a new login adds to them, and the
\* keep-alive thread never has the session lock when the login wants it, nor does
\* the login wait for itself, because the lock is re-entrant.
THEOREM LoginBounded ==
    Spec => /\ [](LoginLeft \in 0 .. 4 * MaxPolls + 2)
            /\ [](InLogin => lock # "keepalive")
            /\ [][InLogin => /\ LoginLeft' <= LoginLeft
                             /\ WorkerStep => LoginLeft' < LoginLeft]_vars
<1>1. IInv => (InLogin => lock # "keepalive")
  <2> SUFFICES ASSUME IInv, InLogin, lock = "keepalive" PROVE FALSE
    OBVIOUS
  <2>1. op \in {"start", "relogin"}
    BY DEF IInv, TypeOK, Placed, InLogin
  <2>2. kpc = "inFlight" /\ (op = "relogin" => lock = "worker") /\ (op = "start" => kpc = "off")
    BY DEF IInv, Locked
  <2> QED BY <2>1, <2>2
<1>2. IInv /\ [Next]_vars =>
          [InLogin => /\ LoginLeft' <= LoginLeft
                      /\ WorkerStep => LoginLeft' < LoginLeft]_vars
  <2> SUFFICES ASSUME IInv, [Next]_vars, InLogin
               PROVE  /\ LoginLeft' <= LoginLeft
                      /\ WorkerStep => LoginLeft' < LoginLeft
    OBVIOUS
  <2>1. LoginLeft \in Nat /\ LoginLeft' \in Nat
    <3>1. LoginLeft \in Nat
      BY LoginPlaces DEF LoginLeft, InLogin
    <3>2. LoginLeft' \in Nat
      BY IInvStep, NodeSessionAssumption DEF IInv, TypeOK, Placed, LoginLeft, InLogin
    <3> QED BY <3>1, <3>2
  <2>2. CASE WorkerStep
    BY <2>1, <2>2, StepShortensLogin
  <2>3. CASE ~ WorkerStep
    <3>1. LoginLeft' \in {LoginLeft, 0}
      BY <2>3, CallsWaitForLogin, OthersKeepLogin DEF Next
    <3> QED BY <2>1, <2>3, <3>1
  <2> QED BY <2>2, <2>3
<1>3. Init => Counted
  BY DEF Init, Counted
<1>4. IInv /\ Counted /\ [Next]_vars => Counted'
  BY CountedStep
<1> QED BY <1>1, <1>2, <1>3, <1>4, LoginLeftInRange, SessionInductive, PTL DEF Spec

-----------------------------------------------------------------------------
(* The end of the keep-alive thread: the safety half of KeepaliveStops.          *)

\* The steps that the thread has left once it is told to stop: a ping, and the exit.
PingsLeft == CASE kpc = "off" -> 0 [] kpc = "waiting" -> 1 [] kpc = "inFlight" -> 2
               [] kpc = "wantLock" -> 3

\* Nobody is told to stop but by the end of a session, and no method of it runs then.
Closing == stop => pc \in {"close", "closed"}

LEMMA ClosingStep == IInv /\ Closing /\ [Next]_vars => Closing'
<1> SUFFICES ASSUME IInv, Closing, [Next]_vars PROVE Closing'
  OBVIOUS
<1> USE DEF Closing
<1>1. CASE KeepaliveStep \/ World \/ UNCHANGED vars
  BY <1>1 DEF KeepaliveStep, World, ProcessEnds, KeepaliveEnds, SendPing, PingReturns,
     KeepaliveDue, LoginLands, LoginRejected, PageArrives, PageBounces, Expire, BrowserDrops, vars, worker
<1>2. CASE Calls
  BY <1>2 DEF Calls, Start, LaunchFails, Fetch, Relogin, CheckPage, Close
<1>3. CASE WorkerStep
  <2>1. ~ stop \/ FinishClose
    BY <1>3 DEF WorkerStep, SyncClear, SyncFill, CookiesRaise, ProbeWarm, ProbeCold, StartRaises,
       ProbeAccepts, ProbeRejects, SubmitForm, FormMissing, Poll, Accept, Deadline, PollRaises,
       FetchReturns, Shoot
  <2>2. CASE FinishClose
    BY <2>2 DEF FinishClose
  <2>3. CASE CookiesRaise \/ StartRaises \/ FormMissing \/ Accept \/ Deadline \/ PollRaises
    <3>1. ~ stop' \/ pc' = "close"
      BY <2>1, <2>3 DEF FinishClose, CookiesRaise, StartRaises, FormMissing, Accept, Deadline,
         PollRaises, Return, Unwind
    <3> QED BY <3>1
  <2>4. CASE \/ SyncClear \/ SyncFill \/ ProbeWarm \/ ProbeCold \/ ProbeAccepts \/ ProbeRejects
             \/ SubmitForm \/ Poll \/ FetchReturns \/ Shoot
    <3>1. UNCHANGED stop /\ pc # "close"
      BY <2>4 DEF SyncClear, SyncFill, ProbeWarm, ProbeCold, ProbeAccepts, ProbeRejects,
         SubmitForm, Poll, FetchReturns, Shoot
    <3>2. ~ stop
      BY <2>1, <3>1 DEF FinishClose
    <3> QED BY <3>1, <3>2
  <2> QED BY <1>3, <2>2, <2>3, <2>4 DEF WorkerStep
<1> QED BY <1>1, <1>2, <1>3 DEF Next

LEMMA StepEndsPings ==
    ASSUME IInv, Closing, stop, [Next]_vars
    PROVE  /\ PingsLeft' <= PingsLeft
           /\ KeepaliveStep => PingsLeft' < PingsLeft
<1>1. pc \in {"close", "closed"} /\ kpc \in {"off", "waiting", "wantLock", "inFlight"}
  BY DEF Closing, IInv, TypeOK
<1>2. CASE KeepaliveStep
  <2>1. \/ kpc = "waiting" /\ kpc' = "off"
        \/ kpc = "wantLock" /\ kpc' = "inFlight"
        \/ kpc = "inFlight" /\ kpc' = "waiting"
    BY <1>2 DEF KeepaliveStep, KeepaliveEnds, SendPing, PingReturns
  <2>2. PingsLeft \in Nat /\ PingsLeft' \in Nat /\ PingsLeft' < PingsLeft
    BY <2>1 DEF PingsLeft
  <2> QED BY <2>2
<1>3. CASE ~ KeepaliveStep
  <2>1. kpc' \in {kpc, "off"}
    <3>1. CASE Calls
      BY <1>1, <3>1 DEF Calls, Start, LaunchFails, Fetch, Relogin, CheckPage, Close, keepalive
    <3>2. CASE WorkerStep
      BY <1>1, <3>2 DEF WorkerStep, SyncClear, SyncFill, CookiesRaise, ProbeWarm, ProbeCold,
         StartRaises, ProbeAccepts, ProbeRejects, SubmitForm, FormMissing, Poll, Accept, Deadline,
         PollRaises, FetchReturns, Shoot, FinishClose, keepalive
    <3>3. CASE World \/ UNCHANGED vars
      BY <3>3 DEF World, ProcessEnds, KeepaliveDue, LoginLands, LoginRejected, PageArrives,
         PageBounces, Expire, BrowserDrops, vars, keepalive
    <3> QED BY <1>3, <3>1, <3>2, <3>3 DEF Next
  <2> QED BY <1>1, <1>3, <2>1 DEF PingsLeft
<1> QED BY <1>2, <1>3

\* Whatever the thread is at when close sets the stop event, it ends after at most
\* three steps: it sends no ping but the one it was about to, nobody starts it again,
\* and the session lock it may still want is held by no method of the session.
THEOREM KeepaliveBounded ==
    Spec => /\ [](stop => PingsLeft \in 0 .. 3 /\ lock # "worker")
            /\ [][stop => /\ PingsLeft' <= PingsLeft
                          /\ KeepaliveStep => PingsLeft' < PingsLeft]_vars
<1>1. IInv /\ Closing => (stop => PingsLeft \in 0 .. 3 /\ lock # "worker")
  BY DEF IInv, TypeOK, Placed, Locked, Closing, PingsLeft
<1>2. IInv /\ Closing /\ [Next]_vars =>
          [stop => /\ PingsLeft' <= PingsLeft
                   /\ KeepaliveStep => PingsLeft' < PingsLeft]_vars
  BY StepEndsPings
<1>3. Init => Closing
  BY DEF Init, Closing
<1> QED BY <1>1, <1>2, <1>3, ClosingStep, SessionInductive, PTL DEF Spec
=============================================================================
