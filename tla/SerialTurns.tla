---------------------------- MODULE SerialTurns ----------------------------
(***************************************************************************)
(* What the turn executor promises to everyone who hands it a job (session *)
(* start, a REPL turn, a Discord turn, teardown): jobs are served one at a *)
(* time, in the order they were accepted; a job may be cancelled while it  *)
(* waits but never once it is being served; after the server is closed no  *)
(* job is accepted; and every accepted job is eventually served or         *)
(* cancelled.  Threads, the lock and the front-ends are not visible here.  *)
(***************************************************************************)
EXTENDS Naturals, Sequences

CONSTANT Jobs

VARIABLES
    line,    \* accepted jobs not yet taken up, oldest first
    status,  \* what has become of each job
    open     \* are jobs still accepted?

vars == <<line, status, open>>

Status == {"none", "waiting", "serving", "served", "cancelled"}

TypeOK ==
    /\ line \in Seq(Jobs)
    /\ status \in [Jobs -> Status]
    /\ open \in BOOLEAN

Init ==
    /\ line = <<>>
    /\ status = [j \in Jobs |-> "none"]
    /\ open = TRUE

Accept(j) ==
    /\ open
    /\ status[j] = "none"
    /\ line' = Append(line, j)
    /\ status' = [status EXCEPT ![j] = "waiting"]
    /\ UNCHANGED open

Busy == \E j \in Jobs : status[j] = "serving"

TakeUp ==
    /\ line # <<>>
    /\ ~ Busy
    /\ line' = Tail(line)
    /\ status' = [status EXCEPT ![Head(line)] =
                      IF @ = "waiting" THEN "serving" ELSE @]
    /\ UNCHANGED open

Complete(j) ==
    /\ status[j] = "serving"
    /\ status' = [status EXCEPT ![j] = "served"]
    /\ UNCHANGED <<line, open>>

\* Any set of waiting jobs can be withdrawn; they keep their place in the line
\* but are passed over.
Withdraw ==
    /\ \E withdrawn \in SUBSET {j \in Jobs : status[j] = "waiting"} :
           status' = [j \in Jobs |-> IF j \in withdrawn THEN "cancelled" ELSE status[j]]
    /\ UNCHANGED <<line, open>>

Close ==
    /\ open
    /\ open' = FALSE
    /\ line' = <<>>
    /\ status' = [j \in Jobs |-> IF status[j] = "waiting" THEN "cancelled" ELSE status[j]]

Next ==
    \/ \E j \in Jobs : Accept(j) \/ Complete(j)
    \/ TakeUp
    \/ Withdraw
    \/ Close

Spec ==
    /\ Init
    /\ [][Next]_vars
    /\ WF_vars(TakeUp)
    /\ WF_vars(\E j \in Jobs : Complete(j))

\* At most one job is ever being served.
OneAtATime == \A i, j \in Jobs : status[i] = "serving" /\ status[j] = "serving" => i = j

\* Every accepted job ends served or cancelled.
EveryJobResolved ==
    \A j \in Jobs : status[j] = "waiting" ~> status[j] \in {"served", "cancelled"}
=============================================================================
