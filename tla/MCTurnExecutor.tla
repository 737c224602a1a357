--------------------------- MODULE MCTurnExecutor ---------------------------
(* A small instance of TurnExecutor for TLC. *)
EXTENDS TurnExecutor

CONSTANTS t1, t2, t3, m1, m2, m3, dm, room, alice, mallory

Msg(channel, author, isDm) ==
    [channel |-> channel, author |-> author, isDm |-> isDm,
     mentionsBot |-> ~ isDm, fromBot |-> FALSE, blank |-> FALSE]

\* Two messages of one channel and one from a stranger in another.
MCInfo ==
    [m \in Messages |->
        CASE m = m1 -> Msg(dm, alice, TRUE)
          [] m = m2 -> Msg(dm, alice, TRUE)
          [] OTHER -> Msg(room, mallory, FALSE)]

\* With a budget of 4: m2 alone exceeds it, and any two others just fit.
MCChars == [t \in Turns |-> CASE t = m2 -> 5 [] OTHER -> 2]
=============================================================================
