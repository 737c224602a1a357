---------------------------- MODULE Conversation ----------------------------
(***************************************************************************)
(* conversation.py: the history a conversation carries from turn to turn.  *)
(*                                                                         *)
(* A completed turn (question, answer) is an element of Turns, and its     *)
(* text is abstracted to Chars[turn], the length trim_history adds up.     *)
(***************************************************************************)
EXTENDS Naturals, Sequences

CONSTANTS
    Turns,            \* the completed turns there can be
    Chars,            \* len(question) + len(answer) of each turn
    MaxHistoryTurns,  \* MAX_HISTORY_TURNS
    MaxHistoryChars   \* MAX_HISTORY_CHARS

ASSUME ConversationAssumption ==
    /\ Chars \in [Turns -> Nat]
    /\ MaxHistoryTurns \in Nat
    /\ MaxHistoryChars \in Nat

Weight(history) ==
    LET upTo[n \in 0 .. Len(history)] ==
            IF n = 0 THEN 0 ELSE upTo[n - 1] + Chars[history[n]]
    IN  upTo[Len(history)]

Newest(history, from) == SubSeq(history, from, Len(history))

\* A loop that pops the oldest turn while there is too much: over is the places
\* from which on there is, and what is left starts at the first that is not.
PopWhile(history, over) ==
    LET from[k \in 1 .. Len(history) + 1] == IF k \in over THEN from[k + 1] ELSE k
    IN  Newest(history, from[1])

PopTurns(history) ==
    PopWhile(history, {k \in 1 .. Len(history) : Len(Newest(history, k)) > MaxHistoryTurns})

PopChars(history) ==
    PopWhile(history, {k \in 1 .. Len(history) : Weight(Newest(history, k)) > MaxHistoryChars})

\* trim_history.  A turn larger than the budget on its own empties the history.
TrimHistory(history) == PopChars(PopTurns(history))

\* record_turn, and the REPL's append followed by trim_history.
RecordTurn(history, turn) == TrimHistory(Append(history, turn))

-----------------------------------------------------------------------------
Fits(history) ==
    /\ Len(history) <= MaxHistoryTurns
    /\ history = <<>> \/ Weight(history) <= MaxHistoryChars

\* What trimming is for: the longest suffix of the history within both bounds.
LongestFitting(history) ==
    LET from == CHOOSE k \in 1 .. Len(history) + 1 :
                    /\ Fits(Newest(history, k))
                    /\ \A j \in 1 .. k - 1 : ~ Fits(Newest(history, j))
    IN  Newest(history, from)
=============================================================================
