----------------------------- MODULE ReplyChunks -----------------------------
(***************************************************************************)
(* discord_bot.py after a turn: the answer is split into chunks that fit    *)
(* into a Discord message, and the chunks are sent one by one.  Each send   *)
(* is awaited, so the handlers of several messages of a channel take turns. *)
(*                                                                         *)
(* A chunk is the pair of the first and the last place of the answer in it, *)
(* and is sent by its number.                                               *)
(***************************************************************************)
EXTENDS Functions, Integers, Sequences

CONSTANTS
    Asked,      \* messages of a channel that are answered
    Answers,    \* the answers there may be
    Limit       \* DISCORD_MESSAGE_LIMIT

Characters == {"letter", "space", "newline"}

ASSUME ReplyAssumption == Answers \subseteq Seq(Characters) /\ Limit \in Nat \ {0}

VARIABLES
    delivery,   \* where the handler of each message is
    text,       \* its answer
    cut,        \* how much of the answer is in chunks
    chunks,
    unsent,     \* the numbers of the chunks still to be sent
    channel     \* what the channel shows: the message and the number of the chunk

replyVars == <<delivery, text, cut, chunks, unsent, channel>>

Chunk == (Nat \ {0}) \X Nat

ReplyTypeOK ==
    /\ delivery \in [Asked -> {"turn", "split", "send", "sent", "failed", "cancelled"}]
    /\ text \in [Asked -> Seq(Characters)]
    /\ cut \in [Asked -> Nat]
    /\ chunks \in [Asked -> Seq(Chunk)]
    /\ unsent \in [Asked -> SUBSET Nat]
    /\ channel \in Seq(Asked \X Nat)

ReplyInit ==
    /\ delivery = [m \in Asked |-> "turn"]
    /\ text = [m \in Asked |-> <<>>]
    /\ cut = [m \in Asked |-> 0]
    /\ chunks = [m \in Asked |-> <<>>]
    /\ unsent = [m \in Asked |-> {}]
    /\ channel = <<>>

-----------------------------------------------------------------------------
Becomes(m, place) == delivery' = [delivery EXCEPT ![m] = place]

\* The turn of a message is answered.
TurnAnswered(m) ==
    /\ delivery[m] = "turn"
    /\ \E t \in Answers : text' = [text EXCEPT ![m] = t]
    /\ Becomes(m, "split")
    /\ UNCHANGED <<cut, chunks, unsent, channel>>

\* The text up to here becomes the next chunk.
CutAt(m, place) ==
    /\ chunks' = [chunks EXCEPT ![m] = Append(@, <<cut[m] + 1, place>>)]
    /\ cut' = [cut EXCEPT ![m] = place]

Newlines(m) == {i \in cut[m] + 1 .. cut[m] + Limit : text[m][i] = "newline"}

\* Mutation: the newline begins the next chunk instead of ending this one.
SplitBeforeNewline(m) ==
    /\ delivery[m] = "split"
    /\ Len(text[m]) - cut[m] > Limit
    /\ \/ Newlines(m) = {} /\ CutAt(m, cut[m] + Limit)
       \/ \E last \in Newlines(m) : (\A i \in Newlines(m) : i <= last) /\ CutAt(m, last - 1)
    /\ UNCHANGED <<delivery, text, unsent, channel>>

\* chunk_message, while the rest is too long: after the last newline that fits.
Split(m) ==
    /\ delivery[m] = "split"
    /\ Len(text[m]) - cut[m] > Limit
    /\ \/ Newlines(m) = {} /\ CutAt(m, cut[m] + Limit)
       \/ \E last \in Newlines(m) : (\A i \in Newlines(m) : i <= last) /\ CutAt(m, last)
    /\ UNCHANGED <<delivery, text, unsent, channel>>

Visible(m, c) == \E i \in c[1] .. c[2] : text[m][i] = "letter"

NoAnswer == 0  \* "(no answer)", no chunk of the answer

\* The rest, if any, is the last chunk; chunks of white space are not sent, and
\* something always is.
SplitRest(m) ==
    /\ delivery[m] = "split"
    /\ Len(text[m]) - cut[m] <= Limit
    /\ IF cut[m] < Len(text[m]) THEN CutAt(m, Len(text[m])) ELSE UNCHANGED <<cut, chunks>>
    /\ LET visible == {k \in DOMAIN chunks'[m] : Visible(m, chunks'[m][k])}
       IN  unsent' = [unsent EXCEPT ![m] = IF visible = {} THEN {NoAnswer} ELSE visible]
    /\ Becomes(m, "send")
    /\ UNCHANGED <<text, channel>>

First(m, k) == k \in unsent[m] /\ \A j \in unsent[m] : k <= j

\* Chunk k is done with, and the reply is sent with its last one.
Sent(m, k) ==
    /\ unsent' = [unsent EXCEPT ![m] = @ \ {k}]
    /\ Becomes(m, IF unsent[m] = {k} THEN "sent" ELSE "send")

\* Mutation: a send whose answer is late is repeated.
SendAgain(m) ==
    /\ delivery[m] = "send"
    /\ \E k \in unsent[m] :
           /\ First(m, k)
           /\ channel' = Append(channel, <<m, k>>)
           /\ Sent(m, k) \/ UNCHANGED <<delivery, unsent>>
    /\ UNCHANGED <<text, cut, chunks>>

\* One send is awaited.
Send(m) ==
    /\ delivery[m] = "send"
    /\ \E k \in unsent[m] :
           /\ First(m, k)
           /\ channel' = Append(channel, <<m, k>>)
           /\ Sent(m, k)
    /\ UNCHANGED <<text, cut, chunks>>

\* Mutation: a send that fails is logged, and the next chunk is sent.
SendFailsOnce(m) ==
    /\ delivery[m] = "send"
    /\ \E k \in unsent[m] : First(m, k) /\ Sent(m, k)
    /\ UNCHANGED <<text, cut, chunks, channel>>

\* Permissions, a rate limit: the rest is not sent.
SendFails(m) ==
    /\ delivery[m] = "send"
    /\ Becomes(m, "failed")
    /\ UNCHANGED <<text, cut, chunks, unsent, channel>>

\* The bot's loop ends and cancels the handlers, each of which is waiting.
LoopStops ==
    /\ \A m \in Asked : delivery[m] # "split"
    /\ \E m \in Asked : delivery[m] \in {"turn", "send"}
    /\ delivery' = [m \in Asked |-> IF delivery[m] \in {"turn", "send"}
                                    THEN "cancelled" ELSE delivery[m]]
    /\ UNCHANGED <<text, cut, chunks, unsent, channel>>

ReplyNext ==
    \/ \E m \in Asked : \/ TurnAnswered(m) \/ Split(m) \/ SplitRest(m)
                        \/ Send(m) \/ SendFails(m)
    \/ LoopStops

ReplySpec == ReplyInit /\ [][ReplyNext]_replyVars

-----------------------------------------------------------------------------
\* Put one after the other the chunks are the answer so far: each begins where the
\* one before it ends, none is empty, so that the splitting ends, and none is
\* longer than Discord takes.
ChunksTile ==
    \A m \in Asked :
        /\ \A k \in DOMAIN chunks[m] :
               /\ chunks[m][k][1] = IF k = 1 THEN 1 ELSE chunks[m][k - 1][2] + 1
               /\ chunks[m][k][2] - chunks[m][k][1] \in 0 .. Limit - 1
        /\ cut[m] = IF chunks[m] = <<>> THEN 0 ELSE chunks[m][Len(chunks[m])][2]

\* The places of the answer that the channel shows in its n-th message.
Places(n) ==
    LET m == channel[n][1]
        k == channel[n][2]
    IN  IF k = NoAnswer THEN {} ELSE chunks[m][k][1] .. chunks[m][k][2]

\* Replies of two messages may alternate in a channel, but the places of one answer
\* are shown in their order and never twice, nor is "(no answer)".
ShownInOrder ==
    \A a, b \in DOMAIN channel :
        a < b /\ channel[a][1] = channel[b][1] =>
            /\ channel[a] # channel[b]
            /\ \A i \in Places(a), j \in Places(b) : i < j

\* Every letter of an answer that was sent without an error is shown; whatever is
\* shown of one that was not, nothing before it is missing.
NothingLost ==
    \A m \in Asked :
        LET shown == UNION {Places(n) : n \in {n \in DOMAIN channel : channel[n][1] = m}}
        IN  \A i \in DOMAIN text[m] :
                text[m][i] = "letter" /\ (delivery[m] = "sent" \/ \E j \in shown : i < j)
                    => i \in shown
=============================================================================
