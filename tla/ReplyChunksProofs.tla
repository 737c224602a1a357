-------------------------- MODULE ReplyChunksProofs --------------------------
(***************************************************************************)
(* For every limit, every set of messages and of answers: the chunks of an  *)
(* answer are the answer, and the channel shows them whole and in order.    *)
(***************************************************************************)
EXTENDS ReplyChunks, TLAPS

\* The chunks c are the answer up to the place t: next to one another, none empty
\* and none too long, and therefore in order and without a gap.
Tile(c, t) ==
    /\ t = IF c = <<>> THEN 0 ELSE c[Len(c)][2]
    /\ \A k \in 1 .. Len(c) :
           /\ c[k][1] = IF k = 1 THEN 1 ELSE c[k - 1][2] + 1
           /\ c[k][2] - c[k][1] \in 0 .. Limit - 1
           /\ c[k][2] <= t
    /\ \A j, k \in 1 .. Len(c) : j < k => c[j][2] < c[k][1]
    /\ \A i \in 1 .. t : \E k \in 1 .. Len(c) : c[k][1] <= i /\ i <= c[k][2]

Tiled(m) == Tile(chunks[m], cut[m]) /\ cut[m] <= Len(text[m])

\* The messages of the channel that answer m.
Replies(m) == {n \in DOMAIN channel : channel[n][1] = m}

\* Nothing is shown before the answer is split.
Begun(m) ==
    /\ delivery[m] = "turn" => text[m] = <<>> /\ chunks[m] = <<>> /\ cut[m] = 0
    /\ delivery[m] \in {"turn", "split"} => unsent[m] = {} /\ Replies(m) = {}
    /\ delivery[m] # "split" => cut[m] = Len(text[m])

\* What is shown of m comes before what is still to be sent, and in its order.
Queued(m) ==
    /\ delivery[m] = "sent" => unsent[m] = {}
    /\ unsent[m] \subseteq DOMAIN chunks[m] \cup {NoAnswer}
    /\ \A n \in Replies(m) : channel[n][2] \in DOMAIN chunks[m] \cup {NoAnswer}
    /\ \A n \in Replies(m) : \A k \in unsent[m] : channel[n][2] < k
    /\ \A a, b \in Replies(m) : a < b => channel[a][2] < channel[b][2]

\* A chunk with something to see in it is shown or still to be sent.
Kept(m) ==
    delivery[m] \notin {"turn", "split"} =>
        \A k \in DOMAIN chunks[m] :
            Visible(m, chunks[m][k]) => k \in unsent[m] \/ \E n \in Replies(m) : channel[n][2] = k

Right(m) == Tiled(m) /\ Begun(m) /\ Queued(m) /\ Kept(m)

Inv ==
    /\ ReplyTypeOK
    /\ \A m \in Asked : Right(m)

-----------------------------------------------------------------------------
LEMMA InitInv == ReplyInit => Inv
<1> SUFFICES ASSUME ReplyInit PROVE Inv
  OBVIOUS
<1>1. ReplyTypeOK
  BY DEF ReplyInit, ReplyTypeOK
<1>2. ASSUME NEW m \in Asked
      PROVE  Right(m)
  <2>1. /\ delivery[m] = "turn" /\ text[m] = <<>> /\ cut[m] = 0 /\ chunks[m] = <<>>
        /\ unsent[m] = {} /\ Replies(m) = {}
    BY DEF ReplyInit, Replies
  <2> QED BY <2>1 DEF Right, Tiled, Tile, Begun, Queued, Kept
<1> QED BY <1>1, <1>2 DEF Inv

\* One more chunk leaves no gap.
LEMMA NextTile ==
    ASSUME ReplyAssumption, NEW c \in Seq(Chunk), NEW t \in Nat, Tile(c, t),
           NEW place \in t + 1 .. t + Limit
    PROVE  /\ Append(c, <<t + 1, place>>) \in Seq(Chunk)
           /\ Tile(Append(c, <<t + 1, place>>), place)
<1> DEFINE d == Append(c, <<t + 1, place>>)
           n == Len(c)
<1>1. Limit \in Nat \ {0} /\ place \in Nat /\ <<t + 1, place>> \in Chunk
  BY DEF ReplyAssumption, Chunk
<1>2. d \in Seq(Chunk)
  BY <1>1
<1>3. /\ n \in Nat /\ Len(d) = n + 1
      /\ d[n + 1] = <<t + 1, place>> /\ \A k \in 1 .. n : d[k] = c[k]
      /\ d # <<>> /\ (c = <<>> <=> n = 0)
  BY <1>1
<1>4. \A k \in 1 .. n : c[k][1] \in Nat /\ c[k][2] \in Nat
  BY DEF Chunk
<1>5. d[n + 1][1] = t + 1 /\ d[n + 1][2] = place
  BY <1>3
<1>6. /\ t = IF n = 0 THEN 0 ELSE c[n][2]
      /\ \A k \in 1 .. n :
             /\ c[k][1] = IF k = 1 THEN 1 ELSE c[k - 1][2] + 1
             /\ c[k][2] - c[k][1] \in 0 .. Limit - 1
             /\ c[k][2] <= t
      /\ \A j, k \in 1 .. n : j < k => c[j][2] < c[k][1]
      /\ \A i \in 1 .. t : \E k \in 1 .. n : c[k][1] <= i /\ i <= c[k][2]
  BY <1>3 DEF Tile
<1> HIDE DEF d, n
<1>7. ASSUME NEW k \in 1 .. n + 1
      PROVE  /\ d[k][1] = IF k = 1 THEN 1 ELSE d[k - 1][2] + 1
             /\ d[k][2] - d[k][1] \in 0 .. Limit - 1
             /\ d[k][2] <= place
  <2>1. CASE k = n + 1
    <3>1. CASE n = 0
      BY <2>1, <3>1, <1>1, <1>5, <1>6
    <3>2. CASE n # 0
      <4>1. d[k - 1] = c[n] /\ t = c[n][2]
        BY <2>1, <3>2, <1>3, <1>6
      <4> QED BY <2>1, <3>2, <4>1, <1>1, <1>3, <1>5
    <3> QED BY <3>1, <3>2
  <2>2. CASE k \in 1 .. n
    <3>1. d[k] = c[k] /\ (k # 1 => d[k - 1] = c[k - 1])
      BY <2>2, <1>3
    <3>2. /\ c[k][1] = IF k = 1 THEN 1 ELSE c[k - 1][2] + 1
          /\ c[k][2] - c[k][1] \in 0 .. Limit - 1
          /\ c[k][2] <= t
      BY <2>2, <1>6
    <3>3. d[k][2] <= place
      BY <2>2, <3>1, <3>2, <1>1, <1>4
    <3> QED BY <3>1, <3>2, <3>3
  <2> QED BY <2>1, <2>2, <1>3
<1>8. ASSUME NEW j \in 1 .. n + 1, NEW k \in 1 .. n + 1, j < k
      PROVE  d[j][2] < d[k][1]
  <2>1. j \in 1 .. n /\ d[j] = c[j] /\ c[j][2] <= t
    BY <1>3, <1>6, <1>8
  <2>2. CASE k = n + 1
    BY <2>1, <2>2, <1>4, <1>5
  <2>3. CASE k \in 1 .. n
    BY <2>1, <2>3, <1>3, <1>6, <1>8
  <2> QED BY <2>2, <2>3, <1>3
<1>9. ASSUME NEW i \in 1 .. place
      PROVE  \E k \in 1 .. n + 1 : d[k][1] <= i /\ i <= d[k][2]
  <2>1. CASE i <= t
    <3>1. PICK k \in 1 .. n : c[k][1] <= i /\ i <= c[k][2]
      BY <2>1, <1>1, <1>6
    <3> QED BY <3>1, <1>3
  <2>2. CASE i > t
    <3>1. n + 1 \in 1 .. n + 1 /\ d[n + 1][1] <= i /\ i <= d[n + 1][2]
      BY <2>2, <1>1, <1>3, <1>5
    <3> QED BY <3>1
  <2> QED BY <2>1, <2>2, <1>1
<1>10. Tile(d, place)
  BY <1>3, <1>5, <1>7, <1>8, <1>9 DEF Tile
<1> QED BY <1>2, <1>10 DEF d

-----------------------------------------------------------------------------
\* What is not about a message leaves what is right of it.
LEMMA Untouched ==
    ASSUME NEW l \in Asked, Right(l), UNCHANGED channel,
           delivery'[l] = delivery[l], text'[l] = text[l], cut'[l] = cut[l],
           chunks'[l] = chunks[l], unsent'[l] = unsent[l]
    PROVE  Right(l)'
<1>1. Tiled(l)'
  BY DEF Right, Tiled, Tile
<1>2. Begun(l)'
  BY DEF Right, Begun, Replies
<1>3. Queued(l)'
  BY DEF Right, Queued, Replies
<1>4. Kept(l)'
  BY DEF Right, Kept, Replies, Visible
<1> QED BY <1>1, <1>2, <1>3, <1>4 DEF Right

LEMMA AnsweredStep ==
    ASSUME Inv, ReplyAssumption, NEW m \in Asked, TurnAnswered(m)
    PROVE  Inv'
<1>1. ReplyTypeOK /\ Right(m)
  BY DEF Inv
<1>2. PICK t \in Answers : text' = [text EXCEPT ![m] = t]
  BY DEF TurnAnswered
<1>3. t \in Seq(Characters) /\ Len(t) \in Nat
  BY DEF ReplyAssumption
<1>4. /\ delivery[m] = "turn" /\ delivery' = [delivery EXCEPT ![m] = "split"]
      /\ UNCHANGED <<cut, chunks, unsent, channel>>
  BY DEF TurnAnswered, Becomes
<1>5. delivery'[m] = "split" /\ text'[m] = t
  BY <1>1, <1>2, <1>4 DEF ReplyTypeOK
<1>6. ReplyTypeOK'
  BY <1>1, <1>2, <1>3, <1>4 DEF ReplyTypeOK
<1>7. /\ chunks[m] = <<>> /\ cut[m] = 0 /\ unsent[m] = {} /\ Replies(m) = {}
      /\ Replies(m)' = {}
  BY <1>1, <1>4 DEF Right, Begun, Replies
<1>8. Right(m)'
  BY <1>3, <1>4, <1>5, <1>7 DEF Right, Tiled, Tile, Begun, Queued, Kept
<1>9. ASSUME NEW l \in Asked \ {m}
      PROVE  Right(l)'
  <2>1. delivery'[l] = delivery[l] /\ text'[l] = text[l]
    BY <1>1, <1>2, <1>4 DEF ReplyTypeOK
  <2> QED BY <2>1, <1>4, Untouched DEF Inv
<1> QED BY <1>6, <1>8, <1>9 DEF Inv

\* The text up to a place in the window becomes a chunk.
LEMMA CutTiles ==
    ASSUME Inv, ReplyAssumption, NEW m \in Asked, NEW place \in cut[m] + 1 .. cut[m] + Limit,
           place <= Len(text[m]), CutAt(m, place), UNCHANGED text
    PROVE  /\ chunks' \in [Asked -> Seq(Chunk)] /\ cut' \in [Asked -> Nat]
           /\ cut'[m] = place /\ Tiled(m)'
           /\ \A l \in Asked \ {m} : chunks'[l] = chunks[l] /\ cut'[l] = cut[l]
<1> DEFINE new == <<cut[m] + 1, place>>
<1>1. /\ chunks \in [Asked -> Seq(Chunk)] /\ cut \in [Asked -> Nat]
      /\ Limit \in Nat \ {0} /\ Tile(chunks[m], cut[m])
  BY DEF Inv, ReplyTypeOK, ReplyAssumption, Right, Tiled
<1>2. /\ chunks' = [chunks EXCEPT ![m] = Append(@, new)] /\ cut' = [cut EXCEPT ![m] = place]
  BY DEF CutAt
<1>3. chunks[m] \in Seq(Chunk) /\ cut[m] \in Nat /\ place \in Nat
  BY <1>1
<1>4. Append(chunks[m], new) \in Seq(Chunk) /\ Tile(Append(chunks[m], new), place)
  BY <1>1, <1>3, NextTile
<1> HIDE DEF new
<1>5. chunks'[m] = Append(chunks[m], new) /\ cut'[m] = place
  BY <1>1, <1>2
<1>6. Tile(chunks'[m], cut'[m])
  BY <1>4, <1>5
<1>7. Tiled(m)'
  BY <1>5, <1>6 DEF Tiled, Tile
<1> QED BY <1>1, <1>2, <1>3, <1>4, <1>5, <1>7

LEMMA SplitStep ==
    ASSUME Inv, ReplyAssumption, NEW m \in Asked, Split(m)
    PROVE  Inv'
<1>1. ReplyTypeOK /\ Right(m)
  BY DEF Inv
<1>2. /\ delivery[m] = "split" /\ UNCHANGED <<delivery, text, unsent, channel>>
      /\ cut[m] + Limit <= Len(text[m])
      /\ cut[m] \in Nat /\ Len(text[m]) \in Nat /\ Limit \in Nat \ {0}
  BY <1>1 DEF Split, ReplyTypeOK, ReplyAssumption
<1>3. PICK place \in cut[m] + 1 .. cut[m] + Limit : CutAt(m, place)
  <2>1. CASE CutAt(m, cut[m] + Limit)
    BY <2>1, <1>2
  <2>2. CASE \E last \in Newlines(m) : CutAt(m, last)
    BY <2>2 DEF Newlines
  <2> QED BY <2>1, <2>2 DEF Split
<1>4. /\ chunks' \in [Asked -> Seq(Chunk)] /\ cut' \in [Asked -> Nat]
      /\ cut'[m] = place /\ Tiled(m)'
      /\ \A l \in Asked \ {m} : chunks'[l] = chunks[l] /\ cut'[l] = cut[l]
  BY <1>2, <1>3, CutTiles
<1>5. ReplyTypeOK'
  BY <1>1, <1>2, <1>4 DEF ReplyTypeOK
<1>6. Right(m)'
  <2>1. unsent'[m] = {} /\ Replies(m)' = {} /\ delivery'[m] = "split"
    BY <1>1, <1>2 DEF Right, Begun, Replies
  <2> QED BY <2>1, <1>4 DEF Right, Begun, Queued, Kept
<1>7. ASSUME NEW l \in Asked \ {m}
      PROVE  Right(l)'
  BY <1>2, <1>4, Untouched DEF Inv
<1> QED BY <1>5, <1>6, <1>7 DEF Inv

LEMMA RestStep ==
    ASSUME Inv, ReplyAssumption, NEW m \in Asked, SplitRest(m)
    PROVE  Inv'
<1>1. ReplyTypeOK /\ Right(m)
  BY DEF Inv
<1>2. /\ delivery[m] = "split" /\ delivery' = [delivery EXCEPT ![m] = "send"]
      /\ UNCHANGED <<text, channel>>
      /\ Len(text[m]) <= cut[m] + Limit
      /\ cut[m] \in Nat /\ Len(text[m]) \in Nat /\ Limit \in Nat \ {0}
      /\ cut[m] <= Len(text[m])
  BY <1>1 DEF SplitRest, Becomes, ReplyTypeOK, ReplyAssumption, Right, Tiled
<1>3. /\ chunks' \in [Asked -> Seq(Chunk)] /\ cut' \in [Asked -> Nat]
      /\ cut'[m] = Len(text[m]) /\ Tiled(m)'
      /\ \A l \in Asked \ {m} : chunks'[l] = chunks[l] /\ cut'[l] = cut[l]
  <2>1. CASE cut[m] < Len(text[m])
    <3>1. CutAt(m, Len(text[m])) /\ Len(text[m]) \in cut[m] + 1 .. cut[m] + Limit
      BY <2>1, <1>2 DEF SplitRest
    <3> QED BY <3>1, <1>2, CutTiles
  <2>2. CASE cut[m] = Len(text[m])
    <3>1. UNCHANGED <<cut, chunks>>
      BY <2>2, <1>2 DEF SplitRest
    <3> QED BY <2>2, <3>1, <1>1, <1>2 DEF ReplyTypeOK, Right, Tiled, Tile
  <2> QED BY <2>1, <2>2, <1>2
<1> DEFINE visible == {k \in DOMAIN chunks'[m] : Visible(m, chunks'[m][k])}
<1>4. unsent' = [unsent EXCEPT ![m] = IF visible = {} THEN {NoAnswer} ELSE visible]
  BY DEF SplitRest
<1>5. DOMAIN chunks'[m] = 1 .. Len(chunks'[m]) /\ Len(chunks'[m]) \in Nat
  BY <1>3
<1>6. visible \in SUBSET Nat /\ {NoAnswer} \in SUBSET Nat
  BY <1>5 DEF NoAnswer
<1>7. unsent'[m] = (IF visible = {} THEN {NoAnswer} ELSE visible) /\ delivery'[m] = "send"
  BY <1>1, <1>2, <1>4 DEF ReplyTypeOK
<1>8. ReplyTypeOK'
  <2>1. unsent' \in [Asked -> SUBSET Nat]
    BY <1>1, <1>4, <1>6 DEF ReplyTypeOK
  <2>2. delivery' \in [Asked -> {"turn", "split", "send", "sent", "failed", "cancelled"}]
    BY <1>1, <1>2 DEF ReplyTypeOK
  <2> QED BY <2>1, <2>2, <1>1, <1>2, <1>3 DEF ReplyTypeOK
<1>9. Right(m)'
  <2>1. Replies(m)' = {}
    BY <1>1, <1>2 DEF Right, Begun, Replies
  <2>2. Begun(m)'
    BY <1>2, <1>3, <1>7 DEF Begun
  <2>3. Queued(m)'
    BY <2>1, <1>7 DEF Queued
  <2>4. Kept(m)'
    BY <1>2, <1>7 DEF Kept, Visible
  <2> QED BY <2>2, <2>3, <2>4, <1>3 DEF Right
<1>10. ASSUME NEW l \in Asked \ {m}
       PROVE  Right(l)'
  <2>1. delivery'[l] = delivery[l] /\ unsent'[l] = unsent[l]
    BY <1>1, <1>2, <1>4 DEF ReplyTypeOK
  <2> QED BY <2>1, <1>2, <1>3, Untouched DEF Inv
<1> QED BY <1>8, <1>9, <1>10 DEF Inv

LEMMA SendStep ==
    ASSUME Inv, NEW m \in Asked, Send(m)
    PROVE  Inv'
<1>1. ReplyTypeOK /\ Right(m)
  BY DEF Inv
<1>2. PICK k \in unsent[m] : First(m, k) /\ channel' = Append(channel, <<m, k>>) /\ Sent(m, k)
  BY DEF Send
<1>3. /\ delivery[m] = "send" /\ UNCHANGED <<text, cut, chunks>>
      /\ k \in Nat /\ unsent[m] \subseteq Nat
      /\ unsent' = [unsent EXCEPT ![m] = @ \ {k}]
      /\ delivery' = [delivery EXCEPT ![m] = IF unsent[m] = {k} THEN "sent" ELSE "send"]
  BY <1>1, <1>2 DEF Send, Sent, Becomes, ReplyTypeOK
<1>4. /\ delivery'[m] = (IF unsent[m] = {k} THEN "sent" ELSE "send")
      /\ unsent'[m] = unsent[m] \ {k}
  BY <1>1, <1>3 DEF ReplyTypeOK
<1>5. /\ channel' \in Seq(Asked \X Nat)
      /\ Len(channel) \in Nat /\ DOMAIN channel = 1 .. Len(channel)
      /\ DOMAIN channel' = 1 .. Len(channel) + 1
      /\ channel'[Len(channel) + 1] = <<m, k>>
      /\ \A n \in DOMAIN channel : channel'[n] = channel[n]
  BY <1>1, <1>2, <1>3 DEF ReplyTypeOK
<1> DEFINE last == Len(channel) + 1
<1>6. /\ Replies(m)' = Replies(m) \cup {last}
      /\ \A l \in Asked \ {m} : Replies(l)' = Replies(l)
      /\ \A n \in Replies(m) : n < last /\ n \in Nat /\ channel'[n] = channel[n]
      /\ channel'[last][2] = k
  BY <1>5 DEF Replies
<1>7. ReplyTypeOK'
  <2>1. unsent' \in [Asked -> SUBSET Nat]
    BY <1>1, <1>3 DEF ReplyTypeOK
  <2>2. delivery' \in [Asked -> {"turn", "split", "send", "sent", "failed", "cancelled"}]
    BY <1>1, <1>3 DEF ReplyTypeOK
  <2> QED BY <2>1, <2>2, <1>1, <1>3, <1>5 DEF ReplyTypeOK
<1>8. Right(m)'
  <2>1. Tiled(m)'
    BY <1>1, <1>3 DEF Right, Tiled, Tile
  <2>2. Begun(m)'
    BY <1>1, <1>3, <1>4 DEF Right, Begun
  <2>3. Queued(m)'
    <3>1. Queued(m)
      BY <1>1 DEF Right
    <3>2. delivery'[m] = "sent" => unsent'[m] = {}
      BY <1>4
    <3>3. /\ unsent'[m] \subseteq DOMAIN chunks'[m] \cup {NoAnswer}
          /\ \A n \in Replies(m)' : channel'[n][2] \in DOMAIN chunks'[m] \cup {NoAnswer}
      BY <3>1, <1>3, <1>4, <1>6 DEF Queued
    <3>4. \A n \in Replies(m)' : \A j \in unsent'[m] : channel'[n][2] < j
      <4>1. \A j \in unsent[m] \ {k} : k < j
        BY <1>2, <1>3 DEF First
      <4> QED BY <4>1, <3>1, <1>4, <1>6 DEF Queued
    <3>5. \A a, b \in Replies(m)' : a < b => channel'[a][2] < channel'[b][2]
      BY <3>1, <1>5, <1>6 DEF Queued
    <3> QED BY <3>2, <3>3, <3>4, <3>5 DEF Queued
  <2>4. Kept(m)'
    BY <1>1, <1>3, <1>4, <1>6 DEF Right, Kept, Visible
  <2> QED BY <2>1, <2>2, <2>3, <2>4 DEF Right
<1>9. ASSUME NEW l \in Asked \ {m}
      PROVE  Right(l)'
  <2>1. /\ delivery'[l] = delivery[l] /\ unsent'[l] = unsent[l] /\ Replies(l)' = Replies(l)
        /\ \A n \in Replies(l) : channel'[n] = channel[n]
    BY <1>1, <1>3, <1>5, <1>6 DEF ReplyTypeOK, Replies
  <2>2. Right(l)
    BY DEF Inv
  <2>3. Tiled(l)' /\ Begun(l)'
    BY <2>1, <2>2, <1>3 DEF Right, Tiled, Tile, Begun
  <2>4. Queued(l)' /\ Kept(l)'
    BY <2>1, <2>2, <1>3 DEF Right, Queued, Kept, Visible
  <2> QED BY <2>3, <2>4 DEF Right
<1> QED BY <1>7, <1>8, <1>9 DEF Inv

LEMMA FailStep ==
    ASSUME Inv, NEW m \in Asked, SendFails(m)
    PROVE  Inv'
<1>1. ReplyTypeOK /\ Right(m)
  BY DEF Inv
<1>2. /\ delivery[m] = "send" /\ delivery' = [delivery EXCEPT ![m] = "failed"]
      /\ UNCHANGED <<text, cut, chunks, unsent, channel>>
  BY DEF SendFails, Becomes
<1>3. delivery'[m] = "failed" /\ \A l \in Asked \ {m} : delivery'[l] = delivery[l]
  BY <1>1, <1>2 DEF ReplyTypeOK
<1>4. ReplyTypeOK'
  BY <1>1, <1>2 DEF ReplyTypeOK
<1>5. Right(m)'
  BY <1>1, <1>2, <1>3 DEF Right, Tiled, Tile, Begun, Queued, Kept, Replies, Visible
<1>6. ASSUME NEW l \in Asked \ {m}
      PROVE  Right(l)'
  BY <1>2, <1>3, Untouched DEF Inv
<1> QED BY <1>4, <1>5, <1>6 DEF Inv

LEMMA StopStep ==
    ASSUME Inv, LoopStops
    PROVE  Inv'
<1>1. ReplyTypeOK
  BY DEF Inv
<1>2. /\ delivery' = [m \in Asked |-> IF delivery[m] \in {"turn", "send"}
                                       THEN "cancelled" ELSE delivery[m]]
      /\ UNCHANGED <<text, cut, chunks, unsent, channel>>
  BY DEF LoopStops
<1>3. ReplyTypeOK'
  BY <1>1, <1>2 DEF ReplyTypeOK
<1>4. ASSUME NEW m \in Asked
      PROVE  Right(m)'
  <2>1. Right(m)
    BY DEF Inv
  <2>2. CASE delivery'[m] = delivery[m]
    BY <2>1, <2>2, <1>2, Untouched
  <2>3. CASE delivery[m] = "send" /\ delivery'[m] = "cancelled"
    BY <2>1, <2>3, <1>2 DEF Right, Tiled, Tile, Begun, Queued, Kept, Replies, Visible
  <2>4. CASE delivery[m] = "turn" /\ delivery'[m] = "cancelled"
    <3>1. /\ text[m] = <<>> /\ chunks[m] = <<>> /\ cut[m] = 0 /\ unsent[m] = {} /\ Replies(m) = {}
      BY <2>1, <2>4 DEF Right, Begun
    <3>2. /\ text'[m] = <<>> /\ chunks'[m] = <<>> /\ cut'[m] = 0 /\ unsent'[m] = {}
          /\ Replies(m)' = {}
      BY <3>1, <1>2 DEF Replies
    <3> QED BY <3>2, <2>4 DEF Right, Tiled, Tile, Begun, Queued, Kept
  <2> QED BY <2>2, <2>3, <2>4, <1>2
<1> QED BY <1>3, <1>4 DEF Inv

\* The invariant of the other theorems: for every message the chunks tile what is
\* split of the answer, and what is shown and what is unsent follow its order.
THEOREM ReplyInductive == ReplySpec => []Inv
<1> USE ReplyAssumption
<1>1. Inv /\ [ReplyNext]_replyVars => Inv'
  <2> SUFFICES ASSUME Inv, [ReplyNext]_replyVars PROVE Inv'
    OBVIOUS
  <2>1. ASSUME NEW m \in Asked, TurnAnswered(m) PROVE Inv'
    BY <2>1, AnsweredStep
  <2>2. ASSUME NEW m \in Asked, Split(m) PROVE Inv'
    BY <2>2, SplitStep
  <2>3. ASSUME NEW m \in Asked, SplitRest(m) PROVE Inv'
    BY <2>3, RestStep
  <2>4. ASSUME NEW m \in Asked, Send(m) PROVE Inv'
    BY <2>4, SendStep
  <2>5. ASSUME NEW m \in Asked, SendFails(m) PROVE Inv'
    BY <2>5, FailStep
  <2>6. CASE LoopStops
    BY <2>6, StopStep
  <2>7. CASE UNCHANGED replyVars
    <3>1. ReplyTypeOK'
      BY <2>7 DEF Inv, ReplyTypeOK, replyVars
    <3>2. \A m \in Asked : Right(m)'
      BY <2>7, Untouched DEF Inv, replyVars
    <3> QED BY <3>1, <3>2 DEF Inv
  <2> QED BY <2>1, <2>2, <2>3, <2>4, <2>5, <2>6, <2>7 DEF ReplyNext
<1> QED BY <1>1, InitInv, PTL DEF ReplySpec

\* chunk_message splits every answer into chunks that are the answer again, none of
\* them empty or longer than the limit.
THEOREM AnswerTiled == ReplySpec => []ChunksTile
<1>1. Inv => ChunksTile
  <2> SUFFICES ASSUME Inv, NEW m \in Asked
               PROVE  /\ \A k \in DOMAIN chunks[m] :
                             /\ chunks[m][k][1] = IF k = 1 THEN 1 ELSE chunks[m][k - 1][2] + 1
                             /\ chunks[m][k][2] - chunks[m][k][1] \in 0 .. Limit - 1
                      /\ cut[m] = IF chunks[m] = <<>> THEN 0 ELSE chunks[m][Len(chunks[m])][2]
    BY DEF ChunksTile
  <2>1. DOMAIN chunks[m] = 1 .. Len(chunks[m]) /\ Tile(chunks[m], cut[m])
    BY DEF Inv, ReplyTypeOK, Right, Tiled
  <2> QED BY <2>1 DEF Tile
<1> QED BY <1>1, ReplyInductive, PTL

\* on_message shows the chunks of one answer in their order and once, however the
\* replies of the messages of a channel alternate.
THEOREM RepliesInOrder == ReplySpec => []ShownInOrder
<1>1. Inv => ShownInOrder
  <2> SUFFICES ASSUME Inv, NEW a \in DOMAIN channel, NEW b \in DOMAIN channel,
                      a < b, channel[a][1] = channel[b][1]
               PROVE  /\ channel[a] # channel[b]
                      /\ \A i \in Places(a), j \in Places(b) : i < j
    BY DEF ShownInOrder
  <2> DEFINE m == channel[a][1]
               k == channel[a][2]
             l == channel[b][2]
  <2>1. m \in Asked /\ a \in Replies(m) /\ b \in Replies(m) /\ k \in Nat /\ l \in Nat
    BY DEF Inv, ReplyTypeOK, Replies
  <2>2. /\ k < l /\ k \in DOMAIN chunks[m] \cup {NoAnswer} /\ l \in DOMAIN chunks[m] \cup {NoAnswer}
    BY <2>1 DEF Inv, Right, Queued
  <2>3. channel[a] # channel[b]
    BY <2>1, <2>2
  <2>4. ASSUME NEW i \in Places(a), NEW j \in Places(b)
        PROVE  i < j
    <3>1. k # NoAnswer /\ i \in chunks[m][k][1] .. chunks[m][k][2]
      BY <2>4 DEF Places
    <3>2. l # NoAnswer /\ j \in chunks[m][l][1] .. chunks[m][l][2]
      BY <2>4 DEF Places
    <3>3. /\ k \in 1 .. Len(chunks[m]) /\ l \in 1 .. Len(chunks[m]) /\ chunks[m] \in Seq(Chunk)
      <4>1. chunks[m] \in Seq(Chunk) /\ DOMAIN chunks[m] = 1 .. Len(chunks[m])
        BY <2>1 DEF Inv, ReplyTypeOK
      <4>2. k \in DOMAIN chunks[m] /\ l \in DOMAIN chunks[m]
        BY <3>1, <3>2, <2>2
      <4> QED BY <4>1, <4>2
    <3>4. chunks[m][k] \in Chunk /\ chunks[m][l] \in Chunk
      BY <3>3
    <3>5. chunks[m][k][2] < chunks[m][l][1]
      BY <3>3, <2>1, <2>2 DEF Inv, Right, Tiled, Tile
    <3> QED BY <3>1, <3>2, <3>4, <3>5 DEF Chunk
  <2> QED BY <2>3, <2>4
<1> QED BY <1>1, ReplyInductive, PTL

\* A reply that was sent without an error is whole, and one that was cut off is whole
\* up to where it was cut off.
THEOREM RepliesWhole == ReplySpec => []NothingLost
<1>1. Inv => NothingLost
  <2> SUFFICES ASSUME Inv, NEW m \in Asked, NEW i \in DOMAIN text[m], text[m][i] = "letter",
                      \/ delivery[m] = "sent"
                      \/ \E n \in Replies(m) : \E j \in Places(n) : i < j
               PROVE  \E n \in Replies(m) : i \in Places(n)
    BY DEF NothingLost, Replies
  <2>1. Right(m) /\ ReplyTypeOK /\ text[m] \in Seq(Characters) /\ chunks[m] \in Seq(Chunk)
    BY DEF Inv, ReplyTypeOK
  <2>2. delivery[m] \notin {"turn", "split"}
    BY <2>1 DEF Right, Begun
  <2>3. i \in 1 .. cut[m]
    BY <2>1, <2>2 DEF Right, Begun
  <2>4. PICK k \in 1 .. Len(chunks[m]) : chunks[m][k][1] <= i /\ i <= chunks[m][k][2]
    BY <2>1, <2>3 DEF Right, Tiled, Tile
  <2>5. /\ chunks[m][k] \in Chunk /\ k \in DOMAIN chunks[m] /\ k # NoAnswer
        /\ i \in chunks[m][k][1] .. chunks[m][k][2]
    BY <2>1, <2>3, <2>4 DEF Chunk, NoAnswer
  <2>6. k \in unsent[m] \/ \E n \in Replies(m) : channel[n][2] = k
    BY <2>1, <2>2, <2>5 DEF Right, Kept, Visible
  <2>7. CASE \E n \in Replies(m) : channel[n][2] = k
    BY <2>5, <2>7 DEF Places, Replies
  <2>8. CASE k \in unsent[m]
    <3>1. delivery[m] # "sent"
      BY <2>1, <2>8 DEF Right, Queued
    <3>2. PICK n \in Replies(m) : \E j \in Places(n) : i < j
      BY <3>1
    <3> DEFINE l == channel[n][2]
    <3>3. PICK j \in Places(n) : i < j
      BY <3>2
    <3>4. l # NoAnswer /\ j \in chunks[m][l][1] .. chunks[m][l][2]
      BY <3>3 DEF Places, Replies
    <3>5. l < k /\ l \in 1 .. Len(chunks[m])
      BY <3>4, <2>1, <2>8 DEF Right, Queued
    <3>6. chunks[m][l][2] < chunks[m][k][1] /\ chunks[m][l] \in Chunk
      BY <3>5, <2>1, <2>4 DEF Right, Tiled, Tile
    <3> QED BY <3>3, <3>4, <3>6, <2>3, <2>4, <2>5 DEF Chunk
  <2> QED BY <2>6, <2>7, <2>8
<1> QED BY <1>1, ReplyInductive, PTL
=============================================================================
