------------------------- MODULE ConversationProofs -------------------------
(***************************************************************************)
(* What the popping loops of trim_history leave: a suffix of the history    *)
(* that is within both bounds, and the longest such suffix.                 *)
(***************************************************************************)
EXTENDS Conversation, Integers, SequenceTheorems, WellFoundedInduction, TLAPS

\* Every nonempty set of naturals has a least element.
LEMMA LeastNumber ==
    ASSUME NEW T, T \subseteq Nat, T # {}
    PROVE  \E x \in T : \A y \in T : x <= y
<1>1. \E x \in T : \A y \in T : ~ (<<y, x>> \in OpToRel(<, Nat))
  BY NatLessThanWellFounded, WFMin
<1>2. PICK x \in T : \A y \in T : ~ (<<y, x>> \in OpToRel(<, Nat))
  BY <1>1
<1>3. \A y \in T : ~ (y < x)
  BY <1>2 DEF OpToRel
<1>4. \A y \in T : x <= y
  BY <1>3
<1> QED
  BY <1>4

\* f adds up the lengths of the turns of a history, from the first to the n-th.
Adds(f, h, n) ==
    /\ f[0] = 0
    /\ \A i \in 1 .. n : f[i] = f[i - 1] + Chars[h[i]]

\* There are such sums: a least place without one would come after one that has one.
LEMMA SumsExist ==
    ASSUME NEW h \in Seq(Turns), NEW n \in 0 .. Len(h)
    PROVE  \E f \in [0 .. n -> Nat] : Adds(f, h, n)
<1> DEFINE Failing == {m \in 0 .. Len(h) : ~ \E f \in [0 .. m -> Nat] : Adds(f, h, m)}
<1>1. Len(h) \in Nat /\ \A i \in 1 .. Len(h) : Chars[h[i]] \in Nat
  BY ConversationAssumption
<1>2. SUFFICES ASSUME Failing # {} PROVE FALSE
  BY <1>2
<1>3. PICK m \in Failing : \A y \in Failing : m <= y
  <2>1. Failing \subseteq Nat
    BY <1>1
  <2> HIDE DEF Failing
  <2> QED BY <1>2, <2>1, LeastNumber
<1>4. m \in Nat /\ m <= Len(h) /\ ~ \E f \in [0 .. m -> Nat] : Adds(f, h, m)
  BY <1>1, <1>3
<1>5. CASE m = 0
  <2> DEFINE g == [i \in 0 .. 0 |-> 0]
  <2>1. g \in [0 .. 0 -> Nat] /\ Adds(g, h, 0)
    BY DEF Adds
  <2> QED BY <2>1, <1>4, <1>5
<1>6. CASE m # 0
  <2>1. m - 1 \in 0 .. Len(h) /\ m - 1 \notin Failing
    BY <1>1, <1>3, <1>4, <1>6
  <2>2. PICK f \in [0 .. m - 1 -> Nat] : Adds(f, h, m - 1)
    BY <2>1
  <2> DEFINE g == [i \in 0 .. m |-> IF i = m THEN f[m - 1] + Chars[h[m]] ELSE f[i]]
  <2>3. f[m - 1] \in Nat /\ Chars[h[m]] \in Nat
    BY <1>1, <1>4, <1>6, <2>2
  <2>4. g \in [0 .. m -> Nat] /\ g[0] = 0
    BY <1>4, <1>6, <2>2, <2>3 DEF Adds
  <2>5. \A i \in 1 .. m : g[i] = g[i - 1] + Chars[h[i]]
    BY <1>4, <1>6, <2>2, <2>3 DEF Adds
  <2>6. Adds(g, h, m)
    BY <2>4, <2>5 DEF Adds
  <2> QED BY <1>4, <2>4, <2>6
<1> QED BY <1>5, <1>6

\* Sums of the same turns are the same.
LEMMA SumsAgree ==
    ASSUME NEW n \in Nat, NEW f, NEW g, NEW h1, NEW h2, \A i \in 1 .. n : h1[i] = h2[i],
           Adds(f, h1, n), Adds(g, h2, n)
    PROVE  \A i \in 0 .. n : f[i] = g[i]
<1> DEFINE Failing == {m \in 0 .. n : f[m] # g[m]}
<1>1. SUFFICES ASSUME Failing # {} PROVE FALSE
  BY <1>1
<1>2. PICK m \in Failing : \A y \in Failing : m <= y
  <2>1. Failing \subseteq Nat
    OBVIOUS
  <2> HIDE DEF Failing
  <2> QED BY <1>1, <2>1, LeastNumber
<1>3. m \in 1 .. n /\ m - 1 \in 0 .. n
  BY <1>2 DEF Adds
<1>4. f[m - 1] = g[m - 1]
  BY <1>2, <1>3
<1> QED BY <1>2, <1>3, <1>4 DEF Adds

\* Weight is such a sum.
LEMMA WeightAdds ==
    ASSUME NEW h \in Seq(Turns)
    PROVE  \E f \in [0 .. Len(h) -> Nat] : Adds(f, h, Len(h)) /\ Weight(h) = f[Len(h)]
<1> DEFINE Sum(n, f) == IF n = 0 THEN 0 ELSE f[n - 1] + Chars[h[n]]
           upTo == CHOOSE f : f = [n \in 0 .. Len(h) |-> Sum(n, f)]
<1>1. Weight(h) = upTo[Len(h)]
  BY DEF Weight
<1>2. PICK f \in [0 .. Len(h) -> Nat] : Adds(f, h, Len(h))
  BY SumsExist
<1>3. f = [n \in 0 .. Len(h) |-> Sum(n, f)]
  BY <1>2 DEF Adds
<1>4. upTo = [n \in 0 .. Len(h) |-> Sum(n, upTo)]
  BY <1>3
<1>5. \A n \in 0 .. Len(h) : upTo[n] = Sum(n, upTo)
  BY <1>4
<1> HIDE DEF upTo
<1>6. Adds(upTo, h, Len(h))
  BY <1>5 DEF Adds
<1>7. f[Len(h)] = upTo[Len(h)]
  BY <1>2, <1>6, SumsAgree
<1> QED BY <1>1, <1>2, <1>7

\* Adding a turn never makes a history lighter.
LEMMA WeightGrows ==
    ASSUME NEW h \in Seq(Turns), NEW turn \in Turns
    PROVE  /\ Weight(h) \in Nat /\ Weight(Append(h, turn)) \in Nat
           /\ Weight(h) <= Weight(Append(h, turn))
<1> DEFINE longer == Append(h, turn)
<1>1. /\ longer \in Seq(Turns) /\ Len(h) \in Nat /\ Len(longer) = Len(h) + 1
      /\ \A i \in 1 .. Len(h) : longer[i] = h[i]
      /\ longer[Len(h) + 1] = turn
  OBVIOUS
<1>2. Chars[turn] \in Nat
  BY ConversationAssumption
<1> HIDE DEF longer
<1>3. PICK f \in [0 .. Len(h) -> Nat] : Adds(f, h, Len(h)) /\ Weight(h) = f[Len(h)]
  BY WeightAdds
<1>4. PICK g \in [0 .. Len(longer) -> Nat] :
          Adds(g, longer, Len(longer)) /\ Weight(longer) = g[Len(longer)]
  BY <1>1, WeightAdds
<1>5. Adds(g, longer, Len(h))
  BY <1>1, <1>4 DEF Adds
<1>6. f[Len(h)] = g[Len(h)]
  BY <1>1, <1>3, <1>5, SumsAgree
<1>7. /\ f[Len(h)] \in Nat
      /\ g[Len(h) + 1] = g[Len(h)] + Chars[turn]
  BY <1>1, <1>3, <1>4 DEF Adds
<1> QED BY <1>1, <1>2, <1>3, <1>4, <1>6, <1>7 DEF longer

\* The weight of a history is a number.
LEMMA WeightType ==
    ASSUME NEW h \in Seq(Turns)
    PROVE  Weight(h) \in Nat
<1>1. PICK f \in [0 .. Len(h) -> Nat] : Weight(h) = f[Len(h)]
  BY WeightAdds
<1>2. Len(h) \in 0 .. Len(h)
  OBVIOUS
<1> QED BY <1>1, <1>2

\* What is left of a history when its oldest turns are dropped is a history.
LEMMA NewestType ==
    ASSUME NEW h \in Seq(Turns), NEW k \in 1 .. Len(h) + 1
    PROVE  /\ Newest(h, k) \in Seq(Turns)
           /\ Len(Newest(h, k)) = Len(h) - k + 1
<1>1. Len(h) \in Nat
  OBVIOUS
<1>2. \A i \in k .. Len(h) : h[i] \in Turns
  BY <1>1
<1> QED
  BY <1>1, <1>2, SubSeqProperties DEF Newest

\* Dropping some turns and then more is dropping them at once.
LEMMA NewestNewest ==
    ASSUME NEW h \in Seq(Turns), NEW k \in 1 .. Len(h) + 1, NEW j \in 1 .. Len(h) - k + 2
    PROVE  Newest(Newest(h, k), j) = Newest(h, k + j - 1)
<1> DEFINE a == Newest(Newest(h, k), j)
           b == Newest(h, k + j - 1)
<1>1. Len(h) \in Nat /\ k + j - 1 \in 1 .. Len(h) + 1
  OBVIOUS
<1>2. /\ Newest(h, k) \in Seq(Turns) /\ Len(Newest(h, k)) = Len(h) - k + 1
      /\ \A i \in 1 .. Len(h) - k + 1 : Newest(h, k)[i] = h[k + i - 1]
  BY <1>1, NewestType, SubSeqProperties DEF Newest
<1>3. /\ b \in Seq(Turns) /\ Len(b) = Len(h) - (k + j - 1) + 1
      /\ \A i \in 1 .. Len(h) - (k + j - 1) + 1 : b[i] = h[(k + j - 1) + i - 1]
  BY <1>1, NewestType, SubSeqProperties DEF Newest
<1> DEFINE s == Newest(h, k)
<1> HIDE DEF s
<1>4. s \in Seq(Turns) /\ Len(s) = Len(h) - k + 1 /\ j \in 1 .. Len(s) + 1
  BY <1>1, <1>2 DEF s
<1>5. /\ Newest(s, j) \in Seq(Turns) /\ Len(Newest(s, j)) = Len(s) - j + 1
      /\ \A i \in 1 .. Len(s) - j + 1 : Newest(s, j)[i] = s[j + i - 1]
  BY <1>4, NewestType, SubSeqProperties DEF Newest
<1> HIDE DEF b
<1>6. \A i \in 1 .. Len(b) : Newest(s, j)[i] = b[i]
  <2>1. TAKE i \in 1 .. Len(b)
  <2>2. i \in 1 .. Len(s) - j + 1 /\ j + i - 1 \in 1 .. Len(h) - k + 1
    BY <1>1, <1>3, <1>4
  <2>3. Newest(s, j)[i] = s[j + i - 1] /\ s[j + i - 1] = h[k + (j + i - 1) - 1]
    BY <1>2, <1>5, <2>2 DEF s
  <2>4. b[i] = h[(k + j - 1) + i - 1]
    BY <1>1, <1>3, <2>1
  <2>5. k + (j + i - 1) - 1 = (k + j - 1) + i - 1
    BY <1>1, <2>2
  <2> QED BY <2>3, <2>4, <2>5
<1>7. Newest(s, j) = b
  <2>1. Len(Newest(s, j)) = Len(b)
    BY <1>1, <1>3, <1>4, <1>5
  <2> QED BY <1>3, <1>5, <1>6, <2>1, SeqEqual
<1> QED BY <1>7 DEF b, s

\* From the k-th turn on the history fits, and from no earlier one.
FitsFirst(h, k) == Fits(Newest(h, k)) /\ \A j \in 1 .. k - 1 : ~ Fits(Newest(h, j))

\* A popping loop stops at the first place from which on there is not too much.
LEMMA PopWhileStops ==
    ASSUME NEW h \in Seq(Turns), NEW over \in SUBSET (1 .. Len(h))
    PROVE  \E k \in 1 .. Len(h) + 1 :
               PopWhile(h, over) = Newest(h, k) /\ k \notin over /\ 1 .. k - 1 \subseteq over
<1> DEFINE Places == 1 .. Len(h) + 1
           Step(k, f) == IF k \in over THEN f[k + 1] ELSE k
           from == CHOOSE f : f = [k \in Places |-> Step(k, f)]
           Behind(k) == {j \in Places \ over : k <= j}
           Next(k) == CHOOSE j \in Behind(k) : \A l \in Behind(k) : j <= l
           stop == [k \in Places |-> Next(k)]
<1>1. Len(h) \in Nat /\ Len(h) + 1 \in Places \ over /\ Places \subseteq Nat
  OBVIOUS
<1>2. PopWhile(h, over) = Newest(h, from[1])
  BY DEF PopWhile
\* There is such a function: the next place that is not over.
<1>3. \A k \in Places : Next(k) \in Behind(k) /\ \A l \in Behind(k) : Next(k) <= l
  <2>1. TAKE k \in Places
  <2>2. Len(h) + 1 \in Behind(k) /\ Behind(k) \subseteq Nat
    BY <1>1, <2>1
  <2> HIDE DEF Behind
  <2>3. \E j \in Behind(k) : \A l \in Behind(k) : j <= l
    BY <2>2, LeastNumber
  <2> QED BY <2>3
<1> HIDE DEF Next
<1>4. \A k \in Places : Next(k) = Step(k, stop)
  <2>1. TAKE k \in Places
  <2>2. CASE k \in over
    <3>1. k + 1 \in Places /\ Behind(k + 1) = Behind(k)
      BY <1>1, <2>2
    <3>2. Next(k + 1) = Next(k)
      BY <3>1 DEF Next
    <3> QED BY <2>2, <3>1, <3>2
  <2>3. CASE k \notin over
    <3>1. k \in Behind(k) /\ Next(k) \in Behind(k) /\ Next(k) <= k
      BY <1>1, <1>3, <2>3
    <3>2. Next(k) = k
      BY <1>1, <3>1
    <3> QED BY <2>3, <3>2
  <2> QED BY <2>2, <2>3
<1>5. stop = [k \in Places |-> Step(k, stop)]
  <2> HIDE DEF Step, Places
  <2> QED BY <1>4
<1> HIDE DEF stop
<1>6. from = [k \in Places |-> Step(k, from)]
  BY <1>5
<1>7. \A k \in Places : from[k] = Step(k, from)
  BY <1>6
<1> HIDE DEF from
\* The loop comes from the first place to the first that is not over.
<1>8. PICK k \in Places \ over : \A j \in Places \ over : k <= j
  <2> DEFINE T == Places \ over
  <2>1. T \subseteq Nat /\ T # {}
    BY <1>1
  <2> HIDE DEF T
  <2>2. \E x \in T : \A y \in T : x <= y
    BY <2>1, LeastNumber
  <2> QED BY <2>2 DEF T
<1>9. k \in Nat /\ \A j \in 1 .. k - 1 : j \in over /\ j \in Places
  BY <1>1, <1>8
<1> DEFINE Failing == {d \in 0 .. k - 1 : from[k - d] # k}
<1>10. Failing = {}
  <2>1. SUFFICES ASSUME Failing # {} PROVE FALSE
    BY <2>1
  <2>2. PICK d \in Failing : \A y \in Failing : d <= y
    <3>1. Failing \subseteq Nat
      BY <1>9
    <3> HIDE DEF Failing
    <3> QED BY <2>1, <3>1, LeastNumber
  <2>3. d \in 0 .. k - 1 /\ from[k - d] # k
    BY <2>2
  <2>4. CASE d = 0
    <3>1. from[k] = k
      BY <1>7, <1>8
    <3> QED BY <1>9, <2>3, <2>4, <3>1
  <2>5. CASE d # 0
    <3>1. d - 1 \in 0 .. k - 1 /\ d - 1 \notin Failing
      <4>1. d - 1 \in 0 .. k - 1 /\ ~ (d <= d - 1)
        BY <1>9, <2>3, <2>5
      <4> HIDE DEF Failing
      <4> QED BY <2>2, <4>1
    <3>2. from[k - (d - 1)] = k
      BY <3>1
    <3>3. k - d \in over /\ k - d \in Places /\ (k - d) + 1 = k - (d - 1)
      BY <1>9, <2>3, <2>5
    <3>4. from[k - d] = from[(k - d) + 1]
      BY <1>7, <3>3
    <3> QED BY <2>3, <3>2, <3>3, <3>4
  <2> QED BY <2>4, <2>5
<1>11. from[1] = k
  <2>1. k - 1 \in 0 .. k - 1 /\ k - (k - 1) = 1
    BY <1>8, <1>9
  <2>2. from[k - (k - 1)] = k
    BY <1>10, <2>1
  <2> QED BY <2>1, <2>2
<1> QED BY <1>2, <1>8, <1>9, <1>11

\* The two loops together stop at the first place from which on the history fits.
LEMMA TrimStops ==
    ASSUME NEW h \in Seq(Turns)
    PROVE  \E k \in 1 .. Len(h) + 1 : TrimHistory(h) = Newest(h, k) /\ FitsFirst(h, k)
<1> DEFINE long == {k \in 1 .. Len(h) : Len(Newest(h, k)) > MaxHistoryTurns}
<1>1. Len(h) \in Nat
  OBVIOUS
<1>2. PICK p \in 1 .. Len(h) + 1 :
          PopTurns(h) = Newest(h, p) /\ p \notin long /\ 1 .. p - 1 \subseteq long
  <2>1. long \in SUBSET (1 .. Len(h))
    OBVIOUS
  <2> HIDE DEF long
  <2>2. \E k \in 1 .. Len(h) + 1 :
            PopWhile(h, long) = Newest(h, k) /\ k \notin long /\ 1 .. k - 1 \subseteq long
    BY <2>1, PopWhileStops
  <2> QED BY <2>2 DEF PopTurns, long
<1> DEFINE s == Newest(h, p)
           heavy == {k \in 1 .. Len(s) : Weight(Newest(s, k)) > MaxHistoryChars}
<1>3. s \in Seq(Turns) /\ Len(s) = Len(h) - p + 1
  BY <1>2, NewestType
<1>4. PICK q \in 1 .. Len(s) + 1 :
          PopChars(s) = Newest(s, q) /\ q \notin heavy /\ 1 .. q - 1 \subseteq heavy
  <2>1. heavy \in SUBSET (1 .. Len(s))
    OBVIOUS
  <2> HIDE DEF heavy, s
  <2>2. \E k \in 1 .. Len(s) + 1 :
            PopWhile(s, heavy) = Newest(s, k) /\ k \notin heavy /\ 1 .. k - 1 \subseteq heavy
    BY <1>3, <2>1, PopWhileStops
  <2> QED BY <2>2 DEF PopChars, heavy
<1> HIDE DEF s
<1>5. Len(s) \in Nat /\ q \in Nat /\ p \in Nat
  BY <1>1, <1>2, <1>3, <1>4
<1>6. \A i \in 1 .. Len(s) + 1 : Newest(s, i) = Newest(h, p + i - 1)
  <2>1. TAKE i \in 1 .. Len(s) + 1
  <2>2. i \in 1 .. Len(h) - p + 2
    BY <1>1, <1>3, <1>5
  <2> QED BY <1>2, <2>2, NewestNewest DEF s
<1> DEFINE k == p + q - 1
<1>7. k \in 1 .. Len(h) + 1
  BY <1>1, <1>2, <1>3, <1>4, <1>5
<1>8. TrimHistory(h) = Newest(h, k)
  <2>1. TrimHistory(h) = Newest(s, q)
    BY <1>2, <1>4 DEF TrimHistory, s
  <2> QED BY <1>4, <1>6, <2>1
<1>9. Fits(Newest(h, k))
  <2>1. Newest(s, q) \in Seq(Turns) /\ Len(Newest(s, q)) = Len(s) - q + 1
    BY <1>3, <1>4, NewestType
  <2>2. Len(s) <= MaxHistoryTurns
    <3>1. CASE p = Len(h) + 1
      BY <1>1, <1>3, <3>1, ConversationAssumption
    <3>2. CASE p # Len(h) + 1
      <4>1. p \in 1 .. Len(h) /\ ~ (Len(Newest(h, p)) > MaxHistoryTurns)
        BY <1>1, <1>2, <3>2
      <4> QED BY <1>5, <4>1, ConversationAssumption DEF s
    <3> QED BY <3>1, <3>2
  <2>3. Len(Newest(s, q)) <= MaxHistoryTurns
    BY <1>4, <1>5, <2>1, <2>2, ConversationAssumption
  <2>4. Newest(s, q) = <<>> \/ Weight(Newest(s, q)) <= MaxHistoryChars
    <3>1. CASE q = Len(s) + 1
      <4>1. Len(Newest(s, q)) = 0
        BY <1>5, <2>1, <3>1
      <4> QED BY <2>1, <4>1
    <3>2. CASE q # Len(s) + 1
      <4>1. q \in 1 .. Len(s) /\ ~ (Weight(Newest(s, q)) > MaxHistoryChars)
        BY <1>4, <1>5, <3>2
      <4>2. Weight(Newest(s, q)) \in Nat
        BY <2>1, WeightType
      <4> QED BY <4>1, <4>2, ConversationAssumption
    <3> QED BY <3>1, <3>2
  <2>5. Fits(Newest(s, q))
    BY <2>3, <2>4 DEF Fits
  <2> QED BY <1>4, <1>6, <2>5
<1>10. \A j \in 1 .. k - 1 : ~ Fits(Newest(h, j))
  <2>1. TAKE j \in 1 .. k - 1
  <2>2. CASE j \in 1 .. p - 1
    <3>1. Len(Newest(h, j)) > MaxHistoryTurns /\ Len(Newest(h, j)) \in Nat
      <4>1. j \in long /\ j \in 1 .. Len(h) + 1
        BY <1>1, <1>2, <1>5, <2>2
      <4> QED BY <4>1, NewestType
    <3> QED BY <3>1, ConversationAssumption DEF Fits
  <2>3. CASE j \notin 1 .. p - 1
    <3> DEFINE i == j - p + 1
    <3>1. i \in 1 .. q - 1 /\ i \in 1 .. Len(s) /\ i \in 1 .. Len(s) + 1 /\ p + i - 1 = j
      BY <1>4, <1>5, <2>1, <2>3
    <3> HIDE DEF i
    <3>2. Weight(Newest(s, i)) > MaxHistoryChars
      BY <1>4, <3>1
    <3>3. /\ Newest(s, i) \in Seq(Turns) /\ Len(Newest(s, i)) = Len(s) - i + 1
          /\ Newest(s, i) = Newest(h, j)
      <4>1. Newest(s, i) \in Seq(Turns) /\ Len(Newest(s, i)) = Len(s) - i + 1
        BY <1>3, <3>1, NewestType
      <4>2. Newest(s, i) = Newest(h, p + i - 1)
        BY <1>6, <3>1
      <4> QED BY <3>1, <4>1, <4>2
    <3>4. Newest(s, i) # <<>>
      BY <1>5, <3>1, <3>3
    <3>5. Weight(Newest(s, i)) \in Nat
      BY <3>3, WeightType
    <3> QED BY <3>2, <3>3, <3>4, <3>5, ConversationAssumption DEF Fits
  <2> QED BY <2>2, <2>3
<1> HIDE DEF k
<1> QED BY <1>7, <1>8, <1>9, <1>10 DEF FitsFirst

\* trim_history never leaves more than the carried context may hold, and what
\* it leaves is a suffix of the history: the newest turns, in their order.
THEOREM TrimHistoryFits ==
    ASSUME NEW h \in Seq(Turns)
    PROVE  /\ TrimHistory(h) \in Seq(Turns)
           /\ Fits(TrimHistory(h))
           /\ \E k \in 1 .. Len(h) + 1 :
                  /\ TrimHistory(h) = Newest(h, k)
                  /\ \A j \in 1 .. k - 1 : ~ Fits(Newest(h, j))
<1>1. PICK k \in 1 .. Len(h) + 1 : TrimHistory(h) = Newest(h, k) /\ FitsFirst(h, k)
  BY TrimStops
<1>2. Newest(h, k) \in Seq(Turns)
  BY NewestType
<1> QED
  BY <1>1, <1>2 DEF FitsFirst

\* record_turn takes a history and a turn to a history, whatever it drops.
THEOREM RecordTurnType ==
    ASSUME NEW h \in Seq(Turns), NEW turn \in Turns
    PROVE  RecordTurn(h, turn) \in Seq(Turns)
<1>1. Append(h, turn) \in Seq(Turns)
  OBVIOUS
<1> QED
  BY <1>1, TrimHistoryFits DEF RecordTurn

\* What fits with one more turn at its end fits without.
LEMMA FitsWithout ==
    ASSUME NEW h \in Seq(Turns), NEW turn \in Turns, Fits(Append(h, turn))
    PROVE  Fits(h)
<1>1. /\ Len(h) \in Nat /\ Len(Append(h, turn)) = Len(h) + 1 /\ Append(h, turn) # <<>>
  OBVIOUS
<1>2. Len(h) <= MaxHistoryTurns
  BY <1>1, ConversationAssumption DEF Fits
<1>3. Weight(h) <= MaxHistoryChars
  BY <1>1, WeightGrows, ConversationAssumption DEF Fits
<1> QED BY <1>2, <1>3 DEF Fits

\* Dropping the oldest turns and adding one at the end can be done in any order.
LEMMA NewestAppend ==
    ASSUME NEW h \in Seq(Turns), NEW turn \in Turns, NEW k \in 1 .. Len(h) + 1
    PROVE  Newest(Append(h, turn), k) = Append(Newest(h, k), turn)
<1> DEFINE longer == Append(h, turn)
           a == Newest(longer, k)
           b == Append(Newest(h, k), turn)
<1>1. /\ longer \in Seq(Turns) /\ Len(h) \in Nat /\ Len(longer) = Len(h) + 1
      /\ \A i \in 1 .. Len(h) : longer[i] = h[i]
      /\ longer[Len(h) + 1] = turn
  OBVIOUS
<1>2. /\ Newest(h, k) \in Seq(Turns) /\ Len(Newest(h, k)) = Len(h) - k + 1
      /\ \A i \in 1 .. Len(h) - k + 1 : Newest(h, k)[i] = h[k + i - 1]
  BY <1>1, NewestType, SubSeqProperties DEF Newest
<1>3. /\ b \in Seq(Turns) /\ Len(b) = Len(h) - k + 2
      /\ \A i \in 1 .. Len(h) - k + 1 : b[i] = h[k + i - 1]
      /\ b[Len(h) - k + 2] = turn
  BY <1>1, <1>2
<1> HIDE DEF longer
<1>4. /\ a \in Seq(Turns) /\ Len(a) = Len(h) - k + 2
      /\ \A i \in 1 .. Len(h) - k + 2 : a[i] = longer[k + i - 1]
  BY <1>1, NewestType, SubSeqProperties DEF Newest
<1>5. \A i \in 1 .. Len(h) - k + 2 : a[i] = b[i]
  <2> HIDE DEF a, b
  <2>1. TAKE i \in 1 .. Len(h) - k + 2
  <2>2. a[i] = longer[k + i - 1]
    BY <1>4
  <2>3. CASE i = Len(h) - k + 2
    BY <1>1, <1>3, <2>2, <2>3
  <2>4. CASE i # Len(h) - k + 2
    <3>1. i \in 1 .. Len(h) - k + 1 /\ k + i - 1 \in 1 .. Len(h)
      BY <1>1, <2>4
    <3>2. b[i] = h[k + i - 1] /\ longer[k + i - 1] = h[k + i - 1]
      BY <1>1, <1>3, <3>1
    <3> QED BY <2>2, <3>2
  <2> QED BY <2>3, <2>4
<1> HIDE DEF a, b
<1>6. a = b
  BY <1>3, <1>4, <1>5, <1>1, SeqEqual
<1> QED BY <1>6 DEF a, b, longer

\* There is but one such place, so it is where trim_history cuts.
LEMMA TrimmedAt ==
    ASSUME NEW h \in Seq(Turns), NEW k \in 1 .. Len(h) + 1, FitsFirst(h, k)
    PROVE  TrimHistory(h) = Newest(h, k)
<1>1. PICK l \in 1 .. Len(h) + 1 : TrimHistory(h) = Newest(h, l) /\ FitsFirst(h, l)
  BY TrimHistoryFits DEF FitsFirst
<1>2. Len(h) \in Nat
  OBVIOUS
<1>3. ~ (k < l) /\ ~ (l < k)
  BY <1>1, <1>2 DEF FitsFirst
<1>4. k = l
  BY <1>2, <1>3
<1> QED BY <1>1, <1>4

\* The two popping loops leave the longest suffix that is within both bounds: no
\* turn is dropped that could have been kept.
THEOREM TrimIsLongest ==
    ASSUME NEW h \in Seq(Turns)
    PROVE  TrimHistory(h) = LongestFitting(h)
<1> DEFINE from == CHOOSE k \in 1 .. Len(h) + 1 :
                       /\ Fits(Newest(h, k))
                       /\ \A j \in 1 .. k - 1 : ~ Fits(Newest(h, j))
<1>1. \E k \in 1 .. Len(h) + 1 : Fits(Newest(h, k)) /\ \A j \in 1 .. k - 1 : ~ Fits(Newest(h, j))
  BY TrimStops DEF FitsFirst
<1>2. from \in 1 .. Len(h) + 1 /\ FitsFirst(h, from)
  BY <1>1 DEF FitsFirst
<1>3. LongestFitting(h) = Newest(h, from)
  BY DEF LongestFitting
<1> HIDE DEF from
<1> QED BY <1>2, <1>3, TrimmedAt

\* Trimming after every turn loses nothing: the record is the same as if the whole
\* conversation had been kept and trimmed once.  This is what lets the history
\* be carried from turn to turn already trimmed.
THEOREM RecordTrimmed ==
    ASSUME NEW h \in Seq(Turns), NEW turn \in Turns
    PROVE  RecordTurn(TrimHistory(h), turn) = TrimHistory(Append(h, turn))
<1> DEFINE whole == Append(h, turn)
<1>1. Len(h) \in Nat /\ whole \in Seq(Turns) /\ Len(whole) = Len(h) + 1
  OBVIOUS
<1>2. PICK p \in 1 .. Len(h) + 1 : TrimHistory(h) = Newest(h, p) /\ FitsFirst(h, p)
  BY TrimHistoryFits DEF FitsFirst
<1>3. PICK q \in 1 .. Len(whole) + 1 : TrimHistory(whole) = Newest(whole, q) /\ FitsFirst(whole, q)
  BY <1>1, TrimHistoryFits DEF FitsFirst
<1>4. p <= q
  <2>1. SUFFICES ASSUME q < p PROVE FALSE
    BY <1>1, <1>2, <1>3
  <2>2. q \in 1 .. Len(h) + 1 /\ q \in 1 .. p - 1
    BY <1>1, <1>2, <1>3, <2>1
  <2>3. Newest(whole, q) = Append(Newest(h, q), turn) /\ Newest(h, q) \in Seq(Turns)
    BY <2>2, NewestAppend, NewestType
  <2>4. Fits(Append(Newest(h, q), turn))
    BY <1>3, <2>3 DEF FitsFirst
  <2>5. Fits(Newest(h, q))
    BY <2>3, <2>4, FitsWithout
  <2> QED BY <1>2, <2>2, <2>5 DEF FitsFirst
<1> DEFINE kept == Append(TrimHistory(h), turn)
<1>5. kept = Newest(whole, p)
  BY <1>2, NewestAppend
<1> HIDE DEF whole, kept
<1>6. kept \in Seq(Turns) /\ Len(kept) = Len(whole) - p + 1 /\ p \in 1 .. Len(whole) + 1
  <2>1. p \in 1 .. Len(whole) + 1
    BY <1>1, <1>2
  <2> QED BY <1>1, <1>5, <2>1, NewestType
<1>7. \A j \in 1 .. Len(kept) + 1 : Newest(kept, j) = Newest(whole, p + j - 1)
  <2>1. TAKE j \in 1 .. Len(kept) + 1
  <2>2. j \in 1 .. Len(whole) - p + 2
    BY <1>1, <1>6
  <2> QED BY <1>1, <1>5, <1>6, <2>2, NewestNewest
<1> DEFINE r == q - p + 1
<1>8. r \in 1 .. Len(kept) + 1 /\ p + r - 1 = q
  BY <1>1, <1>3, <1>4, <1>6
<1>9. FitsFirst(kept, r)
  <2>1. Fits(Newest(kept, r))
    BY <1>3, <1>7, <1>8 DEF FitsFirst
  <2>2. ASSUME NEW j \in 1 .. r - 1 PROVE ~ Fits(Newest(kept, j))
    <3>1. j \in 1 .. Len(kept) + 1 /\ p + j - 1 \in 1 .. q - 1
      BY <1>1, <1>6, <1>8, <2>2
    <3> QED BY <1>3, <1>7, <3>1 DEF FitsFirst
  <2> QED BY <2>1, <2>2 DEF FitsFirst
<1> HIDE DEF r
<1>10. TrimHistory(kept) = Newest(whole, q)
  BY <1>6, <1>7, <1>8, <1>9, TrimmedAt
<1> QED BY <1>3, <1>10 DEF RecordTurn, kept, whole
=============================================================================
