----------------------------- MODULE PageProofs -----------------------------
(***************************************************************************)
(* The agents that read COL's pages, for every page that COL can answer     *)
(* with: what is read is what the page shows.                               *)
(*                                                                         *)
(* Account: the holdings are in the right lists, and the numbers of the     *)
(* summary in the right places unless a dash comes before them.             *)
(*                                                                         *)
(* Market: no row with rank and symbol, or with two levels, is lost, and    *)
(* the sign of a change is never turned round.                              *)
(*                                                                         *)
(* Guide: the date of an answer is never older than its rows, and the       *)
(* answer is the part of the table that was asked for.                      *)
(***************************************************************************)
EXTENDS Portfolio, MarketInfo, TechnicalGuide, WellFoundedInduction, TLAPS

-----------------------------------------------------------------------------
(* Cells.                                                                  *)

\* to_decimal undoes each way COL has of printing a number, but for the one that
\* leaves its sign to a colour.
THEOREM PrintedIsRead ==
    ASSUME NEW value \in Decimals, NEW style \in Styles \ {"unsigned"}
    PROVE  ToDecimal(Printed(value, style)) = value
<1>1. CASE value = None
  BY <1>1 DEF ToDecimal, Printed
<1>2. CASE value \in Int
  <2>1. value # None
    BY <1>2, NoneAssumption
  <2>2. CASE value < 0
    <3>1. - value \in Nat /\ - value # None
      BY <1>2, <2>2, NoneAssumption
    <3> QED BY <1>2, <2>1, <2>2, <3>1 DEF ToDecimal, Printed, Styles
  <2>3. CASE value >= 0
    BY <1>2, <2>1, <2>3 DEF ToDecimal, Printed, Styles
  <2> QED BY <1>2, <2>2, <2>3
<1> QED BY <1>1, <1>2 DEF Decimals

\* A number that COL leaves unsigned comes out as its absolute value.
THEOREM UnsignedIsRead ==
    ASSUME NEW value \in Int
    PROVE  ToDecimal(Printed(value, "unsigned")) = IF value < 0 THEN - value ELSE value
<1>1. value # None /\ - value # None
  BY NoneAssumption
<1> QED BY <1>1 DEF ToDecimal, Printed

-----------------------------------------------------------------------------
(* Lists: the rows of a page that are kept, each once and in the page's order.*)

\* Every nonempty set of naturals has a least element.
LEMMA LeastNumber ==
    ASSUME NEW T, T \subseteq Nat, T # {}
    PROVE  \E x \in T : \A y \in T : x <= y
<1>1. \E x \in T : \A y \in T : ~ (<<y, x>> \in OpToRel(<, Nat))
  BY NatLessThanWellFounded, WFMin
<1>2. PICK x \in T : \A y \in T : ~ (<<y, x>> \in OpToRel(<, Nat))
  BY <1>1
<1>3. \A y \in T : ~ (y < x)
  BY <1>2 DEF OpToRel
<1>4. \A y \in T : x <= y
  BY <1>3
<1> QED
  BY <1>4

\* The list holds just these numbers, in their order.
Lists(list, members) ==
    /\ list \in Seq(Nat)
    /\ \A i \in members : \E k \in DOMAIN list : list[k] = i
    /\ \A k \in DOMAIN list : list[k] \in members
    /\ \A k, l \in DOMAIN list : k < l => list[k] < list[l]

LEMMA NothingListed == Lists(<<>>, {})
<1>1. <<>> \in Seq(Nat) /\ \A k \in DOMAIN <<>> : FALSE
  OBVIOUS
<1> QED BY <1>1 DEF Lists

\* The next number becomes the last of the list.
LEMMA NextListed ==
    ASSUME NEW n \in Nat, NEW members \in SUBSET (1 .. n), NEW list, Lists(list, members)
    PROVE  Lists(Append(list, n + 1), members \cup {n + 1})
<1> DEFINE longer == Append(list, n + 1)
<1>1. /\ Len(list) \in Nat /\ DOMAIN list = 1 .. Len(list) /\ longer \in Seq(Nat)
      /\ DOMAIN longer = 1 .. Len(list) + 1
      /\ longer[Len(list) + 1] = n + 1 /\ \A k \in DOMAIN list : longer[k] = list[k]
  BY DEF Lists
<1> HIDE DEF longer
<1>2. \A i \in members \cup {n + 1} : \E k \in DOMAIN longer : longer[k] = i
  <2>1. TAKE i \in members \cup {n + 1}
  <2>2. CASE i \in members
    <3>1. PICK k \in DOMAIN list : list[k] = i
      BY <2>2 DEF Lists
    <3>2. k \in DOMAIN longer /\ longer[k] = i
      BY <3>1, <1>1
    <3> QED BY <3>2
  <2>3. CASE i = n + 1
    <3>1. Len(list) + 1 \in DOMAIN longer
      BY <1>1
    <3> QED BY <3>1, <2>3, <1>1
  <2> QED BY <2>2, <2>3
<1>3. \A k \in DOMAIN longer : longer[k] \in members \cup {n + 1}
  BY <1>1 DEF Lists
<1>4. \A k, l \in DOMAIN longer : k < l => longer[k] < longer[l]
  <2>1. SUFFICES ASSUME NEW k \in DOMAIN longer, NEW l \in DOMAIN longer, k < l
                 PROVE  longer[k] < longer[l]
    OBVIOUS
  <2>2. k \in DOMAIN list /\ longer[k] = list[k] /\ list[k] \in 1 .. n
    BY <2>1, <1>1 DEF Lists
  <2>3. CASE l \in DOMAIN list
    BY <2>1, <2>2, <2>3, <1>1 DEF Lists
  <2>4. CASE l = Len(list) + 1
    BY <2>2, <2>4, <1>1
  <2> QED BY <2>3, <2>4, <1>1
<1> QED BY <1>1, <1>2, <1>3, <1>4 DEF Lists, longer

\* f is the list of the places kept, place by place.
Keeps(f, places, n) ==
    /\ f \in [0 .. n -> Seq(Nat)]
    /\ f[0] = <<>>
    /\ \A k \in 1 .. n : f[k] = IF k \in places THEN Append(f[k - 1], k) ELSE f[k - 1]

\* There is such a list of lists: a least place without one would come after one
\* that has one.
LEMMA KeptExists ==
    ASSUME NEW places, NEW n \in Nat
    PROVE  \E f : Keeps(f, places, n)
<1> DEFINE Failing == {m \in Nat : ~ \E f : Keeps(f, places, m)}
<1>1. SUFFICES ASSUME Failing # {} PROVE FALSE
  BY <1>1
<1>2. PICK m \in Failing : \A y \in Failing : m <= y
  <2>1. Failing \subseteq Nat
    OBVIOUS
  <2> HIDE DEF Failing
  <2> QED BY <1>1, <2>1, LeastNumber
<1>3. m \in Nat /\ ~ \E f : Keeps(f, places, m)
  BY <1>2
<1>4. CASE m = 0
  <2> DEFINE g == [k \in 0 .. 0 |-> <<>>]
  <2>1. g \in [0 .. 0 -> Seq(Nat)] /\ g[0] = <<>>
    OBVIOUS
  <2>2. Keeps(g, places, 0)
    BY <2>1 DEF Keeps
  <2> QED BY <2>2, <1>3, <1>4
<1>5. CASE m # 0
  <2>1. m - 1 \in Nat /\ m - 1 \notin Failing
    BY <1>2, <1>3, <1>5
  <2>2. PICK f : Keeps(f, places, m - 1)
    BY <2>1
  <2> DEFINE last == IF m \in places THEN Append(f[m - 1], m) ELSE f[m - 1]
             g == [k \in 0 .. m |-> IF k = m THEN last ELSE f[k]]
  <2>3. last \in Seq(Nat) /\ \A k \in 0 .. m - 1 : f[k] \in Seq(Nat)
    BY <1>3, <2>1, <2>2 DEF Keeps
  <2>4. g[m] = last /\ \A k \in 0 .. m - 1 : g[k] = f[k]
    BY <1>3
  <2>5. g \in [0 .. m -> Seq(Nat)]
    <3> HIDE DEF last
    <3> QED BY <1>3, <2>3
  <2> HIDE DEF g
  <2>6. g[0] = <<>>
    BY <1>3, <1>5, <2>1, <2>2, <2>4 DEF Keeps
  <2>7. \A k \in 1 .. m : g[k] = IF k \in places THEN Append(g[k - 1], k) ELSE g[k - 1]
    <3>1. TAKE k \in 1 .. m
    <3>2. k - 1 \in 0 .. m - 1 /\ g[k - 1] = f[k - 1]
      BY <1>3, <2>4
    <3>3. CASE k = m
      BY <2>4, <3>2, <3>3
    <3>4. CASE k # m
      <4>1. k \in 1 .. m - 1 /\ g[k] = f[k]
        BY <1>3, <2>4, <3>4
      <4> QED BY <2>2, <3>2, <4>1 DEF Keeps
    <3> QED BY <3>3, <3>4
  <2>8. Keeps(g, places, m)
    BY <2>5, <2>6, <2>7 DEF Keeps
  <2> QED BY <2>8, <1>3
<1> QED BY <1>4, <1>5

\* What is kept is the places there are, each once and in order.
LEMMA InOrderLists ==
    ASSUME NEW places, NEW n \in Nat
    PROVE  Lists(InOrder(places, n), places \cap (1 .. n))
<1> DEFINE Step(k, f) == IF k = 0 THEN <<>>
                         ELSE IF k \in places THEN Append(f[k - 1], k)
                         ELSE f[k - 1]
           upTo == CHOOSE f : f = [k \in 0 .. n |-> Step(k, f)]
           Failing == {m \in 0 .. n : ~ Lists(upTo[m], places \cap (1 .. m))}
<1>1. InOrder(places, n) = upTo[n]
  BY DEF InOrder
<1>2. PICK f : Keeps(f, places, n)
  BY KeptExists
<1>3. f = [k \in 0 .. n |-> Step(k, f)]
  <2>1. \A k \in 0 .. n : f[k] = Step(k, f)
    <3>1. f[0] = Step(0, f)
      BY <1>2, Zenon DEF Keeps
    <3>2. \A k \in 1 .. n : f[k] = IF k \in places THEN Append(f[k - 1], k) ELSE f[k - 1]
      BY <1>2, Zenon DEF Keeps
    <3>3. \A k \in 1 .. n : k # 0
      OBVIOUS
    <3>4. \A k \in 1 .. n : f[k] = Step(k, f)
      BY <3>2, <3>3, Zenon
    <3>5. \A k \in 0 .. n : k = 0 \/ k \in 1 .. n
      OBVIOUS
    <3> HIDE DEF Step
    <3> QED BY <3>1, <3>4, <3>5
  <2>2. f = [k \in 0 .. n |-> f[k]]
    BY <1>2 DEF Keeps
  <2> HIDE DEF Step
  <2> QED BY <2>1, <2>2
<1>4. upTo = [k \in 0 .. n |-> Step(k, upTo)]
  BY <1>3
<1>5. \A k \in 0 .. n : upTo[k] = Step(k, upTo)
  BY <1>4
<1> HIDE DEF upTo
<1>6. SUFFICES ASSUME Failing # {} PROVE FALSE
  BY <1>1, <1>6
<1>7. PICK m \in Failing : \A y \in Failing : m <= y
  <2>1. Failing \subseteq Nat
    OBVIOUS
  <2> HIDE DEF Failing
  <2> QED BY <1>6, <2>1, LeastNumber
<1>8. CASE m = 0
  <2>1. upTo[m] = <<>> /\ places \cap (1 .. m) = {}
    BY <1>5, <1>7, <1>8
  <2>2. Lists(upTo[m], places \cap (1 .. m))
    BY <2>1, NothingListed
  <2> QED BY <2>2, <1>7
<1>9. CASE m # 0
  <2>1. m - 1 \in Nat /\ m - 1 \in 0 .. n /\ m - 1 \notin Failing /\ m - 1 + 1 = m
    <3>1. m \in 1 .. n
      BY <1>7, <1>9
    <3> HIDE DEF Failing
    <3> QED BY <1>7, <3>1
  <2>2. Lists(upTo[m - 1], places \cap (1 .. m - 1))
    BY <2>1
  <2>3. upTo[m] = IF m \in places THEN Append(upTo[m - 1], m) ELSE upTo[m - 1]
    BY <1>5, <1>7, <1>9
  <2>4. 1 .. m = (1 .. m - 1) \cup {m}
    BY <2>1
  <2>5. CASE m \in places
    <3>1. places \cap (1 .. m) = (places \cap (1 .. m - 1)) \cup {m}
      BY <2>4, <2>5
    <3>2. Lists(upTo[m], places \cap (1 .. m))
      BY <2>1, <2>2, <2>3, <2>5, <3>1, NextListed
    <3> QED BY <3>2, <1>7
  <2>6. CASE m \notin places
    <3>1. places \cap (1 .. m) = places \cap (1 .. m - 1)
      BY <2>4, <2>6
    <3>2. Lists(upTo[m], places \cap (1 .. m))
      BY <2>2, <2>3, <2>6, <3>1
    <3> QED BY <3>2, <1>7
  <2> QED BY <2>5, <2>6
<1> QED BY <1>8, <1>9

LEMMA ListType ==
    ASSUME NEW list, NEW members, Lists(list, members)
    PROVE  list \in Seq(Nat) /\ Len(list) \in Nat /\ DOMAIN list = 1 .. Len(list)
BY DEF Lists

\* The order of the members is that of their places.
LEMMA ListOrder ==
    ASSUME NEW list, NEW members, Lists(list, members), NEW k \in DOMAIN list, NEW l \in DOMAIN list
    PROVE  /\ k \in Nat /\ l \in Nat /\ list[k] \in Nat /\ list[l] \in Nat
           /\ k < l <=> list[k] < list[l]
<1>1. /\ list \in Seq(Nat) /\ DOMAIN list = 1 .. Len(list)
  BY ListType
<1>2. /\ k \in Nat /\ l \in Nat /\ list[k] \in Nat /\ list[l] \in Nat
  BY <1>1
<1>3. /\ k < l => list[k] < list[l]
      /\ l < k => list[l] < list[k]
      /\ k = l => list[l] = list[k]
  BY Zenon DEF Lists
<1> QED BY <1>2, <1>3

\* There is one list of the same members only.
LEMMA ListsUnique ==
    ASSUME NEW members, NEW a, NEW b, Lists(a, members), Lists(b, members)
    PROVE  a = b
<1>1. /\ a \in Seq(Nat) /\ Len(a) \in Nat /\ DOMAIN a = 1 .. Len(a)
      /\ b \in Seq(Nat) /\ Len(b) \in Nat /\ DOMAIN b = 1 .. Len(b)
  BY ListType
<1> DEFINE Failing == {k \in DOMAIN a \cap DOMAIN b : a[k] # b[k]}
\* A place where they differ is where one of them has left out what the other has.
<1>2. ASSUME NEW c, NEW d, Lists(c, members), Lists(d, members),
             NEW k \in DOMAIN c \cap DOMAIN d, c[k] < d[k]
      PROVE  \E l \in DOMAIN c \cap DOMAIN d : l < k /\ c[l] # d[l]
  <2>1. PICK l \in DOMAIN d : d[l] = c[k]
    BY <1>2, Zenon DEF Lists
  <2>2. l < k
    BY <1>2, <2>1, ListOrder
  <2>3. l \in DOMAIN c
    BY <1>2, <2>1, <2>2, ListType
  <2>4. c[l] < c[k] /\ c[l] \in Nat /\ c[k] \in Nat
    BY <1>2, <2>2, <2>3, ListOrder
  <2> QED BY <2>1, <2>2, <2>3, <2>4
<1>3. Failing = {}
  <2>1. SUFFICES ASSUME Failing # {} PROVE FALSE
    BY <2>1
  <2>2. PICK k \in Failing : \A y \in Failing : k <= y
    <3>1. Failing \subseteq Nat
      BY <1>1
    <3> HIDE DEF Failing
    <3> QED BY <2>1, <3>1, LeastNumber
  <2>3. k \in DOMAIN a \cap DOMAIN b /\ a[k] \in Nat /\ b[k] \in Nat /\ a[k] # b[k] /\ k \in Nat
    BY <1>1, <2>2
  <2>4. a[k] < b[k] \/ b[k] < a[k]
    BY <2>3
  <2>5. \E l \in DOMAIN a \cap DOMAIN b : l < k /\ a[l] # b[l]
    BY <1>2, <2>3, <2>4
  <2>6. PICK l \in DOMAIN a \cap DOMAIN b : l < k /\ a[l] # b[l]
    BY <2>5
  <2>7. l \in Failing /\ l \in Nat
    BY <1>1, <2>6
  <2> QED BY <2>2, <2>3, <2>6, <2>7
<1>4. \A k \in DOMAIN a \cap DOMAIN b : a[k] = b[k]
  BY <1>3
\* The shorter one has no more members than it has places.
<1>5. ASSUME NEW c, NEW d, Lists(c, members), Lists(d, members), Len(c) < Len(d),
             \A k \in DOMAIN c \cap DOMAIN d : c[k] = d[k]
      PROVE  FALSE
  <2>1. Len(d) \in DOMAIN d /\ DOMAIN c = 1 .. Len(c) /\ DOMAIN d = 1 .. Len(d)
        /\ Len(c) \in Nat /\ Len(d) \in Nat
    BY <1>5, ListType
  <2>2. PICK l \in DOMAIN c : c[l] = d[Len(d)]
    BY <1>5, <2>1, Zenon DEF Lists
  <2>3. l \in DOMAIN d /\ l < Len(d) /\ d[l] = d[Len(d)]
    BY <1>5, <2>1, <2>2
  <2>4. d[l] < d[Len(d)] /\ d[l] \in Nat
    BY <1>5, <2>1, <2>3, ListOrder
  <2> QED BY <2>3, <2>4
<1>6. Len(a) = Len(b)
  <2>1. ~ (Len(a) < Len(b))
    BY <1>4, <1>5
  <2>2. ~ (Len(b) < Len(a))
    BY <1>4, <1>5
  <2>3. Len(a) \in Nat /\ Len(b) \in Nat
    BY <1>1
  <2> QED BY <2>1, <2>2, <2>3
<1>7. \A k \in 1 .. Len(a) : a[k] = b[k]
  BY <1>1, <1>4, <1>6
<1> QED BY <1>1, <1>6, <1>7

\* Where every place is kept, the k-th place is k.
LEMMA AllInOrder ==
    ASSUME NEW places, NEW n \in Nat, 1 .. n \subseteq places
    PROVE  InOrder(places, n) = [k \in 1 .. n |-> k]
<1> DEFINE all == [k \in 1 .. n |-> k]
<1>1. all \in Seq(Nat) /\ DOMAIN all = 1 .. n /\ \A k \in 1 .. n : all[k] = k
  <2>1. all \in [1 .. n -> Nat]
    OBVIOUS
  <2> QED BY <2>1
<1> HIDE DEF all
<1>2. Lists(all, 1 .. n)
  BY <1>1 DEF Lists
<1>3. places \cap (1 .. n) = 1 .. n
  OBVIOUS
<1>4. Lists(InOrder(places, n), 1 .. n)
  BY <1>3, InOrderLists
<1> QED BY <1>2, <1>4, ListsUnique DEF all

\* Where the first m places are kept, they are the first of the list.
LEMMA FirstInOrder ==
    ASSUME NEW places, NEW n \in Nat, NEW m \in 0 .. n, 1 .. m \subseteq places
    PROVE  /\ Len(InOrder(places, n)) \in Nat /\ m <= Len(InOrder(places, n))
           /\ \A k \in 1 .. m : InOrder(places, n)[k] = k
<1> DEFINE list == InOrder(places, n)
           members == places \cap (1 .. n)
           Failing == {k \in 1 .. m : ~ (k \in DOMAIN list /\ list[k] = k)}
<1>1. Lists(list, members) /\ 1 .. m \subseteq members
  BY InOrderLists
<1> HIDE DEF list
<1>2. Len(list) \in Nat /\ DOMAIN list = 1 .. Len(list)
  BY <1>1, ListType
<1>3. Failing = {}
  <2>1. SUFFICES ASSUME Failing # {} PROVE FALSE
    BY <2>1
  <2>2. PICK k \in Failing : \A y \in Failing : k <= y
    <3>1. Failing \subseteq Nat
      OBVIOUS
    <3> HIDE DEF Failing
    <3> QED BY <2>1, <3>1, LeastNumber
  <2>3. k \in 1 .. m /\ ~ (k \in DOMAIN list /\ list[k] = k) /\ k \in members
    BY <1>1, <2>2
  \* The numbers before k are in their places.
  <2>4. \A j \in 1 .. k - 1 : j \in DOMAIN list /\ list[j] = j
    <3>1. TAKE j \in 1 .. k - 1
    <3>2. j \in 1 .. m /\ ~ (k <= j)
      BY <2>3
    <3> QED BY <2>2, <3>2
  <2>5. PICK l \in DOMAIN list : list[l] = k
    BY <1>1, <2>3, Zenon DEF Lists
  <2>6. l \in Nat /\ k < l
    <3>1. l \in 1 .. Len(list) /\ l # k
      BY <1>2, <2>3, <2>5
    <3>2. ~ (l \in 1 .. k - 1)
      BY <2>3, <2>4, <2>5
    <3> QED BY <1>2, <2>3, <3>1, <3>2
  <2>7. k \in DOMAIN list
    BY <1>2, <2>3, <2>5, <2>6
  <2>8. list[k] \in Nat /\ list[k] < k /\ list[k] \in members
    <3>1. list[k] \in Nat /\ list[l] \in Nat /\ list[k] < list[l]
      BY <1>1, <2>5, <2>6, <2>7, ListOrder
    <3>2. list[k] \in members
      BY <1>1, <2>7, Zenon DEF Lists
    <3> QED BY <2>5, <3>1, <3>2
  <2>9. list[k] \in 1 .. k - 1
    BY <2>3, <2>8
  <2>10. list[k] \in DOMAIN list /\ list[list[k]] = list[k]
    BY <2>4, <2>9
  <2>11. list[list[k]] < list[k]
    BY <1>1, <2>7, <2>8, <2>10, ListOrder
  <2> QED BY <2>8, <2>10, <2>11
<1>4. m <= Len(list)
  <2>1. CASE m = 0
    BY <1>2, <2>1
  <2>2. CASE m # 0
    <3>1. m \in 1 .. m
      BY <2>2
    <3>2. m \in DOMAIN list
      BY <1>3, <3>1
    <3> QED BY <1>2, <3>2
  <2> QED BY <2>1, <2>2
<1> QED BY <1>2, <1>3, <1>4 DEF list

-----------------------------------------------------------------------------
(* Account.                                                                *)

\* What a row of a page is: a holding; or below the totals of the equities.
Holding(sheet, i) == sheet[i].label = "holding"
Ended(sheet, i) == \E j \in 1 .. i : sheet[j].label \in {"equities", "equitiesGain"}

Above(sheet, r) == {i \in 1 .. r : Holding(sheet, i) /\ ~ Ended(sheet, i)}
Below(sheet, r) == {i \in 1 .. r : Holding(sheet, i) /\ Ended(sheet, i)}

\* The holdings of the first r rows are where they belong.
Split(sheet, r, ended, above, below) ==
    /\ ended \in BOOLEAN /\ (ended <=> Ended(sheet, r))
    /\ Lists(above, Above(sheet, r))
    /\ Lists(below, Below(sheet, r))

AccountInv ==
    /\ rows \in PortfolioPages \cup {<<>>}
    /\ row \in 0 .. Len(rows)
    /\ account = "idle" => row = 0
    /\ Split(rows, row, inFunds, equities, funds)

LEMMA RowsType ==
    ASSUME AccountInv
    PROVE  rows \in Seq(AccountRows) /\ Len(rows) \in Nat /\ DOMAIN rows = 1 .. Len(rows)
<1>1. <<>> \in Seq(AccountRows)
  OBVIOUS
<1>2. rows \in Seq(AccountRows)
  BY <1>1, PortfolioAssumption DEF AccountInv
<1> QED BY <1>2

\* A row that is no holding adds to no list, and ends the equities or does not.
LEMMA OtherRow ==
    ASSUME NEW sheet, NEW r \in Nat, NEW ended, NEW above, NEW below, NEW now \in BOOLEAN,
           Split(sheet, r, ended, above, below), ~ Holding(sheet, r + 1),
           now <=> (ended \/ sheet[r + 1].label \in {"equities", "equitiesGain"})
    PROVE  Split(sheet, r + 1, now, above, below)
<1>1. 1 .. r + 1 = (1 .. r) \cup {r + 1}
  OBVIOUS
<1>2. now <=> Ended(sheet, r + 1)
  BY <1>1 DEF Split, Ended
<1>3. Above(sheet, r + 1) = Above(sheet, r) /\ Below(sheet, r + 1) = Below(sheet, r)
  BY <1>1 DEF Above, Below
<1> QED BY <1>2, <1>3 DEF Split

\* A holding goes to the end of the list of its section.
LEMMA HoldingRow ==
    ASSUME NEW sheet, NEW r \in Nat, NEW ended, NEW above, NEW below,
           Split(sheet, r, ended, above, below), Holding(sheet, r + 1)
    PROVE  Split(sheet, r + 1, ended, IF ended THEN above ELSE Append(above, r + 1),
                                     IF ended THEN Append(below, r + 1) ELSE below)
<1>1. 1 .. r + 1 = (1 .. r) \cup {r + 1}
  OBVIOUS
<1>2. sheet[r + 1].label \notin {"equities", "equitiesGain"}
  BY DEF Holding
<1>3. ended \in BOOLEAN /\ (ended <=> Ended(sheet, r)) /\ (Ended(sheet, r + 1) <=> Ended(sheet, r))
  BY <1>1, <1>2 DEF Split, Ended
<1>4. /\ Lists(above, Above(sheet, r)) /\ Above(sheet, r) \in SUBSET (1 .. r)
      /\ Lists(below, Below(sheet, r)) /\ Below(sheet, r) \in SUBSET (1 .. r)
  BY DEF Split, Above, Below
<1>5. CASE ended
  <2>1. /\ Above(sheet, r + 1) = Above(sheet, r)
        /\ Below(sheet, r + 1) = Below(sheet, r) \cup {r + 1}
    BY <1>1, <1>3, <1>5 DEF Above, Below
  <2>2. Lists(Append(below, r + 1), Below(sheet, r + 1))
    BY <2>1, <1>4, NextListed
  <2> QED BY <2>1, <2>2, <1>3, <1>4, <1>5 DEF Split
<1>6. CASE ~ ended
  <2>1. /\ Above(sheet, r + 1) = Above(sheet, r) \cup {r + 1}
        /\ Below(sheet, r + 1) = Below(sheet, r)
    BY <1>1, <1>3, <1>6 DEF Above, Below
  <2>2. Lists(Append(above, r + 1), Above(sheet, r + 1))
    BY <2>1, <1>4, NextListed
  <2> QED BY <2>1, <2>2, <1>3, <1>4, <1>6 DEF Split
<1> QED BY <1>3, <1>5, <1>6

-----------------------------------------------------------------------------
LEMMA AccountInit == PortfolioInit => AccountInv
<1> SUFFICES ASSUME PortfolioInit PROVE AccountInv
  OBVIOUS
<1>1. rows = <<>> /\ row = 0 /\ inFunds = FALSE /\ equities = <<>> /\ funds = <<>>
  BY DEF PortfolioInit
<1>2. Lists(<<>>, {})
  BY NothingListed
<1>3. Above(<<>>, 0) = {} /\ Below(<<>>, 0) = {} /\ ~ Ended(<<>>, 0)
  BY DEF Above, Below, Ended
<1>4. Split(<<>>, 0, FALSE, <<>>, <<>>)
  BY <1>2, <1>3 DEF Split
<1>5. Split(rows, row, inFunds, equities, funds)
  BY <1>1, <1>4, Zenon
<1>6. rows \in PortfolioPages \cup {<<>>} /\ row \in 0 .. Len(rows)
  BY <1>1
<1>7. account = "idle" => row = 0
  BY <1>1
<1> QED BY <1>5, <1>6, <1>7, Zenon DEF AccountInv

\* No page has a row before its first.
LEMMA NewPage ==
    ASSUME NEW sheet, NEW other, NEW ended, NEW above, NEW below,
           Split(sheet, 0, ended, above, below)
    PROVE  Split(other, 0, ended, above, below)
<1>1. /\ Above(sheet, 0) = Above(other, 0) /\ Below(sheet, 0) = Below(other, 0)
      /\ Ended(sheet, 0) <=> Ended(other, 0)
  BY DEF Above, Below, Ended
<1> QED BY <1>1 DEF Split

LEMMA HoldingStep ==
    ASSUME AccountInv, ReadHolding
    PROVE  AccountInv'
<1>1. /\ account' = "reading" /\ row < Len(rows) /\ row' = row + 1
      /\ Holding(rows, row + 1) /\ UNCHANGED <<rows, inFunds>>
      /\ equities' = IF inFunds THEN equities ELSE Append(equities, row + 1)
      /\ funds' = IF inFunds THEN Append(funds, row + 1) ELSE funds
  BY DEF ReadHolding, Read, Holding
<1>2. row \in Nat /\ row' \in 0 .. Len(rows)
  BY <1>1, RowsType DEF AccountInv
<1>3. Split(rows, row, inFunds, equities, funds)
  BY DEF AccountInv
<1>4. Split(rows, row + 1, inFunds, equities', funds')
  BY <1>1, <1>2, <1>3, HoldingRow
<1> QED BY <1>1, <1>2, <1>4 DEF AccountInv

\* A row that is no holding leaves the lists alone; only the totals of the
\* equities end a section.
LEMMA OtherStep ==
    ASSUME AccountInv, NEW labels \in SUBSET (Labels \ {"holding"}), Read(labels),
           UNCHANGED <<equities, funds>>,
           \/ labels = {"equities", "equitiesGain"} /\ inFunds' = TRUE
           \/ labels \cap {"equities", "equitiesGain"} = {} /\ inFunds' = inFunds
    PROVE  AccountInv'
<1>1. /\ account' = "reading" /\ row < Len(rows) /\ row' = row + 1
      /\ rows[row + 1].label \in labels /\ UNCHANGED rows
  BY DEF Read
<1>2. row \in Nat /\ row' \in 0 .. Len(rows)
  BY <1>1, RowsType DEF AccountInv
<1>3. Split(rows, row, inFunds, equities, funds) /\ inFunds \in BOOLEAN
  BY DEF AccountInv, Split
<1>4. ~ Holding(rows, row + 1)
  BY <1>1 DEF Holding
<1>5. /\ inFunds' \in BOOLEAN
      /\ inFunds' <=> (inFunds \/ rows[row + 1].label \in {"equities", "equitiesGain"})
  <2>1. CASE labels = {"equities", "equitiesGain"} /\ inFunds' = TRUE
    BY <1>1, <2>1
  <2>2. CASE labels \cap {"equities", "equitiesGain"} = {} /\ inFunds' = inFunds
    <3>1. rows[row + 1].label \notin {"equities", "equitiesGain"}
      BY <1>1, <2>2
    <3> QED BY <1>3, <2>2, <3>1
  <2> QED BY <2>1, <2>2
<1>6. Split(rows, row + 1, inFunds', equities, funds)
  BY <1>2, <1>3, <1>4, <1>5, OtherRow
<1> QED BY <1>1, <1>2, <1>6 DEF AccountInv

LEMMA AccountStep == AccountInv /\ [PortfolioNext]_portfolioVars => AccountInv'
<1> SUFFICES ASSUME AccountInv, [PortfolioNext]_portfolioVars PROVE AccountInv'
  OBVIOUS
<1> USE DEF listVars, totalVars
<1>1. CASE GetPortfolio
  <2>1. /\ rows' \in PortfolioPages /\ row = 0 /\ account' = "reading"
        /\ UNCHANGED <<row, inFunds, equities, funds>>
    BY <1>1 DEF GetPortfolio, AccountInv
  <2>2. Split(rows', 0, inFunds, equities, funds)
    BY <2>1, NewPage DEF AccountInv
  <2>3. rows' \in Seq(AccountRows) /\ 0 \in 0 .. Len(rows')
    BY <2>1, PortfolioAssumption
  <2> QED BY <2>1, <2>2, <2>3 DEF AccountInv
<1>2. CASE AccountFetchRaises
  BY <1>2 DEF AccountFetchRaises, AccountInv
<1>3. CASE ReadCash
  BY <1>3, OtherStep DEF ReadCash, Labels
<1>4. CASE ReadTradeValue
  BY <1>4, OtherStep DEF ReadTradeValue, Labels
<1>5. CASE ReadEquitiesTotal
  BY <1>5, OtherStep DEF ReadEquitiesTotal, Labels
<1>6. CASE ReadFundsTotal
  BY <1>6, OtherStep DEF ReadFundsTotal, Labels
<1>7. CASE ReadDayChange
  BY <1>7, OtherStep DEF ReadDayChange, Labels
<1>8. CASE ReadGainLoss
  BY <1>8, OtherStep DEF ReadGainLoss, Labels
<1>9. CASE ReadHolding
  BY <1>9, HoldingStep
<1>10. CASE SkipRow
  BY <1>10, OtherStep DEF SkipRow, Labels
<1>11. CASE ReturnPortfolio
  BY <1>11 DEF ReturnPortfolio, AccountInv
<1>12. CASE UNCHANGED portfolioVars
  BY <1>12 DEF portfolioVars, AccountInv
<1> QED
  BY <1>1, <1>2, <1>3, <1>4, <1>5, <1>6, <1>7, <1>8, <1>9, <1>10, <1>11, <1>12
  DEF PortfolioNext
\* Rows of a list are the rows it lists.
LEMMA RangeOfList ==
    ASSUME NEW list, NEW members, Lists(list, members)
    PROVE  Range(list) = members
BY DEF Lists, Range

\* Where the holdings are listed, whatever pages COL answers with.
LEMMA AccountSections == AccountInv => SectionsRight
<1> SUFFICES ASSUME AccountInv PROVE SectionsRight
  OBVIOUS
<1>1. /\ Lists(equities, Above(rows, row)) /\ Lists(funds, Below(rows, row))
      /\ row \in Nat /\ row <= Len(rows) /\ DOMAIN rows = 1 .. Len(rows)
  BY RowsType DEF AccountInv, Split
<1>2. Range(equities) = Above(rows, row) /\ Range(funds) = Below(rows, row)
  BY <1>1, RangeOfList
<1>3. Range(equities) \cup Range(funds) = {i \in 1 .. row : rows[i].label = "holding"}
  BY <1>2 DEF Above, Below, Holding
<1>4. InPageOrder(equities) /\ InPageOrder(funds)
  BY <1>1 DEF Lists, InPageOrder
<1>5. CASE rows = <<>>
  <2>1. row = 0
    BY <1>1, <1>5 DEF AccountInv
  <2> QED BY <1>2, <1>3, <1>4, <2>1 DEF SectionsRight, Above, Below
<1>6. CASE rows \in PortfolioPages
  <2>1. \A i, j \in 1 .. Len(rows) :
            rows[j].label \in {"equities", "equitiesGain"} /\ rows[i].label = "holding"
                => (rows[i].fund <=> j < i)
    BY <1>1, <1>6, PortfolioAssumption
  <2>2. \A i \in Range(funds) : rows[i].fund
    <3>1. TAKE i \in Range(funds)
    <3>2. i \in 1 .. row /\ rows[i].label = "holding" /\ Ended(rows, i)
      BY <1>2, <3>1 DEF Below, Holding
    <3>3. PICK j \in 1 .. i : rows[j].label \in {"equities", "equitiesGain"}
      BY <3>2 DEF Ended
    <3>4. j < i /\ i \in 1 .. Len(rows) /\ j \in 1 .. Len(rows)
      BY <1>1, <3>2, <3>3
    <3> QED BY <2>1, <3>2, <3>3, <3>4
  <2>3. \A i \in Range(equities) : rows[i].fund => ~ \E j \in DOMAIN rows : EquitiesEnd(j)
    <3>1. SUFFICES ASSUME NEW i \in Range(equities), rows[i].fund,
                          NEW j \in DOMAIN rows, EquitiesEnd(j)
                   PROVE  FALSE
      OBVIOUS
    <3>2. i \in 1 .. row /\ rows[i].label = "holding" /\ ~ Ended(rows, i)
      BY <1>2 DEF Above, Holding
    <3>3. j < i
      BY <1>1, <2>1, <3>1, <3>2 DEF EquitiesEnd
    <3>4. j \in 1 .. i
      BY <1>1, <3>2, <3>3
    <3> QED BY <3>1, <3>2, <3>4 DEF Ended, EquitiesEnd
  <2> QED BY <1>3, <1>4, <2>2, <2>3 DEF SectionsRight
<1> QED BY <1>5, <1>6 DEF AccountInv

\* No holding is lost, listed twice or out of order, and none is in the wrong
\* section while the page shows where the equities end.
THEOREM PortfolioSections == PortfolioSpec => []SectionsRight
<1>1. PortfolioSpec => []AccountInv
  BY AccountInit, AccountStep, PTL DEF PortfolioSpec
<1> QED BY <1>1, AccountSections, PTL

-----------------------------------------------------------------------------
(* The summary of the account.                                             *)

LEMMA LeastOf ==
    ASSUME NEW S, S \subseteq Nat, NEW x \in S, \A y \in S : x <= y
    PROVE  Min(S) = x
<1>1. \A z \in S : (\A y \in S : z <= y) => z = x
  <2> SUFFICES ASSUME NEW z \in S, \A y \in S : z <= y PROVE z = x
    OBVIOUS
  <2>1. z <= x /\ x <= z /\ x \in Nat /\ z \in Nat
    OBVIOUS
  <2> QED BY <2>1
<1> QED BY <1>1 DEF Min

\* Of a row with at most n numbers, those in front of the first dash are in place.
LEMMA NumbersRead ==
    ASSUME NEW n \in Nat, NEW cells \in Seq(AccountCells), Len(cells) <= n,
           \A c \in DOMAIN cells : cells[c].style # "unsigned"
    PROVE  InPlace(NumbersIn(cells, n), [c \in DOMAIN cells |-> cells[c].value])
<1> DEFINE places == {c \in DOMAIN cells : Number(cells[c]) # None}
           at == InOrder(places, Len(cells))
           values == [c \in DOMAIN cells |-> cells[c].value]
           read == NumbersIn(cells, n)
<1>1. Len(cells) \in Nat /\ DOMAIN cells = 1 .. Len(cells)
  OBVIOUS
<1>2. \A c \in 1 .. Len(cells) : Number(cells[c]) = cells[c].value
  <2>1. TAKE c \in 1 .. Len(cells)
  <2>2. cells[c] \in AccountCells /\ cells[c].style # "unsigned"
    BY <1>1, <2>1
  <2>3. cells[c].value \in Decimals /\ cells[c].style \in Styles \ {"unsigned"}
    BY <2>2 DEF AccountCells
  <2> QED BY <2>3, PrintedIsRead DEF Number
<1>3. DOMAIN values = 1 .. Len(cells) /\ \A c \in 1 .. Len(cells) : values[c] = cells[c].value
  BY <1>1
<1>4. \A m \in 0 .. Len(cells) : (\A c \in 1 .. m : values[c] # None) => 1 .. m \subseteq places
  <2> HIDE DEF values
  <2> SUFFICES ASSUME NEW m \in 0 .. Len(cells), \A c \in 1 .. m : values[c] # None,
                      NEW c \in 1 .. m
               PROVE  c \in places
    OBVIOUS
  <2>1. c \in 1 .. Len(cells)
    BY <1>1
  <2>2. Number(cells[c]) # None
    BY <1>2, <1>3, <2>1
  <2> QED BY <1>1, <2>1, <2>2
<1>5. read = [k \in 1 .. Min({n, Len(at)}) |-> Number(cells[at[k]])]
  BY DEF NumbersIn
<1> HIDE DEF places, values, read
\* Of the first m numbers none is missing.
<1>6. ASSUME NEW m \in 0 .. Len(cells), \A c \in 1 .. m : values[c] # None
      PROVE  /\ Len(at) \in Nat /\ Min({n, Len(at)}) \in Nat /\ m <= Min({n, Len(at)})
             /\ \A k \in 1 .. m : k \in DOMAIN read /\ read[k] = values[k]
  <2>1. Len(at) \in Nat /\ m <= Len(at) /\ \A k \in 1 .. m : at[k] = k
    BY <1>1, <1>4, <1>6, FirstInOrder
  <2>2. Min({n, Len(at)}) \in Nat /\ m <= Min({n, Len(at)})
    <3> HIDE DEF at
    <3> DEFINE both == {n, Len(at)}
    <3>1. both \subseteq Nat /\ both # {} /\ \A x \in both : m <= x
      BY <1>1, <2>1
    <3>2. PICK x \in both : \A y \in both : x <= y
      <4> HIDE DEF both
      <4> QED BY <3>1, LeastNumber
    <3>3. Min(both) = x /\ x \in Nat /\ m <= x
      <4> HIDE DEF both
      <4> QED BY <3>1, <3>2, LeastOf
    <3> QED BY <3>3
  <2> HIDE DEF at
  <2>3. ASSUME NEW k \in 1 .. m PROVE k \in DOMAIN read /\ read[k] = values[k]
    <3>1. k \in 1 .. Min({n, Len(at)}) /\ at[k] = k /\ k \in 1 .. Len(cells)
      BY <1>1, <2>1, <2>2
    <3>2. k \in DOMAIN read /\ read[k] = Number(cells[k])
      BY <1>5, <3>1
    <3> QED BY <1>2, <1>3, <3>1, <3>2
  <2> QED BY <2>1, <2>2, <2>3
<1>7. ASSUME \A c \in DOMAIN values : values[c] # None PROVE read = values
  <2>1. 1 .. Len(cells) \subseteq places /\ Len(cells) \in 0 .. Len(cells)
    BY <1>1, <1>3, <1>4, <1>7
  <2>2. at = [k \in 1 .. Len(cells) |-> k]
    BY <1>1, <2>1, AllInOrder
  <2>3. Len(at) = Len(cells)
    <3>1. at \in [1 .. Len(cells) -> Nat]
      BY <1>1, <2>2
    <3> QED BY <1>1, <2>2, <3>1
  <2> HIDE DEF at
  <2>4. Min({n, Len(at)}) = Len(cells)
    <3> DEFINE both == {n, Len(at)}
    <3>1. both \subseteq Nat /\ Len(cells) \in both /\ \A y \in both : Len(cells) <= y
      BY <1>1, <2>3
    <3> HIDE DEF both
    <3>2. Min(both) = Len(cells)
      BY <3>1, LeastOf
    <3> QED BY <3>2 DEF both
  <2>5. DOMAIN read = 1 .. Len(cells) /\ read = [k \in DOMAIN read |-> read[k]]
    BY <1>5, <2>4
  <2>6. \A k \in 1 .. Len(cells) : read[k] = values[k]
    BY <1>3, <1>6, <1>7, <2>1
  <2>7. values = [k \in 1 .. Len(cells) |-> values[k]]
    BY <1>1 DEF values
  <2> QED BY <2>5, <2>6, <2>7
<1>8. ASSUME NEW k \in DOMAIN values, \A c \in 1 .. k : values[c] # None
      PROVE  k \in DOMAIN read /\ read[k] = values[k]
  <2>1. k \in 0 .. Len(cells) /\ k \in 1 .. k
    BY <1>1, <1>3
  <2> QED BY <1>6, <1>8, <2>1
<1>9. InPlace(read, values)
  BY <1>7, <1>8 DEF InPlace
<1> QED BY <1>9 DEF read, values

\* The percentage and the amount of a row that has at most one of each.
LEMMA AmountsRead ==
    ASSUME NEW i, rows[i].cells \in Seq(AccountCells),
           \A c \in DOMAIN rows[i].cells : rows[i].cells[c].style # "unsigned",
           \A c, d \in DOMAIN rows[i].cells :
               rows[i].cells[c].percent = rows[i].cells[d].percent => c = d
    PROVE  PctAndAmount(rows[i].cells) = [pct |-> Shows(i, TRUE), amount |-> Shows(i, FALSE)]
<1> DEFINE cells == rows[i].cells
           Of(percent) == {c \in DOMAIN cells : cells[c].percent = percent}
           NumbersOf(percent) == {c \in Of(percent) : Number(cells[c]) # None}
           First(places) == IF places = {} THEN None ELSE Number(cells[Min(places)])
           numbers == {c \in DOMAIN cells : Number(cells[c]) # None}
           percents == {c \in numbers : cells[c].percent}
           others == numbers \ (IF percents = {} THEN {} ELSE {Min(percents)})
<1>1. \A c \in DOMAIN cells : /\ c \in Nat /\ cells[c].percent \in BOOLEAN
                              /\ Number(cells[c]) = cells[c].value
  <2>1. TAKE c \in DOMAIN cells
  <2>2. c \in Nat /\ cells[c] \in AccountCells
    OBVIOUS
  <2>3. /\ cells[c].value \in Decimals /\ cells[c].style \in Styles \ {"unsigned"}
        /\ cells[c].percent \in BOOLEAN
    BY <2>2 DEF AccountCells
  <2> QED BY <2>2, <2>3, PrintedIsRead DEF Number
<1>2. \A c, d \in DOMAIN cells : cells[c].percent = cells[d].percent => c = d
  OBVIOUS
<1> HIDE DEF cells
<1>3. ASSUME NEW percent \in BOOLEAN
      PROVE  /\ First(NumbersOf(percent)) = IF Of(percent) = {} THEN None
                                            ELSE cells[Min(Of(percent))].value
             /\ NumbersOf(percent) # {} => NumbersOf(percent) = {Min(NumbersOf(percent))}
  <2>1. CASE Of(percent) = {}
    <3>1. NumbersOf(percent) = {}
      BY <2>1
    <3> QED BY <2>1, <3>1
  <2>2. CASE Of(percent) # {}
    <3>1. PICK c \in DOMAIN cells : cells[c].percent = percent
      BY <2>2
    <3>2. Of(percent) = {c}
      BY <1>2, <3>1
    <3>3. c \in Nat /\ Number(cells[c]) = cells[c].value
      BY <1>1, <3>1
    <3>4. Min({c}) = c
      <4>1. {c} \subseteq Nat /\ c \in {c} /\ \A y \in {c} : c <= y
        BY <3>3
      <4> QED BY <4>1, LeastOf, Zenon
    <3>5. CASE cells[c].value = None
      <4>1. NumbersOf(percent) = {}
        BY <3>2, <3>3, <3>5
      <4> QED BY <3>2, <3>3, <3>4, <3>5, <4>1
    <3>6. CASE cells[c].value # None
      <4>1. NumbersOf(percent) = {c}
        BY <3>2, <3>3, <3>6
      <4> QED BY <3>2, <3>3, <3>4, <4>1
    <3> QED BY <3>5, <3>6
  <2> QED BY <2>1, <2>2
<1>4. percents = NumbersOf(TRUE)
  BY <1>1
<1>5. numbers \ NumbersOf(TRUE) = NumbersOf(FALSE)
  BY <1>1
<1>6. others = NumbersOf(FALSE)
  <2>1. CASE percents = {}
    BY <1>4, <1>5, <2>1
  <2>2. CASE percents # {}
    <3>1. percents = {Min(percents)}
      BY <1>3, <1>4, <2>2
    <3> QED BY <1>4, <1>5, <2>2, <3>1
  <2> QED BY <2>1, <2>2
<1>7. PctAndAmount(cells) = [pct |-> First(percents), amount |-> First(others)]
  BY DEF PctAndAmount
<1>8. /\ First(NumbersOf(TRUE)) = Shows(i, TRUE)
      /\ First(NumbersOf(FALSE)) = Shows(i, FALSE)
  BY <1>3, Zenon DEF Shows, cells
<1> HIDE DEF percents, others, NumbersOf, First
<1> QED BY <1>4, <1>6, <1>7, <1>8 DEF cells

\* What the i-th row says is in its place.  The balance may also be below its labels.
Summarised(i) ==
    /\ rows[i].label = "cash" /\ rows[i].cells # <<>> => InPlace(cash, Values(i))
    /\ rows[i].label = "tradeValue" => InPlace(tradeValue, Values(i))
    /\ rows[i].label = "equities" /\ ~ HasRow("equitiesGain") => InPlace(equitiesTotal, Values(i))
    /\ rows[i].label = "funds" /\ ~ HasRow("fundsGain") => InPlace(fundsTotal, Values(i))
    /\ rows[i].label = "dayChange" =>
           dayChange = [pct |-> Shows(i, TRUE), amount |-> Shows(i, FALSE)]
    /\ rows[i].label = "gainLoss" =>
           gainLoss = [pct |-> Shows(i, TRUE), amount |-> Shows(i, FALSE)]

BalanceRead(i) == rows[i].label = "cashValues" => InPlace(cash, Values(i))

SummaryInv ==
    /\ account = "done" => row = Len(rows)
    /\ \A i \in 1 .. Len(rows) : /\ i <= row => Summarised(i)
                                 /\ i <= row + 1 => BalanceRead(i)

\* What the assumption on the summary says of the rows of the page.
LEMMA SummaryRows ==
    ASSUME AccountInv, NEW i \in 1 .. Len(rows)
    PROVE  LET label == rows[i].label
               cells == rows[i].cells
           IN  /\ label \in Labels /\ cells \in Seq(AccountCells)
               /\ \A j \in 1 .. Len(rows) :
                      rows[j].label = label /\ label \notin {"holding", "other"} => i = j
               /\ label \in DOMAIN Width => InPlace(NumbersIn(cells, Width[label]), Values(i))
               /\ label \in Amounts =>
                      PctAndAmount(cells) = [pct |-> Shows(i, TRUE), amount |-> Shows(i, FALSE)]
               /\ label = "cashValues" =>
                      /\ i - 1 \in 1 .. Len(rows) /\ rows[i - 1].label = "cash"
                      /\ rows[i - 1].cells = <<>>
<1> DEFINE label == rows[i].label
           cells == rows[i].cells
<1>1. rows \in Seq(AccountRows) /\ Len(rows) \in Nat /\ DOMAIN rows = 1 .. Len(rows)
  BY RowsType
<1>2. rows \in PortfolioPages
  BY DEF AccountInv
<1>3. label \in Labels /\ cells \in Seq(AccountCells)
  <2>1. rows[i] \in AccountRows
    BY <1>1
  <2> QED BY <2>1 DEF AccountRows
<1>4. /\ \A j \in DOMAIN rows : rows[j].label = label /\ label \notin {"holding", "other"} => i = j
      /\ label \in DOMAIN Width => Len(cells) <= Width[label]
      /\ label = "cashValues" => i > 1 /\ rows[i - 1].label = "cash" /\ rows[i - 1].cells = <<>>
      /\ label \in Amounts =>
             \A c, d \in DOMAIN cells : cells[c].percent = cells[d].percent => c = d
      /\ \A c \in DOMAIN cells : cells[c].style # "unsigned"
  BY <1>1, <1>2, SummaryAssumption, Zenon
<1>5. label \in DOMAIN Width => InPlace(NumbersIn(cells, Width[label]), Values(i))
  <2>1. HAVE label \in DOMAIN Width
  <2>2. Width[label] \in Nat
    BY <2>1 DEF Width
  <2> QED BY <1>3, <1>4, <2>1, <2>2, NumbersRead DEF Values
<1>6. label \in Amounts => PctAndAmount(cells) = [pct |-> Shows(i, TRUE), amount |-> Shows(i, FALSE)]
  BY <1>3, <1>4, AmountsRead
<1>7. label = "cashValues" => i - 1 \in 1 .. Len(rows)
  BY <1>1, <1>4
<1> QED BY <1>1, <1>3, <1>4, <1>5, <1>6, <1>7, Zenon

\* A row without numbers has no values.
LEMMA NoValues ==
    ASSUME NEW i, rows[i].cells \in Seq(AccountCells)
    PROVE  rows[i].cells = <<>> <=> Values(i) = <<>>
<1> DEFINE cells == rows[i].cells
<1>1. Len(cells) \in Nat /\ DOMAIN cells = 1 .. Len(cells)
  OBVIOUS
<1>2. Values(i) = [c \in 1 .. Len(cells) |-> cells[c].value]
  BY <1>1 DEF Values
<1>3. cells = <<>> <=> Len(cells) = 0
  OBVIOUS
<1> HIDE DEF cells
<1>4. Len(cells) = 0 => Values(i) = <<>>
  BY <1>2
<1>5. Len(cells) # 0 => Values(i) # <<>>
  <2>1. HAVE Len(cells) # 0
  <2>2. 1 \in DOMAIN Values(i)
    BY <1>1, <1>2, <2>1
  <2> QED BY <2>2
<1> QED BY <1>3, <1>4, <1>5 DEF cells

\* A row puts what it says in its place, which no other row of the page does, and
\* a row of labels without numbers what is below them.
LEMMA NextSummarised ==
    ASSUME AccountInv, SummaryInv, NEW labels, Read(labels),
           LET label == rows[row + 1].label
           IN  /\ label = "cash" \/ cash' = cash
               /\ label = "tradeValue" \/ tradeValue' = tradeValue
               /\ label \in {"equities", "equitiesGain"} \/ equitiesTotal' = equitiesTotal
               /\ label \in {"funds", "fundsGain"} \/ fundsTotal' = fundsTotal
               /\ label = "dayChange" \/ dayChange' = dayChange
               /\ label = "gainLoss" \/ gainLoss' = gainLoss
               /\ label = "cash" /\ row + 2 <= Len(rows) => BalanceRead(row + 1)',
           Summarised(row)'
    PROVE  SummaryInv'
<1> DEFINE label == rows[row + 1].label
<1>1. /\ account' = "reading" /\ row' = row + 1 /\ rows' = rows
      /\ row \in Nat /\ row + 1 \in 1 .. Len(rows) /\ Len(rows) \in Nat /\ DOMAIN rows = 1 .. Len(rows)
  BY RowsType DEF Read, AccountInv
<1>2. \A i \in 1 .. Len(rows) :
          /\ rows[i].label = label /\ label \notin {"holding", "other"} => i = row + 1
          /\ rows[i].label = "cashValues" => i - 1 \in 1 .. Len(rows) /\ rows[i - 1].label = "cash"
  BY <1>1, SummaryRows
<1>3. ASSUME NEW i \in 1 .. Len(rows), i <= row + 1
      PROVE  Summarised(i)'
  <2>1. CASE i = row + 1
    <3>1. Summarised(row)' <=> Summarised(i)'
      BY <1>1, <2>1 DEF Summarised, Values, Shows
    <3> QED BY <3>1
  <2>2. CASE i # row + 1
    <3>1. Summarised(i) /\ (label \notin {"holding", "other"} => rows[i].label # label)
      BY <1>1, <1>2, <1>3, <2>2 DEF SummaryInv
    <3>2. /\ Values(i)' = Values(i)
          /\ Shows(i, TRUE)' = Shows(i, TRUE) /\ Shows(i, FALSE)' = Shows(i, FALSE)
      BY <1>1 DEF Values, Shows
    <3>3. /\ rows[i].label = "cash" => cash' = cash
          /\ rows[i].label = "tradeValue" => tradeValue' = tradeValue
          /\ rows[i].label = "equities" /\ ~ HasRow("equitiesGain")
                 => equitiesTotal' = equitiesTotal
          /\ rows[i].label = "funds" /\ ~ HasRow("fundsGain") => fundsTotal' = fundsTotal
          /\ rows[i].label = "dayChange" => dayChange' = dayChange
          /\ rows[i].label = "gainLoss" => gainLoss' = gainLoss
      BY <1>1, <3>1 DEF HasRow
    <3>4. /\ HasRow("equitiesGain")' <=> HasRow("equitiesGain")
          /\ HasRow("fundsGain")' <=> HasRow("fundsGain")
      BY <1>1 DEF HasRow
    <3> QED BY <1>1, <3>1, <3>2, <3>3, <3>4 DEF Summarised
  <2> QED BY <2>1, <2>2
<1>4. ASSUME NEW i \in 1 .. Len(rows), i <= row + 2
      PROVE  BalanceRead(i)'
  <2>1. SUFFICES ASSUME rows[i].label = "cashValues" PROVE InPlace(cash', Values(i))
    BY <1>1 DEF BalanceRead, Values
  <2>2. i - 1 \in 1 .. Len(rows) /\ rows[i - 1].label = "cash"
    BY <1>2, <2>1
  <2>3. CASE label = "cash"
    <3>1. i - 1 = row + 1
      BY <1>2, <2>2, <2>3
    <3>2. BalanceRead(row + 1)' /\ row' + 1 = i
      BY <1>1, <1>4, <2>3, <3>1
    <3> QED BY <1>1, <2>1, <3>2 DEF BalanceRead, Values
  <2>4. CASE label # "cash"
    <3>1. cash' = cash /\ i # row + 2
      BY <1>1, <2>2, <2>4
    <3>2. i <= row + 1
      BY <1>1, <1>4, <3>1
    <3>3. BalanceRead(i)
      BY <3>2 DEF SummaryInv
    <3> QED BY <2>1, <3>1, <3>3 DEF BalanceRead
  <2> QED BY <2>3, <2>4
<1>5. \A i \in 1 .. Len(rows') : /\ i <= row' => Summarised(i)'
                                 /\ i <= row' + 1 => BalanceRead(i)'
  <2>1. row' + 1 = row + 2
    BY <1>1
  <2> QED BY <1>1, <1>3, <1>4, <2>1
<1> QED BY <1>1, <1>5 DEF SummaryInv

\* The balance is the numbers next to its labels or, if there are none, those below.
LEMMA CashSummarised ==
    ASSUME AccountInv, SummaryInv, ReadCash
    PROVE  SummaryInv'
<1> DEFINE inline == NumbersIn(RowCells(row + 1), 2)
<1>1. /\ Read({"cash"}) /\ rows[row + 1].label = "cash" /\ row' = row + 1 /\ rows' = rows
      /\ cash' = IF inline # <<>> THEN inline ELSE NumbersIn(RowCells(row + 2), 2)
      /\ UNCHANGED <<equitiesTotal, fundsTotal, tradeValue, dayChange, gainLoss>>
  BY DEF ReadCash, Read
<1>2. row \in Nat /\ row + 1 \in 1 .. Len(rows) /\ Len(rows) \in Nat /\ DOMAIN rows = 1 .. Len(rows)
  BY RowsType DEF ReadCash, Read, AccountInv
<1>3. ASSUME NEW i \in 1 .. Len(rows), rows[i].label \in {"cash", "cashValues"}
      PROVE  InPlace(NumbersIn(RowCells(i), 2), Values(i))
  <2>1. rows[i].label \in DOMAIN Width /\ Width[rows[i].label] = 2
    BY <1>3 DEF Width
  <2>2. RowCells(i) = rows[i].cells
    BY <1>2 DEF RowCells
  <2> QED BY <2>1, <2>2, SummaryRows
<1>4. InPlace(inline, Values(row + 1)) /\ rows[row + 1].cells \in Seq(AccountCells)
  BY <1>1, <1>2, <1>3, SummaryRows
<1> HIDE DEF inline
\* Where the row has no number, whatever is read below is none that it shows.
<1>5. Summarised(row)'
  <2>1. rows[row + 1].cells # <<>> => InPlace(cash', Values(row + 1))
    <3>1. HAVE rows[row + 1].cells # <<>>
    <3>2. Values(row + 1) # <<>>
      BY <1>4, <3>1, NoValues
    <3>3. CASE inline # <<>>
      BY <1>1, <1>4, <3>3
    <3>4. CASE inline = <<>>
      <4>1. DOMAIN inline = {}
        BY <3>4
      <4> QED BY <1>4, <3>2, <3>4, <4>1 DEF InPlace
    <3> QED BY <3>3, <3>4
  <2>2. Values(row)' = Values(row + 1)
    BY <1>1 DEF Values
  <2> QED BY <1>1, <2>1, <2>2 DEF Summarised
<1>6. row + 2 <= Len(rows) => BalanceRead(row + 1)'
  <2> SUFFICES ASSUME row + 2 \in 1 .. Len(rows), rows[row + 2].label = "cashValues"
               PROVE  InPlace(cash', Values(row + 2))
    <3>1. row' + 1 = row + 2 /\ Values(row + 1)' = Values(row + 2)
      BY <1>1, <1>2 DEF Values
    <3> QED BY <1>1, <1>2, <3>1 DEF BalanceRead
  <2>1. rows[row + 1].cells = <<>>
    <3>1. rows[(row + 2) - 1].cells = <<>>
      BY SummaryRows
    <3>2. (row + 2) - 1 = row + 1
      BY <1>2
    <3> QED BY <3>1, <3>2
  <2>2. inline = <<>>
    <3>1. Values(row + 1) = <<>>
      BY <1>4, <2>1, NoValues
    <3> QED BY <1>4, <3>1 DEF InPlace
  <2> QED BY <1>1, <1>3, <2>2
<1> QED BY <1>1, <1>5, <1>6, NextSummarised

\* A step that reads no row leaves the summary as it is.
LEMMA SummaryUnread ==
    ASSUME SummaryInv, UNCHANGED <<rows, row, totalVars>>, account' = "done" => row = Len(rows)
    PROVE  SummaryInv'
<1>1. ASSUME NEW i \in 1 .. Len(rows)
      PROVE  (Summarised(i)' <=> Summarised(i)) /\ (BalanceRead(i)' <=> BalanceRead(i))
  <2>1. /\ Values(i)' = Values(i)
        /\ Shows(i, TRUE)' = Shows(i, TRUE) /\ Shows(i, FALSE)' = Shows(i, FALSE)
    BY DEF Values, Shows
  <2> QED BY <2>1 DEF totalVars, Summarised, BalanceRead, HasRow
<1> QED BY <1>1 DEF SummaryInv

LEMMA SummaryStep ==
    AccountInv /\ SummaryInv /\ [PortfolioNext]_portfolioVars => SummaryInv'
<1> SUFFICES ASSUME AccountInv, SummaryInv, [PortfolioNext]_portfolioVars PROVE SummaryInv'
  OBVIOUS
<1> USE DEF listVars, totalVars
\* The row that is read says what is put in its place.
<1>0. ASSUME NEW labels, Read(labels)
      PROVE  /\ row' = row + 1 /\ rows' = rows /\ rows[row + 1].label \in labels
             /\ rows[row + 1].label \in DOMAIN Width =>
                    InPlace(NumbersIn(RowCells(row + 1), Width[rows[row + 1].label]), Values(row)')
             /\ rows[row + 1].label \in Amounts =>
                    PctAndAmount(RowCells(row + 1)) = [pct |-> Shows(row, TRUE), amount |-> Shows(row, FALSE)]'
  <2>1. /\ row' = row + 1 /\ rows' = rows /\ rows[row + 1].label \in labels
        /\ row + 1 \in 1 .. Len(rows) /\ DOMAIN rows = 1 .. Len(rows)
    BY <1>0, RowsType DEF Read, AccountInv
  <2>2. RowCells(row + 1) = rows[row + 1].cells
    BY <2>1 DEF RowCells
  <2>3. /\ Values(row)' = Values(row + 1)
        /\ Shows(row, TRUE)' = Shows(row + 1, TRUE) /\ Shows(row, FALSE)' = Shows(row + 1, FALSE)
    BY <2>1 DEF Values, Shows
  <2> QED BY <2>1, <2>2, <2>3, SummaryRows
<1>1. CASE GetPortfolio
  <2>1. account' = "reading" /\ row' = 0 /\ rows' \in PortfolioPages
    BY <1>1 DEF GetPortfolio, AccountInv
  <2>2. ASSUME NEW i \in 1 .. Len(rows'), i <= 1
        PROVE  BalanceRead(i)'
    <3>1. rows' \in Seq(AccountRows) /\ i \in DOMAIN rows' /\ i = 1
      BY <2>1, <2>2, PortfolioAssumption
    <3>2. rows'[i].label # "cashValues"
      BY <2>1, <3>1, SummaryAssumption
    <3> QED BY <3>2 DEF BalanceRead
  <2>3. \A i \in 1 .. Len(rows') : ~ (i <= 0)
    BY <2>1, PortfolioAssumption
  <2> QED BY <2>1, <2>2, <2>3 DEF SummaryInv
<1>2. CASE AccountFetchRaises
  BY <1>2, SummaryUnread DEF AccountFetchRaises
<1>3. CASE ReadCash
  BY <1>3, CashSummarised
<1>4. CASE ReadTradeValue
  <2>1. Read({"tradeValue"}) /\ rows'[row'].label = "tradeValue" /\ InPlace(tradeValue', Values(row)')
    BY <1>0, <1>4 DEF ReadTradeValue, Width
  <2>2. Summarised(row)'
    BY <2>1 DEF Summarised
  <2> QED BY <1>0, <1>4, <2>1, <2>2, NextSummarised DEF ReadTradeValue
<1>5. CASE ReadEquitiesTotal
  <2>1. /\ Read({"equities", "equitiesGain"}) /\ rows'[row'].label \in {"equities", "equitiesGain"}
        /\ InPlace(equitiesTotal', Values(row)')
    BY <1>0, <1>5 DEF ReadEquitiesTotal, Width
  <2>2. Summarised(row)'
    BY <2>1 DEF Summarised
  <2> QED BY <1>0, <1>5, <2>1, <2>2, NextSummarised DEF ReadEquitiesTotal
<1>6. CASE ReadFundsTotal
  <2>1. /\ Read({"funds", "fundsGain"}) /\ rows'[row'].label \in {"funds", "fundsGain"}
        /\ InPlace(fundsTotal', Values(row)')
    BY <1>0, <1>6 DEF ReadFundsTotal, Width
  <2>2. Summarised(row)'
    BY <2>1 DEF Summarised
  <2> QED BY <1>0, <1>6, <2>1, <2>2, NextSummarised DEF ReadFundsTotal
<1>7. CASE ReadDayChange
  <2>1. /\ Read({"dayChange"}) /\ rows'[row'].label = "dayChange"
        /\ dayChange' = [pct |-> Shows(row, TRUE), amount |-> Shows(row, FALSE)]'
    BY <1>0, <1>7 DEF ReadDayChange, Amounts
  <2>2. Summarised(row)'
    BY <2>1 DEF Summarised
  <2> QED BY <1>0, <1>7, <2>1, <2>2, NextSummarised DEF ReadDayChange
<1>8. CASE ReadGainLoss
  <2>1. /\ Read({"gainLoss"}) /\ rows'[row'].label = "gainLoss"
        /\ gainLoss' = [pct |-> Shows(row, TRUE), amount |-> Shows(row, FALSE)]'
    BY <1>0, <1>8 DEF ReadGainLoss, Amounts
  <2>2. Summarised(row)'
    BY <2>1 DEF Summarised
  <2> QED BY <1>0, <1>8, <2>1, <2>2, NextSummarised DEF ReadGainLoss
<1>9. CASE ReadHolding
  <2>1. Read({"holding"}) /\ rows'[row'].label = "holding"
    BY <1>0, <1>9 DEF ReadHolding
  <2>2. Summarised(row)'
    BY <2>1 DEF Summarised
  <2> QED BY <1>0, <1>9, <2>1, <2>2, NextSummarised DEF ReadHolding
<1>10. CASE SkipRow
  <2>1. Read({"cashValues", "other"}) /\ rows'[row'].label \in {"cashValues", "other"}
    BY <1>0, <1>10 DEF SkipRow
  <2>2. Summarised(row)'
    BY <2>1 DEF Summarised
  <2> QED BY <1>0, <1>10, <2>1, <2>2, NextSummarised DEF SkipRow
<1>11. CASE ReturnPortfolio
  BY <1>11, SummaryUnread DEF ReturnPortfolio
<1>12. CASE UNCHANGED portfolioVars
  BY <1>12, SummaryUnread DEF portfolioVars, SummaryInv
<1> QED
  BY <1>1, <1>2, <1>3, <1>4, <1>5, <1>6, <1>7, <1>8, <1>9, <1>10, <1>11, <1>12
  DEF PortfolioNext

\* Whatever page COL answers with, dashes and rows of gains or losses included, each
\* number of the summary that no dash precedes in its row is in its own field, the
\* total of a section where the page shows no gain or loss of the section.
THEOREM SummaryRead == PortfolioSpec => []TotalsRight
<1>1. PortfolioInit => SummaryInv
  BY DEF PortfolioInit, SummaryInv
<1>2. AccountInv /\ SummaryInv => TotalsRight
  <2> SUFFICES ASSUME AccountInv, SummaryInv, account = "done", NEW i \in DOMAIN rows
               PROVE  /\ Summarised(i) /\ BalanceRead(i)
                      /\ rows[i].label = "cash" /\ Values(i) # <<>> => InPlace(cash, Values(i))
    BY DEF TotalsRight, Summarised, BalanceRead
  <2>1. i \in 1 .. Len(rows) /\ i <= row /\ i <= row + 1 /\ rows[i].cells \in Seq(AccountCells)
    <3>1. DOMAIN rows = 1 .. Len(rows) /\ Len(rows) \in Nat /\ row = Len(rows)
      BY RowsType DEF SummaryInv
    <3>2. i \in 1 .. Len(rows)
      BY <3>1
    <3>3. rows[i].cells \in Seq(AccountCells)
      BY <3>2, SummaryRows
    <3> QED BY <3>1, <3>2, <3>3
  <2>2. Summarised(i) /\ BalanceRead(i)
    BY <2>1 DEF SummaryInv
  <2> QED BY <2>1, <2>2, NoValues DEF Summarised
<1> QED BY <1>1, <1>2, AccountInit, AccountStep, SummaryStep, PTL DEF PortfolioSpec

-----------------------------------------------------------------------------
(* Market.                                                                 *)

\* The figures of an entry are those of the row it was read from.
Agrees(p, entry, r) ==
    /\ entry.change = r.change
    /\ entry.pct = r.pct
    /\ entry.direction = CASE p = "summary" -> Sign(r.current - r.previous)
                           [] p = "gainersLosers" -> None
                           [] OTHER -> IF r.change = None THEN "FLAT" ELSE Sign(r.change)

\* A number of the summary gets back the sign that COL left to the colour or to
\* the levels.
LEMMA SignRestored ==
    ASSUME NEW value \in Decimals, NEW style \in {"plain", "unsigned"}, NEW up \in Int,
           value # None => value = 0 \/ Sign(value) = Sign(up)
    PROVE  Resigned(ToDecimal(Printed(value, style)), Sign(up)) = value
<1>1. CASE value = None
  BY <1>1 DEF Resigned, ToDecimal, Printed
<1>2. CASE value \in Int
  <2>1. value # None /\ - value \in Int /\ - value # None
    BY <1>2, NoneAssumption
  <2>2. Sign(up) = "DOWN" => value <= 0
    BY <1>2, <2>1 DEF Sign
  <2>3. value < 0 => Sign(up) = "DOWN"
    BY <1>2, <2>1 DEF Sign
  <2>4. CASE style = "plain"
    <3>1. ToDecimal(Printed(value, style)) = value
      BY <2>4, PrintedIsRead DEF Styles
    <3> QED BY <1>2, <2>2, <3>1 DEF Resigned
  <2>5. CASE style = "unsigned"
    <3>1. ToDecimal(Printed(value, style)) = IF value < 0 THEN - value ELSE value
      BY <1>2, <2>5, UnsignedIsRead
    <3> QED BY <1>2, <2>1, <2>2, <2>3, <3>1 DEF Resigned
  <2> QED BY <2>4, <2>5
<1> QED BY <1>1, <1>2 DEF Decimals

\* A colour that does not contradict the levels leaves the direction to them.
LEMMA ColourAgrees ==
    ASSUME NEW colour \in Colours, NEW up \in Int,
           colour = "other" \/ DirectionFrom(colour, 0) = Sign(up)
    PROVE  DirectionFrom(colour, up) = Sign(up)
BY DEF DirectionFrom, Colours

LEMMA IndexAgrees ==
    ASSUME NEW r \in MarketRows, HasLevels(r), Printable("summary", r), NEW place
    PROVE  LET direction == DirectionFrom(r.colour, r.current - r.previous)
           IN  Agrees("summary",
                      [row |-> place, change |-> Resigned(Change(r), direction),
                       pct |-> Resigned(Pct(r), direction), direction |-> direction], r)
<1> DEFINE up == r.current - r.previous
<1>1. r.current \in Int /\ r.previous \in Int /\ r.colour \in Colours /\ r.pct \in Decimals
  BY DEF HasLevels, MarketRows, Decimals
<1>2. /\ up \in Int /\ r.style \in {"plain", "unsigned"} /\ r.change \in {up, None}
      /\ r.pct # None => r.pct = 0 \/ Sign(r.pct) = Sign(up)
      /\ r.colour = "other" \/ DirectionFrom(r.colour, 0) = Sign(up)
  BY <1>1 DEF Printable
<1> HIDE DEF up
<1>3. DirectionFrom(r.colour, up) = Sign(up)
  BY <1>1, <1>2, ColourAgrees
<1>4. r.change \in Decimals /\ (r.change # None => r.change = 0 \/ Sign(r.change) = Sign(up))
  BY <1>2 DEF Decimals
<1>5. Resigned(Change(r), Sign(up)) = r.change /\ Resigned(Pct(r), Sign(up)) = r.pct
  BY <1>1, <1>2, <1>4, SignRestored DEF Change, Pct
<1> QED BY <1>3, <1>5 DEF Agrees, up

\* The other pages print their signs.
LEMMA StockAgrees ==
    ASSUME NEW p \in {"gainersLosers", "mostActive"}, NEW r \in MarketRows, Printable(p, r)
    PROVE  /\ Change(r) = r.change /\ Pct(r) = r.pct
           /\ r.change # None => DirectionFrom(r.colour, r.change) = Sign(r.change)
<1>1. r.style = "plain" /\ r.change \in Decimals /\ r.pct \in Decimals /\ r.colour \in Colours
  BY DEF Printable, MarketRows
<1>2. "plain" \in Styles \ {"unsigned"}
  BY DEF Styles
<1>3. Change(r) = r.change /\ Pct(r) = r.pct
  BY <1>1, <1>2, PrintedIsRead DEF Change, Pct
<1>4. r.change # None => r.change \in Int /\ (r.colour = "other" \/ DirectionFrom(r.colour, 0) = Sign(r.change))
  BY <1>1 DEF Printable, Decimals
<1> QED BY <1>1, <1>3, <1>4, ColourAgrees

-----------------------------------------------------------------------------
\* Only the pages COL answers with are read, table by table.
MarketPlaced ==
    /\ page \in MarketPages \cup {NoPage}
    /\ market \in {"tables", "breadth"} => page \in MarketPages
    /\ market = "tables" => /\ reading \in {1, 2} /\ reading <= Len(page.tables)
                            /\ TablesOf(page.page) <= Len(page.tables)
                            /\ next \in 0 .. Len(page.tables[reading])
    /\ market = "idle" => entries = <<<<>>, <<>>>> /\ reading = 1 /\ next = 0

RowOfEntry(t, k) ==
    LET i == entries[t][k].row
    IN  /\ t \in DOMAIN page.tables
        /\ i \in DOMAIN page.tables[t]
        /\ Agrees(page.page, entries[t][k], page.tables[t][i])

MarketEntries == [row : Nat, change : Decimals, pct : Decimals, direction : Directions \cup {None}]

MarketInv ==
    /\ MarketPlaced
    /\ entries \in [{1, 2} -> Seq(MarketEntries)]
    /\ \A t \in {1, 2} : \A k \in DOMAIN entries[t] : RowOfEntry(t, k)

\* What is left as it was is still right.
LEMMA MarketUnread ==
    ASSUME MarketInv, MarketPlaced', UNCHANGED <<page, entries>>
    PROVE  MarketInv'
BY DEF MarketInv, RowOfEntry

\* The table being read, and its next row.
LEMMA NextRow ==
    ASSUME MarketInv, market = "tables", next < Len(Table)
    PROVE  /\ page \in MarketPages /\ page.page \in Pages
           /\ reading \in {1, 2} /\ reading \in DOMAIN page.tables
           /\ next + 1 \in DOMAIN page.tables[reading] /\ next + 1 \in 1 .. Len(Table)
           /\ Row \in MarketRows
           /\ DataRow(page.page, Row) => Printable(page.page, Row)
<1>1. page \in MarketPages /\ page \in MarketPage
  BY MarketAssumption DEF MarketInv, MarketPlaced
<1>2. page.tables \in Seq(Seq(MarketRows)) /\ page.page \in Pages
  BY <1>1 DEF MarketPage
<1>3. reading \in {1, 2} /\ reading \in 1 .. Len(page.tables) /\ next \in Nat
  BY <1>2 DEF MarketInv, MarketPlaced
<1>4. reading \in DOMAIN page.tables /\ Table \in Seq(MarketRows)
  BY <1>2, <1>3 DEF Table
<1>5. next + 1 \in 1 .. Len(Table) /\ DOMAIN Table = 1 .. Len(Table)
  BY <1>3, <1>4
<1>6. Row \in MarketRows /\ Row \in Range(Table)
  BY <1>4, <1>5 DEF Row, Range
<1>7. DataRow(page.page, Row) => Printable(page.page, Row)
  BY <1>1, <1>4, <1>6, MarketAssumption DEF Table
<1> QED BY <1>1, <1>2, <1>3, <1>4, <1>5, <1>6, <1>7 DEF Table

\* An entry that agrees with its row can be added.
LEMMA RowRead ==
    ASSUME MarketInv, NEW p \in Pages, NEW wanted, NEW entry, ReadRow(p, wanted, entry),
           wanted /\ Row.fits => entry \in MarketEntries /\ entry.row = next + 1 /\ Agrees(p, entry, Row)
    PROVE  MarketInv'
<1>1. /\ market = "tables" /\ page.page = p /\ next < Len(Table) /\ next' = next + 1
      /\ UNCHANGED <<market, page, reading, breadth>>
  BY DEF ReadRow
<1>2. /\ page \in MarketPages /\ reading \in {1, 2} /\ reading \in DOMAIN page.tables
      /\ next + 1 \in DOMAIN page.tables[reading] /\ next + 1 \in 1 .. Len(Table)
  BY <1>1, NextRow
<1>3. MarketPlaced'
  BY <1>1, <1>2 DEF MarketInv, MarketPlaced, Table
<1>4. CASE UNCHANGED entries
  BY <1>1, <1>3, <1>4, MarketUnread
<1>5. CASE Row.fits /\ wanted /\ entries' = [entries EXCEPT ![reading] = Append(@, entry)]
  <2>1. entry \in MarketEntries /\ entry.row = next + 1 /\ Agrees(p, entry, Row)
    BY <1>5
  <2>2. entries \in [{1, 2} -> Seq(MarketEntries)]
    BY DEF MarketInv
  <2>3. entries' \in [{1, 2} -> Seq(MarketEntries)]
    BY <1>2, <1>5, <2>1, <2>2
  <2>4. ASSUME NEW t \in {1, 2}, NEW k \in DOMAIN entries'[t] PROVE RowOfEntry(t, k)'
    <3>1. CASE t = reading /\ k = Len(entries[reading]) + 1
      <4>1. entries'[t][k] = entry
        BY <1>2, <1>5, <2>2, <3>1
      <4> QED BY <1>1, <1>2, <2>1, <3>1, <4>1 DEF RowOfEntry, Row, Table
    <3>2. CASE ~ (t = reading /\ k = Len(entries[reading]) + 1)
      <4>1. k \in DOMAIN entries[t] /\ entries'[t][k] = entries[t][k]
        BY <1>2, <1>5, <2>1, <2>2, <2>4, <3>2
      <4> QED BY <1>1, <4>1 DEF MarketInv, RowOfEntry
    <3> QED BY <3>1, <3>2
  <2> QED BY <1>3, <2>3, <2>4 DEF MarketInv
<1> QED BY <1>4, <1>5 DEF ReadRow

LEMMA MarketInvInit == MarketInit => MarketInv
<1> SUFFICES ASSUME MarketInit PROVE MarketInv
  OBVIOUS
<1>1. MarketPlaced
  BY DEF MarketInit, MarketPlaced
<1>2. entries \in [{1, 2} -> Seq(MarketEntries)] /\ entries[1] = <<>> /\ entries[2] = <<>>
  <2>1. entries = <<<<>>, <<>>>>
    BY DEF MarketInit
  <2>2. <<>> \in Seq(MarketEntries)
    OBVIOUS
  <2>3. entries[1] = <<>> /\ entries[2] = <<>> /\ DOMAIN entries = {1, 2}
    BY <2>1
  <2>4. entries = [t \in {1, 2} |-> entries[t]]
    BY <2>1
  <2> QED BY <2>2, <2>3, <2>4
<1>3. \A t \in {1, 2} : \A k \in DOMAIN entries[t] : FALSE
  BY <1>2
<1> QED BY <1>1, <1>2, <1>3 DEF MarketInv

LEMMA MarketInvStep == MarketInv /\ [MarketNext]_marketVars => MarketInv'
<1> SUFFICES ASSUME MarketInv, [MarketNext]_marketVars PROVE MarketInv'
  OBVIOUS
<1>1. CASE GetMarketPage
  <2>1. /\ page' \in MarketPages /\ UNCHANGED <<reading, next, entries>>
        /\ entries = <<<<>>, <<>>>> /\ market' \in {"ParseError", "tables"}
        /\ market' = "tables" => ~ (Len(page'.tables) < TablesOf(page'.page))
        /\ reading = 1 /\ next = 0
    BY <1>1 DEF GetMarketPage, MarketInv, MarketPlaced
  <2>2. page'.tables \in Seq(Seq(MarketRows)) /\ Len(page'.tables) \in Nat
    BY <2>1, MarketAssumption DEF MarketPage
  <2>3. MarketPlaced'
    BY <2>1, <2>2 DEF MarketPlaced, TablesOf
  <2>4. \A t \in {1, 2} : \A k \in DOMAIN entries'[t] : FALSE
    BY <2>1
  <2> QED BY <2>1, <2>3, <2>4 DEF MarketInv
<1>2. CASE MarketFetchRaises
  BY <1>2, MarketUnread DEF MarketFetchRaises, MarketInv, MarketPlaced
<1>3. CASE ReadIndex
  <2> DEFINE entry == Entry(Resigned(Change(Row), IndexDirection),
                            Resigned(Pct(Row), IndexDirection), IndexDirection)
  <2>1. ReadRow("summary", HasLevels(Row), entry) /\ "summary" \in Pages
    BY <1>3 DEF ReadIndex, Pages
  <2>2. ASSUME HasLevels(Row), Row.fits
        PROVE  entry \in MarketEntries /\ entry.row = next + 1 /\ Agrees("summary", entry, Row)
    <3>1. Row \in MarketRows /\ Printable("summary", Row) /\ next + 1 \in Nat
      BY <2>1, <2>2, NextRow DEF ReadRow, DataRow
    <3>2. Agrees("summary", entry, Row) /\ entry.row = next + 1
      BY <2>2, <3>1, IndexAgrees DEF Entry, IndexDirection
    <3>3. entry.direction \in Directions
      BY <3>2 DEF Agrees, Sign, Directions
    <3> QED BY <3>1, <3>2, <3>3 DEF Agrees, MarketEntries, Entry, MarketRows
  <2> HIDE DEF entry
  <2> QED BY <2>1, <2>2, RowRead
<1>4. CASE ReadMover
  <2> DEFINE entry == Entry(Change(Row), Pct(Row), None)
  <2>1. ReadRow("gainersLosers", IsStock(Row), entry) /\ "gainersLosers" \in Pages
    BY <1>4 DEF ReadMover, Pages
  <2>2. ASSUME IsStock(Row), Row.fits
        PROVE  entry \in MarketEntries /\ entry.row = next + 1 /\ Agrees("gainersLosers", entry, Row)
    <3>1. Row \in MarketRows /\ Printable("gainersLosers", Row) /\ next + 1 \in Nat
      BY <2>1, <2>2, NextRow DEF ReadRow, DataRow
    <3>2. Change(Row) = Row.change /\ Pct(Row) = Row.pct
      BY <3>1, StockAgrees
    <3> QED BY <3>1, <3>2 DEF Agrees, MarketEntries, Entry, MarketRows
  <2> HIDE DEF entry
  <2> QED BY <2>1, <2>2, RowRead
<1>5. CASE ReadActive
  <2> DEFINE direction == IF Change(Row) = None THEN "FLAT" ELSE DirectionFrom(Row.colour, Change(Row))
             entry == Entry(Change(Row), Pct(Row), direction)
  <2>1. ReadRow("mostActive", IsStock(Row), entry) /\ "mostActive" \in Pages
    BY <1>5 DEF ReadActive, Pages
  <2>2. ASSUME IsStock(Row), Row.fits
        PROVE  entry \in MarketEntries /\ entry.row = next + 1 /\ Agrees("mostActive", entry, Row)
    <3>1. Row \in MarketRows /\ Printable("mostActive", Row) /\ next + 1 \in Nat
      BY <2>1, <2>2, NextRow DEF ReadRow, DataRow
    <3>2. /\ Change(Row) = Row.change /\ Pct(Row) = Row.pct
          /\ Row.change # None => DirectionFrom(Row.colour, Row.change) = Sign(Row.change)
      BY <3>1, StockAgrees
    <3>3. direction = IF Row.change = None THEN "FLAT" ELSE Sign(Row.change)
      BY <3>2
    <3>4. direction \in Directions
      BY <3>3 DEF Sign, Directions
    <3> HIDE DEF direction
    <3> QED BY <3>1, <3>2, <3>3, <3>4 DEF Agrees, MarketEntries, Entry, MarketRows
  <2> HIDE DEF entry
  <2> QED BY <2>1, <2>2, RowRead
<1>6. CASE EndTable
  <2>1. market = "tables" /\ UNCHANGED <<page, entries>> /\ next' = 0
    BY <1>6 DEF EndTable
  <2>2. /\ page \in MarketPages /\ page.tables \in Seq(Seq(MarketRows))
        /\ reading \in {1, 2} /\ reading <= Len(page.tables)
    BY <2>1, MarketAssumption DEF MarketInv, MarketPlaced, MarketPage
  <2>3. CASE reading < TablesOf(page.page)
    <3>1. reading' = 2 /\ market' = "tables" /\ TablesOf(page.page) = 2
      BY <1>6, <2>2, <2>3 DEF EndTable, TablesOf
    <3>2. Len(page.tables) \in Nat /\ 2 <= Len(page.tables) /\ next' \in 0 .. Len(page.tables[2])
      BY <2>1, <2>2, <3>1 DEF MarketInv, MarketPlaced
    <3>3. MarketPlaced'
      BY <2>1, <2>2, <3>1, <3>2 DEF MarketPlaced
    <3> QED BY <2>1, <3>3, MarketUnread
  <2>4. CASE ~ (reading < TablesOf(page.page))
    <3>1. market' \in {"done", "ParseError", "breadth"}
      BY <1>6, <2>4 DEF EndTable
    <3>2. MarketPlaced'
      BY <2>1, <2>2, <3>1 DEF MarketPlaced
    <3> QED BY <2>1, <3>2, MarketUnread
  <2> QED BY <2>3, <2>4
<1>7. CASE ReadBreadth
  BY <1>7, MarketUnread DEF ReadBreadth, MarketInv, MarketPlaced
<1>8. CASE ReturnSummary
  BY <1>8, MarketUnread DEF ReturnSummary, MarketInv, MarketPlaced
<1>9. CASE UNCHANGED marketVars
  BY <1>9, MarketUnread DEF marketVars, MarketInv, MarketPlaced
<1> QED
  BY <1>1, <1>2, <1>3, <1>4, <1>5, <1>6, <1>7, <1>8, <1>9 DEF MarketNext

LEMMA MarketInductive == MarketSpec => []MarketInv
BY MarketInvInit, MarketInvStep, PTL DEF MarketSpec

\* The sign of every change and %change is that of what COL reports.
THEOREM SignsRead == MarketSpec => []SignsRight
<1>1. MarketInv => SignsRight
  BY DEF MarketInv, RowOfEntry, Agrees, SignsRight, RowOf
<1> QED BY <1>1, MarketInductive, PTL

\* No direction contradicts the numbers next to it.
THEOREM DirectionsRead == MarketSpec => []DirectionsRight
<1>1. MarketInv => DirectionsRight
  BY DEF MarketInv, RowOfEntry, Agrees, DirectionsRight, RowOf
<1> QED BY <1>1, MarketInductive, PTL

-----------------------------------------------------------------------------
\* The data rows among the first n of a table are listed, in order, and no others.
Listed(t, n) ==
    /\ \A k \in DOMAIN entries[t] : /\ entries[t][k].row \in 1 .. n
                                    /\ DataRow(page.page, page.tables[t][entries[t][k].row])
    /\ \A i \in 1 .. n : DataRow(page.page, page.tables[t][i]) =>
                             \E k \in DOMAIN entries[t] : entries[t][k].row = i
    /\ \A k, l \in DOMAIN entries[t] : k < l => entries[t][k].row < entries[t][l].row

\* The tables before the one being read are read, those behind it are not.
TablesListed ==
    /\ market = "tables" => /\ reading <= TablesOf(page.page)
                            /\ Listed(reading, next)
                            /\ reading = 2 => Listed(1, Len(page.tables[1]))
                            /\ reading = 1 => entries[2] = <<>>
    /\ market \in {"breadth", "done"} =>
           \A t \in 1 .. TablesOf(page.page) :
               t \in {1, 2} /\ t \in DOMAIN page.tables /\ Listed(t, Len(page.tables[t]))

\* A row is added when it is a data row, and then behind the others.
LEMMA RowListed ==
    ASSUME MarketInv, TablesListed, NEW p \in Pages, NEW wanted, NEW entry, ReadRow(p, wanted, entry),
           entry.row = next + 1, Row.fits /\ wanted <=> DataRow(p, Row)
    PROVE  TablesListed'
<1>1. /\ market = "tables" /\ page.page = p /\ next < Len(Table) /\ next' = next + 1
      /\ UNCHANGED <<market, page, reading>>
  BY DEF ReadRow
<1>2. /\ reading \in {1, 2} /\ next \in Nat /\ Row = page.tables[reading][next + 1]
      /\ entries \in [{1, 2} -> Seq(MarketEntries)]
  BY <1>1 DEF MarketInv, MarketPlaced, Row, Table
<1>3. Listed(reading, next)
  BY <1>1 DEF TablesListed
<1>4. CASE ~ DataRow(p, Row)
  <2>1. UNCHANGED entries
    BY <1>4 DEF ReadRow
  <2>2. Listed(reading, next)'
    BY <1>1, <1>2, <1>3, <1>4, <2>1 DEF Listed
  <2> QED BY <1>1, <2>1, <2>2 DEF TablesListed, Listed
<1>5. CASE DataRow(p, Row)
  <2> DEFINE old == entries[reading]
             new == entries'[reading]
  <2>1. entries' = [entries EXCEPT ![reading] = Append(@, entry)]
    BY <1>5 DEF ReadRow
  <2>2. /\ new = Append(old, entry) /\ old \in Seq(MarketEntries)
        /\ \A t \in {1, 2} : t # reading => entries'[t] = entries[t]
    BY <1>2, <2>1
  <2>3. /\ DOMAIN new = 1 .. Len(old) + 1 /\ DOMAIN old = 1 .. Len(old) /\ Len(old) \in Nat
        /\ new[Len(old) + 1] = entry /\ \A k \in DOMAIN old : new[k] = old[k]
    <3>1. old \in Seq(MarketEntries \cup {entry}) /\ entry \in MarketEntries \cup {entry}
      BY <2>2
    <3> HIDE DEF old, new
    <3> QED BY <2>2, <3>1
  <2>4. /\ \A k \in DOMAIN old : /\ old[k].row \in 1 .. next
                                 /\ DataRow(p, page.tables[reading][old[k].row])
        /\ \A i \in 1 .. next : DataRow(p, page.tables[reading][i]) =>
                                    \E k \in DOMAIN old : old[k].row = i
        /\ \A k, l \in DOMAIN old : k < l => old[k].row < old[l].row
    BY <1>1, <1>3 DEF Listed
  <2> HIDE DEF old, new
  <2>5. \A k \in DOMAIN new : /\ new[k].row \in 1 .. next + 1
                              /\ DataRow(p, page.tables[reading][new[k].row])
    BY <1>2, <1>5, <2>3, <2>4
  <2>6. \A i \in 1 .. next + 1 : DataRow(p, page.tables[reading][i]) =>
                                     \E k \in DOMAIN new : new[k].row = i
    <3> SUFFICES ASSUME NEW i \in 1 .. next + 1, DataRow(p, page.tables[reading][i])
                 PROVE  \E k \in DOMAIN new : new[k].row = i
      OBVIOUS
    <3>1. CASE i = next + 1
      <4>1. Len(old) + 1 \in DOMAIN new /\ new[Len(old) + 1].row = i
        BY <2>3, <3>1
      <4> QED BY <4>1
    <3>2. CASE i \in 1 .. next
      <4>1. PICK k \in DOMAIN old : old[k].row = i
        BY <2>4, <3>2
      <4>2. k \in DOMAIN new /\ new[k].row = i
        BY <2>3, <4>1
      <4> QED BY <4>2
    <3> QED BY <1>2, <3>1, <3>2
  <2>7. \A k, l \in DOMAIN new : k < l => new[k].row < new[l].row
    BY <1>2, <2>3, <2>4
  <2>8. Listed(reading, next)'
    BY <1>1, <2>5, <2>6, <2>7 DEF Listed, new
  <2>9. /\ reading = 2 => Listed(1, Len(page.tables[1]))'
        /\ reading = 1 => entries'[2] = <<>>
    <3>1. CASE reading = 1
      BY <1>1, <2>2, <3>1 DEF TablesListed
    <3>2. CASE reading = 2
      <4>1. Listed(1, Len(page.tables[1])) /\ entries'[1] = entries[1]
        BY <1>1, <2>2, <3>2 DEF TablesListed
      <4> QED BY <1>1, <3>2, <4>1 DEF Listed
    <3> QED BY <1>2, <3>1, <3>2
  <2> QED BY <1>1, <2>8, <2>9 DEF TablesListed
<1> QED BY <1>4, <1>5

LEMMA TablesListedStep == MarketInv /\ TablesListed /\ [MarketNext]_marketVars => TablesListed'
<1> SUFFICES ASSUME MarketInv, TablesListed, [MarketNext]_marketVars PROVE TablesListed'
  OBVIOUS
<1>1. CASE GetMarketPage
  <2>1. /\ reading' = 1 /\ next' = 0 /\ entries' = <<<<>>, <<>>>>
        /\ market' \in {"ParseError", "tables"}
    BY <1>1 DEF GetMarketPage, MarketInv, MarketPlaced
  <2>2. Listed(reading, next)'
    BY <2>1 DEF Listed
  <2> QED BY <2>1, <2>2 DEF TablesListed, TablesOf
<1>2. CASE MarketFetchRaises
  BY <1>2 DEF MarketFetchRaises, TablesListed
<1>3. CASE ReadIndex
  <2>1. Row.fits /\ HasLevels(Row) <=> DataRow("summary", Row)
    BY DEF DataRow
  <2> QED BY <1>3, <2>1, RowListed DEF ReadIndex, Pages, Entry
<1>4. CASE ReadMover
  <2>1. Row.fits /\ IsStock(Row) <=> DataRow("gainersLosers", Row)
    BY DEF DataRow
  <2> QED BY <1>4, <2>1, RowListed DEF ReadMover, Pages, Entry
<1>5. CASE ReadActive
  <2>1. Row.fits /\ IsStock(Row) <=> DataRow("mostActive", Row)
    BY DEF DataRow
  <2> QED BY <1>5, <2>1, RowListed DEF ReadActive, Pages, Entry
<1>6. CASE EndTable
  <2>1. market = "tables" /\ UNCHANGED <<page, entries>> /\ next' = 0 /\ next = Len(Table)
    BY <1>6 DEF EndTable
  <2>2. /\ page.tables \in Seq(Seq(MarketRows)) /\ reading \in {1, 2}
        /\ TablesOf(page.page) \in {1, 2} /\ TablesOf(page.page) <= Len(page.tables)
    BY <2>1, MarketAssumption DEF MarketInv, MarketPlaced, MarketPage, TablesOf
  <2>3. Listed(reading, Len(page.tables[reading])) /\ reading <= TablesOf(page.page)
    BY <2>1 DEF TablesListed, Table
  <2>4. CASE reading < TablesOf(page.page)
    <3>1. reading = 1 /\ reading' = 2 /\ market' = "tables" /\ TablesOf(page.page) = 2
      BY <1>6, <2>2, <2>4 DEF EndTable
    <3>2. entries[2] = <<>>
      BY <2>1, <3>1 DEF TablesListed
    <3>3. Listed(reading, next)'
      BY <2>1, <3>1, <3>2 DEF Listed
    <3>4. Listed(1, Len(page.tables[1]))'
      BY <2>1, <2>3, <3>1 DEF Listed
    <3> QED BY <2>1, <3>1, <3>3, <3>4 DEF TablesListed
  <2>5. CASE ~ (reading < TablesOf(page.page))
    <3>1. market' \in {"done", "ParseError", "breadth"} /\ reading = TablesOf(page.page)
      BY <1>6, <2>2, <2>3, <2>5 DEF EndTable
    <3>2. ASSUME NEW t \in 1 .. TablesOf(page.page)
          PROVE  t \in {1, 2} /\ t \in DOMAIN page.tables /\ Listed(t, Len(page.tables[t]))
      <4>1. t \in {1, 2} /\ t \in 1 .. Len(page.tables)
        BY <2>2
      <4>2. t = reading \/ (t = 1 /\ reading = 2)
        BY <2>2, <3>1, <4>1
      <4> QED BY <2>1, <2>2, <2>3, <4>1, <4>2 DEF TablesListed
    <3> QED BY <2>1, <3>1, <3>2 DEF TablesListed, Listed
  <2> QED BY <2>4, <2>5
<1>7. CASE ReadBreadth
  BY <1>7 DEF ReadBreadth, TablesListed, Listed
<1>8. CASE ReturnSummary
  BY <1>8 DEF ReturnSummary, TablesListed, Listed
<1>9. CASE UNCHANGED marketVars
  BY <1>9 DEF marketVars, TablesListed, Listed
<1> QED
  BY <1>1, <1>2, <1>3, <1>4, <1>5, <1>6, <1>7, <1>8, <1>9 DEF MarketNext

\* When a page is read, each of its data rows has one entry, in the order of the page.
THEOREM RowsListed == MarketSpec => []RowsKept
<1>1. MarketInit => TablesListed
  BY DEF MarketInit, TablesListed
<1>2. MarketInv /\ TablesListed => RowsKept
  <2> SUFFICES ASSUME MarketInv, TablesListed, market = "done", NEW t \in 1 .. TablesOf(page.page)
               PROVE  /\ {entries[t][k].row : k \in DOMAIN entries[t]}
                             = {i \in DOMAIN page.tables[t] : DataRow(page.page, page.tables[t][i])}
                      /\ \A k, l \in DOMAIN entries[t] :
                             k < l => entries[t][k].row < entries[t][l].row
    BY DEF RowsKept
  <2>1. t \in {1, 2} /\ t \in DOMAIN page.tables /\ Listed(t, Len(page.tables[t]))
    BY DEF TablesListed
  <2>2. page \in MarketPages \cup {NoPage} /\ page # NoPage
    BY <2>1 DEF MarketInv, MarketPlaced, NoPage
  <2>3. page.tables \in Seq(Seq(MarketRows))
    BY <2>2, MarketAssumption DEF MarketPage
  <2>4. DOMAIN page.tables[t] = 1 .. Len(page.tables[t])
    BY <2>1, <2>3
  <2> QED BY <2>1, <2>4 DEF Listed
<1> QED BY <1>1, <1>2, TablesListedStep, MarketInductive, PTL DEF MarketSpec
-----------------------------------------------------------------------------
(* Guide.                                                                  *)

\* Where the call is after each number of requests.
Framed ==
    /\ guide \in {"idle", "table", "rows", "date", "answer", "done", "raised"}
    /\ guide \in {"table", "rows"} => frame = 1 /\ asOf = None
    /\ guide = "date" => frame = 2 /\ asOf = None
    /\ guide = "idle" => asOf = None /\ ~ newer

\* Until a new edition is published, what was fetched is the edition COL shows.
Dated ==
    /\ edition \in Nat /\ tableEdition \in Nat /\ tableEdition <= edition
    /\ newer \in BOOLEAN
    /\ guide \in {"rows", "date", "answer", "done"} /\ ~ newer => tableEdition = edition
    /\ guide \in {"answer", "done"} /\ asOf # None =>
           /\ asOf \in Nat /\ tableEdition <= asOf /\ asOf <= edition

GuideInv == Framed /\ Dated

LEMMA GuideInvInit == GuideInit => GuideInv
<1> SUFFICES ASSUME GuideInit PROVE GuideInv
  OBVIOUS
<1>1. ~ newer /\ newer \in BOOLEAN
  BY DEF GuideInit
<1> QED BY <1>1 DEF GuideInit, GuideInv, Framed, Dated

LEMMA GuideStep == GuideInv /\ [GuideNext]_guideVars => GuideInv'
<1> SUFFICES ASSUME GuideInv, [GuideNext]_guideVars PROVE GuideInv'
  OBVIOUS
<1> USE DEF GuideInv, Framed, Dated
<1>1. Len(Frames) = 2 /\ Frames[1] = "table" /\ Frames[2] = "date"
  BY DEF Frames
<1>2. CASE GetTechnicalGuide
  BY <1>1, <1>2 DEF GetTechnicalGuide, Goes
<1>3. CASE GuideFetchRaises
  BY <1>3 DEF GuideFetchRaises
<1>4. CASE FetchTable
  BY <1>4 DEF FetchTable
<1>5. ASSUME NEW kind, ReadGuideRow(kind) PROVE GuideInv'
  BY <1>5 DEF ReadGuideRow
<1>6. CASE ReadSeparator \/ ReadEntry \/ SkipGuideRow
  BY <1>5, <1>6 DEF ReadSeparator, ReadEntry, SkipGuideRow
<1>7. CASE EndRows
  BY <1>1, <1>7 DEF EndRows, Goes
<1>8. CASE FetchDate
  BY <1>1, <1>8 DEF FetchDate, Goes
<1>9. CASE AnswerQuery
  BY <1>9 DEF AnswerQuery
<1>10. CASE Publish
  <2>1. newer' \in BOOLEAN /\ (newer' <=> guide # "idle")
    BY <1>10, Zenon DEF Publish
  <2> QED BY <1>10, <2>1 DEF Publish
<1>11. CASE UNCHANGED guideVars
  BY <1>11 DEF guideVars
<1> QED
  BY <1>2, <1>3, <1>4, <1>6, <1>7, <1>8, <1>9, <1>10, <1>11 DEF GuideNext

\* An answer's rows are of its date's edition or of an earlier one, and of
\* that very edition unless COL published one during the call.
THEOREM DateAfterRows == GuideSpec => []DateNeverOlder
<1>1. GuideInv => DateNeverOlder
  BY DEF GuideInv, Framed, Dated, DateNeverOlder
<1> QED BY <1>1, GuideInvInit, GuideStep, PTL DEF GuideSpec

-----------------------------------------------------------------------------
(* The answer of the guide.                                                *)

GuideListEntries ==
    [row : Nat, ticker : Tickers \cup {None}, rating : Ratings \cup {None},
     sector : Sectors \cup {None}, level : Decimals, role : {"resistance", "support", None}]

\* An entry says what its row of the table does, and which sector that is in.
OfItsRow(e) ==
    /\ e.ticker = table[e.row].ticker /\ e.rating = table[e.row].rating
    /\ e.sector = SectorAt(e.row) /\ (e.role # None => e.level # None)

EntryPlaces == [k \in DOMAIN guideEntries |-> guideEntries[k].row]
EntriesUpTo(n) == {i \in 1 .. n : table[i].kind = "entry"}

\* The entries among the rows read so far are there, in order, and the sector is
\* the one the next row is in; the answer is made of them when all rows are read.
AnswerInv ==
    /\ table \in GuideTables \cup {<<>>} /\ guideRow \in 0 .. Len(table)
    /\ guide \in {"idle", "table"} => guideRow = 0 /\ sector = None
    /\ guide \in {"date", "answer", "done"} => guideRow = Len(table)
    /\ query \in Queries
    /\ sector \in Sectors \cup {None} /\ sector = SectorAt(guideRow + 1)
    /\ guideEntries \in Seq(GuideListEntries)
    /\ Lists(EntryPlaces, EntriesUpTo(guideRow))
    /\ \A k \in DOMAIN guideEntries : OfItsRow(guideEntries[k])
    /\ guide = "done" => listing = ListingAsked

LEMMA TableType ==
    ASSUME AnswerInv
    PROVE  /\ table \in Seq(GuideRows) /\ Len(table) \in Nat /\ DOMAIN table = 1 .. Len(table)
           /\ guideRow \in Nat
           /\ Len(guideEntries) \in Nat /\ DOMAIN guideEntries = 1 .. Len(guideEntries)
<1>1. <<>> \in Seq(GuideRows)
  OBVIOUS
<1>2. table \in Seq(GuideRows)
  BY <1>1, GuideAssumption DEF AnswerInv
<1>3. guideEntries \in Seq(GuideListEntries)
  BY DEF AnswerInv
<1> QED BY <1>2, <1>3 DEF AnswerInv

\* The greatest of a set of numbers.
LEMMA GreatestOf ==
    ASSUME NEW S, S \subseteq Nat, NEW x \in S, \A y \in S : y <= x
    PROVE  Max(S) = x
<1>1. \A z \in S : (\A y \in S : z >= y) => z = x
  <2> SUFFICES ASSUME NEW z \in S, \A y \in S : z >= y PROVE z = x
    OBVIOUS
  <2>1. z >= x /\ z <= x /\ x \in Nat /\ z \in Nat
    OBVIOUS
  <2> QED BY <2>1
<1>2. \A y \in S : x >= y
  OBVIOUS
<1> QED BY <1>1, <1>2 DEF Max

\* The last label above a row is that of the row before it, if it has one.
LEMMA NextSector ==
    ASSUME NEW r \in Nat
    PROVE  SectorAt(r + 2) = IF table[r + 1].kind = "separator" /\ table[r + 1].sector # None
                             THEN table[r + 1].sector ELSE SectorAt(r + 1)
<1>1. /\ r + 2 - 1 = r + 1 /\ r + 1 - 1 = r
      /\ 1 .. r + 1 = (1 .. r) \cup {r + 1}
  OBVIOUS
<1>2. CASE table[r + 1].kind = "separator" /\ table[r + 1].sector # None
  <2>1. r + 1 \in LabelsAbove(r + 2) /\ LabelsAbove(r + 2) \subseteq 1 .. r + 1
    BY <1>1, <1>2 DEF LabelsAbove
  <2>2. Max(LabelsAbove(r + 2)) = r + 1
    BY <2>1, GreatestOf
  <2> QED BY <1>2, <2>1, <2>2 DEF SectorAt
<1>3. CASE ~ (table[r + 1].kind = "separator" /\ table[r + 1].sector # None)
  <2>1. LabelsAbove(r + 2) = LabelsAbove(r + 1)
    BY <1>1, <1>3 DEF LabelsAbove
  <2> QED BY <1>3, <2>1 DEF SectorAt
<1> QED BY <1>2, <1>3

LEMMA NoSectorAtFirst == SectorAt(1) = None
<1>1. LabelsAbove(1) = {}
  BY DEF LabelsAbove
<1> QED BY <1>1 DEF SectorAt

\* A row that is no entry adds none; a label begins a sector.
LEMMA OtherGuideRow ==
    ASSUME AnswerInv, NEW kind, kind # "entry", ReadGuideRow(kind), guideEntries' = guideEntries,
           sector' = IF table[guideRow + 1].kind = "separator" /\ table[guideRow + 1].sector # None
                     THEN table[guideRow + 1].sector ELSE sector
    PROVE  AnswerInv'
<1>1. /\ guide = "rows" /\ guideRow < Len(table) /\ guideRow' = guideRow + 1
      /\ table[guideRow + 1].kind # "entry"
      /\ UNCHANGED <<guide, query, table, listing>>
  BY DEF ReadGuideRow
<1>2. guideRow \in Nat /\ Len(table) \in Nat /\ guideRow + 1 \in 1 .. Len(table)
      /\ table[guideRow + 1] \in GuideRows
  BY <1>1, TableType
<1>3. SectorAt(guideRow + 1)' = SectorAt(guideRow + 2) /\ guideRow' \in 0 .. Len(table)
  <2>1. guideRow' + 1 = guideRow + 2 /\ guideRow' \in 0 .. Len(table) /\ table' = table
    BY <1>1, <1>2
  <2>2. SectorAt(guideRow + 1)' = SectorAt(guideRow + 2)
    BY <2>1 DEF SectorAt, LabelsAbove
  <2> QED BY <2>1, <2>2
<1>4. sector' = SectorAt(guideRow + 2) /\ sector' \in Sectors \cup {None}
  BY <1>2, NextSector DEF AnswerInv, GuideRows
<1>5. EntriesUpTo(guideRow)' = EntriesUpTo(guideRow) /\ EntryPlaces' = EntryPlaces
  <2>1. 1 .. guideRow + 1 = (1 .. guideRow) \cup {guideRow + 1}
    BY <1>2
  <2> QED BY <1>1, <2>1 DEF EntriesUpTo, EntryPlaces
<1>6. \A k \in DOMAIN guideEntries : OfItsRow(guideEntries[k])'
  BY <1>1 DEF AnswerInv, OfItsRow, SectorAt, LabelsAbove
<1> QED BY <1>1, <1>3, <1>4, <1>5, <1>6 DEF AnswerInv

\* An entry goes to the end of the list, with the sector it is in.
LEMMA EntryRow ==
    ASSUME AnswerInv, ReadEntry
    PROVE  AnswerInv'
<1> DEFINE r == table[guideRow + 1]
           e == [row |-> guideRow + 1, ticker |-> r.ticker, rating |-> r.rating,
                 sector |-> sector, level |-> r.level, role |-> LevelRole(r)]
           longer == Append(guideEntries, e)
<1>1. /\ guide = "rows" /\ guideRow < Len(table) /\ guideRow' = guideRow + 1 /\ r.kind = "entry"
      /\ UNCHANGED <<guide, query, table, listing, sector>> /\ guideEntries' = longer
  BY DEF ReadEntry, ReadGuideRow
<1>2. guideRow \in Nat /\ Len(table) \in Nat /\ guideRow + 1 \in 1 .. Len(table) /\ r \in GuideRows
  BY <1>1, TableType
<1>3. /\ e \in GuideListEntries /\ e.row = guideRow + 1 /\ e.sector = sector
      /\ e.ticker = r.ticker /\ e.rating = r.rating /\ (e.role # None => e.level # None)
  <2>1. LevelRole(r) \in {"resistance", "support", None} /\ (LevelRole(r) # None => r.level # None)
    BY DEF LevelRole
  <2> QED BY <1>2, <2>1 DEF AnswerInv, GuideListEntries, GuideRows
<1> HIDE DEF e
<1>4. /\ guideEntries \in Seq(GuideListEntries) /\ longer \in Seq(GuideListEntries)
      /\ DOMAIN longer = 1 .. Len(guideEntries) + 1
      /\ longer[Len(guideEntries) + 1] = e
      /\ \A k \in DOMAIN guideEntries : longer[k] = guideEntries[k]
      /\ DOMAIN guideEntries = 1 .. Len(guideEntries) /\ Len(guideEntries) \in Nat
  BY <1>3 DEF AnswerInv
<1> HIDE DEF longer
<1>5. Lists(Append(EntryPlaces, guideRow + 1), EntriesUpTo(guideRow) \cup {guideRow + 1})
  BY <1>2, NextListed DEF AnswerInv, EntriesUpTo
<1>6. EntriesUpTo(guideRow)' = EntriesUpTo(guideRow) \cup {guideRow + 1}
  <2>1. 1 .. guideRow + 1 = (1 .. guideRow) \cup {guideRow + 1}
    BY <1>2
  <2> QED BY <1>1, <2>1 DEF EntriesUpTo
<1>7. EntryPlaces' = Append(EntryPlaces, guideRow + 1)
  <2>1. /\ EntryPlaces \in Seq(Nat) /\ Len(EntryPlaces) = Len(guideEntries)
        /\ \A k \in 1 .. Len(guideEntries) : EntryPlaces[k] = guideEntries[k].row
    <3>1. EntryPlaces = [k \in 1 .. Len(guideEntries) |-> guideEntries[k].row]
      BY <1>4 DEF EntryPlaces
    <3>2. \A k \in 1 .. Len(guideEntries) : guideEntries[k].row \in Nat
      <4>1. \A k \in 1 .. Len(guideEntries) : guideEntries[k] \in GuideListEntries
        BY <1>4
      <4> QED BY <4>1 DEF GuideListEntries
    <3> QED BY <1>4, <3>1, <3>2
  <2>2. EntryPlaces' = [k \in 1 .. Len(guideEntries) + 1 |-> longer[k].row]
    BY <1>1, <1>4 DEF EntryPlaces
  <2>3. \A k \in 1 .. Len(guideEntries) + 1 :
            longer[k].row = Append(EntryPlaces, guideRow + 1)[k]
    BY <1>2, <1>3, <1>4, <2>1
  <2>4. Append(EntryPlaces, guideRow + 1)
            = [k \in 1 .. Len(guideEntries) + 1 |-> Append(EntryPlaces, guideRow + 1)[k]]
    BY <1>2, <1>4, <2>1
  <2> QED BY <2>2, <2>3, <2>4
<1>8. (\A k \in DOMAIN guideEntries : OfItsRow(guideEntries[k]))'
  <2>1. OfItsRow(e)
    <3>1. e.sector = SectorAt(e.row)
      BY <1>3 DEF AnswerInv
    <3> QED BY <1>3, <3>1 DEF OfItsRow
  <2>2. \A k \in DOMAIN guideEntries : OfItsRow(guideEntries[k])
    BY DEF AnswerInv
  <2>3. ASSUME NEW k \in DOMAIN longer
        PROVE  OfItsRow(guideEntries[k])'
    <3>1. k \in DOMAIN guideEntries \/ longer[k] = e
      BY <1>4
    <3>2. OfItsRow(longer[k])
      BY <1>4, <2>1, <2>2, <3>1
    <3> QED BY <1>1, <3>2 DEF OfItsRow, SectorAt, LabelsAbove
  <2> QED BY <1>1, <2>3
<1>9. sector' = SectorAt(guideRow + 1)' /\ sector' \in Sectors \cup {None} /\ guideRow' \in 0 .. Len(table)
  <2>1. guideRow' + 1 = guideRow + 2 /\ guideRow' \in 0 .. Len(table) /\ table' = table
    BY <1>1, <1>2
  <2>2. SectorAt(guideRow + 1)' = SectorAt(guideRow + 2)
    BY <2>1 DEF SectorAt, LabelsAbove
  <2>3. SectorAt(guideRow + 2) = SectorAt(guideRow + 1)
    BY <1>1, <1>2, NextSector
  <2> QED BY <1>1, <2>1, <2>2, <2>3 DEF AnswerInv
<1>10. Lists(EntryPlaces, EntriesUpTo(guideRow))'
  BY <1>5, <1>6, <1>7
<1> QED BY <1>1, <1>4, <1>8, <1>9, <1>10 DEF AnswerInv


\* A step that reads no row leaves the entries as they are.
LEMMA GuideUnread ==
    ASSUME AnswerInv, UNCHANGED <<table, guideRow, sector, guideEntries>>, query' \in Queries,
           guide' \in {"idle", "table"} => guide \in {"idle", "table"},
           guide' \in {"date", "answer", "done"} => guideRow = Len(table),
           guide' = "done" => listing' = ListingAsked'
    PROVE  AnswerInv'
<1>1. \A x : OfItsRow(x)' <=> OfItsRow(x)
  BY DEF OfItsRow, SectorAt, LabelsAbove
<1>2. /\ SectorAt(guideRow + 1)' = SectorAt(guideRow + 1)
      /\ EntriesUpTo(guideRow)' = EntriesUpTo(guideRow) /\ EntryPlaces' = EntryPlaces
  BY DEF SectorAt, LabelsAbove, EntriesUpTo, EntryPlaces
<1> QED BY <1>1, <1>2 DEF AnswerInv

LEMMA AnswerInit == GuideInit => AnswerInv
<1> SUFFICES ASSUME GuideInit PROVE AnswerInv
  OBVIOUS
<1>1. /\ table = <<>> /\ guideRow = 0 /\ guide = "idle" /\ sector = None /\ guideEntries = <<>>
      /\ query \in Queries
  BY DEF GuideInit, Queries
<1>2. guideEntries \in Seq(GuideListEntries) /\ \A k \in DOMAIN guideEntries : FALSE
  BY <1>1
<1>3. Lists(EntryPlaces, EntriesUpTo(guideRow))
  <2>1. EntryPlaces = <<>> /\ EntriesUpTo(guideRow) = {}
    BY <1>1 DEF EntryPlaces, EntriesUpTo
  <2> QED BY <2>1, NothingListed
<1>4. sector = SectorAt(guideRow + 1) /\ guideRow \in 0 .. Len(table)
  BY <1>1, NoSectorAtFirst
<1> QED BY <1>1, <1>2, <1>3, <1>4 DEF AnswerInv

LEMMA AnswerStep == GuideInv /\ AnswerInv /\ [GuideNext]_guideVars => AnswerInv'
<1> SUFFICES ASSUME GuideInv, AnswerInv, [GuideNext]_guideVars PROVE AnswerInv'
  OBVIOUS
<1>1. Len(Frames) = 2 /\ Frames[1] = "table" /\ Frames[2] = "date"
  BY DEF Frames
<1>2. query \in Queries
  BY DEF AnswerInv
<1>3. CASE GetTechnicalGuide
  BY <1>1, <1>3, GuideUnread DEF GetTechnicalGuide, Goes
<1>4. CASE GuideFetchRaises
  BY <1>2, <1>4, GuideUnread DEF GuideFetchRaises
<1>5. CASE FetchTable
  <2>1. /\ table' \in GuideTables /\ guide' = "rows" /\ guideRow = 0 /\ sector = None
        /\ UNCHANGED <<guideRow, sector, guideEntries, query, listing>>
    BY <1>5 DEF FetchTable, AnswerInv
  <2>2. guideRow' \in 0 .. Len(table') /\ table' \in Seq(GuideRows)
    BY <2>1, GuideAssumption
  <2>3. SectorAt(guideRow + 1)' = None /\ EntriesUpTo(guideRow) = {} /\ EntriesUpTo(guideRow)' = {}
    BY <2>1 DEF SectorAt, LabelsAbove, EntriesUpTo
  <2>4. EntryPlaces' = EntryPlaces
    BY <2>1 DEF EntryPlaces
  <2>5. \A k \in DOMAIN guideEntries : FALSE
    <3>1. SUFFICES ASSUME NEW k \in DOMAIN guideEntries PROVE FALSE
      OBVIOUS
    <3>2. k \in DOMAIN EntryPlaces
      BY DEF EntryPlaces
    <3> QED BY <2>3, <3>2, Zenon DEF AnswerInv, Lists
  <2> QED BY <2>1, <2>2, <2>3, <2>4, <2>5 DEF AnswerInv
<1>6. CASE ReadSeparator
  <2>1. ReadGuideRow("separator") /\ table[guideRow + 1].kind = "separator" /\ guideEntries' = guideEntries
    BY <1>6 DEF ReadSeparator, ReadGuideRow
  <2>2. sector' = IF table[guideRow + 1].sector # None THEN table[guideRow + 1].sector ELSE sector
    BY <1>6 DEF ReadSeparator
  <2> QED BY <2>1, <2>2, OtherGuideRow
<1>7. CASE ReadEntry
  BY <1>7, EntryRow
<1>8. CASE SkipGuideRow
  <2>1. /\ ReadGuideRow("other") /\ table[guideRow + 1].kind = "other"
        /\ UNCHANGED <<sector, guideEntries>>
    BY <1>8 DEF SkipGuideRow, ReadGuideRow
  <2> QED BY <2>1, OtherGuideRow
<1>9. CASE EndRows
  <2>1. guide' \in {"raised", "date"} /\ guideRow = Len(table)
    BY <1>1, <1>9 DEF EndRows, Goes, GuideInv, Framed
  <2> QED BY <1>2, <1>9, <2>1, GuideUnread DEF EndRows
<1>10. CASE FetchDate
  <2>1. guide' = "answer" /\ guide = "date"
    BY <1>1, <1>10 DEF FetchDate, Goes, GuideInv, Framed
  <2> QED BY <1>2, <1>10, <2>1, GuideUnread DEF FetchDate, AnswerInv
<1>11. CASE AnswerQuery
  <2>1. listing' = ListingAsked /\ UNCHANGED <<query, table, guideRow, sector, guideEntries>>
        /\ guide = "answer" /\ guide' = "done"
    BY <1>11 DEF AnswerQuery
  <2>2. ListingAsked' = ListingAsked
    BY <2>1 DEF ListingAsked, Picked, Heading
  <2> QED BY <1>2, <2>1, <2>2, GuideUnread DEF AnswerInv
<1>12. CASE Publish \/ UNCHANGED guideVars
  <2>1. UNCHANGED <<guide, query, table, guideRow, sector, guideEntries, listing>>
    BY <1>12 DEF Publish, guideVars
  <2>2. ListingAsked' = ListingAsked
    BY <2>1 DEF ListingAsked, Picked, Heading
  <2> QED BY <1>2, <2>1, <2>2, GuideUnread DEF AnswerInv
<1> QED
  BY <1>3, <1>4, <1>5, <1>6, <1>7, <1>8, <1>9, <1>10, <1>11, <1>12 DEF GuideNext

\* What is picked is the entries at these places, in the order of the table.
LEMMA PickedRight ==
    ASSUME AnswerInv, NEW places \in SUBSET (DOMAIN guideEntries)
    PROVE  LET picked == Picked(places)
           IN  /\ \A m \in places : \E k \in DOMAIN picked : picked[k] = guideEntries[m]
               /\ \A k \in DOMAIN picked : \E m \in places : picked[k] = guideEntries[m]
               /\ \A k, l \in DOMAIN picked : k < l => picked[k].row < picked[l].row
<1> DEFINE at == InOrder(places, Len(guideEntries))
           picked == Picked(places)
<1>1. Len(guideEntries) \in Nat /\ places \cap (1 .. Len(guideEntries)) = places
  BY TableType
<1>2. Lists(at, places)
  BY <1>1, InOrderLists
<1> HIDE DEF at
<1>3. DOMAIN picked = DOMAIN at /\ \A k \in DOMAIN at : picked[k] = guideEntries[at[k]]
  BY DEF Picked, at
<1> HIDE DEF picked
<1>4. \A m \in places : \E k \in DOMAIN picked : picked[k] = guideEntries[m]
  <2>1. TAKE m \in places
  <2>2. PICK k \in DOMAIN at : at[k] = m
    BY <1>2, Zenon DEF Lists
  <2> QED BY <1>3, <2>2
<1>5. \A k \in DOMAIN picked : \E m \in places : picked[k] = guideEntries[m]
  BY <1>2, <1>3, Zenon DEF Lists
<1>6. ASSUME NEW k \in DOMAIN picked, NEW l \in DOMAIN picked, k < l
      PROVE  picked[k].row < picked[l].row
  <2>1. at[k] \in places /\ at[l] \in places /\ at[k] < at[l]
    BY <1>2, <1>3, <1>6, Zenon DEF Lists
  <2>2. /\ at[k] \in DOMAIN EntryPlaces /\ EntryPlaces[at[k]] = guideEntries[at[k]].row
        /\ at[l] \in DOMAIN EntryPlaces /\ EntryPlaces[at[l]] = guideEntries[at[l]].row
    BY <2>1 DEF EntryPlaces
  <2>3. EntryPlaces[at[k]] < EntryPlaces[at[l]]
    BY <2>1, <2>2, Zenon DEF AnswerInv, Lists
  <2> QED BY <1>3, <1>6, <2>2, <2>3
<1> QED BY <1>4, <1>5, <1>6 DEF picked

\* Each entry has its row, each entry row its entry.
LEMMA RowsOfEntries ==
    ASSUME AnswerInv, guideRow = Len(table)
    PROVE  /\ \A m \in DOMAIN guideEntries :
                  /\ m \in Nat /\ guideEntries[m].row \in EntryRows /\ guideEntries[m].row \in Nat
                  /\ OfItsRow(guideEntries[m])
           /\ \A i \in EntryRows : \E m \in DOMAIN guideEntries : guideEntries[m].row = i
           /\ \A l, m \in DOMAIN guideEntries :
                  l <= m => guideEntries[l].row <= guideEntries[m].row
<1>1. EntriesUpTo(guideRow) = EntryRows
  BY TableType DEF EntriesUpTo, EntryRows
<1>2. Lists(EntryPlaces, EntryRows) /\ DOMAIN EntryPlaces = DOMAIN guideEntries
  BY <1>1 DEF AnswerInv, EntryPlaces
<1>3. \A m \in DOMAIN guideEntries : EntryPlaces[m] = guideEntries[m].row
  BY DEF EntryPlaces
<1>4. ASSUME NEW m \in DOMAIN guideEntries
      PROVE  /\ m \in Nat /\ guideEntries[m].row \in EntryRows /\ guideEntries[m].row \in Nat
             /\ OfItsRow(guideEntries[m])
  <2>1. m \in Nat /\ EntryPlaces[m] \in Nat
    BY <1>2, ListOrder
  <2>2. EntryPlaces[m] \in EntryRows
    BY <1>2, Zenon DEF Lists
  <2>3. OfItsRow(guideEntries[m])
    BY DEF AnswerInv
  <2> QED BY <1>3, <2>1, <2>2, <2>3
<1>5. \A i \in EntryRows : \E m \in DOMAIN guideEntries : guideEntries[m].row = i
  <2>1. TAKE i \in EntryRows
  <2>2. PICK m \in DOMAIN EntryPlaces : EntryPlaces[m] = i
    BY <1>2, Zenon DEF Lists
  <2> QED BY <1>2, <1>3, <2>2
<1>6. ASSUME NEW l \in DOMAIN guideEntries, NEW m \in DOMAIN guideEntries, l <= m
      PROVE  guideEntries[l].row <= guideEntries[m].row
  <2>1. /\ l \in Nat /\ m \in Nat /\ EntryPlaces[l] \in Nat /\ EntryPlaces[m] \in Nat
        /\ m < l <=> EntryPlaces[m] < EntryPlaces[l]
    BY <1>2, ListOrder
  <2> QED BY <1>3, <1>6, <2>1
<1> QED BY <1>4, <1>5, <1>6

\* The least of some numbers.
LEMMA LeastIs ==
    ASSUME NEW S, S \subseteq Nat, S # {}
    PROVE  Min(S) \in S /\ \A y \in S : Min(S) <= y
<1>1. PICK x \in S : \A y \in S : x <= y
  BY LeastNumber
<1>2. Min(S) = x
  BY <1>1, LeastOf
<1> QED BY <1>1, <1>2


\* Row i is answered under h when its entry is among those picked.
LEMMA UnderPicked ==
    ASSUME AnswerInv, NEW places \in SUBSET (DOMAIN guideEntries), NEW i
    PROVE  (\E k \in DOMAIN Picked(places) : Picked(places)[k].row = i)
               <=> \E m \in places : guideEntries[m].row = i
<1> DEFINE picked == Picked(places)
<1>1. /\ \A m \in places : \E k \in DOMAIN picked : picked[k] = guideEntries[m]
      /\ \A k \in DOMAIN picked : \E m \in places : picked[k] = guideEntries[m]
  BY PickedRight
<1> HIDE DEF picked
<1>2. (\E k \in DOMAIN picked : picked[k].row = i) <=> \E m \in places : guideEntries[m].row = i
  BY <1>1
<1> QED BY <1>2 DEF picked

\* The answer for a symbol is its first row of the table.
LEMMA SymbolAnswered ==
    ASSUME AnswerInv, guide = "done", query.by = "symbol", NEW i \in EntryRows
    PROVE  Under(query.of, i) <=> /\ table[i].ticker = query.of
                                  /\ \A j \in EntryRows : table[j].ticker = query.of => i <= j
<1> DEFINE found == {k \in DOMAIN guideEntries : guideEntries[k].ticker = query.of}
           first == IF found = {} THEN {} ELSE {Min(found)}
           asked == table[i].ticker = query.of /\ \A j \in EntryRows : table[j].ticker = query.of => i <= j
<1>1. guideRow = Len(table)
  BY DEF AnswerInv
<1>2. listing = {<<query.of, Picked(first)>>}
  BY DEF AnswerInv, ListingAsked
<1>3. \A m \in DOMAIN guideEntries : guideEntries[m].ticker = table[guideEntries[m].row].ticker
  BY <1>1, RowsOfEntries DEF OfItsRow
<1>4. found \subseteq Nat /\ found \subseteq DOMAIN guideEntries
  BY <1>1, RowsOfEntries
<1>5. found # {} => Min(found) \in found /\ \A k \in found : Min(found) <= k
  BY <1>4, LeastIs
<1>6. first \in SUBSET (DOMAIN guideEntries)
  BY <1>4, <1>5
<1>7. Under(query.of, i) <=> \E m \in first : guideEntries[m].row = i
  <2>1. Under(query.of, i) <=> \E k \in DOMAIN Picked(first) : Picked(first)[k].row = i
    BY <1>2 DEF Under
  <2> HIDE DEF first
  <2> QED BY <1>6, <2>1, UnderPicked
<1>8. ASSUME NEW m \in first, guideEntries[m].row = i PROVE asked
  <2>1. found # {} /\ m = Min(found) /\ m \in found
    BY <1>5, <1>8
  <2>2. table[i].ticker = query.of
    BY <1>3, <1>8, <2>1
  <2>3. ASSUME NEW j \in EntryRows, table[j].ticker = query.of PROVE i <= j
    <3>1. PICK k \in DOMAIN guideEntries : guideEntries[k].row = j
      BY <1>1, RowsOfEntries
    <3>2. k \in found
      BY <1>3, <2>3, <3>1
    <3> QED BY <1>1, <1>5, <1>8, <2>1, <3>1, <3>2, RowsOfEntries
  <2> QED BY <2>2, <2>3
<1>9. ASSUME asked PROVE \E m \in first : guideEntries[m].row = i
  <2>1. PICK k \in DOMAIN guideEntries : guideEntries[k].row = i
    BY <1>1, RowsOfEntries
  <2>2. k \in found
    BY <1>3, <1>9, <2>1
  <2>3. Min(found) \in found /\ Min(found) <= k /\ Min(found) \in first
    BY <1>5, <2>2
  <2>4. guideEntries[Min(found)].row <= i
    BY <1>1, <1>4, <2>1, <2>2, <2>3, RowsOfEntries
  <2>5. /\ guideEntries[Min(found)].row \in EntryRows
        /\ table[guideEntries[Min(found)].row].ticker = query.of
    BY <1>1, <1>3, <1>4, <2>3, RowsOfEntries
  <2>6. i <= guideEntries[Min(found)].row
    BY <1>9, <2>5
  <2>7. i \in Nat /\ guideEntries[Min(found)].row \in Nat
    BY <1>1, <1>4, <2>1, <2>3, RowsOfEntries
  <2>8. guideEntries[Min(found)].row = i
    BY <2>4, <2>6, <2>7
  <2> QED BY <2>3, <2>8
<1> QED BY <1>7, <1>8, <1>9

\* The answer for a rating is every row rated so.
LEMMA RatingAnswered ==
    ASSUME AnswerInv, guide = "done", query.by = "rating", NEW i \in EntryRows
    PROVE  Under(query.of, i) <=> table[i].rating = query.of
<1> DEFINE rated == {k \in DOMAIN guideEntries : guideEntries[k].rating = query.of}
<1>1. guideRow = Len(table)
  BY DEF AnswerInv
<1>2. listing = {<<query.of, Picked(rated)>>}
  BY DEF AnswerInv, ListingAsked
<1>3. Under(query.of, i) <=> \E m \in rated : guideEntries[m].row = i
  <2>1. Under(query.of, i) <=> \E k \in DOMAIN Picked(rated) : Picked(rated)[k].row = i
    BY <1>2 DEF Under
  <2>2. rated \in SUBSET (DOMAIN guideEntries)
    OBVIOUS
  <2> HIDE DEF rated
  <2> QED BY <2>1, <2>2, UnderPicked
<1>4. \A m \in DOMAIN guideEntries : guideEntries[m].rating = table[guideEntries[m].row].rating
  BY <1>1, RowsOfEntries DEF OfItsRow
<1>5. PICK k \in DOMAIN guideEntries : guideEntries[k].row = i
  BY <1>1, RowsOfEntries
<1> QED BY <1>3, <1>4, <1>5

\* Without a question, each row is under its rating, and under no other.
LEMMA GuideAnswered ==
    ASSUME AnswerInv, guide = "done", query.by = "nothing", NEW i \in EntryRows, NEW h
    PROVE  Under(h, i) <=> h = Heading(table[i])
<1> DEFINE under(g) == {k \in DOMAIN guideEntries : Heading(guideEntries[k]) = g}
           headings == {Heading(guideEntries[k]) : k \in DOMAIN guideEntries}
<1>1. guideRow = Len(table)
  BY DEF AnswerInv
<1>2. listing = {<<g, Picked(under(g))>> : g \in headings}
  BY DEF AnswerInv, ListingAsked
<1>3. Under(h, i) <=> h \in headings /\ \E m \in under(h) : guideEntries[m].row = i
  <2>1. Under(h, i) <=> h \in headings /\ \E k \in DOMAIN Picked(under(h)) : Picked(under(h))[k].row = i
    <3>1. \A g \in headings : <<g, Picked(under(g))>>[1] = g
                             /\ <<g, Picked(under(g))>>[2] = Picked(under(g))
      OBVIOUS
    <3> HIDE DEF under, headings
    <3>2. ASSUME Under(h, i)
          PROVE  h \in headings /\ \E k \in DOMAIN Picked(under(h)) : Picked(under(h))[k].row = i
      <4>1. PICK g \in headings : /\ <<g, Picked(under(g))>>[1] = h
                                  /\ \E k \in DOMAIN <<g, Picked(under(g))>>[2] :
                                         <<g, Picked(under(g))>>[2][k].row = i
        BY <1>2, <3>2 DEF Under
      <4> QED BY <3>1, <4>1
    <3>3. ASSUME h \in headings, \E k \in DOMAIN Picked(under(h)) : Picked(under(h))[k].row = i
          PROVE  Under(h, i)
      <4>1. <<h, Picked(under(h))>> \in listing
        BY <1>2, <3>3
      <4> QED BY <3>1, <3>3, <4>1 DEF Under
    <3> QED BY <3>2, <3>3
  <2>2. under(h) \in SUBSET (DOMAIN guideEntries)
    OBVIOUS
  <2> HIDE DEF under, headings
  <2> QED BY <2>1, <2>2, UnderPicked
<1>4. \A m \in DOMAIN guideEntries : Heading(guideEntries[m]) = Heading(table[guideEntries[m].row])
  BY <1>1, RowsOfEntries DEF OfItsRow, Heading
<1>5. PICK k \in DOMAIN guideEntries : guideEntries[k].row = i
  BY <1>1, RowsOfEntries
<1> QED BY <1>3, <1>4, <1>5

\* What is answered are entries of the table, in its order.
LEMMA EntriesAnswered ==
    ASSUME AnswerInv, guide = "done", NEW g \in listing, NEW k \in DOMAIN g[2]
    PROVE  /\ g[2][k].row \in EntryRows /\ OfItsRow(g[2][k])
           /\ \A l \in DOMAIN g[2] : k < l => g[2][k].row < g[2][l].row
<1> DEFINE under(h) == {m \in DOMAIN guideEntries : Heading(guideEntries[m]) = h}
           found == {m \in DOMAIN guideEntries : guideEntries[m].ticker = query.of}
           rated == {m \in DOMAIN guideEntries : guideEntries[m].rating = query.of}
<1>1. guideRow = Len(table) /\ listing = ListingAsked
  BY DEF AnswerInv
<1>2. found # {} => Min(found) \in found
  <2>1. found \subseteq Nat
    BY <1>1, RowsOfEntries
  <2> HIDE DEF found
  <2> QED BY <2>1, LeastIs
<1>3. \E places \in SUBSET (DOMAIN guideEntries) : g[2] = Picked(places)
  <2>1. CASE query.by = "symbol"
    <3> DEFINE first == IF found = {} THEN {} ELSE {Min(found)}
    <3>1. g[2] = Picked(first)
      BY <1>1, <2>1 DEF ListingAsked
    <3>2. first \in SUBSET (DOMAIN guideEntries)
      BY <1>2
    <3> QED BY <3>1, <3>2
  <2>2. CASE query.by = "rating"
    <3>1. g[2] = Picked(rated)
      BY <1>1, <2>2 DEF ListingAsked
    <3> QED BY <3>1
  <2>3. CASE query.by \notin {"symbol", "rating"}
    <3>1. \E h \in {Heading(guideEntries[m]) : m \in DOMAIN guideEntries} : g = <<h, Picked(under(h))>>
      BY <1>1, <2>3 DEF ListingAsked
    <3>2. PICK h : g = <<h, Picked(under(h))>>
      BY <3>1
    <3>3. g[2] = Picked(under(h))
      BY <3>2
    <3> QED BY <3>3
  <2> QED BY <2>1, <2>2, <2>3
<1>4. PICK places \in SUBSET (DOMAIN guideEntries) : g[2] = Picked(places)
  BY <1>3
<1>5. PICK m \in places : g[2][k] = guideEntries[m]
  BY <1>4, PickedRight
<1>6. guideEntries[m].row \in EntryRows /\ OfItsRow(guideEntries[m])
  BY <1>1, <1>5, RowsOfEntries
<1>7. \A l \in DOMAIN g[2] : k < l => g[2][k].row < g[2][l].row
  BY <1>4, PickedRight
<1> QED BY <1>5, <1>6, <1>7

\* Whatever table COL answers with and whatever is asked, the answer is that part of
\* the table, each entry once, in order and in its sector.
THEOREM AnswerRight == GuideSpec => []ListingRight
<1>1. AnswerInv => ListingRight
  <2> SUFFICES ASSUME AnswerInv, guide = "done" PROVE ListingRight
    BY DEF ListingRight
  <2>1. ASSUME NEW i \in EntryRows
        PROVE  /\ query.by = "symbol" =>
                      (Under(query.of, i) <=>
                           /\ table[i].ticker = query.of
                           /\ \A j \in EntryRows : table[j].ticker = query.of => i <= j)
               /\ query.by = "rating" => (Under(query.of, i) <=> table[i].rating = query.of)
               /\ query.by = "nothing" =>
                      \A h \in Ratings \cup {"?"} : Under(h, i) <=> h = Heading(table[i])
    BY <2>1, SymbolAnswered, RatingAnswered, GuideAnswered
  <2>2. ASSUME NEW g \in listing, NEW k \in DOMAIN g[2]
        PROVE  LET e == g[2][k]
               IN  /\ e.row \in EntryRows
                   /\ e.sector = SectorAt(e.row) /\ (e.role # None => e.level # None)
                   /\ \A l \in DOMAIN g[2] : k < l => e.row < g[2][l].row
    BY <2>2, EntriesAnswered DEF OfItsRow
  <2> QED BY <2>1, <2>2 DEF ListingRight
<1> QED BY <1>1, GuideInvInit, GuideStep, AnswerInit, AnswerStep, PTL DEF GuideSpec
=============================================================================
