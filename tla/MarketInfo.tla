----------------------------- MODULE MarketInfo -----------------------------
(***************************************************************************)
(* agents/market_info.py and parsing/market_info.py: the market summary,    *)
(* the gainers and losers, and the most active stocks, each one page with   *)
(* one or two tables that are read row by row.                              *)
(*                                                                         *)
(* A row is abstracted to what it is recognised by (its number of cells,    *)
(* rank and symbol, or the two index levels), to its change and %change with*)
(* the way the page prints them, and to the font colour of the change; the  *)
(* other fields are copied, so an entry also stands for its row.            *)
(***************************************************************************)
EXTENDS Cells, Sequences, Functions

Pages == {"summary", "gainersLosers", "mostActive"}
Fields == {"advances", "declines"}  \* of the breadth table; the others are alike

MarketRows == [fits : BOOLEAN,  \* has the number of cells of a data row
               rank : Nat \cup {None},
               symbol : BOOLEAN,  \* has text where a stock has its symbol
               previous : Decimals, current : Decimals,
               change : Decimals, pct : Decimals, style : Styles,
               colour : Colours]

MarketPage == [page : Pages,
               tables : Seq(Seq(MarketRows)),
               breadth : Seq([field : Fields, value : Decimals])]

CONSTANT MarketPages  \* the pages COL may answer with

HasLevels(r) == r.previous # None /\ r.current # None
IsStock(r) == r.rank # None /\ r.symbol
DataRow(p, r) == r.fits /\ IF p = "summary" THEN HasLevels(r) ELSE IsStock(r)

\* What the data rows of a page can be.  The summary's change is the difference of
\* the levels, with a minus sign, a colour or neither; no colour contradicts a
\* number, but a dash can keep the colour of the number that stood there.
Printable(p, r) ==
    IF p = "summary"
    THEN LET up == r.current - r.previous
         IN  /\ r.style \in {"plain", "unsigned"}
             /\ r.change \in {up, None}
             /\ r.pct # None => r.pct = 0 \/ Sign(r.pct) = Sign(up)
             /\ r.colour = "other" \/ DirectionFrom(r.colour, 0) = Sign(up)
    ELSE /\ r.style = "plain"
         /\ r.change # None => r.colour = "other" \/ DirectionFrom(r.colour, 0) = Sign(r.change)

ASSUME MarketAssumption ==
    /\ MarketPages \subseteq MarketPage
    /\ \A p \in MarketPages : \A t \in DOMAIN p.tables : \A r \in Range(p.tables[t]) :
           DataRow(p.page, r) => Printable(p.page, r)

VARIABLES
    market,    \* where the agent is
    page,      \* what COL answered
    reading,   \* the table being read
    next,      \* the rows of it that are read
    entries,   \* what was read from each table
    breadth

marketVars == <<market, page, reading, next, entries, breadth>>

NoPage == [page |-> "none", tables |-> <<>>, breadth |-> <<>>]

MarketInit ==
    /\ market = "idle" /\ page = NoPage
    /\ reading = 1 /\ next = 0
    /\ entries = <<<<>>, <<>>>>
    /\ breadth = [f \in Fields |-> None]

-----------------------------------------------------------------------------
TablesOf(p) == IF p = "gainersLosers" THEN 2 ELSE 1

\* One of the three tools fetches its page; the tables must be there.
GetMarketPage ==
    /\ market = "idle"
    /\ page' \in MarketPages
    /\ market' = IF Len(page'.tables) < TablesOf(page'.page) THEN "ParseError" ELSE "tables"
    /\ UNCHANGED <<reading, next, entries, breadth>>

\* The session has expired, or the request failed.
MarketFetchRaises ==
    /\ market = "idle"
    /\ market' = "raised"
    /\ UNCHANGED <<page, reading, next, entries, breadth>>

Table == page.tables[reading]

Row == Table[next + 1]

\* The next row of the table is read to an entry, if it is a wanted one.
ReadRow(p, wanted, entry) ==
    /\ market = "tables" /\ page.page = p
    /\ next < Len(Table)
    /\ next' = next + 1
    /\ entries' = IF Row.fits /\ wanted THEN [entries EXCEPT ![reading] = Append(@, entry)]
                                        ELSE entries
    /\ UNCHANGED <<market, page, reading, breadth>>

Change(r) == ToDecimal(Printed(r.change, r.style))
Pct(r) == ToDecimal(Printed(r.pct, r.style))

\* A number is made negative when the direction is down.
Resigned(number, direction) ==
    IF direction = "DOWN" /\ number # None /\ number > 0 THEN - number ELSE number

Entry(change, pct, direction) ==
    [row |-> next + 1, change |-> change, pct |-> pct, direction |-> direction]

\* The direction of an index: the colour's, else that of the levels.
IndexDirection == DirectionFrom(Row.colour, Row.current - Row.previous)

\* Mutation: the %change is left as it is printed.
ReadIndexChange ==
    ReadRow("summary", HasLevels(Row),
            Entry(Resigned(Change(Row), IndexDirection), Pct(Row), IndexDirection))

\* A row of the summary's grid, where positives and some negatives have no sign.
ReadIndex ==
    ReadRow("summary", HasLevels(Row),
            Entry(Resigned(Change(Row), IndexDirection), Resigned(Pct(Row), IndexDirection),
                  IndexDirection))

\* Mutation: a row without a number for the change is skipped.
ReadMoverTraded ==
    ReadRow("gainersLosers", IsStock(Row) /\ Change(Row) # None, Entry(Change(Row), Pct(Row), None))

\* A row of the gainers or of the losers, which has no direction.
ReadMover ==
    ReadRow("gainersLosers", IsStock(Row), Entry(Change(Row), Pct(Row), None))

\* Mutation: the colour is looked at also when there is no number.
ReadActiveColour ==
    ReadRow("mostActive", IsStock(Row),
            Entry(Change(Row), Pct(Row),
                  DirectionFrom(Row.colour, IF Change(Row) = None THEN 0 ELSE Change(Row))))

\* A row of the most active: without a change there is no direction either.
ReadActive ==
    ReadRow("mostActive", IsStock(Row),
            Entry(Change(Row), Pct(Row),
                  IF Change(Row) = None THEN "FLAT" ELSE DirectionFrom(Row.colour, Change(Row))))

EndTable ==
    /\ market = "tables"
    /\ next = Len(Table)
    /\ IF reading < TablesOf(page.page)
       THEN reading' = reading + 1 /\ next' = 0 /\ UNCHANGED market
       ELSE /\ market' = IF page.page # "summary" THEN "done"
                         ELSE IF entries[1] = <<>> THEN "ParseError" ELSE "breadth"
            /\ next' = 0 /\ UNCHANGED reading
    /\ UNCHANGED <<page, entries, breadth>>

\* A value that is no number leaves the field as it is.
ReadBreadth ==
    /\ market = "breadth"
    /\ next < Len(page.breadth)
    /\ next' = next + 1
    /\ LET r == page.breadth[next + 1]
       IN  breadth' = IF r.value = None THEN breadth ELSE [breadth EXCEPT ![r.field] = r.value]
    /\ UNCHANGED <<market, page, reading, entries>>

ReturnSummary ==
    /\ market = "breadth"
    /\ next = Len(page.breadth)
    /\ market' = "done"
    /\ UNCHANGED <<page, reading, next, entries, breadth>>

MarketNext ==
    \/ GetMarketPage \/ MarketFetchRaises
    \/ ReadIndex \/ ReadMover \/ ReadActive
    \/ EndTable \/ ReadBreadth \/ ReturnSummary

MarketSpec == MarketInit /\ [][MarketNext]_marketVars

-----------------------------------------------------------------------------
RowOf(t, k) == page.tables[t][entries[t][k].row]

\* No row of a stock, with a rank and a symbol, and none with the two levels of an
\* index is lost, also one whose other values are dashes.  The header and a row
\* with a rank but a blank symbol are: a gap in the ranks means that the page has
\* one, or has such a row.
RowsKept ==
    market = "done" =>
        \A t \in 1 .. TablesOf(page.page) :
            /\ {entries[t][k].row : k \in DOMAIN entries[t]}
                   = {i \in DOMAIN page.tables[t] : DataRow(page.page, page.tables[t][i])}
            /\ \A k, l \in DOMAIN entries[t] : k < l => entries[t][k].row < entries[t][l].row

\* A change and a %change have the sign of what they report, whether the page gives
\* it by a minus sign, by the colour of the font, or by the levels only.
SignsRight ==
    \A t \in DOMAIN entries : \A k \in DOMAIN entries[t] :
        /\ entries[t][k].change = RowOf(t, k).change
        /\ entries[t][k].pct = RowOf(t, k).pct

\* The direction never contradicts the numbers next to it: it is that of the two
\* levels of an index and of the change of a stock, and a stock without a
\* change has none, whatever colour its dash is in.
DirectionsRight ==
    \A t \in DOMAIN entries : \A k \in DOMAIN entries[t] :
        LET r == RowOf(t, k)
        IN  entries[t][k].direction =
                CASE page.page = "summary" -> Sign(r.current - r.previous)
                  [] page.page = "gainersLosers" -> None
                  [] OTHER -> IF r.change = None THEN "FLAT" ELSE Sign(r.change)
=============================================================================
