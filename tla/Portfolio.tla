------------------------------ MODULE Portfolio ------------------------------
(***************************************************************************)
(* agents/portfolio.py and parsing/portfolio.py: the account page, read     *)
(* leaf row by leaf row.  The sections of the page have no markers of their *)
(* own: what a row is follows from its label, and which section a holding   *)
(* is in from the rows above it.                                            *)
(*                                                                         *)
(* A row is abstracted to its label and its cells with numbers (a dash is a *)
(* number that is None); the fields of a holding are copied one by one, so  *)
(* a holding is the row it comes from.                                      *)
(***************************************************************************)
EXTENDS Cells, FiniteSetsExt, Functions, Sequences

\* "cashValues" is the row below the labels of the cash section, when the
\* numbers are not next to them; the parser takes it for any "other" row.
\* "equitiesGain" and "fundsGain" are the rows of the gain or loss of a section.
Labels == {"cash", "cashValues", "tradeValue", "equities", "equitiesGain", "funds", "fundsGain",
           "dayChange", "gainLoss", "holding", "other"}

AccountCells == [value : Decimals, style : Styles, percent : BOOLEAN]

\* fund: a holding that is a mutual fund, which the page does not say on its row.
AccountRows == [label : Labels, cells : Seq(AccountCells), fund : BOOLEAN]

CONSTANT PortfolioPages  \* the leaf rows of the pages COL may answer with

\* The totals of the equities, where there are any, separate them from the funds.
ASSUME PortfolioAssumption ==
    /\ PortfolioPages \subseteq Seq(AccountRows)
    /\ \A page \in PortfolioPages : \A i, j \in DOMAIN page :
           page[i].label \in {"equities", "equitiesGain"} /\ page[j].label = "holding"
               => (page[j].fund <=> i < j)

\* How many cells with numbers a row of the summary has.
Width == [cash |-> 2, cashValues |-> 2, tradeValue |-> 1,
          equities |-> 3, equitiesGain |-> 3, funds |-> 3, fundsGain |-> 3]

Amounts == {"dayChange", "gainLoss"}

\* The summary's rows are each there at most once, and their numbers carry their
\* own sign; any of them may be a dash.  The cash balance is next to its labels or
\* in the row below, and a change is one percentage and one amount, or only one
\* of the two.
ASSUME SummaryAssumption ==
    \A page \in PortfolioPages : \A i \in DOMAIN page :
        LET label == page[i].label
            cells == page[i].cells
        IN  /\ \A j \in DOMAIN page :
                   page[j].label = label /\ label \notin {"holding", "other"} => i = j
            /\ label \in DOMAIN Width => Len(cells) <= Width[label]
            /\ label = "cashValues" =>
                   i > 1 /\ page[i - 1].label = "cash" /\ page[i - 1].cells = <<>>
            /\ label \in Amounts =>
                   \A c, d \in DOMAIN cells : cells[c].percent = cells[d].percent => c = d
            /\ \A c \in DOMAIN cells : cells[c].style # "unsigned"

VARIABLES
    account,   \* where get_portfolio is
    rows,      \* the leaf rows of the page
    row,       \* how many of them are read
    inFunds,
    equities, funds,
    cash, equitiesTotal, fundsTotal, tradeValue, dayChange, gainLoss

listVars == <<inFunds, equities, funds>>
totalVars == <<cash, equitiesTotal, fundsTotal, tradeValue, dayChange, gainLoss>>
portfolioVars == <<account, rows, row, listVars, totalVars>>

NoAmounts == [pct |-> None, amount |-> None]

PortfolioInit ==
    /\ account = "idle" /\ rows = <<>> /\ row = 0
    /\ inFunds = FALSE /\ equities = <<>> /\ funds = <<>>
    /\ cash = <<>> /\ equitiesTotal = <<>> /\ fundsTotal = <<>>
    /\ tradeValue = <<>> /\ dayChange = NoAmounts /\ gainLoss = NoAmounts

-----------------------------------------------------------------------------
Number(cell) == ToDecimal(Printed(cell.value, cell.style))

\* The first n numbers of a row; fewer if it has fewer.
NumbersIn(cells, n) ==
    LET at == InOrder({c \in DOMAIN cells : Number(cells[c]) # None}, Len(cells))
    IN  [k \in 1 .. Min({n, Len(at)}) |-> Number(cells[at[k]])]

\* The first number with a % sign, and the first of the others.
PctAndAmount(cells) ==
    LET First(places) == IF places = {} THEN None ELSE Number(cells[Min(places)])
        numbers == {i \in DOMAIN cells : Number(cells[i]) # None}
        percents == {i \in numbers : cells[i].percent}
        others == numbers \ (IF percents = {} THEN {} ELSE {Min(percents)})
    IN  [pct |-> First(percents), amount |-> First(others)]

\* get_portfolio fetches the page.
GetPortfolio ==
    /\ account = "idle"
    /\ \E page \in PortfolioPages : rows' = page
    /\ account' = "reading"
    /\ UNCHANGED <<row, listVars, totalVars>>

\* The session has expired, or the request failed.
AccountFetchRaises ==
    /\ account = "idle"
    /\ account' = "raised"
    /\ UNCHANGED <<rows, row, listVars, totalVars>>

\* The next row is one of those with these labels.
Read(labels) ==
    /\ account = "reading"
    /\ row < Len(rows)
    /\ rows[row + 1].label \in labels
    /\ row' = row + 1
    /\ UNCHANGED <<account, rows>>

RowCells(r) == IF r \in DOMAIN rows THEN rows[r].cells ELSE <<>>

\* The numbers are right of the labels or, if there are none, in the next row.
ReadCash ==
    /\ Read({"cash"})
    /\ LET inline == NumbersIn(RowCells(row + 1), 2)
       IN  cash' = IF inline # <<>> THEN inline ELSE NumbersIn(RowCells(row + 2), 2)
    /\ UNCHANGED <<listVars, equitiesTotal, fundsTotal, tradeValue, dayChange, gainLoss>>

ReadTradeValue ==
    /\ Read({"tradeValue"})
    /\ tradeValue' = NumbersIn(RowCells(row + 1), 1)
    /\ UNCHANGED <<listVars, cash, equitiesTotal, fundsTotal, dayChange, gainLoss>>

\* Mutation: the totals do not end the section.
ReadEquitiesTotalOnly ==
    /\ Read({"equities", "equitiesGain"})
    /\ equitiesTotal' = NumbersIn(RowCells(row + 1), 3)
    /\ UNCHANGED <<listVars, cash, fundsTotal, tradeValue, dayChange, gainLoss>>

\* Both TOTAL EQUITIES and TOTAL EQUITIES GAIN/LOSS contain the label looked for.
ReadEquitiesTotal ==
    /\ Read({"equities", "equitiesGain"})
    /\ equitiesTotal' = NumbersIn(RowCells(row + 1), 3)
    /\ inFunds' = TRUE
    /\ UNCHANGED <<equities, funds, cash, fundsTotal, tradeValue, dayChange, gainLoss>>

\* A gain or loss of the funds whose label contains TOTAL MUTUAL FUNDS is read alike.
ReadFundsTotal ==
    /\ Read({"funds", "fundsGain"})
    /\ fundsTotal' = NumbersIn(RowCells(row + 1), 3)
    /\ UNCHANGED <<listVars, cash, equitiesTotal, tradeValue, dayChange, gainLoss>>

ReadDayChange ==
    /\ Read({"dayChange"})
    /\ dayChange' = PctAndAmount(RowCells(row + 1))
    /\ UNCHANGED <<listVars, cash, equitiesTotal, fundsTotal, tradeValue, gainLoss>>

ReadGainLoss ==
    /\ Read({"gainLoss"})
    /\ gainLoss' = PctAndAmount(RowCells(row + 1))
    /\ UNCHANGED <<listVars, cash, equitiesTotal, fundsTotal, tradeValue, dayChange>>

ReadHolding ==
    /\ Read({"holding"})
    /\ IF inFunds THEN funds' = Append(funds, row + 1) /\ UNCHANGED equities
                  ELSE equities' = Append(equities, row + 1) /\ UNCHANGED funds
    /\ UNCHANGED <<inFunds, totalVars>>

SkipRow ==
    /\ Read({"cashValues", "other"})
    /\ UNCHANGED <<listVars, totalVars>>

ReturnPortfolio ==
    /\ account = "reading"
    /\ row = Len(rows)
    /\ account' = "done"
    /\ UNCHANGED <<rows, row, listVars, totalVars>>

PortfolioNext ==
    \/ GetPortfolio \/ AccountFetchRaises
    \/ ReadCash \/ ReadTradeValue \/ ReadEquitiesTotal \/ ReadFundsTotal
    \/ ReadDayChange \/ ReadGainLoss \/ ReadHolding \/ SkipRow
    \/ ReturnPortfolio

PortfolioSpec == PortfolioInit /\ [][PortfolioNext]_portfolioVars

-----------------------------------------------------------------------------
EquitiesEnd(i) == rows[i].label \in {"equities", "equitiesGain"}

InPageOrder(list) == \A k, l \in DOMAIN list : k < l => list[k] < list[l]

\* No holding is lost, listed twice or listed out of the page's order, no equity is
\* listed as a fund, and a fund is listed as an equity only on a page that
\* shows no total of equities at all.
SectionsRight ==
    /\ Range(equities) \cup Range(funds) = {i \in 1 .. row : rows[i].label = "holding"}
    /\ InPageOrder(equities) /\ InPageOrder(funds)
    /\ \A i \in Range(funds) : rows[i].fund
    /\ \A i \in Range(equities) : rows[i].fund => ~ \E j \in DOMAIN rows : EquitiesEnd(j)

\* The values a row shows, with and without a % sign.
Shows(i, percent) ==
    LET cells == {c \in DOMAIN rows[i].cells : rows[i].cells[c].percent = percent}
    IN  IF cells = {} THEN None ELSE rows[i].cells[Min(cells)].value

Values(i) == [c \in DOMAIN rows[i].cells |-> rows[i].cells[c].value]

HasRow(label) == \E j \in DOMAIN rows : rows[j].label = label

\* Without dashes the row is read whole.  A dash is left out, and what is behind it
\* moves to the field before; the numbers in front of the first are in place.
InPlace(read, values) ==
    /\ (\A c \in DOMAIN values : values[c] # None) => read = values
    /\ \A k \in DOMAIN values :
           (\A c \in 1 .. k : values[c] # None) => k \in DOMAIN read /\ read[k] = values[k]

\* Every number of the summary that no dash precedes in its row is in the field
\* the page shows it for, whichever way the page prints a loss, in whichever
\* order a percentage and an amount come, and wherever the cash balance stands.
\* The total of a section is only safe on a page that shows no gain or loss of
\* the section.
TotalsRight ==
    account = "done" =>
        \A i \in DOMAIN rows :
            /\ rows[i].label \in {"cash", "cashValues"} /\ Values(i) # <<>>
                   => InPlace(cash, Values(i))
            /\ rows[i].label = "tradeValue" => InPlace(tradeValue, Values(i))
            /\ rows[i].label = "equities" /\ ~ HasRow("equitiesGain")
                   => InPlace(equitiesTotal, Values(i))
            /\ rows[i].label = "funds" /\ ~ HasRow("fundsGain")
                   => InPlace(fundsTotal, Values(i))
            /\ rows[i].label = "dayChange" =>
                   dayChange = [pct |-> Shows(i, TRUE), amount |-> Shows(i, FALSE)]
            /\ rows[i].label = "gainLoss" =>
                   gainLoss = [pct |-> Shows(i, TRUE), amount |-> Shows(i, FALSE)]

\* docs/read-only-agents.md: the equities are followed by TOTAL EQUITIES and by
\* TOTAL EQUITIES GAIN/LOSS; what is returned as their total is the former.
EquitiesTotalKept ==
    account = "done" =>
        \A i \in DOMAIN rows :
            rows[i].label = "equities" => InPlace(equitiesTotal, Values(i))
=============================================================================
