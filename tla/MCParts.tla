------------------------------ MODULE MCParts -------------------------------
(***************************************************************************)
(* The read-only tools and the delivery of a reply, which share no state:   *)
(* every behaviour is one of one part, and the others stay where they are.  *)
(***************************************************************************)
EXTENDS MCCurrentStock, Portfolio, MarketInfo, TechnicalGuide, ReplyChunks

VARIABLE part

Parts == {"quotes", "portfolio", "market", "guide", "reply"}

PartsInit ==
    /\ part \in Parts
    /\ Init
    /\ part # "quotes" => current = "none"
    /\ PortfolioInit /\ MarketInit /\ GuideInit /\ ReplyInit

Quotes ==
    /\ part = "quotes" /\ Next
    /\ UNCHANGED <<part, portfolioVars, marketVars, guideVars, replyVars>>

Account ==
    /\ part = "portfolio" /\ PortfolioNext
    /\ UNCHANGED <<part, vars, marketVars, guideVars, replyVars>>

Market ==
    /\ part = "market" /\ MarketNext
    /\ UNCHANGED <<part, vars, portfolioVars, guideVars, replyVars>>

Guide ==
    /\ part = "guide" /\ GuideNext
    /\ UNCHANGED <<part, vars, portfolioVars, marketVars, replyVars>>

Reply ==
    /\ part = "reply" /\ ReplyNext
    /\ UNCHANGED <<part, vars, portfolioVars, marketVars, guideVars>>

PartsNext == Quotes \/ Account \/ Market \/ Guide \/ Reply

PartsSpec == PartsInit /\ [][PartsNext]_<<part, vars, portfolioVars, marketVars, guideVars, replyVars>>

-----------------------------------------------------------------------------
\* The account page: every optional row there and not, the cash balance in its two
\* places, losses in each of the ways, dashes among the numbers, both orders of the
\* day change.
Cell(value, style) == [value |-> value, style |-> style, percent |-> FALSE]
Percent(value, style) == [value |-> value, style |-> style, percent |-> TRUE]
Dash == Cell(None, "plain")
AccountRow(label, cells) == [label |-> label, cells |-> cells, fund |-> FALSE]
Holdings(n, fund) ==
    [i \in 1 .. n |-> [label |-> "holding", cells |-> <<>>, fund |-> fund]]

Balances == {<<Cell(1, "plain"), Cell(-2, "accounting")>>, <<Cell(1, "plain"), Dash>>, <<Dash, Dash>>}

CashSections ==
    {<<AccountRow("cash", b)>> : b \in Balances}
    \cup {<<AccountRow("cash", <<>>), AccountRow("cashValues", b)>> : b \in Balances}

\* A section of n holdings, its total and, on some pages, its gain or loss.
Section(holdings, total, gain) ==
    LET change == <<Cell(-11, "accounting"), Percent(-12, "decorated")>>
    IN  {holdings \o <<AccountRow(total, <<value>> \o change)>> \o g :
            value \in {Cell(10, "plain"), Dash}, g \in {<<>>, <<AccountRow(gain, change)>>}}

EquitySections ==
    {<<>>} \cup UNION {Section(Holdings(n, FALSE), "equities", "equitiesGain") : n \in 0 .. 2}

FundSections ==
    {<<>>} \cup UNION {Section(<<AccountRow("other", <<>>)>> \o Holdings(n, TRUE), "funds", "fundsGain") :
                        n \in 0 .. 2}

DayChanges ==
    LET percents == {Percent(5, "signed"), Percent(-5, "accounting"), Percent(None, "plain")}
        amounts == {Cell(6, "plain"), Cell(0, "decorated")}
    IN  {<<AccountRow("dayChange", <<p, a>>)>> : p \in percents, a \in amounts} \cup
        {<<AccountRow("dayChange", <<a, p>>)>> : p \in percents, a \in amounts}

GainLosses == {<<>>, <<AccountRow("gainLoss", <<Percent(-5, "decorated"), Cell(-6, "accounting")>>)>>}

TradeValues == {<<AccountRow("tradeValue", <<c>>)>> : c \in {Cell(7, "plain"), Dash}}

\* The sections and the amounts are not read from each other's rows.
MCPortfolioPages ==
    LET Pick(S) == {CHOOSE s \in S : TRUE}
        Of(C, E, F, V, D, G) ==
            {c \o e \o f \o v \o d \o g :
                c \in C, e \in E, f \in F, v \in V, d \in D, g \in G}
    IN  Of(CashSections, EquitySections, FundSections, Pick(TradeValues), Pick(DayChanges), {<<>>})
        \cup Of(Pick(CashSections), Pick(EquitySections), Pick(FundSections),
                TradeValues, DayChanges, GainLosses)

-----------------------------------------------------------------------------
\* The market pages: every printable row alone, and rows of each kind in tables of
\* two, of which the losers are there or missing.
Rows(p, levels, ranks) ==
    {r \in [fits : {TRUE}, rank : ranks, symbol : {TRUE}, previous : levels, current : levels,
            change : {-1, 0, 1, None}, pct : {-2, 0, 2, None},
            style : {"plain", "unsigned"}, colour : Colours] :
        DataRow(p, r) => Printable(p, r)}

Header == [fits |-> TRUE, rank |-> None, symbol |-> TRUE, previous |-> None, current |-> None,
           change |-> None, pct |-> None, style |-> "plain", colour |-> "other"]
Halted == [Header EXCEPT !.rank = 2, !.colour = "red"]
Up == [Header EXCEPT !.rank = 1, !.previous = 1, !.current = 2, !.change = 1, !.pct = 2]
Narrow == [Up EXCEPT !.fits = FALSE]
Nameless == [Up EXCEPT !.symbol = FALSE]

Tables == {<<>>} \cup {<<Header, r>> : r \in {Up, Halted, Narrow, Nameless}}
                  \cup {<<Nameless, Halted>>, <<Halted, Up>>}

MCMarketPages ==
    [page : {"summary"}, tables : {<<<<r>>>> : r \in Rows("summary", {1, 2}, {None})}, breadth : {<<>>}]
    \cup [page : {"mostActive"}, tables : {<<<<r>>>> : r \in Rows("mostActive", {None}, {1})},
          breadth : {<<>>}]
    \cup [page : {"summary", "mostActive"}, tables : {<<>>} \cup {<<t>> : t \in Tables},
          breadth : {<<[field |-> "advances", value |-> 3], [field |-> "declines", value |-> None]>>}]
    \cup [page : {"gainersLosers"}, tables : {<<t>> : t \in Tables} \cup (Tables \X Tables),
          breadth : {<<>>}]

-----------------------------------------------------------------------------
\* Guides of up to three rows.
MCGuideTables ==
    LET Separator(label) == [kind |-> "separator", sector |-> label, ticker |-> None,
                             rating |-> None, level |-> None, colour |-> None]
        Listing(t, r, l, c) == [kind |-> "entry", sector |-> None, ticker |-> t,
                              rating |-> r, level |-> l, colour |-> c]
        kinds == {Separator("Banks"), Separator("Mining"), Separator(None),
                  [Separator(None) EXCEPT !.kind = "other"],
                  Listing("BDO", "BUY", 5, "red"), Listing("BDO", None, None, "other"),
                  Listing("AT", "SELL", 5, None)}
    IN  UNION {[1 .. n -> kinds] : n \in 0 .. 3}

-----------------------------------------------------------------------------
\* Answers of up to four characters, in chunks of two.
MCAnswers == UNION {[1 .. n -> Characters] : n \in 0 .. 4}
=============================================================================
