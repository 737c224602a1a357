---------------------------- MODULE CurrentStock ----------------------------
(***************************************************************************)
(* agents/quotes.py: the quote tools on top of the server's "current       *)
(* stock", session state that the stock-info page sets and the trade-prices *)
(* page renders.                                                           *)
(*                                                                         *)
(* The tools of the harness run one at a time, on the turn thread; the     *)
(* pages of the same COL session that a person has open do not wait for    *)
(* them.  COL's pages are external: a page is abstracted to the stock it   *)
(* is about and whether its header names the company.                      *)
(***************************************************************************)
EXTENDS Naturals

CONSTANTS
    Listed,    \* symbols the exchange knows
    Unlisted,  \* symbols a model may ask for all the same
    Company    \* the company name on a listed symbol's pages

ASSUME CurrentStockAssumption ==
    /\ Listed \cap Unlisted = {}
    /\ "none" \notin Listed \cup Unlisted

Symbols == Listed \cup Unlisted

Tools == {"get_quote", "get_stock_info", "get_trade_prices", "get_top_brokers"}
Errors == {"QuoteNotFound", "StaleTradePrices", "ParseError", "SessionExpired", "Error"}

\* What a tool call comes to: an exception, or data about a stock, under the
\* company's name or without it; "none" is the stock of a page without rows.
Results == [outcome : Errors \cup {"pending", "answer"},
            about : Listed \cup {"none"},
            named : BOOLEAN]

Pending == [outcome |-> "pending", about |-> "none", named |-> FALSE]
Failed(error) == [outcome |-> error, about |-> "none", named |-> FALSE]
Answer(about, named) == [outcome |-> "answer", about |-> about, named |-> named]

VARIABLES
    \* the COL session
    current,    \* its current stock
    expired,
    \* the tool call being executed
    pc,
    tool,
    symbol,
    info,       \* the stock the stock-info page was about
    result,     \* of the current or the last tool call
    disturbed   \* somebody else quoted since the call began (history variable)

vars == <<current, expired, pc, tool, symbol, info, result, disturbed>>

TypeOK ==
    /\ current \in Listed \cup {"none"}
    /\ expired \in BOOLEAN
    /\ pc \in {"idle", "quote", "stockInfo", "tradePrices", "topBuyers", "topSellers"}
    /\ tool \in Tools \cup {"none"}
    /\ symbol \in Symbols \cup {"none"}
    /\ info \in Listed \cup {"none"}
    /\ result \in Results
    /\ disturbed \in BOOLEAN

Init ==
    /\ current \in Listed \cup {"none"}
    /\ expired = FALSE
    /\ pc = "idle" /\ tool = "none" /\ symbol = "none" /\ info = "none"
    /\ result = Pending
    /\ disturbed = FALSE

-----------------------------------------------------------------------------
\* The page a tool fetches first.
FirstPage == [get_quote |-> "quote", get_stock_info |-> "stockInfo",
              get_trade_prices |-> "stockInfo", get_top_brokers |-> "topBuyers"]

\* Mutation: the trade prices are fetched without quoting the stock first.
BeginUnquoted(t, s) ==
    /\ pc = "idle"
    /\ tool' = t
    /\ symbol' = s
    /\ info' = IF s \in Listed THEN s ELSE "none"
    /\ result' = Pending
    /\ disturbed' = FALSE
    /\ pc' = IF t = "get_trade_prices" /\ s \in Listed THEN "tradePrices" ELSE FirstPage[t]
    /\ UNCHANGED <<current, expired>>

\* A tool of the agent is called: the symbol is upper-cased and asked for.
Begin(t, s) ==
    /\ pc = "idle"
    /\ tool' = t
    /\ symbol' = s
    /\ info' = "none"
    /\ result' = Pending
    /\ disturbed' = FALSE
    /\ pc' = FirstPage[t]
    /\ UNCHANGED <<current, expired>>

Return(value) ==
    /\ pc' = "idle"
    /\ result' = value

\* fetch_fragment raises: the session has expired, or the request failed.
FetchRaises ==
    /\ pc # "idle"
    /\ Return(Failed(IF expired THEN "SessionExpired" ELSE "Error"))
    /\ UNCHANGED <<current, expired, tool, symbol, info, disturbed>>

\* The page of get_quote, and parse_quote.  It leaves the current stock alone.
Quote ==
    /\ pc = "quote"
    /\ ~ expired
    /\ \/ symbol \in Listed /\ Return(Answer(symbol, TRUE))
       \/ symbol \notin Listed /\ Return(Failed("QuoteNotFound"))
       \/ symbol \in Listed /\ Return(Failed("ParseError"))
    /\ UNCHANGED <<current, expired, tool, symbol, info, disturbed>>

\* Mutation: the state-setting page is fetched and not looked at.
StockInfoUnparsed ==
    /\ pc = "stockInfo"
    /\ ~ expired
    /\ current' = IF symbol \in Listed THEN symbol ELSE current
    /\ info' = current'
    /\ IF tool = "get_trade_prices"
       THEN pc' = "tradePrices" /\ UNCHANGED result
       ELSE Return(IF symbol \in Listed THEN Answer(symbol, TRUE) ELSE Failed("QuoteNotFound"))
    /\ UNCHANGED <<expired, tool, symbol, disturbed>>

\* The stock-info page of a symbol, and parse_stock_info: an unknown symbol has
\* no table on its page and leaves the current stock alone.  The fragment may
\* also not parse, which does not undo what the request did.
StockInfo ==
    /\ pc = "stockInfo"
    /\ ~ expired
    /\ current' = IF symbol \in Listed THEN symbol ELSE current
    /\ \/ /\ symbol \in Listed
          /\ info' = symbol
          /\ IF tool = "get_trade_prices"
             THEN pc' = "tradePrices" /\ UNCHANGED result
             ELSE Return(Answer(symbol, TRUE))
       \/ /\ symbol \notin Listed
          /\ Return(Failed("QuoteNotFound"))
          /\ UNCHANGED info
       \/ /\ symbol \in Listed
          /\ Return(Failed("ParseError"))
          /\ UNCHANGED info
    /\ UNCHANGED <<expired, tool, symbol, disturbed>>

\* Mutation: the page is parsed and the company names are not compared.
TradePricesUnchecked ==
    /\ pc = "tradePrices"
    /\ ~ expired
    /\ \/ current # "none" /\ \E named \in BOOLEAN : Return(Answer(current, named))
       \/ Return(Failed("ParseError"))
    /\ UNCHANGED <<current, expired, tool, symbol, info, disturbed>>

\* The trade-prices page and parse_trade_prices.  The company name is the first
\* bold text outside the data table, if there is any; only then is it compared.
\* Without a current stock, or without rows, the page does not parse.
TradePrices ==
    /\ pc = "tradePrices"
    /\ ~ expired
    /\ \/ /\ current # "none"
          /\ \E named \in BOOLEAN :
                 Return(IF named /\ Company[current] # Company[info]
                        THEN Failed("StaleTradePrices")
                        ELSE Answer(current, named))
       \/ Return(Failed("ParseError"))
    /\ UNCHANGED <<current, expired, tool, symbol, info, disturbed>>

\* The broker pages carry the symbol in the request; each must have its title.
TopBuyers ==
    /\ pc = "topBuyers"
    /\ ~ expired
    /\ \/ pc' = "topSellers" /\ UNCHANGED result
       \/ Return(Failed("ParseError"))
    /\ UNCHANGED <<current, expired, tool, symbol, info, disturbed>>

\* A titled page without rows is an answer: a stock that has not traded yet, or
\* a symbol the exchange does not know.  The pages do not name the company.
TopSellers ==
    /\ pc = "topSellers"
    /\ ~ expired
    /\ \/ symbol \in Listed /\ Return(Answer(symbol, FALSE))
       \/ Return(Answer("none", FALSE))
       \/ Return(Failed("ParseError"))
    /\ UNCHANGED <<current, expired, tool, symbol, info, disturbed>>

-----------------------------------------------------------------------------
\* A person quotes a stock in a page of the same session.
Quoted(s) ==
    /\ ~ expired
    /\ current' = s
    /\ disturbed' = TRUE
    /\ UNCHANGED <<expired, pc, tool, symbol, info, result>>

\* The session ends, and a new one starts without a current stock.
Expire ==
    /\ ~ expired
    /\ expired' = TRUE
    /\ UNCHANGED <<current, pc, tool, symbol, info, result, disturbed>>

LoggedInAgain ==
    /\ expired
    /\ expired' = FALSE
    /\ current' = "none"
    /\ UNCHANGED <<pc, tool, symbol, info, result, disturbed>>

Next ==
    \/ \E t \in Tools, s \in Symbols : Begin(t, s)
    \/ FetchRaises \/ Quote \/ StockInfo \/ TradePrices \/ TopBuyers \/ TopSellers
    \/ \E s \in Listed : Quoted(s)
    \/ Expire \/ LoggedInAgain

Spec == Init /\ [][Next]_vars

-----------------------------------------------------------------------------
\* Data came back, with rows in it.
Shown == result.outcome = "answer" /\ result.about # "none"

\* get_trade_prices: data that came under a company name is that company's,
\* whoever repointed the current stock between the two fetches and whether the
\* session was replaced in between.
NamedDataIsRight ==
    Shown /\ result.named => symbol \in Listed /\ Company[result.about] = Company[symbol]

\* The state-setting fetch is parsed, not just fired: an unknown symbol is never
\* answered with the data of the stock that was quoted before it.
UnknownNeverMislabeled == Shown => symbol \in Listed

\* The two requests back to back: as long as nobody else quotes in the session,
\* the data is about the symbol asked for also when the page names no company,
\* across an expiry and a new login between the two fetches too.
UndisturbedDataIsRight == Shown /\ ~ disturbed => result.about = symbol

\* get_trade_prices' docstring: the company-name check catches the same
\* staleness arriving by any other route.
StalenessCaught == Shown /\ symbol \in Listed => Company[result.about] = Company[symbol]
=============================================================================
